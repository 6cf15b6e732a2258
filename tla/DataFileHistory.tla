-------------------------- MODULE DataFileHistory --------------------------
(***************************************************************************)
(* What the storage engine keeps true, and that it implements              *)
(* PropertyGraph.  A command takes many writes of the file to carry out;   *)
(* the history variable store holds the graph and the response as they     *)
(* were when the last command ended, or the program was last started, so   *)
(* that a whole command becomes one step of PropertyGraph.                 *)
(***************************************************************************)
EXTENDS DataFile, SequencesExt

VARIABLE store

NodeRecord(f, p) ==
  [labels |-> LabelsOf(f, p), props |-> PropsOf(f, p), rels |-> ToBag(RelationsOf(f, p))]
Graph(f) == [p \in NodesInUse(f) |-> NodeRecord(f, p)]

HInit == Init /\ store = [graph |-> << >>, number |-> 0, touched |-> {}]
HNext ==
  /\ Next
  /\ store' = IF exec'.pc = "idle"
              THEN [graph |-> Graph(file'), touched |-> exec.matched,
                    number |-> IF exec.pc = "down" THEN store.number ELSE exec'.number]
              ELSE store
HSpec == HInit /\ [][HNext]_<<vars, store>>
HFairSpec == HSpec /\ WF_vars(Step)

(* The engine implements the abstract graph: matching, the effect of every *)
(* command on every node and the number it answers with are those of       *)
(* PropertyGraph, whatever blocks and free cells the data passes through.  *)
Abstract == INSTANCE PropertyGraph WITH
  graph <- store.graph, number <- store.number, NodeId <- NodePtr
Implements == Abstract!Spec

-----------------------------------------------------------------------------
(* Cells and free lists, between commands.                                 *)
AtRest == exec.pc = "idle"

Cells(f, kind) == {p \in CellPtr(kind) : IsCell(f, kind, p)}
ChainSet(f, kind, p) == LET c == Chain(f, kind, p) IN {c[i] : i \in DOMAIN c}
LiveCells(f, kind) ==
  UNION {ChainSet(f, kind, NodeAt(f, n).last[kind]) : n \in NodesInUse(f)}
(* The cells the pool will hand out before it needs a new block: the free  *)
(* list and, where the list runs into a cell that was never used, the rest *)
(* of that cell's block.                                                   *)
Handouts(f, kind) ==
  LET list == ChainSet(f, kind, f[0].head[kind])
  IN list \cup {p \in Cells(f, kind) : \E q \in list :
                   /\ CellAt(f, q).prev = Null
                   /\ q.block_num = p.block_num /\ q.offset < p.offset}

(* Every cell belongs to one place of one chain, or to the free list:      *)
(* no node shares a cell with another, no chain runs into itself, and      *)
(* nothing in use can be handed out again.                                 *)
CellsOwnedOnce ==
  AtRest => \A kind \in CellKind :
    /\ \A n \in NodesInUse(file) :
         LET c == ChainOf(file, kind, n)
         IN \A i, j \in DOMAIN c : c[i] = c[j] => i = j
    /\ \A m, n \in NodesInUse(file) :
         m # n => ChainSet(file, kind, NodeAt(file, m).last[kind])
                    \cap ChainSet(file, kind, NodeAt(file, n).last[kind]) = {}
    /\ LiveCells(file, kind) \cap Handouts(file, kind) = {}

(* No cell is lost: what no node uses will be handed out again.            *)
NoCellLost ==
  AtRest => \A kind \in CellKind :
    Cells(file, kind) = LiveCells(file, kind) \cup Handouts(file, kind)

(* The same for the nodes: match shows every node in use, and create will  *)
(* not put a new node over one of them.                                    *)
NodeHandouts(f) ==
  LET turns[k \in Nat] ==
        IF k = 0 THEN {f[0].head["NODE"]}
        ELSE {f[0].head["NODE"]}
               \cup {HeadAfter(p, NodeAt(f, p).last["LABEL"], NodesIn(p.block_num)) :
                       p \in {q \in turns[k - 1] : IsNode(f, q)}}
  IN turns[Cardinality(NodePtr)]
NodesAllScanned == AtRest => ScannedNodes(file) = NodesInUse(file)
NodesOwnedOnce == AtRest => NodesInUse(file) \cap NodeHandouts(file) = {}

(* Blocks below empty_block are in use, the others are not, and the scan   *)
(* reaches every node block.                                               *)
BlocksLinked ==
  AtRest =>
    /\ \A b \in Block : file[b].type = "ABSENT" <=> b >= file[0].empty_block
    /\ \A b \in Block : file[b].type = "NODE" => b \in NodeBlocks(file)
    /\ ScanEnds(file)

-----------------------------------------------------------------------------
(* At every moment, of what the stream shows and of what a kill leaves.    *)

(* Nothing is ever read as what it is not.                                 *)
NeverWild == exec.pc # "wild"

(* Whatever the moment, the chains of every node end and lead to written   *)
(* strings only: a cell is on disk before a pointer to it, a string before *)
(* the cell that names it.                                                 *)
AlwaysReadable ==
  \A f \in {file, disk} : \A n \in NodesInUse(f) : \A kind \in CellKind :
    ChainReadable(f, kind, n)

(* A kill harms only the nodes of the command it interrupts, or of the     *)
(* last command if its last write was not flushed: all others are on disk  *)
(* as they were.                                                           *)
Working == IF AtRest THEN store.touched ELSE exec.matched
OthersOnDisk ==
  exec.pc \notin {"down", "wild"} =>
    \A n \in DOMAIN store.graph \ Working :
      n \in NodesInUse(disk) /\ NodeRecord(disk, n) = store.graph[n]

(* As long as nobody kills it or stops it, the server runs.                *)
StaysUp == exec.pc # "down"

(* A deletion of relations of which the process dies has then, on disk,    *)
(* removed all it was to remove from one node, and nothing else: a client  *)
(* that asks again after each restart gets it done.                        *)
Asked(r) == job.name \in {ALL, r.name} /\ r.node_b \in exec.seconds
DyingRemoves ==
  [][exec.lost_place /\ exec.current = Null /\ Len(exec.jobs) = 1 /\ exec'.pc = "down" =>
       LET before == store.graph[exec.node].rels
           kept == [r \in {q \in DOMAIN before : ~ Asked(q)} |-> before[r]]
       IN /\ kept # before
          /\ Graph(disk') = [store.graph EXCEPT ![exec.node].rels = kept]]_<<vars, store>>

(* A command once begun comes to its end, or the process to its own.       *)
CommandsEnd == [](~ (AtRest \/ Down) => <>(AtRest \/ Down))
=============================================================================
