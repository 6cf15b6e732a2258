------------------------------ MODULE DataFile ------------------------------
(***************************************************************************)
(* The storage engine: datafile.c, node.c, label.c, attribute.c and        *)
(* relation.c, run by execute_command of server.c, one command at a time   *)
(* (the server calls it with its mutex held).                              *)
(*                                                                         *)
(* A step is the code from one write of the file to the next, so that a    *)
(* crash can fall between any two writes.  The file is read and written    *)
(* through one stdio stream: fseek, which starts every read and every      *)
(* write, flushes the write before it, and so a killed process loses at    *)
(* most the last write no fseek followed.  disk is what a kill leaves.     *)
(***************************************************************************)
EXTENDS Layout, FiniteSets

CONSTANTS
  Commands,     \* the queries clients send
  ALL,          \* the NULL of remove_labels, remove_attributes and
                \* delete_relations: every cell
  UINT16,       \* the values of a uint16_t (65536)
  KillPoints,   \* where the process may be killed: pairs of a program counter
                \* and the job at hand
  QuitPoints    \* where it may be stopped with 'q', likewise

VARIABLES
  file,         \* the blocks of the file, as the stream shows them
  disk,         \* the blocks that survive a kill
  ctrl_block,   \* datafile.ctrl_block: the copy of block 0 kept in memory
  exec          \* the command being executed: its program counter and locals

vars == <<file, disk, ctrl_block, exec>>

-----------------------------------------------------------------------------
(* The query of a client (message.h: query_info).  schema.xsd allows at    *)
(* most one changed label and one changed property.                        *)
property == [key : String, value : String]
query_info ==
  [command_type : {"match", "create", "set", "remove", "delete"},
   labels : Seq(String), props : Seq(property),
   has_relation : BOOLEAN, rel_name : String,
   rel_node_labels : Seq(String), rel_node_props : Seq(property),
   changed_labels : Seq(String), changed_props : Seq(property)]

ASSUME CommandsAssumption ==
  /\ Commands \subseteq query_info
  /\ \A info \in Commands : Len(info.changed_labels) + Len(info.changed_props) <= 1
  /\ \A info \in Commands :
       ~ info.has_relation => info.rel_node_labels = << >> /\ info.rel_node_props = << >>
  /\ ALL \notin String
  /\ UINT16 \in Nat \ {0}

(* What execute_command does to each matched node in turn: "add" a cell,   *)
(* "put" an attribute (set_new_attributes), "relate" it to every second    *)
(* node, "remove" the cells called name, "free" it.                        *)
Job ==
  [op : {"add"}, kind : {"LABEL"}, name : String, value : {ALL}]
    \cup [op : {"add", "put"}, kind : {"ATTRIBUTE"}, name : String, value : String]
    \cup [op : {"relate"}, kind : {"RELATION"}, name : String, value : {ALL}]
    \cup [op : {"remove", "free"}, kind : CellKind,
          name : String \cup {ALL}, value : String \cup {ALL}]
LabelJob(op, l) == [op |-> op, kind |-> "LABEL", name |-> l, value |-> ALL]
PropJob(op, p) == [op |-> op, kind |-> "ATTRIBUTE", name |-> p.key, value |-> p.value]
LabelJobs(op, ls) == [i \in 1 .. Len(ls) |-> LabelJob(op, ls[i])]
PropJobs(op, ps) == [i \in 1 .. Len(ps) |-> PropJob(op, ps[i])]

AllOf(op, kind) == [op |-> op, kind |-> kind, name |-> ALL, value |-> ALL]
RelationJob(op, name) == [op |-> op, kind |-> "RELATION", name |-> name, value |-> ALL]

delete_nodes ==
  << AllOf("remove", "LABEL"), AllOf("remove", "ATTRIBUTE"), AllOf("remove", "RELATION"),
     AllOf("free", "LABEL") >>

Jobs(info) ==
  CASE info.command_type = "create" ->
         IF info.has_relation THEN << RelationJob("relate", info.rel_name) >>
         ELSE LabelJobs("add", info.labels) \o PropJobs("add", info.props)
    [] info.command_type = "set" ->
         LabelJobs("add", info.changed_labels) \o PropJobs("put", info.changed_props)
    [] info.command_type = "remove" ->
         LabelJobs("remove", info.changed_labels) \o PropJobs("remove", info.changed_props)
    [] OTHER ->
         IF info.has_relation THEN << RelationJob("remove", info.rel_name) >> ELSE delete_nodes

-----------------------------------------------------------------------------
(* Reading the graph out of the file.                                      *)

(* The cells of a chain, newest first: from last_label (last_attribute)    *)
(* along prev.  The bound on the length only stops a cyclic chain, on      *)
(* which the code would loop for ever.                                     *)
MaxChain(kind) == MAX_BLOCKS * CellsIn(kind)
Chain(f, kind, p) ==
  LET walk[at \in cell_ptr \X Nat] ==
        LET q == at[1]
            k == at[2]
        IN IF k = 0 \/ ~ IsCell(f, kind, q) THEN << >>
           ELSE << q >> \o walk[<< CellAt(f, q).prev, k - 1 >>]
  IN walk[<< p, MaxChain(kind) + 1 >>]
ChainOf(f, kind, p) == Chain(f, kind, NodeAt(f, p).last[kind])

(* The code can follow the chain to its end and read every name on it.     *)
ChainReadable(f, kind, p) ==
  LET c == ChainOf(f, kind, p)
  IN /\ Len(c) <= MaxChain(kind)
     /\ Null = IF c = << >> THEN NodeAt(f, p).last[kind] ELSE CellAt(f, c[Len(c)]).prev
     /\ \A i \in DOMAIN c :
          /\ IsString(f, CellAt(f, c[i]).name)
          /\ kind = "ATTRIBUTE" => IsString(f, CellAt(f, c[i]).value)

(* What match takes for the chain: nothing, if its first cell is blank.    *)
Blank(f, kind, p) == LET c == ChainOf(f, kind, p) IN c # << >> /\ CellAt(f, c[1]).name.block_num = 0
Shown(f, kind, p) == IF Blank(f, kind, p) THEN << >> ELSE ChainOf(f, kind, p)
Name(f, q) == StringAt(f, CellAt(f, q).name)

LabelsOf(f, p) ==
  LET c == Shown(f, "LABEL", p) IN [i \in DOMAIN c |-> Name(f, c[i])]
PropsOf(f, p) ==
  LET c == Shown(f, "ATTRIBUTE", p)
  IN [i \in DOMAIN c |-> [key   |-> Name(f, c[i]), value |-> StringAt(f, CellAt(f, c[i]).value)]]
RelationsOf(f, p) ==
  LET c == Shown(f, "RELATION", p)
  IN [i \in DOMAIN c |-> [name |-> Name(f, c[i]), node_b |-> CellAt(f, c[i]).value]]

(* The blocks match scans: block 0, then the node blocks along             *)
(* prev_node_block and prev_block, newest first.                           *)
BlockAfter(f, b) == IF b = 0 THEN f[0].prev_node_block ELSE f[b].prev_block
NodeBlocks(f) ==
  LET scan[k \in Nat] ==
        IF k = 0 THEN {0}
        ELSE {0} \cup {b \in {BlockAfter(f, a) : a \in scan[k - 1]} : f[b].type = "NODE"}
  IN scan[MAX_BLOCKS]
(* The scan meets node blocks only, and comes to its end.                  *)
ScanEnds(f) ==
  \A b \in NodeBlocks(f) :
    /\ BlockAfter(f, b) \in NodeBlocks(f)
    /\ b # 0 => BlockAfter(f, b) < b

NeverUsed_AnyFree(n) == n.is_empty = 0  \* seeded fault: ends at a freed node
NeverUsed(n) == n.is_empty = 0 /\ n.last["LABEL"] = Null
(* In each block the scan stops at the first cell that looks never used.   *)
ScannedNodes(f) ==
  {p \in NodePtr :
     /\ p.block_num \in NodeBlocks(f)
     /\ NodeAt(f, p).is_empty = 1
     /\ \A o \in 0 .. p.offset - 1 : ~ NeverUsed(NodeAt(f, Ptr(p.block_num, o)))}
(* The nodes of the graph: every cell in use in a node block.              *)
NodesInUse(f) == {p \in NodePtr : IsNode(f, p) /\ NodeAt(f, p).is_empty = 1}

ScanBefore(p, q) ==
  IF p.block_num = q.block_num THEN p.offset <= q.offset
  ELSE p.block_num = 0 \/ (q.block_num # 0 /\ q.block_num < p.block_num)

(* match_labels, match_attributes: every wanted element found, each node   *)
(* element standing for one wanted element.                                *)
Occurrences(s, x) == Cardinality({i \in DOMAIN s : s[i] = x})
AllFound(wanted, has) ==
  \A i \in DOMAIN wanted : Occurrences(wanted, wanted[i]) <= Occurrences(has, wanted[i])
Like(f, labels, props) ==
  {p \in ScannedNodes(f) : AllFound(labels, LabelsOf(f, p)) /\ AllFound(props, PropsOf(f, p))}

(* The second nodes of a relation, and the relations of p that lead to     *)
(* one.  With a relation in the query only they count: what labels and     *)
(* properties said of the first node is set aside (matching = false).      *)
Seconds(f, info) == Like(f, info.rel_node_labels, info.rel_node_props)
Leading_Anywhere(f, p, info) ==  \* seeded fault: the second node is not looked at
  {i \in DOMAIN RelationsOf(f, p) : RelationsOf(f, p)[i].name = info.rel_name}
Leading(f, p, info) ==
  LET rels == RelationsOf(f, p)
  IN {i \in DOMAIN rels : rels[i].name = info.rel_name /\ rels[i].node_b \in Seconds(f, info)}
Matched(f, info) ==
  IF info.has_relation THEN {p \in ScannedNodes(f) : Leading(f, p, info) # {}}
  ELSE Like(f, info.labels, info.props)

(* match reads nothing but what it takes it for and, of a node that two    *)
(* relations make a result, frees the lists of labels and properties       *)
(* twice.                                                                  *)
Legible(f, kind, p) == ChainReadable(f, kind, p) \/ Blank(f, kind, p)
Comparable(f, labels) ==
  /\ ScanEnds(f)
  /\ \A p \in ScannedNodes(f) :
       /\ Legible(f, "LABEL", p)
       /\ AllFound(labels, LabelsOf(f, p)) => Legible(f, "ATTRIBUTE", p)
Readable(f, info) ==
  /\ Comparable(f, info.labels)
  /\ info.has_relation =>
       /\ Comparable(f, info.rel_node_labels)
       /\ \A p \in ScannedNodes(f) :
            Legible(f, "RELATION", p) /\ Cardinality(Leading(f, p, info)) <= 1

-----------------------------------------------------------------------------
(* The executor.  Program counters are named after the C functions; "wild" *)
(* is where the code takes a block for what it is not, or writes past the  *)
(* end of one: nothing after it can be told from the source.               *)
PC == {"idle", "create_node_cell", "next", "create_string_cell", "string_in_new_block",
       "create_cell", "update_node", "next_second", "find_node_attribute", "write_value",
       "remove", "free_cell", "free_node", "chain_node_block", "chain_update_control",
       "update_control_block", "wild", "down"}

Idle == [pc |-> "idle", ret |-> "idle", jobs |-> << >>, matched |-> {}, left |-> {},
         node |-> Null, texts |-> << >>, strings |-> << >>, current |-> Null,
         prev |-> Null, following |-> Null, has_changed |-> FALSE, number |-> 0,
         seconds |-> {}, others |-> {}, second |-> Null, lost_place |-> FALSE]
job == Head(exec.jobs)

(* A step that ends with a write leaves that write unflushed; one that     *)
(* reads after its last write, or only reads, leaves nothing unflushed.    *)
LastWriteUnflushed == disk' = file
AllFlushed == disk' = file'
ReadOnly == disk' = file /\ UNCHANGED <<file, ctrl_block>>

(* The process ends; a fresh one begins with a control block of its own.   *)
EmptyFile == [b \in Block |-> Absent]
NewControl ==
  [type |-> "CONTROL", prev_node_block |-> 0, empty_block |-> 1,
   head |-> [pool \in Pool |-> IF pool = "NODE" THEN Null ELSE NoRoom],
   nodes |-> [o \in 0 .. NODES_IN_CONTROL_BLOCK - 1 |-> ZeroNode]]

Stop == /\ exec' = [Idle EXCEPT !.pc = "down"]
        /\ ctrl_block' = NewControl

Wild == /\ exec' = [exec EXCEPT !.pc = "wild"]
        /\ UNCHANGED <<file, disk, ctrl_block>>

(* update_control_block, resuming the caller.                              *)
update_control_block ==
  /\ exec.pc = "update_control_block"
  /\ file' = [file EXCEPT ![0] = ctrl_block]
  /\ exec' = [exec EXCEPT !.pc = exec.ret]
  /\ LastWriteUnflushed
  /\ UNCHANGED ctrl_block
UpdateControlThen(ret) == exec' = [exec EXCEPT !.pc = "update_control_block", !.ret = ret]

(* allocate_new_block(type), resuming the caller at ret.  The write of a   *)
(* zeroed block is followed by the new control block or, for a node block  *)
(* other than block 1, by the write that links it to the older ones.       *)
allocate_new_block(type, ret) ==
  LET b == ctrl_block.empty_block
      h == Ptr(b, ctrl_block.head[type].offset)
  IN /\ b < MAX_BLOCKS
     /\ file' = [file EXCEPT ![b] = ZeroBlock(type)]
     /\ IF type = "NODE" /\ b # 1
        THEN /\ ctrl_block' = [ctrl_block EXCEPT !.head[type] = h]
             /\ exec' = [exec EXCEPT !.pc = "chain_node_block", !.ret = ret]
        ELSE /\ ctrl_block' = [ctrl_block EXCEPT
                  !.head[type] = h, !.empty_block = b + 1,
                  !.prev_node_block = IF type = "NODE" THEN b ELSE @]
             /\ UpdateControlThen(ret)
     /\ LastWriteUnflushed

(* Seeded fault: the new node block is not linked to the older ones.       *)
chain_node_block_Unlinked ==
  /\ exec.pc = "chain_node_block"
  /\ file' = [file EXCEPT ![ctrl_block.empty_block] = ZeroBlock("NODE")]
  /\ ctrl_block' = [ctrl_block EXCEPT !.prev_node_block = ctrl_block.empty_block]
  /\ exec' = [exec EXCEPT !.pc = "chain_update_control"]
  /\ LastWriteUnflushed

chain_node_block ==
  /\ exec.pc = "chain_node_block"
  /\ LET b == ctrl_block.empty_block
     IN /\ b < MAX_BLOCKS
        /\ file' = [file EXCEPT ![b] = [ZeroBlock("NODE") EXCEPT
                                          !.prev_block = ctrl_block.prev_node_block]]
        /\ ctrl_block' = [ctrl_block EXCEPT !.prev_node_block = b]
  /\ exec' = [exec EXCEPT !.pc = "chain_update_control"]
  /\ LastWriteUnflushed

(* The control block is written here with the empty_block not yet moved.   *)
chain_update_control ==
  /\ exec.pc = "chain_update_control"
  /\ ctrl_block.empty_block < MAX_BLOCKS
  /\ file' = [file EXCEPT ![0] = ctrl_block]
  /\ ctrl_block' = [ctrl_block EXCEPT !.empty_block = @ + 1]
  /\ UpdateControlThen(exec.ret)
  /\ LastWriteUnflushed

(* Seeded faults: the head stays where it is; a freed cell is taken for    *)
(* one never used; the end of the block is missed by one.                  *)
HeadAfter_Stays(h, link, capacity) == h
HeadAfter_NoFreeList(h, link, capacity) ==
  IF h.offset + 1 > capacity - 1 THEN NoRoom ELSE Ptr(h.block_num, h.offset + 1)
HeadAfter_OffByOne(h, link, capacity) ==
  IF link # Null THEN link
  ELSE IF h.offset + 1 > capacity THEN NoRoom
  ELSE Ptr(h.block_num, h.offset + 1)

(* Where a pool hands out its next cell, once the cell at h is taken: the  *)
(* next cell of the block if the cell was never used (its prev, or a       *)
(* node's last_label, is zero), the next cell of the free list otherwise.  *)
HeadAfter(h, link, capacity) ==
  IF link # Null THEN link
  ELSE IF h.offset + 1 > capacity - 1 THEN NoRoom
  ELSE Ptr(h.block_num, h.offset + 1)

create_node_cell ==
  /\ exec.pc = "create_node_cell"
  /\ LET h == ctrl_block.head["NODE"]
         new == [ZeroNode EXCEPT !.is_empty = 1]
         after == HeadAfter(h, NodeAt(file, h).last["LABEL"], NodesIn(h.block_num))
     IN IF h.block_num = -1 THEN allocate_new_block("NODE", "create_node_cell")
        ELSE IF ~ IsNode(file, h) THEN Wild
        ELSE /\ file' = WriteNode(file, h, new)
             /\ IF h.block_num = 0
                THEN /\ ctrl_block' = [file'[0] EXCEPT !.head["NODE"] = after]
                     /\ AllFlushed
                ELSE /\ ctrl_block' = [ctrl_block EXCEPT !.head["NODE"] = after]
                     /\ LastWriteUnflushed
             /\ exec' = [exec EXCEPT !.pc = "update_control_block", !.ret = "next",
                                     !.matched = {h}, !.left = {h}]

(* The loops of execute_command and of its helpers over the matched nodes, *)
(* in the order match found them; the name of the relations to create is   *)
(* stored once, before them.                                               *)
Entry(op) == CASE op = "add"    -> "create_string_cell"
               [] op = "put"    -> "find_node_attribute"
               [] op = "remove" -> "remove"
               [] op = "relate" -> "next_second"
               [] OTHER         -> "free_node"
Texts(j) == IF j.kind = "LABEL" THEN << j.name >> ELSE << j.name, j.value >>

next_node ==
  /\ exec.pc = "next"
  /\ exec.jobs # << >>
  /\ \E p \in exec.left :
       /\ \A q \in exec.left : ScanBefore(p, q)
       /\ IF IsNode(file, p)
          THEN exec' = [exec EXCEPT
                 !.pc = Entry(job.op), !.left = @ \ {p}, !.node = p, !.prev = p,
                 !.texts = IF job.op = "add" THEN Texts(job) ELSE << >>,
                 !.strings = IF job.op = "relate" THEN @ ELSE << >>,
                 !.following = Null, !.has_changed = FALSE,
                 !.others = exec.seconds, !.lost_place = FALSE,
                 !.current = IF job.op \in {"put", "remove"}
                             THEN NodeAt(file, p).last[job.kind] ELSE Null]
          ELSE exec' = [exec EXCEPT !.pc = "wild"]
  /\ ReadOnly

(* Seeded fault: the second loop over the nodes starts where the first     *)
(* ended.                                                                  *)
next_job_NotRewound ==
  /\ exec.pc = "next"
  /\ exec.left = {} /\ exec.jobs # << >>
  /\ exec' = [exec EXCEPT !.jobs = Tail(@)]
  /\ UNCHANGED <<file, disk, ctrl_block>>

next_job ==
  /\ exec.pc = "next"
  /\ exec.left = {} /\ exec.jobs # << >>
  /\ exec' = [exec EXCEPT !.jobs = Tail(@), !.left = exec.matched]
  /\ UNCHANGED <<file, disk, ctrl_block>>

(* The result of execute_command: the number of nodes in the response.     *)
respond ==
  /\ exec.pc = "next"
  /\ exec.jobs = << >>
  /\ exec' = [Idle EXCEPT !.number = exec.number]
  /\ UNCHANGED <<file, disk, ctrl_block>>

(* create_string_cell.  strcpy writes the string and its 0 byte after two  *)
(* bytes of length; the room test looks at the length alone.               *)
Fits(p, str_length) ==
  /\ p.block_num \in Block
  /\ file[p.block_num].type = "STRING"
  /\ p.offset + 2 + str_length + 1 <= STRING_DATA
StringDone(p) ==
  exec' = [exec EXCEPT
    !.pc = "update_control_block",
    !.strings = Append(@, p), !.texts = Tail(@),
    !.ret = IF Len(exec.texts) > 1 THEN "create_string_cell"
            ELSE IF job.op = "relate" THEN "next"
            ELSE IF exec.current # Null THEN "write_value" ELSE "create_cell"]

create_string_cell ==
  /\ exec.pc = "create_string_cell"
  /\ LET h == ctrl_block.head["STRING"]
         str_length == strlen[Head(exec.texts)]
     IN IF h.block_num = -1 THEN allocate_new_block("STRING", "create_string_cell")
        ELSE IF ~ STRING_DATA - h.offset > str_length
        THEN allocate_new_block("STRING", "string_in_new_block")
        ELSE IF ~ Fits(h, str_length) THEN Wild
        ELSE /\ file' = WriteString(file, h, Head(exec.texts))
             /\ ctrl_block' = [ctrl_block EXCEPT !.head["STRING"].offset = @ + str_length + 2]
             /\ StringDone(h)
             /\ LastWriteUnflushed

(* Seeded fault: the string goes to the offset it would have had in the    *)
(* old block.                                                              *)
string_in_new_block_OldOffset ==
  /\ exec.pc = "string_in_new_block"
  /\ file' = WriteString(file, ctrl_block.head["STRING"], Head(exec.texts))
  /\ ctrl_block' = [ctrl_block EXCEPT !.head["STRING"].offset = strlen[Head(exec.texts)] + 2]
  /\ StringDone(Ptr(ctrl_block.head["STRING"].block_num, 0))
  /\ LastWriteUnflushed

string_in_new_block ==
  /\ exec.pc = "string_in_new_block"
  /\ LET p == Ptr(ctrl_block.head["STRING"].block_num, 0)
         str_length == strlen[Head(exec.texts)]
     IN IF ~ Fits(p, str_length) THEN Wild
        ELSE /\ file' = WriteString(file, p, Head(exec.texts))
             /\ ctrl_block' = [ctrl_block EXCEPT !.head["STRING"].offset = str_length + 2]
             /\ StringDone(p)
             /\ LastWriteUnflushed

(* The second loop over the nodes, that of the second ones.                *)
next_second ==
  /\ exec.pc = "next_second"
  /\ \/ /\ exec.others = {}
        /\ exec' = [exec EXCEPT !.pc = "next"]
     \/ \E p \in exec.others :
          /\ \A q \in exec.others : ScanBefore(p, q)
          /\ exec' = [exec EXCEPT !.pc = "create_cell", !.others = @ \ {p}, !.second = p]
  /\ UNCHANGED <<file, disk, ctrl_block>>

(* create_label_cell, create_attribute_cell, create_relation_cell: the new *)
(* cell goes in front of the node's chain, but the node does not point at  *)
(* it yet.                                                                 *)
create_cell(kind) ==
  /\ exec.pc = "create_cell"
  /\ job.kind = kind
  /\ LET h == ctrl_block.head[kind]
         new == [prev  |-> NodeAt(file, exec.node).last[kind],
                 name  |-> exec.strings[1],
                 value |-> CASE kind = "ATTRIBUTE" -> exec.strings[2]
                             [] kind = "RELATION"  -> exec.second
                             [] OTHER              -> Null]
         old == CellAt(file, h)
     IN IF h.block_num = -1 THEN allocate_new_block(kind, "create_cell")
        ELSE IF ~ IsCell(file, kind, h) \/ ~ IsNode(file, exec.node) THEN Wild
        ELSE /\ file' = WriteCell(file, h, new)
             /\ ctrl_block' = [ctrl_block EXCEPT
                                 !.head[kind] = HeadAfter(h, old.prev, CellsIn(kind))]
             /\ exec' = [exec EXCEPT !.pc = "update_control_block", !.ret = "update_node",
                                     !.current = h]
             /\ LastWriteUnflushed
create_label_cell == create_cell("LABEL")
create_attribute_cell == create_cell("ATTRIBUTE")
create_relation_cell == create_cell("RELATION")

(* update_node_labels, update_node_attributes, update_node_relations.      *)
update_node(kind) ==
  /\ exec.pc = "update_node"
  /\ job.kind = kind
  /\ IF ~ IsNode(file, exec.node) THEN Wild
     ELSE /\ file' = WriteNode(file, exec.node,
                               [NodeAt(file, exec.node) EXCEPT !.last[kind] = exec.current])
          /\ ctrl_block' = file'[0]
          /\ exec' = [exec EXCEPT !.pc = IF kind = "RELATION" THEN "next_second" ELSE "next"]
          /\ AllFlushed
update_node_labels == update_node("LABEL")
update_node_attributes == update_node("ATTRIBUTE")
update_node_relations == update_node("RELATION")

(* find_node_attribute, one cell of the chain per step; current is zero    *)
(* at the end if the node has no attribute of that key.                    *)
find_node_attribute ==
  /\ exec.pc = "find_node_attribute"
  /\ LET c == CellAt(file, exec.current)
     IN IF exec.current.block_num = 0
        THEN exec' = [exec EXCEPT !.pc = "create_string_cell", !.texts = Texts(job),
                                  !.current = Null]
        ELSE IF ~ IsCell(file, "ATTRIBUTE", exec.current) \/ ~ IsString(file, c.name)
        THEN exec' = [exec EXCEPT !.pc = "wild"]
        ELSE IF StringAt(file, c.name) = job.name
        THEN exec' = [exec EXCEPT !.pc = "create_string_cell", !.texts = << job.value >>]
        ELSE exec' = [exec EXCEPT !.current = c.prev]
  /\ ReadOnly

(* set_new_attributes, for an attribute found: only the cell is written.   *)
write_value ==
  /\ exec.pc = "write_value"
  /\ IF ~ IsCell(file, "ATTRIBUTE", exec.current) THEN Wild
     ELSE /\ file' = WriteCell(file, exec.current,
                       [CellAt(file, exec.current) EXCEPT !.value = exec.strings[1]])
          /\ exec' = [exec EXCEPT !.pc = "next"]
          /\ LastWriteUnflushed
          /\ UNCHANGED ctrl_block

(* find_element: ALL, or the wanted name, which remove_element then takes  *)
(* off the list of wanted ones.  A relation must also lead to one of the   *)
(* second nodes.                                                           *)
Named(c) == job.name \in {ALL, StringAt(file, c.name)}
Wanted_Again(c) == Named(c)  \* seeded fault: the name stays on the list
Wanted(c) == Named(c) /\ IF job.kind = "RELATION" THEN c.value \in exec.seconds
                         ELSE job.name = ALL \/ ~ exec.has_changed

(* Seeded faults: the loop stays on a cell; the cell is not taken out of   *)
(* the chain; the node's new first cell is written into the first node of  *)
(* its block.                                                              *)
remove_cell_Stays(kind) ==
  /\ exec.pc = "remove"
  /\ job.kind = kind
  /\ exec' = [exec EXCEPT !.pc = IF exec.current.block_num = 0 THEN "next" ELSE @]
  /\ ReadOnly
remove_cell_NotUnlinked(kind) ==
  /\ exec.pc = "remove"
  /\ job.kind = kind
  /\ LET p == exec.current
         old == CellAt(file, p)
     IN exec' = IF p.block_num = 0 THEN [exec EXCEPT !.pc = "next"]
                ELSE IF Wanted(old)
                THEN [exec EXCEPT !.pc = "free_cell", !.following = old.prev]
                ELSE [exec EXCEPT !.prev = p, !.current = old.prev]
  /\ ReadOnly
remove_cell_FirstNode(kind) ==
  /\ exec.pc = "remove"
  /\ job.kind = kind
  /\ LET p == exec.current
         old == CellAt(file, p)
         node == [NodeAt(file, exec.node) EXCEPT !.last[kind] = old.prev]
         prev_cell == [CellAt(file, exec.prev) EXCEPT !.prev = old.prev]
         wanted == p.block_num # 0 /\ Wanted(old)
     IN /\ exec' = IF p.block_num = 0 THEN [exec EXCEPT !.pc = "next"]
                   ELSE IF ~ wanted THEN [exec EXCEPT !.prev = p, !.current = old.prev]
                   ELSE [exec EXCEPT !.pc = "free_cell", !.following = old.prev]
        /\ file' = IF ~ wanted THEN file
                   ELSE IF IsNode(file, exec.prev)
                   THEN WriteNode(file, Ptr(exec.node.block_num, 0), node)
                   ELSE WriteCell(file, exec.prev, prev_cell)
        /\ ctrl_block' = IF wanted /\ exec.prev.block_num = 0 THEN file'[0] ELSE ctrl_block
        /\ AllFlushed

(* remove_labels, remove_attributes, delete_relations: one turn of the     *)
(* loop over a node's chain.  A wanted name is removed once; ALL removes   *)
(* every cell.  The cell is first taken out of the chain: through the node *)
(* if prev is still the node, through the cell prev otherwise.             *)
(* delete_relations looks for the second node of every relation of that    *)
(* name in a loop that leaves current_node NULL, and takes the next node   *)
(* from it after the chain: the process dies there.                        *)
remove_cell(kind) ==
  /\ exec.pc = "remove"
  /\ job.kind = kind
  /\ LET p == exec.current
         old == CellAt(file, p)
         node == [NodeAt(file, exec.node) EXCEPT !.last[kind] = old.prev]
         prev_cell == [CellAt(file, exec.prev) EXCEPT !.prev = old.prev]
         sound == /\ IsCell(file, kind, p) /\ IsString(file, old.name)
                  /\ IsNode(file, exec.node)
                  /\ IsNode(file, exec.prev) \/ IsCell(file, kind, exec.prev)
         lost == exec.lost_place \/ (kind = "RELATION" /\ Named(old))
     IN \/ /\ p.block_num = 0 /\ ~ exec.lost_place
           /\ exec' = [exec EXCEPT !.pc = "next"]
           /\ ReadOnly
        \/ /\ p.block_num = 0 /\ exec.lost_place
           /\ disk' = file /\ UNCHANGED file
           /\ Stop
        \/ /\ p.block_num # 0 /\ ~ sound
           /\ Wild
        \/ /\ p.block_num # 0 /\ sound /\ ~ Wanted(old)
           /\ exec' = [exec EXCEPT !.prev = p, !.current = old.prev, !.lost_place = lost]
           /\ ReadOnly
        \/ /\ p.block_num # 0 /\ sound /\ Wanted(old)
           /\ exec' = [exec EXCEPT !.pc = "free_cell", !.following = old.prev,
                                   !.lost_place = lost]
           /\ IF exec.prev.block_num = 0
              THEN /\ file' = WriteNode(file, exec.node, node)
                   /\ ctrl_block' = file'[0]
                   /\ AllFlushed
              ELSE /\ file' = IF IsNode(file, exec.prev) THEN WriteNode(file, exec.node, node)
                              ELSE WriteCell(file, exec.prev, prev_cell)
                   /\ UNCHANGED ctrl_block
                   /\ LastWriteUnflushed
remove_labels == remove_cell("LABEL")
remove_attributes == remove_cell("ATTRIBUTE")
delete_relations == remove_cell("RELATION")

(* Seeded faults: the free list is cut at the cell; number counts down.    *)
FreeCell(p, link, step) ==
  /\ exec.pc = "free_cell"
  /\ file' = WriteCell(file, p, [ZeroCell EXCEPT !.prev = link])
  /\ ctrl_block' = [ctrl_block EXCEPT !.head[job.kind] = p]
  /\ exec' = [exec EXCEPT
       !.pc = "update_control_block", !.ret = "remove",
       !.prev = p, !.current = exec.following, !.has_changed = TRUE,
       !.number = IF job.name = ALL \/ exec.has_changed THEN @ ELSE @ + step]
  /\ LastWriteUnflushed
free_cell_ListCut == FreeCell(exec.current, Null, 1)
free_cell_CountsDown == FreeCell(exec.current, ctrl_block.head[job.kind], -1)

(* A cell taken out of its chain is put in front of the free list, and     *)
(* prev moves on to it.  number counts the nodes that lost a label or an   *)
(* attribute.  A relation's cell is written with the size of a label's,    *)
(* and keeps its node_b.                                                   *)
free_cell ==
  /\ exec.pc = "free_cell"
  /\ LET kind == job.kind
         p == exec.current
         freed == [prev |-> ctrl_block.head[kind], name |-> Null,
                   value |-> IF kind = "RELATION" THEN CellAt(file, p).value ELSE Null]
         counted == kind # "RELATION" /\ job.name # ALL /\ ~ exec.has_changed
     IN IF ~ IsCell(file, kind, p) THEN Wild
        ELSE /\ file' = WriteCell(file, p, freed)
             /\ ctrl_block' = [ctrl_block EXCEPT !.head[kind] = p]
             /\ exec' = [exec EXCEPT
                  !.pc = "update_control_block", !.ret = "remove",
                  !.prev = p, !.current = exec.following, !.has_changed = TRUE,
                  !.number = IF counted THEN @ + 1 ELSE @]
             /\ LastWriteUnflushed

(* Seeded fault: the memory copy of block 0 is not read again.             *)
free_node_NoReload ==
  /\ exec.pc = "free_node"
  /\ LET freed == [NodeAt(file, exec.node) EXCEPT !.is_empty = 0,
                                                  !.last["LABEL"] = ctrl_block.head["NODE"]]
     IN file' = WriteNode(file, exec.node, freed)
  /\ ctrl_block' = [ctrl_block EXCEPT !.head["NODE"] = exec.node]
  /\ exec' = [exec EXCEPT !.pc = "update_control_block", !.ret = "next"]
  /\ AllFlushed

(* The loop of delete_nodes: the node keeps its place on the free list of  *)
(* nodes in last_label.                                                    *)
free_node ==
  /\ exec.pc = "free_node"
  /\ LET p == exec.node
         freed == [NodeAt(file, p) EXCEPT !.is_empty = 0,
                                          !.last["LABEL"] = ctrl_block.head["NODE"]]
     IN IF ~ IsNode(file, p) THEN Wild
        ELSE /\ file' = WriteNode(file, p, freed)
             /\ ctrl_block' = [file'[0] EXCEPT !.head["NODE"] = p]
             /\ exec' = [exec EXCEPT !.pc = "update_control_block", !.ret = "next"]
             /\ AllFlushed

-----------------------------------------------------------------------------
(* execute_command.  match runs in one step: it writes nothing.            *)
Starting(type, info) == exec.pc = "idle" /\ info \in Commands /\ info.command_type = type

(* Bound: a command that adds data starts only if the modelled file can    *)
(* take all of it (a block per string, cell and node at the worst).        *)
Growth(labels, props) == 2 * Len(labels) + 3 * Len(props)
HasRoom(blocks) == ctrl_block.empty_block + blocks <= MAX_BLOCKS

Respond(number) == [Idle EXCEPT !.number = number]
Run(info, nodes, number) ==
  [Idle EXCEPT !.pc = "next", !.jobs = Jobs(info), !.matched = nodes, !.left = nodes,
               !.seconds = Seconds(file, info), !.number = number]

OnMatched(type, info, matched) ==
  /\ Starting(type, info)
  /\ exec' = IF Readable(file, info) THEN matched ELSE [Idle EXCEPT !.pc = "wild"]
  /\ ReadOnly

execute_match(info) ==
  OnMatched("match", info, Respond(Cardinality(Matched(file, info))))

execute_create(info) ==
  /\ Starting("create", info) /\ ~ info.has_relation
  /\ HasRoom(1 + Growth(info.labels, info.props))
  /\ exec' = [Idle EXCEPT !.pc = "create_node_cell", !.jobs = Jobs(info), !.number = 1]
  /\ ReadOnly

(* Every first node is related to every second one; here the first nodes   *)
(* are those of the labels and properties (has_relation is taken back).    *)
(* number2, the second nodes counted, is a uint16_t.                       *)
execute_create_relation(info) ==
  /\ Starting("create", info) /\ info.has_relation
  /\ LET nodes == Like(file, info.labels, info.props)
         others == Seconds(file, info)
         number2 == Cardinality(others) % UINT16
     IN IF Comparable(file, info.labels) /\ Comparable(file, info.rel_node_labels)
        THEN /\ HasRoom(1 + Cardinality(nodes) * Cardinality(others))
             /\ exec' = [Idle EXCEPT
                  !.pc = "create_string_cell", !.jobs = Jobs(info), !.texts = << info.rel_name >>,
                  !.matched = nodes, !.left = nodes, !.seconds = others,
                  !.number = Cardinality(nodes) * number2]
        ELSE exec' = [Idle EXCEPT !.pc = "wild"]
  /\ ReadOnly

execute_set(info) ==
  LET nodes == Matched(file, info)
      number == Cardinality(nodes)
  IN /\ OnMatched("set", info, Run(info, nodes, number))
     /\ Readable(file, info) =>
          HasRoom(number * Growth(info.changed_labels, info.changed_props))

execute_remove(info) ==
  OnMatched("remove", info, Run(info, Matched(file, info), 0))

execute_delete(info) ==
  LET nodes == Matched(file, info)
  IN OnMatched("delete", info, Run(info, nodes, Cardinality(nodes)))

-----------------------------------------------------------------------------
(* The process.                                                            *)
(* init_data, when the file does not exist yet.                            *)
Init ==
  /\ ctrl_block = NewControl
  /\ file = [EmptyFile EXCEPT ![0] = NewControl]
  /\ disk = EmptyFile
  /\ exec = Idle

(* init_data, when it does.  Of an empty file nothing is read, and the     *)
(* memory copy holds what my_alloc found in its memory.                    *)
init_data ==
  /\ exec.pc = "down"
  /\ IF file[0].type = "CONTROL"
     THEN ctrl_block' = file[0] /\ exec' = Idle
     ELSE exec' = [Idle EXCEPT !.pc = "wild"] /\ UNCHANGED ctrl_block
  /\ UNCHANGED <<file, disk>>

At == <<exec.pc, IF exec.jobs = << >> THEN "none" ELSE job.op>>
(* The process is killed: whatever was not flushed is lost.                *)
kill == /\ At \in KillPoints
        /\ file' = disk
        /\ UNCHANGED disk
        /\ Stop
(* 'q' on the server's console: fclose, which flushes, and exit.           *)
quit == /\ At \in QuitPoints
        /\ UNCHANGED file
        /\ AllFlushed
        /\ Stop

Step ==
  \/ update_control_block \/ chain_node_block \/ chain_update_control
  \/ create_node_cell \/ next_node \/ next_job \/ respond
  \/ create_string_cell \/ string_in_new_block
  \/ create_label_cell \/ create_attribute_cell \/ create_relation_cell
  \/ update_node_labels \/ update_node_attributes \/ update_node_relations
  \/ next_second \/ find_node_attribute \/ write_value
  \/ remove_labels \/ remove_attributes \/ delete_relations \/ free_cell \/ free_node

Execute ==
  \E info \in Commands :
    \/ execute_match(info) \/ execute_create(info) \/ execute_create_relation(info)
    \/ execute_set(info) \/ execute_remove(info) \/ execute_delete(info)

Next == Step \/ Execute \/ kill \/ quit \/ init_data

Spec == Init /\ [][Next]_vars
(* A command once started is run to its end by its thread.                 *)
FairSpec == Spec /\ WF_vars(Step)

-----------------------------------------------------------------------------
(* Properties.                                                             *)

exec_type ==
  [pc : PC, ret : PC, jobs : Seq(Job), matched : SUBSET cell_ptr, left : SUBSET cell_ptr,
   node : cell_ptr, texts : Seq(String), strings : Seq(cell_ptr), current : cell_ptr,
   prev : cell_ptr, following : cell_ptr, has_changed : BOOLEAN, number : Nat,
   seconds : SUBSET cell_ptr, others : SUBSET cell_ptr, second : cell_ptr, lost_place : BOOLEAN]

(* No write of a node is lost: the memory copy of block 0, which           *)
(* update_control_block writes back whole, always holds block 0's nodes as *)
(* the file has them; and outside the few steps that end in that write it  *)
(* is block 0.                                                             *)
Down == exec.pc \in {"down", "wild"}
Updating == exec.pc \in {"chain_node_block", "chain_update_control", "update_control_block"}
ControlCoherent ==
  ~ Down => /\ ctrl_block.nodes = file[0].nodes
            /\ ~ Updating => ctrl_block = file[0]

(* The file, the memory and the executor hold what their C types say:      *)
(* every write lands on a cell of its own kind inside an allocated block.  *)
TypeOK ==
  /\ file \in [Block -> block]
  /\ disk \in [Block -> block]
  /\ ctrl_block \in control_block
  /\ exec \in exec_type
=============================================================================
