----------------------------- MODULE MCDataFile -----------------------------
(***************************************************************************)
(* Small instances of DataFile for TLC: the workloads of the runs.         *)
(***************************************************************************)
EXTENDS DataFileHistory

(* One-byte strings: a str_block of 10 bytes takes three of them, each     *)
(* with its length and its 0 byte, and leaves one byte over.               *)
MCString == {"A", "B", "R", "k", "v", "w"}
MCstrlen == [s \in MCString |-> 1]

query(command, labels, props, changed_labels, changed_props) ==
  [command_type |-> command, labels |-> labels, props |-> props,
   has_relation |-> FALSE, rel_name |-> "R", rel_node_labels |-> << >>, rel_node_props |-> << >>,
   changed_labels |-> changed_labels, changed_props |-> changed_props]
match(labels, props) == query("match", labels, props, << >>, << >>)
create(labels, props) == query("create", labels, props, << >>, << >>)
delete(labels) == query("delete", labels, << >>, << >>, << >>)
set_label(labels, l) == query("set", labels, << >>, << l >>, << >>)
set_prop(labels, p) == query("set", labels, << >>, << >>, << p >>)
remove_label(labels, l) == query("remove", labels, << >>, << l >>, << >>)
remove_prop(props, p) == query("remove", << >>, props, << >>, << p >>)
related(command, labels, second) ==
  [query(command, labels, << >>, << >>, << >>) EXCEPT !.has_relation = TRUE,
                                                      !.rel_node_labels = second]
kv == [key |-> "k", value |-> "v"]
kw == [key |-> "k", value |-> "w"]
vw == [key |-> "v", value |-> "w"]

NoPoints == {}
IdlePoint == {<<"idle", "none">>}

(* Labels, properties and relations put on and taken off any place of the  *)
(* chains of a few nodes, the same label more than once, nodes picked by   *)
(* where their relations lead.                                             *)
CellCommands == {
  create(<< "A", "B" >>, << >>), create(<< >>, << kv >>), match(<< "A", "A" >>, << >>),
  set_label(<< >>, "A"), remove_label(<< >>, "A"), set_prop(<< >>, kw), remove_prop(<< kw >>, kv),
  related("create", << "B" >>, << "B" >>), related("match", << >>, << "A" >>) }
(* Bound: no command begins on a graph on which it ends the process or     *)
(* breaks a promise.  Session relies on the engine for all the others.     *)
Known == INSTANCE KeptPromises WITH
  graph <- store.graph, number <- store.number, NodeId <- NodePtr, FirstNode <- Ptr(0, 0)
Begins(info) ==
  \/ execute_match(info) \/ execute_create(info) \/ execute_create_relation(info)
  \/ execute_set(info) \/ execute_remove(info) \/ execute_delete(info)
OnlyPromised ==
  AtRest => \A info \in Commands :
    Known!Ends(info) \/ Known!Breaks(info) => ~ Begins(info)
CellSpec == HInit /\ [][HNext /\ OnlyPromised]_<<vars, store>>

(* Nodes created and deleted, the first one always kept.                   *)
NodeCommands == {
  create(<< "A" >>, << >>), create(<< "B" >>, << kv >>),
  match(<< >>, << >>), delete(<< "B" >>) }
FirstNodeKept ==
  (AtRest /\ store.graph = << >>) => exec'.jobs = << LabelJob("add", "A") >>
KeptSpec == HInit /\ [][HNext /\ FirstNodeKept]_<<vars, store>> /\ WF_vars(Step)

(* The process killed at every point of a removal, or stopped there by     *)
(* 'q', and started again; relations deleted by a process that dies of it. *)
(* Bound: no node has two relations that one command deletes.              *)
CrashCommands == {
  create(<< "A" >>, << >>), create(<< "A", "B" >>, << >>), match(<< "B" >>, << >>),
  remove_label(<< "A", "B" >>, "A"), remove_label(<< "B" >>, "B"),
  related("create", << >>, << "B" >>), related("create", << "B" >>, << "A" >>),
  related("delete", << >>, << "B" >>) }
RemovalPoints == {"next", "remove", "free_cell", "update_control_block"} \X {"remove"}
OneRelationEach ==
  AtRest /\ exec'.texts # << >> => \A p \in exec'.matched :
    {RelationsOf(file, p)[i].node_b : i \in DOMAIN RelationsOf(file, p)} \cap exec'.seconds = {}
CrashSpec == HInit /\ [][HNext /\ OneRelationEach /\ FirstNodeKept]_<<vars, store>>

(* A relation deleted by a server that nobody stops.                       *)
StayUpCommands == {
  create(<< "A" >>, << >>), related("create", << >>, << "A" >>),
  related("delete", << "A" >>, << "A" >>) }

(* Deletions of any node.                                                  *)
DeleteCommands == { create(<< "A" >>, << >>), create(<< "B" >>, << >>), delete(<< "A" >>) }

(* Deletions of nodes with more than one label, the first node kept.       *)
ManyLabelsCommands == {
  create(<< "A" >>, << >>), create(<< "A", "B" >>, << >>), delete(<< "B" >>) }

(* The process killed while it waits for a command, and started again.     *)
CreateCommands == { create(<< "A" >>, << >>), create(<< >>, << >>) }

(* Other workloads, each with the property it breaks (README, section 4).  *)
TwoRelationsCommands == {                                                   \* NeverWild
  create(<< "A" >>, << >>), create(<< "B" >>, << >>),
  related("create", << "A" >>, << >>), related("match", << "A" >>, << >>) }
FilterCommands == {                                                         \* Implements
  create(<< "A" >>, << >>), create(<< "B" >>, << >>), related("create", << >>, << "A" >>),
  related("match", << "A" >>, << "A" >>) }
CountCommands == {                           \* Implements, with UINT16 = 2
  create(<< "A" >>, << >>), match(<< "B" >>, << >>), related("create", << >>, << >>) }
SecondDeletedCommands == {                                                  \* Implements
  create(<< "A" >>, << >>), create(<< "B" >>, << >>),
  related("create", << "A" >>, << "B" >>), delete(<< "B" >>) }
\* Implements, and NeverWild, by TwoRelationsCommands and SecondDeletedCommands.
\* Under CellSpec both hold for it, and for those four and DeleteCommands and
\* ManyLabelsCommands above.
MixedCommands == {
  create(<< "A" >>, << >>), create(<< "B" >>, << kv >>), create(<< "A", "B" >>, << >>),
  match(<< "A" >>, << >>), delete(<< "B" >>),
  related("create", << "A" >>, << "B" >>), related("match", << "A" >>, << "B" >>),
  related("delete", << >>, << "A" >>),
  [related("set", << "B" >>, << "B" >>) EXCEPT !.changed_labels = << "A" >>] }
SetCommands == { create(<< "A" >>, << >>), set_label(<< >>, "B") }
AddingPoints == {<<"update_node", "add">>}                \* SetCommands: CellsOwnedOnce
ChainingPoints == {"chain_update_control", "update_control_block"} \X {"none"}
                                                    \* CreateCommands: BlocksLinked
\* CreateCommands, killed at IdlePoint: NeverWild; with STRING_DATA = 11: NeverWild
=============================================================================
