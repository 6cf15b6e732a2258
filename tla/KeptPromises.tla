---------------------------- MODULE KeptPromises ----------------------------
(***************************************************************************)
(* Which commands the storage engine carries out as PropertyGraph promises *)
(* (match, execute_command and delete_nodes on the graph they find), and   *)
(* which end the process or break the promise, then or later.  DataFile is *)
(* the engine itself, and is checked to keep the promise where nothing     *)
(* here says that it does not.                                             *)
(***************************************************************************)
EXTENDS PropertyGraph

CONSTANTS
  FirstNode,   \* the node that was created first, cell 0 of block 0
  UINT16       \* the values of a uint16_t

(* match with a relation: of the first node's filter nothing is kept, and  *)
(* a node is listed once for every relation that leads to a second node.   *)
Follows(info) == info.has_relation /\ info.command_type # "create"
Leading(id, info) == BagToSet(graph[id].rels) \cap Wanted(info)
Found(info) == IF Follows(info) THEN {id \in DOMAIN graph : Leading(id, info) # {}}
               ELSE Firsts(info)

FilterForgotten(info) == Follows(info) /\ Found(info) # Matching(info)
FoundTwice(info) ==
  /\ Follows(info)
  /\ \E id \in Found(info) : \E r, s \in Leading(id, info) : r # s \/ graph[id].rels[r] > 1

(* create counts the second nodes in a uint16_t.                           *)
Miscounts(info) ==
  info.command_type = "create" /\ info.has_relation /\ Cardinality(Seconds(info)) >= UINT16

(* delete_nodes: node (0,0) on the free list reads as its end; a second    *)
(* label or property is linked into the free list; relations that lead to  *)
(* the node stay, and lead to whatever node comes in its place.            *)
Deletes(info) == info.command_type = "delete" /\ ~ info.has_relation
FirstLost(info) == Deletes(info) /\ FirstNode \in Found(info)
TwoTaken(info) ==
  Deletes(info) /\ \E id \in Found(info) : Len(graph[id].labels) > 1 \/ Len(graph[id].props) > 1
RelationLeft(info) ==
  Deletes(info) /\ \E id \in DOMAIN graph \ Found(info) :
                     \E r \in BagToSet(graph[id].rels) : r.node_b \in Found(info)

Breaks(info) ==
  \/ FilterForgotten(info) \/ FoundTwice(info) \/ Miscounts(info)
  \/ FirstLost(info) \/ TwoTaken(info) \/ RelationLeft(info)

(* delete_relations, for nodes or relations, loses its place in the list   *)
(* of nodes at the first relation it removes.                              *)
Ends(info) ==
  info.command_type = "delete" /\ \E id \in Found(info) : BagToSet(graph[id].rels) # {}

(* A string is stored, which may go past the end of its block; how full    *)
(* that block is cannot be seen in the graph.                              *)
Stores(info) ==
  \/ info.command_type = "create"
     /\ (info.has_relation \/ info.labels # << >> \/ info.props # << >>)
  \/ info.command_type = "set" /\ Found(info) # {}
=============================================================================
