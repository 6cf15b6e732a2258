---------------------------- MODULE PropertyGraph ----------------------------
(***************************************************************************)
(* What the server promises its clients (the branches and comments of      *)
(* execute_command in server.c): a graph of nodes, each with its labels,   *)
(* its properties and its relations to other nodes, that every command     *)
(* reads or changes in one step, and the number of nodes or relations each *)
(* command answers with.                                                   *)
(***************************************************************************)
EXTENDS Naturals, FiniteSets, SequencesExt

CONSTANTS Commands, NodeId

VARIABLES
  graph,    \* node -> its labels and properties, newest first, and the bag
            \* of its relations
  number    \* the number in the last response

(* A client's filter: labels and properties a node must have, each as many *)
(* times as the filter names it, and a relation to a node that the second  *)
(* filter describes.                                                       *)
Has(n, labels, props) ==
  ToBag(labels) \sqsubseteq ToBag(n.labels) /\ ToBag(props) \sqsubseteq ToBag(n.props)
Firsts(info) == {id \in DOMAIN graph : Has(graph[id], info.labels, info.props)}
Seconds(info) ==
  {id \in DOMAIN graph : Has(graph[id], info.rel_node_labels, info.rel_node_props)}
Wanted(info) == {[name |-> info.rel_name, node_b |-> id] : id \in Seconds(info)}
Matching(info) ==
  {id \in Firsts(info) :
     info.has_relation => BagToSet(graph[id].rels) \cap Wanted(info) # {}}

IndexOfKey(props, key) == LET Is(p) == p.key = key IN SelectInSeq(props, Is)

(* set: one more label; a new property, or a new value for the newest      *)
(* property of that key.                                                   *)
AddLabels(n, labels) == [n EXCEPT !.labels = Reverse(labels) \o @]
PutProp(n, p) ==
  LET i == IndexOfKey(n.props, p.key)
  IN IF i = 0 THEN [n EXCEPT !.props = Cons(p, @)]
     ELSE [n EXCEPT !.props[i].value = p.value]

(* remove: the newest label of that name, the newest property of that key. *)
DropLabel(n, l) == [n EXCEPT !.labels = RemoveFirst(@, l)]
DropProp(n, p) ==
  LET i == IndexOfKey(n.props, p.key)
  IN IF i = 0 THEN n ELSE [n EXCEPT !.props = RemoveAt(@, i)]

Changed(n, info) ==
  LET label == info.changed_labels  prop == info.changed_props
  IN IF info.command_type = "set"
     THEN IF label # << >> THEN AddLabels(n, label) ELSE PutProp(n, prop[1])
     ELSE IF label # << >> THEN DropLabel(n, label[1]) ELSE DropProp(n, prop[1])
-----------------------------------------------------------------------------
Init == graph = << >> /\ number = 0

Match(info) ==
  /\ info.command_type = "match"
  /\ number' = Cardinality(Matching(info))
  /\ UNCHANGED graph

Create(info) ==
  /\ info.command_type = "create" /\ ~ info.has_relation
  /\ \E id \in NodeId \ DOMAIN graph :
       graph' = [i \in DOMAIN graph \cup {id} |->
                   IF i = id THEN [labels |-> Reverse(info.labels), props |-> Reverse(info.props),
                                   rels |-> EmptyBag]
                   ELSE graph[i]]
  /\ number' = 1

(* Every first node is related to every second node once more.             *)
Relate(info) ==
  /\ info.command_type = "create" /\ info.has_relation
  /\ graph' = [id \in DOMAIN graph |->
                 IF id \in Firsts(info) THEN [graph[id] EXCEPT !.rels = @ (+) SetToBag(Wanted(info))]
                 ELSE graph[id]]
  /\ number' = Cardinality(Firsts(info)) * Cardinality(Seconds(info))

(* set answers with the nodes that match, remove with those that change.   *)
Change(info) ==
  /\ info.command_type \in {"set", "remove"}
  /\ graph' = [id \in DOMAIN graph |-> IF id \in Matching(info) THEN Changed(graph[id], info)
                                       ELSE graph[id]]
  /\ number' = Cardinality(
       IF info.command_type = "set" THEN Matching(info)
       ELSE {id \in Matching(info) : Changed(graph[id], info) # graph[id]})

(* A node goes with its relations, those that lead to it included.         *)
Delete(info) ==
  /\ info.command_type = "delete" /\ ~ info.has_relation
  /\ LET gone == Matching(info)
         Leading(b) == {r \in BagToSet(b) : r.node_b \in gone}
         Kept(b) == [r \in BagToSet(b) \ Leading(b) |-> b[r]]
     IN /\ graph' = [id \in DOMAIN graph \ gone |-> [graph[id] EXCEPT !.rels = Kept(@)]]
        /\ number' = Cardinality(gone)

(* The relations of that name between matching nodes are removed.          *)
Unrelate(info) ==
  /\ info.command_type = "delete" /\ info.has_relation
  /\ LET Kept(b) == [r \in BagToSet(b) \ Wanted(info) |-> b[r]]
     IN graph' = [id \in DOMAIN graph |->
                    IF id \in Matching(info) THEN [graph[id] EXCEPT !.rels = Kept(@)]
                    ELSE graph[id]]
  /\ number' = Cardinality(Matching(info))

Run(info) ==
  Match(info) \/ Create(info) \/ Relate(info) \/ Change(info) \/ Delete(info) \/ Unrelate(info)
Next == \E info \in Commands : Run(info)

Spec == Init /\ [][Next]_<<graph, number>>
=============================================================================
