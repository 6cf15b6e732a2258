------------------------------ MODULE Messages ------------------------------
(***************************************************************************)
(* What becomes of a query on its way to execute_command and of the answer *)
(* on its way back: get_query_info of client.c, the two halves of          *)
(* message.c, schema.xsd.  An XML document is kept as the tree of elements *)
(* and attributes that libxml2 hands out, text as a sequence of            *)
(* characters, because the sizes of C buffers decide what is read back.    *)
(***************************************************************************)
EXTENDS Naturals, Sequences, Functions

CONSTANTS
  Char,                 \* the characters of names and values
  PROPERTY_KEY_SIZE,    \* const.h: 10
  PROPERTY_VALUE_SIZE,  \* const.h: 15
  RELATION_NAME_SIZE,   \* const.h: 10
  LABELS_STRING,        \* the buffers of a line of a match response: 75
  PROPS_STRING,         \*   and 100 bytes
  Leftover,             \* what malloc may leave in command_type,
  Padding               \* and behind rel_name before the next 0 byte

Text == Seq(Char)
command_type == {"match", "create", "set", "remove", "delete"}

ASSUME MessagesAssumption ==
  /\ {PROPERTY_KEY_SIZE, PROPERTY_VALUE_SIZE, RELATION_NAME_SIZE,
      LABELS_STRING, PROPS_STRING} \subseteq Nat \ {0}
  /\ Leftover \cap command_type = {}
  /\ Padding \subseteq Text

property == [key : Text, value : Text]
query_info ==
  [command_type : command_type \cup Leftover,
   labels : Seq(Text), props : Seq(property),
   has_relation : BOOLEAN, rel_name : Text,
   rel_node_labels : Seq(Text), rel_node_props : Seq(property),
   changed_labels : Seq(Text), changed_props : Seq(property)]

-----------------------------------------------------------------------------
(* A query as libcypher-parser hands it out: its clauses, of which the     *)
(* first is MATCH or CREATE; the nodes of its first path and the type of   *)
(* the relation between the first two; the items of SET or REMOVE; and     *)
(* whether it says more that nobody looks at: a WHERE, a direction, a      *)
(* second path, a third clause.                                            *)
Clause == {"MATCH", "CREATE", "RETURN", "SET", "REMOVE", "DELETE", "other"}
literal == [key : Text, value : Text, is_string : BOOLEAN]
pattern == [labels : Seq(Text), props : Seq(literal)]
item == [kind : {"labels", "property", "other"}, labels : Seq(Text), prop : literal]
query ==
  [clauses : {<< "MATCH" >>, << "CREATE" >>} \cup ({"MATCH"} \X Clause),
   path : Seq(pattern), reltype : Text, items : Seq(item), more : BOOLEAN]

(* Two strcpy into a property: a key that fills its array leaves its 0     *)
(* byte in the first byte of value, where the value then goes.             *)
Copied(p) ==
  [key   |-> IF Len(p.key) < PROPERTY_KEY_SIZE THEN p.key
             ELSE SubSeq(p.key, 1, PROPERTY_KEY_SIZE) \o p.value,
   value |-> p.value]
CopiedAll(props) == [i \in DOMAIN props |-> Copied(props[i])]

(* Properties that are not allowed are left out, and the query goes on.    *)
KeyAllowed(p) == Len(p.key) <= PROPERTY_KEY_SIZE
Allowed(p) == KeyAllowed(p) /\ p.is_string /\ Len(p.value) <= PROPERTY_VALUE_SIZE
AllowedOnly(props) ==
  IF \A i \in DOMAIN props : Allowed(props[i]) THEN props ELSE SelectSeq(props, Allowed)
Properties(props) == CopiedAll(AllowedOnly(props))

(* The clause that names the command, and what a SET or REMOVE changes: of *)
(* its items only the first counts.  Of any other clause command_type is   *)
(* not written.                                                            *)
Named(q) == q.clauses[Len(q.clauses)]
CommandOf(q, left) ==
  CASE Named(q) = "RETURN" -> "match"
    [] Named(q) = "SET" -> "set"
    [] Named(q) = "REMOVE" -> "remove"
    [] Named(q) = "DELETE" -> "delete"
    [] Named(q) = "CREATE" -> "create"
    [] OTHER -> left
ChangedLabels(q) ==
  IF Named(q) \in {"SET", "REMOVE"} /\ q.items[1].kind = "labels" THEN q.items[1].labels
  ELSE << >>
ChangedProps(q) ==
  LET p == q.items[1].prop
      erased == [p EXCEPT !.value = << >>]
  IN CASE Named(q) = "SET" /\ q.items[1].kind = "property" ->
            CopiedAll(AllowedOnly(<< p >>))
       [] Named(q) = "REMOVE" /\ q.items[1].kind = "property" /\ KeyAllowed(p) ->
            CopiedAll(<< erased >>)
       [] OTHER -> << >>

(* A type that fills rel_name leaves it without a 0 byte, and what lies    *)
(* behind is read with it.                                                 *)
RelationName(type, padding) ==
  IF Len(type) < RELATION_NAME_SIZE THEN type
  ELSE SubSeq(type, 1, RELATION_NAME_SIZE) \o padding

(* A path of two nodes has a relation; of a longer one only the first node *)
(* is looked at.                                                           *)
get_query_info(q, left, padding) ==
  LET related == Len(q.path) = 2
      rel_node == IF related THEN q.path[2] ELSE [labels |-> << >>, props |-> << >>]
  IN [command_type |-> CommandOf(q, left),
      labels |-> q.path[1].labels, props |-> Properties(q.path[1].props),
      has_relation |-> related,
      rel_name |-> IF related THEN RelationName(q.reltype, padding) ELSE << >>,
      rel_node_labels |-> rel_node.labels, rel_node_props |-> Properties(rel_node.props),
      changed_labels |-> ChangedLabels(q), changed_props |-> ChangedProps(q)]

-----------------------------------------------------------------------------
(* The request: an element "request" and its children.                     *)
Node(labels, props) == [tag |-> "node", name |-> << >>, labels |-> labels, props |-> props]
Relation(name) == [tag |-> "relation", name |-> name, labels |-> << >>, props |-> << >>]
Changes(labels, props) == [tag |-> "changes", name |-> << >>, labels |-> labels, props |-> props]

build_client_xml_request(info) ==
  LET node == Node(info.labels, info.props)
      relation == Relation(info.rel_name)
      rel_node == Node(info.rel_node_labels, info.rel_node_props)
      changes == Changes(info.changed_labels, info.changed_props)
      changing == info.command_type \in {"set", "remove"}
  IN [command |-> info.command_type,
      children |->
        IF info.has_relation
        THEN IF changing THEN << node, relation, rel_node, changes >>
                         ELSE << node, relation, rel_node >>
        ELSE IF changing THEN << node, changes >> ELSE << node >>]

(* Seeded fault: validated, but the result not looked at.                  *)
valid_Ignored(request) == TRUE

(* schema.xsd.  Of the changes at most one label and one property.         *)
Tags(request) == [i \in DOMAIN request.children |-> request.children[i].tag]
valid(request) ==
  /\ request.command \in command_type
  /\ Tags(request) \in
       {<< "node" >>, << "node", "changes" >>, << "node", "relation", "node" >>,
        << "node", "relation", "node", "changes" >>}
  /\ \A i \in DOMAIN request.children :
       LET child == request.children[i]
       IN child.tag = "changes" => Len(child.labels) <= 1 /\ Len(child.props) <= 1

(* parse_client_xml_request, of a request the schema allows: the children  *)
(* are taken by their place, except that the second may be a relation.     *)
Related(child) == Len(child) >= 2 /\ child[2].tag = "relation"

(* Seeded fault: current_node not moved on from the first node.            *)
RelNode_First(child) == IF Related(child) THEN child[1] ELSE Node(<< >>, << >>)

RelNode(child) == IF Related(child) THEN child[3] ELSE Node(<< >>, << >>)
ChangesOf(child) ==
  LET next == IF Related(child) THEN 4 ELSE 2
  IN IF Len(child) >= next THEN child[next] ELSE Changes(<< >>, << >>)

parse_client_xml_request(request) ==
  LET child == request.children
  IN [command_type |-> request.command,
      labels |-> child[1].labels, props |-> CopiedAll(child[1].props),
      has_relation |-> Related(child),
      rel_name |-> IF Related(child) THEN child[2].name ELSE << >>,
      rel_node_labels |-> RelNode(child).labels,
      rel_node_props |-> CopiedAll(RelNode(child).props),
      changed_labels |-> ChangesOf(child).labels,
      changed_props |-> CopiedAll(ChangesOf(child).props)]

-----------------------------------------------------------------------------
(* The response, and what the client shows of it.                          *)
build_xml_match_response(nodes, number) ==
  [command |-> "match", type |-> "node", number |-> number, nodes |-> nodes,
   labels |-> << >>, props |-> << >>]
build_xml_create_or_delete_response(command, type, number) ==
  [command |-> command, type |-> type, number |-> number, nodes |-> << >>,
   labels |-> << >>, props |-> << >>]
build_xml_set_or_remove_response(command, type, changed, number) ==
  [command |-> command, type |-> type, number |-> number, nodes |-> << >>,
   labels |-> IF type = "labels" THEN changed ELSE << >>,
   props  |-> IF type = "labels" THEN << >> ELSE changed]

(* The length of texts put together with ", " between them, and of a       *)
(* property as "key=value".  Both go into buffers of a fixed size.         *)
Joined(length) ==
  IF length = << >> THEN 0
  ELSE FoldFunction(LAMBDA n, sum : n + sum, 2 * (Len(length) - 1), length)
LabelsLength(labels) == Joined([i \in DOMAIN labels |-> Len(labels[i])])
PropsLength(props) ==
  Joined([i \in DOMAIN props |-> Len(props[i].key) + 1 + Len(props[i].value)])
LineFits(node) ==
  LabelsLength(node.labels) < LABELS_STRING /\ PropsLength(node.props) < PROPS_STRING

(* What was set or removed; of a removed property only the key is named.   *)
(* Seeded fault: the value is printed too.                                 *)
Changed_WithValue(response) ==
  IF response.type = "labels" THEN response.labels ELSE response.props[1]

Changed(response) ==
  IF response.type = "labels" THEN response.labels
  ELSE IF response.command = "set" THEN response.props[1]
  ELSE [key |-> response.props[1].key]

(* parse_xml_response: the parts of the sentence.                          *)
BadRequest == [said |-> "BAD REQUEST"]
parse_xml_response(response) ==
  CASE response.command = "match" ->
         [said |-> "matching nodes", number |-> response.number, lines |-> response.nodes]
    [] response.command \in {"create", "delete"} ->
         [said |-> IF response.command = "create" THEN "created" ELSE "deleted",
          of |-> IF response.type = "node" THEN "nodes" ELSE "relations",
          number |-> response.number]
    [] OTHER ->
         [said |-> IF response.command = "set" THEN "set" ELSE "removed",
          of |-> Changed(response), number |-> response.number]
=============================================================================
