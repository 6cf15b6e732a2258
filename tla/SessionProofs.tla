--------------------------- MODULE SessionProofs ---------------------------
(***************************************************************************)
(* Theorems about Session: what is read out of a request is what was put   *)
(* in, the graph changes only as the user's words say, and the sentence    *)
(* the client shows is true of it, for all sizes of the buffers, all       *)
(* queries every word of which can be heeded, and every size of the graph. *)
(***************************************************************************)
EXTENDS Session, SequenceTheorems, FunctionTheorems, FiniteSetTheorems, TLAPS

-----------------------------------------------------------------------------
(* Copying a property twice, at both ends, is copying it once if its key   *)
(* is short.                                                               *)
LEMMA CopiedAllEmpty == CopiedAll(<< >>) = << >>
  BY DEF CopiedAll

LEMMA ShortCopied ==
  ASSUME NEW props, \A i \in DOMAIN props : Len(props[i].key) < PROPERTY_KEY_SIZE
  PROVE  CopiedAll(props) = AsTyped(props)
  BY DEF CopiedAll, Copied, AsTyped

LEMMA ShortCopiedTwice ==
  ASSUME NEW props, \A i \in DOMAIN props : Len(props[i].key) < PROPERTY_KEY_SIZE
  PROVE  CopiedAll(CopiedAll(props)) = AsTyped(props)
<1>1. CopiedAll(props) = AsTyped(props)  BY ShortCopied
<1>2. \A i \in DOMAIN AsTyped(props) : Len(AsTyped(props)[i].key) < PROPERTY_KEY_SIZE
  BY DEF AsTyped
<1>3. CopiedAll(AsTyped(props)) = AsTyped(AsTyped(props))  BY <1>2, ShortCopied
<1>4. AsTyped(AsTyped(props)) = AsTyped(props)  BY DEF AsTyped
<1> QED  BY <1>1, <1>3, <1>4

LEMMA OneCopied ==
  ASSUME NEW p, Len(p.key) < PROPERTY_KEY_SIZE
  PROVE  /\ CopiedAll(<< p >>) = << [key |-> p.key, value |-> p.value] >>
         /\ CopiedAll(CopiedAll(<< p >>)) = << [key |-> p.key, value |-> p.value] >>
<1> DEFINE c == [key |-> p.key, value |-> p.value]
<1>1. Copied(p) = c /\ Copied(c) = c  BY DEF Copied
<1> HIDE DEF c
<1>2. ASSUME NEW r, Copied(r) = c  PROVE CopiedAll(<< r >>) = << c >>
  <2>1. DOMAIN << r >> = 1 .. 1 /\ << r >>[1] = r  OBVIOUS
  <2>2. CopiedAll(<< r >>) = [i \in 1 .. 1 |-> c]  BY <2>1, <1>2 DEF CopiedAll
  <2> QED  BY <2>2
<1>3. CopiedAll(<< p >>) = << c >> /\ CopiedAll(<< c >>) = << c >>  BY <1>1, <1>2
<1> QED  BY <1>3, Zenon DEF c

LEMMA OneAllowed ==
  ASSUME NEW p, Allowed(p)
  PROVE  AllowedOnly(<< p >>) = << p >>
<1>1. \A i \in DOMAIN << p >> : << p >>[i] = p  OBVIOUS
<1>2. \A i \in DOMAIN << p >> : Allowed(<< p >>[i])  BY <1>1
<1> QED  BY <1>2, Zenon DEF AllowedOnly

-----------------------------------------------------------------------------
(* The children of a request, by their place.                              *)
Absent(info) ==
  /\ info.has_relation \in BOOLEAN
  /\ ~ info.has_relation =>
       info.rel_name = << >> /\ info.rel_node_labels = << >> /\ info.rel_node_props = << >>
  /\ info.command_type \notin {"set", "remove"} =>
       info.changed_labels = << >> /\ info.changed_props = << >>

LEMMA Children ==
  ASSUME NEW info, NEW n, NEW r, NEW m, NEW c,
         n = Node(info.labels, info.props),
         r = Relation(info.rel_name),
         m = Node(info.rel_node_labels, info.rel_node_props),
         c = Changes(info.changed_labels, info.changed_props)
  PROVE  LET child == build_client_xml_request(info).children
             changes == info.command_type \in {"set", "remove"}
         IN /\ info.has_relation /\ changes => child = << n, r, m, c >>
            /\ info.has_relation /\ ~ changes => child = << n, r, m >>
            /\ ~ info.has_relation /\ changes => child = << n, c >>
            /\ ~ info.has_relation /\ ~ changes => child = << n >>
  BY DEF build_client_xml_request

(* What the server reads out of a request is what the client put into it,  *)
(* each property copied once more: build_client_xml_request and            *)
(* parse_client_xml_request fit together, with a relation or not, with     *)
(* changes or not.                                                         *)
THEOREM RoundTrip ==
  ASSUME NEW info, Absent(info)
  PROVE  parse_client_xml_request(build_client_xml_request(info)) =
           [command_type |-> info.command_type,
            labels |-> info.labels, props |-> CopiedAll(info.props),
            has_relation |-> info.has_relation, rel_name |-> info.rel_name,
            rel_node_labels |-> info.rel_node_labels,
            rel_node_props |-> CopiedAll(info.rel_node_props),
            changed_labels |-> info.changed_labels,
            changed_props |-> CopiedAll(info.changed_props)]
<1> DEFINE child == build_client_xml_request(info).children
           changes == info.command_type \in {"set", "remove"}
           n == Node(info.labels, info.props)
           r == Relation(info.rel_name)
           m == Node(info.rel_node_labels, info.rel_node_props)
           c == Changes(info.changed_labels, info.changed_props)
<1>1. /\ info.has_relation /\ changes => child = << n, r, m, c >>
      /\ info.has_relation /\ ~ changes => child = << n, r, m >>
      /\ ~ info.has_relation /\ changes => child = << n, c >>
      /\ ~ info.has_relation /\ ~ changes => child = << n >>
  BY Children
<1>2. build_client_xml_request(info).command = info.command_type  BY DEF build_client_xml_request
<1>3. n.tag = "node" /\ r.tag = "relation" /\ c.tag = "changes"
  BY DEF Node, Relation, Changes
<1>. HIDE DEF child, n, r, m, c
<1>4. child[1] = n  BY <1>1
<1>5. Related(child) = info.has_relation  BY <1>1, <1>3 DEF Related, Absent
<1>6. info.has_relation => child[2] = r  BY <1>1
<1>7. RelNode(child) = IF info.has_relation THEN m ELSE Node(<< >>, << >>)
  BY <1>1, <1>5 DEF RelNode
<1>8. ChangesOf(child) = IF changes THEN c ELSE Changes(<< >>, << >>)
  <2> HIDE DEF changes
  <2>1. CASE changes /\ info.has_relation
    <3>1. child = << n, r, m, c >>  BY <1>1, <2>1
    <3>2. Len(child) = 4 /\ child[4] = c  BY <3>1
    <3> QED  BY <2>1, <1>5, <3>2 DEF ChangesOf
  <2>2. CASE changes /\ ~ info.has_relation
    <3>1. child = << n, c >>  BY <1>1, <2>2
    <3>2. Len(child) = 2 /\ child[2] = c  BY <3>1
    <3> QED  BY <2>2, <1>5, <3>2 DEF ChangesOf
  <2>3. CASE ~ changes /\ info.has_relation
    <3>1. Len(child) = 3  BY <1>1, <2>3
    <3> QED  BY <2>3, <1>5, <3>1 DEF ChangesOf
  <2>4. CASE ~ changes /\ ~ info.has_relation
    <3>1. Len(child) = 1  BY <1>1, <2>4
    <3> QED  BY <2>4, <1>5, <3>1 DEF ChangesOf
  <2> QED  BY <2>1, <2>2, <2>3, <2>4
<1>. USE DEF n, r, m, c
<1>9. n.labels = info.labels /\ n.props = info.props  BY DEF Node
<1>10. (IF Related(child) THEN child[2].name ELSE << >>) = info.rel_name
  BY <1>5, <1>6 DEF Relation, Absent
<1>11. RelNode(child).labels = info.rel_node_labels /\ RelNode(child).props = info.rel_node_props
  BY <1>7 DEF Node, Absent
<1>12. ChangesOf(child).labels = info.changed_labels /\ ChangesOf(child).props = info.changed_props
  BY <1>8 DEF Changes, Absent
<1>. HIDE DEF n, r, m, c
<1> QED
  BY <1>2, <1>4, <1>5, <1>9, <1>10, <1>11, <1>12 DEF parse_client_xml_request, child

-----------------------------------------------------------------------------
(* What get_query_info makes of a query that is heeded, part by part.      *)
LEMMA Short ==
  ASSUME NEW q \in query, Heeded(q), NEW i \in DOMAIN q.path
  PROVE  /\ Properties(q.path[i].props) = AsTyped(q.path[i].props)
         /\ CopiedAll(Properties(q.path[i].props)) = AsTyped(q.path[i].props)
<1> DEFINE props == q.path[i].props
<1>1. \A j \in DOMAIN props : KeptWhole(props[j])  BY DEF Heeded
<1>2. AllowedOnly(props) = props  BY <1>1 DEF AllowedOnly, KeptWhole
<1>3. \A j \in DOMAIN props : Len(props[j].key) < PROPERTY_KEY_SIZE
  BY <1>1 DEF KeptWhole
<1> HIDE DEF props
<1>4. CopiedAll(props) = AsTyped(props) /\ CopiedAll(CopiedAll(props)) = AsTyped(props)
  BY <1>3, ShortCopied, ShortCopiedTwice
<1> QED  BY <1>2, <1>4 DEF Properties, props

LEMMA QueryType ==
  ASSUME NEW q \in query
  PROVE  /\ q.clauses \in {<< "MATCH" >>, << "CREATE" >>} \cup ({"MATCH"} \X Clause)
         /\ q.path \in Seq(pattern)
         /\ q.items \in Seq(item)
         /\ Len(q.path) \in Nat
  BY DEF query

LEMMA NamedAgrees ==
  ASSUME NEW q \in query, Heeded(q), q.clauses # << "MATCH" >>
  PROVE  CommandNamed(q.clauses) =
           CASE Named(q) = "RETURN" -> "match" [] Named(q) = "SET" -> "set"
             [] Named(q) = "REMOVE" -> "remove" [] Named(q) = "DELETE" -> "delete"
             [] Named(q) = "CREATE" -> "create" [] OTHER -> "none"
<1>1. q.clauses = << "CREATE" >> \/ \E c \in Clause : q.clauses = << "MATCH", c >>
  BY QueryType
<1>2. CASE q.clauses = << "CREATE" >>
  <2>1. Named(q) = "CREATE"  BY <1>2 DEF Named
  <2>2. CommandNamed(q.clauses) = "create"  BY <1>2 DEF CommandNamed
  <2> QED  BY <2>1, <2>2
<1>3. CASE \E c \in Clause : q.clauses = << "MATCH", c >>
  <2>1. PICK c \in Clause : q.clauses = << "MATCH", c >>  BY <1>3
  <2>2. Named(q) = c  BY <2>1 DEF Named
  <2>3. c # "CREATE"  BY <2>1 DEF Heeded
  <2>4. CommandNamed(q.clauses) =
          CASE c = "RETURN" -> "match" [] c = "SET" -> "set" [] c = "REMOVE" -> "remove"
            [] c = "DELETE" -> "delete" [] OTHER -> "none"
    BY <2>1 DEF CommandNamed
  <2> QED  BY <2>2, <2>3, <2>4
<1> QED  BY <1>1, <1>2, <1>3

LEMMA Command ==
  ASSUME NEW q \in query, NEW left, Heeded(q), q.clauses # << "MATCH" >>
  PROVE  /\ CommandNamed(q.clauses) = "none" => CommandOf(q, left) = left
         /\ CommandNamed(q.clauses) # "none" => CommandOf(q, left) = CommandNamed(q.clauses)
         /\ CommandNamed(q.clauses) = "set" <=> Named(q) = "SET"
         /\ CommandNamed(q.clauses) = "remove" <=> Named(q) = "REMOVE"
  BY NamedAgrees DEF CommandOf

-----------------------------------------------------------------------------
(* A query that means something is read by the server as what it means.    *)
LEMMA MeaningArrives ==
  ASSUME NEW q \in query, Meant(q), q.clauses # << "MATCH" >>,
         NEW left \in Leftover, NEW padding
  PROVE  parse_client_xml_request(build_client_xml_request(get_query_info(q, left, padding)))
           = Meaning(q)
<1> DEFINE info == get_query_info(q, left, padding)
           command == CommandNamed(q.clauses)
           changing == command \in {"set", "remove"}
           related == Len(q.path) = 2
           change == q.items[1]
<1>1. Heeded(q) /\ command # "none" /\ (changing => OneChange(change))  BY DEF Meant
<1>2. CommandOf(q, left) = command  BY <1>1, Command
<1>3. info.command_type = command /\ info.has_relation = related
      /\ info.labels = q.path[1].labels
      /\ info.props = Properties(q.path[1].props)
      /\ info.changed_labels = ChangedLabels(q) /\ info.changed_props = ChangedProps(q)
  BY <1>2 DEF get_query_info
<1>4. info.rel_name = IF related THEN q.reltype ELSE << >>
  BY <1>1 DEF get_query_info, RelationName, Heeded
<1>5. related => /\ info.rel_node_labels = q.path[2].labels
                 /\ info.rel_node_props = Properties(q.path[2].props)
  BY DEF get_query_info
<1>6. ~ related => info.rel_node_labels = << >> /\ info.rel_node_props = << >>
  BY CopiedAllEmpty DEF get_query_info, Properties, AllowedOnly
<1>7. /\ changing <=> Named(q) \in {"SET", "REMOVE"}
      /\ command = "set" <=> Named(q) = "SET"
      /\ command = "remove" <=> Named(q) = "REMOVE"
  BY <1>1, Command
<1>8. ChangedLabels(q) = IF changing /\ change.kind = "labels" THEN change.labels ELSE << >>
  BY <1>7 DEF ChangedLabels
<1>9. CopiedAll(ChangedProps(q)) =
        IF changing /\ change.kind = "property"
        THEN << [key |-> change.prop.key,
                 value |-> IF command = "set" THEN change.prop.value ELSE << >>] >>
        ELSE << >>
  <2> DEFINE p == change.prop
             erased == [p EXCEPT !.value = << >>]
  <2>1. CASE changing /\ change.kind = "property"
    <3>1. change \in item /\ KeptWhole(p)
      BY <1>1, <1>7, <2>1, QueryType DEF Heeded
    <3>2. p \in literal  BY <3>1 DEF item
    <3>3. /\ erased.key = p.key /\ erased.value = << >>
          /\ Allowed(p) /\ KeyAllowed(p) /\ Len(p.key) < PROPERTY_KEY_SIZE
      BY <3>1, <3>2 DEF literal, KeptWhole, Allowed
    <3> HIDE DEF erased, p
    <3>4. CASE command = "set"
      <4>1. ChangedProps(q) = CopiedAll(AllowedOnly(<< p >>))
        BY <3>4, <2>1, <1>7 DEF ChangedProps, p
      <4> QED  BY <4>1, <3>3, <3>4, <2>1, OneAllowed, OneCopied DEF p
    <3>5. CASE command = "remove"
      <4>1. ChangedProps(q) = CopiedAll(<< erased >>)
        BY <3>3, <3>5, <2>1, <1>7 DEF ChangedProps, p, erased
      <4> QED  BY <4>1, <3>3, <3>5, <2>1, OneCopied DEF p
    <3> QED  BY <3>4, <3>5, <2>1
  <2>2. CASE ~ (changing /\ change.kind = "property")
    <3>1. ChangedProps(q) = << >>  BY <2>2, <1>7 DEF ChangedProps
    <3> QED  BY <3>1, <2>2, CopiedAllEmpty
  <2> QED  BY <2>1, <2>2
<1>10. Len(q.path) \in 1 .. 2 /\ 1 \in DOMAIN q.path /\ (related => 2 \in DOMAIN q.path)
  BY <1>1, QueryType DEF Heeded
<1>11. CopiedAll(info.props) = AsTyped(q.path[1].props)
  BY <1>1, <1>3, <1>10, Short
<1>12. related => CopiedAll(info.rel_node_props) = AsTyped(q.path[2].props)
  BY <1>1, <1>5, <1>10, Short
<1>13. ~ changing => info.changed_labels = << >> /\ info.changed_props = << >>
  BY <1>3, <1>7 DEF ChangedLabels, ChangedProps
<1>14. Absent(info)
  BY <1>3, <1>4, <1>6, <1>13 DEF Absent
<1>15. CopiedAll(info.rel_node_props) = IF related THEN AsTyped(q.path[2].props) ELSE << >>
  BY <1>6, <1>12, CopiedAllEmpty
<1>16. info.rel_node_labels = IF related THEN q.path[2].labels ELSE << >>
  BY <1>5, <1>6
<1>17. CopiedAll(info.changed_props) =
         IF ~ (changing /\ change.kind = "property") THEN << >>
         ELSE << [key |-> change.prop.key,
                  value |-> IF command = "set" THEN change.prop.value ELSE << >>] >>
  BY <1>3, <1>9
<1>18. info.changed_labels = IF changing /\ change.kind = "labels" THEN change.labels ELSE << >>
  BY <1>3, <1>8
<1>. HIDE DEF info, command, changing, related, change
<1>19. parse_client_xml_request(build_client_xml_request(info)) =
         [command_type |-> command,
          labels |-> q.path[1].labels, props |-> AsTyped(q.path[1].props),
          has_relation |-> related, rel_name |-> IF related THEN q.reltype ELSE << >>,
          rel_node_labels |-> IF related THEN q.path[2].labels ELSE << >>,
          rel_node_props |-> IF related THEN AsTyped(q.path[2].props) ELSE << >>,
          changed_labels |-> IF changing /\ change.kind = "labels" THEN change.labels ELSE << >>,
          changed_props |->
            IF ~ (changing /\ change.kind = "property") THEN << >>
            ELSE << [key |-> change.prop.key,
                     value |-> IF command = "set" THEN change.prop.value ELSE << >>] >>]
  BY <1>3, <1>4, <1>11, <1>14, <1>15, <1>16, <1>17, <1>18, RoundTrip
<1> QED  BY <1>19, Zenon DEF Meaning, info, command, changing, related, change

LEMMA EmptyOrOne ==
  ASSUME NEW s \in Seq(Text), Len(s) <= 1, Len(s) # 1
  PROVE  s = << >>
<1>1. Len(s) \in Nat  OBVIOUS
<1>2. \A n \in Nat : n <= 1 /\ n # 1 => n = 0  OBVIOUS
<1>3. Len(s) = 0  BY <1>1, <1>2, Zenon
<1> QED  BY <1>3, EmptySeq

(* A query that is heeded but means nothing either fails the schema or     *)
(* asks for no change: the server runs nothing of it.                      *)
LEMMA NothingArrives ==
  ASSUME NEW q \in query, Heeded(q), ~ Meant(q), ~ Untyped(q), q.clauses # << "MATCH" >>,
         NEW left \in Leftover, NEW padding,
         valid(build_client_xml_request(get_query_info(q, left, padding)))
  PROVE  NoChange(parse_client_xml_request(
                    build_client_xml_request(get_query_info(q, left, padding))))
<1> DEFINE info == get_query_info(q, left, padding)
           document == build_client_xml_request(info)
           command == CommandNamed(q.clauses)
           change == q.items[1]
<1>1. info.command_type = CommandOf(q, left) /\ document.command = info.command_type
      /\ info.changed_labels = ChangedLabels(q) /\ info.changed_props = ChangedProps(q)
  BY DEF get_query_info, build_client_xml_request
<1>2. command # "none"
  <2>1. CommandOf(q, left) # left
    BY <1>1, MessagesAssumption DEF valid
  <2> QED  BY <2>1, Command
<1>3. command \in {"set", "remove"} /\ ~ OneChange(change)  BY <1>2 DEF Meant
<1>4. CommandOf(q, left) = command /\ Named(q) \in {"SET", "REMOVE"}
  BY <1>2, <1>3, Command
<1>5. change \in item /\ change.kind # "property"
  BY <1>3, <1>4, QueryType DEF Heeded, OneChange
<1>6. ChangedProps(q) = << >>  BY <1>5 DEF ChangedProps
<1>7. ChangedLabels(q) = << >>
  <2>1. CASE change.kind # "labels"  BY <2>1 DEF ChangedLabels
  <2>2. CASE change.kind = "labels"
    <3>1. ChangedLabels(q) = change.labels  BY <1>4, <2>2 DEF ChangedLabels
    <3>2. change.labels \in Seq(Text) /\ Len(change.labels) # 1
      BY <1>3, <1>5, <2>2 DEF OneChange, item
    <3>3. \E i \in DOMAIN document.children :
            document.children[i] = Changes(info.changed_labels, info.changed_props)
      <4> HIDE DEF info
      <4> DEFINE c == Changes(info.changed_labels, info.changed_props)
                 n == Node(info.labels, info.props)
                 r == Relation(info.rel_name)
                 m == Node(info.rel_node_labels, info.rel_node_props)
      <4>1. \/ document.children = << n, r, m, c >>
            \/ document.children = << n, c >>
        BY <1>1, <1>3, <1>4, Children
      <4> HIDE DEF c, n, r, m, document
      <4> QED  BY <4>1 DEF c
    <3>4. Changes(info.changed_labels, info.changed_props).tag = "changes"
          /\ Changes(info.changed_labels, info.changed_props).labels = info.changed_labels
      BY DEF Changes
    <3>5. Len(info.changed_labels) <= 1
      BY <3>3, <3>4 DEF valid
    <3>6. Len(change.labels) <= 1  BY <1>1, <3>1, <3>5, Zenon
    <3> QED  BY <3>1, <3>2, <3>6, EmptyOrOne, Zenon
  <2> QED  BY <2>1, <2>2
<1>8. Absent(info)
  <2>1. info.has_relation = (Len(q.path) = 2)  BY DEF get_query_info
  <2>2. ~ Len(q.path) = 2 => info.rel_name = << >> /\ info.rel_node_labels = << >>
                             /\ info.rel_node_props = << >>
    BY CopiedAllEmpty DEF get_query_info, Properties, AllowedOnly
  <2>3. info.command_type \in {"set", "remove"}  BY <1>1, <1>3, <1>4
  <2> HIDE DEF info
  <2> QED  BY <2>1, <2>2, <2>3 DEF Absent
<1> HIDE DEF info
<1>9. /\ parse_client_xml_request(document).command_type = command
      /\ parse_client_xml_request(document).changed_labels = << >>
      /\ parse_client_xml_request(document).changed_props = << >>
  BY <1>1, <1>4, <1>6, <1>7, <1>8, RoundTrip, CopiedAllEmpty
<1> QED  BY <1>3, <1>9 DEF NoChange, info

-----------------------------------------------------------------------------
(* What is on its way is a request made from the query last typed.         *)
Sent ==
  /\ typed \in Queries /\ typed.clauses # << "MATCH" >> /\ ~ Untyped(typed)
  /\ \E left \in Leftover, padding \in Padding :
       request = build_client_xml_request(get_query_info(typed, left, padding))
OnItsWay ==
  /\ pc = "work_with_client" => Sent
  /\ pc = "execute_command" =>
       Sent /\ valid(request) /\ received = parse_client_xml_request(request)

LEMMA OnItsWayStep == OnItsWay /\ [Next]_vars => OnItsWay'
<1> SUFFICES ASSUME OnItsWay, [Next]_vars  PROVE OnItsWay'  OBVIOUS
<1>1. CASE send_query
  BY <1>1 DEF send_query, OnItsWay, Sent
<1>2. CASE parse_request
  BY <1>2 DEF parse_request, OnItsWay, Sent
<1>3. CASE unknown_command \/ untyped_relation \/ bad_request \/ no_response
           \/ execute_command \/ server_ends \/ goes_astray \/ line_too_long \/ show_response
  BY <1>3 DEF unknown_command, untyped_relation, bad_request, no_response, execute_command,
              server_ends, goes_astray, line_too_long, show_response, OnItsWay
<1>4. CASE UNCHANGED vars  BY <1>4 DEF vars, OnItsWay, Sent
<1> QED  BY <1>1, <1>2, <1>3, <1>4 DEF Next

(* What the server has read and is about to run is what was meant; what    *)
(* was not meant asks for no change.                                       *)
LEMMA Runs ==
  ASSUME \A q \in Queries : Heeded(q), OnItsWay, pc = "execute_command"
  PROVE  /\ Meant(typed) => received = Meaning(typed)
         /\ ~ Meant(typed) => NoChange(received)
<1>1. Sent /\ valid(request) /\ received = parse_client_xml_request(request)
  BY DEF OnItsWay
<1>2. PICK left \in Leftover, padding \in Padding :
        request = build_client_xml_request(get_query_info(typed, left, padding))
  BY <1>1 DEF Sent
<1>3. typed \in query /\ Heeded(typed) /\ typed.clauses # << "MATCH" >> /\ ~ Untyped(typed)
  BY <1>1, SessionAssumption DEF Sent
<1>4. Meant(typed) => received = Meaning(typed)  BY <1>1, <1>2, <1>3, MeaningArrives
<1>5. ~ Meant(typed) => NoChange(received)  BY <1>1, <1>2, <1>3, NothingArrives
<1> QED  BY <1>4, <1>5

(* If every word of every query can be heeded, the graph changes only as   *)
(* the user's words say: get_query_info, the two halves of the request in  *)
(* message.c and execute_command, for every size of buffer and graph.      *)
THEOREM OnlyAsTypedHolds ==
  ASSUME \A q \in Queries : Heeded(q)
  PROVE  Spec => OnlyAsTyped
<1>1. Init => OnItsWay  BY DEF Init, OnItsWay
<1>2. OnItsWay /\ [Next]_vars => OnItsWay'  BY OnItsWayStep
<1>3. OnItsWay /\ [Next]_vars =>
        [graph' # graph => Meant(typed) /\ Graph!Run(Meaning(typed))]_vars
  <2> SUFFICES ASSUME OnItsWay, Next, graph' # graph
               PROVE  Meant(typed) /\ Graph!Run(Meaning(typed))
    BY DEF vars
  <2>1. execute_command
    BY DEF Next, unknown_command, untyped_relation, send_query, parse_request, bad_request,
           no_response, server_ends, goes_astray, line_too_long, show_response
  <2>2. pc = "execute_command" /\ ~ NoChange(received) /\ Graph!Run(received)
    BY <2>1 DEF execute_command
  <2> QED  BY <2>2, Runs
<1> QED  BY <1>1, <1>2, <1>3, PTL DEF Spec, OnlyAsTyped

-----------------------------------------------------------------------------
(* What is meant passes the schema.                                        *)
LEMMA ChangedAtMostOne ==
  ASSUME NEW q \in query, Meant(q), q.clauses # << "MATCH" >>
  PROVE  Len(ChangedLabels(q)) <= 1 /\ Len(ChangedProps(q)) <= 1
<1> DEFINE p == q.items[1].prop
           erased == [p EXCEPT !.value = << >>]
<1>1. Heeded(q) /\ CommandNamed(q.clauses) # "none"  BY DEF Meant
<1>2. Named(q) \in {"SET", "REMOVE"} =>
        /\ OneChange(q.items[1]) /\ q.items[1] \in item
        /\ q.items[1].kind = "property" => KeptWhole(p)
  <2> SUFFICES ASSUME Named(q) \in {"SET", "REMOVE"}
               PROVE  /\ OneChange(q.items[1]) /\ q.items[1] \in item
                      /\ q.items[1].kind = "property" => KeptWhole(p)
    OBVIOUS
  <2>1. CommandNamed(q.clauses) \in {"set", "remove"}
    BY <1>1, NamedAgrees
  <2>2. OneChange(q.items[1])  BY <2>1 DEF Meant
  <2>3. Len(q.items) = 1 /\ (q.items[1].kind = "property" => KeptWhole(p))
    BY <1>1 DEF Heeded
  <2>4. q.items[1] \in item  BY <2>3, QueryType
  <2> QED  BY <2>2, <2>3, <2>4
<1>3. Len(<< >>) = 0 /\ 0 <= 1 /\ 1 <= 1  OBVIOUS
<1>4. Len(ChangedLabels(q)) <= 1
  <2>1. CASE Named(q) \in {"SET", "REMOVE"} /\ q.items[1].kind = "labels"
    <3>1. ChangedLabels(q) = q.items[1].labels  BY <2>1 DEF ChangedLabels
    <3>2. Len(q.items[1].labels) = 1  BY <1>2, <2>1 DEF OneChange
    <3> QED  BY <3>1, <3>2, <1>3, Zenon
  <2>2. CASE ~ (Named(q) \in {"SET", "REMOVE"} /\ q.items[1].kind = "labels")
    <3>1. ChangedLabels(q) = << >>  BY <2>2 DEF ChangedLabels
    <3> QED  BY <3>1, <1>3, Zenon
  <2> QED  BY <2>1, <2>2
<1>5. \A x : Len(CopiedAll(<< x >>)) = 1
  <2> TAKE x
  <2>1. CopiedAll(<< x >>) = [i \in 1 .. 1 |-> Copied(<< x >>[i])]  BY DEF CopiedAll
  <2>2. CopiedAll(<< x >>) = << Copied(x) >>  BY <2>1
  <2> QED  BY <2>2
<1>6. Len(ChangedProps(q)) <= 1
  <2>1. CASE Named(q) = "SET" /\ q.items[1].kind = "property"
    <3>1. ChangedProps(q) = CopiedAll(AllowedOnly(<< p >>))  BY <2>1 DEF ChangedProps
    <3>2. AllowedOnly(<< p >>) = << p >>  BY <2>1, <1>2, OneAllowed DEF KeptWhole
    <3> QED  BY <3>1, <3>2, <1>3, <1>5, Zenon
  <2>2. CASE Named(q) = "REMOVE" /\ q.items[1].kind = "property" /\ KeyAllowed(p)
    <3>1. ChangedProps(q) = CopiedAll(<< erased >>)  BY <2>2 DEF ChangedProps
    <3> QED  BY <3>1, <1>3, <1>5, Zenon
  <2>3. CASE /\ ~ (Named(q) = "SET" /\ q.items[1].kind = "property")
             /\ ~ (Named(q) = "REMOVE" /\ q.items[1].kind = "property" /\ KeyAllowed(p))
    <3>1. ChangedProps(q) = << >>  BY <2>3 DEF ChangedProps
    <3> QED  BY <3>1, <1>3, Zenon
  <2> QED  BY <2>1, <2>2, <2>3
<1> QED  BY <1>4, <1>6

LEMMA MeantIsValid ==
  ASSUME NEW q \in query, Meant(q), q.clauses # << "MATCH" >>,
         NEW left \in Leftover, NEW padding
  PROVE  valid(build_client_xml_request(get_query_info(q, left, padding)))
<1> DEFINE info == get_query_info(q, left, padding)
           document == build_client_xml_request(info)
           n == Node(info.labels, info.props)
           r == Relation(info.rel_name)
           m == Node(info.rel_node_labels, info.rel_node_props)
           c == Changes(info.changed_labels, info.changed_props)
           changes == info.command_type \in {"set", "remove"}
<1>1. Heeded(q) /\ CommandNamed(q.clauses) # "none"  BY DEF Meant
<1>2. info.command_type = CommandNamed(q.clauses) /\ info.has_relation \in BOOLEAN
      /\ info.changed_labels = ChangedLabels(q) /\ info.changed_props = ChangedProps(q)
      /\ document.command = info.command_type
  BY <1>1, Command DEF get_query_info, build_client_xml_request
<1>3. document.command \in command_type
  BY <1>1, <1>2 DEF command_type, CommandNamed
<1>4. /\ info.has_relation /\ changes => document.children = << n, r, m, c >>
      /\ info.has_relation /\ ~ changes => document.children = << n, r, m >>
      /\ ~ info.has_relation /\ changes => document.children = << n, c >>
      /\ ~ info.has_relation /\ ~ changes => document.children = << n >>
  BY Children
<1>5. n.tag = "node" /\ r.tag = "relation" /\ m.tag = "node" /\ c.tag = "changes"
      /\ Len(c.labels) <= 1 /\ Len(c.props) <= 1
  BY <1>2, ChangedAtMostOne DEF Node, Relation, Changes
<1> HIDE DEF n, r, m, c, document, info
<1>6. \/ document.children = << n, r, m, c >> \/ document.children = << n, r, m >>
      \/ document.children = << n, c >> \/ document.children = << n >>
  BY <1>2, <1>4
<1>7. \A i \in DOMAIN document.children :
        document.children[i] \in {n, r, m} \/ document.children[i] = c
  BY <1>6
<1>8. Tags(document) \in
        {<< "node" >>, << "node", "changes" >>, << "node", "relation", "node" >>,
         << "node", "relation", "node", "changes" >>}
  BY <1>5, <1>6 DEF Tags
<1> QED  BY <1>3, <1>5, <1>7, <1>8 DEF valid, document, info

-----------------------------------------------------------------------------
(* The graph under a command: it stays finite, and a match leaves alone    *)
(* what it answers with.                                                   *)
LEMMA Listed ==
  ASSUME NEW S, IsFiniteSet(S)
  PROVE  SetToSeq(S) \in [1 .. Cardinality(S) -> S]
<1>1. PICK f : f \in Bijection(1 .. Cardinality(S), S)
  BY FS_CardinalityType, Fun_ExistsBij, Zenon
<1>2. f \in [1 .. Cardinality(S) -> S] /\ IsInjective(f)
  BY <1>1, Zenon DEF Bijection, Injection
<1> QED  BY <1>2, Zenon DEF SetToSeq

LEMMA GraphFinite ==
  ASSUME NEW info, IsFiniteSet(DOMAIN graph), Graph!Run(info)
  PROVE  IsFiniteSet(DOMAIN graph')
<1>1. CASE Graph!Match(info)  BY <1>1 DEF Graph!Match
<1>2. CASE Graph!Create(info)
  <2>1. PICK id \in NodeId \ DOMAIN graph : DOMAIN graph' = DOMAIN graph \cup {id}
    BY <1>2 DEF Graph!Create
  <2> QED  BY <2>1, FS_AddElement
<1>3. CASE Graph!Relate(info)
  <2>1. DOMAIN graph' = DOMAIN graph  BY <1>3 DEF Graph!Relate
  <2> QED  BY <2>1
<1>4. CASE Graph!Change(info)
  <2>1. DOMAIN graph' = DOMAIN graph  BY <1>4 DEF Graph!Change
  <2> QED  BY <2>1
<1>5. CASE Graph!Delete(info)
  <2>1. DOMAIN graph' \subseteq DOMAIN graph  BY <1>5 DEF Graph!Delete
  <2> QED  BY <2>1, FS_Subset
<1>6. CASE Graph!Unrelate(info)
  <2>1. DOMAIN graph' = DOMAIN graph  BY <1>6 DEF Graph!Unrelate
  <2> QED  BY <2>1
<1> QED  BY <1>1, <1>2, <1>3, <1>4, <1>5, <1>6 DEF Graph!Run

LEMMA MatchingFinite ==
  ASSUME NEW info, IsFiniteSet(DOMAIN graph)
  PROVE  IsFiniteSet(Graph!Matching(info))
<1>1. Graph!Matching(info) \subseteq DOMAIN graph  BY DEF Graph!Matching, Graph!Firsts
<1> QED  BY <1>1, FS_Subset

LEMMA MatchingSame ==
  ASSUME NEW info, UNCHANGED graph
  PROVE  Graph!Matching(info)' = Graph!Matching(info)
  BY DEF Graph!Matching, Graph!Firsts, Graph!Wanted, Graph!Seconds

(* Where the engine keeps its promise depends on the graph alone.          *)
LEMMA PromiseSame ==
  ASSUME NEW info, UNCHANGED graph
  PROVE  Graph!Ends(info)' = Graph!Ends(info) /\ MayStray(info)' = MayStray(info)
<1>1. /\ Graph!Matching(info)' = Graph!Matching(info)
      /\ Graph!Firsts(info)' = Graph!Firsts(info) /\ Graph!Seconds(info)' = Graph!Seconds(info)
      /\ \A id : Graph!Leading(id, info)' = Graph!Leading(id, info)
  BY MatchingSame DEF Graph!Firsts, Graph!Seconds, Graph!Leading, Graph!Wanted
<1>2. Graph!Found(info)' = Graph!Found(info)  BY <1>1 DEF Graph!Found, Graph!Follows
<1>3. Graph!Ends(info)' = Graph!Ends(info)  BY <1>2 DEF Graph!Ends
<1>4. Graph!Stores(info)' = Graph!Stores(info)  BY <1>2 DEF Graph!Stores
<1>5. /\ Graph!FilterForgotten(info)' = Graph!FilterForgotten(info)
      /\ Graph!FoundTwice(info)' = Graph!FoundTwice(info)
      /\ Graph!Miscounts(info)' = Graph!Miscounts(info)
  <2>1. Graph!FilterForgotten(info)' = Graph!FilterForgotten(info)
    BY <1>1, <1>2 DEF Graph!FilterForgotten, Graph!Follows
  <2>2. Graph!FoundTwice(info)' = Graph!FoundTwice(info)
    BY <1>1, <1>2 DEF Graph!FoundTwice, Graph!Follows
  <2>3. Graph!Miscounts(info)' = Graph!Miscounts(info)
    BY <1>1, Zenon DEF Graph!Miscounts, Graph!Cardinality
  <2> QED  BY <2>1, <2>2, <2>3
<1>6. /\ Graph!FirstLost(info)' = Graph!FirstLost(info)
      /\ Graph!TwoTaken(info)' = Graph!TwoTaken(info)
      /\ Graph!RelationLeft(info)' = Graph!RelationLeft(info)
  BY <1>2, Zenon DEF Graph!FirstLost, Graph!TwoTaken, Graph!RelationLeft
<1>7. MayStray(info)' = MayStray(info)
  BY <1>4, <1>5, <1>6, Zenon DEF MayStray, Graph!Breaks
<1> QED  BY <1>3, <1>7

LEMMA SameCount ==
  ASSUME NEW S
  PROVE  Graph!Cardinality(S) = Cardinality(S)
  BY DEF Graph!Cardinality, Cardinality

-----------------------------------------------------------------------------
(* What the answer to a command says of the graph as it is now, while it   *)
(* is on its way to the client.                                            *)
Told(info) ==
  CASE info.command_type = "match" ->
         build_xml_match_response(match_results(info), number)
    [] info.command_type \in {"create", "delete"} ->
         build_xml_create_or_delete_response(
           info.command_type, IF info.has_relation THEN "relation" ELSE "node", number)
    [] info.changed_labels # << >> ->
         build_xml_set_or_remove_response(
           info.command_type, "labels", info.changed_labels, number)
    [] OTHER ->
         build_xml_set_or_remove_response(
           info.command_type, "props", info.changed_props, number)

LEMMA ResponseTold ==
  ASSUME NEW info, Graph!Run(info)
  PROVE  Response(info) = Told(info)'
<1>1. CASE info.command_type = "match"
  <2>1. UNCHANGED graph
    BY <1>1 DEF Graph!Run, Graph!Match, Graph!Create, Graph!Relate, Graph!Change, Graph!Delete,
                Graph!Unrelate
  <2>2. Graph!Matching(info)' = Graph!Matching(info)  BY <2>1, MatchingSame
  <2>3. \A id : match_result(id)' = match_result(id)  BY <2>1 DEF match_result
  <2>4. match_results(info)' = match_results(info)  BY <2>2, <2>3, Zenon DEF match_results
  <2> QED
    BY <1>1, <2>4 DEF Response, Told, build_xml_match_response,
        build_xml_create_or_delete_response, build_xml_set_or_remove_response
<1>2. CASE info.command_type # "match"
  BY <1>2 DEF Response, Told, build_xml_match_response, build_xml_create_or_delete_response,
              build_xml_set_or_remove_response
<1> QED  BY <1>1, <1>2

(* Nothing the server answers with is what it says of a bad request, and   *)
(* nothing the client then shows is what it says of an unknown command.    *)
LEMMA ToldParts ==
  ASSUME NEW info, info.command_type = "match" => info.changed_labels = << >>
  PROVE  /\ Told(info) # BadRequest
         /\ parse_xml_response(Told(info)) \notin {BadRequest, UnknownCommand}
         /\ info.command_type = "match" =>
              Told(info) = build_xml_match_response(match_results(info), number)
         /\ info.command_type # "match" => Told(info).nodes = << >>
<1>1. \A resp : parse_xml_response(resp).said \in
                {"matching nodes", "created", "deleted", "set", "removed"}
  BY DEF parse_xml_response
<1>2. BadRequest.said = "BAD REQUEST" /\ UnknownCommand.said = "Unknown command"
  BY DEF BadRequest, UnknownCommand
<1>3. parse_xml_response(Told(info)) \notin {BadRequest, UnknownCommand}
  BY <1>1, <1>2
<1>4. "command" \in DOMAIN Told(info)
  BY DEF Told, build_xml_match_response, build_xml_create_or_delete_response,
         build_xml_set_or_remove_response
<1>5. "command" \notin DOMAIN BadRequest  BY DEF BadRequest
<1>6. info.command_type = "match" =>
        Told(info) = build_xml_match_response(match_results(info), number)
  BY DEF Told, build_xml_match_response
<1>7. info.command_type # "match" => Told(info).nodes = << >>
  BY DEF Told, build_xml_create_or_delete_response, build_xml_set_or_remove_response
<1> QED  BY <1>3, <1>4, <1>5, <1>6, <1>7

LEMMA MeaningParts ==
  ASSUME NEW q, Meant(q)
  PROVE  /\ Meaning(q).command_type \in command_type
         /\ Meaning(q).has_relation \in BOOLEAN
         /\ Meaning(q).command_type \notin {"set", "remove"} => Meaning(q).changed_labels = << >>
         /\ ~ NoChange(Meaning(q))
<1> DEFINE info == Meaning(q)
           command == CommandNamed(q.clauses)
           i == q.items[1]
<1>1. command \in command_type  BY DEF Meant, CommandNamed, command_type
<1>2. info.command_type = command /\ info.has_relation = (Len(q.path) = 2)  BY DEF Meaning
<1>3. info.changed_labels =
        IF command \in {"set", "remove"} /\ i.kind = "labels" THEN i.labels ELSE << >>
  BY DEF Meaning
<1>4. ASSUME command \in {"set", "remove"}
      PROVE  info.changed_labels # << >> \/ info.changed_props # << >>
  <2>1. OneChange(i)  BY <1>4 DEF Meant
  <2>2. CASE i.kind = "property"
    <3>1. PICK x : info.changed_props = << x >>  BY <1>4, <2>2 DEF Meaning
    <3> QED  BY <3>1
  <2>3. CASE i.kind = "labels" /\ Len(i.labels) = 1
    <3>1. info.changed_labels = i.labels  BY <1>3, <1>4, <2>3
    <3>2. Len(i.labels) # Len(<< >>)  BY <2>3
    <3> QED  BY <3>1, <3>2
  <2> QED  BY <2>1, <2>2, <2>3 DEF OneChange
<1> HIDE DEF info, command, i
<1>5. ~ NoChange(info)  BY <1>2, <1>4 DEF NoChange
<1> QED  BY <1>1, <1>2, <1>3, <1>5 DEF info

(* The lines of a match are one for each node that matches.                *)
LEMMA OneLineEach ==
  ASSUME NEW info, IsFiniteSet(DOMAIN graph)
  PROVE  /\ match_results(info) =
              [i \in 1 .. Cardinality(Graph!Matching(info)) |->
                 match_result(SetToSeq(Graph!Matching(info))[i])]
         /\ \A i \in 1 .. Cardinality(Graph!Matching(info)) :
              SetToSeq(Graph!Matching(info))[i] \in Graph!Matching(info)
<1> DEFINE M == Graph!Matching(info)
           ids == SetToSeq(M)
<1>1. ids \in [1 .. Cardinality(M) -> M]  BY MatchingFinite, Listed
<1>2. match_results(info) = [i \in DOMAIN ids |-> match_result(ids[i])]
  BY Zenon DEF match_results
<1> HIDE DEF ids, M
<1>3. DOMAIN ids = 1 .. Cardinality(M) /\ \A i \in 1 .. Cardinality(M) : ids[i] \in M
  BY <1>1
<1> QED  BY <1>2, <1>3, Zenon DEF ids, M

(* While an answer is on its way it says what is true of the graph.        *)
Answered ==
  /\ typed \in Queries /\ typed.clauses # << "MATCH" >> /\ ~ Untyped(typed)
  /\ Meant(typed) =>
       /\ response = Told(Meaning(typed))
       /\ Meaning(typed).command_type = "match" =>
            number = Cardinality(Graph!Matching(Meaning(typed)))
  /\ ~ Meant(typed) => response = BadRequest
AnswerInv ==
  /\ OnItsWay
  /\ IsFiniteSet(DOMAIN graph)
  /\ pc = "parse_xml_response" => Answered
  /\ AnsweredAsTyped

LEMMA ShownIsTrue ==
  ASSUME IsFiniteSet(DOMAIN graph), NEW info, UNCHANGED <<graph, number>>,
         info.command_type \in command_type, info.has_relation \in BOOLEAN,
         info.command_type \notin {"set", "remove"} => info.changed_labels = << >>,
         ~ NoChange(info),
         info.command_type = "match" => number = Cardinality(Graph!Matching(info)),
         shown' = parse_xml_response(Told(info))
  PROVE  SaysTrue(info)'
<1> DEFINE M == Graph!Matching(info)
<1>1. CASE info.command_type = "match"
  <2>1. Told(info) = build_xml_match_response(match_results(info), number)
    BY <1>1, ToldParts
  <2>2. /\ shown'.said = "matching nodes" /\ shown'.number = Cardinality(M)
        /\ shown'.lines = match_results(info)
    <3>1. Told(info).command = "match" /\ Told(info).number = number
          /\ Told(info).nodes = match_results(info)
      BY <2>1 DEF build_xml_match_response
    <3> DEFINE sentence == parse_xml_response(Told(info))
    <3>2. sentence =
            [said |-> "matching nodes", number |-> number, lines |-> match_results(info)]
      BY <3>1 DEF parse_xml_response
    <3>3. number = Cardinality(M) /\ shown' = sentence  BY <1>1
    <3> HIDE DEF sentence
    <3>4. sentence.number = number /\ sentence.said = "matching nodes"
          /\ sentence.lines = match_results(info)
      BY <3>2
    <3> QED  BY <3>3, <3>4, Zenon
  <2>3. M' = M  BY MatchingSame
  <2>4. \A id : match_result(id)' = match_result(id)  BY DEF match_result
  <2>5. Lines(info)' = ToBag([i \in 1 .. Cardinality(M) |-> match_result(SetToSeq(M)[i])])
    BY <2>3, <2>4, Zenon DEF Lines
  <2>6. ToBag(shown'.lines) = Lines(info)'  BY <2>2, <2>5, OneLineEach, Zenon
  <2> QED  BY <1>1, <2>2, <2>3, <2>6 DEF SaysTrue
<1>2. CASE info.command_type \in {"create", "delete"}
  BY <1>2 DEF SaysTrue, Told, parse_xml_response, build_xml_create_or_delete_response
<1>3. CASE info.command_type \in {"set", "remove"} /\ info.changed_labels # << >>
  BY <1>3 DEF SaysTrue, Told, parse_xml_response, build_xml_set_or_remove_response, Changed
<1>4. CASE info.command_type \in {"set", "remove"} /\ info.changed_labels = << >>
  BY <1>4 DEF SaysTrue, Told, parse_xml_response, build_xml_set_or_remove_response, Changed
<1> QED  BY <1>1, <1>2, <1>3, <1>4 DEF command_type

(* execute_command counts what a match answers with.                       *)
LEMMA MatchCounts ==
  ASSUME NEW info, Graph!Run(info), info.command_type = "match"
  PROVE  UNCHANGED graph /\ number' = Cardinality(Graph!Matching(info)')
<1>1. Graph!Match(info)
  BY DEF Graph!Run, Graph!Create, Graph!Relate, Graph!Change, Graph!Delete, Graph!Unrelate
<1>2. UNCHANGED graph /\ number' = Graph!Cardinality(Graph!Matching(info))
  BY <1>1 DEF Graph!Match
<1> QED  BY <1>2, MatchingSame, SameCount

LEMMA Unchanged ==
  ASSUME NEW info, UNCHANGED <<graph, number, shown>>
  PROVE  Told(info)' = Told(info) /\ SaysTrue(info)' = SaysTrue(info)
<1>1. Graph!Matching(info)' = Graph!Matching(info)  BY MatchingSame
<1>2. \A id : match_result(id)' = match_result(id)  BY DEF match_result
<1>3. match_results(info)' = match_results(info)  BY <1>1, <1>2, Zenon DEF match_results
<1>4. Lines(info)' = Lines(info)  BY <1>1, <1>2, Zenon DEF Lines
<1> QED
  BY <1>1, <1>3, <1>4
  DEF Told, SaysTrue, build_xml_match_response, build_xml_create_or_delete_response,
      build_xml_set_or_remove_response

LEMMA AnswerStep ==
  ASSUME \A q \in Queries : Heeded(q)
  PROVE  AnswerInv /\ [Next]_vars => AnswerInv'
<1> SUFFICES ASSUME AnswerInv, [Next]_vars  PROVE AnswerInv'  OBVIOUS
<1>1. OnItsWay'  BY OnItsWayStep DEF AnswerInv
<1> SUFFICES /\ IsFiniteSet(DOMAIN graph)' /\ (pc = "parse_xml_response" => Answered)'
             /\ AnsweredAsTyped'
  BY <1>1 DEF AnswerInv
<1>2. CASE unknown_command
  <2>1. PICK q \in Queries : q.clauses = << "MATCH" >> /\ typed' = q
    BY <1>2 DEF unknown_command
  <2>2. ~ Meant(q)
    <3>1. CommandNamed(q.clauses) = "none"  BY <2>1 DEF CommandNamed
    <3> QED  BY <3>1 DEF Meant
  <2>3. pc = "getline" /\ pc' = "getline" /\ shown' = UnknownCommand /\ graph' = graph
    BY <1>2 DEF unknown_command
  <2> QED  BY <2>1, <2>2, <2>3 DEF AnswerInv, AnsweredAsTyped
<1>3. CASE untyped_relation
  <2>1. Untyped(typed') /\ pc' = "gone" /\ graph' = graph  BY <1>3 DEF untyped_relation
  <2>2. ~ Meant(typed')  BY <2>1 DEF Meant
  <2> QED  BY <2>1, <2>2 DEF AnswerInv, AnsweredAsTyped
<1>4. CASE send_query \/ parse_request
  <2>1. pc' \in {"work_with_client", "execute_command"} /\ graph' = graph
    BY <1>4 DEF send_query, parse_request
  <2> QED  BY <2>1 DEF AnswerInv, AnsweredAsTyped
<1>5. CASE bad_request
  <2>1. Sent /\ ~ valid(request) /\ pc' = "parse_xml_response" /\ response' = BadRequest
        /\ UNCHANGED <<graph, number, typed>>
    BY <1>5 DEF bad_request, AnswerInv, OnItsWay
  <2>2. PICK left \in Leftover, padding \in Padding :
          request = build_client_xml_request(get_query_info(typed, left, padding))
    BY <2>1 DEF Sent
  <2>3. ~ Meant(typed)  BY <2>1, <2>2, MeantIsValid, SessionAssumption DEF Sent
  <2> QED  BY <2>1, <2>3 DEF AnswerInv, Answered, AnsweredAsTyped, Sent
<1>6. CASE no_response
  <2>1. pc = "execute_command" /\ NoChange(received) /\ pc' = "down"
        /\ UNCHANGED <<graph, typed>>
    BY <1>6 DEF no_response
  <2>2. Meant(typed) => received = Meaning(typed)  BY <2>1, Runs DEF AnswerInv
  <2>3. ~ Meant(typed)  BY <2>1, <2>2, MeaningParts
  <2> QED  BY <2>1, <2>3 DEF AnswerInv, AnsweredAsTyped
<1>7. CASE execute_command
  <2>1. pc = "execute_command" /\ pc' = "parse_xml_response" /\ ~ NoChange(received)
        /\ Graph!Run(received) /\ response' = Response(received) /\ typed' = typed
    BY <1>7 DEF execute_command
  <2>2. Meant(typed) /\ received = Meaning(typed)  BY <2>1, Runs DEF AnswerInv
  <2>3. response' = Told(Meaning(typed))'
    <3>1. PICK info : info = received  OBVIOUS
    <3>2. response' = Told(info)'  BY <2>1, <3>1, ResponseTold
    <3>3. Meaning(typed)' = info  BY <2>1, <2>2, <3>1
    <3> QED  BY <3>2, <3>3 DEF Told
  <2>4. Meaning(typed).command_type = "match" =>
          number' = Cardinality(Graph!Matching(Meaning(typed))')
    BY <2>1, <2>2, MatchCounts
  <2>5. IsFiniteSet(DOMAIN graph')  BY <2>1, GraphFinite DEF AnswerInv
  <2>6. Sent  BY <2>1 DEF AnswerInv, OnItsWay
  <2>7. Answered'  BY <2>1, <2>2, <2>3, <2>4, <2>6 DEF Answered, Sent
  <2> QED  BY <2>1, <2>5, <2>7 DEF AnsweredAsTyped
<1>8. CASE line_too_long
  <2>1. pc = "parse_xml_response" /\ pc' = "gone" /\ ~ Fits /\ UNCHANGED <<typed, graph>>
    BY <1>8 DEF line_too_long
  <2>2. Answered /\ IsFiniteSet(DOMAIN graph)  BY <2>1 DEF AnswerInv
  <2> DEFINE info == Meaning(typed)
  <2>3. ASSUME Meant(typed)
        PROVE  \E id \in Graph!Matching(info) : ~ LineFits(match_result(id))
    <3>1. response = Told(info)  BY <2>2, <2>3 DEF Answered
    <3>2. PICK i \in DOMAIN response.nodes : ~ LineFits(response.nodes[i])
      BY <2>1 DEF Fits
    <3>3. info.command_type = "match" => info.changed_labels = << >>  BY <2>3, MeaningParts
    <3>4. response.nodes # << >>  BY <3>2
    <3>5. info.command_type = "match" /\ response.nodes = match_results(info)
      BY <3>1, <3>3, <3>4, ToldParts DEF build_xml_match_response
    <3>6. i \in 1 .. Cardinality(Graph!Matching(info))
          /\ response.nodes[i] = match_result(SetToSeq(Graph!Matching(info))[i])
      <4>1. response.nodes = [j \in 1 .. Cardinality(Graph!Matching(info)) |->
                               match_result(SetToSeq(Graph!Matching(info))[j])]
        BY <2>2, <3>5, OneLineEach, Zenon
      <4> HIDE DEF info
      <4> QED  BY <3>2, <4>1
    <3> QED  BY <2>2, <3>2, <3>6, OneLineEach
  <2>4. \A i : match_result(i)' = match_result(i)  BY <2>1 DEF match_result
  <2>5. Meant(typed) => Graph!Matching(info)' = Graph!Matching(info)
    BY <2>1, MatchingSame
  <2>6. Meant(typed') =>
          \E id \in Graph!Matching(Meaning(typed))' : ~ LineFits(match_result(id)')
    BY <2>1, <2>3, <2>4, <2>5
  <2> QED  BY <2>1, <2>2, <2>6 DEF AnsweredAsTyped
<1>9. CASE show_response
  <2>1. pc = "parse_xml_response" /\ pc' = "getline" /\ UNCHANGED <<typed, graph, number>>
        /\ shown' = IF response = BadRequest THEN BadRequest ELSE parse_xml_response(response)
    BY <1>9 DEF show_response
  <2>2. Answered /\ IsFiniteSet(DOMAIN graph)  BY <2>1 DEF AnswerInv
  <2> DEFINE info == Meaning(typed)
  <2>3. CASE Meant(typed)
    <3>1. response = Told(info)
          /\ (info.command_type = "match" => number = Cardinality(Graph!Matching(info)))
      BY <2>2, <2>3 DEF Answered
    <3>2. /\ info.command_type \in command_type /\ info.has_relation \in BOOLEAN
          /\ info.command_type \notin {"set", "remove"} => info.changed_labels = << >>
          /\ ~ NoChange(info)
      BY <2>3, MeaningParts
    <3> HIDE DEF info
    <3>3. Told(info) # BadRequest
          /\ parse_xml_response(Told(info)) \notin {BadRequest, UnknownCommand}
      BY <3>2, ToldParts
    <3>4. shown' = parse_xml_response(Told(info)) /\ shown' \notin {BadRequest, UnknownCommand}
      BY <2>1, <3>1, <3>3
    <3>5. SaysTrue(Meaning(typed))'
      <4>1. PICK x : x = info  OBVIOUS
      <4>2. SaysTrue(x)'  BY <2>1, <2>2, <3>1, <3>2, <3>4, <4>1, ShownIsTrue
      <4>3. Meaning(typed)' = x  BY <2>1, <4>1 DEF info
      <4> QED  BY <4>2, <4>3 DEF SaysTrue
    <3> QED  BY <2>1, <2>2, <2>3, <3>4, <3>5 DEF AnsweredAsTyped, UnknownCommand
  <2>4. CASE ~ Meant(typed)
    <3>1. shown' = BadRequest  BY <2>1, <2>2, <2>4 DEF Answered
    <3> QED  BY <2>1, <2>2, <2>4, <3>1 DEF AnsweredAsTyped
  <2> QED  BY <2>3, <2>4
<1>10. CASE UNCHANGED vars
  <2>1. pc' = pc /\ typed' = typed /\ shown' = shown /\ graph' = graph /\ number' = number
        /\ response' = response
    BY <1>10 DEF vars
  <2>2. PICK info : info = Meaning(typed)  OBVIOUS
  <2>3. Meaning(typed)' = info  BY <2>1, <2>2
  <2>4. /\ Told(info)' = Told(info) /\ SaysTrue(info)' = SaysTrue(info)
        /\ Graph!Matching(info)' = Graph!Matching(info)
        /\ \A id : match_result(id)' = match_result(id)
    BY <2>1, Unchanged, MatchingSame DEF match_result
  <2>5. Told(Meaning(typed))' = Told(Meaning(typed))
    BY <2>2, <2>3, <2>4 DEF Told
  <2>6. SaysTrue(Meaning(typed))' = SaysTrue(Meaning(typed))
    BY <2>2, <2>3, <2>4, ZenonT(60) DEF SaysTrue, Lines
  <2>7. Graph!Matching(Meaning(typed))' = Graph!Matching(Meaning(typed))
    BY <2>1, MatchingSame
  <2>8. (pc = "parse_xml_response" => Answered)'
    BY <2>1, <2>5, <2>7 DEF AnswerInv, Answered
  <2>9. /\ Graph!Ends(Meaning(typed))' = Graph!Ends(Meaning(typed))
        /\ MayStray(Meaning(typed))' = MayStray(Meaning(typed))
    BY <2>1, <2>2, <2>3, PromiseSame
  <2>10. AnsweredAsTyped'
    BY <2>1, <2>4, <2>6, <2>7, <2>9 DEF AnswerInv, AnsweredAsTyped
  <2> QED  BY <2>1, <2>8, <2>10 DEF AnswerInv
<1>11. CASE server_ends \/ goes_astray
  <2>1. /\ pc = "execute_command" /\ pc' \in {"down", "astray"} /\ UNCHANGED <<typed, graph>>
        /\ pc' = "down" => Graph!Ends(received)
        /\ pc' = "astray" => MayStray(received)
    BY <1>11 DEF server_ends, goes_astray
  <2>2. PICK info : info = received  OBVIOUS
  <2>3. Meant(typed) => info = Meaning(typed) /\ info = Meaning(typed')
    BY <2>1, <2>2, Runs DEF AnswerInv
  <2>4. Graph!Ends(info)' = Graph!Ends(info) /\ MayStray(info)' = MayStray(info)
    BY <2>1, PromiseSame
  <2>5. AnsweredAsTyped'
    BY <2>1, <2>2, <2>3, <2>4 DEF AnsweredAsTyped, Graph!Ends, MayStray
  <2> QED  BY <2>1, <2>5 DEF AnswerInv
<1> QED  BY <1>2, <1>3, <1>4, <1>5, <1>6, <1>7, <1>8, <1>9, <1>10, <1>11 DEF Next

(* If every word of every query can be heeded, the client's sentence is    *)
(* about the query typed and true of the graph, only a query without       *)
(* meaning is turned down, a client dies of an answer only of a line too   *)
(* long for its buffers, the server only of a deletion the user meant, at  *)
(* a node with relations, and the engine goes astray only on the graphs on *)
(* which that query is not carried out as promised (execute_command, the   *)
(* responses of message.c and main of the client), for every size of       *)
(* buffer and graph.                                                       *)
THEOREM AnsweredAsTypedHolds ==
  ASSUME \A q \in Queries : Heeded(q)
  PROVE  Spec => []AnsweredAsTyped
<1>1. Init => AnswerInv
  <2> SUFFICES ASSUME Init  PROVE AnswerInv  OBVIOUS
  <2>1. pc = "getline" /\ typed = None /\ graph = << >>  BY DEF Init, Graph!Init
  <2>2. DOMAIN graph = {}  BY <2>1
  <2> QED  BY <2>1, <2>2, FS_EmptySet DEF AnswerInv, OnItsWay, AnsweredAsTyped
<1>2. AnswerInv /\ [Next]_vars => AnswerInv'  BY AnswerStep
<1>3. AnswerInv => AnsweredAsTyped  BY DEF AnswerInv
<1> QED  BY <1>1, <1>2, <1>3, PTL DEF Spec

-----------------------------------------------------------------------------
(* The types of what travels.                                              *)
LEMMA CopiedType ==
  ASSUME NEW props \in Seq(literal) \cup Seq(property)
  PROVE  CopiedAll(props) \in Seq(property) /\ AsTyped(props) \in Seq(property)
<1>1. PROPERTY_KEY_SIZE \in Nat \ {0}  BY MessagesAssumption
<1>2. \A i \in DOMAIN props : props[i].key \in Seq(Char) /\ props[i].value \in Seq(Char)
  <2>1. \A i \in DOMAIN props : props[i] \in literal \/ props[i] \in property
    <3>1. CASE props \in Seq(literal)  BY <3>1
    <3>2. CASE props \in Seq(property)  BY <3>2
    <3> QED  BY <3>1, <3>2
  <2>2. \A p : p \in literal \/ p \in property => p.key \in Seq(Char) /\ p.value \in Seq(Char)
    BY DEF literal, property, Text
  <2> QED  BY <2>1, <2>2
<1>3. ASSUME NEW p, p.key \in Seq(Char), p.value \in Seq(Char)
      PROVE  Copied(p) \in property
  <2>1. CASE Len(p.key) < PROPERTY_KEY_SIZE  BY <1>3, <2>1 DEF Copied, property, Text
  <2>2. CASE ~ (Len(p.key) < PROPERTY_KEY_SIZE)
    <3>1. SubSeq(p.key, 1, PROPERTY_KEY_SIZE) \in Seq(Char)
      <4>1. Len(p.key) \in Nat /\ PROPERTY_KEY_SIZE \in 1 .. Len(p.key)
        BY <1>1, <1>3, <2>2
      <4> QED  BY <1>1, <1>3, <4>1
    <3>2. SubSeq(p.key, 1, PROPERTY_KEY_SIZE) \o p.value \in Seq(Char)
      BY <1>3, <3>1, ConcatProperties, Zenon
    <3> QED  BY <1>3, <2>2, <3>2 DEF Copied, property, Text
  <2> QED  BY <2>1, <2>2
<1>4. \A i \in DOMAIN props : Copied(props[i]) \in property  BY <1>2, <1>3
<1>5. DOMAIN props = 1 .. Len(props) /\ Len(props) \in Nat  OBVIOUS
<1>6. CopiedAll(props) \in Seq(property)  BY <1>4, <1>5 DEF CopiedAll
<1>7. \A i \in DOMAIN props : [key |-> props[i].key, value |-> props[i].value] \in property
  BY <1>2 DEF property, Text
<1>8. AsTyped(props) \in Seq(property)  BY <1>5, <1>7 DEF AsTyped
<1> QED  BY <1>6, <1>8

LEMMA ElementTypes ==
  /\ \A labels \in Seq(Text), props \in Seq(property) : Node(labels, props) \in element
  /\ \A labels \in Seq(Text), props \in Seq(property) : Changes(labels, props) \in element
  /\ \A name \in Text : Relation(name) \in element
<1>1. << >> \in Text  BY DEF Text
<1>2. << >> \in Seq(Text) /\ << >> \in Seq(property)  OBVIOUS
<1> HIDE DEF Text, property
<1> QED  BY <1>1, <1>2 DEF Node, Changes, Relation, element

LEMMA RequestType ==
  ASSUME NEW info \in query_info
  PROVE  build_client_xml_request(info) \in
           [command : command_type \cup Leftover, children : Seq(element)]
<1> DEFINE n == Node(info.labels, info.props)
           r == Relation(info.rel_name)
           m == Node(info.rel_node_labels, info.rel_node_props)
           c == Changes(info.changed_labels, info.changed_props)
           document == build_client_xml_request(info)
<1>1. n \in element /\ r \in element /\ m \in element /\ c \in element
  BY ElementTypes DEF query_info
<1>2. \/ document.children = << n, r, m, c >> \/ document.children = << n, r, m >>
      \/ document.children = << n, c >> \/ document.children = << n >>
  <2>1. info.has_relation \in BOOLEAN  BY DEF query_info
  <2> QED  BY <2>1, Children
<1>3. document.command = info.command_type
      /\ document = [command |-> document.command, children |-> document.children]
  BY DEF build_client_xml_request
<1>4. info.command_type \in command_type \cup Leftover  BY DEF query_info
<1> HIDE DEF n, r, m, c, document
<1>5. document.children \in Seq(element)
  <2> HIDE DEF element
  <2>1. /\ << n, r, m, c >> \in Seq(element) /\ << n, r, m >> \in Seq(element)
        /\ << n, c >> \in Seq(element) /\ << n >> \in Seq(element)
    BY <1>1
  <2> QED  BY <1>2, <2>1
<1> QED  BY <1>3, <1>4, <1>5 DEF document

LEMMA ReceivedType ==
  ASSUME NEW document \in [command : command_type \cup Leftover, children : Seq(element)],
         valid(document)
  PROVE  /\ parse_client_xml_request(document) \in query_info
         /\ parse_client_xml_request(document).command_type \in command_type
<1> DEFINE child == document.children
           got == parse_client_xml_request(document)
<1>1. child \in Seq(element) /\ document.command \in command_type  BY DEF valid
<1>2. Len(Tags(document)) \in 1 .. 4 /\ Len(Tags(document)) = Len(child)
      /\ (Len(child) >= 2 /\ Tags(document)[2] = "relation" => Len(child) >= 3)
  <2>1. \/ Tags(document) = << "node" >> \/ Tags(document) = << "node", "changes" >>
        \/ Tags(document) = << "node", "relation", "node" >>
        \/ Tags(document) = << "node", "relation", "node", "changes" >>
    BY DEF valid
  <2>2. Tags(document) = [i \in 1 .. Len(child) |-> child[i].tag] /\ Len(child) \in Nat
    BY <1>1 DEF Tags
  <2> DEFINE tags == Tags(document)
  <2> HIDE DEF tags, child
  <2>3. Len(tags) = Len(child)  BY <2>2 DEF tags
  <2>4. Len(tags) \in 1 .. 4 /\ (tags[2] = "relation" => Len(tags) < 2 \/ Len(tags) >= 3)
    <3>1. CASE tags = << "node" >>  BY <3>1
    <3>2. CASE tags = << "node", "changes" >>  BY <3>2
    <3>3. CASE tags = << "node", "relation", "node" >>  BY <3>3
    <3>4. CASE tags = << "node", "relation", "node", "changes" >>  BY <3>4
    <3> QED  BY <2>1, <3>1, <3>2, <3>3, <3>4 DEF tags
  <2>5. \A k \in 1 .. 4 : k < 2 => ~ (k >= 2)  OBVIOUS
  <2> QED  BY <2>3, <2>4, <2>5, Zenon DEF tags
<1>3. child[1] \in element  BY <1>1, <1>2
<1>4. Related(child) => Len(child) >= 3 /\ child[2] \in element /\ child[3] \in element
  <2> SUFFICES ASSUME Related(child)
               PROVE  Len(child) >= 3 /\ child[2] \in element /\ child[3] \in element
    OBVIOUS
  <2>1. Len(child) \in Nat /\ Len(child) >= 2 /\ child[2].tag = "relation"
    BY <1>1 DEF Related
  <2>2. Tags(document)[2] = "relation"  BY <1>1, <2>1 DEF Tags
  <2>3. Len(child) >= 3  BY <1>2, <2>1, <2>2
  <2> QED  BY <1>1, <2>1, <2>3
<1>5. << >> \in Text /\ << >> \in Seq(Text) /\ << >> \in Seq(property)  BY DEF Text
<1>6. RelNode(child) \in element
  BY <1>4, <1>5, ElementTypes DEF RelNode
<1>7. ChangesOf(child) \in element
  <2>1. CASE Len(child) >= (IF Related(child) THEN 4 ELSE 2)
    <3>1. child[IF Related(child) THEN 4 ELSE 2] \in element  BY <1>1, <1>2, <2>1
    <3> QED  BY <2>1, <3>1 DEF ChangesOf
  <2>2. CASE ~ (Len(child) >= (IF Related(child) THEN 4 ELSE 2))
    BY <2>2, <1>5, ElementTypes DEF ChangesOf
  <2> QED  BY <2>1, <2>2
<1>8. \A e \in element : /\ e.name \in Text /\ e.labels \in Seq(Text)
                         /\ CopiedAll(e.props) \in Seq(property)
  BY CopiedType DEF element
<1>9. Related(child) \in BOOLEAN  BY DEF Related
<1> HIDE DEF child, Text, property
<1> QED
  BY <1>1, <1>3, <1>4, <1>5, <1>6, <1>7, <1>8, <1>9
  DEF parse_client_xml_request, query_info, child

LEMMA QueryInfoType ==
  ASSUME NEW q \in query, Heeded(q), NEW left \in Leftover, NEW padding
  PROVE  get_query_info(q, left, padding) \in query_info
<1> DEFINE info == get_query_info(q, left, padding)
           related == Len(q.path) = 2
           p == q.items[1].prop
           erased == [p EXCEPT !.value = << >>]
<1>1. Len(q.path) \in 1 .. 2 /\ 1 \in DOMAIN q.path /\ (related => 2 \in DOMAIN q.path)
      /\ \A i \in DOMAIN q.path : q.path[i] \in pattern
  BY QueryType DEF Heeded
<1>2. \A i \in DOMAIN q.path : q.path[i].labels \in Seq(Text)
                               /\ Properties(q.path[i].props) \in Seq(property)
  <2> TAKE i \in DOMAIN q.path
  <2>1. q.path[i].labels \in Seq(Text) /\ q.path[i].props \in Seq(literal)
    BY <1>1 DEF pattern
  <2>2. AsTyped(q.path[i].props) \in Seq(property)  BY <2>1, CopiedType
  <2> QED  BY <2>1, <2>2, Short
<1>3. << >> \in Text /\ << >> \in Seq(Text) /\ << >> \in Seq(property)  BY DEF Text
<1>4. info.command_type \in command_type \cup Leftover
  <2>1. CommandOf(q, left) \in command_type \cup Leftover  BY DEF CommandOf, command_type
  <2> QED  BY <2>1 DEF get_query_info
<1>5. info.rel_name \in Text
  <2>1. q.reltype \in Text /\ RelationName(q.reltype, padding) = q.reltype
    BY DEF Heeded, RelationName, query
  <2>2. info.rel_name = IF related THEN q.reltype ELSE << >>
    BY <2>1 DEF get_query_info
  <2> QED  BY <2>1, <2>2, <1>3
<1>6. /\ info.labels \in Seq(Text) /\ info.props \in Seq(property)
      /\ info.rel_node_labels \in Seq(Text) /\ info.rel_node_props \in Seq(property)
      /\ info.has_relation \in BOOLEAN
  <2>1. Properties(<< >>) = << >>  BY CopiedAllEmpty DEF Properties, AllowedOnly
  <2>2. /\ info.labels = q.path[1].labels /\ info.props = Properties(q.path[1].props)
        /\ info.has_relation = related
    BY DEF get_query_info
  <2>3. /\ info.rel_node_labels = IF related THEN q.path[2].labels ELSE << >>
        /\ info.rel_node_props = IF related THEN Properties(q.path[2].props) ELSE << >>
    BY <2>1 DEF get_query_info
  <2> QED  BY <1>1, <1>2, <1>3, <2>2, <2>3
<1>7. Named(q) \in {"SET", "REMOVE"} =>
        /\ q.items[1] \in item
        /\ q.items[1].kind = "property" => KeptWhole(p)
  BY QueryType DEF Heeded
<1>8. info.changed_labels \in Seq(Text)
  <2>1. info.changed_labels = ChangedLabels(q)  BY DEF get_query_info
  <2> QED  BY <1>3, <1>7, <2>1 DEF ChangedLabels, item
<1>9. info.changed_props \in Seq(property)
  <2>1. info.changed_props = ChangedProps(q)  BY DEF get_query_info
  <2>2. \A x \in literal : CopiedAll(<< x >>) \in Seq(property)
    <3> TAKE x \in literal
    <3> HIDE DEF literal
    <3>1. << x >> \in Seq(literal)  OBVIOUS
    <3> QED  BY <3>1, CopiedType
  <2>3. CASE Named(q) = "SET" /\ q.items[1].kind = "property"
    <3>1. ChangedProps(q) = CopiedAll(AllowedOnly(<< p >>))  BY <2>3 DEF ChangedProps
    <3>2. AllowedOnly(<< p >>) = << p >>  BY <2>3, <1>7, OneAllowed DEF KeptWhole
    <3>3. p \in literal  BY <2>3, <1>7 DEF item
    <3> QED  BY <2>1, <2>2, <3>1, <3>2, <3>3, Zenon
  <2>4. CASE Named(q) = "REMOVE" /\ q.items[1].kind = "property" /\ KeyAllowed(p)
    <3>1. ChangedProps(q) = CopiedAll(<< erased >>)  BY <2>4 DEF ChangedProps
    <3>2. p \in literal  BY <2>4, <1>7 DEF item
    <3>3. erased \in literal  BY <3>2, <1>3 DEF literal
    <3> QED  BY <2>1, <2>2, <3>1, <3>3, Zenon
  <2>5. CASE /\ ~ (Named(q) = "SET" /\ q.items[1].kind = "property")
             /\ ~ (Named(q) = "REMOVE" /\ q.items[1].kind = "property" /\ KeyAllowed(p))
    <3>1. ChangedProps(q) = << >>  BY <2>5 DEF ChangedProps
    <3> QED  BY <2>1, <3>1, <1>3
  <2> QED  BY <2>3, <2>4, <2>5
<1>10. info = [command_type |-> info.command_type, labels |-> info.labels,
               props |-> info.props, has_relation |-> info.has_relation,
               rel_name |-> info.rel_name, rel_node_labels |-> info.rel_node_labels,
               rel_node_props |-> info.rel_node_props,
               changed_labels |-> info.changed_labels, changed_props |-> info.changed_props]
  BY DEF get_query_info
<1> HIDE DEF info
<1> QED  BY <1>4, <1>5, <1>6, <1>8, <1>9, <1>10 DEF query_info, info

(* The state keeps its type: what lies in query_info on both sides, and    *)
(* the document between them.                                              *)
THEOREM TypeCorrect ==
  ASSUME \A q \in Queries : Heeded(q)
  PROVE  Spec => []TypeOK
<1> DEFINE Documents == [command : command_type \cup Leftover, children : Seq(element)]
<1>1. Init => TypeOK /\ OnItsWay  BY DEF Init, TypeOK, OnItsWay
<1>2. TypeOK /\ OnItsWay /\ [Next]_vars => (TypeOK /\ OnItsWay)'
  <2> SUFFICES ASSUME TypeOK, OnItsWay, [Next]_vars  PROVE TypeOK'
    BY OnItsWayStep
  <2> HIDE DEF Documents
  <2>1. CASE unknown_command
    BY <2>1 DEF unknown_command, TypeOK
  <2>2. CASE untyped_relation
    BY <2>2 DEF untyped_relation, TypeOK
  <2>3. CASE send_query
    <3>1. PICK q \in Queries, left \in Leftover, padding \in Padding :
            typed' = q /\ request' = build_client_xml_request(get_query_info(q, left, padding))
      BY <2>3 DEF send_query
    <3>2. request' \in Documents
      BY <3>1, QueryInfoType, RequestType, SessionAssumption DEF Documents
    <3>3. pc' = "work_with_client" /\ received' = received  BY <2>3 DEF send_query
    <3> QED  BY <3>1, <3>2, <3>3 DEF TypeOK, Documents
  <2>4. CASE parse_request
    <3>1. valid(request) /\ request # None
      <4>1. Sent /\ valid(request)  BY <2>4 DEF parse_request, OnItsWay
      <4>2. "command" \in DOMAIN request  BY <4>1 DEF Sent, build_client_xml_request
      <4>3. DOMAIN None = {}  BY DEF None
      <4> QED  BY <4>1, <4>2, <4>3
    <3>2. request \in Documents  BY <3>1 DEF TypeOK, Documents
    <3>3. received' \in query_info /\ received'.command_type \in command_type
      BY <2>4, <3>1, <3>2, ReceivedType DEF parse_request, Documents
    <3>4. pc' = "execute_command" /\ request' = request /\ typed' = typed
      BY <2>4 DEF parse_request
    <3> QED  BY <3>2, <3>3, <3>4 DEF TypeOK, Documents
  <2>5. CASE \/ bad_request \/ no_response \/ execute_command \/ server_ends \/ goes_astray
             \/ line_too_long
    BY <2>5 DEF bad_request, no_response, execute_command, server_ends, goes_astray,
                line_too_long, TypeOK
  <2>6. CASE show_response
    BY <2>6 DEF show_response, TypeOK
  <2>7. CASE UNCHANGED vars
    BY <2>7 DEF vars, TypeOK
  <2> QED  BY <2>1, <2>2, <2>3, <2>4, <2>5, <2>6, <2>7 DEF Next
<1> QED  BY <1>1, <1>2, PTL DEF Spec
=============================================================================
