------------------------------ MODULE Session ------------------------------
(***************************************************************************)
(* One client at its prompt and the server behind it: what the user types, *)
(* the request it becomes, what the server reads out of it and runs, and   *)
(* the sentence the client shows (client_main.c, work_with_client and      *)
(* execute_command in server.c).  How messages travel is Server's matter,  *)
(* how a command is carried out DataFile's: here it is one step of         *)
(* PropertyGraph where the engine keeps that promise, and otherwise the    *)
(* end of the server or of all that can be said of it (KeptPromises).      *)
(***************************************************************************)
EXTENDS Messages, SequencesExt

CONSTANTS
  Queries,     \* what the user may type
  NodeId, FirstNode, UINT16

ASSUME SessionAssumption ==
  Queries \subseteq query /\ FirstNode \in NodeId /\ UINT16 \in Nat \ {0}

VARIABLES
  pc,          \* the function that is at work
  typed,       \* the last query
  request,     \* the document sent
  received,    \* the query_info that the server makes of it
  response,
  shown,       \* the client's last words
  graph, number
vars == <<pc, typed, request, received, response, shown, graph, number>>

None == << >>
Graph == INSTANCE KeptPromises WITH Commands <- {}

Init ==
  /\ pc = "getline"
  /\ typed = None /\ request = None /\ received = None /\ response = None /\ shown = None
  /\ Graph!Init

-----------------------------------------------------------------------------
(* main of the client, up to send_message.                                 *)
UnknownCommand == [said |-> "Unknown command"]
unknown_command ==
  /\ pc = "getline"
  /\ \E q \in Queries : q.clauses = << "MATCH" >> /\ typed' = q
  /\ shown' = UnknownCommand
  /\ UNCHANGED <<pc, request, received, response, graph, number>>

(* The name of a relation's type is read through a null pointer.           *)
Untyped(q) == Len(q.path) = 2 /\ q.reltype = << >>
untyped_relation ==
  /\ pc = "getline" /\ pc' = "gone"
  /\ \E q \in Queries : q.clauses # << "MATCH" >> /\ Untyped(q) /\ typed' = q
  /\ UNCHANGED <<request, received, response, shown, graph, number>>

send_query ==
  /\ pc = "getline" /\ pc' = "work_with_client"
  /\ \E q \in Queries, left \in Leftover, padding \in Padding :
       /\ q.clauses # << "MATCH" >> /\ ~ Untyped(q)
       /\ typed' = q
       /\ request' = build_client_xml_request(get_query_info(q, left, padding))
  /\ UNCHANGED <<received, response, shown, graph, number>>

-----------------------------------------------------------------------------
(* The server.                                                             *)
parse_request ==
  /\ pc = "work_with_client" /\ pc' = "execute_command"
  /\ valid(request)
  /\ received' = parse_client_xml_request(request)
  /\ UNCHANGED <<typed, request, response, shown, graph, number>>

bad_request ==
  /\ pc = "work_with_client" /\ pc' = "parse_xml_response"
  /\ ~ valid(request)
  /\ response' = BadRequest
  /\ UNCHANGED <<typed, request, received, shown, graph, number>>

(* strlen(NULL), for every client of the server.                           *)
NoChange(info) ==
  /\ info.command_type \in {"set", "remove"}
  /\ info.changed_labels = << >> /\ info.changed_props = << >>
no_response ==
  /\ pc = "execute_command" /\ pc' = "down"
  /\ NoChange(received)
  /\ UNCHANGED <<typed, request, received, response, shown, graph, number>>

(* What the command answers with: match with the nodes as they are.        *)
match_result(id) == [labels |-> graph[id].labels, props |-> graph[id].props]
match_results(info) ==
  LET ids == SetToSeq(Graph!Matching(info)) IN [i \in DOMAIN ids |-> match_result(ids[i])]
Response(info) ==
  CASE info.command_type = "match" ->
         build_xml_match_response(match_results(info), number')
    [] info.command_type \in {"create", "delete"} ->
         build_xml_create_or_delete_response(
           info.command_type, IF info.has_relation THEN "relation" ELSE "node", number')
    [] info.changed_labels # << >> ->
         build_xml_set_or_remove_response(
           info.command_type, "labels", info.changed_labels, number')
    [] OTHER ->
         build_xml_set_or_remove_response(
           info.command_type, "props", info.changed_props, number')
execute_command ==
  /\ pc = "execute_command" /\ pc' = "parse_xml_response"
  /\ ~ NoChange(received)
  /\ ~ Graph!Ends(received) /\ ~ Graph!Breaks(received)
  /\ Graph!Run(received)
  /\ DOMAIN graph' = {} \/ FirstNode \in DOMAIN graph'
  /\ response' = Response(received)
  /\ UNCHANGED <<typed, request, received, shown>>

(* delete_relations reads on through a null pointer.  What it has done of  *)
(* the deletion is for the next start of the server to find.               *)
server_ends ==
  /\ pc = "execute_command" /\ pc' = "down"
  /\ Graph!Ends(received)
  /\ UNCHANGED <<typed, request, received, response, shown, graph, number>>

(* The engine stops keeping its promise; of what comes then nothing is     *)
(* said.  A command that stores a string is also run as promised, if its   *)
(* block has room for it.                                                  *)
MayStray(info) == Graph!Breaks(info) \/ Graph!Stores(info)
goes_astray ==
  /\ pc = "execute_command" /\ pc' = "astray"
  /\ MayStray(received)
  /\ UNCHANGED <<typed, request, received, response, shown, graph, number>>

-----------------------------------------------------------------------------
(* The client again.  A line that does not fit is written past its buffer, *)
(* over the stack of parse_xml_response.                                   *)
Fits == response # BadRequest => \A i \in DOMAIN response.nodes : LineFits(response.nodes[i])
line_too_long ==
  /\ pc = "parse_xml_response" /\ pc' = "gone"
  /\ ~ Fits
  /\ UNCHANGED <<typed, request, received, response, shown, graph, number>>

show_response ==
  /\ pc = "parse_xml_response" /\ pc' = "getline"
  /\ Fits
  /\ shown' = IF response = BadRequest THEN BadRequest ELSE parse_xml_response(response)
  /\ request' = None /\ received' = None /\ response' = None
  /\ UNCHANGED <<typed, graph, number>>

Next ==
  \/ unknown_command \/ untyped_relation \/ send_query
  \/ parse_request \/ bad_request
  \/ no_response \/ execute_command \/ server_ends \/ goes_astray
  \/ line_too_long \/ show_response

Spec == Init /\ [][Next]_vars

-----------------------------------------------------------------------------
(* What a query means to its user.  Every word of it must count: a query   *)
(* that says what the program has no way to heed means nothing.            *)
KeptWhole(p) == Allowed(p) /\ Len(p.key) < PROPERTY_KEY_SIZE
Heeded(q) ==
  /\ ~ q.more /\ q.clauses # << "MATCH", "CREATE" >>
  /\ Len(q.path) \in 1 .. 2 /\ Len(q.reltype) < RELATION_NAME_SIZE
  /\ \A i \in DOMAIN q.path : \A j \in DOMAIN q.path[i].props : KeptWhole(q.path[i].props[j])
  /\ Named(q) \in {"SET", "REMOVE"} =>
       /\ Len(q.items) = 1
       /\ q.items[1].kind = "property" => KeptWhole(q.items[1].prop)

CommandNamed(clauses) ==
  CASE clauses = << "CREATE" >> -> "create"
    [] clauses = << "MATCH", "RETURN" >> -> "match"
    [] clauses = << "MATCH", "SET" >> -> "set"
    [] clauses = << "MATCH", "REMOVE" >> -> "remove"
    [] clauses = << "MATCH", "DELETE" >> -> "delete"
    [] OTHER -> "none"
OneChange(i) == i.kind = "property" \/ (i.kind = "labels" /\ Len(i.labels) = 1)
Meant(q) ==
  /\ Heeded(q) /\ ~ Untyped(q)
  /\ CommandNamed(q.clauses) # "none"
  /\ CommandNamed(q.clauses) \in {"set", "remove"} => OneChange(q.items[1])

AsTyped(props) == [i \in DOMAIN props |-> [key |-> props[i].key, value |-> props[i].value]]
Meaning(q) ==
  LET command == CommandNamed(q.clauses)
      changes == command \in {"set", "remove"}
      change == q.items[1]
      related == Len(q.path) = 2
  IN [command_type |-> command,
      labels |-> q.path[1].labels, props |-> AsTyped(q.path[1].props),
      has_relation |-> related, rel_name |-> IF related THEN q.reltype ELSE << >>,
      rel_node_labels |-> IF related THEN q.path[2].labels ELSE << >>,
      rel_node_props |-> IF related THEN AsTyped(q.path[2].props) ELSE << >>,
      changed_labels |-> IF changes /\ change.kind = "labels" THEN change.labels ELSE << >>,
      changed_props |->
        IF ~ (changes /\ change.kind = "property") THEN << >>
        ELSE << [key |-> change.prop.key,
                 value |-> IF command = "set" THEN change.prop.value ELSE << >>] >>]

(* The type of the state.                                                  *)
element == [tag : {"node", "relation", "changes"}, name : Text,
            labels : Seq(Text), props : Seq(property)]
TypeOK ==
  /\ pc \in {"getline", "work_with_client", "execute_command", "parse_xml_response",
             "gone", "down", "astray"}
  /\ typed \in Queries \cup {None}
  /\ request = None \/ request \in [command : command_type \cup Leftover,
                                    children : Seq(element)]
  /\ received \in query_info \cup {None}
  /\ pc = "execute_command" => received \in query_info /\ received.command_type \in command_type

(* The graph changes only by the command the user typed: nothing that      *)
(* client, schema and server do to a query on its way makes of it another  *)
(* one, and a query of which a part would be lost changes nothing at all   *)
(* (get_query_info, build_client_xml_request, parse_client_xml_request).   *)
OnlyAsTyped == [][graph' # graph => Meant(typed) /\ Graph!Run(Meaning(typed))]_vars

(* The sentence at the prompt is about the query above it and true of the  *)
(* graph: the number and the nodes of a match are those it has now.  Only  *)
(* a query without meaning is turned down, and it always is.  A query with *)
(* a meaning ends the client only by a line too long, and the server only  *)
(* by a deletion, meant by the user, at a node with relations              *)
(* (relation.c:101); the engine goes astray only on the graphs on which    *)
(* that very query is not carried out as promised (KeptPromises).          *)
Lines(info) ==
  ToBag([i \in 1 .. Cardinality(Graph!Matching(info)) |->
           match_result(SetToSeq(Graph!Matching(info))[i])])
SaysTrue(info) ==
  CASE info.command_type = "match" ->
         /\ shown.said = "matching nodes"
         /\ shown.number = Cardinality(Graph!Matching(info))
         /\ ToBag(shown.lines) = Lines(info)
    [] info.command_type \in {"create", "delete"} ->
         shown = [said |-> IF info.command_type = "create" THEN "created" ELSE "deleted",
                  of |-> IF info.has_relation THEN "relations" ELSE "nodes",
                  number |-> number]
    [] OTHER ->
         shown = [said |-> IF info.command_type = "set" THEN "set" ELSE "removed",
                  of |-> IF info.changed_labels # << >> THEN info.changed_labels
                         ELSE IF info.command_type = "set" THEN info.changed_props[1]
                         ELSE [key |-> info.changed_props[1].key],
                  number |-> number]
AnsweredAsTyped ==
  /\ pc = "getline" /\ typed # None =>
       IF Meant(typed) THEN shown \notin {BadRequest, UnknownCommand} /\ SaysTrue(Meaning(typed))
       ELSE shown \in {BadRequest, UnknownCommand}
  /\ pc = "gone" /\ Meant(typed) =>
       \E id \in Graph!Matching(Meaning(typed)) : ~ LineFits(match_result(id))
  /\ pc = "down" /\ Meant(typed) => Graph!Ends(Meaning(typed))
  /\ pc = "astray" /\ Meant(typed) => MayStray(Meaning(typed))
=============================================================================
