----------------------------- MODULE MCSession -----------------------------
(***************************************************************************)
(* Workloads of the runs of Session.  Names and values have one character, *)
(* which fits the buffers; two fill a key's.                               *)
(***************************************************************************)
EXTENDS Session

MCChar == {"A", "B", "R", "S", "k", "v", "w", "?"}
MCLeftover == {"", "?"}
MCPadding == {<< >>, << "?" >>}

lit(k, v) == [key |-> k, value |-> v, is_string |-> TRUE]
kv == lit(<< "k" >>, << "v" >>)
kw == lit(<< "k" >>, << "w" >>)
wv == lit(<< "w" >>, << "v" >>)
A == << "A" >>
B == << "B" >>
node(labels, props) == [labels |-> labels, props |-> props]
Nothing == [kind |-> "other", labels |-> << >>, prop |-> kv]
NewLabels(labels) == [Nothing EXCEPT !.kind = "labels", !.labels = labels]
NewProp(p) == [Nothing EXCEPT !.kind = "property", !.prop = p]
Number(p) == [p EXCEPT !.is_string = FALSE]
say(clauses, path) ==
  [clauses |-> clauses, path |-> path, reltype |-> IF Len(path) = 2 THEN << "R" >> ELSE << >>,
   items |-> << >>, more |-> FALSE]
change(clause, path, i) == [say(<< "MATCH", clause >>, path) EXCEPT !.items = << i >>]

(* Every clause, with one node or two, and what a SET or REMOVE may say.   *)
Nodes == {node(<< >>, << >>), node(<< A >>, << kv >>)}
Paths == {<< n >> : n \in Nodes} \cup {<< n, node(<< A >>, << >>) >> : n \in Nodes}
Items == {NewLabels(<< A >>), NewLabels(<< B >>), NewLabels(<< A, B >>), NewProp(kv), Nothing}
ManyQueries ==
  {say(<< "CREATE" >>, path) :
     path \in Paths \cup {<< node(<< >>, << kv, wv >>) >>, << node(<< >>, << wv >>) >>,
                          << node(<< >>, << wv >>), node(<< A >>, << >>) >>}}
  \cup {say(<< "MATCH" >>, << node(<< >>, << >>) >>)}
  \cup {say(<< "MATCH", clause >>, path) : clause \in {"RETURN", "DELETE", "other"}, path \in Paths}
  \cup {change(clause, path, i) : clause \in {"SET", "REMOVE"}, path \in Paths, i \in Items}
  \cup {change("SET", path, NewProp(p)) : path \in Paths, p \in {kw, Number(kw)}}
  \cup {[say(<< "MATCH", "RETURN" >>, << node(<< >>, << >>), node(<< >>, << >>) >>)
           EXCEPT !.reltype = << >>]}

(* A property that is not a string, in the query that says which nodes to  *)
(* delete; the first node is none of them.                                 *)
Plain == say(<< "CREATE" >>, << node(<< A >>, << >>) >>)
Other == say(<< "CREATE" >>, << node(<< B >>, << >>) >>)
InvalidQueries == {
  Plain, Other, say(<< "MATCH", "DELETE" >>, << node(<< B >>, << Number(kv) >>) >>) }

(* Other queries of which a part is lost; each breaks OnlyAsTyped (README, *)
(* section 4).                                                             *)
KeyFullQueries == { say(<< "CREATE" >>, << node(<< >>, << lit(<< "k", "k" >>, << "v" >>) >>) >>) }
LongTypeQueries == {
  Plain, [say(<< "CREATE" >>, << node(<< A >>, << >>), node(<< A >>, << >>) >>)
            EXCEPT !.reltype = << "R", "S", "k" >>] }
MatchCreateQueries == { say(<< "MATCH", "CREATE" >>, << node(<< A >>, << >>) >>) }
LongPathQueries == {
  Plain, Other, say(<< "MATCH", "DELETE" >>,
                    << node(<< B >>, << >>), node(<< A >>, << >>), node(<< A >>, << >>) >>) }
WhereQueries == {
  Plain, Other, [say(<< "MATCH", "DELETE" >>, << node(<< B >>, << >>) >>) EXCEPT !.more = TRUE] }

(* Bounds: a query that adds is typed only while every node has less than  *)
(* MaxLabels labels and properties; one that creates, only while it has    *)
(* less than MaxCount relations of each kind; one that does not relate,    *)
(* only while a node could still be created.                               *)
CONSTANTS MaxLabels, MaxCount
Creates(q) == Named(q) = "CREATE"
Room(q) ==
  /\ \A id \in DOMAIN graph :
       /\ Len(graph[id].labels) < MaxLabels /\ Len(graph[id].props) < MaxLabels
       /\ Creates(q) => \A r \in DOMAIN graph[id].rels : graph[id].rels[r] < MaxCount
  /\ ~ Creates(q) \/ Len(q.path) # 2 => NodeId \ DOMAIN graph # {}
Adds(q) == Creates(q) \/ Named(q) = "SET"
BoundedSpec ==
  Init /\ [][Next /\ (pc = "getline" /\ pc' # "getline" /\ Adds(typed') => Room(typed'))]_vars
=============================================================================
