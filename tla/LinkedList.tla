----------------------------- MODULE LinkedList -----------------------------
(***************************************************************************)
(* The doubly linked lists (linked_list.c) that hold the labels and the    *)
(* properties of queries, filters and results, on top of the counting      *)
(* allocator.  Every thread works on a list of its own; what the threads   *)
(* share is the heap and its counters.  A list of labels points at strings *)
(* that belong to others, a list of properties owns its values.            *)
(***************************************************************************)
EXTENDS MyAlloc, FiniteSets, SequencesExt

CONSTANTS
  Value,        \* what by_value, by_key, by_property_values compare
  Address,      \* where malloc may put a block
  Owner,        \* the threads whose list owns its values (is_alloc_value)
  LIST, NODE, PROP   \* sizes of the blocks

NULL == 0
ASSUME LinkedListAssumption ==
  /\ IsFiniteSet(Address) /\ NULL \notin Address /\ Owner \subseteq Thread
  /\ {LIST, NODE, PROP} \subseteq 1 .. ULLONG - 1

VARIABLES
  heap,     \* address -> the block there: its size and what it holds
  list,     \* thread -> its list, or NoList
  doing,    \* thread -> the operation it is in, with its local variables
  lost      \* history: values taken out of a list that owned them
vars == <<alloc_vars, heap, list, doing, lost>>

NoList == << >>
Nothing == [op |-> "nothing"]

Init ==
  /\ init_alloc
  /\ heap = << >>
  /\ list = [t \in Thread |-> NoList]
  /\ doing = [t \in Thread |-> Nothing]
  /\ lost = {}

Free == Address \ DOMAIN heap
Does(t, operation) == doing' = [doing EXCEPT ![t] = operation]
Sets(t, l) == list' = [list EXCEPT ![t] = l]
Without(addresses) == [a \in DOMAIN heap \ addresses |-> heap[a]]

(* The n nodes from node a on along "next"; and of the list of a thread    *)
(* the first that by() accepts, whose value find_element returns.          *)
Walk(a, n) ==
  LET at[i \in 1 .. n] == IF i = 1 THEN a ELSE heap[at[i - 1]].next
  IN at
Nodes(t) == Walk(list[t].first, list[t].size)
ValueAt(t, a) == IF t \in Owner THEN heap[heap[a].value].value ELSE heap[a].value

(* Seeded fault: the last one that by() accepts.                           *)
Search_Last(t, v) ==
  LET at == Nodes(t)
      Accepted == {i \in DOMAIN at : ValueAt(t, at[i]) = v}
  IN IF Accepted = {} THEN NULL ELSE at[Max(Accepted)]

Search(t, v) ==
  LET at == Nodes(t)
      Accepted == {i \in DOMAIN at : ValueAt(t, at[i]) = v}
  IN IF Accepted = {} THEN NULL ELSE at[Min(Accepted)]
Ready(t) == doing[t] = Nothing /\ list[t] # NoList

-----------------------------------------------------------------------------
init_list(t) ==
  /\ doing[t] = Nothing /\ list[t] = NoList
  /\ \E a \in Free :
       /\ heap' = [b \in DOMAIN heap \cup {a} |-> IF b = a THEN [size |-> LIST] ELSE heap[b]]
       /\ Does(t, [op |-> "init_list", created |-> a])
  /\ my_alloc(t, LIST)
  /\ UNCHANGED <<list, lost>>

list_created(t) ==
  /\ doing[t].op = "init_list"
  /\ Return(t)
  /\ Sets(t, [at |-> doing[t].created, first |-> NULL, last |-> NULL, size |-> 0])
  /\ Does(t, Nothing)
  /\ UNCHANGED <<heap, lost>>

(* A property is allocated and filled before it is added to a list.        *)
new_property(t, v) ==
  /\ Ready(t) /\ t \in Owner
  /\ \E a \in Free :
       /\ heap' = [b \in DOMAIN heap \cup {a} |->
                     IF b = a THEN [size |-> PROP, value |-> v] ELSE heap[b]]
       /\ Does(t, [op |-> "new_property", created |-> a])
  /\ my_alloc(t, PROP)
  /\ UNCHANGED <<list, lost>>

property_created(t) ==
  /\ doing[t].op = "new_property"
  /\ Return(t)
  /\ Does(t, [doing[t] EXCEPT !.op = "property"])
  /\ UNCHANGED <<heap, list, lost>>

add_last(t, value) ==
  /\ \E a \in Free :
       /\ heap' = [b \in DOMAIN heap \cup {a} |->
                     IF b = a THEN [size |-> NODE, prev |-> NULL, value |-> value, next |-> NULL]
                     ELSE heap[b]]
       /\ Does(t, [op |-> "add_last", created |-> a])
  /\ my_alloc(t, NODE)
  /\ UNCHANGED <<list, lost>>
add_value(t, v) == Ready(t) /\ t \notin Owner /\ add_last(t, v)
add_property(t) == doing[t].op = "property" /\ add_last(t, doing[t].created)

Linked(t, a) ==
  LET last == list[t].last
  IN [b \in DOMAIN heap |->
        CASE b = a -> [heap[a] EXCEPT !.prev = last]
          [] b = last -> [heap[last] EXCEPT !.next = a]
          [] OTHER -> heap[b]]
added(t) ==
  /\ doing[t].op = "add_last"
  /\ Return(t)
  /\ LET a == doing[t].created
     IN /\ heap' = Linked(t, a)
        /\ Sets(t, [list[t] EXCEPT !.first = IF list[t].last = NULL THEN a ELSE @,
                                   !.last = a, !.size = @ + 1])
  /\ Does(t, Nothing)
  /\ UNCHANGED lost

Unlinked(l, a) ==
  [l EXCEPT !.first = IF @ = a THEN heap[a].next ELSE @,
            !.last = IF @ = a THEN heap[a].prev ELSE @,
            !.size = @ - 1]

(* Seeded fault: the neighbour behind not told.                            *)
Around_OneWay(a) ==
  [b \in DOMAIN heap |->
     IF b = heap[a].prev THEN [heap[b] EXCEPT !.next = heap[a].next] ELSE heap[b]]

Around(a) ==
  [b \in DOMAIN heap |->
     CASE b = heap[a].prev -> [heap[b] EXCEPT !.next = heap[a].next]
       [] b = heap[a].next -> [heap[b] EXCEPT !.prev = heap[a].prev]
       [] OTHER -> heap[b]]
remove_element(t, v) ==
  /\ Ready(t)
  /\ LET a == Search(t, v)
     IN IF a = NULL
        THEN UNCHANGED <<alloc_vars, heap, list, doing, lost>>
        ELSE /\ heap' = Around(a)
             /\ Sets(t, Unlinked(list[t], a))
             /\ Does(t, [op |-> "remove_element", current |-> a])
             /\ lost' = IF t \in Owner THEN lost \cup {heap[a].value} ELSE lost
             /\ my_free(t, NODE)

element_removed(t) ==
  /\ doing[t].op = "remove_element"
  /\ Return(t)
  /\ heap' = Without({doing[t].current})
  /\ Does(t, Nothing)
  /\ UNCHANGED <<list, lost>>

-----------------------------------------------------------------------------
(* free_list moves on to a node before it frees the one in front of it,    *)
(* which it finds by the way back; then the last one, then the list.       *)
(* Seeded fault: the values of a list that owns them kept.                 *)
Blocks_NotValues(t, a) == << a >>

(* The blocks freed with a node: the value first, if the list owns it.     *)
Blocks(t, a) == IF t \in Owner THEN << heap[a].value, a >> ELSE << a >>

free_list(t) ==
  /\ Ready(t)
  /\ Does(t, [op |-> "free_list", current |-> list[t].first, i |-> 1, todo |-> << >>])
  /\ UNCHANGED <<alloc_vars, heap, list, lost>>

Freeing(t) == doing[t].op = "free_list" /\ call[t] = Idle /\ doing[t].todo = << >>
free_prev(t) ==
  /\ Freeing(t) /\ doing[t].i < list[t].size
  /\ LET next == heap[doing[t].current].next
     IN Does(t, [doing[t] EXCEPT !.current = next, !.i = @ + 1,
                                 !.todo = Blocks(t, heap[next].prev)])
  /\ UNCHANGED <<alloc_vars, heap, list, lost>>
free_current(t) ==
  /\ Freeing(t) /\ doing[t].i = list[t].size
  /\ Does(t, [doing[t] EXCEPT !.i = @ + 1, !.todo = Blocks(t, doing[t].current)])
  /\ UNCHANGED <<alloc_vars, heap, list, lost>>
free_itself(t) ==
  /\ Freeing(t) /\ doing[t].i > list[t].size
  /\ Does(t, [doing[t] EXCEPT !.todo = << list[t].at >>])
  /\ UNCHANGED <<alloc_vars, heap, list, lost>>

(* Seeded fault: a value given back with the size of a node.               *)
block_free_AsNode(t) ==
  /\ doing[t].op = "free_list" /\ doing[t].todo # << >>
  /\ my_free(t, NODE)
  /\ UNCHANGED <<heap, list, doing, lost>>

block_free(t) ==
  /\ doing[t].op = "free_list" /\ doing[t].todo # << >>
  /\ my_free(t, heap[Head(doing[t].todo)].size)
  /\ UNCHANGED <<heap, list, doing, lost>>
block_freed(t) ==
  /\ doing[t].op = "free_list"
  /\ Return(t)
  /\ LET a == Head(doing[t].todo)
     IN /\ heap' = Without({a})
        /\ IF a = list[t].at THEN Sets(t, NoList) /\ Does(t, Nothing)
           ELSE Does(t, [doing[t] EXCEPT !.todo = Tail(@)]) /\ UNCHANGED list
  /\ UNCHANGED lost

within_call(t) == Within(t) /\ UNCHANGED <<heap, list, doing, lost>>

Next ==
  \E t \in Thread :
    \/ init_list(t) \/ list_created(t)
    \/ \E v \in Value : \/ new_property(t, v) \/ add_value(t, v)
                        \/ remove_element(t, v)
    \/ property_created(t) \/ add_property(t) \/ added(t) \/ element_removed(t)
    \/ free_list(t) \/ free_prev(t) \/ free_current(t) \/ free_itself(t)
    \/ block_free(t) \/ block_freed(t)
    \/ within_call(t)

Spec == Init /\ [][Next]_vars

-----------------------------------------------------------------------------
(* A list can be walked: from the moment it exists until it is freed.      *)
Whole(t) == list[t] # NoList /\ doing[t].op # "free_list"

TypeOK ==
  /\ AllocTypeOK
  /\ DOMAIN heap \subseteq Address
  /\ \A t \in Thread :
       list[t] # NoList =>
         list[t] \in [at : Address, first : Address \cup {NULL}, last : Address \cup {NULL},
                      size : 0 .. Cardinality(Address)]

(* The way back from the last node is the way there read backwards: what   *)
(* free_list frees on is what add_last and remove_element have linked.     *)
BothWays ==
  \A t \in Thread : Whole(t) =>
    LET at == Nodes(t)  n == list[t].size
    IN IF n = 0 THEN list[t].first = NULL /\ list[t].last = NULL
       ELSE /\ at[n] = list[t].last
            /\ heap[at[1]].prev = NULL /\ heap[at[n]].next = NULL
            /\ \A i \in 2 .. n : heap[at[i]].prev = at[i - 1]

(* What a thread has of the heap: its list, the nodes not yet freed and    *)
(* their values, the block in its hands.                                   *)
NodesLeft(t) ==
  CASE Whole(t) -> Range(Nodes(t))
    [] doing[t].op = "free_list" -> Range(Walk(doing[t].current, list[t].size - doing[t].i + 1))
    [] OTHER -> {}
InHand(t) ==
  CASE doing[t].op \in {"init_list", "new_property", "property", "add_last"} -> {doing[t].created}
    [] doing[t].op = "remove_element" -> {doing[t].current}
    [] doing[t].op = "free_list" -> ToSet(doing[t].todo)
    [] OTHER -> {}
Adds(t) == IF doing[t].op = "add_last" THEN {doing[t].created} ELSE {}
Has(t) ==
  (IF list[t] # NoList THEN {list[t].at} ELSE {}) \cup NodesLeft(t) \cup InHand(t)
  \cup IF t \in Owner THEN {heap[a].value : a \in NodesLeft(t) \cup Adds(t)} ELSE {}
BeingFreed(t) ==
  IF call[t] # Idle /\ doing[t].op \in {"remove_element", "free_list"} THEN call[t].size ELSE 0

(* Whichever way lists grow, shrink and go, and wherever malloc puts what  *)
(* it is asked for: no block is lost but the values that remove_element    *)
(* takes out of a list that owns them, and none is in two hands (add_last, *)
(* remove_element, free_list).                                             *)
NothingElseLost ==
  /\ DOMAIN heap = lost \cup UNION {Has(t) : t \in Thread}
  /\ \A t \in Thread : Has(t) \cap lost = {} /\ \A u \in Thread \ {t} : Has(t) \cap Has(u) = {}

(* What the allocator counts as held is what is there: every block is      *)
(* given back once, with the size it was asked for (my_alloc, my_free).    *)
BytesHeld ==
  LET Size(a) == heap[a].size
  IN held + MapThenSumSet(BeingFreed, Thread) = MapThenSumSet(Size, DOMAIN heap)

(* Every list is the sequence that its callers take it for.                *)
Values(t) == [i \in 1 .. list[t].size |-> ValueAt(t, Nodes(t)[i])]
values == [t \in {u \in Thread : Whole(u)} |-> Values(t)]
L == INSTANCE Lists
Implements == L!Spec
=============================================================================
