---------------------------- MODULE MCLinkedList ----------------------------
(***************************************************************************)
(* Two threads, one with a list that owns its values; sizes that tell the  *)
(* blocks apart in every sum.                                              *)
(***************************************************************************)
EXTENDS LinkedList

(* Bounds: MaxSize[t] nodes in a list; MaxAsked bytes asked for, below     *)
(* which a thread may begin what allocates, and MaxRaced bytes once calls  *)
(* have overlapped, which takes two short lists.  malloc takes the lowest  *)
(* free place, so that it gives out again at once what was freed.          *)
CONSTANTS MaxSize, MaxAsked, MaxRaced
MCMaxSize == << 1, 3 >>
Begins(t) == doing[t] = Nothing /\ doing'[t] # Nothing
Bounded(t) ==
  LET room == asked < MaxAsked /\ (list[t] # NoList => list[t].size < MaxSize[t])
  IN Begins(t) => room \/ doing'[t].op \in {"remove_element", "free_list"}
BoundedNext ==
  /\ Next
  /\ \A t \in Thread : Bounded(t)
  /\ raced' => asked' <= MaxRaced
  /\ \A a \in DOMAIN heap' \ DOMAIN heap : a = Min(Free)
BoundedSpec == Init /\ [][BoundedNext]_vars
=============================================================================
