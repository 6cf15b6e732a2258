-------------------------------- MODULE Lists --------------------------------
(***************************************************************************)
(* What linked_list.c promises its callers: every list is a sequence of    *)
(* values that add_last makes longer at its end, of which remove_element   *)
(* takes the first that is found, and that is gone after free_list.        *)
(***************************************************************************)
EXTENDS SequencesExt

CONSTANTS Thread, Value

VARIABLE
  values    \* thread that has a list -> the values in it

Init == values = << >>

Becomes(t, list) ==
  values' = [u \in DOMAIN values \cup {t} |-> IF u = t THEN list ELSE values[u]]

init_list(t) == t \notin DOMAIN values /\ Becomes(t, << >>)
add_last(t, v) == t \in DOMAIN values /\ Becomes(t, Append(values[t], v))
remove_element(t, v) == t \in DOMAIN values /\ Becomes(t, RemoveFirst(values[t], v))
free_list(t) ==
  t \in DOMAIN values /\ values' = [u \in DOMAIN values \ {t} |-> values[u]]

Next ==
  \E t \in Thread :
    \/ init_list(t) \/ free_list(t)
    \/ \E v \in Value : add_last(t, v) \/ remove_element(t, v)

Spec == Init /\ [][Next]_values
=============================================================================
