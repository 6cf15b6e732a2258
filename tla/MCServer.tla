----------------------------- MODULE MCServer -----------------------------
(***************************************************************************)
(* Workloads of the runs of Server: a data file with up to two relations,  *)
(* which Add counts up, round to none.  Responses take more than one       *)
(* packet; Add is cut in two.                                              *)
(***************************************************************************)
EXTENDS ServerProperties

CONSTANTS c1, c2

MCBytes == {"+", "?", "!", "0", "1"}
Add == << "+", "+" >>
NotAllowed == << "?" >>
Odd == << "!" >>

(* What comes of Odd shows each way in which a command can end the server: *)
(* no response, death with the relation removed, a list freed twice.       *)
MCStore == {"0", "1", "2"}
MCFate(s, q) ==
  IF q # Odd \/ s = "0" THEN "answers" ELSE IF s = "1" THEN "ends" ELSE "wild"
MCEffect(s, q) ==
  IF q = Add THEN (CASE s = "0" -> "1" [] s = "1" -> "2" [] OTHER -> "0")
  ELSE IF q = Odd THEN "0" ELSE s
(* A response tells whether there was a relation before.                   *)
MCReply(s, q) ==
  LET r == IF s = "0" THEN "0" ELSE "1" IN IF q = Add THEN << "+", r, r, "+" >> ELSE << >>

(* Two clients, one of which may go away; requests that are run, turned    *)
(* down, and run with no good end.                                         *)
TwoClients == {c1, c2}
OneLeaves == {c2}
WithOdd == {Add, NotAllowed, Odd}
WithOddAllowed == {Add, Odd}

(* A request of two packets; any packet can fill the buffer.               *)
WithLong == {Add, << "?", "?", "?" >>}
LongAllowed == {Add}
=============================================================================
