--------------------------- MODULE SerialService ---------------------------
(***************************************************************************)
(* What clients can rely on: the server runs the commands it accepts one   *)
(* at a time, each at most once and as a whole, some time between the      *)
(* request and its answer; a client gets the answer to the request it      *)
(* made.  The command of a client that left is still run, once, or never.  *)
(* A command that ends the server is the last one, and may be cut short.   *)
(***************************************************************************)
EXTENDS Sequences

CONSTANTS
  Clients,
  Requests,          \* what clients may send
  Accepted,          \* the requests that the schema allows
  Fate(_, _),        \* what a command makes of the server
  Effect(_, _),      \* the store after a command, whole or cut short
  Reply(_, _),       \* the response to it
  BadRequest,        \* the answer to a request that is not accepted
  InitialStore

VARIABLES
  store,
  call,              \* a client's request, << >> if it has none
  result,            \* << its response >> once the request is dealt with
  answer,            \* the last answer a client has taken
  left,              \* the clients that are gone
  up                 \* is the server there?
vars == <<store, call, result, answer, left, up>>

None == << >>

Init ==
  /\ store = InitialStore
  /\ call = [c \in Clients |-> None]
  /\ result = [c \in Clients |-> None]
  /\ answer = [c \in Clients |-> None]
  /\ left = {}
  /\ up = TRUE

(* Clients wait for the answer before they ask again.                      *)
Ask(c) ==
  /\ c \notin left /\ call[c] = None
  /\ \E q \in Requests : call' = [call EXCEPT ![c] = q]
  /\ UNCHANGED <<store, result, answer, left, up>>

(* A response nobody will take is dropped with its call.                   *)
Respond(c, response) ==
  IF c \in left
  THEN call' = [call EXCEPT ![c] = None] /\ UNCHANGED result
  ELSE result' = [result EXCEPT ![c] = << response >>] /\ UNCHANGED call

Execute(c) ==
  /\ up /\ call[c] \in Accepted /\ result[c] = None
  /\ Fate(store, call[c]) = "answers"
  /\ store' = Effect(store, call[c])
  /\ Respond(c, Reply(store, call[c]))
  /\ UNCHANGED <<answer, left, up>>

(* The server dies of a command: its caller gets no answer.                *)
Die(c) ==
  /\ up /\ call[c] \in Accepted /\ result[c] = None
  /\ Fate(store, call[c]) = "ends"
  /\ store' = Effect(store, call[c])
  /\ up' = FALSE
  /\ UNCHANGED <<call, result, answer, left>>

Reject(c) ==
  /\ up /\ call[c] # None /\ call[c] \notin Accepted /\ result[c] = None
  /\ Respond(c, << BadRequest >>)
  /\ UNCHANGED <<store, answer, left, up>>

Take(c) ==
  /\ c \notin left /\ result[c] # None /\ result[c][1] # << >>
  /\ answer' = [answer EXCEPT ![c] = result[c][1]]
  /\ result' = [result EXCEPT ![c] = None]
  /\ call' = [call EXCEPT ![c] = None]
  /\ UNCHANGED <<store, left, up>>

(* A client may leave at any time.  One that waits when the server is      *)
(* gone takes "bad request" for an answer and leaves.                      *)
Leave(c) ==
  /\ c \notin left
  /\ left' = left \cup {c}
  /\ call' = IF result[c] = None THEN call ELSE [call EXCEPT ![c] = None]
  /\ result' = [result EXCEPT ![c] = None]
  /\ \/ UNCHANGED answer
     \/ ~ up /\ call[c] # None /\ answer' = [answer EXCEPT ![c] = << BadRequest >>]
  /\ UNCHANGED <<store, up>>

Stop ==
  /\ up /\ up' = FALSE
  /\ UNCHANGED <<store, call, result, answer, left>>

Next ==
  \/ Stop
  \/ \E c \in Clients : \/ Ask(c) \/ Execute(c) \/ Die(c) \/ Reject(c)
                        \/ Take(c) \/ Leave(c)

Spec == Init /\ [][Next]_vars
=============================================================================
