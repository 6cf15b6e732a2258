------------------------- MODULE ServerProperties -------------------------
(***************************************************************************)
(* What holds of the server and its clients, and that together they are a  *)
(* SerialService.                                                          *)
(***************************************************************************)
EXTENDS Server

(* Has the request of c still to be run or turned down?                    *)
Pending(c) ==
  \/ thread[c].pc \in {"none", "receive_message", "parse", "bad_request",
                       "lock", "execute_command", "execute_writes"}
  \/ thread[c].pc = "recv" /\ to_server[c] # << >>

Asking(c) == client[c].request # << >>

(* The response on its way: what the client has, what is in the stream and *)
(* what the thread has still to send.                                      *)
Announced(stream) == stream # << >> /\ Head(stream)[1] = "length"
OnTheWay(c) ==
  IF to_client[c] # << >> /\ Head(to_client[c]) = ErrorText THEN << BadRequest >>
  ELSE client[c].response
       \o BytesOf(IF Announced(to_client[c]) THEN Tail(to_client[c]) ELSE to_client[c])
       \o thread[c].response_xml

(* What a SerialService shows of it.                                       *)
call == [c \in Clients |-> IF Asking(c) /\ (Gone(c) => Pending(c)) THEN client[c].request
                           ELSE << >>]
result == [c \in Clients |-> IF Gone(c) \/ ~ Asking(c) \/ Pending(c) THEN << >>
                             ELSE << OnTheWay(c) >>]
answer == [c \in Clients |-> client[c].answer]
left == {c \in Clients : Gone(c)}
up == Running

(* Seen from the clients, commands run one at a time and at once, none is  *)
(* run twice, and each client gets the answer to its own request, whole:   *)
(* the mutex in work_with_client, and the loops that cut messages up and   *)
(* put them together again on both sides.                                  *)
Service == INSTANCE SerialService WITH
  call <- call, result <- result, answer <- answer, left <- left, up <- up
Serial == Service!Spec

(* The type of the state: streams of headers and bytes, records of what    *)
(* the C variables hold.                                                   *)
Unit == ({"length"} \X Nat) \cup ({"body"} \X Bytes) \cup {ErrorText}
client_type == [
  pc : {"offline", "ready", "send_message", "recv", "receive_message", "gone"},
  request : Requests \cup {<< >>}, unsent : Seq(Bytes), response : Seq(Bytes),
  remain : Nat, answer : Seq(Bytes \cup {BadRequest})]
thread_type == [
  pc : {"none", "recv", "receive_message", "parse", "bad_request", "lock", "execute_command",
        "execute_writes", "unlock", "write", "send_message", "ended"},
  request_xml : Seq(Bytes), remain : Nat, data : Store, response_xml : Seq(Bytes)]
TypeOK ==
  /\ client \in [Clients -> client_type]
  /\ thread \in [Clients -> thread_type]
  /\ to_server \in [Clients -> Seq(Unit)]
  /\ to_client \in [Clients -> Seq(Unit)]
  /\ mutex \in Clients \cup {Nobody}
  /\ store \in Store
  /\ process \in {"up", "server_closed", "file_closed", "down", "wild"}

(* At most one thread is in execute_command (server.c:79-81), whatever     *)
(* clients do and however they end.                                        *)
Executing(c) == thread[c].pc \in {"execute_command", "execute_writes"}
MutualExclusion == \A c, d \in Clients : Executing(c) /\ Executing(d) => c = d

(* When a client may ask again, nothing of the last request or answer is   *)
(* left in a stream or in the thread, so the next header is read as one.   *)
(* A client that stopped early, or a response too many, would put every    *)
(* later answer one request behind.                                        *)
NothingLeftOver == \A c \in Clients :
  client[c].pc = "ready" =>
    /\ to_server[c] = << >> /\ to_client[c] = << >>
    /\ thread[c].pc \in {"none", "recv"}

(* While nobody types 'q', the process ends, or goes astray, only for a    *)
(* reason: a client that left before its answer was written (SIGPIPE,      *)
(* server.c:85); an accepted command that got no response out of the data  *)
(* file it read (strlen(NULL), server.c:84); an accepted command that      *)
(* execute_command does not survive on the data file as it is              *)
(* (server.c:81: relation.c:101, datafile.c:160 and 53); a packet that     *)
(* fills the buffer (server.c:40).  Requests turned down never end it, and *)
(* a thread that waits for the mutex never does.                           *)
Reason ==
  \E c \in Clients :
    \/ Gone(c) /\ Asking(c)
    \/ /\ thread[c].pc = "write" /\ client[c].request \in Accepted
       /\ Reply(thread[c].data, client[c].request) = << >>
    \/ /\ Executing(c) /\ client[c].request \in Accepted
       /\ Fate(store, client[c].request) # "answers"
    \/ Len(client[c].request) >= BUFSIZ
OnlyForAReason ==
  [][process = "up" /\ process' \in {"down", "wild"} => Reason]_vars

(* A client that waits for its answer while the server is up waits for     *)
(* ever only if the threads of others execute again and again: the mutex   *)
(* makes no promise of turns.  Threads that spin for clients long gone do  *)
(* not stand in its way.                                                   *)
Waits(c) == process = "up" /\ Asking(c) /\ ~ Gone(c)
AnsweredUnlessOvertaken == \A c \in Clients :
  (Waits(c) ~> ~ Waits(c)) \/ ([]<> \E d \in Clients \ {c} : Executing(d))
=============================================================================
