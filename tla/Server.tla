------------------------------ MODULE Server ------------------------------
(***************************************************************************)
(* The server and its clients (server.c, server_main.c, client.c,          *)
(* client_main.c): connections, one thread per client, headers and bodies  *)
(* over byte streams, the mutex around execute_command, the console's 'q'  *)
(* and clients that go away.  A step ends where another process can get in *)
(* between: at each call of send, recv, lock and unlock.                   *)
(*                                                                         *)
(* A header is BUFSIZ bytes long and sent at once, over the loopback       *)
(* interface (HOSTNAME), into an empty stream: it arrives whole.  Bodies   *)
(* arrive cut up at will.                                                  *)
(***************************************************************************)
EXTENDS Integers, Sequences, FiniteSets

CONSTANTS
  Clients,
  Leaving,           \* the clients that may go away
  CanQuit,           \* is there somebody to type 'q'?
  Nobody,            \* the holder of a mutex that is free
  BUFSIZ,            \* the most bytes a recv or a packet takes
  Bytes,
  Requests,          \* what clients may send, as byte sequences
  Accepted,          \* the requests that the schema allows
  Store, InitialStore,
  Fate(_, _),        \* execute_command: what becomes of the process
  Effect(_, _),      \* the data file after a command, whole or cut short
  Reply(_, _),       \* and its response, << >> for NULL
  BadRequest         \* the answer "Bad request!"

(* A command answers; or it ends the process, having done some of its work *)
(* (relations deleted, relation.c:101); or it makes it go astray (a list   *)
(* freed twice by match, datafile.c:160; a string past its block,          *)
(* datafile.c:53).  Which commands do is DataFile's matter.                *)
Fates == {"answers", "ends", "wild"}

ASSUME ServerAssumption ==
  /\ Leaving \subseteq Clients
  /\ CanQuit \in BOOLEAN
  /\ Nobody \notin Clients
  /\ BUFSIZ \in Nat \ {0}
  /\ BadRequest \notin Bytes
  /\ Requests \subseteq Seq(Bytes) \ {<< >>}
  /\ Accepted \subseteq Requests
  /\ InitialStore \in Store
  /\ \A s \in Store : \A q \in Requests :
       Fate(s, q) \in Fates /\ Effect(s, q) \in Store /\ Reply(s, q) \in Seq(Bytes)

VARIABLES
  client,            \* main and its calls in each client
  thread,            \* work_with_client and its calls for each client
  to_server,         \* sent by a client and not yet received
  to_client,
  mutex,             \* its holder
  store,             \* the data file
  process            \* the server's process and its main thread
vars == <<client, thread, to_server, to_client, mutex, store, process>>

-----------------------------------------------------------------------------
(* The streams.  A header holds the length of the body that follows.       *)
Header(n) == << "length", n >>
Body(bytes) == [i \in 1 .. Len(bytes) |-> << "body", bytes[i] >>]
BytesOf(stream) == [i \in 1 .. Len(stream) |-> stream[i][2]]
ErrorText == << "text", BadRequest >>

(* strtol: the length a header gives; a text is none.                      *)
strtol(unit) == IF unit[1] = "length" THEN unit[2] ELSE 0

Lesser(a, b) == IF a < b THEN a ELSE b
Packet(bytes) == SubSeq(bytes, 1, Lesser(BUFSIZ, Len(bytes)))
After(bytes, n) == SubSeq(bytes, n + 1, Len(bytes))

Running == process \in {"up", "server_closed", "file_closed"}
Gone(c) == client[c].pc = "gone"

-----------------------------------------------------------------------------
(* A client.                                                               *)
connect(c) ==
  /\ process = "up"
  /\ client[c].pc = "offline"
  /\ client' = [client EXCEPT ![c].pc = "ready"]
  /\ UNCHANGED <<thread, to_server, to_client, mutex, store, process>>

(* The user types a query; send_message sends the header.                  *)
send_header(c) ==
  /\ client[c].pc = "ready"
  /\ \E q \in Requests :
       /\ client' = [client EXCEPT ![c].pc = "send_message", ![c].request = q, ![c].unsent = q]
       /\ to_server' = [to_server EXCEPT ![c] = Append(@, Header(Len(q)))]
  /\ UNCHANGED <<thread, to_client, mutex, store, process>>

(* Seeded fault: the packets are cut off the request itself.               *)
send_packet_Consumes(c) ==
  /\ client[c].pc = "send_message"
  /\ LET data == Packet(client[c].request)
         rest == After(client[c].request, Len(data))
     IN /\ to_server' = [to_server EXCEPT ![c] = @ \o Body(data)]
        /\ client' = [client EXCEPT ![c].request = rest, ![c].unsent = << >>,
                                    ![c].pc = IF rest = << >> THEN "recv" ELSE "send_message"]
  /\ UNCHANGED <<thread, to_client, mutex, store, process>>

send_packet(c) ==
  /\ client[c].pc = "send_message"
  /\ LET data == Packet(client[c].unsent)
         rest == After(client[c].unsent, Len(data))
     IN /\ to_server' = [to_server EXCEPT ![c] = @ \o Body(data)]
        /\ client' = [client EXCEPT ![c].unsent = rest,
                                    ![c].pc = IF rest = << >> THEN "recv" ELSE "send_message"]
  /\ UNCHANGED <<thread, to_client, mutex, store, process>>

(* parse_xml_response: what cannot be parsed is shown as "BAD REQUEST".    *)
Shown(response) == IF response = << >> THEN << BadRequest >> ELSE response
Ready(self, response) ==
  [self EXCEPT !.pc = "ready", !.request = << >>, !.response = << >>, !.answer = Shown(response)]

client_header(c) ==
  /\ client[c].pc = "recv"
  /\ to_client[c] # << >>
  /\ LET content_length == strtol(Head(to_client[c]))
     IN client' = [client EXCEPT ![c] =
          IF content_length > 0
          THEN [@ EXCEPT !.pc = "receive_message", !.remain = content_length]
          ELSE Ready(@, << >>)]
  /\ to_client' = [to_client EXCEPT ![c] = Tail(@)]
  /\ UNCHANGED <<thread, to_server, mutex, store, process>>

(* Seeded fault: a single recv for the whole body.                         *)
client_receive_OneRecv(c) ==
  /\ client[c].pc = "receive_message"
  /\ \E len \in 1 .. Lesser(BUFSIZ, Len(to_client[c])) :
       /\ client' = [client EXCEPT ![c] =
            [Ready(@, BytesOf(SubSeq(to_client[c], 1, len))) EXCEPT !.remain = 0]]
       /\ to_client' = [to_client EXCEPT ![c] = After(@, len)]
  /\ UNCHANGED <<thread, to_server, mutex, store, process>>

(* One turn of the loop of the client's receive_message.                   *)
client_receive(c) ==
  /\ client[c].pc = "receive_message"
  /\ \E len \in 1 .. Lesser(BUFSIZ, Len(to_client[c])) :
       LET response == client[c].response \o BytesOf(SubSeq(to_client[c], 1, len))
           remain == client[c].remain - len
       IN /\ client' = [client EXCEPT ![c] =
               IF remain > 0 THEN [@ EXCEPT !.response = response, !.remain = remain]
               ELSE [Ready(@, response) EXCEPT !.remain = 0]]
          /\ to_client' = [to_client EXCEPT ![c] = After(@, len)]
  /\ UNCHANGED <<thread, to_server, mutex, store, process>>

(* The end of a client: 'q' or a kill; and, when the server is gone, an    *)
(* error of send, a recv of -1 in receive_message, or one of 0 or less for *)
(* a header: then the answer is "BAD REQUEST" and the loop of main ends.   *)
(* A client that goes on to receive 0 bytes in receive_message never ends. *)
leave(c) ==
  /\ client[c].pc \notin {"offline", "gone"}
  /\ \/ /\ c \in Leaving
        /\ client' = [client EXCEPT ![c].pc = "gone"]
     \/ /\ process = "down"
        /\ client[c].pc \in {"ready", "send_message", "receive_message"}
        /\ client' = [client EXCEPT ![c].pc = "gone"]
     \/ /\ process = "down"
        /\ client[c].pc = "recv"
        /\ client' = [client EXCEPT ![c].pc = "gone", ![c].answer = << BadRequest >>]
  /\ to_client' = [to_client EXCEPT ![c] = << >>]
  /\ UNCHANGED <<thread, to_server, mutex, store, process>>

-----------------------------------------------------------------------------
(* A thread of the server.                                                 *)
accept(c) ==
  /\ process = "up"
  /\ client[c].pc # "offline"
  /\ thread[c].pc = "none"
  /\ thread' = [thread EXCEPT ![c].pc = "recv"]
  /\ UNCHANGED <<client, to_server, to_client, mutex, store, process>>

(* Seeded fault: request_xml is not cleared for the next request.          *)
server_header_NotCleared(c) ==
  /\ Running
  /\ thread[c].pc = "recv"
  /\ to_server[c] # << >>
  /\ thread' = [thread EXCEPT ![c].pc = "receive_message",
                              ![c].remain = strtol(Head(to_server[c]))]
  /\ to_server' = [to_server EXCEPT ![c] = Tail(@)]
  /\ UNCHANGED <<client, to_client, mutex, store, process>>

(* The header of a request, or the end of the stream.                      *)
server_header(c) ==
  /\ Running
  /\ thread[c].pc = "recv"
  /\ \/ /\ to_server[c] # << >>
        /\ LET content_length == strtol(Head(to_server[c]))
           IN thread' = [thread EXCEPT
                ![c].pc = IF content_length > 0 THEN "receive_message" ELSE "bad_request",
                ![c].remain = content_length, ![c].request_xml = << >>]
        /\ to_server' = [to_server EXCEPT ![c] = Tail(@)]
     \/ /\ to_server[c] = << >> /\ Gone(c)
        /\ thread' = [thread EXCEPT ![c].pc = "ended"]
        /\ UNCHANGED to_server
  /\ UNCHANGED <<client, to_client, mutex, store, process>>

(* One turn of the loop of the server's receive_message.  strcat takes the *)
(* part for a string: if it fills the buffer there is no 0 byte at its     *)
(* end, and what strcat finds behind the buffer decides what happens.      *)
(* When the client is gone the loop never ends (recv gives 0).             *)
server_receive(c) ==
  /\ Running
  /\ thread[c].pc = "receive_message"
  /\ \E len \in 1 .. Lesser(BUFSIZ, Len(to_server[c])) :
       /\ thread' = [thread EXCEPT
            ![c].request_xml = @ \o BytesOf(SubSeq(to_server[c], 1, len)),
            ![c].remain = @ - len,
            ![c].pc = IF thread[c].remain > len THEN "receive_message" ELSE "parse"]
       /\ to_server' = [to_server EXCEPT ![c] = After(@, len)]
       /\ \/ UNCHANGED process
          \/ len = BUFSIZ /\ process' = "wild"
  /\ UNCHANGED <<client, to_client, mutex, store>>

(* Seeded fault: a request that does not parse is executed all the same.   *)
parse_Unchecked(c) ==
  /\ Running
  /\ thread[c].pc = "parse"
  /\ thread' = [thread EXCEPT ![c].pc = "lock"]
  /\ UNCHANGED <<client, to_server, to_client, mutex, store, process>>

(* parse_client_xml_request.                                               *)
parse(c) ==
  /\ Running
  /\ thread[c].pc = "parse"
  /\ thread' = [thread EXCEPT
       ![c].pc = IF thread[c].request_xml \in Accepted THEN "lock" ELSE "bad_request"]
  /\ UNCHANGED <<client, to_server, to_client, mutex, store, process>>

(* Seeded fault: the mutex is not waited for.                              *)
lock_NoWait(c) ==
  /\ Running
  /\ thread[c].pc = "lock"
  /\ mutex' = c
  /\ thread' = [thread EXCEPT ![c].pc = "execute_command"]
  /\ UNCHANGED <<client, to_server, to_client, store, process>>

lock(c) ==
  /\ Running
  /\ thread[c].pc = "lock"
  /\ mutex = Nobody
  /\ mutex' = c
  /\ thread' = [thread EXCEPT ![c].pc = "execute_command"]
  /\ UNCHANGED <<client, to_server, to_client, store, process>>

(* execute_command reads the data file and then writes it.  With the file  *)
(* closed nothing can be said of what it does, nor once it went astray.    *)
FileClosed == process = "file_closed" /\ process' = "wild" /\ UNCHANGED <<thread, store>>

execute_reads(c) ==
  /\ Running
  /\ thread[c].pc = "execute_command"
  /\ \/ FileClosed
     \/ /\ process # "file_closed"
        /\ Fate(store, thread[c].request_xml) = "wild"
        /\ process' = "wild"
        /\ UNCHANGED <<thread, store>>
     \/ /\ process # "file_closed"
        /\ Fate(store, thread[c].request_xml) # "wild"
        /\ thread' = [thread EXCEPT ![c].pc = "execute_writes", ![c].data = store]
        /\ UNCHANGED <<store, process>>
  /\ UNCHANGED <<client, to_server, to_client, mutex>>

execute_writes(c) ==
  /\ Running
  /\ thread[c].pc = "execute_writes"
  /\ LET info == thread[c].request_xml
     IN \/ FileClosed
        \/ /\ process # "file_closed"
           /\ Fate(thread[c].data, info) = "ends"
           /\ store' = Effect(thread[c].data, info)
           /\ process' = "down"
           /\ UNCHANGED thread
        \/ /\ process # "file_closed"
           /\ Fate(thread[c].data, info) = "answers"
           /\ store' = Effect(thread[c].data, info)
           /\ thread' = [thread EXCEPT ![c].pc = "unlock",
                                       ![c].response_xml = Reply(thread[c].data, info)]
           /\ UNCHANGED process
  /\ UNCHANGED <<client, to_server, to_client, mutex>>

unlock(c) ==
  /\ Running
  /\ thread[c].pc = "unlock"
  /\ mutex' = Nobody
  /\ thread' = [thread EXCEPT ![c].pc = "write"]
  /\ UNCHANGED <<client, to_server, to_client, store, process>>

(* write to a client.  If the client is gone, the bytes go nowhere; or     *)
(* write fails; or the signal SIGPIPE ends the process.                    *)
Write(c, units, written, failed) ==
  \/ /\ to_client' = [to_client EXCEPT ![c] = IF Gone(c) THEN @ ELSE @ \o units]
     /\ thread' = [thread EXCEPT ![c] = written]
     /\ UNCHANGED process
  \/ /\ Gone(c)
     /\ thread' = [thread EXCEPT ![c] = failed]
     /\ UNCHANGED <<to_client, process>>
  \/ /\ Gone(c)
     /\ process' = "down"
     /\ UNCHANGED <<to_client, thread>>

(* Seeded fault: a bad request is dropped without an answer.               *)
bad_request_Silent(c) ==
  /\ Running
  /\ thread[c].pc = "bad_request"
  /\ thread' = [thread EXCEPT ![c].pc = "recv"]
  /\ UNCHANGED <<client, to_server, to_client, mutex, store, process>>

bad_request(c) ==
  /\ Running
  /\ thread[c].pc = "bad_request"
  /\ LET next == [thread[c] EXCEPT !.pc = "recv"] IN Write(c, << ErrorText >>, next, next)
  /\ UNCHANGED <<client, to_server, mutex, store>>

(* The header of the response.  strlen(NULL) ends the process.             *)
server_write_header(c) ==
  /\ Running
  /\ thread[c].pc = "write"
  /\ LET response_xml == thread[c].response_xml
     IN IF response_xml = << >>
        THEN process' = "down" /\ UNCHANGED <<thread, to_client>>
        ELSE Write(c, << Header(Len(response_xml)) >>, [thread[c] EXCEPT !.pc = "send_message"],
                   [thread[c] EXCEPT !.pc = "ended"])
  /\ UNCHANGED <<client, to_server, mutex, store>>

(* Seeded fault: the offset does not move on by the whole packet.          *)
server_write_packet_Overlap(c) ==
  /\ Running
  /\ thread[c].pc = "send_message"
  /\ LET data == Packet(thread[c].response_xml)
         rest == After(thread[c].response_xml, BUFSIZ - 1)
         end == [thread[c] EXCEPT !.pc = "recv", !.response_xml = << >>]
     IN Write(c, Body(data),
              IF Len(data) < BUFSIZ THEN end ELSE [thread[c] EXCEPT !.response_xml = rest], end)
  /\ UNCHANGED <<client, to_server, mutex, store>>

(* A packet of the response; the last one, or a failure, ends the loop.    *)
server_write_packet(c) ==
  /\ Running
  /\ thread[c].pc = "send_message"
  /\ LET data == Packet(thread[c].response_xml)
         rest == After(thread[c].response_xml, Len(data))
         end == [thread[c] EXCEPT !.pc = "recv", !.response_xml = << >>]
     IN Write(c, Body(data),
              IF rest = << >> THEN end ELSE [thread[c] EXCEPT !.response_xml = rest], end)
  /\ UNCHANGED <<client, to_server, mutex, store>>

-----------------------------------------------------------------------------
(* The main thread of the server: 'q', close_server, fclose, exit.  It     *)
(* waits for no thread and takes no mutex.                                 *)
main ==
  /\ \/ process = "up" /\ CanQuit /\ process' = "server_closed"
     \/ process = "server_closed" /\ process' = "file_closed"
     \/ process = "file_closed" /\ process' = "down"
  /\ UNCHANGED <<client, thread, to_server, to_client, mutex, store>>

-----------------------------------------------------------------------------
NewClient == [pc |-> "offline", request |-> << >>, unsent |-> << >>, response |-> << >>,
              remain |-> 0, answer |-> << >>]
NewThread == [pc |-> "none", request_xml |-> << >>, remain |-> 0, data |-> InitialStore,
              response_xml |-> << >>]

Init ==
  /\ client = [c \in Clients |-> NewClient]
  /\ thread = [c \in Clients |-> NewThread]
  /\ to_server = [c \in Clients |-> << >>]
  /\ to_client = [c \in Clients |-> << >>]
  /\ mutex = Nobody
  /\ store = InitialStore
  /\ process = "up"

(* What a client does without its user, and what the server does for it.   *)
ClientStep(c) == send_packet(c) \/ client_header(c) \/ client_receive(c)
work_with_client(c) ==
  \/ server_header(c) \/ server_receive(c) \/ parse(c) \/ bad_request(c)
  \/ lock(c) \/ execute_reads(c) \/ execute_writes(c) \/ unlock(c)
  \/ server_write_header(c) \/ server_write_packet(c)

Next ==
  \/ main
  \/ \E c \in Clients : \/ connect(c) \/ send_header(c) \/ leave(c) \/ ClientStep(c)
                        \/ accept(c) \/ work_with_client(c)

Spec == Init /\ [][Next]_vars

(* Nothing makes users ask or leave, or the console say 'q'; programs run. *)
Fairness == \A c \in Clients :
  WF_vars(ClientStep(c)) /\ WF_vars(accept(c)) /\ WF_vars(work_with_client(c))
FairSpec == Spec /\ Fairness
=============================================================================
