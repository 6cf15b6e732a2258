------------------------- MODULE ServerRefinement -------------------------
(***************************************************************************)
(* The server and its clients implement SerialService, for every number of *)
(* clients, every BUFSIZ and every execute_command; and the process ends   *)
(* only for a reason.  On top of what ServerProofs says of where a message *)
(* is, the invariant here says what is in it.                              *)
(***************************************************************************)
EXTENDS ServerProofs, SequenceTheorems

-----------------------------------------------------------------------------
(* What was received, what is in the stream and what has still to be sent  *)
(* make up the request, until it has been dealt with.                      *)
Carries(cl, th, ts) ==
  /\ cl.pc \in {"offline", "ready"} => cl.request = << >>
  /\ cl.pc \in {"send_message", "recv", "receive_message"} => cl.request # << >>
  /\ th.pc = "none" /\ ts = << >> => cl.request = << >>
  /\ th.pc \in {"none", "recv"} /\ ts # << >> =>
       cl.request = BytesOf(Tail(ts)) \o cl.unsent
  /\ th.pc = "receive_message" => cl.request = th.request_xml \o BytesOf(ts) \o cl.unsent
  /\ th.pc \in {"parse", "lock", "execute_command", "execute_writes"} =>
       cl.request = th.request_xml /\ cl.request # << >>
  /\ th.pc = "bad_request" => cl.request # << >> /\ cl.request \notin Accepted
  /\ th.pc \in {"unlock", "write", "send_message"} => cl.request \in Accepted
  /\ th.pc \in {"unlock", "write"} => th.response_xml = Reply(th.data, cl.request)
Carried == \A c \in Clients : Carries(client[c], thread[c], to_server[c])

(* What execute_command has read is still what is in the data file, unless *)
(* it ended the server.                                                    *)
Fresh ==
  Running => \A c \in Clients : thread[c].pc = "execute_writes" => thread[c].data = store

CInv == IInv /\ Carried /\ Fresh

-----------------------------------------------------------------------------
(* Cutting a stream and joining it again loses nothing.                    *)

LEMMA JoinAt ==
  ASSUME NEW S, NEW s \in Seq(S), NEW t \in Seq(S)
  PROVE  /\ \A i \in 1 .. Len(s) : (s \o t)[i] = s[i]
         /\ \A i \in 1 .. Len(t) : (s \o t)[Len(s) + i] = t[i]
OBVIOUS

LEMMA JoinTwice ==
  ASSUME NEW s \in Seq(Bytes), NEW t \in Seq(Bytes), NEW u \in Seq(Bytes)
  PROVE  (s \o t) \o u = s \o (t \o u)
<1> DEFINE a == (s \o t) \o u
           b == s \o (t \o u)
<1>1. a \in Seq(Bytes) /\ b \in Seq(Bytes) /\ Len(a) = Len(b)  OBVIOUS
<1>2. \A i \in 1 .. Len(a) : a[i] = b[i]  OBVIOUS
<1> HIDE DEF a, b
<1>3. a = b  BY <1>1, <1>2, SeqEqual
<1> QED  BY <1>3 DEF a, b

LEMMA CutJoin ==
  ASSUME NEW S, NEW s \in Seq(S), NEW n \in 0 .. Len(s)
  PROVE  SubSeq(s, 1, n) \o After(s, n) = s
<1>1. Len(s) \in Nat  BY LenProperties
<1>2. SubSeq(s, 1, n) \o SubSeq(s, n + 1, Len(s)) = SubSeq(s, 1, Len(s))
  <2>1. /\ 1 \in 1 .. Len(s) + 1 /\ n \in 1 - 1 .. Len(s) /\ Len(s) \in n .. Len(s)
    BY <1>1
  <2> QED  BY <2>1, ConcatAdjacentSubSeq
<1> QED  BY <1>2, SubSeqFull DEF After

LEMMA PacketJoin ==
  ASSUME NEW S, NEW s \in Seq(S)
  PROVE  Packet(s) \o After(s, Len(Packet(s))) = s
<1> DEFINE n == Lesser(BUFSIZ, Len(s))
<1>1. n \in 0 .. Len(s)  BY ServerAssumption DEF Lesser
<1> HIDE DEF n
<1>2. Packet(s) = SubSeq(s, 1, n) /\ Len(Packet(s)) = n  BY <1>1, PartType DEF Packet, n
<1> QED  BY <1>1, <1>2, CutJoin

LEMMA BytesOfJoin ==
  ASSUME NEW s \in Seq(Unit), NEW t \in Seq(Unit), BodyFrom(s, 1), BodyFrom(t, 1)
  PROVE  BytesOf(s \o t) = BytesOf(s) \o BytesOf(t)
<1> DEFINE a == BytesOf(s \o t)
           b == BytesOf(s) \o BytesOf(t)
<1>1. s \o t \in Seq(Unit) /\ Len(s \o t) = Len(s) + Len(t)  BY JoinType
<1>2. BodyFrom(s \o t, 1)  BY BodyJoin, LenType
<1>3. /\ BytesOf(s) \in Seq(Bytes) /\ Len(BytesOf(s)) = Len(s)
      /\ BytesOf(t) \in Seq(Bytes) /\ Len(BytesOf(t)) = Len(t)
      /\ a \in Seq(Bytes) /\ Len(a) = Len(s) + Len(t)
  BY <1>1, <1>2, BytesOfType
<1>4. b \in Seq(Bytes) /\ Len(b) = Len(s) + Len(t)
  <2>1. b \in Seq(Bytes) /\ Len(b) = Len(BytesOf(s)) + Len(BytesOf(t))
    BY <1>3, JoinType, Zenon
  <2> QED  BY <1>3, <2>1, Zenon
<1>5. Len(s) \in Nat /\ Len(t) \in Nat  BY LenType
<1>6. ASSUME NEW i \in 1 .. Len(s) + Len(t)  PROVE a[i] = b[i]
  <2>1. a[i] = (s \o t)[i][2]  BY <1>1 DEF BytesOf
  <2>2. CASE i <= Len(s)
    <3>1. i \in 1 .. Len(s)  BY <2>2
    <3>2. b[i] = BytesOf(s)[i] /\ (s \o t)[i] = s[i]  BY <1>3, <3>1, JoinAt
    <3> QED  BY <2>1, <3>1, <3>2 DEF BytesOf
  <2>3. CASE i > Len(s)
    <3>1. PICK j \in 1 .. Len(t) : i = Len(s) + j
      <4>1. i - Len(s) \in 1 .. Len(t) /\ i = Len(s) + (i - Len(s))  BY <2>3
      <4> QED  BY <4>1
    <3>2. b[i] = BytesOf(t)[j] /\ (s \o t)[i] = t[j]  BY <1>3, <3>1, JoinAt
    <3> QED  BY <2>1, <3>1, <3>2 DEF BytesOf
  <2> HIDE DEF a, b
  <2> QED  BY <1>5, <2>2, <2>3
<1> HIDE DEF a, b
<1>7. a = b  BY <1>3, <1>4, <1>5, <1>6, SeqEqual
<1> QED  BY <1>7 DEF a, b

LEMMA BytesOfBody ==
  ASSUME NEW bytes \in Seq(Bytes)
  PROVE  BytesOf(Body(bytes)) = bytes
<1>1. Body(bytes) \in Seq(Unit) /\ Len(Body(bytes)) = Len(bytes) /\ BodyFrom(Body(bytes), 1)
  BY BodyType
<1>2. BytesOf(Body(bytes)) \in Seq(Bytes) /\ Len(BytesOf(Body(bytes))) = Len(bytes)
  BY <1>1, BytesOfType
<1>3. \A i \in 1 .. Len(bytes) : BytesOf(Body(bytes))[i] = bytes[i]
  BY <1>1 DEF BytesOf, Body
<1> QED  BY <1>2, <1>3, SeqEqual

LEMMA BytesOfNothing == BytesOf(<< >>) = << >>
BY DEF BytesOf

(* What follows a header.                                                  *)
LEMMA TailJoin ==
  ASSUME NEW S, NEW s \in Seq(S), NEW t \in Seq(S), s # << >>
  PROVE  Tail(s) \in Seq(S) /\ Tail(s \o t) = Tail(s) \o t
<1> DEFINE a == Tail(s \o t)
           b == Tail(s) \o t
<1>1. /\ s \o t \in Seq(S) /\ Len(s \o t) = Len(s) + Len(t) /\ Len(s) > 0
      /\ Tail(s) \in Seq(S) /\ Len(Tail(s)) = Len(s) - 1
      /\ \A i \in 1 .. Len(s) - 1 : Tail(s)[i] = s[i + 1]
  OBVIOUS
<1>2. /\ a \in Seq(S) /\ Len(a) = Len(s) + Len(t) - 1
      /\ \A i \in 1 .. Len(a) : a[i] = (s \o t)[i + 1]
  <2>1. s \o t # << >>  BY <1>1, LenType
  <2> DEFINE u == s \o t
  <2> HIDE DEF u
  <2>2. u \in Seq(S) /\ u # << >> /\ Len(u) = Len(s) + Len(t)  BY <1>1, <2>1 DEF u
  <2>3. /\ Tail(u) \in Seq(S) /\ Len(Tail(u)) = Len(u) - 1
        /\ \A i \in 1 .. Len(u) - 1 : Tail(u)[i] = u[i + 1]
    BY <2>2
  <2> QED  BY <2>2, <2>3 DEF u
<1>3. b \in Seq(S) /\ Len(b) = Len(s) - 1 + Len(t)  BY <1>1, JoinType
<1>4. ASSUME NEW i \in 1 .. Len(s) + Len(t) - 1  PROVE (s \o t)[i + 1] = b[i]
  <2>1. CASE i < Len(s)  BY <1>1, <2>1, JoinAt
  <2>2. CASE i >= Len(s)
    <3>1. PICK j \in 1 .. Len(t) : i + 1 = Len(s) + j /\ i = Len(Tail(s)) + j
      <4>1. /\ i + 1 - Len(s) \in 1 .. Len(t) /\ i + 1 = Len(s) + (i + 1 - Len(s))
            /\ i = Len(Tail(s)) + (i + 1 - Len(s))
        BY <1>1, <2>2
      <4> QED  BY <4>1
    <3> QED  BY <1>1, <3>1, JoinAt
  <2> QED  BY <2>1, <2>2
<1> HIDE DEF a, b
<1> QED  BY <1>1, <1>2, <1>3, <1>4, SeqEqual

LEMMA HeaderCut ==
  ASSUME NEW s \in Seq(Unit), NEW unsent, Announces(s, unsent)
  PROVE  /\ Announced(s) /\ Head(s) # ErrorText
         /\ Tail(s) \in Seq(Unit) /\ BodyFrom(Tail(s), 1) /\ Len(Tail(s)) = Len(s) - 1
<1>1. s # << >> /\ s[1][1] = "length" /\ Head(s) = s[1]
  BY DEF Announces, Header
<1>2. /\ Tail(s) \in Seq(Unit) /\ Len(Tail(s)) = Len(s) - 1
      /\ \A i \in 1 .. Len(Tail(s)) : Tail(s)[i] = s[i + 1]
  BY <1>1, HeadTailProperties
<1>3. \A i \in 1 .. Len(Tail(s)) : i + 1 \in 2 .. Len(s)  BY <1>2, LenType
<1>4. BodyFrom(Tail(s), 1)  BY <1>2, <1>3 DEF Announces, BodyFrom
<1> QED  BY <1>1, <1>2, <1>4 DEF Announced, ErrorText

-----------------------------------------------------------------------------
(* What a SerialService shows of one client.                               *)

PendingOf(th, ts) ==
  \/ th.pc \in {"none", "receive_message", "parse", "bad_request",
                "lock", "execute_command", "execute_writes"}
  \/ th.pc = "recv" /\ ts # << >>
CallOf(cl, th, ts) ==
  IF cl.request # << >> /\ (cl.pc = "gone" => PendingOf(th, ts)) THEN cl.request ELSE << >>
OnTheWayOf(cl, th, tc) ==
  IF tc # << >> /\ Head(tc) = ErrorText THEN << BadRequest >>
  ELSE cl.response \o BytesOf(IF Announced(tc) THEN Tail(tc) ELSE tc) \o th.response_xml
ResultOf(cl, th, ts, tc) ==
  IF cl.pc = "gone" \/ cl.request = << >> \/ PendingOf(th, ts) THEN << >>
  ELSE << OnTheWayOf(cl, th, tc) >>

Shows(c) ==
  /\ call[c] = CallOf(client[c], thread[c], to_server[c])
  /\ result[c] = ResultOf(client[c], thread[c], to_server[c], to_client[c])
  /\ answer[c] = client[c].answer
  /\ c \in left <=> client[c].pc = "gone"

ShowsAll == \A c \in Clients : Shows(c)

LEMMA Views == ShowsAll
<1> SUFFICES ASSUME NEW c \in Clients  PROVE Shows(c)  BY DEF ShowsAll
<1>1. /\ Pending(c) <=> PendingOf(thread[c], to_server[c])
      /\ Asking(c) <=> client[c].request # << >>
      /\ Gone(c) <=> client[c].pc = "gone"
      /\ OnTheWay(c) = OnTheWayOf(client[c], thread[c], to_client[c])
  BY DEF Pending, PendingOf, Asking, Gone, OnTheWay, OnTheWayOf
<1>2. /\ call[c] = IF Asking(c) /\ (Gone(c) => Pending(c)) THEN client[c].request ELSE << >>
      /\ result[c] = IF Gone(c) \/ ~ Asking(c) \/ Pending(c) THEN << >> ELSE << OnTheWay(c) >>
      /\ answer[c] = client[c].answer
      /\ c \in left <=> Gone(c)
  BY DEF call, result, answer, left
<1> QED  BY <1>1, <1>2 DEF CallOf, ResultOf, Shows

LEMMA ViewsNext == ShowsAll'
BY Views, PTL

LEMMA OneViews ==
  ASSUME IInv, NEW c \in Clients, NEW cl, NEW th, NEW ts, NEW tc,
         Becomes(c, cl, th, ts, tc)
  PROVE  /\ call' = [call EXCEPT ![c] = CallOf(cl, th, ts)]
         /\ result' = [result EXCEPT ![c] = ResultOf(cl, th, ts, tc)]
         /\ answer' = [answer EXCEPT ![c] = cl.answer]
         /\ left' = IF cl.pc = "gone" THEN left \cup {c} ELSE left \ {c}
<1>1. \A d \in Clients :
        /\ client'[d] = IF d = c THEN cl ELSE client[d]
        /\ thread'[d] = IF d = c THEN th ELSE thread[d]
        /\ to_server'[d] = IF d = c THEN ts ELSE to_server[d]
        /\ to_client'[d] = IF d = c THEN tc ELSE to_client[d]
  BY DEF Becomes, IInv, TypeOK
<1>2. \A d \in Clients :
        /\ call'[d] = CallOf(client'[d], thread'[d], to_server'[d])
        /\ result'[d] = ResultOf(client'[d], thread'[d], to_server'[d], to_client'[d])
        /\ answer'[d] = client'[d].answer
        /\ d \in left' <=> client'[d].pc = "gone"
  BY ViewsNext DEF ShowsAll, Shows
<1>3. \A d \in Clients :
        /\ call[d] = CallOf(client[d], thread[d], to_server[d])
        /\ result[d] = ResultOf(client[d], thread[d], to_server[d], to_client[d])
        /\ answer[d] = client[d].answer
        /\ d \in left <=> client[d].pc = "gone"
  BY Views DEF ShowsAll, Shows
<1>4. /\ call = [d \in Clients |-> call[d]] /\ call' = [d \in Clients |-> call'[d]]
      /\ result = [d \in Clients |-> result[d]] /\ result' = [d \in Clients |-> result'[d]]
      /\ answer = [d \in Clients |-> answer[d]] /\ answer' = [d \in Clients |-> answer'[d]]
      /\ left \subseteq Clients /\ left' \subseteq Clients
  BY DEF call, result, answer, left
<1>5. call' = [call EXCEPT ![c] = CallOf(cl, th, ts)]
  <2>1. \A d \in Clients : call'[d] = IF d = c THEN CallOf(cl, th, ts) ELSE call[d]
    BY <1>1, <1>2, <1>3
  <2> QED  BY <1>4, <2>1
<1>6. result' = [result EXCEPT ![c] = ResultOf(cl, th, ts, tc)]
  <2>1. \A d \in Clients : result'[d] = IF d = c THEN ResultOf(cl, th, ts, tc) ELSE result[d]
    BY <1>1, <1>2, <1>3
  <2> QED  BY <1>4, <2>1
<1>7. answer' = [answer EXCEPT ![c] = cl.answer]
  <2>1. \A d \in Clients : answer'[d] = IF d = c THEN cl.answer ELSE answer[d]
    BY <1>1, <1>2, <1>3
  <2> QED  BY <1>4, <2>1
<1>8. left' = IF cl.pc = "gone" THEN left \cup {c} ELSE left \ {c}
  <2>1. \A d \in Clients : d \in left' <=> IF d = c THEN cl.pc = "gone" ELSE d \in left
    BY <1>1, <1>2, <1>3
  <2> QED  BY <1>4, <2>1
<1> QED  BY <1>5, <1>6, <1>7, <1>8

(* A step of which a SerialService shows nothing, but perhaps that the     *)
(* server is gone.                                                         *)
LEMMA OneHidden ==
  ASSUME IInv, NEW c \in Clients, NEW cl, NEW th, NEW ts, NEW tc,
         Becomes(c, cl, th, ts, tc),
         CallOf(cl, th, ts) = CallOf(client[c], thread[c], to_server[c]),
         ResultOf(cl, th, ts, tc)
           = ResultOf(client[c], thread[c], to_server[c], to_client[c]),
         cl.answer = client[c].answer,
         cl.pc = "gone" <=> client[c].pc = "gone",
         store' = store, Running' => Running
  PROVE  [Service!Next]_(Service!vars)
<1>1. /\ call' = [call EXCEPT ![c] = call[c]] /\ result' = [result EXCEPT ![c] = result[c]]
      /\ answer' = [answer EXCEPT ![c] = answer[c]]
      /\ left' = IF c \in left THEN left \cup {c} ELSE left \ {c}
  BY OneViews, Views DEF ShowsAll, Shows
<1>2. /\ call = [d \in Clients |-> call[d]] /\ result = [d \in Clients |-> result[d]]
      /\ answer = [d \in Clients |-> answer[d]]
  BY DEF call, result, answer
<1>3. call' = call /\ result' = result /\ answer' = answer /\ left' = left
  BY <1>1, <1>2
<1>4. CASE up' = up  BY <1>3, <1>4 DEF Service!vars
<1>5. CASE up' # up
  <2>1. up /\ up' = FALSE  BY <1>5 DEF up, Running
  <2> QED  BY <1>3, <2>1 DEF Service!Next, Service!Stop
<1> QED  BY <1>4, <1>5

LEMMA NothingShown ==
  ASSUME UNCHANGED <<client, thread, to_server, to_client, store>>, Running' => Running
  PROVE  [Service!Next]_(Service!vars)
<1>1. call' = call /\ result' = result /\ answer' = answer /\ left' = left
  BY DEF call, result, answer, left, Asking, Gone, Pending, OnTheWay
<1>2. CASE up' = up  BY <1>1, <1>2 DEF Service!vars
<1>3. CASE up' # up
  <2>1. up /\ up' = FALSE  BY <1>3 DEF up, Running
  <2> QED  BY <1>1, <2>1 DEF Service!Next, Service!Stop
<1> QED  BY <1>2, <1>3

LEMMA OneCarries ==
  ASSUME CInv, NEW c \in Clients, NEW cl, NEW th, NEW ts, NEW tc,
         Becomes(c, cl, th, ts, tc), Carries(cl, th, ts),
         store' = store, Running' => Running,
         Running /\ th.pc = "execute_writes" => th.data = store
  PROVE  Carried' /\ Fresh'
<1>1. \A d \in Clients :
        /\ client'[d] = IF d = c THEN cl ELSE client[d]
        /\ thread'[d] = IF d = c THEN th ELSE thread[d]
        /\ to_server'[d] = IF d = c THEN ts ELSE to_server[d]
  BY DEF Becomes, CInv, IInv, TypeOK
<1>2. Carried'
  <2> SUFFICES ASSUME NEW d \in Clients
               PROVE  Carries(client'[d], thread'[d], to_server'[d])
    BY DEF Carried
  <2> QED  BY <1>1 DEF CInv, Carried
<1>3. Fresh'  BY <1>1 DEF CInv, Fresh
<1> QED  BY <1>2, <1>3

-----------------------------------------------------------------------------
(* Every step keeps what is carried, and is a step of a SerialService or   *)
(* one it does not show.                                                   *)

Implemented == Carried' /\ Fresh' /\ [Service!Next]_(Service!vars)

LEMMA ConnectStep == ASSUME CInv, NEW c \in Clients, connect(c)  PROVE Implemented
<1> DEFINE cl == [client[c] EXCEPT !.pc = "ready"]
<1>1. /\ client[c] \in client_type /\ IInv /\ Carries(client[c], thread[c], to_server[c])
      /\ Running /\ thread[c].pc = "execute_writes" => thread[c].data = store
  BY Unfold DEF CInv, Carried, Fresh
<1>2. client[c].pc = "offline" /\ client[c].request = << >>
  BY <1>1 DEF connect, Carries
<1>3. Becomes(c, cl, thread[c], to_server[c], to_client[c])
  BY DEF connect, Becomes, CInv, IInv, TypeOK
<1>4. /\ cl.pc = "ready" /\ cl.request = << >> /\ cl.unsent = client[c].unsent
      /\ cl.answer = client[c].answer
  BY <1>1, <1>2 DEF client_type
<1> HIDE DEF cl
<1>5. Carries(cl, thread[c], to_server[c])  BY <1>1, <1>2, <1>4 DEF Carries
<1>6. Carried' /\ Fresh'  BY <1>1, <1>3, <1>5, OneCarries DEF connect, Running
<1>7. /\ CallOf(cl, thread[c], to_server[c]) = CallOf(client[c], thread[c], to_server[c])
      /\ ResultOf(cl, thread[c], to_server[c], to_client[c])
           = ResultOf(client[c], thread[c], to_server[c], to_client[c])
  BY <1>2, <1>4 DEF CallOf, ResultOf
<1>8. [Service!Next]_(Service!vars)
  BY <1>1, <1>2, <1>3, <1>4, <1>7, OneHidden DEF connect, Running
<1> QED  BY <1>6, <1>8 DEF Implemented

LEMMA SendHeaderStep == ASSUME CInv, NEW c \in Clients, send_header(c)  PROVE Implemented
<1>1. PICK q \in Requests :
        /\ client' = [client EXCEPT ![c].pc = "send_message", ![c].request = q, ![c].unsent = q]
        /\ to_server' = [to_server EXCEPT ![c] = Append(@, Header(Len(q)))]
  BY Zenon DEF send_header
<1> DEFINE cl == [client[c] EXCEPT !.pc = "send_message", !.request = q, !.unsent = q]
           header == Header(Len(q))
           ts == << header >>
<1>2. /\ client[c] \in client_type /\ IInv /\ Carries(client[c], thread[c], to_server[c])
      /\ ResponseFrame(client[c], thread[c], to_server[c], to_client[c])
      /\ Running /\ thread[c].pc = "execute_writes" => thread[c].data = store
  BY Unfold DEF CInv, Carried, Fresh
<1>3. /\ client[c].pc = "ready" /\ client[c].request = << >> /\ to_server[c] = << >>
      /\ thread[c].pc \in {"none", "recv"}
  BY <1>2 DEF send_header, ResponseFrame, Carries
<1>4. q \in Seq(Bytes) /\ q # << >>  BY ServerAssumption
<1>5. Becomes(c, cl, thread[c], ts, to_client[c])
  <2>1. Append(to_server[c], Header(Len(q))) = ts  BY <1>3
  <2> QED  BY <1>1, <2>1 DEF send_header, Becomes, CInv, IInv, TypeOK
<1>6. /\ cl.pc = "send_message" /\ cl.request = q /\ cl.unsent = q
      /\ cl.answer = client[c].answer
  BY <1>2 DEF client_type
<1>7. ts # << >> /\ BytesOf(Tail(ts)) \o q = q
  <2> HIDE DEF header
  <2>1. ts # << >> /\ Tail(ts) = << >>  OBVIOUS
  <2>2. << >> \o q = q  BY <1>4, ConcatEmptySeq
  <2> QED  BY <2>1, <2>2, BytesOfNothing
<1> HIDE DEF cl, ts
<1>8. Carries(cl, thread[c], ts)  BY <1>3, <1>4, <1>6, <1>7 DEF Carries
<1>9. Carried' /\ Fresh'  BY <1>2, <1>5, <1>8, OneCarries DEF send_header, Running
<1>10. CallOf(cl, thread[c], ts) = q /\ ResultOf(cl, thread[c], ts, to_client[c]) = << >>
  BY <1>3, <1>4, <1>6, <1>7 DEF CallOf, ResultOf, PendingOf
<1>11. call[c] = << >> /\ result[c] = << >> /\ c \notin left
  BY <1>3, Views DEF ShowsAll, Shows, CallOf, ResultOf
<1>12. /\ call' = [call EXCEPT ![c] = q] /\ result' = [result EXCEPT ![c] = << >>]
       /\ answer' = [answer EXCEPT ![c] = client[c].answer] /\ left' = left \ {c}
  BY <1>2, <1>5, <1>6, <1>10, OneViews
<1>13. result' = result /\ answer' = answer /\ left' = left
  BY <1>11, <1>12 DEF result, answer
<1>14. Service!Ask(c)
  BY <1>11, <1>12, <1>13 DEF Service!Ask, Service!None, send_header, up, Running
<1> QED  BY <1>9, <1>14 DEF Implemented, Service!Next

LEMMA SendPacketStep == ASSUME CInv, NEW c \in Clients, send_packet(c)  PROVE Implemented
<1> DEFINE unsent == client[c].unsent
           data == Packet(unsent)
           rest == After(unsent, Len(data))
           cl == [client[c] EXCEPT !.unsent = rest,
                                   !.pc = IF rest = << >> THEN "recv" ELSE "send_message"]
           body == Body(data)
           stream == to_server[c]
           ts == stream \o body
<1>1. Becomes(c, cl, thread[c], ts, to_client[c])
  BY DEF send_packet, Becomes, CInv, IInv, TypeOK
<1>2. /\ client[c] \in client_type /\ thread[c] \in thread_type /\ stream \in Seq(Unit) /\ IInv
      /\ Carries(client[c], thread[c], stream) /\ RequestFrame(client[c], thread[c], stream)
      /\ ResponseFrame(client[c], thread[c], stream, to_client[c])
      /\ Running /\ thread[c].pc = "execute_writes" => thread[c].data = store
  BY Unfold DEF CInv, Carried, Fresh
<1>3. /\ client[c].pc = "send_message" /\ client[c].request # << >>
      /\ unsent \in Seq(Bytes) /\ unsent # << >>
      /\ \/ thread[c].pc \in {"none", "recv"} /\ stream # << >>
         \/ thread[c].pc = "receive_message"
  BY <1>2 DEF send_packet, client_type, ResponseFrame, Carries
<1>4. data \in Seq(Bytes) /\ Len(data) \in 0 .. Len(unsent) /\ Len(data) > 0
  BY <1>3, PacketType
<1>5. rest \in Seq(Bytes) /\ data \o rest = unsent
  BY <1>3, <1>4, AfterType, PacketJoin
<1>6. body \in Seq(Unit) /\ Len(body) = Len(data) /\ BodyFrom(body, 1) /\ BytesOf(body) = data
  BY <1>4, BodyType, BytesOfBody
<1> HIDE DEF data, rest, body, stream
<1>7. ts # << >>
  <2>1. ts \in Seq(Unit) /\ Len(ts) = Len(stream) + Len(body)  BY <1>2, <1>6, JoinType
  <2>2. Len(stream) \in Nat /\ Len(body) \in Nat /\ Len(body) > 0  BY <1>2, <1>4, <1>6, LenType
  <2> HIDE DEF ts
  <2> QED  BY <2>1, <2>2, LenType
<1>8. /\ cl.pc \in {"recv", "send_message"} /\ cl.request = client[c].request
      /\ cl.unsent = rest /\ cl.answer = client[c].answer
  BY <1>2 DEF client_type
<1> HIDE DEF cl
<1>9. \A s \in Seq(Unit) : BodyFrom(s, 1) => BytesOf(s \o body) \o rest = BytesOf(s) \o unsent
  <2> SUFFICES ASSUME NEW s \in Seq(Unit), BodyFrom(s, 1)
               PROVE  BytesOf(s \o body) \o rest = BytesOf(s) \o unsent
    OBVIOUS
  <2>1. BytesOf(s) \in Seq(Bytes)  BY BytesOfType
  <2>2. BytesOf(s \o body) = BytesOf(s) \o data  BY <1>6, BytesOfJoin
  <2>3. (BytesOf(s) \o data) \o rest = BytesOf(s) \o (data \o rest)
    BY <1>4, <1>5, <2>1, JoinTwice, Zenon
  <2> QED  BY <1>5, <2>2, <2>3
<1>10. Carries(cl, thread[c], ts)
  <2>1. CASE thread[c].pc \in {"none", "recv"} /\ stream # << >>
    <3>1. Announces(stream, unsent)  BY <1>2, <2>1 DEF RequestFrame
    <3>2. Tail(stream) \in Seq(Unit) /\ BodyFrom(Tail(stream), 1)  BY <1>2, <3>1, HeaderCut
    <3>3. Tail(ts) = Tail(stream) \o body  BY <1>2, <1>6, <2>1, TailJoin
    <3>4. client[c].request = BytesOf(Tail(stream)) \o unsent  BY <1>2, <2>1 DEF Carries
    <3>5. client[c].request = BytesOf(Tail(ts)) \o rest  BY <1>9, <3>2, <3>3, <3>4
    <3> QED  BY <1>3, <1>7, <1>8, <2>1, <3>5 DEF Carries
  <2>2. CASE thread[c].pc = "receive_message"
    <3>1. BodyFrom(stream, 1)  BY <1>2, <2>2 DEF RequestFrame
    <3>2. /\ thread[c].request_xml \in Seq(Bytes) /\ BytesOf(stream) \in Seq(Bytes)
          /\ BytesOf(ts) \in Seq(Bytes)
      <4>1. ts \in Seq(Unit) /\ BodyFrom(ts, 1)
        <5>1. Len(stream) \in Nat  BY <1>2, LenType
        <5>2. BodyFrom(ts, 1)  BY <1>2, <1>6, <3>1, <5>1, BodyJoin
        <5> QED  BY <1>2, <1>6, <5>2, JoinType
      <4> HIDE DEF ts
      <4> QED  BY <1>2, <3>1, <4>1, BytesOfType DEF thread_type
    <3>3. client[c].request = thread[c].request_xml \o BytesOf(stream) \o unsent
      BY <1>2, <2>2 DEF Carries
    <3>4. BytesOf(ts) \o rest = BytesOf(stream) \o unsent  BY <1>2, <1>9, <3>1
    <3> HIDE DEF ts, unsent
    <3>5. client[c].request = thread[c].request_xml \o BytesOf(ts) \o rest
      <4>1. client[c].request = thread[c].request_xml \o (BytesOf(stream) \o unsent)
        BY <1>3, <3>2, <3>3, JoinTwice, Zenon
      <4>2. thread[c].request_xml \o (BytesOf(ts) \o rest)
              = thread[c].request_xml \o BytesOf(ts) \o rest
        BY <1>5, <3>2, JoinTwice, Zenon
      <4> QED  BY <3>4, <4>1, <4>2, Zenon
    <3> QED  BY <1>3, <1>8, <2>2, <3>5 DEF Carries
  <2> QED  BY <1>3, <2>1, <2>2
<1> HIDE DEF ts
<1>11. Carried' /\ Fresh'  BY <1>1, <1>2, <1>10, OneCarries DEF send_packet, Running
<1>12. /\ CallOf(cl, thread[c], ts) = CallOf(client[c], thread[c], stream)
       /\ ResultOf(cl, thread[c], ts, to_client[c])
            = ResultOf(client[c], thread[c], stream, to_client[c])
  BY <1>3, <1>7, <1>8 DEF CallOf, ResultOf, PendingOf
<1>13. [Service!Next]_(Service!vars)
  BY <1>1, <1>2, <1>3, <1>8, <1>12, OneHidden DEF send_packet, Running, stream
<1> QED  BY <1>11, <1>13 DEF Implemented

(* A response on its way, with its header still in the stream and without. *)
LEMMA WayAnnounced ==
  ASSUME NEW cl, NEW th, NEW tc \in Seq(Unit), NEW rest, Announces(tc, rest)
  PROVE  OnTheWayOf(cl, th, tc) = cl.response \o BytesOf(Tail(tc)) \o th.response_xml
BY HeaderCut DEF OnTheWayOf

LEMMA WayOfBody ==
  ASSUME NEW cl, NEW th, NEW tc \in Seq(Unit), BodyFrom(tc, 1)
  PROVE  OnTheWayOf(cl, th, tc) = cl.response \o BytesOf(tc) \o th.response_xml
<1>1. CASE tc = << >>  BY <1>1 DEF OnTheWayOf, Announced
<1>2. CASE tc # << >>
  <2>1. Len(tc) \in Nat /\ Len(tc) > 0 /\ Head(tc) = tc[1]  BY <1>2
  <2>2. Head(tc) \in {"body"} \X Bytes  BY <2>1 DEF BodyFrom
  <2>3. Head(tc)[1] = "body"  BY <2>2
  <2>4. Head(tc) # ErrorText /\ ~ Announced(tc)  BY <2>3 DEF ErrorText, Announced
  <2> QED  BY <2>4 DEF OnTheWayOf
<1> QED  BY <1>1, <1>2

(* A client takes the answer that was on its way.                          *)
LEMMA Takes ==
  ASSUME CInv, NEW c \in Clients, NEW cl, NEW tc,
         Becomes(c, cl, thread[c], to_server[c], tc),
         client[c].pc \in {"recv", "receive_message"},
         to_server[c] = << >>, thread[c].pc = "recv",
         OnTheWayOf(client[c], thread[c], to_client[c]) = cl.answer, cl.answer # << >>,
         cl.pc = "ready", cl.request = << >>,
         store' = store, process' = process
  PROVE  Implemented
<1>1. /\ IInv /\ Carries(client[c], thread[c], to_server[c])
  BY DEF CInv, Carried
<1>2. client[c].request # << >>  BY <1>1 DEF Carries
<1>3. Carries(cl, thread[c], to_server[c])  BY <1>1 DEF Carries
<1>4. Carried' /\ Fresh'  BY <1>3, OneCarries DEF Running
<1>5. result[c] = << cl.answer >> /\ c \notin left
  BY <1>2, Views DEF ShowsAll, Shows, ResultOf, PendingOf
<1>6. /\ call' = [call EXCEPT ![c] = << >>] /\ result' = [result EXCEPT ![c] = << >>]
      /\ answer' = [answer EXCEPT ![c] = cl.answer] /\ left' = left \ {c}
  BY <1>1, OneViews DEF CallOf, ResultOf
<1>7. Service!Take(c)
  <2>1. result[c] # << >> /\ result[c][1] = cl.answer  BY <1>5
  <2> QED  BY <1>5, <1>6, <2>1 DEF Service!Take, Service!None, up, Running
<1> QED  BY <1>4, <1>7 DEF Implemented, Service!Next

LEMMA ClientHeaderStep == ASSUME CInv, NEW c \in Clients, client_header(c)  PROVE Implemented
<1> DEFINE stream == to_client[c]
           content_length == strtol(Head(stream))
           cl == IF content_length > 0
                 THEN [client[c] EXCEPT !.pc = "receive_message", !.remain = content_length]
                 ELSE Ready(client[c], << >>)
           tc == Tail(stream)
<1>1. Becomes(c, cl, thread[c], to_server[c], tc)
  BY DEF client_header, Becomes, CInv, IInv, TypeOK
<1>2. /\ client[c] \in client_type /\ thread[c] \in thread_type
      /\ stream \in Seq(Unit) /\ IInv
      /\ ResponseFrame(client[c], thread[c], to_server[c], stream)
      /\ Carries(client[c], thread[c], to_server[c])
      /\ Running /\ thread[c].pc = "execute_writes" => thread[c].data = store
  BY Unfold DEF CInv, Carried, Fresh
<1>3. /\ client[c].pc = "recv" /\ stream # << >> /\ to_server[c] = << >>
      /\ client[c].request # << >>
      /\ thread[c].pc \in {"recv", "send_message"}
      /\ \/ stream = << ErrorText >> /\ thread[c].pc = "recv"
         \/ Announces(stream, thread[c].response_xml)
  BY <1>2 DEF client_header, ResponseFrame, Carries
<1> HIDE DEF stream, tc
<1>4. CASE Announces(stream, thread[c].response_xml)
  <2>1. content_length > 0
    <3>1. Head(stream) = stream[1]  BY <1>2, <1>3
    <3> QED  BY <1>4, <3>1 DEF Announces, strtol, Header
  <2>2. tc \in Seq(Unit) /\ BodyFrom(tc, 1)  BY <1>2, <1>4, HeaderCut DEF tc
  <2> HIDE DEF content_length
  <2>3. /\ cl.pc = "receive_message" /\ cl.request = client[c].request
        /\ cl.unsent = client[c].unsent /\ cl.response = client[c].response
        /\ cl.answer = client[c].answer
    BY <1>2, <2>1 DEF client_type
  <2> HIDE DEF cl
  <2>4. Carries(cl, thread[c], to_server[c])  BY <1>2, <1>3, <2>3 DEF Carries
  <2>5. Carried' /\ Fresh'  BY <1>1, <1>2, <2>4, OneCarries DEF client_header, Running
  <2>6. OnTheWayOf(cl, thread[c], tc) = OnTheWayOf(client[c], thread[c], stream)
    <3>1. OnTheWayOf(client[c], thread[c], stream)
            = client[c].response \o BytesOf(tc) \o thread[c].response_xml
      BY <1>2, <1>4, WayAnnounced DEF tc
    <3>2. OnTheWayOf(cl, thread[c], tc)
            = cl.response \o BytesOf(tc) \o thread[c].response_xml
      BY <2>2, WayOfBody
    <3> QED  BY <2>3, <3>1, <3>2
  <2>7. /\ CallOf(cl, thread[c], to_server[c]) = CallOf(client[c], thread[c], to_server[c])
        /\ ResultOf(cl, thread[c], to_server[c], tc)
             = ResultOf(client[c], thread[c], to_server[c], stream)
    BY <1>3, <2>3, <2>6 DEF CallOf, ResultOf
  <2>8. [Service!Next]_(Service!vars)
    BY <1>1, <1>2, <1>3, <2>3, <2>7, OneHidden DEF client_header, Running, stream
  <2> QED  BY <2>5, <2>8 DEF Implemented
<1>5. CASE stream = << ErrorText >> /\ thread[c].pc = "recv"
  <2>1. Head(stream) = ErrorText /\ content_length = 0
    BY <1>5 DEF strtol, ErrorText
  <2> HIDE DEF content_length
  <2>2. cl.pc = "ready" /\ cl.request = << >> /\ cl.answer = << BadRequest >>
    BY <1>2, <2>1 DEF client_type, Ready, Shown
  <2> HIDE DEF cl
  <2>3. OnTheWayOf(client[c], thread[c], stream) = << BadRequest >>
    BY <1>3, <2>1 DEF OnTheWayOf
  <2>4. cl.answer # << >> /\ OnTheWayOf(client[c], thread[c], to_client[c]) = cl.answer
    BY <2>2, <2>3 DEF stream
  <2>5. store' = store /\ process' = process  BY DEF client_header
  <2> QED  BY <1>1, <1>3, <1>5, <2>2, <2>4, <2>5, Takes
<1> QED  BY <1>3, <1>4, <1>5

LEMMA ClientReceiveStep == ASSUME CInv, NEW c \in Clients, client_receive(c)  PROVE Implemented
<1> DEFINE stream == to_client[c]
<1>1. PICK len \in 1 .. Lesser(BUFSIZ, Len(stream)) :
        LET response == client[c].response \o BytesOf(SubSeq(stream, 1, len))
            remain == client[c].remain - len
        IN /\ client' = [client EXCEPT ![c] =
                IF remain > 0 THEN [@ EXCEPT !.response = response, !.remain = remain]
                ELSE [Ready(@, response) EXCEPT !.remain = 0]]
           /\ to_client' = [to_client EXCEPT ![c] = After(@, len)]
  BY Zenon DEF client_receive
<1> DEFINE first == SubSeq(stream, 1, len)
           part == BytesOf(first)
           response == client[c].response \o part
           remain == client[c].remain - len
           cl == IF remain > 0
                 THEN [client[c] EXCEPT !.response = response, !.remain = remain]
                 ELSE [Ready(client[c], response) EXCEPT !.remain = 0]
           tc == After(stream, len)
           response_xml == thread[c].response_xml
<1>2. Becomes(c, cl, thread[c], to_server[c], tc)
  BY <1>1 DEF client_receive, Becomes, CInv, IInv, TypeOK
<1>3. /\ client[c] \in client_type /\ thread[c] \in thread_type
      /\ stream \in Seq(Unit) /\ IInv
      /\ RequestFrame(client[c], thread[c], to_server[c])
      /\ ResponseFrame(client[c], thread[c], to_server[c], stream)
      /\ Carries(client[c], thread[c], to_server[c])
      /\ Running /\ thread[c].pc = "execute_writes" => thread[c].data = store
  BY Unfold DEF CInv, Carried, Fresh
<1>4. /\ client[c].pc = "receive_message" /\ to_server[c] = << >>
      /\ client[c].request # << >> /\ thread[c].pc \in {"recv", "send_message"}
      /\ client[c].remain = Len(stream) + Len(response_xml) /\ BodyFrom(stream, 1)
      /\ client[c].response \in Seq(Bytes) /\ response_xml \in Seq(Bytes)
      /\ thread[c].pc = "send_message" => response_xml # << >>
  BY <1>3 DEF client_receive, ResponseFrame, RequestFrame, Carries, client_type, thread_type
<1>5. Len(stream) \in Nat /\ Len(response_xml) \in Nat  BY <1>3, <1>4, LenType
<1>6. len \in 1 .. Len(stream)  BY <1>5, RecvLength
<1> HIDE DEF stream
<1>7. /\ first \in Seq(Unit) /\ tc \in Seq(Unit) /\ Len(tc) = Len(stream) - len
      /\ Len(first) = len /\ first \o tc = stream
      /\ BodyFrom(first, 1) /\ BodyFrom(tc, 1)
  <2>1. len \in 0 .. Len(stream)  BY <1>5, <1>6
  <2> QED  BY <1>3, <1>4, <2>1, PartType, AfterType, CutJoin, BodyCut
<1> HIDE DEF first, tc
<1>8. /\ part \in Seq(Bytes) /\ Len(part) = len
      /\ BytesOf(tc) \in Seq(Bytes) /\ part \o BytesOf(tc) = BytesOf(stream)
  BY <1>7, BytesOfType, BytesOfJoin
<1> HIDE DEF part
<1>9. /\ response \in Seq(Bytes) /\ Len(response) = Len(client[c].response) + len
      /\ response \o BytesOf(tc) = client[c].response \o BytesOf(stream)
  <2>1. client[c].response \in Seq(Bytes)  BY <1>4
  <2>2. response \in Seq(Bytes) /\ Len(response) = Len(client[c].response) + len
    BY <1>8, <2>1, JoinType
  <2>3. response \o BytesOf(tc) = client[c].response \o (part \o BytesOf(tc))
    BY <1>8, <2>1, JoinTwice, Zenon
  <2> QED  BY <1>8, <2>2, <2>3, Zenon
<1>10. OnTheWayOf(client[c], thread[c], stream) = response \o BytesOf(tc) \o response_xml
  <2> HIDE DEF response
  <2> QED  BY <1>3, <1>4, <1>9, WayOfBody
<1> HIDE DEF response
<1>11. CASE remain > 0
  <2> HIDE DEF remain
  <2>1. /\ cl.pc = "receive_message" /\ cl.request = client[c].request
        /\ cl.unsent = client[c].unsent /\ cl.response = response
        /\ cl.answer = client[c].answer
    BY <1>3, <1>4, <1>11 DEF client_type
  <2> HIDE DEF cl
  <2>2. Carries(cl, thread[c], to_server[c])  BY <1>3, <1>4, <2>1 DEF Carries
  <2>3. Carried' /\ Fresh'  BY <1>2, <1>3, <2>2, OneCarries DEF client_receive, Running
  <2>4. OnTheWayOf(cl, thread[c], tc) = OnTheWayOf(client[c], thread[c], stream)
    BY <1>7, <1>10, <2>1, WayOfBody
  <2>5. /\ CallOf(cl, thread[c], to_server[c]) = CallOf(client[c], thread[c], to_server[c])
        /\ ResultOf(cl, thread[c], to_server[c], tc)
             = ResultOf(client[c], thread[c], to_server[c], stream)
    BY <1>4, <2>1, <2>4 DEF CallOf, ResultOf
  <2>6. [Service!Next]_(Service!vars)
    BY <1>2, <1>3, <1>4, <2>1, <2>5, OneHidden DEF client_receive, Running, stream
  <2> QED  BY <2>3, <2>6 DEF Implemented
<1>12. CASE ~ (remain > 0)
  <2>1. Len(tc) = 0 /\ Len(response_xml) = 0  BY <1>4, <1>5, <1>6, <1>7, <1>12
  <2>2. tc = << >> /\ response_xml = << >>  BY <1>4, <1>7, <2>1, LenType
  <2>3. response # << >>
    <3>1. Len(client[c].response) \in Nat  BY <1>4, LenType
    <3>2. Len(response) > 0  BY <1>5, <1>6, <1>9, <3>1
    <3> QED  BY <1>9, <3>2, LenType
  <2> HIDE DEF remain
  <2>4. cl.pc = "ready" /\ cl.request = << >> /\ cl.answer = response
    BY <1>3, <1>12, <2>3 DEF client_type, Ready, Shown
  <2>5. OnTheWayOf(client[c], thread[c], stream) = response
    BY <1>9, <1>10, <2>2, BytesOfNothing, ConcatEmptySeq
  <2> HIDE DEF cl
  <2>6. thread[c].pc = "recv"  BY <1>4, <2>2
  <2> QED  BY <1>2, <1>4, <2>3, <2>4, <2>5, <2>6, Takes DEF client_receive, stream
<1> QED  BY <1>11, <1>12

LEMMA LeaveStep == ASSUME CInv, NEW c \in Clients, leave(c)  PROVE Implemented
<1>1. /\ client[c] \in client_type /\ thread[c] \in thread_type /\ IInv
      /\ Carries(client[c], thread[c], to_server[c])
      /\ Running /\ thread[c].pc = "execute_writes" => thread[c].data = store
  BY Unfold DEF CInv, Carried, Fresh
<1>2. /\ client[c].pc \notin {"offline", "gone"} /\ UNCHANGED <<thread, to_server, store, process>>
      /\ to_client' = [to_client EXCEPT ![c] = << >>]
  BY DEF leave
<1>3. PICK last \in {client[c].answer, << BadRequest >>} :
        /\ client' = [client EXCEPT ![c].pc = "gone", ![c].answer = last]
        /\ \/ last = client[c].answer
           \/ process = "down" /\ client[c].pc = "recv" /\ last = << BadRequest >>
  <2>1. \/ client' = [client EXCEPT ![c].pc = "gone"]
        \/ /\ client' = [client EXCEPT ![c].pc = "gone", ![c].answer = << BadRequest >>]
           /\ process = "down" /\ client[c].pc = "recv"
    BY DEF leave
  <2>2. [client EXCEPT ![c].pc = "gone"]
          = [client EXCEPT ![c].pc = "gone", ![c].answer = client[c].answer]
    BY <1>1 DEF IInv, TypeOK, client_type
  <2> QED  BY <2>1, <2>2
<1> DEFINE cl == [client[c] EXCEPT !.pc = "gone", !.answer = last]
<1>4. Becomes(c, cl, thread[c], to_server[c], << >>)
  BY <1>2, <1>3 DEF Becomes, CInv, IInv, TypeOK
<1>5. /\ cl.pc = "gone" /\ cl.request = client[c].request /\ cl.unsent = client[c].unsent
      /\ cl.answer = last
  BY <1>1 DEF client_type
<1> HIDE DEF cl
<1>6. Carries(cl, thread[c], to_server[c])  BY <1>1, <1>5 DEF Carries
<1>7. Carried' /\ Fresh'  BY <1>1, <1>2, <1>4, <1>6, OneCarries DEF Running
<1>8. /\ c \notin left /\ answer[c] = client[c].answer
      /\ CallOf(cl, thread[c], to_server[c])
           = IF result[c] = << >> THEN call[c] ELSE << >>
      /\ ResultOf(cl, thread[c], to_server[c], << >>) = << >>
      /\ client[c].pc = "recv" => call[c] # << >>
  <2> DEFINE pending == PendingOf(thread[c], to_server[c])
             way == OnTheWayOf(client[c], thread[c], to_client[c])
  <2>1. /\ c \notin left /\ answer[c] = client[c].answer
        /\ call[c] = client[c].request
        /\ result[c] = IF client[c].request = << >> \/ pending THEN << >> ELSE << way >>
    BY <1>2, Views DEF ShowsAll, Shows, CallOf, ResultOf
  <2>2. /\ CallOf(cl, thread[c], to_server[c]) = IF pending THEN client[c].request ELSE << >>
        /\ ResultOf(cl, thread[c], to_server[c], << >>) = << >>
    BY <1>5 DEF CallOf, ResultOf
  <2> HIDE DEF pending, way
  <2>3. result[c] = << >> <=> client[c].request = << >> \/ pending  BY <2>1
  <2>4. client[c].pc = "recv" => client[c].request # << >>  BY <1>1 DEF Carries
  <2> QED  BY <2>1, <2>2, <2>3, <2>4
<1>9. /\ call' = [call EXCEPT ![c] = IF result[c] = << >> THEN call[c] ELSE << >>]
      /\ result' = [result EXCEPT ![c] = << >>]
      /\ answer' = [answer EXCEPT ![c] = last] /\ left' = left \cup {c}
  BY <1>1, <1>4, <1>5, <1>8, OneViews
<1>10. call' = IF result[c] = << >> THEN call ELSE [call EXCEPT ![c] = << >>]
  BY <1>9 DEF call
<1>11. \/ answer' = answer
       \/ ~ up /\ call[c] # << >> /\ answer' = [answer EXCEPT ![c] = << BadRequest >>]
  <2>1. CASE last = client[c].answer  BY <1>8, <1>9, <2>1 DEF answer
  <2>2. CASE process = "down" /\ client[c].pc = "recv" /\ last = << BadRequest >>
    BY <1>8, <1>9, <2>2 DEF up, Running
  <2> QED  BY <1>3, <2>1, <2>2
<1>12. Service!Leave(c)
  BY <1>2, <1>8, <1>9, <1>10, <1>11 DEF Service!Leave, Service!None, up, Running
<1> QED  BY <1>7, <1>12 DEF Implemented, Service!Next

(* What a thread does that no client can see yet.                          *)
LEMMA ThreadHidden ==
  ASSUME CInv, NEW c \in Clients, NEW th, NEW ts,
         Becomes(c, client[c], th, ts, to_client[c]), Carries(client[c], th, ts),
         client[c].request # << >> =>
           (PendingOf(th, ts) <=> PendingOf(thread[c], to_server[c])),
         \/ client[c].pc = "gone" \/ PendingOf(th, ts)
         \/ th.response_xml = thread[c].response_xml,
         th.pc = "execute_writes" => th.data = store,
         store' = store, Running' => Running
  PROVE  Implemented
<1>1. IInv  BY DEF CInv
<1>2. Carried' /\ Fresh'  BY OneCarries
<1>3. /\ CallOf(client[c], th, ts) = CallOf(client[c], thread[c], to_server[c])
      /\ ResultOf(client[c], th, ts, to_client[c])
           = ResultOf(client[c], thread[c], to_server[c], to_client[c])
  BY DEF CallOf, ResultOf, OnTheWayOf
<1>4. [Service!Next]_(Service!vars)  BY <1>1, <1>3, OneHidden
<1> QED  BY <1>2, <1>4 DEF Implemented

LEMMA AcceptStep == ASSUME CInv, NEW c \in Clients, accept(c)  PROVE Implemented
<1> DEFINE th == [thread[c] EXCEPT !.pc = "recv"]
<1>1. Becomes(c, client[c], th, to_server[c], to_client[c])
  BY DEF accept, Becomes, CInv, IInv, TypeOK
<1>2. /\ thread[c] \in thread_type /\ thread[c].pc = "none"
      /\ Carries(client[c], thread[c], to_server[c])
  BY Unfold DEF accept, CInv, Carried
<1>3. th.pc = "recv" /\ th.response_xml = thread[c].response_xml
  BY <1>2 DEF thread_type
<1> HIDE DEF th
<1>4. Carries(client[c], th, to_server[c])  BY <1>2, <1>3 DEF Carries
<1>5. client[c].request # << >> =>
        (PendingOf(th, to_server[c]) <=> PendingOf(thread[c], to_server[c]))
  BY <1>2, <1>3 DEF PendingOf, Carries
<1> QED  BY <1>1, <1>3, <1>4, <1>5, ThreadHidden DEF accept, Running

LEMMA ServerHeaderStep == ASSUME CInv, NEW c \in Clients, server_header(c)  PROVE Implemented
<1> DEFINE stream == to_server[c]
<1>1. /\ client[c] \in client_type /\ thread[c] \in thread_type /\ stream \in Seq(Unit)
      /\ RequestFrame(client[c], thread[c], stream) /\ Carries(client[c], thread[c], stream)
  BY Unfold DEF CInv, Carried
<1>2. thread[c].pc = "recv" /\ store' = store /\ process' = process  BY DEF server_header
<1>3. CASE stream # << >>
  <2> DEFINE content_length == strtol(Head(stream))
             ts == Tail(stream)
             th == [thread[c] EXCEPT
                      !.pc = IF content_length > 0 THEN "receive_message" ELSE "bad_request",
                      !.remain = content_length, !.request_xml = << >>]
  <2>1. Becomes(c, client[c], th, ts, to_client[c])
    BY <1>3 DEF server_header, Becomes, CInv, IInv, TypeOK
  <2>2. Announces(stream, client[c].unsent)  BY <1>1, <1>2, <1>3 DEF RequestFrame
  <2>3. content_length > 0
    <3>1. Head(stream) = stream[1]  BY <1>1, <1>3
    <3> HIDE DEF stream
    <3> QED  BY <2>2, <3>1 DEF Announces, strtol, Header
  <2> HIDE DEF content_length
  <2>4. th.pc = "receive_message" /\ th.request_xml = << >>
    BY <1>1, <2>3 DEF thread_type
  <2> HIDE DEF th
  <2>5. client[c].request = th.request_xml \o BytesOf(ts) \o client[c].unsent
    <3> HIDE DEF stream
    <3>1. ts \in Seq(Unit) /\ BodyFrom(ts, 1)  BY <1>1, <2>2, HeaderCut
    <3>2. client[c].request = BytesOf(ts) \o client[c].unsent
      BY <1>1, <1>2, <1>3 DEF Carries
    <3> HIDE DEF ts
    <3>3. BytesOf(ts) \in Seq(Bytes)  BY <3>1, BytesOfType
    <3>4. << >> \o BytesOf(ts) = BytesOf(ts)  BY <3>3, ConcatEmptySeq
    <3> QED  BY <2>4, <3>2, <3>4
  <2> HIDE DEF ts
  <2>6. Carries(client[c], th, ts)  BY <1>1, <2>4, <2>5 DEF Carries
  <2>7. PendingOf(th, ts) /\ PendingOf(thread[c], stream)
    BY <1>2, <1>3, <2>4 DEF PendingOf
  <2> QED  BY <1>2, <2>1, <2>4, <2>6, <2>7, ThreadHidden DEF Running
<1>4. CASE stream = << >>
  <2> DEFINE th == [thread[c] EXCEPT !.pc = "ended"]
  <2>1. Becomes(c, client[c], th, stream, to_client[c])
    BY <1>4 DEF server_header, Becomes, CInv, IInv, TypeOK
  <2>2. th.pc = "ended" /\ th.response_xml = thread[c].response_xml  BY <1>1 DEF thread_type
  <2> HIDE DEF th
  <2>3. Carries(client[c], th, stream)  BY <1>1, <2>2 DEF Carries
  <2>4. ~ PendingOf(th, stream) /\ ~ PendingOf(thread[c], stream)
    BY <1>2, <1>4, <2>2 DEF PendingOf
  <2> QED  BY <1>2, <2>1, <2>2, <2>3, <2>4, ThreadHidden DEF Running
<1> QED  BY <1>3, <1>4

LEMMA ServerReceiveStep ==
  ASSUME CInv, NEW c \in Clients, server_receive(c)
  PROVE  Implemented /\ (process' = "wild" => process = "wild" \/ Len(client[c].request) >= BUFSIZ)
<1> DEFINE stream == to_server[c]
<1>1. PICK len \in 1 .. Lesser(BUFSIZ, Len(stream)) :
        /\ thread' = [thread EXCEPT
             ![c].request_xml = @ \o BytesOf(SubSeq(stream, 1, len)),
             ![c].remain = @ - len,
             ![c].pc = IF thread[c].remain > len THEN "receive_message" ELSE "parse"]
        /\ to_server' = [to_server EXCEPT ![c] = After(@, len)]
        /\ \/ UNCHANGED process
           \/ len = BUFSIZ /\ process' = "wild"
  BY Zenon DEF server_receive
<1> DEFINE first == SubSeq(stream, 1, len)
           part == BytesOf(first)
           request_xml == thread[c].request_xml \o part
           unsent == client[c].unsent
           th == [thread[c] EXCEPT
                    !.request_xml = request_xml, !.remain = thread[c].remain - len,
                    !.pc = IF thread[c].remain > len THEN "receive_message" ELSE "parse"]
           ts == After(stream, len)
<1>2. Becomes(c, client[c], th, ts, to_client[c])
  BY <1>1 DEF server_receive, Becomes, CInv, IInv, TypeOK
<1>3. /\ client[c] \in client_type /\ thread[c] \in thread_type /\ stream \in Seq(Unit)
      /\ RequestFrame(client[c], thread[c], stream) /\ Carries(client[c], thread[c], stream)
  BY Unfold DEF CInv, Carried
<1>4. /\ thread[c].pc = "receive_message" /\ Running /\ store' = store
      /\ thread[c].remain = Len(stream) + Len(unsent) /\ BodyFrom(stream, 1)
      /\ unsent \in Seq(Bytes) /\ thread[c].request_xml \in Seq(Bytes)
      /\ client[c].request = thread[c].request_xml \o BytesOf(stream) \o unsent
  BY <1>3 DEF server_receive, RequestFrame, client_type, thread_type, Carries
<1>5. Len(stream) \in Nat /\ Len(unsent) \in Nat  BY <1>3, <1>4, LenType
<1>6. len \in 1 .. Len(stream)  BY <1>5, RecvLength
<1> HIDE DEF stream, unsent
<1>7. /\ first \in Seq(Unit) /\ ts \in Seq(Unit) /\ Len(ts) = Len(stream) - len
      /\ Len(first) = len /\ first \o ts = stream
      /\ BodyFrom(first, 1) /\ BodyFrom(ts, 1)
  <2>1. len \in 0 .. Len(stream)  BY <1>5, <1>6
  <2> QED  BY <1>3, <1>4, <2>1, PartType, AfterType, CutJoin, BodyCut
<1> HIDE DEF first, ts
<1>8. /\ part \in Seq(Bytes) /\ Len(part) = len
      /\ BytesOf(ts) \in Seq(Bytes) /\ part \o BytesOf(ts) = BytesOf(stream)
      /\ Len(BytesOf(ts)) = Len(ts)
  BY <1>7, BytesOfType, BytesOfJoin
<1> HIDE DEF part
<1>9. request_xml \in Seq(Bytes) /\ Len(request_xml) >= len
  <2>1. /\ request_xml \in Seq(Bytes)
        /\ Len(request_xml) = Len(thread[c].request_xml) + Len(part)
    BY <1>4, <1>8, JoinType
  <2>2. Len(thread[c].request_xml) \in Nat  BY <1>4, LenType
  <2> HIDE DEF request_xml
  <2> QED  BY <1>5, <1>6, <1>8, <2>1, <2>2
<1>10. client[c].request = request_xml \o BytesOf(ts) \o unsent
  <2>1. request_xml \o BytesOf(ts) = thread[c].request_xml \o (part \o BytesOf(ts))
    BY <1>4, <1>8, JoinTwice, Zenon
  <2> QED  BY <1>4, <1>8, <2>1, Zenon
<1> HIDE DEF request_xml
<1>11. Len(client[c].request) >= len
  <2>1. /\ request_xml \o BytesOf(ts) \in Seq(Bytes)
        /\ Len(request_xml \o BytesOf(ts)) = Len(request_xml) + Len(BytesOf(ts))
    BY <1>8, <1>9, JoinType
  <2>2. Len(client[c].request) = Len(request_xml) + Len(BytesOf(ts)) + Len(unsent)
    BY <1>4, <1>10, <2>1, JoinType
  <2>3. Len(request_xml) \in Nat /\ Len(BytesOf(ts)) \in Nat  BY <1>8, <1>9, LenType
  <2> QED  BY <1>5, <1>6, <1>9, <2>2, <2>3
<1>12. /\ th.request_xml = request_xml
       /\ th.pc = IF thread[c].remain > len THEN "receive_message" ELSE "parse"
  BY <1>3 DEF thread_type
<1> HIDE DEF th
<1>13. Carries(client[c], th, ts)
  <2>1. CASE thread[c].remain > len
    BY <1>3, <1>10, <1>12, <2>1 DEF Carries, unsent
  <2>2. CASE ~ (thread[c].remain > len)
    <3>1. Len(ts) = 0 /\ Len(unsent) = 0  BY <1>4, <1>5, <1>6, <1>7, <2>2
    <3>2. ts = << >> /\ unsent = << >>  BY <1>4, <1>7, <3>1, LenType
    <3>3. client[c].request = request_xml
      BY <1>9, <1>10, <3>2, BytesOfNothing, ConcatEmptySeq
    <3>4. request_xml # << >>
      <4>1. Len(request_xml) > 0  BY <1>5, <1>6, <1>9, LenType
      <4> QED  BY <1>9, <4>1, LenType
    <3> QED  BY <1>3, <1>12, <2>2, <3>3, <3>4 DEF Carries
  <2> QED  BY <2>1, <2>2
<1>14. PendingOf(th, ts) /\ PendingOf(thread[c], stream) /\ th.pc # "execute_writes"
  BY <1>4, <1>12 DEF PendingOf
<1>15. Implemented  BY <1>2, <1>4, <1>13, <1>14, ThreadHidden DEF stream
<1>16. process' = "wild" => process = "wild" \/ Len(client[c].request) >= BUFSIZ
  BY <1>1, <1>11
<1> QED  BY <1>15, <1>16

LEMMA ParseStep == ASSUME CInv, NEW c \in Clients, parse(c)  PROVE Implemented
<1> DEFINE th == [thread[c] EXCEPT
                    !.pc = IF thread[c].request_xml \in Accepted THEN "lock" ELSE "bad_request"]
<1>1. Becomes(c, client[c], th, to_server[c], to_client[c])
  BY DEF parse, Becomes, CInv, IInv, TypeOK
<1>2. /\ thread[c] \in thread_type /\ thread[c].pc = "parse"
      /\ Carries(client[c], thread[c], to_server[c])
  BY Unfold DEF parse, CInv, Carried
<1>3. /\ th.pc = IF thread[c].request_xml \in Accepted THEN "lock" ELSE "bad_request"
      /\ th.request_xml = thread[c].request_xml
  BY <1>2 DEF thread_type
<1> HIDE DEF th
<1>4. Carries(client[c], th, to_server[c])  BY <1>2, <1>3 DEF Carries
<1>5. /\ PendingOf(th, to_server[c]) /\ PendingOf(thread[c], to_server[c])
      /\ th.pc # "execute_writes"
  BY <1>2, <1>3 DEF PendingOf
<1> QED  BY <1>1, <1>4, <1>5, ThreadHidden DEF parse, Running

LEMMA LockStep == ASSUME CInv, NEW c \in Clients, lock(c)  PROVE Implemented
<1> DEFINE th == [thread[c] EXCEPT !.pc = "execute_command"]
<1>1. Becomes(c, client[c], th, to_server[c], to_client[c])
  BY DEF lock, Becomes, CInv, IInv, TypeOK
<1>2. /\ thread[c] \in thread_type /\ thread[c].pc = "lock"
      /\ Carries(client[c], thread[c], to_server[c])
  BY Unfold DEF lock, CInv, Carried
<1>3. th.pc = "execute_command" /\ th.request_xml = thread[c].request_xml
  BY <1>2 DEF thread_type
<1> HIDE DEF th
<1>4. Carries(client[c], th, to_server[c])  BY <1>2, <1>3 DEF Carries
<1>5. PendingOf(th, to_server[c]) /\ PendingOf(thread[c], to_server[c])
  BY <1>2, <1>3 DEF PendingOf
<1> QED  BY <1>1, <1>3, <1>4, <1>5, ThreadHidden DEF lock, Running

(* A step that only changes the process.                                   *)
LEMMA OnlyProcess ==
  ASSUME CInv, UNCHANGED <<client, thread, to_server, to_client, store>>, Running' => Running
  PROVE  Implemented
<1>1. Carried' /\ Fresh'  BY DEF CInv, Carried, Fresh
<1> QED  BY <1>1, NothingShown DEF Implemented

LEMMA ExecuteReadsStep == ASSUME CInv, NEW c \in Clients, execute_reads(c)  PROVE Implemented
<1>1. CASE process' = "wild" /\ UNCHANGED <<thread, store>>
  BY <1>1, OnlyProcess DEF execute_reads, Running
<1>2. CASE /\ thread' = [thread EXCEPT ![c].pc = "execute_writes", ![c].data = store]
           /\ UNCHANGED <<store, process>>
  <2> DEFINE th == [thread[c] EXCEPT !.pc = "execute_writes", !.data = store]
  <2>1. Becomes(c, client[c], th, to_server[c], to_client[c])
    BY <1>2 DEF execute_reads, Becomes, CInv, IInv, TypeOK
  <2>2. /\ thread[c] \in thread_type /\ thread[c].pc = "execute_command"
        /\ Carries(client[c], thread[c], to_server[c])
    BY Unfold DEF execute_reads, CInv, Carried
  <2>3. /\ th.pc = "execute_writes" /\ th.request_xml = thread[c].request_xml
        /\ th.data = store
    BY <2>2 DEF thread_type
  <2> HIDE DEF th
  <2>4. Carries(client[c], th, to_server[c])  BY <2>2, <2>3 DEF Carries
  <2>5. PendingOf(th, to_server[c]) /\ PendingOf(thread[c], to_server[c])
    BY <2>2, <2>3 DEF PendingOf
  <2> QED  BY <1>2, <2>1, <2>3, <2>4, <2>5, ThreadHidden DEF execute_reads, Running
<1> QED  BY <1>1, <1>2 DEF execute_reads, FileClosed

(* The command ends the process: its caller still waits.                   *)
LEMMA DieStep ==
  ASSUME CInv, NEW c \in Clients, execute_writes(c),
         Fate(thread[c].data, thread[c].request_xml) = "ends",
         store' = Effect(thread[c].data, thread[c].request_xml),
         process' = "down", UNCHANGED thread
  PROVE  Implemented
<1>1. UNCHANGED <<client, to_server, to_client>> /\ thread[c].pc = "execute_writes" /\ Running
  BY DEF execute_writes
<1>2. /\ thread[c].request_xml \in Accepted /\ thread[c].request_xml = client[c].request
      /\ client[c].request # << >> /\ thread[c].data = store
  BY <1>1, Unfold DEF CInv, Carried, Fresh, RequestFrame, Carries, IInv, TypeOK
<1>3. call[c] = client[c].request /\ result[c] = << >>
  BY <1>1, <1>2, Views DEF ShowsAll, Shows, CallOf, ResultOf, PendingOf
<1>4. call' = call /\ result' = result /\ answer' = answer /\ left' = left
  BY <1>1 DEF call, result, answer, left, Asking, Gone, Pending, OnTheWay
<1>5. up /\ up' = FALSE  BY <1>1 DEF up, Running
<1>6. Service!Die(c)  BY <1>2, <1>3, <1>4, <1>5 DEF Service!Die, Service!None
<1>7. Carried'  BY <1>1 DEF CInv, Carried
<1>8. Fresh'  BY DEF Fresh, Running
<1> QED  BY <1>6, <1>7, <1>8 DEF Implemented, Service!Next

(* The command is executed: nobody else has written since it read.         *)
LEMMA ExecuteWritesStep == ASSUME CInv, NEW c \in Clients, execute_writes(c)  PROVE Implemented
<1>1. CASE FileClosed
  BY <1>1, OnlyProcess DEF execute_writes, FileClosed, Running
<1>2. CASE /\ Fate(thread[c].data, thread[c].request_xml) = "answers"
           /\ store' = Effect(thread[c].data, thread[c].request_xml)
           /\ thread' = [thread EXCEPT
                ![c].pc = "unlock",
                ![c].response_xml = Reply(thread[c].data, thread[c].request_xml)]
           /\ UNCHANGED process
  <2> DEFINE info == thread[c].request_xml
             reply == Reply(thread[c].data, info)
             th == [thread[c] EXCEPT !.pc = "unlock", !.response_xml = reply]
  <2>1. /\ Becomes(c, client[c], th, to_server[c], to_client[c])
        /\ store' = Effect(thread[c].data, info) /\ process' = process
        /\ thread[c].pc = "execute_writes" /\ Running
    BY <1>2 DEF execute_writes, Becomes, CInv, IInv, TypeOK
  <2>2. /\ client[c] \in client_type /\ thread[c] \in thread_type /\ IInv
        /\ to_server[c] = << >> /\ info \in Accepted /\ info = client[c].request
        /\ ResponseFrame(client[c], thread[c], to_server[c], to_client[c])
        /\ Carries(client[c], thread[c], to_server[c])
        /\ thread[c].data = store /\ store \in Store
    BY <2>1, Unfold DEF CInv, Carried, Fresh, RequestFrame, Carries, IInv, TypeOK
  <2>3. /\ info \in Requests /\ info # << >> /\ reply \in Seq(Bytes)
        /\ reply = Reply(store, info) /\ Fate(store, info) = "answers"
    BY <1>2, <2>2, ServerAssumption
  <2>4. th.pc = "unlock" /\ th.response_xml = reply /\ th.data = store
    BY <2>2 DEF thread_type
  <2> HIDE DEF th, reply
  <2>5. Carries(client[c], th, to_server[c])  BY <2>2, <2>3, <2>4 DEF Carries
  <2>6. \A d \in Clients : thread'[d] = IF d = c THEN th ELSE thread[d]
    BY <2>1 DEF Becomes, CInv, IInv, TypeOK
  <2>7. Carried'
    <3> SUFFICES ASSUME NEW d \in Clients
                 PROVE  Carries(client'[d], thread'[d], to_server'[d])
      BY DEF Carried
    <3>1. client'[d] = client[d] /\ to_server'[d] = to_server[d]
      BY DEF execute_writes
    <3> QED  BY <2>5, <2>6, <3>1 DEF CInv, Carried
  <2>8. Fresh'
    <3>1. \A d \in Clients : d # c => thread[d].pc # "execute_writes"
      BY <2>1 DEF CInv, IInv, Locked
    <3> QED  BY <2>4, <2>6, <3>1 DEF Fresh
  <2>9. call[c] = info /\ result[c] = << >> /\ (c \in left <=> client[c].pc = "gone")
    BY <2>1, <2>2, <2>3, Views DEF ShowsAll, Shows, CallOf, ResultOf, PendingOf
  <2>10. /\ answer' = answer /\ left' = left
    BY DEF execute_writes, answer, left, Gone
  <2>11. /\ up /\ up' = up /\ call[c] \in Accepted /\ result[c] = << >>
         /\ store' = Effect(store, call[c]) /\ Reply(store, call[c]) = reply
         /\ Fate(store, call[c]) = "answers"
    <3> HIDE DEF info
    <3>1. up /\ up' = up  BY <2>1 DEF up, Running
    <3> QED  BY <2>1, <2>2, <2>3, <2>9, <3>1
  <2>12. ASSUME client[c].pc = "gone"  PROVE Service!Execute(c)
    <3>1. /\ CallOf(client[c], th, to_server[c]) = << >>
          /\ ResultOf(client[c], th, to_server[c], to_client[c]) = << >>
      BY <2>2, <2>4, <2>12 DEF CallOf, ResultOf, PendingOf
    <3>2. call' = [call EXCEPT ![c] = << >>] /\ result' = [result EXCEPT ![c] = << >>]
      BY <2>1, <2>2, <3>1, OneViews
    <3>3. result' = result  BY <2>9, <3>2 DEF result
    <3> QED  BY <2>9, <2>10, <2>11, <2>12, <3>2, <3>3
             DEF Service!Execute, Service!Respond, Service!None
  <2>13. ASSUME client[c].pc # "gone"  PROVE Service!Execute(c)
    <3>1. to_client[c] = << >> /\ client[c].response = << >>
      BY <2>1, <2>2, <2>13 DEF ResponseFrame, client_type
    <3>2. OnTheWayOf(client[c], th, to_client[c]) = reply
      BY <2>3, <2>4, <3>1, BytesOfNothing, ConcatEmptySeq DEF OnTheWayOf, Announced
    <3>3. /\ CallOf(client[c], th, to_server[c]) = info
          /\ ResultOf(client[c], th, to_server[c], to_client[c]) = << reply >>
      BY <2>2, <2>3, <2>4, <2>13, <3>2 DEF CallOf, ResultOf, PendingOf
    <3>4. call' = [call EXCEPT ![c] = info] /\ result' = [result EXCEPT ![c] = << reply >>]
      BY <2>1, <2>2, <3>3, OneViews
    <3>5. call' = call  BY <2>9, <3>4 DEF call
    <3> QED  BY <2>9, <2>10, <2>11, <2>13, <3>4, <3>5
             DEF Service!Execute, Service!Respond, Service!None
  <2>14. Service!Execute(c)  BY <2>12, <2>13
  <2> QED  BY <2>7, <2>8, <2>14 DEF Implemented, Service!Next
<1>3. CASE /\ Fate(thread[c].data, thread[c].request_xml) = "ends"
           /\ store' = Effect(thread[c].data, thread[c].request_xml)
           /\ process' = "down" /\ UNCHANGED thread
  BY <1>3, DieStep
<1> QED  BY <1>1, <1>2, <1>3 DEF execute_writes

LEMMA UnlockStep == ASSUME CInv, NEW c \in Clients, unlock(c)  PROVE Implemented
<1> DEFINE th == [thread[c] EXCEPT !.pc = "write"]
<1>1. Becomes(c, client[c], th, to_server[c], to_client[c])
  BY DEF unlock, Becomes, CInv, IInv, TypeOK
<1>2. /\ thread[c] \in thread_type /\ thread[c].pc = "unlock"
      /\ Carries(client[c], thread[c], to_server[c])
  BY Unfold DEF unlock, CInv, Carried
<1>3. /\ th.pc = "write" /\ th.response_xml = thread[c].response_xml
      /\ th.data = thread[c].data
  BY <1>2 DEF thread_type
<1> HIDE DEF th
<1>4. Carries(client[c], th, to_server[c])  BY <1>2, <1>3 DEF Carries
<1>5. ~ PendingOf(th, to_server[c]) /\ ~ PendingOf(thread[c], to_server[c])
  BY <1>2, <1>3 DEF PendingOf
<1> QED  BY <1>1, <1>3, <1>4, <1>5, ThreadHidden DEF unlock, Running

(* A write, whatever becomes of it, to a client that no longer waits for   *)
(* its request to be dealt with.                                           *)
LEMMA WriteStep ==
  ASSUME CInv, NEW c \in Clients, NEW units, NEW written, NEW failed,
         Write(c, units, written, failed),
         UNCHANGED <<client, to_server, mutex, store>>, Running,
         to_server[c] = << >>, thread[c].pc \in {"write", "send_message"},
         written.pc \in {"recv", "send_message"}, failed.pc \in {"recv", "ended"},
         client[c].request \in Accepted,
         ~ Gone(c) => OnTheWayOf(client[c], written, to_client[c] \o units)
                        = OnTheWayOf(client[c], thread[c], to_client[c])
  PROVE  Implemented
<1>1. IInv /\ Carries(client[c], thread[c], to_server[c])  BY DEF CInv, Carried
<1>2. /\ Carries(client[c], written, to_server[c]) /\ Carries(client[c], failed, to_server[c])
      /\ ~ PendingOf(thread[c], to_server[c]) /\ ~ PendingOf(written, to_server[c])
      /\ ~ PendingOf(failed, to_server[c])
  BY <1>1 DEF Carries, PendingOf
<1>3. CASE ~ Gone(c)
  <2> DEFINE tc == to_client[c] \o units
  <2>1. Becomes(c, client[c], written, to_server[c], tc) /\ process' = process
    BY <1>3 DEF Write, Becomes, CInv, IInv, TypeOK
  <2>2. OnTheWayOf(client[c], written, tc) = OnTheWayOf(client[c], thread[c], to_client[c])
    BY <1>3
  <2> HIDE DEF tc
  <2>3. Carried' /\ Fresh'  BY <1>2, <2>1, OneCarries
  <2>4. /\ CallOf(client[c], written, to_server[c])
             = CallOf(client[c], thread[c], to_server[c])
        /\ ResultOf(client[c], written, to_server[c], tc)
             = ResultOf(client[c], thread[c], to_server[c], to_client[c])
    BY <1>2, <2>2 DEF CallOf, ResultOf
  <2>5. [Service!Next]_(Service!vars)
    BY <1>1, <2>1, <2>4, OneHidden
  <2> QED  BY <2>3, <2>5 DEF Implemented
<1>4. CASE Gone(c)
  <2>1. client[c].pc = "gone"  BY <1>4 DEF Gone
  <2>2. \A th \in {written, failed} :
          thread' = [thread EXCEPT ![c] = th] /\ UNCHANGED <<to_client, process>> => Implemented
    <3> SUFFICES ASSUME NEW th \in {written, failed}, thread' = [thread EXCEPT ![c] = th],
                        UNCHANGED <<to_client, process>>
                 PROVE  Implemented
      OBVIOUS
    <3>1. Becomes(c, client[c], th, to_server[c], to_client[c])
      BY DEF Becomes, CInv, IInv, TypeOK
    <3>2. /\ Carries(client[c], th, to_server[c]) /\ ~ PendingOf(th, to_server[c])
          /\ th.pc # "execute_writes"
      BY <1>2
    <3> QED  BY <1>2, <2>1, <3>1, <3>2, ThreadHidden DEF Running
  <2>3. CASE UNCHANGED <<to_client, thread>> /\ process' = "down"
    BY <2>3, OnlyProcess DEF Running
  <2>4. to_client' = [to_client EXCEPT ![c] = to_client[c]] => to_client' = to_client
    BY DEF CInv, IInv, TypeOK
  <2> QED  BY <1>4, <2>2, <2>3, <2>4 DEF Write
<1> QED  BY <1>3, <1>4

LEMMA WriteHeaderStep ==
  ASSUME CInv, NEW c \in Clients, server_write_header(c)
  PROVE  Implemented
<1> DEFINE response_xml == thread[c].response_xml
           header == Header(Len(response_xml))
           th == [thread[c] EXCEPT !.pc = "send_message"]
           ended == [thread[c] EXCEPT !.pc = "ended"]
<1>1. /\ client[c] \in client_type /\ thread[c] \in thread_type
      /\ ResponseFrame(client[c], thread[c], to_server[c], to_client[c])
      /\ RequestFrame(client[c], thread[c], to_server[c])
      /\ Carries(client[c], thread[c], to_server[c])
  BY Unfold DEF CInv, Carried
<1>2. /\ thread[c].pc = "write" /\ Running /\ UNCHANGED <<client, to_server, mutex, store>>
      /\ to_server[c] = << >> /\ client[c].request \in Accepted
  BY <1>1 DEF server_write_header, RequestFrame, Carries
<1>3. CASE response_xml = << >>
  BY <1>2, <1>3, OnlyProcess DEF server_write_header, Running
<1>4. CASE response_xml # << >>
  <2>1. Write(c, << header >>, th, ended)  BY <1>4 DEF server_write_header
  <2>2. /\ th.pc = "send_message" /\ th.response_xml = response_xml /\ ended.pc = "ended"
    BY <1>1 DEF thread_type
  <2> HIDE DEF th, ended
  <2>3. ASSUME ~ Gone(c)
        PROVE  OnTheWayOf(client[c], th, to_client[c] \o << header >>)
                 = OnTheWayOf(client[c], thread[c], to_client[c])
    <3>1. to_client[c] = << >>
      BY <1>1, <1>2, <2>3 DEF ResponseFrame, Gone, client_type
    <3>2. /\ to_client[c] \o << header >> = << header >>
          /\ << header >> # << >> /\ Head(<< header >>) = header /\ Tail(<< header >>) = << >>
      <4> HIDE DEF header
      <4> QED  BY <3>1
    <3>3. header[1] = "length" /\ header # ErrorText  BY DEF Header, ErrorText
    <3> HIDE DEF header, response_xml
    <3> QED  BY <2>2, <3>1, <3>2, <3>3 DEF OnTheWayOf, Announced, response_xml
  <2> QED  BY <1>2, <2>1, <2>2, <2>3, WriteStep
<1> QED  BY <1>3, <1>4

LEMMA WritePacketStep ==
  ASSUME CInv, NEW c \in Clients, server_write_packet(c)
  PROVE  Implemented
<1> DEFINE response_xml == thread[c].response_xml
           stream == to_client[c]
           response == client[c].response
           data == Packet(response_xml)
           rest == After(response_xml, Len(data))
           body == Body(data)
           end == [thread[c] EXCEPT !.pc = "recv", !.response_xml = << >>]
           th == IF rest = << >> THEN end ELSE [thread[c] EXCEPT !.response_xml = rest]
           tc == stream \o body
<1>1. /\ client[c] \in client_type /\ thread[c] \in thread_type /\ stream \in Seq(Unit)
      /\ ResponseFrame(client[c], thread[c], to_server[c], stream)
      /\ RequestFrame(client[c], thread[c], to_server[c])
      /\ Carries(client[c], thread[c], to_server[c])
  BY Unfold DEF CInv, Carried
<1>2. /\ thread[c].pc = "send_message" /\ Running
      /\ UNCHANGED <<client, to_server, mutex, store>>
      /\ to_server[c] = << >> /\ client[c].request \in Accepted
      /\ Write(c, body, th, end)
  BY <1>1 DEF server_write_packet, RequestFrame, Carries
<1>3. response_xml # << >> /\ response_xml \in Seq(Bytes) /\ response \in Seq(Bytes)
  BY <1>1, <1>2 DEF RequestFrame, thread_type, client_type
<1>4. data \in Seq(Bytes) /\ Len(data) \in 0 .. Len(response_xml)
  BY <1>3, PacketType
<1>5. rest \in Seq(Bytes) /\ data \o rest = response_xml
  BY <1>3, <1>4, AfterType, PacketJoin
<1>6. body \in Seq(Unit) /\ BodyFrom(body, 1) /\ BytesOf(body) = data
  BY <1>4, BodyType, BytesOfBody
<1> HIDE DEF data, rest, body, stream
<1>7. /\ th.response_xml = rest /\ th.pc \in {"recv", "send_message"} /\ end.pc = "recv"
  BY <1>1, <1>2 DEF thread_type
<1> HIDE DEF end, th
<1>8. \A s \in Seq(Unit) : BodyFrom(s, 1) =>
        response \o BytesOf(s \o body) \o rest = response \o BytesOf(s) \o response_xml
  <2> SUFFICES ASSUME NEW s \in Seq(Unit), BodyFrom(s, 1)
               PROVE  response \o BytesOf(s \o body) \o rest
                        = response \o BytesOf(s) \o response_xml
    OBVIOUS
  <2>1. BytesOf(s) \in Seq(Bytes)  BY BytesOfType
  <2>2. BytesOf(s \o body) = BytesOf(s) \o data  BY <1>6, BytesOfJoin
  <2>3. response \o BytesOf(s) \in Seq(Bytes)  BY <1>3, <2>1, JoinType
  <2> HIDE DEF response, response_xml
  <2>4. response \o (BytesOf(s) \o data) = (response \o BytesOf(s)) \o data
    BY <1>3, <1>4, <2>1, JoinTwice, Zenon
  <2>5. ((response \o BytesOf(s)) \o data) \o rest = (response \o BytesOf(s)) \o (data \o rest)
    BY <1>4, <1>5, <2>3, JoinTwice, Zenon
  <2> QED  BY <1>5, <2>2, <2>4, <2>5, Zenon
<1>9. ASSUME ~ Gone(c)
      PROVE  OnTheWayOf(client[c], th, tc) = OnTheWayOf(client[c], thread[c], stream)
  <2>1. client[c].pc \in {"recv", "receive_message"}
    BY <1>1, <1>2, <1>9 DEF ResponseFrame, Gone, client_type
  <2>2. CASE client[c].pc = "recv"
    <3>1. Announces(stream, response_xml)  BY <1>1, <1>2, <1>3, <2>2 DEF ResponseFrame, Working
    <3>2. /\ stream # << >> /\ tc \in Seq(Unit) /\ tc # << >> /\ Head(tc) = Head(stream)
          /\ Tail(tc) = Tail(stream) \o body
      <4>1. stream # << >>  BY <3>1 DEF Announces
      <4>2. Len(stream) \in Nat /\ Len(stream) > 0 /\ Len(body) \in Nat
        BY <1>1, <1>6, <4>1, LenType
      <4>3. tc \in Seq(Unit) /\ Len(tc) = Len(stream) + Len(body) /\ tc[1] = stream[1]
        BY <1>1, <1>6, <4>2, JoinType
      <4>4. Tail(tc) = Tail(stream) \o body  BY <1>1, <1>6, <4>1, TailJoin
      <4> HIDE DEF tc
      <4>5. tc # << >>  BY <4>2, <4>3, LenType
      <4> QED  BY <1>1, <4>1, <4>3, <4>4, <4>5
    <3>3. /\ Announced(stream) /\ Head(stream) # ErrorText
          /\ Tail(stream) \in Seq(Unit) /\ BodyFrom(Tail(stream), 1)
      BY <1>1, <3>1, HeaderCut
    <3>4. Announced(tc) /\ Head(tc) # ErrorText  BY <3>2, <3>3 DEF Announced
    <3> HIDE DEF tc
    <3>5. OnTheWayOf(client[c], th, tc) = response \o BytesOf(Tail(stream) \o body) \o rest
      BY <1>7, <3>2, <3>4 DEF OnTheWayOf
    <3>6. OnTheWayOf(client[c], thread[c], stream)
            = response \o BytesOf(Tail(stream)) \o response_xml
      BY <3>3 DEF OnTheWayOf
    <3> QED  BY <1>8, <3>3, <3>5, <3>6
  <2>3. CASE client[c].pc = "receive_message"
    <3>1. BodyFrom(stream, 1)  BY <1>1, <2>3 DEF ResponseFrame
    <3>2. tc \in Seq(Unit) /\ BodyFrom(tc, 1)
      <4>1. Len(stream) \in Nat  BY <1>1, LenType
      <4>2. BodyFrom(tc, 1)  BY <1>1, <1>6, <3>1, <4>1, BodyJoin
      <4> QED  BY <1>1, <1>6, <4>2, JoinType
    <3>3. OnTheWayOf(client[c], thread[c], stream) = response \o BytesOf(stream) \o response_xml
      BY <1>1, <3>1, WayOfBody
    <3>4. OnTheWayOf(client[c], th, tc) = response \o BytesOf(tc) \o rest
      <4> HIDE DEF tc
      <4> QED  BY <1>7, <3>2, WayOfBody
    <3> QED  BY <1>1, <1>8, <3>1, <3>3, <3>4
  <2> QED  BY <2>1, <2>2, <2>3
<1> QED  BY <1>2, <1>7, <1>9, WriteStep DEF stream

LEMMA BadRequestStep == ASSUME CInv, NEW c \in Clients, bad_request(c)  PROVE Implemented
<1> DEFINE th == [thread[c] EXCEPT !.pc = "recv"]
<1>1. /\ client[c] \in client_type /\ thread[c] \in thread_type /\ IInv
      /\ ResponseFrame(client[c], thread[c], to_server[c], to_client[c])
      /\ RequestFrame(client[c], thread[c], to_server[c])
      /\ Carries(client[c], thread[c], to_server[c])
  BY Unfold DEF CInv, Carried
<1>2. /\ thread[c].pc = "bad_request" /\ Running
      /\ UNCHANGED <<client, to_server, mutex, store>>
      /\ to_server[c] = << >> /\ client[c].request # << >> /\ client[c].request \notin Accepted
      /\ Write(c, << ErrorText >>, th, th)
  BY <1>1 DEF bad_request, RequestFrame, Carries
<1>3. th.pc = "recv"  BY <1>1 DEF thread_type
<1> HIDE DEF th
<1>4. Carries(client[c], th, to_server[c]) /\ ~ PendingOf(th, to_server[c])
  BY <1>1, <1>2, <1>3 DEF Carries, PendingOf
<1>5. /\ call[c] = client[c].request /\ result[c] = << >>
      /\ (c \in left <=> client[c].pc = "gone")
  BY <1>2, Views DEF ShowsAll, Shows, CallOf, ResultOf, PendingOf
<1>6. answer' = answer /\ left' = left  BY <1>2 DEF answer, left, Gone
<1>7. CASE ~ Gone(c)
  <2>1. client[c].pc # "gone" /\ to_client[c] = << >>
    BY <1>1, <1>2, <1>7 DEF ResponseFrame, Gone, client_type
  <2>2. Becomes(c, client[c], th, to_server[c], << ErrorText >>) /\ process' = process
    <3>1. to_client[c] \o << ErrorText >> = << ErrorText >>  BY <2>1
    <3> QED  BY <1>2, <1>7, <3>1 DEF Write, Becomes, CInv, IInv, TypeOK
  <2>3. Carried' /\ Fresh'  BY <1>2, <1>3, <1>4, <2>2, OneCarries
  <2>4. OnTheWayOf(client[c], th, << ErrorText >>) = << BadRequest >>
    <3>1. << ErrorText >> # << >> /\ Head(<< ErrorText >>) = ErrorText  OBVIOUS
    <3> QED  BY <3>1 DEF OnTheWayOf
  <2>5. /\ CallOf(client[c], th, to_server[c]) = call[c]
        /\ ResultOf(client[c], th, to_server[c], << ErrorText >>) = << << BadRequest >> >>
    BY <1>2, <1>4, <1>5, <2>1, <2>4 DEF CallOf, ResultOf
  <2>6. /\ call' = [call EXCEPT ![c] = call[c]]
        /\ result' = [result EXCEPT ![c] = << << BadRequest >> >>]
    BY <1>1, <2>2, <2>5, OneViews
  <2>7. call' = call  BY <2>6 DEF call
  <2>8. up /\ up' = up  BY <1>2, <2>2 DEF up, Running
  <2>9. Service!Reject(c)
    BY <1>2, <1>5, <1>6, <2>1, <2>6, <2>7, <2>8
    DEF Service!Reject, Service!Respond, Service!None
  <2> QED  BY <2>3, <2>9 DEF Implemented, Service!Next
<1>8. CASE Gone(c)
  <2>1. client[c].pc = "gone"  BY <1>8 DEF Gone
  <2>2. CASE UNCHANGED <<to_client, thread>> /\ process' = "down"
    BY <1>2, <2>2, OnlyProcess DEF Running
  <2>3. CASE /\ thread' = [thread EXCEPT ![c] = th]
             /\ to_client' = to_client /\ process' = process
    <3>1. Becomes(c, client[c], th, to_server[c], to_client[c])
      BY <1>2, <2>3 DEF Becomes, CInv, IInv, TypeOK
    <3>2. Carried' /\ Fresh'  BY <1>2, <1>3, <1>4, <3>1, OneCarries
    <3>3. /\ CallOf(client[c], th, to_server[c]) = << >>
          /\ ResultOf(client[c], th, to_server[c], to_client[c]) = << >>
      BY <1>4, <2>1 DEF CallOf, ResultOf
    <3>4. call' = [call EXCEPT ![c] = << >>] /\ result' = [result EXCEPT ![c] = << >>]
      BY <1>1, <3>1, <3>3, OneViews
    <3>5. result' = result  BY <1>5, <3>4 DEF result
    <3>6. up /\ up' = up  BY <1>2, <2>3 DEF up, Running
    <3>7. Service!Reject(c)
      BY <1>2, <1>5, <1>6, <2>1, <3>4, <3>5, <3>6
      DEF Service!Reject, Service!Respond, Service!None
    <3> QED  BY <3>2, <3>7 DEF Implemented, Service!Next
  <2>4. to_client' = [to_client EXCEPT ![c] = to_client[c]] => to_client' = to_client
    BY DEF CInv, IInv, TypeOK
  <2> QED  BY <1>2, <1>8, <2>2, <2>3, <2>4 DEF Write
<1> QED  BY <1>7, <1>8

LEMMA NextStep == ASSUME CInv, [Next]_vars  PROVE Implemented
<1>1. CASE main  BY <1>1, OnlyProcess DEF main, Running
<1>2. ASSUME NEW c \in Clients, connect(c) \/ send_header(c) \/ leave(c)  PROVE Implemented
  BY <1>2, ConnectStep, SendHeaderStep, LeaveStep
<1>3. ASSUME NEW c \in Clients, ClientStep(c)  PROVE Implemented
  BY <1>3, SendPacketStep, ClientHeaderStep, ClientReceiveStep DEF ClientStep
<1>4. ASSUME NEW c \in Clients, accept(c)  PROVE Implemented  BY <1>4, AcceptStep
<1>5. ASSUME NEW c \in Clients, work_with_client(c)  PROVE Implemented
  BY <1>5, ServerHeaderStep, ServerReceiveStep, ParseStep, BadRequestStep, LockStep,
     ExecuteReadsStep, ExecuteWritesStep, UnlockStep, WriteHeaderStep, WritePacketStep
  DEF work_with_client
<1>6. CASE UNCHANGED vars  BY <1>6, OnlyProcess DEF vars, Running
<1> QED  BY <1>1, <1>2, <1>3, <1>4, <1>5, <1>6 DEF Next

LEMMA InitCarries == Init => CInv /\ Service!Init
<1> SUFFICES ASSUME Init  PROVE CInv /\ Service!Init  OBVIOUS
<1>1. IInv  BY InitInv
<1>2. \A c \in Clients :
        /\ client[c] = NewClient /\ thread[c] = NewThread
        /\ to_server[c] = << >> /\ to_client[c] = << >>
  BY DEF Init
<1>3. Carried /\ Fresh
  <2>1. /\ NewClient.pc = "offline" /\ NewClient.request = << >> /\ NewThread.pc = "none"
    BY DEF NewClient, NewThread
  <2> QED  BY <1>2, <2>1 DEF Carried, Carries, Fresh
<1>4. /\ call = [c \in Clients |-> << >>] /\ result = [c \in Clients |-> << >>]
      /\ answer = [c \in Clients |-> << >>] /\ left = {} /\ up = TRUE
  <2>1. \A c \in Clients : ~ Asking(c) /\ ~ Gone(c) /\ client[c].answer = << >>
    BY <1>2 DEF Asking, Gone, NewClient
  <2>2. up = TRUE  BY DEF up, Running, Init
  <2> QED  BY <2>1, <2>2 DEF call, result, answer, left
<1>5. Service!Init  BY <1>4 DEF Service!Init, Service!None, Init
<1> QED  BY <1>1, <1>3, <1>5 DEF CInv

LEMMA NextCarries == CInv /\ [Next]_vars => CInv' /\ [Service!Next]_(Service!vars)
<1> SUFFICES ASSUME CInv, [Next]_vars  PROVE CInv' /\ [Service!Next]_(Service!vars)  OBVIOUS
<1>1. IInv'  BY NextInv DEF CInv
<1> QED  BY <1>1, NextStep DEF CInv, Implemented

(* What is carried, at all times.                                          *)
LEMMA CarriedInvariant == Spec => []CInv
<1>1. Init => CInv  BY InitCarries
<1>2. CInv /\ [Next]_vars => CInv'  BY NextCarries
<1> QED  BY <1>1, <1>2, PTL DEF Spec

(* The whole of the server and its clients, with messages cut up at will,  *)
(* clients that leave and a console that says 'q' at any time, is a        *)
(* SerialService: accepted commands run one at a time and as a whole       *)
(* between their request and its answer (the mutex, server.c:79-81), none  *)
(* runs twice, and every answer is that of the client's own request,       *)
(* complete (send_message, receive_message).                               *)
THEOREM Implements == Spec => Serial
<1>1. Init => Service!Init  BY InitCarries
<1>2. CInv /\ [Next]_vars => [Service!Next]_(Service!vars)  BY NextCarries
<1> QED  BY <1>1, <1>2, CarriedInvariant, PTL DEF Spec, Serial, Service!Spec

-----------------------------------------------------------------------------
(* Why the process ends.                                                   *)

(* A write ends the process only if the client is gone, and it is to a     *)
(* client whose request is still there.                                    *)
LEMMA WriteReason ==
  ASSUME NEW c \in Clients, NEW units, NEW written, NEW failed,
         Write(c, units, written, failed), client[c].request # << >>,
         process = "up", process' \in {"down", "wild"}
  PROVE  Reason
BY DEF Write, Reason, Asking

LEMMA ThreadReason ==
  ASSUME CInv, NEW c \in Clients, work_with_client(c),
         process = "up", process' \in {"down", "wild"}
  PROVE  Reason
<1>1. Carries(client[c], thread[c], to_server[c])  BY DEF CInv, Carried
<1>2. CASE server_receive(c)
  BY <1>2, ServerReceiveStep, Zenon DEF Reason, server_receive
<1>3. CASE bad_request(c)
  <2>1. client[c].request # << >>  BY <1>1, <1>3 DEF bad_request, Carries
  <2> QED  BY <1>3, <2>1, WriteReason DEF bad_request
<1>4. CASE server_write_header(c)
  <2>1. /\ thread[c].pc = "write" /\ client[c].request \in Accepted
        /\ thread[c].response_xml = Reply(thread[c].data, client[c].request)
    BY <1>1, <1>4 DEF server_write_header, Carries
  <2>2. client[c].request # << >>  BY <2>1, ServerAssumption
  <2>3. CASE thread[c].response_xml = << >>  BY <2>1, <2>3 DEF Reason
  <2>4. CASE thread[c].response_xml # << >>
    BY <1>4, <2>2, <2>4, WriteReason DEF server_write_header
  <2> QED  BY <2>3, <2>4
<1>5. CASE server_write_packet(c)
  <2>1. client[c].request # << >>
    BY <1>1, <1>5, ServerAssumption DEF server_write_packet, Carries
  <2> QED  BY <1>5, <2>1, WriteReason DEF server_write_packet
<1>6. CASE execute_reads(c) \/ execute_writes(c)
  <2>1. Executing(c)  BY <1>6 DEF execute_reads, execute_writes, Executing
  <2>2. client[c].request = thread[c].request_xml  BY <1>1, <2>1 DEF Carries, Executing
  <2>3. thread[c].request_xml \in Accepted
    BY <2>1, Unfold DEF CInv, RequestFrame, Executing
  <2>4. execute_writes(c) => thread[c].data = store  BY DEF execute_writes, CInv, Fresh
  <2>5. Fate(store, thread[c].request_xml) # "answers"
    BY <1>6, <2>4 DEF execute_reads, execute_writes, FileClosed
  <2> QED  BY <2>1, <2>2, <2>3, <2>5 DEF Reason
<1>7. CASE server_header(c) \/ parse(c) \/ lock(c) \/ unlock(c)
  BY <1>7 DEF server_header, parse, lock, unlock
<1> QED  BY <1>2, <1>3, <1>4, <1>5, <1>6, <1>7 DEF work_with_client

(* For every BUFSIZ, every set of requests and every execute_command: as   *)
(* long as nobody types 'q' the process ends, or goes astray, only because *)
(* a client left before its answer was written (server.c:85), an accepted  *)
(* command gave no response (server.c:84) or was not survived by           *)
(* execute_command on the data file it found (server.c:81), or a packet    *)
(* filled the buffer (server.c:40); never because of a request that was    *)
(* turned down, or of one that waits for the mutex.                        *)
THEOREM OnlyForAReasonHolds == Spec => OnlyForAReason
<1>1. CInv /\ [Next]_vars => [process = "up" /\ process' \in {"down", "wild"} => Reason]_vars
  <2> SUFFICES ASSUME CInv, Next, process = "up", process' \in {"down", "wild"}
               PROVE  Reason
    OBVIOUS
  <2>1. CASE main  BY <2>1 DEF main
  <2>2. ASSUME NEW c \in Clients,
               connect(c) \/ send_header(c) \/ leave(c) \/ ClientStep(c) \/ accept(c)
        PROVE  process' = process
    BY <2>2, Zenon DEF connect, send_header, leave, ClientStep, send_packet, client_header,
                client_receive, accept
  <2>3. ASSUME NEW c \in Clients, work_with_client(c)  PROVE Reason
    BY <2>3, ThreadReason
  <2> QED  BY <2>1, <2>2, <2>3 DEF Next
<1> QED  BY <1>1, CarriedInvariant, PTL DEF Spec, OnlyForAReason
=============================================================================
