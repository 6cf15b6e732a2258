--------------------------- MODULE ServerProofs ---------------------------
(***************************************************************************)
(* Theorems about Server, for every number of clients, every BUFSIZ, every *)
(* set of requests and every way the clients and the server may end.  The  *)
(* inductive invariant says what is where of a request and a response.     *)
(***************************************************************************)
EXTENDS ServerProperties, TLAPS

-----------------------------------------------------------------------------
(* What is where: cl is the client, th its thread, ts and tc are the       *)
(* streams between them.                                                   *)

(* From place k on there are only bytes of a body.                         *)
BodyFrom(stream, k) == \A i \in k .. Len(stream) : stream[i] \in {"body"} \X Bytes

(* A stream begins with a header: it announces what follows it and what    *)
(* has still to be sent.                                                   *)
Announces(stream, unsent) ==
  /\ stream # << >>
  /\ stream[1] = Header(Len(stream) - 1 + Len(unsent))
  /\ Len(stream) - 1 + Len(unsent) > 0
  /\ BodyFrom(stream, 2)

RequestFrame(cl, th, ts) ==
  /\ th.pc \in {"none", "recv"} => ts = << >> \/ Announces(ts, cl.unsent)
  /\ th.pc = "receive_message" =>
       th.remain = Len(ts) + Len(cl.unsent) /\ th.remain > 0 /\ BodyFrom(ts, 1)
  /\ th.pc \notin {"none", "recv", "receive_message"} => ts = << >>
  /\ th.pc \in {"lock", "execute_command", "execute_writes"} => th.request_xml \in Accepted
  /\ th.pc = "ended" => cl.pc = "gone"
  /\ th.pc = "send_message" => th.response_xml # << >>
  /\ th.pc \notin {"unlock", "write", "send_message", "ended"} => th.response_xml = << >>

Working == {"receive_message", "parse", "bad_request", "lock", "execute_command",
            "execute_writes", "unlock", "write"}
ResponseFrame(cl, th, ts, tc) ==
  /\ cl.pc \in {"offline", "ready"} =>
       /\ ts = << >> /\ tc = << >> /\ cl.unsent = << >> /\ cl.response = << >>
       /\ th.pc \in {"none", "recv"}
  /\ cl.pc = "send_message" =>
       /\ cl.unsent # << >> /\ tc = << >> /\ cl.response = << >>
       /\ \/ th.pc \in {"none", "recv"} /\ ts # << >>
          \/ th.pc = "receive_message"
  /\ cl.pc = "recv" =>
       /\ cl.unsent = << >> /\ cl.response = << >>
       /\ \/ tc = << >> /\ th.pc \in {"none", "recv"} /\ ts # << >>
          \/ tc = << >> /\ th.pc \in Working
          \/ tc = << ErrorText >> /\ th.pc = "recv" /\ ts = << >>
          \/ Announces(tc, th.response_xml) /\ th.pc \in {"recv", "send_message"} /\ ts = << >>
  /\ cl.pc = "receive_message" =>
       /\ cl.unsent = << >> /\ ts = << >> /\ th.pc \in {"recv", "send_message"}
       /\ cl.remain = Len(tc) + Len(th.response_xml) /\ cl.remain > 0 /\ BodyFrom(tc, 1)
  /\ cl.pc = "gone" => tc = << >>

Frame(cl, th, ts, tc) == RequestFrame(cl, th, ts) /\ ResponseFrame(cl, th, ts, tc)
Framed == \A c \in Clients : Frame(client[c], thread[c], to_server[c], to_client[c])
Locked == \A c \in Clients :
  thread[c].pc \in {"execute_command", "execute_writes", "unlock"} => mutex = c
IInv == TypeOK /\ Framed /\ Locked

-----------------------------------------------------------------------------
(* Sequences: what cutting and joining streams does to them.               *)

LEMMA BodyType ==
  ASSUME NEW bytes \in Seq(Bytes)
  PROVE  /\ Body(bytes) \in Seq(Unit)
         /\ Len(Body(bytes)) = Len(bytes)
         /\ BodyFrom(Body(bytes), 1)
<1>1. Len(bytes) \in Nat /\ \A i \in 1 .. Len(bytes) : bytes[i] \in Bytes  OBVIOUS
<1>2. Body(bytes) \in [1 .. Len(bytes) -> Unit]  BY <1>1 DEF Body, Unit
<1>3. Body(bytes) \in Seq(Unit) /\ Len(Body(bytes)) = Len(bytes)  BY <1>1, <1>2
<1> QED  BY <1>1, <1>3 DEF Body, BodyFrom

LEMMA BytesOfType ==
  ASSUME NEW stream \in Seq(Unit), BodyFrom(stream, 1)
  PROVE  BytesOf(stream) \in Seq(Bytes) /\ Len(BytesOf(stream)) = Len(stream)
<1>1. Len(stream) \in Nat  OBVIOUS
<1>2. BytesOf(stream) \in [1 .. Len(stream) -> Bytes]  BY <1>1 DEF BytesOf, BodyFrom
<1> QED  BY <1>1, <1>2

LEMMA UnitType ==
  ASSUME NEW n \in Nat
  PROVE  Header(n) \in Unit /\ ErrorText \in Unit
BY DEF Unit, Header

LEMMA AfterType ==
  ASSUME NEW S, NEW s \in Seq(S), NEW n \in 0 .. Len(s)
  PROVE  /\ After(s, n) \in Seq(S)
         /\ Len(After(s, n)) = Len(s) - n
         /\ \A i \in 1 .. Len(s) - n : After(s, n)[i] = s[i + n]
BY DEF After

LEMMA PartType ==
  ASSUME NEW S, NEW s \in Seq(S), NEW n \in 0 .. Len(s)
  PROVE  /\ SubSeq(s, 1, n) \in Seq(S)
         /\ Len(SubSeq(s, 1, n)) = n
         /\ \A i \in 1 .. n : SubSeq(s, 1, n)[i] = s[i]
OBVIOUS

LEMMA JoinType ==
  ASSUME NEW S, NEW s \in Seq(S), NEW t \in Seq(S)
  PROVE  /\ s \o t \in Seq(S)
         /\ Len(s \o t) = Len(s) + Len(t)
         /\ Len(s) > 0 => (s \o t)[1] = s[1]
OBVIOUS

LEMMA LenType ==
  ASSUME NEW S, NEW s \in Seq(S)
  PROVE  Len(s) \in Nat /\ (s = << >> <=> Len(s) = 0)
OBVIOUS

LEMMA PacketType ==
  ASSUME NEW S, NEW s \in Seq(S)
  PROVE  /\ Packet(s) \in Seq(S)
         /\ Len(Packet(s)) \in 0 .. Len(s)
         /\ s # << >> => Len(Packet(s)) > 0
<1>1. BUFSIZ \in Nat \ {0}  BY ServerAssumption
<1>2. Lesser(BUFSIZ, Len(s)) \in 0 .. Len(s) /\ (s # << >> => Lesser(BUFSIZ, Len(s)) > 0)
  BY <1>1 DEF Lesser
<1> QED  BY <1>2, PartType DEF Packet

(* What a recv takes is a part of what is there.                           *)
LEMMA RecvLength ==
  ASSUME NEW n \in Nat, NEW len \in 1 .. Lesser(BUFSIZ, n)
  PROVE  len \in 1 .. n
<1>1. BUFSIZ \in Nat \ {0}  BY ServerAssumption
<1> QED  BY <1>1 DEF Lesser

LEMMA ShownType ==
  ASSUME NEW response \in Seq(Bytes)
  PROVE  Shown(response) \in Seq(Bytes \cup {BadRequest})
<1>1. response \in Seq(Bytes \cup {BadRequest})  OBVIOUS
<1>2. << BadRequest >> \in Seq(Bytes \cup {BadRequest})  OBVIOUS
<1> QED  BY <1>1, <1>2 DEF Shown

(* A body cut anywhere is a body; a body joined to a body is one.          *)
LEMMA BodyCut ==
  ASSUME NEW s \in Seq(Unit), BodyFrom(s, 1), NEW n \in 0 .. Len(s)
  PROVE  BodyFrom(SubSeq(s, 1, n), 1) /\ BodyFrom(After(s, n), 1)
<1>1. BodyFrom(SubSeq(s, 1, n), 1)  BY PartType DEF BodyFrom
<1>2. /\ Len(After(s, n)) = Len(s) - n
      /\ \A i \in 1 .. Len(s) - n : After(s, n)[i] = s[i + n]
  BY AfterType
<1>3. \A i \in 1 .. Len(s) - n : i + n \in 1 .. Len(s)  OBVIOUS
<1>4. \A i \in 1 .. Len(s) - n : s[i + n] \in {"body"} \X Bytes  BY <1>3 DEF BodyFrom
<1>5. BodyFrom(After(s, n), 1)  BY <1>2, <1>4 DEF BodyFrom
<1> QED  BY <1>1, <1>5

LEMMA BodyJoin ==
  ASSUME NEW s \in Seq(Unit), NEW t \in Seq(Unit), NEW k \in {1, 2},
         BodyFrom(s, k), BodyFrom(t, 1), k - 1 <= Len(s)
  PROVE  BodyFrom(s \o t, k)
<1> SUFFICES ASSUME NEW i \in k .. Len(s \o t)
             PROVE  (s \o t)[i] \in {"body"} \X Bytes
  BY DEF BodyFrom
<1>1. CASE i <= Len(s)  BY <1>1 DEF BodyFrom
<1>2. CASE i > Len(s)
  <2>1. i - Len(s) \in 1 .. Len(t) /\ (s \o t)[i] = t[i - Len(s)]  BY <1>2
  <2> QED  BY <2>1 DEF BodyFrom
<1> QED  BY <1>1, <1>2

-----------------------------------------------------------------------------
(* Every step preserves IInv.  A step changes what belongs to one client.  *)

LEMMA Unfold ==
  ASSUME IInv, NEW c \in Clients
  PROVE  /\ client[c] \in client_type /\ thread[c] \in thread_type
         /\ to_server[c] \in Seq(Unit) /\ to_client[c] \in Seq(Unit)
         /\ RequestFrame(client[c], thread[c], to_server[c])
         /\ ResponseFrame(client[c], thread[c], to_server[c], to_client[c])
BY DEF IInv, TypeOK, Framed, Frame

(* The step puts cl, th, ts and tc in the place of what c had.             *)
Becomes(c, cl, th, ts, tc) ==
  /\ client' = [client EXCEPT ![c] = cl]
  /\ thread' = [thread EXCEPT ![c] = th]
  /\ to_server' = [to_server EXCEPT ![c] = ts]
  /\ to_client' = [to_client EXCEPT ![c] = tc]

LEMMA OneChanges ==
  ASSUME IInv, NEW c \in Clients,
         NEW cl \in client_type, NEW th \in thread_type,
         NEW ts \in Seq(Unit), NEW tc \in Seq(Unit),
         Becomes(c, cl, th, ts, tc),
         RequestFrame(cl, th, ts), ResponseFrame(cl, th, ts, tc),
         mutex' \in Clients \cup {Nobody}, store' \in Store,
         process' \in {"up", "server_closed", "file_closed", "down", "wild"}
  PROVE  TypeOK' /\ Framed'
<1>1. TypeOK'  BY DEF IInv, TypeOK, Becomes
<1>2. Framed'
  <2> SUFFICES ASSUME NEW d \in Clients
               PROVE  Frame(client'[d], thread'[d], to_server'[d], to_client'[d])
    BY DEF Framed
  <2>1. CASE d = c  BY <2>1 DEF IInv, TypeOK, Becomes, Frame
  <2>2. CASE d # c
    <3>1. /\ client'[d] = client[d] /\ thread'[d] = thread[d]
          /\ to_server'[d] = to_server[d] /\ to_client'[d] = to_client[d]
      BY <2>2 DEF IInv, TypeOK, Becomes
    <3> QED  BY <3>1 DEF IInv, Framed
  <2> QED  BY <2>1, <2>2
<1> QED  BY <1>1, <1>2

(* A step that neither locks nor enters the part under the mutex.          *)
LEMMA LockedStays ==
  ASSUME Locked, mutex' = mutex,
         \A d \in Clients :
           thread'[d].pc \in {"execute_command", "execute_writes", "unlock"} =>
             thread[d].pc \in {"execute_command", "execute_writes", "unlock"}
  PROVE  Locked'
BY DEF Locked

THEOREM InitInv == Init => IInv
<1> SUFFICES ASSUME Init  PROVE IInv  OBVIOUS
<1> USE DEF Init, NewClient, NewThread
<1>1. TypeOK
  <2>1. NewClient \in client_type /\ NewThread \in thread_type
    BY ServerAssumption DEF client_type, thread_type
  <2>2. << >> \in Seq(Unit)  OBVIOUS
  <2> QED  BY <2>1, <2>2, ServerAssumption DEF TypeOK
<1>2. Framed  BY DEF Framed, Frame, RequestFrame, ResponseFrame
<1>3. Locked  BY DEF Locked
<1> QED  BY <1>1, <1>2, <1>3 DEF IInv

LEMMA ConnectInv == ASSUME IInv, NEW c \in Clients, connect(c)  PROVE IInv'
<1> DEFINE cl == [client[c] EXCEPT !.pc = "ready"]
<1> USE Unfold
<1>1. cl \in client_type  BY DEF client_type
<1>2. Becomes(c, cl, thread[c], to_server[c], to_client[c])
  BY DEF connect, Becomes, IInv, TypeOK
<1>3. /\ RequestFrame(cl, thread[c], to_server[c])
      /\ ResponseFrame(cl, thread[c], to_server[c], to_client[c])
  BY DEF connect, client_type, RequestFrame, ResponseFrame
<1>4. TypeOK' /\ Framed'  BY <1>1, <1>2, <1>3, OneChanges DEF connect, IInv, TypeOK
<1>5. Locked'  BY LockedStays DEF connect, IInv
<1> QED  BY <1>4, <1>5 DEF IInv

LEMMA SendHeaderInv == ASSUME IInv, NEW c \in Clients, send_header(c)  PROVE IInv'
<1> USE Unfold
<1>1. PICK q \in Requests :
        /\ client' = [client EXCEPT ![c].pc = "send_message", ![c].request = q, ![c].unsent = q]
        /\ to_server' = [to_server EXCEPT ![c] = Append(@, Header(Len(q)))]
  BY DEF send_header
<1> DEFINE cl == [client[c] EXCEPT !.pc = "send_message", !.request = q, !.unsent = q]
           ts == Append(to_server[c], Header(Len(q)))
<1>2. q \in Seq(Bytes) /\ q # << >> /\ Len(q) \in Nat  BY ServerAssumption
<1>3. cl \in client_type /\ ts \in Seq(Unit)
  <2>1. cl \in client_type  BY <1>2 DEF client_type
  <2>2. ts \in Seq(Unit)  BY <1>2, UnitType
  <2> QED  BY <2>1, <2>2
<1>4. Becomes(c, cl, thread[c], ts, to_client[c])
  BY <1>1 DEF send_header, Becomes, IInv, TypeOK
<1>5. /\ client[c].pc = "ready" /\ to_server[c] = << >> /\ to_client[c] = << >>
      /\ client[c].response = << >> /\ thread[c].pc \in {"none", "recv"}
  BY DEF send_header, ResponseFrame
<1>6. Announces(ts, q)
  <2>1. ts = << Header(Len(q)) >> /\ Len(ts) = 1 /\ ts[1] = Header(Len(q))  BY <1>5
  <2>2. Len(q) > 0  BY <1>2
  <2> QED  BY <1>2, <2>1, <2>2 DEF Announces, BodyFrom
<1>7. ts # << >>  BY <1>6 DEF Announces
<1>8. cl.pc = "send_message" /\ cl.unsent = q /\ cl.response = << >>  BY <1>5 DEF client_type
<1>9. RequestFrame(cl, thread[c], ts)  BY <1>5, <1>6, <1>8 DEF RequestFrame
<1>10. ResponseFrame(cl, thread[c], ts, to_client[c])
  BY <1>2, <1>5, <1>7, <1>8 DEF ResponseFrame
<1>11. TypeOK' /\ Framed'
  BY <1>3, <1>4, <1>9, <1>10, OneChanges DEF send_header, IInv, TypeOK
<1>12. Locked'  BY LockedStays DEF send_header, IInv
<1> QED  BY <1>11, <1>12 DEF IInv

LEMMA SendPacketInv == ASSUME IInv, NEW c \in Clients, send_packet(c)  PROVE IInv'
<1> DEFINE unsent == client[c].unsent
           data == Packet(unsent)
           rest == After(unsent, Len(data))
           cl == [client[c] EXCEPT !.unsent = rest,
                                   !.pc = IF rest = << >> THEN "recv" ELSE "send_message"]
           body == Body(data)
           ts == to_server[c] \o body
<1>1. Becomes(c, cl, thread[c], ts, to_client[c])
  BY DEF send_packet, Becomes, IInv, TypeOK
<1>2. /\ client[c] \in client_type /\ thread[c] \in thread_type
      /\ to_server[c] \in Seq(Unit) /\ to_client[c] \in Seq(Unit)
      /\ RequestFrame(client[c], thread[c], to_server[c])
      /\ ResponseFrame(client[c], thread[c], to_server[c], to_client[c])
  BY Unfold
<1>3. /\ unsent \in Seq(Bytes) /\ unsent # << >> /\ Len(unsent) \in Nat
      /\ Len(to_server[c]) \in Nat /\ (to_server[c] # << >> => Len(to_server[c]) > 0)
  BY <1>2, LenType DEF send_packet, client_type, ResponseFrame
<1>4. /\ data \in Seq(Bytes) /\ Len(data) \in 0 .. Len(unsent) /\ Len(data) > 0
  BY <1>3, PacketType
<1>5. rest \in Seq(Bytes) /\ Len(rest) = Len(unsent) - Len(data)
  BY <1>3, <1>4, AfterType
<1>6. /\ body \in Seq(Unit) /\ Len(body) = Len(data) /\ BodyFrom(body, 1)
  BY <1>4, BodyType
<1> HIDE DEF data, rest, body
<1>7. /\ ts \in Seq(Unit) /\ Len(ts) = Len(to_server[c]) + Len(data)
      /\ to_server[c] # << >> => ts[1] = to_server[c][1]
  <2>1. to_server[c] \in Seq(Unit) /\ body \in Seq(Unit)  BY <1>2, <1>6
  <2>2. /\ ts \in Seq(Unit) /\ Len(ts) = Len(to_server[c]) + Len(body)
        /\ Len(to_server[c]) > 0 => ts[1] = to_server[c][1]
    BY <2>1, JoinType
  <2> HIDE DEF ts
  <2> QED  BY <1>3, <1>6, <2>2
<1> HIDE DEF ts
<1>8. ts # << >>  BY <1>3, <1>4, <1>7, LenType
<1>9. /\ Len(ts) + Len(rest) = Len(to_server[c]) + Len(unsent)
       /\ Len(ts) - 1 + Len(rest) = Len(to_server[c]) - 1 + Len(unsent)
  <2>1. \A a, b \in Nat : \A n \in 0 .. b :
          (a + n) + (b - n) = a + b /\ (a + n) - 1 + (b - n) = a - 1 + b
    OBVIOUS
  <2>2. Len(data) \in 0 .. Len(unsent) /\ Len(unsent) \in Nat /\ Len(to_server[c]) \in Nat
    BY <1>3, <1>4
  <2>3. Len(ts) = Len(to_server[c]) + Len(data) /\ Len(rest) = Len(unsent) - Len(data)
    BY <1>5, <1>7
  <2> HIDE DEF unsent
  <2> QED  BY <2>1, <2>2, <2>3
<1>10. cl \in client_type  BY <1>2, <1>5 DEF client_type
<1>11. /\ cl.unsent = rest /\ cl.response = client[c].response
       /\ cl.pc = IF rest = << >> THEN "recv" ELSE "send_message"
  BY <1>2 DEF client_type
<1>12. /\ to_client[c] = << >> /\ client[c].response = << >>
       /\ \/ thread[c].pc \in {"none", "recv"} /\ to_server[c] # << >>
          \/ thread[c].pc = "receive_message"
  BY <1>2 DEF send_packet, ResponseFrame
<1>13. RequestFrame(cl, thread[c], ts)
  <2>1. CASE thread[c].pc \in {"none", "recv"} /\ to_server[c] # << >>
    <3>1. Announces(to_server[c], unsent)  BY <1>2, <2>1 DEF RequestFrame
    <3>2. BodyFrom(ts, 2)  BY <1>2, <1>3, <1>6, <2>1, <3>1, BodyJoin DEF Announces, ts
    <3>3. Announces(ts, rest)  BY <1>7, <1>8, <1>9, <2>1, <3>1, <3>2 DEF Announces
    <3> QED  BY <1>2, <1>11, <2>1, <3>3 DEF RequestFrame
  <2>2. CASE thread[c].pc = "receive_message"
    <3>1. BodyFrom(to_server[c], 1)  BY <1>2, <2>2 DEF RequestFrame
    <3>2. BodyFrom(ts, 1)  BY <1>2, <1>3, <1>6, <3>1, BodyJoin DEF ts
    <3> HIDE DEF cl
    <3> QED  BY <1>2, <1>11, <1>9, <2>2, <3>2 DEF RequestFrame
  <2> QED  BY <1>12, <2>1, <2>2
<1> HIDE DEF cl
<1>14. ResponseFrame(cl, thread[c], ts, to_client[c])
  BY <1>8, <1>11, <1>12 DEF ResponseFrame, Working
<1>15. TypeOK' /\ Framed'
  BY <1>1, <1>2, <1>7, <1>10, <1>13, <1>14, OneChanges DEF send_packet, IInv, TypeOK
<1>16. Locked'  BY LockedStays DEF send_packet, IInv
<1> QED  BY <1>15, <1>16 DEF IInv

LEMMA ClientHeaderInv == ASSUME IInv, NEW c \in Clients, client_header(c)  PROVE IInv'
<1> DEFINE stream == to_client[c]
           content_length == strtol(Head(stream))
           cl == IF content_length > 0
                 THEN [client[c] EXCEPT !.pc = "receive_message", !.remain = content_length]
                 ELSE Ready(client[c], << >>)
           tc == Tail(stream)
<1>1. Becomes(c, cl, thread[c], to_server[c], tc)
  BY DEF client_header, Becomes, IInv, TypeOK
<1>2. /\ client[c] \in client_type /\ thread[c] \in thread_type
      /\ to_server[c] \in Seq(Unit) /\ stream \in Seq(Unit)
      /\ RequestFrame(client[c], thread[c], to_server[c])
      /\ ResponseFrame(client[c], thread[c], to_server[c], stream)
  BY Unfold
<1>3. /\ client[c].pc = "recv" /\ stream # << >>
      /\ client[c].unsent = << >> /\ client[c].response = << >> /\ to_server[c] = << >>
      /\ thread[c].pc \in {"recv", "send_message"}
      /\ \/ stream = << ErrorText >> /\ thread[c].pc = "recv"
         \/ Announces(stream, thread[c].response_xml)
  BY <1>2 DEF client_header, ResponseFrame
<1>4. /\ tc \in Seq(Unit) /\ Len(tc) = Len(stream) - 1 /\ Head(stream) = stream[1]
      /\ \A i \in 1 .. Len(tc) : tc[i] = stream[i + 1]
  BY <1>2, <1>3
<1>5. Len(thread[c].response_xml) \in Nat /\ Len(tc) \in Nat  BY <1>2, <1>4 DEF thread_type
<1> HIDE DEF stream, tc
<1>6. cl \in client_type /\ ResponseFrame(cl, thread[c], to_server[c], tc)
      /\ RequestFrame(cl, thread[c], to_server[c])
  <2>1. CASE Announces(stream, thread[c].response_xml)
    <3>1. /\ content_length = Len(tc) + Len(thread[c].response_xml)
          /\ content_length > 0 /\ content_length \in Nat
      BY <1>4, <1>5, <2>1 DEF Announces, strtol, Header
    <3>2. BodyFrom(tc, 1)
      <4>1. \A i \in 1 .. Len(tc) : i + 1 \in 2 .. Len(stream)  BY <1>4, <1>5
      <4> QED  BY <1>4, <2>1, <4>1 DEF Announces, BodyFrom
    <3> HIDE DEF content_length
    <3>3. /\ cl \in client_type
          /\ cl.pc = "receive_message" /\ cl.unsent = << >> /\ cl.response = << >>
          /\ cl.remain = content_length
      BY <1>2, <1>3, <3>1 DEF client_type
    <3> HIDE DEF cl
    <3> QED  BY <1>2, <1>3, <3>1, <3>2, <3>3 DEF ResponseFrame, RequestFrame
  <2>2. CASE stream = << ErrorText >> /\ thread[c].pc = "recv"
    <3>1. content_length = 0 /\ tc = << >>  BY <1>4, <2>2 DEF strtol, ErrorText, tc
    <3> HIDE DEF content_length
    <3>2. cl = Ready(client[c], << >>)  BY <3>1
    <3>3. << BadRequest >> \in Seq(Bytes \cup {BadRequest}) /\ << >> \in Requests \cup {<< >>}
      OBVIOUS
    <3> HIDE DEF cl
    <3>4. /\ cl \in client_type
          /\ cl.pc = "ready" /\ cl.unsent = << >> /\ cl.response = << >>
      BY <1>2, <1>3, <3>2, <3>3 DEF client_type, Ready, Shown
    <3> QED  BY <1>2, <1>3, <2>2, <3>1, <3>4 DEF ResponseFrame, RequestFrame
  <2> QED  BY <1>3, <2>1, <2>2
<1> HIDE DEF cl
<1>7. TypeOK' /\ Framed'
  BY <1>1, <1>2, <1>4, <1>6, OneChanges DEF client_header, IInv, TypeOK
<1>8. Locked'  BY LockedStays DEF client_header, IInv
<1> QED  BY <1>7, <1>8 DEF IInv

LEMMA ClientReceiveInv == ASSUME IInv, NEW c \in Clients, client_receive(c)  PROVE IInv'
<1> DEFINE stream == to_client[c]
<1>1. PICK len \in 1 .. Lesser(BUFSIZ, Len(stream)) :
        LET response == client[c].response \o BytesOf(SubSeq(stream, 1, len))
            remain == client[c].remain - len
        IN /\ client' = [client EXCEPT ![c] =
                IF remain > 0 THEN [@ EXCEPT !.response = response, !.remain = remain]
                ELSE [Ready(@, response) EXCEPT !.remain = 0]]
           /\ to_client' = [to_client EXCEPT ![c] = After(@, len)]
  BY DEF client_receive
<1> DEFINE part == BytesOf(SubSeq(stream, 1, len))
           response == client[c].response \o part
           remain == client[c].remain - len
           cl == IF remain > 0
                 THEN [client[c] EXCEPT !.response = response, !.remain = remain]
                 ELSE [Ready(client[c], response) EXCEPT !.remain = 0]
           tc == After(stream, len)
<1>2. Becomes(c, cl, thread[c], to_server[c], tc)
  BY <1>1 DEF client_receive, Becomes, IInv, TypeOK
<1>3. /\ client[c] \in client_type /\ thread[c] \in thread_type
      /\ to_server[c] \in Seq(Unit) /\ stream \in Seq(Unit)
      /\ RequestFrame(client[c], thread[c], to_server[c])
      /\ ResponseFrame(client[c], thread[c], to_server[c], stream)
  BY Unfold
<1>4. /\ client[c].pc = "receive_message"
      /\ client[c].unsent = << >> /\ to_server[c] = << >>
      /\ thread[c].pc \in {"recv", "send_message"}
      /\ client[c].remain = Len(stream) + Len(thread[c].response_xml) /\ BodyFrom(stream, 1)
  BY <1>3 DEF client_receive, ResponseFrame
<1>5. /\ Len(stream) \in Nat /\ Len(thread[c].response_xml) \in Nat
      /\ (thread[c].response_xml = << >> <=> Len(thread[c].response_xml) = 0)
  BY <1>3, LenType DEF thread_type
<1>6. len \in 1 .. Len(stream)  BY <1>5, RecvLength
<1>7. /\ tc \in Seq(Unit) /\ Len(tc) = Len(stream) - len
      /\ (tc = << >> <=> Len(tc) = 0) /\ BodyFrom(tc, 1)
  <2>1. stream \in Seq(Unit) /\ BodyFrom(stream, 1) /\ len \in 0 .. Len(stream)
    BY <1>3, <1>4, <1>5, <1>6
  <2> HIDE DEF stream
  <2>2. tc \in Seq(Unit) /\ Len(tc) = Len(stream) - len  BY <2>1, AfterType
  <2>3. BodyFrom(tc, 1)  BY <2>1, BodyCut
  <2> HIDE DEF tc
  <2> QED  BY <2>2, <2>3, LenType
<1>8. response \in Seq(Bytes)
  <2>1. SubSeq(stream, 1, len) \in Seq(Unit) /\ BodyFrom(SubSeq(stream, 1, len), 1)
    BY <1>3, <1>4, <1>5, <1>6, PartType, BodyCut
  <2>2. part \in Seq(Bytes)  BY <2>1, BytesOfType
  <2>3. client[c].response \in Seq(Bytes)  BY <1>3 DEF client_type
  <2> HIDE DEF part
  <2> QED  BY <2>2, <2>3
<1> HIDE DEF stream, part, response, tc
<1>9. /\ remain = Len(tc) + Len(thread[c].response_xml) /\ remain \in Nat
      /\ (remain = 0 => tc = << >> /\ thread[c].response_xml = << >>)
  BY <1>4, <1>5, <1>6, <1>7
<1> HIDE DEF remain
<1>10. cl \in client_type /\ cl.unsent = << >>
  <2>1. Shown(response) \in Seq(Bytes \cup {BadRequest})  BY <1>8, ShownType
  <2> QED  BY <1>3, <1>4, <1>8, <1>9, <2>1 DEF client_type, Ready
<1>11. ASSUME remain > 0
       PROVE  RequestFrame(cl, thread[c], to_server[c])
              /\ ResponseFrame(cl, thread[c], to_server[c], tc)
  <2>1. cl.pc = "receive_message" /\ cl.remain = remain
    BY <1>3, <1>4, <1>11 DEF client_type
  <2> HIDE DEF cl
  <2>2. RequestFrame(cl, thread[c], to_server[c])  BY <1>3, <1>4, <1>10, <2>1 DEF RequestFrame
  <2>3. ResponseFrame(cl, thread[c], to_server[c], tc)
    BY <1>4, <1>7, <1>9, <1>10, <1>11, <2>1 DEF ResponseFrame
  <2> QED  BY <2>2, <2>3
<1>12. ASSUME ~ (remain > 0)
       PROVE  RequestFrame(cl, thread[c], to_server[c])
              /\ ResponseFrame(cl, thread[c], to_server[c], tc)
  <2>1. cl.pc = "ready" /\ cl.response = << >>  BY <1>3, <1>12 DEF client_type, Ready
  <2>2. tc = << >> /\ thread[c].response_xml = << >>  BY <1>9, <1>12
  <2> HIDE DEF cl
  <2>3. thread[c].pc = "recv"  BY <1>3, <1>4, <2>2 DEF RequestFrame
  <2>4. RequestFrame(cl, thread[c], to_server[c])  BY <1>3, <1>4, <1>10, <2>3 DEF RequestFrame
  <2>5. ResponseFrame(cl, thread[c], to_server[c], tc)
    BY <1>4, <1>10, <2>1, <2>2, <2>3 DEF ResponseFrame
  <2> QED  BY <2>4, <2>5
<1> HIDE DEF cl
<1>13. RequestFrame(cl, thread[c], to_server[c]) /\ ResponseFrame(cl, thread[c], to_server[c], tc)
  BY <1>11, <1>12
<1>14. TypeOK' /\ Framed'
  BY <1>2, <1>3, <1>7, <1>10, <1>13, OneChanges DEF client_receive, IInv, TypeOK
<1>15. Locked'  BY LockedStays DEF client_receive, IInv
<1> QED  BY <1>14, <1>15 DEF IInv

LEMMA LeaveInv == ASSUME IInv, NEW c \in Clients, leave(c)  PROVE IInv'
<1>1. /\ client[c] \in client_type /\ thread[c] \in thread_type
      /\ to_server[c] \in Seq(Unit)
      /\ RequestFrame(client[c], thread[c], to_server[c])
  BY Unfold
<1>2. PICK last \in {client[c].answer, << BadRequest >>} :
        client' = [client EXCEPT ![c].pc = "gone", ![c].answer = last]
  <2>1. \/ client' = [client EXCEPT ![c].pc = "gone"]
        \/ client' = [client EXCEPT ![c].pc = "gone", ![c].answer = << BadRequest >>]
    BY DEF leave
  <2>2. [client EXCEPT ![c].pc = "gone"]
          = [client EXCEPT ![c].pc = "gone", ![c].answer = client[c].answer]
    BY <1>1 DEF IInv, TypeOK, client_type
  <2> QED  BY <2>1, <2>2
<1> DEFINE cl == [client[c] EXCEPT !.pc = "gone", !.answer = last]
<1>3. Becomes(c, cl, thread[c], to_server[c], << >>)
  BY <1>2 DEF leave, Becomes, IInv, TypeOK
<1>4. /\ cl \in client_type /\ cl.pc = "gone" /\ cl.unsent = client[c].unsent
  <2>1. << BadRequest >> \in Seq(Bytes \cup {BadRequest})  OBVIOUS
  <2>2. last \in Seq(Bytes \cup {BadRequest})  BY <1>1, <2>1 DEF client_type
  <2> QED  BY <1>1, <2>2 DEF client_type
<1> HIDE DEF cl
<1>5. RequestFrame(cl, thread[c], to_server[c])  BY <1>1, <1>4 DEF RequestFrame
<1>6. ResponseFrame(cl, thread[c], to_server[c], << >>)  BY <1>4 DEF ResponseFrame
<1>7. << >> \in Seq(Unit)  OBVIOUS
<1>8. TypeOK' /\ Framed'
  BY <1>1, <1>3, <1>4, <1>5, <1>6, <1>7, OneChanges DEF leave, IInv, TypeOK
<1>9. Locked'  BY LockedStays DEF leave, IInv
<1> QED  BY <1>8, <1>9 DEF IInv

LEMMA AcceptInv == ASSUME IInv, NEW c \in Clients, accept(c)  PROVE IInv'
<1> DEFINE th == [thread[c] EXCEPT !.pc = "recv"]
<1>1. Becomes(c, client[c], th, to_server[c], to_client[c])
  BY DEF accept, Becomes, IInv, TypeOK
<1>2. /\ client[c] \in client_type /\ thread[c] \in thread_type
      /\ to_server[c] \in Seq(Unit) /\ to_client[c] \in Seq(Unit)
      /\ RequestFrame(client[c], thread[c], to_server[c])
      /\ ResponseFrame(client[c], thread[c], to_server[c], to_client[c])
  BY Unfold
<1>3. thread[c].pc = "none" /\ client[c].pc # "offline"  BY DEF accept
<1>4. /\ th \in thread_type /\ th.pc = "recv" /\ th.response_xml = thread[c].response_xml
  BY <1>2 DEF thread_type
<1> HIDE DEF th
<1>5. RequestFrame(client[c], th, to_server[c])  BY <1>2, <1>3, <1>4 DEF RequestFrame
<1>6. ResponseFrame(client[c], th, to_server[c], to_client[c])
  BY <1>2, <1>3, <1>4 DEF ResponseFrame, Working
<1>7. TypeOK' /\ Framed'  BY <1>1, <1>2, <1>4, <1>5, <1>6, OneChanges DEF accept, IInv, TypeOK
<1>8. Locked'
  <2>1. \A d \in Clients : thread'[d].pc = IF d = c THEN "recv" ELSE thread[d].pc
    BY <1>1, <1>4 DEF Becomes, IInv, TypeOK
  <2> QED  BY <2>1, LockedStays DEF accept, IInv
<1> QED  BY <1>7, <1>8 DEF IInv

LEMMA ServerHeaderInv == ASSUME IInv, NEW c \in Clients, server_header(c)  PROVE IInv'
<1> DEFINE stream == to_server[c]
<1>1. /\ client[c] \in client_type /\ thread[c] \in thread_type
      /\ stream \in Seq(Unit) /\ to_client[c] \in Seq(Unit)
      /\ RequestFrame(client[c], thread[c], stream)
      /\ ResponseFrame(client[c], thread[c], stream, to_client[c])
  BY Unfold
<1>2. thread[c].pc = "recv"  BY DEF server_header
<1>3. CASE stream # << >>
  <2> DEFINE content_length == strtol(Head(stream))
             ts == Tail(stream)
             th == [thread[c] EXCEPT
                      !.pc = IF content_length > 0 THEN "receive_message" ELSE "bad_request",
                      !.remain = content_length, !.request_xml = << >>]
  <2>1. Becomes(c, client[c], th, ts, to_client[c])
    BY <1>3 DEF server_header, Becomes, IInv, TypeOK
  <2>2. Announces(stream, client[c].unsent)  BY <1>1, <1>2, <1>3 DEF RequestFrame
  <2>3. Len(client[c].unsent) \in Nat  BY <1>1 DEF client_type
  <2>4. /\ ts \in Seq(Unit) /\ Len(ts) = Len(stream) - 1 /\ Head(stream) = stream[1]
        /\ \A i \in 1 .. Len(ts) : ts[i] = stream[i + 1]
    BY <1>1, <1>3
  <2>5. Len(ts) \in Nat  BY <2>4
  <2> HIDE DEF stream, ts
  <2>6. /\ content_length = Len(ts) + Len(client[c].unsent)
        /\ content_length > 0 /\ content_length \in Nat
    BY <2>2, <2>3, <2>4, <2>5 DEF Announces, strtol, Header
  <2>7. BodyFrom(ts, 1)
    <3>1. \A i \in 1 .. Len(ts) : i + 1 \in 2 .. Len(stream)  BY <2>4, <2>5
    <3> QED  BY <2>2, <2>4, <3>1 DEF Announces, BodyFrom
  <2> HIDE DEF content_length
  <2>8. /\ th \in thread_type /\ th.pc = "receive_message" /\ th.remain = content_length
        /\ th.response_xml = thread[c].response_xml
    <3>1. << >> \in Seq(Bytes)  OBVIOUS
    <3>2. th = [thread[c] EXCEPT !.pc = "receive_message", !.remain = content_length,
                                 !.request_xml = << >>]
      BY <2>6
    <3> HIDE DEF th
    <3> QED  BY <1>1, <2>6, <3>1, <3>2 DEF thread_type
  <2> HIDE DEF th
  <2>9. RequestFrame(client[c], th, ts)
    BY <1>1, <1>2, <2>6, <2>7, <2>8 DEF RequestFrame
  <2>10. ResponseFrame(client[c], th, ts, to_client[c])
    BY <1>1, <1>2, <1>3, <2>8 DEF ResponseFrame, Working
  <2>11. TypeOK' /\ Framed'
    BY <1>1, <2>1, <2>4, <2>8, <2>9, <2>10, OneChanges DEF server_header, IInv, TypeOK
  <2>12. Locked'
    <3>1. \A d \in Clients : thread'[d].pc = IF d = c THEN "receive_message" ELSE thread[d].pc
      BY <2>1, <2>8 DEF Becomes, IInv, TypeOK
    <3> QED  BY <3>1, LockedStays DEF server_header, IInv
  <2> QED  BY <2>11, <2>12 DEF IInv
<1>4. CASE stream = << >>
  <2> DEFINE th == [thread[c] EXCEPT !.pc = "ended"]
  <2>1. Becomes(c, client[c], th, stream, to_client[c]) /\ client[c].pc = "gone"
    BY <1>4 DEF server_header, Becomes, Gone, IInv, TypeOK
  <2>2. th \in thread_type /\ th.pc = "ended"  BY <1>1 DEF thread_type
  <2> HIDE DEF th
  <2>3. RequestFrame(client[c], th, stream)  BY <1>4, <2>1, <2>2 DEF RequestFrame
  <2>4. ResponseFrame(client[c], th, stream, to_client[c])  BY <1>1, <2>1 DEF ResponseFrame
  <2>5. TypeOK' /\ Framed'
    BY <1>1, <2>1, <2>2, <2>3, <2>4, OneChanges DEF server_header, IInv, TypeOK
  <2>6. Locked'
    <3>1. \A d \in Clients : thread'[d].pc = IF d = c THEN "ended" ELSE thread[d].pc
      BY <2>1, <2>2 DEF Becomes, IInv, TypeOK
    <3> QED  BY <3>1, LockedStays DEF server_header, IInv
  <2> QED  BY <2>5, <2>6 DEF IInv
<1> QED  BY <1>3, <1>4

LEMMA ServerReceiveInv == ASSUME IInv, NEW c \in Clients, server_receive(c)  PROVE IInv'
<1> DEFINE stream == to_server[c]
<1>1. PICK len \in 1 .. Lesser(BUFSIZ, Len(stream)) :
        /\ thread' = [thread EXCEPT
             ![c].request_xml = @ \o BytesOf(SubSeq(stream, 1, len)),
             ![c].remain = @ - len,
             ![c].pc = IF thread[c].remain > len THEN "receive_message" ELSE "parse"]
        /\ to_server' = [to_server EXCEPT ![c] = After(@, len)]
        /\ \/ UNCHANGED process
           \/ len = BUFSIZ /\ process' = "wild"
  BY DEF server_receive
<1> DEFINE part == BytesOf(SubSeq(stream, 1, len))
           request_xml == thread[c].request_xml \o part
           remain == thread[c].remain - len
           th == [thread[c] EXCEPT
                    !.request_xml = request_xml, !.remain = remain,
                    !.pc = IF thread[c].remain > len THEN "receive_message" ELSE "parse"]
           ts == After(stream, len)
<1>2. Becomes(c, client[c], th, ts, to_client[c])
  BY <1>1 DEF server_receive, Becomes, IInv, TypeOK
<1>3. /\ client[c] \in client_type /\ thread[c] \in thread_type
      /\ stream \in Seq(Unit) /\ to_client[c] \in Seq(Unit)
      /\ RequestFrame(client[c], thread[c], stream)
      /\ ResponseFrame(client[c], thread[c], stream, to_client[c])
  BY Unfold
<1>4. /\ thread[c].pc = "receive_message" /\ thread[c].response_xml = << >>
      /\ thread[c].remain = Len(stream) + Len(client[c].unsent) /\ BodyFrom(stream, 1)
  BY <1>3 DEF server_receive, RequestFrame
<1>5. /\ Len(stream) \in Nat /\ Len(client[c].unsent) \in Nat
      /\ (client[c].unsent = << >> <=> Len(client[c].unsent) = 0)
  BY <1>3, LenType DEF client_type
<1>6. len \in 1 .. Len(stream)  BY <1>5, RecvLength
<1>7. /\ ts \in Seq(Unit) /\ Len(ts) = Len(stream) - len
      /\ (ts = << >> <=> Len(ts) = 0) /\ BodyFrom(ts, 1)
  <2>1. stream \in Seq(Unit) /\ BodyFrom(stream, 1) /\ len \in 0 .. Len(stream)
    BY <1>3, <1>4, <1>5, <1>6
  <2> HIDE DEF stream
  <2>2. ts \in Seq(Unit) /\ Len(ts) = Len(stream) - len  BY <2>1, AfterType
  <2>3. BodyFrom(ts, 1)  BY <2>1, BodyCut
  <2> HIDE DEF ts
  <2> QED  BY <2>2, <2>3, LenType
<1>8. request_xml \in Seq(Bytes)
  <2>1. SubSeq(stream, 1, len) \in Seq(Unit) /\ BodyFrom(SubSeq(stream, 1, len), 1)
    BY <1>3, <1>4, <1>5, <1>6, PartType, BodyCut
  <2>2. part \in Seq(Bytes)  BY <2>1, BytesOfType
  <2>3. thread[c].request_xml \in Seq(Bytes)  BY <1>3 DEF thread_type
  <2> HIDE DEF part
  <2> QED  BY <2>2, <2>3
<1> HIDE DEF stream, part, request_xml, ts
<1>9. /\ remain = Len(ts) + Len(client[c].unsent) /\ remain \in Nat
      /\ (remain = 0 => ts = << >> /\ client[c].unsent = << >>)
      /\ (thread[c].remain > len <=> remain > 0)
  BY <1>4, <1>5, <1>6, <1>7
<1> HIDE DEF remain
<1>10. /\ th \in thread_type /\ th.remain = remain /\ th.response_xml = << >>
       /\ th.pc = IF remain > 0 THEN "receive_message" ELSE "parse"
  BY <1>3, <1>4, <1>8, <1>9 DEF thread_type
<1> HIDE DEF th
<1>11. RequestFrame(client[c], th, ts)  BY <1>7, <1>9, <1>10 DEF RequestFrame
<1>12. ResponseFrame(client[c], th, ts, to_client[c])
  <2>1. client[c].pc \in {"send_message", "recv", "gone"}
    BY <1>3, <1>4 DEF ResponseFrame, client_type
  <2>2. CASE client[c].pc = "send_message"
    <3>1. client[c].unsent # << >>  BY <1>3, <2>2 DEF ResponseFrame
    <3>2. th.pc = "receive_message"  BY <1>9, <1>10, <3>1
    <3> QED  BY <1>3, <2>2, <3>2 DEF ResponseFrame
  <2>3. CASE client[c].pc = "recv"
    <3>1. th.pc \in Working  BY <1>10 DEF Working
    <3>2. to_client[c] = << >>  BY <1>3, <1>4, <2>3 DEF ResponseFrame
    <3> QED  BY <1>3, <2>3, <3>1, <3>2 DEF ResponseFrame
  <2>4. CASE client[c].pc = "gone"  BY <1>3, <2>4 DEF ResponseFrame
  <2> QED  BY <2>1, <2>2, <2>3, <2>4
<1>13. TypeOK' /\ Framed'
  BY <1>1, <1>2, <1>3, <1>7, <1>10, <1>11, <1>12, OneChanges DEF server_receive, IInv, TypeOK
<1>14. Locked'
  <2>1. \A d \in Clients : d # c => thread'[d] = thread[d]
    BY <1>2 DEF Becomes, IInv, TypeOK
  <2>2. thread'[c].pc \in {"receive_message", "parse"}
    BY <1>2, <1>10 DEF Becomes, IInv, TypeOK
  <2> QED  BY <2>1, <2>2, LockedStays DEF server_receive, IInv
<1> QED  BY <1>13, <1>14 DEF IInv

(* A step of a thread between a whole request and the first byte of its    *)
(* answer.                                                                 *)
LEMMA WorksOn ==
  ASSUME IInv, NEW c \in Clients, NEW th \in thread_type,
         thread[c].pc \in Working \ {"receive_message"},
         th.pc \in Working \ {"receive_message"},
         th.pc \in {"lock", "execute_command", "execute_writes"} => th.request_xml \in Accepted,
         th.pc \notin {"unlock", "write"} => th.response_xml = << >>,
         thread' = [thread EXCEPT ![c] = th],
         UNCHANGED <<client, to_server, to_client>>,
         mutex' \in Clients \cup {Nobody}, store' \in Store,
         process' \in {"up", "server_closed", "file_closed", "down", "wild"}
  PROVE  /\ TypeOK' /\ Framed'
         /\ \A d \in Clients : thread'[d] = IF d = c THEN th ELSE thread[d]
<1>1. /\ client[c] \in client_type /\ thread[c] \in thread_type
      /\ to_server[c] \in Seq(Unit) /\ to_client[c] \in Seq(Unit)
      /\ RequestFrame(client[c], thread[c], to_server[c])
      /\ ResponseFrame(client[c], thread[c], to_server[c], to_client[c])
  BY Unfold
<1>2. Becomes(c, client[c], th, to_server[c], to_client[c])  BY DEF Becomes, IInv, TypeOK
<1>3. to_server[c] = << >>  BY <1>1 DEF RequestFrame, Working
<1>4. RequestFrame(client[c], th, to_server[c])  BY <1>3 DEF RequestFrame, Working
<1>5. ResponseFrame(client[c], th, to_server[c], to_client[c])
  BY <1>1, <1>3 DEF ResponseFrame, Working
<1>6. TypeOK' /\ Framed'  BY <1>1, <1>2, <1>4, <1>5, OneChanges
<1> QED  BY <1>6 DEF IInv, TypeOK

(* A step that moves no client, no thread and nothing in a stream.         *)
LEMMA NothingMoves ==
  ASSUME IInv, UNCHANGED <<client, thread, to_server, to_client, mutex, store>>,
         process' \in {"up", "server_closed", "file_closed", "down", "wild"}
  PROVE  IInv'
<1>1. TypeOK'  BY DEF IInv, TypeOK
<1>2. Framed'  BY DEF IInv, Framed
<1>3. Locked'  BY DEF IInv, Locked
<1> QED  BY <1>1, <1>2, <1>3 DEF IInv

LEMMA ParseInv == ASSUME IInv, NEW c \in Clients, parse(c)  PROVE IInv'
<1> DEFINE th == [thread[c] EXCEPT
      !.pc = IF thread[c].request_xml \in Accepted THEN "lock" ELSE "bad_request"]
<1>1. thread[c] \in thread_type /\ RequestFrame(client[c], thread[c], to_server[c])  BY Unfold
<1>2. /\ th \in thread_type /\ th.request_xml = thread[c].request_xml
      /\ th.response_xml = thread[c].response_xml
      /\ th.pc = IF thread[c].request_xml \in Accepted THEN "lock" ELSE "bad_request"
  BY <1>1 DEF thread_type
<1>3. thread[c].pc = "parse" /\ thread' = [thread EXCEPT ![c] = th]
  BY DEF parse, IInv, TypeOK
<1> HIDE DEF th
<1>4. thread[c].response_xml = << >>  BY <1>1, <1>3 DEF RequestFrame
<1>5. /\ TypeOK' /\ Framed'
      /\ \A d \in Clients : thread'[d] = IF d = c THEN th ELSE thread[d]
  BY <1>2, <1>3, <1>4, WorksOn, ZenonT(40) DEF parse, Working, IInv, TypeOK
<1>6. Locked'  BY <1>2, <1>5, LockedStays DEF parse, IInv
<1> QED  BY <1>5, <1>6 DEF IInv

LEMMA LockInv == ASSUME IInv, NEW c \in Clients, lock(c)  PROVE IInv'
<1> DEFINE th == [thread[c] EXCEPT !.pc = "execute_command"]
<1>1. thread[c] \in thread_type /\ RequestFrame(client[c], thread[c], to_server[c])  BY Unfold
<1>2. /\ th \in thread_type /\ th.request_xml = thread[c].request_xml
      /\ th.response_xml = thread[c].response_xml /\ th.pc = "execute_command"
  BY <1>1 DEF thread_type
<1>3. /\ thread[c].pc = "lock" /\ mutex = Nobody /\ mutex' = c
      /\ thread' = [thread EXCEPT ![c] = th]
  BY DEF lock, IInv, TypeOK
<1> HIDE DEF th
<1>4. thread[c].response_xml = << >> /\ thread[c].request_xml \in Accepted
  BY <1>1, <1>3 DEF RequestFrame
<1>5. /\ TypeOK' /\ Framed'
      /\ \A d \in Clients : thread'[d] = IF d = c THEN th ELSE thread[d]
  <2>1. /\ UNCHANGED <<client, to_server, to_client>>
        /\ mutex' \in Clients \cup {Nobody} /\ store' \in Store
        /\ process' \in {"up", "server_closed", "file_closed", "down", "wild"}
    BY <1>3 DEF lock, IInv, TypeOK
  <2> QED  BY <1>2, <1>3, <1>4, <2>1, WorksOn DEF Working
<1>6. Locked'
  <2>1. \A d \in Clients : thread[d].pc \notin {"execute_command", "execute_writes", "unlock"}
    BY <1>3, ServerAssumption DEF IInv, Locked
  <2> QED  BY <1>3, <1>5, <2>1 DEF Locked
<1> QED  BY <1>5, <1>6 DEF IInv

LEMMA ExecuteReadsInv == ASSUME IInv, NEW c \in Clients, execute_reads(c)  PROVE IInv'
<1>1. CASE process' = "wild" /\ UNCHANGED <<thread, store>>
  BY <1>1, NothingMoves DEF execute_reads
<1>2. CASE /\ thread' = [thread EXCEPT ![c].pc = "execute_writes", ![c].data = store]
           /\ UNCHANGED <<store, process>>
  <2> DEFINE th == [thread[c] EXCEPT !.pc = "execute_writes", !.data = store]
  <2>1. /\ thread[c] \in thread_type /\ RequestFrame(client[c], thread[c], to_server[c])
        /\ store \in Store
    BY Unfold DEF IInv, TypeOK
  <2>2. /\ th \in thread_type /\ th.request_xml = thread[c].request_xml
        /\ th.response_xml = thread[c].response_xml /\ th.pc = "execute_writes"
    BY <2>1 DEF thread_type
  <2>3. thread[c].pc = "execute_command" /\ thread' = [thread EXCEPT ![c] = th]
    BY <1>2 DEF execute_reads, IInv, TypeOK
  <2> HIDE DEF th
  <2>4. thread[c].response_xml = << >> /\ thread[c].request_xml \in Accepted
    BY <2>1, <2>3 DEF RequestFrame
  <2>5. UNCHANGED <<client, to_server, to_client, mutex, store, process>>
    BY <1>2 DEF execute_reads
  <2>6. /\ TypeOK' /\ Framed'
        /\ \A d \in Clients : thread'[d] = IF d = c THEN th ELSE thread[d]
    BY <2>2, <2>3, <2>4, <2>5, WorksOn DEF Working, IInv, TypeOK
  <2>7. Locked'  BY <2>2, <2>3, <2>5, <2>6, LockedStays DEF IInv
  <2> QED  BY <2>6, <2>7 DEF IInv
<1> QED  BY <1>1, <1>2 DEF execute_reads, FileClosed

LEMMA ExecuteWritesInv == ASSUME IInv, NEW c \in Clients, execute_writes(c)  PROVE IInv'
<1> DEFINE info == thread[c].request_xml
           effect == Effect(thread[c].data, info)
           reply == Reply(thread[c].data, info)
           th == [thread[c] EXCEPT !.pc = "unlock", !.response_xml = reply]
<1>1. /\ thread[c] \in thread_type /\ thread[c].pc = "execute_writes" /\ info \in Accepted
      /\ effect \in Store /\ reply \in Seq(Bytes)
  <2>1. thread[c] \in thread_type /\ RequestFrame(client[c], thread[c], to_server[c])
    BY Unfold
  <2>2. thread[c].pc = "execute_writes" /\ info \in Accepted
    BY <2>1 DEF execute_writes, RequestFrame
  <2> QED  BY <2>1, <2>2, ServerAssumption DEF thread_type
<1>2. UNCHANGED <<client, to_server, to_client, mutex>>  BY DEF execute_writes
<1>3. CASE FileClosed  BY <1>2, <1>3, NothingMoves DEF FileClosed
<1>4. CASE store' = effect /\ process' = "down" /\ UNCHANGED thread
  <2> HIDE DEF effect
  <2>1. TypeOK'  BY <1>1, <1>2, <1>4 DEF IInv, TypeOK
  <2>2. Framed' /\ Locked'  BY <1>2, <1>4 DEF IInv, Framed, Locked
  <2> QED  BY <2>1, <2>2 DEF IInv
<1>5. CASE /\ store' = effect /\ UNCHANGED process
           /\ thread' = [thread EXCEPT ![c].pc = "unlock", ![c].response_xml = reply]
  <2> HIDE DEF effect, reply
  <2>1. thread' = [thread EXCEPT ![c] = th]  BY <1>5 DEF IInv, TypeOK
  <2>2. th \in thread_type /\ th.pc = "unlock"  BY <1>1 DEF thread_type
  <2> HIDE DEF th
  <2>3. UNCHANGED <<client, to_server, to_client, mutex, process>> /\ store' \in Store
    BY <1>1, <1>2, <1>5
  <2>4. /\ TypeOK' /\ Framed'
        /\ \A d \in Clients : thread'[d] = IF d = c THEN th ELSE thread[d]
    BY <1>1, <2>1, <2>2, <2>3, WorksOn DEF Working, IInv, TypeOK
  <2>5. Locked'  BY <1>1, <2>2, <2>3, <2>4, LockedStays DEF IInv
  <2> QED  BY <2>4, <2>5 DEF IInv
<1> QED  BY <1>3, <1>4, <1>5 DEF execute_writes

LEMMA UnlockInv == ASSUME IInv, NEW c \in Clients, unlock(c)  PROVE IInv'
<1> DEFINE th == [thread[c] EXCEPT !.pc = "write"]
<1>1. thread[c] \in thread_type  BY Unfold
<1>2. th \in thread_type /\ th.pc = "write"  BY <1>1 DEF thread_type
<1>3. thread[c].pc = "unlock" /\ mutex' = Nobody /\ thread' = [thread EXCEPT ![c] = th]
  BY DEF unlock, IInv, TypeOK
<1> HIDE DEF th
<1>4. /\ TypeOK' /\ Framed'
      /\ \A d \in Clients : thread'[d] = IF d = c THEN th ELSE thread[d]
  BY <1>2, <1>3, WorksOn DEF unlock, Working, IInv, TypeOK
<1>5. Locked'
  <2>1. \A d \in Clients :
          d # c => thread[d].pc \notin {"execute_command", "execute_writes", "unlock"}
    BY <1>3 DEF IInv, Locked
  <2> QED  BY <1>2, <1>4, <2>1 DEF Locked
<1> QED  BY <1>4, <1>5 DEF IInv

(* A write gives the client what it has to hold next, or the client is     *)
(* gone.                                                                   *)
LEMMA WriteInv ==
  ASSUME IInv, NEW c \in Clients,
         NEW units \in Seq(Unit), NEW written \in thread_type, NEW failed \in thread_type,
         Write(c, units, written, failed),
         UNCHANGED <<client, to_server, mutex, store>>,
         written.pc \notin {"execute_command", "execute_writes", "unlock"},
         failed.pc \notin {"execute_command", "execute_writes", "unlock"},
         RequestFrame(client[c], written, to_server[c]),
         ~ Gone(c) => ResponseFrame(client[c], written, to_server[c], to_client[c] \o units),
         Gone(c) => RequestFrame(client[c], failed, to_server[c])
  PROVE  IInv'
<1>1. /\ client[c] \in client_type /\ thread[c] \in thread_type
      /\ to_server[c] \in Seq(Unit) /\ to_client[c] \in Seq(Unit)
      /\ ResponseFrame(client[c], thread[c], to_server[c], to_client[c])
  BY Unfold
<1>2. \A th \in thread_type, tc \in Seq(Unit) :
        /\ Becomes(c, client[c], th, to_server[c], tc)
        /\ process' \in {"up", "server_closed", "file_closed", "down", "wild"}
        /\ RequestFrame(client[c], th, to_server[c])
        /\ ResponseFrame(client[c], th, to_server[c], tc)
        /\ th.pc \notin {"execute_command", "execute_writes", "unlock"}
        => IInv'
  <2> SUFFICES ASSUME NEW th \in thread_type, NEW tc \in Seq(Unit),
                      Becomes(c, client[c], th, to_server[c], tc),
                      process' \in {"up", "server_closed", "file_closed", "down", "wild"},
                      RequestFrame(client[c], th, to_server[c]),
                      ResponseFrame(client[c], th, to_server[c], tc),
                      th.pc \notin {"execute_command", "execute_writes", "unlock"}
               PROVE  IInv'
    OBVIOUS
  <2>1. TypeOK' /\ Framed'  BY <1>1, OneChanges DEF IInv, TypeOK
  <2>2. \A d \in Clients : thread'[d] = IF d = c THEN th ELSE thread[d]
    BY DEF Becomes, IInv, TypeOK
  <2>3. Locked'  BY <2>2, LockedStays DEF IInv
  <2> QED  BY <2>1, <2>3 DEF IInv
<1>3. CASE ~ Gone(c)
  <2> DEFINE tc == to_client[c] \o units
  <2>1. tc \in Seq(Unit)  BY <1>1
  <2>2. Becomes(c, client[c], written, to_server[c], tc) /\ process' = process
    BY <1>3 DEF Write, Becomes, IInv, TypeOK
  <2>3. ResponseFrame(client[c], written, to_server[c], tc)  BY <1>3
  <2> HIDE DEF tc
  <2> QED  BY <1>2, <2>1, <2>2, <2>3 DEF IInv, TypeOK
<1>4. CASE Gone(c)
  <2>1. \A th : ResponseFrame(client[c], th, to_server[c], to_client[c])
    BY <1>1, <1>4 DEF ResponseFrame, Gone
  <2>2. CASE /\ to_client' = [to_client EXCEPT ![c] = to_client[c]]
             /\ thread' = [thread EXCEPT ![c] = written] /\ process' = process
    <3>1. Becomes(c, client[c], written, to_server[c], to_client[c])
      BY <2>2 DEF Becomes, IInv, TypeOK
    <3> QED  BY <1>1, <1>2, <2>1, <2>2, <3>1 DEF IInv, TypeOK
  <2>3. CASE /\ thread' = [thread EXCEPT ![c] = failed]
             /\ to_client' = to_client /\ process' = process
    <3>1. Becomes(c, client[c], failed, to_server[c], to_client[c])
      BY <2>3 DEF Becomes, IInv, TypeOK
    <3> QED  BY <1>1, <1>2, <1>4, <2>1, <2>3, <3>1 DEF IInv, TypeOK
  <2>4. CASE process' = "down" /\ to_client' = to_client /\ thread' = thread
    BY <2>4, NothingMoves
  <2> QED  BY <1>4, <2>2, <2>3, <2>4 DEF Write
<1> QED  BY <1>3, <1>4

LEMMA BadRequestInv == ASSUME IInv, NEW c \in Clients, bad_request(c)  PROVE IInv'
<1> DEFINE th == [thread[c] EXCEPT !.pc = "recv"]
<1>1. /\ thread[c] \in thread_type /\ to_client[c] \in Seq(Unit)
      /\ RequestFrame(client[c], thread[c], to_server[c])
      /\ ResponseFrame(client[c], thread[c], to_server[c], to_client[c])
      /\ client[c] \in client_type
  BY Unfold
<1>2. /\ thread[c].pc = "bad_request" /\ Write(c, << ErrorText >>, th, th)
      /\ UNCHANGED <<client, to_server, mutex, store>>
  BY DEF bad_request
<1>3. to_server[c] = << >> /\ thread[c].response_xml = << >>  BY <1>1, <1>2 DEF RequestFrame
<1>4. th \in thread_type /\ th.pc = "recv" /\ th.response_xml = << >>
  BY <1>1, <1>3 DEF thread_type
<1> HIDE DEF th
<1>5. RequestFrame(client[c], th, to_server[c])  BY <1>3, <1>4 DEF RequestFrame
<1>6. ASSUME ~ Gone(c)
      PROVE  ResponseFrame(client[c], th, to_server[c], to_client[c] \o << ErrorText >>)
  <2>1. /\ client[c].pc = "recv" /\ to_client[c] = << >>
        /\ client[c].unsent = << >> /\ client[c].response = << >>
    BY <1>1, <1>2, <1>3, <1>6 DEF ResponseFrame, Gone, client_type
  <2>2. to_client[c] \o << ErrorText >> = << ErrorText >>  BY <2>1
  <2> QED  BY <1>3, <1>4, <2>1, <2>2 DEF ResponseFrame
<1>7. << ErrorText >> \in Seq(Unit)
  <2>1. ErrorText \in Unit  BY UnitType
  <2> QED  BY <2>1
<1> QED  BY <1>2, <1>4, <1>5, <1>6, <1>7, WriteInv

LEMMA WriteHeaderInv == ASSUME IInv, NEW c \in Clients, server_write_header(c)  PROVE IInv'
<1> DEFINE response_xml == thread[c].response_xml
           header == Header(Len(response_xml))
           th == [thread[c] EXCEPT !.pc = "send_message"]
           ended == [thread[c] EXCEPT !.pc = "ended"]
<1>1. /\ thread[c] \in thread_type /\ to_client[c] \in Seq(Unit)
      /\ RequestFrame(client[c], thread[c], to_server[c])
      /\ ResponseFrame(client[c], thread[c], to_server[c], to_client[c])
      /\ client[c] \in client_type
  BY Unfold
<1>2. thread[c].pc = "write" /\ UNCHANGED <<client, to_server, mutex, store>>
  BY DEF server_write_header
<1>3. CASE response_xml = << >>
  BY <1>3, NothingMoves DEF server_write_header
<1>4. CASE response_xml # << >>
  <2>1. Write(c, << header >>, th, ended)  BY <1>4 DEF server_write_header
  <2>2. to_server[c] = << >>  BY <1>1, <1>2 DEF RequestFrame
  <2>3. /\ th \in thread_type /\ th.pc = "send_message"
        /\ th.response_xml = response_xml
        /\ ended \in thread_type /\ ended.pc = "ended"
    BY <1>1 DEF thread_type
  <2>4. response_xml \in Seq(Bytes) /\ Len(response_xml) \in Nat /\ Len(response_xml) > 0
    BY <1>1, <1>4, LenType DEF thread_type
  <2>5. << header >> \in Seq(Unit) /\ Announces(<< header >>, response_xml)
    <3>1. header \in Unit  BY <2>4, UnitType
    <3> HIDE DEF response_xml
    <3>2. /\ << header >> # << >> /\ Len(<< header >>) = 1 /\ << header >>[1] = header
      OBVIOUS
    <3>3. Announces(<< header >>, response_xml)  BY <2>4, <3>2 DEF Announces, BodyFrom
    <3> HIDE DEF header
    <3> QED  BY <3>1, <3>3
  <2> HIDE DEF header, th, ended, response_xml
  <2>6. RequestFrame(client[c], th, to_server[c])  BY <1>4, <2>2, <2>3 DEF RequestFrame
  <2>7. ASSUME ~ Gone(c)
        PROVE  ResponseFrame(client[c], th, to_server[c], to_client[c] \o << header >>)
    <3>1. /\ client[c].pc = "recv" /\ to_client[c] = << >>
          /\ client[c].unsent = << >> /\ client[c].response = << >>
      BY <1>1, <1>2, <2>2, <2>7 DEF ResponseFrame, Gone, client_type
    <3>2. to_client[c] \o << header >> = << header >>  BY <2>5, <3>1
    <3> QED  BY <2>2, <2>3, <2>5, <3>1, <3>2 DEF ResponseFrame
  <2>8. ASSUME Gone(c)
        PROVE  RequestFrame(client[c], ended, to_server[c])
    BY <2>2, <2>3, <2>8 DEF RequestFrame, Gone
  <2> QED  BY <1>2, <2>1, <2>3, <2>5, <2>6, <2>7, <2>8, WriteInv
<1> QED  BY <1>3, <1>4

LEMMA WritePacketInv == ASSUME IInv, NEW c \in Clients, server_write_packet(c)  PROVE IInv'
<1> DEFINE response_xml == thread[c].response_xml
           stream == to_client[c]
           data == Packet(response_xml)
           rest == After(response_xml, Len(data))
           body == Body(data)
           end == [thread[c] EXCEPT !.pc = "recv", !.response_xml = << >>]
           th == IF rest = << >> THEN end ELSE [thread[c] EXCEPT !.response_xml = rest]
           tc == stream \o body
<1>1. /\ thread[c] \in thread_type /\ stream \in Seq(Unit)
      /\ RequestFrame(client[c], thread[c], to_server[c])
      /\ ResponseFrame(client[c], thread[c], to_server[c], stream)
      /\ client[c] \in client_type
  BY Unfold
<1>2. /\ thread[c].pc = "send_message" /\ UNCHANGED <<client, to_server, mutex, store>>
      /\ Write(c, body, th, end)
  BY DEF server_write_packet
<1>3. to_server[c] = << >> /\ response_xml # << >> /\ response_xml \in Seq(Bytes)
  BY <1>1, <1>2 DEF RequestFrame, thread_type
<1>4. /\ data \in Seq(Bytes) /\ Len(data) \in 0 .. Len(response_xml) /\ Len(data) > 0
  BY <1>3, PacketType
<1>5. rest \in Seq(Bytes) /\ Len(rest) = Len(response_xml) - Len(data)
  BY <1>3, <1>4, AfterType
<1>6. body \in Seq(Unit) /\ Len(body) = Len(data) /\ BodyFrom(body, 1)
  BY <1>4, BodyType
<1>7. Len(response_xml) \in Nat /\ Len(stream) \in Nat /\ (stream # << >> => Len(stream) > 0)
  BY <1>1, <1>3, LenType
<1> HIDE DEF stream, data, rest, body
<1>8. /\ tc \in Seq(Unit) /\ Len(tc) = Len(stream) + Len(data) /\ tc # << >>
      /\ (stream # << >> => tc[1] = stream[1])
  <2>1. /\ tc \in Seq(Unit) /\ Len(tc) = Len(stream) + Len(body)
        /\ Len(stream) > 0 => tc[1] = stream[1]
    BY <1>1, <1>6, JoinType
  <2> HIDE DEF tc
  <2> QED  BY <1>4, <1>6, <1>7, <2>1, LenType
<1>9. /\ Len(tc) + Len(rest) = Len(stream) + Len(response_xml)
      /\ Len(tc) - 1 + Len(rest) = Len(stream) - 1 + Len(response_xml)
  <2>1. \A a, b \in Nat : \A n \in 0 .. b :
          (a + n) + (b - n) = a + b /\ (a + n) - 1 + (b - n) = a - 1 + b
    OBVIOUS
  <2>2. /\ Len(data) \in 0 .. Len(response_xml) /\ Len(response_xml) \in Nat
        /\ Len(stream) \in Nat
    BY <1>4, <1>7
  <2>3. Len(tc) = Len(stream) + Len(data) /\ Len(rest) = Len(response_xml) - Len(data)
    BY <1>5, <1>8
  <2> HIDE DEF tc, response_xml
  <2> QED  BY <2>1, <2>2, <2>3
<1>10. /\ th \in thread_type /\ th.response_xml = rest
       /\ th.pc = IF rest = << >> THEN "recv" ELSE "send_message"
       /\ end \in thread_type /\ end.pc = "recv" /\ end.response_xml = << >>
  <2>1. << >> \in Seq(Bytes)  OBVIOUS
  <2> QED  BY <1>1, <1>2, <1>5, <2>1 DEF thread_type
<1> HIDE DEF end, th
<1>11. RequestFrame(client[c], th, to_server[c])  BY <1>3, <1>10 DEF RequestFrame
<1>12. RequestFrame(client[c], end, to_server[c])  BY <1>3, <1>10 DEF RequestFrame
<1>13. ASSUME ~ Gone(c)
       PROVE  ResponseFrame(client[c], th, to_server[c], tc)
  <2>1. /\ client[c].pc \in {"recv", "receive_message"} /\ client[c].unsent = << >>
        /\ client[c].pc = "recv" => client[c].response = << >> /\ Announces(stream, response_xml)
    BY <1>1, <1>2, <1>3, <1>13 DEF ResponseFrame, Working, Gone, client_type
  <2>2. CASE client[c].pc = "recv"
    <3>1. Announces(stream, response_xml)  BY <2>1, <2>2
    <3>2. BodyFrom(tc, 2)  BY <1>1, <1>6, <1>7, <3>1, BodyJoin DEF Announces
    <3> HIDE DEF tc, response_xml
    <3>3. Announces(tc, rest)  BY <1>8, <1>9, <3>1, <3>2 DEF Announces
    <3> QED  BY <1>3, <1>10, <2>1, <2>2, <3>3 DEF ResponseFrame
  <2>3. CASE client[c].pc = "receive_message"
    <3>1. /\ BodyFrom(stream, 1) /\ client[c].remain = Len(stream) + Len(response_xml)
          /\ client[c].remain > 0
      BY <1>1, <2>3 DEF ResponseFrame
    <3>2. BodyFrom(tc, 1)  BY <1>1, <1>6, <1>7, <3>1, BodyJoin
    <3> HIDE DEF tc, response_xml
    <3> QED  BY <1>3, <1>9, <1>10, <2>1, <2>3, <3>1, <3>2 DEF ResponseFrame
  <2> QED  BY <2>1, <2>2, <2>3
<1> QED  BY <1>2, <1>6, <1>10, <1>11, <1>12, <1>13, WriteInv DEF stream

LEMMA MainInv == ASSUME IInv, main  PROVE IInv'
<1>1. process' \in {"up", "server_closed", "file_closed", "down", "wild"}  BY DEF main
<1> QED  BY <1>1, NothingMoves DEF main

LEMMA NextInv == ASSUME IInv, [Next]_vars  PROVE IInv'
<1>1. CASE main  BY <1>1, MainInv
<1>2. ASSUME NEW c \in Clients, connect(c) \/ send_header(c) \/ leave(c)  PROVE IInv'
  BY <1>2, ConnectInv, SendHeaderInv, LeaveInv
<1>3. ASSUME NEW c \in Clients, ClientStep(c)  PROVE IInv'
  BY <1>3, SendPacketInv, ClientHeaderInv, ClientReceiveInv DEF ClientStep
<1>4. ASSUME NEW c \in Clients, accept(c)  PROVE IInv'  BY <1>4, AcceptInv
<1>5. ASSUME NEW c \in Clients, work_with_client(c)  PROVE IInv'
  BY <1>5, ServerHeaderInv, ServerReceiveInv, ParseInv, BadRequestInv, LockInv,
     ExecuteReadsInv, ExecuteWritesInv, UnlockInv, WriteHeaderInv, WritePacketInv
  DEF work_with_client
<1>6. CASE UNCHANGED vars
  <2>1. process' \in {"up", "server_closed", "file_closed", "down", "wild"}
    BY <1>6 DEF vars, IInv, TypeOK
  <2> QED  BY <1>6, <2>1, NothingMoves DEF vars
<1> QED  BY <1>1, <1>2, <1>3, <1>4, <1>5, <1>6 DEF Next

-----------------------------------------------------------------------------
(* What is where, at all times.                                            *)
LEMMA Invariant == Spec => []IInv
<1>1. Init => IInv  BY InitInv
<1>2. IInv /\ [Next]_vars => IInv'  BY NextInv
<1> QED  BY <1>1, <1>2, PTL DEF Spec

(* No variable of the server or of a client ever holds a value it should   *)
(* not: no negative remain, no stray unit in a stream.                     *)
THEOREM TypeCorrect == Spec => []TypeOK
<1>1. IInv => TypeOK  BY DEF IInv
<1> QED  BY <1>1, Invariant, PTL

(* However many clients there are and however they end, at most one thread *)
(* is in execute_command (server.c:79-81): whoever is there holds the      *)
(* mutex, and the mutex has one holder.                                    *)
THEOREM MutualExclusionHolds == Spec => []MutualExclusion
<1>1. IInv => MutualExclusion
  BY DEF IInv, Locked, MutualExclusion, Executing
<1> QED  BY <1>1, Invariant, PTL

(* For every BUFSIZ and every way messages are cut up, a client that may   *)
(* ask again finds nothing of its last request or answer in the streams or *)
(* in its thread (the two receive_message loops and the two senders agree  *)
(* on where a message ends).                                               *)
THEOREM NothingLeftOverHolds == Spec => []NothingLeftOver
<1>1. IInv => NothingLeftOver
  BY DEF IInv, Framed, Frame, ResponseFrame, NothingLeftOver
<1> QED  BY <1>1, Invariant, PTL
=============================================================================
