-------------------------- MODULE WsTransport_proofs --------------------------
(***************************************************************************)
(* WsTransport, for any set of publishers and any number of messages: what *)
(* they send is delivered in order and without a gap, run() leaks no       *)
(* connection, and after stop() and the join next to nothing and nothing   *)
(* is delivered.                                                           *)
(***************************************************************************)
EXTENDS WsTransport, Lists_proofs

(***************************************************************************)
(* The inductive invariant.  Every message is counted, also of publishers  *)
(* that were hung up on: their stream is not read any more.  Whether run() *)
(* has looked at running_ since stop() is known by where it is.  And a     *)
(* publisher that has sent a header has a message left to send.            *)
(***************************************************************************)
Counted ==
  \A c \in Clients :
    /\ \A i \in 1 .. Len(Of(c)) : Of(c)[i][2] = i
    /\ \A i \in 1 .. Len(Unread(c)) : Unread(c)[i].id = Len(Of(c)) + i
    /\ Len(Of(c)) + Len(Unread(c)) = sent[c]

Stopping ==
  /\ main = "starting" <=> server = "none"
  /\ main = "done" => server = "exit"
  /\ main \in {"starting", "serving"} => late = 0
  /\ ~running => late <= 1 /\ (server \in {"header", "payload"} => late = 0)

Bounded == \A c \in Clients : client[c] = "sending" => sent[c] < MaxMessages

IInv == TypeOK /\ Counted /\ NoLeakedConnection /\ Stopping /\ Bounded

LEMMA KeptEmpty ==
  ASSUME NEW S PROVE Kept(<< >>, S) = << >>
<1>1. << >> \in Seq({})
  OBVIOUS
<1>2. PICK F : KeptSteps(F, << >>, S)
  BY <1>1, KeptByStep
<1> QED
  BY <1>2 DEF KeptSteps

LEMMA InitIInv == Init => IInv
<1> SUFFICES ASSUME Init PROVE IInv
  OBVIOUS
<1> USE DEF Init
<1>1. TypeOK
  <2>1. << >> \in Seq(Clients) /\ << >> \in Seq(Piece)
        /\ << >> \in Seq(Clients \X (1 .. MaxMessages))
    OBVIOUS
  <2>2. 0 \in 0 .. MaxMessages
    BY MaxMessagesAssumption
  <2> QED
    BY <2>1, <2>2 DEF TypeOK, Serving
<1>2. \A c \in Clients : Of(c) = << >> /\ Unread(c) = << >>
  BY KeptEmpty DEF Of, Unread
<1>3. Counted
  BY <1>2 DEF Counted
<1> QED
  BY <1>1, <1>3 DEF IInv, NoLeakedConnection, Stopping, Bounded
-----------------------------------------------------------------------------
(* What a step can do to the messages: a publisher's piece is added, run() *)
(* reads the first one, and a payload that is read is delivered.           *)
LEMMA Types ==
  ASSUME IInv
  PROVE  /\ delivered \in Seq(Clients \X Nat)
         /\ stream \in [Clients -> Seq(Piece)]
         /\ \A c \in Clients : /\ Of(c) \in Seq(Clients \X Nat)
                              /\ Unread(c) \in Seq(Piece)
<1>1. delivered \in Seq(Clients \X Nat)
  <2>1. \A i \in 1 .. Len(delivered) : delivered[i] \in Clients \X (1 .. MaxMessages)
    BY ElementOfSeq DEF IInv, TypeOK
  <2>2. 1 .. MaxMessages \subseteq Nat
    BY MaxMessagesAssumption
  <2>3. delivered = [i \in 1 .. Len(delivered) |-> delivered[i]] /\ Len(delivered) \in Nat
    BY LenProperties DEF IInv, TypeOK
  <2> QED
    BY <2>1, <2>2, <2>3
<1>2. stream \in [Clients -> Seq(Piece)]
  BY DEF IInv, TypeOK
<1>3. ASSUME NEW c \in Clients
      PROVE  Of(c) \in Seq(Clients \X Nat) /\ Unread(c) \in Seq(Piece)
  BY <1>1, <1>2, KeptElements DEF Of, Unread
<1> QED
  BY <1>1, <1>2, <1>3

LEMMA PutUnread ==
  ASSUME IInv, NEW c \in Clients, NEW piece \in Piece, Put(c, piece)
  PROVE  /\ stream' \in [Clients -> Seq(Piece)]
         /\ \A d \in Clients :
              Unread(d)' = IF d = c /\ piece.kind = "payload"
                           THEN Append(Unread(d), piece) ELSE Unread(d)
<1>1. stream' = [stream EXCEPT ![c] = Append(@, piece)] /\ stream[c] \in Seq(Piece)
  BY Types DEF Put
<1>2. Append(stream[c], piece) \in Seq(Piece)
  BY <1>1, AppendProperties
<1>3. piece \in [kind : {"payload"}, id : Nat] <=> piece.kind = "payload"
  BY DEF Piece
<1> DEFINE S == [kind : {"payload"}, id : Nat]
<1> HIDE DEF S
<1>4. Kept(Append(stream[c], piece), S)
        = IF piece \in S THEN Append(Kept(stream[c], S), piece) ELSE Kept(stream[c], S)
  BY <1>1, KeptAppend
<1> QED
  BY <1>1, <1>2, <1>3, <1>4, Types DEF Unread, S

LEMMA ReceiveUnread ==
  ASSUME IInv, current \in Clients, NEW kind, Receive(kind)
  PROVE  /\ stream' \in [Clients -> Seq(Piece)]
         /\ Head(stream[current]) \in Piece /\ Head(stream[current]).kind = kind
         /\ \A d \in Clients :
              /\ Unread(d)' \in Seq(Piece)
              /\ Unread(d) = IF d = current /\ kind = "payload"
                             THEN <<Head(stream[current])>> \o Unread(d)'
                             ELSE Unread(d)'
<1> DEFINE s == stream[current]
           S == [kind : {"payload"}, id : Nat]
<1>1. /\ stream' = [stream EXCEPT ![current] = Tail(@)]
      /\ s \in Seq(Piece) /\ s # << >> /\ Head(s).kind = kind
  BY Types DEF Receive
<1>2. Tail(s) \in Seq(Piece) /\ Head(s) \in Piece
  BY <1>1, HeadTailProperties
<1>3. Head(s) \in S <=> kind = "payload"
  BY <1>1, <1>2 DEF Piece
<1> HIDE DEF S, s
<1>4. Kept(s, S) = IF Head(s) \in S THEN <<Head(s)>> \o Kept(Tail(s), S)
                   ELSE Kept(Tail(s), S)
  BY <1>1, KeptTail
<1>5. stream' \in [Clients -> Seq(Piece)] /\ stream'[current] = Tail(s)
      /\ \A d \in Clients : d # current => stream'[d] = stream[d]
  BY <1>1, <1>2, Types DEF s
<1>6. \A d \in Clients : Kept(stream'[d], S) \in Seq(Piece)
  BY <1>5, KeptElements
<1> QED
  BY <1>1, <1>2, <1>3, <1>4, <1>5, <1>6 DEF Unread, S, s

LEMMA CountedPut ==
  ASSUME IInv, NEW c \in Clients, NEW piece \in Piece, Put(c, piece),
         UNCHANGED delivered,
         IF piece.kind = "payload"
         THEN piece.id = sent[c] + 1 /\ sent' = [sent EXCEPT ![c] = @ + 1]
         ELSE sent' = sent
  PROVE  Counted'
<1> SUFFICES ASSUME NEW d \in Clients
             PROVE  /\ \A i \in 1 .. Len(Of(d)) : Of(d)[i][2] = i
                    /\ \A i \in 1 .. Len(Unread(d)') :
                         Unread(d)'[i].id = Len(Of(d)) + i
                    /\ Len(Of(d)) + Len(Unread(d)') = sent'[d]
  BY DEF Counted, Of
<1> DEFINE u == Unread(d)
<1>1. /\ u \in Seq(Piece) /\ Len(u) \in Nat /\ Len(Of(d)) \in Nat
      /\ Unread(d)' = IF d = c /\ piece.kind = "payload" THEN Append(u, piece) ELSE u
  BY Types, PutUnread, LenProperties
<1>2. /\ \A i \in 1 .. Len(Of(d)) : Of(d)[i][2] = i
      /\ \A i \in 1 .. Len(u) : u[i].id = Len(Of(d)) + i
      /\ Len(Of(d)) + Len(u) = sent[d]
      /\ sent \in [Clients -> 0 .. MaxMessages]
  BY DEF IInv, Counted, TypeOK
<1>3. CASE d = c /\ piece.kind = "payload"
  <2>1. /\ Len(Append(u, piece)) = Len(u) + 1 /\ Append(u, piece)[Len(u) + 1] = piece
        /\ \A i \in 1 .. Len(u) : Append(u, piece)[i] = u[i]
    BY <1>1, AppendProperties
  <2>2. sent'[d] = sent[d] + 1 /\ piece.id = Len(Of(d)) + (Len(u) + 1)
    BY <1>1, <1>2, <1>3
  <2> HIDE DEF u
  <2>3. ASSUME NEW i \in 1 .. Len(u) + 1
        PROVE  Append(u, piece)[i].id = Len(Of(d)) + i
    <3>1. i \in 1 .. Len(u) \/ i = Len(u) + 1
      BY <1>1
    <3> QED
      BY <1>2, <2>1, <2>2, <3>1
  <2> QED
    BY <1>1, <1>2, <1>3, <2>1, <2>2, <2>3
<1>4. CASE ~(d = c /\ piece.kind = "payload")
  BY <1>1, <1>2, <1>4
<1> QED
  BY <1>3, <1>4

LEMMA CountedRead ==
  ASSUME IInv, current \in Clients, NEW kind, Receive(kind), kind # "payload",
         UNCHANGED <<delivered, sent>>
  PROVE  Counted'
<1>1. \A d \in Clients : Unread(d)' = Unread(d) /\ Of(d)' = Of(d)
  BY ReceiveUnread DEF Of
<1>2. ASSUME NEW d \in Clients
      PROVE  /\ \A i \in 1 .. Len(Of(d)) : Of(d)[i][2] = i
             /\ \A i \in 1 .. Len(Unread(d)) : Unread(d)[i].id = Len(Of(d)) + i
             /\ Len(Of(d)) + Len(Unread(d)) = sent[d]
  BY DEF IInv, Counted
<1>3. ASSUME NEW d \in Clients
      PROVE  /\ \A i \in 1 .. Len(Of(d)') : Of(d)'[i][2] = i
             /\ \A i \in 1 .. Len(Unread(d)') : Unread(d)'[i].id = Len(Of(d)') + i
             /\ Len(Of(d)') + Len(Unread(d)') = sent'[d]
  <2>1. Unread(d)' = Unread(d) /\ Of(d)' = Of(d) /\ sent'[d] = sent[d]
    BY <1>1
  <2> QED
    BY <1>2, <2>1
<1> QED
  BY <1>3 DEF Counted

(* The payload that run() reads is the next message of its publisher.      *)
LEMMA CountedDeliver ==
  ASSUME IInv, current \in Clients, Receive("payload"),
         Deliver(current, Head(stream[current]).id), UNCHANGED sent
  PROVE  /\ Counted'
         /\ Head(stream[current]).id \in 1 .. MaxMessages
<1>0. PICK c \in Clients : c = current
  OBVIOUS
<1> DEFINE h == Head(stream[c])
           e == <<c, h.id>>
<1>1. /\ h \in Piece /\ h.id \in Nat /\ delivered' = Append(delivered, e)
      /\ e \in Clients \X Nat
  BY <1>0, ReceiveUnread DEF Deliver, Piece
<1>2. ASSUME NEW d \in Clients
      PROVE  Of(d)' = IF d = c THEN Append(Of(d), e) ELSE Of(d)
  <2> DEFINE S == {d} \X Nat
             T == Clients \X Nat
  <2>1. (e \in S <=> d = c) /\ e \in T /\ delivered \in Seq(T)
    BY <1>1, Types
  <2> HIDE DEF e, S, T
  <2>2. Kept(Append(delivered, e), S)
          = IF e \in S THEN Append(Kept(delivered, S), e) ELSE Kept(delivered, S)
    BY <2>1, KeptAppend
  <2> QED
    BY <1>1, <2>1, <2>2 DEF Of, S
<1>3. /\ \A d \in Clients : Len(Of(d)) \in Nat /\ Len(Unread(d)) \in Nat
      /\ \A d \in Clients : Of(d) \in Seq(Clients \X Nat)
      /\ sent \in [Clients -> 0 .. MaxMessages]
  BY Types, LenProperties DEF IInv, TypeOK
<1>4. ASSUME NEW d \in Clients
      PROVE  /\ \A i \in 1 .. Len(Of(d)) : Of(d)[i][2] = i
             /\ \A i \in 1 .. Len(Unread(d)) : Unread(d)[i].id = Len(Of(d)) + i
             /\ Len(Of(d)) + Len(Unread(d)) = sent[d]
  BY DEF IInv, Counted
<1> DEFINE r == Unread(c)'
<1>5. r \in Seq(Piece) /\ Len(r) \in Nat /\ Unread(c) = <<h>> \o r
  BY <1>0, ReceiveUnread, LenProperties
<1> HIDE DEF h, r
<1>6. /\ Len(Unread(c)) = Len(r) + 1 /\ Unread(c)[1] = h
      /\ \A i \in 1 .. Len(r) : Unread(c)[i + 1] = r[i]
  <2>1. <<h>> \in Seq(Piece) /\ Len(<<h>>) = 1 /\ <<h>>[1] = h
    BY <1>1 DEF h
  <2>2. /\ Len(Unread(c)) = 1 + Len(r)
        /\ \A i \in 1 .. 1 + Len(r) :
             Unread(c)[i] = IF i <= 1 THEN <<h>>[i] ELSE r[i - 1]
    BY <1>5, <2>1, ConcatProperties
  <2>3. \A i \in 1 .. Len(r) : i + 1 \in 1 .. 1 + Len(r) /\ i + 1 > 1 /\ i + 1 - 1 = i
    BY <1>5
  <2> QED
    BY <1>5, <2>1, <2>2, <2>3
<1>7. h.id = Len(Of(c)) + 1 /\ h.id \in 1 .. MaxMessages
  <2>1. 1 \in 1 .. Len(Unread(c))
    BY <1>5, <1>6
  <2>2. h.id = Len(Of(c)) + 1 /\ Len(Of(c)) + Len(r) + 1 = sent[c]
    <3>1. Len(Of(c)) \in Nat /\ Len(Of(c)) + Len(Unread(c)) = sent[c]
      BY <1>3, <1>4
    <3>2. Unread(c)[1].id = Len(Of(c)) + 1
      BY <1>4, <2>1
    <3> QED
      BY <1>5, <1>6, <3>1, <3>2
  <2> QED
    BY <1>3, <1>5, <2>2, MaxMessagesAssumption
<1>8. /\ Len(Append(Of(c), e)) = Len(Of(c)) + 1
      /\ Append(Of(c), e)[Len(Of(c)) + 1] = e
      /\ \A i \in 1 .. Len(Of(c)) : Append(Of(c), e)[i] = Of(c)[i]
  BY <1>1, <1>3, AppendProperties
<1>9. ASSUME NEW d \in Clients
      PROVE  /\ \A i \in 1 .. Len(Of(d)') : Of(d)'[i][2] = i
             /\ \A i \in 1 .. Len(Unread(d)') : Unread(d)'[i].id = Len(Of(d)') + i
             /\ Len(Of(d)') + Len(Unread(d)') = sent[d]
  <2>1. CASE d = c
    <3>1. Of(d)' = Append(Of(c), e) /\ Unread(d)' = r
      BY <1>2, <2>1 DEF r
    <3>2. Len(Of(d)') = Len(Of(c)) + 1
      BY <1>8, <3>1
    <3>3. ASSUME NEW i \in 1 .. Len(Of(d)')
          PROVE  Of(d)'[i][2] = i
      <4>1. i \in 1 .. Len(Of(c)) \/ i = Len(Of(c)) + 1
        <5>1. Len(Of(c)) \in Nat
          BY <1>3
        <5> QED
          BY <3>2, <5>1
      <4> QED
        BY <1>4, <1>7, <1>8, <3>1, <4>1
    <3>4. ASSUME NEW i \in 1 .. Len(r)
          PROVE  r[i].id = Len(Of(d)') + i
      <4>1. i + 1 \in 1 .. Len(Unread(c)) /\ r[i] = Unread(c)[i + 1]
        BY <1>5, <1>6
      <4>2. r[i].id = Len(Of(c)) + (i + 1)
        BY <1>4, <4>1
      <4> QED
        BY <1>3, <3>2, <4>2
    <3>5. Len(Of(d)') + Len(r) = sent[d]
      <4>1. Len(Of(c)) \in Nat /\ Len(Of(c)) + Len(Unread(c)) = sent[c]
        BY <1>3, <1>4
      <4> QED
        BY <1>5, <1>6, <2>1, <3>2, <4>1
    <3> QED
      BY <3>1, <3>3, <3>4, <3>5
  <2>2. CASE d # c
    <3>1. Of(d)' = Of(d) /\ Unread(d)' = Unread(d)
      BY <1>0, <1>2, <2>2, ReceiveUnread
    <3> QED
      BY <1>4, <3>1
  <2> QED
    BY <2>1, <2>2
<1>10. Counted'
  BY <1>9 DEF Counted
<1> QED
  BY <1>0, <1>7, <1>10 DEF h

LEMMA CountedStays ==
  ASSUME IInv, UNCHANGED <<stream, delivered, sent>> PROVE Counted'
<1>1. \A c \in Clients : Of(c)' = Of(c) /\ Unread(c)' = Unread(c)
  BY DEF Of, Unread
<1> QED
  BY <1>1 DEF IInv, Counted
-----------------------------------------------------------------------------
States == {"idle", "connecting", "waiting", "open", "sending", "closing", "gone",
           "silent"}

(* A connected publisher goes on; the server is not concerned.             *)
LEMMA PublisherGoesOn ==
  ASSUME IInv, UNCHANGED <<mainVars, serverVars, answered, hungup, historyVars>>,
         NEW c \in Clients, NEW to \in States, client[c] # "idle",
         client' = [client EXCEPT ![c] = to],
         to = "sending" => sent'[c] < MaxMessages,
         \A d \in Clients : d # c => sent'[d] = sent[d],
         sent' \in [Clients -> 0 .. MaxMessages],
         stream' \in [Clients -> Seq(Piece)], Counted'
  PROVE  IInv'
<1> USE DEF IInv, mainVars, serverVars, historyVars
<1>1. /\ client' \in [Clients -> States] /\ client \in [Clients -> States]
      /\ \A d \in Clients : d # c => client'[d] = client[d]
  BY DEF TypeOK, States
<1>2. TypeOK'
  BY <1>1 DEF TypeOK, States
<1>3. NoLeakedConnection'
  BY <1>1 DEF NoLeakedConnection
<1>4. Stopping'
  BY DEF Stopping
<1>5. Bounded'
  BY <1>1 DEF Bounded, TypeOK
<1> QED
  BY <1>2, <1>3, <1>4, <1>5

LEMMA ConnectIInv == ASSUME IInv, NEW c \in Clients, Connect(c) PROVE IInv'
<1> USE DEF IInv, mainVars, historyVars
<1>1. /\ client[c] = "idle" /\ client' = [client EXCEPT ![c] = "connecting"]
      /\ backlog' = Append(backlog, c) /\ backlog \in Seq(Clients)
      /\ UNCHANGED <<mainVars, server, running, current, stream, sent, answered,
                     hungup, historyVars>>
      /\ client \in [Clients -> States] /\ client' \in [Clients -> States]
  BY DEF Connect, Move, TypeOK, States
<1>2. /\ backlog' \in Seq(Clients)
      /\ ElementsOf(backlog') = ElementsOf(backlog) \cup {c}
  BY <1>1, AppendElements
<1>3. ToSet(backlog') = ToSet(backlog) \cup {c}
  BY <1>1, <1>2, LenProperties DEF ToSet, ElementsOf
<1>4. TypeOK'
  BY <1>1, <1>2 DEF TypeOK, States
<1>5. Counted'
  BY <1>1, CountedStays
<1>6. NoLeakedConnection'
  BY <1>1, <1>3 DEF NoLeakedConnection
<1>7. Stopping'
  BY <1>1 DEF Stopping
<1>8. Bounded'
  BY <1>1 DEF Bounded
<1> QED
  BY <1>4, <1>5, <1>6, <1>7, <1>8

LEMMA PublisherIInv == ASSUME IInv, NEW c \in Clients, Publisher(c) PROVE IInv'
<1> USE DEF clientVars, States
<1>0. /\ client \in [Clients -> States] /\ sent \in [Clients -> 0 .. MaxMessages]
      /\ stream \in [Clients -> Seq(Piece)]
      /\ \A k \in {"request", "text", "ping", "close", "fin"} :
           P(k) \in Piece /\ P(k).kind # "payload"
  BY DEF IInv, TypeOK, P, Piece
<1>1. CASE \E k \in {"request", "text", "close", "fin"}, to \in States :
             /\ Put(c, P(k)) /\ client[c] # "idle"
             /\ client' = [client EXCEPT ![c] = to]
             /\ to = "sending" => sent[c] < MaxMessages
             /\ UNCHANGED <<mainVars, serverVars, sent, answered, hungup, historyVars>>
  <2>1. PICK k \in {"request", "text", "close", "fin"}, to \in States :
             /\ Put(c, P(k)) /\ client[c] # "idle"
             /\ client' = [client EXCEPT ![c] = to]
             /\ to = "sending" => sent[c] < MaxMessages
             /\ UNCHANGED <<mainVars, serverVars, sent, answered, hungup, historyVars>>
    BY <1>1
  <2>2. Counted' /\ stream' \in [Clients -> Seq(Piece)]
    BY <1>0, <2>1, CountedPut, PutUnread DEF historyVars
  <2> QED
    BY <1>0, <2>1, <2>2, PublisherGoesOn
<1>2. CASE SendPing(c)
  <2>1. Counted' /\ stream' \in [Clients -> Seq(Piece)]
    BY <1>0, <1>2, CountedPut, PutUnread DEF SendPing, historyVars
  <2>2. client[c] = "open" /\ client' = [client EXCEPT ![c] = "open"]
    BY <1>0, <1>2 DEF SendPing
  <2> QED
    BY <1>0, <1>2, <2>1, <2>2, PublisherGoesOn DEF SendPing
<1>3. CASE SendPayload(c)
  <2>1. /\ client[c] = "sending" /\ client' = [client EXCEPT ![c] = "open"]
        /\ Put(c, Payload(sent[c] + 1)) /\ sent' = [sent EXCEPT ![c] = @ + 1]
        /\ UNCHANGED <<mainVars, serverVars, answered, hungup, historyVars>>
    BY <1>3 DEF SendPayload, Move
  <2>2. /\ Payload(sent[c] + 1) \in Piece /\ Payload(sent[c] + 1).kind = "payload"
        /\ Payload(sent[c] + 1).id = sent[c] + 1
    BY <1>0, MaxMessagesAssumption DEF Payload, Piece
  <2>3. Counted' /\ stream' \in [Clients -> Seq(Piece)]
    BY <2>1, <2>2, CountedPut, PutUnread DEF historyVars
  <2>4. sent[c] < MaxMessages
    BY <2>1 DEF IInv, Bounded
  <2>5. sent' \in [Clients -> 0 .. MaxMessages]
    BY <1>0, <2>1, <2>4, MaxMessagesAssumption
  <2> QED
    BY <1>0, <2>1, <2>3, <2>5, PublisherGoesOn
<1>4. CASE HandshakeDone(c) \/ SendFails(c) \/ FallSilent(c)
  <2>1. PICK to \in States \ {"sending"} :
          client[c] # "idle" /\ client' = [client EXCEPT ![c] = to]
    BY <1>4 DEF HandshakeDone, SendFails, FallSilent, Move, Connected
  <2>2. UNCHANGED <<mainVars, serverVars, stream, sent, answered, hungup, historyVars>>
    BY <1>4 DEF HandshakeDone, SendFails, FallSilent
  <2>3. Counted'
    BY <2>2, CountedStays DEF historyVars
  <2> QED
    BY <1>0, <2>1, <2>2, <2>3, PublisherGoesOn
<1>5. CASE Connect(c)
  BY <1>5, ConnectIInv
<1>6. CASE \/ SendRequest(c) \/ HandshakeFails(c) \/ SendHeader(c) \/ Finish(c)
           \/ CloseSocket(c) \/ Kill(c)
  BY <1>1, <1>6
     DEF SendRequest, HandshakeFails, SendHeader, Finish, CloseSocket, Kill, Move,
         Connected
<1> QED
  BY <1>2, <1>3, <1>4, <1>5, <1>6 DEF Publisher, Proceed
-----------------------------------------------------------------------------
LEMMA AcceptIInv == ASSUME IInv, Accept PROVE IInv'
<1> USE DEF IInv, mainVars, clientVars, historyVars
<1>1. /\ server = "select" /\ server' = "handshake" /\ current = NoClient
      /\ backlog \in Seq(Clients) /\ backlog # << >>
      /\ current' = Head(backlog) /\ backlog' = Tail(backlog)
      /\ UNCHANGED <<mainVars, running, clientVars, stream, answered, hungup,
                     historyVars>>
  BY DEF Accept, Goto, TypeOK, Serving
<1>2. /\ Head(backlog) \in Clients /\ Tail(backlog) \in Seq(Clients)
      /\ Len(backlog) \in Nat /\ Len(backlog) >= 1 /\ Head(backlog) = backlog[1]
      /\ Len(Tail(backlog)) = Len(backlog) - 1
      /\ \A i \in 1 .. Len(Tail(backlog)) : Tail(backlog)[i] = backlog[i + 1]
  BY <1>1, HeadTailProperties, LenProperties, EmptySeq
<1>3. ASSUME NEW c \in ToSet(backlog), c # Head(backlog)
      PROVE  c \in ToSet(Tail(backlog))
  <2>1. PICK i \in 1 .. Len(backlog) : backlog[i] = c
    BY <1>2 DEF ToSet
  <2>2. i # 1 /\ i - 1 \in 1 .. Len(Tail(backlog)) /\ i - 1 + 1 = i
    BY <1>2, <1>3, <2>1
  <2>3. Tail(backlog)[i - 1] = c
    BY <1>2, <2>1, <2>2
  <2>4. DOMAIN Tail(backlog) = 1 .. Len(Tail(backlog))
    BY <1>2, LenProperties
  <2> QED
    BY <2>2, <2>3, <2>4 DEF ToSet
<1>4. TypeOK'
  BY <1>1, <1>2 DEF TypeOK, Serving
<1>5. Counted'
  BY <1>1, CountedStays
<1>6. NoLeakedConnection'
  BY <1>1, <1>3, NoClientAssumption DEF NoLeakedConnection
<1>7. Stopping'
  BY <1>1 DEF Stopping
<1>8. Bounded'
  BY <1>1 DEF Bounded
<1> QED
  BY <1>4, <1>5, <1>6, <1>7, <1>8

LEMMA ServingCurrent ==
  ASSUME IInv, server \in Serving PROVE current \in Clients
  BY DEF IInv, TypeOK

(* The steps of run() that keep the connection they have or have none.     *)
LEMMA RunGoesOn ==
  ASSUME IInv, RunBegins \/ Loop \/ SelectTimeout \/ FrameLoop \/ Handshake \/ ReadHeader
  PROVE  IInv'
<1> USE DEF IInv, mainVars, clientVars, historyVars
<1>1. UNCHANGED <<mainVars, backlog, current, clientVars, hungup, historyVars>>
  BY DEF RunBegins, Loop, SelectTimeout, FrameLoop, Handshake, ReadHeader
<1>2. \/ /\ UNCHANGED <<stream, answered>>
         /\ RunBegins \/ Loop \/ SelectTimeout \/ FrameLoop
      \/ \E k \in {"request", "text", "ping", "close", "fin"} :
           server \in Serving /\ Receive(k)
  BY DEF RunBegins, Loop, SelectTimeout, FrameLoop, Handshake, ReadHeader, Goto, Serving
<1>3. Counted' /\ stream' \in [Clients -> Seq(Piece)]
  <2>1. CASE UNCHANGED stream
    BY <1>1, <2>1, CountedStays DEF TypeOK
  <2>2. CASE \E k \in {"request", "text", "ping", "close", "fin"} :
               server \in Serving /\ Receive(k)
    BY <1>1, <2>2, ServingCurrent, CountedRead, ReceiveUnread
  <2> QED
    BY <1>2, <2>1, <2>2
<1>4. /\ server \in Serving \cup {"starting", "loop", "select"}
      /\ server' \in Serving \cup {"loop", "select", "exit"}
      /\ server' \in Serving <=> server \in Serving
      /\ running' \in BOOLEAN /\ (running' = running \/ running' = TRUE)
      /\ answered' \in [Clients -> BOOLEAN]
      /\ server' = "header" => running'
      /\ server' = "payload" => server = "header"
  <2>1. running \in BOOLEAN /\ answered \in [Clients -> BOOLEAN]
    BY DEF TypeOK
  <2>2. answered' \in [Clients -> BOOLEAN]
    BY <2>1 DEF RunBegins, Loop, SelectTimeout, FrameLoop, Handshake, ReadHeader
  <2>3. running' \in BOOLEAN /\ (running' = running \/ running' = TRUE)
    BY <2>1 DEF RunBegins, Loop, SelectTimeout, FrameLoop, Handshake, ReadHeader
  <2>4. /\ server \in Serving \cup {"starting", "loop", "select"}
        /\ server' \in Serving \cup {"loop", "select", "exit"}
        /\ server' \in Serving <=> server \in Serving
        /\ server' = "payload" => server = "header"
    BY DEF RunBegins, Loop, SelectTimeout, FrameLoop, Handshake, ReadHeader, Goto,
       Serving
  <2>5. server' = "header" => running'
    BY <2>1 DEF RunBegins, Loop, SelectTimeout, FrameLoop, Handshake, ReadHeader, Goto
  <2> QED
    BY <2>2, <2>3, <2>4, <2>5
<1>5. TypeOK'
  BY <1>1, <1>3, <1>4 DEF TypeOK, Serving
<1>6. NoLeakedConnection'
  BY <1>1 DEF NoLeakedConnection
<1>7. Stopping'
  BY <1>1, <1>4 DEF Stopping, Serving, TypeOK
<1>8. Bounded'
  BY <1>1 DEF Bounded
<1> QED
  BY <1>3, <1>5, <1>6, <1>7, <1>8

(* The socket of the connection is closed before it is forgotten.          *)
LEMMA HangUpIInv ==
  ASSUME IInv, HandshakeRefused \/ ClientLeft
  PROVE  IInv'
<1> USE DEF IInv, mainVars, clientVars, historyVars
<1>1. /\ UNCHANGED <<mainVars, running, backlog, clientVars, answered, historyVars>>
      /\ hungup' = [hungup EXCEPT ![current] = TRUE]
      /\ current' = NoClient /\ server' = "loop" /\ server \in Serving
      /\ UNCHANGED stream \/ Receive("fin")
  BY DEF HandshakeRefused, ClientLeft, HangUp, Serving
<1>2. current \in Clients
  BY <1>1, ServingCurrent
<1>3. Counted' /\ stream' \in [Clients -> Seq(Piece)]
  BY <1>1, <1>2, CountedStays, CountedRead, ReceiveUnread DEF TypeOK
<1>4. hungup' \in [Clients -> BOOLEAN] /\ hungup \in [Clients -> BOOLEAN]
  BY <1>1 DEF TypeOK
<1>5. TypeOK'
  BY <1>1, <1>3, <1>4 DEF TypeOK, Serving
<1>6. NoLeakedConnection'
  BY <1>1, <1>2, <1>4 DEF NoLeakedConnection
<1>7. Stopping'
  BY <1>1 DEF Stopping, Serving
<1>8. Bounded'
  BY <1>1 DEF Bounded
<1> QED
  BY <1>3, <1>5, <1>6, <1>7, <1>8

LEMMA ReadPayloadIInv == ASSUME IInv, ReadPayload PROVE IInv'
<1> USE DEF IInv, mainVars, clientVars
<1>1. /\ UNCHANGED <<mainVars, running, backlog, current, clientVars, answered, hungup>>
      /\ server = "payload"
      /\ \/ /\ server' = "frames" /\ Receive("payload")
            /\ Deliver(current, Head(stream[current]).id)
         \/ server' = "hangup" /\ Receive("fin") /\ UNCHANGED historyVars
  BY DEF ReadPayload, Goto
<1>2. current \in Clients
  BY <1>1, ServingCurrent DEF Serving
<1>3. /\ Counted' /\ stream' \in [Clients -> Seq(Piece)]
      /\ delivered' \in Seq(Clients \X (1 .. MaxMessages))
  <2>1. CASE server' = "hangup" /\ Receive("fin") /\ UNCHANGED historyVars
    BY <1>1, <1>2, <2>1, CountedRead, ReceiveUnread DEF TypeOK, historyVars
  <2>2. CASE /\ server' = "frames" /\ Receive("payload")
             /\ Deliver(current, Head(stream[current]).id)
    <3> DEFINE n == Head(stream[current]).id
               T == Clients \X (1 .. MaxMessages)
    <3>1. Counted' /\ n \in 1 .. MaxMessages /\ stream' \in [Clients -> Seq(Piece)]
      BY <1>1, <1>2, <2>2, CountedDeliver, ReceiveUnread
    <3>2. /\ delivered' = Append(delivered, <<current, n>>) /\ delivered \in Seq(T)
          /\ <<current, n>> \in T
      BY <1>2, <2>2, <3>1 DEF Deliver, TypeOK
    <3> HIDE DEF T, n
    <3>3. delivered' \in Seq(T)
      BY <3>2, AppendProperties
    <3> QED
      BY <3>1, <3>3 DEF T
  <2> QED
    BY <1>1, <2>1, <2>2
<1>4. late' = late \/ (main = "joining" /\ late' = late + 1 /\ server' = "frames")
  BY <1>1 DEF Deliver, historyVars
<1>5. late \in Nat /\ server' \in {"frames", "hangup"}
  BY <1>1 DEF TypeOK
<1>6. TypeOK'
  BY <1>1, <1>3, <1>4, <1>5 DEF TypeOK, Serving
<1>7. NoLeakedConnection'
  BY <1>1 DEF NoLeakedConnection
<1>8. Stopping'
  BY <1>1, <1>4, <1>5 DEF Stopping
<1>9. Bounded'
  BY <1>1 DEF Bounded
<1> QED
  BY <1>3, <1>6, <1>7, <1>8, <1>9

LEMMA MainIInv == ASSUME IInv, Main \/ Signal PROVE IInv'
<1> USE DEF IInv, mainVars, serverVars, clientVars, historyVars
<1>1. UNCHANGED <<backlog, current, clientVars, stream, answered, hungup, historyVars>>
  BY DEF Main, StartThread, Stop, Join, Signal
<1>2. Counted'
  BY <1>1, CountedStays
<1>3. TypeOK'
  BY <1>1 DEF Main, StartThread, Stop, Join, Signal, TypeOK, Stopping, Serving
<1>4. NoLeakedConnection'
  BY <1>1 DEF NoLeakedConnection
<1>5. Stopping'
  BY <1>1 DEF Main, StartThread, Stop, Join, Signal, Stopping, TypeOK
<1>6. Bounded'
  BY <1>1 DEF Bounded
<1> QED
  BY <1>2, <1>3, <1>4, <1>5, <1>6

LEMMA NextIInv == IInv /\ [Next]_vars => IInv'
<1> SUFFICES ASSUME IInv, [Next]_vars PROVE IInv'
  OBVIOUS
<1>1. CASE Main \/ Signal
  BY <1>1, MainIInv
<1>2. CASE Server
  BY <1>2, AcceptIInv, RunGoesOn, HangUpIInv, ReadPayloadIInv DEF Server
<1>3. CASE \E c \in Clients : Publisher(c)
  BY <1>3, PublisherIInv
<1>4. CASE UNCHANGED vars
  <2> USE <1>4 DEF vars, mainVars, serverVars, clientVars, historyVars
  <2>1. Counted'
    BY CountedStays
  <2>2. TypeOK' /\ NoLeakedConnection' /\ Stopping' /\ Bounded'
    BY DEF IInv, TypeOK, NoLeakedConnection, Stopping, Bounded
  <2> QED
    BY <2>1, <2>2 DEF IInv
<1> QED
  BY <1>1, <1>2, <1>3, <1>4 DEF Next
-----------------------------------------------------------------------------
(* What run(), the publishers and main keep up between them.               *)
THEOREM WsInvariant == Spec => []IInv
  BY InitIInv, NextIInv, PTL DEF Spec

(* Types; and run() holds a connection exactly where it serves one.        *)
THEOREM WsTypeCorrect == Spec => []TypeOK
<1>1. IInv => TypeOK
  BY DEF IInv
<1> QED
  BY <1>1, WsInvariant, PTL

(* Between the publisher's sends and callback_ no message is skipped,      *)
(* repeated or moved.                                                      *)
THEOREM WsNothingSkipped == Spec => []NothingSkipped
<1>1. IInv => NothingSkipped
  <2> SUFFICES ASSUME IInv, NEW c \in Clients
               PROVE  /\ \A i \in DOMAIN Of(c) : Of(c)[i][2] = i
                      /\ \A i \in DOMAIN Unread(c) :
                           Unread(c)[i].id = Len(Of(c)) + i
                      /\ Len(Of(c)) + Len(Unread(c)) = sent[c]
    BY DEF NothingSkipped
  <2>1. DOMAIN Of(c) = 1 .. Len(Of(c)) /\ DOMAIN Unread(c) = 1 .. Len(Unread(c))
    BY Types, LenProperties
  <2> QED
    BY <2>1 DEF IInv, Counted
<1> QED
  BY <1>1, WsInvariant, PTL

(* run() closes every connection that it accepted and no longer serves.    *)
THEOREM WsNoLeak == Spec => []NoLeakedConnection
<1>1. IInv => NoLeakedConnection
  BY DEF IInv
<1> QED
  BY <1>1, WsInvariant, PTL

(* After stop() at most the message being read is delivered, unless run()  *)
(* began after it and took running_ back.                                  *)
THEOREM WsAtMostOneAfterStop == Spec => []AtMostOneAfterStop
<1>1. IInv => AtMostOneAfterStop
  BY DEF IInv, TypeOK, Stopping, AtMostOneAfterStop
<1> QED
  BY <1>1, WsInvariant, PTL

(* No callback after sub_thread.join().                                    *)
THEOREM WsNoCallbackAfterJoin == Spec => NoCallbackAfterJoin
<1>1. IInv /\ [Next]_vars => [main = "done" => UNCHANGED delivered]_vars
  <2> SUFFICES ASSUME IInv, Next, main = "done"
               PROVE  UNCHANGED delivered
    OBVIOUS
  <2>1. server = "exit"
    BY DEF IInv, Stopping
  <2>2. ~Server
    BY <2>1 DEF Server, RunBegins, Loop, SelectTimeout, Accept, Handshake,
       HandshakeRefused, FrameLoop, ReadHeader, ReadPayload, ClientLeft, Goto
  <2>3. CASE Main \/ Signal
    BY <2>3 DEF Main, StartThread, Stop, Join, Signal, historyVars
  <2>4. CASE \E c \in Clients : Publisher(c)
    BY <2>4 DEF Publisher, Connect, Proceed, SendRequest, HandshakeDone,
       HandshakeFails, SendHeader, SendPayload, SendPing, SendFails, Finish,
       CloseSocket, Kill, FallSilent, historyVars
  <2> QED
    BY <2>2, <2>3, <2>4 DEF Next
<1> QED
  BY <1>1, WsInvariant, PTL DEF Spec, NoCallbackAfterJoin
=============================================================================
