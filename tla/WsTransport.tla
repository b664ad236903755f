---------------------------- MODULE WsTransport ----------------------------
(***************************************************************************)
(* The WebSocket transport, both ends: publishers (ws_client.c and the     *)
(* "ws" loop of the client's main.c), WsSubscriber::run() in the server's  *)
(* transport thread (ws_subscriber.cpp), and the part of the server's main *)
(* that starts, stops and joins that thread (main.cpp).                    *)
(*                                                                         *)
(* A connection is a stream of pieces, each the bytes of one send(): the   *)
(* upgrade request, a frame header, a payload.  "fin" ends a stream whose  *)
(* socket was closed.  The server serves one connection at a time; others  *)
(* wait in the backlog of the listening socket.                            *)
(***************************************************************************)
EXTENDS Lists, FiniteSets, SequencesExt

CONSTANTS
  Clients,      (* runs of the publisher; each connects once *)
  MaxMessages,  (* bound: messages of one client *)
  EarlySignal,  (* may SIGINT arrive before run() has begun? *)
  SilentPeers,  (* may a peer stay connected and send nothing more? *)
  NoClient

ASSUME MaxMessagesAssumption == MaxMessages \in Nat
ASSUME SwitchesAssumption == {EarlySignal, SilentPeers} \subseteq BOOLEAN
ASSUME NoClientAssumption == NoClient \notin Clients

VARIABLES
  main,       (* where the server's main is *)
  signalled,  (* ~g_running *)
  server,     (* where the transport thread is *)
  running,    (* running_ *)
  backlog,    (* connections that accept() has not returned yet *)
  current,    (* the connection run() serves *)
  client,     (* where each publisher is *)
  stream,     (* what a publisher sent and the server has not read *)
  sent,       (* the messages of a publisher, all of each sent *)
  answered,   (* the server sent 101 on this connection *)
  hungup,     (* the server closed its end *)
  delivered,  (* what callback_ was called with *)
  late        (* history: callbacks since stop() *)

serverVars == <<server, running, backlog, current>>
clientVars == <<client, sent>>
mainVars == <<main, signalled>>
historyVars == <<delivered, late>>
vars == <<mainVars, serverVars, clientVars, stream, answered, hungup, historyVars>>

Piece == [kind : {"request", "text", "payload", "ping", "close", "fin"},
          id : Nat]
P(kind) == [kind |-> kind, id |-> 0]
Payload(n) == [kind |-> "payload", id |-> n]

Init ==
  /\ main = "starting" /\ signalled = FALSE
  /\ server = "none" /\ running = FALSE
  /\ backlog = << >> /\ current = NoClient
  /\ client = [c \in Clients |-> "idle"]
  /\ stream = [c \in Clients |-> << >>]
  /\ sent = [c \in Clients |-> 0]
  /\ answered = [c \in Clients |-> FALSE]
  /\ hungup = [c \in Clients |-> FALSE]
  /\ delivered = << >> /\ late = 0

-----------------------------------------------------------------------------
(* The publisher. *)
Move(c, from, to) == client[c] \in from /\ client' = [client EXCEPT ![c] = to]
Put(c, piece) == stream' = [stream EXCEPT ![c] = Append(@, piece)]

(* net_connect_tcp: the kernel completes it, whatever run() is doing. *)
Connect(c) ==
  /\ main # "done"
  /\ Move(c, {"idle"}, "connecting")
  /\ backlog' = Append(backlog, c)
  /\ UNCHANGED <<mainVars, server, running, current, stream, sent, answered,
                 hungup, historyVars>>

SendRequest(c) ==
  /\ Move(c, {"connecting"}, "waiting")
  /\ Put(c, P("request"))
  /\ UNCHANGED <<mainVars, serverVars, sent, answered, hungup, historyVars>>

HandshakeDone(c) ==
  /\ Move(c, {"waiting"}, "open")
  /\ answered[c]
  /\ UNCHANGED <<mainVars, serverVars, stream, sent, answered, hungup,
                 historyVars>>

(* No answer within handshake_timeout_ms, or the server hung up.           *)
HandshakeFails(c) ==
  /\ Move(c, {"waiting"}, "gone")
  /\ Put(c, P("fin"))
  /\ UNCHANGED <<mainVars, serverVars, sent, answered, hungup, historyVars>>

(* ws_send_text: header and payload are two sends. *)
SendHeader(c) ==
  /\ Move(c, {"open"}, "sending")
  /\ sent[c] < MaxMessages
  /\ Put(c, P("text"))
  /\ UNCHANGED <<mainVars, serverVars, sent, answered, hungup, historyVars>>

SendPayload(c) ==
  /\ Move(c, {"sending"}, "open")
  /\ Put(c, Payload(sent[c] + 1))
  /\ sent' = [sent EXCEPT ![c] = @ + 1]
  /\ UNCHANGED <<mainVars, serverVars, answered, hungup, historyVars>>

(* Other publishers also send pings; one at a time bounds them. *)
SendPing(c) ==
  /\ client[c] = "open"
  /\ P("ping") \notin ToSet(stream[c])
  /\ Put(c, P("ping"))
  /\ UNCHANGED <<mainVars, serverVars, clientVars, answered, hungup, historyVars>>

(* send() fails once the server hung up: the loop ends. *)
SendFails(c) ==
  /\ Move(c, {"open", "sending"}, "closing")
  /\ hungup[c]
  /\ UNCHANGED <<mainVars, serverVars, stream, sent, answered, hungup,
                 historyVars>>

(* duration_sec or a signal ends the loop; ws_close sends a Close frame. *)
Finish(c) ==
  /\ Move(c, {"open"}, "closing")
  /\ Put(c, P("close"))
  /\ UNCHANGED <<mainVars, serverVars, sent, answered, hungup, historyVars>>

(* ws_close waits at most 2 s for an echo. *)
CloseSocket(c) ==
  /\ Move(c, {"closing"}, "gone")
  /\ Put(c, P("fin"))
  /\ UNCHANGED <<mainVars, serverVars, sent, answered, hungup, historyVars>>

Connected(c) == client[c] \in {"connecting", "waiting", "open", "sending", "closing"}

(* The publisher is killed; its kernel closes the socket. *)
Kill(c) ==
  /\ Connected(c)
  /\ Move(c, {client[c]}, "gone")
  /\ Put(c, P("fin"))
  /\ UNCHANGED <<mainVars, serverVars, sent, answered, hungup, historyVars>>

(* It stays connected and is not heard of again. *)
FallSilent(c) ==
  /\ SilentPeers
  /\ Connected(c)
  /\ Move(c, {client[c]}, "silent")
  /\ UNCHANGED <<mainVars, serverVars, stream, sent, answered, hungup,
                 historyVars>>

-----------------------------------------------------------------------------
(* WsSubscriber::run(). *)
Goto(from, to) == server = from /\ server' = to

(* recv() on the current connection returns this piece; it blocks while    *)
(* there is none.                                                          *)
Receive(kind) ==
  /\ stream[current] # << >>
  /\ Head(stream[current]).kind = kind
  /\ stream' = [stream EXCEPT ![current] = Tail(@)]

RunBegins ==
  /\ Goto("starting", "loop")
  /\ running' = TRUE
  /\ UNCHANGED <<mainVars, backlog, current, clientVars, stream, answered,
                 hungup, historyVars>>

Loop ==
  /\ Goto("loop", IF running THEN "select" ELSE "exit")
  /\ UNCHANGED <<mainVars, running, backlog, current, clientVars, stream,
                 answered, hungup, historyVars>>

(* select() returns 0 after 1 s.  The mutant SelectForever has no timeout. *)
SelectForever == FALSE /\ UNCHANGED vars

SelectTimeout ==
  /\ Goto("select", "loop")
  /\ backlog = << >>
  /\ UNCHANGED <<mainVars, running, backlog, current, clientVars, stream,
                 answered, hungup, historyVars>>

Accept ==
  /\ Goto("select", "handshake")
  /\ backlog # << >>
  /\ current' = Head(backlog)
  /\ backlog' = Tail(backlog)
  /\ UNCHANGED <<mainVars, running, clientVars, stream, answered, hungup,
                 historyVars>>

(* do_handshake() reads the request and answers 101, also to a client that *)
(* gave up while it waited in the backlog.                                 *)
Handshake ==
  /\ Goto("handshake", "frames")
  /\ Receive("request")
  /\ answered' = [answered EXCEPT ![current] = TRUE]
  /\ UNCHANGED <<mainVars, running, backlog, current, clientVars, hungup,
                 historyVars>>

(* SOCK_CLOSE, and back to the accept loop. *)
HangUp ==
  /\ hungup' = [hungup EXCEPT ![current] = TRUE]
  /\ current' = NoClient
  /\ server' = "loop"

(* A mutant of HandshakeRefused that leaves the connection open. *)
HandshakeLeaks ==
  /\ server = "handshake"
  /\ Receive("fin")
  /\ current' = NoClient /\ server' = "loop"
  /\ UNCHANGED <<mainVars, running, backlog, clientVars, answered, hungup,
                 historyVars>>

HandshakeRefused ==
  /\ server = "handshake"
  /\ Receive("fin")
  /\ HangUp
  /\ UNCHANGED <<mainVars, running, backlog, clientVars, answered, historyVars>>

(* A mutant of FrameLoop: while (true). *)
FrameLoopForever ==
  /\ Goto("frames", "header")
  /\ UNCHANGED <<mainVars, running, backlog, current, clientVars, stream,
                 answered, hungup, historyVars>>

FrameLoop ==
  /\ Goto("frames", IF running THEN "header" ELSE "hangup")
  /\ UNCHANGED <<mainVars, running, backlog, current, clientVars, stream,
                 answered, hungup, historyVars>>

(* A mutant of ReadHeader: a ping ends the connection. *)
ReadHeaderPingEnds ==
  /\ \/ Goto("header", "payload") /\ Receive("text")
     \/ Goto("header", "hangup")
        /\ (Receive("close") \/ Receive("fin") \/ Receive("ping"))
  /\ UNCHANGED <<mainVars, running, backlog, current, clientVars, answered,
                 hungup, historyVars>>

(* read_frame(): the header decides.  A ping is answered and read on. *)
ReadHeader ==
  /\ \/ Goto("header", "payload") /\ Receive("text")
     \/ Goto("header", "frames") /\ Receive("ping")
     \/ Goto("header", "hangup") /\ (Receive("close") \/ Receive("fin"))
  /\ UNCHANGED <<mainVars, running, backlog, current, clientVars, answered,
                 hungup, historyVars>>

Deliver(c, n) ==
  /\ delivered' = Append(delivered, <<c, n>>)
  /\ late' = IF main = "joining" THEN late + 1 ELSE late

(* A mutant of ReadPayload: what is read after stop() is dropped. *)
ReadPayloadChecked ==
  /\ \/ /\ Goto("payload", "frames") /\ Receive("payload")
        /\ IF running
           THEN Deliver(current, Head(stream[current]).id)
           ELSE UNCHANGED historyVars
     \/ /\ Goto("payload", "hangup") /\ Receive("fin")
        /\ UNCHANGED historyVars
  /\ UNCHANGED <<mainVars, running, backlog, current, clientVars, answered, hungup>>

(* The rest of the frame, then callback_: running_ is not read in between. *)
ReadPayload ==
  /\ \/ /\ Goto("payload", "frames") /\ Receive("payload")
        /\ Deliver(current, Head(stream[current]).id)
     \/ /\ Goto("payload", "hangup") /\ Receive("fin")
        /\ UNCHANGED historyVars
  /\ UNCHANGED <<mainVars, running, backlog, current, clientVars, answered, hungup>>

(* A mutant of ClientLeft: the socket of the last client is kept. *)
ClientLeftKept ==
  /\ Goto("hangup", "loop")
  /\ hungup' = [hungup EXCEPT ![current] = TRUE]
  /\ UNCHANGED <<mainVars, running, backlog, current, clientVars, stream,
                 answered, historyVars>>

ClientLeft ==
  /\ server = "hangup"
  /\ HangUp
  /\ UNCHANGED <<mainVars, running, backlog, clientVars, stream, answered,
                 historyVars>>

-----------------------------------------------------------------------------
(* The server's main, from the installation of the signal handlers on. *)
StartThread ==
  /\ main = "starting" /\ main' = "serving"
  /\ server' = "starting"
  /\ UNCHANGED <<signalled, running, backlog, current, clientVars, stream,
                 answered, hungup, historyVars>>

Signal ==
  /\ ~signalled /\ signalled' = TRUE
  /\ EarlySignal \/ server \notin {"none", "starting"}
  /\ UNCHANGED <<main, serverVars, clientVars, stream, answered, hungup,
                 historyVars>>

Stop ==
  /\ main = "serving" /\ main' = "joining"
  /\ signalled
  /\ running' = FALSE
  /\ UNCHANGED <<signalled, server, backlog, current, clientVars, stream,
                 answered, hungup, historyVars>>

(* A mutant of Join that does not wait. *)
JoinNothing ==
  /\ main = "joining" /\ main' = "done"
  /\ UNCHANGED <<signalled, serverVars, clientVars, stream, answered, hungup,
                 historyVars>>

(* sub_thread.join(); the storage is stopped after it. *)
Join ==
  /\ main = "joining" /\ main' = "done"
  /\ server = "exit"
  /\ UNCHANGED <<signalled, serverVars, clientVars, stream, answered, hungup,
                 historyVars>>

Main == StartThread \/ Stop \/ Join

Server ==
  \/ RunBegins \/ Loop \/ SelectTimeout \/ Accept
  \/ Handshake \/ HandshakeRefused
  \/ FrameLoop \/ ReadHeader \/ ReadPayload \/ ClientLeft

(* What a publisher does by itself, and within a bounded time. *)
Proceed(c) ==
  \/ SendRequest(c) \/ HandshakeDone(c) \/ HandshakeFails(c)
  \/ SendPayload(c) \/ SendFails(c) \/ Finish(c) \/ CloseSocket(c)

Publisher(c) ==
  \/ Connect(c) \/ Proceed(c) \/ SendHeader(c) \/ SendPing(c)
  \/ Kill(c) \/ FallSilent(c)

Next == Main \/ Signal \/ Server \/ (\E c \in Clients : Publisher(c))

Spec == Init /\ [][Next]_vars

(* The threads run, and a publisher ends: its handshake and its closing    *)
(* have timeouts, and its loop ends after duration_sec.                    *)
Fairness ==
  /\ WF_vars(Main) /\ WF_vars(Server)
  /\ \A c \in Clients : WF_vars(Proceed(c))

FairSpec == Spec /\ Fairness
-----------------------------------------------------------------------------
Serving == {"handshake", "frames", "header", "payload", "hangup"}

(* The types; run() holds a connection exactly where it serves one. *)
TypeOK ==
  /\ main \in {"starting", "serving", "joining", "done"}
  /\ {signalled, running} \subseteq BOOLEAN
  /\ server \in {"none", "starting", "loop", "select", "handshake", "frames",
                 "header", "payload", "hangup", "exit"}
  /\ backlog \in Seq(Clients)
  /\ current \in IF server \in Serving THEN Clients ELSE {NoClient}
  /\ client \in [Clients -> {"idle", "connecting", "waiting", "open", "sending",
                             "closing", "gone", "silent"}]
  /\ stream \in [Clients -> Seq(Piece)]
  /\ sent \in [Clients -> 0 .. MaxMessages]
  /\ {answered, hungup} \subseteq [Clients -> BOOLEAN]
  /\ delivered \in Seq(Clients \X (1 .. MaxMessages))
  /\ late \in Nat

Of(c) == Kept(delivered, {c} \X Nat)
Unread(c) == Kept(stream[c], [kind : {"payload"}, id : Nat])

(* Until the server hangs up, every message a publisher sent has been      *)
(* delivered or can still be read, and the two together are the messages   *)
(* 1, 2, ... in order: none is skipped, repeated or cut.                   *)
NothingSkipped ==
  \A c \in Clients :
    LET got == Of(c)
        rest == Unread(c)
    IN  /\ \A i \in DOMAIN got : got[i][2] = i
        /\ \A i \in DOMAIN rest : rest[i].id = Len(got) + i
        /\ ~hungup[c] => Len(got) + Len(rest) = sent[c]

(* Every connection that was accepted is the one being served, or closed. *)
NoLeakedConnection ==
  \A c \in Clients :
    (client[c] # "idle" /\ c \notin ToSet(backlog)) => c = current \/ hungup[c]

(* After stop() at most the message that is being read is still delivered, *)
(* even if the publishers keep sending; unless stop() came before run(),   *)
(* which then sets running_ again.                                         *)
AtMostOneAfterStop == late > 1 => running

(* No callback after the join: the storage it pushes to, and the objects   *)
(* it captured, are gone by then.                                          *)
NoCallbackAfterJoin == [][main = "done" => UNCHANGED delivered]_vars

(* A publisher that closes its connection properly has been heard, unless  *)
(* the server is shutting down: what it sent reaches the callback.         *)
FinishedPublishersHeard ==
  \A c \in Clients :
    (client[c] = "closing" /\ ~hungup[c]) ~> (Len(Of(c)) = sent[c] \/ signalled)

(* run() returns and the join succeeds when stop() came after run() had    *)
(* begun, unless the connection being served belongs to a silent peer.     *)
StopEndsRunMostly ==
  (main = "joining" /\ ~running /\ server # "starting")
    ~> (main = "done" \/ \E c \in Clients : c = current /\ client[c] = "silent")

(* "stop loop from another thread" (isubscriber.hpp): once main has called *)
(* stop(), run() returns and the join succeeds.                            *)
StopEndsRun == main = "joining" ~> main = "done"
=============================================================================
