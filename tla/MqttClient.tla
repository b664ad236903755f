------------------------------ MODULE MqttClient ------------------------------
(***************************************************************************)
(* The client's program over MQTT: main() with its "mqtt" loop (main.c),   *)
(* mqtt_client.c between main's thread and the thread of libmosquitto, and *)
(* the simulated sensor.  libmosquitto and TCP are modelled from their use *)
(* here: a queue of packets to write, the packets above QoS 0 that are not *)
(* acknowledged, and a connection that is lost and made again.             *)
(*                                                                         *)
(* The broker's side of the connection is in MqttTransport.                *)
(***************************************************************************)
EXTENDS ClientConfig, Lists

CONSTANTS
  Starts,      (* the command lines *)
  NoiseLimit,  (* more noise may make a packet too long for json_buf *)
  MaxPackets,  (* bound: the packets read from the sensor *)
  MaxDrops     (* bound: connections lost *)

ASSUME ClientAssumption == {NoiseLimit, MaxPackets, MaxDrops} \subseteq Nat

VARIABLES
  cmain,     (* where main() is *)
  argv,      (* the command line, until it is parsed *)
  ccfg,      (* what is still looked at: QoS, and what makes a packet fail *)
  stopped,   (* ~g_running *)
  verdict,   (* what mqtt_connect() returned *)
  seq,       (* the sensor's next number *)
  sent,      (* main's counters *)
  errors,
  exit,      (* the exit code *)
  atoms,     (* the atomics of mqtt_client_t *)
  quitting,  (* disconnecting, and mosquitto_disconnect() was called *)
  link,      (* the connection, as libmosquitto's thread sees it *)
  cb,        (* the callback it is in: which store comes next *)
  queue,     (* packets to be written *)
  pending,   (* packets above QoS 0 that were not acknowledged *)
  wire,      (* written, and not yet taken by the broker *)
  acks,      (* acknowledgements on their way *)
  drops      (* how often the connection was lost *)

startVars == <<argv, ccfg>>
countVars == <<seq, sent, errors>>
mainVars == <<cmain, startVars, stopped, verdict, countVars, exit, quitting>>
netVars == <<queue, pending, wire, acks>>
libVars == <<atoms, link, cb, drops>>
clientVars == <<mainVars, netVars, libVars>>

Idle == [next |-> 0, rc |-> 0]

ClientInit ==
  /\ cmain = "begin" /\ argv \in Starts /\ stopped = FALSE
  /\ ccfg = [qos |-> 0, noisy |-> FALSE, topicOk |-> TRUE]
  /\ verdict = "none" /\ seq = 0 /\ sent = 0 /\ errors = 0 /\ exit = 0
  /\ atoms = [connected |-> FALSE, received |-> FALSE, rc |-> 0,
              published |-> 0, confirmed |-> 0]
  /\ quitting = FALSE /\ link = "none" /\ cb = Idle /\ drops = 0
  /\ queue = << >> /\ pending = << >> /\ wire = << >> /\ acks = << >>

-----------------------------------------------------------------------------
(* main(); mosquitto_publish() refuses a topic with a wildcard.            *)
Exit(code) == cmain' = "exited" /\ exit' = code

Begin ==
  /\ cmain = "begin"
  /\ \E p \in {ParseClient(argv)} :
       /\ ccfg' = [qos |-> p.cfg.qos, noisy |-> p.cfg.noise > NoiseLimit,
                   topicOk |-> p.cfg.topic # "#"]
       /\ CASE p.help -> Exit(0) /\ UNCHANGED <<verdict, link>>
            [] ~p.help /\ ~Valid(p.cfg) -> Exit(1) /\ UNCHANGED <<verdict, link>>
            [] ~p.help /\ Valid(p.cfg) /\ p.cfg.protocol = "ws" ->
                 cmain' = "ws" /\ UNCHANGED <<exit, verdict, link>>
            [] ~p.help /\ Valid(p.cfg) /\ p.cfg.protocol \notin Protocols ->
                 Exit(0) /\ UNCHANGED <<verdict, link>>
            [] OTHER ->
                 \/ Exit(1) /\ verdict' = "CONNECT" /\ UNCHANGED link
                 \/ cmain' = "polling" /\ link' = "asked" /\ UNCHANGED <<exit, verdict>>
  /\ argv' = << >>
  /\ UNCHANGED <<stopped, countVars, quitting, netVars, atoms, cb, drops>>

(* The wait for CONNACK in mqtt_connect(): the flag and the code are read  *)
(* one after the other.                                                    *)
Poll ==
  /\ cmain = "polling" /\ atoms.received /\ cmain' = "answered"
  /\ UNCHANGED <<startVars, stopped, verdict, countVars, exit, quitting, netVars,
                 libVars>>

(* mosquitto_loop_stop(force) cancels the thread wherever it is.           *)
ConnectFails(code) ==
  /\ verdict' = code /\ Exit(1)
  /\ link' = "ended" /\ cb' = Idle
  /\ UNCHANGED <<startVars, stopped, countVars, quitting, netVars, atoms, drops>>

PollTimeout == cmain = "polling" /\ ~atoms.received /\ ConnectFails("TIMEOUT")

Refused ==
  /\ cmain = "answered" /\ atoms.rc # 0
  /\ ConnectFails(IF atoms.rc \in {4, 5} THEN "AUTH" ELSE "CONNACK")

Accepted ==
  /\ cmain = "answered" /\ atoms.rc = 0 /\ cmain' = "loop" /\ verdict' = "OK"
  /\ UNCHANGED <<startVars, stopped, countVars, exit, quitting, netVars, libVars>>

Go(from, to) ==
  /\ cmain = from /\ cmain' = to
  /\ UNCHANGED <<startVars, stopped, verdict, exit, quitting, libVars>>

(* sensor_read() and sensor_to_json(), which touch nothing that another    *)
(* thread sees. *)
ReadSensor(from) ==
  /\ seq' = seq + 1
  /\ \/ Go(from, "publish") /\ UNCHANGED errors
     \/ ccfg.noisy /\ Go(from, "loop") /\ errors' = errors + 1

(* The loop: a signal or duration_sec ends it. *)
LoopEnds == Go("loop", "leave") /\ UNCHANGED <<countVars, netVars>>
LoopTurn ==
  /\ ~stopped /\ seq < MaxPackets
  /\ IF atoms.connected THEN ReadSensor("loop")
     ELSE Go("loop", "wait") /\ UNCHANGED <<seq, errors>>
  /\ UNCHANGED <<sent, netVars>>

(* A mutant of Wait: it does not look at g_running, nor at the time. *)
WaitConnected ==
  atoms.connected /\ ReadSensor("wait") /\ UNCHANGED <<sent, netVars>>

(* The wait for a reconnect, of at most 10 s.  A signal ends the wait, but *)
(* one more packet is read and published.                                  *)
Wait ==
  /\ \/ (atoms.connected \/ stopped) /\ ReadSensor("wait")
     \/ ~atoms.connected /\ ~stopped /\ Go("wait", "leave")
        /\ UNCHANGED <<seq, errors>>
  /\ UNCHANGED <<sent, netVars>>

(* mqtt_publish(): the flag is checked first, then libmosquitto is called. *)
Check ==
  /\ IF atoms.connected
     THEN Go("publish", "send") /\ UNCHANGED errors
     ELSE Go("publish", "loop") /\ errors' = errors + 1
  /\ UNCHANGED <<seq, sent, netVars>>

Socket == link \in {"asked", "up"}

(* At QoS 0 a packet needs a socket; above, it is kept until acknowledged. *)
Send ==
  LET packet == seq - 1
      fails == ~ccfg.topicOk \/ (ccfg.qos = 0 /\ ~Socket)
  IN  /\ IF fails
         THEN /\ Go("send", IF ccfg.topicOk THEN "loop" ELSE "leave")
              /\ errors' = errors + 1 /\ UNCHANGED <<queue, pending>>
         ELSE /\ Go("send", "count") /\ UNCHANGED errors
              /\ queue' = IF ccfg.qos = 0 \/ link = "up"
                          THEN Append(queue, packet) ELSE queue
              /\ pending' = IF ccfg.qos = 0 THEN pending ELSE Append(pending, packet)
      /\ UNCHANGED <<seq, sent, wire, acks>>

Counted == [atoms EXCEPT !.published = @ + 1]

(* A mutant of Count: a packet that was accepted is tried again. *)
CountAndRetry ==
  /\ cmain = "count" /\ cmain' \in {"loop", "send"}
  /\ sent' = sent + 1 /\ atoms' = Counted /\ atoms.published < MaxPackets
  /\ UNCHANGED <<startVars, stopped, verdict, seq, errors, exit, quitting, netVars,
                 link, cb, drops>>

(* stat_published, and main's own count.  on_publish may come before. *)
Count ==
  /\ cmain = "count" /\ cmain' = "loop"
  /\ sent' = sent + 1 /\ atoms' = Counted
  /\ UNCHANGED <<startVars, stopped, verdict, seq, errors, exit, quitting, netVars,
                 link, cb, drops>>

(* mqtt_disconnect() up to mosquitto_loop_stop(), which joins the thread.  *)
Leave ==
  /\ cmain = "leave" /\ cmain' = "joining" /\ quitting' = TRUE
  /\ UNCHANGED <<startVars, stopped, verdict, countVars, exit, netVars, libVars>>

JoinLib ==
  /\ cmain = "joining" /\ link = "ended" /\ Exit(IF errors > 0 THEN 2 ELSE 0)
  /\ UNCHANGED <<startVars, stopped, verdict, countVars, quitting, netVars, libVars>>

Interrupt ==
  /\ cmain \notin {"begin", "ws", "exited"} /\ ~stopped /\ stopped' = TRUE
  /\ UNCHANGED <<cmain, startVars, verdict, countVars, exit, quitting, netVars,
                 libVars>>

ClientMain ==
  \/ Begin \/ Poll \/ PollTimeout \/ Refused \/ Accepted \/ LoopEnds \/ LoopTurn
  \/ Wait \/ Check \/ Send \/ Count \/ Leave \/ JoinLib
-----------------------------------------------------------------------------
(* The thread of libmosquitto. *)
InCallback == cb # Idle

(* CONNACK arrives and on_connect() is called; a refused connection is     *)
(* closed after it.                                                        *)
Connack(rc) ==
  /\ link = "asked" /\ ~InCallback
  /\ cb' = [next |-> 1, rc |-> rc]
  /\ UNCHANGED <<mainVars, netVars, atoms, link, drops>>

(* A mutant of OnConnectStores: the flag first. *)
FlagFirst == <<"received", "rc", "connected">>

OnConnectStores == <<"rc", "received", "connected">>

(* One store of on_connect(); after the last, packets that were not        *)
(* acknowledged on an earlier connection are sent again.                   *)
OnConnect ==
  /\ cb.next \in 1 .. 3
  /\ atoms' = [atoms EXCEPT ![OnConnectStores[cb.next]] =
                 CASE OnConnectStores[cb.next] = "rc" -> cb.rc
                   [] OnConnectStores[cb.next] = "received" -> TRUE
                   [] OTHER -> cb.rc = 0]
  /\ IF cb.next < 3
     THEN cb' = [cb EXCEPT !.next = @ + 1] /\ UNCHANGED <<link, queue>>
     ELSE /\ cb' = Idle
          /\ link' = IF cb.rc = 0 THEN "up" ELSE "lost"
          /\ queue' = IF cb.rc = 0 /\ ccfg.qos > 0 THEN pending ELSE queue
  /\ UNCHANGED <<mainVars, pending, wire, acks, drops>>

(* on_publish() is called when a packet of QoS 0 was written ... *)
Write ==
  /\ Socket /\ ~InCallback /\ queue # << >>
  /\ wire' = Append(wire, Head(queue)) /\ queue' = Tail(queue)
  /\ atoms' = IF ccfg.qos = 0 THEN [atoms EXCEPT !.confirmed = @ + 1] ELSE atoms
  /\ UNCHANGED <<mainVars, pending, acks, link, cb, drops>>

(* ... and when another was acknowledged. *)
Acknowledged ==
  /\ link = "up" /\ ~InCallback /\ acks # << >>
  /\ acks' = Tail(acks)
  /\ IF Head(acks) \in ToSet(pending)
     THEN /\ pending' = Kept(pending, Nat \ {Head(acks)})
          /\ atoms' = [atoms EXCEPT !.confirmed = @ + 1]
     ELSE UNCHANGED <<pending, atoms>>
  /\ UNCHANGED <<mainVars, queue, wire, link, cb, drops>>

(* The connection is lost, and what was on its way with it. *)
Drop ==
  /\ Socket /\ ~InCallback /\ drops < MaxDrops
  /\ drops' = drops + 1 /\ link' = "lost"
  /\ queue' = << >> /\ wire' = << >> /\ acks' = << >>
  /\ UNCHANGED <<mainVars, pending, atoms, cb>>

(* on_disconnect(): main looks at connected or at received, never at both, *)
(* so one step does.  stat_reconnects, which is only printed, is left out. *)
OnDisconnect ==
  /\ link = "lost" /\ ~InCallback /\ link' = "down"
  /\ atoms' = [atoms EXCEPT !.connected = FALSE,
                            !.received = @ /\ quitting]
  /\ UNCHANGED <<mainVars, netVars, cb, drops>>

Reconnect ==
  /\ link = "down" /\ ~quitting /\ link' = "asked"
  /\ UNCHANGED <<mainVars, netVars, atoms, cb, drops>>

(* DISCONNECT is written after the queue; without a connection the thread  *)
(* just ends.                                                              *)
Quit ==
  /\ quitting /\ ~InCallback
  /\ link = "down" \/ (Socket /\ queue = << >>)
  /\ link' = "ended" /\ atoms' = [atoms EXCEPT !.connected = FALSE]
  /\ UNCHANGED <<mainVars, netVars, cb, drops>>

ClientLib ==
  \/ OnConnect \/ Write \/ Acknowledged \/ OnDisconnect \/ Reconnect \/ Quit
=============================================================================
