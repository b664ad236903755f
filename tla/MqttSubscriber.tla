---------------------------- MODULE MqttSubscriber ----------------------------
(***************************************************************************)
(* MqttSubscriber (mqtt_subscriber.cpp): run() in the server's transport   *)
(* thread, the callbacks libmosquitto calls from it, and stop() from main. *)
(* libmosquitto is modelled from its use: mosquitto_loop_forever() connects*)
(* again until mosquitto_disconnect() was called, also when that was       *)
(* before, or until an error it does not survive.                          *)
(*                                                                         *)
(* The session is clean: what the broker knows of it ends with the         *)
(* connection.  running_ and connected_ are only read for messages of the  *)
(* log, and are left out.                                                  *)
(***************************************************************************)
EXTENDS Naturals, Sequences

CONSTANT MaxSubDrops  (* bound: connections lost or refused *)

ASSUME SubscriberAssumption == MaxSubDrops \in Nat

VARIABLES
  run,        (* run(): "before", "loop" or "ended" *)
  halted,     (* stop() was called *)
  slink,      (* the connection *)
  session,    (* the subscription, at the broker *)
  inbox,      (* messages on their way to the subscriber *)
  delivered,  (* what callback_ was called with *)
  sdrops      (* how often the connection was lost or refused *)

subVars == <<run, halted, slink, session, inbox, delivered, sdrops>>

(* connect() has called mosquitto_connect_async(), which does not block.   *)
SubInit ==
  /\ run = "before" /\ halted = FALSE
  /\ slink = "down" /\ session = "none" /\ inbox = << >>
  /\ delivered = << >> /\ sdrops = 0

Run ==
  /\ run = "before" /\ run' = "loop" 
  /\ UNCHANGED <<halted, slink, session, inbox, delivered, sdrops>>

SubAsk ==
  /\ run = "loop" /\ slink = "down" /\ ~halted /\ slink' = "asked"
  /\ UNCHANGED <<run, halted, session, inbox, delivered, sdrops>>

(* A mutant of OnSubConnect: it subscribes on the first connection only. *)
OnFirstConnect ==
  /\ run = "loop" /\ slink = "asked" /\ slink' = "up"
  /\ session' \in IF sdrops = 0 THEN {"asked", "refused"} ELSE {session}
  /\ UNCHANGED <<run, halted, inbox, delivered, sdrops>>

(* on_connect(): it subscribes each time; an error of that is logged, and  *)
(* the connection stays without a subscription.                            *)
OnSubConnect ==
  /\ run = "loop" /\ slink = "asked" /\ slink' = "up"
  /\ session' \in {"asked", "refused"}
  /\ UNCHANGED <<run, halted, inbox, delivered, sdrops>>

(* The connection is refused, which is logged, or lost. *)
SubDrop ==
  /\ run = "loop" /\ slink \in {"asked", "up"} /\ sdrops < MaxSubDrops
  /\ sdrops' = sdrops + 1 /\ slink' = "down"
  /\ session' = "none" /\ inbox' = << >>
  /\ UNCHANGED <<run, halted, delivered>>

(* on_subscribe(): a refusal is logged. *)
OnSubscribe ==
  /\ run = "loop" /\ slink = "up" /\ session = "asked"
  /\ session' \in {"granted", "refused"}
  /\ UNCHANGED <<run, halted, slink, inbox, delivered, sdrops>>

(* on_message() *)
OnMessage ==
  /\ run = "loop" /\ slink = "up" /\ inbox # << >>
  /\ delivered' = Append(delivered, Head(inbox)) /\ inbox' = Tail(inbox)
  /\ UNCHANGED <<run, halted, slink, session, sdrops>>

(* stop(): mosquitto_disconnect() is called in any case. *)
Halt ==
  /\ ~halted /\ halted' = TRUE
  /\ UNCHANGED <<run, slink, session, inbox, delivered, sdrops>>

(* loop_forever() returns. *)
RunEnds ==
  /\ run' = "ended"
  /\ slink' = "ended" /\ session' = "none" /\ inbox' = << >>
  /\ UNCHANGED <<halted, delivered, sdrops>>

RunStops == run = "loop" /\ halted /\ RunEnds
RunFails == run = "loop" /\ ~halted /\ RunEnds

SubThread == Run \/ SubAsk \/ OnMessage \/ RunStops
SubBroker == OnSubConnect \/ OnSubscribe
SubWorld == SubDrop \/ Halt \/ RunFails
=============================================================================
