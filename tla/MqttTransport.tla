---------------------------- MODULE MqttTransport ----------------------------
(***************************************************************************)
(* The MQTT transport, end to end: the client's program (MqttClient), a    *)
(* broker, and the server's subscriber (MqttSubscriber).  The broker is    *)
(* modelled from what the two programs rely on: it answers every request,  *)
(* acknowledges packets above QoS 0, forwards to a granted subscription in *)
(* the order of arrival, and at QoS 2 each packet once.                    *)
(***************************************************************************)
EXTENDS MqttClient, MqttSubscriber, FiniteSets

CONSTANT Codes  (* the return codes of CONNACK; 0 accepts *)

VARIABLES
  got,      (* the packets the broker has taken *)
  answers   (* history: the return codes it has sent to the client *)

brokerVars == <<got, answers>>
vars == <<clientVars, subVars, brokerVars>>

Init == ClientInit /\ SubInit /\ got = {} /\ answers = {}

(* Bound: it refuses one connection of the client. *)
BrokerAnswers ==
  \E rc \in Codes :
    /\ rc = 0 \/ answers \subseteq {0}
    /\ Connack(rc) /\ answers' = answers \union {rc}
    /\ UNCHANGED <<got, subVars>>

(* A packet of the client, forwarded to the server. *)
BrokerTakes ==
  /\ wire # << >> /\ wire' = Tail(wire)
  /\ got' = got \union {Head(wire)}
  /\ acks' = IF ccfg.qos > 0 /\ link = "up" THEN Append(acks, Head(wire)) ELSE acks
  /\ inbox' = IF session = "granted" /\ ~(ccfg.qos = 2 /\ Head(wire) \in got)
              THEN Append(inbox, Head(wire)) ELSE inbox
  /\ UNCHANGED <<mainVars, queue, pending, libVars, answers>>
  /\ UNCHANGED <<run, halted, slink, session, delivered, sdrops>>

Alone(A) == A /\ UNCHANGED <<subVars, brokerVars>>
SubAlone(A) == A /\ UNCHANGED <<clientVars, brokerVars>>

Next ==
  \/ Alone(ClientMain) \/ Alone(ClientLib) \/ Alone(Interrupt) \/ Alone(Drop)
  \/ SubAlone(SubThread) \/ SubAlone(SubBroker) \/ SubAlone(SubWorld)
  \/ BrokerAnswers \/ BrokerTakes

Spec == Init /\ [][Next]_vars

(* The threads run, and the broker answers the subscriber.  It need not    *)
(* answer the client, nor need the network carry anything.                 *)
Fairness ==
  /\ WF_clientVars(ClientMain) /\ WF_clientVars(ClientLib)
  /\ WF_subVars(SubThread) /\ WF_subVars(SubBroker)
FairSpec == Spec /\ Fairness
-----------------------------------------------------------------------------
Packets == 0 .. MaxPackets - 1

(* The types; a client that got as far as a connection has a valid QoS. *)
TypeOK ==
  /\ cmain \in {"begin", "ws", "polling", "answered", "loop", "wait",
                "publish", "send", "count", "leave", "joining", "exited"}
  /\ verdict \in {"none", "OK", "CONNECT", "TIMEOUT", "AUTH", "CONNACK"}
  /\ link \in {"none", "asked", "up", "lost", "down", "ended"}
  /\ link # "none" => ccfg.qos \in 0 .. 2
  /\ cb.next \in 0 .. 3 /\ exit \in 0 .. 2
  /\ {seq, sent, errors} \subseteq 0 .. MaxPackets + 1
  /\ {queue, wire, acks, pending} \subseteq Seq(0 .. MaxPackets)
  /\ ccfg.qos = 0 => pending = << >> /\ acks = << >>
  /\ run \in {"before", "loop", "ended"}
  /\ slink \in {"down", "asked", "up", "ended"}
  /\ session \in {"none", "asked", "granted", "refused"}
  /\ session # "none" => slink = "up"

(* What the client says at its end is so: mqtt_connect() returns what the  *)
(* broker answered; every number of the sensor was sent or is an error; a  *)
(* packet counts as confirmed once it was taken by libmosquitto and, above *)
(* QoS 0, by the broker; and there is no error without a cause.            *)
InHand == IF cmain \in {"publish", "send", "count"} THEN 1 ELSE 0
ClientReportsTruthfully ==
  /\ verdict = "OK" => 0 \in answers
  /\ verdict = "AUTH" => answers \intersect {4, 5} # {}
  /\ verdict = "CONNACK" => answers \ {0, 4, 5} # {}
  /\ seq = sent + errors + InHand
  /\ atoms.confirmed <= sent + (IF cmain = "count" THEN 1 ELSE 0)
  /\ ccfg.qos > 0 => atoms.confirmed <= Cardinality(got)
  /\ errors > 0 => drops > 0 \/ stopped \/ ccfg.noisy \/ ~ccfg.topicOk

(* The server gets packets in the order of the sensor and each once, but   *)
(* for QoS 1, where one comes again at most once per lost connection.      *)
OrderlyDelivery ==
  /\ ccfg.qos # 1 => \A i \in 1 .. Len(delivered) - 1 : delivered[i] < delivered[i + 1]
  /\ \A p \in ToSet(delivered) :
       Cardinality({i \in DOMAIN delivered : delivered[i] = p}) <= 1 + drops

(* A subscriber whose connection was lost subscribes again: as long as the *)
(* server runs, there is always another answer to its subscription, even a *)
(* refusal, or an error that was logged.                                   *)
SubscribesAgain ==
  session = "none" ~> (session \in {"granted", "refused"} \/ run = "ended")

(* A signal ends the client, whatever the broker and the network do: also  *)
(* while it connects, and while it waits for a reconnect.                  *)
SignalEndsClient == stopped ~> cmain = "exited"
=============================================================================
