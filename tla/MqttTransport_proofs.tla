------------------------- MODULE MqttTransport_proofs -------------------------
(***************************************************************************)
(* MqttTransport, for any number of packets and lost connections, any      *)
(* command lines of the client and any return codes: its types, what the   *)
(* client reports, and the order in which the server gets the packets.     *)
(***************************************************************************)
EXTENDS MqttTransport, Lists_proofs

Positions == {"begin", "ws", "polling", "answered", "loop", "wait", "publish",
              "send", "count", "leave", "joining", "exited"}
Working == {"loop", "wait", "publish", "send", "count", "leave"}
ReturnCodes == Codes \cup {0}

(* The types: of main, of libmosquitto's thread, of the network and of the *)
(* server's side.                                                          *)
MainKinds ==
  /\ cmain \in Positions
  /\ verdict \in {"none", "OK", "CONNECT", "TIMEOUT", "AUTH", "CONNACK"}
  /\ exit \in 0 .. 2 /\ {seq, sent, errors} \subseteq Nat
  /\ link \in {"none", "asked", "up", "lost", "down", "ended"}
  /\ link # "none" => ccfg.qos \in 0 .. 2
IsAtoms(a) ==
  /\ a = [connected |-> a.connected, received |-> a.received, rc |-> a.rc,
          published |-> a.published, confirmed |-> a.confirmed]
  /\ a.rc \in ReturnCodes /\ a.published \in Nat /\ a.confirmed \in Nat
LibKinds ==
  /\ cb.next \in 0 .. 3 /\ cb.rc \in ReturnCodes
  /\ cb = [next |-> cb.next, rc |-> cb.rc]
  /\ IsAtoms(atoms) /\ drops \in Nat
NetKinds ==
  /\ {queue, wire, acks, pending} \subseteq Seq(0 .. MaxPackets)
  /\ ccfg.qos = 0 => pending = << >> /\ acks = << >>
  /\ link = "none" => queue = << >> /\ wire = << >> /\ acks = << >> /\ pending = << >>
SubKinds ==
  /\ run \in {"before", "loop", "ended"}
  /\ slink \in {"down", "asked", "up", "ended"}
  /\ session \in {"none", "asked", "granted", "refused"}
  /\ session # "none" => slink = "up"
  /\ {inbox, delivered} \subseteq Seq(Nat) /\ got \subseteq Nat
Kinds == MainKinds /\ LibKinds /\ NetKinds /\ SubKinds

(* Which positions of main and of libmosquitto's thread go together.       *)
Phases ==
  /\ cmain \in {"begin", "ws"} => link = "none"
  /\ cmain \in Working \cup {"polling", "answered", "joining"} => link # "none"
  /\ cmain \in {"begin", "ws", "polling", "answered"} => seq = 0
  /\ seq <= MaxPackets
  /\ cmain = "wait" => seq < MaxPackets
  /\ quitting => cmain \in {"joining", "exited"}
  /\ link = "ended" => cmain \in {"joining", "exited"}
  /\ cb.next = 0 => cb = Idle
  /\ cb.next # 0 => link = "asked"

Adding == seq = sent + errors + InHand

(* A return code that main may read is one that the broker has sent.       *)
Answering ==
  /\ cb.next # 0 => cb.rc \in answers
  /\ atoms.received \/ cb.next \in 2 .. 3 \/ cmain = "answered" => atoms.rc \in answers

Verdicts ==
  /\ verdict = "OK" => 0 \in answers
  /\ verdict = "AUTH" => answers \intersect {4, 5} # {}
  /\ verdict = "CONNACK" => answers \ {0, 4, 5} # {}

(* As long as no connection was lost, one that main was told of lasts: the *)
(* stores of on_connect() are all done, or the last of them are to come.   *)
Lasts ==
  \/ link = "up" /\ atoms.connected /\ cb.next = 0
  \/ link = "asked" /\ cb.next \in 2 .. 3 /\ cb.rc = 0
ToldOf ==
  \/ cmain \in Working
  \/ /\ cmain \in {"begin", "polling", "answered"} /\ atoms.rc = 0
     /\ atoms.received \/ cb.next \in 2 .. 3 \/ cmain = "answered"
Lasting ==
  drops = 0 => /\ ToldOf => Lasts
               /\ cmain = "publish" /\ ~stopped => atoms.connected

Causes == errors > 0 => drops > 0 \/ stopped \/ ccfg.noisy \/ ~ccfg.topicOk

ControlInv ==
  Kinds /\ Phases /\ Adding /\ Answering /\ Verdicts /\ Lasting /\ Causes

-----------------------------------------------------------------------------
(* The steps, one by one. *)
OthersRest == UNCHANGED <<subVars, brokerVars>>
ClientRests == UNCHANGED <<clientVars, brokerVars>>

MainStep ==
  \/ Begin \/ Poll \/ PollTimeout \/ Refused \/ Accepted \/ LoopEnds \/ LoopTurn
  \/ Wait \/ Check \/ Send \/ Count \/ Leave \/ JoinLib \/ Interrupt
LibStep ==
  OnConnect \/ Write \/ Acknowledged \/ OnDisconnect \/ Reconnect \/ Quit \/ Drop
SubStep ==
  \/ Run \/ SubAsk \/ OnMessage \/ RunStops \/ RunFails \/ OnSubConnect
  \/ OnSubscribe \/ SubDrop \/ Halt

LEMMA StepCases ==
  ASSUME [Next]_vars
  PROVE  \/ MainStep /\ OthersRest
         \/ LibStep /\ OthersRest
         \/ SubStep /\ ClientRests
         \/ BrokerAnswers
         \/ BrokerTakes
         \/ UNCHANGED vars
<1>1. CASE Alone(ClientMain) \/ Alone(Interrupt)
  BY <1>1 DEF Alone, ClientMain, MainStep, OthersRest
<1>2. CASE Alone(ClientLib) \/ Alone(Drop)
  BY <1>2 DEF Alone, ClientLib, LibStep, OthersRest
<1>3. CASE SubAlone(SubThread) \/ SubAlone(SubBroker) \/ SubAlone(SubWorld)
  BY <1>3 DEF SubAlone, SubThread, SubBroker, SubWorld, SubStep, ClientRests
<1> QED
  BY <1>1, <1>2, <1>3 DEF Next
-----------------------------------------------------------------------------
(* Updates of the flags and counters of mqtt_client_t. *)
LEMMA ConnectedUpdate ==
  ASSUME NEW a, IsAtoms(a), NEW c
  PROVE  LET b == [a EXCEPT !.connected = c]
         IN  /\ IsAtoms(b) /\ b.connected = c /\ b.received = a.received
             /\ b.rc = a.rc /\ b.confirmed = a.confirmed
BY DEF IsAtoms

LEMMA ReceivedUpdate ==
  ASSUME NEW a, IsAtoms(a), NEW r
  PROVE  LET b == [a EXCEPT !.received = r]
         IN  /\ IsAtoms(b) /\ b.connected = a.connected /\ b.received = r
             /\ b.rc = a.rc /\ b.confirmed = a.confirmed
BY DEF IsAtoms

LEMMA CodeUpdate ==
  ASSUME NEW a, IsAtoms(a), NEW rc \in ReturnCodes
  PROVE  LET b == [a EXCEPT !.rc = rc]
         IN  /\ IsAtoms(b) /\ b.connected = a.connected
             /\ b.received = a.received /\ b.rc = rc /\ b.confirmed = a.confirmed
BY DEF IsAtoms

LEMMA PublishedUpdate ==
  ASSUME NEW a, IsAtoms(a)
  PROVE  LET b == [a EXCEPT !.published = @ + 1]
         IN  /\ IsAtoms(b) /\ b.connected = a.connected
             /\ b.received = a.received /\ b.rc = a.rc /\ b.confirmed = a.confirmed
BY DEF IsAtoms

LEMMA ConfirmedUpdate ==
  ASSUME NEW a, IsAtoms(a)
  PROVE  LET b == [a EXCEPT !.confirmed = @ + 1]
         IN  /\ IsAtoms(b) /\ b.connected = a.connected
             /\ b.received = a.received /\ b.rc = a.rc
             /\ b.confirmed = a.confirmed + 1
BY DEF IsAtoms

(* What one store of on_connect() does. *)
LEMMA OnConnectIs ==
  ASSUME OnConnect
  PROVE  /\ cb.next = 1 => atoms' = [atoms EXCEPT !.rc = cb.rc]
         /\ cb.next = 2 => atoms' = [atoms EXCEPT !.received = TRUE]
         /\ cb.next = 3 => atoms' = [atoms EXCEPT !.connected = (cb.rc = 0)]
<1>1. /\ OnConnectStores[1] = "rc" /\ OnConnectStores[2] = "received"
      /\ OnConnectStores[3] = "connected"
  BY DEF OnConnectStores
<1>2. CASE cb.next = 1
  BY <1>1, <1>2 DEF OnConnect
<1>3. CASE cb.next = 2
  BY <1>1, <1>3 DEF OnConnect
<1>4. CASE cb.next = 3
  BY <1>1, <1>4 DEF OnConnect
<1> QED
  BY <1>2, <1>3, <1>4

LEMMA OnConnectDoes ==
  ASSUME LibKinds, OnConnect
  PROVE  /\ IsAtoms(atoms') /\ atoms'.confirmed = atoms.confirmed
         /\ \/ /\ cb.next = 1 /\ cb'.next = 2 /\ cb'.rc = cb.rc /\ link' = link
               /\ atoms'.rc = cb.rc /\ atoms'.received = atoms.received
               /\ atoms'.connected = atoms.connected
            \/ /\ cb.next = 2 /\ cb'.next = 3 /\ cb'.rc = cb.rc /\ link' = link
               /\ atoms'.rc = atoms.rc /\ atoms'.received
               /\ atoms'.connected = atoms.connected
            \/ /\ cb.next = 3 /\ cb' = Idle /\ cb'.next = 0
               /\ link' = (IF cb.rc = 0 THEN "up" ELSE "lost")
               /\ atoms'.rc = atoms.rc /\ atoms'.received = atoms.received
               /\ (cb.rc = 0 => atoms'.connected)
<1>1. IsAtoms(atoms) /\ cb.rc \in ReturnCodes /\ cb.next \in 1 .. 3
      /\ cb = [next |-> cb.next, rc |-> cb.rc]
  BY DEF LibKinds, OnConnect
<1>2. CASE cb.next = 1
  <2>1. atoms' = [atoms EXCEPT !.rc = cb.rc]
    BY <1>2, OnConnectIs
  <2>2. cb'.next = 2 /\ cb'.rc = cb.rc /\ link' = link
    BY <1>1, <1>2 DEF OnConnect
  <2> QED
    BY <1>1, <1>2, <2>1, <2>2, CodeUpdate
<1>3. CASE cb.next = 2
  <2>1. atoms' = [atoms EXCEPT !.received = TRUE]
    BY <1>3, OnConnectIs
  <2>2. cb'.next = 3 /\ cb'.rc = cb.rc /\ link' = link
    BY <1>1, <1>3 DEF OnConnect
  <2> QED
    BY <1>1, <1>3, <2>1, <2>2, ReceivedUpdate
<1>4. CASE cb.next = 3
  <2> DEFINE c == cb.rc = 0
  <2>1. atoms' = [atoms EXCEPT !.connected = c]
    BY <1>4, OnConnectIs
  <2>2. cb' = Idle /\ cb'.next = 0 /\ link' = (IF cb.rc = 0 THEN "up" ELSE "lost")
    BY <1>1, <1>4 DEF OnConnect, Idle
  <2>3. c <=> cb.rc = 0
    OBVIOUS
  <2> HIDE DEF c
  <2>4. /\ IsAtoms(atoms') /\ atoms'.confirmed = atoms.confirmed /\ atoms'.rc = atoms.rc
        /\ atoms'.received = atoms.received /\ atoms'.connected = c
    BY <1>1, <2>1, ConnectedUpdate
  <2> QED
    BY <1>4, <2>2, <2>3, <2>4
<1> QED
  BY <1>1, <1>2, <1>3, <1>4

LEMMA OnDisconnectDoes ==
  ASSUME LibKinds, OnDisconnect
  PROVE  /\ IsAtoms(atoms')
         /\ atoms'.rc = atoms.rc /\ atoms'.confirmed = atoms.confirmed
         /\ (atoms'.received => atoms.received /\ quitting)
<1> DEFINE r == atoms.received /\ quitting
           m == [atoms EXCEPT !.connected = FALSE]
           b == [m EXCEPT !.received = r]
<1>1. IsAtoms(atoms)
  BY DEF LibKinds
<1>2. IsAtoms(m) /\ m.rc = atoms.rc /\ m.confirmed = atoms.confirmed
  BY <1>1, ConnectedUpdate
<1>3. atoms' = b
  BY <1>1 DEF OnDisconnect, IsAtoms
<1>4. r <=> atoms.received /\ quitting
  OBVIOUS
<1> HIDE DEF m, r
<1>5. IsAtoms(b) /\ b.rc = m.rc /\ b.confirmed = m.confirmed /\ b.received = r
  BY <1>2, ReceivedUpdate
<1> HIDE DEF b
<1> QED
  BY <1>2, <1>3, <1>4, <1>5

-----------------------------------------------------------------------------
(* Kinds. *)
LEMMA ValidQos ==
  ASSUME NEW cfg, Valid(cfg)
  PROVE  cfg.qos \in 0 .. 2
<1>1. {cfg.qos, cfg.will_qos} \subseteq 0 .. 2
  BY DEF Valid
<1> QED
  BY <1>1

LEMMA KindsOfMain ==
  ASSUME ControlInv, MainStep, OthersRest
  PROVE  Kinds'
<1> USE ClientAssumption
<1>0. MainKinds /\ LibKinds /\ NetKinds /\ SubKinds /\ Phases /\ Adding
  BY DEF ControlInv, Kinds
<1>1. MainKinds'
  <2> USE <1>0 DEF MainKinds, Positions, mainVars, startVars, countVars, libVars
  <2>1. CASE Begin
    <3>1. PICK p \in {ParseClient(argv)} :
            /\ ccfg' = [qos |-> p.cfg.qos, noisy |-> p.cfg.noise > NoiseLimit,
                        topicOk |-> p.cfg.topic # "#"]
            /\ \/ Exit(0) /\ UNCHANGED <<verdict, link>>
               \/ Exit(1) /\ UNCHANGED <<verdict, link>>
               \/ cmain' = "ws" /\ UNCHANGED <<exit, verdict, link>>
               \/ Exit(1) /\ verdict' = "CONNECT" /\ UNCHANGED link
               \/ /\ Valid(p.cfg) /\ cmain' = "polling" /\ link' = "asked"
                  /\ UNCHANGED <<exit, verdict>>
      BY <2>1 DEF Begin
    <3>2. ccfg'.qos = p.cfg.qos /\ link = "none"
      BY <2>1, <3>1, <1>0 DEF Begin, Phases
    <3>3. Valid(p.cfg) => p.cfg.qos \in 0 .. 2
      BY ValidQos
    <3> QED
      BY <2>1, <3>1, <3>2, <3>3 DEF Begin, Exit
  <2>2. CASE Poll \/ Accepted \/ Leave \/ JoinLib \/ Interrupt \/ Count
    BY <2>2, <1>0 DEF Poll, Accepted, Leave, JoinLib, Interrupt, Count, Exit
  <2>3. CASE PollTimeout \/ Refused
    <3>1. link # "none"
      BY <2>3, <1>0 DEF Phases, PollTimeout, Refused
    <3> QED
      BY <2>3, <3>1 DEF PollTimeout, Refused, ConnectFails, Exit
  <2>4. CASE LoopEnds \/ LoopTurn \/ Wait \/ Check \/ Send
    BY <2>4 DEF LoopEnds, LoopTurn, Wait, Check, Send, Go, ReadSensor
  <2> QED
    BY <2>1, <2>2, <2>3, <2>4 DEF MainStep
<1>2. LibKinds'
  <2> USE <1>0 DEF LibKinds, libVars
  <2>1. CASE PollTimeout \/ Refused
    BY <2>1 DEF PollTimeout, Refused, ConnectFails, Idle, ReturnCodes
  <2>2. CASE Count
    BY <2>2, PublishedUpdate DEF Count, Counted
  <2>3. CASE ~(PollTimeout \/ Refused \/ Count)
    BY <2>3 DEF MainStep, Begin, Poll, Accepted, LoopEnds, LoopTurn, Wait, Check,
                Send, Leave, JoinLib, Interrupt, Go, ReadSensor
  <2> QED
    BY <2>1, <2>2, <2>3
<1>3. NetKinds'
  <2> USE <1>0 DEF NetKinds, netVars, startVars, mainVars
  <2>1. CASE Send
    <3>0. cmain = "send" /\ seq \in Nat /\ sent \in Nat /\ errors \in Nat
      BY <2>1, <1>0 DEF Send, Go, MainKinds
    <3>1. seq - 1 \in 0 .. MaxPackets
      BY <3>0, <1>0 DEF Adding, InHand, Phases
    <3>2. /\ Append(queue, seq - 1) \in Seq(0 .. MaxPackets)
          /\ Append(pending, seq - 1) \in Seq(0 .. MaxPackets)
      BY <3>1, AppendProperties
    <3>3. link # "none" /\ link' = link
      BY <2>1, <3>0, <1>0 DEF Send, Go, Phases, Working, libVars
    <3> QED
      BY <2>1, <3>2, <3>3 DEF Send, Go
  <2>2. CASE Begin
    <3>1. link = "none"
      BY <2>2, <1>0 DEF Begin, Phases
    <3> QED
      BY <2>2, <3>1 DEF Begin
  <2>3. CASE ~(Send \/ Begin)
    <3>1. UNCHANGED <<netVars, ccfg>>
      BY <2>3 DEF MainStep, Poll, PollTimeout, Refused, ConnectFails, Accepted,
                  LoopEnds, LoopTurn, Wait, Check, Count, Leave, JoinLib,
                  Interrupt, Go, ReadSensor
    <3>2. link' \in {link, "ended"}
      BY <2>3 DEF MainStep, Poll, PollTimeout, Refused, ConnectFails, Accepted,
                  LoopEnds, LoopTurn, Wait, Check, Count, Leave, JoinLib,
                  Interrupt, Go, ReadSensor, libVars
    <3> QED
      BY <3>1, <3>2
  <2> QED
    BY <2>1, <2>2, <2>3
<1>4. SubKinds'
  BY <1>0 DEF SubKinds, OthersRest, subVars, brokerVars
<1> QED
  BY <1>1, <1>2, <1>3, <1>4 DEF Kinds

LEMMA KindsOfLib ==
  ASSUME ControlInv, LibStep, OthersRest
  PROVE  Kinds'
<1> USE ClientAssumption
<1>0. MainKinds /\ LibKinds /\ NetKinds /\ SubKinds /\ Phases
  BY DEF ControlInv, Kinds
<1>a. link # "none" => link' # "none"
  BY DEF LibStep, OnConnect, Write, Acknowledged, OnDisconnect, Reconnect, Quit, Drop
<1>1. MainKinds'
  <2>1. UNCHANGED mainVars
    BY DEF LibStep, OnConnect, Write, Acknowledged, OnDisconnect, Reconnect, Quit, Drop
  <2>2. link' \in {"asked", "up", "lost", "down", "ended", link}
    BY DEF LibStep, OnConnect, Write, Acknowledged, OnDisconnect, Reconnect, Quit, Drop
  <2>3. link' # link => link # "none"
    <3>1. CASE OnConnect
      <4>1. cb.next # 0
        BY <3>1 DEF OnConnect
      <4> QED
        BY <4>1, <1>0 DEF Phases
    <3>2. CASE Drop \/ OnDisconnect \/ Reconnect \/ Quit
      BY <3>2 DEF Drop, OnDisconnect, Reconnect, Quit, Socket
    <3>3. CASE Write \/ Acknowledged
      BY <3>3 DEF Write, Acknowledged
    <3> QED
      BY <3>1, <3>2, <3>3 DEF LibStep
  <2> QED
    BY <1>0, <2>1, <2>2, <2>3 DEF MainKinds, mainVars, startVars, countVars
<1>2. LibKinds'
  <2> USE <1>0 DEF LibKinds
  <2>1. CASE OnConnect
    <3>1. IsAtoms(atoms')
      BY <2>1, OnConnectDoes
    <3>2. /\ cb'.next \in 0 .. 3 /\ cb'.rc \in ReturnCodes
          /\ cb' = [next |-> cb'.next, rc |-> cb'.rc]
      BY <2>1 DEF OnConnect, Idle, ReturnCodes
    <3> QED
      BY <2>1, <3>1, <3>2 DEF OnConnect
  <2>2. CASE Write \/ Acknowledged
    BY <2>2, ConfirmedUpdate DEF Write, Acknowledged
  <2>3. CASE OnDisconnect
    BY <2>3, OnDisconnectDoes DEF OnDisconnect
  <2>4. CASE Quit
    BY <2>4, ConnectedUpdate DEF Quit
  <2>5. CASE Reconnect \/ Drop
    BY <2>5 DEF Reconnect, Drop
  <2> QED
    BY <2>1, <2>2, <2>3, <2>4, <2>5 DEF LibStep
<1>3. NetKinds'
  <2> USE <1>0 DEF NetKinds, netVars, mainVars, startVars
  <2>1. CASE OnConnect
    <3>1. cb.next # 0
      BY <2>1 DEF OnConnect
    <3>2. link # "none"
      BY <3>1 DEF Phases
    <3> QED
      BY <2>1, <3>2, <1>a DEF OnConnect
  <2>2. CASE Write
    <3>1. /\ Tail(queue) \in Seq(0 .. MaxPackets)
          /\ Append(wire, Head(queue)) \in Seq(0 .. MaxPackets)
      BY <2>2, HeadTailProperties, AppendProperties DEF Write
    <3> QED
      BY <2>2, <3>1 DEF Write, Socket
  <2>3. CASE Acknowledged
    <3>1. /\ Tail(acks) \in Seq(0 .. MaxPackets)
          /\ Kept(pending, Nat \ {Head(acks)}) \in Seq(0 .. MaxPackets)
      BY <2>3, HeadTailProperties, KeptElements DEF Acknowledged
    <3>2. ccfg.qos # 0
      BY <2>3 DEF Acknowledged
    <3> QED
      BY <2>3, <3>1, <3>2 DEF Acknowledged
  <2>4. CASE Drop
    BY <2>4 DEF Drop
  <2>5. CASE OnDisconnect \/ Reconnect \/ Quit
    BY <2>5, <1>a DEF OnDisconnect, Reconnect, Quit
  <2> QED
    BY <2>1, <2>2, <2>3, <2>4, <2>5 DEF LibStep
<1>4. SubKinds'
  BY <1>0 DEF SubKinds, OthersRest, subVars, brokerVars
<1> QED
  BY <1>1, <1>2, <1>3, <1>4 DEF Kinds

LEMMA KindsOfSub ==
  ASSUME Kinds, SubStep, ClientRests
  PROVE  Kinds'
<1>0. MainKinds /\ LibKinds /\ NetKinds /\ SubKinds
  BY DEF Kinds
<1>1. MainKinds' /\ LibKinds' /\ NetKinds'
  BY <1>0 DEF MainKinds, LibKinds, NetKinds, ClientRests, clientVars, mainVars,
              startVars, countVars, netVars, libVars
<1>2. SubKinds'
  <2> USE <1>0 DEF SubKinds, ClientRests, brokerVars
  <2>1. CASE OnMessage
    <3>1. Tail(inbox) \in Seq(Nat) /\ Append(delivered, Head(inbox)) \in Seq(Nat)
      BY <2>1, HeadTailProperties, AppendProperties DEF OnMessage
    <3> QED
      BY <2>1, <3>1 DEF OnMessage
  <2>2. CASE Run \/ SubAsk \/ OnSubConnect \/ OnSubscribe \/ Halt
    BY <2>2 DEF Run, SubAsk, OnSubConnect, OnSubscribe, Halt
  <2>3. CASE RunStops \/ RunFails \/ SubDrop
    <3>1. /\ run' \in {"ended", run} /\ slink' \in {"ended", "down"}
          /\ session' = "none" /\ inbox' = << >>
      BY <2>3 DEF RunStops, RunFails, RunEnds, SubDrop
    <3>2. delivered' = delivered /\ got' = got
      BY <2>3 DEF RunStops, RunFails, RunEnds, SubDrop
    <3>3. << >> \in Seq(Nat)
      BY EmptySeq
    <3> QED
      BY <3>1, <3>2, <3>3
  <2> QED
    BY <2>1, <2>2, <2>3 DEF SubStep
<1> QED
  BY <1>1, <1>2 DEF Kinds

LEMMA KindsOfBroker ==
  ASSUME Kinds, BrokerAnswers \/ BrokerTakes
  PROVE  Kinds'
<1>0. MainKinds /\ LibKinds /\ NetKinds /\ SubKinds
  BY DEF Kinds
<1>1. CASE BrokerAnswers
  <2>1. PICK rc \in Codes :
          Connack(rc) /\ UNCHANGED <<got, subVars>>
    BY <1>1 DEF BrokerAnswers
  <2>2. UNCHANGED <<mainVars, netVars, atoms, link, drops, got, subVars>>
    BY <2>1 DEF Connack
  <2>3. cb' = [next |-> 1, rc |-> rc] /\ rc \in ReturnCodes
    BY <2>1 DEF Connack, ReturnCodes
  <2>4. LibKinds'
    BY <1>0, <2>2, <2>3 DEF LibKinds
  <2> QED
    BY <1>0, <2>2, <2>4 DEF Kinds, MainKinds, NetKinds, SubKinds, mainVars,
                            startVars, countVars, netVars, subVars
<1>2. CASE BrokerTakes
  <2>1. UNCHANGED <<mainVars, libVars, queue, pending, run, slink, session, delivered>>
    BY <1>2 DEF BrokerTakes
  <2>2. /\ Tail(wire) \in Seq(0 .. MaxPackets) /\ Head(wire) \in 0 .. MaxPackets
        /\ Append(acks, Head(wire)) \in Seq(0 .. MaxPackets)
    <3>1. wire \in Seq(0 .. MaxPackets) /\ acks \in Seq(0 .. MaxPackets) /\ wire # << >>
      BY <1>0, <1>2 DEF BrokerTakes, NetKinds
    <3> QED
      BY <3>1, HeadTailProperties, AppendProperties
  <2>3. NetKinds'
    <3>1. /\ wire' = Tail(wire) /\ acks' \in {acks, Append(acks, Head(wire))}
          /\ queue' = queue /\ pending' = pending /\ wire # << >>
          /\ ccfg' = ccfg /\ link' = link
      BY <1>2 DEF BrokerTakes, mainVars, startVars, libVars
    <3>2. ccfg.qos = 0 => acks' = acks
      BY <1>2 DEF BrokerTakes
    <3> QED
      BY <1>0, <2>2, <3>1, <3>2 DEF NetKinds
  <2>4. SubKinds'
    <3>1. Append(inbox, Head(wire)) \in Seq(Nat) /\ Head(wire) \in Nat
      BY <1>0, <2>2, AppendProperties, ClientAssumption DEF SubKinds
    <3> QED
      BY <1>0, <1>2, <2>1, <3>1 DEF BrokerTakes, SubKinds
  <2> QED
    BY <1>0, <2>1, <2>3, <2>4 DEF Kinds, MainKinds, LibKinds, mainVars, startVars,
                                  countVars, libVars
<1> QED
  BY <1>1, <1>2

LEMMA KindsStep ==
  ASSUME ControlInv, [Next]_vars
  PROVE  Kinds'
<1>1. Kinds
  BY DEF ControlInv
<1>2. CASE UNCHANGED vars
  BY <1>1, <1>2 DEF Kinds, MainKinds, LibKinds, NetKinds, SubKinds, vars, clientVars,
                    mainVars, startVars, countVars, netVars, libVars, subVars, brokerVars
<1> QED
  BY <1>1, <1>2, StepCases, KindsOfMain, KindsOfLib, KindsOfSub, KindsOfBroker
-----------------------------------------------------------------------------
(* Phases. *)
LEMMA PhasesStep ==
  ASSUME ControlInv, [Next]_vars
  PROVE  Phases'
<1>0. MainKinds /\ LibKinds /\ Phases /\ Adding
  BY DEF ControlInv, Kinds
<1> USE <1>0, ClientAssumption
<1>1. CASE MainStep
  <2> USE DEF Phases, MainKinds, LibKinds, Positions, Working, startVars, countVars, libVars
  <2>1. CASE Begin
    <3>1. \/ cmain' \in {"exited", "ws"} /\ link' = link
          \/ cmain' = "polling" /\ link' = "asked"
      BY <2>1 DEF Begin, Exit
    <3> QED
      BY <2>1, <3>1 DEF Begin
  <2>2. CASE Poll \/ Accepted
    BY <2>2 DEF Poll, Accepted
  <2>3. CASE PollTimeout \/ Refused
    BY <2>3 DEF PollTimeout, Refused, ConnectFails, Exit, Idle
  <2>4. CASE LoopEnds \/ LoopTurn \/ Wait
    BY <2>4 DEF LoopEnds, LoopTurn, Wait, Go, ReadSensor
  <2>5. CASE Check \/ Send \/ Count
    BY <2>5 DEF Check, Send, Count, Go
  <2>6. CASE Leave \/ JoinLib \/ Interrupt
    BY <2>6 DEF Leave, JoinLib, Interrupt, Exit
  <2> QED
    BY <1>1, <2>1, <2>2, <2>3, <2>4, <2>5, <2>6 DEF MainStep
<1>2. CASE LibStep
  <2> USE DEF Phases, MainKinds, LibKinds, Positions, Working, mainVars, startVars,
              countVars
  <2>1. CASE OnConnect
    BY <2>1 DEF OnConnect, Idle
  <2>2. CASE Write \/ Acknowledged
    BY <2>2 DEF Write, Acknowledged
  <2>3. CASE Drop \/ OnDisconnect \/ Reconnect \/ Quit
    BY <2>3 DEF Drop, OnDisconnect, Reconnect, Quit, Socket, InCallback, Idle
  <2> QED
    BY <1>2, <2>1, <2>2, <2>3 DEF LibStep
<1>3. CASE BrokerAnswers
  BY <1>3 DEF BrokerAnswers, Connack, Phases, mainVars, startVars, countVars
<1>4. CASE UNCHANGED <<mainVars, libVars>>
  BY <1>4 DEF Phases, mainVars, startVars, countVars, libVars
<1>5. CASE ClientRests \/ BrokerTakes \/ UNCHANGED vars
  BY <1>4, <1>5 DEF ClientRests, BrokerTakes, vars, clientVars
<1> QED
  BY <1>1, <1>2, <1>3, <1>5, StepCases
-----------------------------------------------------------------------------
(* Adding, Answering, Verdicts, Lasting and Causes. *)
LEMMA AddingStep ==
  ASSUME ControlInv, [Next]_vars
  PROVE  Adding'
<1>0. MainKinds /\ Phases /\ Adding
  BY DEF ControlInv, Kinds
<1>1. CASE MainStep
  <2> USE <1>0 DEF Adding, InHand, MainKinds, countVars
  <2>1. CASE Begin
    <3>1. cmain' \in {"exited", "ws", "polling"}
      BY <2>1 DEF Begin, Exit
    <3> QED
      BY <2>1, <3>1 DEF Begin
  <2>2. CASE Poll \/ Accepted \/ PollTimeout \/ Refused
    BY <2>2 DEF Poll, Accepted, PollTimeout, Refused, ConnectFails, Exit
  <2>3. CASE LoopEnds \/ LoopTurn \/ Wait
    BY <2>3 DEF LoopEnds, LoopTurn, Wait, Go, ReadSensor
  <2>4. CASE Check \/ Send \/ Count
    BY <2>4 DEF Check, Send, Count, Go
  <2>5. CASE Leave \/ JoinLib \/ Interrupt
    BY <2>5 DEF Leave, JoinLib, Interrupt, Exit
  <2> QED
    BY <1>1, <2>1, <2>2, <2>3, <2>4, <2>5 DEF MainStep
<1>2. CASE UNCHANGED mainVars
  BY <1>0, <1>2 DEF Adding, InHand, mainVars, countVars
<1>3. CASE LibStep
  BY <1>2, <1>3 DEF LibStep, OnConnect, Write, Acknowledged, OnDisconnect, Reconnect,
                    Quit, Drop
<1>4. CASE BrokerAnswers \/ BrokerTakes
  BY <1>2, <1>4 DEF BrokerAnswers, BrokerTakes, Connack
<1>5. CASE ClientRests \/ UNCHANGED vars
  BY <1>2, <1>5 DEF ClientRests, vars, clientVars
<1> QED
  BY <1>1, <1>3, <1>4, <1>5, StepCases

(* The broker's answers only become more. *)
LEMMA AnswersGrow ==
  ASSUME [Next]_vars
  PROVE  answers \subseteq answers'
BY StepCases DEF OthersRest, ClientRests, brokerVars, BrokerAnswers, BrokerTakes, vars

LEMMA AnsweringStep ==
  ASSUME ControlInv, [Next]_vars
  PROVE  Answering'
<1>0. LibKinds /\ Phases /\ Answering /\ answers \subseteq answers'
  BY AnswersGrow DEF ControlInv, Kinds
<1>1. CASE MainStep
  <2> USE <1>0 DEF Answering, libVars
  <2>1. CASE Poll
    BY <2>1 DEF Poll
  <2>2. CASE PollTimeout \/ Refused
    BY <2>2 DEF PollTimeout, Refused, ConnectFails, Exit, Idle
  <2>3. CASE Count
    BY <2>3, PublishedUpdate DEF Count, Counted, LibKinds
  <2>4. CASE Begin
    <3>1. cmain' \in {"exited", "ws", "polling"}
      BY <2>4 DEF Begin, Exit
    <3> QED
      BY <2>4, <3>1 DEF Begin
  <2>5. CASE Accepted \/ LoopEnds \/ LoopTurn \/ Wait \/ Check \/ Send
    BY <2>5 DEF Accepted, LoopEnds, LoopTurn, Wait, Check, Send, Go, ReadSensor
  <2>6. CASE Leave \/ JoinLib \/ Interrupt
    BY <2>6 DEF Leave, JoinLib, Interrupt, Exit
  <2> QED
    BY <1>1, <2>1, <2>2, <2>3, <2>4, <2>5, <2>6 DEF MainStep
<1>2. CASE LibStep
  <2> USE <1>0 DEF Answering, LibKinds, mainVars
  <2>1. CASE OnConnect
    <3>1. cb.rc \in answers /\ cmain' = cmain
      BY <2>1 DEF OnConnect
    <3> QED
      BY <3>1, OnConnectDoes, <2>1
  <2>2. CASE Write \/ Acknowledged
    BY <2>2, ConfirmedUpdate DEF Write, Acknowledged
  <2>3. CASE OnDisconnect
    <3>1. atoms'.rc = atoms.rc /\ (atoms'.received => atoms.received)
      BY <2>3, OnDisconnectDoes
    <3> QED
      BY <2>3, <3>1 DEF OnDisconnect
  <2>4. CASE Quit
    BY <2>4, ConnectedUpdate DEF Quit
  <2>5. CASE Reconnect \/ Drop
    BY <2>5 DEF Reconnect, Drop
  <2> QED
    BY <1>2, <2>1, <2>2, <2>3, <2>4, <2>5 DEF LibStep
<1>3. CASE BrokerAnswers
  BY <1>0, <1>3 DEF BrokerAnswers, Connack, Answering, mainVars
<1>4. CASE ClientRests \/ BrokerTakes \/ UNCHANGED vars
  BY <1>0, <1>4 DEF ClientRests, BrokerTakes, vars, clientVars, mainVars, libVars, Answering
<1> QED
  BY <1>1, <1>2, <1>3, <1>4, StepCases

LEMMA VerdictsStep ==
  ASSUME ControlInv, [Next]_vars
  PROVE  Verdicts'
<1>0. Verdicts /\ Answering /\ answers \subseteq answers'
  BY AnswersGrow DEF ControlInv
<1>1. CASE UNCHANGED verdict
  BY <1>0, <1>1 DEF Verdicts
<1>2. CASE MainStep
  <2>1. CASE Begin
    <3>1. verdict' \in {"CONNECT", verdict}
      BY <2>1 DEF Begin
    <3> QED
      BY <1>0, <3>1 DEF Verdicts
  <2>2. CASE PollTimeout
    BY <1>0, <2>2 DEF PollTimeout, ConnectFails, Verdicts
  <2>3. CASE Refused
    BY <1>0, <2>3 DEF Refused, ConnectFails, Verdicts, Answering
  <2>4. CASE Accepted
    BY <1>0, <2>4 DEF Accepted, Verdicts, Answering
  <2>5. CASE ~(Begin \/ PollTimeout \/ Refused \/ Accepted)
    BY <1>1, <1>2, <2>5 DEF MainStep, Poll, LoopEnds, LoopTurn, Wait, Check, Send, Count,
                            Leave, JoinLib, Interrupt, Go, ReadSensor
  <2> QED
    BY <2>1, <2>2, <2>3, <2>4, <2>5
<1>3. CASE LibStep
  BY <1>1, <1>3 DEF LibStep, OnConnect, Write, Acknowledged, OnDisconnect, Reconnect,
                    Quit, Drop, mainVars
<1>4. CASE BrokerAnswers \/ BrokerTakes
  BY <1>1, <1>4 DEF BrokerAnswers, BrokerTakes, Connack, mainVars
<1>5. CASE ClientRests \/ UNCHANGED vars
  BY <1>1, <1>5 DEF ClientRests, vars, clientVars, mainVars
<1> QED
  BY <1>2, <1>3, <1>4, <1>5, StepCases

LEMMA LastingStep ==
  ASSUME ControlInv, [Next]_vars
  PROVE  Lasting'
<1>0. MainKinds /\ LibKinds /\ Phases /\ Lasting
  BY DEF ControlInv, Kinds
<1> USE <1>0 DEF Lasting, ToldOf, Lasts, Working
<1>1. CASE MainStep
  <2> USE DEF libVars
  <2>1. CASE Begin
    <3>1. cmain' \in {"exited", "ws", "polling"}
      BY <2>1 DEF Begin, Exit
    <3>2. drops = 0 => ~ToldOf
      BY <2>1 DEF Begin, Phases
    <3> QED
      BY <2>1, <3>1, <3>2 DEF Begin
  <2>2. CASE Poll \/ Accepted
    BY <2>2 DEF Poll, Accepted
  <2>3. CASE PollTimeout \/ Refused
    BY <2>3 DEF PollTimeout, Refused, ConnectFails, Exit
  <2>4. CASE LoopEnds \/ LoopTurn \/ Wait \/ Check \/ Send
    BY <2>4 DEF LoopEnds, LoopTurn, Wait, Check, Send, Go, ReadSensor
  <2>5. CASE Count
    <3>1. atoms'.connected = atoms.connected
      BY <2>5, PublishedUpdate DEF Count, Counted, LibKinds
    <3> QED
      BY <2>5, <3>1 DEF Count
  <2>6. CASE Leave \/ JoinLib \/ Interrupt
    BY <2>6 DEF Leave, JoinLib, Interrupt, Exit
  <2> QED
    BY <1>1, <2>1, <2>2, <2>3, <2>4, <2>5, <2>6 DEF MainStep
<1>2. CASE LibStep
  <2> USE DEF mainVars
  <2>1. CASE OnConnect
    <3>1. cmain' = cmain /\ stopped' = stopped /\ drops' = drops /\ link = "asked"
      BY <2>1 DEF OnConnect, Phases
    <3> QED
      BY <2>1, <3>1, OnConnectDoes
  <2>2. CASE Write \/ Acknowledged
    <3>1. /\ atoms'.connected = atoms.connected /\ atoms'.received = atoms.received
          /\ atoms'.rc = atoms.rc
      BY <2>2, ConfirmedUpdate DEF Write, Acknowledged, LibKinds
    <3> QED
      BY <2>2, <3>1 DEF Write, Acknowledged
  <2>3. CASE OnDisconnect
    <3>1. cmain' = cmain /\ drops' = drops /\ cb' = cb /\ link = "lost"
      BY <2>3 DEF OnDisconnect
    <3> QED
      BY <2>3, <3>1, OnDisconnectDoes
  <2>4. CASE Reconnect
    BY <2>4 DEF Reconnect
  <2>5. CASE Quit
    BY <2>5 DEF Quit, Phases
  <2>6. CASE Drop
    BY <2>6 DEF Drop, LibKinds
  <2> QED
    BY <1>2, <2>1, <2>2, <2>3, <2>4, <2>5, <2>6 DEF LibStep
<1>3. CASE BrokerAnswers
  <2>1. /\ UNCHANGED <<mainVars, atoms, drops>> /\ link = "asked"
        /\ cb.next = 0 /\ cb'.next = 1
    BY <1>3 DEF BrokerAnswers, Connack, InCallback, Idle
  <2> QED
    BY <2>1 DEF mainVars
<1>4. CASE ClientRests \/ BrokerTakes \/ UNCHANGED vars
  BY <1>4 DEF ClientRests, BrokerTakes, vars, clientVars, mainVars, libVars
<1> QED
  BY <1>1, <1>2, <1>3, <1>4, StepCases

LEMMA CausesStep ==
  ASSUME ControlInv, [Next]_vars
  PROVE  Causes'
<1>0. MainKinds /\ LibKinds /\ Phases /\ Adding /\ Lasting /\ Causes
  BY DEF ControlInv, Kinds
<1> USE <1>0 DEF Causes
<1>1. CASE MainStep
  <2> USE DEF startVars, countVars, libVars
  <2>1. CASE Begin
    <3>1. errors = 0 /\ errors' = errors
      BY <2>1 DEF Begin, Phases, Adding, InHand, MainKinds, countVars
    <3> QED
      BY <3>1
  <2>2. CASE LoopTurn \/ Wait
    BY <2>2 DEF LoopTurn, Wait, ReadSensor, Go
  <2>3. CASE Check
    BY <2>3 DEF Check, Go, Lasting, LibKinds
  <2>4. CASE Send
    <3>1. CASE errors' = errors
      BY <2>4, <3>1 DEF Send, Go
    <3>2. CASE errors' # errors
      <4>1. cmain = "send" /\ UNCHANGED <<ccfg, drops, stopped>>
        BY <2>4 DEF Send, Go
      <4>2. ~ccfg.topicOk \/ ~Socket
        BY <2>4, <3>2 DEF Send
      <4>3. drops = 0 => Socket
        BY <4>1 DEF Lasting, ToldOf, Working, Lasts, Socket
      <4> QED
        BY <4>1, <4>2, <4>3 DEF LibKinds
    <3> QED
      BY <3>1, <3>2
  <2>5. CASE Poll \/ Accepted \/ PollTimeout \/ Refused \/ LoopEnds
    BY <2>5 DEF Poll, Accepted, PollTimeout, Refused, ConnectFails, LoopEnds, Go
  <2>6. CASE Count \/ Leave \/ JoinLib \/ Interrupt
    BY <2>6 DEF Count, Leave, JoinLib, Interrupt
  <2> QED
    BY <1>1, <2>1, <2>2, <2>3, <2>4, <2>5, <2>6 DEF MainStep
<1>2. CASE UNCHANGED mainVars /\ drops' \in Nat /\ drops' >= drops
  BY <1>2 DEF mainVars, startVars, countVars, LibKinds
<1>3. CASE LibStep
  <2>1. UNCHANGED mainVars /\ drops' \in {drops, drops + 1}
    BY <1>3 DEF LibStep, OnConnect, Write, Acknowledged, OnDisconnect, Reconnect,
                Quit, Drop
  <2> QED
    BY <1>2, <2>1 DEF LibKinds
<1>4. CASE BrokerAnswers \/ BrokerTakes
  BY <1>2, <1>4 DEF BrokerAnswers, BrokerTakes, Connack, libVars, LibKinds
<1>5. CASE ClientRests \/ UNCHANGED vars
  BY <1>2, <1>5 DEF ClientRests, vars, clientVars, libVars, LibKinds
<1> QED
  BY <1>1, <1>3, <1>4, <1>5, StepCases

LEMMA ControlInit == Init => ControlInv
<1> SUFFICES ASSUME Init PROVE ControlInv
  OBVIOUS
<1> USE DEF Init, ClientInit, SubInit
<1>1. Kinds
  <2>1. IsAtoms(atoms)
    BY DEF IsAtoms, ReturnCodes
  <2>2. LibKinds
    BY <2>1 DEF LibKinds, Idle, ReturnCodes
  <2> QED
    BY <2>2 DEF Kinds, MainKinds, NetKinds, SubKinds, Positions
<1>2. Phases /\ Adding
  BY ClientAssumption DEF Phases, Adding, InHand, Working, Idle
<1>3. Answering /\ Verdicts /\ Lasting /\ Causes
  BY DEF Answering, Verdicts, Lasting, ToldOf, Working, Causes, Idle
<1> QED
  BY <1>1, <1>2, <1>3 DEF ControlInv

LEMMA ControlStep == ControlInv /\ [Next]_vars => ControlInv'
BY KindsStep, PhasesStep, AddingStep, AnsweringStep, VerdictsStep, LastingStep,
   CausesStep DEF ControlInv

LEMMA ControlInvariant == Spec => []ControlInv
BY ControlInit, ControlStep, PTL DEF Spec

(* The types of MqttTransport, for every number of packets. *)
THEOREM MqttTypeCorrect == Spec => []TypeOK
<1>1. ControlInv => TypeOK
  <2> SUFFICES ASSUME ControlInv PROVE TypeOK
    OBVIOUS
  <2>1. Kinds /\ MainKinds /\ LibKinds /\ NetKinds /\ SubKinds /\ Phases /\ Adding
    BY DEF ControlInv, Kinds
  <2>2. {seq, sent, errors} \subseteq 0 .. MaxPackets + 1
    BY <2>1, ClientAssumption DEF MainKinds, Phases, Adding, InHand
  <2> QED
    BY <2>1, <2>2 DEF TypeOK, MainKinds, LibKinds, NetKinds, SubKinds, Positions
<1> QED
  BY <1>1, ControlInvariant, PTL
-----------------------------------------------------------------------------
(***************************************************************************)
(* The packets.  Limit is the number of those that mqtt_publish() was      *)
(* called for, Taken of those libmosquitto accepted.                       *)
(***************************************************************************)
Limit == IF cmain \in {"publish", "send"} THEN seq - 1 ELSE seq
Taken == sent + (IF cmain = "count" THEN 1 ELSE 0)
InStream == ElementsOf(wire) \cup ElementsOf(queue)
Forwarded == delivered \o inbox

(* Where packets can be. *)
Numbered ==
  /\ ElementsOf(pending) \cup InStream \cup got \subseteq 0 .. Limit - 1
  /\ ElementsOf(acks) \cup ElementsOf(Forwarded) \subseteq got

(* What is confirmed was taken, and is not waiting any more. *)
Confirming ==
  /\ atoms.confirmed + (IF ccfg.qos = 0 THEN Len(queue) ELSE Len(pending)) <= Taken
  /\ ccfg.qos > 0 => atoms.confirmed <= Cardinality(got \ ElementsOf(pending))

(* On one connection every packet is written once, in order; and what was  *)
(* not acknowledged is written on the next one.                            *)
Streaming ==
  /\ Ascending(pending) /\ Ascending(wire) /\ Ascending(queue)
  /\ \A x \in ElementsOf(wire), y \in ElementsOf(queue) : x < y
  /\ ccfg.qos > 0 /\ link \notin {"up", "ended"} => wire = << >> /\ queue = << >>
  /\ ccfg.qos > 0 /\ (link = "up" \/ wire # << >>) =>
       ElementsOf(pending) \subseteq InStream \cup got

(* The broker gets new packets in order.  At QoS 1 it gets one at most     *)
(* once on each connection.                                                *)
Connections == drops + (IF link \in {"up", "ended"} THEN 1 ELSE 0)
Forwarding ==
  /\ ccfg.qos # 1 =>
       /\ Ascending(Forwarded)
       /\ \A x \in got, y \in (InStream \cup ElementsOf(pending)) \ got : x < y
  /\ ccfg.qos = 0 => InStream \cap got = {}
  /\ ccfg.qos = 1 => \A p \in Nat :
       Cardinality(PlacesOf(Forwarded, p)) + (IF p \in InStream THEN 1 ELSE 0)
         <= Connections

NetInv == Numbered /\ Confirming /\ Streaming /\ Forwarding

-----------------------------------------------------------------------------
(* What a step can do to the packets. *)
SameNet == UNCHANGED <<queue, pending, wire, acks, got>> /\ atoms'.confirmed = atoms.confirmed

Starting ==
  /\ cmain = "begin" /\ cmain' # "count" /\ SameNet
  /\ seq' = seq /\ sent' = sent /\ drops' = drops /\ Forwarded' = Forwarded
  /\ Limit' = Limit /\ Taken' = Taken

Quiet ==
  /\ SameNet /\ ccfg' = ccfg /\ drops' = drops
  /\ Limit' \in Int /\ Limit' >= Limit /\ Taken' = Taken
  /\ Forwarded' \in {Forwarded, delivered}
  /\ link \in {"up", "ended"} => link' \in {"up", "ended"}
  /\ link' = "up" => link = "up" \/ ccfg.qos = 0

Sending ==
  /\ cmain = "send" /\ link # "ended" /\ Limit' = Limit + 1 /\ Taken' = Taken + 1
  /\ queue' = IF ccfg.qos = 0 \/ link = "up" THEN Append(queue, Limit) ELSE queue
  /\ pending' = IF ccfg.qos = 0 THEN pending ELSE Append(pending, Limit)
  /\ UNCHANGED <<wire, acks, got, ccfg, drops, link>> /\ atoms'.confirmed = atoms.confirmed
  /\ Forwarded' = Forwarded

Connecting ==
  /\ ccfg.qos > 0 /\ link = "asked" /\ link' = "up" /\ queue' = pending
  /\ UNCHANGED <<pending, wire, acks, got, ccfg, drops>> /\ atoms'.confirmed = atoms.confirmed
  /\ Limit' = Limit /\ Taken' = Taken /\ Forwarded' = Forwarded

Writing ==
  /\ queue # << >> /\ link \in {"asked", "up"}
  /\ wire' = Append(wire, Head(queue)) /\ queue' = Tail(queue)
  /\ atoms'.confirmed = atoms.confirmed + (IF ccfg.qos = 0 THEN 1 ELSE 0)
  /\ UNCHANGED <<pending, acks, got, ccfg, drops, link>>
  /\ Limit' = Limit /\ Taken' = Taken /\ Forwarded' = Forwarded

Confirmed ==
  /\ acks # << >> /\ acks' = Tail(acks)
  /\ \/ /\ Head(acks) \in ElementsOf(pending)
        /\ pending' = Kept(pending, Nat \ {Head(acks)})
        /\ atoms'.confirmed = atoms.confirmed + 1
     \/ pending' = pending /\ atoms'.confirmed = atoms.confirmed
  /\ UNCHANGED <<queue, wire, got, ccfg, drops, link>>
  /\ Limit' = Limit /\ Taken' = Taken /\ Forwarded' = Forwarded

Dropping ==
  /\ queue' = << >> /\ wire' = << >> /\ acks' = << >>
  /\ drops' = drops + 1 /\ link' = "lost"
  /\ UNCHANGED <<pending, got, ccfg>> /\ atoms'.confirmed = atoms.confirmed
  /\ Limit' = Limit /\ Taken' = Taken /\ Forwarded' = Forwarded

Taking ==
  /\ wire # << >> /\ wire' = Tail(wire) /\ got' = got \cup {Head(wire)}
  /\ acks' \in {acks, Append(acks, Head(wire))}
  /\ Forwarded' \in {Forwarded, Append(Forwarded, Head(wire))}
  /\ ccfg.qos = 2 /\ Head(wire) \in got => Forwarded' = Forwarded
  /\ UNCHANGED <<queue, pending, ccfg, drops, link>> /\ atoms'.confirmed = atoms.confirmed
  /\ Limit' = Limit /\ Taken' = Taken

LEMMA NetSteps ==
  ASSUME ControlInv, [Next]_vars
  PROVE  Starting \/ Quiet \/ Sending \/ Connecting \/ Writing \/ Confirmed
         \/ Dropping \/ Taking
<1>0. MainKinds /\ LibKinds /\ NetKinds /\ SubKinds /\ Phases /\ Adding
  BY DEF ControlInv, Kinds
<1>1. seq \in Nat /\ sent \in Nat /\ errors \in Nat /\ atoms.confirmed \in Nat
      /\ (cmain \in {"publish", "send", "count"} => seq > 0)
  BY <1>0 DEF MainKinds, LibKinds, IsAtoms, Adding, InHand
<1>2. CASE MainStep /\ OthersRest
  <2>0. Forwarded' = Forwarded /\ got' = got
    BY <1>2 DEF OthersRest, subVars, brokerVars, Forwarded
  <2> USE <1>0, <1>1, <2>0 DEF Limit, Taken, SameNet, startVars, countVars, netVars, libVars
  <2>1. CASE Begin
    <3>1. cmain' \in {"exited", "ws", "polling"}
      BY <2>1 DEF Begin, Exit
    <3> QED
      BY <2>1, <3>1 DEF Begin, Starting
  <2>2. CASE Poll \/ Accepted
    BY <2>2 DEF Poll, Accepted, Quiet
  <2>3. CASE PollTimeout \/ Refused
    BY <2>3 DEF PollTimeout, Refused, ConnectFails, Exit, Quiet
  <2>4. CASE LoopEnds \/ LoopTurn \/ Wait
    BY <2>4 DEF LoopEnds, LoopTurn, Wait, Go, ReadSensor, Quiet
  <2>5. CASE Check
    BY <2>5 DEF Check, Go, Quiet
  <2>6. CASE Send
    <3>1. CASE errors' = errors
      <4>1. link # "ended"
        BY <2>6 DEF Send, Go, Phases
      <4> QED
        BY <2>6, <3>1, <4>1 DEF Send, Go, Sending
    <3>2. CASE errors' # errors
      BY <2>6, <3>2 DEF Send, Go, Quiet
    <3> QED
      BY <3>1, <3>2
  <2>7. CASE Count
    <3>1. atoms'.confirmed = atoms.confirmed
      BY <2>7, PublishedUpdate DEF Count, Counted, LibKinds
    <3> QED
      BY <2>7, <3>1 DEF Count, Quiet
  <2>8. CASE Leave \/ JoinLib \/ Interrupt
    BY <2>8 DEF Leave, JoinLib, Interrupt, Exit, Quiet
  <2> QED
    BY <1>2, <2>1, <2>2, <2>3, <2>4, <2>5, <2>6, <2>7, <2>8 DEF MainStep
<1>3. CASE LibStep /\ OthersRest
  <2>0. Forwarded' = Forwarded /\ got' = got
    BY <1>3 DEF OthersRest, subVars, brokerVars, Forwarded
  <2>1. /\ UNCHANGED mainVars /\ Limit' = Limit /\ Taken' = Taken
        /\ ccfg' = ccfg /\ Limit \in Int
    <3>1. UNCHANGED mainVars
      BY <1>3 DEF LibStep, OnConnect, Write, Acknowledged, OnDisconnect, Reconnect,
                  Quit, Drop
    <3> QED
      BY <1>1, <3>1 DEF mainVars, startVars, countVars, Limit, Taken
  <2> USE <1>0, <1>1, <2>0, <2>1 DEF SameNet, netVars
  <2>2. CASE OnConnect
    <3>1. link = "asked" /\ atoms'.confirmed = atoms.confirmed
      <4>1. cb.next # 0
        BY <2>2 DEF OnConnect
      <4> QED
        BY <2>2, <4>1, OnConnectDoes DEF Phases
    <3>2. UNCHANGED <<pending, wire, acks, drops>>
      BY <2>2 DEF OnConnect
    <3>3. CASE cb.next = 3 /\ cb.rc = 0 /\ ccfg.qos > 0
      <4>1. link' = "up" /\ queue' = pending
        BY <2>2, <3>3 DEF OnConnect
      <4> QED
        BY <3>1, <3>2, <3>3, <4>1 DEF Connecting
    <3>4. CASE ~(cb.next = 3 /\ cb.rc = 0 /\ ccfg.qos > 0)
      <4>1. ccfg.qos \in 0 .. 2 /\ cb.next \in 1 .. 3
        BY <2>2, <3>1 DEF MainKinds, OnConnect
      <4>2. queue' = queue /\ (link' = "up" => ccfg.qos = 0)
        BY <2>2, <3>1, <3>4, <4>1 DEF OnConnect
      <4> QED
        BY <3>1, <3>2, <4>2 DEF Quiet
    <3> QED
      BY <3>3, <3>4
  <2>3. CASE Write
    <3>1. atoms'.confirmed = atoms.confirmed + (IF ccfg.qos = 0 THEN 1 ELSE 0)
      BY <2>3, ConfirmedUpdate DEF Write, LibKinds
    <3> QED
      BY <2>3, <3>1 DEF Write, Socket, Writing
  <2>4. CASE Acknowledged
    <3>1. ToSet(pending) = ElementsOf(pending)
      BY LenProperties DEF NetKinds, ToSet, ElementsOf
    <3>2. CASE Head(acks) \in ToSet(pending)
      <4>1. atoms'.confirmed = atoms.confirmed + 1
        BY <2>4, <3>2, ConfirmedUpdate DEF Acknowledged, LibKinds
      <4> QED
        BY <2>4, <3>1, <3>2, <4>1 DEF Acknowledged, Confirmed
    <3>3. CASE Head(acks) \notin ToSet(pending)
      BY <2>4, <3>3 DEF Acknowledged, Confirmed
    <3> QED
      BY <3>2, <3>3
  <2>5. CASE Drop
    BY <2>5 DEF Drop, Dropping
  <2>6. CASE OnDisconnect
    BY <2>6, OnDisconnectDoes DEF OnDisconnect, Quiet
  <2>7. CASE Reconnect
    BY <2>7 DEF Reconnect, Quiet
  <2>8. CASE Quit
    <3>1. atoms'.confirmed = atoms.confirmed
      BY <2>8, ConnectedUpdate DEF Quit, LibKinds
    <3> QED
      BY <2>8, <3>1 DEF Quit, Quiet
  <2> QED
    BY <1>3, <2>2, <2>3, <2>4, <2>5, <2>6, <2>7, <2>8 DEF LibStep
<1>4. Limit \in Int /\ Limit >= Limit
  BY <1>1 DEF Limit
<1>5. CASE SubStep /\ ClientRests
  <2>1. /\ SameNet /\ ccfg' = ccfg /\ drops' = drops /\ link' = link
        /\ Limit' = Limit /\ Taken' = Taken
    BY <1>5 DEF ClientRests, clientVars, mainVars, startVars, countVars, netVars, libVars,
                brokerVars, SameNet, Limit, Taken
  <2>2. Forwarded' \in {Forwarded, delivered}
    <3>1. inbox \in Seq(Nat) /\ delivered \in Seq(Nat)
      BY <1>0 DEF SubKinds
    <3>2. CASE OnMessage
      BY <3>1, <3>2, MoveHead DEF OnMessage, Forwarded
    <3>3. CASE RunStops \/ RunFails \/ SubDrop
      <4>1. delivered' = delivered /\ inbox' = << >>
        BY <3>3 DEF RunStops, RunFails, RunEnds, SubDrop
      <4> QED
        BY <3>1, <4>1, ConcatEmptySeq DEF Forwarded
    <3>4. CASE Run \/ SubAsk \/ OnSubConnect \/ OnSubscribe \/ Halt
      BY <3>4 DEF Run, SubAsk, OnSubConnect, OnSubscribe, Halt, Forwarded
    <3> QED
      BY <1>5, <3>2, <3>3, <3>4 DEF SubStep
  <2> QED
    BY <1>4, <2>1, <2>2 DEF Quiet
<1>6. CASE BrokerAnswers
  <2>1. UNCHANGED <<mainVars, netVars, atoms, link, drops, got, subVars>>
    BY <1>6 DEF BrokerAnswers, Connack
  <2> QED
    BY <1>4, <2>1 DEF Quiet, SameNet, mainVars, startVars, countVars, netVars, subVars,
                      Limit, Taken, Forwarded
<1>7. CASE BrokerTakes
  <2>1. UNCHANGED <<mainVars, queue, pending, libVars, delivered>>
    BY <1>7 DEF BrokerTakes
  <2>2. inbox \in Seq(Nat) /\ delivered \in Seq(Nat) /\ Head(wire) \in Nat
    <3>1. wire \in Seq(0 .. MaxPackets) /\ wire # << >>
      BY <1>0, <1>7 DEF NetKinds, BrokerTakes
    <3>2. Head(wire) \in 0 .. MaxPackets
      BY <3>1, HeadTailProperties
    <3> QED
      BY <1>0, <3>2, ClientAssumption DEF SubKinds
  <2>3. delivered \o Append(inbox, Head(wire)) = Append(Forwarded, Head(wire))
    BY <2>2, ConcatAppend DEF Forwarded
  <2>4. /\ Forwarded' \in {Forwarded, Append(Forwarded, Head(wire))}
        /\ ccfg.qos = 2 /\ Head(wire) \in got => Forwarded' = Forwarded
    BY <1>7, <2>1, <2>3 DEF BrokerTakes, Forwarded
  <2> QED
    BY <1>7, <2>1, <2>4 DEF BrokerTakes, Taking, mainVars, startVars, countVars, libVars,
                            Limit, Taken
<1>8. CASE UNCHANGED vars
  BY <1>4, <1>8 DEF Quiet, SameNet, vars, clientVars, mainVars, startVars, countVars,
                    netVars, libVars, subVars, brokerVars, Limit, Taken, Forwarded
<1> QED
  BY <1>2, <1>3, <1>5, <1>6, <1>7, <1>8, StepCases

-----------------------------------------------------------------------------
(* What these steps do to the lists. *)
LEMMA NetTypes ==
  ASSUME ControlInv
  PROVE  /\ queue \in Seq(Nat) /\ wire \in Seq(Nat) /\ acks \in Seq(Nat)
         /\ pending \in Seq(Nat) /\ delivered \in Seq(Nat) /\ inbox \in Seq(Nat)
         /\ Forwarded \in Seq(Nat) /\ got \subseteq Nat
         /\ Limit \in Int /\ Taken \in Int /\ drops \in Nat /\ atoms.confirmed \in Nat
         /\ Connections \in Nat
         /\ (queue # << >> \/ wire # << >> \/ pending # << >>) => ccfg.qos \in 0 .. 2
         /\ pending = << >> \/ ccfg.qos # 0
<1>0. MainKinds /\ LibKinds /\ NetKinds /\ SubKinds /\ Adding
  BY DEF ControlInv, Kinds
<1>1. /\ queue \in Seq(0 .. MaxPackets) /\ wire \in Seq(0 .. MaxPackets)
      /\ acks \in Seq(0 .. MaxPackets) /\ pending \in Seq(0 .. MaxPackets)
  BY <1>0 DEF NetKinds
<1>2. \A s \in Seq(0 .. MaxPackets) : s \in Seq(Nat)
  BY ClientAssumption
<1>3. delivered \in Seq(Nat) /\ inbox \in Seq(Nat) /\ got \subseteq Nat
  BY <1>0 DEF SubKinds
<1>4. Forwarded \in Seq(Nat)
  BY <1>3, Beginning DEF Forwarded
<1>5. Limit \in Int /\ Taken \in Int
  BY <1>0 DEF MainKinds, Limit, Taken
<1>6. drops \in Nat /\ atoms.confirmed \in Nat
  BY <1>0 DEF LibKinds, IsAtoms
<1>7. Connections \in Nat
  BY <1>6 DEF Connections
<1>8. /\ (queue # << >> \/ wire # << >> \/ pending # << >>) => ccfg.qos \in 0 .. 2
      /\ pending = << >> \/ ccfg.qos # 0
  BY <1>0 DEF NetKinds, MainKinds
<1> QED
  BY <1>1, <1>2, <1>3, <1>4, <1>5, <1>6, <1>7, <1>8

LEMMA EmptyList == ElementsOf(<< >>) = {} /\ Ascending(<< >>)
<1>1. Len(<< >>) = 0
  BY EmptySeq
<1> QED
  BY <1>1 DEF ElementsOf, Ascending

LEMMA NatLists ==
  ASSUME NEW s \in Seq(Nat)
  PROVE  ElementsOf(s) \subseteq Nat
BY ElementOfSeq DEF ElementsOf

LEMMA SendingMoves ==
  ASSUME ControlInv, NetInv, Sending
  PROVE  /\ Limit \in Nat
         /\ \A x \in ElementsOf(pending) \cup InStream \cup got : x < Limit
         /\ \/ queue' = queue
            \/ /\ ccfg.qos = 0 \/ link = "up"
               /\ ElementsOf(queue') = ElementsOf(queue) \cup {Limit}
         /\ \/ pending' = pending /\ ccfg.qos = 0
            \/ /\ ccfg.qos # 0 /\ Len(pending') = Len(pending) + 1
               /\ ElementsOf(pending') = ElementsOf(pending) \cup {Limit}
         /\ Ascending(queue') /\ Ascending(pending')
<1>1. Limit \in Nat
  BY DEF ControlInv, Kinds, MainKinds, Adding, InHand, Sending, Limit
<1>2. queue \in Seq(Nat) /\ pending \in Seq(Nat)
  BY NetTypes
<1>3. \A x \in ElementsOf(pending) \cup InStream \cup got : x < Limit
  BY <1>1 DEF NetInv, Numbered
<1>4. /\ ElementsOf(Append(queue, Limit)) = ElementsOf(queue) \cup {Limit}
      /\ ElementsOf(Append(pending, Limit)) = ElementsOf(pending) \cup {Limit}
  <2> HIDE DEF Limit
  <2>1. ElementsOf(Append(queue, Limit)) = ElementsOf(queue) \cup {Limit}
    BY <1>1, <1>2, AppendElements
  <2>2. ElementsOf(Append(pending, Limit)) = ElementsOf(pending) \cup {Limit}
    BY <1>1, <1>2, AppendElements
  <2> QED
    BY <2>1, <2>2
<1>5. Ascending(queue) /\ Ascending(pending)
  BY DEF NetInv, Streaming
<1>6. Ascending(Append(queue, Limit)) /\ Ascending(Append(pending, Limit))
  BY <1>1, <1>2, <1>3, <1>5, AscendingAppend DEF InStream
<1>7. Len(Append(pending, Limit)) = Len(pending) + 1
  BY <1>1, <1>2, AppendProperties
<1> QED
  BY <1>1, <1>3, <1>4, <1>5, <1>6, <1>7 DEF Sending

LEMMA WritingMoves ==
  ASSUME ControlInv, NetInv, Writing
  PROVE  /\ InStream' = InStream /\ Len(queue') = Len(queue) - 1
         /\ Ascending(queue') /\ Ascending(wire')
         /\ \A x \in ElementsOf(wire'), y \in ElementsOf(queue') : x < y
<1> DEFINE h == Head(queue)
<1>1. queue \in Seq(Nat) /\ wire \in Seq(Nat) /\ queue # << >>
  BY NetTypes DEF Writing
<1>2. h \in Nat /\ Len(Tail(queue)) = Len(queue) - 1
  BY <1>1, HeadTailProperties
<1>3. /\ Ascending(wire) /\ Ascending(queue)
      /\ \A x \in ElementsOf(wire), y \in ElementsOf(queue) : x < y
  BY DEF NetInv, Streaming
<1>4. /\ Ascending(Tail(queue)) /\ ElementsOf(queue) = {h} \cup ElementsOf(Tail(queue))
      /\ \A x \in ElementsOf(Tail(queue)) : h < x
  BY <1>1, <1>3, AscendingTail
<1>5. ElementsOf(Append(wire, h)) = ElementsOf(wire) \cup {h}
  BY <1>1, <1>2, AppendElements
<1> HIDE DEF h
<1>6. Ascending(Append(wire, h))
  BY <1>1, <1>2, <1>3, <1>4, AscendingAppend
<1>7. wire' = Append(wire, h) /\ queue' = Tail(queue)
  BY DEF Writing, h
<1> QED
  BY <1>2, <1>3, <1>4, <1>5, <1>6, <1>7 DEF InStream

LEMMA TakingMoves ==
  ASSUME ControlInv, NetInv, Taking
  PROVE  /\ Head(wire) \in Nat /\ ccfg.qos \in 0 .. 2
         /\ InStream = InStream' \cup {Head(wire)} /\ Head(wire) \notin InStream'
         /\ \A x \in InStream' : Head(wire) < x
         /\ Ascending(wire') /\ ElementsOf(wire') \subseteq ElementsOf(wire)
         /\ ElementsOf(acks') \subseteq ElementsOf(acks) \cup {Head(wire)}
         /\ ElementsOf(Forwarded') \subseteq ElementsOf(Forwarded) \cup {Head(wire)}
<1> DEFINE h == Head(wire)
<1>1. /\ wire \in Seq(Nat) /\ queue \in Seq(Nat) /\ acks \in Seq(Nat)
      /\ Forwarded \in Seq(Nat) /\ wire # << >> /\ ccfg.qos \in 0 .. 2
  BY NetTypes DEF Taking
<1>2. h \in Nat
  BY <1>1, HeadTailProperties
<1>3. Ascending(wire) /\ \A x \in ElementsOf(wire), y \in ElementsOf(queue) : x < y
  BY DEF NetInv, Streaming
<1>4. /\ Ascending(Tail(wire)) /\ ElementsOf(wire) = {h} \cup ElementsOf(Tail(wire))
      /\ \A x \in ElementsOf(Tail(wire)) : h < x
  BY <1>1, <1>3, AscendingTail
<1>5. /\ ElementsOf(Append(acks, h)) = ElementsOf(acks) \cup {h}
      /\ ElementsOf(Append(Forwarded, h)) = ElementsOf(Forwarded) \cup {h}
  BY <1>1, <1>2, AppendElements
<1> HIDE DEF h
<1> SUFFICES
      /\ InStream = InStream' \cup {h} /\ h \notin InStream'
      /\ \A x \in InStream' : h < x
      /\ Ascending(wire') /\ ElementsOf(wire') \subseteq ElementsOf(wire)
      /\ ElementsOf(acks') \subseteq ElementsOf(acks) \cup {h}
      /\ ElementsOf(Forwarded') \subseteq ElementsOf(Forwarded) \cup {h}
  BY <1>1, <1>2 DEF h
<1>6. /\ wire' = Tail(wire) /\ queue' = queue /\ acks' \in {acks, Append(acks, h)}
      /\ Forwarded' \in {Forwarded, Append(Forwarded, h)}
  BY DEF Taking, h
<1>7. /\ ElementsOf(acks') \subseteq ElementsOf(acks) \cup {h}
      /\ ElementsOf(Forwarded') \subseteq ElementsOf(Forwarded) \cup {h}
  BY <1>5, <1>6
<1>8. InStream' = ElementsOf(Tail(wire)) \cup ElementsOf(queue)
  BY <1>6 DEF InStream
<1>9. \A x \in InStream' : h < x
  BY <1>3, <1>4, <1>8
<1>10. InStream = InStream' \cup {h} /\ h \notin InStream'
  BY <1>2, <1>4, <1>8, <1>9 DEF InStream
<1> QED
  BY <1>4, <1>6, <1>7, <1>9, <1>10

(* An acknowledged packet leaves those that are not. *)
LEMMA ConfirmedMoves ==
  ASSUME ControlInv, NetInv, Confirmed
  PROVE  /\ Head(acks) \in ElementsOf(acks)
         /\ ElementsOf(acks') \subseteq ElementsOf(acks) /\ Ascending(pending')
         /\ \/ pending' = pending /\ atoms'.confirmed = atoms.confirmed
            \/ /\ Head(acks) \in ElementsOf(pending)
               /\ ElementsOf(pending') = ElementsOf(pending) \ {Head(acks)}
               /\ atoms'.confirmed = atoms.confirmed + 1
               /\ Len(pending') = Len(pending) - 1
<1> DEFINE a == Head(acks)
           rest == Kept(pending, Nat \ {a})
<1>1. acks \in Seq(Nat) /\ pending \in Seq(Nat) /\ acks # << >> /\ Ascending(pending)
  BY NetTypes DEF NetInv, Streaming, Confirmed
<1>2. /\ a \in ElementsOf(acks) /\ ElementsOf(Tail(acks)) \subseteq ElementsOf(acks)
  BY <1>1, TailElements
<1>3. /\ rest \in Seq(Nat) /\ ElementsOf(rest) = ElementsOf(pending) \cap (Nat \ {a})
      /\ Ascending(rest)
  BY <1>1, KeptElements, AscendingKept
<1>4. ElementsOf(rest) = ElementsOf(pending) \ {a}
  BY <1>1, <1>3, NatLists
<1>5. a \in ElementsOf(pending) => Len(rest) = Len(pending) - 1
  <2>1. Distinct(pending) /\ Distinct(rest)
    BY <1>1, <1>3, AscendingDistinct
  <2>2. /\ IsFiniteSet(ElementsOf(pending)) /\ Cardinality(ElementsOf(pending)) = Len(pending)
        /\ Cardinality(ElementsOf(rest)) = Len(rest)
    BY <1>1, <1>3, <2>1, DistinctCounts
  <2> HIDE DEF rest, a
  <2> QED
    BY <1>4, <2>2, FS_RemoveElement
<1>6. /\ acks' = Tail(acks)
      /\ \/ a \in ElementsOf(pending) /\ pending' = rest /\ atoms'.confirmed = atoms.confirmed + 1
         \/ pending' = pending /\ atoms'.confirmed = atoms.confirmed
  BY DEF Confirmed
<1> HIDE DEF rest
<1> QED
  BY <1>1, <1>2, <1>3, <1>4, <1>5, <1>6

-----------------------------------------------------------------------------
LEMMA NumberedStep ==
  ASSUME ControlInv, NetInv, [Next]_vars
  PROVE  Numbered'
<1> DEFINE Places == ElementsOf(pending) \cup InStream \cup got
           Answers == ElementsOf(acks) \cup ElementsOf(Forwarded)
<1>0. Places \subseteq 0 .. Limit - 1 /\ Answers \subseteq got /\ Limit \in Int
  BY NetTypes DEF NetInv, Numbered
<1> SUFFICES Places' \subseteq 0 .. Limit' - 1 /\ Answers' \subseteq got'
  BY DEF Numbered
<1>1. CASE Starting
  BY <1>0, <1>1 DEF Starting, SameNet, InStream
<1>2. CASE Quiet
  <2>1. Forwarded' \in {Forwarded, delivered} /\ Limit' \in Int /\ Limit' >= Limit
        /\ UNCHANGED <<queue, pending, wire, acks, got>>
    BY <1>2 DEF Quiet, SameNet
  <2>2. ElementsOf(delivered) \subseteq ElementsOf(Forwarded)
    BY NetTypes, Beginning DEF Forwarded
  <2>3. ElementsOf(Forwarded') \subseteq ElementsOf(Forwarded)
    BY <2>1, <2>2
  <2> QED
    BY <1>0, <2>1, <2>3 DEF InStream
<1>3. CASE Sending
  <2>1. Places' \subseteq Places \cup {Limit}
    BY <1>3, SendingMoves DEF Sending, InStream
  <2>2. Answers' = Answers /\ got' = got /\ Limit' = Limit + 1 /\ Limit \in Nat
    BY <1>3, SendingMoves DEF Sending
  <2> HIDE DEF Places, Answers
  <2> QED
    BY <1>0, <2>1, <2>2
<1>4. CASE Connecting
  BY <1>0, <1>4 DEF Connecting, InStream
<1>5. CASE Writing
  BY <1>0, <1>5, WritingMoves DEF Writing
<1>6. CASE Confirmed
  BY <1>0, <1>6, ConfirmedMoves DEF Confirmed, InStream
<1>7. CASE Dropping
  BY <1>0, <1>7, EmptyList DEF Dropping, InStream
<1>8. CASE Taking
  <2>1. Places' \subseteq Places
    BY <1>8, TakingMoves DEF Taking
  <2>2. Answers' \subseteq got'
    BY <1>0, <1>8, TakingMoves DEF Taking
  <2> QED
    BY <1>0, <1>8, <2>1, <2>2 DEF Taking
<1> QED
  BY <1>1, <1>2, <1>3, <1>4, <1>5, <1>6, <1>7, <1>8, NetSteps

(* Before the connection there are no packets. *)
LEMMA StartingEmpty ==
  ASSUME ControlInv, NetInv, Starting
  PROVE  /\ queue = << >> /\ wire = << >> /\ pending = << >> /\ InStream = {} /\ got = {}
         /\ Taken = 0 /\ atoms.confirmed = 0 /\ Len(pending) = 0 /\ Len(queue) = 0
         /\ Limit = 0 /\ drops' = drops /\ atoms'.confirmed = atoms.confirmed
         /\ UNCHANGED <<queue, wire, pending, acks, got>>
         /\ Limit' = 0 /\ Taken' = 0 /\ Forwarded' = Forwarded
<1>1. link = "none" /\ seq = 0 /\ NetKinds
  BY DEF ControlInv, Kinds, Phases, Starting
<1>2. queue = << >> /\ wire = << >> /\ pending = << >>
  BY <1>1 DEF NetKinds
<1>3. InStream = {} /\ Len(pending) = 0 /\ Len(queue) = 0
  BY <1>2, EmptyList, EmptySeq DEF InStream
<1>4. Limit = 0 /\ got = {}
  <2>1. Limit = 0
    BY <1>1 DEF Limit, Starting
  <2>2. got \subseteq 0 .. Limit - 1
    BY DEF NetInv, Numbered
  <2> QED
    BY <2>1, <2>2
<1>5. Taken = 0
  BY <1>1 DEF ControlInv, Adding, Kinds, MainKinds, InHand, Taken, Starting
<1>6. atoms.confirmed = 0
  BY <1>3, <1>5, NetTypes DEF NetInv, Confirming
<1> QED
  BY <1>2, <1>3, <1>4, <1>5, <1>6 DEF Starting, SameNet

(* Of the packets that the broker has, there are finitely many. *)
LEMMA GotFinite ==
  ASSUME ControlInv, NetInv, NEW S
  PROVE  IsFiniteSet(got \ S) /\ Cardinality(got \ S) \in Nat
<1>1. Limit \in Int /\ got \subseteq 0 .. Limit - 1
  BY NetTypes DEF NetInv, Numbered
<1>2. IsFiniteSet(0 .. Limit - 1)
  BY <1>1, FS_Interval
<1>3. got \ S \in SUBSET (0 .. Limit - 1)
  BY <1>1
<1> QED
  BY <1>2, <1>3, FS_Subset, FS_CardinalityType

LEMMA ConfirmingStep ==
  ASSUME ControlInv, NetInv, [Next]_vars
  PROVE  Confirming'
<1> DEFINE waiting == IF ccfg.qos = 0 THEN Len(queue) ELSE Len(pending)
           Settled == got \ ElementsOf(pending)
<1>0. /\ atoms.confirmed + waiting <= Taken /\ Taken \in Int /\ atoms.confirmed \in Nat
      /\ waiting \in Nat /\ Len(queue) \in Nat /\ Len(pending) \in Nat
      /\ ccfg.qos > 0 => atoms.confirmed <= Cardinality(Settled)
      /\ IsFiniteSet(Settled) /\ Cardinality(Settled) \in Nat
  BY NetTypes, LenProperties, GotFinite DEF NetInv, Confirming
<1> SUFFICES /\ atoms'.confirmed + waiting' <= Taken'
             /\ ccfg'.qos > 0 => atoms'.confirmed <= Cardinality(Settled')
  BY DEF Confirming
<1>1. CASE Starting
  <2>1. Settled' = {} /\ waiting' = 0 /\ atoms'.confirmed = 0 /\ Taken' = 0
    BY <1>1, StartingEmpty
  <2>2. Cardinality(Settled') = 0
    BY <2>1, FS_EmptySet
  <2> QED
    BY <2>1, <2>2
<1>2. CASE Quiet
  BY <1>0, <1>2 DEF Quiet, SameNet
<1>3. CASE Sending
  <2>1. Settled' = Settled
    <3>1. Limit \notin got
      BY <1>3, SendingMoves
    <3>2. ElementsOf(pending') \in {ElementsOf(pending), ElementsOf(pending) \cup {Limit}}
      BY <1>3, SendingMoves
    <3> QED
      BY <1>3, <3>1, <3>2 DEF Sending
  <2>2. waiting' <= waiting + 1 /\ waiting' \in Int
    <3>1. Limit \in Nat /\ queue \in Seq(Nat) /\ pending \in Seq(Nat)
      BY <1>3, SendingMoves, NetTypes
    <3>2. Len(Append(queue, Limit)) = Len(queue) + 1
          /\ Len(Append(pending, Limit)) = Len(pending) + 1
      BY <3>1, AppendProperties
    <3>3. Len(queue') \in {Len(queue), Len(queue) + 1}
          /\ (ccfg.qos # 0 => Len(pending') = Len(pending) + 1) /\ ccfg' = ccfg
      BY <1>3, <3>2 DEF Sending
    <3> QED
      BY <1>0, <3>3
  <2> HIDE DEF waiting, Settled
  <2> QED
    BY <1>0, <1>3, <2>1, <2>2 DEF Sending
<1>4. CASE Connecting
  BY <1>0, <1>4 DEF Connecting
<1>5. CASE Writing
  <2>1. Settled' = Settled
    BY <1>5 DEF Writing
  <2>2. Len(queue') = Len(queue) - 1
    BY <1>5, WritingMoves
  <2> HIDE DEF Settled
  <2> QED
    BY <1>0, <1>5, <2>1, <2>2 DEF Writing
<1>6. CASE Confirmed
  <2>1. CASE pending' = pending /\ atoms'.confirmed = atoms.confirmed
    BY <1>0, <1>6, <2>1 DEF Confirmed
  <2>2. CASE ~(pending' = pending /\ atoms'.confirmed = atoms.confirmed)
    <3> DEFINE a == Head(acks)
    <3>1. /\ a \in ElementsOf(acks) /\ a \in ElementsOf(pending)
          /\ ElementsOf(pending') = ElementsOf(pending) \ {a}
          /\ atoms'.confirmed = atoms.confirmed + 1 /\ Len(pending') = Len(pending) - 1
      BY <1>6, <2>2, ConfirmedMoves
    <3>2. a \in got /\ got' = got /\ Taken' = Taken /\ ccfg' = ccfg
      BY <1>6, <3>1 DEF NetInv, Numbered, Confirmed
    <3> HIDE DEF a
    <3>3. Settled' = Settled \cup {a} /\ a \notin Settled
      BY <3>1, <3>2
    <3>4. Cardinality(Settled') = Cardinality(Settled) + 1
      BY <1>0, <3>3, FS_AddElement
    <3>5. ccfg.qos # 0
      <4>1. pending # << >>
        BY <3>1, EmptyList
      <4> QED
        BY <4>1, NetTypes
    <3> HIDE DEF Settled
    <3> QED
      BY <1>0, <3>1, <3>2, <3>4, <3>5
  <2> QED
    BY <2>1, <2>2
<1>7. CASE Dropping
  <2>1. Len(queue') = 0
    BY <1>7, EmptySeq DEF Dropping
  <2> QED
    BY <1>0, <1>7, <2>1 DEF Dropping
<1>8. CASE Taking
  <2>1. Settled \in SUBSET Settled' /\ IsFiniteSet(Settled')
    <3>1. Settled' = Settled \cup ({Head(wire)} \ ElementsOf(pending))
      BY <1>8 DEF Taking
    <3>2. IsFiniteSet(Settled \cup {Head(wire)})
      BY <1>0, FS_AddElement
    <3>3. Settled' \in SUBSET (Settled \cup {Head(wire)})
      BY <3>1
    <3> QED
      BY <3>1, <3>2, <3>3, FS_Subset
  <2>2. Cardinality(Settled) <= Cardinality(Settled') /\ Cardinality(Settled') \in Nat
    BY <2>1, FS_Subset, FS_CardinalityType
  <2> HIDE DEF Settled
  <2> QED
    BY <1>0, <1>8, <2>2 DEF Taking
<1> QED
  BY <1>1, <1>2, <1>3, <1>4, <1>5, <1>6, <1>7, <1>8, NetSteps

LEMMA StreamingStep ==
  ASSUME ControlInv, NetInv, [Next]_vars
  PROVE  Streaming'
<1>0. /\ Ascending(pending) /\ Ascending(wire) /\ Ascending(queue)
      /\ \A x \in ElementsOf(wire), y \in ElementsOf(queue) : x < y
      /\ ccfg.qos > 0 /\ link \notin {"up", "ended"} => wire = << >> /\ queue = << >>
      /\ ccfg.qos > 0 /\ (link = "up" \/ wire # << >>) =>
           ElementsOf(pending) \subseteq InStream \cup got
  BY DEF NetInv, Streaming
<1>1. CASE Starting
  <2>1. queue' = << >> /\ wire' = << >> /\ pending' = << >>
    BY <1>1, StartingEmpty
  <2> QED
    BY <2>1, EmptyList DEF Streaming
<1>2. CASE Quiet
  BY <1>0, <1>2 DEF Quiet, SameNet, Streaming, InStream
<1>3. CASE Sending
  <2>1. /\ Ascending(pending') /\ Ascending(wire') /\ Ascending(queue')
        /\ UNCHANGED <<wire, ccfg, link, got>>
    BY <1>0, <1>3, SendingMoves DEF Sending
  <2>2. \A x \in ElementsOf(wire'), y \in ElementsOf(queue') : x < y
    BY <1>0, <1>3, <2>1, SendingMoves DEF InStream
  <2>3. ccfg.qos > 0 /\ link \notin {"up", "ended"} => wire' = << >> /\ queue' = << >>
    BY <1>0, <1>3 DEF Sending
  <2>4. ASSUME ccfg.qos > 0, link = "up" \/ wire # << >>
        PROVE  ElementsOf(pending') \subseteq InStream' \cup got
    <3>1. link = "up"
      BY <1>0, <1>3, <2>4 DEF Sending
    <3>2. queue' = Append(queue, Limit) /\ Limit \in Nat /\ queue \in Seq(Nat)
      BY <1>3, <3>1, SendingMoves, NetTypes DEF Sending
    <3>3. ElementsOf(queue') = ElementsOf(queue) \cup {Limit}
      BY <3>2, AppendElements
    <3>4. ElementsOf(pending') \subseteq ElementsOf(pending) \cup {Limit}
      BY <1>3, SendingMoves
    <3> QED
      BY <1>0, <2>1, <2>4, <3>3, <3>4 DEF InStream
  <2> QED
    BY <2>1, <2>2, <2>3, <2>4 DEF Streaming
<1>4. CASE Connecting
  <2>1. wire = << >> /\ wire' = << >> /\ queue' = pending /\ pending' = pending
        /\ link' = "up"
    BY <1>0, <1>4 DEF Connecting
  <2> QED
    BY <1>0, <2>1, EmptyList DEF Streaming, InStream
<1>5. CASE Writing
  <2>1. /\ UNCHANGED <<pending, ccfg, link, got>> /\ link \in {"asked", "up"}
        /\ queue # << >>
    BY <1>5 DEF Writing
  <2> QED
    BY <1>0, <1>5, <2>1, WritingMoves DEF Streaming
<1>6. CASE Confirmed
  <2>1. UNCHANGED <<queue, wire, ccfg, link, got>>
    BY <1>6 DEF Confirmed
  <2>2. Ascending(pending') /\ ElementsOf(pending') \subseteq ElementsOf(pending)
    BY <1>6, ConfirmedMoves
  <2> QED
    BY <1>0, <2>1, <2>2 DEF Streaming, InStream
<1>7. CASE Dropping
  BY <1>0, <1>7, EmptyList DEF Dropping, Streaming
<1>8. CASE Taking
  <2>1. UNCHANGED <<queue, pending, ccfg, link>> /\ wire # << >>
        /\ got' = got \cup {Head(wire)}
    BY <1>8 DEF Taking
  <2>2. /\ Ascending(wire') /\ ElementsOf(wire') \subseteq ElementsOf(wire)
        /\ InStream \cup got = InStream' \cup got \cup {Head(wire)}
    BY <1>8, TakingMoves
  <2> QED
    BY <1>0, <2>1, <2>2 DEF Streaming
<1> QED
  BY <1>1, <1>2, <1>3, <1>4, <1>5, <1>6, <1>7, <1>8, NetSteps

(* At QoS 1, how often the broker forwarded a packet, and whether it is on *)
(* its way to it.                                                          *)
Copies(p) == Cardinality(PlacesOf(Forwarded, p)) + (IF p \in InStream THEN 1 ELSE 0)

(* The packets that the broker does not have are newer than those it has.  *)
Newer == \A x \in got, y \in (InStream \cup ElementsOf(pending)) \ got : x < y

LEMMA NewerStep ==
  ASSUME ControlInv, NetInv, [Next]_vars, ~Starting, ccfg'.qos # 1
  PROVE  Ascending(Forwarded') /\ Newer'
<1> DEFINE h == Head(wire)
<1>0. ASSUME ccfg.qos # 1 PROVE Ascending(Forwarded) /\ Newer
  BY <1>0 DEF NetInv, Forwarding, Newer
<1>2. CASE Quiet
  <2>1. Ascending(delivered)
    BY <1>0, <1>2, NetTypes, Beginning DEF Forwarded, Quiet
  <2>2. Ascending(Forwarded')
    BY <1>0, <1>2, <2>1 DEF Quiet
  <2>3. Newer'
    BY <1>0, <1>2 DEF Quiet, SameNet, Newer, InStream
  <2> QED
    BY <2>2, <2>3
<1>3. CASE Sending
  <2>1. /\ InStream' \subseteq InStream \cup {Limit}
        /\ ElementsOf(pending') \subseteq ElementsOf(pending) \cup {Limit}
        /\ \A x \in got : x < Limit
    BY <1>3, SendingMoves DEF Sending, InStream
  <2> QED
    BY <1>0, <1>3, <2>1 DEF Sending, Newer
<1>4. CASE Connecting
  BY <1>0, <1>4 DEF Connecting, Newer, InStream
<1>5. CASE Writing
  BY <1>0, <1>5, WritingMoves DEF Writing, Newer
<1>6. CASE Confirmed
  BY <1>0, <1>6, ConfirmedMoves DEF Confirmed, Newer, InStream
<1>7. CASE Dropping
  BY <1>0, <1>7, EmptyList DEF Dropping, Newer, InStream
<1>8. CASE Taking
  <2>0. ccfg.qos # 1 /\ ccfg.qos \in 0 .. 2
    BY <1>8, TakingMoves DEF Taking
  <2>1. /\ h \in Nat /\ InStream = InStream' \cup {h} /\ h \notin InStream'
        /\ \A x \in InStream' : h < x
        /\ got' = got \cup {h} /\ pending' = pending
    BY <1>8, TakingMoves DEF Taking
  <2>2. Ascending(Forwarded) /\ Forwarded \in Seq(Nat) /\ ElementsOf(Forwarded) \subseteq got
    BY <1>0, <2>0, NetTypes DEF NetInv, Numbered
  <2>3. Ascending(Forwarded')
    <3>1. CASE h \in got
      <4>1. ccfg.qos = 2
        BY <2>0, <2>1, <3>1 DEF NetInv, Forwarding
      <4> QED
        BY <1>8, <2>2, <3>1, <4>1 DEF Taking
    <3>2. CASE h \notin got
      <4>1. \A x \in ElementsOf(Forwarded) : x < h
        BY <1>0, <2>0, <2>1, <2>2, <3>2 DEF Newer
      <4> HIDE DEF h
      <4>2. Ascending(Append(Forwarded, h))
        BY <2>1, <2>2, <4>1, AscendingAppend
      <4> QED
        BY <1>8, <2>2, <4>2 DEF Taking, h
    <3> QED
      BY <3>1, <3>2
  <2>4. ASSUME NEW y \in ElementsOf(pending), y \notin got' PROVE y \in InStream'
    <3>1. pending # << >>
      BY EmptyList
    <3>2. ccfg.qos > 0 /\ wire # << >>
      BY <1>8, <2>0, <3>1, NetTypes DEF Taking
    <3> QED
      BY <2>1, <2>4, <3>2 DEF NetInv, Streaming
  <2> HIDE DEF h
  <2>5. Newer'
    BY <1>0, <2>0, <2>1, <2>4 DEF Newer
  <2> QED
    BY <2>3, <2>5
<1> QED
  BY <1>2, <1>3, <1>4, <1>5, <1>6, <1>7, <1>8, NetSteps

LEMMA CopiesStep ==
  ASSUME ControlInv, NetInv, [Next]_vars, ~Starting, ccfg'.qos = 1, NEW p \in Nat
  PROVE  Copies(p)' <= Connections'
<1> DEFINE n == Cardinality(PlacesOf(Forwarded, p))
           i == IF p \in InStream THEN 1 ELSE 0
<1>0. /\ Forwarded \in Seq(Nat) /\ drops \in Nat /\ Connections \in Nat
      /\ n \in Nat /\ i \in Nat
      /\ (ccfg.qos = 1 => n + i <= Connections)
  BY NetTypes, PlacesFinite DEF NetInv, Forwarding
<1> SUFFICES n' + i' <= Connections'
  BY DEF Copies
<1>2. CASE Quiet
  <2> DEFINE m == Cardinality(PlacesOf(delivered, p))
  <2>1. m <= n /\ m \in Nat
    BY NetTypes, PlacesBeginning, PlacesFinite DEF Forwarded
  <2>2. n' \in {n, m}
    BY <1>2 DEF Quiet
  <2>3. i' = i
    BY <1>2 DEF Quiet, SameNet, InStream
  <2>4. Connections' \in {Connections, Connections + 1} /\ ccfg.qos = 1
    BY <1>0, <1>2 DEF Quiet, Connections
  <2> HIDE DEF m, n, i
  <2>5. \A k \in {n, m}, c \in {Connections, Connections + 1} : k + i <= c
    BY <1>0, <2>1, <2>4
  <2> QED
    BY <2>2, <2>3, <2>4, <2>5
<1>3. CASE Sending
  <2>1. /\ n' = n /\ Connections' = Connections /\ ccfg.qos = 1
    BY <1>3 DEF Sending, Connections
  <2>2. CASE i' = i
    BY <1>0, <2>1, <2>2
  <2>3. CASE i' # i
    <3>1. p = Limit /\ link = "up"
      BY <1>3, <2>1, <2>3, SendingMoves DEF InStream, Sending
    <3>2. p \notin ElementsOf(Forwarded)
      BY <1>3, <3>1, SendingMoves DEF NetInv, Numbered
    <3>3. n = 0
      BY <1>0, <3>2, PlacesFinite
    <3>4. i' \in {0, 1}
      OBVIOUS
    <3>5. Connections >= 1
      BY <1>0, <3>1 DEF Connections
    <3> HIDE DEF n, i
    <3>6. \A j \in {0, 1} : n + j <= Connections
      BY <1>0, <3>3, <3>5
    <3> QED
      BY <2>1, <3>4, <3>6
  <2> QED
    BY <2>2, <2>3
<1>4. CASE Connecting
  <2>1. n' = n /\ Connections' = Connections + 1 /\ ccfg.qos = 1
    BY <1>0, <1>4 DEF Connecting, Connections
  <2>2. InStream = {}
    BY <1>4, EmptyList DEF NetInv, Streaming, Connecting, InStream
  <2>3. i = 0 /\ i' \in {0, 1}
    BY <2>2
  <2> HIDE DEF n, i
  <2>4. \A j \in {0, 1} : n + j <= Connections + 1
    BY <1>0, <2>1, <2>3
  <2> QED
    BY <2>1, <2>3, <2>4
<1>5. CASE Writing
  BY <1>0, <1>5, WritingMoves DEF Writing, Connections
<1>6. CASE Confirmed
  BY <1>0, <1>6 DEF Confirmed, Connections, InStream
<1>7. CASE Dropping
  <2>1. n' = n /\ i' = 0 /\ ccfg.qos = 1
    BY <1>7, EmptyList DEF Dropping, InStream
  <2>2. Connections' >= Connections /\ Connections' \in Nat
    BY <1>0, <1>7 DEF Dropping, Connections
  <2> HIDE DEF n, i
  <2> QED
    BY <1>0, <2>1, <2>2
<1>8. CASE Taking
  <2> DEFINE h == Head(wire)
  <2>1. /\ h \in Nat /\ InStream = InStream' \cup {h} /\ h \notin InStream'
        /\ Connections' = Connections /\ ccfg.qos = 1
        /\ Forwarded' \in {Forwarded, Append(Forwarded, h)}
    BY <1>8, TakingMoves DEF Taking, Connections
  <2> HIDE DEF h
  <2>2. Cardinality(PlacesOf(Append(Forwarded, h), p)) = n + (IF h = p THEN 1 ELSE 0)
    BY <1>0, <2>1, PlacesAppend
  <2>3. n' \in {n, n + (IF h = p THEN 1 ELSE 0)}
    BY <2>1, <2>2
  <2>4. IF h = p THEN i = 1 /\ i' = 0 ELSE i' = i
    BY <2>1
  <2> HIDE DEF n, i
  <2> QED
    BY <1>0, <2>1, <2>3, <2>4
<1> QED
  BY <1>2, <1>3, <1>4, <1>5, <1>6, <1>7, <1>8, NetSteps

LEMMA ForwardingStep ==
  ASSUME ControlInv, NetInv, [Next]_vars
  PROVE  Forwarding'
<1>1. CASE Starting
  <2>1. /\ InStream' = {} /\ got' = {} /\ Forwarded' = Forwarded
    BY <1>1, StartingEmpty DEF InStream
  <2>2. ElementsOf(Forwarded) = {} /\ Forwarded \in Seq(Nat)
    BY <1>1, StartingEmpty, NetTypes DEF NetInv, Numbered
  <2>3. Ascending(Forwarded)
    BY <2>2 DEF Ascending, ElementsOf
  <2>4. \A p \in Nat : Cardinality(PlacesOf(Forwarded, p)) = 0
    BY <2>2, PlacesFinite
  <2>5. Connections' >= 0
    <3>1. drops' = drops /\ drops \in Nat
      BY <1>1, StartingEmpty, NetTypes
    <3> QED
      BY <3>1 DEF Connections
  <2> QED
    BY <2>1, <2>3, <2>4, <2>5 DEF Forwarding
<1>2. CASE ~Starting
  <2>1. ccfg'.qos # 1 => Ascending(Forwarded') /\ Newer'
    BY <1>2, NewerStep
  <2>2. ccfg'.qos = 1 => \A p \in Nat : Copies(p)' <= Connections'
    BY <1>2, CopiesStep
  <2>3. ASSUME ccfg'.qos = 0 PROVE InStream' \cap got' = {}
    <3>0. ccfg.qos = 0 => InStream \cap got = {}
      BY DEF NetInv, Forwarding
    <3>1. CASE Quiet \/ Confirmed \/ Dropping \/ Connecting
      BY <2>3, <3>0, <3>1, EmptyList
         DEF Quiet, SameNet, Confirmed, Dropping, Connecting, InStream
    <3>2. CASE Sending
      <4>1. Limit \notin got /\ InStream' \subseteq InStream \cup {Limit}
        BY <3>2, SendingMoves DEF Sending, InStream
      <4> QED
        BY <2>3, <3>0, <3>2, <4>1 DEF Sending
    <3>3. CASE Writing
      BY <2>3, <3>0, <3>3, WritingMoves DEF Writing
    <3>4. CASE Taking
      BY <2>3, <3>0, <3>4, TakingMoves DEF Taking
    <3> QED
      BY <1>2, <3>1, <3>2, <3>3, <3>4, NetSteps
  <2> QED
    BY <2>1, <2>2, <2>3 DEF Forwarding, Newer, Copies
<1> QED
  BY <1>1, <1>2

LEMMA NetInit == Init => NetInv
<1> SUFFICES ASSUME Init PROVE NetInv
  OBVIOUS
<1>1. /\ queue = << >> /\ wire = << >> /\ pending = << >> /\ acks = << >> /\ got = {}
      /\ seq = 0 /\ sent = 0 /\ atoms.confirmed = 0 /\ drops = 0
      /\ cmain = "begin" /\ link = "none"
  BY DEF Init, ClientInit
<1>2. Forwarded = << >>
  BY ConcatEmptySeq DEF Init, SubInit, Forwarded
<1>3. Limit = 0 /\ Taken = 0 /\ Connections = 0
  BY <1>1 DEF Limit, Taken, Connections
<1>4. InStream = {} /\ ElementsOf(pending) = {} /\ ElementsOf(acks) = {}
      /\ ElementsOf(Forwarded) = {} /\ Len(queue) = 0 /\ Len(pending) = 0
  BY <1>1, <1>2, EmptyList, EmptySeq DEF InStream
<1>5. Cardinality(got \ ElementsOf(pending)) = 0
  BY <1>1, <1>4, FS_EmptySet
<1>6. Numbered /\ Confirming
  BY <1>1, <1>3, <1>4, <1>5 DEF Numbered, Confirming
<1>7. Streaming
  BY <1>1, EmptyList DEF Streaming
<1>8. \A p \in Nat : Cardinality(PlacesOf(Forwarded, p)) = 0
  <2>1. Forwarded \in Seq(Nat)
    BY <1>2, EmptySeq
  <2> QED
    BY <1>4, <2>1, PlacesFinite
<1>9. Forwarding
  BY <1>1, <1>2, <1>3, <1>4, <1>8, EmptyList DEF Forwarding
<1> QED
  BY <1>6, <1>7, <1>9 DEF NetInv

LEMMA NetStep == ControlInv /\ NetInv /\ [Next]_vars => NetInv'
BY NumberedStep, ConfirmingStep, StreamingStep, ForwardingStep DEF NetInv

(* The inductive invariant of MqttTransport, which the theorems below are  *)
(* read from.                                                              *)
THEOREM MqttInvariant == Spec => [](ControlInv /\ NetInv)
BY ControlInit, ControlStep, NetInit, NetStep, PTL DEF Spec

-----------------------------------------------------------------------------
(* What the client reports of the connection and of its packets is so, in  *)
(* every interleaving of main with libmosquitto's thread (main.c,          *)
(* mqtt_client.c).                                                         *)
THEOREM MqttReportsTruthfully == Spec => []ClientReportsTruthfully
<1>1. ControlInv /\ NetInv => ClientReportsTruthfully
  <2> SUFFICES ASSUME ControlInv, NetInv PROVE ClientReportsTruthfully
    OBVIOUS
  <2>1. Verdicts /\ Adding /\ Causes
    BY DEF ControlInv
  <2>2. /\ Taken \in Int /\ atoms.confirmed \in Nat
        /\ queue \in Seq(Nat) /\ pending \in Seq(Nat)
    BY NetTypes
  <2>3. atoms.confirmed <= Taken
    <3>1. Len(queue) \in Nat /\ Len(pending) \in Nat
      BY <2>2, LenProperties
    <3> QED
      BY <2>2, <3>1 DEF NetInv, Confirming
  <2>4. ASSUME ccfg.qos > 0 PROVE atoms.confirmed <= Cardinality(got)
    <3> DEFINE Settled == got \ ElementsOf(pending)
    <3>1. got \ {} = got
      OBVIOUS
    <3>2. IsFiniteSet(got) /\ Cardinality(got) \in Nat /\ Cardinality(Settled) \in Nat
      BY <3>1, GotFinite
    <3>3. Cardinality(Settled) <= Cardinality(got)
      <4>1. Settled \in SUBSET got
        OBVIOUS
      <4> QED
        BY <3>2, <4>1, FS_Subset
    <3>4. atoms.confirmed <= Cardinality(Settled)
      BY <2>4 DEF NetInv, Confirming
    <3> HIDE DEF Settled
    <3> QED
      BY <2>2, <3>2, <3>3, <3>4
  <2> QED
    BY <2>1, <2>3, <2>4
       DEF ClientReportsTruthfully, Verdicts, Adding, Causes, Taken
<1> QED
  BY <1>1, MqttInvariant, PTL

(* The server's callback gets the packets in the order of the sensor, each *)
(* once, but at QoS 1 once per connection of the client at most            *)
(* (mqtt_subscriber.cpp on_message(), fed by mqtt_client.c).               *)
THEOREM MqttOrderlyDelivery == Spec => []OrderlyDelivery
<1>1. ControlInv /\ NetInv => OrderlyDelivery
  <2> SUFFICES ASSUME ControlInv, NetInv PROVE OrderlyDelivery
    OBVIOUS
  <2> DEFINE Copied(p) == PlacesOf(delivered, p)
  <2>1. /\ delivered \in Seq(Nat) /\ inbox \in Seq(Nat) /\ Forwarded = delivered \o inbox
        /\ drops \in Nat /\ Len(delivered) \in Nat
    BY NetTypes, LenProperties DEF Forwarded
  <2>2. ASSUME ccfg.qos # 1 PROVE Ascending(delivered)
    BY <2>1, <2>2, Beginning DEF NetInv, Forwarding
  <2>3. ASSUME ccfg.qos # 1, NEW i \in 1 .. Len(delivered) - 1
        PROVE  delivered[i] < delivered[i + 1]
    <3>1. i \in 1 .. Len(delivered) /\ i + 1 \in 1 .. Len(delivered) /\ i < i + 1
      BY <2>1
    <3> QED
      BY <2>2, <2>3, <3>1 DEF Ascending
  <2>4. ASSUME NEW p \in ToSet(delivered)
        PROVE  Cardinality({i \in DOMAIN delivered : delivered[i] = p}) <= 1 + drops
    <3>0. DOMAIN delivered = 1 .. Len(delivered)
      BY <2>1, LenProperties
    <3>1. {i \in DOMAIN delivered : delivered[i] = p} = Copied(p)
      BY <3>0 DEF PlacesOf
    <3>2. p \in Nat
      BY <2>1, <3>0, ElementOfSeq DEF ToSet
    <3>3. IsFiniteSet(Copied(p)) /\ Cardinality(Copied(p)) \in Nat
      BY <2>1, PlacesFinite
    <3>4. CASE ccfg.qos = 1
      <4> DEFINE m == Cardinality(Copied(p))
                 n == Cardinality(PlacesOf(Forwarded, p))
      <4>1. m <= n /\ n \in Nat
        BY <2>1, PlacesBeginning, PlacesFinite, NetTypes
      <4>2. n <= Connections
        <5>1. n + (IF p \in InStream THEN 1 ELSE 0) <= Connections
          BY <3>2, <3>4 DEF NetInv, Forwarding
        <5>2. Connections \in Nat
          BY NetTypes
        <5> HIDE DEF n
        <5> QED
          BY <4>1, <5>1, <5>2
      <4>3. Connections \in Nat /\ Connections <= 1 + drops
        BY <2>1 DEF Connections
      <4> HIDE DEF n
      <4>4. m <= 1 + drops
        BY <2>1, <3>3, <4>1, <4>2, <4>3
      <4> QED
        BY <3>1, <4>4
    <3>5. CASE ccfg.qos # 1
      <4>1. Distinct(delivered)
        BY <2>1, <2>2, <3>5, AscendingDistinct
      <4>2. PICK k \in 1 .. Len(delivered) : delivered[k] = p
        BY <3>0 DEF ToSet
      <4>3. Copied(p) = {k}
        BY <4>1, <4>2 DEF PlacesOf, Distinct
      <4>4. Cardinality(Copied(p)) = 1
        BY <4>3, FS_Singleton
      <4>5. Cardinality({i \in DOMAIN delivered : delivered[i] = p}) = 1
        BY <3>1, <4>4
      <4> QED
        BY <2>1, <4>5
    <3> QED
      BY <3>4, <3>5
  <2> QED
    BY <2>3, <2>4 DEF OrderlyDelivery
<1> QED
  BY <1>1, MqttInvariant, PTL
-----------------------------------------------------------------------------
(* The server's subscription, over any number of connections lost.  A      *)
(* connection that is up has asked for it, or logged that it could not:    *)
(* none stays up in silence, the first or a later one.  Messages come by a *)
(* granted subscription only, none is left over from a connection that was *)
(* lost, and all are packets that the broker took.                         *)
SubscribedAsConnected ==
  /\ slink = "up" <=> session # "none"
  /\ inbox # << >> => session = "granted"
  /\ ElementsOf(inbox) \cup ElementsOf(delivered) \subseteq got

LEMMA SubscribedStep ==
  ASSUME ControlInv, SubscribedAsConnected, [Next]_vars
  PROVE  SubscribedAsConnected'
<1>1. inbox \in Seq(Nat) /\ delivered \in Seq(Nat)
  BY NetTypes
<1>2. ASSUME UNCHANGED <<subVars, brokerVars>> PROVE SubscribedAsConnected'
  BY <1>2 DEF SubscribedAsConnected, ElementsOf, subVars, brokerVars
<1>3. CASE UNCHANGED vars \/ ((MainStep \/ LibStep) /\ OthersRest)
  BY <1>2, <1>3 DEF vars, OthersRest
<1>4. CASE SubStep /\ ClientRests
  <2>0. got' = got
    BY <1>4 DEF ClientRests, brokerVars
  <2>1. CASE OnMessage
    <3>1. /\ inbox # << >> /\ inbox' = Tail(inbox)
          /\ delivered' = Append(delivered, Head(inbox))
          /\ slink' = slink /\ session' = session
      BY <2>1 DEF OnMessage
    <3>2. /\ Head(inbox) \in Nat /\ Head(inbox) \in ElementsOf(inbox)
          /\ ElementsOf(Tail(inbox)) \subseteq ElementsOf(inbox)
      BY <1>1, <3>1, TailElements
    <3>3. ElementsOf(Append(delivered, Head(inbox)))
            = ElementsOf(delivered) \cup {Head(inbox)}
      BY <1>1, <3>2, AppendElements
    <3>4. ElementsOf(inbox)' \cup ElementsOf(delivered)' \subseteq got'
      <4>1. ElementsOf(Tail(inbox)) \cup ElementsOf(Append(delivered, Head(inbox)))
              \subseteq got
        BY <3>2, <3>3 DEF SubscribedAsConnected
      <4> QED
        BY <2>0, <3>1, <4>1 DEF ElementsOf
    <3> QED
      BY <3>1, <3>4 DEF SubscribedAsConnected
  <2>2. CASE Run \/ SubAsk \/ OnSubConnect \/ OnSubscribe \/ Halt
    <3>1. inbox' = inbox /\ delivered' = delivered
      BY <2>2 DEF Run, SubAsk, OnSubConnect, OnSubscribe, Halt
    <3>2. /\ slink' = "up" <=> session' # "none"
          /\ session = "granted" => session' = "granted"
      BY <2>2 DEF Run, SubAsk, OnSubConnect, OnSubscribe, Halt, SubscribedAsConnected
    <3> QED
      BY <2>0, <3>1, <3>2 DEF SubscribedAsConnected, ElementsOf
  <2>3. CASE RunStops \/ RunFails \/ SubDrop
    <3>1. slink' # "up" /\ session' = "none" /\ inbox' = << >> /\ delivered' = delivered
      BY <2>3 DEF RunStops, RunFails, RunEnds, SubDrop
    <3>2. ElementsOf(inbox)' = {}
      BY <3>1, EmptyList DEF ElementsOf
    <3> QED
      BY <2>0, <3>1, <3>2 DEF SubscribedAsConnected, ElementsOf
  <2> QED
    BY <1>4, <2>1, <2>2, <2>3 DEF SubStep
<1>5. CASE BrokerAnswers
  <2>1. UNCHANGED <<got, subVars>>
    BY <1>5 DEF BrokerAnswers
  <2> QED
    BY <2>1 DEF SubscribedAsConnected, ElementsOf, subVars
<1>6. CASE BrokerTakes
  <2>1. /\ wire # << >> /\ got' = got \cup {Head(wire)}
        /\ slink' = slink /\ session' = session /\ delivered' = delivered
        /\ inbox' = inbox \/ (session = "granted" /\ inbox' = Append(inbox, Head(wire)))
    BY <1>6 DEF BrokerTakes
  <2>2. Head(wire) \in Nat
    BY <2>1, NetTypes, TailElements
  <2>3. ElementsOf(Append(inbox, Head(wire))) = ElementsOf(inbox) \cup {Head(wire)}
    BY <1>1, <2>2, AppendElements
  <2>4. ElementsOf(inbox)' \cup ElementsOf(delivered)' \subseteq got'
    BY <2>1, <2>3 DEF SubscribedAsConnected, ElementsOf
  <2>5. slink' = "up" <=> session' # "none"
    BY <2>1 DEF SubscribedAsConnected
  <2>6. inbox' # << >> => session' = "granted"
    BY <2>1 DEF SubscribedAsConnected
  <2> QED
    BY <2>4, <2>5, <2>6 DEF SubscribedAsConnected
<1> QED
  BY <1>3, <1>4, <1>5, <1>6, StepCases

THEOREM MqttSubscribesOnEveryConnection == Spec => []SubscribedAsConnected
<1>1. Init => SubscribedAsConnected
  BY EmptyList DEF Init, SubInit, SubscribedAsConnected
<1>2. ControlInv /\ SubscribedAsConnected /\ [Next]_vars => SubscribedAsConnected'
  BY SubscribedStep
<1> QED
  BY <1>1, <1>2, ControlInvariant, PTL DEF Spec
=============================================================================
