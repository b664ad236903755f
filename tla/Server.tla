-------------------------------- MODULE Server --------------------------------
(***************************************************************************)
(* The server from main() to its exit (main.cpp): the configuration, the   *)
(* start of the components, the packet callback in the transport thread -  *)
(* validator, statistics, browsers, storage - and the shutdown.  The       *)
(* components with threads of their own are in other modules; here they    *)
(* are what they promise: the transport calls back until it was stopped,   *)
(* the ring buffer is a bounded queue that the writer empties, and a       *)
(* broadcast waits while a browser's socket is full.                       *)
(***************************************************************************)
EXTENDS Config, PacketValidator, StatsAnalyzer, FiniteSets, FiniteSetsExt

CONSTANTS
  Inputs,          (* [built, argv, disk]: how the server may be started *)
  MemoryLimit,     (* the entries of a ring buffer that can be allocated *)
  ScaleG,          (* 9.80665 *)
  StartPositions,  (* where a device may be when the server comes *)
  MaxPackets,      (* bound: the packets of the device *)
  MaxClock,        (* bound: the time *)
  MaxSteps         (* bound: how often the clock is set back *)

ASSUME ServerAssumption ==
  /\ {MemoryLimit, ScaleG, MaxPackets, MaxClock, MaxSteps} \subseteq Nat
  /\ StartPositions \subseteq Nat
ASSUME InputsAssumption ==
  \A in \in Inputs : /\ in.built \in BOOLEAN /\ in.argv \in Seq(Raws)
                     /\ in.disk \in [DOMAIN in.disk -> Seq(Lines)]
(* A time in ms stays below 2^64 by more than the 2^32 of an interval.     *)
ASSUME ClockAssumption == MaxClock > 0 /\ MaxClock + IntMod <= TimeMod

VARIABLES
  main,        (* where main() is *)
  input,       (* how it was started, until that is resolved *)
  cfg,         (* the resolved configuration, then what run time needs *)
  signalled,   (* ~g_running *)
  sub,         (* where the transport thread is *)
  pkt,         (* the packet of the running callback *)
  counter,     (* android_seq_counter *)
  stats,       (* StatsAnalyzer *)
  last_stats,  (* last_stats_ms *)
  buffer,      (* the ring buffer: the positions of its packets *)
  dropped,     (* dropped_packets_ *)
  rows,        (* written to the file *)
  stalled,     (* a browser does not read, and its socket is full *)
  clock,       (* the system clock *)
  steps,       (* how often it was set back *)
  device,      (* the format of the device, and the next number it uses *)
  heard        (* history: the packets recorded *)

startVars == <<input, cfg>>
statVars == <<counter, stats, heard>>
storeVars == <<buffer, dropped, rows>>
worldVars == <<stalled, clock, steps, device>>
vars == <<main, startVars, signalled, sub, pkt, statVars, last_stats, storeVars,
          worldVars>>

NoInput == [built |-> FALSE, argv |-> << >>, disk |-> << >>]
NoPacket == [pos |-> 0, recv |-> 0]

Init ==
  /\ main = "begin" /\ input \in Inputs /\ cfg = Defaults
  /\ signalled = FALSE /\ sub = "none" /\ pkt = NoPacket
  /\ counter = 0 /\ stats = StatsInit /\ last_stats = 0 /\ heard = << >>
  /\ buffer = << >> /\ dropped = 0 /\ rows = << >>
  /\ stalled = FALSE /\ clock = 1 /\ steps = 0
  /\ device = [format |-> "native", first |-> 0, pos |-> 0]

-----------------------------------------------------------------------------
(* main(): steps 1 to 6. *)
Configure ==
  /\ main = "begin"
  /\ \E r \in {Resolve(input.built, input.argv, input.disk)} :
       main' = r.outcome /\ cfg' = r.cfg
  /\ input' = NoInput
  /\ UNCHANGED <<signalled, sub, pkt, statVars, last_stats, storeVars, worldVars>>

(* What is still looked at once the server runs; room for all the packets  *)
(* is as good as more.                                                     *)
RunTime(c, webUp) ==
  [vcfg |-> ValidatorConfig(c, ScaleG),
   capacity |-> IF c.capacity > MaxPackets THEN MaxPackets ELSE c.capacity,
   interval |-> c.interval, web |-> webUp]

(* Steps 7 to 12: a web interface that does not start is done without; a   *)
(* ring buffer that cannot be allocated ends the process; a transport that *)
(* cannot connect ends the server through storage.stop().  Some device is  *)
(* sending by then; an Android one is numbered by the validator.           *)
Start ==
  /\ main = "resolved"
  /\ \E webUp \in {cfg.web, FALSE}, connects \in BOOLEAN :
       /\ cfg' = RunTime(cfg, webUp)
       /\ main' = IF cfg.capacity > MemoryLimit THEN "aborted"
                  ELSE IF connects THEN "serving" ELSE "flushing"
       /\ sub' = IF main' = "serving" THEN "running" ELSE "none"
  /\ \/ \E p \in StartPositions :
          device' = [format |-> "native", first |-> p, pos |-> p]
     \/ device' = [format |-> "android", first |-> 0, pos |-> 0]
  /\ last_stats' = clock
  /\ UNCHANGED <<input, signalled, pkt, statVars, storeVars, stalled, clock, steps>>

Signal ==
  /\ main = "serving" /\ ~signalled /\ signalled' = TRUE
  /\ UNCHANGED <<main, startVars, sub, pkt, statVars, last_stats, storeVars, worldVars>>

(* sub->stop() *)
StopTransport ==
  /\ main = "serving" /\ signalled /\ main' = "joining"
  /\ UNCHANGED <<startVars, signalled, sub, pkt, statVars, last_stats, storeVars,
                 worldVars>>

(* A mutant of Join that does not wait. *)
JoinNothing ==
  /\ main = "joining" /\ main' = "flushing"
  /\ UNCHANGED <<startVars, signalled, sub, pkt, statVars, last_stats, storeVars,
                 worldVars>>

(* sub_thread.join(), and webif->stop(). *)
Join ==
  /\ main = "joining" /\ sub = "exit" /\ main' = "flushing"
  /\ UNCHANGED <<startVars, signalled, sub, pkt, statVars, last_stats, storeVars,
                 worldVars>>

(* storage.stop() writes what is left. *)
StopStorage ==
  /\ main = "flushing" /\ main' = "done"
  /\ rows' = rows \o buffer /\ buffer' = << >>
  /\ UNCHANGED <<startVars, signalled, sub, pkt, statVars, last_stats, dropped,
                 worldVars>>

(* The storage's own thread. *)
Flush ==
  /\ main \in {"serving", "joining"} /\ buffer # << >>
  /\ rows' = rows \o buffer /\ buffer' = << >>
  /\ UNCHANGED <<main, startVars, signalled, sub, pkt, statVars, last_stats,
                 dropped, worldVars>>
-----------------------------------------------------------------------------
(* What a device may send.  The server decides nothing by these values but *)
(* what the guards of the validator decide.                                *)
Good == <<1, 1, 1>>
TooLarge == <<1, 1, cfg.vcfg.limit + 1>>
Odd == <<1, NotANumber, 1>>
Payloads(seq) ==
  {Payload("native", 0, seq, Odd), Payload("native", 1, Missing, Good)} \union
  {Payload("native", 1, seq, acc) : acc \in {Good, <<1, 1>>, TooLarge}}
AndroidPayloads ==
  {Payload("android", Missing, Missing, acc) : acc \in {Good, <<1, 1>>, TooLarge}}

Advanced == [device EXCEPT !.pos = @ + 1]
Sending == device.pos < device.first + MaxPackets

(* A packet of the device never reaches the transport's callback. *)
Lose ==
  /\ sub = "running" /\ Sending /\ device.format = "native"
  /\ device' = Advanced
  /\ UNCHANGED <<main, startVars, signalled, sub, pkt, statVars, last_stats,
                 storeVars, stalled, clock, steps>>

(* The callback up to stats.snapshot(): a rejected packet ends it there.   *)
Receive ==
  /\ sub = "running" /\ Sending
  /\ device' = Advanced
  /\ \E payload \in IF device.format = "native"
                    THEN Payloads(device.pos % U32) ELSE AndroidPayloads :
       LET p == Parse(payload, cfg.vcfg, clock, counter)
       IN  /\ counter' = p.counter
           /\ IF p.result = "ok"
              THEN /\ stats' = Record(stats, clock, p.packet.seq, cfg.interval)
                   /\ heard' = Append(heard, [pos |-> device.pos,
                                              seq |-> p.packet.seq])
                   /\ pkt' = [pos |-> device.pos, recv |-> clock]
                   /\ sub' = IF cfg.web THEN "broadcast" ELSE "push"
              ELSE UNCHANGED <<stats, heard, pkt, sub>>
  /\ UNCHANGED <<main, startVars, signalled, last_stats, storeVars, stalled,
                 clock, steps>>

(* A mutant of StatsDue: the difference is signed. *)
StatsDueSigned(recv, last, interval) == recv - last >= interval

StatsDue(recv, last, interval) == Elapsed(recv, last) >= interval

(* A mutant of Broadcast: it takes a lock that main() holds while it stops *)
(* the transport.                                                          *)
BroadcastLocked ==
  /\ sub = "broadcast" /\ ~stalled /\ main = "serving" /\ sub' = "push"
  /\ last_stats' = IF StatsDue(pkt.recv, last_stats, cfg.interval)
                   THEN pkt.recv ELSE last_stats
  /\ UNCHANGED <<main, startVars, signalled, pkt, statVars, storeVars, worldVars>>

(* broadcast_data() and, when due, broadcast_stats(): send() waits for a   *)
(* browser that does not read.                                             *)
Broadcast ==
  /\ sub = "broadcast" /\ ~stalled /\ sub' = "push"
  /\ last_stats' = IF StatsDue(pkt.recv, last_stats, cfg.interval)
                   THEN pkt.recv ELSE last_stats
  /\ UNCHANGED <<main, startVars, signalled, pkt, statVars, storeVars, worldVars>>

(* A mutant of Store: one packet more than there is room for. *)
StoreOneMore ==
  /\ sub = "push" /\ sub' = "running"
  /\ IF Len(buffer) <= cfg.capacity
     THEN buffer' = Append(buffer, pkt.pos) /\ UNCHANGED dropped
     ELSE dropped' = dropped + 1 /\ UNCHANGED buffer
  /\ UNCHANGED <<main, startVars, signalled, pkt, statVars, last_stats, rows,
                 worldVars>>

(* storage.push(): a packet that finds the buffer full is dropped. *)
Store ==
  /\ sub = "push" /\ sub' = "running"
  /\ IF Len(buffer) < cfg.capacity
     THEN buffer' = Append(buffer, pkt.pos) /\ UNCHANGED dropped
     ELSE dropped' = dropped + 1 /\ UNCHANGED buffer
  /\ UNCHANGED <<main, startVars, signalled, pkt, statVars, last_stats, rows,
                 worldVars>>

(* run() returns between two callbacks once it was stopped. *)
TransportEnds ==
  /\ sub = "running" /\ main = "joining" /\ sub' = "exit"
  /\ UNCHANGED <<main, startVars, signalled, pkt, statVars, last_stats, storeVars,
                 worldVars>>
-----------------------------------------------------------------------------
Running == main \in {"serving", "joining"}

Tick ==
  /\ Running /\ clock < MaxClock /\ clock' = clock + 1
  /\ UNCHANGED <<main, startVars, signalled, sub, pkt, statVars, last_stats,
                 storeVars, stalled, steps, device>>

(* The system clock is set back. *)
SetBack ==
  /\ Running /\ steps < MaxSteps /\ steps' = steps + 1
  /\ clock' \in 1 .. clock - 1
  /\ UNCHANGED <<main, startVars, signalled, sub, pkt, statVars, last_stats,
                 storeVars, stalled, device>>

(* A browser stops reading, or reads again or leaves. *)
BrowserStalls ==
  /\ Running /\ cfg.web /\ stalled' = ~stalled
  /\ UNCHANGED <<main, startVars, signalled, sub, pkt, statVars, last_stats,
                 storeVars, clock, steps, device>>

Serve == Start \/ StopTransport \/ Join \/ StopStorage
Main == Configure \/ Serve
Transport == Broadcast \/ Store \/ TransportEnds
World == Lose \/ Receive \/ Signal \/ Tick \/ SetBack \/ BrowserStalls

Next == Main \/ Transport \/ Flush \/ World

Spec == Init /\ [][Next]_vars

(* main(), once it is configured, and the two threads run; the world need  *)
(* not do anything.                                                        *)
Fairness == WF_vars(Serve) /\ WF_vars(Transport) /\ WF_vars(Flush)
FairSpec == Spec /\ Fairness
-----------------------------------------------------------------------------
Outcomes == {"refused", "aborted", "printed", "done"}
InCallback == sub \in {"broadcast", "push"}

(* The types; the statistics count what was recorded. *)
TypeOK ==
  /\ main \in Outcomes \union {"begin", "resolved", "serving", "joining", "flushing"}
  /\ {signalled, stalled} \subseteq BOOLEAN
  /\ sub \in {"none", "running", "broadcast", "push", "exit"}
  /\ counter \in 0 .. U32 - 1
  /\ stats.received = Len(heard) /\ stats.lost \in Nat
  /\ buffer \in Seq(Nat) /\ rows \in Seq(Nat) /\ dropped \in Nat
  /\ sub # "none" => Len(buffer) <= cfg.capacity

(* Whatever the file and the command line say, what the server starts with *)
(* has ports, a quality of service, sizes and names that can be used.      *)
ResolvedIsUsable ==
  main = "resolved" =>
    /\ {cfg.port, cfg.web_port} \subseteq PortNumbers
    /\ {cfg.qos, cfg.will_qos} \subseteq 0 .. 2
    /\ cfg.capacity > 0 /\ cfg.flush > 0
    /\ NoText \notin {cfg.host, cfg.topic, cfg.timesource}
    /\ cfg.auto => 5 * cfg.capacity >= 2 * cfg.flush - 4

(* The strongest source that says something usable of a setting decides,   *)
(* whatever else is written: see Heeded.                                   *)
StrongestSourceWins ==
  [][(main = "begin" /\ main' = "resolved") => Heeded(input, cfg')]_vars

-----------------------------------------------------------------------------
(* Of a stream in order, every number between two recorded packets counts  *)
(* as lost, once: it was lost on the way or rejected.  The exceptions: a   *)
(* gap above the threshold, and one right behind the highest number, which *)
(* is also the mark of "no packet yet".  A gap is seen modulo 2^32.        *)
SkippedBefore(h, i) ==
  LET skipped == (h[i].pos - h[i - 1].pos - 1) % U32
  IN  IF h[i - 1].pos % U32 = U32 - 1 \/ skipped >= GapThreshold THEN 0 ELSE skipped
LossOf(h) ==
  LET lost[i \in 0 .. Len(h)] ==
        IF i <= 1 THEN 0 ELSE lost[i - 1] + SkippedBefore(h, i)
  IN  lost[Len(h)]
LossIsExact ==
  (\A i \in DOMAIN heard : heard[i].seq = heard[i].pos % U32) =>
    stats.lost = LossOf(heard)

(* Every recorded packet is stored, or counted as dropped, or is the one   *)
(* in the callback; none is stored twice or out of order; and none is left *)
(* in the buffer when main() ends.                                         *)
EveryPacketAccountedFor ==
  LET stored == rows \o buffer
  IN  /\ \A i \in 1 .. Len(stored) - 1 : stored[i] < stored[i + 1]
      /\ ToSet(stored) \subseteq {heard[i].pos : i \in DOMAIN heard}
      /\ stats.received = Len(stored) + dropped + (IF InCallback THEN 1 ELSE 0)
      /\ main = "done" => buffer = << >> /\ ~InCallback

(* Browsers get statistics at least once an interval, by the times of the  *)
(* packets, also when the clock is set back in between.                    *)
StatsKeepComing ==
  (sub = "push" /\ cfg.web /\ cfg.interval > 0)
    => pkt.recv - last_stats \in 0 .. cfg.interval - 1

(* After a signal the server ends, unless a browser that does not read     *)
(* keeps holding the transport thread, and with it main().                 *)
ShutdownEndsMostly == <>[]~stalled => (signalled ~> main = "done")
=============================================================================
