----------------------------- MODULE Server_proofs -----------------------------
(***************************************************************************)
(* The server, for every way to start it, every number of packets, every   *)
(* width and every limit: what it starts with can be used, every packet is *)
(* accounted for, losses are counted exactly, and statistics keep coming.  *)
(***************************************************************************)
EXTENDS Server, Config_proofs

Heard == [pos : Nat, seq : 0 .. U32 - 1]
Positions(h) == {h[i].pos : i \in DOMAIN h}

Mains == Outcomes \union {"begin", "resolved", "serving", "joining", "flushing"}
Subs == {"none", "running", "broadcast", "push", "exit"}

Kinds ==
  /\ main \in Mains /\ sub \in Subs
  /\ signalled \in BOOLEAN /\ stalled \in BOOLEAN
  /\ counter \in 0 .. U32 - 1
  /\ device \in [format : {"native", "android"}, first : Nat, pos : Nat]
  /\ heard \in Seq(Heard)
  /\ pkt \in [pos : Nat, recv : 0 .. MaxClock]
  /\ clock \in 1 .. MaxClock /\ last_stats \in 0 .. MaxClock
  /\ buffer \in Seq(Nat) /\ rows \in Seq(Nat) /\ dropped \in Nat

(* Where main() is, with the thread it starts and the configuration.       *)
Phases ==
  /\ main = "begin" => cfg = Defaults /\ input \in Inputs
  /\ main = "resolved" => cfg \in Configs /\ Sized(cfg)
  /\ main \in {"begin", "resolved"} =>
       sub = "none" /\ heard = << >> /\ rows = << >> /\ buffer = << >>
  /\ main \in Outcomes \union {"flushing"} => sub \in {"none", "exit"}
  /\ main = "done" => buffer = << >>
  /\ sub # "none" =>
       /\ cfg.capacity \in Nat /\ cfg.web \in BOOLEAN
       /\ cfg.interval \in 0 .. IntMod - 1
       /\ Len(buffer) <= cfg.capacity

(* Positions grow from the file to the buffer to the packet in the callback*)
(* to the device.                                                          *)
Growing ==
  LET stored == rows \o buffer
  IN  /\ \A p \in Positions(heard) : p < device.pos
      /\ InCallback => /\ pkt.pos \in Positions(heard)
                       /\ \A i \in 1 .. Len(stored) : stored[i] < pkt.pos

(* The statistics know the last packet recorded.                           *)
Counting ==
  /\ stats.received = Len(heard) /\ stats.lost \in Nat
  /\ stats.last_seq = IF heard = << >> THEN NoSeq ELSE heard[Len(heard)].seq

IInv ==
  /\ Kinds /\ Phases /\ Growing /\ Counting
  /\ EveryPacketAccountedFor /\ LossIsExact /\ StatsKeepComing
-----------------------------------------------------------------------------
(* Remainders.                                                             *)
LEMMA WidthIs == U32 \in Nat \ {0, 1} /\ TimeMod \in Nat \ {0, 1} /\ NoSeq = U32 - 1
  BY WidthsAssumption DEF NoSeq

LEMMA Remainder ==
  ASSUME NEW u \in Nat \ {0}, NEW k \in Int, NEW r \in 0 .. u - 1
  PROVE  (k * u + r) % u = r
  BY SMTT(60)

LEMMA Quotient ==
  ASSUME NEW u \in Nat \ {0}, NEW a \in Int, NEW q, NEW r, q = a \div u, r = a % u
  PROVE  q \in Int /\ r \in 0 .. u - 1 /\ a = q * u + r
  BY SMTT(60)

LEMMA Decomposed ==
  ASSUME NEW u \in Nat \ {0}, NEW a \in Int
  PROVE  \E k \in Int : a % u \in 0 .. u - 1 /\ a = k * u + (a % u)
<1>1. \A q, r : q = a \div u /\ r = a % u => q \in Int /\ r \in 0 .. u - 1 /\ a = q * u + r
  BY Quotient
<1> QED
  BY <1>1

(* The gap between two numbers is the distance of their positions.         *)
LEMMA GapIsDistance ==
  ASSUME NEW a \in Nat, NEW b \in Nat, a % U32 # NoSeq
  PROVE  Gap(a % U32, b % U32) = (b - a - 1) % U32
<1>0. U32 \in Nat \ {0} /\ a \in Int /\ b \in Int
  BY WidthIs
<1>1. PICK i \in Int : a % U32 \in 0 .. U32 - 1 /\ a = i * U32 + (a % U32)
  BY <1>0, Decomposed
<1>2. PICK j \in Int : b % U32 \in 0 .. U32 - 1 /\ b = j * U32 + (b % U32)
  BY <1>0, Decomposed
<1> DEFINE r == a % U32
           t == b % U32
<1>3. r \in 0 .. U32 - 2 /\ t \in 0 .. U32 - 1 /\ a = i * U32 + r /\ b = j * U32 + t
  BY <1>1, <1>2, WidthIs
<1> HIDE DEF r, t
<1>4. Gap(r, t) = IF t >= r + 1 THEN t - r - 1 ELSE U32 + t - r - 1
  <2>1. (r + 1) % U32 = r + 1
    <3>1. 0 * U32 + (r + 1) = r + 1 /\ r + 1 \in 0 .. U32 - 1
      BY <1>3, WidthIs
    <3> QED
      BY <3>1, WidthIs, Remainder
  <2> QED
    BY <1>3, <2>1, WidthIs DEF Gap
<1>5. CASE t >= r + 1
  <2> DEFINE k == j - i
             d == t - r - 1
  <2>1. k \in Int /\ d \in 0 .. U32 - 1 /\ b - a - 1 = k * U32 + d
    BY <1>3, <1>5, WidthIs
  <2> HIDE DEF k, d
  <2>2. (b - a - 1) % U32 = d
    BY <2>1, WidthIs, Remainder
  <2> QED
    BY <1>4, <1>5, <2>2 DEF d, r, t
<1>6. CASE ~(t >= r + 1)
  <2> DEFINE k == j - i - 1
             d == U32 + t - r - 1
  <2>1. k \in Int /\ d \in 0 .. U32 - 1 /\ b - a - 1 = k * U32 + d
    BY <1>3, <1>6, WidthIs
  <2> HIDE DEF k, d
  <2>2. (b - a - 1) % U32 = d
    BY <2>1, WidthIs, Remainder
  <2> QED
    BY <1>4, <1>6, <2>2 DEF d, r, t
<1> QED
  BY <1>5, <1>6

LEMMA LostIsNumber ==
  ASSUME NEW last \in 0 .. U32 - 1, NEW seq \in 0 .. U32 - 1
  PROVE  Lost(last, seq) \in Nat
<1>1. (last + 1) % U32 \in 0 .. U32 - 1
  BY WidthIs
<1> DEFINE expected == (last + 1) % U32
<1>2. Gap(last, seq) = IF seq >= expected THEN seq - expected
                       ELSE NoSeq - expected + seq + 1
  BY DEF Gap
<1> HIDE DEF expected
<1>3. Gap(last, seq) \in Nat
  BY <1>1, <1>2, WidthIs DEF expected
<1> QED
  BY <1>3 DEF Lost

(* What record() adds is what was skipped, if the numbers are positions.   *)
LEMMA LostIsSkipped ==
  ASSUME NEW h, NEW n, h[n].pos \in Nat, h[n - 1].pos \in Nat
  PROVE  Lost(h[n - 1].pos % U32, h[n].pos % U32) = SkippedBefore(h, n)
<1>1. CASE h[n - 1].pos % U32 = NoSeq
  BY <1>1 DEF Lost, SkippedBefore, NoSeq
<1>2. CASE h[n - 1].pos % U32 # NoSeq
  <2>1. Gap(h[n - 1].pos % U32, h[n].pos % U32) = (h[n].pos - h[n - 1].pos - 1) % U32
    BY <1>2, GapIsDistance
  <2>2. (h[n].pos - h[n - 1].pos - 1) % U32 \in Int
    BY WidthIs
  <2> QED
    BY <1>2, <2>1, <2>2, GapThresholdAssumption DEF Lost, SkippedBefore, NoSeq
<1> QED
  BY <1>1, <1>2
-----------------------------------------------------------------------------
(* LossOf(h), by its intermediate results.                                 *)
Losing(h, F) ==
  F = [i \in 0 .. Len(h) |-> IF i <= 1 THEN 0 ELSE F[i - 1] + SkippedBefore(h, i)]

LossSteps(F, h) ==
  /\ F[0] = 0 /\ LossOf(h) = F[Len(h)]
  /\ \A i \in 1 .. Len(h) : F[i] = IF i <= 1 THEN 0 ELSE F[i - 1] + SkippedBefore(h, i)

LEMMA SkippedIsNumber ==
  ASSUME NEW h \in Seq(Heard), NEW i \in 2 .. Len(h)
  PROVE  SkippedBefore(h, i) \in Nat
<1>1. i \in 1 .. Len(h) /\ i - 1 \in 1 .. Len(h)
  BY LenProperties
<1>2. h[i] \in Heard /\ h[i - 1] \in Heard
  BY <1>1, ElementOfSeq
<1>3. h[i].pos \in Nat /\ h[i - 1].pos \in Nat
  BY <1>2 DEF Heard
<1>4. \A d \in Int : d % U32 \in 0 .. U32 - 1
  BY WidthIs
<1>5. h[i].pos - h[i - 1].pos - 1 \in Int
  BY <1>3
<1>6. (h[i].pos - h[i - 1].pos - 1) % U32 \in 0 .. U32 - 1
  BY <1>4, <1>5
<1> QED
  BY <1>6, WidthIs DEF SkippedBefore

LEMMA LossByStep ==
  ASSUME NEW h \in Seq(Heard)
  PROVE  \E F : LossSteps(F, h)
<1> DEFINE n == Len(h)
           turn == [i \in 1 .. n |-> [d \in Nat |->
                      IF i <= 1 THEN 0 ELSE d + SkippedBefore(h, i)]]
<1>1. n \in Nat
  BY LenProperties
<1>2. ASSUME NEW i \in 1 .. n, NEW d \in Nat
      PROVE  /\ turn[i][d] = IF i <= 1 THEN 0 ELSE d + SkippedBefore(h, i)
             /\ turn[i][d] \in Nat
  <2>1. turn[i][d] = IF i <= 1 THEN 0 ELSE d + SkippedBefore(h, i)
    OBVIOUS
  <2>2. CASE i <= 1
    BY <2>1, <2>2
  <2>3. CASE ~(i <= 1)
    <3>1. i \in 2 .. Len(h)
      BY <1>1, <2>3
    <3>2. SkippedBefore(h, i) \in Nat
      BY <3>1, SkippedIsNumber
    <3> QED
      BY <2>1, <2>3, <3>2
  <2> QED
    BY <2>1, <2>2, <2>3
<1> HIDE DEF turn, n
<1>3. PICK F : LoopResults(F, n, Nat, 0, turn)
  BY <1>1, <1>2, LoopExists
<1>4. Losing(h, F)
  <2> DEFINE G == [i \in 0 .. n |->
                     IF i <= 1 THEN 0 ELSE F[i - 1] + SkippedBefore(h, i)]
  <2>1. ASSUME NEW i \in 0 .. n PROVE F[i] = G[i]
    <3>1. CASE i = 0
      BY <1>3, <3>1 DEF LoopResults
    <3>2. CASE i # 0
      <4>1. i \in 1 .. n /\ i - 1 \in 0 .. n
        BY <1>1, <3>2
      <4>2. F[i - 1] \in Nat
        BY <1>3, <4>1 DEF LoopResults
      <4> QED
        BY <1>2, <1>3, <3>2, <4>1, <4>2 DEF LoopResults
    <3> QED
      BY <3>1, <3>2
  <2>2. G = [i \in 0 .. n |-> G[i]]
    OBVIOUS
  <2> HIDE DEF G
  <2>3. F = G
    BY <1>3, <2>1, <2>2 DEF LoopResults
  <2> QED
    BY <2>3 DEF Losing, G, n
<1> DEFINE lost == CHOOSE H : Losing(h, H)
<1>5. Losing(h, lost)
  BY <1>4
<1>6. LossOf(h) = lost[n]
  BY DEF LossOf, Losing, n
<1> HIDE DEF lost
<1>7. lost = [i \in 0 .. n |-> IF i <= 1 THEN 0 ELSE lost[i - 1] + SkippedBefore(h, i)]
  BY <1>5 DEF Losing, n
<1>8. lost[0] = 0
  BY <1>1, <1>7
<1>9. \A i \in 1 .. n : lost[i] = IF i <= 1 THEN 0 ELSE lost[i - 1] + SkippedBefore(h, i)
  BY <1>1, <1>7
<1> QED
  BY <1>6, <1>8, <1>9 DEF LossSteps, n

LEMMA LossOfAppend ==
  ASSUME NEW h \in Seq(Heard), NEW e \in Heard
  PROVE  LossOf(Append(h, e)) =
           IF h = << >> THEN 0 ELSE LossOf(h) + SkippedBefore(Append(h, e), Len(h) + 1)
<1> DEFINE l == Append(h, e)
           n == Len(h)
<1>1. /\ l \in Seq(Heard) /\ n \in Nat /\ Len(l) = n + 1 /\ l[n + 1] = e
      /\ \A i \in 1 .. n : l[i] = h[i]
  BY AppendProperties, LenProperties
<1>2. PICK F : LossSteps(F, h)
  BY LossByStep
<1> HIDE DEF l
<1>3. PICK G : LossSteps(G, l)
  BY <1>1, LossByStep
<1> DEFINE T == {i \in 0 .. n : F[i] = G[i]}
<1>4. 0 \in T
  BY <1>1, <1>2, <1>3 DEF LossSteps
<1>5. ASSUME NEW i \in 1 .. n, i - 1 \in T PROVE i \in T
  <2>1. i \in 1 .. Len(l) /\ i \in 0 .. n
    BY <1>1
  <2>2. /\ F[i] = IF i <= 1 THEN 0 ELSE F[i - 1] + SkippedBefore(h, i)
        /\ G[i] = IF i <= 1 THEN 0 ELSE G[i - 1] + SkippedBefore(l, i)
    BY <1>2, <1>3, <2>1 DEF LossSteps
  <2>3. CASE i <= 1
    BY <2>1, <2>2, <2>3
  <2>4. CASE ~(i <= 1)
    <3>1. i - 1 \in 1 .. n
      BY <1>1, <2>4
    <3>2. SkippedBefore(h, i) = SkippedBefore(l, i)
      BY <1>1, <3>1 DEF SkippedBefore
    <3> QED
      BY <1>5, <2>1, <2>2, <3>2
  <2> QED
    BY <2>3, <2>4
<1>6. F[n] = G[n]
  <2> HIDE DEF T
  <2>1. 0 .. n \subseteq T
    BY <1>1, <1>4, <1>5, CountingUp
  <2>2. n \in T
    BY <1>1, <2>1
  <2> QED
    BY <2>2 DEF T
<1>7. n + 1 \in 1 .. Len(l)
  BY <1>1
<1>8. LossOf(l) = IF n + 1 <= 1 THEN 0 ELSE G[n + 1 - 1] + SkippedBefore(l, n + 1)
  BY <1>1, <1>3, <1>7 DEF LossSteps
<1>9. n + 1 - 1 = n /\ (n + 1 <= 1 <=> h = << >>)
  BY <1>1, EmptySeq
<1> QED
  BY <1>2, <1>6, <1>8, <1>9 DEF LossSteps, l
-----------------------------------------------------------------------------
(* What a step that leaves some variables alone keeps.                     *)
LEMMA HistoryFrame ==
  ASSUME IInv, UNCHANGED <<heard, stats>>
  PROVE  Counting' /\ LossIsExact'
  BY DEF IInv, Counting, LossIsExact

LEMMA StoreFrame ==
  ASSUME IInv, UNCHANGED <<dropped, heard, stats>>,
         rows' \o buffer' = rows \o buffer,
         sub' \in {"broadcast", "push"} <=> sub \in {"broadcast", "push"},
         main' = "done" => buffer' = << >> /\ sub' \notin {"broadcast", "push"}
  PROVE  EveryPacketAccountedFor'
  BY DEF IInv, EveryPacketAccountedFor, InCallback

LEMMA PositionsAre ==
  ASSUME NEW h \in Seq(Heard)
  PROVE  /\ Positions(h) \subseteq Nat
         /\ \A i \in 1 .. Len(h) : h[i] \in Heard /\ h[i].pos \in Nat
                                 /\ h[i].pos \in Positions(h)
<1>1. DOMAIN h = 1 .. Len(h) /\ \A i \in 1 .. Len(h) : h[i] \in Heard
  BY LenProperties, ElementOfSeq
<1> QED
  BY <1>1 DEF Positions, Heard

LEMMA GrowingFrame ==
  ASSUME IInv, UNCHANGED <<heard, pkt>>,
         rows' \o buffer' = rows \o buffer,
         sub' \in {"broadcast", "push"} => sub \in {"broadcast", "push"},
         device'.pos \in Nat, device.pos <= device'.pos
  PROVE  Growing'
<1>1. Growing /\ device.pos \in Nat
  BY DEF IInv, Kinds
<1>2. Positions(heard) \subseteq Nat
  BY PositionsAre DEF IInv, Kinds
<1>3. ASSUME NEW p \in Positions(heard) PROVE p < device'.pos
  <2>1. p \in Nat /\ p < device.pos
    BY <1>1, <1>2, <1>3 DEF Growing
  <2> QED
    BY <1>1, <2>1
<1>4. Positions(heard)' = Positions(heard)
  BY DEF Positions
<1> QED
  BY <1>1, <1>3, <1>4 DEF Growing, InCallback

LEMMA StatsFrame ==
  ASSUME IInv, UNCHANGED <<pkt, last_stats, cfg>>, sub' = "push" => sub = "push"
  PROVE  StatsKeepComing'
  BY DEF IInv, StatsKeepComing

(* The numbers that the validator gives.                                   *)
LEMMA PacketFits ==
  ASSUME NEW s \in 0 .. U32 - 1, NEW payload, NEW vcfg, NEW now, NEW n \in 0 .. U32 - 1,
         \/ payload.format = "native" /\ payload.seq \in {s, Missing}
         \/ payload.format = "android"
  PROVE  /\ Parse(payload, vcfg, now, n).counter \in 0 .. U32 - 1
         /\ Parse(payload, vcfg, now, n).packet.seq \in 0 .. U32 - 1
<1>1. (n + 1) % U32 \in 0 .. U32 - 1 /\ 0 \in 0 .. U32 - 1
  BY WidthIs
<1>2. CASE payload.format = "android"
  BY <1>1, <1>2 DEF Parse, ParseAndroid, Parsed, Packet
<1>3. CASE payload.format = "native" /\ payload.seq \in {s, Missing}
  <2> DEFINE seq == Uint32(payload.seq)
             number == IF seq = Missing THEN 0 ELSE seq
  <2>1. seq \in {s, Missing}
    BY <1>3 DEF Uint32
  <2> HIDE DEF seq
  <2>2. number \in 0 .. U32 - 1
    BY <1>1, <2>1
  <2>3. /\ Parse(payload, vcfg, now, n).counter = n
        /\ Parse(payload, vcfg, now, n).packet.seq = number
    BY <1>3 DEF Parse, ParseNative, Parsed, Packet, seq
  <2> QED
    BY <2>2, <2>3
<1> QED
  BY <1>2, <1>3

LEMMA PayloadsAre ==
  ASSUME NEW s
  PROVE  /\ \A payload \in Payloads(s) :
              payload.format = "native" /\ payload.seq \in {s, Missing}
         /\ \A payload \in AndroidPayloads : payload.format = "android"
  BY DEF Payloads, AndroidPayloads, Payload
-----------------------------------------------------------------------------
LEMMA InitHolds == Init => IInv
<1> SUFFICES ASSUME Init PROVE IInv
  OBVIOUS
<1>1. << >> \in Seq(Heard) /\ << >> \in Seq(Nat) /\ Len(<< >>) = 0
  OBVIOUS
<1>2. Kinds
  <2>1. 0 \in 0 .. U32 - 1 /\ 0 \in 0 .. MaxClock /\ 1 \in 1 .. MaxClock
    BY WidthIs, ServerAssumption, ClockAssumption
  <2>2. /\ main = "begin" /\ sub = "none" /\ signalled = FALSE /\ stalled = FALSE
        /\ counter = 0 /\ pkt = [pos |-> 0, recv |-> 0] /\ clock = 1 /\ last_stats = 0
        /\ heard = << >> /\ rows = << >> /\ buffer = << >> /\ dropped = 0
        /\ device = [format |-> "native", first |-> 0, pos |-> 0]
    BY DEF Init, NoPacket
  <2>3. pkt \in [pos : Nat, recv : 0 .. MaxClock]
    BY <2>1, <2>2
  <2>4. device \in [format : {"native", "android"}, first : Nat, pos : Nat]
    BY <2>2
  <2> QED
    BY <1>1, <2>1, <2>2, <2>3, <2>4 DEF Kinds, Mains, Subs
<1>3. Phases
  BY DEF Init, Phases, Outcomes
<1>4. Growing
  BY DEF Init, Growing, InCallback, Positions
<1>5. Counting
  BY DEF Init, Counting, StatsInit
<1>6. EveryPacketAccountedFor
  <2>1. rows \o buffer = << >>
    BY DEF Init
  <2>2. ToSet(<< >>) = {}
    BY DEF ToSet
  <2>3. stats.received = 0 /\ dropped = 0 /\ sub = "none" /\ main = "begin"
    BY DEF Init, StatsInit
  <2> QED
    BY <2>1, <2>2, <2>3 DEF EveryPacketAccountedFor, InCallback
<1>7. LossIsExact
  <2>1. LossOf(<< >>) = 0
    <3>1. PICK F : LossSteps(F, << >>)
      BY <1>1, LossByStep
    <3> QED
      BY <3>1 DEF LossSteps
  <2> QED
    BY <2>1 DEF Init, LossIsExact, StatsInit
<1>8. StatsKeepComing
  BY DEF Init, StatsKeepComing
<1> QED
  BY <1>2, <1>3, <1>4, <1>5, <1>6, <1>7, <1>8 DEF IInv

LEMMA ConfigureKeeps == IInv /\ Configure => IInv'
<1> SUFFICES ASSUME IInv, Configure PROVE IInv'
  OBVIOUS
<1>1. /\ main = "begin" /\ sub = "none" /\ heard = << >> /\ rows = << >> /\ buffer = << >>
      /\ input \in Inputs
  BY DEF IInv, Phases, Configure
<1>2. PICK r : /\ r = Resolve(input.built, input.argv, input.disk)
              /\ main' = r.outcome /\ cfg' = r.cfg
  BY DEF Configure
<1>3. /\ r.outcome \in {"refused", "aborted", "printed", "resolved"}
      /\ r.cfg \in Configs /\ Sized(r.cfg)
  <2>1. /\ input.built \in BOOLEAN /\ input.argv \in Seq(Raws)
        /\ input.disk \in [DOMAIN input.disk -> Seq(Lines)]
    BY <1>1, InputsAssumption
  <2> QED
    BY <1>2, <2>1, ResolveUsable
<1>4. UNCHANGED <<signalled, sub, pkt, counter, stats, heard, last_stats, buffer, dropped,
                  rows, stalled, clock, steps, device>>
  BY DEF Configure, statVars, storeVars, worldVars
<1>5. Kinds'
  BY <1>2, <1>3, <1>4 DEF IInv, Kinds, Mains, Outcomes
<1>6. Phases'
  BY <1>1, <1>2, <1>3, <1>4 DEF Phases, Outcomes
<1>7. Growing'
  <2>1. device.pos \in Nat
    BY DEF IInv, Kinds
  <2> QED
    BY <1>4, <2>1, GrowingFrame
<1>8. Counting' /\ LossIsExact'
  BY <1>4, HistoryFrame
<1>9. EveryPacketAccountedFor'
  BY <1>1, <1>2, <1>3, <1>4, StoreFrame
<1>10. StatsKeepComing'
  BY <1>1, <1>4 DEF StatsKeepComing
<1> QED
  BY <1>5, <1>6, <1>7, <1>8, <1>9, <1>10 DEF IInv

LEMMA StartKeeps == IInv /\ Start => IInv'
<1> SUFFICES ASSUME IInv, Start PROVE IInv'
  OBVIOUS
<1>1. /\ main = "resolved" /\ sub = "none" /\ heard = << >> /\ rows = << >>
      /\ buffer = << >> /\ cfg \in Configs
  BY DEF IInv, Phases, Start
<1>2. PICK webUp \in {cfg.web, FALSE} : cfg' = RunTime(cfg, webUp)
  BY DEF Start
<1>3. /\ main' \in {"aborted", "serving", "flushing"}
      /\ sub' = IF main' = "serving" THEN "running" ELSE "none"
  BY DEF Start
<1>4. device' \in [format : {"native", "android"}, first : Nat, pos : Nat]
  BY ServerAssumption DEF Start
<1>5. UNCHANGED <<input, signalled, pkt, counter, stats, heard, buffer, dropped, rows,
                  stalled, clock, steps>> /\ last_stats' = clock
  BY DEF Start, statVars, storeVars
<1>6. /\ cfg.capacity \in Nat /\ cfg.web \in BOOLEAN /\ cfg.interval \in 0 .. IntMod - 1
  <2>1. {"capacity", "web", "interval"} \subseteq Settings
    BY SettingsAre
  <2>2. /\ Fits("capacity", cfg["capacity"]) /\ Fits("web", cfg["web"])
        /\ Fits("interval", cfg["interval"])
    BY <1>1, <2>1 DEF Configs
  <2>3. cfg["capacity"] \in Nat /\ cfg["interval"] \in 0 .. IntMod - 1 /\ IsFlag(cfg["web"])
    BY <2>2 DEF Fits, Sizes, Switches
  <2>4. cfg["web"] \in BOOLEAN
    BY <2>3 DEF IsFlag
  <2> QED
    BY <2>3, <2>4
<1>7. /\ cfg'.capacity \in Nat /\ cfg'.web \in BOOLEAN /\ cfg'.interval \in 0 .. IntMod - 1
  <2>1. webUp \in BOOLEAN
    BY <1>6
  <2> QED
    BY <1>2, <1>6, <2>1, ServerAssumption DEF RunTime
<1>8. Kinds'
  <2>1. clock \in 0 .. MaxClock
    BY DEF IInv, Kinds
  <2>2. main' \in Mains /\ sub' \in Subs
    BY <1>3 DEF Mains, Outcomes, Subs
  <2> QED
    BY <1>4, <1>5, <2>1, <2>2 DEF IInv, Kinds
<1>9. Phases'
  <2>1. Len(buffer') = 0
    BY <1>1, <1>5
  <2>2. Len(buffer') <= cfg'.capacity
    BY <1>7, <2>1
  <2> QED
    BY <1>1, <1>3, <1>5, <1>7, <2>2 DEF Phases, Outcomes
<1>10. Growing'
  <2>1. Positions(<< >>) = {}
    BY DEF Positions
  <2> QED
    BY <1>1, <1>3, <1>5, <2>1 DEF Growing, InCallback
<1>11. Counting' /\ LossIsExact'
  BY <1>5, HistoryFrame
<1>12. EveryPacketAccountedFor'
  BY <1>1, <1>3, <1>5, StoreFrame
<1>13. StatsKeepComing'
  BY <1>3 DEF StatsKeepComing
<1> QED
  BY <1>8, <1>9, <1>10, <1>11, <1>12, <1>13 DEF IInv

(* The steps of main() that only change where it is.                       *)
LEMMA MainKeeps == IInv /\ (Signal \/ StopTransport \/ Join) => IInv'
<1> SUFFICES ASSUME IInv, Signal \/ StopTransport \/ Join PROVE IInv'
  OBVIOUS
<1>1. UNCHANGED <<input, cfg, sub, pkt, counter, stats, heard, last_stats, buffer, dropped,
                  rows, stalled, clock, steps, device>>
  BY DEF Signal, StopTransport, Join, startVars, statVars, storeVars, worldVars
<1>2. /\ main \in {"serving", "joining"} /\ main' \in {"serving", "joining", "flushing"}
      /\ main' = "flushing" => sub = "exit"
  BY DEF Signal, StopTransport, Join
<1>3. signalled' \in BOOLEAN
  BY DEF Signal, StopTransport, Join, IInv, Kinds
<1>4. Kinds'
  BY <1>1, <1>2, <1>3 DEF IInv, Kinds, Mains
<1>5. Phases'
  BY <1>1, <1>2 DEF IInv, Phases, Outcomes
<1>6. Growing'
  <2>1. device.pos \in Nat
    BY DEF IInv, Kinds
  <2> QED
    BY <1>1, <2>1, GrowingFrame
<1>7. Counting' /\ LossIsExact'
  BY <1>1, HistoryFrame
<1>8. EveryPacketAccountedFor'
  BY <1>1, <1>2, StoreFrame
<1>9. StatsKeepComing'
  BY <1>1, StatsFrame
<1> QED
  BY <1>4, <1>5, <1>6, <1>7, <1>8, <1>9 DEF IInv

(* The steps that write what is in the buffer.                             *)
LEMMA WriteKeeps == IInv /\ (StopStorage \/ Flush) => IInv'
<1> SUFFICES ASSUME IInv, StopStorage \/ Flush PROVE IInv'
  OBVIOUS
<1>1. UNCHANGED <<input, cfg, signalled, sub, pkt, counter, stats, heard, last_stats, dropped,
                  stalled, clock, steps, device>>
  BY DEF StopStorage, Flush, startVars, statVars, worldVars
<1>2. rows' = rows \o buffer /\ buffer' = << >>
  BY DEF StopStorage, Flush
<1>3. rows \in Seq(Nat) /\ buffer \in Seq(Nat) /\ << >> \in Seq(Nat) /\ Len(<< >>) = 0
  BY DEF IInv, Kinds
<1>4. rows \o buffer \in Seq(Nat)
  BY <1>3, ConcatProperties
<1>5. rows' \o buffer' = rows \o buffer
  BY <1>2, <1>4, ConcatEmptySeq
<1>6. \/ main = "flushing" /\ main' = "done"
      \/ main \in {"serving", "joining"} /\ main' = main
  BY DEF StopStorage, Flush
<1>7. Kinds'
  BY <1>1, <1>2, <1>3, <1>4, <1>6 DEF IInv, Kinds, Mains, Outcomes
<1>8. Phases'
  <2>1. sub' # "none" => Len(buffer') <= cfg'.capacity
    BY <1>1, <1>2, <1>3 DEF IInv, Phases
  <2> QED
    BY <1>1, <1>2, <1>6, <2>1 DEF IInv, Phases, Outcomes
<1>9. Growing'
  <2>1. device.pos \in Nat
    BY DEF IInv, Kinds
  <2> QED
    BY <1>1, <1>5, <2>1, GrowingFrame
<1>10. Counting' /\ LossIsExact'
  BY <1>1, HistoryFrame
<1>11. EveryPacketAccountedFor'
  <2>1. main' = "done" => sub \in {"none", "exit"}
    BY <1>6 DEF IInv, Phases, Outcomes
  <2> QED
    BY <1>1, <1>2, <1>5, <2>1, StoreFrame
<1>12. StatsKeepComing'
  BY <1>1, StatsFrame
<1> QED
  BY <1>7, <1>8, <1>9, <1>10, <1>11, <1>12 DEF IInv

(* The steps of the world outside.                                         *)
LEMMA WorldKeeps == IInv /\ (Lose \/ Tick \/ SetBack \/ BrowserStalls) => IInv'
<1> SUFFICES ASSUME IInv, Lose \/ Tick \/ SetBack \/ BrowserStalls PROVE IInv'
  OBVIOUS
<1>1. UNCHANGED <<main, input, cfg, signalled, sub, pkt, counter, stats, heard, last_stats,
                  buffer, dropped, rows>>
  BY DEF Lose, Tick, SetBack, BrowserStalls, startVars, statVars, storeVars
<1>2. /\ device' \in [format : {"native", "android"}, first : Nat, pos : Nat]
      /\ device.pos \in Nat /\ device'.pos \in Nat /\ device.pos <= device'.pos
  <2>1. device \in [format : {"native", "android"}, first : Nat, pos : Nat]
    BY DEF IInv, Kinds
  <2>2. device' = device \/ device' = Advanced
    BY DEF Lose, Tick, SetBack, BrowserStalls
  <2> QED
    BY <2>1, <2>2 DEF Advanced
<1>3. clock' \in 1 .. MaxClock
  <2>1. clock \in 1 .. MaxClock /\ MaxClock \in Nat
    BY ServerAssumption DEF IInv, Kinds
  <2>2. \/ clock' = clock
        \/ clock < MaxClock /\ clock' = clock + 1
        \/ clock' \in 1 .. clock - 1
    BY DEF Lose, Tick, SetBack, BrowserStalls
  <2> QED
    BY <2>1, <2>2
<1>4. stalled' \in BOOLEAN
  BY DEF Lose, Tick, SetBack, BrowserStalls, IInv, Kinds
<1>5. Kinds'
  BY <1>1, <1>2, <1>3, <1>4 DEF IInv, Kinds
<1>6. Phases'
  BY <1>1 DEF IInv, Phases
<1>7. Growing'
  BY <1>1, <1>2, GrowingFrame
<1>8. Counting' /\ LossIsExact'
  BY <1>1, HistoryFrame
<1>9. EveryPacketAccountedFor'
  BY <1>1 DEF IInv, EveryPacketAccountedFor, InCallback
<1>10. StatsKeepComing'
  BY <1>1, StatsFrame
<1> QED
  BY <1>5, <1>6, <1>7, <1>8, <1>9, <1>10 DEF IInv
-----------------------------------------------------------------------------
(* The transport thread.                                                   *)

(* Statistics that are not due were sent less than an interval ago; a time *)
(* that was set back makes them due.                                       *)
LEMMA NotDueIsRecent ==
  ASSUME NEW recv \in 0 .. MaxClock, NEW last \in 0 .. MaxClock,
         NEW interval \in 0 .. IntMod - 1, ~StatsDue(recv, last, interval)
  PROVE  recv - last \in 0 .. interval - 1
<1>1. MaxClock \in Nat /\ IntMod \in Nat /\ TimeMod \in Nat \ {0}
      /\ MaxClock + IntMod <= TimeMod /\ IntMod > 0
  BY ServerAssumption, ClockAssumption, WidthIs, WidthsAre
<1>2. CASE recv >= last
  <2> DEFINE d == recv - last
  <2>1. d \in 0 .. TimeMod - 1 /\ d = 0 * TimeMod + d
    BY <1>1, <1>2
  <2>2. (0 * TimeMod + d) % TimeMod = d
    <3> HIDE DEF d
    <3> QED
      BY <1>1, <2>1, Remainder
  <2>3. Elapsed(recv, last) = d
    BY <2>1, <2>2 DEF Elapsed
  <2> QED
    BY <1>1, <1>2, <2>3 DEF StatsDue
<1>3. CASE recv < last
  <2> DEFINE d == TimeMod + recv - last
  <2>1. d \in 0 .. TimeMod - 1 /\ recv - last = (-1) * TimeMod + d /\ -1 \in Int
    BY <1>1, <1>3
  <2>2. ((-1) * TimeMod + d) % TimeMod = d
    <3> HIDE DEF d
    <3> QED
      BY <1>1, <2>1, Remainder
  <2>3. Elapsed(recv, last) = d
    BY <2>1, <2>2 DEF Elapsed
  <2>4. d >= interval
    BY <1>1
  <2> QED
    BY <2>3, <2>4 DEF StatsDue
<1> QED
  BY <1>1, <1>2, <1>3

LEMMA BroadcastKeeps == IInv /\ Broadcast => IInv'
<1> SUFFICES ASSUME IInv, Broadcast PROVE IInv'
  OBVIOUS
<1>1. UNCHANGED <<main, input, cfg, signalled, pkt, counter, stats, heard, buffer, dropped,
                  rows, stalled, clock, steps, device>>
  BY DEF Broadcast, startVars, statVars, storeVars, worldVars
<1>2. /\ sub = "broadcast" /\ sub' = "push"
      /\ last_stats' = IF StatsDue(pkt.recv, last_stats, cfg.interval)
                       THEN pkt.recv ELSE last_stats
  BY DEF Broadcast
<1>3. pkt.recv \in 0 .. MaxClock /\ last_stats \in 0 .. MaxClock
      /\ cfg.interval \in 0 .. IntMod - 1
  BY <1>2 DEF IInv, Kinds, Phases
<1>4. Kinds'
  <2>1. last_stats' \in 0 .. MaxClock /\ sub' \in Subs
    BY <1>2, <1>3 DEF Subs
  <2> QED
    BY <1>1, <2>1 DEF IInv, Kinds
<1>5. Phases'
  BY <1>1, <1>2 DEF IInv, Phases
<1>6. Growing'
  <2>1. device.pos \in Nat
    BY DEF IInv, Kinds
  <2> QED
    BY <1>1, <1>2, <2>1, GrowingFrame
<1>7. Counting' /\ LossIsExact'
  BY <1>1, HistoryFrame
<1>8. EveryPacketAccountedFor'
  BY <1>1, <1>2 DEF IInv, EveryPacketAccountedFor, InCallback
<1>9. StatsKeepComing'
  <2>1. CASE StatsDue(pkt.recv, last_stats, cfg.interval)
    <3>1. pkt.recv - last_stats' = 0
      BY <1>2, <1>3, <2>1, ServerAssumption
    <3>2. cfg.interval > 0 => 0 \in 0 .. cfg.interval - 1
      BY <1>3, WidthsAre
    <3> QED
      BY <1>1, <3>1, <3>2 DEF StatsKeepComing
  <2>2. CASE ~StatsDue(pkt.recv, last_stats, cfg.interval)
    <3>1. pkt.recv - last_stats \in 0 .. cfg.interval - 1
      BY <1>3, <2>2, NotDueIsRecent
    <3> QED
      BY <1>1, <1>2, <2>2, <3>1 DEF StatsKeepComing
  <2> QED
    BY <2>1, <2>2
<1> QED
  BY <1>4, <1>5, <1>6, <1>7, <1>8, <1>9 DEF IInv

LEMMA TransportEndsKeeps == IInv /\ TransportEnds => IInv'
<1> SUFFICES ASSUME IInv, TransportEnds PROVE IInv'
  OBVIOUS
<1>1. UNCHANGED <<main, input, cfg, signalled, pkt, counter, stats, heard, last_stats, buffer,
                  dropped, rows, stalled, clock, steps, device>>
  BY DEF TransportEnds, startVars, statVars, storeVars, worldVars
<1>2. sub = "running" /\ sub' = "exit" /\ main = "joining"
  BY DEF TransportEnds
<1>3. Kinds'
  BY <1>1, <1>2 DEF IInv, Kinds, Subs
<1>4. Phases'
  BY <1>1, <1>2 DEF IInv, Phases, Outcomes
<1>5. Growing'
  <2>1. device.pos \in Nat
    BY DEF IInv, Kinds
  <2> QED
    BY <1>1, <1>2, <2>1, GrowingFrame
<1>6. Counting' /\ LossIsExact'
  BY <1>1, HistoryFrame
<1>7. EveryPacketAccountedFor'
  BY <1>1, <1>2 DEF IInv, EveryPacketAccountedFor, InCallback
<1>8. StatsKeepComing'
  BY <1>1, <1>2, StatsFrame
<1> QED
  BY <1>3, <1>4, <1>5, <1>6, <1>7, <1>8 DEF IInv

LEMMA ToSetIs ==
  ASSUME NEW s \in Seq(Nat)
  PROVE  ToSet(s) = {s[i] : i \in 1 .. Len(s)}
  BY LenProperties DEF ToSet

LEMMA StoreKeeps == IInv /\ Store => IInv'
<1> SUFFICES ASSUME IInv, Store PROVE IInv'
  OBVIOUS
<1> DEFINE stored == rows \o buffer
           n == Len(stored)
<1>1. UNCHANGED <<main, input, cfg, signalled, pkt, counter, stats, heard, last_stats, rows,
                  stalled, clock, steps, device>>
  BY DEF Store, startVars, statVars, worldVars
<1>2. /\ sub = "push" /\ sub' = "running"
      /\ IF Len(buffer) < cfg.capacity
         THEN buffer' = Append(buffer, pkt.pos) /\ dropped' = dropped
         ELSE dropped' = dropped + 1 /\ buffer' = buffer
  BY DEF Store
<1>3. /\ rows \in Seq(Nat) /\ buffer \in Seq(Nat) /\ dropped \in Nat /\ pkt.pos \in Nat
      /\ heard \in Seq(Heard) /\ Len(buffer) \in Nat /\ cfg.capacity \in Nat
      /\ Len(buffer) <= cfg.capacity
  BY <1>2, LenProperties DEF IInv, Kinds, Phases
<1>4. /\ Append(buffer, pkt.pos) \in Seq(Nat)
      /\ Len(Append(buffer, pkt.pos)) = Len(buffer) + 1
  BY <1>3, AppendProperties
<1>5. Kinds'
  <2>1. buffer' = Append(buffer, pkt.pos) \/ buffer' = buffer
    BY <1>2
  <2>2. buffer' \in Seq(Nat)
    BY <1>3, <1>4, <2>1
  <2>3. dropped' \in Nat
    BY <1>2, <1>3
  <2>4. sub' \in Subs
    BY <1>2 DEF Subs
  <2> QED
    BY <1>1, <2>2, <2>3, <2>4 DEF IInv, Kinds
<1>6. Phases'
  <2>1. Len(buffer') <= cfg'.capacity
    BY <1>1, <1>2, <1>3, <1>4
  <2>2. main \notin Outcomes \union {"flushing", "begin", "resolved"}
    BY <1>2 DEF IInv, Phases
  <2> QED
    BY <1>1, <1>2, <2>1, <2>2 DEF IInv, Phases, Outcomes
<1>7. Growing'
  BY <1>1, <1>2 DEF IInv, Growing, InCallback, Positions
<1>8. Counting' /\ LossIsExact'
  BY <1>1, HistoryFrame
<1>9. stored \in Seq(Nat) /\ n \in Nat
  BY <1>3, ConcatProperties, LenProperties
<1>10. /\ \A i \in 1 .. n - 1 : stored[i] < stored[i + 1]
       /\ ToSet(stored) \subseteq Positions(heard)
       /\ stats.received = n + dropped + 1
       /\ pkt.pos \in Positions(heard) /\ \A i \in 1 .. n : stored[i] < pkt.pos
  BY <1>2 DEF IInv, EveryPacketAccountedFor, Growing, InCallback, Positions
<1>11. main # "done"
  BY <1>2 DEF IInv, Phases, Outcomes
<1>12. EveryPacketAccountedFor'
  <2>1. CASE buffer' = Append(buffer, pkt.pos) /\ dropped' = dropped
    <3> DEFINE l == Append(stored, pkt.pos)
    <3>1. rows' \o buffer' = l
      BY <1>1, <1>3, <2>1, ConcatAppend
    <3> HIDE DEF stored
    <3>2. /\ l \in Seq(Nat) /\ Len(l) = n + 1 /\ l[n + 1] = pkt.pos
          /\ \A i \in 1 .. n : l[i] = stored[i]
      BY <1>3, <1>9, AppendProperties
    <3> HIDE DEF l
    <3>3. ASSUME NEW i \in 1 .. Len(l) - 1 PROVE l[i] < l[i + 1]
      <4>1. i \in 1 .. n
        BY <1>9, <3>2
      <4>2. CASE i = n
        BY <1>10, <3>2, <4>1, <4>2
      <4>3. CASE i # n
        <5>1. i \in 1 .. n - 1 /\ i + 1 \in 1 .. n
          BY <1>9, <4>1, <4>3
        <5> QED
          BY <1>10, <3>2, <4>1, <5>1
      <4> QED
        BY <4>2, <4>3
    <3>4. ToSet(l) \subseteq Positions(heard)
      <4>1. ASSUME NEW i \in 1 .. Len(l) PROVE l[i] \in Positions(heard)
        <5>1. CASE i = n + 1
          BY <1>10, <3>2, <5>1
        <5>2. CASE i # n + 1
          <6>1. i \in 1 .. n
            BY <1>9, <3>2, <5>2
          <6>2. stored[i] \in ToSet(stored)
            BY <1>9, <6>1, ToSetIs
          <6> QED
            BY <1>10, <3>2, <6>1, <6>2
        <5> QED
          BY <5>1, <5>2
      <4> QED
        BY <3>2, <4>1, ToSetIs
    <3>5. stats.received = Len(l) + dropped + 0
      BY <1>3, <1>9, <1>10, <3>2
    <3> QED
      BY <1>1, <1>2, <1>11, <2>1, <3>1, <3>3, <3>4, <3>5
         DEF EveryPacketAccountedFor, InCallback, Positions
  <2>2. CASE buffer' = buffer /\ dropped' = dropped + 1
    <3>1. rows' \o buffer' = stored
      BY <1>1, <2>2
    <3> HIDE DEF stored
    <3>2. stats.received = n + dropped' + 0
      BY <1>3, <1>9, <1>10, <2>2
    <3> QED
      BY <1>1, <1>2, <1>10, <1>11, <3>1, <3>2
         DEF EveryPacketAccountedFor, InCallback, Positions
  <2> QED
    BY <1>2, <2>1, <2>2
<1>13. StatsKeepComing'
  BY <1>1, <1>2, StatsFrame
<1> QED
  BY <1>5, <1>6, <1>7, <1>8, <1>12, <1>13 DEF IInv

LEMMA ReceiveKeeps == IInv /\ Receive => IInv'
<1> SUFFICES ASSUME IInv, Receive PROVE IInv'
  OBVIOUS
<1> DEFINE stored == rows \o buffer
           n == Len(heard)
<1>1. UNCHANGED <<main, input, cfg, signalled, last_stats, buffer, dropped, rows, stalled,
                  clock, steps>>
  BY DEF Receive, startVars, storeVars
<1>2. sub = "running" /\ device' = [device EXCEPT !.pos = @ + 1]
  BY DEF Receive, Advanced
<1>3. PICK payload \in IF device.format = "native"
                       THEN Payloads(device.pos % U32) ELSE AndroidPayloads :
        LET p == Parse(payload, cfg.vcfg, clock, counter)
        IN  /\ counter' = p.counter
            /\ IF p.result = "ok"
               THEN /\ stats' = Record(stats, clock, p.packet.seq, cfg.interval)
                    /\ heard' = Append(heard, [pos |-> device.pos,
                                               seq |-> p.packet.seq])
                    /\ pkt' = [pos |-> device.pos, recv |-> clock]
                    /\ sub' = IF cfg.web THEN "broadcast" ELSE "push"
               ELSE UNCHANGED <<stats, heard, pkt, sub>>
  BY DEF Receive
<1> DEFINE p == Parse(payload, cfg.vcfg, clock, counter)
           seq == p.packet.seq
           e == [pos |-> device.pos, seq |-> seq]
<1>4. /\ counter \in 0 .. U32 - 1 /\ heard \in Seq(Heard) /\ clock \in 1 .. MaxClock
      /\ device \in [format : {"native", "android"}, first : Nat, pos : Nat]
      /\ rows \in Seq(Nat) /\ buffer \in Seq(Nat) /\ n \in Nat
  BY LenProperties DEF IInv, Kinds
<1>5. p.counter \in 0 .. U32 - 1 /\ seq \in 0 .. U32 - 1
  <2>1. device.pos % U32 \in 0 .. U32 - 1
    BY <1>4, WidthIs
  <2>2. \/ payload.format = "native" /\ payload.seq \in {device.pos % U32, Missing}
        \/ payload.format = "android"
    BY <1>3, PayloadsAre
  <2> QED
    BY <1>4, <2>1, <2>2, PacketFits
<1>6. counter' = p.counter
  BY <1>3
<1>7. \/ /\ stats' = Record(stats, clock, seq, cfg.interval) /\ heard' = Append(heard, e)
         /\ pkt' = [pos |-> device.pos, recv |-> clock]
         /\ sub' = IF cfg.web THEN "broadcast" ELSE "push"
      \/ UNCHANGED <<stats, heard, pkt, sub>>
  BY <1>3
<1> HIDE DEF p, seq
<1>8. /\ device' \in [format : {"native", "android"}, first : Nat, pos : Nat]
      /\ device'.pos = device.pos + 1 /\ device.pos \in Nat /\ device'.pos \in Nat
  <2>1. device.pos \in Nat /\ device.pos + 1 \in Nat
    BY <1>4
  <2>2. device' \in [format : {"native", "android"}, first : Nat, pos : Nat]
    BY <1>2, <1>4, <2>1
  <2>3. device'.pos = device.pos + 1
    BY <1>2, <1>4
  <2> QED
    BY <2>1, <2>2, <2>3
<1>9. e \in Heard
  BY <1>5, <1>8 DEF Heard
<1>10. CASE UNCHANGED <<stats, heard, pkt, sub>>
  <2>1. Kinds'
    BY <1>1, <1>5, <1>6, <1>8, <1>10 DEF IInv, Kinds
  <2>2. Phases'
    BY <1>1, <1>10 DEF IInv, Phases
  <2>3. Growing'
    BY <1>1, <1>8, <1>10, GrowingFrame
  <2>4. Counting' /\ LossIsExact'
    BY <1>10, HistoryFrame
  <2>5. EveryPacketAccountedFor'
    BY <1>1, <1>10 DEF IInv, EveryPacketAccountedFor, InCallback
  <2>6. StatsKeepComing'
    BY <1>1, <1>10, StatsFrame
  <2> QED
    BY <2>1, <2>2, <2>3, <2>4, <2>5, <2>6 DEF IInv
<1>11. CASE /\ stats' = Record(stats, clock, seq, cfg.interval) /\ heard' = Append(heard, e)
            /\ pkt' = [pos |-> device.pos, recv |-> clock]
            /\ sub' = IF cfg.web THEN "broadcast" ELSE "push"
  <2>1. /\ Append(heard, e) \in Seq(Heard) /\ Len(Append(heard, e)) = n + 1
        /\ Append(heard, e)[n + 1] = e /\ \A i \in 1 .. n : Append(heard, e)[i] = heard[i]
        /\ Append(heard, e) # << >>
    BY <1>4, <1>9, AppendProperties
  <2> DEFINE h == Append(heard, e)
  <2>2. h \in Seq(Heard) /\ Len(h) = n + 1 /\ h[n + 1] = e /\ h # << >>
        /\ \A i \in 1 .. n : h[i] = heard[i]
    BY <2>1
  <2>3. heard' = h
    BY <1>11
  <2>4. sub' \in {"broadcast", "push"}
    BY <1>11
  <2>5. /\ Positions(h) = Positions(heard) \cup {device.pos}
        /\ DOMAIN h = 1 .. n + 1 /\ DOMAIN heard = 1 .. n
    <3> HIDE DEF h
    <3>1. DOMAIN h = 1 .. n + 1 /\ DOMAIN heard = 1 .. n
      BY <1>4, <2>2, LenProperties
    <3>2. 1 .. n + 1 = (1 .. n) \cup {n + 1}
      BY <1>4
    <3> QED
      BY <2>2, <3>1, <3>2 DEF Positions
  <2> HIDE DEF h
  <2>6. Kinds'
    <3>1. pkt' \in [pos : Nat, recv : 0 .. MaxClock]
      BY <1>4, <1>8, <1>11
    <3> QED
      BY <1>1, <1>5, <1>6, <1>8, <2>2, <2>3, <2>4, <3>1 DEF IInv, Kinds, Subs
  <2>7. Phases'
    <3>1. main \notin Outcomes \union {"flushing", "begin", "resolved"}
      BY <1>2 DEF IInv, Phases
    <3> QED
      BY <1>1, <1>2, <3>1 DEF IInv, Phases, Outcomes
  <2>8. ToSet(stored) \subseteq Positions(heard) /\ stored \in Seq(Nat)
    BY <1>4, ConcatProperties DEF IInv, EveryPacketAccountedFor, Positions
  <2>9. \A q \in Positions(heard) : q \in Nat /\ q < device.pos
    BY <1>4, PositionsAre DEF IInv, Growing
  <2>10. Growing'
    <3>1. \A q \in Positions(h) : q < device'.pos
      BY <1>8, <2>5, <2>9
    <3>2. ASSUME NEW i \in 1 .. Len(stored) PROVE stored[i] < device.pos
      <4> HIDE DEF stored
      <4>1. stored[i] \in ToSet(stored)
        BY <2>8, ToSetIs
      <4> QED
        BY <2>8, <2>9, <4>1
    <3>3. (rows \o buffer)' = stored /\ pkt'.pos = device.pos
      BY <1>1, <1>11
    <3> HIDE DEF stored
    <3>4. Positions(heard)' = Positions(h)
      BY <2>3 DEF Positions
    <3> QED
      BY <2>5, <3>1, <3>2, <3>3, <3>4 DEF Growing, InCallback
  <2>11. /\ stats.received = n /\ stats.lost \in Nat
         /\ stats.last_seq = IF heard = << >> THEN NoSeq ELSE heard[n].seq
    BY DEF IInv, Counting
  <2>12. stats.last_seq \in 0 .. U32 - 1
    <3>1. CASE heard = << >>
      BY <2>11, <3>1, WidthIs
    <3>2. CASE heard # << >>
      <4>1. n \in 1 .. n
        BY <1>4, <3>2, EmptySeq
      <4> QED
        BY <1>4, <2>11, <3>2, <4>1, PositionsAre DEF Heard
    <3> QED
      BY <3>1, <3>2
  <2>13. /\ stats'.received = n + 1 /\ stats'.last_seq = seq
         /\ stats'.lost = stats.lost + Lost(stats.last_seq, seq)
    BY <1>11, <2>11 DEF Record
  <2>14. Lost(stats.last_seq, seq) \in Nat
    BY <1>5, <2>12, LostIsNumber
  <2>15. Counting'
    BY <2>2, <2>3, <2>11, <2>13, <2>14 DEF Counting
  <2>16. EveryPacketAccountedFor'
    <3>1. stats.received = Len(stored) + dropped + 0 /\ main # "done"
          /\ \A i \in 1 .. Len(stored) - 1 : stored[i] < stored[i + 1]
      BY <1>2 DEF IInv, EveryPacketAccountedFor, InCallback, Phases, Outcomes
    <3>2. (rows \o buffer)' = stored
      BY <1>1
    <3>3. Len(stored) \in Nat /\ dropped \in Nat
      BY <2>8, LenProperties DEF IInv, Kinds
    <3> HIDE DEF stored
    <3>4. stats'.received = Len(stored) + dropped + 1
      BY <1>4, <2>11, <2>13, <3>1, <3>3
    <3>5. ToSet(stored) \subseteq {heard'[i].pos : i \in DOMAIN heard'}
      BY <2>3, <2>5, <2>8 DEF Positions
    <3> QED
      BY <1>1, <2>4, <3>1, <3>2, <3>4, <3>5 DEF EveryPacketAccountedFor, InCallback
  <2>17. LossIsExact'
    <3> SUFFICES ASSUME \A i \in DOMAIN h : h[i].seq = h[i].pos % U32
                 PROVE  stats'.lost = LossOf(h)
      BY <2>3 DEF LossIsExact
    <3>1. LossOf(h) = IF heard = << >> THEN 0 ELSE LossOf(heard) + SkippedBefore(h, n + 1)
      BY <1>4, <1>9, LossOfAppend DEF h
    <3>2. \A i \in DOMAIN heard : heard[i].seq = heard[i].pos % U32
      BY <1>4, <2>2, <2>5
    <3>3. stats.lost = LossOf(heard)
      BY <3>2 DEF IInv, LossIsExact
    <3>4. CASE heard = << >>
      <4>1. Lost(stats.last_seq, seq) = 0
        BY <2>11, <3>4 DEF Lost
      <4>2. LossOf(heard) = 0
        <5>1. PICK F : LossSteps(F, heard)
          BY <1>4, LossByStep
        <5> QED
          BY <3>4, <5>1 DEF LossSteps
      <4> QED
        BY <2>13, <3>1, <3>3, <3>4, <4>1, <4>2
    <3>5. CASE heard # << >>
      <4>1. n \in 1 .. n /\ n \in DOMAIN h /\ n + 1 \in DOMAIN h /\ n + 1 - 1 = n
        BY <1>4, <2>5, <3>5, EmptySeq
      <4>2. h[n].pos \in Nat /\ h[n + 1].pos \in Nat
        BY <2>2, <2>5, <4>1, PositionsAre
      <4>3. stats.last_seq = h[n].pos % U32 /\ seq = h[n + 1].pos % U32
        BY <2>2, <2>11, <3>5, <4>1
      <4>4. Lost(h[n].pos % U32, h[n + 1].pos % U32) = SkippedBefore(h, n + 1)
        BY <4>1, <4>2, LostIsSkipped
      <4> QED
        BY <2>13, <3>1, <3>3, <3>5, <4>3, <4>4
    <3> QED
      BY <3>4, <3>5
  <2>18. StatsKeepComing'
    BY <1>1, <1>11 DEF StatsKeepComing
  <2> QED
    BY <2>6, <2>7, <2>10, <2>15, <2>16, <2>17, <2>18 DEF IInv
<1> QED
  BY <1>7, <1>10, <1>11
-----------------------------------------------------------------------------
LEMMA StutterKeeps == IInv /\ UNCHANGED vars => IInv'
<1> SUFFICES ASSUME IInv, UNCHANGED vars PROVE IInv'
  OBVIOUS
<1>1. UNCHANGED <<main, input, cfg, signalled, sub, pkt, counter, stats, heard, last_stats,
                  buffer, dropped, rows, stalled, clock, steps, device>>
  BY DEF vars, startVars, statVars, storeVars, worldVars
<1>2. Kinds' /\ Phases'
  BY <1>1 DEF IInv, Kinds, Phases
<1>3. Growing' /\ EveryPacketAccountedFor'
  BY <1>1 DEF IInv, Growing, EveryPacketAccountedFor, InCallback, Positions
<1>4. Counting' /\ LossIsExact'
  BY <1>1, HistoryFrame
<1>5. StatsKeepComing'
  BY <1>1, StatsFrame
<1> QED
  BY <1>2, <1>3, <1>4, <1>5 DEF IInv

(* The inductive invariant holds of main() and its threads in every state. *)
THEOREM ServerInvariant == Spec => []IInv
<1>1. Init => IInv
  BY InitHolds
<1>2. IInv /\ [Next]_vars => IInv'
  BY ConfigureKeeps, StartKeeps, MainKeeps, WriteKeeps, WorldKeeps, BroadcastKeeps,
     TransportEndsKeeps, StoreKeeps, ReceiveKeeps, StutterKeeps
     DEF Next, Main, Serve, Transport, World
<1> QED
  BY <1>1, <1>2, PTL DEF Spec

(* The types hold, and the statistics count the packets recorded.          *)
THEOREM ServerTypeCorrect == Spec => []TypeOK
<1>1. IInv => TypeOK
  <2> SUFFICES ASSUME IInv PROVE TypeOK
    OBVIOUS
  <2>1. {signalled, stalled} \subseteq BOOLEAN
    BY DEF IInv, Kinds
  <2> QED
    BY <2>1 DEF IInv, Kinds, Phases, Counting, TypeOK, Mains, Subs
<1> QED
  BY <1>1, ServerInvariant, PTL

(* Whatever file and command line the server was started with, main() goes *)
(* on only with a configuration that can be used.                          *)
THEOREM ServerResolvesUsable == Spec => []ResolvedIsUsable
<1>1. IInv => ResolvedIsUsable
  <2> SUFFICES ASSUME IInv, main = "resolved" PROVE ResolvedIsUsable
    BY DEF ResolvedIsUsable
  <2>1. cfg \in Configs /\ Sized(cfg)
    BY DEF IInv, Phases
  <2>2. {"port", "web_port", "qos", "will_qos", "capacity", "flush", "host", "topic",
         "timesource"} \subseteq Settings
    BY SettingsAre
  <2>3. \A s \in Settings : Fits(s, cfg[s])
    BY <2>1 DEF Configs
  <2>4. cfg["port"] \in PortNumbers /\ cfg["web_port"] \in PortNumbers
    BY <2>2, <2>3 DEF Fits, Ports
  <2>5. cfg["qos"] \in 0 .. 2 /\ cfg["will_qos"] \in 0 .. 2
    BY <2>2, <2>3 DEF Fits, Qualities
  <2>6. cfg["capacity"] \in Nat \ {0} /\ cfg["flush"] \in Nat \ {0}
    BY <2>2, <2>3 DEF Fits, Sizes
  <2>7. cfg["host"] # NoText /\ cfg["topic"] # NoText /\ cfg["timesource"] # NoText
    BY <2>2, <2>3 DEF Fits, Texts
  <2>8. {cfg.port, cfg.web_port} \subseteq PortNumbers
    BY <2>4
  <2>9. {cfg.qos, cfg.will_qos} \subseteq 0 .. 2
    BY <2>5
  <2>10. cfg.capacity > 0 /\ cfg.flush > 0
    BY <2>6
  <2>11. NoText \notin {cfg.host, cfg.topic, cfg.timesource}
    BY <2>7
  <2>12. cfg.auto => 5 * cfg.capacity >= 2 * cfg.flush - 4
    BY <2>1 DEF Sized
  <2> QED
    BY <2>8, <2>9, <2>10, <2>11, <2>12 DEF ResolvedIsUsable
<1> QED
  BY <1>1, ServerInvariant, PTL

(* main() goes on with what the strongest source says of each setting: the *)
(* last usable word of the command line, else the first entry of the file, *)
(* else the default.                                                       *)
THEOREM ServerHeedsStrongestSource == Spec => StrongestSourceWins
<1>1. ASSUME IInv, [Next]_vars, main = "begin", main' = "resolved"
      PROVE  Heeded(input, cfg')
  <2>1. input \in Inputs
    BY <1>1 DEF IInv, Phases
  <2>2. Configure
    <3>1. main' # main
      BY <1>1
    <3>2. Next
      BY <1>1, <3>1 DEF vars
    <3> QED
      BY <1>1, <3>2 DEF Next, Main, Serve, Transport, World, Start, StopTransport, Join,
         StopStorage, Broadcast, Store, TransportEnds, Flush, Lose, Receive, Signal,
         Tick, SetBack, BrowserStalls
  <2> DEFINE r == Resolve(input.built, input.argv, input.disk)
  <2>3. main' = r.outcome /\ cfg' = r.cfg
    BY <2>2 DEF Configure
  <2>4. /\ input.built \in BOOLEAN /\ input.argv \in Seq(Raws)
        /\ input.disk \in [DOMAIN input.disk -> Seq(Lines)]
    BY <2>1, InputsAssumption
  <2> QED
    BY <1>1, <2>3, <2>4, ResolveHeeds
<1>2. IInv /\ [Next]_vars => [(main = "begin" /\ main' = "resolved") => Heeded(input, cfg')]_vars
  BY <1>1
<1> QED
  BY <1>2, ServerInvariant, PTL DEF Spec, StrongestSourceWins

(* Every packet recorded is stored once and in order, or counted as        *)
(* dropped, or in the callback; none is left behind when main() ends.      *)
THEOREM ServerAccountsForPackets == Spec => []EveryPacketAccountedFor
<1>1. IInv => EveryPacketAccountedFor
  BY DEF IInv
<1> QED
  BY <1>1, ServerInvariant, PTL

(* The losses counted are the numbers skipped, modulo the width of a       *)
(* sequence number.                                                        *)
THEOREM ServerCountsLosses == Spec => []LossIsExact
<1>1. IInv => LossIsExact
  BY DEF IInv
<1> QED
  BY <1>1, ServerInvariant, PTL

(* No packet passes the browsers more than an interval after the last      *)
(* statistics, also when the clock was set back.                           *)
THEOREM ServerKeepsStatsComing == Spec => []StatsKeepComing
<1>1. IInv => StatsKeepComing
  BY DEF IInv
<1> QED
  BY <1>1, ServerInvariant, PTL
=============================================================================
