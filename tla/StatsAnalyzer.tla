----------------------------- MODULE StatsAnalyzer -----------------------------
(***************************************************************************)
(* StatsAnalyzer (stats_analyzer.cpp): losses counted from the gaps of     *)
(* sequence numbers, and the window over which the rate is measured.       *)
(* Every function takes the one mutex, so each is one step.  Latency and   *)
(* jitter, figures over reals that nothing decides by, are left out.       *)
(***************************************************************************)
EXTENDS Widths

CONSTANT GapThreshold  (* 10000: a wider gap is not taken for a loss *)

ASSUME GapThresholdAssumption == GapThreshold \in 1 .. U32 - 1

NoSeq == U32 - 1  (* UINT32_MAX: no packet yet, and the last number *)
Elapsed(now, since) == (now - since) % TimeMod

(* The members, as constructed and after reset(). *)
StatsInit ==
  [received |-> 0, lost |-> 0, last_seq |-> NoSeq, window_start |-> 0,
   window_count |-> 0]

(* How many numbers lie between last and seq; the second case is that of   *)
(* an expected number above seq: the numbers wrapped, or seq is old.       *)
Gap(last, seq) ==
  LET expected == (last + 1) % U32
  IN  IF seq >= expected THEN seq - expected ELSE NoSeq - expected + seq + 1

(* A mutant of Lost: numbers never wrap. *)
LostNoWrap(last, seq) ==
  IF last = NoSeq \/ seq <= last \/ seq - last - 1 >= GapThreshold
  THEN 0 ELSE seq - last - 1

Lost(last, seq) ==
  IF last # NoSeq /\ Gap(last, seq) < GapThreshold THEN Gap(last, seq) ELSE 0

(* The end of record(): the packets since window_start make a rate and a   *)
(* new window once the interval has passed.                                *)
WindowAfter(s, now, interval) ==
  LET start == IF s.window_start = 0 THEN now ELSE s.window_start
      count == IF s.window_start = 0 THEN 1 ELSE s.window_count + 1
  IN  IF Elapsed(now, start) >= interval THEN <<now, 0>> ELSE <<start, count>>

(* record() *)
Record(s, now, seq, interval) ==
  LET window == WindowAfter(s, now, interval)
  IN  [received |-> s.received + 1,
       lost |-> s.lost + Lost(s.last_seq, seq),
       last_seq |-> seq,
       window_start |-> window[1], window_count |-> window[2]]
=============================================================================
