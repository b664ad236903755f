------------------------ MODULE StorageManager_proofs ------------------------
(***************************************************************************)
(* StorageManager, for every capacity and every number of packets, errors  *)
(* and restarts: packets reach the file once and in order, none is left    *)
(* behind by stop(), the counters account for every push, and, when the    *)
(* disk reports its failures, no step ever removes a row and no counter    *)
(* claims a row that is not in the file.                                   *)
(***************************************************************************)
EXTENDS StorageManager, SequenceTheorems, FiniteSetTheorems, TLAPS

(***************************************************************************)
(* What a write makes of a file: h is g, the rows of the first n packets,  *)
(* and perhaps a piece of a row.                                           *)
(***************************************************************************)
Extended(h, g, packets, n) ==
  /\ h \in Seq(Piece)
  /\ Len(g) + n <= Len(h)
  /\ \A i \in 1 .. Len(g) : h[i] = g[i]
  /\ \A i \in Len(g) + 1 .. Len(g) + n : h[i] = Row(packets[i - Len(g)])
  /\ \A i \in Len(g) + n + 1 .. Len(h) : ~IsRow(h[i])

LEMMA PieceTypes ==
  /\ Header \in Piece /\ Cut \in Piece /\ Foreign \in Piece
  /\ ~IsRow(Header) /\ ~IsRow(Cut) /\ ~IsRow(Foreign)
  /\ \A p \in Nat : Row(p) \in Piece /\ IsRow(Row(p)) /\ Row(p).id = p
  BY DEF Piece, Header, Cut, Foreign, Row, IsRow

LEMMA RowsOfIsSeq ==
  ASSUME NEW packets \in Seq(Nat), NEW n \in 0 .. Len(packets)
  PROVE  /\ RowsOf(packets, n) \in Seq(Piece)
         /\ Len(RowsOf(packets, n)) = n
         /\ \A i \in 1 .. n : RowsOf(packets, n)[i] = Row(packets[i])
<1>1. n \in Nat /\ 1 .. n \subseteq 1 .. Len(packets)
  OBVIOUS
<1>2. \A i \in 1 .. n : Row(packets[i]) \in Piece
  BY <1>1, PieceTypes, ElementOfSeq
<1>3. RowsOf(packets, n) \in [1 .. n -> Piece]
  BY <1>2 DEF RowsOf
<1>4. RowsOf(packets, n) \in Seq(Piece)
  BY <1>1, <1>3, SeqDef
<1> QED
  BY <1>1, <1>3, <1>4, LenProperties DEF RowsOf

(* Appending rows, and then nothing or a cut row, extends a file. *)
LEMMA ConcatExtended ==
  ASSUME NEW f \in Seq(Piece), NEW packets \in Seq(Nat),
         NEW n \in 0 .. Len(packets)
  PROVE  /\ Extended(f \o RowsOf(packets, n), f, packets, n)
         /\ \A tail \in {<< >>, <<Cut>>} :
              Extended(f \o RowsOf(packets, n) \o tail, f, packets, n)
<1> DEFINE r == RowsOf(packets, n)
           g == f \o r
<1>1. /\ r \in Seq(Piece) /\ Len(r) = n
      /\ \A i \in 1 .. n : r[i] = Row(packets[i])
  BY RowsOfIsSeq
<1> HIDE DEF r
<1>2. /\ g \in Seq(Piece) /\ Len(g) = Len(f) + n
      /\ \A i \in 1 .. Len(f) + n : g[i] = IF i <= Len(f) THEN f[i]
                                                          ELSE r[i - Len(f)]
  BY <1>1, ConcatProperties
<1>3. Len(f) \in Nat /\ n \in Nat
  BY LenProperties
<1> HIDE DEF g
<1>4. Extended(g, f, packets, n)
  BY <1>1, <1>2, <1>3 DEF Extended
<1>5. g \o << >> = g
  BY <1>2, ConcatEmptySeq
<1>6. Extended(g \o <<Cut>>, f, packets, n)
  <2>1. g \o <<Cut>> = Append(g, Cut)
    BY <1>2, PieceTypes, AppendIsConcat
  <2>2. /\ Append(g, Cut) \in Seq(Piece)
        /\ Len(Append(g, Cut)) = Len(g) + 1
        /\ \A i \in 1 .. Len(g) : Append(g, Cut)[i] = g[i]
        /\ Append(g, Cut)[Len(g) + 1] = Cut
    BY <1>2, PieceTypes, AppendProperties
  <2> QED
    BY <1>2, <1>3, <1>4, <2>1, <2>2, PieceTypes DEF Extended
<1>7. ASSUME NEW tail \in {<< >>, <<Cut>>}
      PROVE  Extended(g \o tail, f, packets, n)
  <2>1. CASE tail = << >>
    BY <2>1, <1>4, <1>5
  <2>2. CASE tail = <<Cut>>
    BY <2>2, <1>6
  <2> QED
    BY <2>1, <2>2
<1> QED
  BY <1>4, <1>7 DEF g, r
Results == {"done", "failed", "no_header", "unnoticed"}

LEMMA UnnoticedValue ==
  /\ Unnoticed \subseteq {"unnoticed"}
  /\ ~SilentFailures => Unnoticed = {}
  BY DEF Unnoticed

LEMMA AppendRowsShape ==
  ASSUME NEW f \in Seq(Piece), NEW packets \in Seq(Nat),
         NEW o \in AppendRows(f, packets)
  PROVE  /\ \E n \in 0 .. Len(packets) : Extended(o.file, f, packets, n)
         /\ o.result \in {"done", "failed", "unnoticed"}
<1>1. Len(packets) \in 0 .. Len(packets)
  BY LenProperties
<1>2. CASE o = Outcome("done", f \o RowsOf(packets, Len(packets)))
  <2>1. Extended(o.file, f, packets, Len(packets))
    BY <1>1, <1>2, ConcatExtended DEF Outcome
  <2> QED
    BY <1>1, <1>2, <2>1 DEF Outcome
<1>3. ASSUME NEW result \in {"failed", "unnoticed"},
             NEW n \in 0 .. Len(packets) - 1,
             NEW tail \in {<< >>, <<Cut>>},
             o = Outcome(result, f \o RowsOf(packets, n) \o tail)
      PROVE  /\ \E m \in 0 .. Len(packets) : Extended(o.file, f, packets, m)
             /\ o.result \in {"done", "failed", "unnoticed"}
  <2>1. n \in 0 .. Len(packets)
    BY <1>1
  <2>2. Extended(o.file, f, packets, n)
    BY <1>3, <2>1, ConcatExtended DEF Outcome
  <2> QED
    BY <1>3, <2>1, <2>2 DEF Outcome
<1>4. \/ o = Outcome("done", f \o RowsOf(packets, Len(packets)))
      \/ \E result \in {"failed", "unnoticed"}, n \in 0 .. Len(packets) - 1,
            tail \in {<< >>, <<Cut>>} :
           o = Outcome(result, f \o RowsOf(packets, n) \o tail)
  BY UnnoticedValue DEF AppendRows
<1> QED
  BY <1>2, <1>3, <1>4

(* The header attempt leaves the file, an empty one, or only the header;   *)
(* a file that has the header it leaves alone.                             *)
LEMMA WriteHeaderShape ==
  ASSUME NEW f \in Seq(Piece), NEW o \in WriteHeader(f)
  PROVE  /\ o.file \in {f, << >>, <<Header>>}
         /\ o.file \in Seq(Piece)
         /\ HasHeader(f) => o.file = f
         /\ o.result \in {"done", "no_header", "unnoticed"}
         /\ (o.result # "no_header" /\ ~SilentFailures) => HasHeader(o.file)
<1>1. HasHeader(<<Header>>)
  BY DEF HasHeader
<1>2. /\ o.file \in {f, << >>, <<Header>>}
      /\ HasHeader(f) => o.file = f
      /\ o.result \in {"done", "no_header", "unnoticed"}
      /\ (o.result # "no_header" /\ ~SilentFailures) => HasHeader(o.file)
  BY <1>1, UnnoticedValue DEF WriteHeader, Outcome
<1>3. <<Header>> \in Seq(Piece) /\ << >> \in Seq(Piece)
  BY PieceTypes
<1> QED
  BY <1>2, <1>3

(* write_packets leaves a file g extended by the first n packets, where g  *)
(* is the file it found unless the header had to be written.               *)
LEMMA WritePacketsShape ==
  ASSUME NEW f \in Seq(Piece), NEW init \in BOOLEAN, NEW packets \in Seq(Nat),
         NEW o \in WritePackets(f, init, packets)
  PROVE  /\ o.result \in Results
         /\ init => o.result # "no_header"
         /\ \E g \in {f, << >>, <<Header>>}, n \in 0 .. Len(packets) :
              /\ g \in Seq(Piece)
              /\ Extended(o.file, g, packets, n)
              /\ init \/ HasHeader(f) => g = f
              /\ ~init /\ ~SilentFailures /\ n > 0 => HasHeader(g)
              /\ ~init /\ ~SilentFailures /\ o.result # "no_header"
                   => HasHeader(g)
<1> DEFINE Goal(n, g) ==
             /\ g \in Seq(Piece)
             /\ Extended(o.file, g, packets, n)
             /\ init \/ HasHeader(f) => g = f
             /\ ~init /\ ~SilentFailures /\ n > 0 => HasHeader(g)
             /\ ~init /\ ~SilentFailures /\ o.result # "no_header"
                  => HasHeader(g)
<1>0. Len(packets) \in Nat /\ 0 \in 0 .. Len(packets)
  BY LenProperties
<1>1. CASE init
  <2>1. o \in AppendRows(f, packets)
    BY <1>1 DEF WritePackets
  <2> QED
    BY <1>1, <2>1, AppendRowsShape DEF Results
<1>2. CASE ~init /\ o \in WriteHeader(f) /\ o.result = "no_header"
  <2>1. /\ o.file \in {f, << >>, <<Header>>} /\ o.file \in Seq(Piece)
        /\ HasHeader(f) => o.file = f
    BY <1>2, WriteHeaderShape
  <2>2. Extended(o.file, o.file, packets, 0)
    BY <2>1, LenProperties DEF Extended
  <2>3. Goal(0, o.file)
    BY <1>2, <2>1, <2>2
  <2> QED
    BY <1>0, <1>2, <2>1, <2>3 DEF Results
<1>3. ASSUME ~init,
             NEW h \in WriteHeader(f), ReturnsTrue(h),
             NEW r \in AppendRows(h.file, packets),
             o = Outcome(IF r.result = "done" THEN h.result ELSE r.result,
                         r.file)
      PROVE  /\ o.result \in Results
             /\ \E g \in {f, << >>, <<Header>>}, n \in 0 .. Len(packets) :
                  Goal(n, g)
  <2>1. /\ h.file \in {f, << >>, <<Header>>} /\ h.file \in Seq(Piece)
        /\ HasHeader(f) => h.file = f
        /\ h.result \in {"done", "unnoticed"}
        /\ ~SilentFailures => HasHeader(h.file)
    BY <1>3, WriteHeaderShape DEF ReturnsTrue
  <2>2. /\ \E n \in 0 .. Len(packets) : Extended(r.file, h.file, packets, n)
        /\ r.result \in {"done", "failed", "unnoticed"}
    BY <1>3, <2>1, AppendRowsShape
  <2>3. o.file = r.file /\ o.result \in Results
    BY <1>3, <2>1, <2>2 DEF Outcome, Results
  <2>4. PICK n \in 0 .. Len(packets) : Extended(r.file, h.file, packets, n)
    BY <2>2
  <2>5. Goal(n, h.file)
    BY <1>3, <2>1, <2>3, <2>4
  <2> QED
    BY <2>1, <2>3, <2>5
<1> QED
  BY <1>1, <1>2, <1>3 DEF WritePackets, AppendRowsAfter
-----------------------------------------------------------------------------
(* Appending packets that come after every row of g keeps rows in order.   *)
LEMMA ExtendedOrder ==
  ASSUME NEW g \in Seq(Piece), NEW packets \in Seq(Nat),
         NEW n \in 0 .. Len(packets), NEW h, Extended(h, g, packets, n),
         IncreasingRows(g), Increasing(packets),
         Precede(RowIds(g), Elements(packets))
  PROVE  /\ h \in Seq(Piece)
         /\ IncreasingRows(h)
         /\ RowIds(h) \subseteq RowIds(g) \cup Elements(packets)
<1>1. /\ Len(g) \in Nat /\ Len(h) \in Nat /\ Len(packets) \in Nat /\ n \in Nat
      /\ DOMAIN h = 1 .. Len(h) /\ DOMAIN g = 1 .. Len(g)
      /\ DOMAIN packets = 1 .. Len(packets)
  BY LenProperties DEF Extended
<1>2. ASSUME NEW i \in 1 .. Len(h), IsRow(h[i])
      PROVE  \/ i \in 1 .. Len(g) /\ h[i] = g[i] /\ h[i].id \in RowIds(g)
             \/ /\ i \in Len(g) + 1 .. Len(g) + n
                /\ i - Len(g) \in 1 .. Len(packets)
                /\ h[i].id = packets[i - Len(g)]
                /\ h[i].id \in Elements(packets)
  <2>1. CASE i \in 1 .. Len(g)
    <3>1. h[i] = g[i]
      BY <2>1 DEF Extended
    <3> QED
      BY <1>1, <1>2, <2>1, <3>1 DEF RowIds
  <2>2. CASE i \in Len(g) + 1 .. Len(g) + n
    <3>1. i - Len(g) \in 1 .. Len(packets)
      BY <1>1, <2>2
    <3>2. h[i] = Row(packets[i - Len(g)])
      BY <2>2 DEF Extended
    <3>3. h[i].id = packets[i - Len(g)]
      BY <3>2 DEF Row
    <3>4. packets[i - Len(g)] \in Elements(packets)
      BY <1>1, <3>1 DEF Elements
    <3> QED
      BY <2>2, <3>1, <3>3, <3>4
  <2> QED
    BY <1>1, <1>2, <2>1, <2>2 DEF Extended
<1>3. ASSUME NEW i \in 1 .. Len(h), NEW j \in 1 .. Len(h), i < j,
             IsRow(h[i]), IsRow(h[j])
      PROVE  h[i].id < h[j].id
  <2>1. CASE j \in 1 .. Len(g)
    <3>1. i \in 1 .. Len(g)
      BY <1>1, <1>3, <2>1
    <3>2. h[i] = g[i] /\ h[j] = g[j]
      BY <2>1, <3>1 DEF Extended
    <3> QED
      BY <1>1, <1>3, <2>1, <3>1, <3>2 DEF IncreasingRows
  <2>2. CASE i \in 1 .. Len(g) /\ j \notin 1 .. Len(g)
    <3>1. h[i].id \in RowIds(g)
      BY <1>2, <1>3, <2>2
    <3>2. h[j].id \in Elements(packets)
      BY <1>2, <1>3, <2>2
    <3> QED
      BY <3>1, <3>2 DEF Precede
  <2>3. CASE i \notin 1 .. Len(g) /\ j \notin 1 .. Len(g)
    <3>1. /\ i - Len(g) \in 1 .. Len(packets) /\ j - Len(g) \in 1 .. Len(packets)
          /\ i - Len(g) < j - Len(g)
          /\ h[i].id = packets[i - Len(g)] /\ h[j].id = packets[j - Len(g)]
      BY <1>1, <1>2, <1>3, <2>3
    <3> QED
      BY <1>1, <3>1 DEF Increasing
  <2> QED
    BY <1>1, <1>3, <2>1, <2>2, <2>3
<1>4. IncreasingRows(h)
  BY <1>1, <1>3 DEF IncreasingRows
<1>5. RowIds(h) \subseteq RowIds(g) \cup Elements(packets)
  BY <1>1, <1>2 DEF RowIds
<1> QED
  BY <1>4, <1>5 DEF Extended

(* The files a header attempt can leave have no rows but the ones of f. *)
LEMMA HeaderOrder ==
  ASSUME NEW f \in Seq(Piece), IncreasingRows(f),
         NEW g \in {f, << >>, <<Header>>}
  PROVE  /\ g \in Seq(Piece)
         /\ IncreasingRows(g)
         /\ RowIds(g) \subseteq RowIds(f)
<1>1. CASE g = f
  BY <1>1
<1>2. CASE g = << >>
  BY <1>2 DEF IncreasingRows, RowIds
<1>3. CASE g = <<Header>>
  <2>1. DOMAIN g = {1} /\ g[1] = Header /\ ~IsRow(g[1])
    BY <1>3, PieceTypes
  <2> QED
    BY <1>3, <2>1, PieceTypes DEF IncreasingRows, RowIds
<1> QED
  BY <1>1, <1>2, <1>3

LEMMA WriteOrder ==
  ASSUME NEW f \in Seq(Piece), NEW init \in BOOLEAN, NEW packets \in Seq(Nat),
         NEW o \in WritePackets(f, init, packets),
         IncreasingRows(f), Increasing(packets),
         Precede(RowIds(f), Elements(packets))
  PROVE  /\ o.file \in Seq(Piece)
         /\ IncreasingRows(o.file)
         /\ RowIds(o.file) \subseteq RowIds(f) \cup Elements(packets)
<1>1. PICK g \in {f, << >>, <<Header>>}, n \in 0 .. Len(packets) :
         g \in Seq(Piece) /\ Extended(o.file, g, packets, n)
  BY WritePacketsShape
<1>2. IncreasingRows(g) /\ RowIds(g) \subseteq RowIds(f)
  BY HeaderOrder
<1>3. Precede(RowIds(g), Elements(packets))
  BY <1>2 DEF Precede
<1> QED
  BY <1>1, <1>2, <1>3, ExtendedOrder
HasRows(f) == \E i \in DOMAIN f : IsRow(f[i])

KeepsRows(f, h) ==
  \A i \in DOMAIN f : IsRow(f[i]) => i \in DOMAIN h /\ h[i] = f[i]

(* With a disk that reports its failures, write_packets puts no row into a *)
(* file without the header, and truncates no file with rows.               *)
LEMMA WriteKeepsHeader ==
  ASSUME ~SilentFailures,
         NEW f \in Seq(Piece), NEW init \in BOOLEAN, NEW packets \in Seq(Nat),
         NEW o \in WritePackets(f, init, packets),
         init => HasHeader(f), HasRows(f) => HasHeader(f)
  PROVE  /\ HasRows(o.file) => HasHeader(o.file)
         /\ o.result # "no_header" => HasHeader(o.file)
         /\ KeepsRows(f, o.file)
<1>1. PICK g \in {f, << >>, <<Header>>}, n \in 0 .. Len(packets) :
         /\ g \in Seq(Piece)
         /\ Extended(o.file, g, packets, n)
         /\ init \/ HasHeader(f) => g = f
         /\ ~init /\ n > 0 => HasHeader(g)
         /\ ~init /\ o.result # "no_header" => HasHeader(g)
  BY WritePacketsShape
<1>2. /\ Len(g) \in Nat /\ Len(o.file) \in Nat /\ Len(packets) \in Nat
      /\ n \in Nat /\ DOMAIN g = 1 .. Len(g)
      /\ DOMAIN o.file = 1 .. Len(o.file)
  BY <1>1, LenProperties DEF Extended
<1>3. HasHeader(g) => HasHeader(o.file)
  <2> SUFFICES ASSUME HasHeader(g) PROVE HasHeader(o.file)
    OBVIOUS
  <2>1. g # << >> /\ g[1] = Header /\ Len(g) > 0
    BY <1>1, <1>2, EmptySeq DEF HasHeader
  <2>2. o.file[1] = Header /\ Len(o.file) > 0
    BY <1>1, <1>2, <2>1 DEF Extended
  <2> QED
    BY <1>2, <2>2 DEF HasHeader
<1>4. HasRows(g) => HasHeader(g)
  BY <1>1, PieceTypes DEF HasRows
<1>5. HasRows(o.file) => HasHeader(g)
  <2> SUFFICES ASSUME HasRows(o.file), ~HasHeader(g) PROVE FALSE
    OBVIOUS
  <2>1. n = 0
    BY <1>1, <1>2
  <2>2. PICK i \in 1 .. Len(o.file) : IsRow(o.file[i])
    BY <1>2 DEF HasRows
  <2>3. i \in 1 .. Len(g) /\ IsRow(g[i])
    BY <1>1, <1>2, <2>1, <2>2 DEF Extended
  <2> QED
    BY <1>2, <1>4, <2>3 DEF HasRows
<1>6. o.result # "no_header" => HasHeader(g)
  BY <1>1
<1>7. KeepsRows(f, o.file)
  <2>1. CASE g = f
    BY <1>1, <1>2, <2>1 DEF KeepsRows, Extended
  <2>2. CASE g # f
    BY <1>1, <2>2 DEF KeepsRows, HasRows
  <2> QED
    BY <2>1, <2>2
<1> QED
  BY <1>3, <1>5, <1>6, <1>7

(* The same of the header attempt of start(). *)
LEMMA StartKeepsHeader ==
  ASSUME ~SilentFailures, NEW f \in Seq(Piece), NEW o \in WriteHeader(f),
         HasRows(f) => HasHeader(f)
  PROVE  /\ HasRows(o.file) => HasHeader(o.file)
         /\ o.result # "no_header" => HasHeader(o.file)
         /\ KeepsRows(f, o.file)
<1>1. /\ o.file \in {f, << >>, <<Header>>}
      /\ HasHeader(f) => o.file = f
      /\ o.result # "no_header" => HasHeader(o.file)
  BY WriteHeaderShape
<1>2. o.file # f => ~HasRows(o.file)
  <2>1. ~HasRows(<< >>) /\ ~HasRows(<<Header>>)
    BY PieceTypes DEF HasRows
  <2> QED
    BY <1>1, <2>1
<1> QED
  BY <1>1, <1>2 DEF KeepsRows, HasRows
-----------------------------------------------------------------------------
(***************************************************************************)
(* The inductive invariant.  InOrder alone is not inductive: that a push   *)
(* comes last needs Bounded, and that a thread which drains finds nothing  *)
(* older in anyone's hands needs Control - above all that main flushes     *)
(* only after the writer has ended.  HeaderFirst needs to know that        *)
(* initialized_ is never set for a file that has no header.                *)
(***************************************************************************)
Control ==
  /\ pc["main"] \in {"drain", "write", "stopped"} => pc["writer"] = "exit"
  /\ pc["main"] \in {"write", "stopped"} => buffer = << >>
  /\ pc["main"] = "created" => pc["writer"] = "none"
  /\ \A t \in Threads : batch[t] # << >> => pc[t] = "write"

Bounded ==
  /\ \A p \in RowIds(file) \cup Elements(buffer) : p < next
  /\ \A t \in Threads : \A p \in Elements(batch[t]) : p < next

HeaderInv ==
  ~SilentFailures => HeaderFirst /\ (initialized => HasHeader(file))

IInv == TypeOK /\ Control /\ InOrder /\ Bounded /\ Accounting /\ HeaderInv

LEMMA InitIInv == Init => IInv
<1> SUFFICES ASSUME Init PROVE IInv
  OBVIOUS
<1>1. file \in Seq(Piece) /\ RowIds(file) = {} /\ IncreasingRows(file)
      /\ ~HasRows(file)
  <2>1. \A x \in {Foreign, Header} :
          /\ <<x>> \in Seq(Piece) /\ RowIds(<<x>>) = {}
          /\ IncreasingRows(<<x>>) /\ ~HasRows(<<x>>)
    BY PieceTypes DEF RowIds, IncreasingRows, HasRows
  <2>2. /\ << >> \in Seq(Piece) /\ RowIds(<< >>) = {}
        /\ IncreasingRows(<< >>) /\ ~HasRows(<< >>)
    BY DEF RowIds, IncreasingRows, HasRows
  <2> QED
    BY <2>1, <2>2 DEF Init, InitialFiles
<1>2. \A t \in Threads : batch[t] = << >>
  BY DEF Init
<1>3. TypeOK
  <2>1. /\ pc \in [Threads -> MainPoints \cup WriterPoints]
        /\ pc["main"] \in MainPoints /\ pc["writer"] \in WriterPoints
    BY DEF Init, At, Threads, MainPoints, WriterPoints
  <2>2. buffer \in Seq(Nat) /\ Len(buffer) <= Capacity
    BY EmptySeq, CapacityAssumption DEF Init
  <2>3. batch \in [Threads -> Seq(Nat)]
    BY EmptySeq DEF Init
  <2>4. {dropped, written, pushes, errors, next, restarts} \subseteq Nat
    BY DEF Init
  <2>5. /\ running \in BOOLEAN /\ producing \in BOOLEAN
        /\ initialized \in BOOLEAN /\ mutex \in Threads \cup {"none"}
    BY DEF Init
  <2> QED
    BY <1>1, <2>1, <2>2, <2>3, <2>4, <2>5 DEF TypeOK
<1>4. Control
  BY DEF Init, Control, At, Threads
<1>5. InOrder
  BY <1>1, <1>2 DEF Init, InOrder, Increasing, Precede, Elements, Threads
<1>6. Bounded
  BY <1>1, <1>2 DEF Init, Bounded, Elements
<1>7. Accounting
  BY <1>2, EmptySeq DEF Init, Accounting, Threads
<1>8. HeaderInv
  BY <1>1 DEF Init, HeaderInv, HeaderFirst, HasRows
<1> QED
  BY <1>3, <1>4, <1>5, <1>6, <1>7, <1>8 DEF IInv

(* The ids of rows and the packets a thread holds are numbers. *)
LEMMA IdsAreNumbers ==
  ASSUME TypeOK
  PROVE  /\ RowIds(file) \subseteq Nat /\ Elements(buffer) \subseteq Nat
         /\ \A t \in Threads : Elements(batch[t]) \subseteq Nat
<1>1. \A s \in Seq(Nat) : Elements(s) \subseteq Nat
  BY ElementOfSeq, LenProperties DEF Elements
<1>2. \A i \in DOMAIN file : file[i].id \in Nat
  <2>1. \A i \in DOMAIN file : file[i] \in Piece
    BY ElementOfSeq, LenProperties DEF TypeOK
  <2> QED
    BY <2>1 DEF Piece
<1> QED
  BY <1>1, <1>2 DEF TypeOK, RowIds

(* A step of control alone keeps what is said about the data. *)
LEMMA DataUnchanged ==
  ASSUME IInv, UNCHANGED <<dataVars, countVars, next>>
  PROVE  InOrder' /\ Bounded' /\ Accounting' /\ HeaderInv'
  BY DEF IInv, dataVars, countVars, InOrder, Bounded, Accounting, HeaderInv,
         HeaderFirst

(* Start: only the header attempt touches the file. *)
LEMMA StartIInv == ASSUME IInv, Start PROVE IInv'
<1> USE DEF IInv
<1>1. PICK o \in WriteHeader(file) : Finish(o)
  BY DEF Start
<1>2. /\ o.file \in {file, << >>, <<Header>>} /\ o.file \in Seq(Piece)
      /\ o.result \in {"done", "no_header", "unnoticed"}
  BY <1>1, WriteHeaderShape DEF TypeOK
<1>3. /\ file' = o.file /\ initialized' = (o.result # "no_header")
      /\ errors' \in Nat /\ (errors' = 0 => errors = 0)
  BY <1>1 DEF Finish, TypeOK
<1>4. IncreasingRows(file') /\ RowIds(file') \subseteq RowIds(file)
  BY <1>2, <1>3, HeaderOrder DEF TypeOK, InOrder
<1>5. TypeOK'
  BY <1>2, <1>3 DEF TypeOK, Start, At, Threads, MainPoints, WriterPoints, envVars
<1>6. Control'
  BY DEF Control, Start, At, Threads, TypeOK
<1>7. InOrder'
  BY <1>4 DEF InOrder, Precede, Start
<1>8. Bounded'
  BY <1>4 DEF Bounded, Start, envVars
<1>9. Accounting'
  BY <1>3 DEF Accounting, Start
<1>10. HeaderInv'
  <2> SUFFICES ASSUME ~SilentFailures
               PROVE  HeaderFirst' /\ (initialized' => HasHeader(file'))
    BY DEF HeaderInv
  <2>1. HasRows(file) => HasHeader(file)
    BY DEF HeaderInv, HeaderFirst, HasRows
  <2>2. /\ HasRows(o.file) => HasHeader(o.file)
        /\ o.result # "no_header" => HasHeader(o.file)
    BY <1>1, <2>1, StartKeepsHeader DEF TypeOK
  <2> QED
    BY <1>3, <2>2 DEF HeaderFirst, HasRows
<1> QED
  BY <1>5, <1>6, <1>7, <1>8, <1>9, <1>10

LEMMA ElementsAppend ==
  ASSUME NEW s \in Seq(Nat), NEW e \in Nat
  PROVE  /\ Append(s, e) \in Seq(Nat) /\ Len(Append(s, e)) = Len(s) + 1
         /\ Elements(Append(s, e)) = Elements(s) \cup {e}
         /\ Increasing(s) /\ (\A p \in Elements(s) : p < e)
              => Increasing(Append(s, e))
<1> DEFINE t == Append(s, e)
<1>1. /\ t \in Seq(Nat) /\ Len(t) = Len(s) + 1 /\ Len(s) \in Nat
      /\ DOMAIN s = 1 .. Len(s) /\ DOMAIN t = 1 .. Len(s) + 1
      /\ \A i \in 1 .. Len(s) : t[i] = s[i]
      /\ t[Len(s) + 1] = e
  BY AppendProperties, LenProperties
<1> HIDE DEF t
<1>2. ASSUME NEW x PROVE x \in Elements(t) <=> x \in Elements(s) \cup {e}
  <2>1. ASSUME x \in Elements(t) PROVE x \in Elements(s) \cup {e}
    <3>1. PICK i \in 1 .. Len(s) + 1 : x = t[i]
      BY <1>1, <2>1 DEF Elements
    <3>2. i \in 1 .. Len(s) \/ i = Len(s) + 1
      BY <1>1
    <3> QED
      BY <1>1, <3>1, <3>2 DEF Elements
  <2>2. ASSUME x \in Elements(s) PROVE x \in Elements(t)
    <3>1. PICK i \in 1 .. Len(s) : x = s[i]
      BY <1>1, <2>2 DEF Elements
    <3>2. i \in 1 .. Len(s) + 1 /\ x = t[i]
      BY <1>1, <3>1
    <3> QED
      BY <1>1, <3>2 DEF Elements
  <2>3. e \in Elements(t)
    <3>1. Len(s) + 1 \in 1 .. Len(s) + 1
      BY <1>1
    <3> QED
      BY <1>1, <3>1 DEF Elements
  <2> QED
    BY <2>1, <2>2, <2>3
<1>3. ASSUME Increasing(s), \A p \in Elements(s) : p < e,
             NEW i \in 1 .. Len(s) + 1, NEW j \in 1 .. Len(s) + 1, i < j
      PROVE  t[i] < t[j]
  <2>1. i \in 1 .. Len(s)
    BY <1>1, <1>3
  <2>2. CASE j \in 1 .. Len(s)
    BY <1>1, <1>3, <2>1, <2>2 DEF Increasing
  <2>3. CASE j = Len(s) + 1
    BY <1>1, <1>3, <2>1, <2>3 DEF Elements
  <2> QED
    BY <1>1, <2>2, <2>3
<1>4. Increasing(s) /\ (\A p \in Elements(s) : p < e) => Increasing(t)
  BY <1>1, <1>3 DEF Increasing
<1>5. Elements(t) = Elements(s) \cup {e}
  BY <1>2
<1> QED
  BY <1>1, <1>4, <1>5 DEF t

(* Push: the new packet is the largest. *)
LEMMA PushIInv == ASSUME IInv, Push PROVE IInv'
<1> USE DEF IInv
<1>1. next \in Nat /\ next' = next + 1 /\ pushes' = pushes + 1
  BY DEF Push, TypeOK
<1>2. /\ UNCHANGED <<pc, batch, file, initialized, written, errors>>
      /\ pc["main"] = "running"
  BY DEF Push, threadVars
<1>3. CASE dropped' = dropped + 1 /\ UNCHANGED buffer
  <2>1. TypeOK'
    BY <1>1, <1>3 DEF TypeOK, Push, threadVars
  <2>2. Control' /\ InOrder' /\ HeaderInv'
    BY <1>2, <1>3 DEF Control, InOrder, HeaderInv, HeaderFirst
  <2>3. Bounded'
    BY <1>1, <1>2, <1>3, IdsAreNumbers DEF Bounded
  <2>4. Accounting'
    <3>1. /\ Len(buffer) \in Nat /\ Len(batch["main"]) \in Nat
          /\ Len(batch["writer"]) \in Nat
      BY LenProperties DEF TypeOK, Threads
    <3>2. dropped \in Nat /\ written \in Nat /\ pushes \in Nat
      BY DEF TypeOK
    <3>3. errors = 0 => pushes = dropped + written + Len(batch["main"])
                                 + Len(batch["writer"]) + Len(buffer)
      BY DEF Accounting
    <3>4. /\ pushes' = pushes + 1 /\ dropped' = dropped + 1 /\ written' = written
          /\ errors' = errors /\ batch' = batch /\ buffer' = buffer
      BY <1>1, <1>2, <1>3
    <3> DEFINE held == Len(batch["main"])
               taken == Len(batch["writer"])
               waiting == Len(buffer)
    <3>5. held' = held /\ taken' = taken /\ waiting' = waiting
      BY <3>4
    <3>6. Accounting' = (errors' = 0 => pushes' = dropped' + written' + held' + taken'
                                                 + waiting')
      BY DEF Accounting
    <3>7. errors = 0 => pushes = dropped + written + held + taken + waiting
      BY <3>3
    <3>8. held \in Nat /\ taken \in Nat /\ waiting \in Nat
      BY <3>1
    <3> HIDE DEF held, taken, waiting
    <3>9. errors = 0 => pushes + 1 = (dropped + 1) + written + held + taken + waiting
      BY <3>2, <3>7, <3>8
    <3> QED
      BY <3>4, <3>5, <3>6, <3>9
  <2> QED
    BY <2>1, <2>2, <2>3, <2>4
<1>4. CASE Len(buffer) < Capacity /\ buffer' = Append(buffer, next)
           /\ UNCHANGED dropped
  <2>1. /\ buffer' \in Seq(Nat) /\ Len(buffer') = Len(buffer) + 1
        /\ Len(buffer) \in Nat
        /\ Elements(buffer') = Elements(buffer) \cup {next}
    BY <1>1, <1>4, ElementsAppend, LenProperties DEF TypeOK
  <2>2. Increasing(buffer')
    BY <1>1, <1>4, ElementsAppend DEF TypeOK, InOrder, Bounded
  <2>3. TypeOK'
    <3>1. Len(buffer') <= Capacity
      BY <1>4, <2>1, CapacityAssumption
    <3>2. {dropped, written, pushes, errors, next, restarts}' \subseteq Nat
      BY <1>1, <1>4 DEF TypeOK, Push
    <3> QED
      BY <2>1, <3>1, <3>2 DEF TypeOK, Push, threadVars
  <2>4. Control'
    BY <1>2 DEF Control
  <2>6. InOrder'
    BY <1>2, <2>1, <2>2 DEF InOrder, Bounded, Precede
  <2>8. Bounded'
    BY <1>1, <1>2, <2>1, IdsAreNumbers DEF Bounded
  <2>9. Accounting'
    BY <1>1, <1>2, <1>4, <2>1, LenProperties DEF Accounting, TypeOK, Threads
  <2>10. HeaderInv'
    BY <1>2 DEF HeaderInv, HeaderFirst
  <2> QED
    BY <2>3, <2>4, <2>6, <2>8, <2>9, <2>10
<1> QED
  BY <1>3, <1>4 DEF Push
LEMMA EmptyBatch ==
  Elements(<< >>) = {} /\ Increasing(<< >>) /\ << >> \in Seq(Nat) /\ Len(<< >>) = 0
  BY EmptySeq DEF Elements, Increasing

(* A thread that drains or writes is alone: the other one holds nothing.   *)
LEMMA OneFlusher ==
  ASSUME IInv, NEW t \in Threads, pc[t] \in {"drain", "write"},
         NEW u \in Threads, u # t
  PROVE  batch[u] = << >>
  BY DEF IInv, Control, Threads

(* Drain: what was buffered moves into the hands of one thread. *)
LEMMA DrainIInv == ASSUME IInv, NEW t \in Threads, Drain(t) PROVE IInv'
<1> USE DEF IInv
<1>1. /\ pc[t] = "drain" /\ batch[t] = << >>
      /\ pc' = [pc EXCEPT ![t] = IF buffer = << >> THEN After(t) ELSE "write"]
      /\ batch' = [batch EXCEPT ![t] = buffer] /\ buffer' = << >>
      /\ UNCHANGED <<running, mutex, file, initialized, dropped, written,
                     pushes, errors, producing, next, restarts>>
  BY DEF Drain, Goto, Control, countVars, envVars
<1>2. \A u \in Threads : u # t => batch[u] = << >> /\ batch'[u] = << >>
  BY <1>1, OneFlusher DEF TypeOK
<1>3. batch'[t] = buffer
  BY <1>1 DEF TypeOK
<1>4. TypeOK'
  <2>1. /\ pc' \in [Threads -> MainPoints \cup WriterPoints]
        /\ pc'["main"] \in MainPoints /\ pc'["writer"] \in WriterPoints
    BY <1>1 DEF TypeOK, After, Threads, MainPoints, WriterPoints
  <2>2. batch' \in [Threads -> Seq(Nat)]
    BY <1>1 DEF TypeOK
  <2>3. buffer' \in Seq(Nat) /\ Len(buffer') <= Capacity
    BY <1>1, EmptyBatch, CapacityAssumption
  <2> QED
    BY <1>1, <2>1, <2>2, <2>3 DEF TypeOK
<1>5. Control'
  <2>1. pc'["main"] \in {"drain", "write", "stopped"} => pc'["writer"] = "exit"
    BY <1>1 DEF Control, TypeOK, After, Threads
  <2>2. pc'["main"] = "created" => pc'["writer"] = "none"
    BY <1>1 DEF Control, TypeOK, After, Threads
  <2>3. \A u \in Threads : batch'[u] # << >> => pc'[u] = "write"
    BY <1>1, <1>2, <1>3 DEF Control, TypeOK
  <2> QED
    BY <1>1, <2>1, <2>2, <2>3 DEF Control
<1>6. InOrder'
  <2>1. ASSUME NEW u \in Threads
        PROVE  /\ Increasing(batch'[u])
               /\ Precede(RowIds(file), Elements(batch'[u]))
    BY <1>2, <1>3, EmptyBatch DEF InOrder, Precede
  <2>2. batch'["main"] = << >> \/ batch'["writer"] = << >>
    BY <1>2 DEF Threads
  <2> QED
    BY <1>1, <2>1, <2>2, EmptyBatch DEF InOrder, Precede
<1>7. Bounded'
  <2>1. \A u \in Threads : \A p \in Elements(batch'[u]) : p < next
    BY <1>2, <1>3, EmptyBatch DEF Bounded
  <2> QED
    BY <1>1, <2>1, EmptyBatch DEF Bounded
<1>8. Accounting'
  <2> SUFFICES ASSUME errors = 0
               PROVE  pushes = dropped + written + Len(batch'["main"])
                                 + Len(batch'["writer"]) + Len(buffer')
    BY <1>1 DEF Accounting
  <2>1. pushes = dropped + written + Len(batch["main"]) + Len(batch["writer"])
                   + Len(buffer)
    BY DEF Accounting
  <2>2. Len(buffer) \in Nat /\ dropped \in Nat /\ written \in Nat
    BY LenProperties DEF TypeOK
  <2>3. CASE t = "main"
    <3>1. batch["main"] = << >> /\ batch'["main"] = buffer
      BY <1>1, <1>3, <2>3
    <3>2. batch["writer"] = << >> /\ batch'["writer"] = << >>
      BY <1>2, <2>3 DEF Threads
    <3>3. /\ Len(batch["main"]) = 0 /\ Len(batch'["main"]) = Len(buffer)
          /\ Len(batch["writer"]) = 0 /\ Len(batch'["writer"]) = 0
          /\ Len(buffer') = 0
      BY <1>1, <3>1, <3>2, EmptyBatch
    <3> QED
      BY ONLY <2>1, <2>2, <3>3
  <2>4. CASE t = "writer"
    <3>1. batch["writer"] = << >> /\ batch'["writer"] = buffer
      BY <1>1, <1>3, <2>4
    <3>2. batch["main"] = << >> /\ batch'["main"] = << >>
      BY <1>2, <2>4 DEF Threads
    <3>3. /\ Len(batch["writer"]) = 0 /\ Len(batch'["writer"]) = Len(buffer)
          /\ Len(batch["main"]) = 0 /\ Len(batch'["main"]) = 0
          /\ Len(buffer') = 0
      BY <1>1, <3>1, <3>2, EmptyBatch
    <3> QED
      BY ONLY <2>1, <2>2, <3>3
  <2> QED
    BY <2>3, <2>4 DEF Threads
<1>9. HeaderInv'
  BY <1>1 DEF HeaderInv, HeaderFirst
<1> QED
  BY <1>4, <1>5, <1>6, <1>7, <1>8, <1>9

(* Write: a prefix of the batch reaches the file. *)
LEMMA WriteIInv == ASSUME IInv, NEW t \in Threads, Write(t) PROVE IInv'
<1> USE DEF IInv
<1>1. PICK o \in WritePackets(file, initialized, batch[t]) :
         /\ Finish(o)
         /\ written' = IF ReturnsTrue(o) THEN written + Len(batch[t]) ELSE written
  BY DEF Write
<1>2. /\ pc[t] = "write" /\ pc' = [pc EXCEPT ![t] = After(t)]
      /\ batch' = [batch EXCEPT ![t] = << >>]
      /\ UNCHANGED <<running, mutex, buffer, dropped, pushes, producing, next,
                     restarts>>
  BY DEF Write, Goto, envVars
<1>3. /\ file \in Seq(Piece) /\ initialized \in BOOLEAN
      /\ batch[t] \in Seq(Nat) /\ Len(batch[t]) \in Nat
  BY LenProperties DEF TypeOK
<1>4. /\ file' \in Seq(Piece) /\ IncreasingRows(file')
      /\ RowIds(file') \subseteq RowIds(file) \cup Elements(batch[t])
  BY <1>1, <1>3, WriteOrder DEF Finish, InOrder
<1>5. /\ o.result \in Results
      /\ initialized' = (o.result # "no_header")
      /\ errors' \in Nat /\ (errors' = 0 => errors = 0 /\ o.result = "done")
  BY <1>1, <1>3, WritePacketsShape DEF Finish, TypeOK
<1>6. \A u \in Threads : batch'[u] = << >>
  BY <1>2, OneFlusher DEF TypeOK
<1>7. TypeOK'
  <2>1. /\ pc' \in [Threads -> MainPoints \cup WriterPoints]
        /\ pc'["main"] \in MainPoints /\ pc'["writer"] \in WriterPoints
    BY <1>2 DEF TypeOK, After, Threads, MainPoints, WriterPoints
  <2>2. batch' \in [Threads -> Seq(Nat)]
    BY <1>2, EmptyBatch DEF TypeOK
  <2>3. written' \in Nat
    BY <1>1, <1>3 DEF TypeOK
  <2> QED
    BY <1>2, <1>4, <1>5, <2>1, <2>2, <2>3 DEF TypeOK
<1>8. Control'
  BY <1>2, <1>6 DEF Control, TypeOK, After, Threads
<1>9. InOrder'
  <2>1. Precede(RowIds(file'), Elements(buffer'))
    BY <1>2, <1>4 DEF InOrder, Precede
  <2> QED
    BY <1>2, <1>4, <1>6, <2>1, EmptyBatch DEF InOrder, Precede, Threads
<1>10. Bounded'
  BY <1>2, <1>4, <1>6, EmptyBatch DEF Bounded
<1>11. Accounting'
  <2> SUFFICES ASSUME errors' = 0
               PROVE  pushes = dropped + written' + Len(batch'["main"])
                                 + Len(batch'["writer"]) + Len(buffer)
    BY <1>2 DEF Accounting
  <2> DEFINE m == Len(batch["main"])
             w == Len(batch["writer"])
  <2>1. /\ m \in Nat /\ w \in Nat /\ Len(buffer) \in Nat
        /\ dropped \in Nat /\ written \in Nat
    BY LenProperties DEF TypeOK, Threads
  <2>2. pushes = dropped + written + m + w + Len(buffer)
    BY <1>5 DEF Accounting
  <2>3. written' = written + Len(batch[t])
    BY <1>1, <1>5 DEF ReturnsTrue
  <2>4. Len(batch'["main"]) = 0 /\ Len(batch'["writer"]) = 0
    BY <1>6, EmptyBatch DEF Threads
  <2>5. \A u \in Threads : u # t => Len(batch[u]) = 0
    BY <1>2, OneFlusher, EmptyBatch
  <2>6. written' = written + m + w
    <3>1. CASE t = "main"
      <4>1. w = 0
        BY <2>5, <3>1 DEF Threads
      <4>2. Len(batch[t]) = m
        BY <3>1
      <4> HIDE DEF m, w
      <4> QED
        BY ONLY <2>1, <2>3, <4>1, <4>2
    <3>2. CASE t = "writer"
      <4>1. m = 0
        BY <2>5, <3>2 DEF Threads
      <4>2. Len(batch[t]) = w
        BY <3>2
      <4> HIDE DEF m, w
      <4> QED
        BY ONLY <2>1, <2>3, <4>1, <4>2
    <3> QED
      BY <3>1, <3>2 DEF Threads
  <2> HIDE DEF m, w
  <2>7. pushes = dropped + written' + 0 + 0 + Len(buffer)
    BY ONLY <2>1, <2>2, <2>6
  <2> QED
    BY <2>4, <2>7
<1>12. HeaderInv'
  <2> SUFFICES ASSUME ~SilentFailures
               PROVE  HeaderFirst' /\ (initialized' => HasHeader(file'))
    BY DEF HeaderInv
  <2>1. /\ HasRows(file) => HasHeader(file)
        /\ initialized => HasHeader(file)
    BY DEF HeaderInv, HeaderFirst, HasRows
  <2>2. /\ HasRows(o.file) => HasHeader(o.file)
        /\ o.result # "no_header" => HasHeader(o.file)
    BY <1>1, <1>3, <2>1, WriteKeepsHeader
  <2> QED
    BY <1>1, <1>5, <2>2 DEF HeaderFirst, HasRows, Finish
<1> QED
  BY <1>7, <1>8, <1>9, <1>10, <1>11, <1>12

(* Restart: an interrupted write leaves what a finished one may leave, and *)
(* the new process knows of nothing but the file.                          *)
LEMMA RestartIInv == ASSUME IInv, Restart PROVE IInv'
<1> USE DEF IInv
<1>1. /\ pc' = At("created", "none") /\ running' = FALSE /\ mutex' = "none"
      /\ producing' = TRUE /\ buffer' = << >>
      /\ batch' = [t \in Threads |-> << >>] /\ initialized' = FALSE
      /\ dropped' = 0 /\ written' = 0 /\ pushes' = 0 /\ errors' = 0
      /\ next' = next /\ restarts' = restarts + 1
      /\ file' \in Interrupted
  BY DEF Restart
<1>2. /\ file' \in Seq(Piece) /\ IncreasingRows(file')
      /\ \A p \in RowIds(file') : p < next
      /\ ~SilentFailures => (HasRows(file') => HasHeader(file'))
  <2>1. CASE file' = file
    BY <2>1 DEF TypeOK, InOrder, Bounded, HeaderInv, HeaderFirst, HasRows
  <2>2. ASSUME NEW t \in Threads,
               NEW o \in WritePackets(file, initialized, batch[t]),
               file' = o.file
        PROVE  /\ file' \in Seq(Piece) /\ IncreasingRows(file')
               /\ \A p \in RowIds(file') : p < next
               /\ ~SilentFailures => (HasRows(file') => HasHeader(file'))
    <3>1. /\ file \in Seq(Piece) /\ initialized \in BOOLEAN
          /\ batch[t] \in Seq(Nat)
      BY DEF TypeOK
    <3>2. /\ file' \in Seq(Piece) /\ IncreasingRows(file')
          /\ RowIds(file') \subseteq RowIds(file) \cup Elements(batch[t])
      BY <2>2, <3>1, WriteOrder DEF InOrder
    <3>3. \A p \in RowIds(file') : p < next
      BY <3>2 DEF Bounded
    <3>4. ~SilentFailures => (HasRows(file') => HasHeader(file'))
      BY <2>2, <3>1, WriteKeepsHeader DEF HeaderInv, HeaderFirst, HasRows
    <3> QED
      BY <3>2, <3>3, <3>4
  <2> QED
    BY <1>1, <2>1, <2>2 DEF Interrupted
<1>3. \A t \in Threads : batch'[t] = << >>
  BY <1>1
<1>4. TypeOK'
  <2>1. /\ pc' \in [Threads -> MainPoints \cup WriterPoints]
        /\ pc'["main"] \in MainPoints /\ pc'["writer"] \in WriterPoints
    BY <1>1 DEF At, Threads, MainPoints, WriterPoints
  <2>2. buffer' \in Seq(Nat) /\ Len(buffer') <= Capacity
    BY <1>1, EmptyBatch, CapacityAssumption
  <2>3. batch' \in [Threads -> Seq(Nat)]
    BY <1>1, EmptyBatch
  <2>4. {dropped, written, pushes, errors, next, restarts}' \subseteq Nat
    BY <1>1 DEF TypeOK
  <2> QED
    BY <1>1, <1>2, <2>1, <2>2, <2>3, <2>4 DEF TypeOK
<1>5. Control'
  BY <1>1, <1>3 DEF Control, At, Threads
<1>6. InOrder'
  BY <1>1, <1>2, <1>3, EmptyBatch DEF InOrder, Precede, Threads
<1>7. Bounded'
  BY <1>1, <1>2, <1>3, EmptyBatch DEF Bounded
<1>8. Accounting'
  BY <1>1, <1>3, EmptyBatch DEF Accounting, Threads
<1>9. HeaderInv'
  BY <1>1, <1>2 DEF HeaderInv, HeaderFirst, HasRows
<1> QED
  BY <1>4, <1>5, <1>6, <1>7, <1>8, <1>9

(* The steps of the two threads that touch no data. *)
LEMMA ControlIInv ==
  ASSUME IInv,
         \/ Loop \/ Lock \/ Check \/ Block \/ SpuriousWakeup \/ Timeout
         \/ JoinTransport \/ StopFlag \/ Notify \/ Join
  PROVE  IInv'
<1> USE DEF IInv
<1>1. UNCHANGED <<dataVars, countVars, next, restarts>>
  BY DEF Loop, Lock, Check, Block, SpuriousWakeup, Timeout, JoinTransport,
         StopFlag, Notify, Join, envVars
<1>2. InOrder' /\ Bounded' /\ Accounting' /\ HeaderInv'
  BY <1>1, DataUnchanged
<1>3. /\ running' \in BOOLEAN /\ producing' \in BOOLEAN
      /\ mutex' \in Threads \cup {"none"}
  BY DEF Loop, Lock, Check, Block, SpuriousWakeup, Timeout, JoinTransport,
         StopFlag, Notify, Join, envVars, threadVars, TypeOK, Threads
<1>4. /\ pc' \in [Threads -> MainPoints \cup WriterPoints]
      /\ pc'["main"] \in MainPoints /\ pc'["writer"] \in WriterPoints
      /\ Control'
  <2> USE DEF TypeOK, Control, Threads, MainPoints, WriterPoints
  <2>1. CASE Loop
    BY <1>1, <2>1 DEF Loop, Goto, dataVars
  <2>2. CASE Lock
    BY <1>1, <2>2 DEF Lock, Goto, dataVars
  <2>3. CASE Check
    BY <1>1, <2>3 DEF Check, Goto, dataVars
  <2>4. CASE Block
    BY <1>1, <2>4 DEF Block, Goto, dataVars
  <2>5. CASE SpuriousWakeup
    BY <1>1, <2>5 DEF SpuriousWakeup, Goto, dataVars
  <2>6. CASE Timeout
    BY <1>1, <2>6 DEF Timeout, Goto, dataVars
  <2>7. CASE JoinTransport
    BY <1>1, <2>7 DEF JoinTransport, threadVars, dataVars
  <2>8. CASE StopFlag
    BY <1>1, <2>8 DEF StopFlag, Goto, dataVars
  <2>9. CASE Notify
    BY <1>1, <2>9 DEF Notify, At, dataVars
  <2>10. CASE Join
    BY <1>1, <2>10 DEF Join, Goto, dataVars
  <2> QED
    BY <2>1, <2>2, <2>3, <2>4, <2>5, <2>6, <2>7, <2>8, <2>9, <2>10
<1>5. TypeOK'
  BY <1>1, <1>3, <1>4 DEF TypeOK, dataVars, countVars
<1> QED
  BY <1>2, <1>4, <1>5

LEMMA NextIInv == ASSUME IInv, [Next]_vars PROVE IInv'
<1>1. CASE UNCHANGED vars
  BY <1>1 DEF vars, threadVars, dataVars, countVars, envVars, IInv, TypeOK,
              Control, InOrder, Bounded, Accounting, HeaderInv, HeaderFirst
<1>2. CASE Next
  <2>1. ASSUME NEW t \in Threads, Drain(t) \/ Write(t) PROVE IInv'
    BY <2>1, DrainIInv, WriteIInv
  <2>2. CASE Main
    BY <2>1, <2>2, StartIInv, ControlIInv DEF Main, Threads
  <2>3. CASE Writer
    BY <2>1, <2>3, ControlIInv DEF Writer, Threads
  <2>4. CASE Environment
    BY <2>4, PushIInv, RestartIInv, ControlIInv DEF Environment
  <2> QED
    BY <1>1, <1>2, <2>2, <2>3, <2>4 DEF Next, Done
<1> QED
  BY <1>1, <1>2
-----------------------------------------------------------------------------
(* The inductive invariant holds in every reachable state of the storage   *)
(* manager.                                                                *)
THEOREM StorageInvariant == Spec => []IInv
<1>1. Init => IInv
  BY InitIInv
<1>2. IInv /\ [Next]_vars => IInv'
  BY NextIInv
<1> QED
  BY <1>1, <1>2, PTL DEF Spec

(* Type correctness; with it, the buffer never exceeds its capacity.       *)
THEOREM StorageTypeCorrect == Spec => []TypeOK
<1>1. IInv => TypeOK
  BY DEF IInv
<1> QED
  BY <1>1, StorageInvariant, PTL

(* Packets reach the file once and in the order of their pushes, whatever  *)
(* the interleaving of the two flushing threads, the failed writes and the *)
(* restarts.                                                               *)
THEOREM StorageInOrder == Spec => []InOrder
<1>1. IInv => InOrder
  BY DEF IInv
<1> QED
  BY <1>1, StorageInvariant, PTL

(* While no file operation failed, the counters account for every push.    *)
THEOREM StorageAccounting == Spec => []Accounting
<1>1. IInv => Accounting
  BY DEF IInv
<1> QED
  BY <1>1, StorageInvariant, PTL

(* When stop() has returned, no packet is in the buffer or in a thread's   *)
(* hands.                                                                  *)
THEOREM StorageNothingLeftBehind == Spec => []NothingLeftBehind
<1>1. IInv => NothingLeftBehind
  BY DEF IInv, Control, NothingLeftBehind, Threads
<1> QED
  BY <1>1, StorageInvariant, PTL

(* When the disk reports its failures, a file with rows has the header.    *)
THEOREM StorageHeaderFirst == ASSUME ~SilentFailures PROVE Spec => []HeaderFirst
<1>1. IInv => HeaderFirst
  BY DEF IInv, HeaderInv
<1> QED
  BY <1>1, StorageInvariant, PTL

(* When the disk reports its failures, no step removes, moves or changes a *)
(* row of the file.                                                        *)
THEOREM StorageRowsSurvive == ASSUME ~SilentFailures PROVE Spec => RowsSurvive
<1>1. IInv /\ [Next]_vars => [RowsKept]_vars
  <2> SUFFICES ASSUME IInv, [Next]_vars PROVE KeepsRows(file, file')
    BY DEF KeepsRows, RowsKept
  <2>1. /\ file \in Seq(Piece) /\ initialized \in BOOLEAN
        /\ \A t \in Threads : batch[t] \in Seq(Nat)
        /\ initialized => HasHeader(file)
        /\ HasRows(file) => HasHeader(file)
    BY DEF IInv, TypeOK, HeaderInv, HeaderFirst, HasRows
  <2>2. KeepsRows(file, file)
    BY DEF KeepsRows
  <2>3. CASE UNCHANGED file
    BY <2>2, <2>3
  <2>4. CASE Start
    <3>1. PICK o \in WriteHeader(file) : file' = o.file
      BY <2>4 DEF Start, Finish
    <3> QED
      BY <2>1, <3>1, StartKeepsHeader
  <2>5. ASSUME NEW t \in Threads,
               NEW o \in WritePackets(file, initialized, batch[t]),
               file' = o.file
        PROVE  KeepsRows(file, file')
    BY <2>1, <2>5, WriteKeepsHeader
  <2>6. ASSUME NEW t \in Threads, Write(t) PROVE KeepsRows(file, file')
    BY <2>5, <2>6 DEF Write, Finish
  <2>7. CASE Restart
    BY <2>2, <2>5, <2>7 DEF Restart, Interrupted
  <2>8. \/ Start \/ Restart \/ UNCHANGED file
        \/ Write("main") \/ Write("writer")
    BY DEF Next, Main, Writer, Environment, Done, StopFlag, Notify, Join, Drain,
           Loop, Lock, Check, Block, Push, JoinTransport, Timeout,
           SpuriousWakeup, vars, threadVars, dataVars, countVars, envVars
  <2> QED
    BY <2>3, <2>4, <2>6, <2>7, <2>8 DEF Threads
<1> QED
  BY <1>1, StorageInvariant, PTL DEF Spec, RowsSurvive
-----------------------------------------------------------------------------
(***************************************************************************)
(* CountersHonest.  The rows of a file with the numbers of this process's  *)
(* packets only become more; a write that is "done" adds all of its batch. *)
(***************************************************************************)
RowsFrom(f, b) == {i \in DOMAIN f : IsRow(f[i]) /\ f[i].id >= b}

LEMMA RowsFromFinite ==
  ASSUME NEW f \in Seq(Piece), NEW b
  PROVE  /\ IsFiniteSet(RowsFrom(f, b))
         /\ Cardinality(RowsFrom(f, b)) \in Nat
<1>1. DOMAIN f = 1 .. Len(f) /\ Len(f) \in Nat
  BY LenProperties
<1>2. RowsFrom(f, b) \in SUBSET (1 .. Len(f))
  BY <1>1 DEF RowsFrom
<1>3. IsFiniteSet(1 .. Len(f))
  BY <1>1, FS_Interval
<1>4. IsFiniteSet(RowsFrom(f, b))
  BY <1>2, <1>3, FS_Subset
<1> QED
  BY <1>4, FS_CardinalityType

LEMMA PlacesAfter ==
  ASSUME NEW l \in Nat, NEW n \in Nat
  PROVE  /\ IsFiniteSet(l + 1 .. l + n)
         /\ Cardinality(l + 1 .. l + n) = n
<1> DEFINE lo == l + 1
           hi == l + n
<1>1. lo \in Int /\ hi \in Int /\ (lo > hi => n = 0) /\ hi - lo + 1 = n
  OBVIOUS
<1> HIDE DEF lo, hi
<1>2. /\ IsFiniteSet(lo .. hi)
      /\ Cardinality(lo .. hi) = IF lo > hi THEN 0 ELSE hi - lo + 1
  BY <1>1, FS_Interval
<1>3. IsFiniteSet(lo .. hi) /\ Cardinality(lo .. hi) = n
  BY <1>1, <1>2
<1> QED
  BY <1>3 DEF lo, hi

LEMMA RowsFromGrow ==
  ASSUME NEW f \in Seq(Piece), NEW h \in Seq(Piece), NEW b, KeepsRows(f, h)
  PROVE  Cardinality(RowsFrom(f, b)) <= Cardinality(RowsFrom(h, b))
<1>1. RowsFrom(f, b) \in SUBSET RowsFrom(h, b)
  BY DEF RowsFrom, KeepsRows
<1> QED
  BY <1>1, RowsFromFinite, FS_Subset

(* All rows of packets from b on, appended to a file that kept its rows.   *)
LEMMA RowsFromExtended ==
  ASSUME NEW f \in Seq(Piece), NEW g \in Seq(Piece), NEW h,
         NEW packets \in Seq(Nat), NEW b \in Int,
         g = f \/ ~HasRows(f),
         Extended(h, g, packets, Len(packets)),
         \A p \in Elements(packets) : p >= b
  PROVE  Cardinality(RowsFrom(f, b)) + Len(packets)
           <= Cardinality(RowsFrom(h, b))
<1> DEFINE A == RowsFrom(f, b)
           n == Len(packets)
           B == Len(g) + 1 .. Len(g) + n
<1>1. /\ n \in Nat /\ Len(g) \in Nat /\ h \in Seq(Piece) /\ Len(h) \in Nat
      /\ DOMAIN g = 1 .. Len(g) /\ DOMAIN h = 1 .. Len(h)
      /\ DOMAIN packets = 1 .. n
  BY LenProperties DEF Extended
<1>2. /\ IsFiniteSet(A) /\ Cardinality(A) \in Nat
      /\ IsFiniteSet(B) /\ Cardinality(B) = n
  <2>1. IsFiniteSet(A) /\ Cardinality(A) \in Nat
    BY RowsFromFinite
  <2>2. IsFiniteSet(B) /\ Cardinality(B) = n
    BY <1>1, PlacesAfter
  <2> QED
    BY <2>1, <2>2
<1>3. A \subseteq 1 .. Len(g) /\ A \subseteq RowsFrom(h, b)
  <2>1. CASE g = f
    BY <1>1, <2>1 DEF RowsFrom, Extended
  <2>2. CASE ~HasRows(f)
    BY <2>2 DEF RowsFrom, HasRows
  <2> QED
    BY <2>1, <2>2
<1>4. B \subseteq RowsFrom(h, b)
  <2> SUFFICES ASSUME NEW i \in B PROVE i \in RowsFrom(h, b)
    OBVIOUS
  <2>1. i \in 1 .. Len(h) /\ i - Len(g) \in 1 .. n
    BY <1>1 DEF Extended
  <2>2. h[i] = Row(packets[i - Len(g)])
    BY DEF Extended
  <2>3. packets[i - Len(g)] \in Elements(packets) /\ packets[i - Len(g)] \in Nat
    BY <1>1, <2>1, ElementOfSeq DEF Elements
  <2> QED
    BY <1>1, <2>1, <2>2, <2>3, PieceTypes DEF RowsFrom
<1>5. A \cap B = {}
  BY <1>1, <1>3
<1>6. /\ A \cup B \in SUBSET RowsFrom(h, b)
      /\ Cardinality(A \cup B) = Cardinality(A) + n
  <2>1. Cardinality(A \cup B) = Cardinality(A) + Cardinality(B)
                                  - Cardinality(A \cap B)
    BY <1>2, FS_Union
  <2>2. Cardinality(A \cap B) = 0
    BY <1>5, FS_EmptySet
  <2> HIDE DEF A, B, n
  <2> QED
    BY <1>2, <1>1, <1>3, <1>4, <2>1, <2>2
<1> HIDE DEF A, B, n
<1>7. Cardinality(A \cup B) <= Cardinality(RowsFrom(h, b))
  BY <1>1, <1>6, RowsFromFinite, FS_Subset
<1> QED
  BY <1>6, <1>7 DEF A, n

(* A write that is done wrote every packet, to a file that kept its rows.  *)
LEMMA DoneShape ==
  ASSUME ~SilentFailures,
         NEW f \in Seq(Piece), NEW init \in BOOLEAN, NEW packets \in Seq(Nat),
         NEW o \in WritePackets(f, init, packets), ReturnsTrue(o),
         HasRows(f) => HasHeader(f)
  PROVE  \E g \in Seq(Piece) :
           /\ g = f \/ ~HasRows(f)
           /\ Extended(o.file, g, packets, Len(packets))
<1>0. Len(packets) \in 0 .. Len(packets)
  BY LenProperties
<1>1. ASSUME NEW g \in Seq(Piece), NEW r \in AppendRows(g, packets),
             r.result \in {"done", "unnoticed"}
      PROVE  Extended(r.file, g, packets, Len(packets))
  <2>1. r = Outcome("done", g \o RowsOf(packets, Len(packets)))
    BY <1>1, UnnoticedValue DEF AppendRows, Outcome
  <2> QED
    BY <1>0, <2>1, ConcatExtended DEF Outcome
<1>2. CASE init
  BY <1>1, <1>2 DEF WritePackets, ReturnsTrue
<1>3. ASSUME ~init, NEW h \in WriteHeader(f), ReturnsTrue(h),
             NEW r \in AppendRows(h.file, packets),
             o = Outcome(IF r.result = "done" THEN h.result ELSE r.result,
                         r.file)
      PROVE  \E g \in Seq(Piece) :
               /\ g = f \/ ~HasRows(f)
               /\ Extended(o.file, g, packets, Len(packets))
  <2>1. h.file \in Seq(Piece) /\ (HasHeader(f) => h.file = f)
    BY WriteHeaderShape
  <2>2. o.file = r.file /\ r.result \in {"done", "unnoticed"}
    BY <1>3 DEF Outcome, ReturnsTrue
  <2>3. Extended(o.file, h.file, packets, Len(packets))
    BY <1>1, <2>1, <2>2
  <2> QED
    BY <2>1, <2>3
<1>4. CASE ~init /\ o \in WriteHeader(f) /\ o.result = "no_header"
  BY <1>4 DEF ReturnsTrue
<1> QED
  BY <1>2, <1>3, <1>4 DEF WritePackets, AppendRowsAfter

(* The rows to count are those of the packets from next - pushes on: what  *)
(* is in a thread's hands or in the buffer belongs to them.                *)
OwnPackets ==
  /\ \A p \in Elements(buffer) : p >= next - pushes
  /\ \A t \in Threads : \A p \in Elements(batch[t]) : p >= next - pushes

CountersInv == CountersHonest /\ OwnPackets

LEMMA InitCounters == Init => CountersInv
<1> SUFFICES ASSUME Init PROVE CountersInv
  OBVIOUS
<1>1. file \in Seq(Piece)
  BY InitIInv DEF IInv, TypeOK
<1>2. CountersHonest
  <2>1. Cardinality(RowsFrom(file, next - pushes)) \in Nat
    BY <1>1, RowsFromFinite
  <2>2. RowsOfThisProcess = RowsFrom(file, next - pushes) /\ written = 0
    BY DEF Init, RowsOfThisProcess, RowsFrom
  <2> QED
    BY <2>1, <2>2 DEF CountersHonest
<1>3. OwnPackets
  BY EmptyBatch DEF Init, OwnPackets
<1> QED
  BY <1>2, <1>3 DEF CountersInv

(* A write adds its batch to written_ only when all of it is in the file.  *)
LEMMA WriteCounters ==
  ASSUME ~SilentFailures, IInv, CountersInv, NEW t \in Threads, Write(t)
  PROVE  CountersInv'
<1> DEFINE b == next - pushes
<1>1. PICK o \in WritePackets(file, initialized, batch[t]) :
         /\ Finish(o)
         /\ written' = IF ReturnsTrue(o) THEN written + Len(batch[t]) ELSE written
  BY DEF Write
<1>2. /\ batch' = [batch EXCEPT ![t] = << >>]
      /\ UNCHANGED <<buffer, pushes, next>> /\ file' = o.file
  BY <1>1 DEF Write, Finish, envVars
<1>3. /\ file \in Seq(Piece) /\ initialized \in BOOLEAN /\ written \in Nat
      /\ batch[t] \in Seq(Nat) /\ Len(batch[t]) \in Nat
      /\ b \in Int
      /\ initialized => HasHeader(file)
      /\ HasRows(file) => HasHeader(file)
  BY LenProperties DEF IInv, TypeOK, HeaderInv, HeaderFirst, HasRows
<1>4. file' \in Seq(Piece) /\ KeepsRows(file, file')
  BY <1>1, <1>2, <1>3, WriteOrder, WriteKeepsHeader DEF IInv, InOrder
<1> HIDE DEF b
<1>5. written <= Cardinality(RowsFrom(file, b))
  BY DEF CountersInv, CountersHonest, RowsOfThisProcess, RowsFrom, b
<1>6. Cardinality(RowsFrom(file, b)) \in Nat /\ Cardinality(RowsFrom(file', b)) \in Nat
  BY <1>3, <1>4, RowsFromFinite
<1>7. written' <= Cardinality(RowsFrom(file', b))
  <2>1. CASE ReturnsTrue(o)
    <3>1. \A p \in Elements(batch[t]) : p >= b
      BY DEF CountersInv, OwnPackets, b
    <3>2. PICK g \in Seq(Piece) :
            /\ g = file \/ ~HasRows(file)
            /\ Extended(o.file, g, batch[t], Len(batch[t]))
      BY <1>3, <2>1, DoneShape
    <3>3. Cardinality(RowsFrom(file, b)) + Len(batch[t])
            <= Cardinality(RowsFrom(file', b))
      BY <1>2, <1>3, <3>1, <3>2, RowsFromExtended
    <3> QED
      BY <1>1, <1>3, <1>5, <1>6, <2>1, <3>3
  <2>2. CASE ~ReturnsTrue(o)
    <3>1. Cardinality(RowsFrom(file, b)) <= Cardinality(RowsFrom(file', b))
      BY <1>3, <1>4, RowsFromGrow
    <3> QED
      BY <1>1, <1>3, <1>5, <1>6, <2>2, <3>1
  <2> QED
    BY <2>1, <2>2
<1>8. CountersHonest'
  BY <1>2, <1>7 DEF CountersHonest, RowsOfThisProcess, RowsFrom, b
<1>9. OwnPackets'
  <2>1. \A u \in Threads : batch'[u] = batch[u] \/ batch'[u] = << >>
    BY <1>2 DEF IInv, TypeOK
  <2> QED
    BY <1>2, <2>1, EmptyBatch DEF CountersInv, OwnPackets
<1> QED
  BY <1>8, <1>9 DEF CountersInv

LEMMA NextCounters ==
  ASSUME ~SilentFailures, IInv, CountersInv, [Next]_vars PROVE CountersInv'
<1> USE DEF CountersInv
<1>1. CASE UNCHANGED <<buffer, batch, file, written, pushes, next>>
  BY <1>1 DEF CountersHonest, RowsOfThisProcess, OwnPackets
<1>2. CASE Start
  <2>1. PICK o \in WriteHeader(file) : file' = o.file
    BY <1>2 DEF Start, Finish
  <2>2. file \in Seq(Piece) /\ (HasRows(file) => HasHeader(file))
    BY DEF IInv, TypeOK, HeaderInv, HeaderFirst, HasRows
  <2>3. file' \in Seq(Piece) /\ KeepsRows(file, file')
    BY <2>1, <2>2, WriteHeaderShape, StartKeepsHeader
  <2>4. \A b : /\ Cardinality(RowsFrom(file, b)) \in Nat
               /\ Cardinality(RowsFrom(file', b)) \in Nat
               /\ Cardinality(RowsFrom(file, b)) <= Cardinality(RowsFrom(file', b))
    BY <2>2, <2>3, RowsFromFinite, RowsFromGrow
  <2>5. UNCHANGED <<buffer, batch, written, pushes, next>> /\ written \in Nat
    BY <1>2 DEF Start, envVars, IInv, TypeOK
  <2>6. /\ RowsOfThisProcess = RowsFrom(file, next - pushes)
        /\ RowsOfThisProcess' = RowsFrom(file', next - pushes)
    BY <2>5 DEF RowsOfThisProcess, RowsFrom
  <2>7. CountersHonest'
    <3> DEFINE m == Cardinality(RowsFrom(file, next - pushes))
               n == Cardinality(RowsFrom(file', next - pushes))
    <3>1. m \in Nat /\ n \in Nat /\ m <= n
      BY <2>4
    <3>2. written <= m
      BY <2>6 DEF CountersHonest
    <3> HIDE DEF m, n
    <3>3. written' <= n
      BY <2>5, <3>1, <3>2
    <3> QED
      BY <2>6, <3>3 DEF CountersHonest, n
  <2> QED
    BY <2>5, <2>7 DEF OwnPackets
<1>3. CASE Push
  <2>1. /\ next \in Nat /\ pushes \in Nat /\ buffer \in Seq(Nat)
        /\ next' = next + 1 /\ pushes' = pushes + 1
        /\ UNCHANGED <<batch, file, written>>
        /\ buffer' = buffer \/ buffer' = Append(buffer, next)
    BY <1>3 DEF Push, IInv, TypeOK
  <2>2. next' - pushes' = next - pushes /\ next >= next - pushes
    BY <2>1
  <2>3. Elements(buffer') \subseteq Elements(buffer) \cup {next}
    BY <2>1, ElementsAppend
  <2>4. CountersHonest'
    BY <2>1, <2>2 DEF CountersHonest, RowsOfThisProcess
  <2> QED
    BY <2>1, <2>2, <2>3, <2>4 DEF OwnPackets
<1>4. ASSUME NEW t \in Threads, Drain(t) PROVE CountersInv'
  <2>1. /\ batch' = [batch EXCEPT ![t] = buffer] /\ buffer' = << >>
        /\ UNCHANGED <<file, written, pushes, next>>
    BY <1>4 DEF Drain, countVars, envVars
  <2>2. \A u \in Threads : batch'[u] = batch[u] \/ batch'[u] = buffer
    BY <2>1 DEF IInv, TypeOK
  <2>3. OwnPackets'
    BY <2>1, <2>2, EmptyBatch DEF OwnPackets
  <2> QED
    BY <2>1, <2>3 DEF CountersHonest, RowsOfThisProcess
<1>5. ASSUME NEW t \in Threads, Write(t) PROVE CountersInv'
  BY <1>5, WriteCounters
<1>6. CASE Restart
  <2>1. file' \in Seq(Piece)
    BY <1>6, RestartIInv DEF IInv, TypeOK
  <2>2. written' = 0 /\ buffer' = << >> /\ batch' = [u \in Threads |-> << >>]
    BY <1>6 DEF Restart
  <2>3. CountersHonest'
    <3>1. RowsOfThisProcess' = RowsFrom(file', next' - pushes')
      BY DEF RowsOfThisProcess, RowsFrom
    <3>2. Cardinality(RowsFrom(file', next' - pushes')) \in Nat
      BY <2>1, RowsFromFinite
    <3> QED
      BY <2>2, <3>1, <3>2 DEF CountersHonest
  <2> QED
    BY <2>2, <2>3, EmptyBatch DEF OwnPackets
<1>7. \/ UNCHANGED <<buffer, batch, file, written, pushes, next>>
      \/ Start \/ Push \/ Restart \/ \E t \in Threads : Drain(t) \/ Write(t)
  BY DEF Next, Main, Writer, Environment, Done, StopFlag, Notify, Join, Loop,
         Lock, Check, Block, JoinTransport, Timeout, SpuriousWakeup, vars,
         threadVars, dataVars, countVars, envVars, Threads
<1> QED
  BY <1>1, <1>2, <1>3, <1>4, <1>5, <1>6, <1>7

(* When the disk reports its failures, the number main logs as "written"   *)
(* never exceeds the rows that this process put into the file.             *)
THEOREM StorageCountersHonest ==
  ASSUME ~SilentFailures PROVE Spec => []CountersHonest
<1>1. Init => CountersInv
  BY InitCounters
<1>2. IInv /\ CountersInv /\ [Next]_vars => CountersInv'
  BY NextCounters
<1>3. CountersInv => CountersHonest
  BY DEF CountersInv
<1> QED
  BY <1>1, <1>2, <1>3, StorageInvariant, PTL DEF Spec
=============================================================================
