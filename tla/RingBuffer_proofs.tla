-------------------------- MODULE RingBuffer_proofs --------------------------
(***************************************************************************)
(* RingBuffer, for every capacity, item set and consumer set: its indices  *)
(* and slots are consistent, no wakeup is lost, and it implements the      *)
(* bounded FIFO queue of BoundedQueue.                                     *)
(***************************************************************************)
EXTENDS RingBuffer, SequenceTheorems, TLAPS

(* Going j places round the ring wraps at most once. *)
LEMMA SlotAtValue ==
  ASSUME head \in Slots, NEW j \in 0 .. Capacity
  PROVE  /\ SlotAt(j) \in Slots
         /\ SlotAt(j) = IF head + j < Capacity THEN head + j
                                               ELSE head + j - Capacity
  BY CapacityAssumption DEF SlotAt, Slots

(* tail_ advances by one slot, or from the last slot to slot 0. *)
LEMMA SuccValue ==
  ASSUME NEW i \in Slots
  PROVE  /\ Succ(i) \in Slots
         /\ Succ(i) = IF i + 1 = Capacity THEN 0 ELSE i + 1
  BY CapacityAssumption DEF Succ, Slots

(* Two places less than Capacity apart are two slots. *)
LEMMA SlotAtInjective ==
  ASSUME head \in Slots, NEW j \in 0 .. Capacity, NEW k \in 0 .. Capacity,
         j < k, k < Capacity
  PROVE  SlotAt(j) # SlotAt(k)
  BY SlotAtValue, CapacityAssumption DEF Slots

(* The live items form a sequence of items, of length count_. *)
LEMMA ContentsIsSeq ==
  ASSUME TypeOK, LiveSlotsWritten
  PROVE  /\ Contents \in [1 .. count -> Items]
         /\ Contents \in Seq(Items)
         /\ Len(Contents) = count
<1>1. count \in Nat
  BY CapacityAssumption DEF TypeOK
<1>2. ASSUME NEW i \in 1 .. count
      PROVE  buffer[SlotAt(i - 1)] \in Items
  BY <1>1 DEF LiveSlotsWritten
<1>3. Contents \in [1 .. count -> Items]
  BY <1>2 DEF Contents
<1>4. Contents \in Seq(Items)
  BY <1>1, <1>3, SeqDef
<1>5. Len(Contents) = count
  BY <1>1, <1>4, LenProperties DEF Contents
<1> QED
  BY <1>3, <1>4, <1>5

-----------------------------------------------------------------------------
(***************************************************************************)
(* The inductive invariant.  LiveSlotsWritten needs IndicesAgree: a push   *)
(* writes at tail_, and only tail = SlotAt(count) makes that the slot the  *)
(* new item is read from.  The types need LiveSlotsWritten: a batch is a   *)
(* sequence of items only if every live slot holds one.                    *)
(***************************************************************************)
IInv == TypeOK /\ IndicesAgree /\ LiveSlotsWritten /\ NoLostWakeup

LEMMA InitIInv == Init => IInv
<1> SUFFICES ASSUME Init PROVE IInv
  OBVIOUS
<1>1. head \in Slots /\ count \in 0 .. Capacity
  BY CapacityAssumption DEF Init, Slots
<1>2. TypeOK
  BY <1>1, EmptySeq, CapacityAssumption DEF Init, TypeOK
<1>3. IndicesAgree
  BY <1>1, SlotAtValue, CapacityAssumption DEF Init, IndicesAgree, Slots
<1>4. LiveSlotsWritten
  BY DEF Init, LiveSlotsWritten
<1>5. NoLostWakeup
  BY DEF Init, NoLostWakeup, Waiting
<1> QED
  BY <1>2, <1>3, <1>4, <1>5 DEF IInv

(* A push keeps the invariant. *)
LEMMA TryPushIInv ==
  ASSUME IInv, NEW x \in Items, TryPush(x)
  PROVE  IInv'
<1> USE DEF IInv
<1>1. count < Capacity /\ count' = count + 1 /\ count \in Nat
  BY CapacityAssumption DEF TypeOK, TryPush
<1>2. head' = head /\ tail' = Succ(tail)
  BY DEF TryPush
<1>3. state' \in [Consumers -> {"idle", "waiting", "woken"}]
  BY DEF TypeOK, TryPush, NotifyOne, Waiting
<1>4. TypeOK'
  BY <1>1, <1>3, SuccValue, CapacityAssumption DEF TypeOK, TryPush
<1>5. IndicesAgree'
  <2>1. tail = SlotAt(count)
    BY DEF IndicesAgree
  <2>2. SlotAt(count)' = SlotAt(count')
    BY <1>2 DEF SlotAt
  <2>3. IndicesAgree' <=> Succ(tail) = SlotAt(count + 1)
    BY <1>1, <1>2, <2>2 DEF IndicesAgree
  <2>4. /\ head \in 0 .. Capacity - 1 /\ tail \in 0 .. Capacity - 1
        /\ tail = IF head + count < Capacity THEN head + count
                                             ELSE head + count - Capacity
    BY <2>1, SlotAtValue DEF TypeOK, Slots
  <2>5. SlotAt(count + 1) = IF head + (count + 1) < Capacity
                            THEN head + (count + 1)
                            ELSE head + (count + 1) - Capacity
    BY <1>1, SlotAtValue, CapacityAssumption DEF TypeOK
  <2>6. Succ(tail) = IF tail + 1 = Capacity THEN 0 ELSE tail + 1
    BY SuccValue DEF TypeOK
  <2> QED
    BY <1>1, <2>3, <2>4, <2>5, <2>6, CapacityAssumption
<1>6. LiveSlotsWritten'
  <2> SUFFICES ASSUME NEW j \in 0 .. count PROVE buffer'[SlotAt(j)] \in Items
    BY <1>1, <1>2 DEF LiveSlotsWritten, SlotAt
  <2>1. j \in 0 .. Capacity /\ SlotAt(j) \in Slots
    BY <1>1, SlotAtValue, CapacityAssumption DEF TypeOK
  <2>2. CASE j = count
    BY <2>2, <2>1 DEF IndicesAgree, TryPush, TypeOK
  <2>3. CASE j # count
    <3>1. j \in 0 .. count - 1
      BY <1>1, <2>3
    <3>2. buffer[SlotAt(j)] \in Items
      BY <3>1 DEF LiveSlotsWritten
    <3> QED
      BY <3>2, <2>1 DEF TryPush, TypeOK
  <2> QED
    BY <2>2, <2>3
<1>7. NoLostWakeup'
  <2>1. stopped' = stopped
    BY DEF TryPush
  <2>2. CASE Waiting = {} /\ UNCHANGED state
    BY <2>1, <2>2 DEF NoLostWakeup, Waiting, Woken
  <2>3. ASSUME NEW c \in Waiting, state' = [state EXCEPT ![c] = "woken"]
        PROVE  NoLostWakeup'
    <3>1. c \in Woken' /\ ~stopped
      BY <2>3 DEF NoLostWakeup, Waiting, Woken, TypeOK
    <3> QED
      BY <3>1, <2>1 DEF NoLostWakeup
  <2> QED
    BY <2>2, <2>3 DEF TryPush, NotifyOne
<1> QED
  BY <1>4, <1>5, <1>6, <1>7

(* So does a drain, blocking or not: both empty the ring with PopAll. *)
LEMMA PopAllIInv ==
  ASSUME IInv, NEW c \in Consumers, NEW how \in {"drain", "drain_nowait"},
         PopAll(c, how),
         state' = state \/ state' = [state EXCEPT ![c] = "idle"]
  PROVE  IInv'
<1> USE DEF IInv
<1>1. count \in 0 .. Capacity /\ SlotAt(count) \in Slots
  BY SlotAtValue DEF TypeOK
<1>2. TypeOK'
  <2>1. [by |-> how, batch |-> Contents]
          \in [by : {"none", "drain", "drain_nowait"}, batch : Seq(Items)]
    BY ContentsIsSeq
  <2>2. got' \in [Consumers -> [by : {"none", "drain", "drain_nowait"},
                                batch : Seq(Items)]]
    BY <2>1 DEF TypeOK, PopAll
  <2>3. state' \in [Consumers -> {"idle", "waiting", "woken"}]
    BY DEF TypeOK
  <2> QED
    BY <1>1, <2>2, <2>3, CapacityAssumption DEF TypeOK, PopAll
<1>3. IndicesAgree'
  <2>1. head' = tail /\ tail' = tail /\ count' = 0
    BY DEF PopAll, IndicesAgree
  <2>2. tail \in Slots /\ SlotAt(0)' = (tail + 0) % Capacity
    BY <2>1 DEF SlotAt, TypeOK
  <2> QED
    BY <2>1, <2>2, CapacityAssumption DEF IndicesAgree, SlotAt, Slots
<1>4. LiveSlotsWritten'
  BY DEF LiveSlotsWritten, PopAll
<1>5. NoLostWakeup'
  BY DEF NoLostWakeup, PopAll, Waiting, TypeOK
<1> QED
  BY <1>2, <1>3, <1>4, <1>5

LEMMA NextIInv == IInv /\ [Next]_vars => IInv'
<1> SUFFICES ASSUME IInv, [Next]_vars PROVE IInv'
  OBVIOUS
<1> USE DEF IInv
<1>1. CASE TryPushFull
  BY <1>1 DEF TryPushFull, TypeOK, IndicesAgree, LiveSlotsWritten,
              NoLostWakeup, SlotAt, Waiting, Woken
<1>2. ASSUME NEW x \in Items, TryPush(x) PROVE IInv'
  BY <1>2, TryPushIInv
<1>3. ASSUME NEW c \in Consumers, DrainWait(c) PROVE IInv'
  BY <1>3 DEF DrainWait, Ready, TypeOK, IndicesAgree, LiveSlotsWritten,
              NoLostWakeup, SlotAt, Waiting, Woken
<1>4. ASSUME NEW c \in Consumers, Drain(c) PROVE IInv'
  BY <1>4, PopAllIInv DEF Drain
<1>5. ASSUME NEW c \in Consumers, DrainNowait(c) PROVE IInv'
  BY <1>5, PopAllIInv DEF DrainNowait
<1>6. ASSUME NEW c \in Consumers, SpuriousWakeup(c) PROVE IInv'
  BY <1>6 DEF SpuriousWakeup, TypeOK, IndicesAgree, LiveSlotsWritten,
              NoLostWakeup, SlotAt, Waiting, Woken
<1>7. CASE Stop
  BY <1>7 DEF Stop, NotifyAll, TypeOK, IndicesAgree, LiveSlotsWritten,
              NoLostWakeup, SlotAt, Waiting, Woken
<1>8. CASE UNCHANGED vars
  BY <1>8 DEF vars, TypeOK, IndicesAgree, LiveSlotsWritten,
              NoLostWakeup, SlotAt, Waiting, Woken
<1> QED
  BY <1>1, <1>2, <1>3, <1>4, <1>5, <1>6, <1>7, <1>8 DEF Next

(* The inductive invariant holds in every reachable state. *)
THEOREM RingInvariant == Spec => []IInv
  BY InitIInv, NextIInv, PTL DEF Spec

(* Every variable keeps its type: the indices stay inside the array. *)
THEOREM RingTypeCorrect == Spec => []TypeOK
  BY RingInvariant, PTL DEF IInv

(* try_push writes where the next drain will look. *)
THEOREM RingIndicesAgree == Spec => []IndicesAgree
  BY RingInvariant, PTL DEF IInv

(* No drain returns a slot that was never written. *)
THEOREM RingLiveSlotsWritten == Spec => []LiveSlotsWritten
  BY RingInvariant, PTL DEF IInv

(* notify_one never strands an item, stop() strands no consumer. *)
THEOREM RingNoLostWakeup == Spec => []NoLostWakeup
  BY RingInvariant, PTL DEF IInv
-----------------------------------------------------------------------------
(***************************************************************************)
(* Refinement: Contents is the queue.  A push appends to it, a drain       *)
(* empties it, and every other step leaves it as it was.                   *)
(***************************************************************************)

(* The push that finds a free slot is an Offer of the abstract queue. *)
LEMMA TryPushRefines ==
  ASSUME IInv, NEW x \in Items, TryPush(x)
  PROVE  Queue!Offer(x)
<1> USE DEF IInv
<1>1. count < Capacity /\ count \in Nat /\ count' = count + 1
  BY CapacityAssumption DEF TypeOK, TryPush
<1>2. Contents \in Seq(Items) /\ Len(Contents) = count
  BY ContentsIsSeq
<1>3. \A j \in 0 .. count : SlotAt(j)' = SlotAt(j)
  BY DEF TryPush, SlotAt
<1>4. Contents' = [i \in 1 .. count + 1 |-> buffer'[SlotAt(i - 1)]]
  BY <1>1 DEF Contents, TryPush, SlotAt
<1>5. buffer'[SlotAt(count)] = x
  BY <1>1, SlotAtValue, CapacityAssumption DEF TypeOK, IndicesAgree, TryPush
<1>6. ASSUME NEW i \in 1 .. count
      PROVE  buffer'[SlotAt(i - 1)] = buffer[SlotAt(i - 1)]
  <2>1. i - 1 \in 0 .. Capacity /\ i - 1 < count
    BY <1>1, <1>6, CapacityAssumption
  <2>2. head \in Slots /\ count \in 0 .. Capacity /\ tail = SlotAt(count)
    BY DEF TypeOK, IndicesAgree
  <2>3. SlotAt(i - 1) # tail
    <3>1. \A j, k \in 0 .. Capacity :
            (j < k /\ k < Capacity) => SlotAt(j) # SlotAt(k)
      BY <2>2, SlotAtInjective
    <3> QED
      BY <1>1, <2>1, <2>2, <3>1
  <2>4. SlotAt(i - 1) \in Slots
    BY <2>1, <2>2, SlotAtValue
  <2> QED
    BY <2>3, <2>4 DEF TryPush, TypeOK
<1>7. Contents' = Append(Contents, x)
  <2>1. /\ Append(Contents, x) \in [1 .. count + 1 -> Items]
        /\ \A i \in 1 .. count : Append(Contents, x)[i] = Contents[i]
        /\ Append(Contents, x)[count + 1] = x
    <3>1. /\ Append(Contents, x) \in Seq(Items)
          /\ Len(Append(Contents, x)) = count + 1
          /\ \A i \in 1 .. Len(Contents) :
               Append(Contents, x)[i] = Contents[i]
          /\ Append(Contents, x)[Len(Contents) + 1] = x
      BY <1>2, AppendProperties
    <3> QED
      BY <1>2, <3>1, LenProperties
  <2>2. ASSUME NEW i \in 1 .. count + 1
        PROVE  buffer'[SlotAt(i - 1)] = Append(Contents, x)[i]
    <3>1. CASE i = count + 1
      <4>1. i - 1 = count
        BY <3>1, <1>1
      <4> QED
        BY <3>1, <4>1, <1>5, <2>1
    <3>2. CASE i # count + 1
      <4>1. i \in 1 .. count
        BY <3>2, <1>1
      <4> QED
        BY <4>1, <1>6, <2>1 DEF Contents
    <3> QED
      BY <3>1, <3>2
  <2> QED
    BY <1>4, <2>1, <2>2
<1> QED
  BY <1>1, <1>2, <1>7 DEF Queue!Offer, TryPush

(* PopAll takes the whole queue. *)
LEMMA PopAllRefines ==
  ASSUME IInv, NEW c \in Consumers, NEW how, PopAll(c, how)
  PROVE  Queue!TakeAll(c, how)
<1>1. Contents' = << >>
  BY DEF Contents, PopAll
<1> QED
  BY <1>1 DEF Queue!TakeAll, PopAll

LEMMA NextRefines == IInv /\ [Next]_vars => [Queue!Next]_(Queue!qvars)
<1> SUFFICES ASSUME IInv, [Next]_vars PROVE [Queue!Next]_(Queue!qvars)
  OBVIOUS
<1> USE DEF IInv
<1>1. Contents \in Seq(Items) /\ Len(Contents) = count
  BY ContentsIsSeq
<1>2. UNCHANGED <<buffer, head, count>> => Contents' = Contents
  BY DEF Contents, SlotAt
<1>3. CASE TryPushFull
  BY <1>1, <1>2, <1>3 DEF TryPushFull, Queue!Next, Queue!Reject
<1>4. ASSUME NEW x \in Items, TryPush(x) PROVE Queue!Next
  BY <1>4, TryPushRefines DEF Queue!Next
<1>5. ASSUME NEW c \in Consumers, Drain(c) PROVE Queue!Next
  <2>1. Contents # << >> \/ stopped
    BY <1>1, <1>5, EmptySeq DEF Drain, Ready
  <2>2. Queue!TakeAll(c, "drain")
    BY <1>5, PopAllRefines DEF Drain
  <2> QED
    BY <2>1, <2>2 DEF Queue!Next, Queue!BlockingTake
<1>6. ASSUME NEW c \in Consumers, DrainNowait(c) PROVE Queue!Next
  BY <1>6, PopAllRefines DEF DrainNowait, Queue!Next, Queue!TakeNow
<1>7. CASE Stop
  BY <1>2, <1>7 DEF Stop, Queue!Next, Queue!Close
<1>8. CASE \/ \E c \in Consumers : DrainWait(c) \/ SpuriousWakeup(c)
           \/ UNCHANGED vars
  BY <1>2, <1>8 DEF DrainWait, SpuriousWakeup, vars, Queue!qvars
<1> QED
  BY <1>3, <1>4, <1>5, <1>6, <1>7, <1>8 DEF Next

(* The ring buffer implements the bounded FIFO queue: every batch is what  *)
(* was pushed since the last one, whole and in order, an item is refused   *)
(* only when the ring is full, and a blocking drain returns an empty batch *)
(* only after stop().                                                      *)
THEOREM RingImplementsQueue == Spec => ImplementsQueue
<1>1. Init => Queue!Init
  BY DEF Init, Queue!Init, Queue!Nothing, Contents
<1>2. IInv /\ [Next]_vars => [Queue!Next]_(Queue!qvars)
  BY NextRefines
<1> QED
  BY <1>1, <1>2, RingInvariant, PTL DEF Spec, ImplementsQueue, Queue!Spec
=============================================================================
