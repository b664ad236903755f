----------------------------- MODULE RingBuffer -----------------------------
(***************************************************************************)
(* RingBuffer<T> of src/server/include/ringbuffer/ringbuffer.hpp: the      *)
(* array with its head_, tail_ and count_, and the condition variable on   *)
(* which drain() blocks.  Every member function runs under mutex_, and     *)
(* cv_.wait releases it atomically, so an action is one critical section.  *)
(***************************************************************************)
EXTENDS Naturals, Sequences

CONSTANTS
  Items,      (* the values of T that are pushed *)
  Consumers,  (* threads that call drain() or drain_nowait() *)
  Capacity,   (* capacity_ *)
  Empty       (* a slot that was never written: T() *)

(* apply_conf and parse_size refuse a buffer size of 0. *)
ASSUME CapacityAssumption == Capacity \in Nat \ {0}
ASSUME EmptyAssumption == Empty \notin Items

VARIABLES
  buffer,     (* buffer_ *)
  head,       (* head_: the oldest item *)
  tail,       (* tail_: where the next item goes *)
  count,      (* count_ *)
  stopped,    (* stopped_ *)
  state,      (* "idle", "waiting" on cv_, or "woken" and not yet running *)
  accepted,   (* what the last try_push() returned *)
  got         (* what each consumer's last drain returned *)

vars == <<buffer, head, tail, count, stopped, state, accepted, got>>

Slots == 0 .. Capacity - 1

(* A mutant of Succ that wraps one slot early. *)
SuccShort(i) == IF i + 2 >= Capacity THEN 0 ELSE i + 1

Succ(i) == (i + 1) % Capacity

(* The slot j places after the oldest one. *)
SlotAt(j) == (head + j) % Capacity

(* The items a drain would return. *)
Contents == [i \in 1 .. count |-> buffer[SlotAt(i - 1)]]

Waiting == {c \in Consumers : state[c] = "waiting"}
Woken == {c \in Consumers : state[c] = "woken"}

Init ==
  /\ buffer = [i \in Slots |-> Empty]
  /\ head = 0 /\ tail = 0 /\ count = 0
  /\ stopped = FALSE
  /\ state = [c \in Consumers |-> "idle"]
  /\ accepted = TRUE
  /\ got = [c \in Consumers |-> [by |-> "none", batch |-> << >>]]

-----------------------------------------------------------------------------
(* cv_.notify_one() wakes one waiting thread, if there is one. *)
NotifyOne ==
  \/ \E c \in Waiting : state' = [state EXCEPT ![c] = "woken"]
  \/ Waiting = {} /\ UNCHANGED state

(* A mutant of NotifyAll: stop() calls notify_one. *)
NotifyAllButOne == NotifyOne

NotifyAll ==
  state' = [c \in Consumers |-> IF c \in Waiting THEN "woken" ELSE state[c]]

TryPushFull ==
  /\ count = Capacity
  /\ accepted' = FALSE
  /\ UNCHANGED <<buffer, head, tail, count, stopped, state, got>>

(* A mutant of TryPush without the notification. *)
TryPushSilent(x) ==
  /\ count # Capacity
  /\ buffer' = [buffer EXCEPT ![tail] = x]
  /\ tail' = Succ(tail)
  /\ count' = count + 1
  /\ accepted' = TRUE
  /\ UNCHANGED <<head, stopped, state, got>>

TryPush(x) ==
  /\ count # Capacity
  /\ buffer' = [buffer EXCEPT ![tail] = x]
  /\ tail' = Succ(tail)
  /\ count' = count + 1
  /\ NotifyOne
  /\ accepted' = TRUE
  /\ UNCHANGED <<head, stopped, got>>

(* A mutant of PopAll that forgets to move head_. *)
PopAllHeadKept(c, how) ==
  /\ got' = [got EXCEPT ![c] = [by |-> how, batch |-> Contents]]
  /\ count' = 0
  /\ UNCHANGED <<buffer, head, tail, stopped, accepted>>

(* The loop both drains share: pop from head_ until count_ is 0. *)
PopAll(c, how) ==
  /\ got' = [got EXCEPT ![c] = [by |-> how, batch |-> Contents]]
  /\ head' = SlotAt(count)
  /\ count' = 0
  /\ UNCHANGED <<buffer, tail, stopped, accepted>>

(* The predicate of cv_.wait in drain(). *)
Ready == count > 0 \/ stopped

DrainWait(c) ==
  /\ state[c] \in {"idle", "woken"}
  /\ ~Ready
  /\ state' = [state EXCEPT ![c] = "waiting"]
  /\ UNCHANGED <<buffer, head, tail, count, stopped, accepted, got>>

Drain(c) ==
  /\ state[c] \in {"idle", "woken"}
  /\ Ready
  /\ PopAll(c, "drain")
  /\ state' = [state EXCEPT ![c] = "idle"]

DrainNowait(c) ==
  /\ state[c] = "idle"
  /\ PopAll(c, "drain_nowait")
  /\ UNCHANGED state

Stop ==
  /\ stopped' = TRUE
  /\ NotifyAll
  /\ UNCHANGED <<buffer, head, tail, count, accepted, got>>

(* A condition variable may wake a thread that nobody notified. *)
SpuriousWakeup(c) ==
  /\ c \in Waiting
  /\ state' = [state EXCEPT ![c] = "woken"]
  /\ UNCHANGED <<buffer, head, tail, count, stopped, accepted, got>>

Next ==
  \/ TryPushFull
  \/ \E x \in Items : TryPush(x)
  \/ \E c \in Consumers :
       DrainWait(c) \/ Drain(c) \/ DrainNowait(c) \/ SpuriousWakeup(c)
  \/ Stop

(* A thread that was woken runs again.  Nobody has to push, call a drain   *)
(* or stop, and spurious wakeups are not to be relied on.                  *)
Resume(c) == state[c] = "woken" /\ (Drain(c) \/ DrainWait(c))

Fairness == \A c \in Consumers : WF_vars(Resume(c))

Spec == Init /\ [][Next]_vars

FairSpec == Spec /\ Fairness
-----------------------------------------------------------------------------
TypeOK ==
  /\ buffer \in [Slots -> Items \cup {Empty}]
  /\ head \in Slots
  /\ tail \in Slots
  /\ count \in 0 .. Capacity
  /\ stopped \in BOOLEAN
  /\ state \in [Consumers -> {"idle", "waiting", "woken"}]
  /\ accepted \in BOOLEAN
  /\ got \in [Consumers -> [by : {"none", "drain", "drain_nowait"},
                            batch : Seq(Items)]]

(* head_, tail_ and count_ are three counters for two facts: tail_ is      *)
(* count_ places after head_, wherever the indices wrap around.            *)
IndicesAgree == tail = SlotAt(count)

(* A slot that holds a live item was written by try_push: no drain returns *)
(* a default-constructed T.                                                *)
LiveSlotsWritten == \A j \in 0 .. count - 1 : buffer[SlotAt(j)] \in Items

(* notify_one is enough: while the buffer holds items and a consumer is    *)
(* blocked in drain(), some consumer has been woken and will take them;    *)
(* and once stop() was called nobody is blocked.                           *)
NoLostWakeup ==
  /\ (count > 0 /\ Waiting # {}) => Woken # {}
  /\ stopped => Waiting = {}

(* Every drain() in progress when stop() was called returns.               *)
StopUnblocks ==
  \A c \in Consumers : (stopped /\ state[c] # "idle") ~> state[c] = "idle"

(* The buffer is a bounded FIFO queue: indices, slots and wakeups          *)
(* implement the abstract specification.                                   *)
Queue == INSTANCE BoundedQueue WITH queue <- Contents, closed <- stopped

ImplementsQueue == Queue!Spec
=============================================================================
