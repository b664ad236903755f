---------------------------- MODULE BoundedQueue ----------------------------
(***************************************************************************)
(* What RingBuffer<T> (ringbuffer.hpp) promises its callers, without       *)
(* indices, mutex or condition variable: a FIFO queue of at most Capacity  *)
(* items that is taken whole, rejects an item only when it is full, and    *)
(* lets a blocking take return an empty batch only after it was closed.    *)
(***************************************************************************)
EXTENDS Naturals, Sequences

CONSTANTS
  Items,      (* what may be pushed *)
  Consumers,  (* threads that drain *)
  Capacity    (* capacity_ *)

VARIABLES
  queue,      (* the items pushed and not yet drained, oldest first *)
  closed,     (* stop() was called *)
  accepted,   (* what the last try_push() returned *)
  got         (* what each consumer's last drain returned *)

qvars == <<queue, closed, accepted, got>>

Nothing == [by |-> "none", batch |-> << >>]

Init ==
  /\ queue = << >>
  /\ closed = FALSE
  /\ accepted = TRUE
  /\ got = [c \in Consumers |-> Nothing]

Offer(x) ==
  /\ Len(queue) < Capacity
  /\ queue' = Append(queue, x)
  /\ accepted' = TRUE
  /\ UNCHANGED <<closed, got>>

Reject ==
  /\ Len(queue) = Capacity
  /\ accepted' = FALSE
  /\ UNCHANGED <<queue, closed, got>>

(* A batch is everything in the queue, in order, and leaves it empty. *)
TakeAll(c, how) ==
  /\ got' = [got EXCEPT ![c] = [by |-> how, batch |-> queue]]
  /\ queue' = << >>
  /\ UNCHANGED <<closed, accepted>>

BlockingTake(c) == (queue # << >> \/ closed) /\ TakeAll(c, "drain")

TakeNow(c) == TakeAll(c, "drain_nowait")

Close == closed' = TRUE /\ UNCHANGED <<queue, accepted, got>>

Next ==
  \/ \E x \in Items : Offer(x)
  \/ Reject
  \/ \E c \in Consumers : BlockingTake(c) \/ TakeNow(c)
  \/ Close

Spec == Init /\ [][Next]_qvars
=============================================================================
