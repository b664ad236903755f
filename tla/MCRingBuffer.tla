---------------------------- MODULE MCRingBuffer ----------------------------
(* Two kinds of items are enough to tell a batch in order from one that is *)
(* not; three slots let head_ and tail_ wrap at different times.           *)
EXTENDS RingBuffer

CONSTANTS a, b, c1, c2, empty

MCItems == {a, b}
MCConsumers == {c1, c2}
=============================================================================
