--------------------------------- MODULE Lists ---------------------------------
(* What the code does with its std::vectors and standard algorithms.       *)
EXTENDS Naturals, Sequences

(* std::remove_if and erase: the elements of s that are in S, in order.    *)
(* It is SelectSeq, as a function that proofs can look into.               *)
Kept(s, S) ==
  LET kept[i \in 0 .. Len(s)] ==
        IF i = 0 THEN << >>
        ELSE IF s[i] \in S THEN Append(kept[i - 1], s[i]) ELSE kept[i - 1]
  IN  kept[Len(s)]
=============================================================================
