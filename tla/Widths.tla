-------------------------------- MODULE Widths --------------------------------
(* The widths of the server's unsigned arithmetic, reduced for TLC.        *)
EXTENDS Integers

CONSTANTS
  U32,      (* 2^32, the width of a sequence number *)
  TimeMod   (* 2^64, the width of a time in ms *)

ASSUME WidthsAssumption == {U32, TimeMod} \subseteq Nat \ {0, 1}
=============================================================================
