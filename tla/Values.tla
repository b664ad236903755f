-------------------------------- MODULE Values --------------------------------
(***************************************************************************)
(* Values as a user writes them in a file or on a command line.  What the  *)
(* parsers tell apart is whether one is empty, a number, a number followed *)
(* by other text, or another word.                                         *)
(***************************************************************************)
EXTENDS Integers, Sequences

CONSTANTS
  IntMod,      (* 2^32, the width of int and uint32_t *)
  SizeMod      (* 2^64, the width of size_t *)

ASSUME WidthAssumption ==
  /\ {IntMod, SizeMod} \subseteq Nat
  /\ IntMod % 2 = 0 /\ 131072 <= IntMod /\ IntMod <= SizeMod

NoText == "(empty)"  (* stands for the empty text *)
Raws == [kind : {"empty", "word", "number", "partial"}, w : STRING, n : Int]
Raw(kind, w, n) == [kind |-> kind, w |-> w, n |-> n]
Absent == Raw("absent", NoText, 0)
Empty == Raw("empty", NoText, 0)
Word(w) == Raw("word", w, 0)
Number(n) == Raw("number", "digits", n)
Partial(n) == Raw("partial", "digits and more", n)

HasDigits(raw) == raw.kind \in {"number", "partial"}
ToInt(n) == ((n + IntMod \div 2) % IntMod) - IntMod \div 2
ToSize(n) == n % SizeMod
Yes(raw) == raw = Word("true") \/ raw = Number(1)
No(raw) == raw = Word("false") \/ raw = Number(0)
Protocols == {"mqtt", "ws"}

Argument(argv, i) == IF i \in DOMAIN argv THEN argv[i] ELSE Absent
=============================================================================
