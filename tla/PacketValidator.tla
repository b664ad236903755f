---------------------------- MODULE PacketValidator ----------------------------
(***************************************************************************)
(* PacketValidator::parse (packet_validator.cpp): what becomes of one      *)
(* payload of the transport.                                               *)
(*                                                                         *)
(* A payload is what the extractors find in it: the fields "ts" and "seq", *)
(* Missing where there is no number, and the acceleration values in order, *)
(* up to the first that cannot be read.  Values are integers, or NotANumber*)
(* which strtod accepts and no comparison rejects.                         *)
(***************************************************************************)
EXTENDS Widths, Sequences

CONSTANTS
  Missing,
  NotANumber

Formats == {"native", "android"}
Results == {"ok", "missing fields", "out of range"}

(* The format "android" is one that detect_android_format() accepts. *)
Payload(format, ts, seq, acc) ==
  [format |-> format, ts |-> ts, seq |-> seq, acc |-> acc]
Packet(ts, seq) == [ts |-> ts, seq |-> seq]

(* extract_uint32(): a number above the type is no number. *)
Uint32(x) == IF x # Missing /\ x < U32 THEN x ELSE Missing

(* validate_range() compares each axis with both limits. *)
ValidateRange(acc, limit) ==
  \A i \in DOMAIN acc : acc[i] = NotANumber \/ (-limit <= acc[i] /\ acc[i] <= limit)

Judge(acc, limit) ==
  IF Len(acc) < 3 THEN "missing fields"
  ELSE IF ~ValidateRange(acc, limit) THEN "out of range" ELSE "ok"

Parsed(result, packet, counter) ==
  [result |-> result, packet |-> packet, counter |-> counter]

(* A mutant of ParseAndroid: the counter moves for accepted packets only.  *)
ParseAndroidLate(payload, vcfg, now, counter) ==
  LET result == Judge(payload.acc, vcfg.limit)
  IN  Parsed(result, Packet(now, counter),
             IF result = "ok" THEN (counter + 1) % U32 ELSE counter)

(* parse_android(): server time, and the next number of the counter, which *)
(* is taken before the values are looked at.                               *)
ParseAndroid(payload, vcfg, now, counter) ==
  Parsed(Judge(payload.acc, vcfg.limit), Packet(now, counter),
         (counter + 1) % U32)

(* The rest of parse(): ts 0 counts as absent; seq may be 0 if optional.   *)
ParseNative(payload, vcfg, now, counter) ==
  LET noTs == payload.ts \in {Missing, 0}
      seq == Uint32(payload.seq)
      packet == Packet(IF noTs THEN now ELSE payload.ts,
                       IF seq = Missing THEN 0 ELSE seq)
      short == \/ noTs /\ vcfg.timesource = "external"
               \/ seq = Missing /\ ~vcfg.seq_optional
  IN  Parsed(IF short THEN "missing fields" ELSE Judge(payload.acc, vcfg.limit),
             packet, counter)

Parse(payload, vcfg, now, counter) ==
  IF payload.format = "android"
  THEN ParseAndroid(payload, vcfg, now, counter)
  ELSE ParseNative(payload, vcfg, now, counter)

(* ValidatorConfig as main() builds it; parse_timesource() takes any other *)
(* word for "external", and the limit is derived from the range of the     *)
(* device unless one is given.  ScaleG stands for 9.80665.                 *)
ValidatorConfig(cfg, ScaleG) ==
  [timesource |-> IF cfg.timesource = "host" THEN "host" ELSE "external",
   seq_optional |-> cfg.seq_optional,
   limit |-> IF cfg.max_acc > 0 THEN cfg.max_acc ELSE cfg.range * ScaleG]
=============================================================================
