----------------------------- MODULE ClientConfig -----------------------------
(***************************************************************************)
(* How the client gets its configuration: parse_args (conf_argparse.h) and *)
(* validate_config (conf_validator.c).  A file is not read: the code that  *)
(* would is commented out.                                                 *)
(***************************************************************************)
EXTENDS Values, SequencesExt

(* app_config_t, but for texts that are treated as those listed here.      *)
ClientDefaults ==
  [protocol |-> "ws", host |-> "localhost", port |-> 1883,
   topic |-> "sensors/accel", qos |-> 0, keepalive |-> 60, clean |-> TRUE,
   will_qos |-> 0, duration |-> 10, rate |-> 10, timeout |-> 10000, noise |-> 0,
   retain |-> FALSE]

(* Flag, setting, and how its value is read. *)
ClientFlags ==
  {<<"--protocol", "protocol", "text">>, <<"--host", "host", "text">>,
   <<"--port", "port", "uint16">>, <<"--topic", "topic", "text">>,
   <<"--qos", "qos", "int">>, <<"--keepalive", "keepalive", "int">>,
   <<"--no-clean", "clean", "off">>, <<"--will-qos", "will_qos", "int">>,
   <<"--duration", "duration", "double">>, <<"--rate", "rate", "double">>,
   <<"--timeout", "timeout", "uint32">>, <<"--noise", "noise", "double">>,
   <<"--retain", "retain", "on">>}

(* atoi() *)
Atoi(raw) == IF HasDigits(raw) THEN ToInt(raw.n) ELSE 0

(* (uint16_t)atoi(): 65537 is port 1. *)
Port(raw) == Atoi(raw) % 65536

ClientValue(rule, raw) ==
  CASE rule = "on" -> TRUE
    [] rule = "off" -> FALSE
    [] rule = "text" -> raw.w
    [] rule = "uint16" -> Port(raw)
    [] rule = "uint32" -> Atoi(raw) % IntMod
    [] rule = "int" -> Atoi(raw)
    [] rule = "double" -> IF HasDigits(raw) THEN raw.n ELSE 0

(* One turn of the loop; a flag without its value is an unknown argument.  *)
ParseClientArg(argv, acc, i) ==
  LET rows == {f \in ClientFlags :
                 f[1] = argv[i].w /\ (f[3] \in {"on", "off"} \/ i < Len(argv))}
  IN  IF acc.help \/ acc.taken THEN [acc EXCEPT !.taken = FALSE]
      ELSE IF argv[i].w = "--help" THEN [acc EXCEPT !.help = TRUE]
      ELSE IF rows = {} THEN acc
      ELSE LET f == CHOOSE r \in rows : TRUE
           IN  [cfg |-> [acc.cfg EXCEPT
                           ![f[2]] = ClientValue(f[3], Argument(argv, i + 1))],
                taken |-> f[3] \notin {"on", "off"}, help |-> FALSE]

ParseClient(argv) ==
  FoldLeft(LAMBDA acc, i : ParseClientArg(argv, acc, i),
           [cfg |-> ClientDefaults, taken |-> FALSE, help |-> FALSE],
           [i \in DOMAIN argv |-> i])

(* The largest rate, in packets per second. *)
MaxRate == 10000

(* A mutant of Valid: the quality of service is not looked at. *)
ValidAnyQos(cfg) ==
  cfg.port # 0 /\ cfg.rate \in 1 .. MaxRate /\ cfg.duration > 0 /\ cfg.keepalive >= 0

(* validate_config().  The test of the protocol is never true: it compares *)
(* the result of ! with a string.                                          *)
Valid(cfg) ==
  /\ cfg.port # 0
  /\ {cfg.qos, cfg.will_qos} \subseteq 0 .. 2
  /\ cfg.rate \in 1 .. MaxRate /\ cfg.duration > 0 /\ cfg.keepalive >= 0
=============================================================================
