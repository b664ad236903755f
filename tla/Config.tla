-------------------------------- MODULE Config --------------------------------
(***************************************************************************)
(* How the server resolves its configuration: defaults (servertypes.hpp),  *)
(* then the INI file (confparser.h, confloader.cpp), then the command line *)
(* (cliargsparser.cpp), in the order of main.cpp.                          *)
(* Settings that are handled alike share a rule.                           *)
(***************************************************************************)
EXTENDS Values, Lists, SequencesExt, FiniteSets

CONSTANT MaxEntries   (* CONF_MAX_ENTRIES *)

ASSUME MaxEntriesAssumption == MaxEntries \in Nat \ {0}

(* struct Config, but for texts that are treated as those listed here. *)
Defaults ==
  [transport |-> "mqtt", host |-> "localhost", port |-> 1883,
   topic |-> "sensors/accel", client_id |-> "data-subscriber", qos |-> 0,
   keepalive |-> 60, will_qos |-> 0, will_retain |-> FALSE,
   capacity |-> 4096, flush |-> 500, auto |-> TRUE, separator |-> ";",
   also_stderr |-> TRUE, web |-> TRUE, web_port |-> 8088, interval |-> 1000,
   range |-> 16, timesource |-> "external", max_acc |-> 0,
   seq_optional |-> FALSE]

-----------------------------------------------------------------------------
(* confparser.h.  A line is a section header, a header without its ']', a  *)
(* pair, or noise: blank, a comment, or without '='.                       *)
(* Only a pair has a value.                                                *)
Lines ==
  [kind : {"section", "unclosed", "noise"}, name : STRING, raw : {Absent}]
    \cup [kind : {"pair"}, name : STRING, raw : Raws]
Section(s) == [kind |-> "section", name |-> s, raw |-> Absent]
Unclosed(s) == [kind |-> "unclosed", name |-> s, raw |-> Absent]
Pair(key, raw) == [kind |-> "pair", name |-> key, raw |-> raw]
Noise == [kind |-> "noise", name |-> NoText, raw |-> Absent]

(* conf_push(): refuses one entry more than the limit. *)
Push(doc, key, raw) ==
  IF Len(doc.entries) = MaxEntries
  THEN [doc EXCEPT !.full = TRUE]
  ELSE [doc EXCEPT !.entries = Append(@, <<doc.section, key, raw>>)]

(* One turn of the loop of conf_load(), which a refused entry ends.        *)
ReadLine(doc, line) ==
  IF doc.full THEN doc
  ELSE CASE line.kind = "section" -> [doc EXCEPT !.section = line.name]
         [] line.kind = "pair" -> Push(doc, line.name, line.raw)
         [] OTHER -> doc

NoDocument == [section |-> NoText, entries |-> << >>, full |-> FALSE]
Load(lines) ==
  LET doc[i \in 0 .. Len(lines)] ==
        IF i = 0 THEN NoDocument ELSE ReadLine(doc[i - 1], lines[i])
  IN  doc[Len(lines)]

(* A mutant of FindEntry: the last entry. *)
FindLastEntry(doc, section, key) ==
  LET hits == {i \in DOMAIN doc.entries :
                 doc.entries[i][1] = section /\ doc.entries[i][2] = key}
  IN  IF hits = {} THEN Absent
      ELSE doc.entries[CHOOSE i \in hits : \A j \in hits : j <= i][3]

(* find_entry(): the first entry of that section and key. *)
FindEntry(doc, section, key) ==
  LET hits == {i \in DOMAIN doc.entries :
                 doc.entries[i][1] = section /\ doc.entries[i][2] = key}
  IN  IF hits = {} THEN Absent
      ELSE doc.entries[CHOOSE i \in hits : \A j \in hits : i <= j][3]

(* conf_find_config(): the file that was named, or else the first of the   *)
(* usual places where there is one.  disk[p] is the file's lines; an       *)
(* unreadable file is read as an empty one.                                *)
Places == <<"./", "~/.config", "/etc">>
FindConfig(explicit, disk) ==
  IF explicit # NoText
  THEN IF explicit \in DOMAIN disk THEN <<explicit>> ELSE << >>
  ELSE LET there == Kept(Places, DOMAIN disk)
       IN  IF there = << >> THEN << >> ELSE <<Head(there)>>

-----------------------------------------------------------------------------
(* confloader.cpp: apply_conf().  Setting, section, key, and how the value *)
(* is read.                                                                *)
FileKey ==
  [transport |-> <<"transport", "protocol", "protocol">>,
   host |-> <<"connection", "host", "nonempty">>,
   port |-> <<"connection", "port", "port">>,
   topic |-> <<"mqtt", "topic", "nonempty">>,
   client_id |-> <<"mqtt", "client_id", "text">>,
   qos |-> <<"mqtt", "qos", "qos">>,
   keepalive |-> <<"mqtt", "keepalive", "int">>,
   will_qos |-> <<"mqtt", "will_qos", "qos">>,
   will_retain |-> <<"mqtt", "will_retain", "bool">>,
   capacity |-> <<"storage", "buffer_capacity", "size">>,
   flush |-> <<"storage", "flush_interval_ms", "size">>,
   separator |-> <<"storage", "csv_separator", "nonempty">>,
   also_stderr |-> <<"logging", "also_stderr", "bool">>,
   web |-> <<"web", "enabled", "bool">>,
   web_port |-> <<"web", "port", "port">>,
   interval |-> <<"web", "stats_interval_ms", "uint32">>,
   range |-> <<"device", "range_g", "double">>,
   timesource |-> <<"validator", "timesource", "nonempty">>,
   max_acc |-> <<"validator", "max_acc_ms2", "double">>,
   seq_optional |-> <<"validator", "seq_optional", "bool">>]

(* A mutant of FilePort: conf_get_uint16() does not reject port 0. *)
FilePortZero(raw, current) ==
  LET v == ToInt(raw.n)
  IN  IF HasDigits(raw) /\ v \in 0 .. 65535 THEN v ELSE current

(* safe_port() *)
MaxPort == 65535
PortNumbers == 1 .. MaxPort
FilePort(raw, current) ==
  LET v == ToInt(raw.n)
  IN  IF HasDigits(raw) /\ v \in PortNumbers THEN v ELSE current

(* conf_get_*() and what apply_conf() does with the result. *)
FileValue(rule, raw, current) ==
  IF raw.kind = "absent" THEN current
  ELSE
    CASE rule = "nonempty" -> IF raw.w = NoText THEN current ELSE raw.w
    [] rule = "text" -> raw.w
    [] rule = "protocol" -> IF raw.w \in Protocols THEN raw.w ELSE current
    [] rule = "port" -> FilePort(raw, current)
    [] rule = "qos" -> LET v == IF HasDigits(raw) THEN ToInt(raw.n) ELSE current
                       IN  IF v \in 0 .. 2 THEN v ELSE 0
    [] rule = "int" -> IF HasDigits(raw) THEN ToInt(raw.n) ELSE current
    [] rule = "size" -> IF HasDigits(raw) /\ ToSize(raw.n) # 0
                        THEN ToSize(raw.n) ELSE current
    [] rule = "uint32" -> IF HasDigits(raw) THEN ToSize(raw.n) % IntMod ELSE current
    [] rule = "double" -> IF HasDigits(raw) THEN raw.n ELSE current
    [] rule = "bool" -> Yes(raw) \/ (~No(raw) /\ current)

(* apply_conf().  [transport] webinterface is read before [web] enabled,   *)
(* and a value of it that is no boolean means false.                       *)
ApplyConf(doc, cfg) ==
  LET alias == FindEntry(doc, "transport", "webinterface")
      before == IF alias = Absent THEN cfg ELSE [cfg EXCEPT !.web = Yes(alias)]
      entry(s) == FindEntry(doc, FileKey[s][1], FileKey[s][2])
      after == [s \in DOMAIN cfg |->
                  IF s \in DOMAIN FileKey
                  THEN FileValue(FileKey[s][3], entry(s), before[s])
                  ELSE cfg[s]]
      cap == entry("capacity")
  IN  [after EXCEPT !.auto = @ /\ ~(HasDigits(cap) /\ ToSize(cap.n) # 0)]

(* std::string h = conf_get_str(..., nullptr): without the key the         *)
(* constructor throws, and nothing catches it.                             *)
ApplyThrows(doc) == FindEntry(doc, "connection", "host") = Absent

-----------------------------------------------------------------------------
(* cliargsparser.cpp: flag, setting, and how its value is read. *)
Flags ==
  {<<"--ws", "transport", "ws">>, <<"--mqtt", "transport", "mqtt">>,
   <<"--protocol", "transport", "protocol">>,
   <<"--host", "host", "nonempty">>, <<"--port", "port", "port">>,
   <<"--topic", "topic", "nonempty">>, <<"--mqtt-id", "client_id", "text">>,
   <<"--mqtt-qos", "qos", "qos">>, <<"--mqtt-will-qos", "will_qos", "qos">>,
   <<"--mqtt-will-retain", "will_retain", "flag">>,
   <<"--buf", "capacity", "size">>, <<"--flush-ms", "flush", "size">>,
   <<"--csv-sep", "separator", "text">>,
   <<"--no-log-stderr", "also_stderr", "off">>,
   <<"--webiface", "web", "flag">>, <<"--webport", "web_port", "port">>,
   <<"--timesource", "timesource", "nonempty">>,
   <<"--max-acc", "max_acc", "double">>,
   <<"--seq-optional", "seq_optional", "on">>,
   <<"--config", "auto", "path">>}

(* next() takes the following argument whatever it is; peek_bool() takes   *)
(* it only if it is a boolean.                                             *)
Takes(rule, next) ==
  CASE rule \in {"ws", "mqtt", "on", "off"} -> FALSE
    [] rule = "flag" -> Yes(next) \/ No(next)
    [] OTHER -> next # Absent

(* parse_port(), parse_size() and the branches of parse_args().            *)
ArgValue(rule, next, current) ==
  CASE rule \in Protocols -> rule
    [] rule = "on" -> TRUE
    [] rule = "off" -> FALSE
    [] rule = "flag" -> ~No(next)
    [] rule = "protocol" -> IF next.w \in Protocols THEN next.w ELSE current
    [] rule = "nonempty" -> IF next.w = NoText THEN current ELSE next.w
    [] rule = "text" -> next.w
    [] rule = "port" -> IF next.kind = "number" /\ next.n \in PortNumbers
                        THEN next.n ELSE current
    [] rule = "qos" -> IF ToInt(next.n) \in 0 .. 2 THEN ToInt(next.n) ELSE 0
    [] rule = "size" -> IF next.kind = "number" /\ ToSize(next.n) # 0
                        THEN ToSize(next.n) ELSE current
    [] rule = "double" -> next.n
    [] rule = "path" -> current

(* One turn of the loop of parse_args(): acc.taken says that the argument  *)
(* was the value of the flag before it.                                    *)
ParseArg(argv, acc, i) ==
  IF acc.taken \/ acc.help THEN [acc EXCEPT !.taken = FALSE]
  ELSE IF argv[i].w = "--help" THEN [acc EXCEPT !.help = TRUE]
  ELSE LET rows == {f \in Flags : f[1] = argv[i].w}
           next == Argument(argv, i + 1)
       IN  IF rows = {} THEN acc
           ELSE LET f == CHOOSE r \in rows : TRUE
                    stored == [acc.cfg EXCEPT
                                 ![f[2]] = ArgValue(f[3], next, acc.cfg[f[2]])]
                    sized == /\ f[2] = "capacity" /\ next.kind = "number"
                             /\ ToSize(next.n) # 0
                IN  [cfg |-> [stored EXCEPT !.auto = @ /\ ~sized],
                     taken |-> Takes(f[3], next), help |-> FALSE]

ParseArgs(argv, cfg) ==
  LET acc[i \in 0 .. Len(argv)] ==
        IF i = 0 THEN [cfg |-> cfg, taken |-> FALSE, help |-> FALSE]
        ELSE ParseArg(argv, acc[i - 1], i)
  IN  acc[Len(argv)]

-----------------------------------------------------------------------------
(* main.cpp.  extract_config_path() does not look at the last argument.    *)
ConfigFlags(argv) == {i \in 1 .. Len(argv) - 1 : argv[i].w = "--config"}
ConfigPath(argv) ==
  LET at == ConfigFlags(argv)
  IN  IF at = {} THEN NoText
      ELSE argv[(CHOOSE i \in at : \A j \in at : i <= j) + 1].w

(* Step 5: auto_buffer. *)
SizeBuffer(cfg) ==
  LET flushed == (cfg.flush * 2) \div 5
      needed == IF flushed < 64 THEN 64 ELSE flushed
  IN  IF cfg.auto /\ cfg.capacity < needed
      THEN [cfg EXCEPT !.capacity = needed] ELSE cfg

(* Steps 1 to 6 of main(); built: was it compiled with the file parser? *)
Resolve(built, argv, disk) ==
  LET found == IF built THEN FindConfig(ConfigPath(argv), disk) ELSE << >>
      doc == Load(disk[Head(found)])
      base == IF found = << >> THEN Defaults ELSE ApplyConf(doc, Defaults)
      args == ParseArgs(argv, base)
      result(outcome) == [outcome |-> outcome, cfg |-> SizeBuffer(args.cfg)]
  IN  IF built /\ ConfigFlags(argv) # {} /\ found = << >> THEN result("refused")
      ELSE IF found # << >> /\ ApplyThrows(doc)
      THEN [outcome |-> "aborted", cfg |-> Defaults]
      ELSE IF args.help \/ (built /\ Word("--dump-config") \in ToSet(argv))
      THEN result("printed")
      ELSE result("resolved")

-----------------------------------------------------------------------------
(* What a user means by a value, where it has a meaning for the rule.  The *)
(* words of the rules "ws", "mqtt", "on" and "off" take no value.          *)
Usable(rule, raw) ==
  CASE rule \in {"ws", "mqtt", "on", "off"} -> TRUE
    [] rule = "port" -> raw.kind = "number" /\ raw.n \in PortNumbers
    [] rule = "qos" -> raw.kind = "number" /\ raw.n \in 0 .. 2
    [] rule = "size" -> raw.kind = "number" /\ raw.n \in 1 .. SizeMod - 1
    [] rule = "int" -> raw.kind = "number" /\ raw.n \in 0 .. IntMod \div 2 - 1
    [] rule = "uint32" -> raw.kind = "number" /\ raw.n \in 0 .. IntMod - 1
    [] rule = "double" -> raw.kind = "number" /\ raw.n >= 0
    [] rule \in {"bool", "flag"} -> Yes(raw) \/ No(raw)
    [] rule = "protocol" -> raw.w \in Protocols
    [] rule \in {"nonempty", "text"} -> raw.w # NoText
    [] OTHER -> FALSE
Meaning(rule, raw) ==
  CASE rule \in Protocols -> rule
    [] rule = "on" -> TRUE
    [] rule = "off" -> FALSE
    [] rule \in {"bool", "flag"} -> Yes(raw)
    [] rule \in {"protocol", "nonempty", "text"} -> raw.w
    [] OTHER -> raw.n

FlagWords == {f[1] : f \in Flags}

(* The flags that set s, by their places; no flag is the value of another. *)
Mentions(argv, s) == {i \in DOMAIN argv : \E f \in Flags : f[1] = argv[i].w /\ f[2] = s}
WellFormed(argv) ==
  \A i \in DOMAIN argv \ {1} :
    \A f \in Flags :
      (f[1] = argv[i - 1].w /\ f[3] \notin {"ws", "mqtt", "on", "off", "flag"})
        => argv[i].w \notin FlagWords
LastOf(S) == {i \in S : \A j \in S : j <= i}
FirstOf(S) == {i \in S : \A j \in S : i <= j}

(* The values of a file, in the order they are written, if it was found    *)
(* and has few enough entries.                                             *)
FileOf(in) ==
  LET found == FindConfig(ConfigPath(in.argv), in.disk)
  IN  IF in.built /\ found # << >> THEN in.disk[Head(found)] ELSE << >>
Under(lines, i, section) ==
  LET headers == {j \in 1 .. i : lines[j].kind = "section"}
  IN  section = IF headers = {} THEN NoText ELSE lines[Max(headers)].name
Written(lines, s) ==
  {i \in DOMAIN lines : /\ lines[i].kind = "pair" /\ lines[i].name = FileKey[s][2]
                        /\ Under(lines, i, FileKey[s][1])}
PairsOf(lines) == {i \in DOMAIN lines : lines[i].kind = "pair"}

(* Configuration c heeds what it was resolved from.  The last usable word  *)
(* on the command line decides; where it says nothing of a setting, the    *)
(* first entry of the file does; else the default holds.  Only for the     *)
(* last may something else decide: the old name of [web] enabled, and the  *)
(* size that fits the flush interval.                                      *)
Heeded(in, c) ==
  WellFormed(in.argv) =>
    \A s \in DOMAIN FileKey, file \in {FileOf(in)} :
      /\ \A i \in LastOf(Mentions(in.argv, s)), f \in Flags :
           (f[1] = in.argv[i].w /\ Usable(f[3], Argument(in.argv, i + 1)))
             => c[s] = Meaning(f[3], Argument(in.argv, i + 1))
      /\ Mentions(in.argv, s) = {} =>
           /\ \A i \in FirstOf(Written(file, s)) :
                (Usable(FileKey[s][3], file[i].raw) /\ Cardinality(PairsOf(file)) <= MaxEntries)
                  => c[s] = Meaning(FileKey[s][3], file[i].raw)
           /\ Written(file, s) = {} /\ s \notin {"web", "capacity"} => c[s] = Defaults[s]
=============================================================================
