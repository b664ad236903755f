------------------------------- MODULE MCServer -------------------------------
(* Start-ups: two entries of a file under its host that may meet, one entry*)
(* too many, any two arguments, and the places a file may be in.  The      *)
(* values cover every rule and its edges: 0, too large, not a number,      *)
(* wrapped, empty.                                                         *)
EXTENDS Server

HostLines == <<Section("connection"), Pair("host", Word("broker"))>>

Entries ==
  {<<"connection", "port", v>> : v \in {Number(0), Number(80), Number(70000), Partial(81)}}
  \union
  {<<"mqtt", "qos", v>> : v \in {Number(2), Number(3), Word("x")}} \union
  {<<"mqtt", "topic", v>> : v \in {Empty, Word("t")}} \union
  {<<"storage", "buffer_capacity", v>> : v \in {Number(0), Number(2), Number(-1)}} \union
  {<<"storage", "flush_interval_ms", Number(0)>>, <<"storage", "flush_interval_ms", Number(20000)>>,
   <<"transport", "webinterface", Word("x")>>, <<"web", "enabled", Word("true")>>,
   <<"web", "stats_interval_ms", Number(1)>>, <<"transport", "protocol", Word("ws")>>,
   <<"validator", "timesource", Word("host")>>,
   <<"validator", "seq_optional", Word("true")>>, <<"device", "range_g", Number(1)>>}

TwoLines(e) == <<Section(e[1]), Pair(e[2], e[3])>>

FileTexts ==
  {HostLines \o TwoLines(p[1]) \o TwoLines(p[2]) :
     p \in {q \in Entries \X Entries : q[1][1] \in {q[2][1], "connection"}}} \union
  {HostLines \o TwoLines(<<"mqtt", "qos", Word("x")>>) \o
     <<Pair("qos", Number(2)), Pair("topic", Word("t"))>>,
   HostLines \o <<Unclosed("mqtt"), Pair("port", Number(80))>>,
   TwoLines(<<"connection", "port", Number(80)>>), << >>, <<Noise>> \o HostLines}

Arguments ==
  {<<Word("--port"), Number(90)>>, <<Word("--port"), Number(0)>>, <<Word("--port")>>,
   <<Word("--mqtt-qos"), Number(1)>>, <<Word("--mqtt-qos"), Word("x")>>,
   <<Word("--ws")>>, <<Word("--host"), Empty>>, <<Word("--buf"), Number(1)>>,
   <<Word("--buf"), Number(-1)>>, <<Word("--flush-ms"), Number(250)>>,
   <<Word("--webiface"), Word("false")>>, <<Word("--csv-sep")>>,
   <<Word("--dump-config")>>, <<Word("--help")>>, <<Word("--config"), Word("given")>>,
   <<Word("--config"), Empty>>,
   <<Word("--unknown")>>}

Input(argv, disk) == [built |-> TRUE, argv |-> argv, disk |-> disk]
At(place, text) == [p \in {place} |-> text]
SomeFiles == {t \in FileTexts : Len(t) = 6 /\ t[4] = t[6]}

(* Two arguments over few files, few arguments over all files, and the     *)
(* places of the file.                                                     *)
MCInputs ==
  {Input(a \o b, At("./", t)) : a, b \in Arguments, t \in SomeFiles} \union
  {Input(<<Word("--mqtt-qos"), Number(1)>>, At("/etc", t)) : t \in FileTexts} \union
  {Input(a, [p \in P |-> IF p = "given" THEN HostLines
                         ELSE HostLines \o TwoLines(<<"web", "port", Number(81)>>)]) :
     a \in Arguments, P \in SUBSET {"given", "~/.config"}} \union
  {[built |-> FALSE, argv |-> a, disk |-> At("./", HostLines)] : a \in Arguments}
=============================================================================
