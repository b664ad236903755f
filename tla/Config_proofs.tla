----------------------------- MODULE Config_proofs -----------------------------
(***************************************************************************)
(* Config, for every file and every command line: what main() resolves is  *)
(* a configuration that the server can use.                                *)
(***************************************************************************)
EXTENDS Config, Lists_proofs

Texts == {"host", "topic", "timesource"}
Ports == {"port", "web_port"}
Qualities == {"qos", "will_qos"}
Sizes == {"capacity", "flush"}
Switches == {"auto", "will_retain", "also_stderr", "web", "seq_optional"}

Settings == DOMAIN Defaults

(* The values of settings.  All of Defaults are numbers, texts or booleans,*)
(* but the provers do not know of a literal that it is in STRING.          *)
Plain ==
  Int \cup STRING \cup BOOLEAN \cup Protocols \cup {NoText}
    \cup {Defaults[s] : s \in Settings}

IsFlag(v) == v \in BOOLEAN

(* A value that setting s may have.                                        *)
Fits(s, v) ==
  /\ s \in Ports => v \in PortNumbers
  /\ s \in Qualities => v \in 0 .. 2
  /\ s \in Sizes => v \in Nat \ {0}
  /\ s \in Texts => v # NoText
  /\ s = "interval" => v \in 0 .. IntMod - 1
  /\ s \in Switches => IsFlag(v)

(* Configurations, of which Defaults is one.                               *)
Configs ==
  {c \in [Settings -> Plain] \cup {Defaults} :
     \A s \in Settings : c[s] \in Plain /\ Fits(s, c[s])}

LEMMA PlainHolds ==
  \A v : v \in Int \cup STRING \cup BOOLEAN \cup Protocols \cup {NoText} => v \in Plain
  BY DEF Plain

LEMMA SettingsAre ==
  Settings = {"transport", "host", "port", "topic", "client_id", "qos", "keepalive",
              "will_qos", "will_retain", "capacity", "flush", "auto", "separator",
              "also_stderr", "web", "web_port", "interval", "range", "timesource",
              "max_acc", "seq_optional"}
  BY DEF Settings, Defaults

LEMMA DefaultsFit == Defaults \in Configs
<1>1. /\ Defaults["port"] = 1883 /\ Defaults["web_port"] = 8088
      /\ Defaults["qos"] = 0 /\ Defaults["will_qos"] = 0
      /\ Defaults["capacity"] = 4096 /\ Defaults["flush"] = 500
      /\ Defaults["host"] = "localhost" /\ Defaults["topic"] = "sensors/accel"
      /\ Defaults["timesource"] = "external" /\ Defaults["interval"] = 1000
  BY DEF Defaults
<1>a. \A s \in Switches : IsFlag(Defaults[s])
  <2>1. /\ IsFlag(Defaults["auto"]) /\ IsFlag(Defaults["will_retain"])
        /\ IsFlag(Defaults["also_stderr"]) /\ IsFlag(Defaults["web"])
        /\ IsFlag(Defaults["seq_optional"])
    BY DEF Defaults, IsFlag
  <2> QED
    BY <2>1 DEF Switches
<1>b. 1883 \in PortNumbers /\ 8088 \in PortNumbers
  <2>1. MaxPort \in Nat /\ 8088 <= MaxPort
    BY DEF MaxPort
  <2> QED
    BY <2>1 DEF PortNumbers
<1>2. /\ \A s \in Ports : Defaults[s] \in PortNumbers
      /\ \A s \in Qualities : Defaults[s] \in 0 .. 2
      /\ \A s \in Sizes : Defaults[s] \in Nat \ {0}
  BY <1>1, <1>b DEF Ports, Qualities, Sizes
<1>3. Defaults["interval"] \in 0 .. IntMod - 1
  BY <1>1, WidthAssumption
<1>4. \A s \in Texts : Defaults[s] # NoText
  BY <1>1 DEF Texts, NoText
<1>5. ASSUME NEW s \in Settings PROVE Fits(s, Defaults[s])
  BY <1>a, <1>2, <1>3, <1>4 DEF Fits
<1>6. ASSUME NEW s \in Settings PROVE Defaults[s] \in Plain
  BY DEF Plain
<1> QED
  BY <1>5, <1>6 DEF Configs

LEMMA UpdateFits ==
  ASSUME NEW c \in Configs, NEW s \in Settings, NEW v \in Plain, Fits(s, v)
  PROVE  [c EXCEPT ![s] = v] \in Configs
<1>1. DOMAIN c = Settings /\ \A t \in Settings : c[t] \in Plain /\ Fits(t, c[t])
  BY DEF Configs, Settings
<1> DEFINE d == [c EXCEPT ![s] = v]
<1>2. d \in [Settings -> Plain]
  BY <1>1
<1>3. \A t \in Settings : d[t] = IF t = s THEN v ELSE c[t]
  BY <1>1
<1> HIDE DEF d
<1>4. \A t \in Settings : d[t] \in Plain /\ Fits(t, d[t])
  BY <1>1, <1>3
<1> QED
  BY <1>2, <1>4 DEF Configs, d

LEMMA UpdateAuto ==
  ASSUME NEW c \in Configs, NEW b \in BOOLEAN
  PROVE  [c EXCEPT !.auto = @ /\ b] \in Configs
<1>1. "auto" \in Settings
  BY SettingsAre
<1>2. IsFlag(c.auto)
  <2>1. "auto" \in Switches /\ Fits("auto", c["auto"])
    BY <1>1 DEF Configs, Switches
  <2>2. IsFlag(c["auto"])
    BY <2>1 DEF Fits
  <2> QED
    BY <2>2
<1> DEFINE v == c.auto /\ b
<1>3. IsFlag(v) /\ v \in Plain
  BY <1>2 DEF Plain, IsFlag
<1> HIDE DEF v
<1>4. Fits("auto", v)
  BY <1>3 DEF Fits, Ports, Qualities, Sizes, Texts
<1>5. [c EXCEPT !["auto"] = v] \in Configs
  BY <1>1, <1>3, <1>4, UpdateFits
<1> QED
  BY <1>5 DEF v
-----------------------------------------------------------------------------
(* What conf_load() keeps of a file.                                       *)
Names == STRING \cup {NoText}
Documents ==
  [section : Names, entries : Seq(Names \X Names \X Raws), full : BOOLEAN]

LEMMA ReadLineKeeps ==
  ASSUME NEW doc \in Documents, NEW line \in Lines
  PROVE  ReadLine(doc, line) \in Documents
<1>1. /\ doc.section \in Names /\ doc.entries \in Seq(Names \X Names \X Raws)
      /\ doc.full \in BOOLEAN
      /\ line.name \in Names
  BY DEF Documents, Lines, Names
<1>2. [doc EXCEPT !.section = line.name] \in Documents
  BY <1>1 DEF Documents
<1>3. ASSUME line.kind = "pair"
      PROVE  Push(doc, line.name, line.raw) \in Documents
  <2>0. line.raw \in Raws
    BY <1>3 DEF Lines
  <2>1. <<doc.section, line.name, line.raw>> \in Names \X Names \X Raws
    BY <1>1, <2>0
  <2>2. Append(doc.entries, <<doc.section, line.name, line.raw>>)
          \in Seq(Names \X Names \X Raws)
    BY <1>1, <2>1, AppendProperties
  <2>3. [doc EXCEPT !.full = TRUE] \in Documents
    BY <1>1 DEF Documents
  <2>4. [doc EXCEPT !.entries = Append(@, <<doc.section, line.name, line.raw>>)]
          \in Documents
    BY <1>1, <2>2 DEF Documents
  <2> QED
    BY <2>3, <2>4 DEF Push
<1> QED
  BY <1>2, <1>3 DEF ReadLine

Loading(lines, F) ==
  F = [i \in 0 .. Len(lines) |->
         IF i = 0 THEN NoDocument ELSE ReadLine(F[i - 1], lines[i])]

(* conf_load() line by line.                                               *)
LoadSteps(lines, F) ==
  /\ F[0] = NoDocument
  /\ \A i \in 0 .. Len(lines) : F[i] \in Documents
  /\ \A i \in 1 .. Len(lines) : F[i] = ReadLine(F[i - 1], lines[i])

LEMMA LoadByStep ==
  ASSUME NEW lines \in Seq(Lines)
  PROVE  \E F : LoadSteps(lines, F) /\ Load(lines) = F[Len(lines)]
<1> DEFINE n == Len(lines)
           turn == [i \in 1 .. n |-> [d \in Documents |-> ReadLine(d, lines[i])]]
<1>1. n \in Nat /\ \A i \in 1 .. n : lines[i] \in Lines
  BY LenProperties, ElementOfSeq
<1>2. NoDocument \in Documents
  <2>1. << >> \in Seq(Names \X Names \X Raws)
    OBVIOUS
  <2> QED
    BY <2>1 DEF NoDocument, Documents, Names
<1>3. ASSUME NEW i \in 1 .. n, NEW d \in Documents
      PROVE  turn[i][d] = ReadLine(d, lines[i]) /\ turn[i][d] \in Documents
  BY <1>1, ReadLineKeeps
<1> HIDE DEF turn, n
<1>4. PICK F : LoopResults(F, n, Documents, NoDocument, turn)
  BY <1>1, <1>2, <1>3, LoopExists
<1>5. Loading(lines, F)
  <2> DEFINE G == [i \in 0 .. n |->
                     IF i = 0 THEN NoDocument ELSE ReadLine(F[i - 1], lines[i])]
  <2>1. ASSUME NEW i \in 0 .. n PROVE F[i] = G[i]
    <3>1. CASE i = 0
      BY <1>4, <3>1 DEF LoopResults
    <3>2. CASE i # 0
      <4>1. i \in 1 .. n /\ i - 1 \in 0 .. n
        BY <1>1, <3>2
      <4>2. F[i - 1] \in Documents
        BY <1>4, <4>1 DEF LoopResults
      <4> QED
        BY <1>3, <1>4, <3>2, <4>1, <4>2 DEF LoopResults
    <3> QED
      BY <3>1, <3>2
  <2>2. G = [i \in 0 .. n |-> G[i]]
    OBVIOUS
  <2> HIDE DEF G
  <2>3. F = G
    BY <1>4, <2>1, <2>2 DEF LoopResults
  <2> QED
    BY <2>3 DEF Loading, G, n
<1> DEFINE doc == CHOOSE H : Loading(lines, H)
           T == {i \in 0 .. n : doc[i] \in Documents}
<1>6. Loading(lines, doc)
  BY <1>5
<1> HIDE DEF doc
<1>7. doc[0] = NoDocument /\ \A i \in 1 .. n : doc[i] = ReadLine(doc[i - 1], lines[i])
  BY <1>1, <1>6 DEF Loading, n
<1>8. 0 \in T
  BY <1>1, <1>2, <1>7
<1>9. ASSUME NEW i \in 1 .. n, i - 1 \in T PROVE i \in T
  BY <1>1, <1>7, <1>9, ReadLineKeeps
<1> HIDE DEF T
<1>10. 0 .. n \subseteq T
  BY <1>1, <1>8, <1>9, CountingUp
<1>11. Load(lines) = doc[n]
  BY DEF Load, Loading, doc, n
<1>12. LoadSteps(lines, doc)
  BY <1>7, <1>10 DEF LoadSteps, T, n
<1> QED
  BY <1>11, <1>12 DEF n

LEMMA LoadKeeps ==
  ASSUME NEW lines \in Seq(Lines)
  PROVE  Load(lines) \in Documents
<1>1. PICK F : LoadSteps(lines, F) /\ Load(lines) = F[Len(lines)]
  BY LoadByStep
<1>2. Len(lines) \in 0 .. Len(lines)
  BY LenProperties
<1> QED
  BY <1>1, <1>2 DEF LoadSteps

LEMMA FoundIsRaw ==
  ASSUME NEW doc \in Documents, NEW section, NEW key
  PROVE  FindEntry(doc, section, key) \in Raws \cup {Absent}
<1> DEFINE hits == {i \in DOMAIN doc.entries :
                      doc.entries[i][1] = section /\ doc.entries[i][2] = key}
           first == CHOOSE i \in hits : \A j \in hits : i <= j
<1>1. doc.entries \in Seq(Names \X Names \X Raws)
  BY DEF Documents
<1>2. /\ DOMAIN doc.entries = 1 .. Len(doc.entries) /\ Len(doc.entries) \in Nat
      /\ \A i \in DOMAIN doc.entries : doc.entries[i] \in Names \X Names \X Raws
  BY <1>1, LenProperties, ElementOfSeq
<1>3. CASE hits = {}
  BY <1>3 DEF FindEntry
<1>4. CASE hits # {}
  <2>1. hits \in SUBSET Nat
    BY <1>2
  <2>2. \E i \in hits : \A j \in hits : i <= j
    <3> HIDE DEF hits
    <3> QED
      BY <1>4, <2>1, LeastNumber
  <2>3. first \in hits
    <3> HIDE DEF hits
    <3> QED
      BY <2>2
  <2>4. first \in DOMAIN doc.entries
    BY <2>3
  <2>5. doc.entries[first][3] \in Raws
    <3> HIDE DEF first
    <3> QED
      BY <1>2, <2>4
  <2>6. FindEntry(doc, section, key) = doc.entries[first][3]
    BY <1>4 DEF FindEntry
  <2> QED
    BY <2>5, <2>6
<1> QED
  BY <1>3, <1>4
-----------------------------------------------------------------------------
(* What a file says of a key.  conf_load() keeps the pairs in their order, *)
(* each under its section, until one is refused.                           *)
Hit(doc, section, key, p) ==
  /\ p \in 1 .. Len(doc.entries)
  /\ doc.entries[p][1] = section /\ doc.entries[p][2] = key
NoHit(doc, section, key) == \A p \in 1 .. Len(doc.entries) : ~Hit(doc, section, key, p)
FirstHit(doc, section, key, p) ==
  /\ Hit(doc, section, key, p)
  /\ \A q \in 1 .. Len(doc.entries) : Hit(doc, section, key, q) => p <= q

LEMMA FindEntryFinds ==
  ASSUME NEW doc \in Documents, NEW section, NEW key
  PROVE  /\ NoHit(doc, section, key) => FindEntry(doc, section, key) = Absent
         /\ \A p : FirstHit(doc, section, key, p)
                     => FindEntry(doc, section, key) = doc.entries[p][3]
<1> DEFINE hits == {i \in DOMAIN doc.entries :
                      doc.entries[i][1] = section /\ doc.entries[i][2] = key}
           first == CHOOSE i \in hits : \A j \in hits : i <= j
<1>1. DOMAIN doc.entries = 1 .. Len(doc.entries) /\ Len(doc.entries) \in Nat
  <2>1. doc.entries \in Seq(Names \X Names \X Raws)
    BY DEF Documents
  <2> QED
    BY <2>1, LenProperties
<1>2. FindEntry(doc, section, key) = IF hits = {} THEN Absent ELSE doc.entries[first][3]
  BY DEF FindEntry
<1>3. /\ hits \in SUBSET Nat
      /\ \A p : p \in hits <=> Hit(doc, section, key, p)
      /\ \A p \in hits : p \in 1 .. Len(doc.entries)
  BY <1>1 DEF Hit
<1>4. ASSUME NEW p, FirstHit(doc, section, key, p)
      PROVE  first = p /\ hits # {}
  <2>1. p \in hits /\ \A j \in hits : p <= j
    BY <1>3, <1>4 DEF FirstHit
  <2> HIDE DEF hits
  <2>2. first \in hits /\ \A j \in hits : first <= j
    BY <2>1
  <2> HIDE DEF first
  <2>3. first \in Nat /\ p \in Nat /\ first <= p /\ p <= first
    BY <1>3, <2>1, <2>2
  <2> QED
    BY <2>1, <2>3
<1>5. NoHit(doc, section, key) => hits = {}
  BY <1>3 DEF NoHit
<1> HIDE DEF hits, first
<1> QED
  BY <1>2, <1>4, <1>5

LEMMA PushHits ==
  ASSUME NEW doc \in Documents, NEW section, NEW key, NEW a, NEW b, NEW c,
         <<a, b, c>> \in Names \X Names \X Raws,
         NEW d, d.entries = Append(doc.entries, <<a, b, c>>)
  PROVE  /\ Len(d.entries) = Len(doc.entries) + 1 /\ Len(doc.entries) \in Nat
         /\ \A p \in 1 .. Len(doc.entries) :
              /\ Hit(d, section, key, p) <=> Hit(doc, section, key, p)
              /\ d.entries[p] = doc.entries[p]
         /\ Hit(d, section, key, Len(doc.entries) + 1) <=> a = section /\ b = key
         /\ d.entries[Len(doc.entries) + 1][3] = c
<1> DEFINE s == doc.entries
           e == <<a, b, c>>
           t == Append(s, e)
           n == Len(s)
<1>1. s \in Seq(Names \X Names \X Raws)
  BY DEF Documents
<1>2. n \in Nat /\ Len(t) = n + 1 /\ t[n + 1] = e /\ \A p \in 1 .. n : t[p] = s[p]
  BY <1>1, LenProperties, AppendProperties
<1>3. e[1] = a /\ e[2] = b /\ e[3] = c
  OBVIOUS
<1>4. d.entries = t
  OBVIOUS
<1> HIDE DEF e, t
<1>5. n + 1 \in 1 .. n + 1 /\ 1 .. n \subseteq 1 .. n + 1
  BY <1>2
<1>6. \A p \in 1 .. n : Hit(d, section, key, p) <=> Hit(doc, section, key, p)
  BY <1>2, <1>4, <1>5 DEF Hit
<1>7. Hit(d, section, key, n + 1) <=> a = section /\ b = key
  BY <1>2, <1>3, <1>4, <1>5 DEF Hit
<1> QED
  BY <1>2, <1>3, <1>4, <1>6, <1>7

LEMMA UnderNext ==
  ASSUME NEW lines, NEW k \in Nat, NEW section
  PROVE  /\ Under(lines, 0, section) <=> section = NoText
         /\ lines[k + 1].kind = "section" =>
              (Under(lines, k + 1, section) <=> section = lines[k + 1].name)
         /\ lines[k + 1].kind # "section" =>
              (Under(lines, k + 1, section) <=> Under(lines, k, section))
<1> DEFINE H(i) == {j \in 1 .. i : lines[j].kind = "section"}
<1>1. \A i : Under(lines, i, section)
               <=> section = IF H(i) = {} THEN NoText ELSE lines[Max(H(i))].name
  BY DEF Under
<1>2. H(0) = {}
  OBVIOUS
<1>3. CASE lines[k + 1].kind = "section"
  <2>1. k + 1 \in H(k + 1) /\ \A j \in H(k + 1) : j \in Nat /\ k + 1 >= j
    BY <1>3
  <2> HIDE DEF H
  <2>2. /\ Max(H(k + 1)) \in H(k + 1)
        /\ \A j \in H(k + 1) : Max(H(k + 1)) >= j
    BY <2>1 DEF Max
  <2>3. Max(H(k + 1)) = k + 1
    <3> DEFINE m == Max(H(k + 1))
    <3>1. m \in Nat /\ k + 1 >= m /\ m >= k + 1
      BY <2>1, <2>2
    <3> HIDE DEF m
    <3>2. m = k + 1
      BY <3>1
    <3> QED
      BY <3>2 DEF m
  <2> QED
    BY <1>1, <1>2, <1>3, <2>1, <2>3
<1>4. CASE lines[k + 1].kind # "section"
  <2>1. H(k + 1) = H(k)
    BY <1>4
  <2> HIDE DEF H
  <2> QED
    BY <1>1, <1>2, <1>4, <2>1
<1> QED
  BY <1>3, <1>4

PairsTo(lines, k) == {i \in 1 .. k : lines[i].kind = "pair"}

LEMMA PairsNext ==
  ASSUME NEW lines, NEW k \in Nat
  PROVE  /\ Cardinality(PairsTo(lines, k)) \in Nat
         /\ Cardinality(PairsTo(lines, k + 1))
              = Cardinality(PairsTo(lines, k)) + (IF lines[k + 1].kind = "pair" THEN 1 ELSE 0)
<1>1. IsFiniteSet(1 .. k)
  BY FS_Interval
<1>2. PairsTo(lines, k) \in SUBSET (1 .. k)
  BY DEF PairsTo
<1>3. IsFiniteSet(PairsTo(lines, k))
  BY <1>1, <1>2, FS_Subset
<1>4. Cardinality(PairsTo(lines, k)) \in Nat
  BY <1>3, FS_CardinalityType
<1>5. CASE lines[k + 1].kind = "pair"
  <2>1. PairsTo(lines, k + 1) = PairsTo(lines, k) \cup {k + 1}
    BY <1>5 DEF PairsTo
  <2>2. k + 1 \notin PairsTo(lines, k)
    BY DEF PairsTo
  <2>3. Cardinality(PairsTo(lines, k) \cup {k + 1}) = Cardinality(PairsTo(lines, k)) + 1
    BY <1>3, <2>2, FS_AddElement
  <2> QED
    BY <1>4, <1>5, <2>1, <2>3
<1>6. CASE lines[k + 1].kind # "pair"
  <2>1. PairsTo(lines, k + 1) = PairsTo(lines, k)
    BY <1>6 DEF PairsTo
  <2> QED
    BY <1>4, <1>6, <2>1
<1> QED
  BY <1>4, <1>5, <1>6

(* What is known of the document after k lines, when line i is the first   *)
(* to say something of the key.                                            *)
Says(lines, section, key, i) ==
  lines[i].kind = "pair" /\ lines[i].name = key /\ Under(lines, i, section)
Told(lines, section, key, i, k, d) ==
  /\ ~d.full => Under(lines, k, d.section)
  /\ Len(d.entries) <= Cardinality(PairsTo(lines, k))
  /\ d.full => Cardinality(PairsTo(lines, k)) > MaxEntries
  /\ k < i => NoHit(d, section, key)
  /\ k >= i /\ ~d.full =>
       \E p : FirstHit(d, section, key, p) /\ d.entries[p][3] = lines[i].raw

LEMMA ToldPush ==
  ASSUME NEW lines \in Seq(Lines), NEW section, NEW key, NEW i \in Nat,
         NEW k \in 0 .. Len(lines) - 1, NEW doc \in Documents,
         Told(lines, section, key, i, k, doc), ~doc.full,
         lines[k + 1].kind = "pair",
         k + 1 < i => ~Says(lines, section, key, k + 1),
         k + 1 = i => Says(lines, section, key, i),
         NEW d, d.section = doc.section, d.full = doc.full,
         d.entries = Append(doc.entries,
                            <<doc.section, lines[k + 1].name, lines[k + 1].raw>>)
  PROVE  Told(lines, section, key, i, k + 1, d)
<1> DEFINE a == doc.section
           b == lines[k + 1].name
           c == lines[k + 1].raw
           m == Len(doc.entries)
           pairs == Cardinality(PairsTo(lines, k))
           more == Cardinality(PairsTo(lines, k + 1))
<1>1. k \in Nat /\ k + 1 \in 1 .. Len(lines)
  BY LenProperties
<1>2. <<a, b, c>> \in Names \X Names \X Raws
  <2>1. lines[k + 1] \in Lines
    BY <1>1, ElementOfSeq
  <2>2. a \in Names /\ b \in Names /\ c \in Raws
    BY <2>1 DEF Documents, Lines, Names
  <2> QED
    BY <2>2
<1>3. /\ Len(d.entries) = m + 1 /\ m \in Nat
      /\ \A p \in 1 .. m : /\ Hit(d, section, key, p) <=> Hit(doc, section, key, p)
                           /\ d.entries[p] = doc.entries[p]
      /\ Hit(d, section, key, m + 1) <=> a = section /\ b = key
      /\ d.entries[m + 1][3] = c
  BY <1>2, PushHits
<1>4. pairs \in Nat /\ more = pairs + 1
  BY <1>1, PairsNext
<1>5. Under(lines, k + 1, a) /\ (Under(lines, k + 1, section) <=> a = section)
  <2>1. Under(lines, k, a)
    BY DEF Told
  <2>2. Under(lines, k + 1, a)
    BY <1>1, <2>1, UnderNext
  <2> QED
    BY <2>2 DEF Under
<1>6. Hit(d, section, key, m + 1) <=> Says(lines, section, key, k + 1)
  BY <1>3, <1>5 DEF Says
<1>7. /\ m <= pairs
      /\ k < i => NoHit(doc, section, key)
      /\ k >= i => \E p : /\ FirstHit(doc, section, key, p)
                          /\ doc.entries[p][3] = lines[i].raw
  BY DEF Told
<1> HIDE DEF a, b, c, m, pairs, more
<1>8. Len(d.entries) <= more
  BY <1>3, <1>4, <1>7
<1>9. ASSUME k + 1 < i
      PROVE  NoHit(d, section, key)
  <2>1. k < i /\ ~Hit(d, section, key, m + 1)
    BY <1>1, <1>6, <1>9
  <2>2. \A p \in 1 .. m : ~Hit(d, section, key, p)
    BY <1>3, <1>7, <2>1 DEF NoHit, m
  <2>3. \A p \in 1 .. m + 1 : p \in 1 .. m \/ p = m + 1
    BY <1>3
  <2> QED
    BY <1>3, <2>1, <2>2, <2>3 DEF NoHit
<1>10. ASSUME k + 1 >= i
       PROVE  \E p : FirstHit(d, section, key, p) /\ d.entries[p][3] = lines[i].raw
  <2>1. CASE k + 1 = i
    <3>1. k < i /\ Hit(d, section, key, m + 1)
      BY <1>1, <1>6, <2>1
    <3>2. \A p \in 1 .. m : ~Hit(d, section, key, p)
      BY <1>3, <1>7, <3>1 DEF NoHit, m
    <3>3. \A p \in 1 .. m + 1 : p \in 1 .. m \/ p = m + 1
      BY <1>3
    <3>4. FirstHit(d, section, key, m + 1)
      BY <1>3, <3>1, <3>2, <3>3 DEF FirstHit
    <3>5. d.entries[m + 1][3] = lines[i].raw
      BY <1>3, <2>1 DEF c
    <3> QED
      BY <3>4, <3>5
  <2>2. CASE k + 1 # i
    <3>1. k >= i
      BY <1>1, <1>10, <2>2
    <3>2. PICK p : FirstHit(doc, section, key, p) /\ doc.entries[p][3] = lines[i].raw
      BY <1>7, <3>1
    <3>3. p \in 1 .. m /\ Hit(d, section, key, p) /\ d.entries[p] = doc.entries[p]
      BY <1>3, <3>2 DEF FirstHit, Hit, m
    <3>4. ASSUME NEW q \in 1 .. m + 1, Hit(d, section, key, q)
          PROVE  p <= q
      <4>1. CASE q \in 1 .. m
        BY <1>3, <3>2, <3>4, <4>1 DEF FirstHit, m
      <4>2. CASE q = m + 1
        BY <1>3, <3>3, <4>2
      <4> QED
        BY <1>3, <4>1, <4>2
    <3>5. FirstHit(d, section, key, p)
      BY <1>3, <3>3, <3>4 DEF FirstHit
    <3> QED
      BY <3>2, <3>3, <3>5
  <2> QED
    BY <2>1, <2>2
<1> QED
  BY <1>5, <1>8, <1>9, <1>10 DEF Told, a, more

LEMMA ToldNext ==
  ASSUME NEW lines \in Seq(Lines), NEW section, NEW key, NEW i \in Nat,
         NEW k \in 0 .. Len(lines) - 1, NEW doc \in Documents,
         Told(lines, section, key, i, k, doc),
         k + 1 < i => ~Says(lines, section, key, k + 1),
         k + 1 = i => Says(lines, section, key, i)
  PROVE  Told(lines, section, key, i, k + 1, ReadLine(doc, lines[k + 1]))
<1> DEFINE line == lines[k + 1]
           d == ReadLine(doc, line)
           pairs == Cardinality(PairsTo(lines, k))
           more == Cardinality(PairsTo(lines, k + 1))
<1> SUFFICES Told(lines, section, key, i, k + 1, d)
  OBVIOUS
<1>1. /\ k \in Nat /\ line \in Lines
      /\ doc.entries \in Seq(Names \X Names \X Raws) /\ Len(doc.entries) \in Nat
  BY LenProperties, ElementOfSeq DEF Documents
<1>2. pairs \in Nat /\ more = pairs + (IF line.kind = "pair" THEN 1 ELSE 0)
  BY <1>1, PairsNext
<1>3. MaxEntries \in Nat
  BY MaxEntriesAssumption
<1>4. /\ Len(doc.entries) <= pairs /\ (doc.full => pairs > MaxEntries)
      /\ ~doc.full => Under(lines, k, doc.section)
      /\ k < i => NoHit(doc, section, key)
      /\ k >= i /\ ~doc.full =>
           \E p : FirstHit(doc, section, key, p) /\ doc.entries[p][3] = lines[i].raw
  BY DEF Told
<1>5. Says(lines, section, key, k + 1) => line.kind = "pair"
  BY DEF Says
<1> HIDE DEF pairs, more
(* A line that pushes nothing. *)
<1>6. ASSUME d.entries = doc.entries, doc.full => d.full,
             d.full => more > MaxEntries,
             ~d.full => Under(lines, k + 1, d.section),
             line.kind = "pair" => d.full
      PROVE  Told(lines, section, key, i, k + 1, d)
  <2> HIDE DEF d
  <2>1. Len(d.entries) <= more
    BY <1>1, <1>2, <1>4, <1>6
  <2>2. k + 1 < i => NoHit(d, section, key)
    <3>1. k + 1 < i => k < i
      BY <1>1
    <3> QED
      BY <1>4, <1>6, <3>1 DEF NoHit, Hit
  <2>3. ASSUME k + 1 >= i, ~d.full
        PROVE  \E p : FirstHit(d, section, key, p) /\ d.entries[p][3] = lines[i].raw
    <3>1. k >= i /\ ~doc.full
      BY <1>1, <1>5, <1>6, <2>3
    <3> QED
      BY <1>4, <1>6, <3>1 DEF FirstHit, Hit
  <2> QED
    BY <1>6, <2>1, <2>2, <2>3 DEF Told, more
<1>7. CASE doc.full
  <2>1. d = doc
    BY <1>7 DEF ReadLine
  <2> HIDE DEF d
  <2> QED
    BY <1>2, <1>3, <1>4, <1>6, <1>7, <2>1
<1>8. CASE ~doc.full /\ line.kind = "section"
  <2>1. d.entries = doc.entries /\ d.full = doc.full /\ d.section = line.name
    BY <1>8 DEF ReadLine, Documents
  <2>2. Under(lines, k + 1, d.section)
    BY <1>1, <1>8, <2>1, UnderNext
  <2> HIDE DEF d
  <2> QED
    BY <1>6, <1>8, <2>1, <2>2
<1>9. CASE ~doc.full /\ line.kind = "pair" /\ Len(doc.entries) = MaxEntries
  <2>1. d.entries = doc.entries /\ d.full = TRUE
    BY <1>9 DEF ReadLine, Push, Documents
  <2>2. more > MaxEntries
    BY <1>2, <1>3, <1>4, <1>9
  <2> HIDE DEF d
  <2> QED
    BY <1>6, <1>9, <2>1, <2>2
<1>10. CASE ~doc.full /\ line.kind = "pair" /\ Len(doc.entries) # MaxEntries
  <2>1. /\ d.entries = Append(doc.entries, <<doc.section, line.name, line.raw>>)
        /\ d.full = doc.full /\ d.section = doc.section
    BY <1>10 DEF ReadLine, Push, Documents
  <2> HIDE DEF d
  <2> QED
    BY <1>10, <2>1, ToldPush
<1>11. CASE ~doc.full /\ line.kind \notin {"section", "pair"}
  <2>1. d = doc
    BY <1>11 DEF ReadLine
  <2>2. Under(lines, k + 1, doc.section)
    BY <1>1, <1>4, <1>11, UnderNext
  <2> HIDE DEF d
  <2> QED
    BY <1>6, <1>11, <2>1, <2>2
<1> HIDE DEF d
<1> QED
  BY <1>7, <1>8, <1>9, <1>10, <1>11

(* What conf_get_*() finds is the first pair of that section and key.      *)
LEMMA LoadTells ==
  ASSUME NEW lines \in Seq(Lines), NEW section, NEW key, NEW i \in Nat,
         i \in 1 .. Len(lines) + 1,
         \A j \in 1 .. Len(lines) : j < i => ~Says(lines, section, key, j),
         i <= Len(lines) => Says(lines, section, key, i)
  PROVE  /\ i = Len(lines) + 1 => FindEntry(Load(lines), section, key) = Absent
         /\ i <= Len(lines) /\ Cardinality(PairsOf(lines)) <= MaxEntries =>
              FindEntry(Load(lines), section, key) = lines[i].raw
<1> DEFINE n == Len(lines)
<1>1. PICK F : LoadSteps(lines, F) /\ Load(lines) = F[n]
  BY LoadByStep
<1>2. n \in Nat /\ DOMAIN lines = 1 .. n
  BY LenProperties
<1>3. /\ F[0] = NoDocument
      /\ \A k \in 0 .. n : F[k] \in Documents
      /\ \A k \in 1 .. n : F[k] = ReadLine(F[k - 1], lines[k])
  BY <1>1 DEF LoadSteps
<1> DEFINE T == {k \in 0 .. n : Told(lines, section, key, i, k, F[k])}
<1>4. 0 \in T
  <2>1. Under(lines, 0, NoDocument.section)
    BY UnderNext DEF NoDocument
  <2>2. Len(NoDocument.entries) = 0 /\ NoDocument.full = FALSE
    BY EmptySeq DEF NoDocument
  <2>3. Cardinality(PairsTo(lines, 0)) \in Nat
    BY PairsNext
  <2>4. NoHit(NoDocument, section, key)
    BY <2>2 DEF NoHit
  <2>5. Told(lines, section, key, i, 0, NoDocument)
    BY <2>1, <2>2, <2>3, <2>4 DEF Told
  <2> QED
    BY <1>2, <1>3, <2>5
<1>5. ASSUME NEW k \in 1 .. n, k - 1 \in T
      PROVE  k \in T
  <2> DEFINE h == k - 1
  <2>1. h \in 0 .. n - 1 /\ h \in 0 .. n /\ h + 1 = k /\ k \in 0 .. n
    BY <1>2
  <2>2. F[h] \in Documents /\ F[k] = ReadLine(F[h], lines[k])
    BY <1>3, <2>1
  <2>3. Told(lines, section, key, i, h, F[h])
    BY <1>5
  <2>4. /\ h + 1 < i => ~Says(lines, section, key, h + 1)
        /\ h + 1 = i => Says(lines, section, key, i)
    BY <1>2, <2>1
  <2> HIDE DEF h
  <2>5. Told(lines, section, key, i, h + 1, ReadLine(F[h], lines[h + 1]))
    BY <2>1, <2>2, <2>3, <2>4, ToldNext
  <2> QED
    BY <2>1, <2>2, <2>5
<1> HIDE DEF T
<1>6. Told(lines, section, key, i, n, F[n])
  <2>1. 0 .. n \subseteq T
    BY <1>2, <1>4, <1>5, CountingUp
  <2>2. n \in T
    BY <1>2, <2>1
  <2> QED
    BY <2>2 DEF T
<1>7. Load(lines) \in Documents
  BY LoadKeeps
<1>8. PairsOf(lines) = PairsTo(lines, n)
  BY <1>2 DEF PairsOf, PairsTo
<1>9. ASSUME i = n + 1
      PROVE  FindEntry(Load(lines), section, key) = Absent
  <2>1. NoHit(Load(lines), section, key)
    BY <1>1, <1>2, <1>6, <1>9 DEF Told
  <2> QED
    BY <1>7, <2>1, FindEntryFinds
<1>10. ASSUME i <= n, Cardinality(PairsOf(lines)) <= MaxEntries
       PROVE  FindEntry(Load(lines), section, key) = lines[i].raw
  <2>1. ~(Cardinality(PairsTo(lines, n)) > MaxEntries)
    BY <1>2, <1>8, <1>10, PairsNext, MaxEntriesAssumption
  <2>2. ~Load(lines).full /\ n >= i
    BY <1>1, <1>2, <1>6, <1>10, <2>1 DEF Told
  <2>3. PICK p : /\ FirstHit(Load(lines), section, key, p)
                 /\ Load(lines).entries[p][3] = lines[i].raw
    BY <1>1, <1>6, <2>2 DEF Told
  <2> QED
    BY <1>7, <2>3, FindEntryFinds
<1> QED
  BY <1>9, <1>10
-----------------------------------------------------------------------------
(* What a rule makes of a value, whatever is written.                      *)
Ranges(rule, v) ==
  /\ rule = "port" => v \in PortNumbers
  /\ rule = "qos" => v \in 0 .. 2
  /\ rule = "size" => v \in Nat \ {0}
  /\ rule = "nonempty" => v # NoText
  /\ rule = "uint32" => v \in 0 .. IntMod - 1
  /\ rule \in {"bool", "flag", "on", "off"} => IsFlag(v)

LEMMA WidthsAre == IntMod \in Nat /\ IntMod > 0 /\ SizeMod \in Nat /\ SizeMod > 0
  BY WidthAssumption

LEMMA NumbersAre ==
  ASSUME NEW n \in Int
  PROVE  ToInt(n) \in Int /\ ToSize(n) \in Nat /\ ToSize(n) % IntMod \in 0 .. IntMod - 1
<1>1. IntMod \div 2 \in Int
  BY WidthsAre
<1>2. ToSize(n) \in Nat
  BY WidthsAre DEF ToSize
<1>3. \A m \in Int : m % IntMod \in 0 .. IntMod - 1
  BY WidthsAre
<1>4. ToInt(n) \in Int
  <2>1. (n + IntMod \div 2) % IntMod \in Int
    BY <1>1, <1>3
  <2> QED
    BY <1>1, <2>1 DEF ToInt
<1> QED
  BY <1>2, <1>3, <1>4

FileRules ==
  {"nonempty", "text", "protocol", "port", "qos", "int", "size", "uint32", "double",
   "bool"}

LEMMA FileValueFits ==
  ASSUME NEW rule \in FileRules, NEW raw \in Raws \cup {Absent},
         NEW current \in Plain, Ranges(rule, current)
  PROVE  FileValue(rule, raw, current) \in Plain
         /\ Ranges(rule, FileValue(rule, raw, current))
<1> DEFINE v == FileValue(rule, raw, current)
<1> SUFFICES v \in Plain /\ Ranges(rule, v)
  OBVIOUS
<1>1. CASE raw.kind = "absent"
  BY <1>1 DEF FileValue
<1>2. CASE raw.kind # "absent"
  <2>1. raw \in Raws
    BY <1>2 DEF Absent, Raw
  <2>2. raw.w \in STRING /\ raw.n \in Int
    BY <2>1 DEF Raws
  <2>3. /\ ToInt(raw.n) \in Int /\ ToSize(raw.n) \in Nat
        /\ ToSize(raw.n) % IntMod \in 0 .. IntMod - 1
    BY <2>2, NumbersAre
  <2>4. 0 \in Int /\ \A x : x \in Int \cup STRING => x \in Plain
    BY PlainHolds
  <2>5. CASE rule = "nonempty"
    <3>1. v = IF raw.w = NoText THEN current ELSE raw.w
      BY <1>2, <2>5 DEF FileValue
    <3> HIDE DEF v
    <3> QED
      BY <2>2, <2>4, <2>5, <3>1 DEF Ranges
  <2>6. CASE rule = "text"
    <3>1. v = raw.w
      BY <1>2, <2>6 DEF FileValue
    <3> HIDE DEF v
    <3> QED
      BY <2>2, <2>4, <2>6, <3>1 DEF Ranges
  <2>7. CASE rule = "protocol"
    <3>1. v = IF raw.w \in Protocols THEN raw.w ELSE current
      BY <1>2, <2>7 DEF FileValue
    <3> HIDE DEF v
    <3> QED
      BY <2>2, <2>4, <2>7, <3>1 DEF Ranges
  <2>8. CASE rule = "port"
    <3>1. v = IF HasDigits(raw) /\ ToInt(raw.n) \in PortNumbers
              THEN ToInt(raw.n) ELSE current
      BY <1>2, <2>8 DEF FileValue, FilePort
    <3> HIDE DEF v
    <3> QED
      BY <2>3, <2>4, <2>8, <3>1 DEF Ranges
  <2>9. CASE rule = "qos"
    <3> DEFINE q == IF HasDigits(raw) THEN ToInt(raw.n) ELSE current
    <3>1. v = IF q \in 0 .. 2 THEN q ELSE 0
      BY <1>2, <2>9 DEF FileValue
    <3> HIDE DEF v, q
    <3>2. v \in 0 .. 2
      BY <3>1
    <3> QED
      BY <2>4, <2>9, <3>2 DEF Ranges
  <2>10. CASE rule = "int"
    <3>1. v = IF HasDigits(raw) THEN ToInt(raw.n) ELSE current
      BY <1>2, <2>10 DEF FileValue
    <3> HIDE DEF v
    <3> QED
      BY <2>3, <2>4, <2>10, <3>1 DEF Ranges
  <2>11. CASE rule = "size"
    <3>1. v = IF HasDigits(raw) /\ ToSize(raw.n) # 0 THEN ToSize(raw.n) ELSE current
      BY <1>2, <2>11 DEF FileValue
    <3> HIDE DEF v
    <3> QED
      BY <2>3, <2>4, <2>11, <3>1 DEF Ranges
  <2>12. CASE rule = "uint32"
    <3>1. v = IF HasDigits(raw) THEN ToSize(raw.n) % IntMod ELSE current
      BY <1>2, <2>12 DEF FileValue
    <3> HIDE DEF v
    <3> QED
      BY <2>3, <2>4, <2>12, <3>1 DEF Ranges
  <2>13. CASE rule = "double"
    <3>1. v = IF HasDigits(raw) THEN raw.n ELSE current
      BY <1>2, <2>13 DEF FileValue
    <3> HIDE DEF v
    <3> QED
      BY <2>2, <2>4, <2>13, <3>1 DEF Ranges
  <2>14. CASE rule = "bool"
    <3>1. v = (Yes(raw) \/ (~No(raw) /\ current))
      BY <1>2, <2>14 DEF FileValue
    <3>2. current \in BOOLEAN
      BY <2>14 DEF Ranges, IsFlag
    <3> HIDE DEF v
    <3>3. v \in BOOLEAN
      BY <3>1, <3>2
    <3>4. IsFlag(v) /\ v \in Plain
      BY <3>3 DEF IsFlag, Plain
    <3> QED
      BY <2>14, <3>4 DEF Ranges
  <2> QED
    BY <2>5, <2>6, <2>7, <2>8, <2>9, <2>10, <2>11, <2>12, <2>13, <2>14 DEF FileRules
<1> QED
  BY <1>1, <1>2

ArgRules ==
  {"ws", "mqtt", "protocol", "nonempty", "port", "text", "qos", "flag", "size", "off",
   "on", "double", "path"}

LEMMA ArgValueFits ==
  ASSUME NEW rule \in ArgRules, NEW next \in Raws \cup {Absent},
         NEW current \in Plain, Ranges(rule, current)
  PROVE  ArgValue(rule, next, current) \in Plain
         /\ Ranges(rule, ArgValue(rule, next, current))
<1> DEFINE v == ArgValue(rule, next, current)
<1> SUFFICES v \in Plain /\ Ranges(rule, v)
  OBVIOUS
<1>1. next.w \in STRING \cup {NoText} /\ next.n \in Int
  BY DEF Raws, Absent, Raw
<1>2. ToInt(next.n) \in Int /\ ToSize(next.n) \in Nat
  BY <1>1, NumbersAre
<1>3. 0 \in Int /\ \A x : x \in Int \cup STRING \cup {NoText} \cup Protocols => x \in Plain
  BY PlainHolds
<1>4. CASE rule \in Protocols
  <2>1. v = rule
    BY <1>4 DEF ArgValue, Protocols
  <2>2. Ranges(rule, rule)
    BY <1>4 DEF Ranges, Protocols
  <2> HIDE DEF v
  <2> QED
    BY <1>3, <1>4, <2>1, <2>2
<1>5. CASE rule = "on" \/ rule = "off" \/ rule = "flag"
  <2>1. v = TRUE \/ v = FALSE \/ v = ~No(next)
    BY <1>5 DEF ArgValue, Protocols
  <2> HIDE DEF v
  <2>2. v \in BOOLEAN
    BY <2>1
  <2>3. IsFlag(v) /\ v \in Plain
    BY <2>2, PlainHolds DEF IsFlag
  <2> QED
    BY <1>5, <2>3 DEF Ranges
<1>6. CASE rule = "protocol"
  <2>1. v = IF next.w \in Protocols THEN next.w ELSE current
    BY <1>6 DEF ArgValue, Protocols
  <2> HIDE DEF v
  <2> QED
    BY <1>1, <1>3, <1>6, <2>1 DEF Ranges
<1>7. CASE rule = "nonempty"
  <2>1. v = IF next.w = NoText THEN current ELSE next.w
    BY <1>7 DEF ArgValue, Protocols
  <2> HIDE DEF v
  <2> QED
    BY <1>1, <1>3, <1>7, <2>1 DEF Ranges
<1>8. CASE rule = "text"
  <2>1. v = next.w
    BY <1>8 DEF ArgValue, Protocols
  <2> HIDE DEF v
  <2> QED
    BY <1>1, <1>3, <1>8, <2>1 DEF Ranges
<1>9. CASE rule = "port"
  <2>1. v = IF next.kind = "number" /\ next.n \in PortNumbers THEN next.n ELSE current
    BY <1>9 DEF ArgValue, Protocols
  <2> HIDE DEF v
  <2> QED
    BY <1>1, <1>3, <1>9, <2>1 DEF Ranges
<1>10. CASE rule = "qos"
  <2> DEFINE q == ToInt(next.n)
  <2>1. v = IF q \in 0 .. 2 THEN q ELSE 0
    BY <1>10 DEF ArgValue, Protocols
  <2> HIDE DEF v, q
  <2>2. v \in 0 .. 2
    BY <2>1
  <2> QED
    BY <1>3, <1>10, <2>2 DEF Ranges
<1>11. CASE rule = "size"
  <2>1. v = IF next.kind = "number" /\ ToSize(next.n) # 0 THEN ToSize(next.n) ELSE current
    BY <1>11 DEF ArgValue, Protocols
  <2> HIDE DEF v
  <2> QED
    BY <1>2, <1>3, <1>11, <2>1 DEF Ranges
<1>12. CASE rule = "double"
  <2>1. v = next.n
    BY <1>12 DEF ArgValue, Protocols
  <2> HIDE DEF v
  <2> QED
    BY <1>1, <1>3, <1>12, <2>1 DEF Ranges
<1>13. CASE rule = "path"
  <2>1. v = current
    BY <1>13 DEF ArgValue, Protocols
  <2> HIDE DEF v
  <2> QED
    BY <2>1
<1> QED
  BY <1>4, <1>5, <1>6, <1>7, <1>8, <1>9, <1>10, <1>11, <1>12, <1>13
     DEF ArgRules, Protocols
-----------------------------------------------------------------------------
(* A usable value is read as what it means.                                *)
LEMMA SmallNumbers ==
  /\ IntMod \div 2 \in Nat /\ 65536 <= IntMod \div 2
  /\ \A n \in 0 .. IntMod \div 2 - 1 : ToInt(n) = n
  /\ \A n \in 0 .. SizeMod - 1 : ToSize(n) = n
  /\ \A n \in 0 .. IntMod - 1 : ToSize(n) % IntMod = n
<1>1. /\ IntMod \in Nat /\ SizeMod \in Nat /\ IntMod % 2 = 0
      /\ 131072 <= IntMod /\ IntMod <= SizeMod
  BY WidthAssumption
<1>2. PICK h \in Nat : h = IntMod \div 2 /\ IntMod = 2 * h /\ 65536 <= h
  <2>1. \A m \in Nat : m \div 2 \in Nat /\ (m % 2 = 0 => m = 2 * (m \div 2))
    OBVIOUS
  <2>2. PICK h : h = IntMod \div 2
    OBVIOUS
  <2>3. h \in Nat /\ IntMod = 2 * h
    BY <1>1, <2>1, <2>2
  <2>4. 65536 <= h
    <3>1. 131072 <= 2 * h
      BY <1>1, <2>3
    <3> QED
      BY <2>3, <3>1
  <2> QED
    BY <2>2, <2>3, <2>4
<1>3. \A M \in Nat \ {0} : \A a \in 0 .. M - 1 : a % M = a
  OBVIOUS
<1>4. ASSUME NEW n \in 0 .. h - 1 PROVE ToInt(n) = n
  <2>1. n + h \in 0 .. IntMod - 1 /\ IntMod \in Nat \ {0}
    BY <1>1, <1>2
  <2>2. (n + h) % IntMod = n + h
    BY <1>3, <2>1
  <2>3. (n + h) - h = n
    BY <1>2
  <2> QED
    BY <1>2, <2>2, <2>3 DEF ToInt
<1>5. ASSUME NEW n \in 0 .. SizeMod - 1 PROVE ToSize(n) = n
  <2>1. SizeMod \in Nat \ {0}
    BY <1>1
  <2> QED
    BY <1>3, <2>1 DEF ToSize
<1>6. ASSUME NEW n \in 0 .. IntMod - 1 PROVE ToSize(n) % IntMod = n
  <2>1. n \in 0 .. SizeMod - 1 /\ IntMod \in Nat \ {0}
    BY <1>1
  <2> QED
    BY <1>3, <1>5, <2>1
<1> QED
  BY <1>2, <1>4, <1>5, <1>6

LEMMA TruthOrNot ==
  ASSUME NEW raw, Yes(raw) \/ No(raw)
  PROVE  No(raw) <=> ~Yes(raw)
<1>1. /\ Word("true") # Word("false") /\ Word("true") # Number(0)
      /\ Number(1) # Word("false") /\ Number(1) # Number(0)
  <2>1. /\ Word("true").w = "true" /\ Word("false").w = "false"
        /\ Number(1).n = 1 /\ Number(0).n = 0
        /\ Number(1).kind = "number" /\ Number(0).kind = "number"
        /\ Word("true").kind = "word" /\ Word("false").kind = "word"
    BY DEF Word, Number, Raw
  <2> QED
    BY <2>1
<1> QED
  BY <1>1 DEF Yes, No

LEMMA UsableNumbers ==
  ASSUME NEW raw, NEW rule, Usable(rule, raw)
  PROVE  /\ rule \in {"port", "qos", "size", "int", "uint32", "double"} =>
              raw.kind = "number" /\ HasDigits(raw)
         /\ rule = "port" => raw.n \in PortNumbers /\ ToInt(raw.n) = raw.n
         /\ rule = "qos" => raw.n \in 0 .. 2 /\ ToInt(raw.n) = raw.n
         /\ rule = "size" => ToSize(raw.n) = raw.n /\ ToSize(raw.n) # 0
         /\ rule = "int" => ToInt(raw.n) = raw.n
         /\ rule = "uint32" => ToSize(raw.n) % IntMod = raw.n
<1>1. PICK h \in Nat : h = IntMod \div 2 /\ 65536 <= h
  BY SmallNumbers
<1>2. ASSUME rule = "port"
      PROVE  raw.kind = "number" /\ raw.n \in PortNumbers /\ ToInt(raw.n) = raw.n
  <2>1. raw.kind = "number" /\ raw.n \in PortNumbers
    BY <1>2 DEF Usable
  <2>2. raw.n \in 0 .. h - 1
    <3>1. h \in Nat /\ 65535 <= h - 1
      BY <1>1
    <3>2. ASSUME NEW n \in PortNumbers PROVE n \in 0 .. h - 1
      <4>1. MaxPort \in Nat /\ MaxPort <= h - 1
        BY <3>1 DEF MaxPort
      <4>2. n \in 1 .. MaxPort
        BY DEF PortNumbers
      <4> QED
        BY <3>1, <4>1, <4>2
    <3> QED
      BY <2>1, <3>2
  <2> QED
    BY <1>1, <2>1, <2>2, SmallNumbers
<1>3. ASSUME rule = "qos"
      PROVE  raw.kind = "number" /\ raw.n \in 0 .. 2 /\ ToInt(raw.n) = raw.n
  <2>1. raw.kind = "number" /\ raw.n \in 0 .. 2
    BY <1>3 DEF Usable
  <2>2. raw.n \in 0 .. h - 1
    BY <1>1, <2>1
  <2> QED
    BY <1>1, <2>1, <2>2, SmallNumbers
<1>4. ASSUME rule = "size"
      PROVE  raw.kind = "number" /\ ToSize(raw.n) = raw.n /\ ToSize(raw.n) # 0
  <2>1. raw.kind = "number" /\ raw.n \in 1 .. SizeMod - 1
    BY <1>4 DEF Usable
  <2>2. raw.n \in 0 .. SizeMod - 1 /\ raw.n # 0
    BY <2>1, WidthsAre
  <2> QED
    BY <2>1, <2>2, SmallNumbers
<1>5. ASSUME rule = "int"
      PROVE  raw.kind = "number" /\ ToInt(raw.n) = raw.n
  BY <1>5, SmallNumbers DEF Usable
<1>6. ASSUME rule = "uint32"
      PROVE  raw.kind = "number" /\ ToSize(raw.n) % IntMod = raw.n
  BY <1>6, SmallNumbers DEF Usable
<1>7. ASSUME rule = "double"
      PROVE  raw.kind = "number"
  BY <1>7 DEF Usable
<1> QED
  BY <1>2, <1>3, <1>4, <1>5, <1>6, <1>7 DEF HasDigits

LEMMA FileValueMeans ==
  ASSUME NEW rule \in FileRules, NEW raw \in Raws, Usable(rule, raw), NEW current
  PROVE  FileValue(rule, raw, current) = Meaning(rule, raw)
<1>1. raw.kind # "absent"
  BY DEF Raws
<1>2. CASE rule \in {"nonempty", "text", "protocol"}
  <2>1. rule # "protocol" => raw.w # NoText
    BY <1>2 DEF Usable
  <2>2. rule = "protocol" => raw.w \in Protocols
    BY <1>2 DEF Usable
  <2>3. Meaning(rule, raw) = raw.w
    BY <1>2 DEF Meaning, Protocols
  <2> QED
    BY <1>1, <1>2, <2>1, <2>2, <2>3 DEF FileValue
<1>3. CASE rule = "bool"
  <2>1. Yes(raw) \/ No(raw)
    BY <1>3 DEF Usable
  <2>2. No(raw) <=> ~Yes(raw)
    BY <2>1, TruthOrNot
  <2>3. Meaning(rule, raw) = Yes(raw)
    BY <1>3 DEF Meaning, Protocols
  <2>4. FileValue(rule, raw, current) = (Yes(raw) \/ (~No(raw) /\ current))
    BY <1>1, <1>3 DEF FileValue
  <2>5. (Yes(raw) \/ (~No(raw) /\ current)) = Yes(raw)
    <3>1. Yes(raw) \in BOOLEAN
      BY DEF Yes
    <3>2. CASE Yes(raw)
      BY <3>1, <3>2
    <3>3. CASE ~Yes(raw)
      BY <2>2, <3>1, <3>3
    <3> QED
      BY <3>2, <3>3
  <2> QED
    BY <2>3, <2>4, <2>5
<1>4. CASE rule \in {"port", "qos", "size", "int", "uint32", "double"}
  <2>1. Meaning(rule, raw) = raw.n
    BY <1>4 DEF Meaning, Protocols
  <2>2. HasDigits(raw)
    BY <1>4, UsableNumbers
  <2>3. CASE rule = "port"
    BY <1>1, <2>1, <2>2, <2>3, UsableNumbers DEF FileValue, FilePort
  <2>4. CASE rule = "qos"
    BY <1>1, <2>1, <2>2, <2>4, UsableNumbers DEF FileValue
  <2>5. CASE rule = "size"
    BY <1>1, <2>1, <2>2, <2>5, UsableNumbers DEF FileValue
  <2>6. CASE rule = "int"
    BY <1>1, <2>1, <2>2, <2>6, UsableNumbers DEF FileValue
  <2>7. CASE rule = "uint32"
    BY <1>1, <2>1, <2>2, <2>7, UsableNumbers DEF FileValue
  <2>8. CASE rule = "double"
    BY <1>1, <2>1, <2>2, <2>8 DEF FileValue
  <2> QED
    BY <1>4, <2>3, <2>4, <2>5, <2>6, <2>7, <2>8
<1> QED
  BY <1>2, <1>3, <1>4 DEF FileRules

LEMMA ArgValueMeans ==
  ASSUME NEW rule \in ArgRules, NEW next, Usable(rule, next), NEW current
  PROVE  ArgValue(rule, next, current) = Meaning(rule, next)
<1>1. CASE rule \in {"ws", "mqtt", "on", "off"}
  BY <1>1 DEF ArgValue, Meaning, Protocols
<1>2. CASE rule \in {"nonempty", "text", "protocol"}
  <2>1. rule # "protocol" => next.w # NoText
    BY <1>2 DEF Usable
  <2>2. rule = "protocol" => next.w \in Protocols
    BY <1>2 DEF Usable
  <2>3. Meaning(rule, next) = next.w
    BY <1>2 DEF Meaning, Protocols
  <2>4. rule \notin Protocols
    BY <1>2 DEF Protocols
  <2> QED
    BY <1>2, <2>1, <2>2, <2>3, <2>4 DEF ArgValue
<1>3. CASE rule = "flag"
  <2>1. Yes(next) \/ No(next)
    BY <1>3 DEF Usable
  <2>2. No(next) <=> ~Yes(next)
    BY <2>1, TruthOrNot
  <2>3. Meaning(rule, next) = Yes(next) /\ ArgValue(rule, next, current) = ~No(next)
    BY <1>3 DEF Meaning, ArgValue, Protocols
  <2>4. Yes(next) \in BOOLEAN /\ No(next) \in BOOLEAN
    BY DEF Yes, No
  <2>5. Yes(next) = ~No(next)
    BY <2>2, <2>4
  <2> QED
    BY <2>3, <2>5
<1>4. CASE rule \in {"port", "qos", "size", "double"}
  <2>1. Meaning(rule, next) = next.n /\ rule \notin Protocols
    BY <1>4 DEF Meaning, Protocols
  <2>2. next.kind = "number"
    BY <1>4, UsableNumbers
  <2>3. CASE rule = "port"
    BY <2>1, <2>2, <2>3, UsableNumbers DEF ArgValue
  <2>4. CASE rule = "qos"
    BY <2>1, <2>2, <2>4, UsableNumbers DEF ArgValue
  <2>5. CASE rule = "size"
    BY <2>1, <2>2, <2>5, UsableNumbers DEF ArgValue
  <2>6. CASE rule = "double"
    BY <2>1, <2>6 DEF ArgValue
  <2> QED
    BY <1>4, <2>3, <2>4, <2>5, <2>6
<1>5. rule # "path"
  BY DEF Usable
<1> QED
  BY <1>1, <1>2, <1>3, <1>4, <1>5 DEF ArgRules
-----------------------------------------------------------------------------
(* The file.                                                               *)
LEMMA FileRulesAre ==
  /\ DOMAIN FileKey = Settings \ {"auto"}
  /\ \A s \in DOMAIN FileKey :
       /\ FileKey[s][3] \in FileRules
       /\ s \in Ports <=> FileKey[s][3] = "port"
       /\ s \in Qualities <=> FileKey[s][3] = "qos"
       /\ s \in Sizes <=> FileKey[s][3] = "size"
       /\ s \in Texts \cup {"separator"} <=> FileKey[s][3] = "nonempty"
       /\ s = "interval" <=> FileKey[s][3] = "uint32"
       /\ s \in Switches <=> FileKey[s][3] = "bool"
<1>1. DOMAIN FileKey = Settings \ {"auto"}
  BY SettingsAre DEF FileKey
<1>2. /\ FileKey["transport"][3] = "protocol" /\ FileKey["host"][3] = "nonempty"
      /\ FileKey["port"][3] = "port" /\ FileKey["topic"][3] = "nonempty"
      /\ FileKey["client_id"][3] = "text" /\ FileKey["qos"][3] = "qos"
      /\ FileKey["keepalive"][3] = "int" /\ FileKey["will_qos"][3] = "qos"
      /\ FileKey["will_retain"][3] = "bool" /\ FileKey["capacity"][3] = "size"
  BY DEF FileKey
<1>3. /\ FileKey["flush"][3] = "size" /\ FileKey["separator"][3] = "nonempty"
      /\ FileKey["also_stderr"][3] = "bool" /\ FileKey["web"][3] = "bool"
      /\ FileKey["web_port"][3] = "port" /\ FileKey["interval"][3] = "uint32"
      /\ FileKey["range"][3] = "double" /\ FileKey["timesource"][3] = "nonempty"
      /\ FileKey["max_acc"][3] = "double" /\ FileKey["seq_optional"][3] = "bool"
  BY DEF FileKey
<1>4. ASSUME NEW s \in Settings \ {"auto"}
      PROVE  /\ FileKey[s][3] \in FileRules
             /\ s \in Ports <=> FileKey[s][3] = "port"
             /\ s \in Qualities <=> FileKey[s][3] = "qos"
             /\ s \in Sizes <=> FileKey[s][3] = "size"
             /\ s \in Texts \cup {"separator"} <=> FileKey[s][3] = "nonempty"
             /\ s = "interval" <=> FileKey[s][3] = "uint32"
             /\ s \in Switches <=> FileKey[s][3] = "bool"
  BY <1>2, <1>3, SettingsAre
     DEF FileRules, Ports, Qualities, Sizes, Texts, Switches
<1> QED
  BY <1>1, <1>4

(* What the rule of a setting leaves of it is a value it may have.         *)
LEMMA RangesFit ==
  ASSUME NEW s \in DOMAIN FileKey, NEW v, Ranges(FileKey[s][3], v)
  PROVE  Fits(s, v)
<1>1. s # "auto"
  BY FileRulesAre
<1> QED
  BY <1>1, FileRulesAre DEF Ranges, Fits

LEMMA DefaultsInRanges ==
  ASSUME NEW s \in DOMAIN FileKey
  PROVE  Ranges(FileKey[s][3], Defaults[s])
<1>1. s \in Settings /\ Fits(s, Defaults[s])
  BY FileRulesAre, DefaultsFit DEF Configs
<1>2. FileKey[s][3] \notin {"flag", "on", "off"}
  BY FileRulesAre DEF FileRules
<1>3. Defaults["separator"] # NoText
  BY DEF Defaults, NoText
<1> QED
  BY <1>1, <1>2, <1>3, FileRulesAre DEF Ranges, Fits

LEMMA ApplyConfFits ==
  ASSUME NEW doc \in Documents
  PROVE  ApplyConf(doc, Defaults) \in Configs
<1> DEFINE alias == FindEntry(doc, "transport", "webinterface")
           before == IF alias = Absent THEN Defaults
                     ELSE [Defaults EXCEPT !.web = Yes(alias)]
           entry(s) == FindEntry(doc, FileKey[s][1], FileKey[s][2])
           after == [s \in DOMAIN Defaults |->
                       IF s \in DOMAIN FileKey
                       THEN FileValue(FileKey[s][3], entry(s), before[s])
                       ELSE Defaults[s]]
           cap == entry("capacity")
           b == ~(HasDigits(cap) /\ ToSize(cap.n) # 0)
<1>1. /\ "web" \in DOMAIN FileKey /\ "web" \in Settings /\ FileKey["web"][3] = "bool"
      /\ DOMAIN FileKey \subseteq Settings
  BY FileRulesAre, SettingsAre DEF Switches
<1>2. ASSUME NEW s \in DOMAIN FileKey
      PROVE  before[s] \in Plain /\ Ranges(FileKey[s][3], before[s])
  <2>1. Defaults[s] \in Plain /\ Ranges(FileKey[s][3], Defaults[s])
    BY <1>1, DefaultsFit, DefaultsInRanges DEF Configs
  <2>2. CASE alias = Absent
    BY <2>1, <2>2
  <2>3. CASE alias # Absent
    <3> DEFINE y == Yes(alias)
    <3>1. IsFlag(y) /\ y \in Plain
      BY PlainHolds DEF IsFlag, Yes
    <3>2. before = [Defaults EXCEPT !["web"] = y]
      BY <2>3
    <3> HIDE DEF y, before
    <3>3. before[s] = IF s = "web" THEN y ELSE Defaults[s]
      BY <1>1, <3>2 DEF Settings
    <3>4. Ranges("bool", y)
      BY <3>1 DEF Ranges
    <3> QED
      BY <1>1, <2>1, <3>1, <3>3, <3>4
  <2> QED
    BY <2>2, <2>3
<1> HIDE DEF before
<1>3. ASSUME NEW s \in DOMAIN FileKey
      PROVE  /\ FileValue(FileKey[s][3], entry(s), before[s]) \in Plain
             /\ Fits(s, FileValue(FileKey[s][3], entry(s), before[s]))
  <2>1. FileKey[s][3] \in FileRules /\ entry(s) \in Raws \cup {Absent}
    BY FileRulesAre, FoundIsRaw
  <2>2. /\ FileValue(FileKey[s][3], entry(s), before[s]) \in Plain
        /\ Ranges(FileKey[s][3], FileValue(FileKey[s][3], entry(s), before[s]))
    <3> HIDE DEF entry
    <3> QED
      BY <1>2, <2>1, FileValueFits
  <2> QED
    BY <2>2, RangesFit
<1>4. after \in Configs
  <2>1. \A s \in Settings \ DOMAIN FileKey : Defaults[s] \in Plain /\ Fits(s, Defaults[s])
    BY DefaultsFit DEF Configs
  <2> DEFINE value(s) == FileValue(FileKey[s][3], entry(s), before[s])
  <2>2. after = [s \in Settings |-> IF s \in DOMAIN FileKey THEN value(s) ELSE Defaults[s]]
    BY DEF Settings
  <2> HIDE DEF after
  <2>3. \A s \in DOMAIN FileKey : value(s) \in Plain /\ Fits(s, value(s))
    BY <1>3
  <2> HIDE DEF value
  <2>4. \A s \in Settings :
          after[s] = IF s \in DOMAIN FileKey THEN value(s) ELSE Defaults[s]
    BY <2>2
  <2>5. \A s \in Settings : after[s] \in Plain /\ Fits(s, after[s])
    BY <2>1, <2>3, <2>4
  <2>6. after \in [Settings -> Plain]
    BY <2>1, <2>2, <2>3
  <2> QED
    BY <2>5, <2>6 DEF Configs
<1>5. b \in BOOLEAN
  OBVIOUS
<1>6. ApplyConf(doc, Defaults) = [after EXCEPT !.auto = @ /\ b]
  BY DEF ApplyConf, before
<1> HIDE DEF after, b
<1> QED
  BY <1>4, <1>5, <1>6, UpdateAuto

(* Setting s has value v, and the buffer is not sized to anything else.    *)
Settled(c, s, v) == c[s] = v /\ (s = "capacity" => ~c.auto)

LEMMA ApplyConfSettles ==
  ASSUME NEW doc \in Documents, NEW s \in DOMAIN FileKey,
         NEW raw, raw = FindEntry(doc, FileKey[s][1], FileKey[s][2])
  PROVE  /\ raw \in Raws /\ Usable(FileKey[s][3], raw) =>
              Settled(ApplyConf(doc, Defaults), s, Meaning(FileKey[s][3], raw))
         /\ raw = Absent /\ s \notin {"web", "capacity"} =>
              Settled(ApplyConf(doc, Defaults), s, Defaults[s])
<1> DEFINE alias == FindEntry(doc, "transport", "webinterface")
           before == IF alias = Absent THEN Defaults
                     ELSE [Defaults EXCEPT !.web = Yes(alias)]
           entry(t) == FindEntry(doc, FileKey[t][1], FileKey[t][2])
           value(t) == FileValue(FileKey[t][3], entry(t), before[t])
           after == [t \in DOMAIN Defaults |->
                       IF t \in DOMAIN FileKey THEN value(t) ELSE Defaults[t]]
           cap == entry("capacity")
           b == ~(HasDigits(cap) /\ ToSize(cap.n) # 0)
           c == ApplyConf(doc, Defaults)
<1> SUFFICES /\ raw \in Raws /\ Usable(FileKey[s][3], raw) =>
                  Settled(c, s, Meaning(FileKey[s][3], raw))
             /\ raw = Absent /\ s \notin {"web", "capacity"} =>
                  Settled(c, s, Defaults[s])
  OBVIOUS
<1>1. s \in Settings /\ s # "auto" /\ "auto" \in Settings /\ FileKey[s][3] \in FileRules
  BY FileRulesAre, SettingsAre
<1>2. c = [after EXCEPT !.auto = @ /\ b]
  BY DEF ApplyConf
<1>3. raw = entry(s) /\ (s = "capacity" => raw = cap)
  OBVIOUS
<1>4. s # "web" => before[s] = Defaults[s]
  <2>1. s \in DOMAIN Defaults
    BY <1>1 DEF Settings
  <2> QED
    BY <2>1
<1> HIDE DEF before, entry, cap
<1>5. /\ DOMAIN after = Settings
      /\ after[s] = FileValue(FileKey[s][3], raw, before[s])
  BY <1>1, <1>3 DEF Settings
<1> HIDE DEF after
<1>6. /\ c[s] = FileValue(FileKey[s][3], raw, before[s])
      /\ c.auto => b
  BY <1>1, <1>2, <1>5
<1> HIDE DEF c
<1>7. ASSUME raw \in Raws, Usable(FileKey[s][3], raw)
      PROVE  Settled(c, s, Meaning(FileKey[s][3], raw))
  <2>1. c[s] = Meaning(FileKey[s][3], raw)
    BY <1>1, <1>6, <1>7, FileValueMeans
  <2>2. ASSUME s = "capacity" PROVE ~c.auto
    <3>1. FileKey[s][3] = "size"
      BY <2>2, FileRulesAre DEF Sizes
    <3>2. HasDigits(raw) /\ ToSize(raw.n) # 0
      BY <1>7, <3>1, UsableNumbers
    <3>3. ~b
      BY <1>3, <2>2, <3>2
    <3> QED
      BY <1>6, <3>3
  <2> QED
    BY <2>1, <2>2 DEF Settled
<1>8. ASSUME raw = Absent, s \notin {"web", "capacity"}
      PROVE  Settled(c, s, Defaults[s])
  <2>1. raw.kind = "absent"
    BY <1>8 DEF Absent, Raw
  <2>2. c[s] = before[s]
    BY <1>6, <2>1 DEF FileValue
  <2> QED
    BY <1>4, <1>8, <2>2 DEF Settled
<1> QED
  BY <1>7, <1>8

(* What apply_conf() makes of a file.                                      *)
LEMMA FileSettles ==
  ASSUME NEW lines \in Seq(Lines), NEW s \in DOMAIN FileKey,
         NEW c, c = ApplyConf(Load(lines), Defaults)
  PROVE  /\ \A i \in FirstOf(Written(lines, s)) :
              (Usable(FileKey[s][3], lines[i].raw)
               /\ Cardinality(PairsOf(lines)) <= MaxEntries)
                 => Settled(c, s, Meaning(FileKey[s][3], lines[i].raw))
         /\ Written(lines, s) = {} /\ s \notin {"web", "capacity"} =>
              Settled(c, s, Defaults[s])
<1> DEFINE section == FileKey[s][1]
           key == FileKey[s][2]
           rule == FileKey[s][3]
           n == Len(lines)
           raw == FindEntry(Load(lines), section, key)
<1>1. n \in Nat /\ DOMAIN lines = 1 .. n /\ \A i \in 1 .. n : lines[i] \in Lines
  BY LenProperties, ElementOfSeq
<1>2. Load(lines) \in Documents
  BY LoadKeeps
<1>3. Written(lines, s) = {i \in 1 .. n : Says(lines, section, key, i)}
  BY <1>1 DEF Written, Says
<1>4. /\ raw \in Raws /\ Usable(rule, raw) => Settled(c, s, Meaning(rule, raw))
      /\ raw = Absent /\ s \notin {"web", "capacity"} => Settled(c, s, Defaults[s])
  BY <1>2, ApplyConfSettles
<1> HIDE DEF section, key, rule, n, raw
<1>5. ASSUME NEW i \in FirstOf(Written(lines, s)), Usable(rule, lines[i].raw),
             Cardinality(PairsOf(lines)) <= MaxEntries
      PROVE  Settled(c, s, Meaning(rule, lines[i].raw))
  <2>1. /\ i \in 1 .. n /\ Says(lines, section, key, i)
        /\ \A j \in 1 .. n : Says(lines, section, key, j) => i <= j
    BY <1>3 DEF FirstOf
  <2>2. i \in Nat /\ i \in 1 .. n + 1 /\ i <= n /\ \A j \in 1 .. n : j < i => ~(i <= j)
    BY <1>1, <2>1
  <2>3. raw = lines[i].raw
    BY <1>5, <2>1, <2>2, LoadTells DEF raw, n
  <2>4. lines[i].raw \in Raws
    BY <1>1, <2>1 DEF Says, Lines
  <2> QED
    BY <1>4, <1>5, <2>3, <2>4
<1>6. ASSUME Written(lines, s) = {}, s \notin {"web", "capacity"}
      PROVE  Settled(c, s, Defaults[s])
  <2>1. \A j \in 1 .. n : ~Says(lines, section, key, j)
    BY <1>3, <1>6
  <2>2. n + 1 \in Nat /\ n + 1 \in 1 .. n + 1 /\ ~(n + 1 <= n)
    BY <1>1
  <2>3. raw = Absent
    BY <2>1, <2>2, LoadTells DEF raw, n
  <2> QED
    BY <1>4, <1>6, <2>3
<1> QED
  BY <1>5, <1>6 DEF rule
-----------------------------------------------------------------------------
(* The command line.                                                       *)
LEMMA FlagRulesAre ==
  \A f \in Flags :
    /\ f[2] \in Settings /\ f[3] \in ArgRules
    /\ f[2] \in Ports <=> f[3] = "port"
    /\ f[2] \in Qualities <=> f[3] = "qos"
    /\ f[2] \in Sizes <=> f[3] = "size"
    /\ f[2] \in Texts <=> f[3] = "nonempty"
    /\ f[2] \in Switches <=> f[3] \in {"flag", "on", "off", "path"}
    /\ f[2] = "auto" <=> f[3] = "path"
    /\ f[2] # "interval"
  BY SettingsAre DEF Flags, ArgRules, Ports, Qualities, Sizes, Texts, Switches

(* What ArgValue() may be given and may return.                            *)
LEMMA FlagFits ==
  ASSUME NEW f \in Flags, NEW next \in Raws \cup {Absent}, NEW c \in Configs
  PROVE  /\ f[2] \in Settings
         /\ ArgValue(f[3], next, c[f[2]]) \in Plain
         /\ Fits(f[2], ArgValue(f[3], next, c[f[2]]))
<1> DEFINE s == f[2]
           current == c[s]
           v == ArgValue(f[3], next, current)
<1>1. /\ s \in Settings /\ f[3] \in ArgRules
  BY FlagRulesAre
<1>2. current \in Plain /\ Fits(s, current)
  BY <1>1 DEF Configs
<1> HIDE DEF s, current
<1>3. Ranges(f[3], current)
  <2>1. f[3] \notin {"bool", "uint32"}
    BY <1>1 DEF ArgRules
  <2> QED
    BY <1>2, <2>1, FlagRulesAre DEF Ranges, Fits, s
<1>4. v \in Plain /\ Ranges(f[3], v)
  BY <1>1, <1>2, <1>3, ArgValueFits
<1>5. Fits(s, v)
  <2>1. CASE f[3] = "path"
    <3>1. v = current
      BY <2>1 DEF ArgValue, Protocols
    <3> QED
      BY <1>2, <3>1
  <2>2. CASE f[3] # "path"
    <3> HIDE DEF v
    <3> QED
      BY <1>4, <2>2, FlagRulesAre DEF Ranges, Fits, s
  <2> QED
    BY <2>1, <2>2
<1> QED
  BY <1>1, <1>4, <1>5 DEF s, current

Accumulated == [cfg : Configs, taken : BOOLEAN, help : BOOLEAN]

LEMMA ParseArgKeeps ==
  ASSUME NEW argv \in Seq(Raws), NEW acc \in Accumulated, NEW i \in DOMAIN argv
  PROVE  ParseArg(argv, acc, i) \in Accumulated
<1> DEFINE rows == {f \in Flags : f[1] = argv[i].w}
           next == Argument(argv, i + 1)
           f == CHOOSE r \in rows : TRUE
           value == ArgValue(f[3], next, acc.cfg[f[2]])
           sized == f[2] = "capacity" /\ next.kind = "number" /\ ToSize(next.n) # 0
           b == ~sized
           stored == [acc.cfg EXCEPT ![f[2]] = value]
           result == [stored EXCEPT !.auto = @ /\ b]
           taken == Takes(f[3], next)
<1>1. acc.cfg \in Configs /\ acc.taken \in BOOLEAN /\ acc.help \in BOOLEAN
  BY DEF Accumulated
<1>2. /\ [acc EXCEPT !.taken = FALSE] \in Accumulated
      /\ [acc EXCEPT !.help = TRUE] \in Accumulated
  BY <1>1 DEF Accumulated
<1>3. ASSUME rows # {}
      PROVE  [cfg |-> result, taken |-> taken, help |-> FALSE] \in Accumulated
  <2>1. f \in Flags
    BY <1>3
  <2>2. next \in Raws \cup {Absent}
    BY ElementOfSeq, LenProperties DEF Argument
  <2>3. b \in BOOLEAN
    OBVIOUS
  <2>4. taken \in BOOLEAN
    BY DEF Takes
  <2> HIDE DEF f, next, b, taken
  <2>5. f[2] \in Settings /\ value \in Plain /\ Fits(f[2], value)
    BY <1>1, <2>1, <2>2, FlagFits
  <2> HIDE DEF value
  <2>6. stored \in Configs
    BY <1>1, <2>5, UpdateFits
  <2>7. result \in Configs
    <3> HIDE DEF stored
    <3> QED
      BY <2>3, <2>6, UpdateAuto
  <2> HIDE DEF result
  <2> QED
    BY <2>4, <2>7 DEF Accumulated
<1>4. ParseArg(argv, acc, i) \in
        {acc, [acc EXCEPT !.taken = FALSE], [acc EXCEPT !.help = TRUE]}
      \/ /\ rows # {}
         /\ ParseArg(argv, acc, i) = [cfg |-> result, taken |-> taken, help |-> FALSE]
  BY DEF ParseArg
<1> HIDE DEF rows, result, taken
<1> QED
  BY <1>2, <1>3, <1>4

Parsing(argv, cfg, F) ==
  F = [i \in 0 .. Len(argv) |->
         IF i = 0 THEN [cfg |-> cfg, taken |-> FALSE, help |-> FALSE]
         ELSE ParseArg(argv, F[i - 1], i)]

(* parse_args() argument by argument.                                      *)
ParseSteps(argv, cfg, F) ==
  /\ F[0] = [cfg |-> cfg, taken |-> FALSE, help |-> FALSE]
  /\ \A i \in 0 .. Len(argv) : F[i] \in Accumulated
  /\ \A i \in 1 .. Len(argv) : F[i] = ParseArg(argv, F[i - 1], i)

LEMMA ParseByStep ==
  ASSUME NEW argv \in Seq(Raws), NEW cfg \in Configs
  PROVE  \E F : ParseSteps(argv, cfg, F) /\ ParseArgs(argv, cfg) = F[Len(argv)]
<1> DEFINE n == Len(argv)
           base == [cfg |-> cfg, taken |-> FALSE, help |-> FALSE]
           turn == [i \in 1 .. n |-> [d \in Accumulated |-> ParseArg(argv, d, i)]]
<1>1. n \in Nat /\ DOMAIN argv = 1 .. n
  BY LenProperties
<1>2. base \in Accumulated
  BY DEF Accumulated
<1>3. ASSUME NEW i \in 1 .. n, NEW d \in Accumulated
      PROVE  turn[i][d] = ParseArg(argv, d, i) /\ turn[i][d] \in Accumulated
  BY <1>1, ParseArgKeeps
<1> HIDE DEF turn, n, base
<1>4. PICK F : LoopResults(F, n, Accumulated, base, turn)
  BY <1>1, <1>2, <1>3, LoopExists
<1>5. Parsing(argv, cfg, F)
  <2> DEFINE G == [i \in 0 .. n |-> IF i = 0 THEN base ELSE ParseArg(argv, F[i - 1], i)]
  <2>1. ASSUME NEW i \in 0 .. n PROVE F[i] = G[i]
    <3>1. CASE i = 0
      BY <1>4, <3>1 DEF LoopResults
    <3>2. CASE i # 0
      <4>1. i \in 1 .. n /\ i - 1 \in 0 .. n
        BY <1>1, <3>2
      <4>2. F[i - 1] \in Accumulated
        BY <1>4, <4>1 DEF LoopResults
      <4> QED
        BY <1>3, <1>4, <3>2, <4>1, <4>2 DEF LoopResults
    <3> QED
      BY <3>1, <3>2
  <2>2. G = [i \in 0 .. n |-> G[i]]
    OBVIOUS
  <2> HIDE DEF G
  <2>3. F = G
    BY <1>4, <2>1, <2>2 DEF LoopResults
  <2> QED
    BY <2>3 DEF Parsing, G, n, base
<1> DEFINE acc == CHOOSE H : Parsing(argv, cfg, H)
           T == {i \in 0 .. n : acc[i] \in Accumulated}
<1>6. Parsing(argv, cfg, acc)
  BY <1>5
<1> HIDE DEF acc
<1>7. acc[0] = base /\ \A i \in 1 .. n : acc[i] = ParseArg(argv, acc[i - 1], i)
  <2>1. acc = [i \in 0 .. n |-> IF i = 0 THEN base ELSE ParseArg(argv, acc[i - 1], i)]
    BY <1>6 DEF Parsing, n, base
  <2> QED
    BY <1>1, <2>1
<1>8. 0 \in T
  BY <1>1, <1>2, <1>7
<1>9. ASSUME NEW i \in 1 .. n, i - 1 \in T PROVE i \in T
  BY <1>1, <1>7, <1>9, ParseArgKeeps
<1> HIDE DEF T
<1>10. 0 .. n \subseteq T
  BY <1>1, <1>8, <1>9, CountingUp
<1>11. ParseArgs(argv, cfg) = acc[n]
  BY DEF ParseArgs, Parsing, acc, n
<1>12. ParseSteps(argv, cfg, acc)
  BY <1>7, <1>10 DEF ParseSteps, T, n, base
<1> QED
  BY <1>11, <1>12 DEF n

LEMMA ParseArgsKeeps ==
  ASSUME NEW argv \in Seq(Raws), NEW cfg \in Configs
  PROVE  ParseArgs(argv, cfg) \in Accumulated
<1>1. PICK F : ParseSteps(argv, cfg, F) /\ ParseArgs(argv, cfg) = F[Len(argv)]
  BY ParseByStep
<1>2. Len(argv) \in 0 .. Len(argv)
  BY LenProperties
<1> QED
  BY <1>1, <1>2 DEF ParseSteps
-----------------------------------------------------------------------------
(* What the command line says of a setting.  A word that is a flag is one  *)
(* flag only, and is no boolean.                                           *)
LEMMA FlagWordsDiffer ==
  /\ \A f, g \in Flags : f[1] = g[1] => f = g
  /\ {"--help", "true", "false", "digits"} \cap FlagWords = {}
<1>1. ASSUME NEW f \in Flags, NEW g \in Flags, f[1] = g[1] PROVE f = g
  BY <1>1 DEF Flags
<1>2. \A f \in Flags : f[1] \notin {"--help", "true", "false", "digits"}
  BY DEF Flags
<1> QED
  BY <1>1, <1>2 DEF FlagWords

(* A turn of parse_args() at a word that is not looked at, at another word *)
(* and at a flag.                                                          *)
LEMMA IdleTurn ==
  ASSUME NEW argv, NEW acc \in Accumulated, NEW i, acc.taken \/ acc.help
  PROVE  /\ ParseArg(argv, acc, i).cfg = acc.cfg
         /\ ParseArg(argv, acc, i).taken = FALSE
         /\ acc.help => ParseArg(argv, acc, i).help
<1>1. DOMAIN acc = {"cfg", "taken", "help"}
  BY DEF Accumulated
<1>2. ParseArg(argv, acc, i) = [acc EXCEPT !.taken = FALSE]
  BY DEF ParseArg
<1> QED
  BY <1>1, <1>2

LEMMA OtherTurn ==
  ASSUME NEW argv, NEW acc \in Accumulated, NEW i,
         ~acc.taken, ~acc.help, argv[i].w \notin FlagWords
  PROVE  /\ ParseArg(argv, acc, i).cfg = acc.cfg
         /\ ParseArg(argv, acc, i).taken = FALSE
<1>1. DOMAIN acc = {"cfg", "taken", "help"} /\ acc.taken \in BOOLEAN
  BY DEF Accumulated
<1>2. {f \in Flags : f[1] = argv[i].w} = {}
  BY DEF FlagWords
<1>3. \/ ParseArg(argv, acc, i) = acc
      \/ ParseArg(argv, acc, i) = [acc EXCEPT !.help = TRUE]
  BY <1>2 DEF ParseArg
<1>4. /\ ParseArg(argv, acc, i).cfg = acc.cfg
      /\ ParseArg(argv, acc, i).taken = acc.taken
  BY <1>1, <1>3
<1> QED
  BY <1>1, <1>4

LEMMA FlagTurn ==
  ASSUME NEW argv, NEW acc \in Accumulated, NEW i,
         ~acc.taken, ~acc.help, NEW f \in Flags, f[1] = argv[i].w,
         NEW next, next = Argument(argv, i + 1),
         NEW d, d = ParseArg(argv, acc, i)
  PROVE  /\ d.taken = Takes(f[3], next)
         /\ \A s \in Settings \ {"auto"} :
              d.cfg[s] = IF s = f[2] THEN ArgValue(f[3], next, acc.cfg[s]) ELSE acc.cfg[s]
         /\ d.cfg.auto =>
              /\ acc.cfg.auto
              /\ ~(f[2] = "capacity" /\ next.kind = "number" /\ ToSize(next.n) # 0)
<1> DEFINE rows == {r \in Flags : r[1] = argv[i].w}
           g == CHOOSE r \in rows : TRUE
           value == ArgValue(f[3], next, acc.cfg[f[2]])
           sized == f[2] = "capacity" /\ next.kind = "number" /\ ToSize(next.n) # 0
           b == ~sized
           stored == [acc.cfg EXCEPT ![f[2]] = value]
           result == [stored EXCEPT !.auto = @ /\ b]
           taken == Takes(f[3], next)
<1>1. rows = {f} /\ g = f
  BY FlagWordsDiffer
<1>2. argv[i].w # "--help"
  BY FlagWordsDiffer DEF FlagWords
<1>3. d = [cfg |-> result, taken |-> taken, help |-> FALSE]
  <2>1. rows # {}
    BY <1>1
  <2> HIDE DEF taken
  <2> QED
    BY <1>1, <1>2, <2>1 DEF ParseArg, taken
<1>4. f[2] \in Settings /\ DOMAIN acc.cfg = Settings /\ "auto" \in Settings
  BY FlagRulesAre, SettingsAre DEF Accumulated, Configs, Settings
<1>5. f[2] = "auto" => value = acc.cfg.auto
  <2>1. f[2] = "auto" => f[3] = "path"
    BY FlagRulesAre
  <2> QED
    BY <2>1 DEF ArgValue, Protocols
<1> HIDE DEF value, taken, b
<1>6. stored.auto = acc.cfg.auto /\ DOMAIN stored = Settings
  BY <1>4, <1>5
<1>7. \A s \in Settings : stored[s] = IF s = f[2] THEN value ELSE acc.cfg[s]
  BY <1>4
<1> HIDE DEF stored
<1>8. /\ \A s \in Settings \ {"auto"} : result[s] = stored[s]
      /\ result.auto = (stored.auto /\ b)
  BY <1>4, <1>6
<1> HIDE DEF result
<1>9. d.cfg = result /\ d.taken = taken
  BY <1>3
<1> QED
  BY <1>6, <1>7, <1>8, <1>9 DEF value, taken, b

(* A flag is never taken for the value of another one.                     *)
LEMMA FlagsNotTaken ==
  ASSUME NEW argv \in Seq(Raws), WellFormed(argv), NEW base \in Configs,
         NEW F, ParseSteps(argv, base, F),
         NEW i \in 1 .. Len(argv), argv[i].w \in FlagWords
  PROVE  F[i - 1].taken = FALSE
<1>1. DOMAIN argv = 1 .. Len(argv) /\ Len(argv) \in Nat
  BY LenProperties
<1>2. CASE i = 1
  BY <1>2 DEF ParseSteps
<1>3. CASE i # 1
  <2> DEFINE k == i - 1
             acc == F[k - 1]
  <2>1. /\ k \in 1 .. Len(argv) /\ k - 1 \in 0 .. Len(argv)
        /\ i \in DOMAIN argv \ {1} /\ k + 1 = i
    BY <1>1, <1>3
  <2>2. acc \in Accumulated /\ F[k] = ParseArg(argv, acc, k)
    BY <2>1 DEF ParseSteps
  <2>3. acc.taken \in BOOLEAN /\ acc.help \in BOOLEAN
    BY <2>2 DEF Accumulated
  <2>4. Argument(argv, k + 1) = argv[i]
    BY <2>1 DEF Argument
  <2> HIDE DEF acc
  <2>5. CASE acc.taken \/ acc.help
    <3>1. ParseArg(argv, acc, k).taken = FALSE
      BY <2>2, <2>5, IdleTurn
    <3> QED
      BY <2>2, <3>1
  <2>6. CASE ~acc.taken /\ ~acc.help /\ argv[k].w \notin FlagWords
    <3>1. ParseArg(argv, acc, k).taken = FALSE
      BY <2>2, <2>6, OtherTurn
    <3> QED
      BY <2>2, <3>1
  <2>7. CASE ~acc.taken /\ ~acc.help /\ argv[k].w \in FlagWords
    <3>1. PICK f \in Flags : f[1] = argv[k].w
      BY <2>7 DEF FlagWords
    <3>2. F[k].taken = Takes(f[3], argv[i])
      BY <2>2, <2>4, <2>7, <3>1, FlagTurn
    <3>3. f[3] \in {"ws", "mqtt", "on", "off", "flag"}
      <4>1. f[1] = argv[i - 1].w
        BY <3>1
      <4> HIDE DEF k
      <4> QED
        BY <2>1, <4>1 DEF WellFormed
    <3>4. argv[i].w \notin {"true", "false", "digits"}
      BY FlagWordsDiffer
    <3>5. ~(Yes(argv[i]) \/ No(argv[i]))
      BY <3>4 DEF Yes, No, Word, Number, Raw
    <3>6. Takes(f[3], argv[i]) = FALSE
      BY <3>3, <3>5 DEF Takes
    <3> QED
      BY <3>2, <3>6
  <2> QED
    BY <2>5, <2>6, <2>7
<1> QED
  BY <1>2, <1>3

(* Once the help is asked for, it is.                                      *)
LEMMA HelpStays ==
  ASSUME NEW argv \in Seq(Raws), NEW base \in Configs,
         NEW F, ParseSteps(argv, base, F), ~F[Len(argv)].help
  PROVE  \A i \in 0 .. Len(argv) : ~F[i].help
<1> SUFFICES ASSUME NEW i \in 0 .. Len(argv), F[i].help PROVE FALSE
  OBVIOUS
<1> DEFINE n == Len(argv)
           T == {j \in 0 .. n : i <= j => F[j].help}
<1>1. n \in Nat
  BY LenProperties
<1>2. 0 \in T
  BY <1>1
<1>3. ASSUME NEW j \in 1 .. n, j - 1 \in T PROVE j \in T
  <2>1. j - 1 \in 0 .. n /\ j \in 0 .. n
    BY <1>1
  <2>2. F[j - 1] \in Accumulated /\ F[j] = ParseArg(argv, F[j - 1], j)
    BY <2>1 DEF ParseSteps
  <2>3. F[j - 1].help => F[j].help
    BY <2>2, IdleTurn
  <2>4. i <= j => j = i \/ i <= j - 1
    BY <2>1
  <2> QED
    BY <1>3, <2>1, <2>3, <2>4
<1> HIDE DEF T, n
<1>4. 0 .. n \subseteq T
  BY <1>1, <1>2, <1>3, CountingUp
<1>5. n \in T
  BY <1>1, <1>4
<1> QED
  BY <1>5 DEF T, n

(* A turn that does not mention a setting leaves it as it is, ...          *)
LEMMA TurnLeaves ==
  ASSUME NEW argv, NEW acc \in Accumulated, NEW i \in DOMAIN argv,
         NEW s \in Settings \ {"auto"}, i \notin Mentions(argv, s),
         NEW v, Settled(acc.cfg, s, v),
         NEW d, d = ParseArg(argv, acc, i)
  PROVE  Settled(d.cfg, s, v)
<1>1. acc.taken \in BOOLEAN /\ acc.help \in BOOLEAN
  BY DEF Accumulated
<1>2. CASE acc.taken \/ acc.help
  <2>1. d.cfg = acc.cfg
    BY <1>2, IdleTurn
  <2> QED
    BY <2>1
<1>3. CASE ~acc.taken /\ ~acc.help /\ argv[i].w \notin FlagWords
  <2>1. d.cfg = acc.cfg
    BY <1>3, OtherTurn
  <2> QED
    BY <2>1
<1>4. CASE ~acc.taken /\ ~acc.help /\ argv[i].w \in FlagWords
  <2>1. PICK f \in Flags : f[1] = argv[i].w
    BY <1>4 DEF FlagWords
  <2>2. f[2] # s
    BY <2>1 DEF Mentions
  <2>3. d.cfg[s] = acc.cfg[s] /\ (d.cfg.auto => acc.cfg.auto)
    BY <1>4, <2>1, <2>2, FlagTurn
  <2> QED
    BY <2>3 DEF Settled
<1> QED
  BY <1>1, <1>2, <1>3, <1>4

(* ... and a flag with a usable value settles it.                          *)
LEMMA TurnSettles ==
  ASSUME NEW argv, NEW acc \in Accumulated, NEW i, ~acc.taken, ~acc.help,
         NEW f \in Flags, f[1] = argv[i].w, f[2] # "auto",
         NEW next, next = Argument(argv, i + 1), Usable(f[3], next),
         NEW d, d = ParseArg(argv, acc, i)
  PROVE  Settled(d.cfg, f[2], Meaning(f[3], next))
<1>1. f[2] \in Settings \ {"auto"} /\ f[3] \in ArgRules
  BY FlagRulesAre
<1>2. d.cfg[f[2]] = ArgValue(f[3], next, acc.cfg[f[2]])
  BY <1>1, FlagTurn
<1>3. d.cfg[f[2]] = Meaning(f[3], next)
  BY <1>1, <1>2, ArgValueMeans
<1>4. ASSUME f[2] = "capacity" PROVE ~d.cfg.auto
  <2>1. f[3] = "size"
    BY <1>4, FlagRulesAre DEF Sizes
  <2>2. next.kind = "number" /\ ToSize(next.n) # 0
    BY <2>1, UsableNumbers
  <2> QED
    BY <1>4, <2>2, FlagTurn
<1> QED
  BY <1>3, <1>4 DEF Settled

(* What is settled stays so until it is mentioned again.                   *)
LEMMA StaysSettled ==
  ASSUME NEW argv \in Seq(Raws), NEW base \in Configs,
         NEW F, ParseSteps(argv, base, F),
         NEW s \in Settings \ {"auto"}, NEW k \in 0 .. Len(argv),
         \A j \in Mentions(argv, s) : j <= k,
         NEW v, Settled(F[k].cfg, s, v)
  PROVE  Settled(F[Len(argv)].cfg, s, v)
<1> DEFINE n == Len(argv)
           T == {j \in 0 .. n : k <= j => Settled(F[j].cfg, s, v)}
<1>1. n \in Nat /\ DOMAIN argv = 1 .. n
  BY LenProperties
<1>2. 0 \in T
  <2>1. k <= 0 => k = 0
    BY <1>1
  <2> QED
    BY <1>1, <2>1
<1>3. ASSUME NEW j \in 1 .. n, j - 1 \in T PROVE j \in T
  <2>1. j - 1 \in 0 .. n /\ j \in 0 .. n
    BY <1>1
  <2>2. F[j - 1] \in Accumulated /\ F[j] = ParseArg(argv, F[j - 1], j)
    BY <2>1 DEF ParseSteps
  <2>3. ASSUME k <= j - 1 PROVE Settled(F[j].cfg, s, v)
    <3>1. Settled(F[j - 1].cfg, s, v)
      BY <1>3, <2>3
    <3>2. j \notin Mentions(argv, s)
      BY <1>1, <2>1, <2>3
    <3> QED
      BY <1>1, <2>2, <3>1, <3>2, TurnLeaves
  <2>4. k <= j => j = k \/ k <= j - 1
    BY <2>1
  <2>5. k <= j => Settled(F[j].cfg, s, v)
    BY <2>3, <2>4
  <2> QED
    BY <2>1, <2>5
<1> HIDE DEF T, n
<1>4. 0 .. n \subseteq T
  BY <1>1, <1>2, <1>3, CountingUp
<1>5. n \in T /\ k <= n
  BY <1>1, <1>4 DEF n
<1> QED
  BY <1>5 DEF T, n

(* What parse_args() makes of a configuration, unless it shows the help.   *)
LEMMA ArgsSettle ==
  ASSUME NEW argv \in Seq(Raws), WellFormed(argv), NEW base \in Configs,
         NEW args, args = ParseArgs(argv, base), ~args.help,
         NEW s \in Settings \ {"auto"}
  PROVE  /\ \A i \in LastOf(Mentions(argv, s)), f \in Flags :
              (f[1] = argv[i].w /\ Usable(f[3], Argument(argv, i + 1)))
                => Settled(args.cfg, s, Meaning(f[3], Argument(argv, i + 1)))
         /\ \A v : Mentions(argv, s) = {} /\ Settled(base, s, v) => Settled(args.cfg, s, v)
<1>1. PICK F : ParseSteps(argv, base, F) /\ args = F[Len(argv)]
  BY ParseByStep
<1>2. Len(argv) \in Nat /\ DOMAIN argv = 1 .. Len(argv)
  BY LenProperties
<1>3. ASSUME NEW i \in LastOf(Mentions(argv, s)), NEW f \in Flags,
             f[1] = argv[i].w, Usable(f[3], Argument(argv, i + 1))
      PROVE  Settled(args.cfg, s, Meaning(f[3], Argument(argv, i + 1)))
  <2>1. /\ i \in 1 .. Len(argv) /\ \A j \in Mentions(argv, s) : j <= i
        /\ \E g \in Flags : g[1] = argv[i].w /\ g[2] = s
    BY <1>2 DEF LastOf, Mentions
  <2>2. f[2] = s
    BY <1>3, <2>1, FlagWordsDiffer
  <2>3. i - 1 \in 0 .. Len(argv) /\ i \in 0 .. Len(argv)
    BY <1>2, <2>1
  <2>4. F[i - 1] \in Accumulated /\ F[i] = ParseArg(argv, F[i - 1], i)
    BY <1>1, <2>1, <2>3 DEF ParseSteps
  <2>5. ~F[i - 1].help
    BY <1>1, <2>3, HelpStays
  <2>6. argv[i].w \in FlagWords
    BY <1>3 DEF FlagWords
  <2>7. F[i - 1].taken = FALSE
    BY <1>1, <2>1, <2>6, FlagsNotTaken
  <2>8. Settled(F[i].cfg, s, Meaning(f[3], Argument(argv, i + 1)))
    BY <1>3, <2>2, <2>4, <2>5, <2>7, TurnSettles
  <2> QED
    BY <1>1, <2>1, <2>3, <2>8, StaysSettled
<1>4. ASSUME NEW v, Mentions(argv, s) = {}, Settled(base, s, v)
      PROVE  Settled(args.cfg, s, v)
  <2>1. 0 \in 0 .. Len(argv) /\ F[0].cfg = base
    BY <1>1, <1>2 DEF ParseSteps
  <2> QED
    BY <1>1, <1>4, <2>1, StaysSettled
<1> QED
  BY <1>3, <1>4
-----------------------------------------------------------------------------
(* main(): steps 1 to 6.                                                   *)
Sized(c) == c.auto => 5 * c.capacity >= 2 * c.flush - 4

LEMMA FifthsAre ==
  ASSUME NEW a \in Nat
  PROVE  a \div 5 \in Nat /\ 5 * (a \div 5) >= a - 4
  OBVIOUS

LEMMA SizeBufferSizes ==
  ASSUME NEW c \in Configs
  PROVE  SizeBuffer(c) \in Configs /\ Sized(SizeBuffer(c))
<1> DEFINE flushed == (c.flush * 2) \div 5
           needed == IF flushed < 64 THEN 64 ELSE flushed
           sized == [c EXCEPT !.capacity = needed]
<1>1. {"flush", "capacity", "auto"} \subseteq Settings
  BY SettingsAre
<1>2. c.flush \in Nat \ {0} /\ c.capacity \in Nat \ {0}
  <2>1. Fits("flush", c["flush"]) /\ Fits("capacity", c["capacity"])
    BY <1>1 DEF Configs
  <2>2. c["flush"] \in Nat \ {0} /\ c["capacity"] \in Nat \ {0}
    BY <2>1 DEF Fits, Sizes
  <2> QED
    BY <2>2
<1>3. flushed \in Nat /\ 5 * flushed >= 2 * c.flush - 4
  <2>1. c.flush * 2 \in Nat /\ c.flush * 2 = 2 * c.flush
    BY <1>2
  <2> QED
    BY <1>2, <2>1, FifthsAre
<1> HIDE DEF flushed
<1>4. needed \in Nat \ {0} /\ 5 * needed >= 2 * c.flush - 4
  BY <1>2, <1>3
<1> HIDE DEF needed
<1>5. sized \in Configs
  <2>1. needed \in Plain
    BY <1>4, PlainHolds
  <2>2. Fits("capacity", needed)
    BY <1>4 DEF Fits, Ports, Qualities, Sizes, Texts, Switches
  <2>3. [c EXCEPT !["capacity"] = needed] \in Configs
    BY <1>1, <2>1, <2>2, UpdateFits
  <2> QED
    BY <2>3
<1>6. DOMAIN c = Settings
  BY DEF Configs, Settings
<1>7. sized.capacity = needed /\ sized.flush = c.flush
  BY <1>1, <1>6
<1>8. SizeBuffer(c) = IF c.auto /\ c.capacity < needed THEN sized ELSE c
  BY DEF SizeBuffer, needed, flushed
<1> HIDE DEF sized
<1>9. CASE c.auto /\ c.capacity < needed
  BY <1>4, <1>5, <1>7, <1>8, <1>9 DEF Sized
<1>10. CASE ~(c.auto /\ c.capacity < needed)
  BY <1>2, <1>4, <1>8, <1>10 DEF Sized
<1> QED
  BY <1>9, <1>10

LEMMA FoundIsThere ==
  ASSUME NEW explicit, NEW disk, FindConfig(explicit, disk) # << >>
  PROVE  Head(FindConfig(explicit, disk)) \in DOMAIN disk
<1> DEFINE P == {"./", "~/.config", "/etc"}
           there == Kept(Places, DOMAIN disk)
<1>1. Places \in Seq(P)
  BY DEF Places
<1>2. there \in Seq(P) /\ ElementsOf(there) = ElementsOf(Places) \cap DOMAIN disk
  <2> HIDE DEF P
  <2> QED
    BY <1>1, KeptElements
<1> HIDE DEF P, there
<1>3. CASE explicit # NoText
  BY <1>3 DEF FindConfig
<1>4. CASE explicit = NoText
  <2>1. there # << >> /\ FindConfig(explicit, disk) = <<Head(there)>>
    BY <1>4 DEF FindConfig, there
  <2>2. Head(there) \in DOMAIN disk
    BY <1>2, <2>1, TailElements
  <2> QED
    BY <2>1, <2>2
<1> QED
  BY <1>3, <1>4

(* However the server is started, main() exits or goes on with a           *)
(* configuration that can be used.                                         *)
THEOREM ResolveUsable ==
  ASSUME NEW built \in BOOLEAN, NEW argv \in Seq(Raws),
         NEW disk, disk \in [DOMAIN disk -> Seq(Lines)],
         NEW r, r = Resolve(built, argv, disk)
  PROVE  /\ r.outcome \in {"refused", "aborted", "printed", "resolved"}
         /\ r.cfg \in Configs /\ Sized(r.cfg)
<1> DEFINE found == IF built THEN FindConfig(ConfigPath(argv), disk) ELSE << >>
           doc == Load(disk[Head(found)])
           base == IF found = << >> THEN Defaults ELSE ApplyConf(doc, Defaults)
           args == ParseArgs(argv, base)
           refused == built /\ ConfigFlags(argv) # {} /\ found = << >>
           throws == found # << >> /\ ApplyThrows(doc)
           printed == args.help \/ (built /\ Word("--dump-config") \in ToSet(argv))
           result(outcome) == [outcome |-> outcome, cfg |-> SizeBuffer(args.cfg)]
<1>1. base \in Configs
  <2>1. CASE found = << >>
    BY <2>1, DefaultsFit
  <2>2. CASE found # << >>
    <3>1. Head(found) \in DOMAIN disk
      BY <2>2, FoundIsThere
    <3> HIDE DEF found
    <3>2. disk[Head(found)] \in Seq(Lines)
      BY <3>1
    <3>3. doc \in Documents
      BY <3>2, LoadKeeps
    <3> HIDE DEF doc
    <3> QED
      BY <2>2, <3>3, ApplyConfFits
  <2> QED
    BY <2>1, <2>2
<1> HIDE DEF base
<1>2. args.cfg \in Configs
  BY <1>1, ParseArgsKeeps DEF Accumulated
<1>3. r = IF refused THEN result("refused")
          ELSE IF throws THEN [outcome |-> "aborted", cfg |-> Defaults]
          ELSE IF printed THEN result("printed") ELSE result("resolved")
  BY DEF Resolve, base
<1> HIDE DEF args, refused, throws, printed
<1>4. SizeBuffer(args.cfg) \in Configs /\ Sized(SizeBuffer(args.cfg))
  BY <1>2, SizeBufferSizes
<1>5. Sized(Defaults)
  <2>1. Defaults["capacity"] = 4096 /\ Defaults["flush"] = 500
    BY DEF Defaults
  <2>2. Defaults.capacity = 4096 /\ Defaults.flush = 500
    BY <2>1
  <2> QED
    BY <2>2 DEF Sized
<1>6. /\ r.outcome \in {"refused", "aborted", "printed", "resolved"}
      /\ r.cfg = SizeBuffer(args.cfg) \/ r.cfg = Defaults
  BY <1>3
<1> QED
  BY <1>4, <1>5, <1>6, DefaultsFit
LEMMA SizeBufferLeaves ==
  ASSUME NEW c \in Configs, NEW s \in Settings, NEW v, Settled(c, s, v)
  PROVE  SizeBuffer(c)[s] = v
<1>1. DOMAIN c = Settings
  BY DEF Configs, Settings
<1>2. c[s] = v /\ (s = "capacity" => ~c.auto)
  BY DEF Settled
<1>3. \A needed : s # "capacity" => [c EXCEPT !.capacity = needed][s] = c[s]
  BY <1>1
<1> QED
  BY <1>2, <1>3 DEF SizeBuffer

(* Whatever the server is started with, if main() goes on, then with what  *)
(* the strongest source says of each setting.                              *)
THEOREM ResolveHeeds ==
  ASSUME NEW in, in.built \in BOOLEAN, in.argv \in Seq(Raws),
         in.disk \in [DOMAIN in.disk -> Seq(Lines)],
         NEW r, r = Resolve(in.built, in.argv, in.disk), r.outcome = "resolved"
  PROVE  Heeded(in, r.cfg)
<1> DEFINE argv == in.argv
           found == IF in.built THEN FindConfig(ConfigPath(argv), in.disk) ELSE << >>
           doc == Load(in.disk[Head(found)])
           base == IF found = << >> THEN Defaults ELSE ApplyConf(doc, Defaults)
           args == ParseArgs(argv, base)
           refused == in.built /\ ConfigFlags(argv) # {} /\ found = << >>
           throws == found # << >> /\ ApplyThrows(doc)
           dumped == in.built /\ Word("--dump-config") \in ToSet(argv)
           result(outcome) == [outcome |-> outcome, cfg |-> SizeBuffer(args.cfg)]
           file == FileOf(in)
<1>1. r = IF refused THEN result("refused")
          ELSE IF throws THEN [outcome |-> "aborted", cfg |-> Defaults]
          ELSE IF args.help \/ dumped THEN result("printed") ELSE result("resolved")
  BY DEF Resolve
<1>2. file = IF found # << >> THEN in.disk[Head(found)] ELSE << >>
  BY DEF FileOf
<1>3. found # << >> => Head(found) \in DOMAIN in.disk
  BY FoundIsThere
<1>4. file \in Seq(Lines) /\ (found # << >> => base = ApplyConf(Load(file), Defaults))
  <2> HIDE DEF found
  <2>1. found # << >> => in.disk[Head(found)] \in Seq(Lines)
    BY <1>3
  <2> HIDE DEF file
  <2> QED
    BY <1>2, <2>1
<1>5. /\ found = << >> => base = Defaults
      /\ file = << >> \/ found # << >>
  BY <1>2
<1> HIDE DEF found, doc, file, base, refused, throws, dumped
<1>6. base \in Configs
  <2>1. Load(file) \in Documents
    BY <1>4, LoadKeeps
  <2> QED
    BY <1>4, <1>5, <2>1, ApplyConfFits, DefaultsFit
<1>7. args \in Accumulated
  BY <1>6, ParseArgsKeeps
<1> HIDE DEF args
<1>8. ~args.help /\ r.cfg = SizeBuffer(args.cfg) /\ args.cfg \in Configs
  BY <1>1, <1>7 DEF Accumulated
<1> DEFINE Mentioned(s) ==
             \A i \in LastOf(Mentions(argv, s)), f \in Flags :
               (f[1] = argv[i].w /\ Usable(f[3], Argument(argv, i + 1)))
                 => r.cfg[s] = Meaning(f[3], Argument(argv, i + 1))
           InFile(s) ==
             \A i \in FirstOf(Written(file, s)) :
               (Usable(FileKey[s][3], file[i].raw) /\ Cardinality(PairsOf(file)) <= MaxEntries)
                 => r.cfg[s] = Meaning(FileKey[s][3], file[i].raw)
           Nowhere(s) ==
             Written(file, s) = {} /\ s \notin {"web", "capacity"} => r.cfg[s] = Defaults[s]
<1>9. ASSUME WellFormed(argv), NEW s \in DOMAIN FileKey
      PROVE  Mentioned(s) /\ (Mentions(argv, s) = {} => InFile(s) /\ Nowhere(s))
  <2>1. s \in Settings \ {"auto"}
    BY FileRulesAre
  <2>2. \A v : Settled(args.cfg, s, v) => r.cfg[s] = v
    BY <1>8, <2>1, SizeBufferLeaves
  <2>3. Mentioned(s)
    <3>1. \A i \in LastOf(Mentions(argv, s)), f \in Flags :
            (f[1] = argv[i].w /\ Usable(f[3], Argument(argv, i + 1)))
              => Settled(args.cfg, s, Meaning(f[3], Argument(argv, i + 1)))
      BY <1>6, <1>8, <1>9, <2>1, ArgsSettle DEF args
    <3> QED
      BY <2>2, <3>1
  <2>4. ASSUME Mentions(argv, s) = {}
        PROVE  \A v : Settled(base, s, v) => r.cfg[s] = v
    <3>1. \A v : Settled(base, s, v) => Settled(args.cfg, s, v)
      BY <1>6, <1>8, <1>9, <2>1, <2>4, ArgsSettle DEF args
    <3> QED
      BY <2>2, <3>1
  <2>5. CASE found # << >>
    <3>1. base = ApplyConf(Load(file), Defaults)
      BY <1>4, <2>5
    <3>2. /\ \A i \in FirstOf(Written(file, s)) :
               (Usable(FileKey[s][3], file[i].raw)
                /\ Cardinality(PairsOf(file)) <= MaxEntries)
                  => Settled(base, s, Meaning(FileKey[s][3], file[i].raw))
          /\ Written(file, s) = {} /\ s \notin {"web", "capacity"} =>
               Settled(base, s, Defaults[s])
      BY <1>4, <1>9, <3>1, FileSettles
    <3> QED
      BY <2>3, <2>4, <3>2
  <2>6. CASE found = << >>
    <3>1. file = << >> /\ base = Defaults
      BY <1>5, <2>6
    <3>2. FirstOf(Written(file, s)) = {}
      BY <3>1 DEF Written, FirstOf
    <3>3. s \notin {"web", "capacity"} => Settled(base, s, Defaults[s])
      BY <3>1 DEF Settled
    <3> QED
      BY <2>3, <2>4, <3>2, <3>3
  <2> QED
    BY <2>5, <2>6
<1>10. Heeded(in, r.cfg) <=>
         (WellFormed(argv) => \A s \in DOMAIN FileKey :
            Mentioned(s) /\ (Mentions(argv, s) = {} => InFile(s) /\ Nowhere(s)))
  BY DEF Heeded, file
<1> QED
  BY <1>9, <1>10
=============================================================================
