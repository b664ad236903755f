-------------------------- MODULE WebInterface_proofs --------------------------
(***************************************************************************)
(* WebInterface, for any finite number of browsers: no thread loses its    *)
(* descriptor, the list holds each open upgraded connection at most once,  *)
(* and stop() leaves no thread reading from a socket nobody shut down.     *)
(***************************************************************************)
EXTENDS WebInterface, Lists_proofs, FiniteSetTheorems

(***************************************************************************)
(* The inductive invariant.  OwnersKeepTheirSockets needs its converse, or *)
(* accept() could give away a number that some thread still uses, or find  *)
(* none.  ListIsOfOpenSockets needs to know where the threads of the       *)
(* listed descriptors are: between the insertion and the removal.          *)
(* NoReaderLeft needs that until then a reader is in the list unless       *)
(* ws_broadcast shut its socket down when it took it off.                  *)
(***************************************************************************)
Owners ==
  /\ \A b \in Browsers : Owning(b) => fd[b] \in Fds /\ socket[fd[b]] = b
  /\ \A f \in Fds : socket[f] # None =>
                      Owning(socket[f]) /\ fd[socket[f]] = f

ReadingPoints == {"discard", "pong", "pong_data"}
ListedPoints == ReadingPoints \cup {"loop", "unlist"}
UpgradedPoints == ListedPoints \cup {"device", "register"}

Upgrades == \A b \in Browsers : thread[b] \in UpgradedPoints => "101" \in got[b]

Listed ==
  /\ \A f \in ElementsOf(client_fds) :
       socket[f] # None /\ thread[socket[f]] \in ListedPoints
  /\ Distinct(client_fds)

Shutting ==
  /\ main \notin {"started", "serving"} => ~running
  /\ \A b \in Browsers :
       thread[b] \in ReadingPoints \cup {"loop"} =>
         fd[b] \in shut \cup ElementsOf(client_fds)
  /\ main \in {"waiting", "stopped"} =>
       \A b \in Browsers : thread[b] \in ReadingPoints => fd[b] \in shut

IInv == TypeOK /\ Owners /\ Upgrades /\ Listed /\ Shutting

LEMMA FdsNumber ==
  /\ Cardinality(Browsers) \in Nat /\ Fds \subseteq 0 .. Cardinality(Browsers)
  /\ IsFiniteSet(Fds) /\ Cardinality(Fds) = Cardinality(Browsers)
<1>1. Cardinality(Browsers) \in Nat
  BY BrowsersAssumption, FS_CardinalityType
<1>2. /\ IsFiniteSet(Fds)
      /\ Cardinality(Fds) = IF 1 > Cardinality(Browsers) THEN 0
                            ELSE Cardinality(Browsers) - 1 + 1
  BY <1>1, FS_Interval DEF Fds
<1> QED
  BY <1>1, <1>2 DEF Fds

LEMMA ToSetElements ==
  ASSUME NEW T, NEW s \in Seq(T) PROVE ToSet(s) = ElementsOf(s)
  BY LenProperties DEF ToSet, ElementsOf

LEMMA InitIInv == Init => IInv
<1> SUFFICES ASSUME Init PROVE IInv
  OBVIOUS
<1> USE DEF Init
<1>1. {b \in Browsers : thread[b] \notin {"none", "finished"}} = {}
  OBVIOUS
<1>2. TypeOK
  <2>1. active = Cardinality({b \in Browsers : thread[b] \notin {"none", "finished"}})
    BY <1>1, FS_EmptySet
  <2>2. 0 \in 0 .. Cardinality(Browsers)
    BY FdsNumber
  <2>3. << >> \in Seq(Fds)
    BY EmptySeq
  <2> QED
    BY <2>1, <2>2, <2>3 DEF TypeOK, Points
<1>3. Owners
  BY NoneAssumption DEF Owners, Owning
<1>4. Upgrades /\ Listed /\ Shutting
  BY DEF Upgrades, UpgradedPoints, Listed, ListedPoints, ReadingPoints, ElementsOf,
         Distinct, Shutting
<1> QED
  BY <1>2, <1>3, <1>4 DEF IInv
-----------------------------------------------------------------------------
Counted == {b \in Browsers : thread[b] \notin {"none", "finished"}}

LivePoints == Points \ {"none", "closed", "finished"}

(* A live thread moves on, having told its browser something or not: out   *)
(* of the points where its descriptor is listed it gets by Unlist only,    *)
(* and it begins to read only while the server runs.                       *)
LEMMA ThreadMoves ==
  ASSUME IInv, NEW b \in Browsers, NEW from \in LivePoints, NEW to \in LivePoints,
         Goto(b, from, to),
         UNCHANGED <<mainVars, acceptVars, client_fds, kernelVars, fd, browser,
                     frames, castVars>>,
         got' \in [Browsers -> SUBSET {"http", "101", "device"}],
         \A c \in Browsers : got[c] \subseteq got'[c],
         to \in UpgradedPoints => from \in UpgradedPoints \/ "101" \in got'[b],
         from \in ListedPoints <=> to \in ListedPoints,
         to = "loop" => from \in ReadingPoints,
         to \in ReadingPoints => from \in ReadingPoints \/ (from = "loop" /\ running)
  PROVE  IInv'
<1> USE DEF IInv
<1>1. /\ thread \in [Browsers -> Points] /\ thread[b] = from
      /\ thread' = [thread EXCEPT ![b] = to] /\ thread' \in [Browsers -> Points]
  BY DEF TypeOK, Goto, LivePoints
<1>2. Counted' = Counted
  BY <1>1 DEF Counted, LivePoints
<1>3. TypeOK'
  BY <1>1, <1>2 DEF TypeOK, Counted, mainVars, acceptVars, kernelVars, castVars
<1>4. \A c \in Browsers : Owning(c)' <=> Owning(c)
  BY <1>1 DEF Owning, LivePoints
<1>5. Owners'
  BY <1>4, NoneAssumption DEF Owners, kernelVars, TypeOK
<1>6. Upgrades'
  BY <1>1 DEF Upgrades
<1>7. Listed'
  BY <1>1 DEF Listed, kernelVars
<1>8. Shutting'
  BY <1>1 DEF Shutting, mainVars, kernelVars
<1> QED
  BY <1>3, <1>5, <1>6, <1>7, <1>8

(* What a thread sends, it sends to its own browser.                       *)
LEMMA GiveOwn ==
  ASSUME IInv, NEW b \in Browsers, Owning(b), NEW what \in {"http", "101", "device"},
         Give(b, what)
  PROVE  /\ got' = [got EXCEPT ![b] = @ \cup {what}]
         /\ got' \in [Browsers -> SUBSET {"http", "101", "device"}]
         /\ \A c \in Browsers : got[c] \subseteq got'[c]
         /\ what \in got'[b]
<1>1. socket[fd[b]] = b /\ got \in [Browsers -> SUBSET {"http", "101", "device"}]
  BY DEF IInv, Owners, TypeOK
<1>2. got' = [got EXCEPT ![b] = @ \cup {what}]
  BY <1>1 DEF Give
<1> QED
  BY <1>1, <1>2

LEMMA ThreadIInv ==
  ASSUME IInv, NEW b \in Browsers,
         \/ ReadRequest(b) \/ Respond(b) \/ Upgrade(b) \/ SendDevice(b)
         \/ FrameLoop(b) \/ Discard(b) \/ Pong(b)
  PROVE  IInv'
<1>0. got \in [Browsers -> SUBSET {"http", "101", "device"}]
  BY DEF IInv, TypeOK
<1> USE DEF LivePoints, Points, UpgradedPoints, ListedPoints, ReadingPoints
<1>1. CASE ReadRequest(b)
  BY <1>0, <1>1, ThreadMoves DEF ReadRequest, Goto, browserVars
<1>2. CASE Respond(b)
  BY <1>0, <1>2, ThreadMoves, GiveOwn DEF Respond, Goto, Owning
<1>3. CASE Upgrade(b)
  BY <1>0, <1>3, ThreadMoves, GiveOwn DEF Upgrade, Goto, Owning
<1>4. CASE SendDevice(b)
  BY <1>0, <1>4, ThreadMoves, GiveOwn DEF SendDevice, Goto, Owning
<1>5. CASE FrameLoop(b)
  BY <1>0, <1>5, ThreadMoves DEF FrameLoop, Goto, browserVars
<1>6. CASE Discard(b)
  BY <1>0, <1>6, ThreadMoves DEF Discard, Goto, browserVars
<1>7. CASE Pong(b)
  BY <1>0, <1>7, ThreadMoves DEF Pong, Goto, browserVars
<1> QED
  BY <1>1, <1>2, <1>3, <1>4, <1>5, <1>6, <1>7

(* A thread enters its descriptor in the list: it was not there, for the   *)
(* thread that owns it was not at a point where it is.                     *)
LEMMA RegisterIInv == ASSUME IInv, NEW b \in Browsers, Register(b) PROVE IInv'
<1> USE DEF IInv
<1>1. /\ thread[b] = "register" /\ thread' = [thread EXCEPT ![b] = "loop"]
      /\ client_fds' = Append(client_fds, fd[b])
      /\ UNCHANGED <<mainVars, acceptVars, kernelVars, fd, browserVars, castVars>>
      /\ thread \in [Browsers -> Points] /\ thread' \in [Browsers -> Points]
  BY DEF Register, Goto, TypeOK, Points
<1>2. fd[b] \in Fds /\ socket[fd[b]] = b
  BY <1>1 DEF Owners, Owning
<1>3. fd[b] \notin ElementsOf(client_fds)
  BY <1>1, <1>2 DEF Listed, ListedPoints, ReadingPoints
<1>4. /\ client_fds' \in Seq(Fds) /\ Distinct(client_fds')
      /\ ElementsOf(client_fds') = ElementsOf(client_fds) \cup {fd[b]}
  BY <1>1, <1>2, <1>3, AppendElements DEF TypeOK, Listed
<1>5. Counted' = Counted
  BY <1>1 DEF Counted
<1>6. TypeOK'
  BY <1>1, <1>4, <1>5 DEF TypeOK, Counted, mainVars, acceptVars, kernelVars,
     browserVars, castVars
<1>7. \A c \in Browsers : Owning(c)' <=> Owning(c)
  BY <1>1 DEF Owning
<1>8. Owners'
  BY <1>1, <1>7, NoneAssumption DEF Owners, kernelVars, TypeOK
<1>9. Upgrades'
  BY <1>1 DEF Upgrades, UpgradedPoints, ListedPoints, ReadingPoints, browserVars
<1>10. Listed'
  BY <1>1, <1>2, <1>4, NoneAssumption
     DEF Listed, ListedPoints, ReadingPoints, kernelVars
<1>11. Shutting'
  BY <1>1, <1>4 DEF Shutting, ReadingPoints, mainVars, kernelVars
<1> QED
  BY <1>6, <1>8, <1>9, <1>10, <1>11

LEMMA UnlistIInv == ASSUME IInv, NEW b \in Browsers, Unlist(b) PROVE IInv'
<1> USE DEF IInv
<1>1. /\ thread[b] = "unlist" /\ thread' = [thread EXCEPT ![b] = "close"]
      /\ client_fds' = Kept(client_fds, Fds \ {fd[b]})
      /\ UNCHANGED <<mainVars, acceptVars, kernelVars, fd, browserVars, castVars>>
      /\ thread \in [Browsers -> Points] /\ thread' \in [Browsers -> Points]
  BY DEF Unlist, Goto, TypeOK, Points
<1>2. fd[b] \in Fds /\ socket[fd[b]] = b
  BY <1>1 DEF Owners, Owning
<1>3. client_fds \in Seq(Fds) /\ ElementsOf(client_fds) \subseteq Fds
  BY ElementOfSeq DEF TypeOK, ElementsOf
<1>4. /\ client_fds' \in Seq(Fds) /\ Distinct(client_fds')
      /\ ElementsOf(client_fds') = ElementsOf(client_fds) \ {fd[b]}
  BY <1>1, <1>3, KeptElements DEF Listed
<1>5. Counted' = Counted
  BY <1>1 DEF Counted
<1>6. TypeOK'
  BY <1>1, <1>4, <1>5 DEF TypeOK, Counted, mainVars, acceptVars, kernelVars,
     browserVars, castVars
<1>7. \A c \in Browsers : Owning(c)' <=> Owning(c)
  BY <1>1 DEF Owning
<1>8. Owners'
  BY <1>1, <1>7, NoneAssumption DEF Owners, kernelVars, TypeOK
<1>9. Upgrades'
  BY <1>1 DEF Upgrades, UpgradedPoints, ListedPoints, ReadingPoints, browserVars
<1>10. Listed'
  <2> SUFFICES ASSUME NEW f \in ElementsOf(client_fds')
               PROVE  socket[f] # None /\ thread'[socket[f]] \in ListedPoints
    BY <1>1, <1>4 DEF Listed, kernelVars
  <2>1. /\ f \in Fds /\ f # fd[b] /\ socket[f] # None
        /\ thread[socket[f]] \in ListedPoints
    BY <1>3, <1>4 DEF Listed
  <2>2. socket[f] # b
    BY <2>1 DEF Owners
  <2> QED
    BY <1>1, <2>1, <2>2 DEF TypeOK
<1>11. Shutting'
  <2>1. ASSUME NEW c \in Browsers, thread'[c] \in ReadingPoints \cup {"loop"}
        PROVE  fd[c] \in shut \cup ElementsOf(client_fds')
    <3>1. c # b /\ thread[c] \in ReadingPoints \cup {"loop"}
      BY <1>1, <2>1 DEF ReadingPoints
    <3>2. fd[c] # fd[b]
      BY <1>2, <3>1 DEF Owners, Owning, ReadingPoints
    <3> QED
      BY <1>4, <3>1, <3>2 DEF Shutting
  <2> QED
    BY <1>1, <2>1 DEF Shutting, ReadingPoints, mainVars, kernelVars
<1> QED
  BY <1>6, <1>8, <1>9, <1>10, <1>11

LEMMA ListedFd ==
  ASSUME TypeOK, NEW f \in ElementsOf(client_fds)
  PROVE  f \in Fds
<1>1. client_fds \in Seq(Fds)
  BY DEF TypeOK
<1> QED
  BY <1>1, ElementOfSeq DEF ElementsOf

(* The descriptor that a thread closes is in no list and nobody else's.    *)
LEMMA CloseIInv == ASSUME IInv, NEW b \in Browsers, Close(b) PROVE IInv'
<1> USE DEF IInv
<1>1. /\ thread[b] = "close" /\ thread' = [thread EXCEPT ![b] = "closed"]
      /\ socket' = [socket EXCEPT ![fd[b]] = None]
      /\ shut' = shut \ {fd[b]} /\ fd' = [fd EXCEPT ![b] = 0]
      /\ UNCHANGED <<mainVars, acceptVars, client_fds, browserVars, castVars>>
      /\ thread \in [Browsers -> Points] /\ thread' \in [Browsers -> Points]
  BY DEF Close, Goto, TypeOK, Points
<1>2. fd[b] \in Fds /\ socket[fd[b]] = b
  BY <1>1 DEF Owners, Owning
<1>3. Counted' = Counted
  BY <1>1 DEF Counted
<1>4. TypeOK'
  <2>1. 0 \in 0 .. Cardinality(Browsers)
    BY FdsNumber
  <2> QED
    BY <1>1, <1>3, <2>1 DEF TypeOK, Counted, mainVars, acceptVars,
       browserVars, castVars
<1>5. \A c \in Browsers : Owning(c)' <=> Owning(c) /\ c # b
  BY <1>1 DEF Owning
<1>6. \A c \in Browsers : c # b /\ Owning(c) => fd[c] # fd[b] /\ fd'[c] = fd[c]
  BY <1>1, <1>2 DEF Owners, TypeOK
<1>7. Owners'
  <2>1. ASSUME NEW c \in Browsers, Owning(c)'
        PROVE  fd'[c] \in Fds /\ socket'[fd'[c]] = c
    BY <1>1, <1>5, <1>6, <2>1 DEF Owners, TypeOK
  <2>2. ASSUME NEW f \in Fds, socket'[f] # None
        PROVE  /\ socket'[f] \in Browsers /\ fd'[socket'[f]] = f
               /\ thread'[socket'[f]] \notin {"none", "closed", "finished"}
    <3>1. f # fd[b] /\ socket'[f] = socket[f] /\ socket[f] \in Browsers
      BY <1>1, <1>2, <2>2 DEF TypeOK
    <3>2. PICK c \in Browsers : socket[f] = c
      BY <3>1
    <3>3. Owning(c) /\ fd[c] = f /\ c # b
      BY <1>2, <2>2, <3>1, <3>2 DEF Owners
    <3>4. thread'[c] = thread[c] /\ fd'[c] = fd[c]
      BY <1>1, <3>3 DEF TypeOK
    <3> QED
      BY <3>1, <3>2, <3>3, <3>4 DEF Owning
  <2> QED
    BY <2>1, <2>2 DEF Owners, Owning
<1>8. Upgrades'
  BY <1>1 DEF Upgrades, UpgradedPoints, ListedPoints, ReadingPoints, browserVars
<1>9. Listed'
  <2> SUFFICES ASSUME NEW f \in ElementsOf(client_fds)
               PROVE  socket'[f] # None /\ thread'[socket'[f]] \in ListedPoints
    BY <1>1 DEF Listed
  <2>1. f \in Fds /\ socket[f] # None /\ thread[socket[f]] \in ListedPoints
    BY ListedFd DEF Listed
  <2>2. f # fd[b] /\ socket[f] # b
    BY <1>1, <1>2, <2>1 DEF ListedPoints, ReadingPoints
  <2> QED
    BY <1>1, <2>1, <2>2 DEF TypeOK
<1>10. Shutting'
  <2>1. ASSUME NEW c \in Browsers, thread'[c] \in ReadingPoints \cup {"loop"}
        PROVE  c # b /\ thread[c] = thread'[c] /\ fd'[c] = fd[c] /\ fd[c] # fd[b]
    BY <1>1, <1>6, <2>1 DEF ReadingPoints, Owning
  <2> QED
    BY <1>1, <2>1 DEF Shutting, ReadingPoints, mainVars
<1> QED
  BY <1>4, <1>7, <1>8, <1>9, <1>10

LEMMA CountedFinite == IsFiniteSet(Counted) /\ Counted \subseteq Browsers
  BY BrowsersAssumption, FS_Subset DEF Counted

LEMMA FinishIInv == ASSUME IInv, NEW b \in Browsers, Finish(b) PROVE IInv'
<1> USE DEF IInv
<1>1. /\ thread[b] = "closed" /\ thread' = [thread EXCEPT ![b] = "finished"]
      /\ active' = active - 1
      /\ UNCHANGED <<mainVars, acceptor, client_fds, kernelVars, fd, browserVars,
                     castVars>>
      /\ thread \in [Browsers -> Points] /\ thread' \in [Browsers -> Points]
  BY DEF Finish, Goto, TypeOK, Points
<1>2. Counted' = Counted \ {b} /\ b \in Counted
  BY <1>1 DEF Counted
<1>3. active' = Cardinality(Counted')
  <2>1. active = Cardinality(Counted)
    BY DEF TypeOK, Counted
  <2> QED
    BY <1>1, <1>2, <2>1, CountedFinite, FS_RemoveElement
<1>4. TypeOK'
  BY <1>1, <1>3 DEF TypeOK, Counted, mainVars, kernelVars, browserVars, castVars
<1>5. \A c \in Browsers : Owning(c)' <=> Owning(c)
  BY <1>1 DEF Owning
<1>6. Owners'
  BY <1>1, <1>5, NoneAssumption DEF Owners, kernelVars, TypeOK
<1>7. Upgrades'
  BY <1>1 DEF Upgrades, UpgradedPoints, ListedPoints, ReadingPoints, browserVars
<1>8. Listed'
  BY <1>1 DEF Listed, ListedPoints, ReadingPoints, kernelVars
<1>9. Shutting'
  BY <1>1 DEF Shutting, ReadingPoints, mainVars, kernelVars
<1> QED
  BY <1>4, <1>6, <1>7, <1>8, <1>9

(* While a browser waits for its thread, the kernel has a number for it:   *)
(* the descriptors in use belong to as many other browsers.                *)
LEMMA FreeDescriptor ==
  ASSUME IInv, NEW b \in Browsers, ~Owning(b)
  PROVE  LowestFree \in Fds /\ socket[LowestFree] = None
<1> DEFINE Free == {f \in Fds : socket[f] = None}
           Others == Browsers \ {b}
<1>1. Free # {}
  <2> SUFFICES ASSUME Free = {} PROVE FALSE
    OBVIOUS
  <2>1. socket \in [Fds -> Others]
    BY DEF IInv, TypeOK, Owners, Owning
  <2>2. IsFiniteSet(Others) /\ Cardinality(Others) = Cardinality(Browsers) - 1
    BY BrowsersAssumption, FS_RemoveElement
  <2>3. Cardinality(Others) < Cardinality(Fds) /\ IsFiniteSet(Fds)
    BY <2>2, FdsNumber
  <2> HIDE DEF Others
  <2>4. PICK x, y \in Fds : x # y /\ socket[x] = socket[y]
    BY <2>1, <2>2, <2>3, FS_PigeonHole
  <2>5. fd[socket[x]] = x /\ fd[socket[y]] = y
    BY DEF IInv, Owners
  <2> QED
    BY <2>4, <2>5
<1>2. Free \in SUBSET Nat
  BY FdsNumber DEF Fds
<1>3. Free \subseteq Fds /\ \A f \in Free : socket[f] = None
  OBVIOUS
<1>4. LowestFree = Min(Free)
  BY DEF LowestFree
<1> HIDE DEF Free
<1>5. \E n \in Free : \A m \in Free : n <= m
  BY <1>1, <1>2, LeastNumber
<1>6. Min(Free) \in Free
  BY <1>5 DEF Min
<1> QED
  BY <1>3, <1>4, <1>6

LEMMA AcceptBrowserIInv ==
  ASSUME IInv, NEW b \in Browsers, AcceptBrowser(b) PROVE IInv'
<1> USE DEF IInv
<1> DEFINE l == LowestFree
<1>1. /\ thread[b] = "none" /\ thread' = [thread EXCEPT ![b] = "request"]
      /\ fd' = [fd EXCEPT ![b] = l] /\ socket' = [socket EXCEPT ![l] = b]
      /\ active' = active + 1 /\ acceptor' = "loop"
      /\ UNCHANGED <<mainVars, client_fds, shut, browserVars, castVars>>
      /\ thread \in [Browsers -> Points] /\ thread' \in [Browsers -> Points]
  BY DEF AcceptBrowser, Accepting, TypeOK, Points
<1>2. l \in Fds /\ socket[l] = None
  BY <1>1, FreeDescriptor DEF Owning
<1> HIDE DEF l
<1>3. Counted' = Counted \cup {b} /\ b \notin Counted
  BY <1>1 DEF Counted
<1>4. active' = Cardinality(Counted')
  <2>1. active = Cardinality(Counted)
    BY DEF TypeOK, Counted
  <2> QED
    BY <1>1, <1>3, <2>1, CountedFinite, FS_AddElement
<1>5. TypeOK'
  <2>1. l \in 0 .. Cardinality(Browsers)
    BY <1>2, FdsNumber
  <2> QED
    BY <1>1, <1>2, <1>4, <2>1 DEF TypeOK, Counted, mainVars, browserVars, castVars
<1>6. \A c \in Browsers : Owning(c)' <=> Owning(c) \/ c = b
  BY <1>1 DEF Owning
<1>7. \A c \in Browsers : c # b => fd'[c] = fd[c]
  BY <1>1 DEF TypeOK
<1>8. fd'[b] = l /\ socket'[l] = b /\ \A f \in Fds : f # l => socket'[f] = socket[f]
  BY <1>1, <1>2 DEF TypeOK
<1>9. Owners'
  <2>1. ASSUME NEW c \in Browsers, Owning(c)'
        PROVE  fd'[c] \in Fds /\ socket'[fd'[c]] = c
    <3>1. CASE c = b
      BY <1>2, <1>8, <3>1
    <3>2. CASE c # b
      <4>1. fd'[c] = fd[c] /\ fd[c] \in Fds /\ socket[fd[c]] = c
        BY <1>6, <1>7, <2>1, <3>2 DEF Owners
      <4> QED
        BY <1>2, <1>8, <4>1, NoneAssumption
    <3> QED
      BY <3>1, <3>2
  <2>2. ASSUME NEW f \in Fds, socket'[f] # None
        PROVE  /\ socket'[f] \in Browsers /\ fd'[socket'[f]] = f
               /\ thread'[socket'[f]] \notin {"none", "closed", "finished"}
    <3>1. CASE f = l
      BY <1>1, <1>8, <3>1
    <3>2. CASE f # l
      <4>1. PICK c \in Browsers : socket'[f] = c /\ socket[f] = c
        BY <1>8, <2>2, <3>2 DEF TypeOK
      <4>2. Owning(c) /\ fd[c] = f
        BY <2>2, <4>1 DEF Owners
      <4>3. c # b
        BY <1>1, <4>2 DEF Owning
      <4> QED
        BY <1>1, <1>7, <4>1, <4>2, <4>3 DEF Owning
    <3> QED
      BY <3>1, <3>2
  <2> QED
    BY <2>1, <2>2 DEF Owners, Owning
<1>10. Upgrades'
  BY <1>1 DEF Upgrades, UpgradedPoints, ListedPoints, ReadingPoints, browserVars
<1>11. Listed'
  <2> SUFFICES ASSUME NEW f \in ElementsOf(client_fds)
               PROVE  socket'[f] # None /\ thread'[socket'[f]] \in ListedPoints
    BY <1>1 DEF Listed
  <2>1. f \in Fds /\ socket[f] # None /\ thread[socket[f]] \in ListedPoints
    BY ListedFd DEF Listed
  <2>2. socket'[f] = socket[f] /\ socket[f] # b
    BY <1>1, <1>2, <1>8, <2>1 DEF ListedPoints, ReadingPoints
  <2> QED
    BY <1>1, <2>1, <2>2 DEF TypeOK
<1>12. Shutting'
  BY <1>1, <1>7 DEF Shutting, ReadingPoints, mainVars
<1> QED
  BY <1>5, <1>9, <1>10, <1>11, <1>12
-----------------------------------------------------------------------------
(* Steps that leave the connections and the list alone.                    *)
LEMMA ConnectionsStay ==
  ASSUME IInv, UNCHANGED <<active, client_fds, kernelVars, threadVars, got>>,
         main' \notin {"started", "serving"} => ~running',
         main' \in {"waiting", "stopped"} => main \in {"waiting", "stopped"},
         TypeOK'
  PROVE  IInv'
<1> USE DEF IInv, kernelVars, threadVars
<1>1. \A c \in Browsers : Owning(c)' <=> Owning(c)
  BY DEF Owning
<1>2. Owners'
  BY <1>1, NoneAssumption DEF Owners, TypeOK
<1>3. Upgrades' /\ Listed' /\ Shutting'
  BY DEF Upgrades, Listed, Shutting
<1> QED
  BY <1>2, <1>3

LEMMA BroadcastSendTypes == ASSUME IInv, BroadcastSend PROVE TypeOK'
<1> DEFINE f == Head(snapshot)
<1>1. /\ snapshot' = Tail(snapshot) /\ snapshot \in Seq(Fds) /\ snapshot # << >>
      /\ \/ /\ CanSend(f) /\ dead' = dead
            /\ frames' = [frames EXCEPT ![socket[f]] = @ + 1]
         \/ dead' = Append(dead, f) /\ frames' = frames
      /\ UNCHANGED <<mainVars, acceptVars, client_fds, kernelVars, threadVars,
                     browser, got, broadcasting, broadcasts>>
  BY DEF BroadcastSend, IInv, TypeOK
<1>2. f \in Fds /\ Tail(snapshot) \in Seq(Fds)
  BY <1>1, TailElements
<1> HIDE DEF f
<1>3. dead' \in Seq(Fds)
  <2>1. dead \in Seq(Fds)
    BY DEF IInv, TypeOK
  <2>2. Append(dead, f) \in Seq(Fds)
    BY <1>2, <2>1, AppendElements
  <2> QED
    BY <1>1, <2>1, <2>2
<1>4. frames' \in [Browsers -> Nat]
  <2>1. frames \in [Browsers -> Nat]
    BY DEF IInv, TypeOK
  <2> QED
    BY <1>1, <2>1
<1> QED
  BY <1>1, <1>2, <1>3, <1>4
     DEF IInv, TypeOK, mainVars, acceptVars, kernelVars, threadVars

LEMMA StayIInv ==
  ASSUME IInv,
         \/ AcceptLoop \/ CallAccept \/ AcceptFails \/ Broadcast \/ BroadcastSend
         \/ Start \/ SetDeviceInfo \/ StopFlag \/ CloseListen \/ JoinAcceptor
         \/ WaitEnds \/ \E b \in Browsers : Connect(b) \/ Leave(b)
  PROVE  IInv'
<1> USE DEF mainVars, acceptVars, kernelVars, threadVars, browserVars, castVars
<1>0. /\ TypeOK
      /\ main \notin {"started", "serving"} => ~running
  BY DEF IInv, TypeOK, Shutting
<1>1. CASE AcceptLoop \/ CallAccept \/ AcceptFails
  <2>1. TypeOK'
    BY <1>0, <1>1 DEF AcceptLoop, CallAccept, AcceptFails, Accepting, TypeOK
  <2> QED
    BY <1>0, <1>1, <2>1, ConnectionsStay
       DEF AcceptLoop, CallAccept, AcceptFails, Accepting
<1>2. CASE Broadcast
  <2>1. TypeOK'
    BY <1>0, <1>2, MaxBroadcastsAssumption DEF Broadcast, TypeOK
  <2> QED
    BY <1>0, <1>2, <2>1, ConnectionsStay DEF Broadcast
<1>3. CASE BroadcastSend
  <2>1. TypeOK'
    BY <1>3, BroadcastSendTypes
  <2> QED
    BY <1>0, <1>3, <2>1, ConnectionsStay DEF BroadcastSend
<1>4. CASE Start \/ SetDeviceInfo \/ StopFlag \/ CloseListen \/ JoinAcceptor \/ WaitEnds
  <2> USE DEF Start, SetDeviceInfo, StopFlag, CloseListen, JoinAcceptor, WaitEnds,
              MainStep
  <2>1. TypeOK'
    BY <1>0, <1>4 DEF TypeOK
  <2>2. /\ main' \notin {"started", "serving"} => ~running'
        /\ main' \in {"waiting", "stopped"} => main \in {"waiting", "stopped"}
        /\ UNCHANGED <<active, client_fds, kernelVars, threadVars, got>>
    BY <1>0, <1>4
  <2> QED
    BY <1>0, <2>1, <2>2, ConnectionsStay
<1>5. CASE \E b \in Browsers : Connect(b) \/ Leave(b)
  <2>1. TypeOK'
    <3>1. PICK b \in Browsers : Connect(b) \/ Leave(b)
      BY <1>5
    <3>2. PICK x \in {"connected", "gone"} : browser' = [browser EXCEPT ![b] = x]
      BY <3>1 DEF Connect, Leave
    <3>3. browser' \in [Browsers -> {"idle", "connected", "gone"}]
      BY <1>0, <3>2 DEF TypeOK
    <3>4. UNCHANGED <<mainVars, acceptVars, client_fds, kernelVars, threadVars, got,
                      frames, castVars>>
      BY <3>1 DEF Connect, Leave
    <3> QED
      BY <1>0, <3>3, <3>4 DEF TypeOK
  <2> QED
    BY <1>0, <1>5, <2>1, ConnectionsStay DEF Connect, Leave
<1> QED
  BY <1>1, <1>2, <1>3, <1>4, <1>5

(* Descriptors leave the list and are shut, by ws_broadcast for those that *)
(* failed, by stop() for all.                                              *)
LEMMA ShutListed ==
  ASSUME IInv, UNCHANGED <<running, listening, device, acceptVars, socket, threadVars,
                           browserVars, snapshot, broadcasts>>,
         NEW gone \in SUBSET Fds, shut' = shut \cup {f \in gone : socket[f] # None},
         client_fds' \in Seq(Fds), Distinct(client_fds'),
         ElementsOf(client_fds') = ElementsOf(client_fds) \ gone,
         main' \notin {"started", "serving"} => main \notin {"started", "serving"},
         main' \in {"waiting", "stopped"} =>
           main \in {"waiting", "stopped"} \/ ElementsOf(client_fds') = {},
         TypeOK'
  PROVE  IInv'
<1> USE DEF IInv, acceptVars, threadVars, browserVars
<1>1. \A c \in Browsers : Owning(c)' <=> Owning(c)
  BY DEF Owning
<1>2. Owners'
  BY <1>1, NoneAssumption DEF Owners, TypeOK
<1>3. Upgrades' /\ Listed'
  BY DEF Upgrades, Listed
<1>4. \A f \in ElementsOf(client_fds) : f \in shut' \cup ElementsOf(client_fds')
  BY DEF Listed
<1>5. Shutting'
  BY <1>4 DEF Shutting
<1> QED
  BY <1>2, <1>3, <1>5

LEMMA ReapIInv == ASSUME IInv, Reap PROVE IInv'
<1>0. TypeOK /\ Listed
  BY DEF IInv
<1>1. /\ main' = main /\ dead \in Seq(Fds) /\ client_fds \in Seq(Fds)
      /\ dead' = << >> /\ client_fds' = Kept(client_fds, Fds \ ToSet(dead))
      /\ shut' = shut \cup Open(dead) /\ broadcasting' = FALSE
      /\ UNCHANGED <<mainVars, acceptVars, socket, threadVars, browserVars, snapshot,
                     broadcasts>>
  BY <1>0 DEF Reap, TypeOK, mainVars
<1>2. ToSet(dead) \subseteq Fds /\ ElementsOf(client_fds) \subseteq Fds
  BY <1>1, ElementOfSeq, ToSetElements DEF ElementsOf
<1>3. /\ client_fds' \in Seq(Fds) /\ Distinct(client_fds')
      /\ ElementsOf(client_fds') = ElementsOf(client_fds) \ ToSet(dead)
  BY <1>0, <1>1, <1>2, KeptElements DEF Listed
<1>4. TypeOK'
  <2>1. shut' \subseteq Fds
    BY <1>0, <1>1, <1>2 DEF TypeOK, Open
  <2>2. dead' \in Seq(Fds)
    BY <1>1, EmptySeq
  <2> QED
    BY <1>0, <1>1, <1>3, <2>1, <2>2
       DEF TypeOK, mainVars, acceptVars, threadVars, browserVars
<1> QED
  BY <1>1, <1>2, <1>3, <1>4, ShutListed DEF Open, mainVars

LEMMA ShutClientsIInv == ASSUME IInv, ShutClients PROVE IInv'
<1>0. TypeOK /\ Listed
  BY DEF IInv
<1>1. /\ main = "joined" /\ main' = "waiting"
      /\ client_fds \in Seq(Fds) /\ client_fds' = << >>
      /\ shut' = shut \cup Open(client_fds)
      /\ UNCHANGED <<running, listening, device, acceptVars, socket, threadVars,
                     browserVars, castVars>>
  BY <1>0 DEF ShutClients, MainStep, TypeOK
<1>2. ToSet(client_fds) = ElementsOf(client_fds) /\ ToSet(client_fds) \subseteq Fds
  BY <1>1, ElementOfSeq, ToSetElements DEF ElementsOf
<1>3. /\ client_fds' \in Seq(Fds) /\ Distinct(client_fds')
      /\ ElementsOf(client_fds') = {}
  BY <1>1, EmptySeq DEF Distinct, ElementsOf
<1>4. TypeOK'
  BY <1>0, <1>1, <1>2, <1>3
     DEF TypeOK, Open, acceptVars, threadVars, browserVars, castVars
<1> QED
  BY <1>1, <1>2, <1>3, <1>4, ShutListed DEF Open, castVars
-----------------------------------------------------------------------------
LEMMA NextIInv == IInv /\ [Next]_vars => IInv'
<1> SUFFICES ASSUME IInv, [Next]_vars PROVE IInv'
  OBVIOUS
<1>1. CASE Main \/ StopFlag
  BY <1>1, StayIInv, ShutClientsIInv DEF Main
<1>2. CASE Acceptor \/ AcceptFails
  BY <1>2, StayIInv, AcceptBrowserIInv DEF Acceptor
<1>3. CASE Broadcast \/ Caster
  BY <1>3, StayIInv, ReapIInv DEF Caster
<1>4. ASSUME NEW b \in Browsers, Connect(b) \/ Leave(b)
      PROVE  IInv'
  BY <1>4, StayIInv
<1>5. ASSUME NEW b \in Browsers, ReadRequest(b) \/ Discard(b) \/ Thread(b)
      PROVE  IInv'
  BY <1>5, ThreadIInv, RegisterIInv, UnlistIInv, CloseIInv, FinishIInv DEF Thread
<1>6. CASE UNCHANGED vars
  BY <1>6, ConnectionsStay
     DEF vars, IInv, TypeOK, Shutting, mainVars, acceptVars, kernelVars, threadVars,
         browserVars, castVars
<1> QED
  BY <1>1, <1>2, <1>3, <1>4, <1>5, <1>6 DEF Next

(* What the threads of web_interface.cpp keep up between them.             *)
THEOREM WebInvariant == Spec => []IInv
  BY InitIInv, NextIInv, PTL DEF Spec

(* Types; and active_clients_ counts the threads that handle_client()      *)
(* still runs in, which is what stop() waits for.                          *)
THEOREM WebTypeCorrect == Spec => []TypeOK
<1>1. IInv => TypeOK
  BY DEF IInv
<1> QED
  BY <1>1, WebInvariant, PTL

(* No thread's descriptor is closed by another thread: until its own       *)
(* CLOSE_SOCKET it reads from its own browser and never from one that was  *)
(* given the number meanwhile.                                             *)
THEOREM WebOwnersKeep == Spec => []OwnersKeepTheirSockets
<1>1. IInv => OwnersKeepTheirSockets
  BY DEF IInv, Owners, OwnersKeepTheirSockets
<1> QED
  BY <1>1, WebInvariant, PTL

(* client_fds_ holds open descriptors of upgraded connections, each once.  *)
THEOREM WebListIsOpen == Spec => []ListIsOfOpenSockets
<1>1. IInv => ListIsOfOpenSockets
  <2> SUFFICES ASSUME IInv PROVE ListIsOfOpenSockets
    OBVIOUS
  <2>1. client_fds \in Seq(Fds) /\ Distinct(client_fds)
    BY DEF IInv, TypeOK, Listed
  <2>2. ToSet(client_fds) = ElementsOf(client_fds)
    BY <2>1, ToSetElements
  <2>3. Len(client_fds) = Cardinality(ToSet(client_fds))
    BY <2>1, <2>2, DistinctCounts
  <2>4. ASSUME NEW f \in ToSet(client_fds)
        PROVE  socket[f] # None /\ "101" \in got[socket[f]]
    <3>1. f \in Fds
      BY <2>1, <2>2, ElementOfSeq DEF ElementsOf
    <3>2. socket[f] # None /\ thread[socket[f]] \in ListedPoints
      BY <2>2 DEF IInv, Listed
    <3>3. socket[f] \in Browsers
      BY <3>1, <3>2 DEF IInv, TypeOK
    <3> QED
      BY <3>2, <3>3 DEF IInv, Upgrades, UpgradedPoints
  <2> QED
    BY <2>3, <2>4 DEF ListIsOfOpenSockets
<1> QED
  BY <1>1, WebInvariant, PTL

(* stop() leaves no thread reading from a socket that nobody shut down.    *)
THEOREM WebNoReaderLeft == Spec => []NoReaderLeft
<1>1. IInv => NoReaderLeft
  BY DEF IInv, Shutting, ReadingPoints, NoReaderLeft
<1> QED
  BY <1>1, WebInvariant, PTL
=============================================================================
