---------------------------- MODULE WebInterface ----------------------------
(***************************************************************************)
(* WebInterface (web_interface.cpp): the accept thread, one detached       *)
(* thread per browser, the transport thread that broadcasts frames to the  *)
(* registered browsers, and main, which starts and stops it (main.cpp).    *)
(*                                                                         *)
(* Threads name connections by descriptor; the kernel gives accept() the   *)
(* lowest free number, so a number that was closed comes back for another  *)
(* browser.  Frames are abstracted to their kind.                          *)
(***************************************************************************)
EXTENDS Lists, SequencesExt, FiniteSetsExt

CONSTANTS
  Browsers,       (* each connects once *)
  MaxBroadcasts,  (* bound: frames broadcast *)
  None            (* no browser *)

ASSUME BrowsersAssumption == IsFiniteSet(Browsers)
ASSUME MaxBroadcastsAssumption == MaxBroadcasts \in Nat
ASSUME NoneAssumption == None \notin Browsers

VARIABLES
  main,        (* where main is *)
  running,     (* running_ *)
  listening,   (* listen_fd_ is open *)
  device,      (* device_model_ is set *)
  acceptor,    (* where accept_loop() is *)
  active,      (* active_clients_ *)
  client_fds,  (* client_fds_ *)
  socket,      (* the kernel's table: whose connection a descriptor is *)
  shut,        (* descriptors that were SHUT_SOCKET *)
  browser,     (* where each browser is *)
  thread,      (* where its handle_client() is *)
  fd,          (* that thread's fd, 0 while there is none *)
  got,         (* what a browser received before its frames *)
  frames,      (* the broadcast frames it received *)
  snapshot,    (* the transport thread's snapshot in ws_broadcast() *)
  dead,        (* and its list of failed descriptors *)
  broadcasting,
  broadcasts   (* history: frames broadcast *)

mainVars == <<main, running, listening, device>>
acceptVars == <<acceptor, active>>
kernelVars == <<socket, shut>>
threadVars == <<thread, fd>>
browserVars == <<browser, got, frames>>
castVars == <<snapshot, dead, broadcasting, broadcasts>>
vars == <<mainVars, acceptVars, client_fds, kernelVars, threadVars,
          browserVars, castVars>>

Fds == 1 .. Cardinality(Browsers)

Init ==
  /\ main = "created" /\ running = FALSE /\ listening = FALSE /\ device = FALSE
  /\ acceptor = "none" /\ active = 0
  /\ client_fds = << >>
  /\ socket = [f \in Fds |-> None] /\ shut = {}
  /\ browser = [b \in Browsers |-> "idle"]
  /\ thread = [b \in Browsers |-> "none"]
  /\ fd = [b \in Browsers |-> 0]
  /\ got = [b \in Browsers |-> {}]
  /\ frames = [b \in Browsers |-> 0]
  /\ snapshot = << >> /\ dead = << >> /\ broadcasting = FALSE /\ broadcasts = 0

-----------------------------------------------------------------------------
(* Browsers.  The listening socket stays open while accept() is blocked on *)
(* it, whatever happens to its descriptor.                                 *)
Connect(b) ==
  /\ browser[b] = "idle" /\ browser' = [browser EXCEPT ![b] = "connected"]
  /\ listening \/ acceptor = "blocked"
  /\ UNCHANGED <<mainVars, acceptVars, client_fds, kernelVars, threadVars, got,
                 frames, castVars>>

Leave(b) ==
  /\ browser[b] = "connected" /\ browser' = [browser EXCEPT ![b] = "gone"]
  /\ UNCHANGED <<mainVars, acceptVars, client_fds, kernelVars, threadVars, got,
                 frames, castVars>>

-----------------------------------------------------------------------------
(* accept_loop() *)
Accepting(from, to) == acceptor = from /\ acceptor' = to

AcceptLoop ==
  /\ Accepting("loop", IF running THEN "accept" ELSE "exit")
  /\ UNCHANGED <<mainVars, active, client_fds, kernelVars, threadVars,
                 browserVars, castVars>>

CallAccept ==
  /\ Accepting("accept", IF listening THEN "blocked" ELSE "exit")
  /\ UNCHANGED <<mainVars, active, client_fds, kernelVars, threadVars,
                 browserVars, castVars>>

(* accept() fails: cfd < 0 ends the loop for good.  On Linux, close() of   *)
(* the listening socket by another thread is no reason for it: a thread    *)
(* that is blocked in accept() stays blocked.                              *)
AcceptFails ==
  /\ Accepting("blocked", "exit")
  /\ listening
  /\ UNCHANGED <<mainVars, active, client_fds, kernelVars, threadVars,
                 browserVars, castVars>>

LowestFree == Min({f \in Fds : socket[f] = None})

AcceptBrowser(b) ==
  /\ Accepting("blocked", "loop")
  /\ browser[b] # "idle" /\ thread[b] = "none"
  /\ fd' = [fd EXCEPT ![b] = LowestFree]
  /\ socket' = [socket EXCEPT ![LowestFree] = b]
  /\ thread' = [thread EXCEPT ![b] = "request"]
  /\ active' = active + 1
  /\ UNCHANGED <<mainVars, client_fds, shut, browserVars, castVars>>

-----------------------------------------------------------------------------
(* handle_client() *)
Goto(b, from, to) == thread[b] = from /\ thread' = [thread EXCEPT ![b] = to]

(* send() reaches whoever has the descriptor now, or fails.  The first     *)
(* sends to a browser that left may still succeed.                         *)
CanSend(f) == socket[f] # None /\ f \notin shut
CanFail(f) == f \in shut \/ socket[f] \notin {b \in Browsers : browser[b] # "gone"}

Open(fds) == {f \in ToSet(fds) : socket[f] # None}

Give(b, what) == got' = [got EXCEPT ![socket[fd[b]]] = @ \cup {what}]

(* recv() returns at once: the browser left, or the socket was shut. *)
HungUp(b) == browser[b] = "gone" \/ fd[b] \in shut

ReadRequest(b) ==
  /\ \/ Goto(b, "request", "upgrade")
     \/ Goto(b, "request", "respond")
     \/ Goto(b, "request", "close") /\ HungUp(b)
  /\ UNCHANGED <<mainVars, acceptVars, client_fds, kernelVars, fd, browserVars,
                 castVars>>

Respond(b) ==
  /\ Goto(b, "respond", "close")
  /\ \/ CanSend(fd[b]) /\ Give(b, "http")
     \/ CanFail(fd[b]) /\ UNCHANGED got
  /\ UNCHANGED <<mainVars, acceptVars, client_fds, kernelVars, fd, browser,
                 frames, castVars>>

(* 101; no key in the request, or a failed send, ends the connection. *)
Upgrade(b) ==
  /\ \/ Goto(b, "upgrade", "device") /\ CanSend(fd[b]) /\ Give(b, "101")
     \/ Goto(b, "upgrade", "close") /\ UNCHANGED got
  /\ UNCHANGED <<mainVars, acceptVars, client_fds, kernelVars, fd, browser,
                 frames, castVars>>

SendDevice(b) ==
  /\ Goto(b, "device", "register")
  /\ \/ device /\ CanSend(fd[b]) /\ Give(b, "device")
     \/ (~device \/ CanFail(fd[b])) /\ UNCHANGED got
  /\ UNCHANGED <<mainVars, acceptVars, client_fds, kernelVars, fd, browser,
                 frames, castVars>>

Register(b) ==
  /\ Goto(b, "register", "loop")
  /\ client_fds' = Append(client_fds, fd[b])
  /\ UNCHANGED <<mainVars, acceptVars, kernelVars, fd, browserVars, castVars>>

FrameLoop(b) ==
  /\ Goto(b, "loop", IF running THEN "discard" ELSE "unlist")
  /\ UNCHANGED <<mainVars, acceptVars, client_fds, kernelVars, fd, browserVars,
                 castVars>>

(* A mutant of Discard that reads on after an error. *)
DiscardOn(b) ==
  /\ \/ Goto(b, "discard", "pong") /\ ~HungUp(b)
     \/ Goto(b, "discard", "loop") /\ HungUp(b)
  /\ UNCHANGED <<mainVars, acceptVars, client_fds, kernelVars, fd, browserVars,
                 castVars>>

(* ws_discard_frame(): a ping, or the end of the connection.  Other frames *)
(* change nothing.                                                         *)
Discard(b) ==
  /\ \/ Goto(b, "discard", "pong") /\ ~HungUp(b)
     \/ Goto(b, "discard", "unlist") /\ HungUp(b)
  /\ UNCHANGED <<mainVars, acceptVars, client_fds, kernelVars, fd, browserVars,
                 castVars>>

(* The pong's header and its payload are two sends; their failure is       *)
(* ignored.                                                                *)
Pong(b) ==
  /\ Goto(b, "pong", "pong_data") \/ Goto(b, "pong_data", "loop")
  /\ UNCHANGED <<mainVars, acceptVars, client_fds, kernelVars, fd, browserVars,
                 castVars>>

(* A mutant of Unlist that leaves the descriptor in client_fds_. *)
UnlistNot(b) ==
  /\ Goto(b, "unlist", "close")
  /\ UNCHANGED <<mainVars, acceptVars, client_fds, kernelVars, fd, browserVars,
                 castVars>>

Unlist(b) ==
  /\ Goto(b, "unlist", "close")
  /\ client_fds' = Kept(client_fds, Fds \ {fd[b]})
  /\ UNCHANGED <<mainVars, acceptVars, kernelVars, fd, browserVars, castVars>>

Close(b) ==
  /\ Goto(b, "close", "closed")
  /\ socket' = [socket EXCEPT ![fd[b]] = None]
  /\ shut' = shut \ {fd[b]}
  /\ fd' = [fd EXCEPT ![b] = 0]
  /\ UNCHANGED <<mainVars, acceptVars, client_fds, browserVars, castVars>>

(* A mutant of Finish that does not count the thread out. *)
FinishUncounted(b) ==
  /\ Goto(b, "closed", "finished")
  /\ UNCHANGED <<mainVars, acceptVars, client_fds, kernelVars, fd, browserVars,
                 castVars>>

Finish(b) ==
  /\ Goto(b, "closed", "finished")
  /\ active' = active - 1
  /\ UNCHANGED <<mainVars, acceptor, client_fds, kernelVars, fd, browserVars,
                 castVars>>

-----------------------------------------------------------------------------
(* ws_broadcast(), in the transport thread: broadcast_data or _stats.      *)
Broadcast ==
  /\ main = "serving" /\ ~broadcasting
  /\ client_fds # << >>
  /\ broadcasts < MaxBroadcasts /\ broadcasts' = broadcasts + 1
  /\ broadcasting' = TRUE
  /\ snapshot' = client_fds
  /\ UNCHANGED <<mainVars, acceptVars, client_fds, kernelVars, threadVars,
                 browserVars, dead>>

BroadcastSend ==
  /\ broadcasting /\ snapshot # << >>
  /\ snapshot' = Tail(snapshot)
  /\ LET f == Head(snapshot) IN
       \/ /\ CanSend(f)
          /\ frames' = [frames EXCEPT ![socket[f]] = @ + 1]
          /\ UNCHANGED dead
       \/ CanFail(f) /\ dead' = Append(dead, f) /\ UNCHANGED frames
  /\ UNCHANGED <<mainVars, acceptVars, client_fds, kernelVars, threadVars,
                 browser, got, broadcasting, broadcasts>>

(* Mutants of Reap: it closes the dead sockets itself, or only forgets     *)
(* them.                                                                   *)
ReapCloses ==
  /\ broadcasting /\ snapshot = << >>
  /\ broadcasting' = FALSE /\ dead' = << >>
  /\ client_fds' = Kept(client_fds, Fds \ ToSet(dead))
  /\ socket' = [f \in Fds |-> IF f \in ToSet(dead) THEN None ELSE socket[f]]
  /\ UNCHANGED <<mainVars, acceptVars, shut, threadVars, browserVars, snapshot,
                 broadcasts>>

ReapForgets ==
  /\ broadcasting /\ snapshot = << >>
  /\ broadcasting' = FALSE /\ dead' = << >>
  /\ client_fds' = Kept(client_fds, Fds \ ToSet(dead))
  /\ UNCHANGED <<mainVars, acceptVars, kernelVars, threadVars, browserVars,
                 snapshot, broadcasts>>

(* Failed descriptors leave the list and are shut down. *)
Reap ==
  /\ broadcasting /\ snapshot = << >>
  /\ broadcasting' = FALSE /\ dead' = << >>
  /\ client_fds' = Kept(client_fds, Fds \ ToSet(dead))
  /\ shut' = shut \cup Open(dead)
  /\ UNCHANGED <<mainVars, acceptVars, socket, threadVars, browserVars, snapshot,
                 broadcasts>>

-----------------------------------------------------------------------------
(* main: start(), set_device_info(), and stop(), which it calls once the   *)
(* transport thread has been joined.                                       *)
MainStep(from, to) == main = from /\ main' = to

Start ==
  /\ MainStep("created", "started")
  /\ running' = TRUE /\ listening' = TRUE
  /\ acceptor' = "loop"
  /\ UNCHANGED <<device, active, client_fds, kernelVars, threadVars,
                 browserVars, castVars>>

SetDeviceInfo ==
  /\ MainStep("started", "serving")
  /\ device' = TRUE
  /\ UNCHANGED <<running, listening, acceptVars, client_fds, kernelVars,
                 threadVars, browserVars, castVars>>

StopFlag ==
  /\ MainStep("serving", "stopping")
  /\ ~broadcasting
  /\ running' = FALSE
  /\ UNCHANGED <<listening, device, acceptVars, client_fds, kernelVars,
                 threadVars, browserVars, castVars>>

CloseListen ==
  /\ MainStep("stopping", "joining")
  /\ listening' = FALSE
  /\ UNCHANGED <<running, device, acceptVars, client_fds, kernelVars,
                 threadVars, browserVars, castVars>>

JoinAcceptor ==
  /\ MainStep("joining", "joined")
  /\ acceptor = "exit"
  /\ UNCHANGED <<running, listening, device, acceptVars, client_fds, kernelVars,
                 threadVars, browserVars, castVars>>

ShutClients ==
  /\ MainStep("joined", "waiting")
  /\ shut' = shut \cup Open(client_fds)
  /\ client_fds' = << >>
  /\ UNCHANGED <<running, listening, device, acceptVars, socket, threadVars,
                 browserVars, castVars>>

(* A mutant of WaitEnds that has no limit of 3 s. *)
WaitForAll ==
  /\ MainStep("waiting", "stopped")
  /\ active = 0
  /\ UNCHANGED <<running, listening, device, acceptVars, client_fds, kernelVars,
                 threadVars, browserVars, castVars>>

(* wait_for returns when active_clients_ is 0, or after 3 s in any case. *)
WaitEnds ==
  /\ MainStep("waiting", "stopped")
  /\ UNCHANGED <<running, listening, device, acceptVars, client_fds, kernelVars,
                 threadVars, browserVars, castVars>>

(* main, but for its call of stop(), which waits for a signal. *)
Main ==
  \/ Start \/ SetDeviceInfo \/ CloseListen \/ JoinAcceptor \/ ShutClients
  \/ WaitEnds

Acceptor ==
  AcceptLoop \/ CallAccept \/ \E b \in Browsers : AcceptBrowser(b)

Caster == BroadcastSend \/ Reap

(* The steps of a client thread; recv() of a browser that says nothing     *)
(* blocks, so these are the ones that are sure to happen.                  *)
Thread(b) ==
  \/ ReadRequest(b) /\ HungUp(b)
  \/ Respond(b) \/ Upgrade(b) \/ SendDevice(b) \/ Register(b) \/ FrameLoop(b)
  \/ Discard(b) /\ HungUp(b)
  \/ Pong(b) \/ Unlist(b) \/ Close(b) \/ Finish(b)

Next ==
  \/ Main \/ StopFlag \/ Acceptor \/ AcceptFails \/ Broadcast \/ Caster
  \/ \E b \in Browsers :
       Connect(b) \/ Leave(b) \/ ReadRequest(b) \/ Discard(b) \/ Thread(b)

Spec == Init /\ [][Next]_vars

Fairness ==
  /\ WF_vars(Main) /\ WF_vars(Acceptor) /\ WF_vars(Caster)
  /\ \A b \in Browsers : WF_vars(Thread(b))

FairSpec == Spec /\ Fairness
-----------------------------------------------------------------------------
Points == {"none", "request", "respond", "upgrade", "device", "register", "loop",
           "discard", "pong", "pong_data", "unlist", "close", "closed", "finished"}

(* A client thread between accept() and its CLOSE_SOCKET. *)
Owning(b) == thread[b] \notin {"none", "closed", "finished"}

TypeOK ==
  /\ main \in {"created", "started", "serving", "stopping", "joining", "joined",
               "waiting", "stopped"}
  /\ {running, listening, device, broadcasting} \subseteq BOOLEAN
  /\ acceptor \in {"none", "loop", "accept", "blocked", "exit"}
  /\ active = Cardinality({b \in Browsers : thread[b] \notin {"none", "finished"}})
  /\ socket \in [Fds -> Browsers \cup {None}] /\ shut \subseteq Fds
  /\ browser \in [Browsers -> {"idle", "connected", "gone"}]
  /\ thread \in [Browsers -> Points]
  /\ fd \in [Browsers -> 0 .. Cardinality(Browsers)]
  /\ got \in [Browsers -> SUBSET {"http", "101", "device"}]
  /\ frames \in [Browsers -> Nat] /\ broadcasts \in Nat
  /\ {client_fds, snapshot, dead} \subseteq Seq(Fds)

(* A descriptor is closed by the thread that owns it and by no other: the  *)
(* design of ws_broadcast ("to avoid double-close races").                 *)
OwnersKeepTheirSockets == \A b \in Browsers : Owning(b) => socket[fd[b]] = b

(* client_fds_ holds only open descriptors, of upgraded connections, each  *)
(* once: a number that the kernel can give away again is never broadcast   *)
(* to from the list.                                                       *)
ListIsOfOpenSockets ==
  /\ \A f \in ToSet(client_fds) : socket[f] # None /\ "101" \in got[socket[f]]
  /\ Len(client_fds) = Cardinality(ToSet(client_fds))

(* Once stop() has shut the listed sockets down, no thread is left that    *)
(* reads from a socket nobody shut down: neither one that registered       *)
(* while stop() ran nor one that ws_broadcast took off the list.           *)
NoReaderLeft ==
  main \in {"waiting", "stopped"} =>
    \A b \in Browsers : thread[b] \in {"discard", "pong", "pong_data"} =>
                          fd[b] \in shut

(* A browser that leaves frees its thread and its descriptor. *)
ConnectionsEnd ==
  \A b \in Browsers :
    (Owning(b) /\ browser[b] = "gone") ~> thread[b] = "finished"

(* stop() returns, unless accept() is blocked and not woken. *)
StopReturnsMostly ==
  main = "stopping" ~> (main = "stopped" \/ acceptor = "blocked")

(* "Closing the listen socket unblocks accept() in accept_loop" (stop()):  *)
(* stop() returns.                                                         *)
StopReturns == main = "stopping" ~> main = "stopped"

(* "This thread is the sole owner of fd at this point" (handle_client, at  *)
(* its CLOSE_SOCKET): a frame never reaches a connection that was not      *)
(* upgraded, through a descriptor its snapshot held for another browser.   *)
FramesOnlyAfterUpgrade ==
  \A b \in Browsers : frames[b] > 0 => "101" \in got[b]

(* "set_device_info here so the first connecting browser gets it"          *)
(* (main.cpp): a browser in the list, still connected, has the device      *)
(* frame.                                                                  *)
ListedKnowDevice ==
  \A b \in Browsers :
    (browser[b] = "connected" /\ thread[b] = "discard") => "device" \in got[b]
=============================================================================
