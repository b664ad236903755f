--------------------------- MODULE StorageManager ---------------------------
(***************************************************************************)
(* StorageManager (storage_manager.cpp) with its CsvFormatter              *)
(* (csv_formatter.cpp): the transport thread pushes packets into a ring    *)
(* buffer, a writer thread drains it into a CSV file every                 *)
(* flush_interval_ms_, and main stops the writer and drains the rest.      *)
(*                                                                         *)
(* The ring buffer is the queue it implements (RingBuffer_proofs).  A      *)
(* packet is the number of its push.  The file is the sequence of pieces   *)
(* that reached the disk; a failed or interrupted write leaves any prefix  *)
(* of its rows, perhaps with part of the next row (a "cut" piece).  The    *)
(* process may be killed and started again on the same output path.        *)
(***************************************************************************)
EXTENDS Integers, Sequences, FiniteSets

CONSTANTS
  Capacity,        (* buffer_capacity *)
  SilentFailures,  (* may the disk refuse data as late as close()? *)
  MaxPackets,      (* bound: packets pushed *)
  MaxErrors,       (* bound: failed file operations of one process *)
  MaxRestarts      (* bound: times the process is started again *)

ASSUME CapacityAssumption == Capacity \in Nat \ {0}
ASSUME SilentFailuresAssumption == SilentFailures \in BOOLEAN
ASSUME BoundsAssumption == {MaxPackets, MaxErrors, MaxRestarts} \subseteq Nat

VARIABLES
  pc,           (* where main and the writer thread are *)
  running,      (* running_ *)
  mutex,        (* the thread that holds stop_mutex_, or "none" *)
  producing,    (* the transport thread may still call push() *)
  buffer,       (* buffer_ *)
  batch,        (* what a thread drained and has not written yet *)
  file,         (* the pieces in the output file *)
  initialized,  (* initialized_ contains the output path *)
  dropped,      (* dropped_packets_ *)
  written,      (* written_packets_ *)
  pushes,       (* history: calls of push() in this process *)
  errors,       (* history: failed file operations in this process *)
  next,         (* the next packet *)
  restarts

threadVars == <<pc, running, mutex>>
dataVars == <<buffer, batch, file, initialized>>
countVars == <<dropped, written, pushes, errors>>
envVars == <<producing, next, restarts>>
vars == <<threadVars, dataVars, countVars, envVars>>

Threads == {"main", "writer"}

At(m, w) == [t \in Threads |-> IF t = "main" THEN m ELSE w]

Piece == [kind : {"header", "row", "cut", "foreign"}, id : Nat]
Header == [kind |-> "header", id |-> 0]
Cut == [kind |-> "cut", id |-> 0]
Foreign == [kind |-> "foreign", id |-> 0]
Row(p) == [kind |-> "row", id |-> p]

IsRow(piece) == piece.kind = "row"

(* Every file a first start may find: none, or empty; one with another     *)
(* first line; one that an earlier run of the server began.                *)
InitialFiles == {<< >>, <<Foreign>>, <<Header>>}

Init ==
  /\ pc = At("created", "none")
  /\ running = FALSE
  /\ mutex = "none"
  /\ producing = TRUE
  /\ buffer = << >>
  /\ batch = [t \in Threads |-> << >>]
  /\ file \in InitialFiles
  /\ initialized = FALSE
  /\ dropped = 0 /\ written = 0 /\ pushes = 0 /\ errors = 0
  /\ next = 1
  /\ restarts = 0

Goto(t, from, to) == pc[t] = from /\ pc' = [pc EXCEPT ![t] = to]

-----------------------------------------------------------------------------
(***************************************************************************)
(* The formatter, as the set of outcomes of each call: the file it leaves, *)
(* and "done"; "failed" or, before the header is in place, "no_header",    *)
(* for which it returns false; or "unnoticed", a failure of close(), for   *)
(* which it returns true.                                                  *)
(***************************************************************************)
Outcome(result, f) == [result |-> result, file |-> f]

ReturnsTrue(o) == o.result \in {"done", "unnoticed"}

Unnoticed == IF SilentFailures THEN {"unnoticed"} ELSE {}

HasHeader(f) == f # << >> /\ f[1] = Header

(* A mutant of WriteHeader: truncate without looking. *)
WriteHeaderAlways(f) ==
  {Outcome("done", <<Header>>), Outcome("no_header", f)}

(* A file with the right first line is kept as it is.  Any other is        *)
(* truncated, and the header may then fail to reach the disk.              *)
WriteHeader(f) ==
  IF HasHeader(f)
  THEN {Outcome("done", f)}
  ELSE {Outcome("done", <<Header>>),
        Outcome("no_header", f), Outcome("no_header", << >>)}
       \cup {Outcome(result, << >>) : result \in Unnoticed}

RowsOf(packets, n) == [i \in 1 .. n |-> Row(packets[i])]

(* The rows are appended; a failure leaves the first n of them, and        *)
(* perhaps a piece of the next.                                            *)
AppendRows(f, packets) ==
  {Outcome("done", f \o RowsOf(packets, Len(packets)))}
  \cup {Outcome(result, f \o RowsOf(packets, n) \o tail) :
          result \in {"failed"} \cup Unnoticed,
          n \in 0 .. Len(packets) - 1,
          tail \in {<< >>, <<Cut>>}}

(* A header that was lost unnoticed keeps the call from being "done". *)
AppendRowsAfter(h, packets) ==
  {Outcome(IF r.result = "done" THEN h.result ELSE r.result, r.file) :
     r \in AppendRows(h.file, packets)}

(* A mutant of WritePackets that does not guarantee the header. *)
WritePacketsBare(f, init, packets) == AppendRows(f, packets)

WritePackets(f, init, packets) ==
  IF init
  THEN AppendRows(f, packets)
  ELSE {h \in WriteHeader(f) : h.result = "no_header"}
       \cup UNION {AppendRowsAfter(h, packets) :
                     h \in {o \in WriteHeader(f) : ReturnsTrue(o)}}

(* A call ended with outcome o.  MaxErrors bounds the failures. *)
Finish(o) ==
  /\ file' = o.file
  /\ initialized' = (o.result # "no_header")
  /\ \/ o.result = "done" /\ UNCHANGED errors
     \/ o.result # "done" /\ errors < MaxErrors /\ errors' = errors + 1

-----------------------------------------------------------------------------
(* start(): the header is tried, and its failure only logged. *)
Start ==
  /\ pc["main"] = "created"
  /\ pc' = At("running", "loop")
  /\ running' = TRUE
  /\ \E o \in WriteHeader(file) : Finish(o)
  /\ UNCHANGED <<mutex, buffer, batch, dropped, written, pushes, envVars>>

(* A mutant of Push without the test for a full buffer. *)
PushUnbounded ==
  /\ pc["main"] = "running" /\ producing
  /\ next <= MaxPackets
  /\ next' = next + 1
  /\ pushes' = pushes + 1
  /\ buffer' = Append(buffer, next)
  /\ UNCHANGED <<threadVars, batch, file, initialized, written, errors,
                 producing, restarts, dropped>>

(* push(), called by the transport thread between start and its join. *)
Push ==
  /\ pc["main"] = "running" /\ producing
  /\ next <= MaxPackets
  /\ next' = next + 1
  /\ pushes' = pushes + 1
  /\ \/ Len(buffer) < Capacity /\ buffer' = Append(buffer, next)
        /\ UNCHANGED dropped
     \/ Len(buffer) = Capacity /\ dropped' = dropped + 1
        /\ UNCHANGED buffer
  /\ UNCHANGED <<threadVars, batch, file, initialized, written, errors,
                 producing, restarts>>

-----------------------------------------------------------------------------
(* flush_now(), by the writer or by main: drain_nowait, then write. *)
After(t) == IF t = "main" THEN "stopped" ELSE "loop"

(* A mutant of Drain that leaves the newest packet out of the batch. *)
DrainShort(t) ==
  /\ Goto(t, "drain", IF buffer = << >> THEN After(t) ELSE "write")
  /\ batch' = [batch EXCEPT ![t] = SubSeq(buffer, 1, Len(buffer) - 1)]
  /\ buffer' = << >>
  /\ UNCHANGED <<running, mutex, file, initialized, countVars, envVars>>

Drain(t) ==
  /\ Goto(t, "drain", IF buffer = << >> THEN After(t) ELSE "write")
  /\ batch' = [batch EXCEPT ![t] = buffer]
  /\ buffer' = << >>
  /\ UNCHANGED <<running, mutex, file, initialized, countVars, envVars>>

(* A mutant of Write that counts the batch whatever write_packets said. *)
WriteUnchecked(t) ==
  /\ Goto(t, "write", After(t))
  /\ \E o \in WritePackets(file, initialized, batch[t]) : Finish(o)
  /\ written' = written + Len(batch[t])
  /\ batch' = [batch EXCEPT ![t] = << >>]
  /\ UNCHANGED <<running, mutex, buffer, dropped, pushes, envVars>>

Write(t) ==
  /\ Goto(t, "write", After(t))
  /\ \E o \in WritePackets(file, initialized, batch[t]) :
       /\ Finish(o)
       /\ written' = IF ReturnsTrue(o) THEN written + Len(batch[t]) ELSE written
  /\ batch' = [batch EXCEPT ![t] = << >>]
  /\ UNCHANGED <<running, mutex, buffer, dropped, pushes, envVars>>

-----------------------------------------------------------------------------
(* flush_loop(): the test of running_, then wait_for on stop_cv_. *)
Loop ==
  /\ Goto("writer", "loop", IF running THEN "lock" ELSE "exit")
  /\ UNCHANGED <<running, mutex, dataVars, countVars, envVars>>

(* First entry, or awake again after a notification. *)
Lock ==
  /\ Goto("writer", "lock", "check")
  /\ mutex = "none" /\ mutex' = "writer"
  /\ UNCHANGED <<running, dataVars, countVars, envVars>>

(* The wait predicate is read with the mutex held, and running_ is written *)
(* without it: reading and blocking are two steps.                         *)
Check ==
  /\ Goto("writer", "check", IF running THEN "block" ELSE "drain")
  /\ mutex' = IF running THEN mutex ELSE "none"
  /\ UNCHANGED <<running, dataVars, countVars, envVars>>

Block ==
  /\ Goto("writer", "block", "sleep")
  /\ mutex' = "none"
  /\ UNCHANGED <<running, dataVars, countVars, envVars>>

SpuriousWakeup ==
  /\ Goto("writer", "sleep", "lock")
  /\ UNCHANGED <<running, mutex, dataVars, countVars, envVars>>

(* A mutant of Timeout: wait() in place of wait_for(). *)
TimeoutNever == FALSE /\ UNCHANGED vars

(* flush_interval_ms_ elapses; wait_for returns once it has the mutex. *)
Timeout ==
  /\ Goto("writer", "sleep", "drain")
  /\ mutex = "none"
  /\ UNCHANGED <<running, mutex, dataVars, countVars, envVars>>

-----------------------------------------------------------------------------
(* main joins the transport thread before it calls stop(). *)
JoinTransport ==
  /\ pc["main"] = "running" /\ producing
  /\ producing' = FALSE
  /\ UNCHANGED <<threadVars, dataVars, countVars, next, restarts>>

StopFlag ==
  /\ Goto("main", "running", "notify")
  /\ ~producing
  /\ running' = FALSE
  /\ UNCHANGED <<mutex, dataVars, countVars, envVars>>

(* A mutant of Notify: notify_all() without stop_mutex_. *)
NotifyUnlocked ==
  /\ pc["main"] = "notify"
  /\ pc' = At("join", IF pc["writer"] = "sleep" THEN "lock" ELSE pc["writer"])
  /\ UNCHANGED <<running, mutex, dataVars, countVars, envVars>>

(* notify_all() under stop_mutex_: a critical section of its own. *)
Notify ==
  /\ pc["main"] = "notify"
  /\ mutex = "none"
  /\ pc' = At("join", IF pc["writer"] = "sleep" THEN "lock" ELSE pc["writer"])
  /\ UNCHANGED <<running, mutex, dataVars, countVars, envVars>>

(* Mutants of Join: no join before the final flush, and no final flush. *)
JoinSkipped ==
  /\ Goto("main", "join", "drain")
  /\ UNCHANGED <<running, mutex, dataVars, countVars, envVars>>

JoinThenStop ==
  /\ Goto("main", "join", "stopped")
  /\ pc["writer"] = "exit"
  /\ UNCHANGED <<running, mutex, dataVars, countVars, envVars>>

Join ==
  /\ Goto("main", "join", "drain")
  /\ pc["writer"] = "exit"
  /\ UNCHANGED <<running, mutex, dataVars, countVars, envVars>>

-----------------------------------------------------------------------------
(* What a write that the end of the process interrupts leaves behind. *)
Interrupted ==
  {file} \cup UNION {{o.file : o \in WritePackets(file, initialized, batch[t])} :
                     t \in {u \in Threads : pc[u] = "write"}}

(* The process is killed, or has ended, and is started on the same path.   *)
Restart ==
  /\ restarts < MaxRestarts
  /\ restarts' = restarts + 1
  /\ file' \in Interrupted
  /\ pc' = At("created", "none")
  /\ running' = FALSE /\ mutex' = "none" /\ producing' = TRUE
  /\ buffer' = << >> /\ batch' = [t \in Threads |-> << >>]
  /\ initialized' = FALSE
  /\ dropped' = 0 /\ written' = 0 /\ pushes' = 0 /\ errors' = 0
  /\ UNCHANGED next

(* main has returned. *)
Done == pc["main"] = "stopped" /\ UNCHANGED vars

Main == Start \/ StopFlag \/ Notify \/ Join \/ Drain("main") \/ Write("main")
Writer == Loop \/ Lock \/ Check \/ Block \/ Drain("writer") \/ Write("writer")
Environment == Push \/ JoinTransport \/ Timeout \/ SpuriousWakeup \/ Restart

Next == Main \/ Writer \/ Environment \/ Done

(* The threads run.  The flush interval is not counted on here: what       *)
(* depends on it says so.                                                  *)
Fairness == WF_vars(Main) /\ WF_vars(Writer)

Spec == Init /\ [][Next]_vars
FairSpec == Spec /\ Fairness
-----------------------------------------------------------------------------
MainPoints == {"created", "running", "notify", "join", "drain", "write", "stopped"}
WriterPoints == {"none", "loop", "lock", "check", "block", "sleep", "drain",
                 "write", "exit"}

TypeOK ==
  /\ pc \in [Threads -> MainPoints \cup WriterPoints]
  /\ pc["main"] \in MainPoints /\ pc["writer"] \in WriterPoints
  /\ running \in BOOLEAN /\ producing \in BOOLEAN
  /\ mutex \in Threads \cup {"none"}
  /\ buffer \in Seq(Nat) /\ Len(buffer) <= Capacity
  /\ batch \in [Threads -> Seq(Nat)]
  /\ file \in Seq(Piece)
  /\ initialized \in BOOLEAN
  /\ {dropped, written, pushes, errors, next, restarts} \subseteq Nat

Elements(s) == {s[i] : i \in DOMAIN s}
RowIds(f) == {f[i].id : i \in {j \in DOMAIN f : IsRow(f[j])}}

Increasing(s) == \A i, j \in DOMAIN s : i < j => s[i] < s[j]
IncreasingRows(f) ==
  \A i, j \in DOMAIN f :
    (i < j /\ IsRow(f[i]) /\ IsRow(f[j])) => f[i].id < f[j].id
Precede(S, T) == \A x \in S, y \in T : x < y

(* Packets reach the file once and in the order of their pushes, although  *)
(* two threads drain the buffer and write, also across failed writes and   *)
(* restarts: what is in the file precedes what a thread holds, and that    *)
(* precedes what is buffered.                                              *)
InOrder ==
  /\ IncreasingRows(file)
  /\ Increasing(buffer)
  /\ Precede(RowIds(file), Elements(buffer))
  /\ \A t \in Threads :
       /\ Increasing(batch[t])
       /\ Precede(RowIds(file), Elements(batch[t]))
       /\ Precede(Elements(batch[t]), Elements(buffer))
  /\ batch["main"] = << >> \/ batch["writer"] = << >>

(* While no file operation failed, every push is accounted for: dropped,   *)
(* written, in a thread's hands, or buffered.                              *)
Accounting ==
  errors = 0 =>
    pushes = dropped + written + Len(batch["main"]) + Len(batch["writer"])
               + Len(buffer)

(* When stop() has returned, the writer has ended and nothing is left in   *)
(* the buffer or in a thread's hands.                                      *)
NothingLeftBehind ==
  pc["main"] = "stopped" =>
    /\ pc["writer"] = "exit"
    /\ buffer = << >>
    /\ \A t \in Threads : batch[t] = << >>

(* The rows of this process in the file; its pushes are the last ones. *)
RowsOfThisProcess ==
  {i \in DOMAIN file : IsRow(file[i]) /\ file[i].id >= next - pushes}

(* The "written" that main logs at the end never exceeds the rows that are *)
(* in the file.                                                            *)
CountersHonest == written <= Cardinality(RowsOfThisProcess)

(* A file with rows starts with the header ("Guarantee the header is       *)
(* written", csv_formatter.cpp), whatever failed before.                   *)
HeaderFirst == (\E i \in DOMAIN file : IsRow(file[i])) => HasHeader(file)

(* No step removes, moves or changes a row that is in the file: neither a  *)
(* failed write nor the truncation of a later start.                       *)
RowsKept ==
  \A i \in DOMAIN file :
    IsRow(file[i]) => i \in DOMAIN file' /\ file'[i] = file[i]
RowsSurvive == [][RowsKept]_vars

(* stop() returns, whatever the writer was doing, and without counting on  *)
(* the flush interval to wake it.                                          *)
StopCompletes ==
  pc["main"] = "notify" ~> pc["main"] \in {"stopped", "created"}

(* If the flush interval does elapse, no packet stays in the buffer        *)
(* forever.  The interval ends at a fixed time, so a writer that keeps     *)
(* being woken for nothing before it still meets it: strong fairness.      *)
FlushesHappen ==
  SF_vars(Timeout) =>
    \A p \in 1 .. MaxPackets :
      p \in Elements(buffer) ~> p \notin Elements(buffer)
=============================================================================
