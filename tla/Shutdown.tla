------------------------------ MODULE Shutdown ------------------------------
(***************************************************************************)
(* WorkerPool.start and stop, called by the application's lifespan: the    *)
(* background loop, the dispatcher and the runs are asyncio tasks, stop    *)
(* cancels the first, waits for the second and cancels the third, and a    *)
(* task meets its cancellation at the await it is in.  The download, the   *)
(* title and count probes and the signalled download are processes with a  *)
(* life of their own, and a move is a thread that no cancellation reaches. *)
(* JobQueue has what happens between start and stop in full; here a job is *)
(* queued, active, done or error.                                          *)
(***************************************************************************)
EXTENDS FiniteSets, Naturals

CONSTANTS
    Jobs,
    MaxConcurrent,  \* downloads.max_concurrent
    MaxStops,       \* bound: how often the service is stopped
    MaxRequeues     \* bound: rows the background loop puts back

ASSUME StopAssumption ==
    MaxConcurrent \in Nat \ {0} /\ MaxStops \in Nat /\ MaxRequeues \in Nat

VARIABLES
    row,        \* each job's state; durable
    run,        \* how far its _run_job task is; "none" if it is not in _running
    result,     \* history: how the engine ended last, "none" while it has not
    engine,     \* jobs whose download process is alive
    procs,      \* jobs in GalleryDLEngine._procs
    probes,     \* jobs with a title or count probe, which nobody awaits
    signalled,  \* jobs with a download that was sent SIGTERM and is not awaited
    moves,      \* jobs with a thread in _move_tree, rename_dir or gather_into_dir
    dispatcher, \* _loop_task: dispatching, waiting or ended
    loop,       \* _pin_task or _retry_task: sleeping, updating or ended
    stop,       \* how far stop() is: "up" while it is not called, "closed" after it
    cancelled,  \* jobs whose run has a CancelledError to meet
    stops, requeues

left == <<probes, signalled>>
counters == <<stops, requeues>>
vars == <<row, run, result, engine, procs, moves, left, dispatcher, loop, stop, cancelled, counters>>

Stopped == stop # "up"
Running == {j \in Jobs : run[j] # "none"}

Init ==
    /\ row = [j \in Jobs |-> "queued"]
    /\ run = [j \in Jobs |-> "none"]
    /\ result = [j \in Jobs |-> "none"]
    /\ engine = {} /\ procs = {} /\ moves = {} /\ cancelled = {}
    /\ probes = {} /\ signalled = {}
    /\ dispatcher = "dispatching" /\ loop = "sleeping"
    /\ stop = "up" /\ stops = 0 /\ requeues = 0

-----------------------------------------------------------------------------
(* The dispatcher                                                          *)

\* _dispatch_ready: each job checks _stopped again.
Dispatch(j) ==
    /\ dispatcher = "dispatching" /\ ~Stopped
    /\ row[j] = "queued" /\ run[j] = "none" /\ Cardinality(Running) < MaxConcurrent
    /\ run' = [run EXCEPT ![j] = "starting"]
    /\ UNCHANGED <<row, result, engine, procs, moves, left, dispatcher, loop, stop, cancelled, counters>>

\* Variant of DispatchLoop for mutation: while True.
DispatchForever ==
    /\ dispatcher # "ended"
    /\ dispatcher' = IF dispatcher = "waiting" THEN "dispatching" ELSE "waiting"
    /\ UNCHANGED <<row, run, result, engine, procs, moves, left, loop, stop, cancelled, counters>>

\* The loop condition, and the wait that ends with a wake-up or after five seconds.
DispatchLoop ==
    /\ dispatcher # "ended"
    /\ dispatcher' = IF Stopped THEN "ended" ELSE IF dispatcher = "waiting" THEN "dispatching" ELSE "waiting"
    /\ UNCHANGED <<row, run, result, engine, procs, moves, left, loop, stop, cancelled, counters>>

\* A pass of the pin or retry loop requeues one more row.
Requeue(j) ==
    /\ loop # "ended" /\ requeues < MaxRequeues /\ row[j] \in {"done", "error"}
    /\ row' = [row EXCEPT ![j] = "queued"]
    /\ requeues' = requeues + 1
    /\ loop' = "updating"
    /\ UNCHANGED <<run, result, engine, procs, moves, left, dispatcher, stop, cancelled, stops>>

EndPass ==
    /\ loop = "updating"
    /\ loop' = "sleeping"
    /\ UNCHANGED <<row, run, result, engine, procs, moves, left, dispatcher, stop, cancelled, counters>>

-----------------------------------------------------------------------------
(* A run                                                                   *)

At(j, phase) == run' = [run EXCEPT ![j] = phase]

\* The row becomes active; the two probes are tasks of their own that stop() knows
\* nothing of (a probe that is not wanted ends at once).
Activate(j) ==
    /\ run[j] = "starting" /\ j \notin cancelled
    /\ row' = [row EXCEPT ![j] = "active"]
    /\ probes' = probes \cup {j}
    /\ result' = [result EXCEPT ![j] = "none"]
    /\ At(j, "spawning")
    /\ UNCHANGED <<engine, procs, moves, signalled, dispatcher, loop, stop, cancelled, counters>>

Spawn(j) ==
    /\ run[j] = "spawning" /\ j \notin cancelled
    /\ engine' = engine \cup {j} /\ procs' = procs \cup {j}
    /\ At(j, "downloading")
    /\ UNCHANGED <<row, result, moves, left, dispatcher, loop, stop, cancelled, counters>>

\* The process ends by itself; whoever reads its output sees the end of it.
EngineExit(j) ==
    /\ j \in engine
    /\ engine' = engine \ {j}
    /\ \E r \in {"done", "error"} : result' = [result EXCEPT ![j] = r]
    /\ UNCHANGED <<row, run, procs, moves, left, dispatcher, loop, stop, cancelled, counters>>

\* A probe or a signalled download ends.
LeftExit(j) ==
    /\ \/ j \in probes /\ probes' = probes \ {j} /\ UNCHANGED signalled
       \/ j \in signalled /\ signalled' = signalled \ {j} /\ UNCHANGED probes
    /\ UNCHANGED <<row, run, result, engine, procs, moves, dispatcher, loop, stop, cancelled, counters>>

MoveEnds(j) ==
    /\ j \in moves
    /\ moves' = moves \ {j}
    /\ UNCHANGED <<row, run, result, engine, procs, left, dispatcher, loop, stop, cancelled, counters>>

\* download() leaves its loop at the end of the process, with a CancelledError or with
\* an exception of its own (a line too long to read); its finally waits for the end of
\* stderr, which is the end of the process.
LeaveLoop(j) ==
    /\ run[j] = "downloading"
    /\ \/ j \notin engine /\ j \notin cancelled /\ At(j, "draining") /\ UNCHANGED cancelled
       \/ j \in cancelled /\ At(j, "unwinding") /\ cancelled' = cancelled \ {j}
       \/ j \notin cancelled /\ At(j, "failing") /\ UNCHANGED cancelled
    /\ UNCHANGED <<row, result, engine, procs, moves, left, dispatcher, loop, stop, counters>>

\* _procs.pop, and where the exit of the loop leads: to the move of what a successful
\* download has staged, to the verdict of a failed one, or into an except clause.
Drained(j) ==
    /\ run[j] \in {"draining", "unwinding", "failing"} /\ j \notin engine /\ j \notin cancelled
    /\ procs' = procs \ {j}
    /\ \/ run[j] = "unwinding" /\ At(j, "raised") /\ UNCHANGED moves
       \/ run[j] = "failing" /\ At(j, "failed") /\ UNCHANGED moves
       \/ run[j] = "draining" /\ result[j] = "error" /\ At(j, "verdict") /\ UNCHANGED moves
       \/ run[j] = "draining" /\ result[j] = "done" /\ At(j, "moving") /\ moves' = moves \cup {j}
    /\ UNCHANGED <<row, result, engine, left, dispatcher, loop, stop, cancelled, counters>>

\* Variant of Moved for mutation: the move is started and not awaited.
MoveInBackground(j) ==
    /\ run[j] = "moving" /\ j \notin cancelled
    /\ At(j, "verdict")
    /\ UNCHANGED <<row, result, engine, procs, moves, left, dispatcher, loop, stop, cancelled, counters>>

Moved(j) ==
    /\ run[j] = "moving" /\ j \notin moves /\ j \notin cancelled
    /\ At(j, "verdict")
    /\ UNCHANGED <<row, result, engine, procs, moves, left, dispatcher, loop, stop, cancelled, counters>>

\* mkdir or the spawn, a move or rename in its thread, or a statement after it raises.
Fail(j) ==
    /\ \/ run[j] \in {"starting", "spawning", "verdict"}
       \/ run[j] = "moving" /\ j \notin moves
    /\ j \notin cancelled
    /\ At(j, "failed")
    /\ UNCHANGED <<row, result, engine, procs, moves, left, dispatcher, loop, stop, cancelled, counters>>

Ended(j) ==
    /\ At(j, "none")
    /\ cancelled' = cancelled \ {j}

Verdict(j) ==
    /\ run[j] = "verdict" /\ j \notin cancelled
    /\ row' = [row EXCEPT ![j] = result[j]]
    /\ Ended(j)
    /\ UNCHANGED <<result, engine, procs, moves, left, dispatcher, loop, stop, counters>>

\* except Exception: whatever the engine has said, the row becomes an error.
HandleException(j) ==
    /\ run[j] = "failed" /\ j \notin cancelled
    /\ row' = [row EXCEPT ![j] = "error"]
    /\ Ended(j)
    /\ UNCHANGED <<result, engine, procs, moves, left, dispatcher, loop, stop, counters>>

\* A run meets its cancellation at any other await: in a statement, which may be
\* executed all the same, in the wait for stderr, which leaves the process in _procs, or
\* in the wait for a move, whose thread goes on.
Raise(j) ==
    /\ run[j] \notin {"none", "downloading", "raised"} /\ j \in cancelled
    /\ \/ UNCHANGED row
       \/ run[j] = "starting" /\ row' = [row EXCEPT ![j] = "active"]
       \/ run[j] = "verdict" /\ row' = [row EXCEPT ![j] = result[j]]
       \/ run[j] = "failed" /\ row' = [row EXCEPT ![j] = "error"]
    /\ At(j, "raised")
    /\ cancelled' = cancelled \ {j}
    /\ UNCHANGED <<result, engine, procs, moves, left, dispatcher, loop, stop, counters>>

\* except CancelledError: cancel_job signals a process that is still in _procs; nobody
\* waits for it, and the row is left as it is.
HandleCancelled(j) ==
    /\ run[j] = "raised"
    /\ engine' = engine \ (procs \cap {j})
    /\ signalled' = signalled \cup (engine \cap procs \cap {j})
    /\ Ended(j)
    /\ UNCHANGED <<row, result, procs, probes, moves, dispatcher, loop, stop, counters>>

-----------------------------------------------------------------------------
(* stop, close, and the next start                                         *)

Goto(next) == stop' = next

Stop ==
    /\ stop = "up" /\ stops < MaxStops
    /\ Goto("loops")
    /\ stops' = stops + 1
    /\ UNCHANGED <<row, run, result, engine, procs, moves, left, dispatcher, loop, cancelled, requeues>>

\* The background tasks are cancelled and awaited.
CancelLoops ==
    /\ stop = "loops"
    /\ loop' = "ended"
    /\ Goto("dispatcher")
    /\ UNCHANGED <<row, run, result, engine, procs, moves, left, dispatcher, cancelled, counters>>

\* Variant of AwaitDispatcher for mutation: the loop task is not awaited.
SkipDispatcher ==
    /\ stop = "dispatcher"
    /\ Goto("runs")
    /\ UNCHANGED <<row, run, result, engine, procs, moves, left, dispatcher, loop, cancelled, counters>>

AwaitDispatcher ==
    /\ stop = "dispatcher" /\ dispatcher = "ended"
    /\ Goto("runs")
    /\ UNCHANGED <<row, run, result, engine, procs, moves, left, dispatcher, loop, cancelled, counters>>

CancelRuns ==
    /\ stop = "runs"
    /\ cancelled' = Running
    /\ Goto("gather")
    /\ UNCHANGED <<row, run, result, engine, procs, moves, left, dispatcher, loop, counters>>

\* gather returns when the last run has ended; the database is closed.
Close ==
    /\ stop = "gather" /\ Running = {}
    /\ Goto("closed")
    /\ UNCHANGED <<row, run, result, engine, procs, moves, left, dispatcher, loop, cancelled, counters>>

\* Variant of Start for mutation: interrupted rows stay active.
StartOnly ==
    /\ stop = "closed" /\ moves = {}
    /\ procs' = {}
    /\ dispatcher' = "dispatching" /\ loop' = "sleeping"
    /\ Goto("up")
    /\ UNCHANGED <<row, run, result, engine, moves, left, cancelled, counters>>

\* The old process has ended, and its threads with it; requeue_interrupted, then the
\* tasks.
Start ==
    /\ stop = "closed" /\ moves = {}
    /\ row' = [j \in Jobs |-> IF row[j] = "active" THEN "queued" ELSE row[j]]
    /\ procs' = {}
    /\ dispatcher' = "dispatching" /\ loop' = "sleeping"
    /\ Goto("up")
    /\ UNCHANGED <<run, result, engine, moves, left, cancelled, counters>>

RunStep(j) ==
    \/ Activate(j) \/ Spawn(j) \/ LeaveLoop(j) \/ Drained(j) \/ Moved(j) \/ Verdict(j)
    \/ Fail(j) \/ HandleException(j) \/ Raise(j) \/ HandleCancelled(j)
StopStep == CancelLoops \/ AwaitDispatcher \/ CancelRuns \/ Close \/ Start

Next ==
    \/ \E j \in Jobs : Dispatch(j) \/ Requeue(j) \/ RunStep(j)
    \/ \E j \in Jobs : EngineExit(j) \/ LeftExit(j) \/ MoveEnds(j)
    \/ DispatchLoop \/ EndPass \/ Stop \/ StopStep

Spec == Init /\ [][Next]_vars

\* The event loop runs every task that can run, and the dispatcher comes back to its
\* queue; Stop is the operator's.
ProgramFairness ==
    /\ \A j \in Jobs : WF_vars(RunStep(j)) /\ SF_vars(Dispatch(j))
    /\ WF_vars(DispatchLoop) /\ WF_vars(StopStep)
ProgramSpec == Spec /\ ProgramFairness

\* A download and a move end in the end; a probe or a process that was signalled need not.
FairSpec == ProgramSpec /\ \A j \in Jobs : WF_vars(EngineExit(j)) /\ WF_vars(MoveEnds(j))

-----------------------------------------------------------------------------
(* Properties                                                              *)

\* When stop() has returned no run is left, no dispatcher that could start one, no loop
\* that could write a row, and no download but one that was signalled.  A move may go on
\* in its thread, but only of a row that the next start requeues: none that is done,
\* failed or queued has files on the move.  (Probes go on as well.)
NothingOutlivesStop ==
    stop = "closed" => /\ Running = {} /\ engine = {} /\ cancelled = {}
                       /\ dispatcher = "ended" /\ loop = "ended"
                       /\ \A j \in moves : row[j] = "active"

\* A row is done only if its download has succeeded and no thread moves its files any
\* more; it fails only if the download has failed or the run has raised an exception,
\* and never because it was cancelled.
VerdictIsEarned ==
    [][\A j \in Jobs : row'[j] # row[j] =>
         /\ row'[j] = "done" => result[j] = "done" /\ j \notin moves
         /\ row'[j] = "error" => result[j] = "error" \/ run[j] = "failed"]_vars

\* stop() returns.
StopReturns == stop # "up" ~> stop = "closed"

\* Jobs active or queued when the service stops are completed by the next instance.
WorkResumes == \A j \in Jobs : []<>(row[j] \in {"done", "error"})
=============================================================================
