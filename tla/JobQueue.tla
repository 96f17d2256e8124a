------------------------------ MODULE JobQueue ------------------------------
(***************************************************************************)
(* The download queue: the HTTP handlers of api.py that move jobs, the     *)
(* WorkerPool of worker.py that runs them, and the gallery-dl processes    *)
(* engine.py starts.                                                       *)
(*                                                                         *)
(* Everything runs on one asyncio loop, so a stretch of code between two   *)
(* awaits is one step.  Each statement sent to SQLite is one step too      *)
(* (aiosqlite runs them one at a time, in order).  A handler that reads a  *)
(* row and then updates it is therefore two steps, and anything may happen *)
(* between them; so may anything between the update and what the handler   *)
(* does in memory afterwards.                                              *)
(*                                                                         *)
(* One pass of the dispatcher lists the queued rows and then starts jobs   *)
(* without another await.  The model starts one job per step, reading the  *)
(* table at that step: a change made to a row after the list and before    *)
(* the start commutes with the start, which touches memory only.           *)
(***************************************************************************)
EXTENDS JobTable

CONSTANTS
    Clients,        \* bound: requests in progress at a time
    Ops,            \* the operations clients use in a run
    MaxConcurrent,  \* downloads.max_concurrent
    MaxPerHost,     \* downloads.max_per_host
    AutoRetry,      \* downloads.auto_retry
    RaisingPhases,  \* bound: where an exception may end a task
    MayCrash        \* bound: whether the process may die

AllOps == {"submit", "pause", "resume", "retry", "pin", "unpin", "cancel",
           "delete", "clear"}

ASSUME PoolAssumption ==
    /\ Ops \subseteq AllOps
    /\ MaxConcurrent \in Nat \ {0}
    /\ MaxPerHost \in Nat \ {0}
    /\ AutoRetry \in BOOLEAN
    /\ MayCrash \in BOOLEAN
    /\ RaisingPhases \subseteq {"active", "downloading", "killed", "landing", "landed"}

VARIABLES
    table,       \* the jobs table; survives a crash
    nextId,      \* the AUTOINCREMENT counter; survives a crash
    stage,       \* jobs with a directory under incomplete_dir; survives a crash
    up,          \* the process is serving
    run,         \* WorkerPool._running: how far each job's _run_job task is
    globalFree,  \* WorkerPool._global_sem
    hostFree,    \* WorkerPool._host_sems
    req,         \* the request each client has in progress
    retryLeft,   \* rows the auto-retry pass in progress has yet to requeue
    pinLeft      \* rows the pin-recheck pass in progress has yet to requeue

vars == <<table, nextId, stage, up, run, globalFree, hostFree, req, retryLeft, pinLeft>>
slots == <<globalFree, hostFree>>
passes == <<retryLeft, pinLeft>>

(***************************************************************************)
(* Phases of a _run_job task, named for what has happened so far:          *)
(*   starting     task created, row not yet marked active                  *)
(*   active       row marked active, no engine process registered yet      *)
(*   downloading  engine process registered in _procs                      *)
(*   killed       the same, and SIGTERM has been sent                      *)
(*   succeeded, failed   process gone, result not yet weighed              *)
(*   landing      success accepted, staged files still to be moved         *)
(*   landed       files moved, verdict still to be written                 *)
(*   failing      error to be written                                      *)
(*   leaving      task over but for its finally clause                     *)
(***************************************************************************)
Downloading == {"downloading", "killed"}
MarkedActive == Downloading \cup
    {"active", "succeeded", "failed", "landing", "landed", "failing"}
Phase == MarkedActive \cup {"idle", "starting", "leaving"}

NoRequest == [op |-> "none", jobs |-> {}, seen |-> "absent", step |-> "none"]

Request == [op : AllOps \cup {"none"}, jobs : SUBSET Ids,
            seen : JobState \cup {"absent"}, step : {"none", "write", "after"}]

\* The states from which each handler proceeds; it answers 409 from the others.
Accepts ==
    [op \in {"pause", "resume", "retry", "pin", "unpin", "cancel", "delete"} |->
        CASE op = "pause"  -> {"queued", "active"}
          [] op = "resume" -> {"paused"}
          [] op = "retry"  -> {"error", "cancelled", "done"}
          [] op = "pin"    -> JobState \ {"cancelled"}
          [] op = "unpin"  -> JobState
          [] op = "cancel" -> OpenStates
          [] op = "delete" -> JobState \ OpenStates]

\* The state each handler writes.
Target == [op \in {"pause", "resume", "retry", "cancel"} |->
              CASE op = "pause"  -> "paused"
                [] op = "cancel" -> "cancelled"
                [] OTHER         -> "queued"]

Running == {j \in Ids : run[j] # "idle"}
HostIn(t, j) == HostOf[t[j].url]

Init ==
    /\ table = EmptyTable
    /\ nextId = 1
    /\ stage = {}
    /\ up = TRUE
    /\ run = [j \in Ids |-> "idle"]
    /\ globalFree = MaxConcurrent
    /\ hostFree = [h \in Hosts |-> MaxPerHost]
    /\ req = [c \in Clients |-> NoRequest]
    /\ retryLeft = {}
    /\ pinLeft = {}

-----------------------------------------------------------------------------
(* HTTP handlers.                                                          *)

\* submit, for one URL: create_job; nothing changes when the URL is open.
Submit(u) ==
    /\ up /\ "submit" \in Ops
    /\ nextId \in Ids
    /\ ~UrlOpen(table, u)
    /\ table' = Insert(table, nextId, u)
    /\ nextId' = nextId + 1
    /\ UNCHANGED <<stage, up, run, slots, req, passes>>

\* A handler's _get_job_or_404 and the check of the state it finds.
ReadJob(c, op, j) ==
    /\ up /\ op \in Ops /\ req[c] = NoRequest
    /\ table[j].state \in Accepts[op]
    /\ req' = [req EXCEPT ![c] =
                  [op |-> op, jobs |-> {j}, seen |-> table[j].state, step |-> "write"]]
    /\ UNCHANGED <<table, nextId, stage, up, run, slots, passes>>

\* clear_finished: the SELECT of delete_finished_unpinned.
ReadFinished(c) ==
    /\ up /\ "clear" \in Ops /\ req[c] = NoRequest
    /\ FinishedUnpinned(table) # {}
    /\ req' = [req EXCEPT ![c] =
                  [op |-> "clear", jobs |-> FinishedUnpinned(table),
                   seen |-> "absent", step |-> "write"]]
    /\ UNCHANGED <<table, nextId, stage, up, run, slots, passes>>

\* pause, resume, retry and cancel write the new state whatever the row holds by
\* now; an IntegrityError from the unique index ends the request with a 500.
WriteState(c) ==
    /\ req[c].step = "write" /\ req[c].op \in DOMAIN Target
    /\ \E j \in req[c].jobs :
        LET s == Target[req[c].op]
        IN  \/ /\ Conflict(table, j, s)
               /\ req' = [req EXCEPT ![c] = NoRequest]
               /\ UNCHANGED table
            \/ /\ ~Conflict(table, j, s)
               /\ table' = SetState(table, j, s)
               /\ req' = [req EXCEPT ![c] = IF req[c].op \in {"pause", "cancel"}
                                            THEN [@ EXCEPT !.step = "after"]
                                            ELSE NoRequest]
    /\ UNCHANGED <<nextId, stage, up, run, slots, passes>>

WritePinned(c) ==
    /\ req[c].step = "write" /\ req[c].op \in {"pin", "unpin"}
    /\ \E j \in req[c].jobs : table' = SetPinned(table, j, req[c].op = "pin")
    /\ req' = [req EXCEPT ![c] = NoRequest]
    /\ UNCHANGED <<nextId, stage, up, run, slots, passes>>

\* cancel of a terminal job deletes its row.  clear_finished deletes what its
\* condition matches at the DELETE, not the ids its SELECT returned.
WriteDelete(c) ==
    /\ req[c].step = "write" /\ req[c].op \in {"delete", "clear"}
    /\ table' = DeleteRows(table, IF req[c].op = "clear"
                                  THEN FinishedUnpinned(table) ELSE req[c].jobs)
    /\ req' = [req EXCEPT ![c].step = "after"]
    /\ UNCHANGED <<nextId, stage, up, run, slots, passes>>

\* WorkerPool.cancel_job: SIGTERM, if a process is registered and running.
Kill(J) ==
    run' = [j \in Ids |-> IF j \in J /\ run[j] = "downloading"
                          THEN "killed" ELSE run[j]]

\* cancel leaves the staging directory to the worker if it saw the job active.
DropsStaging(r) ==
    \/ r.op \in {"delete", "clear"}
    \/ r.op = "cancel" /\ r.seen # "active"

\* What a handler does in memory and on disk once its update has returned.
AfterWrite(c) ==
    /\ req[c].step = "after"
    /\ Kill(IF req[c].op \in {"pause", "cancel"} THEN req[c].jobs ELSE {})
    /\ stage' = IF DropsStaging(req[c]) THEN stage \ req[c].jobs ELSE stage
    /\ req' = [req EXCEPT ![c] = NoRequest]
    /\ UNCHANGED <<table, nextId, up, slots, passes>>

-----------------------------------------------------------------------------
(* The dispatcher and the _run_job tasks.                                  *)

\* Variants of Startable for mutation: one of the two limits forgotten.
IgnoresGlobalLimit(j) ==
    j \in Window(table) \ Running /\ hostFree[HostIn(table, j)] > 0
IgnoresHostLimit(j) ==
    j \in Window(table) \ Running /\ globalFree > 0

Startable(j) ==
    /\ j \in Window(table) \ Running
    /\ globalFree > 0
    /\ hostFree[HostIn(table, j)] > 0

\* One turn of _dispatch_ready's loop: the first row in list order whose slots
\* are free.
Start(j) ==
    /\ up /\ Startable(j)
    /\ \A k \in Ids : Startable(k) => ~Precedes(table, k, j)
    /\ run' = [run EXCEPT ![j] = "starting"]
    /\ globalFree' = globalFree - 1
    /\ hostFree' = [hostFree EXCEPT ![HostIn(table, j)] = @ - 1]
    /\ UNCHANGED <<table, nextId, stage, up, req, passes>>

Advance(j, from, to) ==
    /\ run[j] \in from
    /\ run' = [run EXCEPT ![j] = to]
    /\ UNCHANGED <<nextId, up, slots, req, passes>>

\* set_state(ACTIVE), whatever the row holds by now.
MarkActive(j) ==
    \/ /\ ~Conflict(table, j, "active")
       /\ Advance(j, {"starting"}, "active")
       /\ table' = SetState(table, j, "active")
       /\ UNCHANGED stage
    \/ /\ Conflict(table, j, "active")
       /\ Advance(j, {"starting"}, "failing")
       /\ UNCHANGED <<table, stage>>

\* engine.download up to _procs[job_id] = proc; it makes the staging directory.
Spawn(j) ==
    /\ Advance(j, {"active"}, "downloading")
    /\ stage' = stage \cup {j}
    /\ UNCHANGED table

\* gallery-dl saves a file, making the directory again if it was removed.
EngineWrites(j) ==
    /\ run[j] \in Downloading
    /\ stage' = stage \cup {j}
    /\ UNCHANGED <<table, nextId, up, run, slots, req, passes>>

\* gallery-dl exits and download() returns; a process that was sent SIGTERM may
\* have finished its work before the signal reached it.
EngineExit(j) ==
    /\ \E result \in {"succeeded", "failed"} : Advance(j, Downloading, result)
    /\ UNCHANGED <<table, stage>>

\* Variant of CheckResult for mutation: no verdict is written for a failed run.
CheckDropsFailure(j) ==
    /\ \/ table[j].state \in {"paused", "cancelled"}
          /\ Advance(j, {"succeeded", "failed"}, "leaving")
       \/ table[j].state \notin {"paused", "cancelled"}
          /\ Advance(j, {"succeeded"}, "landing")
       \/ Advance(j, {"failed"}, "leaving")
    /\ UNCHANGED <<table, stage>>

\* Variant of CheckResult for mutation: a paused job's staging is removed too.
CheckDropsPaused(j) ==
    \/ /\ table[j].state \in {"paused", "cancelled"}
       /\ Advance(j, {"succeeded", "failed"}, "leaving")
       /\ stage' = stage \ {j}
       /\ UNCHANGED table
    \/ /\ table[j].state \notin {"paused", "cancelled"}
       /\ \/ Advance(j, {"succeeded"}, "landing")
          \/ Advance(j, {"failed"}, "failing")
       /\ UNCHANGED <<table, stage>>

\* "A pause/cancel that raced the finish wins over the engine result."
CheckResult(j) ==
    \/ /\ table[j].state \in {"paused", "cancelled"}
       /\ Advance(j, {"succeeded", "failed"}, "leaving")
       /\ stage' = IF table[j].state = "cancelled" THEN stage \ {j} ELSE stage
       /\ UNCHANGED table
    \/ /\ table[j].state \notin {"paused", "cancelled"}
       /\ \/ Advance(j, {"succeeded"}, "landing")
          \/ Advance(j, {"failed"}, "failing")
       /\ UNCHANGED <<table, stage>>

\* _move_tree(stage, final_dest), when there is a staging directory to move.
Land(j) ==
    /\ Advance(j, {"landing"}, "landed")
    /\ stage' = stage \ {j}
    /\ UNCHANGED table

\* Any of mkdir, spawn, the reading of gallery-dl's output, move and rename raises:
\* the except clause takes over, once the process is gone if there is one.  A spawn
\* that raises leaves the staging directory mkdir made.
StepRaises(j) ==
    /\ Advance(j, RaisingPhases, "failing")
    /\ \/ UNCHANGED stage
       \/ run[j] = "active" /\ stage' = stage \cup {j}
    /\ UNCHANGED table

\* Variant of WriteVerdict for mutation: done is written before the files move.
VerdictBeforeMove(j) ==
    \/ /\ Advance(j, {"landing"}, "leaving")
       /\ table' = SetState(table, j, "done")
       /\ UNCHANGED stage
    \/ /\ Advance(j, {"failing"}, "leaving")
       /\ table' = SetState(table, j, "error")
       /\ UNCHANGED stage

\* The verdict, written whatever the row holds by now.
WriteVerdict(j) ==
    \/ /\ Advance(j, {"landed"}, "leaving")
       /\ table' = SetState(table, j, "done")
       /\ UNCHANGED stage
    \/ /\ Advance(j, {"failing"}, "leaving")
       /\ table' = SetState(table, j, "error")
       /\ UNCHANGED stage

\* Variants of Release for mutation: the host semaphore kept; the global one
\* released twice; a cancelled job's early return that skips the release.
ReleaseGlobalOnly(j) ==
    /\ run[j] = "leaving"
    /\ run' = [run EXCEPT ![j] = "idle"]
    /\ globalFree' = globalFree + 1
    /\ UNCHANGED <<table, nextId, stage, up, hostFree, req, passes>>
ReleaseTwice(j) ==
    /\ run[j] = "leaving"
    /\ run' = [run EXCEPT ![j] = "idle"]
    /\ globalFree' = globalFree + 2
    /\ hostFree' = [hostFree EXCEPT ![HostIn(table, j)] = @ + 1]
    /\ UNCHANGED <<table, nextId, stage, up, req, passes>>
ReleaseUnlessCancelled(j) ==
    /\ run[j] = "leaving" /\ table[j].state # "cancelled"
    /\ run' = [run EXCEPT ![j] = "idle"]
    /\ globalFree' = globalFree + 1
    /\ hostFree' = [hostFree EXCEPT ![HostIn(table, j)] = @ + 1]
    /\ UNCHANGED <<table, nextId, stage, up, req, passes>>

\* The finally clause.
Release(j) ==
    /\ run[j] = "leaving"
    /\ run' = [run EXCEPT ![j] = "idle"]
    /\ globalFree' = globalFree + 1
    /\ hostFree' = [hostFree EXCEPT ![HostIn(table, j)] = @ + 1]
    /\ UNCHANGED <<table, nextId, stage, up, req, passes>>

-----------------------------------------------------------------------------
(* The maintenance loops: a snapshot, then one update per row of it.       *)

RetryScan ==
    /\ up /\ AutoRetry /\ retryLeft = {}
    /\ retryLeft' = FailedUnpinned(table)
    /\ UNCHANGED <<table, nextId, stage, up, run, slots, req, pinLeft>>

\* In id order.  An IntegrityError ends the whole pass.
RetryNext ==
    /\ \E j \in retryLeft :
        /\ \A k \in retryLeft : j <= k
        /\ \/ /\ Conflict(table, j, "queued")
              /\ retryLeft' = {}
              /\ UNCHANGED table
           \/ /\ ~Conflict(table, j, "queued")
              /\ table' = SetState(table, j, "queued")
              /\ retryLeft' = retryLeft \ {j}
    /\ UNCHANGED <<nextId, stage, up, run, slots, req, pinLeft>>

\* The rows whose last run is old enough; any pinned row at rest may be.
PinScan ==
    /\ up /\ pinLeft = {}
    /\ pinLeft' \in SUBSET PinnedAtRest(table)
    /\ UNCHANGED <<table, nextId, stage, up, run, slots, req, retryLeft>>

\* In no stated order.  An IntegrityError ends the whole pass.
PinNext ==
    /\ \E j \in pinLeft :
        \/ /\ Conflict(table, j, "queued")
           /\ pinLeft' = {}
           /\ UNCHANGED table
        \/ /\ ~Conflict(table, j, "queued")
           /\ table' = SetState(table, j, "queued")
           /\ pinLeft' = pinLeft \ {j}
    /\ UNCHANGED <<nextId, stage, up, run, slots, req, retryLeft>>

-----------------------------------------------------------------------------
(* The process dies, engines with it; what is in memory is lost.           *)

Crash ==
    /\ up /\ MayCrash
    /\ up' = FALSE
    /\ run' = [j \in Ids |-> "idle"]
    /\ globalFree' = MaxConcurrent
    /\ hostFree' = [h \in Hosts |-> MaxPerHost]
    /\ req' = [c \in Clients |-> NoRequest]
    /\ retryLeft' = {}
    /\ pinLeft' = {}
    /\ UNCHANGED <<table, nextId, stage>>

\* lifespan: workers.start() requeues before the API serves.
Restart ==
    /\ ~up
    /\ up' = TRUE
    /\ table' = RequeueInterrupted(table)
    /\ UNCHANGED <<nextId, stage, run, slots, req, passes>>

-----------------------------------------------------------------------------
RequestStep(c) == WriteState(c) \/ WritePinned(c) \/ WriteDelete(c) \/ AfterWrite(c)

TaskStep(j) ==
    \/ MarkActive(j) \/ Spawn(j) \/ CheckResult(j) \/ Land(j) \/ WriteVerdict(j)
    \/ Release(j)

Dispatch == \E j \in Ids : Start(j)

\* Work already under way.
Proceed ==
    \/ \E c \in Clients : RequestStep(c)
    \/ \E j \in Ids : TaskStep(j) \/ EngineWrites(j) \/ EngineExit(j) \/ StepRaises(j)
    \/ Dispatch
    \/ RetryNext
    \/ PinNext
    \/ Restart

\* New work, and faults.
Disturb ==
    \/ \E u \in Urls : Submit(u)
    \/ \E c \in Clients, j \in Ids, op \in DOMAIN Accepts : ReadJob(c, op, j)
    \/ \E c \in Clients : ReadFinished(c)
    \/ RetryScan
    \/ PinScan
    \/ Crash

Next == Proceed \/ Disturb

Spec == Init /\ [][Next]_vars

\* The loop runs every ready coroutine, the dispatcher polls, a container that
\* died is started again.
Fairness ==
    /\ \A c \in Clients : WF_vars(RequestStep(c))
    /\ \A j \in Ids : WF_vars(TaskStep(j))
    /\ WF_vars(Dispatch)
    /\ WF_vars(RetryNext)
    /\ WF_vars(PinNext)
    /\ WF_vars(Restart)

\* Assumption on gallery-dl: SIGTERM ends it.
KilledEnginesExit == \A j \in Ids : WF_vars(run[j] = "killed" /\ EngineExit(j))

\* Left alone it ends too (its own timeouts and retries): a premise of some properties.
EnginesExit == \A j \in Ids : WF_vars(EngineExit(j))

FairSpec == Spec /\ Fairness /\ KilledEnginesExit

-----------------------------------------------------------------------------
(* Properties.                                                             *)

\* Every variable holds what its comment says.
TypeOK ==
    /\ table \in Table
    /\ nextId \in 1..(MaxJobs + 1)
    /\ stage \subseteq Ids
    /\ up \in BOOLEAN
    /\ run \in [Ids -> Phase]
    /\ globalFree \in 0..MaxConcurrent
    /\ hostFree \in [Hosts -> 0..MaxPerHost]
    /\ req \in [Clients -> Request]
    /\ retryLeft \subseteq Ids
    /\ pinLeft \subseteq Ids

\* Each semaphore counts exactly the tasks that do not hold it: no path out of
\* _run_job (a lost race with pause, an exception, a deleted row) leaks a slot
\* or gives one back twice.
SlotsAccounted ==
    /\ globalFree + Cardinality(Running) = MaxConcurrent
    /\ \A h \in Hosts :
        hostFree[h] + Cardinality({j \in Running : HostIn(table, j) = h}) = MaxPerHost

\* The dispatcher starts queued rows only, so a row left active by nobody would
\* never move again: while the process serves, every active row has a task that
\* has yet to write its verdict.
NoStrandedActive ==
    up => \A j \in InState(table, {"active"}) : run[j] \in MarkedActive

\* A job in state done has nothing left under incomplete_dir, whatever raced its
\* completion: its files are all under dest, and no staging directory leaks.
DoneHasNoStaging == \A j \in InState(table, {"done"}) : j \notin stage

\* A paused or cancelled job whose task is over moves only at a user's request:
\* not the dispatcher, not the maintenance loops, not requeue_interrupted wakes
\* it (a pass that listed it before it was stopped excepted).
StopsStick ==
    [][\A j \in InState(table, {"paused", "cancelled"}) :
        (run[j] = "idle" /\ j \notin retryLeft \cup pinLeft
            /\ table'[j].state # table[j].state)
        => \E c \in Clients :
            req[c].step = "write" /\ (j \in req[c].jobs \/ req[c].op = "clear")]_vars

\* What a queued, active or paused job has staged stays for its next run to go on
\* from, over stops, exceptions, crashes, restarts and requests aimed at other jobs.
\* Only the move of its success takes it away, or a request that cancelled the job
\* or listed it as finished before someone reopened it.
PartialsStay ==
    [][\A j \in InState(table, OpenStates) \cap stage :
        j \notin stage' =>
            \/ run[j] = "landing"
            \/ \E c \in Clients :
                  /\ req[c].step = "after" /\ req[c].op \in {"cancel", "clear"}
                  /\ j \in req[c].jobs]_vars

\* The host slot each job's task holds.
HeldSlot ==
    [j \in Ids |-> IF run[j] = "idle" THEN {} ELSE {HostIn(table, j)}]

\* The pool keeps the promise of SlotPool: a slot is taken only within both limits
\* and given back once.
Pool == INSTANCE SlotPool WITH Jobs <- Ids, slot <- HeldSlot
PoolSpec == Pool!Spec

\* And, if engine processes end of themselves, every slot comes back.
SlotsComeBack == EnginesExit => Pool!SlotsComeBack

\* Once no request, maintenance pass or crash comes any more, the queue drains:
\* every job comes to rest with no task, so none is lost in queued or active, on
\* any path, restarts included.
AtRest == \A j \in Ids : run[j] = "idle" /\ table[j].state \notin {"queued", "active"}
Settles == EnginesExit /\ <>[][Proceed]_vars => <>[]AtRest

\* pause and cancel free the slots of a download whose process they signalled,
\* however long gallery-dl would have gone on.
KilledRunsEnd == \A j \in Ids : run[j] = "killed" ~> run[j] = "idle"
=============================================================================
