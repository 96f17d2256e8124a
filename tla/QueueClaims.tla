----------------------------- MODULE QueueClaims -----------------------------
(***************************************************************************)
(* What comments and docstrings of worker.py and api.py say of the queue   *)
(* and the code does not keep.  Each is the property of one run of its     *)
(* own, which finds an execution that breaks it.                           *)
(***************************************************************************)
EXTENDS MCJobQueue

\* worker.py:448 "A pause/cancel that raced the finish wins over the engine
\* result."  The row is read once; a stop written after that read, while the
\* files are being moved, is overwritten by done.
RacedStopWins ==
    [][\A j \in InState(table, {"paused", "cancelled"}) : table'[j].state # "done"]_vars

\* api.py:118 "partial files remain; resume re-runs with skip-existing".  A job
\* resumed before its killed process is reaped is not run again: the old task
\* finds it queued and makes its own result the verdict.
ResumedJobRunsAgain ==
    [][\A j \in InState(table, {"queued"}) :
        run[j] \in {"succeeded", "failed"} => run'[j] \notin {"landing", "failing"}]_vars

\* api.py:345 "No engine process is writing; safe to drop staged partials now."
\* The row said paused, the process that was signalled may still be alive.
CancelDropsIdleStaging ==
    \A c \in Clients :
        (req[c].step = "after" /\ req[c].op = "cancel" /\ req[c].seen = "paused")
        => \A j \in req[c].jobs : run[j] \notin Downloading

\* api.py:321 "Each removed job's staging leftovers are cleaned up too."  A job
\* cancelled before its process was registered keeps downloading; if its row is
\* cleared meanwhile nobody is left to remove what it stages.
NoOrphanStaging ==
    \A j \in stage :
        \/ table[j].state # "absent"
        \/ run[j] # "idle"
        \/ \E c \in Clients : j \in req[c].jobs

\* worker.py:262 "each pass moves all unpinned ERROR jobs back to QUEUED".  The
\* first job whose URL is open in another row ends the pass with an exception;
\* the jobs after it stay in error though nothing is in their way.
RetryPassMovesAll ==
    [][(retryLeft # {} /\ retryLeft' = {} /\ up')
       => \A j \in retryLeft : j \in FailedUnpinned(table') => Conflict(table', j, "queued")]_vars

\* api.py:321 "Active, queued, and paused jobs are untouched."  The staging removed
\* is that of the jobs the SELECT listed; one retried by then, or marked
\* active by a task that had started before the cancel, loses what it downloads.
ClearLeavesOthersStaging ==
    [][\A c \in Clients :
        (req[c].op = "clear" /\ AfterWrite(c))
        => \A j \in InState(table, OpenStates) : j \in stage => j \in stage']_vars

\* worker.py:393 "Start every queued job whose slots are free".  The pass looks at
\* the first DispatchLimit rows only; when none of these has a free slot, a job
\* behind them waits though its own slots are free.
EveryFreeSlotIsUsed ==
    InState(table, {"queued"}) \cap Running = {} =>
        \A j \in InState(table, {"queued"}) :
            (up /\ globalFree > 0 /\ hostFree[HostIn(table, j)] > 0)
            => \E k \in Ids : Startable(k)
=============================================================================
