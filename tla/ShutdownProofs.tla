--------------------------- MODULE ShutdownProofs ---------------------------
(* A stop leaves nothing behind, and a cancelled run gets no verdict.      *)
EXTENDS Shutdown, TLAPS

RowStates == {"queued", "active", "done", "error"}
Phases == {"none", "starting", "spawning", "downloading", "draining", "unwinding", "failing",
           "moving", "verdict", "raised", "failed"}
Results == {"none", "done", "error"}
StopPhases == {"up", "loops", "dispatcher", "runs", "gather", "closed"}

Typed ==
    /\ row \in [Jobs -> RowStates]
    /\ run \in [Jobs -> Phases]
    /\ result \in [Jobs -> Results]
    /\ engine \subseteq Jobs /\ procs \subseteq Jobs /\ moves \subseteq Jobs
    /\ cancelled \subseteq Jobs
    /\ dispatcher \in {"dispatching", "waiting", "ended"}
    /\ loop \in {"sleeping", "updating", "ended"}
    /\ stop \in StopPhases

\* A process is read by a run, or was left by one that met its cancellation while it
\* waited for stderr; that one still finds it in _procs.
EnginesHaveRuns ==
    \A j \in engine :
        /\ run[j] \in {"downloading", "draining", "unwinding", "failing", "raised"}
        /\ j \in procs

\* Only tasks that exist have a cancellation to meet, and they meet it once.
CancelledRun == \A j \in cancelled : run[j] \notin {"none", "unwinding", "raised"}

\* The process has spoken before its run decides.
VerdictHasResult ==
    \A j \in Jobs :
        run[j] \in {"downloading", "draining", "moving", "verdict"} /\ j \notin engine
            => result[j] # "none"

\* A row is active from the start of its run to the verdict, and stays so when the run
\* ends without one.
ActiveRun ==
    \A j \in Jobs :
        run[j] \in {"spawning", "downloading", "draining", "moving"} => row[j] = "active"

\* A thread moves files for a run at work, or for one that was cancelled: its row is
\* active, and the service will not start a second one.
MovesOfActive ==
    \A j \in moves :
        /\ row[j] = "active"
        /\ \/ run[j] \in {"moving", "raised"}
           \/ run[j] = "none" /\ stop \in {"gather", "closed"}

\* The service cancels its runs when it can start no others.
CancelledLate ==
    /\ cancelled # {} => stop = "gather"
    /\ \A j \in Jobs : run[j] \in {"unwinding", "raised"} => stop = "gather"

\* stop() gets from one await to the next in the order of the code, and what it has
\* left behind does not come back.
StopOrder ==
    /\ stop \in {"dispatcher", "runs", "gather", "closed"} => loop = "ended"
    /\ stop \in {"runs", "gather", "closed"} => dispatcher = "ended"
    /\ stop = "closed" => Running = {}

IInv ==
    /\ Typed /\ EnginesHaveRuns /\ CancelledRun /\ VerdictHasResult
    /\ ActiveRun /\ MovesOfActive /\ CancelledLate /\ StopOrder

LEMMA InitEstablishes == Init => IInv
  BY DEF Init, IInv, RowStates, Phases, Results, StopPhases, Running, Typed, EnginesHaveRuns, CancelledRun, VerdictHasResult, ActiveRun, MovesOfActive, CancelledLate,
             StopOrder

-----------------------------------------------------------------------------
LEMMA DispatcherPreserves ==
  ASSUME IInv, \/ DispatchLoop \/ EndPass
               \/ \E j \in Jobs : Dispatch(j) \/ Requeue(j)
  PROVE  IInv'
  <1> USE DEF IInv, RowStates, Phases, Results, StopPhases, Running, left, counters,
             Typed, EnginesHaveRuns, CancelledRun, VerdictHasResult, ActiveRun, MovesOfActive, CancelledLate,
             StopOrder
  <1>1. CASE DispatchLoop
    BY <1>1 DEF DispatchLoop, Stopped
  <1>2. CASE EndPass
    BY <1>2 DEF EndPass
  <1>3. ASSUME NEW j \in Jobs, Dispatch(j)
        PROVE  IInv'
    BY <1>3 DEF Dispatch, Stopped
  <1>4. ASSUME NEW j \in Jobs, Requeue(j)
        PROVE  IInv'
    BY <1>4 DEF Requeue
  <1> QED BY <1>1, <1>2, <1>3, <1>4

\* The steps of one run, its processes and its threads.
LEMMA RunPreserves ==
  ASSUME IInv, NEW j \in Jobs, EngineExit(j) \/ LeftExit(j) \/ MoveEnds(j) \/ RunStep(j)
  PROVE  IInv'
  <1> USE DEF IInv, RowStates, Phases, Results, StopPhases, Running, left, counters, At,
             Typed, EnginesHaveRuns, CancelledRun, VerdictHasResult, ActiveRun, MovesOfActive, CancelledLate,
             StopOrder
  <1>1. CASE EngineExit(j)
    BY <1>1 DEF EngineExit
  <1>2. CASE LeftExit(j)
    BY <1>2 DEF LeftExit
  <1>3. CASE MoveEnds(j)
    BY <1>3 DEF MoveEnds
  <1>4. CASE Activate(j)
    BY <1>4 DEF Activate
  <1>5. CASE Spawn(j)
    BY <1>5 DEF Spawn
  <1>6. CASE LeaveLoop(j)
    BY <1>6 DEF LeaveLoop
  <1>7. CASE Drained(j)
    BY <1>7 DEF Drained
  <1>8. CASE Moved(j)
    BY <1>8 DEF Moved
  <1>9. CASE Fail(j)
    BY <1>9 DEF Fail
  <1>10. CASE Verdict(j)
    BY <1>10 DEF Verdict, Ended
  <1>11. CASE HandleException(j)
    BY <1>11 DEF HandleException, Ended
  <1>12. CASE Raise(j)
    BY <1>12 DEF Raise
  <1>13. CASE HandleCancelled(j)
    BY <1>13 DEF HandleCancelled, Ended
  <1> QED BY <1>1, <1>2, <1>3, <1>4, <1>5, <1>6, <1>7, <1>8, <1>9, <1>10, <1>11, <1>12, <1>13 DEF RunStep

LEMMA StopPreserves ==
  ASSUME IInv, Stop \/ StopStep
  PROVE  IInv'
  <1> USE DEF IInv, RowStates, Phases, Results, StopPhases, Running, left, counters, Goto,
             Typed, EnginesHaveRuns, CancelledRun, VerdictHasResult, ActiveRun, MovesOfActive, CancelledLate,
             StopOrder
  <1>1. CASE Stop
    BY <1>1 DEF Stop
  <1>2. CASE CancelLoops
    BY <1>2 DEF CancelLoops
  <1>3. CASE AwaitDispatcher
    BY <1>3 DEF AwaitDispatcher
  <1>4. CASE CancelRuns
    BY <1>4 DEF CancelRuns
  <1>5. CASE Close
    BY <1>5 DEF Close
  <1>6. CASE Start
    BY <1>6 DEF Start
  <1> QED BY <1>1, <1>2, <1>3, <1>4, <1>5, <1>6 DEF StopStep

LEMMA Invariance == Spec => []IInv
  <1>1. IInv /\ [Next]_vars => IInv'
    <2> SUFFICES ASSUME IInv, [Next]_vars
                 PROVE  IInv'
      OBVIOUS
    <2>1. CASE UNCHANGED vars
      BY <2>1 DEF vars, left, counters, IInv, Running, Typed, EnginesHaveRuns, CancelledRun, VerdictHasResult, ActiveRun, MovesOfActive, CancelledLate,
             StopOrder
    <2>2. CASE Next
      BY <2>2, DispatcherPreserves, RunPreserves, StopPreserves DEF Next
    <2> QED BY <2>1, <2>2
  <1> QED BY <1>1, InitEstablishes, PTL DEF Spec

-----------------------------------------------------------------------------
\* When stop() has returned no run, unsignalled download, dispatcher or loop is left, and
\* the moves that go on are of rows that the next start requeues, for any number of jobs
\* and stops (worker.py:195-223, 459-466).
THEOREM StopLeavesNothing == Spec => []NothingOutlivesStop
  <1>1. IInv => NothingOutlivesStop
    BY DEF IInv, Typed, EnginesHaveRuns, CancelledRun, MovesOfActive, StopOrder,
           NothingOutlivesStop, Running
  <1> QED BY <1>1, Invariance, PTL

\* A row is done only after a download that succeeded and with no thread left at its
\* files, and fails only with its download or through an exception: a cancelled run gets
\* no verdict of its own (worker.py:445-486).
THEOREM VerdictsAreEarned == Spec => VerdictIsEarned
  <1> DEFINE Earned(j) == row'[j] # row[j] =>
               /\ row'[j] = "done" => result[j] = "done" /\ j \notin moves
               /\ row'[j] = "error" => result[j] = "error" \/ run[j] = "failed"
  <1>1. ASSUME IInv, [Next]_vars, NEW j \in Jobs
        PROVE  Earned(j)
    <2> USE <1>1 DEF IInv, Typed, RowStates, MovesOfActive
    <2>1. CASE UNCHANGED vars
      BY <2>1 DEF vars
    <2>2. CASE \E k \in Jobs : Requeue(k)
      BY <2>2 DEF Requeue
    <2>3. CASE \E k \in Jobs : RunStep(k)
      <3>1. PICK k \in Jobs : RunStep(k)
        BY <2>3
      <3>2. \/ row' = row
            \/ row' = [row EXCEPT ![k] = "active"]
            \/ run[k] = "verdict" /\ row' = [row EXCEPT ![k] = result[k]]
            \/ run[k] = "failed" /\ row' = [row EXCEPT ![k] = "error"]
        BY <3>1 DEF RunStep, Activate, Spawn, LeaveLoop, Drained, Moved, Verdict, Fail,
                    HandleException, Raise, HandleCancelled
      <3>3. run[k] = "verdict" => k \notin moves
        OBVIOUS
      <3> QED BY <3>2, <3>3
    <2>4. CASE Start
      BY <2>4 DEF Start
    <2>5. CASE \/ DispatchLoop \/ EndPass \/ Stop \/ CancelLoops \/ AwaitDispatcher \/ CancelRuns \/ Close
               \/ \E k \in Jobs : Dispatch(k) \/ EngineExit(k) \/ LeftExit(k) \/ MoveEnds(k)
      BY <2>5 DEF DispatchLoop, EndPass, Stop, CancelLoops, AwaitDispatcher, CancelRuns, Close,
                  Dispatch, EngineExit, LeftExit, MoveEnds
    <2> QED BY <2>1, <2>2, <2>3, <2>4, <2>5 DEF Next, StopStep
  <1>2. IInv /\ [Next]_vars => [\A j \in Jobs : Earned(j)]_vars
    BY <1>1
  <1> QED BY <1>2, Invariance, PTL DEF Spec, VerdictIsEarned
=============================================================================
