--------------------------- MODULE JobQueueProofs ---------------------------
(***************************************************************************)
(* Proofs about JobQueue, for any number of jobs, clients, URLs and hosts  *)
(* and any limits.                                                         *)
(***************************************************************************)
EXTENDS JobQueue, FiniteSetTheorems, TLAPS

-----------------------------------------------------------------------------
(* The table.                                                              *)

LEMMA IdsFinite == IsFiniteSet(Ids) /\ IsFiniteSet(Running)
<1>1. IsFiniteSet(Ids)  BY FS_Interval, TableAssumption DEF Ids
<1>2. QED  BY <1>1, FS_Subset DEF Running

\* What an update of one row changes and what it leaves alone.
LEMMA SetStateFacts ==
    ASSUME NEW t \in Table, NEW j \in Ids, NEW s \in JobState
    PROVE  /\ SetState(t, j, s) \in Table
           /\ \A k \in Ids : /\ SetState(t, j, s)[k].url = t[k].url
                             /\ SetState(t, j, s)[k].pinned = t[k].pinned
                             /\ k # j => SetState(t, j, s)[k].state = t[k].state
           /\ SetState(t, j, s)[j].state =
                IF t[j].state = "absent" THEN "absent" ELSE s
BY DEF SetState, Table, Row

LEMMA SetPinnedFacts ==
    ASSUME NEW t \in Table, NEW j \in Ids, NEW p \in BOOLEAN
    PROVE  /\ SetPinned(t, j, p) \in Table
           /\ \A k \in Ids : /\ SetPinned(t, j, p)[k].url = t[k].url
                             /\ SetPinned(t, j, p)[k].state = t[k].state
BY DEF SetPinned, Table, Row

LEMMA InsertFacts ==
    ASSUME NEW t \in Table, NEW j \in Ids, NEW u \in Urls
    PROVE  /\ Insert(t, j, u) \in Table
           /\ \A k \in Ids : k # j => Insert(t, j, u)[k] = t[k]
           /\ Insert(t, j, u)[j].state = "queued"
BY DEF Insert, Table, Row, JobState

LEMMA DeleteRowsFacts ==
    ASSUME NEW t \in Table, NEW J \in SUBSET Ids
    PROVE  /\ DeleteRows(t, J) \in Table
           /\ \A k \in Ids : /\ DeleteRows(t, J)[k].url = t[k].url
                             /\ DeleteRows(t, J)[k].state =
                                    IF k \in J THEN "absent" ELSE t[k].state
BY DEF DeleteRows, Table, Row

LEMMA RequeueInterruptedFacts ==
    ASSUME NEW t \in Table
    PROVE  /\ RequeueInterrupted(t) \in Table
           /\ \A k \in Ids : /\ RequeueInterrupted(t)[k].url = t[k].url
                             /\ RequeueInterrupted(t)[k].state =
                                    IF t[k].state = "active" THEN "queued" ELSE t[k].state
BY DEF RequeueInterrupted, Table, Row, JobState

LEMMA EmptyTableFacts ==
    /\ EmptyTable \in Table
    /\ \A k \in Ids : EmptyTable[k].state = "absent"
<1>1. (CHOOSE u \in Urls : TRUE) \in Urls  BY TableAssumption
<1>2. QED  BY <1>1 DEF EmptyTable, Table, Row
-----------------------------------------------------------------------------
(* The inductive invariant: the types, the semaphores' accounts, and ids    *)
(* not given out yet being untouched (an insert must not meet a task).      *)

Typed ==
    /\ table \in Table
    /\ nextId \in 1..(MaxJobs + 1)
    /\ stage \subseteq Ids
    /\ up \in BOOLEAN
    /\ run \in [Ids -> Phase]
    /\ req \in [Clients -> Request]
    /\ retryLeft \subseteq Ids
    /\ pinLeft \subseteq Ids

Counters == globalFree \in Nat /\ hostFree \in [Hosts -> Nat]

FreshIdle == \A j \in Ids : j >= nextId => table[j].state = "absent" /\ run[j] = "idle"

LEMMA WindowQueued == \A j \in Window(table) : j \in Ids /\ table[j].state = "queued"
BY DEF Window, InState

LEMMA AcceptsFacts ==
    \A op \in DOMAIN Accepts : op \in AllOps /\ Accepts[op] \subseteq JobState
BY DEF Accepts, AllOps, JobState, OpenStates

LEMMA TargetFacts ==
    \A op \in DOMAIN Target : op \in AllOps /\ Target[op] \in JobState
BY DEF Target, AllOps, JobState

LEMMA RequestFacts ==
    ASSUME Typed, NEW c \in Clients
    PROVE  /\ req[c].op \in AllOps \cup {"none"} /\ req[c].jobs \subseteq Ids
           /\ [req EXCEPT ![c] = NoRequest] \in [Clients -> Request]
           /\ [req EXCEPT ![c].step = "after"] \in [Clients -> Request]
BY DEF Typed, Request, NoRequest

LEMMA PhaseFacts ==
    /\ Phase = {"idle", "starting", "active", "downloading", "killed", "succeeded",
                "failed", "landing", "landed", "failing", "leaving"}
    /\ RaisingPhases \subseteq {"active", "downloading", "killed", "landing", "landed"}
BY PoolAssumption DEF Phase, MarkedActive, Downloading

LEMMA TypedInit == Init => Typed
BY EmptyTableFacts, TableAssumption, PhaseFacts
   DEF Init, Typed, Request, NoRequest

LEMMA TypedStep == ASSUME Typed, [Next]_vars PROVE Typed'
<1> USE DEF Typed
<1>1. ASSUME NEW u \in Urls, Submit(u) PROVE Typed'
  <2>1. table' \in Table  BY <1>1, InsertFacts DEF Submit
  <2>2. nextId' \in 1..(MaxJobs + 1)
    BY <1>1, TableAssumption DEF Submit, Ids
  <2>3. QED  BY <1>1, <2>1, <2>2 DEF Submit, passes
<1>2. ASSUME NEW c \in Clients, NEW j \in Ids, NEW op \in DOMAIN Accepts,
             ReadJob(c, op, j)
      PROVE  Typed'
  <2>1. [op |-> op, jobs |-> {j}, seen |-> table[j].state, step |-> "write"] \in Request
    BY <1>2, AcceptsFacts DEF ReadJob, Request
  <2>2. QED  BY <1>2, <2>1 DEF ReadJob, passes
<1>3. ASSUME NEW c \in Clients, ReadFinished(c) PROVE Typed'
  <2>1. FinishedUnpinned(table) \subseteq Ids  BY DEF FinishedUnpinned, InState
  <2>2. [op |-> "clear", jobs |-> FinishedUnpinned(table), seen |-> "absent",
         step |-> "write"] \in Request
    BY <2>1 DEF Request, AllOps
  <2>3. QED  BY <1>3, <2>2 DEF ReadFinished, passes
<1>4. ASSUME NEW c \in Clients, WriteState(c) PROVE Typed'
  <2>1. /\ req' \in [Clients -> Request]
        /\ UNCHANGED <<nextId, stage, up, run, passes>>
    BY <1>4, RequestFacts DEF WriteState
  <2>2. table' \in Table
    <3>1. PICK j \in req[c].jobs :
             UNCHANGED table \/ table' = SetState(table, j, Target[req[c].op])
      BY <1>4 DEF WriteState
    <3>2. j \in Ids /\ Target[req[c].op] \in JobState
      BY <1>4, RequestFacts, TargetFacts DEF WriteState
    <3>3. QED  BY <3>1, <3>2, SetStateFacts
  <2>3. QED  BY <2>1, <2>2 DEF passes
<1>5. ASSUME NEW c \in Clients, WritePinned(c) PROVE Typed'
  <2>1. table' \in Table
    <3>1. PICK j \in req[c].jobs : table' = SetPinned(table, j, req[c].op = "pin")
      BY <1>5 DEF WritePinned
    <3>2. j \in Ids /\ (req[c].op = "pin") \in BOOLEAN  BY RequestFacts
    <3>3. QED  BY <3>1, <3>2, SetPinnedFacts
  <2>2. QED  BY <1>5, <2>1, RequestFacts DEF WritePinned, passes
<1>6. ASSUME NEW c \in Clients, WriteDelete(c) PROVE Typed'
  <2>1. FinishedUnpinned(table) \subseteq Ids  BY DEF FinishedUnpinned, InState
  <2>2. table' \in Table
    BY <1>6, <2>1, RequestFacts, DeleteRowsFacts DEF WriteDelete
  <2>3. QED  BY <1>6, <2>2, RequestFacts DEF WriteDelete, passes
<1>7. ASSUME NEW c \in Clients, AfterWrite(c) PROVE Typed'
  BY <1>7, RequestFacts, PhaseFacts DEF AfterWrite, Kill, passes
<1>8. ASSUME NEW j \in Ids, Start(j) PROVE Typed'
  BY <1>8, PhaseFacts DEF Start, passes
<1>9. ASSUME NEW j \in Ids, MarkActive(j) PROVE Typed'
  <2>1. SetState(table, j, "active") \in Table  BY SetStateFacts DEF JobState
  <2>2. QED  BY <1>9, <2>1, PhaseFacts DEF MarkActive, Advance, passes
<1>10. ASSUME NEW j \in Ids, Spawn(j) PROVE Typed'
  BY <1>10, PhaseFacts DEF Spawn, Advance, passes
<1>11. ASSUME NEW j \in Ids, EngineWrites(j) PROVE Typed'
  BY <1>11 DEF EngineWrites, passes
<1>12. ASSUME NEW j \in Ids, EngineExit(j) PROVE Typed'
  BY <1>12, PhaseFacts DEF EngineExit, Advance, passes
<1>13. ASSUME NEW j \in Ids, CheckResult(j) PROVE Typed'
  BY <1>13, PhaseFacts DEF CheckResult, Advance, passes
<1>14. ASSUME NEW j \in Ids, Land(j) PROVE Typed'
  BY <1>14, PhaseFacts DEF Land, Advance, passes
<1>15. ASSUME NEW j \in Ids, StepRaises(j) PROVE Typed'
  BY <1>15, PhaseFacts DEF StepRaises, Advance, passes
<1>16. ASSUME NEW j \in Ids, WriteVerdict(j) PROVE Typed'
  <2>1. SetState(table, j, "done") \in Table /\ SetState(table, j, "error") \in Table
    BY SetStateFacts DEF JobState
  <2>2. QED  BY <1>16, <2>1, PhaseFacts DEF WriteVerdict, Advance, passes
<1>17. ASSUME NEW j \in Ids, Release(j) PROVE Typed'
  BY <1>17, PhaseFacts DEF Release, passes
<1>18. CASE RetryScan
  BY <1>18 DEF RetryScan, FailedUnpinned, InState
<1>19. CASE RetryNext
  <2>1. \A j \in Ids : SetState(table, j, "queued") \in Table
    BY SetStateFacts DEF JobState
  <2>2. QED  BY <1>19, <2>1 DEF RetryNext
<1>20. CASE PinScan
  BY <1>20 DEF PinScan, PinnedAtRest, InState
<1>21. CASE PinNext
  <2>1. \A j \in Ids : SetState(table, j, "queued") \in Table
    BY SetStateFacts DEF JobState
  <2>2. QED  BY <1>21, <2>1 DEF PinNext
<1>22. CASE Crash
  BY <1>22, PhaseFacts DEF Crash, Request, NoRequest
<1>23. CASE Restart
  BY <1>23, RequeueInterruptedFacts DEF Restart, passes
<1>24. CASE UNCHANGED vars
  BY <1>24 DEF vars
<1>25. QED
  BY <1>1, <1>2, <1>3, <1>4, <1>5, <1>6, <1>7, <1>8, <1>9, <1>10, <1>11, <1>12, <1>13,
     <1>14, <1>15, <1>16, <1>17, <1>18, <1>19, <1>20, <1>21, <1>22, <1>23, <1>24
     DEF Next, Proceed, Disturb, RequestStep, TaskStep, Dispatch

-----------------------------------------------------------------------------
(* What a step does to the rows and to the set of tasks.                   *)

\* Only submit gives a row a URL; no update brings back a row that is gone.
LEMMA RowsStep ==
    ASSUME Typed, [Next]_vars
    PROVE  \/ \E u \in Urls : Submit(u)
           \/ /\ nextId' = nextId
              /\ \A j \in Ids :
                    /\ table'[j].url = table[j].url
                    /\ table[j].state = "absent" => table'[j].state = "absent"
<1> DEFINE Same == /\ nextId' = nextId
                   /\ \A j \in Ids :
                        /\ table'[j].url = table[j].url
                        /\ table[j].state = "absent" => table'[j].state = "absent"
<1> USE DEF Typed
<1>1. ASSUME NEW j \in Ids, NEW s \in JobState, table' = SetState(table, j, s),
             nextId' = nextId
      PROVE  Same
  <2>1. \A k \in Ids : /\ SetState(table, j, s)[k].url = table[k].url
                       /\ k # j => SetState(table, j, s)[k].state = table[k].state
    BY SetStateFacts
  <2>2. table[j].state = "absent" => SetState(table, j, s)[j].state = "absent"
    BY SetStateFacts
  <2>3. QED  BY <1>1, <2>1, <2>2
<1>2. ASSUME UNCHANGED <<table, nextId>> PROVE Same
  BY <1>2
<1>3. ASSUME NEW c \in Clients, WriteState(c) PROVE Same
  <2>1. PICK j \in req[c].jobs :
           UNCHANGED table \/ table' = SetState(table, j, Target[req[c].op])
    BY <1>3 DEF WriteState
  <2>2. j \in Ids /\ Target[req[c].op] \in JobState /\ nextId' = nextId
    BY <1>3, RequestFacts, TargetFacts DEF WriteState
  <2>3. QED  BY <2>1, <2>2, <1>1, <1>2
<1>4. ASSUME NEW c \in Clients, WritePinned(c) PROVE Same
  <2>1. PICK j \in req[c].jobs : table' = SetPinned(table, j, req[c].op = "pin")
    BY <1>4 DEF WritePinned
  <2>2. j \in Ids /\ (req[c].op = "pin") \in BOOLEAN  BY RequestFacts
  <2>3. \A k \in Ids : table'[k].url = table[k].url /\ table'[k].state = table[k].state
    BY <2>1, <2>2, SetPinnedFacts
  <2>4. QED  BY <1>4, <2>3 DEF WritePinned
<1>5. ASSUME NEW c \in Clients, WriteDelete(c) PROVE Same
  <2>1. PICK J \in SUBSET Ids : table' = DeleteRows(table, J)
    BY <1>5, RequestFacts DEF WriteDelete, FinishedUnpinned, InState
  <2>2. \A k \in Ids : /\ table'[k].url = table[k].url
                       /\ table'[k].state = IF k \in J THEN "absent" ELSE table[k].state
    BY <2>1, DeleteRowsFacts
  <2>3. QED  BY <1>5, <2>2 DEF WriteDelete
<1>6. ASSUME NEW j \in Ids, MarkActive(j) PROVE Same
  BY <1>6, <1>1, <1>2 DEF MarkActive, Advance, JobState
<1>7. ASSUME NEW j \in Ids, WriteVerdict(j) PROVE Same
  BY <1>7, <1>1 DEF WriteVerdict, Advance, JobState
<1>8. ASSUME RetryNext PROVE Same
  BY <1>8, <1>1, <1>2 DEF RetryNext, JobState
<1>9. ASSUME PinNext PROVE Same
  BY <1>9, <1>1, <1>2 DEF PinNext, JobState
<1>10. ASSUME Restart PROVE Same
  BY <1>10, RequeueInterruptedFacts DEF Restart
<1>11. ASSUME NEW c \in Clients, AfterWrite(c) \/ ReadFinished(c) PROVE Same
  BY <1>11, <1>2 DEF AfterWrite, ReadFinished
<1>12. ASSUME NEW c \in Clients, NEW j \in Ids, NEW op \in DOMAIN Accepts,
              ReadJob(c, op, j)
       PROVE  Same
  BY <1>12, <1>2 DEF ReadJob
<1>13. ASSUME NEW j \in Ids,
              \/ Start(j) \/ Spawn(j) \/ EngineWrites(j) \/ EngineExit(j)
              \/ CheckResult(j) \/ Land(j) \/ StepRaises(j) \/ Release(j)
       PROVE  Same
  BY <1>13, <1>2 DEF Start, Spawn, EngineWrites, EngineExit, CheckResult, Land,
                     StepRaises, Release, Advance
<1>14. ASSUME RetryScan \/ PinScan \/ Crash \/ UNCHANGED vars PROVE Same
  BY <1>14, <1>2 DEF RetryScan, PinScan, Crash, vars
<1> HIDE DEF Same
<1>15. (\E u \in Urls : Submit(u)) \/ Same
  BY <1>3, <1>4, <1>5, <1>6, <1>7, <1>8, <1>9, <1>10, <1>11, <1>12, <1>13, <1>14
     DEF Next, Proceed, Disturb, RequestStep, TaskStep, Dispatch
<1>16. QED  BY <1>15 DEF Same

\* Only Start, Release and a crash change which jobs have a task, or a semaphore.
LEMMA TasksStep ==
    ASSUME Typed, [Next]_vars
    PROVE  \/ \E j \in Ids : Start(j) \/ Release(j)
           \/ Crash
           \/ UNCHANGED slots /\ \A j \in Ids : run'[j] = "idle" <=> run[j] = "idle"
<1> DEFINE Same ==
        UNCHANGED slots /\ \A j \in Ids : run'[j] = "idle" <=> run[j] = "idle"
<1> USE DEF Typed
<1>1. ASSUME UNCHANGED <<slots, run>> PROVE Same
  BY <1>1
<1>2. ASSUME NEW j \in Ids, NEW from, NEW to, Advance(j, from, to),
             "idle" \notin from, to # "idle"
      PROVE  Same
  BY <1>2 DEF Advance
<1>3. ASSUME NEW c \in Clients, RequestStep(c) PROVE Same
  BY <1>3, <1>1
     DEF RequestStep, WriteState, WritePinned, WriteDelete, AfterWrite, Kill
<1>4. ASSUME NEW j \in Ids,
             \/ MarkActive(j) \/ Spawn(j) \/ EngineExit(j) \/ CheckResult(j) \/ Land(j)
             \/ StepRaises(j) \/ WriteVerdict(j)
      PROVE  Same
  <2>1. "idle" \notin RaisingPhases  BY PhaseFacts
  <2>2. QED
    BY <1>4, <1>2, <2>1 DEF MarkActive, Spawn, EngineExit, CheckResult, Land, StepRaises,
                            WriteVerdict, Downloading
<1>5. ASSUME NEW j \in Ids, EngineWrites(j) PROVE Same
  BY <1>5, <1>1 DEF EngineWrites
<1>6. ASSUME NEW c \in Clients, NEW j \in Ids, NEW op \in DOMAIN Accepts,
             ReadJob(c, op, j)
      PROVE  Same
  BY <1>6, <1>1 DEF ReadJob
<1>7. ASSUME NEW u \in Urls, Submit(u) PROVE Same
  BY <1>7, <1>1 DEF Submit
<1>8. ASSUME NEW c \in Clients, ReadFinished(c) PROVE Same
  BY <1>8, <1>1 DEF ReadFinished
<1>9. ASSUME RetryScan \/ RetryNext \/ PinScan \/ PinNext \/ Restart \/ UNCHANGED vars
      PROVE  Same
  BY <1>9, <1>1 DEF RetryScan, RetryNext, PinScan, PinNext, Restart, vars, slots
<1> HIDE DEF Same
<1>10. (\E j \in Ids : Start(j) \/ Release(j)) \/ Crash \/ Same
  BY <1>3, <1>4, <1>5, <1>6, <1>7, <1>8, <1>9
     DEF Next, Proceed, Disturb, TaskStep, Dispatch
<1>11. QED  BY <1>10 DEF Same

-----------------------------------------------------------------------------
(* The semaphores.                                                         *)

\* The jobs with a task that hold a slot of host h.
On(t, r, h) == {j \in Ids : r[j] # "idle" /\ HostIn(t, j) = h}

\* A job's host does not change under the task that holds its slot.
LEMMA HostsKept ==
    ASSUME Typed, FreshIdle, [Next]_vars
    PROVE  \A j \in Running : HostIn(table', j) = HostIn(table, j)
<1>1. CASE \E u \in Urls : Submit(u)
  <2>1. PICK u \in Urls : Submit(u)  BY <1>1
  <2>2. nextId \in Ids /\ table' = Insert(table, nextId, u)  BY <2>1 DEF Submit
  <2>3. nextId \notin Running  BY <2>2 DEF FreshIdle, Running, Typed, Ids
  <2>4. \A k \in Ids : k # nextId => table'[k] = table[k]
    BY <2>2, InsertFacts DEF Typed
  <2>5. QED  BY <2>3, <2>4 DEF Running, HostIn
<1>2. CASE \A j \in Ids : table'[j].url = table[j].url
  BY <1>2 DEF Running, HostIn
<1>3. QED  BY <1>1, <1>2, RowsStep

LEMMA FreshStep ==
    ASSUME Typed, FreshIdle, [Next]_vars
    PROVE  FreshIdle'
<1>1. CASE \E u \in Urls : Submit(u)
  <2>1. PICK u \in Urls : Submit(u)  BY <1>1
  <2>2. /\ nextId \in Ids /\ nextId' = nextId + 1 /\ run' = run
        /\ table' = Insert(table, nextId, u)
    BY <2>1 DEF Submit
  <2>3. \A k \in Ids : k # nextId => table'[k] = table[k]
    BY <2>2, InsertFacts DEF Typed
  <2>4. QED  BY <2>2, <2>3 DEF FreshIdle, Ids
<1>2. CASE /\ nextId' = nextId
           /\ \A j \in Ids : table[j].state = "absent" => table'[j].state = "absent"
  <2>1. ASSUME NEW j \in Ids, table[j].state = "absent", run[j] = "idle"
        PROVE  run'[j] = "idle"
    <3>1. ASSUME NEW k \in Ids, Start(k) PROVE run'[j] = "idle"
      <4>1. table[k].state = "queued"  BY <3>1, WindowQueued DEF Start, Startable
      <4>2. QED  BY <2>1, <3>1, <4>1 DEF Start, Typed
    <3>2. ASSUME NEW k \in Ids, Release(k) PROVE run'[j] = "idle"
      BY <2>1, <3>2 DEF Release, Typed
    <3>3. CASE Crash  BY <3>3 DEF Crash
    <3>4. QED  BY <2>1, <3>1, <3>2, <3>3, TasksStep
  <2>2. QED  BY <1>2, <2>1 DEF FreshIdle
<1>3. QED  BY <1>1, <1>2, RowsStep

LEMMA CountsFacts ==
    ASSUME Typed
    PROVE  /\ Cardinality(Running) \in Nat
           /\ \A h : IsFiniteSet(On(table, run, h)) /\ Cardinality(On(table, run, h)) \in Nat
           /\ \A j \in Ids : HostIn(table, j) \in Hosts
<1>1. \A h : IsFiniteSet(On(table, run, h))  BY IdsFinite, FS_Subset DEF On, Running
<1>2. \A j \in Ids : HostIn(table, j) \in Hosts
  BY TableAssumption DEF Typed, Table, Row, HostIn
<1>3. QED  BY <1>1, <1>2, IdsFinite, FS_CardinalityType

LEMMA SlotsStep ==
    ASSUME Typed, Counters, SlotsAccounted, FreshIdle, [Next]_vars
    PROVE  Counters' /\ SlotsAccounted'
<1> USE DEF Counters
<1>1. \A j \in Running : HostIn(table', j) = HostIn(table, j)  BY HostsKept
<1>2. CASE UNCHANGED slots /\ \A j \in Ids : run'[j] = "idle" <=> run[j] = "idle"
  <2>1. Running' = Running  BY <1>2 DEF Running
  <2>2. \A h : On(table', run', h) = On(table, run, h)  BY <1>1, <1>2 DEF On, Running
  <2>3. QED  BY <1>2, <2>1, <2>2 DEF SlotsAccounted, On, Running, slots
<1>3. ASSUME NEW j \in Ids, Start(j) PROVE Counters' /\ SlotsAccounted'
  <2> DEFINE g == HostIn(table, j)
  <2>1. /\ g \in Hosts /\ globalFree > 0 /\ hostFree[g] > 0 /\ j \notin Running
        /\ globalFree' = globalFree - 1
        /\ hostFree' = [hostFree EXCEPT ![g] = @ - 1]
        /\ table' = table /\ run' = [run EXCEPT ![j] = "starting"]
    BY <1>3, CountsFacts DEF Start, Startable
  <2>2. Running' = Running \cup {j}  BY <2>1 DEF Running, Typed
  <2>3. Cardinality(Running') = Cardinality(Running) + 1
    BY <2>1, <2>2, IdsFinite, FS_AddElement
  <2>4. /\ On(table', run', g) = On(table, run, g) \cup {j} /\ j \notin On(table, run, g)
        /\ \A h \in Hosts : h # g => On(table', run', h) = On(table, run, h)
    BY <2>1 DEF On, Typed, Running
  <2>5. Cardinality(On(table', run', g)) = Cardinality(On(table, run, g)) + 1
    BY <2>4, CountsFacts, FS_AddElement
  <2> HIDE DEF g
  <2>6. Counters'  BY <2>1
  <2>7. globalFree' + Cardinality(Running') = MaxConcurrent
    BY <2>1, <2>3, CountsFacts DEF SlotsAccounted
  <2>8. ASSUME NEW h \in Hosts PROVE hostFree'[h] + Cardinality(On(table', run', h)) = MaxPerHost
    <3>1. hostFree[h] + Cardinality(On(table, run, h)) = MaxPerHost  BY DEF SlotsAccounted, On, Running
    <3>2. CASE h = g  BY <2>1, <2>5, <3>1, <3>2, CountsFacts
    <3>3. CASE h # g  BY <2>1, <2>4, <3>1, <3>3
    <3>4. QED  BY <3>2, <3>3
  <2>9. QED  BY <2>6, <2>7, <2>8 DEF SlotsAccounted, On, Running
<1>4. ASSUME NEW j \in Ids, Release(j) PROVE Counters' /\ SlotsAccounted'
  <2> DEFINE g == HostIn(table, j)
  <2>1. /\ g \in Hosts /\ j \in Running
        /\ globalFree' = globalFree + 1
        /\ hostFree' = [hostFree EXCEPT ![g] = @ + 1]
        /\ table' = table /\ run' = [run EXCEPT ![j] = "idle"]
    BY <1>4, CountsFacts DEF Release, Running
  <2>2. Running' = Running \ {j}  BY <2>1 DEF Running, Typed
  <2>3. Cardinality(Running') = Cardinality(Running) - 1
    BY <2>1, <2>2, IdsFinite, FS_RemoveElement
  <2>4. /\ On(table', run', g) = On(table, run, g) \ {j} /\ j \in On(table, run, g)
        /\ \A h \in Hosts : h # g => On(table', run', h) = On(table, run, h)
    BY <2>1 DEF On, Typed, Running
  <2>5. Cardinality(On(table', run', g)) = Cardinality(On(table, run, g)) - 1
    <3>1. IsFiniteSet(On(table, run, g))  BY CountsFacts
    <3>2. Cardinality(On(table, run, g) \ {j}) = Cardinality(On(table, run, g)) - 1
      BY <2>4, <3>1, FS_RemoveElement
    <3>3. QED  BY <2>4, <3>2
  <2> HIDE DEF g
  <2>6. Counters'  BY <2>1
  <2>7. globalFree' + Cardinality(Running') = MaxConcurrent
    BY <2>1, <2>3, CountsFacts DEF SlotsAccounted
  <2>8. ASSUME NEW h \in Hosts PROVE hostFree'[h] + Cardinality(On(table', run', h)) = MaxPerHost
    <3>1. hostFree[h] + Cardinality(On(table, run, h)) = MaxPerHost  BY DEF SlotsAccounted, On, Running
    <3>2. CASE h = g  BY <2>1, <2>5, <3>1, <3>2, CountsFacts
    <3>3. CASE h # g  BY <2>1, <2>4, <3>1, <3>3
    <3>4. QED  BY <3>2, <3>3
  <2>9. QED  BY <2>6, <2>7, <2>8 DEF SlotsAccounted, On, Running
<1>5. CASE Crash
  <2>1. /\ globalFree' = MaxConcurrent /\ hostFree' = [h \in Hosts |-> MaxPerHost]
        /\ Running' = {}
    BY <1>5 DEF Crash, Running
  <2>2. \A h \in Hosts : {j \in Running' : HostIn(table', j) = h} = {}  BY <2>1
  <2>3. QED  BY <2>1, <2>2, FS_EmptySet, PoolAssumption DEF SlotsAccounted
<1>6. QED  BY <1>2, <1>3, <1>4, <1>5, TasksStep

IInv == Typed /\ Counters /\ SlotsAccounted /\ FreshIdle

LEMMA IInvInit == Init => IInv
<1> SUFFICES ASSUME Init PROVE IInv
  OBVIOUS
<1>1. Typed  BY TypedInit
<1>2. FreshIdle  BY EmptyTableFacts DEF Init, FreshIdle
<1>3. Running = {}  BY DEF Init, Running
<1>4. \A h \in Hosts : {j \in Running : HostIn(table, j) = h} = {}  BY <1>3
<1>5. Counters /\ SlotsAccounted
  BY <1>3, <1>4, FS_EmptySet, PoolAssumption DEF Init, Counters, SlotsAccounted
<1>6. QED  BY <1>1, <1>2, <1>5 DEF IInv

LEMMA IInvStep == IInv /\ [Next]_vars => IInv'
BY TypedStep, SlotsStep, FreshStep DEF IInv

LEMMA IInvTypeOK == IInv => TypeOK
<1> SUFFICES ASSUME IInv PROVE TypeOK
  OBVIOUS
<1>1. globalFree \in 0..MaxConcurrent
  BY CountsFacts, PoolAssumption DEF IInv, Counters, SlotsAccounted
<1>2. ASSUME NEW h \in Hosts PROVE hostFree[h] \in 0..MaxPerHost
  <2>1. On(table, run, h) = {j \in Running : HostIn(table, j) = h}  BY DEF On, Running
  <2>2. hostFree[h] + Cardinality(On(table, run, h)) = MaxPerHost
    BY <2>1 DEF IInv, SlotsAccounted
  <2>3. QED  BY <2>2, CountsFacts, PoolAssumption DEF IInv, Counters
<1>3. QED  BY <1>1, <1>2 DEF IInv, Typed, Counters, TypeOK

LEMMA Invariance == Spec => []IInv
BY IInvInit, IInvStep, PTL DEF Spec

\* Every variable keeps its type; the semaphores stay between zero and their limits.
THEOREM TypeCorrect == Spec => []TypeOK
BY Invariance, IInvTypeOK, PTL

\* Each semaphore counts exactly the tasks that do not hold it, whatever path the
\* tasks take.
THEOREM SlotsCorrect == Spec => []SlotsAccounted
<1>1. IInv => SlotsAccounted  BY DEF IInv
<1>2. QED  BY <1>1, Invariance, PTL

-----------------------------------------------------------------------------
(* What a step does to the states of the rows.                             *)

\* Who may change the state of a row.
LEMMA StatesStep ==
    ASSUME Typed, [Next]_vars, NEW j \in Ids, table'[j].state # table[j].state
    PROVE  \/ j = nextId /\ table'[j].state = "queued"
           \/ \E c \in Clients : /\ WriteState(c) /\ j \in req[c].jobs
                                 /\ table'[j].state \in {"queued", "paused", "cancelled"}
           \/ \E c \in Clients : /\ WriteDelete(c)
                                 /\ j \in req[c].jobs \/ req[c].op = "clear"
                                 /\ table'[j].state = "absent"
           \/ MarkActive(j) /\ table'[j].state = "active"
           \/ WriteVerdict(j) /\ run[j] = "landed" /\ table'[j].state = "done"
           \/ WriteVerdict(j) /\ run[j] = "failing" /\ table'[j].state = "error"
           \/ j \in retryLeft \cup pinLeft /\ table'[j].state = "queued"
           \/ Restart /\ table[j].state = "active" /\ table'[j].state = "queued"
<1> DEFINE G ==
           \/ j = nextId /\ table'[j].state = "queued"
           \/ \E c \in Clients : /\ WriteState(c) /\ j \in req[c].jobs
                                 /\ table'[j].state \in {"queued", "paused", "cancelled"}
           \/ \E c \in Clients : /\ WriteDelete(c)
                                 /\ j \in req[c].jobs \/ req[c].op = "clear"
                                 /\ table'[j].state = "absent"
           \/ MarkActive(j) /\ table'[j].state = "active"
           \/ WriteVerdict(j) /\ run[j] = "landed" /\ table'[j].state = "done"
           \/ WriteVerdict(j) /\ run[j] = "failing" /\ table'[j].state = "error"
           \/ j \in retryLeft \cup pinLeft /\ table'[j].state = "queued"
           \/ Restart /\ table[j].state = "active" /\ table'[j].state = "queued"
<1> USE DEF Typed
<1>1. ASSUME NEW k \in Ids, NEW s \in JobState, table' = SetState(table, k, s)
      PROVE  k = j /\ table'[j].state = s
  BY <1>1, SetStateFacts
<1>2. table' # table
  OBVIOUS
<1>3. ASSUME NEW u \in Urls, Submit(u) PROVE G
  <2>1. nextId \in Ids /\ table' = Insert(table, nextId, u)  BY <1>3 DEF Submit
  <2>2. j # nextId => table'[j] = table[j]  BY <2>1, InsertFacts
  <2>3. table'[nextId].state = "queued"  BY <2>1, InsertFacts
  <2>4. QED  BY <2>2, <2>3
<1>4. ASSUME NEW c \in Clients, WriteState(c) PROVE G
  <2>1. PICK k \in req[c].jobs : table' = SetState(table, k, Target[req[c].op])
    BY <1>2, <1>4 DEF WriteState
  <2>2. k \in Ids /\ Target[req[c].op] \in {"queued", "paused", "cancelled"}
    BY <1>4, RequestFacts DEF WriteState, Target
  <2>3. k = j /\ table'[j].state = Target[req[c].op]
    BY <2>1, <2>2, <1>1 DEF JobState
  <2>4. j \in req[c].jobs /\ table'[j].state \in {"queued", "paused", "cancelled"}
    BY <2>2, <2>3
  <2>5. QED  BY <1>4, <2>4
<1>5. ASSUME NEW c \in Clients, WritePinned(c) PROVE G
  <2>1. PICK k \in req[c].jobs : table' = SetPinned(table, k, req[c].op = "pin")
    BY <1>5 DEF WritePinned
  <2>2. k \in Ids /\ (req[c].op = "pin") \in BOOLEAN  BY RequestFacts
  <2>3. table'[j].state = table[j].state  BY <2>1, <2>2, SetPinnedFacts
  <2>4. QED  BY <2>3
<1>6. ASSUME NEW c \in Clients, WriteDelete(c) PROVE G
  <2> DEFINE J == IF req[c].op = "clear" THEN FinishedUnpinned(table) ELSE req[c].jobs
  <2>1. J \in SUBSET Ids /\ table' = DeleteRows(table, J)
    BY <1>6, RequestFacts DEF WriteDelete, FinishedUnpinned, InState
  <2>2. table'[j].state = IF j \in J THEN "absent" ELSE table[j].state
    BY <2>1, DeleteRowsFacts
  <2>3. j \in J /\ table'[j].state = "absent"  BY <2>2
  <2>4. QED  BY <1>6, <2>3
<1>7. ASSUME NEW k \in Ids, MarkActive(k) PROVE G
  BY <1>1, <1>2, <1>7 DEF MarkActive, JobState
<1>8. ASSUME NEW k \in Ids, WriteVerdict(k) PROVE G
  <2>1. \/ run[k] = "landed" /\ table' = SetState(table, k, "done")
        \/ run[k] = "failing" /\ table' = SetState(table, k, "error")
    BY <1>8 DEF WriteVerdict, Advance
  <2>2. QED  BY <1>1, <1>8, <2>1 DEF JobState
<1>9. ASSUME RetryNext PROVE G
  <2>1. PICK k \in retryLeft : table' = SetState(table, k, "queued")
    BY <1>2, <1>9 DEF RetryNext
  <2>2. QED  BY <1>1, <2>1 DEF JobState
<1>10. ASSUME PinNext PROVE G
  <2>1. PICK k \in pinLeft : table' = SetState(table, k, "queued")
    BY <1>2, <1>10 DEF PinNext
  <2>2. QED  BY <1>1, <2>1 DEF JobState
<1>11. ASSUME Restart PROVE G
  <2>1. table'[j].state = IF table[j].state = "active" THEN "queued" ELSE table[j].state
    BY <1>11, RequeueInterruptedFacts DEF Restart
  <2>2. QED  BY <1>11, <2>1
<1>12. ASSUME NEW c \in Clients, AfterWrite(c) \/ ReadFinished(c) PROVE FALSE
  BY <1>2, <1>12 DEF AfterWrite, ReadFinished
<1>13. ASSUME NEW c \in Clients, NEW k \in Ids, NEW op \in DOMAIN Accepts,
              ReadJob(c, op, k)
       PROVE  FALSE
  BY <1>2, <1>13 DEF ReadJob
<1>14. ASSUME NEW k \in Ids,
              \/ Start(k) \/ Spawn(k) \/ EngineWrites(k) \/ EngineExit(k)
              \/ CheckResult(k) \/ Land(k) \/ StepRaises(k) \/ Release(k)
       PROVE  FALSE
  BY <1>2, <1>14 DEF Start, Spawn, EngineWrites, EngineExit, CheckResult, Land,
                     StepRaises, Release, Advance
<1>15. ASSUME RetryScan \/ PinScan \/ Crash \/ UNCHANGED vars PROVE FALSE
  BY <1>2, <1>15 DEF RetryScan, PinScan, Crash, vars
<1> HIDE DEF G
<1>16. G
  BY <1>3, <1>4, <1>5, <1>6, <1>7, <1>8, <1>9, <1>10, <1>11, <1>12, <1>13, <1>14, <1>15
     DEF Next, Proceed, Disturb, RequestStep, TaskStep, Dispatch
<1>17. QED  BY <1>16 DEF G

-----------------------------------------------------------------------------
(* What a step does to one job's task, to the process and to staging.      *)

LEMMA PhaseStep ==
    ASSUME Typed, [Next]_vars, NEW j \in Ids, run'[j] # run[j]
    PROVE  \/ Start(j) \/ TaskStep(j) \/ EngineExit(j) \/ StepRaises(j) \/ Crash
           \/ run[j] = "downloading" /\ run'[j] = "killed"
<1> DEFINE G == \/ Start(j) \/ TaskStep(j) \/ EngineExit(j) \/ StepRaises(j) \/ Crash
                \/ run[j] = "downloading" /\ run'[j] = "killed"
<1> USE DEF Typed
<1>1. run' # run  OBVIOUS
<1>2. ASSUME NEW k \in Ids, NEW from, NEW to, Advance(k, from, to) PROVE k = j
  BY <1>2 DEF Advance
<1>3. ASSUME NEW k \in Ids, Start(k) PROVE G
  BY <1>3 DEF Start
<1>4. ASSUME NEW k \in Ids, TaskStep(k) \/ EngineExit(k) \/ StepRaises(k) PROVE k = j
  <2>1. CASE Release(k)  BY <2>1 DEF Release
  <2>2. CASE ~Release(k)
    BY <1>2, <1>4, <2>2 DEF TaskStep, MarkActive, Spawn, CheckResult, Land, WriteVerdict,
                            EngineExit, StepRaises
  <2>3. QED  BY <2>1, <2>2
<1>5. ASSUME NEW k \in Ids, EngineWrites(k) PROVE FALSE
  BY <1>1, <1>5 DEF EngineWrites
<1>6. ASSUME NEW c \in Clients, RequestStep(c) PROVE G
  BY <1>1, <1>6 DEF RequestStep, WriteState, WritePinned, WriteDelete, AfterWrite, Kill
<1>7. ASSUME RetryNext \/ PinNext \/ Restart \/ RetryScan \/ PinScan \/ UNCHANGED vars
      PROVE  FALSE
  BY <1>1, <1>7 DEF RetryNext, PinNext, Restart, RetryScan, PinScan, vars
<1>8. ASSUME NEW u \in Urls, Submit(u) PROVE FALSE
  BY <1>1, <1>8 DEF Submit
<1>9. ASSUME NEW c \in Clients, ReadFinished(c) PROVE FALSE
  BY <1>1, <1>9 DEF ReadFinished
<1>10. ASSUME NEW c \in Clients, NEW k \in Ids, NEW op \in DOMAIN Accepts,
              ReadJob(c, op, k)
       PROVE  FALSE
  BY <1>1, <1>10 DEF ReadJob
<1> HIDE DEF G
<1>11. CASE \E k \in Ids : TaskStep(k) \/ EngineExit(k) \/ StepRaises(k)
  BY <1>4, <1>11
<1>12. CASE Crash
  BY <1>12
<1>13. CASE G
  BY <1>13 DEF G
<1>14. QED
  BY <1>3, <1>5, <1>6, <1>7, <1>8, <1>9, <1>10, <1>11, <1>12, <1>13
     DEF Next, Proceed, Disturb, Dispatch

\* Only a restart brings the process up.
LEMMA UpStep ==
    ASSUME [Next]_vars, up' # up
    PROVE  Crash \/ Restart
BY DEF Next, Proceed, Disturb, Dispatch, RequestStep, TaskStep, Submit, ReadJob,
       ReadFinished, WriteState, WritePinned, WriteDelete, AfterWrite, Start, MarkActive,
       Spawn, EngineWrites, EngineExit, CheckResult, Land, StepRaises, WriteVerdict,
       Release, Advance, RetryScan, RetryNext, PinScan, PinNext, vars

\* Only a job whose task is between active and its engine's end gains staged files.
LEMMA StageStep ==
    ASSUME [Next]_vars, NEW j \in stage' \ stage
    PROVE  run[j] \in {"active"} \cup Downloading
BY DEF Next, Proceed, Disturb, Dispatch, RequestStep, TaskStep, Submit, ReadJob,
       ReadFinished, WriteState, WritePinned, WriteDelete, AfterWrite, Start, MarkActive,
       Spawn, EngineWrites, EngineExit, CheckResult, Land, StepRaises, WriteVerdict,
       Release, Advance, RetryScan, RetryNext, PinScan, PinNext, Crash, Restart, vars

-----------------------------------------------------------------------------
(* No job is stranded in active.                                           *)

\* A task gives up without a verdict only for a job that is paused or cancelled.
LEMMA StrandedStep ==
    ASSUME Typed, NoStrandedActive, [Next]_vars
    PROVE  NoStrandedActive'
<1> SUFFICES ASSUME up', NEW j \in Ids, table'[j].state = "active"
             PROVE  run'[j] \in MarkedActive
  BY DEF NoStrandedActive, InState
<1>1. CASE table[j].state # "active"
  <2>1. MarkActive(j)  BY <1>1, StatesStep
  <2>2. table' # table  BY <1>1
  <2>3. run' = [run EXCEPT ![j] = "active"]
    BY <2>1, <2>2 DEF MarkActive, Advance
  <2>4. QED  BY <2>3 DEF Typed, MarkedActive
<1>2. CASE table[j].state = "active"
  <2>1. ~Restart
    <3>1. ASSUME Restart PROVE FALSE
      <4>1. table'[j].state = "queued"
        BY <1>2, <3>1, RequeueInterruptedFacts DEF Restart, Typed
      <4>2. QED  BY <4>1
    <3>2. QED  BY <3>1
  <2>2. up /\ ~Crash
    BY <2>1, UpStep DEF Crash, Typed
  <2>3. run[j] \in MarkedActive  BY <1>2, <2>2 DEF NoStrandedActive, InState
  <2>4. CASE run'[j] = run[j]  BY <2>3, <2>4
  <2>5. CASE run'[j] # run[j]
    <3>1. \/ Start(j) \/ TaskStep(j) \/ EngineExit(j) \/ StepRaises(j)
          \/ run'[j] = "killed"
      BY <2>2, <2>5, PhaseStep
    <3>2. ~WriteVerdict(j)
      <4>1. ASSUME WriteVerdict(j) PROVE FALSE
        <5>1. table' = SetState(table, j, "done") \/ table' = SetState(table, j, "error")
          BY <4>1 DEF WriteVerdict
        <5>2. table'[j].state \in {"done", "error"}
          BY <1>2, <5>1, SetStateFacts DEF Typed, JobState
        <5>3. QED  BY <5>2
      <4>2. QED  BY <4>1
    <3>3. ~Release(j) /\ ~Start(j) /\ run[j] # "starting"
      BY <2>3 DEF Release, Start, Startable, Running, MarkedActive, Downloading
    <3>4. CASE Spawn(j) \/ CheckResult(j) \/ Land(j) \/ EngineExit(j) \/ StepRaises(j)
      BY <1>2, <3>4 DEF Spawn, CheckResult, Land, EngineExit, StepRaises, Advance, Typed,
                        MarkedActive, Downloading
    <3>5. CASE MarkActive(j)
      BY <3>3, <3>5 DEF MarkActive, Advance
    <3>6. CASE run'[j] = "killed"
      BY <3>6 DEF MarkedActive, Downloading
    <3>7. QED  BY <3>1, <3>2, <3>3, <3>4, <3>5, <3>6 DEF TaskStep
  <2>6. QED  BY <2>4, <2>5
<1>3. QED  BY <1>1, <1>2

\* While the process serves, every active row has a task that has yet to write its
\* verdict: no race, exception or restart leaves a job active for ever.
THEOREM NothingStranded == Spec => []NoStrandedActive
<1>1. Init => NoStrandedActive
  BY EmptyTableFacts DEF Init, NoStrandedActive, InState
<1>2. IInv /\ NoStrandedActive /\ [Next]_vars => NoStrandedActive'
  BY StrandedStep DEF IInv
<1>3. QED  BY <1>1, <1>2, Invariance, PTL DEF Spec

-----------------------------------------------------------------------------
(* A done job has nothing staged.                                          *)

DoneInv ==
    \A j \in Ids :
        /\ table[j].state = "done" => run[j] \in {"idle", "leaving"} /\ j \notin stage
        /\ run[j] = "landed" => j \notin stage

LEMMA DoneStep ==
    ASSUME Typed, DoneInv, [Next]_vars
    PROVE  DoneInv'
<1> SUFFICES ASSUME NEW j \in Ids
             PROVE  /\ table'[j].state = "done" =>
                            run'[j] \in {"idle", "leaving"} /\ j \notin stage'
                    /\ run'[j] = "landed" => j \notin stage'
  BY DEF DoneInv
<1>1. ASSUME table'[j].state = "done", table[j].state # "done"
      PROVE  run'[j] \in {"idle", "leaving"} /\ j \notin stage'
  <2>1. WriteVerdict(j) /\ run[j] = "landed"  BY <1>1, StatesStep
  <2>2. j \notin stage  BY <2>1 DEF DoneInv
  <2>3. QED  BY <2>1, <2>2 DEF WriteVerdict, Advance, Typed
<1>2. ASSUME table'[j].state = "done", table[j].state = "done"
      PROVE  run'[j] \in {"idle", "leaving"} /\ j \notin stage'
  <2>1. run[j] \in {"idle", "leaving"} /\ j \notin stage  BY <1>2 DEF DoneInv
  <2>2. j \notin stage'  BY <2>1, StageStep DEF Downloading
  <2>3. ~Start(j)  BY <1>2, WindowQueued DEF Start, Startable
  <2>4. CASE run'[j] = run[j]  BY <2>1, <2>2, <2>4
  <2>5. CASE Crash  BY <2>2, <2>5 DEF Crash
  <2>6. CASE TaskStep(j) \/ EngineExit(j) \/ StepRaises(j)
    BY <2>1, <2>2, <2>6, PhaseFacts
       DEF TaskStep, MarkActive, Spawn, CheckResult, Land, WriteVerdict, Release,
           EngineExit, StepRaises, Advance, Downloading, Typed
  <2>7. QED  BY <2>1, <2>2, <2>3, <2>4, <2>5, <2>6, PhaseStep
<1>3. ASSUME run'[j] = "landed" PROVE j \notin stage'
  <2>1. CASE run[j] = "landed"
    BY <2>1, StageStep DEF DoneInv, Downloading
  <2>2. CASE run[j] # "landed"
    <3>1. ~Crash /\ ~Start(j)
      BY <1>3 DEF Crash, Start, Typed
    <3>2. TaskStep(j) \/ EngineExit(j) \/ StepRaises(j)
      BY <1>3, <2>2, <3>1, PhaseStep
    <3>3. Land(j)
      BY <1>3, <3>2 DEF TaskStep, MarkActive, Spawn, CheckResult, WriteVerdict, Release,
                        EngineExit, StepRaises, Advance, Typed
    <3>4. QED  BY <3>3 DEF Land
  <2>3. QED  BY <2>1, <2>2
<1>4. QED  BY <1>1, <1>2, <1>3

\* A done job has no staging directory, whatever raced its completion.
THEOREM DoneIsClean == Spec => []DoneHasNoStaging
<1>1. Init => DoneInv
  BY EmptyTableFacts DEF Init, DoneInv
<1>2. IInv /\ DoneInv /\ [Next]_vars => DoneInv'
  BY DoneStep DEF IInv
<1>3. DoneInv => DoneHasNoStaging
  BY DEF DoneInv, DoneHasNoStaging, InState
<1>4. QED  BY <1>1, <1>2, <1>3, Invariance, PTL DEF Spec

-----------------------------------------------------------------------------
(* Stops hold.                                                             *)

LEMMA StopsStep ==
    ASSUME Typed, FreshIdle, [Next]_vars, NEW j \in Ids,
           table[j].state \in {"paused", "cancelled"}, run[j] = "idle",
           j \notin retryLeft \cup pinLeft, table'[j].state # table[j].state
    PROVE  \E c \in Clients :
              req[c].step = "write" /\ (j \in req[c].jobs \/ req[c].op = "clear")
<1>1. j # nextId  BY DEF FreshIdle, Typed, Ids
<1>2. ~MarkActive(j) /\ ~WriteVerdict(j)
  BY DEF MarkActive, WriteVerdict, Advance
<1>3. \/ \E c \in Clients : WriteState(c) /\ j \in req[c].jobs
      \/ \E c \in Clients : WriteDelete(c) /\ (j \in req[c].jobs \/ req[c].op = "clear")
  <2>1. ~(Restart /\ table[j].state = "active")  OBVIOUS
  <2>2. QED  BY <1>1, <1>2, <2>1, StatesStep
<1>4. ASSUME NEW c \in Clients, WriteState(c) \/ WriteDelete(c)
      PROVE  req[c].step = "write"
  BY <1>4 DEF WriteState, WriteDelete
<1>5. QED  BY <1>3, <1>4

\* A paused or cancelled job whose task is over moves only at a user's request.
THEOREM StopsAreKept == Spec => StopsStick
<1>1. IInv /\ [Next]_vars =>
        [\A j \in InState(table, {"paused", "cancelled"}) :
            (run[j] = "idle" /\ j \notin retryLeft \cup pinLeft
                /\ table'[j].state # table[j].state)
            => \E c \in Clients :
                req[c].step = "write" /\ (j \in req[c].jobs \/ req[c].op = "clear")]_vars
  BY StopsStep DEF IInv, InState
<1>2. QED  BY <1>1, Invariance, PTL DEF Spec, StopsStick

-----------------------------------------------------------------------------
(* What an open job has staged.                                            *)

\* A request names rows that have been inserted, and a delete's row is gone for
\* good once its DELETE has returned.
ReqInv ==
    \A c \in Clients : \A j \in req[c].jobs :
        /\ j < nextId
        /\ (req[c].op = "delete" /\ req[c].step = "after") => table[j].state = "absent"

\* A step gives one client a request, or moves it on; the others keep theirs.
LEMMA RequestsStep ==
    ASSUME Typed, [Next]_vars, NEW c \in Clients, req'[c] # req[c]
    PROVE  \/ req'[c].jobs = {}
           \/ req'[c].jobs \subseteq req[c].jobs /\ req'[c].op # "delete"
           \/ WriteDelete(c)
           \/ ReadFinished(c)
           \/ \E j \in Ids, op \in DOMAIN Accepts : ReadJob(c, op, j)
<1> DEFINE G == \/ req'[c].jobs = {}
                \/ req'[c].jobs \subseteq req[c].jobs /\ req'[c].op # "delete"
                \/ WriteDelete(c)
                \/ ReadFinished(c)
                \/ \E j \in Ids, op \in DOMAIN Accepts : ReadJob(c, op, j)
<1> USE DEF Typed
<1>1. req' # req  OBVIOUS
<1>2. ASSUME NEW d \in Clients, NEW j \in Ids, NEW op \in DOMAIN Accepts,
             ReadJob(d, op, j)
      PROVE  G
  <2>1. d = c  BY <1>2 DEF ReadJob
  <2>2. QED  BY <1>2, <2>1
<1>3. ASSUME NEW d \in Clients, ReadFinished(d) PROVE G
  <2>1. d = c  BY <1>3 DEF ReadFinished
  <2>2. QED  BY <1>3, <2>1
<1>4. ASSUME NEW d \in Clients, RequestStep(d) PROVE G
  <2>1. d = c
    BY <1>4 DEF RequestStep, WriteState, WritePinned, WriteDelete, AfterWrite
  <2>2. CASE WriteState(c)
    <3>1. req[c].op # "delete"  BY <2>2 DEF WriteState, Target
    <3>2. \/ req' = [req EXCEPT ![c] = NoRequest]
          \/ req' = [req EXCEPT ![c] = [@ EXCEPT !.step = "after"]]
      BY <2>2, Zenon DEF WriteState
    <3>3. CASE req' = [req EXCEPT ![c] = NoRequest]
      BY <3>3 DEF NoRequest
    <3>4. CASE req' = [req EXCEPT ![c] = [@ EXCEPT !.step = "after"]]
      BY <3>1, <3>4 DEF Request
    <3>5. QED  BY <3>2, <3>3, <3>4
  <2>3. CASE WritePinned(c) \/ AfterWrite(c)
    BY <2>3 DEF WritePinned, AfterWrite, NoRequest
  <2>4. QED  BY <1>4, <2>1, <2>2, <2>3 DEF RequestStep
<1>5. ASSUME Crash PROVE G
  BY <1>5 DEF Crash, NoRequest
<1>6. ASSUME NEW j \in Ids,
             TaskStep(j) \/ EngineWrites(j) \/ EngineExit(j) \/ StepRaises(j) \/ Start(j)
      PROVE  FALSE
  BY <1>1, <1>6 DEF TaskStep, MarkActive, Spawn, CheckResult, Land, WriteVerdict, Release,
                    EngineWrites, EngineExit, StepRaises, Start, Advance
<1>7. ASSUME NEW u \in Urls, Submit(u) PROVE FALSE
  BY <1>1, <1>7 DEF Submit
<1>8. ASSUME RetryNext \/ PinNext \/ Restart \/ RetryScan \/ PinScan \/ UNCHANGED vars
      PROVE  FALSE
  BY <1>1, <1>8 DEF RetryNext, PinNext, Restart, RetryScan, PinScan, vars
<1> HIDE DEF G
<1>9. G
  BY <1>2, <1>3, <1>4, <1>5, <1>6, <1>7, <1>8 DEF Next, Proceed, Disturb, Dispatch
<1>10. QED  BY <1>9 DEF G

LEMMA ReqStep ==
    ASSUME Typed, FreshIdle, ReqInv, [Next]_vars
    PROVE  ReqInv'
<1> SUFFICES ASSUME NEW c \in Clients, NEW j \in req'[c].jobs
             PROVE  /\ j < nextId'
                    /\ (req'[c].op = "delete" /\ req'[c].step = "after")
                            => table'[j].state = "absent"
  BY DEF ReqInv
<1>1. Typed'  BY TypedStep
<1>2. j \in Ids /\ j \in Nat /\ nextId \in Nat  BY <1>1 DEF Typed, Request, Ids
<1>3. /\ nextId' \in Nat /\ nextId <= nextId'
      /\ \A k \in Ids : (k < nextId /\ table[k].state = "absent")
                            => table'[k].state = "absent"
  <2>1. ASSUME NEW u \in Urls, Submit(u)
        PROVE  /\ nextId' = nextId + 1
               /\ \A k \in Ids : k < nextId => table'[k] = table[k]
    BY <2>1, <1>2 DEF Submit, Insert, Typed, Table
  <2>2. QED  BY <1>2, <2>1, RowsStep
<1>4. \A k \in Ids : table[k].state # "absent" => k < nextId
  BY <1>2 DEF FreshIdle, Ids
<1>5. ASSUME j \in req[c].jobs PROVE j < nextId /\ j < nextId'
  BY <1>2, <1>3, <1>5 DEF ReqInv
<1>6. CASE req'[c] = req[c]
  BY <1>2, <1>3, <1>5, <1>6 DEF ReqInv
<1>7. CASE req'[c].jobs \subseteq req[c].jobs /\ req'[c].op # "delete"
  BY <1>5, <1>7
<1>8. CASE WriteDelete(c)
  <2>1. /\ req'[c].jobs = req[c].jobs /\ req'[c].op = req[c].op
        /\ req[c].op = "delete" => table' = DeleteRows(table, req[c].jobs)
    BY <1>8 DEF WriteDelete, Typed, Request
  <2>2. req[c].jobs \in SUBSET Ids  BY DEF Typed, Request
  <2>3. req[c].op = "delete" => table'[j].state = "absent"
    BY <1>2, <2>1, <2>2, DeleteRowsFacts DEF Typed
  <2>4. QED  BY <1>5, <2>1, <2>3
<1>9. CASE ReadFinished(c)
  <2>1. req'[c].op = "clear" /\ req'[c].jobs = FinishedUnpinned(table)
    BY <1>9 DEF ReadFinished, Typed
  <2>2. table[j].state # "absent"  BY <2>1 DEF FinishedUnpinned, InState
  <2>3. QED  BY <1>2, <1>3, <1>4, <2>1, <2>2
<1>10. ASSUME NEW k \in Ids, NEW op \in DOMAIN Accepts, ReadJob(c, op, k)
       PROVE  j < nextId' /\ req'[c].step # "after"
  <2>1. req'[c].jobs = {k} /\ req'[c].step = "write" /\ table[k].state \in Accepts[op]
    BY <1>10 DEF ReadJob, Typed
  <2>2. table[k].state # "absent"  BY <2>1, AcceptsFacts DEF JobState
  <2>3. QED  BY <1>2, <1>3, <1>4, <2>1, <2>2
<1>11. QED  BY <1>6, <1>7, <1>8, <1>9, <1>10, RequestsStep

\* Staging goes away in three places: after a request, with a cancelled job's end,
\* and with the move of a success.
LEMMA StageLeaves ==
    ASSUME [Next]_vars, NEW j \in stage \ stage'
    PROVE  \/ \E c \in Clients : AfterWrite(c) /\ DropsStaging(req[c]) /\ j \in req[c].jobs
           \/ table[j].state = "cancelled"
           \/ run[j] = "landing"
BY DEF Next, Proceed, Disturb, Dispatch, RequestStep, TaskStep, Submit, ReadJob,
       ReadFinished, WriteState, WritePinned, WriteDelete, AfterWrite, Start, MarkActive,
       Spawn, EngineWrites, EngineExit, CheckResult, Land, StepRaises, WriteVerdict,
       Release, Advance, RetryScan, RetryNext, PinScan, PinNext, Crash, Restart, vars

\* What a queued, active or paused job has staged goes only with its own success or
\* by a request that met it while it was cancelled or finished.
THEOREM PartialsAreKept == Spec => PartialsStay
<1>1. Init => ReqInv
  BY DEF Init, ReqInv, NoRequest
<1>2. IInv /\ ReqInv /\ [Next]_vars => ReqInv'
  BY ReqStep DEF IInv
<1>3. ASSUME IInv, ReqInv, [Next]_vars, NEW j \in InState(table, OpenStates) \cap stage,
             j \notin stage', run[j] # "landing"
      PROVE  \E c \in Clients :
                /\ req[c].step = "after" /\ req[c].op \in {"cancel", "clear"}
                /\ j \in req[c].jobs
  <2>1. table[j].state \in OpenStates  BY <1>3 DEF InState
  <2>2. PICK c \in Clients : AfterWrite(c) /\ DropsStaging(req[c]) /\ j \in req[c].jobs
    BY <1>3, <2>1, StageLeaves DEF OpenStates
  <2>3. req[c].step = "after"  BY <2>2 DEF AfterWrite
  <2>4. req[c].op # "delete"
    BY <1>3, <2>1, <2>2, <2>3 DEF ReqInv, OpenStates
  <2>5. QED  BY <2>2, <2>3, <2>4 DEF DropsStaging
<1>4. IInv /\ ReqInv /\ [Next]_vars =>
        [\A j \in InState(table, OpenStates) \cap stage :
            j \notin stage' =>
                \/ run[j] = "landing"
                \/ \E c \in Clients :
                      /\ req[c].step = "after" /\ req[c].op \in {"cancel", "clear"}
                      /\ j \in req[c].jobs]_vars
  BY <1>3
<1>5. QED  BY <1>1, <1>2, <1>4, Invariance, PTL DEF Spec, PartialsStay

-----------------------------------------------------------------------------
(* The pool implements SlotPool.                                           *)

LEMMA PoolCardinality == \A S : Pool!Cardinality(S) = Cardinality(S)
BY DEF Pool!Cardinality, Cardinality

LEMMA HeldFacts ==
    ASSUME Typed
    PROVE  /\ Pool!Holders = Running
           /\ \A h : Pool!HoldersOf(h) = On(table, run, h)
BY DEF Pool!Holders, Pool!HoldersOf, HeldSlot, Running, On

LEMMA PoolStep ==
    ASSUME IInv, [Next]_vars
    PROVE  [Pool!Next]_HeldSlot
<1> USE DEF IInv
<1>1. CASE UNCHANGED slots /\ \A j \in Ids : run'[j] = "idle" <=> run[j] = "idle"
  <2>1. HeldSlot' = HeldSlot  BY <1>1, HostsKept DEF HeldSlot, Running
  <2>2. QED  BY <2>1
<1>2. ASSUME NEW j \in Ids, Start(j) PROVE Pool!Next
  <2> DEFINE g == HostIn(table, j)
  <2>1. /\ g \in Hosts /\ globalFree > 0 /\ hostFree[g] > 0 /\ run[j] = "idle"
        /\ table' = table /\ run' = [run EXCEPT ![j] = "starting"]
    BY <1>2, CountsFacts DEF Start, Startable, Running
  <2>2. Cardinality(Pool!Holders) < MaxConcurrent
    BY <2>1, HeldFacts, CountsFacts, PoolAssumption DEF Counters, SlotsAccounted
  <2>3. Cardinality(Pool!HoldersOf(g)) < MaxPerHost
    <3>1. hostFree[g] + Cardinality(On(table, run, g)) = MaxPerHost
      BY <2>1 DEF SlotsAccounted, On, Running
    <3>2. QED  BY <2>1, <3>1, HeldFacts, CountsFacts, PoolAssumption DEF Counters
  <2>4. HeldSlot' = [HeldSlot EXCEPT ![j] = {g}] /\ HeldSlot[j] = {}
    BY <2>1 DEF HeldSlot, Typed
  <2> HIDE DEF g
  <2>5. Pool!Take(j, g)  BY <2>2, <2>3, <2>4, PoolCardinality DEF Pool!Take
  <2>6. QED  BY <2>1, <2>5 DEF Pool!Next
<1>3. ASSUME NEW j \in Ids, Release(j) PROVE Pool!Next
  <2>1. HeldSlot' = [HeldSlot EXCEPT ![j] = {}] /\ HeldSlot[j] # {}
    BY <1>3 DEF Release, HeldSlot, Typed
  <2>2. QED  BY <2>1 DEF Pool!Next, Pool!GiveBack
<1>4. CASE Crash
  <2>1. HeldSlot' = [j \in Ids |-> {}]  BY <1>4 DEF Crash, HeldSlot
  <2>2. QED  BY <2>1 DEF Pool!Next, Pool!Reset
<1>5. QED  BY <1>1, <1>2, <1>3, <1>4, TasksStep

\* Slots are taken within both limits and given back once, for any limits.
THEOREM PoolRefinement == Spec => PoolSpec
<1>1. Init => Pool!Init
  BY DEF Init, Pool!Init, HeldSlot
<1>2. IInv /\ [Next]_vars => [Pool!Next]_HeldSlot
  BY PoolStep
<1>3. QED  BY <1>1, <1>2, Invariance, PTL DEF Spec, PoolSpec, Pool!Spec

=============================================================================
