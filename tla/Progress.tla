------------------------------ MODULE Progress ------------------------------
(***************************************************************************)
(* One run of a job and the tasks beside it that write to its row: a       *)
(* progress write per file, the detected directory, the file count probe,  *)
(* the title probe, and a user's rename.  Nothing awaits these tasks, so   *)
(* what keeps the row right is the order in which the event loop and the   *)
(* database thread serve them: both are queues, and each execute, fetch    *)
(* and commit is one entry of the second.                                  *)
(***************************************************************************)
EXTENDS SequencesExt, Naturals

CONSTANTS
    MinFiles, MaxFiles, \* bound: how many files the engine reports
    Counts,             \* what the count probe answers, 0 if it fails
    Earlier,            \* bound: the counts an earlier run may have left in the row
    Setups              \* bound: the probes the configuration enables, and whether
                        \* the user renames the job: subsets of Extras

Extras == {"title", "count", "rename"}

ASSUME ProgressAssumption ==
    /\ MinFiles \in Nat /\ MaxFiles \in Nat /\ MinFiles <= MaxFiles
    /\ Counts \subseteq Nat /\ Earlier \subseteq Nat
    /\ Setups \subseteq SUBSET Extras

VARIABLES
    setup,      \* the probes and requests of this behaviour
    row,        \* state, files_done, files_total, title, dir_name
    pc,         \* how far each task is in its script
    seen,       \* the row, or the engine's answer, each task holds
    ready,      \* tasks the event loop will resume, in order
    dbq,        \* tasks whose operation the database thread will execute, in order
    lines,      \* files reported by the engine
    events      \* history: the events published

vars == <<setup, row, pc, seen, ready, dbq, lines, events>>

Run == <<"run", 0>>
Count == <<"count", 0>>
Title == <<"title", 0>>
User == <<"user", 0>>
Detect == <<"detect", 0>>
Report(n) == <<"progress", n>>
Tasks == {Run, Count, Title, User, Detect} \cup {Report(n) : n \in 1..MaxFiles}

\* What the tasks await, one after the other: "engine" and "probe" are processes,
\* everything else is a call of the database.
RunScript(ok) ==
    IF ok
    THEN <<"activate", "commit", "engine", "get", "fetch", "files", "commit", "get", "fetch",
           "final", "commit", "finish", "commit">>
    ELSE <<"activate", "commit", "engine", "get", "fetch", "fail", "commit">>
CountScript == <<"get", "fetch", "probe", "estimate", "commit", "get", "fetch">>
TitleScript == <<"get", "fetch", "probe", "fill", "commit">>
RenameScript == <<"get", "fetch", "name", "commit">>

Script(t) ==
    CASE t[1] = "run" -> RunScript(seen[t].ok)
      [] t[1] \in {"progress", "detect"} -> <<t[1], "commit">>
      [] t[1] = "count" -> CountScript
      [] t[1] = "title" -> TitleScript
      [] t[1] = "user" -> RenameScript

Op(t) == Script(t)[pc[t]]
NewRow == [state |-> "queued", done |-> 0, total |-> 0, title |-> "none", dir |-> "none"]

\* A retry, a resume and a recheck reset none of what the run before has written.
LeftBy(n, m) == [NewRow EXCEPT !.done = n, !.total = m, !.dir = "earlier"]
RowsBefore == {NewRow} \cup {LeftBy(n, m) : n \in Earlier, m \in Earlier \cup {0}}

Nothing == [row |-> NewRow, ok |-> TRUE, answer |-> 0, applied |-> TRUE]

Init ==
    /\ setup \in Setups
    /\ row \in RowsBefore
    /\ pc = [t \in Tasks |-> 0]
    /\ seen = [t \in Tasks |-> Nothing]
    /\ ready = <<Run>> /\ dbq = <<>>
    /\ lines = 0 /\ events = <<>>

-----------------------------------------------------------------------------
(* The database                                                            *)

\* Variants of Estimated and Titled for mutation: no WHERE beside the id.
EstimatedAlways(t) == [row EXCEPT !.total = seen[t].answer]
TitledAlways(t) == [row EXCEPT !.title = "scraped"]

\* set_files_total_estimate and set_title_if_missing
Estimated(t) ==
    IF row.state = "active" /\ row.total = 0 THEN [row EXCEPT !.total = seen[t].answer] ELSE row
Titled(t) == IF row.title = "none" THEN [row EXCEPT !.title = "scraped"] ELSE row

Effect(t) ==
    CASE Op(t) = "activate" -> [row EXCEPT !.state = "active"]
      [] Op(t) = "progress" -> [row EXCEPT !.done = t[2]]
      [] Op(t) = "detect" -> [row EXCEPT !.dir = "found"]
      [] Op(t) = "estimate" -> Estimated(t)
      [] Op(t) = "fill" -> Titled(t)
      [] Op(t) = "name" -> [row EXCEPT !.title = "user"]
      [] Op(t) = "final" -> [row EXCEPT !.done = lines, !.total = lines]
      [] Op(t) = "finish" -> [row EXCEPT !.state = "done"]
      [] Op(t) = "fail" -> [row EXCEPT !.state = "error"]
      [] OTHER -> row

Execute(i) ==
    LET t == dbq[i]
    IN  /\ row' = Effect(t)
        /\ seen' = CASE Op(t) = "get" -> [seen EXCEPT ![t].row = row]
                     [] Op(t) = "estimate" -> [seen EXCEPT ![t].applied = row' # row]
                     [] OTHER -> seen
        /\ dbq' = RemoveAt(dbq, i)
        /\ ready' = Append(ready, t)
        /\ UNCHANGED <<pc, lines, events>>

\* Variant of Serve for mutation: a pool of connections.
ServeAny == \E i \in DOMAIN dbq : Execute(i)

\* The one thread of the one connection.
Serve == dbq # <<>> /\ Execute(1)

-----------------------------------------------------------------------------
(* The event loop                                                          *)

\* Tasks a step of t creates; a probe that is not enabled returns at once.
Spawned(t) ==
    IF t = Run /\ pc[t] = 2
    THEN (IF "title" \in setup THEN <<Title>> ELSE <<>>) \o
         (IF "count" \in setup THEN <<Count>> ELSE <<>>)
    ELSE <<>>

\* The early returns of the two probes.
GivesUp(t) ==
    \/ t = Title /\ Op(t) = "fetch" /\ seen[t].row.title # "none"
    \/ t = Count /\ pc[t] = 2 /\ seen[t].row.total > 0
    \/ t \in {Title, Count} /\ Op(t) = "probe" /\ seen[t].answer = 0
    \/ t \in {Title, Count} /\ Op(t) = "commit" /\ ~seen[t].applied

\* What t publishes when its last operation has returned; the title probe repeats the
\* state it read before the engine answered.
Published(t) ==
    CASE t = Run -> <<[type |-> "state", state |-> IF seen[t].ok THEN "done" ELSE "error", total |-> 0]>>
      [] t = Count -> <<[type |-> "progress", state |-> "", total |-> seen[t].answer]>>
      [] t = Title -> <<[type |-> "state", state |-> seen[t].row.state, total |-> 0]>>
      [] t[1] = "progress" -> <<[type |-> "progress", state |-> "", total |-> 0]>>
      [] OTHER -> <<>>

\* The next task in the queue runs up to its next await, or to its end.
Resume ==
    /\ ready # <<>>
    /\ LET t == Head(ready)
           ends == pc[t] > 0 /\ (GivesUp(t) \/ pc[t] = Len(Script(t)))
           next == pc[t] + 1
       IN  /\ ready' = Tail(ready) \o Spawned(t)
           /\ pc' = [pc EXCEPT ![t] = IF ends THEN 99 ELSE next]
           /\ dbq' = IF ends \/ Script(t)[next] \in {"engine", "probe"} THEN dbq ELSE Append(dbq, t)
           /\ events' = IF ends /\ ~GivesUp(t) THEN events \o Published(t) ELSE events
    /\ UNCHANGED <<row, seen, lines>>

\* on_progress: the first line of a directory also writes dir_name.
Line ==
    /\ pc[Run] = 3 /\ lines < MaxFiles
    /\ lines' = lines + 1
    /\ ready' = ready \o (IF lines = 0 THEN <<Detect>> ELSE <<>>) \o <<Report(lines + 1)>>
    /\ UNCHANGED <<row, pc, seen, dbq, events>>

\* The engine exits; the run goes on in the same step as its last line, if it came with it.
Exit ==
    /\ pc[Run] = 3 /\ lines >= MinFiles
    /\ \E ok \in BOOLEAN : seen' = [seen EXCEPT ![Run].ok = ok]
    /\ pc' = [pc EXCEPT ![Run] = 4]
    /\ dbq' = Append(dbq, Run)
    /\ UNCHANGED <<row, ready, lines, events>>

\* A probe's process ends, at any time.
Answer(t) ==
    /\ pc[t] = 3 /\ Op(t) = "probe" /\ t \notin Range(ready)
    /\ \E a \in IF t = Count THEN Counts ELSE {0, 1} : seen' = [seen EXCEPT ![t].answer = a]
    /\ ready' = Append(ready, t)
    /\ UNCHANGED <<row, pc, dbq, lines, events>>

\* A rename comes in; every path of its handler sets the title.
Rename ==
    /\ "rename" \in setup /\ pc[User] = 0 /\ User \notin Range(ready)
    /\ ready' = Append(ready, User)
    /\ UNCHANGED <<row, pc, seen, dbq, lines, events>>

Step == Serve \/ Resume \/ Line \/ Exit \/ Answer(Count) \/ Answer(Title) \/ Rename
Next == Step /\ UNCHANGED setup

Spec == Init /\ [][Next]_vars

-----------------------------------------------------------------------------
(* Properties                                                              *)

\* Once the run has published the end of a successful download the counts are
\* those of the engine, whatever was still on its way then; nothing queued can
\* change them any more.
FinalCountsStand ==
    [type |-> "state", state |-> "done", total |-> 0] \in Range(events) =>
        row.done = lines /\ row.total = lines

\* The database thread has executed a progress write of this run.
Written == \E n \in 1..MaxFiles : pc[Report(n)] > 1 \/ (pc[Report(n)] = 1 /\ Report(n) \notin Range(dbq))

\* Once a run has written files_done the count does not go back while it lasts.  (Its
\* first write may replace a larger count of the run before.)
CountsRise == [][Written => row'.done >= row.done]_vars

\* A progress event patches the counters the page shows without reading the row, so
\* none may follow the event of the run's success.
NoProgressAfterDone ==
    [][\A n \in DOMAIN events' \ DOMAIN events :
          events'[n].type = "progress" => \A m \in DOMAIN events : events[m].state # "done"]_vars

\* A scraped title never replaces the name a user chose, in whatever order probe
\* and rename read and write.
ChosenTitleStays == [][row.title = "user" => row'.title = "user"]_vars

\* When the run reads the row to apply a pending rename, the directory on_progress
\* saw is in it.
DirectoryIsKnown == pc[Run] \in 9..13 /\ lines > 0 /\ seen[Run].ok => seen[Run].row.dir = "found"
=============================================================================
