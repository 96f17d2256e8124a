----------------------------- MODULE OutputDirs -----------------------------
(***************************************************************************)
(* Where a job's files are and where its row says they are: the end of a   *)
(* download, the rename and merge handlers, and the pin recheck.  All of   *)
(* them read rows, have a thread move files one by one, and update rows    *)
(* afterwards, each in a step of its own.  What JobQueue models of a job's *)
(* life is reduced to queued, active, done and error here.                 *)
(*                                                                         *)
(* A task is a request of a client, the pin loop at a job, or the run of a *)
(* job.  at says what it does next; thread is the call of rename_dir,      *)
(* merge_dirs or gather_into_dir it awaits.                                *)
(***************************************************************************)
EXTENDS FileTree

CONSTANTS
    NoDir,      \* dir_name = '' and rename_to = None
    Worlds      \* bound: the situations to start from

ASSUME DirsAssumption ==
    \A w \in Worlds :
        /\ w.jobs \subseteq Nat \ {0} /\ w.clients \cap w.jobs = {}
        /\ w.jobs \subseteq DOMAIN w.dest \cap DOMAIN w.dir \cap DOMAIN w.apart \cap DOMAIN w.files \cap DOMAIN w.names
        /\ \A j \in w.jobs : w.state[j] \in {"queued", "done", "error"}
        /\ \A path \in Range(w.dest) : path \in Seq(Range(path))
        /\ \A m \in w.merges : m.jobs \in Seq(w.jobs) /\ Len(m.jobs) >= 2 /\ IsInjective(m.jobs)
        /\ \A due \in w.rechecked \cup w.retried : due[2] \in {"done", "error"}
        /\ w.runs \in Nat /\ w.overlap \in BOOLEAN /\ w.crash \in BOOLEAN

VARIABLES
    world,      \* the jobs, their files, and what may happen to them
    rows,       \* state, dest, dir_name, rename_to, group_id, group_name, file_paths
    disk,       \* the tree under downloads.dest
    task,       \* the requests and runs in progress
    runs,       \* downloads started
    asked,      \* history: the name last accepted for each job by rename
    crashed     \* history: the process has died

vars == <<world, rows, disk, task, runs, asked, crashed>>

Jobs == world.jobs              \* ids, numbers as in the table
Clients == world.clients        \* bound: requests in progress at a time
StateOf == world.state          \* the state each job starts in
DestOf == world.dest            \* its dest sub-path: a sequence of directory names
DirOf == world.dir              \* the directory its source makes, NoDir if files land flat
ApartOf == world.apart          \* the files its source puts in other directories, and which
FilesOf == world.files          \* the names of its files
NamesOf == world.names          \* the names users rename each job to
Merges == world.merges          \* the merges users ask for: [jobs, name]
Rechecked == world.rechecked    \* bound: <<job, state>> the pin loop finds due
Retried == world.retried        \* bound: <<job, state>> users retry
MaxRuns == world.runs           \* bound: downloads started
Overlap == world.overlap        \* bound: FALSE if requests and ends of runs wait for each other
MayCrash == world.crash

Open == {"queued", "active"}
Tasks == Clients \cup Jobs
NoThread ==
    [mode |-> "none", from |-> <<>>, to |-> <<>>, todo |-> {}, goal |-> <<>>, more |-> <<>>, then |-> "idle"]
NoTask == [at |-> "idle", jobs |-> <<>>, i |-> 1, name |-> NoDir, seen |-> <<>>, thread |-> NoThread]

Idle(t) == task[t].at = "idle"
Quiet == \A t \in Tasks : task[t].at \in {"idle", "downloading", "detected"}
MayBegin == Overlap \/ Quiet

Becomes(t, tk) == task' = [task EXCEPT ![t] = tk]
Goto(t, at) == task' = [task EXCEPT ![t].at = at]
End(t) == Becomes(t, NoTask)
Updated(row, update) == [f \in DOMAIN row |-> IF f \in DOMAIN update THEN update[f] ELSE row[f]]
Set(j, update) == rows' = [rows EXCEPT ![j] = Updated(@, update)]

OutputDir(row) == row.dest \o <<row.dir>>

\* The directories a job's files come in, and its files as the engine reports them,
\* relative to its destination.
DirsOf(j) == ({DirOf[j]} \cup Range(ApartOf[j])) \ {NoDir}
TopOf(j, f) == IF f \in DOMAIN ApartOf[j] THEN ApartOf[j][f] ELSE DirOf[j]
Downloads(j) ==
    {Path(IF TopOf(j, f) = NoDir THEN <<>> ELSE <<TopOf(j, f)>>, f) : f \in FilesOf[j]}

\* Where _move_tree puts them.
Landing(dest, j) == {In(dest, rel) : rel \in Downloads(j)}

\* The directory names of a world.
NamesIn(w) ==
    {NoDir} \cup Range(w.dir) \cup (UNION {Range(w.apart[j]) : j \in w.jobs})
        \cup (UNION Range(w.names)) \cup {m.name : m \in w.merges}
NameSet == NamesIn(world)

NewRow(j) ==
    [state |-> StateOf[j], dest |-> DestOf[j], rename_to |-> NoDir, group |-> 0, gname |-> NoDir,
     dir |-> IF StateOf[j] = "done" THEN DirOf[j] ELSE NoDir,
     files |-> IF StateOf[j] = "done" THEN Downloads(j) ELSE {}]

Init ==
    /\ world \in Worlds
    /\ rows = [j \in Jobs |-> NewRow(j)]
    /\ disk = LET done == {j \in Jobs : StateOf[j] = "done"}
              IN  [p \in UNION {Landing(DestOf[j], j) : j \in done} |->
                      <<CHOOSE j \in done : p \in Landing(DestOf[j], j), p.name>>]
    /\ task = [t \in Tasks |-> NoTask]
    /\ runs = 0
    /\ asked = [j \in Jobs |-> NoDir]
    /\ crashed = FALSE

-----------------------------------------------------------------------------
(* The thread that moves files.  A call of it is a record; the task awaits *)
(* it and goes on at `then` when it returns.                               *)

Renaming(src, dst, then) == [NoThread EXCEPT !.mode = "rename", !.from = src, !.to = dst, !.then = then]
Merging(sources, dst, then) == [NoThread EXCEPT !.mode = "aside", !.more = sources, !.to = dst, !.then = then]
Gathering(base, rels, dst, then) ==
    [NoThread EXCEPT !.mode = "gather", !.from = base, !.todo = rels, !.to = dst, !.then = then]

\* await asyncio.to_thread(...)
Await(tk, th) == [tk EXCEPT !.at = IF th.mode = "gather" THEN "moving" ELSE "thread", !.thread = th]

\* An exception of the thread: the request ends with a 500, the run with an error.
Raise(t) == IF t \in Jobs THEN Goto(t, "failed") ELSE End(t)

\* rename_dir looks whether the target is there.
TestTarget(t) ==
    LET th == task[t].thread
    IN  /\ task[t].at = "thread" /\ th.mode = "rename"
        /\ task' = [task EXCEPT ![t].thread.mode = IF IsDir(disk, th.to) THEN "over" ELSE "whole"]
        /\ UNCHANGED <<rows, disk, runs, asked>>

\* It is: _move_tree lists what is below the source.
ListTree(t) ==
    /\ task[t].at = "thread" /\ task[t].thread.mode = "over"
    /\ task' = [task EXCEPT ![t].at = "moving", ![t].thread.todo = RelFiles(disk, task[t].thread.from)]
    /\ UNCHANGED <<rows, disk, runs, asked>>

\* Variant of ReplaceDir for mutation: a directory of that name is replaced.
ReplaceDirOver(t) ==
    LET th == task[t].thread
    IN  /\ task[t].at = "thread" /\ th.mode = "whole"
        /\ disk' = RenameTree(RemoveTree(disk, th.to), th.from, th.to)
        /\ Goto(t, th.then)
        /\ UNCHANGED <<rows, runs, asked>>

\* It was not: os.replace.  If a directory has come there since, os.replace fails and
\* shutil.move puts the source below that directory, or raises if its name is taken.
ReplaceDir(t) ==
    LET th == task[t].thread
        goal == IF IsDir(disk, th.to) THEN th.to \o <<Last(th.from)>> ELSE th.to
    IN  /\ task[t].at = "thread" /\ th.mode = "whole"
        /\ \/ /\ IsDir(disk, th.from) /\ ~IsDir(disk, goal)
              /\ disk' = RenameTree(disk, th.from, goal)
              /\ Goto(t, th.then)
           \/ /\ ~IsDir(disk, th.from) \/ IsDir(disk, goal)
              /\ Raise(t)
              /\ UNCHANGED disk
        /\ UNCHANGED <<rows, runs, asked>>

\* merge_dirs at its next source: one that is gone, or is dst itself, is skipped.
NextSource(t) ==
    LET th == task[t].thread
    IN  /\ task[t].at = "thread" /\ th.mode = "aside"
        /\ IF th.more = <<>> THEN Goto(t, th.then)
           ELSE LET src == Head(th.more)
                    todo == IF src = th.to THEN {} ELSE RelFiles(disk, src)
                IN  Becomes(t, [task[t] EXCEPT !.at = IF todo = {} THEN "thread" ELSE "moving",
                                    !.thread = [@ EXCEPT !.more = Tail(th.more), !.from = src, !.todo = todo]])
        /\ UNCHANGED <<rows, disk, runs, asked>>

\* The next file of the loops of _move_tree ("over"), merge_dirs ("aside") and
\* gather_into_dir ("gather").  The latter two look before they move it: for a name
\* that is free, and for the file, which is skipped if it is gone.
TestFile(t) ==
    LET th == task[t].thread
        rel == CHOOSE p \in th.todo : TRUE
        dst == In(th.to, rel)
    IN  /\ task[t].at = "moving" /\ th.todo # {} /\ th.goal = <<>>
        /\ \/ /\ th.mode = "aside"
              /\ task' = [task EXCEPT ![t].thread.goal = <<FreeTarget(disk, dst)>>]
           \/ /\ th.mode = "gather" /\ In(th.from, rel) \in DOMAIN disk
              /\ task' = [task EXCEPT ![t].thread.goal = <<dst>>]
           \/ /\ th.mode = "gather" /\ In(th.from, rel) \notin DOMAIN disk
              /\ task' = [task EXCEPT ![t].thread.todo = @ \ {rel}]
        /\ UNCHANGED <<rows, disk, runs, asked>>

\* os.replace of the file, onto whatever has come there since; it raises if the file
\* is gone.
MoveFile(t) ==
    LET th == task[t].thread
        rel == CHOOSE p \in th.todo : TRUE
        src == In(th.from, rel)
        dst == IF th.mode = "over" THEN In(th.to, rel) ELSE th.goal[1]
    IN  /\ task[t].at = "moving" /\ th.todo # {} /\ (th.mode = "over" \/ th.goal # <<>>)
        /\ \/ /\ src \in DOMAIN disk
              /\ disk' = Replace(disk, src, dst)
              /\ task' = [task EXCEPT ![t].thread.todo = @ \ {rel}, ![t].thread.goal = <<>>]
           \/ /\ src \notin DOMAIN disk
              /\ Raise(t)
              /\ UNCHANGED disk
        /\ UNCHANGED <<rows, runs, asked>>

\* After the last file the source is removed, with whatever is there by then.
EndSource(t) ==
    LET th == task[t].thread
    IN  /\ task[t].at = "moving" /\ th.todo = {}
        /\ disk' = IF th.mode = "gather" THEN disk ELSE RemoveTree(disk, th.from)
        /\ Goto(t, IF th.mode = "aside" THEN "thread" ELSE th.then)
        /\ UNCHANGED <<rows, runs, asked>>

Existing(base, rels) == {rel \in rels : In(base, rel) \in DOMAIN disk}

-----------------------------------------------------------------------------
(* rename                                                                  *)

RenameRequested(c) ==
    /\ Idle(c) /\ MayBegin
    /\ \E j \in Jobs : \E n \in NamesOf[j] :
          Becomes(c, [NoTask EXCEPT !.at = "rename", !.jobs = <<j>>, !.name = n, !.seen = <<rows[j]>>])
    /\ UNCHANGED <<rows, disk, runs, asked>>

DeferRename(c) ==
    LET j == task[c].jobs[1]
    IN  /\ task[c].at = "rename" /\ task[c].seen[1].state \in Open
        /\ Set(j, [rename_to |-> task[c].name])
        /\ asked' = [asked EXCEPT ![j] = task[c].name]
        /\ End(c)
        /\ UNCHANGED <<disk, runs>>

\* Variant of RenameNow for mutation: whether the files exist is not checked.
RenameNowUnchecked(c) ==
    LET job == task[c].seen[1]
        loose == rows[task[c].jobs[1]].files
        target == job.dest \o <<task[c].name>>
    IN  /\ task[c].at = "rename" /\ job.state \notin Open
        /\ IF job.dir = NoDir
           THEN Becomes(c, Await(task[c], Gathering(job.dest, loose, target, "renamed")))
           ELSE IF job.dir = task[c].name THEN End(c)
           ELSE Becomes(c, Await(task[c], Renaming(OutputDir(job), target, "renamed")))
        /\ asked' = IF job.dir # NoDir /\ job.dir = task[c].name
                    THEN [asked EXCEPT ![task[c].jobs[1]] = task[c].name] ELSE asked
        /\ UNCHANGED <<rows, disk, runs>>

\* The job has finished: its directory is renamed, or its files are gathered.  Nothing
\* is left to do, and the request accepted, if it has the name already; without files
\* it is answered 409.
RenameNow(c) ==
    LET job == task[c].seen[1]
        loose == Existing(job.dest, rows[task[c].jobs[1]].files)
        target == job.dest \o <<task[c].name>>
    IN  /\ task[c].at = "rename" /\ job.state \notin Open
        /\ CASE job.dir = NoDir /\ loose # {} ->
                    Becomes(c, Await(task[c], Gathering(job.dest, loose, target, "renamed")))
             [] job.dir \notin {NoDir, task[c].name} /\ IsDir(disk, OutputDir(job)) ->
                    Becomes(c, Await(task[c], Renaming(OutputDir(job), target, "renamed")))
             [] OTHER -> End(c)
        /\ asked' = IF job.dir # NoDir /\ job.dir = task[c].name
                    THEN [asked EXCEPT ![task[c].jobs[1]] = task[c].name] ELSE asked
        /\ UNCHANGED <<rows, disk, runs>>

WriteRenamed(c) ==
    LET j == task[c].jobs[1]
    IN  /\ c \in Clients /\ task[c].at = "renamed"
        /\ Set(j, [dir |-> task[c].name])
        /\ asked' = [asked EXCEPT ![j] = task[c].name]
        /\ End(c)
        /\ UNCHANGED <<disk, runs>>

-----------------------------------------------------------------------------
(* merge                                                                   *)

MergeRequested(c) ==
    /\ Idle(c) /\ MayBegin
    /\ \E m \in Merges :
          Becomes(c, [NoTask EXCEPT !.at = "reading", !.jobs = m.jobs, !.name = m.name])
    /\ UNCHANGED <<rows, disk, runs, asked>>

\* The first existing group among the members, or the first member's id.
GroupOf(tk) ==
    LET k == SelectInSeq(tk.seen, LAMBDA r : r.group # 0)
    IN  IF k = 0 THEN tk.jobs[1] ELSE tk.seen[k].group
Target(tk) == tk.seen[1].dest \o <<tk.name>>
HasDir(row) == row.state = "done" /\ row.dir # NoDir

\* One member's row, and the directory it contributes; after the last one the
\* directories are checked.
ReadMember(c) ==
    LET row == rows[task[c].jobs[Len(task[c].seen) + 1]]
        found == task[c].thread.more
        sources == IF HasDir(row) THEN Append(found, OutputDir(row)) ELSE found
        tk == [task[c] EXCEPT !.seen = Append(@, row), !.thread.more = sources]
    IN  /\ task[c].at = "reading"
        /\ CASE Len(tk.seen) < Len(tk.jobs) -> Becomes(c, tk)
             [] OTHER ->
                  IF \E k \in DOMAIN sources : ~IsDir(disk, sources[k]) THEN End(c)
                  ELSE Becomes(c, Await(tk, Merging(sources, Target(tk), "gathering")))
        /\ UNCHANGED <<rows, disk, runs, asked>>

\* Finished members whose files landed flat, one after the other.
GatherMember(c) ==
    LET tk == task[c]
        job == tk.seen[tk.i]
        loose == IF job.state = "done" /\ job.dir = NoDir
                 THEN Existing(job.dest, rows[tk.jobs[tk.i]].files) ELSE {}
        next == [tk EXCEPT !.i = @ + 1]
    IN  /\ tk.at = "gathering"
        /\ CASE tk.i > Len(tk.jobs) -> Becomes(c, [tk EXCEPT !.at = "updating", !.i = 1])
             [] tk.i <= Len(tk.jobs) /\ loose = {} -> Becomes(c, next)
             [] OTHER -> Becomes(c, Await(next, Gathering(job.dest, loose, Target(tk), "gathering")))
        /\ UNCHANGED <<rows, disk, runs, asked>>

\* Variant of UpdateMember for mutation: unfinished members get no pending name.
UpdateAsDone(c) ==
    LET tk == task[c]
    IN  /\ tk.at = "updating"
        /\ Set(tk.jobs[tk.i], [group |-> GroupOf(tk), gname |-> tk.name,
                               dir |-> tk.name, dest |-> tk.seen[1].dest])
        /\ Becomes(c, [tk EXCEPT !.i = @ + 1, !.at = IF tk.i = Len(tk.jobs) THEN "naming" ELSE @])
        /\ UNCHANGED <<disk, runs, asked>>

UpdateMember(c) ==
    LET tk == task[c]
        group == GroupOf(tk)
    IN  /\ tk.at = "updating"
        /\ Set(tk.jobs[tk.i],
               IF tk.seen[tk.i].state = "done"
               THEN [group |-> group, gname |-> tk.name, dir |-> tk.name, dest |-> tk.seen[1].dest]
               ELSE [group |-> group, gname |-> tk.name, rename_to |-> tk.name])
        /\ Becomes(c, [tk EXCEPT !.i = @ + 1, !.at = IF tk.i = Len(tk.jobs) THEN "naming" ELSE @])
        /\ UNCHANGED <<disk, runs, asked>>

\* Variant of SetGroupName for mutation: only the members of the request are named.
NameNothing(c) ==
    /\ task[c].at = "naming"
    /\ End(c)
    /\ UNCHANGED <<rows, disk, runs, asked>>

SetGroupName(c) ==
    /\ task[c].at = "naming"
    /\ rows' = [j \in Jobs |-> IF rows[j].group = GroupOf(task[c])
                               THEN [rows[j] EXCEPT !.gname = task[c].name] ELSE rows[j]]
    /\ End(c)
    /\ UNCHANGED <<disk, runs, asked>>

-----------------------------------------------------------------------------
(* retry and the pin loop put a finished job back into the queue           *)

Retry ==
    /\ MayBegin
    /\ \E j \in Jobs : <<j, rows[j].state>> \in Retried /\ Set(j, [state |-> "queued"])
    /\ UNCHANGED <<disk, task, runs, asked>>

\* list_pinned_due
DueListed(c) ==
    /\ Idle(c) /\ MayBegin
    /\ \E j \in Jobs :
          /\ <<j, rows[j].state>> \in Rechecked
          /\ Becomes(c, [NoTask EXCEPT !.at = "due", !.jobs = <<j>>, !.seen = <<rows[j]>>])
    /\ UNCHANGED <<rows, disk, runs, asked>>

\* Variant of RequeueDue for mutation: the renamed directory is not recorded.
RequeueOnly(c) ==
    /\ task[c].at = "due"
    /\ Set(task[c].jobs[1], [state |-> "queued"])
    /\ End(c)
    /\ UNCHANGED <<disk, runs, asked>>

RequeueDue(c) ==
    /\ task[c].at = "due"
    /\ Set(task[c].jobs[1], [state |-> "queued", rename_to |-> task[c].seen[1].dir])
    /\ End(c)
    /\ UNCHANGED <<disk, runs, asked>>

-----------------------------------------------------------------------------
(* The run of a job                                                        *)

StartRun(j) ==
    /\ Idle(j) /\ rows[j].state = "queued" /\ runs < MaxRuns
    /\ runs' = runs + 1
    /\ Set(j, [state |-> "active"])
    /\ Becomes(j, [NoTask EXCEPT !.at = "downloading", !.seen = <<rows[j]>>])
    /\ UNCHANGED <<disk, asked>>

\* on_progress sees a file below another directory than the one before (seen_dir).
DetectDir(j) ==
    /\ task[j].at \in {"downloading", "detected"}
    /\ \E d \in DirsOf(j) \ {task[j].name} :
          /\ Set(j, [dir |-> d])
          /\ Becomes(j, [task[j] EXCEPT !.at = "detected", !.name = d])
    /\ UNCHANGED <<disk, runs, asked>>

\* The engine succeeds; a thread moves what it has staged.
Downloaded(j) ==
    /\ task[j].at = IF DirsOf(j) = {} THEN "downloading" ELSE "detected"
    /\ MayBegin
    /\ task' = [task EXCEPT ![j].at = "landing", ![j].thread.todo = Downloads(j)]
    /\ UNCHANGED <<rows, disk, runs, asked>>

\* One file of it.
LandFile(j) ==
    /\ task[j].at = "landing"
    /\ \E rel \in task[j].thread.todo :
          LET path == In(task[j].seen[1].dest, rel)
          IN  /\ disk' = [p \in DOMAIN disk \cup {path} |-> IF p = path THEN <<j, rel.name>> ELSE disk[p]]
              /\ task' = [task EXCEPT ![j].thread.todo = @ \ {rel}]
    /\ UNCHANGED <<rows, runs, asked>>

RecordFiles(j) ==
    /\ task[j].at = "landing" /\ task[j].thread.todo = {}
    /\ Set(j, [files |-> Downloads(j)])
    /\ Goto(j, "recorded")
    /\ UNCHANGED <<disk, runs, asked>>

\* _apply_pending_rename up to the thread.
ReadPending(j) ==
    LET base == task[j].seen[1].dest
        job == rows[j]
        tk == [task[j] EXCEPT !.name = job.rename_to]
        src == base \o <<job.dir>>
        target == base \o <<job.rename_to>>
    IN  /\ task[j].at = "recorded"
        /\ CASE job.rename_to = NoDir -> Goto(j, "verdict")
             [] job.rename_to \notin {NoDir, job.dir} /\ job.dir # NoDir /\ IsDir(disk, src) ->
                    Becomes(j, Await(tk, Renaming(src, target, "renamed")))
             [] job.rename_to \notin {NoDir, job.dir} /\ ~(job.dir # NoDir /\ IsDir(disk, src))
                    /\ job.files # {} ->
                    Becomes(j, Await(tk, Gathering(base, job.files, target, "renamed")))
             [] OTHER -> Goto(j, "clearing")
        /\ UNCHANGED <<rows, disk, runs, asked>>

\* Variant of WriteApplied for mutation: the pending name stays.
WriteAppliedOnly(j) ==
    /\ j \in Jobs /\ task[j].at = "renamed"
    /\ Set(j, [dir |-> task[j].name])
    /\ Goto(j, "verdict")
    /\ UNCHANGED <<disk, runs, asked>>

WriteApplied(j) ==
    /\ j \in Jobs /\ task[j].at = "renamed"
    /\ Set(j, [dir |-> task[j].name, rename_to |-> NoDir])
    /\ Goto(j, "verdict")
    /\ UNCHANGED <<disk, runs, asked>>

ClearPending(j) ==
    /\ task[j].at = "clearing"
    /\ Set(j, [rename_to |-> NoDir])
    /\ Goto(j, "verdict")
    /\ UNCHANGED <<disk, runs, asked>>

Finish(j) ==
    /\ task[j].at = "verdict"
    /\ Set(j, [state |-> "done"])
    /\ End(j)
    /\ UNCHANGED <<disk, runs, asked>>

\* Variant of FailRun for mutation: the exception is only logged.
FailSilently(j) ==
    /\ task[j].at \in {"downloading", "detected", "failed"}
    /\ End(j)
    /\ UNCHANGED <<rows, disk, runs, asked>>

\* The engine fails, or the move raised.
FailRun(j) ==
    /\ task[j].at \in {"downloading", "detected", "failed"}
    /\ Set(j, [state |-> "error"])
    /\ End(j)
    /\ UNCHANGED <<disk, runs, asked>>

\* Threads and requests die with the process; interrupted jobs are requeued.
Crash ==
    /\ MayCrash
    /\ crashed' = TRUE
    /\ task' = [t \in Tasks |-> NoTask]
    /\ rows' = [j \in Jobs |-> IF rows[j].state = "active"
                               THEN [rows[j] EXCEPT !.state = "queued"] ELSE rows[j]]
    /\ UNCHANGED <<disk, runs, asked>>

ThreadStep(t) ==
    \/ TestTarget(t) \/ ListTree(t) \/ ReplaceDir(t)
    \/ NextSource(t) \/ TestFile(t) \/ MoveFile(t) \/ EndSource(t)

Step ==
    \/ \E t \in Tasks : ThreadStep(t)
    \/ \E c \in Clients :
          \/ RenameRequested(c) \/ DeferRename(c) \/ RenameNow(c) \/ WriteRenamed(c)
          \/ MergeRequested(c) \/ ReadMember(c) \/ GatherMember(c) \/ UpdateMember(c) \/ SetGroupName(c)
          \/ DueListed(c) \/ RequeueDue(c)
    \/ \E j \in Jobs :
          \/ StartRun(j) \/ DetectDir(j) \/ Downloaded(j) \/ LandFile(j) \/ RecordFiles(j) \/ ReadPending(j)
          \/ WriteApplied(j) \/ ClearPending(j) \/ Finish(j) \/ FailRun(j)
    \/ Retry

Next == (Step /\ UNCHANGED <<world, crashed>>) \/ (Crash /\ UNCHANGED world)

Spec == Init /\ [][Next]_vars

-----------------------------------------------------------------------------
(* Properties                                                              *)

RowType ==
    [state : Open \cup {"done", "error"}, dest : Range(DestOf), dir : NameSet, rename_to : NameSet,
     group : Jobs \cup {0}, gname : NameSet, files : SUBSET UNION {Downloads(j) : j \in Jobs}]

\* Types, and: an active row has its run in this process, so no way a run can
\* end leaves the job active (the except and finally of _run_job).
TypeOK ==
    /\ rows \in [Jobs -> RowType]
    /\ \A j \in Jobs : (rows[j].state = "active") = ~Idle(j)
    /\ runs \in 0..MaxRuns
    /\ asked \in [Jobs -> NameSet]
    /\ world \in Worlds /\ crashed \in BOOLEAN

Copies(j, f) == {p \in DOMAIN disk : disk[p] = <<j, f>>}
Home(row) == IF row.dir = NoDir THEN row.dest ELSE OutputDir(row)
Done == {j \in Jobs : rows[j].state = "done"}
Alone == {j \in Done : rows[j].group = 0}
SameGroup(j, k) == rows[j].group # 0 /\ rows[j].group = rows[k].group

\* Nothing is in progress, and nothing has ever overlapped or been cut short.
Undisturbed == Quiet /\ ~Overlap /\ ~crashed

Kept(j) == rows[j].files # {} => {<<j, f>> : f \in FilesOf[j]} \subseteq Range(disk)

\* Whatever renames, merges, rechecks and crashes do to directories, every file that
\* a job has recorded is still somewhere below the download directory, with its
\* content, as long as requests do not overlap.
FilesKept == ~Overlap => \A j \in Jobs : Kept(j)

InPlace(j) == {f \in FilesOf[j] : \E p \in Copies(j, f) : IsPrefix(Home(rows[j]), p.dir)}

\* The files of a finished job that shares its directory with no other are in the
\* one its row names (dir_name: "output directory of this job's files"); if they come
\* in several directories, some of them are.
RowsPointToFiles ==
    Undisturbed => \A j \in Alone :
        IF ApartOf[j] = <<>> THEN InPlace(j) = FilesOf[j] ELSE InPlace(j) # {}

\* A job that users rename has files.  It is not retried after it has finished, which
\* downloads it to the directory its source makes; not rechecked after it has failed,
\* which forgets its pending name; and not retried after a recheck that failed, which
\* may have applied the pending name before, nor at all by users who ask for the name
\* its source gives, which its row has while another is pending.
KeepsNames(w) ==
    \A j \in w.jobs : w.names[j] # {} =>
        /\ w.files[j] # {} /\ <<j, "done">> \notin w.retried /\ <<j, "error">> \notin w.rechecked
        /\ <<j, "done">> \in w.rechecked \/ w.dir[j] \in w.names[j] => <<j, "error">> \notin w.retried

Honoured(j) == rows[j].rename_to = NoDir /\ (asked[j] # NoDir => rows[j].dir = asked[j])

\* A finished job has the directory its user last asked for, whether the name was
\* given before, during or after the download, or before a recheck, and no name
\* is left waiting, unless users retry or recheck it where KeepsNames rules it out.
RenameHonoured == Undisturbed /\ KeepsNames(world) => \A j \in Alone : Honoured(j)

\* No request in progress: the members of a group carry one name, however merges
\* that extend it interleave.
GroupsNamed ==
    ~crashed /\ (\A c \in Clients : Idle(c)) =>
        \A j, k \in Jobs : SameGroup(j, k) => rows[j].gname = rows[k].gname

\* When every merge names all members, the finished ones share one directory with
\* the name of the group, those that were merged before they had finished included
\* (a member its user renames alone afterwards excepted).
GroupsConverge ==
    Undisturbed /\ (\A m \in Merges : Range(m.jobs) = Jobs) =>
        \A j, k \in Done :
            SameGroup(j, k) /\ asked[j] = NoDir /\ asked[k] = NoDir =>
                OutputDir(rows[j]) = OutputDir(rows[k]) /\ rows[j].dir = rows[j].gname

\* No two jobs have a file of one name.
OwnNames(w) == \A j, k \in w.jobs : j # k => w.files[j] \cap w.files[k] = {}

\* Requests may overlap in any order, between the test for a name and the move to it
\* too, and files of the jobs still get lost in one way only: rmtree at the end of a
\* move takes what another request has put there.  No rename or move of a file loses
\* one, unless requests that overlap move files of one name (ClaimMergeRace).
MovesLoseNothing ==
    [][(Overlap => OwnNames(world)) =>
           \A j \in Jobs, f \in UNION Range(FilesOf) :
               (Copies(j, f) # {} /\ Copies(j, f)' = {}) =>
                   \E t \in Tasks : task[t].at = "moving" /\ task[t].thread.todo = {}
                                   /\ task'[t] # task[t]]_vars

-----------------------------------------------------------------------------
(* The worlds the theorems are about                                       *)

\* The files of a job come in one directory or flat.
OneDir(w) == \A j \in w.jobs : w.apart[j] = <<>>

\* Destinations are equally deep.
Level(w) == \A d, e \in Range(w.dest) : Len(d) = Len(e)

\* Requests that overlap do so without the pin loop.
NoRecheck(w) == w.overlap => w.rechecked = {}

\* Users and engines name directories.
Names(w) == (\A j \in w.jobs : NoDir \notin w.names[j]) /\ (\A m \in w.merges : m.name # NoDir)

\* The directory names a job gets from its source and its user.
OwnOf(w, j) == ({w.dir[j]} \cup w.names[j]) \ {NoDir}

\* No two jobs get one of these names, and a merge only that of a job it names.
OwnDirs(w) ==
    /\ \A j, k \in w.jobs : j # k => OwnOf(w, j) \cap OwnOf(w, k) = {}
    /\ \A m \in w.merges : \A j \in w.jobs \ Range(m.jobs) : m.name \notin OwnOf(w, j)

\* Every merge names all jobs, which have files and one destination. No finished job is
\* retried, which downloads it to the directory its source makes, and no failed one is
\* rechecked, which forgets its pending name.
MergedWhole(w) ==
    /\ \A m \in w.merges : Range(m.jobs) = w.jobs
    /\ \A d, e \in Range(w.dest) : d = e
    /\ \A j \in w.jobs : w.files[j] # {} /\ <<j, "done">> \notin w.retried /\ <<j, "error">> \notin w.rechecked
=============================================================================
