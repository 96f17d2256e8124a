--------------------------- MODULE OutputDirsProofs ---------------------------
(***************************************************************************)
(* Theorems of OutputDirs.                                                 *)
(*                                                                         *)
(* GroupsHaveOneName: wherever two names meet in a group, a merge of that  *)
(* group has its update_group_name still to come.                          *)
(*                                                                         *)
(* RenamesAndMovesLoseNothing: every step but the end of a source leaves a *)
(* file of every name, and every file has the content of its name.         *)
(*                                                                         *)
(* RowsAreTyped: a row changes to and from active only together with its   *)
(* run.                                                                    *)
(*                                                                         *)
(* RecordedFilesAreKept: alone at work, a thread that empties a directory  *)
(* knows all that is below it until it removes it, because what it moves   *)
(* goes to another directory of the same depth.                            *)
(*                                                                         *)
(* MembersShareADirectory: a member of a group has the directory of the    *)
(* group or is on its way there, because what a request or a run read      *)
(* before it waits still holds when it writes.                             *)
(***************************************************************************)
EXTENDS OutputDirs, FiniteSetTheorems, SequenceTheorems, WellFoundedInduction, TLAPS

-----------------------------------------------------------------------------
(* Groups: the inductive invariant                                         *)

\* Rows and tasks are records with these fields; what they hold does not matter here.
Shaped ==
    /\ DOMAIN rows = Jobs
    /\ \A j \in Jobs : "group" \in DOMAIN rows[j] /\ "gname" \in DOMAIN rows[j]
    /\ DOMAIN task = Tasks
    /\ \A t \in Tasks : DOMAIN task[t] = {"at", "jobs", "i", "name", "seen", "thread"}

\* The requests that will still write the name of their group.
Writes(c, g) == task[c].at \in {"updating", "naming"} /\ GroupOf(task[c]) = g

\* Two members of a group have different names only while a request is to name it.
NamesMeet ==
    \A j, k \in Jobs :
        SameGroup(j, k) /\ rows[j].gname # rows[k].gname => \E c \in Clients : Writes(c, rows[j].group)

IInv == Shaped /\ (~crashed => NamesMeet)

-----------------------------------------------------------------------------
(* Steps of the others                                                     *)

\* An update of the row of j to the columns of u.
LEMMA UpdatedRow ==
  ASSUME Shaped, NEW j, NEW u, Set(j, u)
  PROVE  /\ DOMAIN rows' = Jobs
         /\ \A k \in Jobs :
              /\ "group" \in DOMAIN rows'[k] /\ "gname" \in DOMAIN rows'[k]
              /\ k # j \/ "group" \notin DOMAIN u => rows'[k].group = rows[k].group
              /\ k # j \/ "gname" \notin DOMAIN u => rows'[k].gname = rows[k].gname
         /\ j \in Jobs /\ "group" \in DOMAIN u => rows'[j].group = u.group
  <1> DEFINE r == Updated(rows[j], u)
  <1>1. rows' = [rows EXCEPT ![j] = r]
    BY DEF Set
  <1>2. ASSUME j \in Jobs
        PROVE  /\ "group" \in DOMAIN r /\ "gname" \in DOMAIN r
               /\ r.group = IF "group" \in DOMAIN u THEN u.group ELSE rows[j].group
               /\ r.gname = IF "gname" \in DOMAIN u THEN u.gname ELSE rows[j].gname
    BY <1>2 DEF Shaped, Updated
  <1> HIDE DEF r
  <1> QED BY <1>1, <1>2 DEF Shaped

\* No row changes its group or its name.
RowsKept ==
    /\ DOMAIN rows' = Jobs
    /\ \A k \in Jobs : /\ "group" \in DOMAIN rows'[k] /\ "gname" \in DOMAIN rows'[k]
                       /\ rows'[k].group = rows[k].group /\ rows'[k].gname = rows[k].gname

\* Nothing is written.
LEMMA SameRows ==
  ASSUME Shaped, rows' = rows
  PROVE  RowsKept
  BY DEF Shaped, RowsKept

\* An update of columns other than the group and its name.
LEMMA OtherColumns ==
  ASSUME Shaped, NEW j, NEW u, Set(j, u), "group" \notin DOMAIN u, "gname" \notin DOMAIN u
  PROVE  RowsKept
  BY UpdatedRow DEF RowsKept

\* A step of a request or a run changes what that one does next.
IsTask(tk) == DOMAIN tk = {"at", "jobs", "i", "name", "seen", "thread"}
Moves(t) == \E tk : IsTask(tk) /\ task' = [task EXCEPT ![t] = tk]

\* A task that is replaced keeps its fields.
LEMMA TaskMoves ==
  ASSUME Shaped, NEW t \in Tasks
  PROVE  /\ IsTask(task[t]) /\ IsTask(NoTask)
         /\ \A tk : IsTask(tk) /\ Becomes(t, tk) => Moves(t)
         /\ \A at : Goto(t, at) => Moves(t)
         /\ End(t) => Moves(t)
         /\ Raise(t) => Moves(t)
  <1>1. IsTask(task[t]) /\ IsTask(NoTask)
    BY DEF Shaped, IsTask, NoTask
  <1>2. \A tk : IsTask(tk) /\ Becomes(t, tk) => Moves(t)
    BY DEF Becomes, Moves
  <1>3. ASSUME NEW at, Goto(t, at)
        PROVE  Moves(t)
    <2> DEFINE tk == [task[t] EXCEPT !.at = at]
    <2>1. IsTask(tk)
      BY <1>1 DEF IsTask
    <2>2. task' = [task EXCEPT ![t] = tk]
      BY <1>3 DEF Goto
    <2> QED BY <2>1, <2>2 DEF Moves
  <1>4. End(t) => Moves(t)
    BY <1>1, <1>2 DEF End
  <1> QED BY <1>1, <1>2, <1>3, <1>4 DEF Raise

\* A step that writes no group, of a task that is not about to.
LEMMA OthersKeep ==
  ASSUME IInv, RowsKept, UNCHANGED <<world, crashed>>,
         NEW t \in Tasks, Moves(t), task[t].at \notin {"updating", "naming"}
  PROVE  IInv'
  <1>1. /\ DOMAIN task' = Tasks
        /\ \A x \in Tasks : IsTask(task'[x])
        /\ \A x \in Tasks : x # t => task'[x] = task[x]
    BY DEF Moves, IsTask, IInv, Shaped
  <1>2. UNCHANGED <<Jobs, Clients, Tasks>>
    BY DEF Jobs, Clients, Tasks
  <1>3. Shaped'
    BY <1>1, <1>2 DEF RowsKept, Shaped, IsTask
  <1>4. ASSUME NEW c \in Clients, NEW g, Writes(c, g)
        PROVE  Writes(c, g)'
    <2>1. c \in Tasks /\ c # t
      BY <1>4 DEF Writes, Tasks
    <2>2. task'[c] = task[c]
      BY <1>1, <2>1
    <2> QED BY <1>4, <2>2 DEF Writes
  <1>5. ~crashed => NamesMeet'
    BY <1>2, <1>4 DEF IInv, NamesMeet, SameGroup, RowsKept
  <1> QED BY <1>3, <1>5 DEF IInv

-----------------------------------------------------------------------------
(* The steps                                                               *)

\* The steps of a thread keep the invariant.
LEMMA ThreadKeeps ==
  ASSUME IInv, UNCHANGED <<world, crashed>>, NEW t \in Tasks, ThreadStep(t)
  PROVE  IInv'
  <1>1. rows' = rows /\ task[t].at \in {"thread", "moving"}
    BY DEF ThreadStep, TestTarget, ListTree, ReplaceDir, NextSource, TestFile, MoveFile, EndSource
  <1>2. Shaped /\ IsTask(task[t]) /\ DOMAIN task = Tasks
    BY TaskMoves DEF IInv, Shaped
  <1>3. ASSUME NEW at, NEW th, NEW tk,
               tk = [task[t] EXCEPT !.at = at, !.thread = th], task' = [task EXCEPT ![t] = tk]
        PROVE  Moves(t)
    <2>1. IsTask(tk)
      BY <1>2, <1>3 DEF IsTask
    <2> QED BY <1>3, <2>1 DEF Moves
  <1>4. (\E at : Goto(t, at)) \/ Raise(t) => Moves(t)
    BY <1>2, TaskMoves
  <1>5. Moves(t)
    <2>1. CASE TestTarget(t)
      <3>1. PICK mode : task' = [task EXCEPT ![t].thread.mode = mode]
        BY <2>1 DEF TestTarget
      <3>2. task' = [task EXCEPT ![t] = [task[t] EXCEPT !.thread.mode = mode]]
        BY <3>1
      <3>3. IsTask([task[t] EXCEPT !.thread.mode = mode])
        BY <1>2 DEF IsTask
      <3> QED BY <3>2, <3>3 DEF Moves
    <2>2. CASE ListTree(t)
      <3> DEFINE tk == [task[t] EXCEPT !.at = "moving", !.thread.todo = RelFiles(disk, task[t].thread.from)]
      <3>1. task' = [task EXCEPT ![t] = tk]
        BY <2>2 DEF ListTree
      <3>2. IsTask(tk)
        BY <1>2 DEF IsTask
      <3> HIDE DEF tk
      <3> QED BY <3>1, <3>2 DEF Moves
    <2>3. CASE ReplaceDir(t) \/ EndSource(t)
      BY <1>4, <2>3 DEF ReplaceDir, EndSource
    <2>4. CASE NextSource(t)
      <3>1. \E at, th : \/ Goto(t, at)
                        \/ Becomes(t, [task[t] EXCEPT !.at = at, !.thread = th])
        BY <2>4 DEF NextSource
      <3> QED BY <1>3, <1>4, <3>1 DEF Becomes
    <2>5. CASE TestFile(t)
      <3>1. \/ \E goal : task' = [task EXCEPT ![t].thread.goal = goal]
            \/ \E todo : task' = [task EXCEPT ![t].thread.todo = todo]
        BY <2>5 DEF TestFile
      <3>2. \A x : /\ IsTask([task[t] EXCEPT !.thread.goal = x])
                  /\ IsTask([task[t] EXCEPT !.thread.todo = x])
        BY <1>2 DEF IsTask
      <3>3. \A x : /\ [task EXCEPT ![t].thread.goal = x] = [task EXCEPT ![t] = [task[t] EXCEPT !.thread.goal = x]]
                  /\ [task EXCEPT ![t].thread.todo = x] = [task EXCEPT ![t] = [task[t] EXCEPT !.thread.todo = x]]
        OBVIOUS
      <3> QED BY <3>1, <3>2, <3>3 DEF Moves
    <2>6. CASE MoveFile(t)
      <3> DEFINE rel == CHOOSE p \in task[t].thread.todo : TRUE
                 tk == [task[t] EXCEPT !.thread.todo = @ \ {rel}, !.thread.goal = <<>>]
      <3>1. Raise(t) \/ task' = [task EXCEPT ![t] = tk]
        BY <2>6 DEF MoveFile
      <3>2. IsTask(tk)
        BY <1>2 DEF IsTask
      <3> HIDE DEF tk
      <3> QED BY <1>4, <3>1, <3>2 DEF Moves
    <2> QED BY <2>1, <2>2, <2>3, <2>4, <2>5, <2>6 DEF ThreadStep
  <1> QED BY <1>1, <1>2, <1>5, SameRows, OthersKeep

\* The requests of a client and the pin loop, up to a merge's first update.
LEMMA RequestKeeps ==
  ASSUME IInv, UNCHANGED <<world, crashed>>, NEW c \in Clients,
         \/ RenameRequested(c) \/ DeferRename(c) \/ RenameNow(c) \/ WriteRenamed(c)
         \/ MergeRequested(c) \/ ReadMember(c) \/ GatherMember(c) \/ DueListed(c) \/ RequeueDue(c)
  PROVE  IInv'
  <1>1. c \in Tasks /\ Shaped /\ IsTask(task[c]) /\ IsTask(NoTask)
    BY TaskMoves, Zenon DEF IInv, Tasks
  <1>2. task[c].at \notin {"updating", "naming"}
    BY DEF RenameRequested, DeferRename, RenameNow, WriteRenamed, MergeRequested, ReadMember,
           GatherMember, DueListed, RequeueDue, Idle
  <1>3. \A tk, th : IsTask(tk) => IsTask(Await(tk, th))
    BY Zenon DEF IsTask, Await
  <1>4. RowsKept
    <2>1. CASE rows' = rows
      BY <1>1, <2>1, SameRows
    <2>2. CASE DeferRename(c)
      BY <1>1, <2>2, OtherColumns DEF DeferRename
    <2>3. CASE WriteRenamed(c)
      BY <1>1, <2>3, OtherColumns DEF WriteRenamed
    <2>4. CASE RequeueDue(c)
      BY <1>1, <2>4, OtherColumns DEF RequeueDue
    <2> QED BY <2>1, <2>2, <2>3, <2>4 DEF RenameRequested, RenameNow, MergeRequested, ReadMember,
               GatherMember, DueListed
  <1>5. Moves(c)
    <2>1. CASE RenameRequested(c)
      <3>1. PICK js, n, rs : Becomes(c, [NoTask EXCEPT !.at = "rename", !.jobs = js, !.name = n, !.seen = rs])
        BY <2>1 DEF RenameRequested
      <3>2. IsTask([NoTask EXCEPT !.at = "rename", !.jobs = js, !.name = n, !.seen = rs])
        BY <1>1 DEF IsTask
      <3> QED BY <1>1, <3>1, <3>2, TaskMoves
    <2>2. CASE DeferRename(c) \/ WriteRenamed(c) \/ RequeueDue(c)
      BY <1>1, <2>2, TaskMoves DEF DeferRename, WriteRenamed, RequeueDue
    <2>3. CASE RenameNow(c)
      <3>1. End(c) \/ \E th : Becomes(c, Await(task[c], th))
        BY <2>3 DEF RenameNow
      <3> QED BY <1>1, <1>3, <3>1, TaskMoves
    <2>4. CASE MergeRequested(c)
      <3>1. PICK js, n : Becomes(c, [NoTask EXCEPT !.at = "reading", !.jobs = js, !.name = n])
        BY <2>4 DEF MergeRequested
      <3>2. IsTask([NoTask EXCEPT !.at = "reading", !.jobs = js, !.name = n])
        BY <1>1 DEF IsTask
      <3> QED BY <1>1, <3>1, <3>2, TaskMoves
    <2>5. CASE ReadMember(c)
      <3>1. PICK row : row = rows[task[c].jobs[Len(task[c].seen) + 1]]
        OBVIOUS
      <3>2. PICK more : more = IF HasDir(row) THEN Append(task[c].thread.more, OutputDir(row)) ELSE task[c].thread.more
        OBVIOUS
      <3> DEFINE tk == [task[c] EXCEPT !.seen = Append(@, row), !.thread.more = more]
      <3>3. IsTask(tk)
        BY <1>1, Zenon DEF IsTask
      <3>4. End(c) \/ Becomes(c, tk) \/ \E th : Becomes(c, Await(tk, th))
        BY <2>5, <3>1, <3>2 DEF ReadMember
      <3> HIDE DEF tk
      <3> QED BY <1>1, <1>3, <3>3, <3>4, TaskMoves
    <2>6. CASE GatherMember(c)
      <3> DEFINE next == [task[c] EXCEPT !.i = @ + 1]
                 last == [task[c] EXCEPT !.at = "updating", !.i = 1]
      <3>1. IsTask(next) /\ IsTask(last)
        BY <1>1, Zenon DEF IsTask
      <3>2. Becomes(c, last) \/ Becomes(c, next) \/ \E th : Becomes(c, Await(next, th))
        BY <2>6 DEF GatherMember
      <3> HIDE DEF next, last
      <3> QED BY <1>1, <1>3, <3>1, <3>2, TaskMoves
    <2>7. CASE DueListed(c)
      <3>1. PICK js, rs : Becomes(c, [NoTask EXCEPT !.at = "due", !.jobs = js, !.seen = rs])
        BY <2>7 DEF DueListed
      <3>2. IsTask([NoTask EXCEPT !.at = "due", !.jobs = js, !.seen = rs])
        BY <1>1 DEF IsTask
      <3> QED BY <1>1, <3>1, <3>2, TaskMoves
    <2> QED BY <2>1, <2>2, <2>3, <2>4, <2>5, <2>6, <2>7
  <1> QED BY <1>1, <1>2, <1>4, <1>5, OthersKeep

\* The run of a job.
LEMMA RunKeeps ==
  ASSUME IInv, UNCHANGED <<world, crashed>>, NEW j \in Jobs,
         \/ StartRun(j) \/ DetectDir(j) \/ Downloaded(j) \/ LandFile(j) \/ RecordFiles(j)
         \/ ReadPending(j) \/ WriteApplied(j) \/ ClearPending(j) \/ Finish(j) \/ FailRun(j)
  PROVE  IInv'
  <1>1. j \in Tasks /\ Shaped /\ IsTask(task[j]) /\ IsTask(NoTask)
    BY TaskMoves DEF IInv, Tasks
  <1>2. task[j].at \notin {"updating", "naming"}
    BY DEF StartRun, DetectDir, Downloaded, LandFile, RecordFiles, ReadPending, WriteApplied, ClearPending,
           Finish, FailRun, Idle
  <1>3. RowsKept
    <2>1. rows' = rows \/ \E u : Set(j, u) /\ "group" \notin DOMAIN u /\ "gname" \notin DOMAIN u
      <3>1. CASE StartRun(j) \/ Finish(j) \/ FailRun(j)
        <4>1. \E v : Set(j, [state |-> v])
          BY <3>1 DEF StartRun, Finish, FailRun
        <4> QED BY <4>1
      <3>2. CASE DetectDir(j)
        <4>1. PICK d : Set(j, [dir |-> d])
          BY <3>2 DEF DetectDir
        <4> QED BY <4>1
      <3>3. CASE RecordFiles(j)
        BY <3>3 DEF RecordFiles
      <3>4. CASE WriteApplied(j)
        BY <3>4 DEF WriteApplied
      <3>5. CASE ClearPending(j)
        BY <3>5 DEF ClearPending
      <3>6. CASE Downloaded(j) \/ LandFile(j) \/ ReadPending(j)
        BY <3>6 DEF Downloaded, LandFile, ReadPending
      <3> QED BY <3>1, <3>2, <3>3, <3>4, <3>5, <3>6
    <2> QED BY <1>1, <2>1, SameRows, OtherColumns
  <1>4. Moves(j)
    <2>1. CASE StartRun(j)
      <3>1. PICK rs : Becomes(j, [NoTask EXCEPT !.at = "downloading", !.seen = rs])
        BY <2>1 DEF StartRun
      <3>2. IsTask([NoTask EXCEPT !.at = "downloading", !.seen = rs])
        BY <1>1 DEF IsTask
      <3> QED BY <1>1, <3>1, <3>2, TaskMoves
    <2>2. CASE ReadPending(j)
      <3> DEFINE tk == [task[j] EXCEPT !.name = rows[j].rename_to]
      <3>1. \A th : IsTask(Await(tk, th))
        BY <1>1 DEF IsTask, Await
      <3>2. (\E at : Goto(j, at)) \/ \E th : Becomes(j, Await(tk, th))
        BY <2>2 DEF ReadPending
      <3> HIDE DEF tk
      <3> QED BY <1>1, <3>1, <3>2, TaskMoves
    <2>3. CASE DetectDir(j)
      <3>1. PICK d : Becomes(j, [task[j] EXCEPT !.at = "detected", !.name = d])
        BY <2>3 DEF DetectDir
      <3>2. IsTask([task[j] EXCEPT !.at = "detected", !.name = d])
        BY <1>1 DEF IsTask
      <3> QED BY <1>1, <3>1, <3>2, TaskMoves
    <2>4. CASE Downloaded(j) \/ LandFile(j)
      <3>1. PICK at, todo : task' = [task EXCEPT ![j].at = at, ![j].thread.todo = todo]
        <4>1. CASE Downloaded(j)
          BY <4>1 DEF Downloaded
        <4>2. CASE LandFile(j)
          <5>1. PICK todo : task' = [task EXCEPT ![j].thread.todo = todo]
            BY <4>2 DEF LandFile
          <5>2. task' = [task EXCEPT ![j].at = task[j].at, ![j].thread.todo = todo]
            BY <1>1, <5>1 DEF Shaped, IsTask
          <5> QED BY <5>2
        <4> QED BY <2>4, <4>1, <4>2
      <3>2. task' = [task EXCEPT ![j] = [task[j] EXCEPT !.at = at, !.thread.todo = todo]]
        BY <3>1
      <3>3. IsTask([task[j] EXCEPT !.at = at, !.thread.todo = todo])
        BY <1>1 DEF IsTask
      <3> QED BY <3>2, <3>3 DEF Moves
    <2>5. CASE RecordFiles(j) \/ WriteApplied(j) \/ ClearPending(j) \/ Finish(j) \/ FailRun(j)
      <3>1. (\E at : Goto(j, at)) \/ End(j)
        BY <2>5 DEF RecordFiles, WriteApplied, ClearPending, Finish, FailRun
      <3> QED BY <1>1, <3>1, TaskMoves
    <2> QED BY <2>1, <2>2, <2>3, <2>4, <2>5
  <1> QED BY <1>1, <1>2, <1>3, <1>4, OthersKeep

\* A member's row takes the group and the name of the merge, which goes on.
LEMMA UpdateMemberKeeps ==
  ASSUME IInv, UNCHANGED <<world, crashed>>, NEW c \in Clients, UpdateMember(c)
  PROVE  IInv'
  <1> DEFINE tk == [task[c] EXCEPT !.i = @ + 1, !.at = IF task[c].i = Len(task[c].jobs) THEN "naming" ELSE @]
  <1>1. PICK i, g : i = task[c].jobs[task[c].i] /\ g = GroupOf(task[c])
    OBVIOUS
  <1>2. c \in Tasks /\ Shaped /\ IsTask(task[c]) /\ DOMAIN task = Tasks
    BY TaskMoves DEF IInv, Tasks, Shaped
  <1>3. task[c].at = "updating" /\ task' = [task EXCEPT ![c] = tk]
    BY DEF UpdateMember, Becomes
  <1>4. PICK u : Set(i, u) /\ "group" \in DOMAIN u /\ u.group = g
    BY <1>1 DEF UpdateMember
  <1>5. /\ DOMAIN rows' = Jobs
        /\ \A k \in Jobs : /\ "group" \in DOMAIN rows'[k] /\ "gname" \in DOMAIN rows'[k]
                           /\ k # i => rows'[k].group = rows[k].group /\ rows'[k].gname = rows[k].gname
        /\ i \in Jobs => rows'[i].group = g
    BY <1>2, <1>4, UpdatedRow
  <1>6. IsTask(tk) /\ tk.at \in {"updating", "naming"} /\ tk.seen = task[c].seen /\ tk.jobs = task[c].jobs
    BY <1>2, <1>3 DEF IsTask
  <1>7. GroupOf(tk) = g
    BY <1>1, <1>6 DEF GroupOf
  <1>8. /\ DOMAIN task' = Tasks /\ \A x \in Tasks : IsTask(task'[x])
        /\ task'[c].at \in {"updating", "naming"} /\ GroupOf(task'[c]) = g
        /\ \A x \in Tasks : x # c => task'[x] = task[x]
    <2> HIDE DEF tk
    <2> QED BY <1>2, <1>3, <1>6, <1>7 DEF Shaped, IsTask
  <1> HIDE DEF tk
  <1>9. UNCHANGED <<Jobs, Clients, Tasks>>
    BY DEF Jobs, Clients, Tasks
  <1>10. Shaped'
    BY <1>5, <1>8, <1>9 DEF Shaped, IsTask
  <1>11. ASSUME NEW d \in Clients, NEW h, Writes(d, h)
         PROVE  Writes(d, h)'
    <2>1. CASE d = c
      BY <1>1, <1>8, <1>11, <2>1 DEF Writes
    <2>2. CASE d # c
      <3>1. task'[d] = task[d]
        BY <1>8, <2>2 DEF Tasks
      <3> QED BY <1>11, <3>1 DEF Writes
    <2> QED BY <2>1, <2>2
  <1>12. ASSUME ~crashed, NEW j \in Jobs, NEW k \in Jobs, SameGroup(j, k)', rows'[j].gname # rows'[k].gname,
                NEW h, h = rows'[j].group
         PROVE  \E d \in Clients : Writes(d, h)'
    <2>1. CASE j = i \/ k = i
      <3>1. h = g
        BY <1>5, <1>12, <2>1 DEF SameGroup
      <3> QED BY <1>8, <3>1 DEF Writes
    <2>2. CASE j # i /\ k # i
      <3>1. SameGroup(j, k) /\ rows[j].gname # rows[k].gname /\ h = rows[j].group
        BY <1>5, <1>12, <2>2 DEF SameGroup
      <3>2. PICK d \in Clients : Writes(d, h)
        BY <1>12, <3>1 DEF IInv, NamesMeet
      <3> QED BY <1>11, <3>2
    <2> QED BY <2>1, <2>2
  <1>13. ~crashed => NamesMeet'
    BY <1>9, <1>12 DEF NamesMeet
  <1> QED BY <1>10, <1>13 DEF IInv

\* update_group_name writes all members at once; what it leaves is for the others.
LEMMA SetGroupNameKeeps ==
  ASSUME IInv, UNCHANGED <<world, crashed>>, NEW c \in Clients, SetGroupName(c)
  PROVE  IInv'
  <1>1. PICK g : g = GroupOf(task[c])
    OBVIOUS
  <1>2. c \in Tasks /\ Shaped /\ IsTask(NoTask) /\ DOMAIN task = Tasks
    BY TaskMoves DEF IInv, Tasks, Shaped
  <1>3. task' = [task EXCEPT ![c] = NoTask]
    BY DEF SetGroupName, End, Becomes
  <1>4. /\ DOMAIN rows' = Jobs
        /\ \A k \in Jobs : /\ "group" \in DOMAIN rows'[k] /\ "gname" \in DOMAIN rows'[k]
                           /\ rows'[k].group = rows[k].group
                           /\ rows'[k].gname = IF rows[k].group = g THEN task[c].name ELSE rows[k].gname
    BY <1>1, <1>2 DEF SetGroupName, Shaped
  <1>5. UNCHANGED <<Jobs, Clients, Tasks>>
    BY DEF Jobs, Clients, Tasks
  <1>6. Shaped'
    BY <1>2, <1>3, <1>4, <1>5 DEF Shaped, IsTask
  <1>7. ASSUME NEW d \in Clients, NEW h, Writes(d, h), h # g
        PROVE  Writes(d, h)'
    <2>1. d # c /\ task'[d] = task[d]
      BY <1>1, <1>2, <1>3, <1>7 DEF Writes, Tasks
    <2> QED BY <1>7, <2>1 DEF Writes
  <1>8. ASSUME ~crashed, NEW j \in Jobs, NEW k \in Jobs, SameGroup(j, k)', rows'[j].gname # rows'[k].gname,
               NEW h, h = rows'[j].group
        PROVE  \E d \in Clients : Writes(d, h)'
    <2>1. SameGroup(j, k) /\ h = rows[j].group /\ h = rows[k].group
      BY <1>4, <1>8 DEF SameGroup
    <2>2. h # g /\ rows[j].gname # rows[k].gname
      BY <1>4, <1>8, <2>1
    <2>3. PICK d \in Clients : Writes(d, h)
      BY <1>8, <2>1, <2>2 DEF IInv, NamesMeet
    <2> QED BY <1>7, <2>2, <2>3
  <1>9. ~crashed => NamesMeet'
    BY <1>5, <1>8 DEF NamesMeet
  <1> QED BY <1>6, <1>9 DEF IInv

-----------------------------------------------------------------------------
(* The theorem                                                             *)

\* No job has a group yet.
LEMMA InitEstablishes == Init => IInv
  <1> SUFFICES ASSUME Init
               PROVE  IInv
    OBVIOUS
  <1>1. rows = [j \in Jobs |-> NewRow(j)] /\ task = [t \in Tasks |-> NoTask]
    BY DEF Init
  <1>2. \A j \in Jobs : /\ "group" \in DOMAIN NewRow(j) /\ "gname" \in DOMAIN NewRow(j)
                        /\ NewRow(j).group = 0
    BY DEF NewRow
  <1>3. Shaped
    BY <1>1, <1>2 DEF Shaped, NoTask
  <1>4. NamesMeet
    BY <1>1, <1>2 DEF NamesMeet, SameGroup
  <1> QED BY <1>3, <1>4 DEF IInv

\* Every step keeps the invariant.
LEMMA NextKeeps == IInv /\ [Next]_vars => IInv'
  <1> SUFFICES ASSUME IInv, [Next]_vars
               PROVE  IInv'
    OBVIOUS
  <1>1. ASSUME Step, UNCHANGED <<world, crashed>>
        PROVE  IInv'
    <2>1. CASE \E t \in Tasks : ThreadStep(t)
      BY <1>1, <2>1, ThreadKeeps
    <2>2. CASE \E c \in Clients :
                  \/ RenameRequested(c) \/ DeferRename(c) \/ RenameNow(c) \/ WriteRenamed(c)
                  \/ MergeRequested(c) \/ ReadMember(c) \/ GatherMember(c) \/ DueListed(c) \/ RequeueDue(c)
      BY <1>1, <2>2, RequestKeeps
    <2>3. CASE \E c \in Clients : UpdateMember(c) \/ SetGroupName(c)
      BY <1>1, <2>3, UpdateMemberKeeps, SetGroupNameKeeps
    <2>4. CASE \E j \in Jobs :
                  \/ StartRun(j) \/ DetectDir(j) \/ Downloaded(j) \/ LandFile(j) \/ RecordFiles(j) \/ ReadPending(j)
                  \/ WriteApplied(j) \/ ClearPending(j) \/ Finish(j) \/ FailRun(j)
      BY <1>1, <2>4, RunKeeps
    <2>5. CASE Retry
      <3>1. PICK j \in Jobs : Set(j, [state |-> "queued"])
        BY <2>5 DEF Retry
      <3>2. RowsKept
        BY <3>1, OtherColumns DEF IInv
      <3>3. task' = task
        BY <2>5 DEF Retry
      <3>4. UNCHANGED <<Jobs, Clients, Tasks>>
        BY <1>1 DEF Jobs, Clients, Tasks
      <3>5. \A c, g : Writes(c, g) => Writes(c, g)'
        BY <3>3 DEF Writes
      <3>6. Shaped'
        BY <3>2, <3>3, <3>4 DEF IInv, Shaped, RowsKept
      <3>7. ~crashed => NamesMeet'
        BY <3>2, <3>4, <3>5 DEF IInv, NamesMeet, SameGroup, RowsKept
      <3> QED BY <1>1, <3>6, <3>7 DEF IInv
    <2> QED BY <1>1, <2>1, <2>2, <2>3, <2>4, <2>5 DEF Step
  <1>2. ASSUME Crash, UNCHANGED world
        PROVE  IInv'
    <2>1. UNCHANGED <<Jobs, Tasks>> /\ crashed'
      BY <1>2 DEF Jobs, Clients, Tasks, Crash
    <2>2. /\ task' = [t \in Tasks |-> NoTask]
          /\ rows' = [j \in Jobs |-> IF rows[j].state = "active"
                                     THEN [rows[j] EXCEPT !.state = "queued"] ELSE rows[j]]
      BY <1>2 DEF Crash
    <2>3. Shaped'
      BY <2>1, <2>2 DEF IInv, Shaped, NoTask
    <2> QED BY <2>1, <2>3 DEF IInv
  <1>3. ASSUME UNCHANGED vars
        PROVE  IInv'
    <2>1. UNCHANGED <<rows, task, crashed, Jobs, Clients, Tasks>>
      BY <1>3 DEF vars, Jobs, Clients, Tasks
    <2>2. \A c, g : Writes(c, g) => Writes(c, g)'
      BY <2>1 DEF Writes
    <2> QED BY <2>1, <2>2 DEF IInv, Shaped, NamesMeet, SameGroup
  <1> QED BY <1>1, <1>2, <1>3 DEF Next

\* Whatever merges interleave and extend whose groups, once the requests are over the
\* members of a group carry one name, unless the process died in the middle of one.
THEOREM GroupsHaveOneName == Spec => []GroupsNamed
  <1>1. IInv => GroupsNamed
    BY DEF IInv, NamesMeet, GroupsNamed, Writes, Idle, SameGroup
  <1> QED BY <1>1, InitEstablishes, NextKeeps, PTL DEF Spec

-----------------------------------------------------------------------------
(* Typing: the invariant                                                   *)

\* Names of directories and paths in any world.
Component == UNION {NamesIn(w) \cup UNION {Range(path) : path \in Range(w.dest)} : w \in Worlds}

\* The shapes of paths, threads and tasks.
IsPath(p) == p = [dir |-> p.dir, name |-> p.name, sfx |-> p.sfx] /\ p.dir \in Seq(Component)

\* The file a loop is at, and where it has decided to put it: the next one, under its
\* name with a suffix or none.
NextFile(th) == CHOOSE p \in th.todo : TRUE
IsGoal(th, path) ==
    /\ th.todo # {} /\ th.mode \in {"aside", "gather"} /\ th.goal = <<path>>
    /\ IsPath(path) /\ path.name = NextFile(th).name /\ path.dir = th.to \o NextFile(th).dir
    /\ th.mode = "gather" => path = In(th.to, NextFile(th))

IsThread(th) ==
    /\ DOMAIN th = {"mode", "from", "to", "todo", "goal", "more", "then"}
    /\ th.mode \in {"none", "rename", "over", "whole", "aside", "gather"}
    /\ th.from \in Seq(Component) /\ th.to \in Seq(Component) /\ th.more \in Seq(Seq(Component))
    /\ th.mode \in {"rename", "whole"} => th.from # <<>>
    /\ \A rel \in th.todo : IsPath(rel)
    /\ th.goal = <<>> \/ IsGoal(th, th.goal[1])
    /\ th.then \in {"idle", "renamed", "gathering"}

\* What requests and runs do next.
Requests == {"idle", "rename", "renamed", "reading", "gathering", "updating", "naming", "due",
             "thread", "moving"}
RunSteps == {"idle", "downloading", "detected", "landing", "recorded", "thread", "moving", "renamed",
             "clearing", "verdict", "failed"}

\* Tasks that go to the step then after their thread, and the later steps of a merge.
InThread(tk, then) == tk.at \in {"thread", "moving"} /\ tk.thread.then = then
InMerge(tk) == tk.at \in {"gathering", "updating", "naming"} \/ InThread(tk, "gathering")

IsTaskOf(t, tk) ==
    /\ IsTask(tk) /\ IsThread(tk.thread)
    /\ tk.at \in IF t \in Jobs THEN RunSteps ELSE Requests
    /\ tk.jobs \in Seq(Jobs) /\ tk.i \in Nat \ {0} /\ tk.name \in NameSet /\ tk.seen \in Seq(RowType)
    /\ tk.at \in {"rename", "due"} => tk.jobs # <<>> /\ tk.seen # <<>>
    /\ tk.at \in {"downloading", "detected", "landing", "recorded"} => tk.seen # <<>>
    /\ tk.at = "landing" => tk.thread.todo \subseteq Downloads(t)
    /\ tk.at \notin {"moving", "failed"} => tk.thread.goal = <<>>
    /\ (tk.at = "renamed" \/ InThread(tk, "renamed")) /\ t \in Clients => tk.jobs # <<>>
    /\ tk.at \in {"thread", "moving"} => tk.thread.then # "idle"
    /\ tk.at = "reading" => Len(tk.seen) < Len(tk.jobs)
    /\ InMerge(tk) => t \in Clients /\ tk.jobs # <<>> /\ Len(tk.seen) = Len(tk.jobs)
    /\ tk.at = "updating" => tk.i <= Len(tk.jobs)

\* Rows, tasks and runs are well formed.
Typed ==
    /\ world \in Worlds
    /\ rows \in [Jobs -> RowType]
    /\ DOMAIN task = Tasks /\ \A t \in Tasks : IsTaskOf(t, task[t])
    /\ runs \in 0..MaxRuns /\ asked \in [Jobs -> NameSet] /\ crashed \in BOOLEAN

\* Every file has its name, and the content of a file of that name.
Stored ==
    \A p \in DOMAIN disk : IsPath(p) /\ \E j \in Jobs : p.name \in FilesOf[j] /\ disk[p] = <<j, p.name>>

\* Requests, and runs that have a result.
Busy(t) == task[t].at \notin {"idle", "downloading", "detected"}
OneAtATime == ~Overlap => \A t, u \in Tasks : Busy(t) /\ Busy(u) => t = u

\* A row is active exactly while its job has a run.
ActiveRuns ==
    /\ \A j \in Jobs : (rows[j].state = "active") = ~Idle(j)
    /\ \A c \in Clients : task[c].at = "due" => rows[task[c].jobs[1]].state \in {"done", "error"}

Named(f) == \E p \in DOMAIN disk : p.name = f
\* The files that rows record are there, and those that a run has moved.
Recorded ==
    \A j \in Jobs :
        /\ rows[j].files # {} => \A f \in FilesOf[j] : Named(f)
        /\ task[j].at = "landing" =>
              \A f \in FilesOf[j] : Named(f) \/ \E rel \in task[j].thread.todo : rel.name = f

\* What DirsAssumption says of the world at hand.
LEMMA WorldFacts ==
  ASSUME world \in Worlds
  PROVE  /\ Jobs \subseteq Nat \ {0} /\ Clients \cap Jobs = {} /\ MaxRuns \in Nat
         /\ \A j \in Jobs : /\ DestOf[j] \in Range(DestOf) /\ DirOf[j] \in NameSet
                            /\ DirsOf(j) \subseteq NameSet /\ \A f : TopOf(j, f) \in NameSet
                            /\ NamesOf[j] \subseteq NameSet /\ StateOf[j] \in {"queued", "done", "error"}
         /\ Range(DestOf) \subseteq Seq(Component) /\ NameSet \subseteq Component /\ NoDir \in NameSet
         /\ \A m \in Merges : m.name \in NameSet /\ m.jobs \in Seq(Jobs) /\ Len(m.jobs) >= 2
         /\ \A j, s : <<j, s>> \in Rechecked \cup Retried => s \in {"done", "error"}
  <1>1. PICK w \in Worlds : w = world
    OBVIOUS
  <1>2. /\ Jobs = w.jobs /\ Clients = w.clients /\ MaxRuns = w.runs /\ DestOf = w.dest /\ DirOf = w.dir
        /\ ApartOf = w.apart /\ NamesOf = w.names /\ StateOf = w.state /\ Merges = w.merges /\ NameSet = NamesIn(w)
        /\ Rechecked = w.rechecked /\ Retried = w.retried
    BY <1>1 DEF Jobs, Clients, MaxRuns, DestOf, DirOf, ApartOf, NamesOf, StateOf, Merges, NameSet, Rechecked, Retried
  <1>3. Jobs \subseteq Nat \ {0} /\ Clients \cap Jobs = {} /\ MaxRuns \in Nat
    BY <1>1, <1>2, DirsAssumption
  <1>4. \A j \in Jobs : j \in DOMAIN DestOf /\ j \in DOMAIN DirOf /\ j \in DOMAIN NamesOf
                        /\ StateOf[j] \in {"queued", "done", "error"}
    BY <1>1, <1>2, DirsAssumption
  <1>5. NameSet = {NoDir} \cup Range(DirOf) \cup (UNION {Range(ApartOf[j]) : j \in Jobs})
                    \cup (UNION Range(NamesOf)) \cup {m.name : m \in Merges}
    BY <1>2 DEF NamesIn
  <1>6. \A j \in Jobs : /\ DestOf[j] \in Range(DestOf) /\ DirOf[j] \in NameSet
                        /\ NamesOf[j] \subseteq NameSet
    BY <1>4, <1>5 DEF Range
  <1>11. ASSUME NEW j \in Jobs
         PROVE  DirsOf(j) \subseteq NameSet /\ \A f : TopOf(j, f) \in NameSet
    <2>1. Range(ApartOf[j]) \subseteq NameSet
      BY <1>5
    <2>2. \A f \in DOMAIN ApartOf[j] : ApartOf[j][f] \in Range(ApartOf[j])
      BY DEF Range
    <2> QED BY <1>6, <2>1, <2>2 DEF DirsOf, TopOf
  <1>7. NameSet \subseteq Component
    BY <1>1, <1>2 DEF Component
  <1>8. ASSUME NEW path \in Range(DestOf)
        PROVE  path \in Seq(Component)
    <2>1. path \in Seq(Range(path))
      BY <1>1, <1>2, <1>8, DirsAssumption
    <2>2. Range(path) \subseteq Component
      BY <1>1, <1>2, <1>8 DEF Component
    <2> QED BY <2>1, <2>2, SeqMonotonic
  <1>9. \A m \in Merges : m.name \in NameSet /\ m.jobs \in Seq(Jobs) /\ Len(m.jobs) >= 2
    <2>1. \A m \in w.merges : m.jobs \in Seq(w.jobs) /\ Len(m.jobs) >= 2
      BY <1>1, DirsAssumption
    <2>2. \A m \in Merges : m.name \in NameSet
      BY <1>5
    <2> QED BY <1>2, <2>1, <2>2
  <1>10. ASSUME NEW j, NEW s, <<j, s>> \in Rechecked \cup Retried
         PROVE  s \in {"done", "error"}
    <2>1. PICK due : due = <<j, s>>
      OBVIOUS
    <2>2. due \in w.rechecked \cup w.retried
      BY <1>2, <1>10, <2>1
    <2>3. due[2] \in {"done", "error"}
      BY <1>1, <2>2, DirsAssumption
    <2> QED BY <2>1, <2>3
  <1> QED BY <1>3, <1>4, <1>5, <1>6, <1>7, <1>8, <1>9, <1>10, <1>11

\* The columns of a row.
LEMMA RowFacts ==
  ASSUME NEW row \in RowType
  PROVE  /\ DOMAIN row = {"state", "dest", "dir", "rename_to", "group", "gname", "files"}
         /\ row.state \in Open \cup {"done", "error"} /\ row.dest \in Range(DestOf)
         /\ row.dir \in NameSet /\ row.rename_to \in NameSet /\ row.group \in Jobs \cup {0}
         /\ row.gname \in NameSet /\ row.files \subseteq UNION {Downloads(j) : j \in Jobs}
  BY DEF RowType

\* A typed update of a row gives a row.
LEMMA UpdatedType ==
  ASSUME NEW row \in RowType, NEW u,
         "state" \in DOMAIN u => u.state \in Open \cup {"done", "error"},
         "dest" \in DOMAIN u => u.dest \in Range(DestOf),
         "dir" \in DOMAIN u => u.dir \in NameSet,
         "rename_to" \in DOMAIN u => u.rename_to \in NameSet,
         "group" \in DOMAIN u => u.group \in Jobs \cup {0},
         "gname" \in DOMAIN u => u.gname \in NameSet,
         "files" \in DOMAIN u => u.files \subseteq UNION {Downloads(j) : j \in Jobs}
  PROVE  /\ Updated(row, u) \in RowType
         /\ \A f \in DOMAIN row : Updated(row, u)[f] = IF f \in DOMAIN u THEN u[f] ELSE row[f]
  <1>1. PICK r : r = Updated(row, u)
    OBVIOUS
  <1>2. DOMAIN row = {"state", "dest", "dir", "rename_to", "group", "gname", "files"}
    BY RowFacts
  <1>3. r = [f \in DOMAIN row |-> IF f \in DOMAIN u THEN u[f] ELSE row[f]]
    BY <1>1 DEF Updated
  <1>4. r = [state |-> r.state, dest |-> r.dest, dir |-> r.dir, rename_to |-> r.rename_to,
             group |-> r.group, gname |-> r.gname, files |-> r.files]
    BY <1>2, <1>3
  <1>5. /\ r.state \in Open \cup {"done", "error"} /\ r.dest \in Range(DestOf)
        /\ r.dir \in NameSet /\ r.rename_to \in NameSet /\ r.group \in Jobs \cup {0}
        /\ r.gname \in NameSet /\ r.files \in SUBSET UNION {Downloads(j) : j \in Jobs}
    BY <1>2, <1>3, RowFacts
  <1>6. r \in RowType
    BY <1>4, <1>5, Zenon DEF RowType
  <1> QED BY <1>1, <1>3, <1>6

-----------------------------------------------------------------------------
\* A path below a directory: what follows it, and back.
LEMMA SplitDir ==
    ASSUME NEW C, NEW from \in Seq(C), NEW d \in Seq(C), IsPrefix(from, d)
    PROVE  /\ SubSeq(d, Len(from) + 1, Len(d)) \in Seq(C)
           /\ from \o SubSeq(d, Len(from) + 1, Len(d)) = d
  <1>1. Len(from) \in Nat /\ Len(d) \in Nat /\ Len(from) <= Len(d)
    BY DEF IsPrefix
  <1>2. SubSeq(from, 1, Len(from)) = SubSeq(d, 1, Len(from))
    BY DEF IsPrefix
  <1>3. from = SubSeq(d, 1, Len(from)) /\ SubSeq(d, 1, Len(d)) = d
    BY <1>2, SubSeqFull
  <1>4. SubSeq(d, Len(from) + 1, Len(d)) \in Seq(C)
    BY <1>1
  <1>5. SubSeq(d, 1, Len(from)) \o SubSeq(d, Len(from) + 1, Len(d)) = SubSeq(d, 1, Len(d))
    <2>1. /\ 1 \in 1..Len(d) + 1 /\ Len(from) \in 1 - 1..Len(d) /\ Len(d) \in Len(from)..Len(d)
      BY <1>1
    <2> QED BY <2>1, ConcatAdjacentSubSeq
  <1> QED BY <1>3, <1>4, <1>5

\* A directory below another starts with it.
LEMMA JoinDir ==
    ASSUME NEW C, NEW from \in Seq(C), NEW s \in Seq(C)
    PROVE  /\ from \o s \in Seq(C)
           /\ IsPrefix(from, from \o s)
           /\ SubSeq(from \o s, Len(from) + 1, Len(from \o s)) = s
  <1>1. Len(from) \in Nat /\ Len(s) \in Nat
    OBVIOUS
  <1>2. PICK d : d = from \o s
    OBVIOUS
  <1>3. d \in Seq(C) /\ Len(d) = Len(from) + Len(s)
    BY <1>1, <1>2, ConcatProperties
  <1>4. IsPrefix(from, d)
    <2>1. SubSeq(from, 1, Len(from)) = from
      BY SubSeqFull
    <2>2. PICK e : e = SubSeq(d, 1, Len(from))
      OBVIOUS
    <2>3. \A i \in 1..Len(from) : d[i] = from[i]
      BY <1>1, <1>2, ConcatProperties
    <2>4. e \in Seq(C) /\ Len(e) = Len(from) /\ \A i \in 1..Len(from) : e[i] = from[i]
      BY <1>1, <1>3, <2>2, <2>3
    <2>5. e = from
      BY <2>4, SeqEqual
    <2>6. Len(from) <= Len(d)
      BY <1>1, <1>3
    <2> QED BY <2>1, <2>2, <2>5, <2>6 DEF IsPrefix
  <1>5. from \o SubSeq(d, Len(from) + 1, Len(d)) = from \o s /\ SubSeq(d, Len(from) + 1, Len(d)) \in Seq(C)
    BY <1>2, <1>3, <1>4, SplitDir
  <1>6. SubSeq(d, Len(from) + 1, Len(d)) = s
    BY <1>5, ConcatSimplifications
  <1> QED BY <1>2, <1>3, <1>4, <1>6

\* A path in another directory, and the directories between a path and one above it.
WithDir(p, dir) == [p EXCEPT !.dir = dir]
Below(from, p) == SubSeq(p.dir, Len(from) + 1, Len(p.dir))

\* A path with another directory.
LEMMA WithDirFacts ==
    ASSUME NEW p, IsPath(p), NEW dir \in Seq(Component)
    PROVE  /\ IsPath(WithDir(p, dir)) /\ WithDir(p, dir).dir = dir /\ WithDir(p, dir).name = p.name
           /\ \A x : WithDir(WithDir(p, dir), x) = WithDir(p, x)
           /\ dir = p.dir => WithDir(p, dir) = p
  <1>1. p = [dir |-> p.dir, name |-> p.name, sfx |-> p.sfx]
    BY DEF IsPath
  <1>2. \A x : WithDir(p, x) = [dir |-> x, name |-> p.name, sfx |-> p.sfx]
    BY <1>1 DEF WithDir
  <1>3. PICK q : q = WithDir(p, dir)
    OBVIOUS
  <1>4. q = [dir |-> dir, name |-> p.name, sfx |-> p.sfx]
    BY <1>2, <1>3
  <1>5. IsPath(q) /\ q.dir = dir /\ q.name = p.name
    BY <1>4 DEF IsPath
  <1>6. \A x : WithDir(q, x) = [dir |-> x, name |-> p.name, sfx |-> p.sfx]
    BY <1>4 DEF WithDir
  <1> QED BY <1>1, <1>2, <1>3, <1>5, <1>6

\* RelFiles and In in terms of WithDir.
LEMMA Relative ==
    /\ \A d, from : RelFiles(d, from) = {WithDir(p, Below(from, p)) : p \in Under(d, from)}
    /\ \A dir, rel : In(dir, rel) = WithDir(rel, dir \o rel.dir)
  BY DEF RelFiles, WithDir, Below, In

\* A file below a directory has a path relative to it, and a path of the same kind
\* below another directory.
LEMMA RelPath ==
    ASSUME NEW from \in Seq(Component), NEW p, IsPath(p), IsPrefix(from, p.dir),
           NEW rel, rel = WithDir(p, Below(from, p))
    PROVE  IsPath(rel) /\ rel.name = p.name /\ In(from, rel) = p
  <1>1. p.dir \in Seq(Component)
    BY DEF IsPath
  <1>2. Below(from, p) \in Seq(Component) /\ from \o Below(from, p) = p.dir
    BY <1>1, SplitDir DEF Below
  <1>3. IsPath(rel) /\ rel.dir = Below(from, p) /\ rel.name = p.name
        /\ \A x : WithDir(rel, x) = WithDir(p, x)
    BY <1>2, WithDirFacts
  <1>4. In(from, rel) = WithDir(p, p.dir)
    BY <1>2, <1>3, Relative
  <1> QED BY <1>1, <1>3, <1>4, WithDirFacts

\* A relative path below a directory.
LEMMA PathIn ==
    ASSUME NEW to \in Seq(Component), NEW rel, IsPath(rel), NEW q, q = In(to, rel)
    PROVE  /\ IsPath(q) /\ q.name = rel.name /\ q.dir = to \o rel.dir /\ IsPrefix(to, q.dir)
           /\ \A from \in Seq(Component) : WithDir(q, from \o Below(to, q)) = In(from, rel)
  <1>1. rel.dir \in Seq(Component)
    BY DEF IsPath
  <1>2. PICK d : d = to \o rel.dir
    OBVIOUS
  <1>3. /\ d \in Seq(Component) /\ IsPrefix(to, d) /\ SubSeq(d, Len(to) + 1, Len(d)) = rel.dir
    BY <1>1, <1>2, JoinDir
  <1>4. q = WithDir(rel, d)
    BY <1>2, Relative
  <1>5. IsPath(q) /\ q.dir = d /\ q.name = rel.name /\ \A x : WithDir(q, x) = WithDir(rel, x)
    BY <1>3, <1>4, WithDirFacts
  <1>6. Below(to, q) = rel.dir
    BY <1>3, <1>5 DEF Below
  <1> QED BY <1>2, <1>3, <1>5, <1>6, Relative

-----------------------------------------------------------------------------
(* What the helpers return                                                 *)

\* All that a world determines.
Constants == <<Jobs, Clients, Tasks, DestOf, DirOf, ApartOf, FilesOf, NamesOf, NameSet, RowType, MaxRuns, Overlap,
               Rechecked, Retried, Merges, MayCrash>>

\* What depends on the world only.
LEMMA SameWorld ==
  ASSUME UNCHANGED world
  PROVE  /\ UNCHANGED Constants
         /\ \A j : Downloads(j)' = Downloads(j) /\ DirsOf(j)' = DirsOf(j)
         /\ \A t, tk : IsTaskOf(t, tk)' = IsTaskOf(t, tk)
  <1>1. UNCHANGED <<Jobs, Clients, DestOf, DirOf, ApartOf, FilesOf, NamesOf, MaxRuns, Overlap, Rechecked,
                    Retried, Merges, MayCrash>>
    BY DEF Jobs, Clients, DestOf, DirOf, ApartOf, FilesOf, NamesOf, MaxRuns, Overlap, Rechecked, Retried,
           Merges, MayCrash
  <1>2. UNCHANGED <<Tasks, NameSet>> /\ \A j : Downloads(j)' = Downloads(j) /\ DirsOf(j)' = DirsOf(j)
    BY <1>1 DEF Tasks, NameSet, NamesIn, Downloads, DirsOf, TopOf
  <1>3. UNCHANGED RowType
    <2>1. (UNION {Downloads(j) : j \in Jobs})' = UNION {Downloads(j) : j \in Jobs}
      BY <1>1, <1>2
    <2> QED BY <1>1, <1>2, <2>1 DEF RowType, Open
  <1>4. \A t, tk : IsTaskOf(t, tk)' = IsTaskOf(t, tk)
    <2>1. \A th : IsThread(th)' = IsThread(th)
      BY DEF IsThread, IsPath, IsGoal, Component, NextFile, In
    <2> QED BY <1>1, <1>2, <1>3, <2>1 DEF IsTaskOf, IsTask, InMerge, InThread, RunSteps, Requests
  <1> QED BY <1>1, <1>2, <1>3, <1>4 DEF Constants

\* A step of one request or run.

\* A step that replaces one task by a typed one.
LEMMA StepOf ==
  ASSUME Typed, UNCHANGED <<world, crashed>>,
         NEW t \in Tasks, NEW tk, IsTaskOf(t, tk), task' = [task EXCEPT ![t] = tk],
         rows' \in [Jobs -> RowType], runs' \in 0..MaxRuns, asked' \in [Jobs -> NameSet]
  PROVE  Typed'
  <1>1. UNCHANGED <<Jobs, Tasks, NameSet, RowType, MaxRuns>> /\ \A u, q : IsTaskOf(u, q)' = IsTaskOf(u, q)
    BY SameWorld DEF Constants
  <1>2. DOMAIN task' = Tasks /\ \A u \in Tasks : IsTaskOf(u, task'[u])
    BY DEF Typed
  <1>3. \A u \in Tasks' : IsTaskOf(u, task[u])'
    BY <1>1, <1>2
  <1> QED BY <1>1, <1>2, <1>3 DEF Typed

\* db.set of typed columns: what it changes and what it leaves.
LEMMA SetType ==
  ASSUME Typed, NEW j \in Jobs, NEW u, Set(j, u),
         "state" \in DOMAIN u => u.state \in Open \cup {"done", "error"},
         "dest" \in DOMAIN u => u.dest \in Range(DestOf),
         "dir" \in DOMAIN u => u.dir \in NameSet,
         "rename_to" \in DOMAIN u => u.rename_to \in NameSet,
         "group" \in DOMAIN u => u.group \in Jobs \cup {0},
         "gname" \in DOMAIN u => u.gname \in NameSet,
         "files" \in DOMAIN u => u.files \subseteq UNION {Downloads(k) : k \in Jobs}
  PROVE  /\ rows' \in [Jobs -> RowType]
         /\ \A k \in Jobs \ {j} : rows'[k] = rows[k]
         /\ \A f \in {"state", "dest", "dir", "rename_to", "group", "gname", "files"} :
               rows'[j][f] = IF f \in DOMAIN u THEN u[f] ELSE rows[j][f]
  <1>1. PICK r : r = Updated(rows[j], u)
    OBVIOUS
  <1>2. rows \in [Jobs -> RowType] /\ rows[j] \in RowType
    BY DEF Typed
  <1>3. r \in RowType /\ \A f \in DOMAIN rows[j] : r[f] = IF f \in DOMAIN u THEN u[f] ELSE rows[j][f]
    BY <1>1, <1>2, UpdatedType
  <1>4. DOMAIN rows[j] = {"state", "dest", "dir", "rename_to", "group", "gname", "files"}
    BY <1>2, RowFacts
  <1>5. rows' = [rows EXCEPT ![j] = r]
    BY <1>1 DEF Set
  <1>6. rows' \in [Jobs -> RowType] /\ rows'[j] = r /\ \A k \in Jobs \ {j} : rows'[k] = rows[k]
    BY <1>2, <1>3, <1>5
  <1> QED BY <1>3, <1>4, <1>6

\* The fields of a task that goes on elsewhere.
With(tk, at, th) == [tk EXCEPT !.at = at, !.thread = th]

\* The fields of a task that goes to its thread or comes from it.
LEMMA TaskFields ==
  ASSUME NEW tk, IsTask(tk), NEW at, NEW th
  PROVE  LET q == With(tk, at, th)
         IN  /\ IsTask(q) /\ q.at = at /\ q.thread = th
             /\ q.jobs = tk.jobs /\ q.i = tk.i /\ q.name = tk.name /\ q.seen = tk.seen
  BY DEF With, IsTask

\* Goto, Await and Raise in terms of With.
LEMMA Transitions ==
  ASSUME DOMAIN task = Tasks, NEW t \in Tasks, IsTask(task[t])
  PROVE  /\ \A at : Goto(t, at) => task' = [task EXCEPT ![t] = With(task[t], at, task[t].thread)]
         /\ \A tk, th : Await(tk, th) = With(tk, IF th.mode = "gather" THEN "moving" ELSE "thread", th)
         /\ Raise(t) => \/ t \in Jobs /\ Goto(t, "failed")
                        \/ t \notin Jobs /\ task' = [task EXCEPT ![t] = NoTask]
  <1>1. ASSUME NEW at, Goto(t, at)
        PROVE  task' = [task EXCEPT ![t] = With(task[t], at, task[t].thread)]
    <2>1. [task[t] EXCEPT !.at = at] = With(task[t], at, task[t].thread)
      BY DEF With, IsTask
    <2> QED BY <1>1, <2>1 DEF Goto
  <1>2. \A tk, th : Await(tk, th) = With(tk, IF th.mode = "gather" THEN "moving" ELSE "thread", th)
    BY DEF Await, With
  <1> QED BY <1>1, <1>2 DEF Raise, End, Becomes

\* The call of rename_dir.
LEMMA RenameThread ==
  ASSUME NEW from \in Seq(Component), from # <<>>, NEW to \in Seq(Component),
         NEW then \in {"idle", "renamed", "gathering"}, NEW th, th = Renaming(from, to, then)
  PROVE  IsThread(th) /\ th.mode = "rename" /\ th.from = from /\ th.to = to /\ th.then = then
         /\ th.goal = <<>>
  <1>1. <<>> \in Seq(Seq(Component))
    OBVIOUS
  <1> QED BY <1>1 DEF Renaming, NoThread, IsThread

\* The call of merge_dirs.
LEMMA MergeThread ==
  ASSUME NEW more \in Seq(Seq(Component)), NEW to \in Seq(Component),
         NEW then \in {"idle", "renamed", "gathering"}, NEW th, th = Merging(more, to, then)
  PROVE  IsThread(th) /\ th.mode = "aside" /\ th.more = more /\ th.to = to /\ th.then = then
         /\ th.goal = <<>>
  <1>1. <<>> \in Seq(Component)
    OBVIOUS
  <1> QED BY <1>1 DEF Merging, NoThread, IsThread

\* The call of gather_into_dir.
LEMMA GatherThread ==
  ASSUME NEW from \in Seq(Component), NEW to \in Seq(Component), NEW rels, \A rel \in rels : IsPath(rel),
         NEW then \in {"idle", "renamed", "gathering"}, NEW th, th = Gathering(from, rels, to, then)
  PROVE  IsThread(th) /\ th.mode = "gather" /\ th.from = from /\ th.to = to /\ th.todo = rels
         /\ th.then = then /\ th.goal = <<>>
  <1>1. <<>> \in Seq(Seq(Component))
    OBVIOUS
  <1> QED BY <1>1 DEF Gathering, NoThread, IsThread

\* A task that has nothing to do.
LEMMA Nothing ==
  ASSUME Typed, NEW t
  PROVE  IsTaskOf(t, NoTask) /\ NoTask.at = "idle" /\ IsThread(NoTask.thread) /\ NoTask.seen = <<>>
         /\ NoTask.jobs = <<>> /\ NoTask.i = 1 /\ NoTask.name = NoDir /\ NoTask.thread.goal = <<>>
  <1>1. NoDir \in NameSet
    BY WorldFacts DEF Typed
  <1>2. <<>> \in Seq(Component) /\ <<>> \in Seq(Seq(Component)) /\ <<>> \in Seq(Jobs) /\ <<>> \in Seq(RowType)
    OBVIOUS
  <1>3. IsThread(NoThread)
    BY <1>2 DEF NoThread, IsThread
  <1>4. IsTask(NoTask) /\ NoTask.at = "idle" /\ NoTask.thread = NoThread /\ NoTask.seen = <<>>
        /\ NoThread.goal = <<>>
        /\ NoTask.jobs = <<>> /\ NoTask.i = 1 /\ NoTask.name = NoDir
    BY DEF NoTask, NoThread, IsTask
  <1>5. IsTaskOf(t, NoTask)
    BY <1>1, <1>2, <1>3, <1>4 DEF IsTaskOf, RunSteps, Requests, InMerge, InThread
  <1> QED BY <1>3, <1>4, <1>5

\* The directories and files of rows.
LEMMA Dirs ==
  ASSUME Typed
  PROVE  /\ \A row \in RowType : row.dest \in Seq(Component) /\ OutputDir(row) \in Seq(Component)
                                    /\ OutputDir(row) # <<>>
         /\ \A row \in RowType, n \in NameSet : row.dest \o <<n>> \in Seq(Component)
         /\ \A j \in Jobs : \A rel \in Downloads(j) : IsPath(rel) /\ rel.name \in FilesOf[j]
         /\ \A row \in RowType : \A rel \in row.files : IsPath(rel)
  <1>1. Range(DestOf) \subseteq Seq(Component) /\ NameSet \subseteq Component
        /\ \A j \in Jobs : \A f : TopOf(j, f) \in NameSet
    BY WorldFacts DEF Typed
  <1>2. \A row \in RowType : row.dest \in Seq(Component) /\ row.dir \in NameSet
    BY <1>1, RowFacts
  <1>3. ASSUME NEW d \in Seq(Component), NEW n \in NameSet
        PROVE  d \o <<n>> \in Seq(Component) /\ d \o <<n>> # <<>>
    BY <1>1
  <1>4. ASSUME NEW j \in Jobs, NEW rel \in Downloads(j)
        PROVE  IsPath(rel) /\ rel.name \in FilesOf[j]
    <2>1. PICK f \in FilesOf[j] : rel = Path(IF TopOf(j, f) = NoDir THEN <<>> ELSE <<TopOf(j, f)>>, f)
      BY <1>4 DEF Downloads
    <2>2. PICK d : d = IF TopOf(j, f) = NoDir THEN <<>> ELSE <<TopOf(j, f)>>
      OBVIOUS
    <2>3. TopOf(j, f) \in Component /\ rel = Path(d, f)
      BY <1>1, <2>1, <2>2
    <2>4. d \in Seq(Component)
      BY <2>2, <2>3
    <2>5. rel = [dir |-> d, name |-> f, sfx |-> <<>>]
      BY <2>3 DEF Path
    <2> QED BY <2>4, <2>5 DEF IsPath
  <1>5. \A row \in RowType : \A rel \in row.files : IsPath(rel)
    BY <1>4, RowFacts
  <1> QED BY <1>2, <1>3, <1>4, <1>5 DEF OutputDir

-----------------------------------------------------------------------------
(* What the moves do to the tree                                           *)

\* What a tree holds, and that another has a file of every name it has.
StoredIn(d) ==
    \A p \in DOMAIN d : IsPath(p) /\ \E j \in Jobs : p.name \in FilesOf[j] /\ d[p] = <<j, p.name>>
NamesStay(d, e) == \A p \in DOMAIN d : \E q \in DOMAIN e : q.name = p.name

\* os.replace of a file onto a file of that name leaves a file of every name.
LEMMA Replaced ==
  ASSUME NEW d, StoredIn(d), NEW src \in DOMAIN d, NEW dst, IsPath(dst), dst.name = src.name
  PROVE  StoredIn(Replace(d, src, dst)) /\ NamesStay(d, Replace(d, src, dst))
  <1>1. PICK e : e = Replace(d, src, dst)
    OBVIOUS
  <1>2. /\ DOMAIN e = (DOMAIN d \ {src}) \cup {dst}
        /\ \A q \in DOMAIN e : e[q] = IF q = dst THEN d[src] ELSE d[q]
    BY <1>1 DEF Replace
  <1>3. \E j \in Jobs : dst.name \in FilesOf[j] /\ d[src] = <<j, dst.name>>
    BY DEF StoredIn
  <1>4. StoredIn(e)
    BY <1>2, <1>3 DEF StoredIn
  <1>5. NamesStay(d, e)
    BY <1>2 DEF NamesStay
  <1> QED BY <1>1, <1>4, <1>5

\* merge_dirs keeps the name and the directory of a file.
LEMMA SuffixedPath ==
  ASSUME NEW d, NEW p, IsPath(p), NEW q, q = FreeTarget(d, p)
  PROVE  IsPath(q) /\ q.name = p.name /\ q.dir = p.dir
  <1>1. PICK n : q = Suffixed(p, n)
    BY DEF FreeTarget
  <1>2. PICK s : s = p.sfx \o [i \in 1..n |-> i + 1]
    OBVIOUS
  <1>3. q = [p EXCEPT !.sfx = s]
    BY <1>1, <1>2 DEF Suffixed
  <1>4. q = [dir |-> p.dir, name |-> p.name, sfx |-> s]
    BY <1>3 DEF IsPath
  <1> QED BY <1>4 DEF IsPath

\* rmtree leaves no file with a content not its own.
LEMMA TreeRemoved ==
  ASSUME NEW d, StoredIn(d), NEW from
  PROVE  StoredIn(RemoveTree(d, from))
  <1>1. PICK e : e = RemoveTree(d, from)
    OBVIOUS
  <1>2. DOMAIN e \subseteq DOMAIN d /\ \A q \in DOMAIN e : e[q] = d[q]
    BY <1>1 DEF RemoveTree
  <1> QED BY <1>1, <1>2 DEF StoredIn

\* os.replace of a directory leaves a file of every name.
LEMMA TreeRenamed ==
  ASSUME NEW d, StoredIn(d), NEW from \in Seq(Component), NEW to \in Seq(Component)
  PROVE  StoredIn(RenameTree(d, from, to)) /\ NamesStay(d, RenameTree(d, from, to))
  <1>1. PICK e : e = RenameTree(d, from, to)
    OBVIOUS
  <1>2. PICK moved : moved = {In(to, rel) : rel \in RelFiles(d, from)}
    OBVIOUS
  <1>3. /\ DOMAIN e = (DOMAIN d \ Under(d, from)) \cup moved
        /\ \A q \in DOMAIN e :
              e[q] = IF q \in moved THEN d[WithDir(q, from \o Below(to, q))] ELSE d[q]
    BY <1>1, <1>2 DEF RenameTree, WithDir, Below
  <1>4. ASSUME NEW p \in Under(d, from)
        PROVE  \E q \in moved : /\ IsPath(q) /\ q.name = p.name
                                /\ WithDir(q, from \o Below(to, q)) = p
    <2>1. p \in DOMAIN d /\ IsPath(p) /\ IsPrefix(from, p.dir)
      BY <1>4 DEF Under, StoredIn
    <2>2. PICK rel : rel = WithDir(p, Below(from, p))
      OBVIOUS
    <2>3. rel \in RelFiles(d, from)
      BY <1>4, <2>2, Relative
    <2>4. IsPath(rel) /\ rel.name = p.name /\ In(from, rel) = p
      BY <2>1, <2>2, RelPath
    <2>5. PICK q : q = In(to, rel)
      OBVIOUS
    <2>6. q \in moved
      BY <1>2, <2>3, <2>5
    <2>7. IsPath(q) /\ q.name = rel.name /\ WithDir(q, from \o Below(to, q)) = In(from, rel)
      BY <2>4, <2>5, PathIn
    <2> QED BY <2>4, <2>6, <2>7
  <1>5. ASSUME NEW q \in moved
        PROVE  \E p \in Under(d, from) : /\ IsPath(q) /\ q.name = p.name
                                         /\ WithDir(q, from \o Below(to, q)) = p
    <2>1. PICK rel \in RelFiles(d, from) : q = In(to, rel)
      BY <1>2, <1>5
    <2>2. PICK p \in Under(d, from) : rel = WithDir(p, Below(from, p))
      BY <2>1, Relative
    <2>3. p \in DOMAIN d /\ IsPath(p) /\ IsPrefix(from, p.dir)
      BY <2>2 DEF Under, StoredIn
    <2>4. IsPath(rel) /\ rel.name = p.name /\ In(from, rel) = p
      BY <2>2, <2>3, RelPath
    <2>5. IsPath(q) /\ q.name = rel.name /\ WithDir(q, from \o Below(to, q)) = In(from, rel)
      BY <2>1, <2>4, PathIn
    <2> QED BY <2>2, <2>4, <2>5
  <1>6. StoredIn(e)
    <2>1. ASSUME NEW q \in DOMAIN e
          PROVE  IsPath(q) /\ \E j \in Jobs : q.name \in FilesOf[j] /\ e[q] = <<j, q.name>>
      <3>1. CASE q \in moved
        <4>1. PICK p \in Under(d, from) : IsPath(q) /\ q.name = p.name
                                          /\ WithDir(q, from \o Below(to, q)) = p
          BY <1>5, <3>1
        <4>2. e[q] = d[p] /\ p \in DOMAIN d
          BY <1>3, <3>1, <4>1 DEF Under
        <4> QED BY <4>1, <4>2 DEF StoredIn
      <3>2. CASE q \notin moved
        BY <1>3, <2>1, <3>2 DEF StoredIn
      <3> QED BY <3>1, <3>2
    <2> QED BY <2>1 DEF StoredIn
  <1>7. NamesStay(d, e)
    BY <1>3, <1>4 DEF NamesStay
  <1> QED BY <1>1, <1>6, <1>7

\* What a tree holds when the file rel of a download of j has been moved to dest.
Arrived(dest, j, rel, d) ==
    LET path == In(dest, rel)
    IN  [p \in DOMAIN d \cup {path} |-> IF p = path THEN <<j, rel.name>> ELSE d[p]]

\* A file of a download leaves a file of every name, its own included.
LEMMA FileLanded ==
  ASSUME Typed, NEW d, StoredIn(d), NEW dest \in Seq(Component), NEW j \in Jobs, NEW rel \in Downloads(j)
  PROVE  LET e == Arrived(dest, j, rel, d)
         IN  StoredIn(e) /\ NamesStay(d, e) /\ \E q \in DOMAIN e : q.name = rel.name
  <1>1. PICK e : e = Arrived(dest, j, rel, d)
    OBVIOUS
  <1>2. PICK path : path = In(dest, rel)
    OBVIOUS
  <1>3. /\ DOMAIN e = DOMAIN d \cup {path}
        /\ \A q \in DOMAIN e : e[q] = IF q = path THEN <<j, rel.name>> ELSE d[q]
    BY <1>1, <1>2 DEF Arrived
  <1>4. IsPath(rel) /\ rel.name \in FilesOf[j]
    BY Dirs
  <1>5. IsPath(path) /\ path.name = rel.name
    BY <1>2, <1>4, PathIn
  <1>6. StoredIn(e)
    BY <1>3, <1>4, <1>5 DEF StoredIn
  <1>7. NamesStay(d, e) /\ \E q \in DOMAIN e : q.name = rel.name
    BY <1>3, <1>5 DEF NamesStay
  <1> QED BY <1>1, <1>6, <1>7

\* A download has a file of every name.
LEMMA DownloadNames ==
  ASSUME NEW j, NEW f \in FilesOf[j]
  PROVE  \E rel \in Downloads(j) : rel.name = f
  <1>1. PICK dir : dir = IF TopOf(j, f) = NoDir THEN <<>> ELSE <<TopOf(j, f)>>
    OBVIOUS
  <1>2. Path(dir, f) \in Downloads(j)
    BY <1>1 DEF Downloads
  <1>3. Path(dir, f).name = f
    BY DEF Path
  <1> QED BY <1>2, <1>3

\* The paths below a directory, relative to it.
LEMMA RelFilesArePaths ==
  ASSUME NEW d, \A p \in DOMAIN d : IsPath(p), NEW from \in Seq(Component)
  PROVE  /\ \A rel \in RelFiles(d, from) : IsPath(rel) /\ In(from, rel) \in Under(d, from)
         /\ RelFiles(d, from) = {} => Under(d, from) = {}
  <1>1. ASSUME NEW rel \in RelFiles(d, from)
        PROVE  IsPath(rel) /\ In(from, rel) \in Under(d, from)
    <2>1. PICK p \in Under(d, from) : rel = WithDir(p, Below(from, p))
      BY <1>1, Relative
    <2>2. IsPath(p) /\ IsPrefix(from, p.dir)
      BY <2>1 DEF Under
    <2> QED BY <2>1, <2>2, RelPath
  <1> QED BY <1>1, Relative

-----------------------------------------------------------------------------
(* The steps of a thread                                                   *)

\* A typed step of a request or run.
Proceeds(t) ==
    /\ \E tk : IsTaskOf(t, tk) /\ task' = [task EXCEPT ![t] = tk]
    /\ rows' \in [Jobs -> RowType] /\ runs' \in 0..MaxRuns /\ asked' \in [Jobs -> NameSet]

\* The fields of a typed task.
LEMMA InFields ==
  ASSUME Typed, NEW t \in Tasks, NEW tk, tk = task[t]
  PROVE  /\ IsTaskOf(t, tk) /\ IsTask(tk) /\ IsThread(tk.thread) /\ DOMAIN task = Tasks
         /\ tk.jobs \in Seq(Jobs) /\ tk.i \in Nat \ {0} /\ tk.name \in NameSet /\ tk.seen \in Seq(RowType)
         /\ rows \in [Jobs -> RowType] /\ runs \in 0..MaxRuns /\ asked \in [Jobs -> NameSet]
  BY DEF Typed, IsTaskOf

\* A task that goes on with its thread, or returns from it.
LEMMA OnThread ==
  ASSUME Typed, NEW t \in Tasks, NEW tk, tk = task[t], tk.at \in {"thread", "moving"},
         NEW at, NEW th, IsThread(th), th.then = tk.thread.then,
         at \in {"thread", "moving", th.then}, at = "moving" \/ th.goal = <<>>
  PROVE  IsTaskOf(t, With(tk, at, th))
  <1>1. IsTaskOf(t, tk) /\ IsTask(tk)
    BY InFields
  <1>2. PICK q : q = With(tk, at, th)
    OBVIOUS
  <1>3. /\ IsTask(q) /\ q.at = at /\ q.thread = th
        /\ q.jobs = tk.jobs /\ q.i = tk.i /\ q.name = tk.name /\ q.seen = tk.seen
    BY <1>1, <1>2, TaskFields
  <1>4. /\ tk.jobs \in Seq(Jobs) /\ tk.i \in Nat \ {0} /\ tk.name \in NameSet /\ tk.seen \in Seq(RowType)
        /\ th.then \in {"renamed", "gathering"}
        /\ (th.then = "renamed" /\ t \in Clients) => tk.jobs # <<>>
        /\ th.then = "gathering" => t \in Clients /\ tk.jobs # <<>> /\ Len(tk.seen) = Len(tk.jobs)
    BY <1>1 DEF IsTaskOf, IsThread, InThread, InMerge
  <1>5. Clients \cap Jobs = {}
    BY WorldFacts DEF Typed
  <1>6. q.at \in IF t \in Jobs THEN RunSteps ELSE Requests
    BY <1>3, <1>4, <1>5 DEF RunSteps, Requests
  <1>7. q.at \in {"thread", "moving", "renamed", "gathering"}
    BY <1>3, <1>4
  <1>8. IsTaskOf(t, q)
    BY <1>3, <1>4, <1>6, <1>7 DEF IsTaskOf, InThread, InMerge
  <1> QED BY <1>2, <1>8

\* A task whose thread has raised an exception.
LEMMA Raised ==
  ASSUME Typed, NEW t \in Tasks, NEW tk, tk = task[t], tk.at \in {"thread", "moving"}, Raise(t)
  PROVE  \E q : IsTaskOf(t, q) /\ task' = [task EXCEPT ![t] = q]
                /\ q.at = IF t \in Jobs THEN "failed" ELSE "idle"
  <1>1. IsTaskOf(t, tk) /\ IsTask(tk) /\ DOMAIN task = Tasks /\ IsThread(tk.thread)
    BY InFields
  <1>2. CASE t \in Jobs
    <2>1. PICK q : q = With(tk, "failed", tk.thread)
      OBVIOUS
    <2>2. task' = [task EXCEPT ![t] = q]
      BY <1>1, <1>2, <2>1, Transitions
    <2>3. /\ IsTask(q) /\ q.at = "failed" /\ q.thread = tk.thread
          /\ q.jobs = tk.jobs /\ q.i = tk.i /\ q.name = tk.name /\ q.seen = tk.seen
      BY <1>1, <2>1, TaskFields
    <2>4. IsTaskOf(t, q)
      BY <1>1, <1>2, <2>3 DEF IsTaskOf, InThread, InMerge, RunSteps
    <2> QED BY <1>2, <2>2, <2>3, <2>4
  <1>3. CASE t \notin Jobs
    BY <1>1, <1>3, Transitions, Nothing
  <1> QED BY <1>2, <1>3

\* rename_dir has looked for its target.
LEMMA TestTargetStep ==
  ASSUME Typed, Stored, NEW t \in Tasks, TestTarget(t)
  PROVE  Proceeds(t) /\ disk' = disk
  <1>1. PICK tk : tk = task[t]
    OBVIOUS
  <1>2. PICK th : th = tk.thread
    OBVIOUS
  <1>3. /\ IsTaskOf(t, tk) /\ IsTask(tk) /\ IsThread(th) /\ DOMAIN task = Tasks
        /\ rows \in [Jobs -> RowType] /\ runs \in 0..MaxRuns /\ asked \in [Jobs -> NameSet]
    BY <1>1, <1>2, InFields
  <1>4. tk.at = "thread" /\ th.mode = "rename" /\ UNCHANGED <<rows, runs, asked, disk>>
    BY <1>1, <1>2 DEF TestTarget
  <1>5. PICK mode \in {"over", "whole"} : task' = [task EXCEPT ![t].thread.mode = mode]
    BY DEF TestTarget
  <1>6. PICK th2 : th2 = [th EXCEPT !.mode = mode]
    OBVIOUS
  <1>7. th.goal = <<>> /\ th.from # <<>>
    BY <1>2, <1>3, <1>4 DEF IsTaskOf, IsThread
  <1>8. IsThread(th2) /\ th2.then = th.then /\ th2.goal = <<>>
    BY <1>3, <1>5, <1>6, <1>7 DEF IsThread
  <1>9. task' = [task EXCEPT ![t] = With(tk, "thread", th2)]
    BY <1>1, <1>2, <1>3, <1>4, <1>5, <1>6 DEF With, IsTask
  <1>10. IsTaskOf(t, With(tk, "thread", th2))
    BY <1>1, <1>2, <1>4, <1>8, OnThread
  <1> QED BY <1>3, <1>4, <1>9, <1>10 DEF Proceeds

\* _move_tree has listed its source.
LEMMA ListTreeStep ==
  ASSUME Typed, Stored, NEW t \in Tasks, ListTree(t)
  PROVE  Proceeds(t) /\ disk' = disk
  <1>1. PICK tk : tk = task[t]
    OBVIOUS
  <1>2. PICK th : th = tk.thread
    OBVIOUS
  <1>3. /\ IsTaskOf(t, tk) /\ IsTask(tk) /\ IsThread(th) /\ DOMAIN task = Tasks
        /\ rows \in [Jobs -> RowType] /\ runs \in 0..MaxRuns /\ asked \in [Jobs -> NameSet]
    BY <1>1, <1>2, InFields
  <1>4. tk.at = "thread" /\ th.mode = "over" /\ UNCHANGED <<rows, runs, asked, disk>>
        /\ th.from \in Seq(Component) /\ th.goal = <<>>
    BY <1>1, <1>2, <1>3 DEF ListTree, IsThread, IsTaskOf
  <1>5. PICK rels : rels = RelFiles(disk, th.from)
    OBVIOUS
  <1>6. PICK th2 : th2 = [th EXCEPT !.todo = rels]
    OBVIOUS
  <1>7. \A rel \in rels : IsPath(rel)
    BY <1>4, <1>5, RelFilesArePaths DEF Stored
  <1>8. IsThread(th2) /\ th2.then = th.then
    BY <1>3, <1>4, <1>6, <1>7 DEF IsThread
  <1>9. task' = [task EXCEPT ![t] = With(tk, "moving", th2)]
    <2>1. task' = [task EXCEPT ![t].at = "moving", ![t].thread.todo = rels]
      BY <1>1, <1>2, <1>5 DEF ListTree
    <2> QED BY <1>1, <1>2, <1>3, <1>6, <2>1 DEF With, IsTask
  <1>10. IsTaskOf(t, With(tk, "moving", th2))
    BY <1>1, <1>2, <1>4, <1>8, OnThread
  <1> QED BY <1>3, <1>4, <1>9, <1>10 DEF Proceeds

\* A directory is replaced, moved below another, or not moved.
LEMMA ReplaceDirStep ==
  ASSUME Typed, Stored, NEW t \in Tasks, ReplaceDir(t)
  PROVE  Proceeds(t) /\ StoredIn(disk') /\ NamesStay(disk, disk')
  <1>1. PICK tk : tk = task[t]
    OBVIOUS
  <1>2. PICK th : th = tk.thread
    OBVIOUS
  <1>3. /\ IsTaskOf(t, tk) /\ IsTask(tk) /\ IsThread(th) /\ DOMAIN task = Tasks
        /\ rows \in [Jobs -> RowType] /\ runs \in 0..MaxRuns /\ asked \in [Jobs -> NameSet]
    BY <1>1, <1>2, InFields
  <1>4. /\ tk.at = "thread" /\ th.mode = "whole" /\ UNCHANGED <<rows, runs, asked>>
        /\ th.from \in Seq(Component) /\ th.to \in Seq(Component) /\ th.from # <<>> /\ th.goal = <<>>
    BY <1>1, <1>2, <1>3 DEF ReplaceDir, IsThread, IsTaskOf
  <1>5. PICK goal : goal = IF IsDir(disk, th.to) THEN th.to \o <<Last(th.from)>> ELSE th.to
    OBVIOUS
  <1>6. goal \in Seq(Component)
    <2>1. Last(th.from) \in Component
      BY <1>4 DEF Last
    <2>2. th.to \o <<Last(th.from)>> \in Seq(Component)
      BY <1>4, <2>1
    <2> QED BY <1>4, <1>5, <2>2
  <1>7. StoredIn(disk) /\ NamesStay(disk, disk)
    BY DEF Stored, StoredIn, NamesStay
  <1>8. CASE disk' = RenameTree(disk, th.from, goal) /\ Goto(t, th.then)
    <2>1. task' = [task EXCEPT ![t] = With(tk, th.then, th)]
      BY <1>1, <1>2, <1>3, <1>8, Transitions
    <2>2. IsTaskOf(t, With(tk, th.then, th))
      BY <1>1, <1>2, <1>3, <1>4, OnThread
    <2>3. StoredIn(disk') /\ NamesStay(disk, disk')
      BY <1>4, <1>6, <1>7, <1>8, TreeRenamed
    <2> QED BY <1>3, <1>4, <2>1, <2>2, <2>3 DEF Proceeds
  <1>9. CASE Raise(t) /\ UNCHANGED disk
    BY <1>1, <1>3, <1>4, <1>7, <1>9, Raised DEF Proceeds
  <1> QED BY <1>1, <1>2, <1>5, <1>8, <1>9 DEF ReplaceDir

\* A merge that has begun with source src.
SourceTaken(tk, src, rest, rels) ==
    [tk EXCEPT !.at = IF rels = {} THEN "thread" ELSE "moving",
               !.thread = [@ EXCEPT !.more = rest, !.from = src, !.todo = rels]]

\* merge_dirs at its next source.
LEMMA NextSourceStep ==
  ASSUME Typed, Stored, NEW t \in Tasks, NextSource(t)
  PROVE  Proceeds(t) /\ disk' = disk
  <1>1. PICK tk : tk = task[t]
    OBVIOUS
  <1>2. PICK th : th = tk.thread
    OBVIOUS
  <1>3. /\ IsTaskOf(t, tk) /\ IsTask(tk) /\ IsThread(th) /\ DOMAIN task = Tasks
        /\ rows \in [Jobs -> RowType] /\ runs \in 0..MaxRuns /\ asked \in [Jobs -> NameSet]
    BY <1>1, <1>2, InFields
  <1>4. tk.at = "thread" /\ th.mode = "aside" /\ th.goal = <<>> /\ UNCHANGED <<rows, runs, asked, disk>>
    BY <1>1, <1>2, <1>3 DEF NextSource, IsTaskOf
  <1>5. CASE th.more = <<>>
    <2>1. Goto(t, th.then)
      BY <1>1, <1>2, <1>5 DEF NextSource
    <2>2. task' = [task EXCEPT ![t] = With(tk, th.then, th)]
      BY <1>1, <1>2, <1>3, <2>1, Transitions
    <2>3. IsTaskOf(t, With(tk, th.then, th))
      BY <1>1, <1>2, <1>3, <1>4, OnThread
    <2> QED BY <1>3, <1>4, <2>2, <2>3 DEF Proceeds
  <1>6. CASE th.more # <<>>
    <2>1. PICK src : src = Head(th.more)
      OBVIOUS
    <2>2. PICK rels : rels = IF src = th.to THEN {} ELSE RelFiles(disk, src)
      OBVIOUS
    <2>3. PICK rest : rest = Tail(th.more)
      OBVIOUS
    <2>4. PICK th2 : th2 = [th EXCEPT !.more = rest, !.from = src, !.todo = rels]
      OBVIOUS
    <2>5. PICK at : at = IF rels = {} THEN "thread" ELSE "moving"
      OBVIOUS
    <2>6. src \in Seq(Component) /\ rest \in Seq(Seq(Component))
      BY <1>3, <1>6, <2>1, <2>3, HeadTailProperties DEF IsThread
    <2>7. \A rel \in rels : IsPath(rel)
      BY <2>2, <2>6, RelFilesArePaths DEF Stored
    <2>8. IsThread(th2) /\ th2.then = th.then /\ th2.goal = <<>>
      BY <1>3, <1>4, <2>4, <2>6, <2>7 DEF IsThread
    <2>9. task' = [task EXCEPT ![t] = SourceTaken(task[t], src, rest, rels)]
      <3>1. task' = [task EXCEPT ![t] =
                        SourceTaken(task[t], Head(task[t].thread.more), Tail(task[t].thread.more),
                                    IF Head(task[t].thread.more) = task[t].thread.to THEN {}
                                    ELSE RelFiles(disk, Head(task[t].thread.more)))]
        BY <1>1, <1>2, <1>6 DEF NextSource, Becomes, SourceTaken
      <3> QED BY <1>1, <1>2, <2>1, <2>2, <2>3, <3>1
    <2>10. task' = [task EXCEPT ![t] = With(tk, at, th2)]
      BY <1>1, <1>2, <1>3, <2>4, <2>5, <2>9 DEF SourceTaken, With, IsTask
    <2>11. IsTaskOf(t, With(tk, at, th2))
      BY <1>1, <1>2, <1>4, <2>5, <2>8, OnThread
    <2> QED BY <1>3, <1>4, <2>10, <2>11 DEF Proceeds
  <1> QED BY <1>4, <1>5, <1>6

\* The next file of a loop is a path.
LEMMA NextFileIsPath ==
  ASSUME NEW th, IsThread(th), th.todo # {}
  PROVE  NextFile(th) \in th.todo /\ IsPath(NextFile(th))
  BY DEF IsThread, NextFile

\* A loop has decided where to put a file, or to skip it.
LEMMA TestFileStep ==
  ASSUME Typed, Stored, NEW t \in Tasks, TestFile(t)
  PROVE  Proceeds(t) /\ disk' = disk
  <1>1. PICK tk : tk = task[t]
    OBVIOUS
  <1>2. PICK th : th = tk.thread
    OBVIOUS
  <1>3. /\ IsTaskOf(t, tk) /\ IsTask(tk) /\ IsThread(th) /\ DOMAIN task = Tasks
        /\ rows \in [Jobs -> RowType] /\ runs \in 0..MaxRuns /\ asked \in [Jobs -> NameSet]
    BY <1>1, <1>2, InFields
  <1>4. tk.at = "moving" /\ th.todo # {} /\ th.goal = <<>> /\ UNCHANGED <<rows, runs, asked, disk>>
        /\ th.to \in Seq(Component)
    BY <1>1, <1>2, <1>3 DEF TestFile, IsThread
  <1>5. PICK rel : rel = NextFile(th)
    OBVIOUS
  <1>6. PICK dst : dst = In(th.to, rel)
    OBVIOUS
  <1>7. IsPath(rel) /\ IsPath(dst) /\ dst.name = rel.name /\ dst.dir = th.to \o rel.dir
    <2>1. IsPath(rel)
      BY <1>3, <1>4, <1>5, NextFileIsPath
    <2> QED BY <1>4, <1>6, <2>1, PathIn
  <1>8. ASSUME NEW goal,
               (th.mode = "aside" /\ goal = FreeTarget(disk, dst)) \/ (th.mode = "gather" /\ goal = dst),
               task' = [task EXCEPT ![t].thread.goal = <<goal>>]
        PROVE  Proceeds(t)
    <2>1. PICK th2 : th2 = [th EXCEPT !.goal = <<goal>>]
      OBVIOUS
    <2>2. IsPath(goal) /\ goal.name = rel.name /\ goal.dir = th.to \o rel.dir
      <3>1. CASE goal = FreeTarget(disk, dst)
        <4>1. IsPath(dst)
          BY <1>7
        <4>2. IsPath(goal) /\ goal.name = dst.name /\ goal.dir = dst.dir
          BY <3>1, <4>1, SuffixedPath
        <4> QED BY <1>7, <4>2
      <3> QED BY <1>7, <1>8, <3>1
    <2>3. /\ th2.todo = th.todo /\ th2.to = th.to /\ th2.mode = th.mode /\ th2.goal = <<goal>>
          /\ th2.then = th.then /\ NextFile(th2) = rel
      BY <1>3, <1>5, <2>1 DEF IsThread, NextFile
    <2>4. IsGoal(th2, goal)
      BY <1>4, <1>6, <1>8, <2>2, <2>3 DEF IsGoal
    <2>5. IsThread(th2)
      BY <1>3, <2>1, <2>3, <2>4 DEF IsThread
    <2>6. task' = [task EXCEPT ![t] = With(tk, "moving", th2)]
      BY <1>1, <1>2, <1>3, <1>4, <1>8, <2>1 DEF With, IsTask
    <2>7. IsTaskOf(t, With(tk, "moving", th2))
      BY <1>1, <1>2, <1>4, <2>3, <2>5, OnThread
    <2> QED BY <1>3, <1>4, <2>6, <2>7 DEF Proceeds
  <1>9. CASE task' = [task EXCEPT ![t].thread.todo = @ \ {rel}]
    <2>1. PICK th2 : th2 = [th EXCEPT !.todo = @ \ {rel}]
      OBVIOUS
    <2>2. IsThread(th2) /\ th2.then = th.then
      BY <1>3, <1>4, <2>1 DEF IsThread
    <2>3. task' = [task EXCEPT ![t] = With(tk, "moving", th2)]
      BY <1>1, <1>2, <1>3, <1>4, <1>9, <2>1 DEF With, IsTask
    <2>4. IsTaskOf(t, With(tk, "moving", th2))
      BY <1>1, <1>2, <1>4, <2>2, OnThread
    <2> QED BY <1>3, <1>4, <2>3, <2>4 DEF Proceeds
  <1>10. \/ \E goal : /\ \/ th.mode = "aside" /\ goal = FreeTarget(disk, dst)
                         \/ th.mode = "gather" /\ goal = dst
                     /\ task' = [task EXCEPT ![t].thread.goal = <<goal>>]
         \/ task' = [task EXCEPT ![t].thread.todo = @ \ {rel}]
    <2>1. CASE th.mode = "aside"
      <3>1. task' = [task EXCEPT ![t].thread.goal = <<FreeTarget(disk, dst)>>]
        BY <1>1, <1>2, <1>5, <1>6, <2>1 DEF TestFile, NextFile
      <3> QED BY <2>1, <3>1
    <2>2. CASE th.mode # "aside"
      BY <1>1, <1>2, <1>5, <1>6, <2>2 DEF TestFile, NextFile
    <2> QED BY <2>1, <2>2
  <1> QED BY <1>4, <1>8, <1>9, <1>10

\* Where the loops put the next file.
TargetOf(th) == IF th.mode = "over" THEN In(th.to, NextFile(th)) ELSE th.goal[1]

\* It has the name of the file and is as far below the target.
LEMMA TargetFacts ==
  ASSUME NEW th, IsThread(th), th.todo # {}, th.mode = "over" \/ th.goal # <<>>
  PROVE  LET rel == NextFile(th)
         IN  /\ IsPath(TargetOf(th)) /\ TargetOf(th).name = rel.name /\ TargetOf(th).dir = th.to \o rel.dir
             /\ th.mode # "aside" => TargetOf(th) = In(th.to, rel)
             /\ In(th.from, rel).name = rel.name
  <1>1. PICK rel : rel = NextFile(th)
    OBVIOUS
  <1>2. IsPath(rel) /\ th.to \in Seq(Component) /\ th.from \in Seq(Component)
    BY <1>1, NextFileIsPath DEF IsThread
  <1>3. In(th.from, rel).name = rel.name
    <2>1. PICK q : q = In(th.from, rel)
      OBVIOUS
    <2> QED BY <1>2, <2>1, PathIn
  <1>4. CASE th.mode = "over"
    <2>1. PICK q : q = In(th.to, rel)
      OBVIOUS
    <2>2. PICK to \in Seq(Component) : to = th.to
      BY <1>2
    <2>3. IsPath(q) /\ q.name = rel.name /\ q.dir = th.to \o rel.dir
      BY <1>2, <2>1, <2>2, PathIn
    <2>4. TargetOf(th) = q
      BY <1>1, <1>4, <2>1 DEF TargetOf
    <2> QED BY <1>1, <1>3, <2>1, <2>3, <2>4
  <1>5. CASE th.mode # "over"
    <2>1. IsGoal(th, th.goal[1])
      BY <1>5 DEF IsThread
    <2> QED BY <1>1, <1>3, <1>5, <2>1 DEF IsGoal, TargetOf
  <1> QED BY <1>4, <1>5

\* MoveFile: the file is moved, or the thread raises.
LEMMA MoveFileIs ==
  ASSUME NEW t, MoveFile(t), NEW th, th = task[t].thread
  PROVE  LET src == In(th.from, NextFile(th))
         IN  /\ task[t].at = "moving" /\ th.todo # {} /\ (th.mode = "over" \/ th.goal # <<>>)
             /\ UNCHANGED <<rows, runs, asked>>
             /\ \/ /\ src \in DOMAIN disk
                   /\ disk' = Replace(disk, src, TargetOf(th))
                   /\ task' = [task EXCEPT ![t].thread.todo = @ \ {NextFile(th)}, ![t].thread.goal = <<>>]
                \/ src \notin DOMAIN disk /\ disk' = disk /\ Raise(t)
  BY DEF MoveFile, NextFile, TargetOf

\* The move of one file.
LEMMA MoveFileStep ==
  ASSUME Typed, Stored, NEW t \in Tasks, MoveFile(t)
  PROVE  Proceeds(t) /\ StoredIn(disk') /\ NamesStay(disk, disk')
  <1>1. PICK tk : tk = task[t]
    OBVIOUS
  <1>2. PICK th : th = tk.thread
    OBVIOUS
  <1>3. /\ IsTaskOf(t, tk) /\ IsTask(tk) /\ IsThread(th) /\ DOMAIN task = Tasks
        /\ rows \in [Jobs -> RowType] /\ runs \in 0..MaxRuns /\ asked \in [Jobs -> NameSet]
    BY <1>1, <1>2, InFields
  <1>4. tk.at = "moving" /\ th.todo # {} /\ (th.mode = "over" \/ th.goal # <<>>)
        /\ UNCHANGED <<rows, runs, asked>>
    BY <1>1, <1>2, MoveFileIs
  <1>5. PICK src, dst : src = In(th.from, NextFile(th)) /\ dst = TargetOf(th)
    OBVIOUS
  <1>6. IsPath(dst) /\ dst.name = src.name
    BY <1>3, <1>4, <1>5, TargetFacts
  <1>7. StoredIn(disk) /\ NamesStay(disk, disk)
    BY DEF Stored, StoredIn, NamesStay
  <1>8. CASE src \notin DOMAIN disk
    <2>1. disk' = disk /\ Raise(t)
      BY <1>1, <1>2, <1>5, <1>8, MoveFileIs
    <2> QED BY <1>1, <1>3, <1>4, <1>7, <2>1, Raised DEF Proceeds
  <1>9. CASE src \in DOMAIN disk
    <2>1. /\ disk' = Replace(disk, src, dst)
          /\ task' = [task EXCEPT ![t].thread.todo = @ \ {NextFile(th)}, ![t].thread.goal = <<>>]
      BY <1>1, <1>2, <1>5, <1>9, MoveFileIs
    <2>2. PICK th2 : th2 = [th EXCEPT !.todo = @ \ {NextFile(th)}, !.goal = <<>>]
      OBVIOUS
    <2>3. IsThread(th2) /\ th2.then = th.then
      BY <1>3, <2>2 DEF IsThread
    <2>4. task' = [task EXCEPT ![t] = With(tk, "moving", th2)]
      <3>1. {"at", "thread"} \subseteq DOMAIN tk /\ {"todo", "goal"} \subseteq DOMAIN th
        BY <1>3 DEF IsTask, IsThread
      <3>2. task' = [task EXCEPT ![t] = [tk EXCEPT !.thread.todo = @ \ {NextFile(th)}, !.thread.goal = <<>>]]
        BY <1>1, <1>3, <2>1
      <3>3. [tk EXCEPT !.thread.todo = @ \ {NextFile(th)}, !.thread.goal = <<>>] = [tk EXCEPT !.thread = th2]
        BY <1>2, <2>2, <3>1
      <3>4. [tk EXCEPT !.thread = th2] = With(tk, "moving", th2)
        BY <1>3, <1>4, <3>1 DEF With, IsTask
      <3> QED BY <3>2, <3>3, <3>4
    <2>5. IsTaskOf(t, With(tk, "moving", th2))
      BY <1>1, <1>2, <1>4, <2>3, OnThread
    <2> QED BY <1>3, <1>4, <1>6, <1>7, <1>9, <2>1, <2>4, <2>5, Replaced DEF Proceeds
  <1> QED BY <1>8, <1>9

\* The end of a source directory.
LEMMA EndSourceStep ==
  ASSUME Typed, Stored, NEW t \in Tasks, EndSource(t)
  PROVE  Proceeds(t) /\ StoredIn(disk') /\ task'[t].at # "moving"
  <1>1. PICK tk : tk = task[t]
    OBVIOUS
  <1>2. PICK th : th = tk.thread
    OBVIOUS
  <1>3. /\ IsTaskOf(t, tk) /\ IsTask(tk) /\ IsThread(th) /\ DOMAIN task = Tasks
        /\ rows \in [Jobs -> RowType] /\ runs \in 0..MaxRuns /\ asked \in [Jobs -> NameSet]
    BY <1>1, <1>2, InFields
  <1>4. tk.at = "moving" /\ th.goal = <<>> /\ UNCHANGED <<rows, runs, asked>>
    BY <1>1, <1>2, <1>3 DEF EndSource, IsThread, IsGoal
  <1>5. PICK at : at = IF th.mode = "aside" THEN "thread" ELSE th.then
    OBVIOUS
  <1>6. task' = [task EXCEPT ![t] = With(tk, at, th)]
    BY <1>1, <1>2, <1>3, <1>5, Transitions DEF EndSource
  <1>7. IsTaskOf(t, With(tk, at, th))
    BY <1>1, <1>2, <1>3, <1>4, <1>5, OnThread
  <1>8. With(tk, at, th).at = at /\ at # "moving"
    BY <1>3, <1>5, TaskFields DEF IsThread
  <1>9. StoredIn(disk')
    <2>1. disk' = disk \/ \E from : disk' = RemoveTree(disk, from)
      BY DEF EndSource
    <2> QED BY <2>1, TreeRemoved DEF Stored, StoredIn
  <1> QED BY <1>3, <1>4, <1>6, <1>7, <1>8, <1>9 DEF Proceeds

\* Any step of a thread.
LEMMA ThreadSteps ==
  ASSUME Typed, Stored, NEW t \in Tasks, ThreadStep(t)
  PROVE  /\ Proceeds(t) /\ StoredIn(disk') /\ (NamesStay(disk, disk') \/ EndSource(t))
         /\ task[t].at \in {"thread", "moving"} /\ UNCHANGED <<rows, runs, asked>>
  <1>1. StoredIn(disk) /\ NamesStay(disk, disk)
    BY DEF Stored, StoredIn, NamesStay
  <1>2. Proceeds(t) /\ StoredIn(disk') /\ (NamesStay(disk, disk') \/ EndSource(t))
    BY <1>1, TestTargetStep, ListTreeStep, ReplaceDirStep, NextSourceStep, TestFileStep, MoveFileStep,
       EndSourceStep DEF ThreadStep
  <1>3. task[t].at \in {"thread", "moving"} /\ UNCHANGED <<rows, runs, asked>>
    BY DEF ThreadStep, TestTarget, ListTree, ReplaceDir, NextSource, TestFile, MoveFile, EndSource
  <1> QED BY <1>2, <1>3

-----------------------------------------------------------------------------
(* The steps of a request                                                  *)

\* Clients are no jobs, and have no run.
LEMMA ClientFacts ==
  ASSUME Typed, NEW c \in Clients
  PROVE  c \in Tasks /\ c \notin Jobs
  BY WorldFacts DEF Typed, Tasks

\* A request awaits a thread.
LEMMA Awaits ==
  ASSUME Typed, NEW t \in Tasks, NEW tk, IsTask(tk), NEW th, IsThread(th), th.goal = <<>>,
         tk.jobs \in Seq(Jobs), tk.i \in Nat \ {0}, tk.name \in NameSet, tk.seen \in Seq(RowType),
         \/ th.then = "renamed" /\ (t \in Clients => tk.jobs # <<>>)
         \/ th.then = "gathering" /\ t \in Clients /\ tk.jobs # <<>> /\ Len(tk.seen) = Len(tk.jobs)
  PROVE  IsTaskOf(t, Await(tk, th)) /\ Await(tk, th).at \in {"thread", "moving"}
         /\ Await(tk, th).thread = th
  <1>1. PICK at : at = IF th.mode = "gather" THEN "moving" ELSE "thread"
    OBVIOUS
  <1>2. PICK q : q = With(tk, at, th)
    OBVIOUS
  <1>3. Await(tk, th) = q
    BY <1>1, <1>2 DEF Await, With
  <1>4. /\ IsTask(q) /\ q.at = at /\ q.thread = th
        /\ q.jobs = tk.jobs /\ q.i = tk.i /\ q.name = tk.name /\ q.seen = tk.seen
    BY <1>2, TaskFields
  <1>5. at \in {"thread", "moving"} /\ q.at \in IF t \in Jobs THEN RunSteps ELSE Requests
    BY <1>1, <1>4 DEF RunSteps, Requests
  <1>6. IsTaskOf(t, q)
    BY <1>4, <1>5 DEF IsTaskOf, InThread, InMerge
  <1> QED BY <1>3, <1>4, <1>5, <1>6

\* A rename is asked for.
LEMMA RenameRequestedStep ==
  ASSUME Typed, NEW c \in Clients, RenameRequested(c)
  PROVE  Proceeds(c) /\ disk' = disk
  <1>1. PICK j \in Jobs : \E n \in NamesOf[j] :
            Becomes(c, [NoTask EXCEPT !.at = "rename", !.jobs = <<j>>, !.name = n, !.seen = <<rows[j]>>])
    BY DEF RenameRequested
  <1>2. PICK n \in NamesOf[j] :
            Becomes(c, [NoTask EXCEPT !.at = "rename", !.jobs = <<j>>, !.name = n, !.seen = <<rows[j]>>])
    BY <1>1
  <1>3. PICK js : js = <<j>>
    OBVIOUS
  <1>4. PICK rs : rs = <<rows[j]>>
    OBVIOUS
  <1>5. n \in NameSet /\ rows \in [Jobs -> RowType] /\ IsTaskOf(c, NoTask) /\ NoTask.thread.goal = <<>>
    BY WorldFacts, Nothing DEF Typed
  <1>6. js \in Seq(Jobs) /\ js # <<>> /\ rs \in Seq(RowType) /\ rs # <<>>
    BY <1>3, <1>4, <1>5
  <1>7. PICK q : q = [NoTask EXCEPT !.at = "rename", !.jobs = js, !.name = n, !.seen = rs]
    OBVIOUS
  <1>8. /\ IsTask(q) /\ q.at = "rename" /\ q.jobs = js /\ q.name = n /\ q.seen = rs
        /\ q.i = NoTask.i /\ q.thread = NoTask.thread
    BY <1>7 DEF NoTask, IsTask
  <1>9. IsTaskOf(c, q)
    BY <1>5, <1>6, <1>8, ClientFacts DEF IsTaskOf, Requests, InThread, InMerge
  <1>10. task' = [task EXCEPT ![c] = q]
    BY <1>2, <1>3, <1>4, <1>7 DEF Becomes
  <1> QED BY <1>9, <1>10 DEF RenameRequested, Proceeds, Typed

\* What a rename that is answered knows of its job.
LEMMA RenamedJob ==
  ASSUME Typed, NEW c \in Clients, NEW tk, tk = task[c], tk.at \in {"rename", "due"}
  PROVE  tk.jobs[1] \in Jobs /\ tk.seen[1] \in RowType /\ tk.jobs # <<>>
         /\ rows[tk.jobs[1]] \in RowType /\ tk.seen # <<>>
  <1>1. /\ tk.jobs \in Seq(Jobs) /\ tk.seen \in Seq(RowType) /\ IsTaskOf(c, tk)
        /\ rows \in [Jobs -> RowType]
    BY ClientFacts, InFields
  <1>2. tk.jobs # <<>> /\ tk.seen # <<>>
    BY <1>1 DEF IsTaskOf
  <1> QED BY <1>1, <1>2

\* The rename of an unfinished job.
LEMMA DeferRenameStep ==
  ASSUME Typed, NEW c \in Clients, DeferRename(c)
  PROVE  Proceeds(c) /\ disk' = disk
  <1>1. PICK tk : tk = task[c]
    OBVIOUS
  <1>2. PICK j : j = tk.jobs[1]
    OBVIOUS
  <1>3. tk.at = "rename" /\ j \in Jobs /\ tk.name \in NameSet /\ IsTaskOf(c, NoTask) /\ c \in Tasks
    BY <1>1, <1>2, RenamedJob, ClientFacts, InFields, Nothing DEF DeferRename
  <1>4. rows' \in [Jobs -> RowType]
    BY <1>1, <1>2, <1>3, SetType DEF DeferRename
  <1>5. asked' \in [Jobs -> NameSet]
    BY <1>1, <1>2, <1>3 DEF DeferRename, Typed
  <1>6. task' = [task EXCEPT ![c] = NoTask] /\ runs' \in 0..MaxRuns
    BY DEF DeferRename, End, Becomes, Typed
  <1> QED BY <1>3, <1>4, <1>5, <1>6 DEF Proceeds, DeferRename

\* The rename of a finished job.
LEMMA RenameNowStep ==
  ASSUME Typed, NEW c \in Clients, RenameNow(c)
  PROVE  Proceeds(c) /\ disk' = disk
  <1>1. PICK tk : tk = task[c]
    OBVIOUS
  <1>2. PICK job : job = tk.seen[1]
    OBVIOUS
  <1>3. PICK loose : loose = Existing(job.dest, rows[tk.jobs[1]].files)
    OBVIOUS
  <1>4. PICK target : target = job.dest \o <<tk.name>>
    OBVIOUS
  <1>5. /\ tk.at = "rename" /\ tk.jobs[1] \in Jobs /\ tk.jobs # <<>> /\ job \in RowType
        /\ rows[tk.jobs[1]] \in RowType
    BY <1>1, <1>2, RenamedJob DEF RenameNow
  <1>6. /\ c \in Tasks /\ IsTask(tk) /\ IsTaskOf(c, NoTask) /\ IsTaskOf(c, tk)
        /\ tk.jobs \in Seq(Jobs) /\ tk.i \in Nat \ {0} /\ tk.name \in NameSet /\ tk.seen \in Seq(RowType)
    BY <1>1, ClientFacts, InFields, Nothing
  <1>7. job.dest \in Seq(Component) /\ OutputDir(job) \in Seq(Component) /\ target \in Seq(Component)
        /\ OutputDir(job) # <<>> /\ \A rel \in loose : IsPath(rel)
    BY <1>3, <1>4, <1>5, <1>6, Dirs, Zenon DEF Existing
  <1>8. \/ End(c)
        \/ Becomes(c, Await(tk, Gathering(job.dest, loose, target, "renamed")))
        \/ Becomes(c, Await(tk, Renaming(OutputDir(job), target, "renamed")))
    <2>1. \/ End(c)
          \/ Becomes(c, Await(task[c], Gathering(task[c].seen[1].dest,
                                                Existing(task[c].seen[1].dest, rows[task[c].jobs[1]].files),
                                                task[c].seen[1].dest \o <<task[c].name>>, "renamed")))
          \/ Becomes(c, Await(task[c], Renaming(OutputDir(task[c].seen[1]),
                                               task[c].seen[1].dest \o <<task[c].name>>, "renamed")))
      BY DEF RenameNow
    <2> QED BY <1>1, <1>2, <1>3, <1>4, <2>1
  <1>9. PICK gather : gather = Gathering(job.dest, loose, target, "renamed")
    OBVIOUS
  <1>10. PICK rename : rename = Renaming(OutputDir(job), target, "renamed")
    OBVIOUS
  <1>11. /\ IsThread(gather) /\ gather.then = "renamed" /\ gather.goal = <<>>
         /\ IsThread(rename) /\ rename.then = "renamed" /\ rename.goal = <<>>
    BY <1>7, <1>9, <1>10, RenameThread, GatherThread
  <1>12. IsTaskOf(c, Await(tk, gather)) /\ IsTaskOf(c, Await(tk, rename))
    BY <1>5, <1>6, <1>11, Awaits
  <1>13. \E q : IsTaskOf(c, q) /\ task' = [task EXCEPT ![c] = q]
    BY <1>6, <1>8, <1>9, <1>10, <1>12 DEF End, Becomes
  <1>14. asked' \in [Jobs -> NameSet]
    <2>1. asked' = asked \/ asked' = [asked EXCEPT ![tk.jobs[1]] = tk.name]
      BY <1>1 DEF RenameNow
    <2> QED BY <1>5, <1>6, <2>1 DEF Typed
  <1> QED BY <1>13, <1>14 DEF Proceeds, RenameNow, Typed

\* The new directory is written.
LEMMA WriteRenamedStep ==
  ASSUME Typed, NEW c \in Clients, WriteRenamed(c)
  PROVE  Proceeds(c) /\ disk' = disk
  <1>1. PICK tk : tk = task[c]
    OBVIOUS
  <1>2. PICK j : j = tk.jobs[1]
    OBVIOUS
  <1>3. /\ c \in Tasks /\ IsTaskOf(c, NoTask) /\ IsTaskOf(c, tk)
        /\ tk.jobs \in Seq(Jobs) /\ tk.name \in NameSet
    BY <1>1, ClientFacts, InFields, Nothing
  <1>4. tk.at = "renamed"
    BY <1>1 DEF WriteRenamed
  <1>5. j \in Jobs
    BY <1>2, <1>3, <1>4 DEF IsTaskOf
  <1>6. rows' \in [Jobs -> RowType]
    BY <1>1, <1>2, <1>3, <1>5, SetType DEF WriteRenamed
  <1>7. asked' \in [Jobs -> NameSet]
    BY <1>1, <1>2, <1>3, <1>5 DEF WriteRenamed, Typed
  <1>8. task' = [task EXCEPT ![c] = NoTask] /\ runs' \in 0..MaxRuns
    BY DEF WriteRenamed, End, Becomes, Typed
  <1> QED BY <1>3, <1>6, <1>7, <1>8 DEF Proceeds, WriteRenamed

\* A merge is asked for.
LEMMA MergeRequestedStep ==
  ASSUME Typed, NEW c \in Clients, MergeRequested(c)
  PROVE  Proceeds(c) /\ disk' = disk
  <1>1. PICK m \in Merges : Becomes(c, [NoTask EXCEPT !.at = "reading", !.jobs = m.jobs, !.name = m.name])
    BY DEF MergeRequested
  <1>2. m.name \in NameSet /\ m.jobs \in Seq(Jobs) /\ Len(m.jobs) >= 2
    BY WorldFacts DEF Typed
  <1>3. PICK q : q = [NoTask EXCEPT !.at = "reading", !.jobs = m.jobs, !.name = m.name]
    OBVIOUS
  <1>4. /\ IsTask(q) /\ q.at = "reading" /\ q.jobs = m.jobs /\ q.name = m.name
        /\ q.seen = NoTask.seen /\ q.i = NoTask.i /\ q.thread = NoTask.thread
    BY <1>3 DEF NoTask, IsTask
  <1>5. IsTaskOf(c, NoTask) /\ NoTask.seen = <<>> /\ NoTask.thread.goal = <<>>
    BY Nothing
  <1>6. IsTaskOf(c, q)
    BY <1>2, <1>4, <1>5, ClientFacts DEF IsTaskOf, Requests, InThread, InMerge
  <1>7. task' = [task EXCEPT ![c] = q]
    BY <1>1, <1>3 DEF Becomes
  <1> QED BY <1>6, <1>7 DEF MergeRequested, Proceeds, Typed

\* A merge that has read one more row.
MemberRead(tk, row, sources) == [tk EXCEPT !.seen = Append(@, row), !.thread.more = sources]

\* A merge after one more member has been read.
LEMMA MemberReadFields ==
  ASSUME NEW tk, IsTask(tk), IsThread(tk.thread), tk.thread.goal = <<>>, tk.seen \in Seq(RowType),
         NEW row \in RowType,
         NEW sources \in Seq(Seq(Component)), NEW q, q = MemberRead(tk, row, sources)
  PROVE  /\ IsTask(q) /\ IsThread(q.thread) /\ q.thread.then = tk.thread.then /\ q.thread.goal = <<>>
         /\ q.at = tk.at /\ q.jobs = tk.jobs /\ q.i = tk.i /\ q.name = tk.name
         /\ q.seen \in Seq(RowType) /\ Len(q.seen) = Len(tk.seen) + 1
  <1>1. PICK seen : seen = Append(tk.seen, row)
    OBVIOUS
  <1>2. seen \in Seq(RowType) /\ Len(seen) = Len(tk.seen) + 1
    BY <1>1, AppendProperties
  <1>3. PICK th : th = [tk.thread EXCEPT !.more = sources]
    OBVIOUS
  <1>4. IsThread(th) /\ th.then = tk.thread.then /\ th.goal = <<>>
    BY <1>3 DEF IsThread
  <1>5. /\ IsTask(q) /\ q.at = tk.at /\ q.jobs = tk.jobs /\ q.i = tk.i /\ q.name = tk.name
        /\ q.seen = seen /\ q.thread = th
    BY <1>1, <1>3 DEF MemberRead, IsTask
  <1> QED BY <1>2, <1>4, <1>5

\* A merge reads a member.
LEMMA ReadMemberStep ==
  ASSUME Typed, NEW c \in Clients, ReadMember(c)
  PROVE  Proceeds(c) /\ disk' = disk
  <1>1. PICK tk : tk = task[c]
    OBVIOUS
  <1>2. PICK row : row = rows[tk.jobs[Len(tk.seen) + 1]]
    OBVIOUS
  <1>3. PICK sources : sources = IF HasDir(row) THEN Append(tk.thread.more, OutputDir(row)) ELSE tk.thread.more
    OBVIOUS
  <1>4. PICK q : q = MemberRead(tk, row, sources)
    OBVIOUS
  <1>5. /\ c \in Tasks /\ IsTask(tk) /\ IsTaskOf(c, NoTask) /\ IsTaskOf(c, tk) /\ IsThread(tk.thread)
        /\ tk.jobs \in Seq(Jobs) /\ tk.i \in Nat \ {0} /\ tk.name \in NameSet /\ tk.seen \in Seq(RowType)
        /\ rows \in [Jobs -> RowType]
    BY <1>1, ClientFacts, InFields, Nothing
  <1>6. tk.at = "reading" /\ Len(tk.seen) < Len(tk.jobs) /\ tk.thread.goal = <<>>
    BY <1>1, <1>5 DEF ReadMember, IsTaskOf
  <1>7. Len(tk.seen) \in Nat /\ Len(tk.jobs) \in Nat
    BY <1>5
  <1>8. row \in RowType
    BY <1>2, <1>5, <1>6, <1>7
  <1>9. sources \in Seq(Seq(Component))
    BY <1>3, <1>5, <1>8, Dirs, AppendProperties DEF IsThread
  <1>10. /\ IsTask(q) /\ IsThread(q.thread) /\ q.thread.then = tk.thread.then /\ q.thread.goal = <<>>
         /\ q.at = tk.at /\ q.jobs = tk.jobs /\ q.i = tk.i /\ q.name = tk.name
         /\ q.seen \in Seq(RowType) /\ Len(q.seen) = Len(tk.seen) + 1
    BY <1>4, <1>5, <1>6, <1>8, <1>9, MemberReadFields
  <1>11. PICK th : th = Merging(sources, Target(q), "gathering")
    BY Zenon
  <1>12. \/ Becomes(c, q) /\ Len(q.seen) < Len(q.jobs)
         \/ End(c)
         \/ Becomes(c, Await(q, th)) /\ ~(Len(q.seen) < Len(q.jobs))
    BY <1>1, <1>2, <1>3, <1>4, <1>11 DEF ReadMember, MemberRead
  <1>13. CASE Becomes(c, q) /\ Len(q.seen) < Len(q.jobs)
    <2>1. IsTaskOf(c, q)
      BY <1>5, <1>6, <1>10, <1>13, ClientFacts DEF IsTaskOf, Requests, InThread, InMerge
    <2> QED BY <1>13, <2>1 DEF Becomes, ReadMember, Proceeds, Typed
  <1>14. CASE End(c)
    BY <1>5, <1>14 DEF End, Becomes, ReadMember, Proceeds, Typed
  <1>15. CASE Becomes(c, Await(q, th)) /\ ~(Len(q.seen) < Len(q.jobs))
    <2>1. Len(q.seen) = Len(q.jobs) /\ q.jobs # <<>>
      BY <1>5, <1>6, <1>7, <1>10, <1>15
    <2>2. q.seen[1] \in RowType
      BY <1>5, <1>10, <2>1
    <2>3. Target(q) \in Seq(Component)
      BY <1>5, <1>10, <2>2, Dirs DEF Target
    <2>4. IsThread(th) /\ th.then = "gathering" /\ th.goal = <<>>
      BY <1>9, <1>11, <2>3, MergeThread
    <2>5. IsTaskOf(c, Await(q, th))
      BY <1>5, <1>10, <2>1, <2>4, Awaits, Zenon
    <2> QED BY <1>15, <2>5 DEF Becomes, ReadMember, Proceeds, Typed
  <1> QED BY <1>12, <1>13, <1>14, <1>15

\* A merge gathers the files of a flat member.
LEMMA GatherMemberStep ==
  ASSUME Typed, NEW c \in Clients, GatherMember(c)
  PROVE  Proceeds(c) /\ disk' = disk
  <1>1. PICK tk : tk = task[c]
    OBVIOUS
  <1>2. /\ c \in Tasks /\ IsTask(tk) /\ IsTaskOf(c, tk)
        /\ tk.jobs \in Seq(Jobs) /\ tk.i \in Nat \ {0} /\ tk.name \in NameSet /\ tk.seen \in Seq(RowType)
        /\ rows \in [Jobs -> RowType]
    BY <1>1, ClientFacts, InFields
  <1>3. tk.at = "gathering" /\ Len(tk.seen) = Len(tk.jobs) /\ tk.jobs # <<>> /\ Len(tk.jobs) \in Nat \ {0}
    <2>1. tk.at = "gathering"
      BY <1>1 DEF GatherMember
    <2>2. Len(tk.seen) = Len(tk.jobs) /\ tk.jobs # <<>>
      BY <1>2, <2>1 DEF IsTaskOf, InMerge
    <2> QED BY <1>2, <2>1, <2>2, EmptySeq, Zenon
  <1>4. PICK job : job = tk.seen[tk.i]
    OBVIOUS
  <1>5. PICK loose : loose = IF job.state = "done" /\ job.dir = NoDir
                             THEN Existing(job.dest, rows[tk.jobs[tk.i]].files) ELSE {}
    OBVIOUS
  <1>6. PICK next : next = [tk EXCEPT !.i = @ + 1]
    OBVIOUS
  <1>7. PICK last : last = [tk EXCEPT !.at = "updating", !.i = 1]
    OBVIOUS
  <1>8. PICK th : th = Gathering(job.dest, loose, Target(tk), "gathering")
    BY Zenon
  <1>9. \/ Becomes(c, last)
        \/ Becomes(c, next)
        \/ Becomes(c, Await(next, th)) /\ ~(tk.i > Len(tk.jobs))
    BY <1>1, <1>4, <1>5, <1>6, <1>7, <1>8 DEF GatherMember
  <1>10. /\ IsTask(next) /\ next.at = "gathering" /\ next.i = tk.i + 1 /\ next.jobs = tk.jobs
         /\ next.name = tk.name /\ next.seen = tk.seen /\ next.thread = tk.thread
    BY <1>2, <1>3, <1>6 DEF IsTask
  <1>11. /\ IsTask(last) /\ last.at = "updating" /\ last.i = 1 /\ last.jobs = tk.jobs
         /\ last.name = tk.name /\ last.seen = tk.seen /\ last.thread = tk.thread
    BY <1>2, <1>7 DEF IsTask
  <1>12. IsTaskOf(c, next)
    BY <1>2, <1>3, <1>10, ClientFacts DEF IsTaskOf, Requests, InThread, InMerge
  <1>13. IsTaskOf(c, last)
    BY <1>2, <1>3, <1>11, ClientFacts DEF IsTaskOf, Requests, InThread, InMerge
  <1>14. ASSUME ~(tk.i > Len(tk.jobs))
         PROVE  IsTaskOf(c, Await(next, th))
    <2>1. tk.i \in 1..Len(tk.seen) /\ tk.i \in 1..Len(tk.jobs) /\ 1 \in 1..Len(tk.seen)
      BY <1>2, <1>3, <1>14
    <2>2. job \in RowType /\ tk.seen[1] \in RowType /\ rows[tk.jobs[tk.i]] \in RowType
      BY <1>2, <1>4, <2>1
    <2>3. job.dest \in Seq(Component) /\ Target(tk) \in Seq(Component)
          /\ \A rel \in rows[tk.jobs[tk.i]].files : IsPath(rel)
      BY <1>2, <2>2, Dirs DEF Target
    <2>4. \A rel \in loose : IsPath(rel)
      BY <1>5, <2>3 DEF Existing
    <2>5. IsThread(th) /\ th.then = "gathering" /\ th.goal = <<>>
      BY <1>8, <2>3, <2>4, GatherThread
    <2>6. next.i \in Nat \ {0}
      BY <1>2, <1>10
    <2> QED BY <1>2, <1>3, <1>10, <2>5, <2>6, Awaits
  <1>15. \E q : IsTaskOf(c, q) /\ task' = [task EXCEPT ![c] = q]
    BY <1>9, <1>12, <1>13, <1>14 DEF Becomes
  <1> QED BY <1>15 DEF Proceeds, GatherMember, Typed

\* A set of positions has a first one.
LEMMA MinBelongs ==
    ASSUME NEW S \in SUBSET Nat, S # {}
    PROVE  Min(S) \in S
  <1> DEFINE I == {0..n : n \in S}
  <1>1. I \subseteq FiniteSubsetsOf(Nat)
    <2> SUFFICES ASSUME NEW n \in S PROVE 0..n \in FiniteSubsetsOf(Nat)
      OBVIOUS
    <2>1. 0 \in Int /\ n \in Int
      OBVIOUS
    <2>2. IsFiniteSet(0..n)
      BY <2>1, FS_Interval
    <2>3. 0..n \in SUBSET Nat
      OBVIOUS
    <2> QED
      BY <2>2, <2>3 DEF FiniteSubsetsOf
  <1>2. I # {}
    OBVIOUS
  <1>3. \E x \in I : \A y \in I : ~ (<<y, x>> \in StrictSubsetOrdering(Nat))
    <2>1. IsWellFoundedOn(StrictSubsetOrdering(Nat), FiniteSubsetsOf(Nat))
      BY FS_StrictSubsetOrderingWellFounded
    <2> HIDE DEF I
    <2> QED
      BY <1>1, <1>2, <2>1, WFMin
  <1>4. PICK m \in S : \A y \in I : ~ (<<y, 0..m>> \in StrictSubsetOrdering(Nat))
    BY <1>3
  <1>5. ASSUME NEW y \in S PROVE m =< y
    <2>1. ~ (<<0..y, 0..m>> \in StrictSubsetOrdering(Nat))
      BY <1>4
    <2>2. SUFFICES ASSUME y < m PROVE FALSE
      OBVIOUS
    <2>3. 0..y \subseteq 0..m /\ m \in 0..m /\ m \notin 0..y
      BY <2>2
    <2>4. 0..y \in SUBSET Nat /\ 0..m \in SUBSET Nat
      OBVIOUS
    <2> QED
      BY <2>1, <2>3, <2>4 DEF StrictSubsetOrdering
  <1> QED
    BY <1>5 DEF Min

\* The group of a merge is a job or none.
LEMMA GroupType ==
  ASSUME NEW tk, tk.seen \in Seq(RowType), tk.jobs \in Seq(Jobs), tk.jobs # <<>>
  PROVE  GroupOf(tk) \in Jobs \cup {0}
  <1>1. PICK seen \in Seq(RowType) : seen = tk.seen
    OBVIOUS
  <1>2. PICK I : I = {i \in 1..Len(seen) : seen[i].group # 0}
    OBVIOUS
  <1>3. GroupOf(tk) = LET k == IF I # {} THEN Min(I) ELSE 0
                      IN  IF k = 0 THEN tk.jobs[1] ELSE seen[k].group
    BY <1>1, <1>2 DEF GroupOf, SelectInSeq
  <1>4. tk.jobs[1] \in Jobs
    OBVIOUS
  <1>5. CASE I = {}
    BY <1>3, <1>4, <1>5
  <1>6. CASE I # {}
    <2>1. I \in SUBSET Nat
      BY <1>2
    <2>2. PICK k : k = Min(I)
      OBVIOUS
    <2>3. k \in I
      BY <1>6, <2>1, <2>2, MinBelongs
    <2>4. k \in 1..Len(seen) /\ seen[k] \in RowType
      BY <1>2, <2>3
    <2>5. seen[k].group \in Jobs \cup {0}
      BY <2>4, RowFacts
    <2> QED BY <1>3, <1>6, <2>2, <2>4, <2>5
  <1> QED BY <1>5, <1>6

\* A merge writes a member.
LEMMA UpdateMemberStep ==
  ASSUME Typed, NEW c \in Clients, UpdateMember(c)
  PROVE  Proceeds(c) /\ disk' = disk
  <1>1. PICK tk : tk = task[c]
    OBVIOUS
  <1>2. /\ c \in Tasks /\ IsTask(tk) /\ IsTaskOf(c, tk)
        /\ tk.jobs \in Seq(Jobs) /\ tk.i \in Nat \ {0} /\ tk.name \in NameSet /\ tk.seen \in Seq(RowType)
        /\ rows \in [Jobs -> RowType]
    BY <1>1, ClientFacts, InFields
  <1>3. tk.at = "updating" /\ Len(tk.seen) = Len(tk.jobs) /\ tk.jobs # <<>> /\ Len(tk.jobs) \in Nat
        /\ tk.i <= Len(tk.jobs)
    BY <1>1, <1>2 DEF UpdateMember, IsTaskOf, InMerge
  <1>4. PICK j : j = tk.jobs[tk.i]
    OBVIOUS
  <1>5. PICK g : g = GroupOf(tk)
    OBVIOUS
  <1>6. PICK dest : dest = tk.seen[1].dest
    OBVIOUS
  <1>7. j \in Jobs /\ g \in Jobs \cup {0}
    BY <1>2, <1>3, <1>4, <1>5, GroupType
  <1>8. dest \in Range(DestOf)
    <2>1. 1 \in 1..Len(tk.seen)
      BY <1>2, <1>3
    <2>2. tk.seen[1] \in RowType
      BY <1>2, <2>1
    <2> QED BY <1>6, <2>2, RowFacts
  <1>9. \/ Set(j, [group |-> g, gname |-> tk.name, dir |-> tk.name, dest |-> dest])
        \/ Set(j, [group |-> g, gname |-> tk.name, rename_to |-> tk.name])
    BY <1>1, <1>4, <1>5, <1>6 DEF UpdateMember
  <1>10. rows' \in [Jobs -> RowType]
    <2>1. CASE Set(j, [group |-> g, gname |-> tk.name, dir |-> tk.name, dest |-> dest])
      BY <1>2, <1>7, <1>8, <2>1, SetType
    <2>2. CASE Set(j, [group |-> g, gname |-> tk.name, rename_to |-> tk.name])
      BY <1>2, <1>7, <2>2, SetType
    <2> QED BY <1>9, <2>1, <2>2
  <1>11. PICK q : q = [tk EXCEPT !.i = @ + 1, !.at = IF tk.i = Len(tk.jobs) THEN "naming" ELSE @]
    OBVIOUS
  <1>12. task' = [task EXCEPT ![c] = q]
    BY <1>1, <1>11 DEF UpdateMember, Becomes
  <1>13. /\ IsTask(q) /\ q.i = tk.i + 1 /\ q.at = IF tk.i = Len(tk.jobs) THEN "naming" ELSE "updating"
         /\ q.jobs = tk.jobs /\ q.name = tk.name /\ q.seen = tk.seen /\ q.thread = tk.thread
    BY <1>2, <1>3, <1>11 DEF IsTask
  <1>14. q.i \in Nat \ {0} /\ (q.at = "updating" => q.i <= Len(q.jobs))
    BY <1>2, <1>3, <1>13
  <1>15. q.at \in {"naming", "updating"}
    BY <1>13
  <1>16. IsTaskOf(c, q)
    BY <1>2, <1>3, <1>13, <1>14, <1>15, ClientFacts DEF IsTaskOf, Requests, InThread, InMerge
  <1> QED BY <1>10, <1>12, <1>16 DEF Proceeds, UpdateMember, Typed

\* update_group_name.
LEMMA SetGroupNameStep ==
  ASSUME Typed, NEW c \in Clients, SetGroupName(c)
  PROVE  Proceeds(c) /\ disk' = disk
  <1>1. c \in Tasks /\ IsTaskOf(c, NoTask) /\ task[c].name \in NameSet /\ rows \in [Jobs -> RowType]
    BY ClientFacts, InFields, Nothing
  <1>2. PICK name \in NameSet : name = task[c].name
    BY <1>1
  <1>3. \A j \in Jobs : [rows[j] EXCEPT !.gname = name] \in RowType
    BY <1>1 DEF RowType
  <1>4. rows' = [j \in Jobs |-> IF rows[j].group = GroupOf(task[c])
                               THEN [rows[j] EXCEPT !.gname = name] ELSE rows[j]]
    BY <1>2 DEF SetGroupName
  <1>5. rows' \in [Jobs -> RowType]
    BY <1>1, <1>3, <1>4
  <1> QED BY <1>1, <1>5 DEF SetGroupName, End, Becomes, Proceeds, Typed

\* The pin loop finds a job due.
LEMMA DueListedStep ==
  ASSUME Typed, NEW c \in Clients, DueListed(c)
  PROVE  Proceeds(c) /\ disk' = disk
  <1>1. PICK j \in Jobs : Becomes(c, [NoTask EXCEPT !.at = "due", !.jobs = <<j>>, !.seen = <<rows[j]>>])
    BY DEF DueListed
  <1>2. PICK js : js = <<j>>
    OBVIOUS
  <1>3. PICK rs : rs = <<rows[j]>>
    OBVIOUS
  <1>4. rows \in [Jobs -> RowType] /\ IsTaskOf(c, NoTask)
    BY Nothing DEF Typed
  <1>5. js \in Seq(Jobs) /\ js # <<>> /\ rs \in Seq(RowType) /\ rs # <<>>
    BY <1>2, <1>3, <1>4
  <1>6. PICK q : q = [NoTask EXCEPT !.at = "due", !.jobs = js, !.seen = rs]
    OBVIOUS
  <1>7. /\ IsTask(q) /\ q.at = "due" /\ q.jobs = js /\ q.name = NoTask.name /\ q.seen = rs
        /\ q.i = NoTask.i /\ q.thread = NoTask.thread
    BY <1>6 DEF NoTask, IsTask
  <1>8. IsTaskOf(c, q)
    BY <1>4, <1>5, <1>7, ClientFacts, Nothing DEF IsTaskOf, Requests, InThread, InMerge
  <1>9. task' = [task EXCEPT ![c] = q]
    BY <1>1, <1>2, <1>3, <1>6 DEF Becomes
  <1> QED BY <1>8, <1>9 DEF DueListed, Proceeds, Typed

\* The pin loop requeues the job.
LEMMA RequeueDueStep ==
  ASSUME Typed, NEW c \in Clients, RequeueDue(c)
  PROVE  Proceeds(c) /\ disk' = disk
  <1>1. PICK tk : tk = task[c]
    OBVIOUS
  <1>2. PICK j : j = tk.jobs[1]
    OBVIOUS
  <1>3. PICK dir : dir = tk.seen[1].dir
    OBVIOUS
  <1>4. j \in Jobs /\ tk.seen[1] \in RowType /\ IsTaskOf(c, NoTask) /\ c \in Tasks
    BY <1>1, <1>2, RenamedJob, ClientFacts, Nothing DEF RequeueDue
  <1>5. dir \in NameSet
    BY <1>3, <1>4, RowFacts
  <1>6. Set(j, [state |-> "queued", rename_to |-> dir])
    BY <1>1, <1>2, <1>3 DEF RequeueDue
  <1>7. rows' \in [Jobs -> RowType]
    BY <1>4, <1>5, <1>6, SetType DEF Open
  <1> QED BY <1>4, <1>7 DEF RequeueDue, End, Becomes, Proceeds, Typed

-----------------------------------------------------------------------------
\* The run of a job and its row.
LEMMA RunFacts ==
  ASSUME Typed, NEW j \in Jobs, NEW tk, tk = task[j]
  PROVE  /\ j \in Tasks /\ j \notin Clients /\ IsTask(tk) /\ IsTaskOf(j, tk) /\ IsTaskOf(j, NoTask)
         /\ IsThread(tk.thread)
         /\ tk.name \in NameSet /\ tk.seen \in Seq(RowType) /\ tk.jobs \in Seq(Jobs) /\ tk.i \in Nat \ {0}
         /\ rows \in [Jobs -> RowType] /\ rows[j] \in RowType /\ DirOf[j] \in NameSet /\ NoDir \in NameSet
         /\ DOMAIN task = Tasks /\ runs \in 0..MaxRuns /\ asked \in [Jobs -> NameSet] /\ MaxRuns \in Nat
  <1>1. j \in Tasks /\ j \notin Clients /\ DirOf[j] \in NameSet /\ NoDir \in NameSet /\ MaxRuns \in Nat
    BY WorldFacts DEF Typed, Tasks
  <1>2. rows \in [Jobs -> RowType] /\ rows[j] \in RowType
    BY DEF Typed
  <1> QED BY <1>1, <1>2, InFields, Nothing

\* A run that goes on where its steps lead.
LEMMA RunGoes ==
  ASSUME Typed, NEW j \in Jobs, NEW tk, tk = task[j], NEW at, Goto(j, at), tk.at \notin {"moving", "failed"},
         \/ at \in {"verdict", "clearing"}
         \/ at = "recorded" /\ tk.seen # <<>>
  PROVE  \E q : IsTaskOf(j, q) /\ q.at = at /\ task' = [task EXCEPT ![j] = q]
  <1>1. PICK q : q = With(tk, at, tk.thread)
    OBVIOUS
  <1>2. task' = [task EXCEPT ![j] = q]
    BY <1>1, RunFacts, Transitions
  <1>3. /\ IsTask(q) /\ q.at = at /\ q.thread = tk.thread
        /\ q.jobs = tk.jobs /\ q.i = tk.i /\ q.name = tk.name /\ q.seen = tk.seen
    BY <1>1, RunFacts, TaskFields
  <1>4. IsTaskOf(j, q)
    BY <1>3, RunFacts DEF IsTaskOf, RunSteps, InThread, InMerge
  <1> QED BY <1>2, <1>3, <1>4

\* A run begins.
LEMMA StartRunStep ==
  ASSUME Typed, NEW j \in Jobs, StartRun(j)
  PROVE  Proceeds(j) /\ disk' = disk /\ \E q : task' = [task EXCEPT ![j] = q] /\ q.at = "downloading"
  <1>1. PICK rs : rs = <<rows[j]>>
    OBVIOUS
  <1>2. PICK q : q = [NoTask EXCEPT !.at = "downloading", !.seen = rs]
    OBVIOUS
  <1>3. /\ IsTask(q) /\ q.at = "downloading" /\ q.seen = rs /\ q.jobs = NoTask.jobs
        /\ q.name = NoTask.name /\ q.i = NoTask.i /\ q.thread = NoTask.thread
    BY <1>2 DEF NoTask, IsTask
  <1>4. rs \in Seq(RowType) /\ rs # <<>>
    BY <1>1, RunFacts
  <1>5. IsTaskOf(j, q)
    BY <1>3, <1>4, RunFacts, Nothing DEF IsTaskOf, RunSteps, InThread, InMerge
  <1>6. task' = [task EXCEPT ![j] = q]
    BY <1>1, <1>2 DEF StartRun, Becomes
  <1>7. rows' \in [Jobs -> RowType]
    <2>1. Set(j, [state |-> "active"])
      BY DEF StartRun
    <2> QED BY <2>1, SetType DEF Open
  <1>8. runs' \in 0..MaxRuns
    <2>1. runs' = runs + 1 /\ runs < MaxRuns
      BY DEF StartRun
    <2> QED BY <2>1, RunFacts
  <1> QED BY <1>3, <1>5, <1>6, <1>7, <1>8 DEF StartRun, Proceeds, Typed

\* _apply_pending_rename up to the thread.
LEMMA ReadPendingStep ==
  ASSUME Typed, NEW j \in Jobs, ReadPending(j)
  PROVE  Proceeds(j) /\ disk' = disk
  <1>1. PICK tk : tk = task[j]
    OBVIOUS
  <1>2. PICK job : job = rows[j]
    OBVIOUS
  <1>3. PICK base : base = tk.seen[1].dest
    OBVIOUS
  <1>4. PICK q : q = [tk EXCEPT !.name = job.rename_to]
    OBVIOUS
  <1>5. PICK src : src = base \o <<job.dir>>
    OBVIOUS
  <1>6. PICK target : target = base \o <<job.rename_to>>
    OBVIOUS
  <1>7. PICK rename : rename = Renaming(src, target, "renamed")
    OBVIOUS
  <1>8. PICK gather : gather = Gathering(base, job.files, target, "renamed")
    BY Zenon
  <1>9. \/ Goto(j, "verdict")
        \/ Goto(j, "clearing")
        \/ Becomes(j, Await(q, rename))
        \/ Becomes(j, Await(q, gather))
    BY <1>1, <1>2, <1>3, <1>4, <1>7, <1>8, <1>5, <1>6 DEF ReadPending
  <1>10. tk.at = "recorded" /\ tk.seen # <<>>
    BY <1>1, RunFacts DEF ReadPending, IsTaskOf
  <1>11. tk.seen[1] \in RowType /\ job \in RowType
    BY <1>1, <1>2, <1>10, RunFacts
  <1>12. job.dir \in NameSet /\ job.rename_to \in NameSet
    BY <1>11, RowFacts
  <1>13. base \in Seq(Component) /\ src \in Seq(Component) /\ target \in Seq(Component) /\ src # <<>>
         /\ \A rel \in job.files : IsPath(rel)
    <2>1. base \in Seq(Component) /\ \A rel \in job.files : IsPath(rel)
      BY <1>3, <1>11, Dirs
    <2>2. src \in Seq(Component) /\ target \in Seq(Component)
      BY <1>3, <1>11, <1>12, <1>5, <1>6, Dirs
    <2>3. src # <<>>
      BY <1>5, <2>1
    <2> QED BY <2>1, <2>2, <2>3
  <1>14. /\ IsThread(rename) /\ rename.then = "renamed" /\ rename.goal = <<>>
         /\ IsThread(gather) /\ gather.then = "renamed" /\ gather.goal = <<>>
    <2>1. IsThread(rename) /\ rename.then = "renamed" /\ rename.goal = <<>>
      BY <1>7, <1>13, RenameThread
    <2>2. IsThread(gather) /\ gather.then = "renamed" /\ gather.goal = <<>>
      BY <1>8, <1>13, GatherThread
    <2> QED BY <2>1, <2>2
  <1>15. IsTask(q) /\ q.jobs = tk.jobs /\ q.i = tk.i /\ q.name = job.rename_to /\ q.seen = tk.seen
    BY <1>1, <1>4, RunFacts DEF IsTask
  <1>16. IsTaskOf(j, Await(q, rename)) /\ IsTaskOf(j, Await(q, gather))
    BY <1>1, <1>12, <1>14, <1>15, RunFacts, Awaits
  <1>17. \E x : IsTaskOf(j, x) /\ task' = [task EXCEPT ![j] = x]
    BY <1>1, <1>9, <1>10, <1>16, RunGoes DEF Becomes
  <1> QED BY <1>17 DEF ReadPending, Proceeds, Typed

\* The run notes a directory.
LEMMA DetectDirStep ==
  ASSUME Typed, NEW j \in Jobs, DetectDir(j)
  PROVE  /\ \E q : IsTaskOf(j, q) /\ task' = [task EXCEPT ![j] = q]
         /\ rows' \in [Jobs -> RowType] /\ UNCHANGED <<disk, runs, asked>>
  <1>1. PICK tk : tk = task[j]
    OBVIOUS
  <1>2. PICK d \in DirsOf(j) : /\ Set(j, [dir |-> d])
                              /\ Becomes(j, [task[j] EXCEPT !.at = "detected", !.name = d])
    BY DEF DetectDir
  <1>3. PICK q : q = [tk EXCEPT !.at = "detected", !.name = d]
    OBVIOUS
  <1>4. /\ IsTask(q) /\ q.at = "detected" /\ q.name = d /\ q.jobs = tk.jobs /\ q.i = tk.i
        /\ q.seen = tk.seen /\ q.thread = tk.thread
    BY <1>1, <1>3, RunFacts DEF IsTask
  <1>5. tk.at \in {"downloading", "detected"} /\ IsTaskOf(j, tk)
    BY <1>1, RunFacts DEF DetectDir
  <1>6. d \in NameSet
    BY WorldFacts DEF Typed
  <1>7. IsTaskOf(j, q)
    BY <1>4, <1>5, <1>6 DEF IsTaskOf, RunSteps, InThread, InMerge
  <1>8. task' = [task EXCEPT ![j] = q]
    BY <1>1, <1>2, <1>3 DEF Becomes
  <1>9. rows' \in [Jobs -> RowType]
    BY <1>2, <1>6, SetType
  <1> QED BY <1>7, <1>8, <1>9 DEF DetectDir

\* The thread that moves a download begins, and moves a file.
LEMMA LandingStep ==
  ASSUME Typed, Stored, NEW j \in Jobs, Downloaded(j) \/ LandFile(j)
  PROVE  /\ \E q : IsTaskOf(j, q) /\ q.at = "landing" /\ task' = [task EXCEPT ![j] = q]
         /\ Downloaded(j) => disk' = disk /\ task'[j].thread.todo = Downloads(j)
         /\ LandFile(j) =>
               \E rel \in task[j].thread.todo :
                  /\ disk' = Arrived(task[j].seen[1].dest, j, rel, disk)
                  /\ task'[j].thread.todo = task[j].thread.todo \ {rel} /\ Named(rel.name)'
         /\ StoredIn(disk') /\ NamesStay(disk, disk') /\ task[j].seen # <<>>
  <1>1. PICK tk : tk = task[j]
    OBVIOUS
  <1>2. PICK th : th = tk.thread
    OBVIOUS
  <1>3. /\ IsTaskOf(j, tk) /\ IsTask(tk) /\ IsThread(th) /\ DOMAIN task = Tasks /\ j \in Tasks
        /\ tk.seen \in Seq(RowType)
    BY <1>1, <1>2, RunFacts, InFields
  <1>4. tk.at \in {"downloading", "detected", "landing"}
    BY <1>1 DEF Downloaded, LandFile
  <1>5. tk.seen # <<>> /\ th.goal = <<>> /\ (tk.at = "landing" => th.todo \subseteq Downloads(j))
    BY <1>2, <1>3, <1>4 DEF IsTaskOf
  <1>6. ASSUME NEW todo, todo \subseteq Downloads(j),
               task' = [task EXCEPT ![j] = With(tk, "landing", [th EXCEPT !.todo = todo])]
        PROVE  /\ \E q : IsTaskOf(j, q) /\ q.at = "landing" /\ task' = [task EXCEPT ![j] = q]
               /\ task'[j].thread.todo = todo
    <2>1. PICK th2 : th2 = [th EXCEPT !.todo = todo]
      OBVIOUS
    <2>2. \A rel \in todo : IsPath(rel)
      BY <1>6, Dirs
    <2>3. IsThread(th2) /\ th2.then = th.then /\ th2.goal = <<>> /\ th2.todo = todo
      BY <1>3, <1>5, <2>1, <2>2 DEF IsThread
    <2>4. PICK q : q = With(tk, "landing", th2)
      OBVIOUS
    <2>5. /\ IsTask(q) /\ q.at = "landing" /\ q.thread = th2
          /\ q.jobs = tk.jobs /\ q.i = tk.i /\ q.name = tk.name /\ q.seen = tk.seen
      BY <1>3, <2>4, TaskFields
    <2>6. IsTaskOf(j, q)
      BY <1>3, <1>5, <1>6, <2>3, <2>5, RunFacts DEF IsTaskOf, RunSteps, InThread, InMerge
    <2>7. task' = [task EXCEPT ![j] = q]
      BY <1>6, <2>1, <2>4
    <2> QED BY <1>3, <2>3, <2>5, <2>6, <2>7
  <1>7. StoredIn(disk) /\ NamesStay(disk, disk)
    BY DEF Stored, StoredIn, NamesStay
  <1>8. CASE Downloaded(j)
    <2>1. task' = [task EXCEPT ![j].at = "landing", ![j].thread.todo = Downloads(j)] /\ disk' = disk
      BY <1>8 DEF Downloaded
    <2>2. task' = [task EXCEPT ![j] = With(tk, "landing", [th EXCEPT !.todo = Downloads(j)])]
      BY <1>1, <1>2, <1>3, <2>1 DEF With, IsTask
    <2>3. ~LandFile(j)
      BY <1>8 DEF Downloaded, LandFile
    <2> QED BY <1>1, <1>5, <1>6, <1>7, <2>1, <2>2, <2>3
  <1>9. CASE LandFile(j)
    <2>1. tk.at = "landing"
      BY <1>1, <1>9 DEF LandFile
    <2>2. PICK rel \in th.todo :
              /\ disk' = Arrived(tk.seen[1].dest, j, rel, disk)
              /\ task' = [task EXCEPT ![j].thread.todo = @ \ {rel}]
      BY <1>1, <1>2, <1>9 DEF LandFile, Arrived
    <2>3. PICK todo : todo = th.todo \ {rel}
      OBVIOUS
    <2>4. task' = [task EXCEPT ![j] = With(tk, "landing", [th EXCEPT !.todo = todo])]
      BY <1>1, <1>2, <1>3, <2>1, <2>2, <2>3 DEF With, IsTask
    <2>5. todo \subseteq Downloads(j) /\ rel \in Downloads(j)
      BY <1>5, <2>1, <2>3
    <2>6. /\ \E q : IsTaskOf(j, q) /\ q.at = "landing" /\ task' = [task EXCEPT ![j] = q]
          /\ task'[j].thread.todo = todo
      BY <1>6, <2>4, <2>5
    <2>7. PICK dest : dest = tk.seen[1].dest
      OBVIOUS
    <2>8. tk.seen[1] \in RowType
      BY <1>3, <1>5
    <2>9. dest \in Seq(Component)
      BY <2>7, <2>8, Dirs
    <2>10. disk' = Arrived(dest, j, rel, disk)
      BY <2>2, <2>7
    <2>11. StoredIn(disk') /\ NamesStay(disk, disk') /\ Named(rel.name)'
      BY <1>7, <2>5, <2>9, <2>10, FileLanded DEF Named
    <2>12. ~Downloaded(j)
      BY <1>9 DEF Downloaded, LandFile
    <2> QED BY <1>1, <1>2, <1>5, <2>2, <2>3, <2>6, <2>11, <2>12
  <1> QED BY <1>8, <1>9

\* The other steps of a run; only a file of the download touches the disk.
LEMMA RunStep ==
  ASSUME Typed, Stored, NEW j \in Jobs,
         \/ DetectDir(j) \/ Downloaded(j) \/ LandFile(j) \/ RecordFiles(j)
         \/ WriteApplied(j) \/ ClearPending(j) \/ Finish(j) \/ FailRun(j)
  PROVE  /\ Proceeds(j) /\ StoredIn(disk') /\ NamesStay(disk, disk')
         /\ ~LandFile(j) => disk' = disk
  <1>1. PICK tk : tk = task[j]
    OBVIOUS
  <1>2. rows' \in [Jobs -> RowType]
    <2>1. CASE DetectDir(j)
      BY <2>1, DetectDirStep
    <2>2. CASE Downloaded(j) \/ LandFile(j)
      BY <2>2, RunFacts DEF Downloaded, LandFile
    <2>3. CASE RecordFiles(j)
      <3>1. Set(j, [files |-> Downloads(j)])
        BY <2>3 DEF RecordFiles
      <3>2. Downloads(j) \subseteq UNION {Downloads(k) : k \in Jobs}
        OBVIOUS
      <3> QED BY <3>1, <3>2, SetType
    <2>4. CASE WriteApplied(j)
      <3>1. Set(j, [dir |-> tk.name, rename_to |-> NoDir])
        BY <1>1, <2>4 DEF WriteApplied
      <3> QED BY <1>1, <3>1, RunFacts, SetType
    <2>5. CASE ClearPending(j)
      <3>1. Set(j, [rename_to |-> NoDir])
        BY <2>5 DEF ClearPending
      <3> QED BY <3>1, RunFacts, SetType
    <2>6. CASE Finish(j) \/ FailRun(j)
      <3>1. \E s \in {"done", "error"} : Set(j, [state |-> s])
        BY <2>6 DEF Finish, FailRun
      <3> QED BY <3>1, SetType
    <2> QED BY <2>1, <2>2, <2>3, <2>4, <2>5, <2>6
  <1>3. \E q : IsTaskOf(j, q) /\ task' = [task EXCEPT ![j] = q]
    <2>1. CASE DetectDir(j)
      BY <2>1, DetectDirStep
    <2>2. CASE Downloaded(j) \/ LandFile(j)
      BY <2>2, LandingStep
    <2>3. CASE RecordFiles(j)
      <3>1. Goto(j, "recorded") /\ tk.seen # <<>> /\ tk.at = "landing"
        BY <1>1, <2>3, RunFacts DEF RecordFiles, IsTaskOf
      <3> QED BY <1>1, <3>1, RunGoes
    <2>4. CASE WriteApplied(j) \/ ClearPending(j)
      <3>1. Goto(j, "verdict") /\ tk.at \in {"renamed", "clearing"}
        BY <1>1, <2>4 DEF WriteApplied, ClearPending
      <3> QED BY <1>1, <3>1, RunGoes
    <2>5. CASE Finish(j) \/ FailRun(j)
      BY <2>5, RunFacts DEF Finish, FailRun, End, Becomes
    <2> QED BY <2>1, <2>2, <2>3, <2>4, <2>5
  <1>4. runs' \in 0..MaxRuns /\ asked' \in [Jobs -> NameSet]
    BY RunFacts DEF DetectDir, Downloaded, LandFile, RecordFiles, WriteApplied, ClearPending, Finish, FailRun
  <1>5. Proceeds(j)
    BY <1>2, <1>3, <1>4 DEF Proceeds
  <1>6. StoredIn(disk) /\ NamesStay(disk, disk)
    BY DEF Stored, StoredIn, NamesStay
  <1>7. ~LandFile(j) => disk' = disk
    BY DEF DetectDir, Downloaded, RecordFiles, WriteApplied, ClearPending, Finish, FailRun
  <1>8. CASE LandFile(j)
    BY <1>5, <1>7, <1>8, LandingStep
  <1> QED BY <1>5, <1>6, <1>7, <1>8

-----------------------------------------------------------------------------
(* Every step is typed, and no move loses a file of its own name           *)

\* A step of a task leaves everything typed.
LEMMA ProceedsTyped ==
  ASSUME Typed, UNCHANGED <<world, crashed>>, NEW t \in Tasks, Proceeds(t)
  PROVE  Typed'
  BY StepOf DEF Proceeds

\* What every step does to the files: none gets a wrong name or content, and no
\* name disappears but at the end of a source directory.
LEMMA StepKeeps ==
  ASSUME Typed, Stored, Step, UNCHANGED <<world, crashed>>
  PROVE  /\ Typed' /\ StoredIn(disk')
         /\ NamesStay(disk, disk') \/ \E t \in Tasks : EndSource(t) /\ task'[t].at # "moving"
  <1>1. StoredIn(disk) /\ NamesStay(disk, disk)
    BY DEF Stored, StoredIn, NamesStay
  <1>2. ASSUME NEW t \in Tasks, ThreadStep(t), ~EndSource(t)
        PROVE  Proceeds(t) /\ StoredIn(disk') /\ NamesStay(disk, disk')
    BY <1>2, ThreadSteps
  <1>3. ASSUME NEW t \in Tasks, EndSource(t)
        PROVE  Proceeds(t) /\ StoredIn(disk') /\ task'[t].at # "moving"
    BY <1>3, EndSourceStep
  <1>4. ASSUME NEW c \in Clients,
               \/ RenameRequested(c) \/ DeferRename(c) \/ RenameNow(c) \/ WriteRenamed(c)
               \/ MergeRequested(c) \/ ReadMember(c) \/ GatherMember(c)
        PROVE  c \in Tasks /\ Proceeds(c) /\ disk' = disk
    BY <1>4, ClientFacts, RenameRequestedStep, DeferRenameStep, RenameNowStep, WriteRenamedStep,
       MergeRequestedStep, ReadMemberStep, GatherMemberStep
  <1>5. ASSUME NEW c \in Clients,
               UpdateMember(c) \/ SetGroupName(c) \/ DueListed(c) \/ RequeueDue(c)
        PROVE  c \in Tasks /\ Proceeds(c) /\ disk' = disk
    BY <1>5, ClientFacts, UpdateMemberStep, SetGroupNameStep, DueListedStep, RequeueDueStep
  <1>6. ASSUME NEW j \in Jobs, StartRun(j) \/ ReadPending(j)
        PROVE  j \in Tasks /\ Proceeds(j) /\ disk' = disk
    BY <1>6, RunFacts, StartRunStep, ReadPendingStep
  <1>7. ASSUME NEW j \in Jobs,
               \/ DetectDir(j) \/ Downloaded(j) \/ LandFile(j) \/ RecordFiles(j)
               \/ WriteApplied(j) \/ ClearPending(j) \/ Finish(j) \/ FailRun(j)
        PROVE  j \in Tasks /\ Proceeds(j) /\ StoredIn(disk') /\ NamesStay(disk, disk')
    BY <1>7, RunFacts, RunStep
  <1>8. CASE Retry
    <2>1. PICK j \in Jobs : Set(j, [state |-> "queued"])
      BY <1>8 DEF Retry
    <2>2. rows' \in [Jobs -> RowType]
      BY <2>1, SetType DEF Open
    <2>3. UNCHANGED <<disk, task, runs, asked>>
      BY <1>8 DEF Retry
    <2>4. Typed'
      BY <2>2, <2>3, SameWorld DEF Typed, Constants
    <2> QED BY <1>1, <2>3, <2>4
  <1>9. CASE \E t \in Tasks : ThreadStep(t)
    BY <1>2, <1>3, <1>9, ProceedsTyped
  <1>10. CASE \E c \in Clients :
                 \/ RenameRequested(c) \/ DeferRename(c) \/ RenameNow(c) \/ WriteRenamed(c)
                 \/ MergeRequested(c) \/ ReadMember(c) \/ GatherMember(c) \/ UpdateMember(c)
                 \/ SetGroupName(c) \/ DueListed(c) \/ RequeueDue(c)
    BY <1>1, <1>4, <1>5, <1>10, ProceedsTyped
  <1>11. CASE \E j \in Jobs :
                \/ StartRun(j) \/ DetectDir(j) \/ Downloaded(j) \/ LandFile(j) \/ RecordFiles(j) \/ ReadPending(j)
                \/ WriteApplied(j) \/ ClearPending(j) \/ Finish(j) \/ FailRun(j)
    BY <1>1, <1>6, <1>7, <1>11, ProceedsTyped
  <1> QED BY <1>8, <1>9, <1>10, <1>11 DEF Step

\* A crash leaves rows typed and files alone.
LEMMA CrashKeeps ==
  ASSUME Typed, Crash, UNCHANGED world
  PROVE  Typed' /\ disk' = disk
  <1>1. /\ rows \in [Jobs -> RowType] /\ DOMAIN task = Tasks /\ runs \in 0..MaxRuns
        /\ asked \in [Jobs -> NameSet] /\ world \in Worlds
    BY DEF Typed
  <1>2. \A j \in Jobs : [rows[j] EXCEPT !.state = "queued"] \in RowType
    BY <1>1 DEF RowType, Open
  <1>3. rows' \in [Jobs -> RowType]
    BY <1>1, <1>2 DEF Crash
  <1>4. DOMAIN task' = Tasks /\ \A t \in Tasks : task'[t] = NoTask /\ IsTaskOf(t, NoTask)
    BY Nothing DEF Crash
  <1>5. /\ UNCHANGED <<Jobs, Tasks, NameSet, RowType, MaxRuns>>
        /\ \A u, q : IsTaskOf(u, q)' = IsTaskOf(u, q)
    BY SameWorld DEF Constants
  <1>6. \A t \in Tasks : IsTaskOf(t, task[t])'
    BY <1>4, <1>5
  <1> QED BY <1>1, <1>3, <1>4, <1>5, <1>6 DEF Typed, Crash

\* A task that has nothing to do, before the invariant is known.
LEMMA NoTaskType ==
  ASSUME NoDir \in NameSet, NEW t
  PROVE  IsTaskOf(t, NoTask)
  <1>1. <<>> \in Seq(Component) /\ <<>> \in Seq(Seq(Component)) /\ <<>> \in Seq(Jobs) /\ <<>> \in Seq(RowType)
    OBVIOUS
  <1>2. IsThread(NoThread)
    BY <1>1 DEF NoThread, IsThread
  <1>3. IsTask(NoTask) /\ NoTask.at = "idle" /\ NoTask.thread = NoThread /\ NoTask.seen = <<>>
        /\ NoTask.jobs = <<>> /\ NoTask.i = 1 /\ NoTask.name = NoDir /\ NoThread.goal = <<>>
    BY DEF NoTask, NoThread, IsTask
  <1> QED BY <1>1, <1>2, <1>3 DEF IsTaskOf, RunSteps, Requests, InMerge, InThread

\* The situations to start from.
LEMMA InitTyped ==
  ASSUME Init
  PROVE  Typed /\ Stored
  <1>1. world \in Worlds
    BY DEF Init
  <1>2. PICK done : done = {j \in Jobs : StateOf[j] = "done"}
    OBVIOUS
  <1>3. ASSUME NEW j \in Jobs
        PROVE  NewRow(j) \in RowType
    <2>1. /\ StateOf[j] \in Open \cup {"done", "error"} /\ DestOf[j] \in Range(DestOf)
          /\ DirOf[j] \in NameSet /\ NoDir \in NameSet
      BY <1>1, <1>3, WorldFacts DEF Open
    <2>2. (IF StateOf[j] = "done" THEN Downloads(j) ELSE {}) \subseteq UNION {Downloads(k) : k \in Jobs}
      BY <1>3
    <2> QED BY <2>1, <2>2 DEF NewRow, RowType
  <1>4. \A t \in Tasks : task[t] = NoTask
    BY DEF Init
  <1>5. rows \in [Jobs -> RowType] /\ asked \in [Jobs -> NameSet] /\ runs \in 0..MaxRuns
    BY <1>1, <1>3, WorldFacts DEF Init
  <1>6. Typed
    <2>1. NoDir \in NameSet
      BY <1>1, WorldFacts
    <2>2. \A t \in Tasks : IsTaskOf(t, NoTask)
      BY <2>1, NoTaskType
    <2> QED BY <1>1, <1>4, <1>5, <2>2 DEF Typed, Init
  <1>7. Stored
    <2>1. PICK land : land = [j \in done |-> Landing(DestOf[j], j)]
      OBVIOUS
    <2>2. disk = [p \in UNION {Landing(DestOf[j], j) : j \in done} |->
                     <<CHOOSE j \in done : p \in Landing(DestOf[j], j), p.name>>]
      BY <1>2 DEF Init
    <2>3. ASSUME NEW p \in DOMAIN disk
          PROVE  IsPath(p) /\ \E j \in Jobs : p.name \in FilesOf[j] /\ disk[p] = <<j, p.name>>
      <3>1. PICK j : j = CHOOSE k \in done : p \in Landing(DestOf[k], k)
        OBVIOUS
      <3>2. \E k \in done : p \in Landing(DestOf[k], k)
        BY <2>2, <2>3
      <3>3. j \in done /\ p \in Landing(DestOf[j], j)
        BY <3>1, <3>2
      <3>4. disk[p] = <<j, p.name>>
        BY <2>2, <2>3, <3>1
      <3>5. j \in Jobs /\ DestOf[j] \in Seq(Component)
        BY <1>1, <1>2, <3>3, WorldFacts
      <3>6. PICK rel \in Downloads(j) : p = In(DestOf[j], rel)
        BY <3>3 DEF Landing
      <3>7. IsPath(rel) /\ rel.name \in FilesOf[j]
        BY <1>6, <3>5, Dirs
      <3>8. IsPath(p) /\ p.name = rel.name
        BY <3>5, <3>6, <3>7, PathIn
      <3> QED BY <3>4, <3>5, <3>7, <3>8
    <2> QED BY <2>3 DEF Stored
  <1> QED BY <1>6, <1>7

\* Whatever requests, runs and crashes do, rows, tasks and files stay well formed.
LEMMA Invariant ==
  Spec => [](Typed /\ Stored)
  <1>1. Init => Typed /\ Stored
    BY InitTyped
  <1>2. Typed /\ Stored /\ [Next]_vars => Typed' /\ Stored'
    <2> SUFFICES ASSUME Typed, Stored, [Next]_vars PROVE Typed' /\ Stored'
      OBVIOUS
    <2>1. UNCHANGED world
      BY DEF Next, vars
    <2>2. Typed' /\ StoredIn(disk')
      <3>1. CASE Step /\ UNCHANGED <<world, crashed>>
        BY <3>1, StepKeeps
      <3>2. CASE Crash /\ UNCHANGED world
        BY <3>2, CrashKeeps DEF Stored, StoredIn
      <3>3. CASE UNCHANGED vars
        BY <3>3, SameWorld DEF Typed, Stored, StoredIn, Constants, vars
      <3> QED BY <3>1, <3>2, <3>3 DEF Next
    <2>3. UNCHANGED <<Jobs, FilesOf>> /\ \A p : IsPath(p)' = IsPath(p)
      BY <2>1, SameWorld DEF Constants, FilesOf, IsPath, Component
    <2>4. Stored'
      BY <2>2, <2>3 DEF Stored, StoredIn
    <2> QED BY <2>2, <2>4
  <1> QED BY <1>1, <1>2, PTL DEF Spec

\* The last copy of a file disappears; a move ends its source.
Loses(j, f) == Copies(j, f) # {} /\ Copies(j, f)' = {}
Ends(t) == task[t].at = "moving" /\ task[t].thread.todo = {} /\ task'[t] # task[t]

\* A file whose name no other job has disappears only when a move of some task removes
\* a source directory it has emptied, whatever overlaps and whatever crashes: no
\* rename, merge or gather of a file or directory loses it.
THEOREM OwnFileIsMovedWhole ==
  Spec => [][\A j \in Jobs, f \in UNION Range(FilesOf) :
                (\A k \in Jobs \ {j} : f \notin FilesOf[k]) /\ Loses(j, f) =>
                    \E t \in Tasks : Ends(t)]_vars
  <1>1. Typed /\ Stored /\ [Next]_vars =>
            [\A j \in Jobs, f \in UNION Range(FilesOf) :
                (\A k \in Jobs \ {j} : f \notin FilesOf[k]) /\ Loses(j, f) =>
                    \E t \in Tasks : Ends(t)]_vars
    <2> SUFFICES ASSUME Typed, Stored, Next, NEW j \in Jobs, NEW f,
                        \A k \in Jobs \ {j} : f \notin FilesOf[k], Loses(j, f)
                 PROVE  \E t \in Tasks : Ends(t)
      BY DEF vars, Loses, Copies
    <2>1. PICK p \in DOMAIN disk : disk[p] = <<j, f>>
      BY DEF Loses, Copies
    <2>2. p.name = f
      BY <2>1 DEF Stored
    <2>3. \A q \in DOMAIN disk' : disk'[q] # <<j, f>>
      BY DEF Loses, Copies
    <2>4. ~Crash
      BY <2>1, <2>3 DEF Crash
    <2>5. Step /\ UNCHANGED <<world, crashed>>
      BY <2>4 DEF Next
    <2>6. StoredIn(disk') /\ (NamesStay(disk, disk') \/ \E t \in Tasks : EndSource(t) /\ task'[t].at # "moving")
      BY <2>5, StepKeeps
    <2>7. CASE NamesStay(disk, disk')
      <3>1. PICK q \in DOMAIN disk' : q.name = f
        BY <2>1, <2>2, <2>7 DEF NamesStay
      <3>2. \E k \in Jobs : f \in FilesOf[k] /\ disk'[q] = <<k, f>>
        BY <2>6, <3>1 DEF StoredIn
      <3> QED BY <2>3, <3>1, <3>2
    <2>8. CASE \E t \in Tasks : EndSource(t) /\ task'[t].at # "moving"
      BY <2>8 DEF EndSource, Ends
    <2> QED BY <2>6, <2>7, <2>8
  <1> QED BY <1>1, Invariant, PTL DEF Spec

\* MovesLoseNothing, when no two jobs have a file of one name (when they have, requests
\* that overlap overwrite each other's files: ClaimMergeRace).
THEOREM RenamesAndMovesLoseNothing ==
  ASSUME \A w \in Worlds : OwnNames(w)
  PROVE  Spec => MovesLoseNothing
  <1>1. Typed /\ Stored =>
          ([\A j \in Jobs, f \in UNION Range(FilesOf) :
                (\A k \in Jobs \ {j} : f \notin FilesOf[k]) /\ Loses(j, f) =>
                    \E t \in Tasks : Ends(t)]_vars
            => [(Overlap => OwnNames(world)) =>
                \A j \in Jobs, f \in UNION Range(FilesOf) :
                  (Copies(j, f) # {} /\ Copies(j, f)' = {}) =>
                      \E t \in Tasks : task[t].at = "moving" /\ task[t].thread.todo = {}
                                      /\ task'[t] # task[t]]_vars)
    <2>1. ASSUME Typed, Stored, NEW j \in Jobs, NEW f, Copies(j, f) # {}
          PROVE  \A k \in Jobs \ {j} : f \notin FilesOf[k]
      <3>1. PICK p \in DOMAIN disk : disk[p] = <<j, f>>
        BY <2>1 DEF Copies
      <3>2. f \in FilesOf[j]
        BY <2>1, <3>1 DEF Stored
      <3>3. OwnNames(world)
        BY <2>1 DEF Typed
      <3> QED BY <3>2, <3>3 DEF OwnNames, Jobs, FilesOf
    <2> QED BY <2>1 DEF Loses, Ends
  <1> QED BY <1>1, Invariant, OwnFileIsMovedWhole, PTL DEF MovesLoseNothing

-----------------------------------------------------------------------------
(* Who is at work: what most steps do to states                            *)

\* Where Goto and Await leave a task.
LEMMA GoesTo ==
  ASSUME Typed, NEW t \in Tasks
  PROVE  /\ \A at : Goto(t, at) => task'[t].at = at
         /\ \A tk : Becomes(t, tk) => task'[t] = tk
         /\ End(t) => task'[t].at = "idle"
         /\ Raise(t) => task'[t].at = IF t \in Jobs THEN "failed" ELSE "idle"
         /\ \A tk, th : IsTask(tk) => Await(tk, th).at = IF th.mode = "gather" THEN "moving" ELSE "thread"
  <1>1. DOMAIN task = Tasks /\ IsTask(task[t])
    BY InFields
  <1>2. ASSUME NEW at, Goto(t, at)
        PROVE  task'[t].at = at
    BY <1>1, <1>2 DEF Goto, IsTask
  <1>3. \A tk : Becomes(t, tk) => task'[t] = tk
    BY <1>1 DEF Becomes
  <1>4. End(t) => task'[t].at = "idle"
    BY <1>3, Nothing DEF End
  <1>5. ASSUME NEW tk, NEW th, IsTask(tk)
        PROVE  Await(tk, th).at = IF th.mode = "gather" THEN "moving" ELSE "thread"
    BY <1>5 DEF Await, IsTask
  <1> QED BY <1>2, <1>3, <1>4, <1>5 DEF Raise

\* A row's state stays when the update is silent about it.
LEMMA StatesStay ==
  ASSUME Typed, NEW j \in Jobs, NEW u, Set(j, u), "state" \notin DOMAIN u
  PROVE  \A k \in Jobs : rows'[k].state = rows[k].state
  <1>1. rows \in [Jobs -> RowType]
    BY DEF Typed
  <1>2. rows[j] \in RowType
    BY <1>1
  <1>3. "state" \in DOMAIN rows[j]
    BY <1>2, RowFacts
  <1>4. Updated(rows[j], u).state = rows[j].state
    BY <1>3 DEF Updated
  <1>5. rows' = [rows EXCEPT ![j] = Updated(rows[j], u)]
    BY DEF Set
  <1> QED BY <1>1, <1>4, <1>5

\* What most steps do to states and to who is at work.
Works(t) ==
    /\ \A j \in Jobs : rows'[j].state = rows[j].state
    /\ task'[t].at # "due"
    /\ task'[t].at = "landing" => Downloaded(t) \/ LandFile(t)
    /\ t \in Jobs => task[t].at # "idle" /\ task'[t].at # "idle"
    /\ Busy(t)' => Busy(t) \/ MayBegin

\* The steps of a thread.
LEMMA ThreadWorks ==
  ASSUME Typed, NEW t \in Tasks, ThreadStep(t)
  PROVE  Works(t) /\ rows' = rows
  <1>1. PICK tk : tk = task[t]
    OBVIOUS
  <1>2. PICK th : th = tk.thread
    OBVIOUS
  <1>3. IsTaskOf(t, tk) /\ IsTask(tk) /\ IsThread(th) /\ DOMAIN task = Tasks
    BY <1>1, <1>2, InFields
  <1>4. tk.at \in {"thread", "moving"} /\ rows' = rows
    BY <1>1 DEF ThreadStep, TestTarget, ListTree, ReplaceDir, NextSource, TestFile, MoveFile, EndSource
  <1>5. th.then \in {"renamed", "gathering"}
    BY <1>2, <1>3, <1>4 DEF IsTaskOf, IsThread
  <1>6. task'[t].at \in {"thread", "moving", th.then} \/ Raise(t)
    <2>1. CASE TestTarget(t) \/ ListTree(t) \/ TestFile(t)
      <3>1. \/ \E m : task' = [task EXCEPT ![t].thread.mode = m]
            \/ \E q : task' = [task EXCEPT ![t].at = "moving", ![t].thread.todo = q]
            \/ \E q : task' = [task EXCEPT ![t].thread.goal = q]
            \/ \E q : task' = [task EXCEPT ![t].thread.todo = q]
        BY <2>1 DEF TestTarget, ListTree, TestFile
      <3> QED BY <1>1, <1>3, <1>4, <3>1 DEF IsTask
    <2>5. CASE ReplaceDir(t)
      BY <1>1, <1>2, <2>5, GoesTo DEF ReplaceDir
    <2>2. CASE NextSource(t)
      <3>1. CASE Goto(t, th.then)
        BY <3>1, GoesTo
      <3>2. CASE th.more # <<>>
        <4>1. PICK rels : rels = IF Head(th.more) = th.to THEN {} ELSE RelFiles(disk, Head(th.more))
          OBVIOUS
        <4>2. Becomes(t, SourceTaken(tk, Head(th.more), Tail(th.more), rels))
          BY <1>1, <1>2, <2>2, <3>2, <4>1 DEF NextSource, SourceTaken
        <4>3. task'[t] = SourceTaken(tk, Head(th.more), Tail(th.more), rels)
          BY <4>2, GoesTo
        <4> QED BY <1>3, <4>3 DEF SourceTaken, IsTask
      <3> QED BY <1>1, <1>2, <2>2, <3>1, <3>2 DEF NextSource
    <2>3. CASE MoveFile(t)
      <3>1. \/ \E q : task' = [task EXCEPT ![t].thread.todo = q, ![t].thread.goal = <<>>]
            \/ Raise(t)
        BY <2>3 DEF MoveFile
      <3> QED BY <1>1, <1>3, <1>4, <3>1 DEF IsTask
    <2>4. CASE EndSource(t)
      BY <1>1, <1>2, <2>4, GoesTo DEF EndSource
    <2> QED BY <2>1, <2>2, <2>3, <2>4, <2>5 DEF ThreadStep
  <1>7. t \in Jobs => task'[t].at # "idle"
    BY <1>5, <1>6, GoesTo
  <1>8. task'[t].at \notin {"due", "landing"}
    BY <1>5, <1>6, GoesTo
  <1> QED BY <1>1, <1>4, <1>7, <1>8 DEF Works, Busy

\* The steps of a request, but for the pin loop.
LEMMA RequestWorks ==
  ASSUME Typed, NEW c \in Clients,
         \/ RenameRequested(c) \/ DeferRename(c) \/ RenameNow(c) \/ WriteRenamed(c)
         \/ MergeRequested(c) \/ ReadMember(c) \/ GatherMember(c) \/ UpdateMember(c) \/ SetGroupName(c)
  PROVE  Works(c)
  <1>1. PICK tk : tk = task[c]
    OBVIOUS
  <1>2. /\ c \in Tasks /\ c \notin Jobs /\ IsTask(tk) /\ IsTaskOf(c, tk) /\ DOMAIN task = Tasks
        /\ rows \in [Jobs -> RowType]
    BY <1>1, ClientFacts, InFields, Zenon
  <1>3. \A j \in Jobs : rows'[j].state = rows[j].state
    <2>1. CASE DeferRename(c)
      <3>1. tk.jobs[1] \in Jobs
        BY <1>1, <2>1, RenamedJob DEF DeferRename
      <3> QED BY <1>1, <2>1, <3>1, StatesStay DEF DeferRename
    <2>2. CASE WriteRenamed(c)
      <3>1. tk.jobs # <<>> /\ tk.jobs \in Seq(Jobs)
        BY <1>1, <1>2, <2>2 DEF WriteRenamed, IsTaskOf
      <3>2. tk.jobs[1] \in Jobs
        BY <3>1
      <3> QED BY <1>1, <2>2, <3>2, StatesStay DEF WriteRenamed
    <2>3. CASE UpdateMember(c)
      <3>1. PICK j : j = tk.jobs[tk.i]
        OBVIOUS
      <3>2. tk.i \in Nat \ {0} /\ tk.i <= Len(tk.jobs) /\ tk.jobs \in Seq(Jobs)
        BY <1>1, <1>2, <2>3 DEF UpdateMember, IsTaskOf
      <3>3. j \in Jobs
        BY <3>1, <3>2
      <3>4. PICK g : g = GroupOf(tk)
        OBVIOUS
      <3>5. \/ Set(j, [group |-> g, gname |-> tk.name, dir |-> tk.name, dest |-> tk.seen[1].dest])
            \/ Set(j, [group |-> g, gname |-> tk.name, rename_to |-> tk.name])
        BY <1>1, <2>3, <3>1, <3>4 DEF UpdateMember
      <3> QED BY <3>3, <3>5, StatesStay
    <2>4. CASE SetGroupName(c)
      <3>1. \A j \in Jobs : rows[j] \in RowType
        BY <1>2
      <3>2. \A j \in Jobs : \A n : [rows[j] EXCEPT !.gname = n].state = rows[j].state
        BY <3>1, RowFacts
      <3> QED BY <2>4, <3>2 DEF SetGroupName
    <2>5. CASE rows' = rows
      BY <2>5
    <2> QED BY <2>1, <2>2, <2>3, <2>4, <2>5
        DEF RenameRequested, RenameNow, MergeRequested, ReadMember, GatherMember
  <1>4. task'[c].at \notin {"due", "landing"} /\ (Busy(c)' => Busy(c) \/ MayBegin)
    <2>1. CASE RenameRequested(c)
      <3>1. MayBegin /\ \E js, n, rs : Becomes(c, [NoTask EXCEPT !.at = "rename", !.jobs = js, !.name = n, !.seen = rs])
        BY <2>1 DEF RenameRequested
      <3>2. task'[c].at = "rename"
        BY <1>2, <3>1, GoesTo DEF NoTask
      <3> QED BY <3>1, <3>2
    <2>2. CASE MergeRequested(c)
      <3>1. MayBegin /\ \E js, n : Becomes(c, [NoTask EXCEPT !.at = "reading", !.jobs = js, !.name = n])
        BY <2>2 DEF MergeRequested
      <3>2. task'[c].at = "reading"
        BY <1>2, <3>1, GoesTo DEF NoTask
      <3> QED BY <3>1, <3>2
    <2>3. CASE DeferRename(c) \/ WriteRenamed(c) \/ SetGroupName(c)
      <3>1. End(c)
        BY <2>3 DEF DeferRename, WriteRenamed, SetGroupName
      <3> QED BY <1>2, <3>1, GoesTo DEF Busy
    <2>4. CASE RenameNow(c)
      <3>1. tk.at = "rename" /\ (End(c) \/ \E th : Becomes(c, Await(tk, th)))
        BY <1>1, <2>4 DEF RenameNow
      <3>2. task'[c].at \in {"idle", "thread", "moving"}
        BY <1>2, <3>1, GoesTo
      <3> QED BY <1>1, <3>1, <3>2 DEF Busy
    <2>5. CASE ReadMember(c)
      <3>1. PICK row : row = rows[tk.jobs[Len(tk.seen) + 1]]
        OBVIOUS
      <3>2. PICK sources : sources = IF HasDir(row) THEN Append(tk.thread.more, OutputDir(row)) ELSE tk.thread.more
        OBVIOUS
      <3>3. PICK q : q = MemberRead(tk, row, sources)
        OBVIOUS
      <3>4. IsTask(q) /\ q.at = tk.at
        BY <1>2, <3>3 DEF MemberRead, IsTask
      <3>5. tk.at = "reading" /\ (End(c) \/ Becomes(c, q) \/ \E th : Becomes(c, Await(q, th)))
        BY <1>1, <2>5, <3>1, <3>3, <3>2 DEF ReadMember, MemberRead
      <3>6. task'[c].at \in {"idle", "thread", "moving", "reading"}
        BY <1>2, <3>4, <3>5, GoesTo
      <3> QED BY <1>1, <3>5, <3>6 DEF Busy
    <2>6. CASE GatherMember(c)
      <3>1. PICK q : q = [tk EXCEPT !.i = @ + 1]
        OBVIOUS
      <3>2. PICK r : r = [tk EXCEPT !.at = "updating", !.i = 1]
        OBVIOUS
      <3>3. IsTask(q) /\ q.at = tk.at /\ r.at = "updating"
        BY <1>2, <3>1, <3>2 DEF IsTask
      <3>4. tk.at = "gathering" /\ (Becomes(c, r) \/ Becomes(c, q) \/ \E th : Becomes(c, Await(q, th)))
        BY <1>1, <2>6, <3>1, <3>2 DEF GatherMember
      <3>5. task'[c].at \in {"gathering", "updating", "thread", "moving"}
        BY <1>2, <3>3, <3>4, GoesTo
      <3> QED BY <1>1, <3>4, <3>5 DEF Busy
    <2>7. CASE UpdateMember(c)
      <3>1. tk.at = "updating" /\ task'[c] = [tk EXCEPT !.i = @ + 1, !.at = IF tk.i = Len(tk.jobs) THEN "naming" ELSE @]
        BY <1>1, <1>2, <2>7, GoesTo DEF UpdateMember
      <3>2. task'[c].at \in {"naming", "updating"}
        BY <1>2, <3>1 DEF IsTask
      <3> QED BY <1>1, <3>1, <3>2 DEF Busy
    <2> QED BY <2>1, <2>2, <2>3, <2>4, <2>5, <2>6, <2>7
  <1> QED BY <1>2, <1>3, <1>4 DEF Works

\* The steps of a run between its first and its last.
LEMMA RunWorks ==
  ASSUME Typed, NEW j \in Jobs,
         DetectDir(j) \/ Downloaded(j) \/ LandFile(j) \/ RecordFiles(j) \/ ReadPending(j) \/ WriteApplied(j) \/ ClearPending(j)
  PROVE  Works(j)
  <1>1. PICK tk : tk = task[j]
    OBVIOUS
  <1>2. \A k \in Jobs : rows'[k].state = rows[k].state
    <2>1. CASE DetectDir(j)
      BY <2>1, StatesStay DEF DetectDir
    <2>2. CASE RecordFiles(j)
      BY <2>2, StatesStay DEF RecordFiles
    <2>3. CASE WriteApplied(j)
      BY <2>3, StatesStay DEF WriteApplied
    <2>4. CASE ClearPending(j)
      BY <2>4, StatesStay DEF ClearPending
    <2>5. CASE rows' = rows
      BY <2>5
    <2> QED BY <2>1, <2>2, <2>3, <2>4, <2>5 DEF Downloaded, LandFile, ReadPending
  <1>3. tk.at # "idle"
    BY <1>1 DEF DetectDir, Downloaded, LandFile, RecordFiles, ReadPending, WriteApplied, ClearPending
  <1>4. task'[j].at \notin {"idle", "due"} /\ (Busy(j)' => Busy(j) \/ MayBegin)
        /\ (task'[j].at = "landing" => Downloaded(j) \/ LandFile(j))
    <2>1. CASE DetectDir(j)
      <3>1. \E d : Becomes(j, [tk EXCEPT !.at = "detected", !.name = d])
        BY <1>1, <2>1 DEF DetectDir
      <3>2. task'[j].at = "detected"
        BY <1>1, <3>1, RunFacts, GoesTo DEF IsTask
      <3> QED BY <3>2 DEF Busy
    <2>2. CASE Downloaded(j)
      <3>1. MayBegin /\ \E q : task' = [task EXCEPT ![j].at = "landing", ![j].thread.todo = q]
        BY <2>2 DEF Downloaded
      <3>2. task'[j].at = "landing"
        BY <1>1, <3>1, RunFacts DEF IsTask
      <3> QED BY <2>2, <3>1, <3>2
    <2>5. CASE LandFile(j)
      <3>1. tk.at = "landing" /\ \E q : task' = [task EXCEPT ![j].thread.todo = q]
        BY <1>1, <2>5 DEF LandFile
      <3>2. task'[j].at = "landing"
        BY <1>1, <3>1, RunFacts DEF IsTask
      <3> QED BY <1>1, <2>5, <3>1, <3>2 DEF Busy
    <2>3. CASE RecordFiles(j) \/ WriteApplied(j) \/ ClearPending(j)
      BY <2>3, RunFacts, GoesTo DEF RecordFiles, WriteApplied, ClearPending, Busy
    <2>4. CASE ReadPending(j)
      <3>1. PICK q : q = [tk EXCEPT !.name = rows[j].rename_to]
        OBVIOUS
      <3>2. IsTask(q)
        BY <1>1, <3>1, RunFacts DEF IsTask
      <3>3. tk.at = "recorded" /\ (Goto(j, "verdict") \/ Goto(j, "clearing") \/ \E th : Becomes(j, Await(q, th)))
        BY <1>1, <2>4, <3>1 DEF ReadPending
      <3>4. task'[j].at \in {"verdict", "clearing", "thread", "moving"}
        BY <3>2, <3>3, RunFacts, GoesTo
      <3> QED BY <1>1, <3>3, <3>4 DEF Busy
    <2> QED BY <2>1, <2>2, <2>3, <2>4, <2>5
  <1> QED BY <1>1, <1>2, <1>3, <1>4 DEF Works

-----------------------------------------------------------------------------
(* A row is active while its job has a run                                 *)

\* Where requests overlap, none of them is of the pin loop.
NoneDue == Overlap => \A c \in Clients : task[c].at # "due"
AtWork == ActiveRuns /\ OneAtATime /\ NoneDue

\* An update of the state.
LEMMA StateSet ==
  ASSUME Typed, NEW j \in Jobs, NEW s \in Open \cup {"done", "error"}, NEW u, "state" \in DOMAIN u, u.state = s,
         DOMAIN u \subseteq {"state", "rename_to"},
         "rename_to" \in DOMAIN u => u.rename_to \in NameSet, Set(j, u)
  PROVE  rows'[j].state = s /\ \A k \in Jobs \ {j} : rows'[k] = rows[k]
  BY SetType

\* Requests and ends of runs that wait for each other stay alone.
LEMMA OneStays ==
  ASSUME Typed, UNCHANGED world, OneAtATime, NEW t \in Tasks, NEW tk, task' = [task EXCEPT ![t] = tk],
         Busy(t)' => Busy(t) \/ MayBegin
  PROVE  OneAtATime'
  <1>1. UNCHANGED <<Overlap, Tasks, Jobs, Clients>>
    BY DEF Overlap, Tasks, Jobs, Clients
  <1>2. \A u \in Tasks \ {t} : task'[u] = task[u]
    BY DEF Typed
  <1>3. SUFFICES ASSUME ~Overlap, NEW u \in Tasks, NEW v \in Tasks, Busy(u)', Busy(v)', u # v PROVE FALSE
    BY <1>1 DEF OneAtATime
  <1>4. \A x \in Tasks \ {t} : Busy(x)' => Busy(x)
    BY <1>2 DEF Busy
  <1>5. CASE Quiet
    BY <1>3, <1>4, <1>5 DEF Quiet, Busy
  <1>6. CASE ~Quiet
    BY <1>3, <1>4, <1>6 DEF MayBegin, OneAtATime
  <1> QED BY <1>5, <1>6

\* The steps that leave states alone.
LEMMA WorkStays ==
  ASSUME Typed, AtWork, UNCHANGED world, NEW t \in Tasks, Proceeds(t), Works(t)
  PROVE  AtWork'
  <1>1. UNCHANGED <<Overlap, Tasks, Jobs, Clients>>
    BY DEF Overlap, Tasks, Jobs, Clients
  <1>2. PICK tk : IsTaskOf(t, tk) /\ task' = [task EXCEPT ![t] = tk]
    BY DEF Proceeds
  <1>3. DOMAIN task = Tasks /\ task'[t] = tk /\ \A u \in Tasks \ {t} : task'[u] = task[u]
    BY <1>2 DEF Typed
  <1>4. OneAtATime'
    BY <1>2, OneStays DEF AtWork, Works
  <1>5. \A c \in Clients : task'[c].at = "due" => c # t /\ task[c].at = "due" /\ task'[c] = task[c]
    BY <1>3 DEF Works, Tasks
  <1>6. \A j \in Jobs : Idle(j)' = Idle(j)
    BY <1>3 DEF Works, Idle, Tasks
  <1>7. \A c \in Clients : task[c].at = "due" => task[c].jobs[1] \in Jobs
    BY RenamedJob
  <1>8. ActiveRuns'
    BY <1>1, <1>5, <1>6, <1>7 DEF AtWork, ActiveRuns, Works
  <1>9. NoneDue'
    BY <1>1, <1>5 DEF AtWork, NoneDue
  <1> QED BY <1>4, <1>8, <1>9 DEF AtWork

\* The pin loop finds a finished job, which has no run.
LEMMA DueListedWork ==
  ASSUME Typed, AtWork, UNCHANGED world, NoRecheck(world), NEW c \in Clients, DueListed(c)
  PROVE  AtWork'
  <1>1. UNCHANGED <<Overlap, Tasks, Jobs, Clients>>
    BY DEF Overlap, Tasks, Jobs, Clients
  <1>2. PICK j \in Jobs : <<j, rows[j].state>> \in Rechecked
            /\ Becomes(c, [NoTask EXCEPT !.at = "due", !.jobs = <<j>>, !.seen = <<rows[j]>>])
    BY DEF DueListed
  <1>3. ~Overlap /\ Quiet
    BY <1>2 DEF NoRecheck, Rechecked, Overlap, DueListed, MayBegin
  <1>4. rows[j].state \in {"done", "error"} /\ UNCHANGED rows
    BY <1>2, WorldFacts DEF Typed, DueListed
  <1>5. PICK tk : tk = [NoTask EXCEPT !.at = "due", !.jobs = <<j>>, !.seen = <<rows[j]>>]
    OBVIOUS
  <1>6. tk.jobs[1] = j /\ task' = [task EXCEPT ![c] = tk]
    BY <1>2, <1>5 DEF NoTask, Becomes
  <1>7. DOMAIN task = Tasks /\ c \in Tasks /\ c \notin Jobs /\ task'[c] = tk
        /\ \A u \in Tasks \ {c} : task'[u] = task[u]
    BY <1>6, ClientFacts DEF Typed
  <1>8. OneAtATime'
    BY <1>3, <1>6, <1>7, OneStays DEF AtWork, MayBegin
  <1>9. \A d \in Clients : task'[d].at = "due" => d = c
    BY <1>3, <1>7 DEF Quiet, Tasks
  <1>10. \A k \in Jobs : Idle(k)' = Idle(k)
    BY <1>7 DEF Idle, Tasks
  <1>11. ActiveRuns'
    BY <1>1, <1>4, <1>6, <1>7, <1>9, <1>10 DEF AtWork, ActiveRuns
  <1> QED BY <1>1, <1>3, <1>8, <1>11 DEF AtWork, NoneDue

\* The pin loop requeues a job that still has no run.
LEMMA RequeueDueWork ==
  ASSUME Typed, AtWork, UNCHANGED world, NEW c \in Clients, RequeueDue(c)
  PROVE  AtWork'
  <1>1. PICK tk : tk = task[c]
    OBVIOUS
  <1>2. UNCHANGED <<Overlap, Tasks, Jobs, Clients>>
    BY DEF Overlap, Tasks, Jobs, Clients
  <1>3. PICK j : j = tk.jobs[1]
    OBVIOUS
  <1>4. PICK dir : dir = tk.seen[1].dir
    OBVIOUS
  <1>5. tk.at = "due" /\ j \in Jobs /\ tk.seen[1] \in RowType
    BY <1>1, <1>3, RenamedJob DEF RequeueDue
  <1>6. Set(j, [state |-> "queued", rename_to |-> dir]) /\ dir \in NameSet
    BY <1>1, <1>3, <1>4, <1>5, RowFacts DEF RequeueDue
  <1>7. rows'[j].state = "queued" /\ \A k \in Jobs \ {j} : rows'[k] = rows[k]
    BY <1>5, <1>6, StateSet DEF Open
  <1>8. DOMAIN task = Tasks /\ c \in Tasks /\ c \notin Jobs /\ task' = [task EXCEPT ![c] = NoTask]
        /\ \A u \in Tasks \ {c} : task'[u] = task[u]
    BY ClientFacts DEF Typed, RequeueDue, End, Becomes
  <1>9. task'[c].at = "idle"
    BY <1>8, Nothing
  <1>10. OneAtATime'
    BY <1>8, <1>9, OneStays DEF AtWork, Busy
  <1>11. \A k \in Jobs : Idle(k)' = Idle(k)
    BY <1>8 DEF Idle, Tasks
  <1>12. Idle(j)
    BY <1>1, <1>3, <1>5 DEF AtWork, ActiveRuns
  <1>13. \A d \in Clients : task'[d].at # "due"
    <2>1. CASE Overlap
      BY <1>8, <1>9, <2>1 DEF AtWork, NoneDue, Tasks
    <2>2. CASE ~Overlap
      BY <1>1, <1>5, <1>8, <1>9, <2>2 DEF AtWork, OneAtATime, Busy, Tasks
    <2> QED BY <2>1, <2>2
  <1>14. ActiveRuns'
    BY <1>2, <1>7, <1>11, <1>12, <1>13 DEF AtWork, ActiveRuns
  <1> QED BY <1>2, <1>10, <1>13, <1>14 DEF AtWork, NoneDue

\* A run begins or ends together with the state of its row.
LEMMA RunEndsWork ==
  ASSUME Typed, AtWork, UNCHANGED world, NEW j \in Jobs, StartRun(j) \/ Finish(j) \/ FailRun(j)
  PROVE  AtWork'
  <1>1. UNCHANGED <<Overlap, Tasks, Jobs, Clients>>
    BY DEF Overlap, Tasks, Jobs, Clients
  <1>2. PICK s \in {"active", "done", "error"} :
            /\ Set(j, [state |-> s])
            /\ s = "active" => StartRun(j)
            /\ s # "active" => End(j)
    BY DEF StartRun, Finish, FailRun
  <1>3. rows'[j].state = s /\ \A k \in Jobs \ {j} : rows'[k] = rows[k]
    <2>1. s \in Open \cup {"done", "error"}
      BY DEF Open
    <2>2. Set(j, [state |-> s])
      BY <1>2
    <2> QED BY <2>1, <2>2, StateSet
  <1>4. PICK tk : /\ task' = [task EXCEPT ![j] = tk]
                  /\ tk.at = IF s = "active" THEN "downloading" ELSE "idle"
    BY <1>2, StartRunStep, Nothing DEF End, Becomes
  <1>5. DOMAIN task = Tasks /\ j \in Tasks /\ j \notin Clients /\ task'[j] = tk
        /\ \A u \in Tasks \ {j} : task'[u] = task[u]
    BY <1>4, RunFacts
  <1>6. OneAtATime'
    BY <1>4, <1>5, OneStays DEF AtWork, Busy
  <1>7. \A c \in Clients : task'[c] = task[c]
    BY <1>5 DEF Tasks
  <1>8. \A c \in Clients : task[c].at = "due" => task[c].jobs[1] \in Jobs
    BY RenamedJob
  <1>9. ASSUME NEW c \in Clients, task[c].at = "due", task[c].jobs[1] = j
        PROVE  s \in {"done", "error"}
    BY <1>2, <1>9 DEF StartRun, AtWork, ActiveRuns
  <1>10. \A k \in Jobs : (rows'[k].state = "active") = ~(task'[k].at = "idle")
    BY <1>3, <1>4, <1>5 DEF AtWork, ActiveRuns, Idle, Tasks
  <1>11. ActiveRuns'
    BY <1>1, <1>3, <1>7, <1>8, <1>9, <1>10 DEF AtWork, ActiveRuns, Idle
  <1> QED BY <1>1, <1>6, <1>7, <1>11 DEF AtWork, NoneDue

\* A retried job has no run.
LEMMA RetryWork ==
  ASSUME Typed, AtWork, UNCHANGED world, Retry
  PROVE  AtWork'
  <1>1. UNCHANGED <<Overlap, Tasks, Jobs, Clients, task>>
    BY DEF Overlap, Tasks, Jobs, Clients, Retry
  <1>2. PICK j \in Jobs : <<j, rows[j].state>> \in Retried /\ Set(j, [state |-> "queued"])
    BY DEF Retry
  <1>3. rows[j].state \in {"done", "error"}
    BY <1>2, WorldFacts DEF Typed
  <1>4. rows'[j].state = "queued" /\ \A k \in Jobs \ {j} : rows'[k] = rows[k]
    BY <1>2, StateSet DEF Open
  <1>5. \A c \in Clients : task[c].at # "due"
    BY DEF Retry, MayBegin, Quiet, AtWork, NoneDue, Tasks
  <1>6. ActiveRuns'
    BY <1>1, <1>3, <1>4, <1>5 DEF AtWork, ActiveRuns, Idle
  <1> QED BY <1>1, <1>6 DEF AtWork, NoneDue, OneAtATime, Busy

\* A crash ends all runs and requeues their jobs.
LEMMA CrashWork ==
  ASSUME Typed, UNCHANGED world, Crash
  PROVE  AtWork'
  <1>1. UNCHANGED <<Overlap, Tasks, Jobs, Clients>>
    BY DEF Overlap, Tasks, Jobs, Clients
  <1>2. \A t \in Tasks : task'[t].at = "idle"
    BY Nothing DEF Crash
  <1>3. \A j \in Jobs : rows[j] \in RowType
    BY DEF Typed
  <1>4. \A j \in Jobs : [rows[j] EXCEPT !.state = "queued"].state = "queued"
    BY <1>3, RowFacts
  <1>5. \A j \in Jobs : rows'[j].state # "active"
    BY <1>4 DEF Crash
  <1> QED BY <1>1, <1>2, <1>5 DEF AtWork, ActiveRuns, OneAtATime, NoneDue, Busy, Idle, Tasks

\* Every step, one action at a time.
LEMMA StepWork ==
  ASSUME Typed, Stored, AtWork, NoRecheck(world), Step, UNCHANGED <<world, crashed>>
  PROVE  AtWork'
  <1>1. ASSUME NEW t \in Tasks, ThreadStep(t)
        PROVE  AtWork'
    BY <1>1, ThreadWorks, WorkStays, ThreadSteps
  <1>2. ASSUME NEW c \in Clients,
               \/ RenameRequested(c) \/ DeferRename(c) \/ RenameNow(c) \/ WriteRenamed(c)
               \/ MergeRequested(c) \/ ReadMember(c) \/ GatherMember(c) \/ UpdateMember(c) \/ SetGroupName(c)
        PROVE  AtWork'
    <2>1. Proceeds(c)
      BY <1>2, RenameRequestedStep, DeferRenameStep, RenameNowStep, WriteRenamedStep,
         MergeRequestedStep, ReadMemberStep, GatherMemberStep, UpdateMemberStep, SetGroupNameStep
    <2>2. Works(c) /\ c \in Tasks
      BY <1>2, RequestWorks, ClientFacts
    <2> QED BY <2>1, <2>2, WorkStays
  <1>3. ASSUME NEW j \in Jobs,
               \/ DetectDir(j) \/ Downloaded(j) \/ LandFile(j) \/ RecordFiles(j) \/ ReadPending(j)
               \/ WriteApplied(j) \/ ClearPending(j)
        PROVE  AtWork'
    <2>1. Proceeds(j)
      BY <1>3, RunStep, ReadPendingStep
    <2>2. Works(j) /\ j \in Tasks
      BY <1>3, RunWorks, RunFacts
    <2> QED BY <2>1, <2>2, WorkStays
  <1>4. ASSUME NEW c \in Clients, DueListed(c) \/ RequeueDue(c)
        PROVE  AtWork'
    BY <1>4, DueListedWork, RequeueDueWork
  <1>5. ASSUME NEW j \in Jobs, StartRun(j) \/ Finish(j) \/ FailRun(j)
        PROVE  AtWork'
    BY <1>5, RunEndsWork
  <1>6. CASE Retry
    BY <1>6, RetryWork
  <1> QED BY <1>1, <1>2, <1>3, <1>4, <1>5, <1>6 DEF Step

\* In every world but those where the pin loop overlaps with requests.
LEMMA RowsFollowRuns == Spec => [](NoRecheck(world) => AtWork)
  <1>1. Init => (NoRecheck(world) => AtWork)
    <2> SUFFICES ASSUME Init PROVE AtWork
      OBVIOUS
    <2>1. \A t \in Tasks : task[t].at = "idle"
      BY InitTyped, Nothing DEF Init
    <2>2. \A j \in Jobs : rows[j].state # "active"
      BY WorldFacts DEF Init, NewRow
    <2> QED BY <2>1, <2>2 DEF AtWork, ActiveRuns, OneAtATime, NoneDue, Busy, Idle, Tasks
  <1>2. Typed /\ Stored /\ (NoRecheck(world) => AtWork) /\ [Next]_vars => (NoRecheck(world) => AtWork)'
    <2> SUFFICES ASSUME Typed, Stored, NoRecheck(world) => AtWork, [Next]_vars, NoRecheck(world)'
                 PROVE  AtWork'
      OBVIOUS
    <2>1. UNCHANGED world /\ NoRecheck(world) /\ AtWork
      BY DEF Next, vars, NoRecheck
    <2>2. CASE Step /\ UNCHANGED <<world, crashed>>
      BY <2>1, <2>2, StepWork
    <2>3. CASE Crash
      BY <2>1, <2>3, CrashWork
    <2>4. CASE UNCHANGED vars
      BY <2>1, <2>4 DEF vars, AtWork, ActiveRuns, OneAtATime, NoneDue, Busy, Idle, Tasks, Jobs, Clients, Overlap
    <2> QED BY <2>2, <2>3, <2>4 DEF Next
  <1> QED BY <1>1, <1>2, Invariant, PTL DEF Spec

\* TypeOK: rows are well formed, and one is active exactly while its job has a run, so
\* that no way a run can end leaves the job active. Where rechecks overlap with
\* retries the pin loop may requeue a job that runs: those worlds are excluded.
THEOREM RowsAreTyped ==
  ASSUME \A w \in Worlds : NoRecheck(w)
  PROVE  Spec => []TypeOK
  <1>1. Typed /\ (NoRecheck(world) => AtWork) => TypeOK
    BY DEF Typed, AtWork, ActiveRuns, TypeOK
  <1> QED BY <1>1, Invariant, RowsFollowRuns, PTL

-----------------------------------------------------------------------------
(* Where the threads are aimed                                             *)

\* As deep as an output directory.
Deep(path) == \E dest \in Range(DestOf) : Len(path) = Len(dest) + 1
LevelDirs == \A d, e \in Range(DestOf) : Len(d) = Len(e)

\* What a thread is aimed at: another directory as deep as the one it empties, of
\* which it knows all files.
Aimed(tk, d) ==
    LET th == tk.thread
    IN  /\ \A k \in DOMAIN th.more : Deep(th.more[k])
        /\ tk.at \in {"thread", "moving"} /\ th.mode # "gather" => Deep(th.to)
        /\ tk.at = "thread" /\ th.mode \in {"rename", "over", "whole"} => Deep(th.from) /\ th.from # th.to
        /\ tk.at = "moving" /\ th.mode # "gather" =>
               Deep(th.from) /\ th.from # th.to /\ RelFiles(d, th.from) \subseteq th.todo

\* A task that awaits no thread.
LEMMA Resting ==
  ASSUME NEW tk, tk.at \notin {"thread", "moving"}, NEW d,
         \A k \in DOMAIN tk.thread.more : Deep(tk.thread.more[k])
  PROVE  Aimed(tk, d)
  BY DEF Aimed

\* A task that has no thread.
LEMMA NothingAimed ==
  ASSUME NEW tk, tk.at \notin {"thread", "moving"}, tk.thread = NoThread, NEW d
  PROVE  Aimed(tk, d)
  <1>1. NoThread.more = <<>>
    BY DEF NoThread
  <1>2. DOMAIN <<>> = {}
    OBVIOUS
  <1> QED BY <1>1, <1>2, Resting

\* A task that returns from its thread.
LEMMA GoneOn ==
  ASSUME Typed, NEW t \in Tasks, NEW at, Goto(t, at), at \notin {"thread", "moving"}, Aimed(task[t], disk)
  PROVE  Aimed(task'[t], disk')
  <1>1. IsTask(task[t]) /\ DOMAIN task = Tasks
    BY InFields
  <1>2. task'[t].at = at /\ task'[t].thread = task[t].thread
    BY <1>1 DEF Goto, IsTask
  <1> QED BY <1>2, Resting DEF Aimed

\* A task that is over.
LEMMA Ended ==
  ASSUME Typed, NEW t \in Tasks, End(t)
  PROVE  Aimed(task'[t], disk')
  <1>1. task'[t] = NoTask
    BY GoesTo DEF End
  <1>2. NoTask.at = "idle" /\ NoTask.thread = NoThread
    BY DEF NoTask
  <1> QED BY <1>1, <1>2, NothingAimed

\* A thread that starts.
LEMMA AwaitFields ==
  ASSUME NEW tk, IsTask(tk), NEW th, NEW q, q = Await(tk, th)
  PROVE  q.thread = th /\ q.at = IF th.mode = "gather" THEN "moving" ELSE "thread"
  BY DEF Await, IsTask

\* gather_into_dir removes no directory.
LEMMA GatherAimed ==
  ASSUME NEW tk, IsTask(tk), NEW from, NEW rels, NEW to, NEW then, NEW th, th = Gathering(from, rels, to, then),
         NEW q, q = Await(tk, th), NEW d
  PROVE  Aimed(q, d)
  <1>1. th.mode = "gather" /\ th.more = <<>> /\ DOMAIN <<>> = {}
    BY DEF Gathering, NoThread
  <1>2. q.thread = th /\ q.at = "moving"
    BY <1>1, AwaitFields
  <1> QED BY <1>1, <1>2 DEF Aimed

\* rename_dir between two directories of one depth.
LEMMA RenameAimed ==
  ASSUME NEW tk, IsTask(tk), NEW from, NEW to, NEW then, NEW th, th = Renaming(from, to, then),
         Deep(from), Deep(to), from # to, NEW q, q = Await(tk, th), NEW d
  PROVE  Aimed(q, d)
  <1>1. th.mode = "rename" /\ th.more = <<>> /\ th.from = from /\ th.to = to /\ DOMAIN <<>> = {}
    BY DEF Renaming, NoThread
  <1>2. q.thread = th /\ q.at = "thread"
    BY <1>1, AwaitFields
  <1> QED BY <1>1, <1>2 DEF Aimed

\* merge_dirs into a directory as deep as its sources.
LEMMA MergeAimed ==
  ASSUME NEW tk, IsTask(tk), NEW more, NEW to, NEW then, NEW th, th = Merging(more, to, then),
         \A k \in DOMAIN more : Deep(more[k]), Deep(to), NEW q, q = Await(tk, th), NEW d
  PROVE  Aimed(q, d)
  <1>1. th.mode = "aside" /\ th.more = more /\ th.to = to
    BY DEF Merging, NoThread
  <1>2. q.thread = th /\ q.at = "thread"
    BY <1>1, AwaitFields
  <1> QED BY <1>1, <1>2 DEF Aimed

\* The directories of rows are one deeper than their destinations.
LEMMA DeepDirs ==
  ASSUME Typed, NEW row \in RowType
  PROVE  \A n : /\ Deep(row.dest \o <<n>>)
                /\ \A m : row.dest \o <<n>> = row.dest \o <<m>> => n = m
  <1>1. row.dest \in Range(DestOf) /\ row.dest \in Seq(Component)
    BY RowFacts, Dirs
  <1>2. ASSUME NEW n
        PROVE  Deep(row.dest \o <<n>>)
    <2>1. PICK p : p = row.dest \o <<n>>
      OBVIOUS
    <2>2. Len(p) = Len(row.dest) + 1
      BY <1>1, <2>1
    <2> QED BY <1>1, <2>1, <2>2 DEF Deep
  <1>3. ASSUME NEW n, NEW m, row.dest \o <<n>> = row.dest \o <<m>>
        PROVE  n = m
    <2>1. (row.dest \o <<n>>)[Len(row.dest) + 1] = n
      BY <1>1
    <2>2. (row.dest \o <<m>>)[Len(row.dest) + 1] = m
      BY <1>1
    <2> QED BY <1>3, <2>1, <2>2
  <1> QED BY <1>2, <1>3

\* The rename of a finished job is to another name in the same destination.
LEMMA RenameNowAimed ==
  ASSUME Typed, NEW c \in Clients, RenameNow(c), Aimed(task[c], disk)
  PROVE  Aimed(task'[c], disk')
  <1>1. PICK tk : tk = task[c]
    OBVIOUS
  <1>2. PICK job : job = tk.seen[1]
    OBVIOUS
  <1>3. PICK loose : loose = Existing(job.dest, rows[tk.jobs[1]].files)
    OBVIOUS
  <1>4. PICK target : target = job.dest \o <<tk.name>>
    OBVIOUS
  <1>5. tk.at = "rename" /\ job \in RowType /\ c \in Tasks /\ IsTask(tk) /\ tk.name \in NameSet
    BY <1>1, <1>2, RenamedJob, ClientFacts, InFields DEF RenameNow
  <1>6. job.dest \in Seq(Component) /\ OutputDir(job) \in Seq(Component) /\ target \in Seq(Component)
        /\ Deep(OutputDir(job)) /\ Deep(target) /\ (job.dir # tk.name => OutputDir(job) # target)
    BY <1>4, <1>5, Dirs, DeepDirs, Zenon DEF OutputDir
  <1>7. \/ End(c)
        \/ Becomes(c, Await(tk, Gathering(job.dest, loose, target, "renamed")))
        \/ /\ Becomes(c, Await(tk, Renaming(OutputDir(job), target, "renamed")))
           /\ job.dir # tk.name
    <2>1. \/ End(c)
          \/ Becomes(c, Await(task[c], Gathering(task[c].seen[1].dest,
                                                Existing(task[c].seen[1].dest, rows[task[c].jobs[1]].files),
                                                task[c].seen[1].dest \o <<task[c].name>>, "renamed")))
          \/ /\ Becomes(c, Await(task[c], Renaming(OutputDir(task[c].seen[1]),
                                               task[c].seen[1].dest \o <<task[c].name>>, "renamed")))
             /\ task[c].seen[1].dir # task[c].name
      BY DEF RenameNow
    <2> QED BY <1>1, <1>2, <1>3, <1>4, <2>1
  <1>8. CASE End(c)
    BY <1>5, <1>8, Ended
  <1>9. CASE Becomes(c, Await(tk, Gathering(job.dest, loose, target, "renamed")))
    <2>1. PICK th : th = Gathering(job.dest, loose, target, "renamed")
      OBVIOUS
    <2>2. task'[c] = Await(tk, th)
      BY <1>5, <1>9, <2>1, GoesTo
    <2> QED BY <1>5, <2>1, <2>2, GatherAimed
  <1>10. CASE /\ Becomes(c, Await(tk, Renaming(OutputDir(job), target, "renamed")))
              /\ job.dir # tk.name
    <2>1. PICK th : th = Renaming(OutputDir(job), target, "renamed")
      OBVIOUS
    <2>2. task'[c] = Await(tk, th)
      BY <1>5, <1>10, <2>1, GoesTo
    <2> QED BY <1>5, <1>6, <1>10, <2>1, <2>2, RenameAimed
  <1> QED BY <1>7, <1>8, <1>9, <1>10

\* A merge collects the directories of its members.
LEMMA ReadMemberAimed ==
  ASSUME Typed, NEW c \in Clients, ReadMember(c), Aimed(task[c], disk)
  PROVE  Aimed(task'[c], disk')
  <1>1. PICK tk : tk = task[c]
    OBVIOUS
  <1>2. PICK row : row = rows[tk.jobs[Len(tk.seen) + 1]]
    OBVIOUS
  <1>3. PICK sources : sources = IF HasDir(row) THEN Append(tk.thread.more, OutputDir(row)) ELSE tk.thread.more
    OBVIOUS
  <1>4. PICK q : q = MemberRead(tk, row, sources)
    OBVIOUS
  <1>5. /\ c \in Tasks /\ IsTask(tk) /\ IsTaskOf(c, tk) /\ IsThread(tk.thread)
        /\ tk.jobs \in Seq(Jobs) /\ tk.name \in NameSet /\ tk.seen \in Seq(RowType)
        /\ rows \in [Jobs -> RowType]
    BY <1>1, ClientFacts, InFields
  <1>6. tk.at = "reading" /\ Len(tk.seen) < Len(tk.jobs)
    BY <1>1, <1>5 DEF ReadMember, IsTaskOf
  <1>7. Len(tk.seen) \in Nat /\ Len(tk.jobs) \in Nat
    BY <1>5
  <1>8. row \in RowType
    BY <1>2, <1>5, <1>6, <1>7
  <1>9. PICK out : out = OutputDir(row)
    OBVIOUS
  <1>10. out \in Seq(Component) /\ Deep(out)
    BY <1>8, <1>9, Dirs, DeepDirs DEF OutputDir
  <1>11. PICK found : found = tk.thread.more
    OBVIOUS
  <1>12. found \in Seq(Seq(Component)) /\ \A k \in DOMAIN found : Deep(found[k])
    BY <1>1, <1>5, <1>11 DEF IsThread, Aimed
  <1>13. sources \in Seq(Seq(Component)) /\ \A k \in DOMAIN sources : Deep(sources[k])
    <2>1. CASE sources = found
      BY <1>12, <2>1
    <2>2. CASE sources = Append(found, out)
      BY <1>10, <1>12, <2>2, AppendProperties
    <2> QED BY <1>3, <1>9, <1>11, <2>1, <2>2
  <1>14. /\ IsTask(q) /\ IsThread(q.thread) /\ q.at = "reading" /\ q.jobs = tk.jobs /\ q.name = tk.name
         /\ q.seen \in Seq(RowType) /\ Len(q.seen) = Len(tk.seen) + 1
    <2>1. tk.thread.goal = <<>> /\ IsThread(tk.thread) /\ IsTask(tk)
      BY <1>5, <1>6 DEF IsTaskOf
    <2>2. sources \in Seq(Seq(Component)) /\ tk.seen \in Seq(RowType)
      BY <1>5, <1>13
    <2> QED BY <1>4, <1>6, <1>8, <2>1, <2>2, MemberReadFields
  <1>15. q.thread.more = sources
    BY <1>4, <1>5 DEF MemberRead, IsTask, IsThread
  <1>16. PICK target : target = Target(q)
    OBVIOUS
  <1>17. target \in Seq(Component) /\ Deep(target)
    <2>1. q.seen[1] \in RowType
      BY <1>5, <1>7, <1>14
    <2> QED BY <1>5, <1>14, <1>16, <2>1, Dirs, DeepDirs DEF Target
  <1>18. \/ Becomes(c, q)
         \/ End(c)
         \/ Becomes(c, Await(q, Merging(sources, target, "gathering")))
    BY <1>1, <1>2, <1>3, <1>4, <1>16 DEF ReadMember, MemberRead
  <1>19. CASE Becomes(c, q)
    <2>1. task'[c] = q
      BY <1>5, <1>19, GoesTo
    <2> QED BY <1>13, <1>14, <1>15, <2>1, Resting
  <1>20. CASE End(c)
    BY <1>5, <1>20, Ended
  <1>21. CASE Becomes(c, Await(q, Merging(sources, target, "gathering")))
    <2>1. PICK th : th = Merging(sources, target, "gathering")
      OBVIOUS
    <2>2. task'[c] = Await(q, th)
      BY <1>5, <1>21, <2>1, GoesTo
    <2> QED BY <1>13, <1>14, <1>17, <2>1, <2>2, MergeAimed
  <1> QED BY <1>18, <1>19, <1>20, <1>21

\* A merge gathers the files of a flat member.
LEMMA GatherMemberAimed ==
  ASSUME Typed, NEW c \in Clients, GatherMember(c), Aimed(task[c], disk)
  PROVE  Aimed(task'[c], disk')
  <1>1. PICK tk : tk = task[c]
    OBVIOUS
  <1>2. PICK job : job = tk.seen[tk.i]
    OBVIOUS
  <1>3. PICK loose : loose = IF job.state = "done" /\ job.dir = NoDir
                             THEN Existing(job.dest, rows[tk.jobs[tk.i]].files) ELSE {}
    OBVIOUS
  <1>4. PICK q : q = [tk EXCEPT !.i = @ + 1]
    OBVIOUS
  <1>5. PICK r : r = [tk EXCEPT !.at = "updating", !.i = 1]
    BY Zenon
  <1>6. /\ c \in Tasks /\ IsTask(tk) /\ IsTaskOf(c, tk) /\ tk.at = "gathering"
        /\ tk.seen \in Seq(RowType) /\ tk.i \in Nat \ {0} /\ tk.jobs \in Seq(Jobs) /\ tk.name \in NameSet
    BY <1>1, ClientFacts, InFields DEF GatherMember
  <1>7. IsTask(q) /\ q.at = tk.at /\ q.thread = tk.thread /\ r.at = "updating" /\ r.thread = tk.thread
    BY <1>4, <1>5, <1>6 DEF IsTask
  <1>8. PICK th : th = Gathering(job.dest, loose, Target(tk), "gathering")
    BY Zenon
  <1>9. Becomes(c, r) \/ Becomes(c, q) \/ Becomes(c, Await(q, th))
    BY <1>1, <1>2, <1>3, <1>4, <1>5, <1>8 DEF GatherMember
  <1>10. CASE Becomes(c, r) \/ Becomes(c, q)
    <2>1. task'[c] \in {q, r}
      BY <1>6, <1>10, GoesTo
    <2> QED BY <1>1, <1>6, <1>7, <2>1, Resting DEF Aimed
  <1>11. CASE Becomes(c, Await(q, th))
    <2>1. task'[c] = Await(q, th)
      BY <1>6, <1>11, GoesTo
    <2> QED BY <1>7, <1>8, <2>1, GatherAimed
  <1> QED BY <1>9, <1>10, <1>11

\* Every step of a request.
LEMMA RequestAimed ==
  ASSUME Typed, NEW c \in Clients, Aimed(task[c], disk),
         \/ RenameRequested(c) \/ DeferRename(c) \/ RenameNow(c) \/ WriteRenamed(c)
         \/ MergeRequested(c) \/ ReadMember(c) \/ GatherMember(c) \/ UpdateMember(c) \/ SetGroupName(c)
         \/ DueListed(c) \/ RequeueDue(c)
  PROVE  Aimed(task'[c], disk')
  <1>1. c \in Tasks /\ IsTask(task[c])
    BY ClientFacts, InFields
  <1>2. CASE DeferRename(c) \/ WriteRenamed(c) \/ SetGroupName(c) \/ RequeueDue(c)
    BY <1>1, <1>2, Ended DEF DeferRename, WriteRenamed, SetGroupName, RequeueDue
  <1>3. CASE RenameRequested(c)
    <2>1. \E js, n, rs : Becomes(c, [NoTask EXCEPT !.at = "rename", !.jobs = js, !.name = n, !.seen = rs])
      BY <1>3 DEF RenameRequested
    <2>2. task'[c].at = "rename" /\ task'[c].thread = NoThread
      BY <1>1, <2>1, GoesTo DEF NoTask
    <2> QED BY <2>2, NothingAimed
  <1>4. CASE DueListed(c)
    <2>1. \E js, rs : Becomes(c, [NoTask EXCEPT !.at = "due", !.jobs = js, !.seen = rs])
      BY <1>4 DEF DueListed
    <2>2. task'[c].at = "due" /\ task'[c].thread = NoThread
      BY <1>1, <2>1, GoesTo DEF NoTask
    <2> QED BY <2>2, NothingAimed
  <1>5. CASE MergeRequested(c)
    <2>1. \E js, n : Becomes(c, [NoTask EXCEPT !.at = "reading", !.jobs = js, !.name = n])
      BY <1>5 DEF MergeRequested
    <2>2. task'[c].at = "reading" /\ task'[c].thread = NoThread
      BY <1>1, <2>1, GoesTo DEF NoTask
    <2> QED BY <2>2, NothingAimed
  <1>6. CASE UpdateMember(c)
    <2>1. PICK tk : tk = task[c]
      OBVIOUS
    <2>2. tk.at = "updating" /\ task'[c] = [tk EXCEPT !.i = @ + 1, !.at = IF tk.i = Len(tk.jobs) THEN "naming" ELSE @]
      BY <1>1, <1>6, <2>1, GoesTo DEF UpdateMember
    <2>3. task'[c].at \in {"naming", "updating"} /\ task'[c].thread = tk.thread
      BY <1>1, <2>1, <2>2 DEF IsTask
    <2> QED BY <2>1, <2>3, Resting DEF Aimed
  <1> QED BY <1>2, <1>3, <1>5, <1>6, <1>4, RenameNowAimed, ReadMemberAimed, GatherMemberAimed

\* Every step of a run.
LEMMA RunAimed ==
  ASSUME Typed, NEW j \in Jobs, Aimed(task[j], disk),
         \/ StartRun(j) \/ DetectDir(j) \/ Downloaded(j) \/ LandFile(j) \/ RecordFiles(j) \/ ReadPending(j)
         \/ WriteApplied(j) \/ ClearPending(j) \/ Finish(j) \/ FailRun(j)
  PROVE  Aimed(task'[j], disk')
  <1>1. CASE StartRun(j)
    <2>1. \E rs : Becomes(j, [NoTask EXCEPT !.at = "downloading", !.seen = rs])
      BY <1>1 DEF StartRun
    <2>2. task'[j].at = "downloading" /\ task'[j].thread = NoThread
      BY <2>1, RunFacts, GoesTo DEF NoTask
    <2> QED BY <2>2, NothingAimed
  <1>2. CASE RecordFiles(j) \/ WriteApplied(j) \/ ClearPending(j)
    <2>1. \E at \in {"recorded", "verdict"} : Goto(j, at)
      BY <1>2 DEF RecordFiles, WriteApplied, ClearPending
    <2> QED BY <2>1, RunFacts, GoneOn
  <1>5. CASE DetectDir(j) \/ Downloaded(j) \/ LandFile(j)
    <2>1. PICK tk : tk = task[j]
      OBVIOUS
    <2>2. tk.at \notin {"thread", "moving"} /\ IsTask(tk) /\ IsThread(tk.thread) /\ DOMAIN task = Tasks /\ j \in Tasks
      BY <1>5, <2>1, RunFacts DEF DetectDir, Downloaded, LandFile
    <2>3. \/ \E d : task' = [task EXCEPT ![j] = [tk EXCEPT !.at = "detected", !.name = d]]
          \/ \E q : task' = [task EXCEPT ![j].at = "landing", ![j].thread.todo = q]
          \/ tk.at = "landing" /\ \E q : task' = [task EXCEPT ![j].thread.todo = q]
      BY <1>5, <2>1 DEF DetectDir, Downloaded, LandFile, Becomes
    <2>4. task'[j].at \in {"detected", "landing"} /\ task'[j].thread.more = tk.thread.more
      <3>1. CASE \E d : task' = [task EXCEPT ![j] = [tk EXCEPT !.at = "detected", !.name = d]]
        BY <2>2, <3>1 DEF IsTask
      <3>2. CASE \E q : task' = [task EXCEPT ![j].at = "landing", ![j].thread.todo = q]
        BY <2>1, <2>2, <3>2 DEF IsTask, IsThread
      <3>3. CASE tk.at = "landing" /\ \E q : task' = [task EXCEPT ![j].thread.todo = q]
        BY <2>1, <2>2, <3>3 DEF IsTask, IsThread
      <3> QED BY <2>3, <3>1, <3>2, <3>3
    <2> QED BY <2>1, <2>4, Resting DEF Aimed
  <1>3. CASE Finish(j) \/ FailRun(j)
    BY <1>3, RunFacts, Ended DEF Finish, FailRun
  <1>4. CASE ReadPending(j)
    <2>1. PICK tk : tk = task[j]
      OBVIOUS
    <2>2. PICK job : job = rows[j]
      OBVIOUS
    <2>3. PICK base : base = tk.seen[1].dest
      OBVIOUS
    <2>4. PICK q : q = [tk EXCEPT !.name = job.rename_to]
      OBVIOUS
    <2>5. PICK src : src = base \o <<job.dir>>
      OBVIOUS
    <2>6. PICK target : target = base \o <<job.rename_to>>
      OBVIOUS
    <2>7. \/ Goto(j, "verdict")
          \/ Goto(j, "clearing")
          \/ Becomes(j, Await(q, Renaming(src, target, "renamed"))) /\ job.rename_to # job.dir
          \/ Becomes(j, Await(q, Gathering(base, job.files, target, "renamed")))
      BY <1>4, <2>1, <2>2, <2>3, <2>4, <2>5, <2>6 DEF ReadPending
    <2>8. tk.at = "recorded" /\ tk.seen # <<>>
      BY <1>4, <2>1, RunFacts DEF ReadPending, IsTaskOf
    <2>9. tk.seen[1] \in RowType /\ job \in RowType
      BY <2>1, <2>2, <2>8, RunFacts
    <2>10. job.dir \in NameSet /\ job.rename_to \in NameSet
      BY <2>9, RowFacts
    <2>11. base \in Seq(Component) /\ src \in Seq(Component) /\ target \in Seq(Component)
           /\ Deep(src) /\ Deep(target) /\ (job.rename_to # job.dir => src # target)
      BY <2>3, <2>5, <2>6, <2>9, <2>10, Dirs, DeepDirs
    <2>12. IsTask(q)
      BY <2>1, <2>4, RunFacts DEF IsTask
    <2>13. CASE Goto(j, "verdict") \/ Goto(j, "clearing")
      BY <2>13, RunFacts, GoneOn
    <2>14. CASE Becomes(j, Await(q, Renaming(src, target, "renamed"))) /\ job.rename_to # job.dir
      <3>1. PICK th : th = Renaming(src, target, "renamed")
        OBVIOUS
      <3>2. task'[j] = Await(q, th)
        BY <2>14, <3>1, RunFacts, GoesTo
      <3> QED BY <2>11, <2>12, <2>14, <3>1, <3>2, RenameAimed
    <2>15. CASE Becomes(j, Await(q, Gathering(base, job.files, target, "renamed")))
      <3>1. PICK th : th = Gathering(base, job.files, target, "renamed")
        OBVIOUS
      <3>2. task'[j] = Await(q, th)
        BY <2>15, <3>1, RunFacts, GoesTo
      <3> QED BY <2>12, <3>1, <3>2, GatherAimed
    <2> QED BY <2>7, <2>13, <2>14, <2>15
  <1> QED BY <1>1, <1>2, <1>3, <1>4, <1>5

\* No directory is below another of its depth.
LEMMA Apart ==
  ASSUME NEW from \in Seq(Component), NEW to \in Seq(Component), Len(from) = Len(to), NEW d,
         IsPrefix(from, d), IsPrefix(to, d)
  PROVE  from = to
  BY SubSeqFull DEF IsPrefix

\* A file that has left a directory for another is no longer below it.
LEMMA FileTaken ==
  ASSUME NEW d, \A p \in DOMAIN d : IsPath(p), NEW from \in Seq(Component), NEW rel, NEW src, src = In(from, rel),
         NEW tgt, ~IsPrefix(from, tgt.dir), NEW todo, RelFiles(d, from) \subseteq todo,
         NEW e, e = Replace(d, src, tgt)
  PROVE  RelFiles(e, from) \subseteq todo \ {rel}
  <1>1. DOMAIN e = (DOMAIN d \ {src}) \cup {tgt}
    BY DEF Replace
  <1>2. ASSUME NEW r \in RelFiles(e, from)
        PROVE  r \in todo /\ r # rel
    <2>1. PICK p \in Under(e, from) : r = WithDir(p, Below(from, p))
      BY <1>2, Relative
    <2>2. p \in DOMAIN d /\ p # src /\ IsPrefix(from, p.dir) /\ IsPath(p)
      BY <1>1, <2>1 DEF Under
    <2>3. r \in RelFiles(d, from)
      <3>1. p \in Under(d, from)
        BY <2>2 DEF Under
      <3> QED BY <2>1, <3>1, Relative
    <2>4. In(from, r) = p
      BY <2>1, <2>2, RelPath
    <2> QED BY <2>2, <2>3, <2>4
  <1> QED BY <1>2

\* rename_dir on its way to a move file by file, which knows all files below its source.
LEMMA RenameDirAimed ==
  ASSUME Typed, NEW t \in Tasks, TestTarget(t) \/ ListTree(t), Aimed(task[t], disk)
  PROVE  Aimed(task'[t], disk')
  <1>1. PICK tk : tk = task[t]
    OBVIOUS
  <1>2. PICK th : th = tk.thread
    OBVIOUS
  <1>3. IsTask(tk) /\ IsThread(th) /\ DOMAIN task = Tasks
    BY <1>1, <1>2, InFields
  <1>4. tk.at = "thread" /\ th.mode \in {"rename", "over"} /\ disk' = disk
    BY <1>1, <1>2 DEF TestTarget, ListTree
  <1>5. Deep(th.to) /\ Deep(th.from) /\ th.from # th.to /\ \A k \in DOMAIN th.more : Deep(th.more[k])
    BY <1>1, <1>2, <1>4 DEF Aimed
  <1>6. CASE TestTarget(t)
    <2>1. PICK mode \in {"over", "whole"} : task' = [task EXCEPT ![t].thread.mode = mode]
      BY <1>6 DEF TestTarget
    <2>2. PICK th2 : th2 = [th EXCEPT !.mode = mode]
      OBVIOUS
    <2>3. th2.mode = mode /\ th2.from = th.from /\ th2.to = th.to /\ th2.more = th.more
      BY <1>3, <2>2 DEF IsThread
    <2>4. task'[t].at = "thread" /\ task'[t].thread = th2
      BY <1>1, <1>2, <1>3, <1>4, <2>1, <2>2 DEF IsTask
    <2> QED BY <1>5, <2>3, <2>4 DEF Aimed
  <1>7. CASE ListTree(t)
    <2>1. PICK rels : rels = RelFiles(disk, th.from)
      OBVIOUS
    <2>2. PICK th2 : th2 = [th EXCEPT !.todo = rels]
      OBVIOUS
    <2>3. th2.mode = th.mode /\ th2.todo = rels /\ th2.from = th.from /\ th2.to = th.to /\ th2.more = th.more
      BY <1>3, <2>2 DEF IsThread
    <2>4. task' = [task EXCEPT ![t].at = "moving", ![t].thread.todo = rels]
      BY <1>1, <1>2, <1>7, <2>1 DEF ListTree
    <2>5. task'[t].at = "moving" /\ task'[t].thread = th2
      BY <1>1, <1>2, <1>3, <2>2, <2>4 DEF IsTask
    <2> QED BY <1>4, <1>5, <2>1, <2>3, <2>5 DEF Aimed
  <1> QED BY <1>6, <1>7

\* os.replace of a directory is the end of rename_dir.
LEMMA ReplaceDirAimed ==
  ASSUME Typed, NEW t \in Tasks, ReplaceDir(t), Aimed(task[t], disk)
  PROVE  Aimed(task'[t], disk')
  <1>1. IsTaskOf(t, task[t]) /\ task[t].at = "thread"
    BY InFields DEF ReplaceDir
  <1>2. task[t].thread.then \in {"renamed", "gathering"}
    BY <1>1 DEF IsTaskOf, IsThread
  <1>3. Goto(t, task[t].thread.then) \/ Raise(t)
    BY DEF ReplaceDir
  <1>4. CASE Goto(t, task[t].thread.then)
    BY <1>2, <1>4, GoneOn
  <1>5. CASE Raise(t)
    BY <1>5, GoneOn, Ended DEF Raise
  <1> QED BY <1>3, <1>4, <1>5

\* merge_dirs at a source other than its destination.
LEMMA NextSourceAimed ==
  ASSUME Typed, NEW t \in Tasks, NextSource(t), Aimed(task[t], disk)
  PROVE  Aimed(task'[t], disk')
  <1>1. PICK tk : tk = task[t]
    OBVIOUS
  <1>2. PICK th : th = tk.thread
    OBVIOUS
  <1>3. IsTaskOf(t, tk) /\ IsTask(tk) /\ IsThread(th) /\ DOMAIN task = Tasks
    BY <1>1, <1>2, InFields
  <1>4. tk.at = "thread" /\ th.mode = "aside" /\ th.then \in {"renamed", "gathering"} /\ disk' = disk
    BY <1>1, <1>2, <1>3 DEF NextSource, IsTaskOf, IsThread
  <1>5. Deep(th.to) /\ \A k \in DOMAIN th.more : Deep(th.more[k])
    BY <1>1, <1>2, <1>4 DEF Aimed
  <1>6. CASE th.more = <<>>
    <2>1. Goto(t, th.then)
      BY <1>1, <1>2, <1>6 DEF NextSource
    <2> QED BY <1>4, <2>1, GoneOn
  <1>7. CASE th.more # <<>>
    <2>1. PICK src : src = Head(th.more)
      OBVIOUS
    <2>2. PICK rels : rels = IF src = th.to THEN {} ELSE RelFiles(disk, src)
      OBVIOUS
    <2>3. PICK rest : rest = Tail(th.more)
      OBVIOUS
    <2>4. PICK th2 : th2 = [th EXCEPT !.more = rest, !.from = src, !.todo = rels]
      OBVIOUS
    <2>5. th2.mode = "aside" /\ th2.todo = rels /\ th2.from = src /\ th2.to = th.to /\ th2.more = rest
      BY <1>3, <1>4, <2>4 DEF IsThread
    <2>6. task'[t] = SourceTaken(task[t], src, rest, rels)
      <3>1. Becomes(t, SourceTaken(task[t], Head(task[t].thread.more), Tail(task[t].thread.more),
                                    IF Head(task[t].thread.more) = task[t].thread.to THEN {}
                                    ELSE RelFiles(disk, Head(task[t].thread.more))))
        BY <1>1, <1>2, <1>7 DEF NextSource, SourceTaken
      <3> QED BY <1>1, <1>2, <2>1, <2>2, <2>3, <3>1, GoesTo
    <2>7. task'[t].at = (IF rels = {} THEN "thread" ELSE "moving") /\ task'[t].thread = th2
      BY <1>1, <1>2, <1>3, <2>4, <2>6 DEF SourceTaken, IsTask
    <2>8. PICK more : more = th.more
      OBVIOUS
    <2>9. more \in Seq(Seq(Component)) /\ more # <<>>
      BY <1>3, <1>7, <2>8 DEF IsThread
    <2>10. Deep(src) /\ \A k \in DOMAIN rest : Deep(rest[k])
      <3>1. src = more[1] /\ 1 \in DOMAIN more
        BY <2>1, <2>8, <2>9
      <3>2. \A k \in DOMAIN rest : k + 1 \in DOMAIN more /\ rest[k] = more[k + 1]
        BY <2>3, <2>8, <2>9
      <3> QED BY <1>5, <2>8, <3>1, <3>2
    <2>11. rels # {} => src # th.to /\ rels = RelFiles(disk, src)
      BY <2>2
    <2> QED BY <1>4, <1>5, <2>5, <2>7, <2>10, <2>11 DEF Aimed
  <1> QED BY <1>6, <1>7

\* A loop that has looked knows as much of its source; gather_into_dir removes none.
LEMMA TestFileAimed ==
  ASSUME Typed, NEW t \in Tasks, TestFile(t), Aimed(task[t], disk)
  PROVE  Aimed(task'[t], disk')
  <1>1. PICK tk : tk = task[t]
    OBVIOUS
  <1>2. PICK th : th = tk.thread
    OBVIOUS
  <1>3. IsTask(tk) /\ IsThread(th) /\ DOMAIN task = Tasks /\ tk.at = "moving" /\ disk' = disk
    BY <1>1, <1>2, InFields DEF TestFile
  <1>4. PICK th2 : /\ th2.mode = th.mode /\ th2.from = th.from /\ th2.to = th.to /\ th2.more = th.more
                   /\ th2.todo = th.todo \/ th.mode = "gather"
                   /\ task'[t].at = "moving" /\ task'[t].thread = th2
    <2>1. CASE \E q : task' = [task EXCEPT ![t].thread.goal = q]
      <3>1. PICK q : task' = [task EXCEPT ![t].thread.goal = q]
        BY <2>1
      <3>2. PICK th2 : th2 = [th EXCEPT !.goal = q]
        OBVIOUS
      <3>3. /\ th2.mode = th.mode /\ th2.from = th.from /\ th2.to = th.to /\ th2.more = th.more
            /\ th2.todo = th.todo
        BY <1>3, <3>2 DEF IsThread
      <3>4. task'[t].at = "moving" /\ task'[t].thread = th2
        BY <1>1, <1>2, <1>3, <3>1, <3>2 DEF IsTask
      <3> QED BY <3>3, <3>4
    <2>2. CASE th.mode = "gather" /\ \E q : task' = [task EXCEPT ![t].thread.todo = q]
      <3>1. PICK q : task' = [task EXCEPT ![t].thread.todo = q]
        BY <2>2
      <3>2. PICK th2 : th2 = [th EXCEPT !.todo = q]
        OBVIOUS
      <3>3. th2.mode = th.mode /\ th2.from = th.from /\ th2.to = th.to /\ th2.more = th.more
        BY <1>3, <3>2 DEF IsThread
      <3>4. task'[t].at = "moving" /\ task'[t].thread = th2
        BY <1>1, <1>2, <1>3, <3>1, <3>2 DEF IsTask
      <3> QED BY <2>2, <3>3, <3>4
    <2> QED BY <1>1, <1>2, <2>1, <2>2 DEF TestFile
  <1> QED BY <1>1, <1>2, <1>3, <1>4 DEF Aimed

\* A file that is moved does not come back below the source.
LEMMA MoveFileAimed ==
  ASSUME Typed, Stored, LevelDirs, NEW t \in Tasks, MoveFile(t), Aimed(task[t], disk)
  PROVE  Aimed(task'[t], disk')
  <1>1. PICK tk : tk = task[t]
    OBVIOUS
  <1>2. PICK th : th = tk.thread
    OBVIOUS
  <1>3. IsTask(tk) /\ IsThread(th) /\ DOMAIN task = Tasks
    BY <1>1, <1>2, InFields
  <1>4. tk.at = "moving" /\ th.todo # {} /\ (th.mode = "over" \/ th.goal # <<>>)
    BY <1>1, <1>2 DEF MoveFile
  <1>5. PICK rel : rel = NextFile(th)
    OBVIOUS
  <1>6. PICK src : src = In(th.from, rel)
    OBVIOUS
  <1>7. PICK tgt : tgt = TargetOf(th)
    OBVIOUS
  <1>8. \/ /\ disk' = Replace(disk, src, tgt)
           /\ task' = [task EXCEPT ![t].thread.todo = @ \ {rel}, ![t].thread.goal = <<>>]
        \/ Raise(t)
    BY <1>1, <1>2, <1>5, <1>6, <1>7, MoveFileIs
  <1>9. CASE Raise(t)
    BY <1>9, GoneOn, Ended DEF Raise
  <1>10. CASE /\ disk' = Replace(disk, src, tgt)
              /\ task' = [task EXCEPT ![t].thread.todo = @ \ {rel}, ![t].thread.goal = <<>>]
    <2>1. PICK th2 : th2 = [th EXCEPT !.todo = @ \ {rel}, !.goal = <<>>]
      OBVIOUS
    <2>2. /\ th2.mode = th.mode /\ th2.todo = th.todo \ {rel} /\ th2.from = th.from /\ th2.to = th.to
          /\ th2.more = th.more
      BY <1>3, <2>1 DEF IsThread
    <2>3. task'[t].at = "moving" /\ task'[t].thread = th2
      BY <1>1, <1>2, <1>3, <1>4, <1>10, <2>1 DEF IsTask
    <2>4. CASE th.mode = "gather"
      BY <1>1, <1>2, <2>2, <2>3, <2>4 DEF Aimed
    <2>5. CASE th.mode # "gather"
      <3>1. PICK from \in Seq(Component) : from = th.from
        BY <1>3 DEF IsThread
      <3>2. PICK to \in Seq(Component) : to = th.to
        BY <1>3 DEF IsThread
      <3>3. tgt.dir = to \o rel.dir /\ IsPath(rel)
        BY <1>3, <1>4, <1>5, <1>7, <3>2, TargetFacts, NextFileIsPath
      <3>4. rel.dir \in Seq(Component)
        BY <3>3 DEF IsPath
      <3>5. IsPrefix(to, tgt.dir)
        <4>1. PICK r \in Seq(Component) : r = rel.dir
          BY <3>4
        <4>2. IsPrefix(to, to \o r)
          BY JoinDir
        <4> QED BY <3>3, <4>1, <4>2
      <3>6. Deep(to) /\ Deep(from) /\ from # to /\ RelFiles(disk, from) \subseteq th.todo
            /\ \A k \in DOMAIN th.more : Deep(th.more[k])
        BY <1>1, <1>2, <1>4, <2>5, <3>1, <3>2 DEF Aimed
      <3>7. Len(from) = Len(to)
        BY <3>6 DEF Deep, LevelDirs
      <3>8. ~IsPrefix(from, tgt.dir)
        BY <3>5, <3>6, <3>7, Apart
      <3>9. RelFiles(disk', from) \subseteq th.todo \ {rel}
        <4>1. PICK todo : todo = th.todo
          OBVIOUS
        <4>2. PICK e : e = Replace(disk, src, tgt)
          OBVIOUS
        <4>3. \A p \in DOMAIN disk : IsPath(p)
          BY DEF Stored
        <4>4. src = In(from, rel) /\ RelFiles(disk, from) \subseteq todo
          BY <1>6, <3>1, <3>6, <4>1
        <4>5. RelFiles(e, from) \subseteq todo \ {rel}
          BY <3>8, <4>2, <4>3, <4>4, FileTaken
        <4> QED BY <1>10, <4>1, <4>2, <4>5
      <3> QED BY <2>2, <2>3, <3>1, <3>2, <3>6, <3>9 DEF Aimed
    <2> QED BY <2>4, <2>5
  <1> QED BY <1>8, <1>9, <1>10

\* The end of a source directory.
LEMMA EndSourceAimed ==
  ASSUME Typed, NEW t \in Tasks, EndSource(t), Aimed(task[t], disk)
  PROVE  Aimed(task'[t], disk')
  <1>1. PICK tk : tk = task[t]
    OBVIOUS
  <1>2. PICK th : th = tk.thread
    OBVIOUS
  <1>3. IsTaskOf(t, tk) /\ IsTask(tk) /\ IsThread(th) /\ DOMAIN task = Tasks
    BY <1>1, <1>2, InFields
  <1>4. tk.at = "moving" /\ th.then \in {"renamed", "gathering"}
    BY <1>1, <1>2, <1>3 DEF EndSource, IsTaskOf, IsThread
  <1>5. Goto(t, IF th.mode = "aside" THEN "thread" ELSE th.then)
    BY <1>1, <1>2 DEF EndSource
  <1>6. CASE th.mode # "aside"
    BY <1>4, <1>5, <1>6, GoneOn
  <1>7. CASE th.mode = "aside"
    <2>1. task'[t].at = "thread" /\ task'[t].thread = th
      BY <1>1, <1>2, <1>3, <1>5, <1>7 DEF Goto, IsTask
    <2>2. Deep(th.to) /\ \A k \in DOMAIN th.more : Deep(th.more[k])
      BY <1>1, <1>2, <1>4, <1>7 DEF Aimed
    <2> QED BY <1>7, <2>1, <2>2 DEF Aimed
  <1> QED BY <1>6, <1>7

\* In an emptied source there is nothing left to lose.
LEMMA NothingSwept ==
  ASSUME Typed, Stored, NEW t \in Tasks, EndSource(t), Aimed(task[t], disk)
  PROVE  NamesStay(disk, disk')
  <1>1. PICK th : th = task[t].thread
    OBVIOUS
  <1>2. task[t].at = "moving" /\ th.todo = {} /\ IsThread(th)
    BY <1>1, InFields DEF EndSource
  <1>3. CASE th.mode = "gather"
    BY <1>1, <1>3 DEF EndSource, NamesStay
  <1>4. CASE th.mode # "gather"
    <2>1. RelFiles(disk, th.from) = {}
      BY <1>1, <1>2, <1>4 DEF Aimed
    <2>2. Under(disk, th.from) = {}
      BY <1>2, <2>1, RelFilesArePaths DEF Stored, IsThread
    <2>3. disk' = RemoveTree(disk, th.from)
      BY <1>1, <1>4 DEF EndSource
    <2>4. DOMAIN disk' = DOMAIN disk
      BY <2>2, <2>3 DEF RemoveTree
    <2> QED BY <2>4 DEF NamesStay
  <1> QED BY <1>3, <1>4

-----------------------------------------------------------------------------
(* The files that rows record                                              *)

\* A row's files stay when the update is silent about them.
LEMMA FilesStay ==
  ASSUME Typed, NEW j \in Jobs, NEW u, Set(j, u), "files" \notin DOMAIN u
  PROVE  \A k \in Jobs : rows'[k].files = rows[k].files
  <1>1. rows \in [Jobs -> RowType]
    BY DEF Typed
  <1>2. rows[j] \in RowType
    BY <1>1
  <1>3. "files" \in DOMAIN rows[j]
    BY <1>2, RowFacts
  <1>4. Updated(rows[j], u).files = rows[j].files
    BY <1>3 DEF Updated
  <1>5. rows' = [rows EXCEPT ![j] = Updated(rows[j], u)]
    BY Zenon DEF Set
  <1> QED BY <1>1, <1>4, <1>5

\* No row records other files.
FilesFixed == \A k \in Jobs : rows'[k].files = rows[k].files

\* Requests do not write file_paths.
LEMMA RequestFiles ==
  ASSUME Typed, NEW c \in Clients,
         \/ RenameRequested(c) \/ DeferRename(c) \/ RenameNow(c) \/ WriteRenamed(c)
         \/ MergeRequested(c) \/ ReadMember(c) \/ GatherMember(c) \/ UpdateMember(c) \/ SetGroupName(c)
         \/ DueListed(c) \/ RequeueDue(c)
  PROVE  FilesFixed
  <1>1. PICK tk : tk = task[c]
    OBVIOUS
  <1>2. /\ c \in Tasks /\ c \notin Jobs /\ IsTask(tk) /\ IsTaskOf(c, tk) /\ DOMAIN task = Tasks
        /\ rows \in [Jobs -> RowType]
    BY <1>1, ClientFacts, InFields
  <1>3. CASE DeferRename(c) \/ RequeueDue(c)
    <2>1. tk.jobs[1] \in Jobs
      BY <1>1, <1>3, RenamedJob DEF DeferRename, RequeueDue
    <2>2. \/ Set(tk.jobs[1], [rename_to |-> tk.name])
          \/ Set(tk.jobs[1], [state |-> "queued", rename_to |-> tk.seen[1].dir])
      BY <1>1, <1>3 DEF DeferRename, RequeueDue
    <2> QED BY <2>1, <2>2, FilesStay DEF FilesFixed
  <1>4. CASE WriteRenamed(c)
    <2>1. tk.jobs # <<>> /\ tk.jobs \in Seq(Jobs)
      BY <1>1, <1>2, <1>4 DEF WriteRenamed, IsTaskOf
    <2>2. tk.jobs[1] \in Jobs
      BY <2>1
    <2> QED BY <1>1, <1>4, <2>2, FilesStay DEF WriteRenamed, FilesFixed
  <1>5. CASE UpdateMember(c)
    <2>1. PICK j : j = tk.jobs[tk.i]
      OBVIOUS
    <2>2. tk.i \in Nat \ {0} /\ tk.i <= Len(tk.jobs) /\ tk.jobs \in Seq(Jobs)
      BY <1>1, <1>2, <1>5 DEF UpdateMember, IsTaskOf
    <2>3. j \in Jobs
      BY <2>1, <2>2
    <2>4. PICK g : g = GroupOf(tk)
      OBVIOUS
    <2>5. \/ Set(j, [group |-> g, gname |-> tk.name, dir |-> tk.name, dest |-> tk.seen[1].dest])
          \/ Set(j, [group |-> g, gname |-> tk.name, rename_to |-> tk.name])
      BY <1>1, <1>5, <2>1, <2>4 DEF UpdateMember
    <2> QED BY <2>3, <2>5, FilesStay DEF FilesFixed
  <1>6. CASE SetGroupName(c)
    <2>1. \A j \in Jobs : rows[j] \in RowType
      BY <1>2
    <2>2. \A j \in Jobs : \A n : [rows[j] EXCEPT !.gname = n].files = rows[j].files
      BY <2>1, RowFacts
    <2> QED BY <1>6, <2>2 DEF SetGroupName, FilesFixed
  <1>7. CASE rows' = rows
    BY <1>7 DEF FilesFixed
  <1> QED BY <1>3, <1>4, <1>5, <1>6, <1>7
      DEF RenameRequested, RenameNow, MergeRequested, ReadMember, GatherMember, DueListed

\* Of a run, only RecordFiles writes file_paths.
LEMMA RunFiles ==
  ASSUME Typed, NEW j \in Jobs,
         \/ StartRun(j) \/ DetectDir(j) \/ Downloaded(j) \/ LandFile(j) \/ ReadPending(j)
         \/ WriteApplied(j) \/ ClearPending(j) \/ Finish(j) \/ FailRun(j)
  PROVE  FilesFixed
  <1>1. CASE StartRun(j)
    BY <1>1, FilesStay DEF StartRun, FilesFixed
  <1>2. CASE DetectDir(j)
    BY <1>2, FilesStay DEF DetectDir, FilesFixed
  <1>3. CASE WriteApplied(j)
    BY <1>3, FilesStay DEF WriteApplied, FilesFixed
  <1>4. CASE ClearPending(j)
    BY <1>4, FilesStay DEF ClearPending, FilesFixed
  <1>5. CASE Finish(j)
    BY <1>5, FilesStay DEF Finish, FilesFixed
  <1>6. CASE FailRun(j)
    BY <1>6, FilesStay DEF FailRun, FilesFixed
  <1>7. CASE rows' = rows
    BY <1>7 DEF FilesFixed
  <1> QED BY <1>1, <1>2, <1>3, <1>4, <1>5, <1>6, <1>7 DEF Downloaded, LandFile, ReadPending

\* What a step of a task does to the files of the jobs and to the moves in progress.
Acts(t) ==
    /\ Proceeds(t) /\ Aimed(task'[t], disk') /\ NamesStay(disk, disk')
    /\ disk' = disk \/ Busy(t) \/ MayBegin
    /\ task'[t].at = "landing" =>
          \A f \in FilesOf[t] : Named(f)' \/ \E rel \in task'[t].thread.todo : rel.name = f
    /\ \A j \in Jobs :
          rows'[j].files = rows[j].files \/ (task[j].at = "landing" /\ task[j].thread.todo = {})

\* The steps of a thread.
LEMMA ThreadActs ==
  ASSUME Typed, Stored, LevelDirs, NEW t \in Tasks, Aimed(task[t], disk),
         ThreadStep(t)
  PROVE  Acts(t)
  <1>1. Proceeds(t) /\ Aimed(task'[t], disk')
    BY ThreadSteps, RenameDirAimed, ReplaceDirAimed, NextSourceAimed, TestFileAimed, MoveFileAimed,
       EndSourceAimed DEF ThreadStep
  <1>2. NamesStay(disk, disk')
    BY ThreadSteps, NothingSwept
  <1>3. Works(t) /\ rows' = rows /\ Busy(t)
    BY ThreadWorks DEF ThreadStep, TestTarget, ListTree, ReplaceDir, NextSource, TestFile, MoveFile, EndSource, Busy
  <1>4. task'[t].at # "landing"
    <2>1. task[t].at \in {"thread", "moving"}
      BY ThreadSteps
    <2>2. Downloaded(t) \/ LandFile(t) => task[t].at \in {"downloading", "detected", "landing"}
      BY DEF Downloaded, LandFile
    <2> QED BY <1>3, <2>1, <2>2 DEF Works
  <1> QED BY <1>1, <1>2, <1>3, <1>4 DEF Acts

\* The steps of a request.
LEMMA RequestActs ==
  ASSUME Typed, Stored, NEW c \in Clients, Aimed(task[c], disk),
         \/ RenameRequested(c) \/ DeferRename(c) \/ RenameNow(c) \/ WriteRenamed(c)
         \/ MergeRequested(c) \/ ReadMember(c) \/ GatherMember(c) \/ UpdateMember(c) \/ SetGroupName(c)
         \/ DueListed(c) \/ RequeueDue(c)
  PROVE  Acts(c)
  <1>1. Proceeds(c) /\ disk' = disk
    BY RenameRequestedStep, DeferRenameStep, RenameNowStep, WriteRenamedStep,
       MergeRequestedStep, ReadMemberStep, GatherMemberStep, UpdateMemberStep, SetGroupNameStep,
       DueListedStep, RequeueDueStep
  <1>2. Aimed(task'[c], disk')
    BY RequestAimed
  <1>3. FilesFixed
    BY RequestFiles
  <1>4. task'[c].at # "landing"
    <2>1. PICK tk : IsTaskOf(c, tk) /\ task' = [task EXCEPT ![c] = tk]
      BY <1>1 DEF Proceeds
    <2>2. c \notin Jobs /\ task'[c] = tk
      BY <2>1, ClientFacts DEF Typed
    <2> QED BY <2>1, <2>2 DEF IsTaskOf, Requests
  <1> QED BY <1>1, <1>2, <1>3, <1>4 DEF Acts, FilesFixed, NamesStay

\* The steps of a run.
LEMMA RunActs ==
  ASSUME Typed, Stored, Recorded, NEW j \in Jobs, Aimed(task[j], disk),
         \/ StartRun(j) \/ DetectDir(j) \/ Downloaded(j) \/ LandFile(j) \/ RecordFiles(j) \/ ReadPending(j)
         \/ WriteApplied(j) \/ ClearPending(j) \/ Finish(j) \/ FailRun(j)
  PROVE  Acts(j)
  <1>1. Proceeds(j) /\ (~LandFile(j) => disk' = disk)
    BY StartRunStep, ReadPendingStep, RunStep
  <1>2. Aimed(task'[j], disk')
    BY RunAimed
  <1>3. \A k \in Jobs :
            rows'[k].files = rows[k].files \/ (task[k].at = "landing" /\ task[k].thread.todo = {})
    <2>1. CASE RecordFiles(j)
      <3>1. task[j].at = "landing" /\ task[j].thread.todo = {} /\ Set(j, [files |-> Downloads(j)])
        BY <2>1 DEF RecordFiles
      <3>2. \A k \in Jobs \ {j} : rows'[k] = rows[k]
        BY <3>1 DEF Set, Typed
      <3> QED BY <3>1, <3>2
    <2> QED BY <2>1, RunFiles DEF FilesFixed
  <1>4. NamesStay(disk, disk')
    BY <1>1, RunStep DEF NamesStay
  <1>5. disk' = disk \/ Busy(j)
    BY <1>1 DEF LandFile, Busy
  <1>6. task'[j].at = "landing" =>
            \A f \in FilesOf[j] : Named(f)' \/ \E rel \in task'[j].thread.todo : rel.name = f
    <2>1. CASE Downloaded(j)
      BY <2>1, LandingStep, DownloadNames
    <2>2. CASE LandFile(j)
      <3>1. PICK rel \in task[j].thread.todo :
                task'[j].thread.todo = task[j].thread.todo \ {rel} /\ Named(rel.name)'
        BY <2>2, LandingStep
      <3>2. \A f \in FilesOf[j] : Named(f) \/ \E r \in task[j].thread.todo : r.name = f
        BY <2>2 DEF LandFile, Recorded
      <3>3. \A f : Named(f) => Named(f)'
        BY <1>4 DEF NamesStay, Named
      <3> QED BY <3>1, <3>2, <3>3
    <2>3. CASE ~Downloaded(j) /\ ~LandFile(j)
      <3>1. CASE StartRun(j)
        BY <3>1, StartRunStep, RunFacts
      <3>2. CASE Finish(j) \/ FailRun(j)
        BY <3>2, RunFacts, GoesTo DEF Finish, FailRun
      <3>3. CASE DetectDir(j) \/ RecordFiles(j) \/ ReadPending(j) \/ WriteApplied(j) \/ ClearPending(j)
        BY <2>3, <3>3, RunWorks DEF Works
      <3> QED BY <2>3, <3>1, <3>2, <3>3
    <2> QED BY <2>1, <2>2, <2>3
  <1> QED BY <1>1, <1>2, <1>3, <1>4, <1>5, <1>6 DEF Acts

\* Every move in progress is aimed elsewhere.
AllAimed == \A t \in Tasks : Aimed(task[t], disk)

\* What depends on the world only.
LEMMA SameAim ==
  ASSUME UNCHANGED world
  PROVE  UNCHANGED <<Tasks, Jobs, FilesOf>> /\ \A q, d : Aimed(q, d)' = Aimed(q, d)
  BY DEF Tasks, Jobs, Clients, FilesOf, Aimed, Deep, DestOf, RelFiles, Under

\* Nobody else is at work while a task moves files.
LEMMA ActsKeep ==
  ASSUME Typed, UNCHANGED world, ~Overlap, OneAtATime, AllAimed, Recorded, NEW t \in Tasks, Acts(t)
  PROVE  AllAimed' /\ Recorded'
  <1>1. UNCHANGED <<Tasks, Jobs, FilesOf>> /\ \A q, d : Aimed(q, d)' = Aimed(q, d)
    BY SameAim
  <1>2. PICK tk : task' = [task EXCEPT ![t] = tk]
    BY DEF Acts, Proceeds
  <1>3. \A u \in Tasks \ {t} : task'[u] = task[u]
    BY <1>2 DEF Typed
  <1>4. ASSUME NEW u \in Tasks
        PROVE  Aimed(task'[u], disk')
    <2>1. CASE u = t
      BY <2>1 DEF Acts
    <2>2. CASE u # t /\ disk' = disk
      BY <1>3, <2>2 DEF AllAimed
    <2>3. CASE u # t /\ disk' # disk
      <3>1. Busy(t) \/ Quiet
        BY <2>3 DEF Acts, MayBegin
      <3>2. task[u].at # "moving"
        BY <2>3, <3>1 DEF OneAtATime, Busy, Quiet
      <3>3. Aimed(task[u], disk) /\ task'[u] = task[u]
        BY <1>3, <2>3 DEF AllAimed
      <3> QED BY <3>2, <3>3 DEF Aimed
    <2> QED BY <2>1, <2>2, <2>3
  <1>5. AllAimed'
    BY <1>1, <1>4 DEF AllAimed
  <1>6. \A f : Named(f) => Named(f)'
    BY DEF Acts, NamesStay, Named
  <1>7. ASSUME NEW j \in Jobs, rows'[j].files # {}, NEW f \in FilesOf[j]
        PROVE  Named(f)'
    <2>1. CASE rows'[j].files = rows[j].files
      BY <1>6, <1>7, <2>1 DEF Recorded
    <2>2. CASE task[j].at = "landing" /\ task[j].thread.todo = {}
      BY <1>6, <2>2 DEF Recorded
    <2> QED BY <2>1, <2>2 DEF Acts
  <1>8. ASSUME NEW j \in Jobs, task'[j].at = "landing", NEW f \in FilesOf[j]
        PROVE  Named(f)' \/ \E rel \in task'[j].thread.todo : rel.name = f
    <2>1. CASE j = t
      BY <1>8, <2>1 DEF Acts
    <2>2. CASE j # t
      <3>1. task'[j] = task[j]
        BY <1>3, <2>2 DEF Tasks
      <3> QED BY <1>6, <1>8, <3>1 DEF Recorded
    <2> QED BY <2>1, <2>2
  <1>9. Recorded'
    BY <1>1, <1>7, <1>8 DEF Recorded
  <1> QED BY <1>5, <1>9

\* Every step keeps the recorded files.
LEMMA StepKept ==
  ASSUME Typed, Stored, ~Overlap, LevelDirs, OneAtATime, AllAimed, Recorded, Step, UNCHANGED world
  PROVE  AllAimed' /\ Recorded'
  <1>1. CASE \E t \in Tasks : ThreadStep(t)
    BY <1>1, ThreadActs, ActsKeep DEF AllAimed
  <1>2. CASE \E c \in Clients :
                \/ RenameRequested(c) \/ DeferRename(c) \/ RenameNow(c) \/ WriteRenamed(c)
                \/ MergeRequested(c) \/ ReadMember(c) \/ GatherMember(c) \/ UpdateMember(c)
                \/ SetGroupName(c) \/ DueListed(c) \/ RequeueDue(c)
    <2>1. PICK c \in Clients :
              \/ RenameRequested(c) \/ DeferRename(c) \/ RenameNow(c) \/ WriteRenamed(c)
              \/ MergeRequested(c) \/ ReadMember(c) \/ GatherMember(c) \/ UpdateMember(c)
              \/ SetGroupName(c) \/ DueListed(c) \/ RequeueDue(c)
      BY <1>2
    <2>2. c \in Tasks /\ Aimed(task[c], disk)
      BY ClientFacts DEF AllAimed
    <2>3. Acts(c)
      BY <2>1, <2>2, RequestActs
    <2>4. UNCHANGED world /\ ~Overlap
      OBVIOUS
    <2> QED BY <2>2, <2>3, <2>4, ActsKeep
  <1>3. CASE \E j \in Jobs :
                \/ StartRun(j) \/ DetectDir(j) \/ Downloaded(j) \/ LandFile(j) \/ RecordFiles(j) \/ ReadPending(j)
                \/ WriteApplied(j) \/ ClearPending(j) \/ Finish(j) \/ FailRun(j)
    BY <1>3, RunActs, ActsKeep, RunFacts DEF AllAimed
  <1>4. CASE Retry
    <2>1. UNCHANGED <<disk, task, world>>
      BY <1>4 DEF Retry
    <2>2. FilesFixed
      BY <1>4, FilesStay DEF Retry, FilesFixed
    <2>3. AllAimed'
      BY <2>1, SameAim DEF AllAimed
    <2>4. Recorded'
      BY <2>1, <2>2 DEF Recorded, FilesFixed, Named, Jobs, FilesOf
    <2> QED BY <2>3, <2>4
  <1> QED BY <1>1, <1>2, <1>3, <1>4 DEF Step

\* The files of finished jobs are there to begin with.
LEMMA InitKept ==
  ASSUME Init
  PROVE  AllAimed /\ Recorded
  <1>1. Typed /\ Stored
    BY InitTyped
  <1>2. \A t \in Tasks : task[t] = NoTask
    BY DEF Init
  <1>3. NoTask.at = "idle" /\ NoTask.thread = NoThread
    BY DEF NoTask
  <1>4. AllAimed
    BY <1>2, <1>3, NothingAimed DEF AllAimed
  <1>5. ASSUME NEW j \in Jobs, rows[j].files # {}, NEW f \in FilesOf[j]
        PROVE  Named(f)
    <2>1. StateOf[j] = "done"
      BY <1>5 DEF Init, NewRow
    <2>2. PICK land : land = Landing(DestOf[j], j)
      OBVIOUS
    <2>3. land \subseteq DOMAIN disk
      <3>1. PICK done : done = {k \in Jobs : StateOf[k] = "done"}
        OBVIOUS
      <3>2. disk = [p \in UNION {Landing(DestOf[k], k) : k \in done} |->
                       <<CHOOSE k \in done : p \in Landing(DestOf[k], k), p.name>>]
        BY <3>1 DEF Init
      <3>3. DOMAIN disk = UNION {Landing(DestOf[k], k) : k \in done}
        BY <3>2
      <3> QED BY <2>1, <2>2, <3>1, <3>3
    <2>4. PICK rel \in Downloads(j) : rel.name = f
      BY <1>5, DownloadNames
    <2>7. PICK q : q = In(DestOf[j], rel)
      OBVIOUS
    <2>8. q \in land
      BY <2>2, <2>4, <2>7 DEF Landing
    <2>9. DestOf[j] \in Seq(Component) /\ IsPath(rel)
      BY <1>1, <2>4, Dirs, WorldFacts DEF Typed
    <2>10. q.name = f
      BY <2>4, <2>7, <2>9, PathIn
    <2> QED BY <2>3, <2>8, <2>10 DEF Named
  <1>6. \A j \in Jobs : task[j].at # "landing"
    BY <1>2, <1>3 DEF Tasks
  <1> QED BY <1>4, <1>5, <1>6 DEF Recorded

\* A crash forgets threads, not files.
LEMMA CrashKept ==
  ASSUME Typed, Crash, UNCHANGED world, AllAimed, Recorded
  PROVE  AllAimed' /\ Recorded'
  <1>1. /\ UNCHANGED <<Tasks, Jobs, FilesOf, disk>> /\ \A q, d : Aimed(q, d)' = Aimed(q, d)
        /\ \A f : Named(f)' = Named(f)
    BY SameAim DEF Crash, Named
  <1>2. \A t \in Tasks : task'[t] = NoTask
    BY DEF Crash
  <1>3. NoTask.at = "idle" /\ NoTask.thread = NoThread
    BY DEF NoTask
  <1>4. \A t \in Tasks : Aimed(task'[t], disk)
    BY <1>2, <1>3, NothingAimed
  <1>5. \A j \in Jobs : rows'[j].files = rows[j].files
    <2>1. \A j \in Jobs : [rows[j] EXCEPT !.state = "queued"].files = rows[j].files
      BY RowFacts DEF Typed
    <2> QED BY <2>1 DEF Crash
  <1>6. \A j \in Jobs : task'[j].at # "landing"
    BY <1>2, <1>3 DEF Tasks
  <1> QED BY <1>1, <1>4, <1>5, <1>6 DEF AllAimed, Recorded

\* The worlds whose destinations are equally deep and whose requests wait for each other.
InOrder == ~Overlap /\ LevelDirs

\* When requests and ends of runs wait for each other.
LEMMA FilesStayNamed == Spec => [](InOrder => AllAimed /\ Recorded)
  <1>1. Init => (InOrder => AllAimed /\ Recorded)
    BY InitKept
  <1>2. Typed /\ Stored /\ (NoRecheck(world) => AtWork) /\ (InOrder => AllAimed /\ Recorded) /\ [Next]_vars
            => (InOrder => AllAimed /\ Recorded)'
    <2> SUFFICES ASSUME Typed, Stored, NoRecheck(world) => AtWork, InOrder => AllAimed /\ Recorded,
                        [Next]_vars, InOrder'
                 PROVE  AllAimed' /\ Recorded'
      OBVIOUS
    <2>1. UNCHANGED world
      BY DEF Next, vars
    <2>2. InOrder
      BY <2>1 DEF InOrder, Overlap, LevelDirs, DestOf
    <2>3. OneAtATime
      BY <2>2 DEF InOrder, NoRecheck, Overlap, AtWork
    <2>4. CASE Step
      BY <2>1, <2>2, <2>3, <2>4, StepKept DEF InOrder
    <2>5. CASE Crash
      BY <2>1, <2>2, <2>5, CrashKept
    <2>6. CASE UNCHANGED vars
      <3>1. UNCHANGED <<world, rows, disk, task>>
        BY <2>6 DEF vars
      <3> QED BY <2>2, <3>1, SameAim DEF AllAimed, Recorded, Named
    <2> QED BY <2>4, <2>5, <2>6 DEF Next
  <1> QED BY <1>1, <1>2, Invariant, RowsFollowRuns, PTL DEF Spec

\* FilesKept: when requests and ends of runs wait for each other, whatever renames,
\* merges, gathers, rechecks, retries, failures and crashes do to directories, each
\* file a row records is below the download directory with its content.
THEOREM RecordedFilesAreKept ==
  ASSUME \A w \in Worlds : ~w.overlap => OwnNames(w) /\ Level(w)
  PROVE  Spec => []FilesKept
  <1>1. Typed /\ Stored /\ (InOrder => AllAimed /\ Recorded) => FilesKept
    <2> SUFFICES ASSUME Typed, Stored, InOrder => AllAimed /\ Recorded, ~Overlap,
                        NEW j \in Jobs, rows[j].files # {}, NEW f \in FilesOf[j]
                 PROVE  <<j, f>> \in Range(disk)
      BY DEF FilesKept, Kept
    <2>1. OwnNames(world) /\ LevelDirs
      BY DEF Typed, Overlap, Level, LevelDirs, DestOf
    <2>2. PICK p \in DOMAIN disk : p.name = f
      BY <2>1 DEF InOrder, Recorded, Named
    <2>3. PICK k \in Jobs : f \in FilesOf[k] /\ disk[p] = <<k, f>>
      BY <2>2 DEF Stored
    <2>4. k = j
      BY <2>1, <2>3 DEF OwnNames, Jobs, FilesOf
    <2> QED BY <2>2, <2>3, <2>4 DEF Range
  <1> QED BY <1>1, Invariant, FilesStayNamed, PTL

-----------------------------------------------------------------------------
(* What each step does to rows and tasks                                   *)

\* The columns of a row.
Columns == {"state", "dest", "dir", "rename_to", "group", "gname", "files"}

\* A step writes some columns of one row.
Alters(j, cols) ==
    /\ DOMAIN rows' = Jobs /\ \A k \in Jobs \ {j} : rows'[k] = rows[k]
    /\ \A f \in Columns \ cols : rows'[j][f] = rows[j][f]

\* An update of a row, read column by column.
LEMMA SetFields ==
  ASSUME Typed, NEW j \in Jobs, NEW u, Set(j, u)
  PROVE  /\ Alters(j, DOMAIN u)
         /\ \A f \in Columns \cap DOMAIN u : rows'[j][f] = u[f]
  <1>1. rows \in [Jobs -> RowType]
    BY DEF Typed
  <1>2. rows[j] \in RowType
    BY <1>1
  <1>3. DOMAIN rows[j] = Columns
    BY <1>2, RowFacts DEF Columns
  <1>4. rows' = [rows EXCEPT ![j] = Updated(rows[j], u)]
    BY DEF Set
  <1>5. rows'[j] = Updated(rows[j], u)
    BY <1>1, <1>4
  <1>6. \A f \in Columns : rows'[j][f] = IF f \in DOMAIN u THEN u[f] ELSE rows[j][f]
    BY <1>3, <1>5 DEF Updated
  <1> QED BY <1>1, <1>4, <1>6 DEF Alters

\* Only the task that steps changes.
LEMMA OthersStand ==
  ASSUME Typed, NEW t \in Tasks, Proceeds(t)
  PROVE  \A u \in Tasks \ {t} : task'[u] = task[u]
  BY DEF Typed, Proceeds

\* The job of a request that renames, or of the pin loop at it.
LEMMA RenameRequestedDoes ==
  ASSUME Typed, NEW c \in Clients, RenameRequested(c)
  PROVE  /\ rows' = rows /\ asked' = asked /\ disk' = disk /\ task[c].at = "idle" /\ MayBegin
         /\ \E j \in Jobs : /\ task'[c].at = "rename" /\ task'[c].jobs = <<j>> /\ task'[c].name \in NamesOf[j]
                            /\ task'[c].seen = <<rows[j]>> /\ task'[c].thread = NoThread
  <1>0. PICK j \in Jobs : \E n \in NamesOf[j] :
            Becomes(c, [NoTask EXCEPT !.at = "rename", !.jobs = <<j>>, !.name = n, !.seen = <<rows[j]>>])
    BY DEF RenameRequested
  <1>1. PICK n \in NamesOf[j] :
            Becomes(c, [NoTask EXCEPT !.at = "rename", !.jobs = <<j>>, !.name = n, !.seen = <<rows[j]>>])
    BY <1>0
  <1>2. task'[c] = [NoTask EXCEPT !.at = "rename", !.jobs = <<j>>, !.name = n, !.seen = <<rows[j]>>]
    BY <1>1, ClientFacts, GoesTo
  <1>3. /\ task'[c].at = "rename" /\ task'[c].jobs = <<j>> /\ task'[c].name = n
        /\ task'[c].seen = <<rows[j]>> /\ task'[c].thread = NoThread
    BY <1>2 DEF NoTask
  <1> QED BY <1>1, <1>3 DEF RenameRequested, Idle

\* A pending name is recorded.
LEMMA DeferRenameDoes ==
  ASSUME Typed, NEW c \in Clients, DeferRename(c), NEW j, j = task[c].jobs[1]
  PROVE  /\ task[c].at = "rename" /\ task[c].seen[1].state \in Open /\ j \in Jobs
         /\ Alters(j, {"rename_to"}) /\ rows'[j].rename_to = task[c].name
         /\ asked' = [asked EXCEPT ![j] = task[c].name]
         /\ disk' = disk /\ task'[c] = NoTask
  <1>1. task[c].at = "rename" /\ Set(j, [rename_to |-> task[c].name]) /\ End(c)
    BY DEF DeferRename
  <1>2. j \in Jobs
    BY <1>1, RenamedJob
  <1>3. Alters(j, {"rename_to"}) /\ rows'[j].rename_to = task[c].name
    BY <1>1, <1>2, SetFields DEF Columns
  <1> QED BY <1>1, <1>2, <1>3, ClientFacts, GoesTo DEF DeferRename, End

\* What has been asked for when a rename of a finished job has been looked at.
AskedWith(c, job) ==
    IF job.dir # NoDir /\ job.dir = task[c].name THEN [asked EXCEPT ![task[c].jobs[1]] = task[c].name] ELSE asked

\* A finished job is renamed by a thread, or there is nothing to do.
LEMMA RenameNowDoes ==
  ASSUME Typed, NEW c \in Clients, RenameNow(c), NEW job, job = task[c].seen[1],
         NEW loose, loose = Existing(job.dest, rows[task[c].jobs[1]].files),
         NEW target, target = job.dest \o <<task[c].name>>
  PROVE  /\ task[c].at = "rename" /\ job.state \notin Open
         /\ rows' = rows /\ disk' = disk /\ asked' = AskedWith(c, job)
         /\ \/ /\ job.dir = NoDir /\ loose # {}
               /\ task'[c] = Await(task[c], Gathering(job.dest, loose, target, "renamed"))
            \/ /\ job.dir \notin {NoDir, task[c].name} /\ IsDir(disk, OutputDir(job))
               /\ task'[c] = Await(task[c], Renaming(OutputDir(job), target, "renamed"))
            \/ /\ ~(job.dir = NoDir /\ loose # {})
               /\ ~(job.dir \notin {NoDir, task[c].name} /\ IsDir(disk, OutputDir(job)))
               /\ task'[c] = NoTask
  <1>1. c \in Tasks
    BY ClientFacts, Zenon
  <1>2. \/ /\ job.dir = NoDir /\ loose # {}
           /\ Becomes(c, Await(task[c], Gathering(job.dest, loose, target, "renamed")))
        \/ /\ job.dir \notin {NoDir, task[c].name} /\ IsDir(disk, OutputDir(job))
           /\ Becomes(c, Await(task[c], Renaming(OutputDir(job), target, "renamed")))
        \/ /\ ~(job.dir = NoDir /\ loose # {})
           /\ ~(job.dir \notin {NoDir, task[c].name} /\ IsDir(disk, OutputDir(job)))
           /\ End(c)
    BY DEF RenameNow
  <1>3. \A q : Becomes(c, q) => task'[c] = q
    BY <1>1, GoesTo
  <1>4. End(c) => task'[c] = NoTask
    BY <1>3 DEF End
  <1>5. asked' = AskedWith(c, job)
    BY DEF RenameNow, AskedWith
  <1> QED BY <1>2, <1>3, <1>4, <1>5 DEF RenameNow

\* The directory of the renamed job is recorded.
LEMMA WriteRenamedDoes ==
  ASSUME Typed, NEW c \in Clients, WriteRenamed(c), NEW j, j = task[c].jobs[1]
  PROVE  /\ task[c].at = "renamed" /\ j \in Jobs
         /\ Alters(j, {"dir"}) /\ rows'[j].dir = task[c].name
         /\ asked' = [asked EXCEPT ![j] = task[c].name]
         /\ disk' = disk /\ task'[c] = NoTask
  <1>1. task[c].at = "renamed" /\ Set(j, [dir |-> task[c].name]) /\ End(c)
    BY DEF WriteRenamed
  <1>2. task[c].jobs # <<>> /\ task[c].jobs \in Seq(Jobs)
    BY <1>1, ClientFacts, InFields DEF IsTaskOf
  <1>3. j \in Jobs
    BY <1>2
  <1>4. Alters(j, {"dir"}) /\ rows'[j].dir = task[c].name
    BY <1>1, <1>3, SetFields DEF Columns
  <1> QED BY <1>1, <1>3, <1>4, ClientFacts, GoesTo DEF WriteRenamed, End

\* A merge begins.
LEMMA MergeRequestedDoes ==
  ASSUME Typed, NEW c \in Clients, MergeRequested(c)
  PROVE  /\ rows' = rows /\ asked' = asked /\ disk' = disk /\ task[c].at = "idle" /\ MayBegin
         /\ \E m \in Merges : /\ task'[c].at = "reading" /\ task'[c].jobs = m.jobs /\ task'[c].name = m.name
                              /\ task'[c].seen = <<>> /\ task'[c].thread = NoThread
  <1>1. PICK m \in Merges : Becomes(c, [NoTask EXCEPT !.at = "reading", !.jobs = m.jobs, !.name = m.name])
    BY DEF MergeRequested
  <1>2. task'[c] = [NoTask EXCEPT !.at = "reading", !.jobs = m.jobs, !.name = m.name]
    BY <1>1, ClientFacts, GoesTo
  <1>3. /\ task'[c].at = "reading" /\ task'[c].jobs = m.jobs /\ task'[c].name = m.name
        /\ task'[c].seen = <<>> /\ task'[c].thread = NoThread
    BY <1>2 DEF NoTask
  <1> QED BY <1>1, <1>3 DEF MergeRequested, Idle

\* The directories a merge has collected after it has read a member's row.
SourcesWith(tk, row) == IF HasDir(row) THEN Append(tk.thread.more, OutputDir(row)) ELSE tk.thread.more

\* A merge reads the row of its next member; after the last one it ends or has its
\* thread move the sources.
LEMMA ReadMemberDoes ==
  ASSUME Typed, NEW c \in Clients, ReadMember(c), NEW tk, tk = task[c]
  PROVE  LET q == task'[c]
             n == Len(tk.seen) + 1
             row == rows[tk.jobs[n]]
         IN  /\ tk.at = "reading" /\ rows' = rows /\ asked' = asked /\ disk' = disk
             /\ n \in DOMAIN tk.jobs /\ tk.jobs[n] \in Jobs /\ row \in RowType
             /\ \/ q = NoTask
                \/ /\ IsTask(q) /\ q.jobs = tk.jobs /\ q.name = tk.name /\ q.i = tk.i
                   /\ q.seen = Append(tk.seen, row)
                   /\ \/ q.at = "reading" /\ q.thread.more = SourcesWith(tk, row)
                      \/ /\ q.at = "thread" /\ n = Len(tk.jobs)
                         /\ \A k \in DOMAIN SourcesWith(tk, row) : IsDir(disk, SourcesWith(tk, row)[k])
                         /\ q.thread = Merging(SourcesWith(tk, row), q.seen[1].dest \o <<tk.name>>, "gathering")
  <1>16. PICK n : n = Len(tk.seen) + 1
    OBVIOUS
  <1>17. PICK row : row = rows[tk.jobs[n]]
    OBVIOUS
  <1>18. PICK sources : sources = SourcesWith(tk, row)
    OBVIOUS
  <1>1. /\ c \in Tasks /\ IsTask(tk) /\ IsTaskOf(c, tk) /\ IsThread(tk.thread)
        /\ tk.jobs \in Seq(Jobs) /\ tk.seen \in Seq(RowType) /\ rows \in [Jobs -> RowType]
    BY ClientFacts, InFields
  <1>2. tk.at = "reading" /\ Len(tk.seen) < Len(tk.jobs)
    BY <1>1 DEF ReadMember, IsTaskOf
  <1>3. n \in 1..Len(tk.jobs) /\ n \in DOMAIN tk.jobs /\ Len(tk.jobs) \in Nat /\ Len(tk.seen) \in Nat
    BY <1>1, <1>2, <1>16
  <1>4. tk.jobs[n] \in Jobs /\ row \in RowType
    BY <1>1, <1>3, <1>17
  <1>5. sources \in Seq(Seq(Component))
    BY <1>1, <1>4, <1>18, Dirs DEF SourcesWith, IsThread
  <1>6. PICK q : q = MemberRead(tk, row, sources)
    OBVIOUS
  <1>7. q.seen = Append(tk.seen, row) /\ q.thread.more = sources
    BY <1>1, <1>6 DEF MemberRead, IsTask, IsThread
  <1>8. IsTask(q) /\ q.at = tk.at /\ q.jobs = tk.jobs /\ q.i = tk.i /\ q.name = tk.name
    BY <1>1, <1>6 DEF MemberRead, IsTask
  <1>14. Len(q.seen) = Len(tk.seen) + 1
    BY <1>1, <1>4, <1>7
  <1>9. PICK th : th = Merging(sources, Target(q), "gathering")
    BY Zenon
  <1>10. \/ Becomes(c, q)
         \/ End(c)
         \/ /\ Becomes(c, Await(q, th)) /\ ~(Len(q.seen) < Len(q.jobs))
            /\ \A k \in DOMAIN sources : IsDir(disk, sources[k])
    BY <1>6, <1>9, <1>16, <1>17, <1>18 DEF ReadMember, MemberRead, SourcesWith
  <1>15. rows' = rows /\ asked' = asked /\ disk' = disk
    BY Zenon DEF ReadMember
  <1>11. CASE Becomes(c, q)
    <2>1. task'[c] = q
      BY <1>1, <1>11, GoesTo
    <2> QED BY <1>2, <1>3, <1>4, <1>7, <1>8, <1>15, <1>16, <1>17, <1>18, <2>1
  <1>12. CASE End(c)
    <2>1. task'[c] = NoTask
      BY <1>1, <1>12, GoesTo, Zenon DEF End
    <2> QED BY <1>2, <1>3, <1>4, <1>15, <1>16, <1>17, <2>1
  <1>13. CASE /\ Becomes(c, Await(q, th)) /\ ~(Len(q.seen) < Len(q.jobs))
              /\ \A k \in DOMAIN sources : IsDir(disk, sources[k])
    <2>1. th.mode = "aside"
      BY <1>9 DEF Merging, NoThread
    <2>2. Await(q, th) = With(q, "thread", th)
      BY <2>1 DEF Await, With
    <2>3. task'[c] = With(q, "thread", th)
      BY <1>1, <1>13, <2>2, GoesTo
    <2>4. /\ IsTask(task'[c]) /\ task'[c].at = "thread" /\ task'[c].thread = th
          /\ task'[c].jobs = q.jobs /\ task'[c].i = q.i /\ task'[c].name = q.name /\ task'[c].seen = q.seen
      BY <1>8, <2>3, TaskFields
    <2>5. Len(tk.seen) + 1 = Len(tk.jobs)
      BY <1>2, <1>3, <1>8, <1>13, <1>14
    <2>6. task'[c].thread = Merging(sources, task'[c].seen[1].dest \o <<tk.name>>, "gathering")
      BY <1>8, <1>9, <2>4 DEF Target
    <2> QED BY <1>2, <1>3, <1>4, <1>7, <1>8, <1>13, <1>15, <1>16, <1>17, <1>18, <2>4, <2>5, <2>6
  <1> QED BY <1>10, <1>11, <1>12, <1>13

\* What a task keeps when it awaits a thread.
LEMMA AwaitKeeps ==
  ASSUME NEW tk, IsTask(tk), NEW th, NEW q, q = Await(tk, th)
  PROVE  /\ IsTask(q) /\ q.thread = th /\ q.at = IF th.mode = "gather" THEN "moving" ELSE "thread"
         /\ q.jobs = tk.jobs /\ q.i = tk.i /\ q.name = tk.name /\ q.seen = tk.seen
  BY DEF Await, IsTask

\* The fields of the calls of the thread.
LEMMA Threads ==
  /\ \A src, dst, then : LET th == Renaming(src, dst, then)
                         IN  /\ th.mode = "rename" /\ th.from = src /\ th.to = dst /\ th.then = then
                             /\ th.more = <<>> /\ th.todo = {}
  /\ \A srcs, dst, then : LET th == Merging(srcs, dst, then)
                          IN  th.mode = "aside" /\ th.more = srcs /\ th.to = dst /\ th.then = then /\ th.todo = {}
  /\ \A base, rels, dst, then : LET th == Gathering(base, rels, dst, then)
                                IN  /\ th.mode = "gather" /\ th.from = base /\ th.to = dst /\ th.then = then
                                    /\ th.more = <<>> /\ th.todo = rels
  BY DEF Renaming, Merging, Gathering, NoThread

\* A merge goes on at the next member, has its thread gather this one's files, or
\* begins to write rows.
LEMMA GatherMemberDoes ==
  ASSUME Typed, NEW c \in Clients, GatherMember(c), NEW tk, tk = task[c],
         NEW job, job = tk.seen[tk.i],
         NEW loose, loose = Existing(job.dest, rows[tk.jobs[tk.i]].files)
  PROVE  LET q == task'[c]
         IN  /\ tk.at = "gathering" /\ rows' = rows /\ asked' = asked /\ disk' = disk
             /\ IsTask(q) /\ q.jobs = tk.jobs /\ q.name = tk.name /\ q.seen = tk.seen
             /\ \/ q.at = "updating" /\ q.i = 1 /\ q.thread = tk.thread
                \/ q.at = "gathering" /\ q.thread = tk.thread
                \/ /\ q.at = "moving" /\ q.thread = Gathering(job.dest, loose, Target(tk), "gathering")
                   /\ job.state = "done" /\ job.dir = NoDir /\ tk.i \in DOMAIN tk.jobs
  <1>q. PICK q : q = task'[c]
    OBVIOUS
  <1>1. c \in Tasks /\ IsTask(tk) /\ tk.jobs \in Seq(Jobs) /\ tk.i \in Nat \ {0}
    BY <1>q, ClientFacts, InFields
  <1>2. PICK next : next = [tk EXCEPT !.i = @ + 1]
    OBVIOUS
  <1>3. PICK last : last = [tk EXCEPT !.at = "updating", !.i = 1]
    OBVIOUS
  <1>4. PICK th : th = Gathering(job.dest, loose, Target(tk), "gathering")
    BY Zenon
  <1>5. tk.at = "gathering" /\ rows' = rows /\ asked' = asked /\ disk' = disk
    BY DEF GatherMember
  <1>6. \/ Becomes(c, last)
        \/ Becomes(c, next)
        \/ Becomes(c, Await(next, th)) /\ tk.i <= Len(tk.jobs) /\ job.state = "done" /\ job.dir = NoDir
    <2>1. PICK files : files = IF job.state = "done" /\ job.dir = NoDir THEN loose ELSE {}
      OBVIOUS
    <2>2. PICK any : any = Gathering(job.dest, files, Target(tk), "gathering")
      OBVIOUS
    <2>3. \/ Becomes(c, last)
          \/ Becomes(c, next)
          \/ Becomes(c, Await(next, any)) /\ ~(tk.i > Len(tk.jobs)) /\ ~(tk.i <= Len(tk.jobs) /\ files = {})
      BY <1>q, <1>2, <1>3, <2>1, <2>2 DEF GatherMember
    <2>4. Len(tk.jobs) \in Nat
      BY <1>q, <1>1
    <2>5. files # {} => any = th /\ job.state = "done" /\ job.dir = NoDir
      BY <1>q, <1>4, <2>1, <2>2
    <2> QED BY <1>q, <1>1, <2>3, <2>4, <2>5
  <1>7. CASE Becomes(c, last)
    <2>1. q = last
      BY <1>q, <1>1, <1>7, GoesTo
    <2> QED BY <1>q, <1>1, <1>3, <1>5, <2>1 DEF IsTask
  <1>8. IsTask(next) /\ next.at = "gathering" /\ next.jobs = tk.jobs /\ next.name = tk.name
        /\ next.seen = tk.seen /\ next.thread = tk.thread
    BY <1>q, <1>1, <1>2, <1>5 DEF IsTask
  <1>9. CASE Becomes(c, next)
    <2>1. q = next
      BY <1>q, <1>1, <1>9, GoesTo
    <2> QED BY <1>q, <1>5, <1>8, <2>1, Zenon
  <1>10. CASE Becomes(c, Await(next, th)) /\ tk.i <= Len(tk.jobs) /\ job.state = "done" /\ job.dir = NoDir
    <2>1. q = Await(next, th)
      BY <1>q, <1>1, <1>10, GoesTo
    <2>2. th.mode = "gather"
      BY <1>q, <1>4 DEF Gathering, NoThread
    <2>3. IsTask(q) /\ q.at = "moving" /\ q.thread = th /\ q.jobs = next.jobs /\ q.name = next.name /\ q.seen = next.seen
      BY <1>q, <1>8, <2>1, <2>2 DEF Await, IsTask
    <2>4. tk.i \in DOMAIN tk.jobs
      BY <1>q, <1>1, <1>10
    <2> QED BY <1>q, <1>4, <1>5, <1>8, <1>10, <2>3, <2>4
  <1> QED BY <1>q, <1>6, <1>7, <1>9, <1>10

\* A merge always names a group.
LEMMA GroupGiven ==
  ASSUME world \in Worlds, NEW tk, tk.seen \in Seq(RowType), tk.jobs \in Seq(Jobs), tk.jobs # <<>>
  PROVE  GroupOf(tk) # 0
  <1>1. PICK seen \in Seq(RowType) : seen = tk.seen
    OBVIOUS
  <1>2. PICK I : I = {i \in 1..Len(seen) : seen[i].group # 0}
    OBVIOUS
  <1>3. GroupOf(tk) = LET k == IF I # {} THEN Min(I) ELSE 0
                      IN  IF k = 0 THEN tk.jobs[1] ELSE seen[k].group
    BY <1>1, <1>2 DEF GroupOf, SelectInSeq
  <1>4. tk.jobs[1] # 0
    BY WorldFacts
  <1>5. CASE I = {}
    BY <1>3, <1>4, <1>5
  <1>6. CASE I # {}
    <2>1. I \in SUBSET Nat
      BY <1>2
    <2>2. PICK k : k = Min(I)
      OBVIOUS
    <2>3. k \in I
      BY <1>6, <2>1, <2>2, MinBelongs
    <2> QED BY <1>2, <1>3, <1>6, <2>2, <2>3
  <1> QED BY <1>5, <1>6

\* A merge writes a member: where its files are now, or where they are to go.
LEMMA UpdateMemberDoes ==
  ASSUME Typed, NEW c \in Clients, UpdateMember(c), NEW tk, tk = task[c],
         NEW j, j = tk.jobs[tk.i]
  PROVE  LET q == task'[c]
         IN  /\ tk.at = "updating" /\ asked' = asked /\ disk' = disk
             /\ j \in Jobs /\ tk.i \in DOMAIN tk.jobs /\ tk.i \in DOMAIN tk.seen
             /\ rows'[j].group = GroupOf(tk) /\ rows'[j].group # 0 /\ rows'[j].gname = tk.name
             /\ \/ /\ tk.seen[tk.i].state = "done" /\ Alters(j, {"group", "gname", "dir", "dest"})
                   /\ rows'[j].dir = tk.name /\ rows'[j].dest = tk.seen[1].dest
                \/ /\ tk.seen[tk.i].state # "done" /\ Alters(j, {"group", "gname", "rename_to"})
                   /\ rows'[j].rename_to = tk.name
             /\ IsTask(q) /\ q.jobs = tk.jobs /\ q.name = tk.name /\ q.seen = tk.seen /\ q.i = tk.i + 1
             /\ q.thread = tk.thread /\ q.at = IF tk.i = Len(tk.jobs) THEN "naming" ELSE "updating"
  <1>q. PICK q : q = task'[c]
    OBVIOUS
  <1>1. /\ c \in Tasks /\ IsTask(tk) /\ IsTaskOf(c, tk) /\ tk.jobs \in Seq(Jobs) /\ tk.i \in Nat \ {0}
        /\ tk.seen \in Seq(RowType) /\ rows \in [Jobs -> RowType]
    BY <1>q, ClientFacts, InFields
  <1>2. tk.at = "updating" /\ asked' = asked /\ disk' = disk
    BY DEF UpdateMember
  <1>3. tk.i <= Len(tk.jobs) /\ Len(tk.seen) = Len(tk.jobs) /\ tk.jobs # <<>>
    BY <1>q, <1>1, <1>2 DEF IsTaskOf, InMerge
  <1>4. tk.i \in DOMAIN tk.jobs /\ tk.i \in DOMAIN tk.seen /\ j \in Jobs
    BY <1>q, <1>1, <1>3
  <1>5. PICK g : g = GroupOf(tk)
    OBVIOUS
  <1>6. g # 0
    BY <1>q, <1>1, <1>3, <1>5, GroupGiven DEF Typed
  <1>7. \/ /\ tk.seen[tk.i].state = "done"
           /\ Set(j, [group |-> g, gname |-> tk.name, dir |-> tk.name, dest |-> tk.seen[1].dest])
        \/ /\ tk.seen[tk.i].state # "done"
           /\ Set(j, [group |-> g, gname |-> tk.name, rename_to |-> tk.name])
    BY <1>q, <1>5 DEF UpdateMember
  <1>8. q = [tk EXCEPT !.i = @ + 1, !.at = IF tk.i = Len(tk.jobs) THEN "naming" ELSE @]
    BY <1>q, <1>1, GoesTo DEF UpdateMember
  <1>9. /\ IsTask(q) /\ q.jobs = tk.jobs /\ q.name = tk.name /\ q.seen = tk.seen /\ q.i = tk.i + 1
        /\ q.thread = tk.thread /\ q.at = IF tk.i = Len(tk.jobs) THEN "naming" ELSE "updating"
    BY <1>q, <1>1, <1>2, <1>8 DEF IsTask
  <1>10. CASE /\ tk.seen[tk.i].state = "done"
              /\ Set(j, [group |-> g, gname |-> tk.name, dir |-> tk.name, dest |-> tk.seen[1].dest])
    <2>1. /\ Alters(j, {"group", "gname", "dir", "dest"}) /\ rows'[j].group = g /\ rows'[j].gname = tk.name
          /\ rows'[j].dir = tk.name /\ rows'[j].dest = tk.seen[1].dest
      BY <1>q, <1>4, <1>10, SetFields DEF Columns
    <2> QED BY <1>q, <1>2, <1>4, <1>5, <1>6, <1>9, <1>10, <2>1
  <1>11. CASE /\ tk.seen[tk.i].state # "done"
              /\ Set(j, [group |-> g, gname |-> tk.name, rename_to |-> tk.name])
    <2>1. /\ Alters(j, {"group", "gname", "rename_to"}) /\ rows'[j].group = g /\ rows'[j].gname = tk.name
          /\ rows'[j].rename_to = tk.name
      BY <1>q, <1>4, <1>11, SetFields DEF Columns
    <2> QED BY <1>q, <1>2, <1>4, <1>5, <1>6, <1>9, <1>11, <2>1
  <1> QED BY <1>q, <1>7, <1>10, <1>11

\* update_group_name gives the members of the group one name and ends the merge.
LEMMA SetGroupNameDoes ==
  ASSUME Typed, NEW c \in Clients, SetGroupName(c)
  PROVE  /\ task[c].at = "naming" /\ asked' = asked /\ disk' = disk /\ task'[c] = NoTask
         /\ DOMAIN rows' = Jobs
         /\ \A j \in Jobs : /\ rows'[j].gname \in {rows[j].gname, task[c].name}
                            /\ \A f \in Columns \ {"gname"} : rows'[j][f] = rows[j][f]
  <1>1. PICK name : name = task[c].name
    OBVIOUS
  <1>2. rows' = [j \in Jobs |-> IF rows[j].group = GroupOf(task[c])
                               THEN [rows[j] EXCEPT !.gname = name] ELSE rows[j]]
    BY <1>1 DEF SetGroupName
  <1>3. \A j \in Jobs : rows[j] \in RowType
    BY DEF Typed
  <1>4. \A j \in Jobs : DOMAIN rows[j] = Columns
    BY <1>3, RowFacts DEF Columns
  <1>5. ASSUME NEW j \in Jobs
        PROVE  /\ rows'[j].gname \in {rows[j].gname, name}
               /\ \A f \in Columns \ {"gname"} : rows'[j][f] = rows[j][f]
    <2>1. rows'[j] \in {rows[j], [rows[j] EXCEPT !.gname = name]}
      BY <1>2
    <2> QED BY <1>4, <2>1 DEF Columns
  <1>6. task'[c] = NoTask
    BY ClientFacts, GoesTo DEF SetGroupName, End
  <1> QED BY <1>1, <1>2, <1>5, <1>6 DEF SetGroupName

\* A user retries a job.
LEMMA RetryDoes ==
  ASSUME Typed, Retry
  PROVE  /\ MayBegin /\ asked' = asked /\ disk' = disk /\ task' = task
         /\ \E j \in Jobs : /\ <<j, rows[j].state>> \in Retried /\ rows[j].state \in {"done", "error"}
                            /\ Alters(j, {"state"}) /\ rows'[j].state = "queued"
  <1>1. PICK j \in Jobs : <<j, rows[j].state>> \in Retried /\ Set(j, [state |-> "queued"])
    BY DEF Retry
  <1>2. Alters(j, {"state"}) /\ rows'[j].state = "queued"
    BY <1>1, SetFields DEF Columns
  <1>3. rows[j].state \in {"done", "error"}
    BY <1>1, WorldFacts DEF Typed
  <1> QED BY <1>1, <1>2, <1>3 DEF Retry

\* The pin loop finds a job due.
LEMMA DueListedDoes ==
  ASSUME Typed, NEW c \in Clients, DueListed(c)
  PROVE  /\ rows' = rows /\ asked' = asked /\ disk' = disk /\ task[c].at = "idle" /\ MayBegin
         /\ \E j \in Jobs : /\ task'[c].at = "due" /\ task'[c].jobs = <<j>> /\ <<j, rows[j].state>> \in Rechecked
                            /\ task'[c].seen = <<rows[j]>> /\ task'[c].thread = NoThread
  <1>1. PICK j \in Jobs : /\ <<j, rows[j].state>> \in Rechecked
                          /\ Becomes(c, [NoTask EXCEPT !.at = "due", !.jobs = <<j>>, !.seen = <<rows[j]>>])
    BY DEF DueListed
  <1>2. task'[c] = [NoTask EXCEPT !.at = "due", !.jobs = <<j>>, !.seen = <<rows[j]>>]
    BY <1>1, ClientFacts, GoesTo
  <1>3. task'[c].at = "due" /\ task'[c].jobs = <<j>> /\ task'[c].seen = <<rows[j]>> /\ task'[c].thread = NoThread
    BY <1>2 DEF NoTask
  <1> QED BY <1>1, <1>3 DEF DueListed, Idle

\* The pin loop requeues it under the directory it had.
LEMMA RequeueDueDoes ==
  ASSUME Typed, NEW c \in Clients, RequeueDue(c), NEW j, j = task[c].jobs[1]
  PROVE  /\ task[c].at = "due" /\ j \in Jobs /\ Alters(j, {"state", "rename_to"})
         /\ rows'[j].state = "queued" /\ rows'[j].rename_to = task[c].seen[1].dir
         /\ asked' = asked /\ disk' = disk /\ task'[c] = NoTask
  <1>1. /\ task[c].at = "due" /\ End(c) /\ asked' = asked /\ disk' = disk
        /\ Set(j, [state |-> "queued", rename_to |-> task[c].seen[1].dir])
    BY DEF RequeueDue
  <1>2. j \in Jobs
    BY <1>1, RenamedJob
  <1>3. Alters(j, {"state", "rename_to"}) /\ rows'[j].state = "queued" /\ rows'[j].rename_to = task[c].seen[1].dir
    BY <1>1, <1>2, SetFields DEF Columns
  <1> QED BY <1>1, <1>2, <1>3, ClientFacts, GoesTo DEF End

\* Where Goto leaves the other fields of a task.
LEMMA GoesOnly ==
  ASSUME Typed, NEW t \in Tasks, NEW at, Goto(t, at)
  PROVE  LET q == task'[t]
         IN  /\ IsTask(q) /\ q.at = at /\ q.jobs = task[t].jobs /\ q.i = task[t].i /\ q.name = task[t].name
             /\ q.seen = task[t].seen /\ q.thread = task[t].thread
  <1>1. DOMAIN task = Tasks /\ IsTask(task[t])
    BY InFields
  <1>2. task'[t] = With(task[t], at, task[t].thread)
    BY <1>1, Transitions
  <1> QED BY <1>1, <1>2, TaskFields

\* A run begins.
LEMMA StartRunDoes ==
  ASSUME Typed, NEW j \in Jobs, StartRun(j)
  PROVE  /\ task[j].at = "idle" /\ rows[j].state = "queued" /\ asked' = asked /\ disk' = disk
         /\ Alters(j, {"state"}) /\ rows'[j].state = "active"
         /\ task'[j].at = "downloading" /\ task'[j].seen = <<rows[j]>>
  <1>1. Set(j, [state |-> "active"]) /\ task'[j] = [NoTask EXCEPT !.at = "downloading", !.seen = <<rows[j]>>]
    BY RunFacts, GoesTo DEF StartRun
  <1>2. Alters(j, {"state"}) /\ rows'[j].state = "active"
    BY <1>1, SetFields DEF Columns
  <1>3. task'[j].at = "downloading" /\ task'[j].seen = <<rows[j]>>
    BY <1>1 DEF NoTask
  <1> QED BY <1>2, <1>3 DEF StartRun, Idle

\* What the steps of a run from its first file to its verdict write.
LEMMA RunDoes ==
  ASSUME Typed, NEW j \in Jobs, NEW tk, tk = task[j]
  PROVE  LET q == task'[j]
         IN  /\ DetectDir(j) =>
                   /\ tk.at \in {"downloading", "detected"} /\ q.at = "detected" /\ q.seen = tk.seen
                   /\ Alters(j, {"dir"}) /\ rows'[j].dir \in DirsOf(j) \ {tk.name} /\ q.name = rows'[j].dir
                   /\ asked' = asked /\ disk' = disk
             /\ Downloaded(j) =>
                   /\ tk.at = IF DirsOf(j) = {} THEN "downloading" ELSE "detected"
                   /\ MayBegin /\ q.at = "landing" /\ q.seen = tk.seen /\ q.name = tk.name
                   /\ q.thread.todo = Downloads(j)
                   /\ rows' = rows /\ asked' = asked /\ disk' = disk
             /\ LandFile(j) =>
                   /\ tk.at = "landing" /\ q.at = "landing" /\ q.seen = tk.seen /\ q.name = tk.name
                   /\ rows' = rows /\ asked' = asked
                   /\ \E rel \in tk.thread.todo :
                         /\ disk' = Arrived(tk.seen[1].dest, j, rel, disk)
                         /\ q.thread.todo = tk.thread.todo \ {rel}
             /\ RecordFiles(j) =>
                   /\ tk.at = "landing" /\ tk.thread.todo = {} /\ q.at = "recorded" /\ q.seen = tk.seen
                   /\ Alters(j, {"files"}) /\ rows'[j].files = Downloads(j) /\ asked' = asked /\ disk' = disk
             /\ WriteApplied(j) =>
                   /\ tk.at = "renamed" /\ q.at = "verdict" /\ q.seen = tk.seen
                   /\ Alters(j, {"dir", "rename_to"}) /\ rows'[j].dir = tk.name /\ rows'[j].rename_to = NoDir
                   /\ asked' = asked /\ disk' = disk
             /\ ClearPending(j) =>
                   /\ tk.at = "clearing" /\ q.at = "verdict" /\ q.seen = tk.seen
                   /\ Alters(j, {"rename_to"}) /\ rows'[j].rename_to = NoDir /\ asked' = asked /\ disk' = disk
             /\ Finish(j) =>
                   /\ tk.at = "verdict" /\ q = NoTask
                   /\ Alters(j, {"state"}) /\ rows'[j].state = "done" /\ asked' = asked /\ disk' = disk
             /\ FailRun(j) =>
                   /\ tk.at \in {"downloading", "detected", "failed"} /\ q = NoTask
                   /\ Alters(j, {"state"}) /\ rows'[j].state = "error" /\ asked' = asked /\ disk' = disk
  <1>q. PICK q : q = task'[j]
    OBVIOUS
  <1>0. j \in Tasks
    BY <1>q, RunFacts
  <1>1. ASSUME DetectDir(j)
        PROVE  /\ tk.at \in {"downloading", "detected"} /\ q.at = "detected" /\ q.seen = tk.seen
               /\ Alters(j, {"dir"}) /\ rows'[j].dir \in DirsOf(j) \ {tk.name} /\ q.name = rows'[j].dir
               /\ asked' = asked /\ disk' = disk
    <2>1. PICK d \in DirsOf(j) \ {tk.name} :
              Set(j, [dir |-> d]) /\ Becomes(j, [tk EXCEPT !.at = "detected", !.name = d])
      BY <1>q, <1>1 DEF DetectDir
    <2>2. Alters(j, {"dir"}) /\ rows'[j].dir = d
      BY <1>q, <2>1, SetFields DEF Columns
    <2>3. q = [tk EXCEPT !.at = "detected", !.name = d] /\ IsTask(tk)
      BY <1>q, <1>0, <2>1, GoesTo, InFields
    <2>4. q.at = "detected" /\ q.name = d /\ q.seen = tk.seen
      BY <2>3 DEF IsTask
    <2> QED BY <1>q, <1>1, <2>1, <2>2, <2>4 DEF DetectDir
  <1>2. ASSUME Downloaded(j)
        PROVE  /\ tk.at = IF DirsOf(j) = {} THEN "downloading" ELSE "detected"
               /\ MayBegin /\ q.at = "landing" /\ q.seen = tk.seen /\ q.name = tk.name
               /\ q.thread.todo = Downloads(j)
               /\ rows' = rows /\ asked' = asked /\ disk' = disk
    <2>1. task' = [task EXCEPT ![j].at = "landing", ![j].thread.todo = Downloads(j)]
      BY <1>2 DEF Downloaded
    <2>2. IsTask(tk) /\ IsThread(tk.thread) /\ DOMAIN task = Tasks
      BY <1>q, <1>0, InFields
    <2>3. q.at = "landing" /\ q.seen = tk.seen /\ q.name = tk.name /\ q.thread.todo = Downloads(j)
      BY <1>q, <1>0, <2>1, <2>2 DEF IsTask, IsThread
    <2> QED BY <1>q, <1>2, <2>3 DEF Downloaded
  <1>8. ASSUME LandFile(j)
        PROVE  /\ tk.at = "landing" /\ q.at = "landing" /\ q.seen = tk.seen /\ q.name = tk.name
               /\ rows' = rows /\ asked' = asked
               /\ \E rel \in tk.thread.todo :
                     /\ disk' = Arrived(tk.seen[1].dest, j, rel, disk)
                     /\ q.thread.todo = tk.thread.todo \ {rel}
    <2>1. PICK rel \in tk.thread.todo :
              /\ disk' = Arrived(tk.seen[1].dest, j, rel, disk)
              /\ task' = [task EXCEPT ![j].thread.todo = @ \ {rel}]
      BY <1>q, <1>8 DEF LandFile, Arrived
    <2>2. IsTask(tk) /\ IsThread(tk.thread) /\ DOMAIN task = Tasks /\ tk.at = "landing"
      BY <1>q, <1>0, <1>8, InFields DEF LandFile
    <2>3. q.at = "landing" /\ q.seen = tk.seen /\ q.name = tk.name /\ q.thread.todo = tk.thread.todo \ {rel}
      BY <1>q, <1>0, <2>1, <2>2 DEF IsTask, IsThread
    <2> QED BY <1>q, <1>8, <2>1, <2>2, <2>3 DEF LandFile
  <1>3. ASSUME RecordFiles(j)
        PROVE  /\ tk.at = "landing" /\ tk.thread.todo = {} /\ q.at = "recorded" /\ q.seen = tk.seen
               /\ Alters(j, {"files"}) /\ rows'[j].files = Downloads(j) /\ asked' = asked /\ disk' = disk
    <2>1. Set(j, [files |-> Downloads(j)]) /\ Goto(j, "recorded")
      BY <1>q, <1>3 DEF RecordFiles
    <2>2. Alters(j, {"files"}) /\ rows'[j].files = Downloads(j)
      BY <1>q, <2>1, SetFields DEF Columns
    <2> QED BY <1>q, <1>0, <1>3, <2>1, <2>2, GoesOnly DEF RecordFiles
  <1>4. ASSUME WriteApplied(j)
        PROVE  /\ tk.at = "renamed" /\ q.at = "verdict" /\ q.seen = tk.seen
               /\ Alters(j, {"dir", "rename_to"}) /\ rows'[j].dir = tk.name /\ rows'[j].rename_to = NoDir
               /\ asked' = asked /\ disk' = disk
    <2>1. Set(j, [dir |-> tk.name, rename_to |-> NoDir]) /\ Goto(j, "verdict")
      BY <1>q, <1>4 DEF WriteApplied
    <2>2. Alters(j, {"dir", "rename_to"}) /\ rows'[j].dir = tk.name /\ rows'[j].rename_to = NoDir
      BY <1>q, <2>1, SetFields DEF Columns
    <2> QED BY <1>q, <1>0, <1>4, <2>1, <2>2, GoesOnly DEF WriteApplied
  <1>5. ASSUME ClearPending(j)
        PROVE  /\ tk.at = "clearing" /\ q.at = "verdict" /\ q.seen = tk.seen
               /\ Alters(j, {"rename_to"}) /\ rows'[j].rename_to = NoDir /\ asked' = asked /\ disk' = disk
    <2>1. Set(j, [rename_to |-> NoDir]) /\ Goto(j, "verdict")
      BY <1>q, <1>5 DEF ClearPending
    <2>2. Alters(j, {"rename_to"}) /\ rows'[j].rename_to = NoDir
      BY <1>q, <2>1, SetFields DEF Columns
    <2> QED BY <1>q, <1>0, <1>5, <2>1, <2>2, GoesOnly DEF ClearPending
  <1>6. ASSUME Finish(j)
        PROVE  /\ tk.at = "verdict" /\ q = NoTask
               /\ Alters(j, {"state"}) /\ rows'[j].state = "done" /\ asked' = asked /\ disk' = disk
    <2>1. Set(j, [state |-> "done"]) /\ End(j)
      BY <1>q, <1>6 DEF Finish
    <2>2. Alters(j, {"state"}) /\ rows'[j].state = "done"
      BY <1>q, <2>1, SetFields DEF Columns
    <2> QED BY <1>q, <1>0, <1>6, <2>1, <2>2, GoesTo DEF Finish, End
  <1>7. ASSUME FailRun(j)
        PROVE  /\ tk.at \in {"downloading", "detected", "failed"} /\ q = NoTask
               /\ Alters(j, {"state"}) /\ rows'[j].state = "error" /\ asked' = asked /\ disk' = disk
    <2>1. Set(j, [state |-> "error"]) /\ End(j)
      BY <1>q, <1>7 DEF FailRun
    <2>2. Alters(j, {"state"}) /\ rows'[j].state = "error"
      BY <1>q, <2>1, SetFields DEF Columns
    <2> QED BY <1>q, <1>0, <1>7, <2>1, <2>2, GoesTo DEF FailRun, End
  <1> QED BY <1>q, <1>1, <1>2, <1>3, <1>4, <1>5, <1>6, <1>7, <1>8

\* A run finds nothing pending, has its thread move what it has downloaded, or has
\* only to clear the name.
LEMMA ReadPendingDoes ==
  ASSUME Typed, NEW j \in Jobs, ReadPending(j), NEW tk, tk = task[j]
  PROVE  LET q == task'[j]
             job == rows[j]
             base == tk.seen[1].dest
         IN  /\ tk.at = "recorded" /\ rows' = rows /\ asked' = asked /\ disk' = disk
             /\ q.seen = tk.seen
             /\ \/ job.rename_to = NoDir /\ q.at = "verdict"
                \/ /\ job.rename_to \notin {NoDir, job.dir} /\ job.dir # NoDir /\ IsDir(disk, base \o <<job.dir>>)
                   /\ q.at = "thread" /\ q.name = job.rename_to
                   /\ q.thread = Renaming(base \o <<job.dir>>, base \o <<job.rename_to>>, "renamed")
                \/ /\ job.rename_to \notin {NoDir, job.dir} /\ ~(job.dir # NoDir /\ IsDir(disk, base \o <<job.dir>>))
                   /\ job.files # {} /\ q.at = "moving" /\ q.name = job.rename_to
                   /\ q.thread = Gathering(base, job.files, base \o <<job.rename_to>>, "renamed")
                \/ /\ q.at = "clearing" /\ job.rename_to # NoDir
                   /\ \/ job.rename_to = job.dir
                      \/ ~(job.dir # NoDir /\ IsDir(disk, base \o <<job.dir>>)) /\ job.files = {}
  <1>q. PICK q : q = task'[j]
    OBVIOUS
  <1>j. PICK job : job = rows[j]
    OBVIOUS
  <1>b. PICK base : base = tk.seen[1].dest
    OBVIOUS
  <1>1. j \in Tasks /\ IsTask(tk)
    BY <1>q, RunFacts
  <1>2. PICK named : named = [tk EXCEPT !.name = job.rename_to]
    OBVIOUS
  <1>3. PICK mv : mv = Renaming(base \o <<job.dir>>, base \o <<job.rename_to>>, "renamed")
    OBVIOUS
  <1>4. PICK gt : gt = Gathering(base, job.files, base \o <<job.rename_to>>, "renamed")
    OBVIOUS
  <1>5. IsTask(named) /\ named.name = job.rename_to /\ named.seen = tk.seen
    BY <1>q, <1>1, <1>2 DEF IsTask
  <1>6. mv.mode = "rename" /\ gt.mode = "gather"
    BY <1>q, <1>3, <1>4 DEF Renaming, Gathering, NoThread
  <1>7. tk.at = "recorded" /\ rows' = rows /\ asked' = asked /\ disk' = disk
    BY DEF ReadPending
  <1>8. \/ job.rename_to = NoDir /\ Goto(j, "verdict")
        \/ /\ job.rename_to \notin {NoDir, job.dir} /\ job.dir # NoDir /\ IsDir(disk, base \o <<job.dir>>)
           /\ Becomes(j, Await(named, mv))
        \/ /\ job.rename_to \notin {NoDir, job.dir} /\ ~(job.dir # NoDir /\ IsDir(disk, base \o <<job.dir>>))
           /\ job.files # {} /\ Becomes(j, Await(named, gt))
        \/ /\ Goto(j, "clearing") /\ job.rename_to # NoDir
           /\ \/ job.rename_to = job.dir
              \/ ~(job.dir # NoDir /\ IsDir(disk, base \o <<job.dir>>)) /\ job.files = {}
    BY <1>q, <1>j, <1>b, <1>2, <1>3, <1>4 DEF ReadPending
  <1>9. \A th : Becomes(j, Await(named, th)) => q = Await(named, th)
    BY <1>q, <1>1, GoesTo
  <1>10. \A at : Goto(j, at) => q.at = at /\ q.seen = tk.seen
    BY <1>q, <1>1, GoesOnly
  <1>11. ASSUME q = Await(named, mv)
         PROVE  q.at = "thread" /\ q.name = job.rename_to /\ q.thread = mv /\ q.seen = tk.seen
    BY <1>q, <1>5, <1>6, <1>11 DEF Await, IsTask
  <1>12. ASSUME q = Await(named, gt)
         PROVE  q.at = "moving" /\ q.name = job.rename_to /\ q.thread = gt /\ q.seen = tk.seen
    BY <1>q, <1>5, <1>6, <1>12 DEF Await, IsTask
  <1> QED BY <1>q, <1>j, <1>b, <1>3, <1>4, <1>7, <1>8, <1>9, <1>10, <1>11, <1>12

\* A task that keeps what it is about.
GoesOnAs(q, tk) == IsTask(q) /\ q.jobs = tk.jobs /\ q.i = tk.i /\ q.name = tk.name /\ q.seen = tk.seen

\* A thread that keeps its target, and where its task goes on.
SameCall(th2, th) == IsThread(th2) /\ th2.to = th.to /\ th2.then = th.then

\* The exception of a thread ends a request and fails a run.
Raising(t, q) ==
    \/ t \in Jobs /\ q.at = "failed" /\ GoesOnAs(q, task[t]) /\ q.thread = task[t].thread
    \/ t \notin Jobs /\ q = NoTask

\* What With leaves.
LEMMA GoingWith ==
  ASSUME Typed, NEW t \in Tasks, NEW at, NEW th, task'[t] = With(task[t], at, th)
  PROVE  GoesOnAs(task'[t], task[t]) /\ task'[t].at = at /\ task'[t].thread = th
  <1>1. IsTask(task[t])
    BY InFields
  <1> QED BY <1>1, TaskFields DEF GoesOnAs

\* What Goto and Raise leave.
LEMMA Going ==
  ASSUME Typed, NEW t \in Tasks
  PROVE  /\ \A at : Goto(t, at) => /\ GoesOnAs(task'[t], task[t]) /\ task'[t].at = at
                                   /\ task'[t].thread = task[t].thread
         /\ Raise(t) => Raising(t, task'[t])
  <1>1. DOMAIN task = Tasks /\ IsTask(task[t])
    BY InFields
  <1>2. ASSUME NEW at, Goto(t, at)
        PROVE  GoesOnAs(task'[t], task[t]) /\ task'[t].at = at /\ task'[t].thread = task[t].thread
    <2>1. task' = [task EXCEPT ![t] = With(task[t], at, task[t].thread)]
      BY <1>1, <1>2, Transitions
    <2>2. task'[t] = With(task[t], at, task[t].thread)
      BY <1>1, <2>1
    <2> QED BY <2>2, GoingWith
  <1>3. Raise(t) => Raising(t, task'[t])
    BY <1>1, <1>2, GoesTo DEF Raise, End, Raising
  <1> QED BY <1>2, <1>3

\* rename_dir looks for its target.
LEMMA TestTargetDoes ==
  ASSUME Typed, NEW t \in Tasks, TestTarget(t), NEW tk, tk = task[t], NEW th, th = tk.thread
  PROVE  LET q == task'[t]
         IN  /\ tk.at = "thread" /\ th.mode = "rename" /\ rows' = rows /\ asked' = asked /\ disk' = disk
             /\ GoesOnAs(q, tk) /\ q.at = "thread" /\ SameCall(q.thread, th)
             /\ q.thread.from = th.from /\ q.thread.more = th.more /\ q.thread.todo = th.todo
             /\ q.thread.goal = <<>> /\ q.thread.mode = IF IsDir(disk, th.to) THEN "over" ELSE "whole"
  <1>q. PICK q : q = task'[t]
    OBVIOUS
  <1>1. IsTask(tk) /\ IsTaskOf(t, tk) /\ IsThread(th) /\ DOMAIN task = Tasks
    BY <1>q, InFields
  <1>2. tk.at = "thread" /\ th.mode = "rename" /\ rows' = rows /\ asked' = asked /\ disk' = disk
    BY DEF TestTarget
  <1>3. th.goal = <<>> /\ th.from # <<>>
    BY <1>1, <1>2 DEF IsTaskOf, IsThread
  <1>4. PICK mode : mode = IF IsDir(disk, th.to) THEN "over" ELSE "whole"
    OBVIOUS
  <1>5. task' = [task EXCEPT ![t].thread.mode = mode]
    BY <1>4 DEF TestTarget
  <1>6. PICK th2 : th2 = [th EXCEPT !.mode = mode]
    OBVIOUS
  <1>7. q = With(tk, "thread", th2)
    BY <1>q, <1>1, <1>2, <1>5, <1>6 DEF With, IsTask
  <1>8. /\ SameCall(th2, th) /\ th2.mode = mode /\ th2.from = th.from /\ th2.more = th.more
        /\ th2.todo = th.todo /\ th2.goal = <<>>
    BY <1>1, <1>3, <1>4, <1>6 DEF IsThread, SameCall
  <1>9. GoesOnAs(q, tk) /\ q.at = "thread" /\ q.thread = th2
    BY <1>1, <1>7, TaskFields DEF GoesOnAs
  <1> QED BY <1>q, <1>2, <1>4, <1>8, <1>9

\* _move_tree lists its source.
LEMMA ListTreeDoes ==
  ASSUME Typed, Stored, NEW t \in Tasks, ListTree(t), NEW tk, tk = task[t], NEW th, th = tk.thread
  PROVE  LET q == task'[t]
         IN  /\ tk.at = "thread" /\ th.mode = "over" /\ rows' = rows /\ asked' = asked /\ disk' = disk
             /\ GoesOnAs(q, tk) /\ q.at = "moving" /\ SameCall(q.thread, th) /\ q.thread.mode = "over"
             /\ q.thread.from = th.from /\ q.thread.more = th.more /\ q.thread.todo = RelFiles(disk, th.from)
             /\ q.thread.goal = <<>>
  <1>q. PICK q : q = task'[t]
    OBVIOUS
  <1>1. IsTask(tk) /\ IsTaskOf(t, tk) /\ IsThread(th) /\ DOMAIN task = Tasks
    BY <1>q, InFields
  <1>2. tk.at = "thread" /\ th.mode = "over" /\ rows' = rows /\ asked' = asked /\ disk' = disk
    BY DEF ListTree
  <1>3. th.goal = <<>> /\ th.from \in Seq(Component)
    BY <1>1, <1>2 DEF IsTaskOf, IsThread
  <1>4. PICK rels : rels = RelFiles(disk, th.from)
    OBVIOUS
  <1>5. task' = [task EXCEPT ![t].at = "moving", ![t].thread.todo = rels]
    BY <1>4 DEF ListTree
  <1>6. PICK th2 : th2 = [th EXCEPT !.todo = rels]
    OBVIOUS
  <1>7. q = With(tk, "moving", th2)
    BY <1>q, <1>1, <1>5, <1>6 DEF With, IsTask
  <1>8. \A rel \in rels : IsPath(rel)
    BY <1>3, <1>4, RelFilesArePaths DEF Stored
  <1>9. /\ SameCall(th2, th) /\ th2.mode = "over" /\ th2.from = th.from /\ th2.more = th.more
        /\ th2.todo = rels /\ th2.goal = <<>>
    BY <1>1, <1>2, <1>3, <1>6, <1>8 DEF IsThread, SameCall
  <1>10. GoesOnAs(q, tk) /\ q.at = "moving" /\ q.thread = th2
    BY <1>1, <1>7, TaskFields DEF GoesOnAs
  <1> QED BY <1>q, <1>2, <1>4, <1>9, <1>10

\* Where a directory is put that is moved as a whole.
GoalOf(th) == IF IsDir(disk, th.to) THEN th.to \o <<Last(th.from)>> ELSE th.to

\* os.replace of a directory, or shutil.move below the target.
LEMMA ReplaceDirDoes ==
  ASSUME Typed, NEW t \in Tasks, ReplaceDir(t), NEW tk, tk = task[t], NEW th, th = tk.thread,
         NEW goal, goal = GoalOf(th)
  PROVE  LET q == task'[t]
         IN  /\ tk.at = "thread" /\ th.mode = "whole" /\ rows' = rows /\ asked' = asked
             /\ \/ /\ IsDir(disk, th.from) /\ ~IsDir(disk, goal) /\ disk' = RenameTree(disk, th.from, goal)
                   /\ GoesOnAs(q, tk) /\ q.at = th.then /\ q.thread = th
                \/ /\ ~IsDir(disk, th.from) \/ IsDir(disk, goal)
                   /\ disk' = disk /\ Raising(t, q)
  <1>1. /\ tk.at = "thread" /\ th.mode = "whole" /\ rows' = rows /\ asked' = asked
        /\ \/ /\ IsDir(disk, th.from) /\ ~IsDir(disk, goal) /\ disk' = RenameTree(disk, th.from, goal)
              /\ Goto(t, th.then)
           \/ /\ ~IsDir(disk, th.from) \/ IsDir(disk, goal)
              /\ disk' = disk /\ Raise(t)
    BY DEF ReplaceDir, GoalOf
  <1> QED BY <1>1, Going

\* merge_dirs at its next source.
LEMMA NextSourceDoes ==
  ASSUME Typed, Stored, NEW t \in Tasks, NextSource(t),
         NEW tk, tk = task[t], NEW th, th = tk.thread
  PROVE  LET q == task'[t]
         IN  /\ tk.at = "thread" /\ th.mode = "aside" /\ rows' = rows /\ asked' = asked /\ disk' = disk
             /\ GoesOnAs(q, tk)
             /\ \/ th.more = <<>> /\ q.at = th.then /\ q.thread = th
                \/ /\ th.more # <<>> /\ SameCall(q.thread, th) /\ q.thread.mode = "aside"
                   /\ q.thread.from = Head(th.more) /\ q.thread.more = Tail(th.more) /\ q.thread.goal = <<>>
                   /\ q.thread.todo = IF Head(th.more) = th.to THEN {} ELSE RelFiles(disk, Head(th.more))
                   /\ q.at = IF q.thread.todo = {} THEN "thread" ELSE "moving"
  <1>q. PICK q : q = task'[t]
    OBVIOUS
  <1>1. IsTask(tk) /\ IsThread(th) /\ DOMAIN task = Tasks
    BY <1>q, InFields
  <1>2. tk.at = "thread" /\ th.mode = "aside" /\ rows' = rows /\ asked' = asked /\ disk' = disk
    BY DEF NextSource
  <1>5. th.goal = <<>>
    BY <1>2 DEF Typed, IsTaskOf
  <1>3. CASE th.more = <<>>
    <2>1. Goto(t, th.then)
      BY <1>q, <1>3 DEF NextSource
    <2> QED BY <1>q, <1>2, <1>3, <2>1, Going
  <1>4. CASE th.more # <<>>
    <2>1. PICK src : src = Head(th.more)
      OBVIOUS
    <2>2. PICK rels : rels = IF src = th.to THEN {} ELSE RelFiles(disk, src)
      OBVIOUS
    <2>3. PICK rest : rest = Tail(th.more)
      OBVIOUS
    <2>4. PICK th2 : th2 = [th EXCEPT !.more = rest, !.from = src, !.todo = rels]
      OBVIOUS
    <2>5. PICK at : at = IF rels = {} THEN "thread" ELSE "moving"
      OBVIOUS
    <2>6. src \in Seq(Component) /\ rest \in Seq(Seq(Component))
      BY <1>q, <1>1, <1>4, <2>1, <2>3, HeadTailProperties DEF IsThread
    <2>7. \A rel \in rels : IsPath(rel)
      BY <1>q, <2>2, <2>6, RelFilesArePaths DEF Stored
    <2>8. /\ SameCall(th2, th) /\ th2.mode = "aside" /\ th2.from = src /\ th2.more = rest /\ th2.todo = rels
          /\ th2.goal = <<>>
      BY <1>q, <1>1, <1>2, <1>5, <2>4, <2>6, <2>7 DEF IsThread, SameCall
    <2>9. task' = [task EXCEPT ![t] = SourceTaken(tk, src, rest, rels)]
      <3>1. task' = [task EXCEPT ![t] =
                        SourceTaken(tk, Head(th.more), Tail(th.more),
                                    IF Head(th.more) = th.to THEN {} ELSE RelFiles(disk, Head(th.more)))]
        BY <1>q, <1>4 DEF NextSource, Becomes, SourceTaken
      <3> QED BY <1>q, <2>1, <2>2, <2>3, <3>1
    <2>10. q = With(tk, at, th2)
      BY <1>q, <1>1, <2>4, <2>5, <2>9 DEF SourceTaken, With, IsTask
    <2>11. GoesOnAs(q, tk) /\ q.at = at /\ q.thread = th2
      BY <1>1, <2>10, TaskFields DEF GoesOnAs
    <2> QED BY <1>q, <1>2, <1>4, <2>1, <2>2, <2>3, <2>5, <2>8, <2>11
  <1> QED BY <1>q, <1>3, <1>4

\* The loops of merge_dirs and gather_into_dir look before they move a file.
LEMMA TestFileDoes ==
  ASSUME Typed, Stored, NEW t \in Tasks, TestFile(t), NEW tk, tk = task[t], NEW th, th = tk.thread
  PROVE  LET q == task'[t]
             rel == NextFile(th)
             dst == In(th.to, rel)
         IN  /\ tk.at = "moving" /\ th.todo # {} /\ th.goal = <<>> /\ th.mode \in {"aside", "gather"}
             /\ rows' = rows /\ asked' = asked /\ disk' = disk
             /\ GoesOnAs(q, tk) /\ q.at = "moving" /\ SameCall(q.thread, th) /\ q.thread.mode = th.mode
             /\ q.thread.from = th.from /\ q.thread.more = th.more
             /\ \/ /\ th.mode = "aside" /\ q.thread.todo = th.todo /\ q.thread.goal = <<FreeTarget(disk, dst)>>
                \/ /\ th.mode = "gather" /\ In(th.from, rel) \in DOMAIN disk
                   /\ q.thread.todo = th.todo /\ q.thread.goal = <<dst>>
                \/ /\ th.mode = "gather" /\ In(th.from, rel) \notin DOMAIN disk
                   /\ q.thread.todo = th.todo \ {rel} /\ q.thread.goal = <<>>
  <1>q. PICK q : q = task'[t]
    OBVIOUS
  <1>r. PICK rel : rel = NextFile(th)
    OBVIOUS
  <1>d. PICK dst : dst = In(th.to, rel)
    OBVIOUS
  <1>1. IsTask(tk) /\ IsThread(th) /\ DOMAIN task = Tasks
    BY <1>q, InFields
  <1>2. /\ tk.at = "moving" /\ th.todo # {} /\ th.goal = <<>> /\ th.mode \in {"aside", "gather"}
        /\ rows' = rows /\ asked' = asked /\ disk' = disk
    BY DEF TestFile
  <1>3. \E tk2 : IsTaskOf(t, tk2) /\ task' = [task EXCEPT ![t] = tk2]
    BY TestFileStep DEF Proceeds
  <1>4. IsTaskOf(t, q)
    BY <1>q, <1>1, <1>3
  <1>5. IsThread(q.thread)
    BY <1>4 DEF IsTaskOf
  <1>6. ASSUME NEW th2, q = [tk EXCEPT !.thread = th2]
        PROVE  GoesOnAs(q, tk) /\ q.at = "moving" /\ q.thread = th2
    <2>1. q = With(tk, "moving", th2)
      BY <1>1, <1>2, <1>6 DEF With, IsTask
    <2> QED BY <1>1, <2>1, TaskFields DEF GoesOnAs
  <1>7. ASSUME NEW goal, task' = [task EXCEPT ![t].thread.goal = <<goal>>]
        PROVE  /\ GoesOnAs(q, tk) /\ q.at = "moving" /\ SameCall(q.thread, th) /\ q.thread.mode = th.mode
               /\ q.thread.from = th.from /\ q.thread.more = th.more
               /\ q.thread.todo = th.todo /\ q.thread.goal = <<goal>>
    <2>1. PICK th2 : th2 = [th EXCEPT !.goal = <<goal>>]
      OBVIOUS
    <2>2. q = [tk EXCEPT !.thread = th2]
      BY <1>q, <1>1, <1>7, <2>1 DEF IsTask
    <2>3. /\ th2.mode = th.mode /\ th2.from = th.from /\ th2.more = th.more /\ th2.to = th.to
          /\ th2.then = th.then /\ th2.todo = th.todo /\ th2.goal = <<goal>>
      BY <1>1, <2>1 DEF IsThread
    <2>4. GoesOnAs(q, tk) /\ q.at = "moving" /\ q.thread = th2
      BY <1>6, <2>2
    <2> QED BY <1>5, <2>3, <2>4 DEF SameCall
  <1>8. ASSUME task' = [task EXCEPT ![t].thread.todo = @ \ {rel}]
        PROVE  /\ GoesOnAs(q, tk) /\ q.at = "moving" /\ SameCall(q.thread, th) /\ q.thread.mode = th.mode
               /\ q.thread.from = th.from /\ q.thread.more = th.more
               /\ q.thread.todo = th.todo \ {rel} /\ q.thread.goal = <<>>
    <2>1. PICK th2 : th2 = [th EXCEPT !.todo = @ \ {rel}]
      OBVIOUS
    <2>2. q = [tk EXCEPT !.thread = th2]
      BY <1>q, <1>1, <1>8, <2>1 DEF IsTask
    <2>3. /\ th2.mode = th.mode /\ th2.from = th.from /\ th2.more = th.more /\ th2.to = th.to
          /\ th2.then = th.then /\ th2.todo = th.todo \ {rel} /\ th2.goal = <<>>
      BY <1>1, <1>2, <2>1 DEF IsThread
    <2>4. GoesOnAs(q, tk) /\ q.at = "moving" /\ q.thread = th2
      BY <1>6, <2>2
    <2> QED BY <1>5, <2>3, <2>4 DEF SameCall
  <1>9. \/ th.mode = "aside" /\ task' = [task EXCEPT ![t].thread.goal = <<FreeTarget(disk, dst)>>]
        \/ /\ th.mode = "gather" /\ In(th.from, rel) \in DOMAIN disk
           /\ task' = [task EXCEPT ![t].thread.goal = <<dst>>]
        \/ /\ th.mode = "gather" /\ In(th.from, rel) \notin DOMAIN disk
           /\ task' = [task EXCEPT ![t].thread.todo = @ \ {rel}]
    BY <1>r, <1>d DEF TestFile, NextFile
  <1> QED BY <1>q, <1>r, <1>d, <1>2, <1>7, <1>8, <1>9

\* The loops of rename_dir, merge_dirs and gather_into_dir move a file.
LEMMA MoveFileDoes ==
  ASSUME Typed, Stored, NEW t \in Tasks, MoveFile(t), NEW tk, tk = task[t], NEW th, th = tk.thread
  PROVE  LET q == task'[t]
             rel == NextFile(th)
         IN  /\ tk.at = "moving" /\ th.todo # {} /\ (th.mode = "over" \/ th.goal # <<>>)
             /\ rows' = rows /\ asked' = asked
             /\ \/ /\ In(th.from, rel) \in DOMAIN disk
                   /\ GoesOnAs(q, tk) /\ q.at = "moving" /\ SameCall(q.thread, th) /\ q.thread.mode = th.mode
                   /\ q.thread.from = th.from /\ q.thread.more = th.more /\ q.thread.todo = th.todo \ {rel}
                   /\ q.thread.goal = <<>>
                   /\ disk' = Replace(disk, In(th.from, rel), TargetOf(th))
                \/ In(th.from, rel) \notin DOMAIN disk /\ disk' = disk /\ Raising(t, q)
  <1>q. PICK q : q = task'[t]
    OBVIOUS
  <1>r. PICK rel : rel = NextFile(th)
    OBVIOUS
  <1>1. IsTask(tk) /\ IsThread(th) /\ DOMAIN task = Tasks
    BY <1>q, InFields
  <1>2. /\ tk.at = "moving" /\ th.todo # {} /\ (th.mode = "over" \/ th.goal # <<>>)
        /\ UNCHANGED <<rows, runs, asked>>
        /\ \/ /\ In(th.from, rel) \in DOMAIN disk
              /\ disk' = Replace(disk, In(th.from, rel), TargetOf(th))
              /\ task' = [task EXCEPT ![t].thread.todo = @ \ {rel}, ![t].thread.goal = <<>>]
           \/ In(th.from, rel) \notin DOMAIN disk /\ disk' = disk /\ Raise(t)
    BY <1>r, MoveFileIs
  <1>3. CASE /\ In(th.from, rel) \in DOMAIN disk
             /\ disk' = Replace(disk, In(th.from, rel), TargetOf(th))
             /\ task' = [task EXCEPT ![t].thread.todo = @ \ {rel}, ![t].thread.goal = <<>>]
    <2>1. PICK th2 : th2 = [th EXCEPT !.todo = @ \ {rel}, !.goal = <<>>]
      OBVIOUS
    <2>2. q = With(tk, "moving", th2)
      BY <1>q, <1>1, <1>2, <1>3, <2>1 DEF With, IsTask
    <2>3. /\ SameCall(th2, th) /\ th2.mode = th.mode /\ th2.from = th.from /\ th2.more = th.more
          /\ th2.todo = th.todo \ {rel} /\ th2.goal = <<>>
      BY <1>1, <2>1 DEF IsThread, SameCall
    <2>4. GoesOnAs(q, tk) /\ q.at = "moving" /\ q.thread = th2
      BY <1>1, <2>2, TaskFields DEF GoesOnAs
    <2> QED BY <1>q, <1>r, <1>2, <1>3, <2>3, <2>4
  <1>4. CASE In(th.from, rel) \notin DOMAIN disk /\ disk' = disk /\ Raise(t)
    BY <1>q, <1>r, <1>2, <1>4, Going
  <1> QED BY <1>2, <1>3, <1>4

\* After the last file of a source.
LEMMA EndSourceDoes ==
  ASSUME Typed, NEW t \in Tasks, EndSource(t),
         NEW tk, tk = task[t], NEW th, th = tk.thread
  PROVE  LET q == task'[t]
         IN  /\ tk.at = "moving" /\ th.todo = {} /\ rows' = rows /\ asked' = asked
             /\ disk' = IF th.mode = "gather" THEN disk ELSE RemoveTree(disk, th.from)
             /\ GoesOnAs(q, tk) /\ q.thread = th /\ q.at = IF th.mode = "aside" THEN "thread" ELSE th.then
  <1>q. PICK q : q = task'[t]
    OBVIOUS
  <1>1. Goto(t, IF th.mode = "aside" THEN "thread" ELSE th.then)
    BY DEF EndSource
  <1> QED BY <1>q, <1>1, Going DEF EndSource

\* A thread changes no row, and its task goes on inside the thread, at what follows it,
\* or nowhere.
LEMMA ThreadDoes ==
  ASSUME Typed, Stored, NEW t \in Tasks, ThreadStep(t),
         NEW tk, tk = task[t]
  PROVE  LET q == task'[t]
         IN  /\ tk.at \in {"thread", "moving"} /\ rows' = rows /\ asked' = asked
             /\ \/ Raising(t, q)
                \/ /\ GoesOnAs(q, tk) /\ q.thread.then = tk.thread.then
                   /\ q.at \in {"thread", "moving", tk.thread.then}
  <1>q. PICK q : q = task'[t]
    OBVIOUS
  <1>t. PICK th : th = tk.thread
    OBVIOUS
  <1>1. CASE TestTarget(t)
    BY <1>q, <1>t, <1>1, TestTargetDoes DEF SameCall
  <1>2. CASE ListTree(t)
    BY <1>q, <1>t, <1>2, ListTreeDoes DEF SameCall
  <1>3. CASE ReplaceDir(t)
    <2>1. PICK goal : goal = GoalOf(th)
      OBVIOUS
    <2>2. /\ tk.at = "thread" /\ rows' = rows /\ asked' = asked
          /\ Raising(t, task'[t]) \/ (GoesOnAs(task'[t], tk) /\ task'[t].at = th.then /\ task'[t].thread = th)
      BY <1>t, <1>3, <2>1, ReplaceDirDoes
    <2> QED BY <1>t, <2>2
  <1>4. CASE NextSource(t)
    BY <1>q, <1>t, <1>4, NextSourceDoes DEF SameCall
  <1>5. CASE TestFile(t)
    BY <1>q, <1>t, <1>5, TestFileDoes DEF SameCall
  <1>6. CASE MoveFile(t)
    BY <1>q, <1>t, <1>6, MoveFileDoes DEF SameCall
  <1>7. CASE EndSource(t)
    BY <1>q, <1>t, <1>7, EndSourceDoes
  <1> QED BY <1>1, <1>2, <1>3, <1>4, <1>5, <1>6, <1>7 DEF ThreadStep

-----------------------------------------------------------------------------
(* One at a time: what a request knows while others only start or fail     *)

\* What goes on beside a request: runs begin, find a directory and fail.
Bystands(j) == StartRun(j) \/ DetectDir(j) \/ (FailRun(j) /\ task[j].at # "failed")

\* A row a request has read: it is the same, or still not that of a finished job.
StillSo(seen, row) == IF seen.state \in Open THEN row.state # "done" ELSE row = seen

InRename(tk) == tk.at \in {"rename", "renamed"} \/ InThread(tk, "renamed")

\* What a request asks for is asked for in its world, and what it has read still holds.
Knows(tk, rs) ==
    /\ InRename(tk) =>
          /\ tk.jobs # <<>> /\ tk.seen # <<>> /\ tk.name \in NamesOf[tk.jobs[1]]
          /\ StillSo(tk.seen[1], rs[tk.jobs[1]])
          /\ tk.at # "rename" => tk.seen[1].state \notin Open
    /\ tk.at = "reading" \/ InMerge(tk) =>
          /\ \E m \in Merges : tk.jobs = m.jobs /\ tk.name = m.name
          /\ \A k \in DOMAIN tk.seen :
                tk.at = "naming" \/ (tk.at = "updating" /\ k < tk.i) \/ StillSo(tk.seen[k], rs[tk.jobs[k]])
    /\ tk.at = "due" => tk.seen[1] = rs[tk.jobs[1]] /\ <<tk.jobs[1], tk.seen[1].state>> \in Rechecked

\* The run of a job has read where the row still says its files go.
RunReads(j) == task[j].at # "idle" => task[j].seen # <<>> /\ task[j].seen[1].dest = rows[j].dest

Knowing == (\A c \in Clients : Knows(task[c], rows)) /\ (\A j \in Jobs : RunReads(j))

\* A request that rests knows nothing.
LEMMA NothingKnown ==
  ASSUME NEW tk, tk.at = "idle", NEW rs
  PROVE  Knows(tk, rs)
  BY DEF Knows, InRename, InMerge, InThread

\* A client that is not busy rests.
LEMMA Resters ==
  ASSUME Typed, NEW c \in Clients, ~Busy(c)
  PROVE  task[c].at = "idle"
  BY ClientFacts, InFields DEF IsTaskOf, Requests, Busy

\* While one task is busy, and when none is, the others are not.
LEMMA OthersRest ==
  ASSUME Typed, AtWork, ~Overlap, NEW t \in Tasks, Busy(t) \/ MayBegin, NEW u \in Tasks \ {t}
  PROVE  ~Busy(u)
  BY DEF AtWork, OneAtATime, MayBegin, Quiet, Busy

\* What the members of a request are.
LEMMA Members ==
  ASSUME Typed, NEW c \in Clients, NEW tk, tk = task[c]
  PROVE  /\ c \in Tasks /\ tk.jobs \in Seq(Jobs) /\ tk.seen \in Seq(RowType) /\ Len(tk.jobs) \in Nat
         /\ tk.at = "reading" \/ InMerge(tk) =>
               \A k \in DOMAIN tk.seen : k \in DOMAIN tk.jobs /\ tk.jobs[k] \in Jobs /\ tk.seen[k] \in RowType
         /\ InRename(tk) => tk.jobs # <<>> /\ tk.jobs[1] \in Jobs
         /\ tk.at = "due" => tk.jobs[1] \in Jobs /\ tk.seen[1] \in RowType
  <1>1. c \in Tasks /\ IsTaskOf(c, tk) /\ tk.jobs \in Seq(Jobs) /\ tk.seen \in Seq(RowType)
    BY ClientFacts, InFields
  <1>2. Len(tk.jobs) \in Nat /\ Len(tk.seen) \in Nat
    BY <1>1
  <1>3. ASSUME tk.at = "reading" \/ InMerge(tk)
        PROVE  \A k \in DOMAIN tk.seen : k \in DOMAIN tk.jobs /\ tk.jobs[k] \in Jobs /\ tk.seen[k] \in RowType
    <2>1. Len(tk.seen) <= Len(tk.jobs)
      BY <1>1, <1>2, <1>3 DEF IsTaskOf
    <2> QED BY <1>1, <1>2, <2>1
  <1>4. InRename(tk) => tk.jobs # <<>>
    BY <1>1 DEF IsTaskOf, InRename
  <1>5. tk.jobs # <<>> => tk.jobs[1] \in Jobs
    BY <1>1
  <1>6. tk.at = "due" => tk.jobs[1] \in Jobs /\ tk.seen[1] \in RowType
    BY RenamedJob
  <1> QED BY <1>1, <1>2, <1>3, <1>4, <1>5, <1>6

\* Bystanders change rows of jobs that have not finished, and leave their tasks aimed.
LEMMA BystandDoes ==
  ASSUME Typed, Stored, AtWork, NEW j \in Jobs, Bystands(j)
  PROVE  /\ rows[j].state \in Open /\ rows'[j].state \in {"active", "error"}
         /\ Alters(j, {"state", "dir"}) /\ rows'[j].dir \in {rows[j].dir} \cup DirsOf(j)
         /\ asked' = asked /\ disk' = disk /\ (\A u \in Tasks \ {j} : task'[u] = task[u])
         /\ task[j].at \in {"idle", "downloading", "detected"} /\ task'[j].at \in {"idle", "downloading", "detected"}
  <1>1. rows[j] \in RowType /\ j \in Tasks
    BY RunFacts
  <1>2. \A u \in Tasks \ {j} : task'[u] = task[u]
    <2>1. Proceeds(j)
      BY StartRunStep, RunStep DEF Bystands
    <2> QED BY <1>1, <2>1, OthersStand
  <1>3. (rows[j].state = "active") = (task[j].at # "idle")
    BY DEF AtWork, ActiveRuns, Idle
  <1>4. CASE StartRun(j)
    <2>1. /\ rows[j].state = "queued" /\ task[j].at = "idle" /\ Alters(j, {"state"}) /\ rows'[j].state = "active"
          /\ asked' = asked /\ disk' = disk /\ task'[j].at = "downloading"
      BY <1>4, StartRunDoes
    <2>2. rows'[j].dir = rows[j].dir
      BY <2>1 DEF Alters, Columns
    <2> QED BY <1>2, <2>1, <2>2 DEF Open, Alters
  <1>5. CASE DetectDir(j)
    <2>1. /\ task[j].at \in {"downloading", "detected"} /\ task'[j].at = "detected" /\ Alters(j, {"dir"})
          /\ rows'[j].dir \in DirsOf(j) /\ asked' = asked /\ disk' = disk
      BY <1>5, RunDoes
    <2>2. rows'[j].state = rows[j].state
      BY <2>1 DEF Alters, Columns
    <2> QED BY <1>2, <1>3, <2>1, <2>2 DEF Open, Alters
  <1>6. CASE FailRun(j) /\ task[j].at # "failed"
    <2>1. /\ task[j].at \in {"downloading", "detected"} /\ task'[j] = NoTask /\ Alters(j, {"state"})
          /\ rows'[j].state = "error" /\ asked' = asked /\ disk' = disk
      BY <1>6, RunDoes
    <2>2. rows'[j].dir = rows[j].dir
      BY <2>1 DEF Alters, Columns
    <2> QED BY <1>2, <1>3, <2>1, <2>2, Nothing DEF Open, Alters
  <1> QED BY <1>4, <1>5, <1>6 DEF Bystands

\* What a request knows outlasts what goes on beside it.
LEMMA BystandKnown ==
  ASSUME Typed, Stored, AtWork, UNCHANGED world, NEW j \in Jobs, Bystands(j), NEW c \in Clients, Knows(task[c], rows)
  PROVE  Knows(task[c], rows')
  <1>1. PICK tk : tk = task[c]
    OBVIOUS
  <1>2. /\ rows[j].state \in Open /\ rows'[j].state # "done" /\ \A k \in Jobs \ {j} : rows'[k] = rows[k]
    BY BystandDoes DEF Alters
  <1>3. \A seen, k : k \in Jobs /\ StillSo(seen, rows[k]) => StillSo(seen, rows'[k])
    BY <1>2 DEF StillSo
  <1>4. tk.at = "due" => tk.seen[1] = rows[tk.jobs[1]] /\ <<tk.jobs[1], tk.seen[1].state>> \in Rechecked
    BY <1>1 DEF Knows
  <1>5. tk.at = "due" => tk.seen[1].state \notin Open
    BY <1>4, WorldFacts DEF Typed, Open
  <1>6. tk.at = "due" => tk.jobs[1] \in Jobs \ {j}
    BY <1>1, <1>2, <1>4, <1>5, Members
  <1>7. tk.at = "due" => tk.seen[1] = rows'[tk.jobs[1]]
    BY <1>2, <1>4, <1>6
  <1>8. InRename(tk) => tk.jobs[1] \in Jobs
    BY <1>1, Members
  <1>9. tk.at = "reading" \/ InMerge(tk) => \A k \in DOMAIN tk.seen : tk.jobs[k] \in Jobs
    BY <1>1, Members
  <1> QED BY <1>1, <1>3, <1>4, <1>7, <1>8, <1>9 DEF Knows

\* Knowing after a step.
KnownNext ==
    /\ \A c \in Clients : Knows(task'[c], rows')
    /\ \A j \in Jobs : task'[j].at # "idle" => task'[j].seen # <<>> /\ task'[j].seen[1].dest = rows'[j].dest

\* It is the invariant of the next state.
LEMMA KnownThen ==
  ASSUME UNCHANGED world, KnownNext
  PROVE  Knowing'
  <1>1. UNCHANGED <<Clients, Jobs, NamesOf, Merges, Rechecked>>
    BY DEF Clients, Jobs, NamesOf, Merges, Rechecked
  <1>2. \A c \in Clients : Knows(task[c], rows)'
    BY <1>1 DEF KnownNext, Knows, InRename, InMerge, InThread, StillSo, Open
  <1>3. \A j \in Jobs : RunReads(j)'
    BY DEF KnownNext, RunReads
  <1> QED BY <1>1, <1>2, <1>3 DEF Knowing

\* After a step of a task that was busy or becomes so, the others know nothing.
LEMMA OnlyOneKnows ==
  ASSUME Typed, AtWork, ~Overlap, NEW t \in Tasks, Busy(t) \/ MayBegin, Proceeds(t),
         t \in Clients => Knows(task'[t], rows'),
         \A j \in Jobs : task'[j].at # "idle" => task'[j].seen # <<>> /\ task'[j].seen[1].dest = rows'[j].dest
  PROVE  KnownNext
  <1>1. ASSUME NEW c \in Clients, c # t
        PROVE  Knows(task'[c], rows')
    <2>1. c \in Tasks /\ task'[c] = task[c]
      BY <1>1, ClientFacts, OthersStand
    <2>2. task[c].at = "idle"
      BY <1>1, <2>1, OthersRest, Resters
    <2> QED BY <2>1, <2>2, NothingKnown
  <1> QED BY <1>1 DEF KnownNext

\* Runs stay aimed while a request leaves the dest columns alone.
LEMMA ReadsStay ==
  ASSUME Typed, Knowing, NEW c \in Clients, Proceeds(c), \A j \in Jobs : rows'[j].dest = rows[j].dest
  PROVE  \A j \in Jobs : task'[j].at # "idle" => task'[j].seen # <<>> /\ task'[j].seen[1].dest = rows'[j].dest
  <1>1. \A j \in Jobs : task'[j] = task[j]
    BY OthersStand, ClientFacts DEF Tasks
  <1> QED BY <1>1 DEF Knowing, RunReads

\* What goes on beside requests.
LEMMA BystandKnows ==
  ASSUME Typed, Stored, AtWork, Knowing, UNCHANGED world, NEW j \in Jobs, Bystands(j)
  PROVE  KnownNext
  <1>1. \A u \in Tasks \ {j} : task'[u] = task[u]
    BY BystandDoes
  <1>2. Alters(j, {"state", "dir"})
    BY BystandDoes
  <1>3. ASSUME NEW c \in Clients
        PROVE  Knows(task'[c], rows')
    BY <1>1, <1>3, BystandKnown, ClientFacts DEF Knowing
  <1>4. \A k \in Jobs : rows'[k].dest = rows[k].dest
    BY <1>2 DEF Alters, Columns
  <1>5. \A k \in Jobs \ {j} : task'[k] = task[k]
    BY <1>1 DEF Tasks
  <1>6. task'[j].at # "idle" => task'[j].seen # <<>> /\ task'[j].seen[1].dest = rows[j].dest
    <2>1. CASE StartRun(j)
      BY <2>1, StartRunDoes
    <2>2. CASE DetectDir(j)
      BY <2>2, RunDoes DEF Knowing, RunReads
    <2>3. CASE FailRun(j)
      BY <2>3, RunDoes, Nothing
    <2> QED BY <2>1, <2>2, <2>3 DEF Bystands
  <1> QED BY <1>3, <1>4, <1>5, <1>6 DEF KnownNext, Knowing, RunReads

\* The steps of a thread.
LEMMA ThreadKnows ==
  ASSUME Typed, Stored, AtWork, Knowing, ~Overlap, NEW t \in Tasks,
         ThreadStep(t)
  PROVE  KnownNext
  <1>1. PICK tk : tk = task[t]
    OBVIOUS
  <1>2. PICK q : q = task'[t]
    OBVIOUS
  <1>3. /\ tk.at \in {"thread", "moving"} /\ rows' = rows
        /\ \/ Raising(t, q)
           \/ /\ GoesOnAs(q, tk) /\ q.thread.then = tk.thread.then
              /\ q.at \in {"thread", "moving", tk.thread.then}
    BY <1>1, <1>2, ThreadDoes
  <1>4. Proceeds(t)
    BY ThreadSteps
  <1>5. Busy(t) /\ IsTaskOf(t, tk)
    BY <1>1, <1>3, InFields DEF Busy
  <1>6. ASSUME t \in Clients
        PROVE  Knows(q, rows')
    <2>1. t \notin Jobs /\ Knows(tk, rows)
      BY <1>1, <1>6, ClientFacts DEF Knowing
    <2>2. CASE q = NoTask
      BY <2>2, Nothing, NothingKnown
    <2>3. CASE GoesOnAs(q, tk) /\ q.thread.then = tk.thread.then /\ q.at \in {"thread", "moving", tk.thread.then}
      <3>1. tk.thread.then \in {"renamed", "gathering"}
        BY <1>3, <1>5 DEF IsTaskOf, IsThread
      <3>2. CASE tk.thread.then = "renamed"
        BY <1>3, <2>1, <2>3, <3>2 DEF Knows, InRename, InMerge, InThread, GoesOnAs
      <3>3. CASE tk.thread.then = "gathering"
        BY <1>3, <2>1, <2>3, <3>3 DEF Knows, InRename, InMerge, InThread, GoesOnAs
      <3> QED BY <3>1, <3>2, <3>3
    <2> QED BY <1>3, <2>1, <2>2, <2>3 DEF Raising
  <1>7. ASSUME NEW j \in Jobs, task'[j].at # "idle"
        PROVE  task'[j].seen # <<>> /\ task'[j].seen[1].dest = rows'[j].dest
    <2>1. CASE j = t
      <3>1. q.seen = tk.seen
        BY <1>1, <1>3, <2>1 DEF Raising, GoesOnAs
      <3> QED BY <1>1, <1>2, <1>3, <2>1, <3>1 DEF Knowing, RunReads
    <2>2. CASE j # t
      BY <1>3, <1>4, <1>7, <2>2, OthersStand DEF Knowing, RunReads, Tasks
    <2> QED BY <2>1, <2>2
  <1> QED BY <1>2, <1>4, <1>5, <1>6, <1>7, OnlyOneKnows

\* The requests that begin.
LEMMA BeginningKnows ==
  ASSUME Typed, AtWork, Knowing, ~Overlap, NEW c \in Clients,
         RenameRequested(c) \/ MergeRequested(c) \/ DueListed(c)
  PROVE  KnownNext
  <1>1. rows' = rows /\ MayBegin
    BY DEF RenameRequested, MergeRequested, DueListed
  <1>2. Proceeds(c)
    BY RenameRequestedStep, MergeRequestedStep, DueListedStep
  <1>3. PICK q : q = task'[c]
    OBVIOUS
  <1>4. CASE RenameRequested(c)
    <2>1. PICK j \in Jobs : q.at = "rename" /\ q.jobs = <<j>> /\ q.name \in NamesOf[j] /\ q.seen = <<rows[j]>>
      BY <1>3, <1>4, RenameRequestedDoes
    <2>2. rows[j].state = "done" => rows[j].state \notin Open
      BY DEF Open
    <2>3. StillSo(q.seen[1], rows'[q.jobs[1]])
      BY <1>1, <2>1, <2>2 DEF StillSo
    <2>4. Knows(q, rows')
      BY <2>1, <2>3 DEF Knows, InRename, InMerge, InThread
    <2> QED BY <1>1, <1>2, <1>3, <2>4, ReadsStay, OnlyOneKnows, ClientFacts
  <1>5. CASE MergeRequested(c)
    <2>1. PICK m \in Merges : q.at = "reading" /\ q.jobs = m.jobs /\ q.name = m.name /\ q.seen = <<>>
      BY <1>3, <1>5, MergeRequestedDoes
    <2>2. Knows(q, rows')
      BY <2>1 DEF Knows, InRename, InMerge, InThread
    <2> QED BY <1>1, <1>2, <1>3, <2>2, ReadsStay, OnlyOneKnows, ClientFacts
  <1>6. CASE DueListed(c)
    <2>1. PICK j \in Jobs : q.at = "due" /\ q.jobs = <<j>> /\ <<j, rows[j].state>> \in Rechecked /\ q.seen = <<rows[j]>>
      BY <1>3, <1>6, DueListedDoes
    <2>2. Knows(q, rows')
      BY <1>1, <2>1 DEF Knows, InRename, InMerge, InThread
    <2> QED BY <1>1, <1>2, <1>3, <2>2, ReadsStay, OnlyOneKnows, ClientFacts
  <1> QED BY <1>4, <1>5, <1>6

\* The requests that end.
LEMMA EndingKnows ==
  ASSUME Typed, AtWork, Knowing, ~Overlap, NEW c \in Clients,
         DeferRename(c) \/ WriteRenamed(c) \/ SetGroupName(c) \/ RequeueDue(c)
  PROVE  KnownNext
  <1>1. Busy(c) /\ task'[c] = NoTask
    BY DeferRenameDoes, WriteRenamedDoes, SetGroupNameDoes, RequeueDueDoes DEF Busy
  <1>2. Proceeds(c)
    BY DeferRenameStep, WriteRenamedStep, SetGroupNameStep, RequeueDueStep
  <1>3. Knows(task'[c], rows')
    BY <1>1, Nothing, NothingKnown
  <1>4. \A j \in Jobs : rows'[j].dest = rows[j].dest
    <2>1. CASE DeferRename(c)
      BY <2>1, DeferRenameDoes DEF Alters, Columns
    <2>2. CASE WriteRenamed(c)
      BY <2>2, WriteRenamedDoes DEF Alters, Columns
    <2>3. CASE SetGroupName(c)
      BY <2>3, SetGroupNameDoes DEF Columns
    <2>4. CASE RequeueDue(c)
      BY <2>4, RequeueDueDoes DEF Alters, Columns
    <2> QED BY <2>1, <2>2, <2>3, <2>4
  <1> QED BY <1>1, <1>2, <1>3, <1>4, ReadsStay, OnlyOneKnows, ClientFacts

\* A rename starts its thread.
LEMMA RenameNowKnows ==
  ASSUME Typed, AtWork, Knowing, ~Overlap, NEW c \in Clients, RenameNow(c)
  PROVE  KnownNext
  <1>1. PICK tk : tk = task[c]
    OBVIOUS
  <1>2. IsTaskOf(c, tk) /\ Knows(tk, rows) /\ Proceeds(c) /\ c \in Tasks
    BY <1>1, ClientFacts, InFields, RenameNowStep DEF Knowing
  <1>3. tk.at = "rename" /\ tk.seen[1].state \notin Open /\ rows' = rows
    BY <1>1 DEF RenameNow
  <1>4. \/ task'[c] = NoTask
        \/ \E a, b : task'[c] = Await(tk, Renaming(a, b, "renamed"))
        \/ \E a, b, s : task'[c] = Await(tk, Gathering(a, s, b, "renamed"))
    <2>1. PICK job : job = task[c].seen[1]
      OBVIOUS
    <2>2. PICK loose : loose = Existing(job.dest, rows[task[c].jobs[1]].files)
      OBVIOUS
    <2>3. PICK target : target = job.dest \o <<task[c].name>>
      OBVIOUS
    <2>4. \/ task'[c] = NoTask
          \/ task'[c] = Await(task[c], Renaming(OutputDir(job), target, "renamed"))
          \/ task'[c] = Await(task[c], Gathering(job.dest, loose, target, "renamed"))
      BY <2>1, <2>2, <2>3, RenameNowDoes
    <2> QED BY <1>1, <2>4
  <1>5. CASE task'[c] = NoTask
    BY <1>1, <1>2, <1>3, <1>5, Nothing, NothingKnown, ReadsStay, OnlyOneKnows DEF Busy
  <1>6. ASSUME NEW th, th.then = "renamed", task'[c] = Await(tk, th)
        PROVE  KnownNext
    <2>1. PICK q : q = Await(tk, th)
      OBVIOUS
    <2>2. q.at \in {"thread", "moving"} /\ q.thread = th /\ q.jobs = tk.jobs /\ q.name = tk.name /\ q.seen = tk.seen
      BY <1>2, <2>1 DEF Await, IsTaskOf, IsTask
    <2>3. Knows(q, rows')
      BY <1>2, <1>3, <1>6, <2>2 DEF Knows, InRename, InMerge, InThread
    <2>4. \A j \in Jobs : rows'[j].dest = rows[j].dest
      BY <1>3
    <2> QED BY <1>1, <1>2, <1>3, <1>6, <2>1, <2>3, <2>4, ReadsStay, OnlyOneKnows DEF Busy
  <1>7. \A a, b : Renaming(a, b, "renamed").then = "renamed"
    BY DEF Renaming, NoThread
  <1>8. \A a, b, s : Gathering(a, s, b, "renamed").then = "renamed"
    BY DEF Gathering, NoThread
  <1> QED BY <1>4, <1>5, <1>6, <1>7, <1>8

\* A merge reads a member.
LEMMA ReadMemberKnows ==
  ASSUME Typed, AtWork, Knowing, ~Overlap, NEW c \in Clients, ReadMember(c)
  PROVE  KnownNext
  <1>1. PICK tk : tk = task[c]
    OBVIOUS
  <1>2. PICK q : q = task'[c]
    OBVIOUS
  <1>3. Knows(tk, rows) /\ Proceeds(c) /\ c \in Tasks /\ tk.seen \in Seq(RowType) /\ Len(tk.seen) \in Nat
    BY <1>1, Members, ReadMemberStep DEF Knowing
  <1>4. PICK n : n = Len(tk.seen) + 1
    OBVIOUS
  <1>5. PICK row : row = rows[tk.jobs[n]]
    OBVIOUS
  <1>6. \A a, b : Merging(a, b, "gathering").then = "gathering"
    BY DEF Merging, NoThread
  <1>7. /\ tk.at = "reading" /\ rows' = rows
        /\ \/ q = NoTask
           \/ /\ q.jobs = tk.jobs /\ q.name = tk.name /\ q.seen = Append(tk.seen, row)
              /\ \/ q.at = "reading"
                 \/ q.at = "thread" /\ q.thread.then = "gathering"
    <2>1. PICK srcs : srcs = SourcesWith(tk, row)
      OBVIOUS
    <2>2. /\ tk.at = "reading" /\ rows' = rows
          /\ \/ task'[c] = NoTask
             \/ /\ task'[c].jobs = tk.jobs /\ task'[c].name = tk.name /\ task'[c].seen = Append(tk.seen, row)
                /\ \/ task'[c].at = "reading"
                   \/ /\ task'[c].at = "thread"
                      /\ task'[c].thread = Merging(srcs, task'[c].seen[1].dest \o <<tk.name>>, "gathering")
      BY <1>1, <1>4, <1>5, <2>1, ReadMemberDoes
    <2> QED BY <1>2, <1>6, <2>2
  <1>8. Busy(c) /\ \A j \in Jobs : rows'[j].dest = rows[j].dest
    BY <1>1, <1>7 DEF Busy
  <1>9. Knows(q, rows')
    <2>1. CASE q = NoTask
      BY <2>1, Nothing, NothingKnown
    <2>2. CASE q # NoTask
      <3>1. StillSo(row, row)
        BY DEF StillSo, Open
      <3>2. ASSUME NEW k \in DOMAIN q.seen
            PROVE  StillSo(q.seen[k], rows'[q.jobs[k]])
        <4>1. k \in 1..n /\ q.seen = Append(tk.seen, row)
          BY <1>3, <1>4, <1>7, <2>2, <3>2
        <4>2. CASE k = n
          <5>1. q.seen[k] = row
            BY <1>3, <1>4, <4>1, <4>2
          <5> QED BY <1>5, <1>7, <2>2, <3>1, <4>2, <5>1
        <4>3. CASE k # n
          <5>1. k \in DOMAIN tk.seen /\ q.seen[k] = tk.seen[k]
            BY <1>3, <1>4, <4>1, <4>3
          <5>2. StillSo(tk.seen[k], rows[tk.jobs[k]])
            BY <1>3, <1>7, <5>1 DEF Knows
          <5> QED BY <1>7, <2>2, <5>1, <5>2
        <4> QED BY <4>2, <4>3
      <3>3. \E m \in Merges : q.jobs = m.jobs /\ q.name = m.name
        BY <1>3, <1>7, <2>2 DEF Knows
      <3> QED BY <1>7, <2>2, <3>2, <3>3 DEF Knows, InRename, InMerge, InThread
    <2> QED BY <2>1, <2>2
  <1> QED BY <1>2, <1>3, <1>8, <1>9, ReadsStay, OnlyOneKnows

\* A merge gathers a member's files.
LEMMA GatherMemberKnows ==
  ASSUME Typed, AtWork, Knowing, ~Overlap, NEW c \in Clients, GatherMember(c)
  PROVE  KnownNext
  <1>1. PICK tk : tk = task[c]
    OBVIOUS
  <1>2. PICK q : q = task'[c]
    OBVIOUS
  <1>3. Knows(tk, rows) /\ Proceeds(c) /\ c \in Tasks
    BY <1>1, GatherMemberStep, ClientFacts DEF Knowing
  <1>4. PICK job : job = tk.seen[tk.i]
    OBVIOUS
  <1>5. PICK loose : loose = Existing(job.dest, rows[tk.jobs[tk.i]].files)
    OBVIOUS
  <1>6. \A a, b, s : Gathering(a, s, b, "gathering").then = "gathering"
    BY DEF Gathering, NoThread
  <1>7. /\ tk.at = "gathering" /\ rows' = rows /\ q.jobs = tk.jobs /\ q.name = tk.name /\ q.seen = tk.seen
        /\ q.at \in {"updating", "gathering"} \/ (q.at = "moving" /\ q.thread.then = "gathering")
    <2>1. /\ tk.at = "gathering" /\ rows' = rows /\ q.jobs = tk.jobs /\ q.name = tk.name /\ q.seen = tk.seen
          /\ \/ q.at \in {"updating", "gathering"}
             \/ q.at = "moving" /\ q.thread = Gathering(job.dest, loose, Target(tk), "gathering")
      BY <1>1, <1>2, <1>4, <1>5, GatherMemberDoes
    <2> QED BY <1>6, <2>1
  <1>8. Knows(q, rows')
    BY <1>3, <1>7 DEF Knows, InRename, InMerge, InThread
  <1>9. Busy(c)
    BY <1>1, <1>7 DEF Busy
  <1>10. \A j \in Jobs : rows'[j].dest = rows[j].dest
    BY <1>7
  <1> QED BY <1>2, <1>3, <1>8, <1>9, <1>10, ReadsStay, OnlyOneKnows

\* A merge writes a member; the members after it are as it has read them.
LEMMA UpdateMemberKnows ==
  ASSUME Typed, AtWork, Knowing, ~Overlap, NEW c \in Clients, UpdateMember(c)
  PROVE  KnownNext
  <1>1. PICK tk : tk = task[c]
    OBVIOUS
  <1>2. PICK q : q = task'[c]
    OBVIOUS
  <1>3. PICK j : j = tk.jobs[tk.i]
    OBVIOUS
  <1>4. Knows(tk, rows) /\ Proceeds(c) /\ c \in Tasks /\ IsTaskOf(c, tk) /\ tk.seen \in Seq(RowType) /\ tk.jobs \in Seq(Jobs)
    BY <1>1, UpdateMemberStep, ClientFacts, InFields DEF Knowing
  <1>5. /\ tk.at = "updating" /\ j \in Jobs /\ tk.i \in DOMAIN tk.jobs /\ tk.i \in DOMAIN tk.seen
        /\ q.jobs = tk.jobs /\ q.name = tk.name /\ q.seen = tk.seen /\ q.i = tk.i + 1
        /\ q.at = IF tk.i = Len(tk.jobs) THEN "naming" ELSE "updating"
        /\ \/ tk.seen[tk.i].state = "done" /\ Alters(j, {"group", "gname", "dir", "dest"})
           \/ tk.seen[tk.i].state # "done" /\ Alters(j, {"group", "gname", "rename_to"})
    BY <1>1, <1>2, <1>3, UpdateMemberDoes
  <1>6. Len(tk.seen) = Len(tk.jobs) /\ tk.i \in Nat
    BY <1>4, <1>5 DEF IsTaskOf, InMerge
  <1>7. PICK m \in Merges : tk.jobs = m.jobs /\ tk.name = m.name
    BY <1>4, <1>5 DEF Knows, InMerge
  <1>8. IsInjective(tk.jobs)
    BY <1>7, DirsAssumption DEF Typed, Merges
  <1>9. \A k \in Jobs \ {j} : rows'[k] = rows[k]
    BY <1>5 DEF Alters
  <1>10. ASSUME NEW k \in DOMAIN q.seen, k >= q.i
         PROVE  StillSo(q.seen[k], rows'[q.jobs[k]])
    <2>1. k \in DOMAIN tk.seen /\ k \in DOMAIN tk.jobs /\ k \in Nat /\ k # tk.i /\ ~(k < tk.i)
      BY <1>4, <1>5, <1>6, <1>10
    <2>2. tk.jobs[k] \in Jobs \ {j}
      BY <1>3, <1>4, <1>5, <1>8, <2>1 DEF IsInjective
    <2>3. StillSo(tk.seen[k], rows[tk.jobs[k]])
      BY <1>4, <1>5, <2>1 DEF Knows, InMerge
    <2> QED BY <1>5, <1>9, <2>2, <2>3
  <1>11. Knows(q, rows')
    <2>1. \A k \in DOMAIN q.seen : k < q.i \/ k >= q.i
      BY <1>4, <1>5, <1>6
    <2> QED BY <1>5, <1>7, <1>10, <2>1 DEF Knows, InRename, InMerge, InThread
  <1>12. ASSUME NEW k \in Jobs, task'[k].at # "idle"
         PROVE  task'[k].seen # <<>> /\ task'[k].seen[1].dest = rows'[k].dest
    <2>1. task'[k] = task[k]
      BY <1>4, <1>12, OthersStand, ClientFacts DEF Tasks
    <2>2. task[k].seen # <<>> /\ task[k].seen[1].dest = rows[k].dest
      BY <1>12, <2>1 DEF Knowing, RunReads
    <2>3. CASE k # j
      BY <1>9, <2>1, <2>2, <2>3
    <2>4. CASE k = j /\ tk.seen[tk.i].state = "done"
      <3>1. StillSo(tk.seen[tk.i], rows[j])
        BY <1>3, <1>4, <1>5, <1>6 DEF Knows, InMerge
      <3>2. rows[j].state = "done"
        BY <2>4, <3>1 DEF StillSo, Open
      <3>3. task[j].at = "idle"
        BY <1>5, <3>2 DEF AtWork, ActiveRuns, Idle
      <3> QED BY <1>12, <2>1, <2>4, <3>3
    <2>5. CASE k = j /\ tk.seen[tk.i].state # "done"
      <3>1. rows'[j].dest = rows[j].dest
        BY <1>5, <2>5 DEF Alters, Columns
      <3> QED BY <2>1, <2>2, <2>5, <3>1
    <2> QED BY <2>3, <2>4, <2>5
  <1> QED BY <1>1, <1>2, <1>4, <1>5, <1>11, <1>12, OnlyOneKnows DEF Busy

\* A run that has a result.
LEMMA RunKnows ==
  ASSUME Typed, Stored, AtWork, Knowing, ~Overlap, NEW j \in Jobs,
         \/ Downloaded(j) \/ LandFile(j) \/ RecordFiles(j) \/ ReadPending(j) \/ WriteApplied(j) \/ ClearPending(j)
         \/ Finish(j) \/ (FailRun(j) /\ task[j].at = "failed")
  PROVE  KnownNext
  <1>1. PICK tk : tk = task[j]
    OBVIOUS
  <1>2. PICK q : q = task'[j]
    OBVIOUS
  <1>3. Proceeds(j) /\ j \in Tasks /\ j \notin Clients
    BY RunStep, ReadPendingStep, RunFacts
  <1>4. /\ tk.at # "idle" /\ (q.seen = tk.seen \/ q = NoTask)
        /\ \A k \in Jobs : rows'[k].dest = rows[k].dest
        /\ Busy(j) \/ MayBegin
    <2>1. CASE Downloaded(j)
      BY <1>1, <1>2, <2>1, RunDoes
    <2>8. CASE LandFile(j)
      BY <1>1, <1>2, <2>8, RunDoes DEF Busy
    <2>2. CASE RecordFiles(j)
      BY <1>1, <1>2, <2>2, RunDoes DEF Alters, Columns, Busy
    <2>3. CASE ReadPending(j)
      <3>1. PICK job : job = rows[j]
        OBVIOUS
      <3>2. PICK base : base = tk.seen[1].dest
        OBVIOUS
      <3> QED BY <1>1, <1>2, <2>3, <3>1, <3>2, ReadPendingDoes DEF Busy
    <2>4. CASE WriteApplied(j)
      BY <1>1, <1>2, <2>4, RunDoes DEF Alters, Columns, Busy
    <2>5. CASE ClearPending(j)
      BY <1>1, <1>2, <2>5, RunDoes DEF Alters, Columns, Busy
    <2>6. CASE Finish(j)
      BY <1>1, <1>2, <2>6, RunDoes DEF Alters, Columns, Busy
    <2>7. CASE FailRun(j) /\ task[j].at = "failed"
      BY <1>1, <1>2, <2>7, RunDoes DEF Alters, Columns, Busy
    <2> QED BY <2>1, <2>2, <2>3, <2>4, <2>5, <2>6, <2>7, <2>8
  <1>5. ASSUME NEW k \in Jobs, task'[k].at # "idle"
        PROVE  task'[k].seen # <<>> /\ task'[k].seen[1].dest = rows'[k].dest
    <2>1. CASE k # j
      <3>1. task'[k] = task[k]
        BY <1>3, <2>1, OthersStand DEF Tasks
      <3> QED BY <1>4, <1>5, <3>1 DEF Knowing, RunReads
    <2>2. CASE k = j
      BY <1>1, <1>2, <1>4, <1>5, <2>2, Nothing DEF Knowing, RunReads
    <2> QED BY <2>1, <2>2
  <1> QED BY <1>3, <1>4, <1>5, OnlyOneKnows

\* A retry.
LEMMA RetryKnows ==
  ASSUME Typed, Knowing, ~Overlap, Retry
  PROVE  KnownNext
  <1>1. task' = task /\ MayBegin /\ \A j \in Jobs : rows'[j].dest = rows[j].dest
    BY RetryDoes DEF Alters, Columns
  <1>2. ASSUME NEW c \in Clients
        PROVE  task[c].at = "idle"
    BY <1>1, <1>2, ClientFacts, Resters DEF MayBegin, Quiet, Busy
  <1> QED BY <1>1, <1>2, NothingKnown DEF KnownNext, Knowing, RunReads

\* Every step.
LEMMA StepKnows ==
  ASSUME Typed, Stored, AtWork, Knowing, ~Overlap, Step, UNCHANGED world
  PROVE  KnownNext
  <1>1. ASSUME NEW t \in Tasks, ThreadStep(t)
        PROVE  KnownNext
    BY <1>1, ThreadKnows
  <1>2. ASSUME NEW c \in Clients,
               \/ RenameRequested(c) \/ DeferRename(c) \/ RenameNow(c) \/ WriteRenamed(c)
               \/ MergeRequested(c) \/ ReadMember(c) \/ GatherMember(c) \/ UpdateMember(c) \/ SetGroupName(c)
               \/ DueListed(c) \/ RequeueDue(c)
        PROVE  KnownNext
    BY <1>2, BeginningKnows, EndingKnows, RenameNowKnows, ReadMemberKnows, GatherMemberKnows, UpdateMemberKnows
  <1>3. ASSUME NEW j \in Jobs,
               \/ StartRun(j) \/ DetectDir(j) \/ Downloaded(j) \/ LandFile(j) \/ RecordFiles(j) \/ ReadPending(j)
               \/ WriteApplied(j) \/ ClearPending(j) \/ Finish(j) \/ FailRun(j)
        PROVE  KnownNext
    BY <1>3, BystandKnows, RunKnows DEF Bystands
  <1>4. CASE Retry
    BY <1>4, RetryKnows
  <1> QED BY <1>1, <1>2, <1>3, <1>4 DEF Step

\* Requests and ends of runs wait for each other, and the process has not died.
Calm == ~Overlap /\ ~crashed

\* All that holds of a calm state.
Settled == Typed /\ Stored /\ AtWork /\ Knowing

\* What a request asks for and has read holds until it is over.
LEMMA CalmSettled == Spec => [](Calm => Settled)
  <1>1. Init => Knowing
    <2> SUFFICES ASSUME Init PROVE Knowing
      OBVIOUS
    <2>1. \A t \in Tasks : task[t].at = "idle"
      BY InitTyped, Nothing DEF Init
    <2> QED BY <2>1, NothingKnown DEF Knowing, RunReads, Tasks
  <1>2. /\ Typed /\ Stored /\ (NoRecheck(world) => AtWork) /\ (Calm => Knowing) /\ [Next]_vars
        => (Calm => Knowing)'
    <2> SUFFICES ASSUME Typed, Stored, NoRecheck(world) => AtWork, Calm => Knowing, [Next]_vars, Calm'
                 PROVE  Knowing'
      OBVIOUS
    <2>1. UNCHANGED world /\ ~Overlap /\ NoRecheck(world)
      BY DEF Next, vars, Calm, Overlap, NoRecheck
    <2>2. CASE Step /\ UNCHANGED <<world, crashed>>
      BY <2>1, <2>2, StepKnows, KnownThen DEF Calm
    <2>3. CASE Crash
      BY <2>3 DEF Crash, Calm
    <2>4. CASE UNCHANGED vars
      <3>1. Knowing
        BY <2>1, <2>4 DEF Calm, vars
      <3>2. KnownNext
        BY <2>4, <3>1 DEF vars, KnownNext, Knowing, RunReads
      <3> QED BY <2>1, <3>2, KnownThen
    <2> QED BY <2>2, <2>3, <2>4 DEF Next
  <1>3. Typed /\ Stored /\ (NoRecheck(world) => AtWork) /\ (Calm => Knowing) => (Calm => Settled)
    BY DEF Calm, Settled, NoRecheck, Overlap
  <1> QED BY <1>1, <1>2, <1>3, Invariant, RowsFollowRuns, PTL DEF Spec

-----------------------------------------------------------------------------
(* Groups of all jobs                                                      *)

\* The run of a job applies its pending name.
Applying(tk) == tk.at \in {"thread", "moving", "renamed"}

\* A member that nobody has renamed alone: a finished one has the directory of its
\* group, any other is to have it.
Follows(row, tk) ==
    IF row.state = "done" \/ tk.at = "verdict" THEN row.dir = row.gname
    ELSE /\ row.rename_to = row.gname
         /\ Applying(tk) => tk.name = row.gname
         /\ tk.at = "clearing" => row.dir = row.gname

Member(row, tk, name) ==
    /\ row.group # 0 => row.gname # NoDir
    /\ row.group # 0 /\ name = NoDir => Follows(row, tk)
    /\ tk.at = "recorded" => row.files # {}

\* The members a merge has written have its name.
MergeWrote(tk, rs) ==
    /\ tk.at = "updating" => \A k \in DOMAIN tk.jobs : k < tk.i => rs[tk.jobs[k]].gname = tk.name
    /\ tk.at = "naming" => \A k \in DOMAIN tk.jobs : rs[tk.jobs[k]].gname = tk.name

Converging ==
    /\ \A j \in Jobs : Member(rows[j], task[j], asked[j])
    /\ \A c \in Clients : MergeWrote(task[c], rows)

MembersNext == \A j \in Jobs : Member(rows'[j], task'[j], asked'[j])
WroteNext == \A c \in Clients : MergeWrote(task'[c], rows')

\* It is the invariant of the next state.
LEMMA ConvergeThen ==
  ASSUME UNCHANGED world, MembersNext, WroteNext
  PROVE  Converging'
  <1>1. UNCHANGED <<Clients, Jobs>>
    BY DEF Clients, Jobs
  <1> QED BY <1>1 DEF Converging, MembersNext, WroteNext, Member, Follows, Applying, MergeWrote

\* A request that has written nothing yet.
LEMMA NothingWritten ==
  ASSUME NEW tk, tk.at \notin {"updating", "naming"}, NEW rs
  PROVE  MergeWrote(tk, rs)
  BY DEF MergeWrote

\* While one task is busy, and when none is, no other merge has written rows.
LEMMA OnlyOneWrites ==
  ASSUME Typed, AtWork, ~Overlap, NEW t \in Tasks, Busy(t) \/ MayBegin, Proceeds(t),
         t \in Clients => MergeWrote(task'[t], rows')
  PROVE  WroteNext
  <1>1. ASSUME NEW c \in Clients, c # t
        PROVE  MergeWrote(task'[c], rows')
    <2>1. c \in Tasks /\ task'[c] = task[c]
      BY <1>1, ClientFacts, OthersStand
    <2>2. task[c].at = "idle"
      BY <1>1, <2>1, OthersRest, Resters
    <2> QED BY <2>1, <2>2, NothingWritten
  <1> QED BY <1>1 DEF WroteNext

\* A step that writes no row but that of j, and whose task is not the run of another job.
LEMMA OneMember ==
  ASSUME Converging, NEW j \in Jobs, \A k \in Jobs \ {j} : rows'[k] = rows[k] /\ task'[k] = task[k] /\ asked'[k] = asked[k],
         Member(rows'[j], task'[j], asked'[j])
  PROVE  MembersNext
  BY DEF Converging, MembersNext

\* Requests that write no row.
LEMMA ReadsOnlyConverge ==
  ASSUME Typed, Stored, AtWork, Converging, ~Overlap, NEW c \in Clients,
         \/ RenameRequested(c) \/ RenameNow(c) \/ MergeRequested(c) \/ ReadMember(c) \/ GatherMember(c) \/ DueListed(c)
         \/ ThreadStep(c)
  PROVE  MembersNext /\ WroteNext
  <1>1. PICK tk : tk = task[c]
    OBVIOUS
  <1>2. PICK q : q = task'[c]
    OBVIOUS
  <1>3. c \in Tasks /\ c \notin Jobs /\ Proceeds(c)
    BY Zenon, ClientFacts, RenameRequestedStep, RenameNowStep, MergeRequestedStep, ReadMemberStep, GatherMemberStep,
       DueListedStep, ThreadSteps
  <1>4. rows' = rows /\ \A j \in Jobs : asked'[j] \in {asked[j]} \cup (NameSet \ {NoDir})
    <2>1. CASE ~RenameNow(c)
      BY <2>1 DEF RenameRequested, MergeRequested, ReadMember, GatherMember, DueListed,
                  ThreadStep, TestTarget, ListTree, ReplaceDir, NextSource, TestFile, MoveFile, EndSource
    <2>2. CASE RenameNow(c)
      <3>1. /\ rows' = rows
            /\ \/ asked' = asked
               \/ tk.name # NoDir /\ asked' = [asked EXCEPT ![tk.jobs[1]] = tk.name]
        BY <1>1, <2>2 DEF RenameNow
      <3>2. tk.name \in NameSet /\ asked \in [Jobs -> NameSet]
        BY <1>1, <1>3, InFields DEF IsTaskOf, Typed
      <3> QED BY <3>1, <3>2
    <2> QED BY <2>1, <2>2
  <1>5. \A j \in Jobs : task'[j] = task[j]
    BY <1>3, OthersStand DEF Tasks
  <1>6. MembersNext
    <2>1. ASSUME NEW j \in Jobs
          PROVE  Member(rows'[j], task'[j], asked'[j])
      <3>1. Member(rows[j], task[j], asked[j]) /\ rows'[j] = rows[j] /\ task'[j] = task[j]
        BY <1>4, <1>5 DEF Converging
      <3>2. asked'[j] = asked[j] \/ asked'[j] # NoDir
        BY <1>4
      <3> QED BY <3>1, <3>2 DEF Member
    <2> QED BY <2>1 DEF MembersNext
  <1>7. Busy(c) \/ MayBegin
    BY DEF RenameRequested, RenameNow, MergeRequested, ReadMember, GatherMember, DueListed,
           ThreadStep, TestTarget, ListTree, ReplaceDir, NextSource, TestFile, MoveFile, EndSource, Busy
  <1>8. q.at \in {"updating", "naming"} => q.at = "updating" /\ q.i = 1
    <2>1. CASE RenameRequested(c) \/ MergeRequested(c) \/ DueListed(c)
      BY <1>2, <2>1, RenameRequestedDoes, MergeRequestedDoes, DueListedDoes
    <2>2. CASE RenameNow(c)
      <3>1. PICK job : job = task[c].seen[1]
        OBVIOUS
      <3>2. PICK loose : loose = Existing(job.dest, rows[task[c].jobs[1]].files)
        OBVIOUS
      <3>3. PICK target : target = job.dest \o <<task[c].name>>
        BY Zenon
      <3>4. \/ task'[c] = NoTask
            \/ task'[c] = Await(task[c], Renaming(OutputDir(job), target, "renamed"))
            \/ task'[c] = Await(task[c], Gathering(job.dest, loose, target, "renamed"))
        BY <2>2, <3>1, <3>2, <3>3, RenameNowDoes
      <3>5. IsTask(task[c])
        BY <1>3, InFields
      <3> QED BY <1>2, <3>4, <3>5, Nothing DEF Await, IsTask
    <2>3. CASE ReadMember(c)
      BY <1>1, <1>2, <2>3, ReadMemberDoes, Nothing
    <2>4. CASE GatherMember(c)
      <3>1. PICK job : job = tk.seen[tk.i]
        OBVIOUS
      <3>2. PICK loose : loose = Existing(job.dest, rows[tk.jobs[tk.i]].files)
        OBVIOUS
      <3> QED BY <1>1, <1>2, <2>4, <3>1, <3>2, GatherMemberDoes
    <2>5. CASE ThreadStep(c)
      <3>1. tk.thread.then \in {"idle", "renamed", "gathering"}
        BY <1>1, <1>3, InFields DEF IsThread
      <3> QED BY <1>1, <1>2, <1>3, <2>5, <3>1, ThreadDoes, Nothing DEF Raising
    <2> QED BY <2>1, <2>2, <2>3, <2>4, <2>5
  <1>9. MergeWrote(q, rows')
    <2>1. q.jobs \in Seq(Jobs)
      BY <1>2, <1>3 DEF Proceeds, IsTaskOf, Typed
    <2> QED BY <1>8, <2>1 DEF MergeWrote
  <1> QED BY <1>2, <1>3, <1>6, <1>7, <1>9, OnlyOneWrites

\* What runs beside requests.
LEMMA BystandConverges ==
  ASSUME Typed, Stored, AtWork, Converging, NEW j \in Jobs, Bystands(j)
  PROVE  MembersNext /\ WroteNext
  <1>1. /\ rows[j].state \in Open /\ rows'[j].state \in {"active", "error"}
        /\ Alters(j, {"state", "dir"}) /\ asked' = asked /\ (\A u \in Tasks \ {j} : task'[u] = task[u])
        /\ task[j].at \in {"idle", "downloading", "detected"} /\ task'[j].at \in {"idle", "downloading", "detected"}
    BY BystandDoes
  <1>2. /\ \A k \in Jobs \ {j} : rows'[k] = rows[k]
        /\ rows'[j].group = rows[j].group /\ rows'[j].gname = rows[j].gname /\ rows'[j].rename_to = rows[j].rename_to
    BY <1>1 DEF Alters, Columns
  <1>3. Member(rows[j], task[j], asked[j])
    BY DEF Converging
  <1>4. Member(rows'[j], task'[j], asked'[j])
    BY <1>1, <1>2, <1>3 DEF Member, Follows, Applying, Open
  <1>5. \A k \in Jobs \ {j} : task'[k] = task[k]
    BY <1>1 DEF Tasks
  <1>6. MembersNext
    BY <1>1, <1>2, <1>4, <1>5, OneMember
  <1>7. ASSUME NEW c \in Clients
        PROVE  MergeWrote(task'[c], rows')
    <2>1. PICK tk : tk = task[c]
      OBVIOUS
    <2>2. task'[c] = tk /\ MergeWrote(tk, rows) /\ tk.jobs \in Seq(Jobs)
      BY <1>1, <1>7, <2>1, ClientFacts, InFields DEF Converging
    <2>3. \A k \in DOMAIN tk.jobs : rows'[tk.jobs[k]].gname = rows[tk.jobs[k]].gname
      BY <1>2, <2>2
    <2> QED BY <2>2, <2>3 DEF MergeWrote
  <1> QED BY <1>6, <1>7 DEF WroteNext

\* A rename writes the pending name, or the directory, of a job that its user names.
LEMMA RenameConverges ==
  ASSUME Typed, AtWork, Knowing, Converging, ~Overlap, Names(world), NEW c \in Clients, DeferRename(c) \/ WriteRenamed(c)
  PROVE  MembersNext /\ WroteNext
  <1>1. PICK tk : tk = task[c]
    OBVIOUS
  <1>2. PICK j : j = tk.jobs[1]
    OBVIOUS
  <1>3. c \in Tasks /\ c \notin Jobs /\ Proceeds(c) /\ Knows(tk, rows) /\ asked \in [Jobs -> NameSet]
    BY <1>1, ClientFacts, InFields, DeferRenameStep, WriteRenamedStep DEF Knowing
  <1>4. /\ j \in Jobs /\ tk.at \in {"rename", "renamed"} /\ Alters(j, {"rename_to", "dir"})
        /\ asked' = [asked EXCEPT ![j] = tk.name] /\ task'[c] = NoTask
    <2>1. CASE DeferRename(c)
      BY <1>1, <1>2, <2>1, DeferRenameDoes DEF Alters
    <2>2. CASE WriteRenamed(c)
      BY <1>1, <1>2, <2>2, WriteRenamedDoes DEF Alters
    <2> QED BY <2>1, <2>2
  <1>5. tk.name # NoDir
    BY <1>2, <1>3, <1>4 DEF Knows, InRename, Names, NamesOf, Jobs
  <1>6. /\ rows'[j].group = rows[j].group /\ rows'[j].gname = rows[j].gname /\ rows'[j].files = rows[j].files
        /\ \A k \in Jobs \ {j} : rows'[k] = rows[k] /\ asked'[k] = asked[k]
        /\ asked'[j] = tk.name
    BY <1>3, <1>4 DEF Alters, Columns
  <1>7. \A k \in Jobs : task'[k] = task[k]
    BY <1>3, OthersStand DEF Tasks
  <1>8. Member(rows[j], task[j], asked[j])
    BY <1>4 DEF Converging
  <1>9. Member(rows'[j], task'[j], asked'[j])
    BY <1>4, <1>5, <1>6, <1>7, <1>8 DEF Member
  <1>10. MembersNext
    BY <1>4, <1>6, <1>7, <1>9, OneMember
  <1>11. Busy(c)
    BY <1>1, <1>4 DEF Busy
  <1>12. MergeWrote(task'[c], rows')
    BY <1>4, Nothing, NothingWritten
  <1> QED BY <1>3, <1>10, <1>11, <1>12, OnlyOneWrites

\* A merge writes a member.
LEMMA UpdateMemberConverges ==
  ASSUME Typed, AtWork, Knowing, Converging, ~Overlap, Names(world), NEW c \in Clients, UpdateMember(c)
  PROVE  MembersNext /\ WroteNext
  <1>1. PICK tk : tk = task[c]
    OBVIOUS
  <1>2. PICK q : q = task'[c]
    OBVIOUS
  <1>3. PICK j : j = tk.jobs[tk.i]
    OBVIOUS
  <1>4. /\ Knows(tk, rows) /\ Proceeds(c) /\ c \in Tasks /\ c \notin Jobs /\ IsTaskOf(c, tk)
        /\ tk.jobs \in Seq(Jobs) /\ MergeWrote(tk, rows)
    BY <1>1, UpdateMemberStep, ClientFacts, InFields DEF Knowing, Converging
  <1>5. /\ tk.at = "updating" /\ asked' = asked /\ j \in Jobs /\ tk.i \in DOMAIN tk.jobs /\ tk.i \in DOMAIN tk.seen
        /\ rows'[j].gname = tk.name
        /\ q.jobs = tk.jobs /\ q.name = tk.name /\ q.i = tk.i + 1
        /\ q.at = IF tk.i = Len(tk.jobs) THEN "naming" ELSE "updating"
        /\ \/ tk.seen[tk.i].state = "done" /\ Alters(j, {"group", "gname", "dir", "dest"}) /\ rows'[j].dir = tk.name
           \/ tk.seen[tk.i].state # "done" /\ Alters(j, {"group", "gname", "rename_to"}) /\ rows'[j].rename_to = tk.name
    BY <1>1, <1>2, <1>3, UpdateMemberDoes
  <1>6. tk.name # NoDir
    BY <1>4, <1>5 DEF Knows, InMerge, Names, Merges
  <1>7. StillSo(tk.seen[tk.i], rows[j])
    BY <1>3, <1>4, <1>5 DEF Knows, InMerge, IsTaskOf
  <1>8. task[j].at \in {"idle", "downloading", "detected"} /\ task'[j] = task[j]
    BY <1>1, <1>4, <1>5, OthersRest, OthersStand DEF Busy, Tasks
  <1>9. \A k \in Jobs \ {j} : rows'[k] = rows[k]
    BY <1>5 DEF Alters
  <1>10. rows'[j].state = rows[j].state
    BY <1>5 DEF Alters, Columns
  <1>11. (rows[j].state = "done") = (tk.seen[tk.i].state = "done")
    <2>1. tk.seen[tk.i].state \in Open => rows[j].state # "done" /\ tk.seen[tk.i].state # "done"
      BY <1>7 DEF StillSo, Open
    <2>2. tk.seen[tk.i].state \notin Open => rows[j] = tk.seen[tk.i]
      BY <1>7 DEF StillSo
    <2> QED BY <2>1, <2>2
  <1>12. Follows(rows'[j], task'[j])
    BY <1>5, <1>8, <1>10, <1>11 DEF Follows, Applying
  <1>13. Member(rows'[j], task'[j], asked'[j])
    BY <1>5, <1>6, <1>8, <1>12 DEF Member
  <1>14. \A k \in Jobs : task'[k] = task[k]
    BY <1>4, OthersStand DEF Tasks
  <1>15. MembersNext
    BY <1>5, <1>9, <1>13, <1>14, OneMember
  <1>16. \A k \in DOMAIN tk.jobs : k < tk.i + 1 => rows'[tk.jobs[k]].gname = tk.name
    <2>1. Len(tk.jobs) \in Nat /\ tk.i \in Nat
      BY <1>4, <1>5
    <2>2. ASSUME NEW k \in DOMAIN tk.jobs, k < tk.i
          PROVE  rows'[tk.jobs[k]].gname = tk.name
      BY <1>4, <1>5, <1>9, <2>2 DEF MergeWrote
    <2>3. \A k \in DOMAIN tk.jobs : k < tk.i + 1 => k < tk.i \/ k = tk.i
      BY <1>4, <2>1
    <2> QED BY <1>3, <1>5, <2>2, <2>3
  <1>17. MergeWrote(q, rows')
    <2>1. tk.i = Len(tk.jobs) => \A k \in DOMAIN tk.jobs : k < tk.i + 1
      BY <1>4
    <2> QED BY <1>5, <1>16, <2>1 DEF MergeWrote
  <1> QED BY <1>1, <1>2, <1>4, <1>5, <1>15, <1>17, OnlyOneWrites DEF Busy

\* When every merge names all jobs, its last update names no row anew.
LEMMA SetGroupNameConverges ==
  ASSUME Typed, AtWork, Knowing, Converging, ~Overlap, MergedWhole(world), NEW c \in Clients, SetGroupName(c)
  PROVE  MembersNext /\ WroteNext
  <1>1. PICK tk : tk = task[c]
    OBVIOUS
  <1>2. Knows(tk, rows) /\ Proceeds(c) /\ c \in Tasks /\ c \notin Jobs /\ tk.jobs \in Seq(Jobs) /\ MergeWrote(tk, rows)
    BY <1>1, SetGroupNameStep, ClientFacts, InFields DEF Knowing, Converging
  <1>3. /\ tk.at = "naming" /\ asked' = asked /\ task'[c] = NoTask
        /\ \A j \in Jobs : /\ rows'[j].gname \in {rows[j].gname, tk.name}
                           /\ \A f \in Columns \ {"gname"} : rows'[j][f] = rows[j][f]
    BY <1>1, SetGroupNameDoes
  <1>4. PICK m \in Merges : tk.jobs = m.jobs
    BY <1>2, <1>3 DEF Knows, InMerge
  <1>5. \A j \in Jobs : \E k \in DOMAIN tk.jobs : tk.jobs[k] = j
    BY <1>4 DEF MergedWhole, Merges, Jobs, Range
  <1>6. \A j \in Jobs : rows[j].gname = tk.name
    BY <1>2, <1>3, <1>5 DEF MergeWrote
  <1>7. \A j \in Jobs : task'[j] = task[j]
    BY <1>2, OthersStand DEF Tasks
  <1>8. ASSUME NEW j \in Jobs
        PROVE  Member(rows'[j], task'[j], asked'[j])
    <2>1. /\ rows'[j].gname = rows[j].gname /\ rows'[j].group = rows[j].group /\ rows'[j].dir = rows[j].dir
          /\ rows'[j].rename_to = rows[j].rename_to /\ rows'[j].state = rows[j].state
          /\ rows'[j].files = rows[j].files
      BY <1>3, <1>6, <1>8 DEF Columns
    <2>2. Member(rows[j], task[j], asked[j])
      BY <1>8 DEF Converging
    <2> QED BY <1>3, <1>7, <2>1, <2>2 DEF Member, Follows
  <1> QED BY <1>1, <1>2, <1>3, <1>8, Nothing, NothingWritten, OnlyOneWrites DEF MembersNext, Busy

\* A recheck asks for the directory the job has.
LEMMA RequeueConverges ==
  ASSUME Typed, AtWork, Knowing, Converging, ~Overlap, MergedWhole(world), NEW c \in Clients, RequeueDue(c)
  PROVE  MembersNext /\ WroteNext
  <1>1. PICK tk : tk = task[c]
    OBVIOUS
  <1>2. PICK j : j = tk.jobs[1]
    OBVIOUS
  <1>3. Knows(tk, rows) /\ Proceeds(c) /\ c \in Tasks /\ c \notin Jobs
    BY <1>1, RequeueDueStep, ClientFacts DEF Knowing
  <1>4. /\ tk.at = "due" /\ j \in Jobs /\ Alters(j, {"state", "rename_to"})
        /\ rows'[j].state = "queued" /\ rows'[j].rename_to = tk.seen[1].dir
        /\ asked' = asked /\ task'[c] = NoTask
    BY <1>1, <1>2, RequeueDueDoes
  <1>5. tk.seen[1] = rows[j] /\ <<j, rows[j].state>> \in Rechecked
    BY <1>2, <1>3, <1>4 DEF Knows
  <1>6. rows[j].state = "done"
    BY <1>4, <1>5, WorldFacts DEF Typed, MergedWhole, Rechecked, Jobs
  <1>7. task[j].at = "idle"
    BY <1>4, <1>6 DEF AtWork, ActiveRuns, Idle
  <1>8. \A k \in Jobs : task'[k] = task[k]
    BY <1>3, OthersStand DEF Tasks
  <1>9. /\ rows'[j].group = rows[j].group /\ rows'[j].gname = rows[j].gname
        /\ \A k \in Jobs \ {j} : rows'[k] = rows[k]
    BY <1>4 DEF Alters, Columns
  <1>10. Member(rows[j], task[j], asked[j])
    BY <1>4 DEF Converging
  <1>11. Member(rows'[j], task'[j], asked'[j])
    BY <1>4, <1>5, <1>6, <1>7, <1>8, <1>9, <1>10 DEF Member, Follows, Applying
  <1>12. MembersNext
    BY <1>4, <1>8, <1>9, <1>11, OneMember
  <1> QED BY <1>1, <1>3, <1>4, <1>12, Nothing, NothingWritten, OnlyOneWrites DEF Busy

\* A retried job has failed, and its name is still to be applied.
LEMMA RetryConverges ==
  ASSUME Typed, AtWork, Converging, ~Overlap, MergedWhole(world), Retry
  PROVE  MembersNext /\ WroteNext
  <1>1. /\ MayBegin /\ asked' = asked /\ task' = task
    BY RetryDoes
  <1>2. PICK j \in Jobs : /\ <<j, rows[j].state>> \in Retried /\ rows[j].state \in {"done", "error"}
                          /\ Alters(j, {"state"}) /\ rows'[j].state = "queued"
    BY RetryDoes
  <1>3. rows[j].state = "error"
    BY <1>2 DEF MergedWhole, Retried, Jobs
  <1>4. task[j].at = "idle"
    BY <1>3 DEF AtWork, ActiveRuns, Idle
  <1>5. /\ rows'[j].group = rows[j].group /\ rows'[j].gname = rows[j].gname
        /\ rows'[j].rename_to = rows[j].rename_to
        /\ \A k \in Jobs \ {j} : rows'[k] = rows[k]
    BY <1>2 DEF Alters, Columns
  <1>6. Member(rows[j], task[j], asked[j])
    BY DEF Converging
  <1>7. Member(rows'[j], task'[j], asked'[j])
    BY <1>1, <1>2, <1>3, <1>4, <1>5, <1>6 DEF Member, Follows, Applying
  <1>8. \A c \in Clients : task[c].at = "idle"
    BY <1>1, ClientFacts, Resters DEF MayBegin, Quiet, Busy
  <1> QED BY <1>1, <1>5, <1>7, <1>8, OneMember, NothingWritten DEF WroteNext

\* The files of a job that has some.
LEMMA FilesComeDown ==
  ASSUME NEW j \in Jobs, FilesOf[j] # {}
  PROVE  Downloads(j) # {}
  BY DEF Downloads

\* The run of a job, and its thread: what waits is applied.
LEMMA RunConverges ==
  ASSUME Typed, Stored, AtWork, Knowing, Converging, ~Overlap, MergedWhole(world), NEW j \in Jobs,
         \/ Downloaded(j) \/ LandFile(j) \/ RecordFiles(j) \/ ReadPending(j) \/ WriteApplied(j) \/ ClearPending(j)
         \/ Finish(j) \/ (FailRun(j) /\ task[j].at = "failed")
         \/ ThreadStep(j)
  PROVE  MembersNext /\ WroteNext
  <1>1. PICK tk : tk = task[j]
    OBVIOUS
  <1>2. PICK q : q = task'[j]
    OBVIOUS
  <1>3. Proceeds(j) /\ j \in Tasks /\ j \notin Clients /\ IsTaskOf(j, tk)
    BY <1>1, RunStep, ReadPendingStep, RunFacts, ThreadSteps
  <1>4. Member(rows[j], tk, asked[j])
    BY <1>1 DEF Converging
  <1>5. tk.at # "idle" => rows[j].state # "done"
    BY <1>1 DEF AtWork, ActiveRuns, Idle
  <1>6. /\ Busy(j) \/ MayBegin
        /\ asked' = asked /\ \A k \in Jobs \ {j} : rows'[k] = rows[k]
        /\ Member(rows'[j], q, asked[j])
    <2>1. CASE Downloaded(j)
      <3>1. MayBegin /\ q.at = "landing" /\ rows' = rows /\ asked' = asked /\ tk.at \in {"downloading", "detected"}
        BY <1>1, <1>2, <2>1, RunDoes
      <3> QED BY <1>1, <1>4, <1>5, <3>1 DEF Member, Follows, Applying
    <2>9. CASE LandFile(j)
      <3>1. tk.at = "landing" /\ q.at = "landing" /\ rows' = rows /\ asked' = asked
        BY <1>1, <1>2, <2>9, RunDoes
      <3> QED BY <1>1, <1>4, <1>5, <3>1 DEF Member, Follows, Applying, Busy
    <2>2. CASE RecordFiles(j)
      <3>1. /\ tk.at = "landing" /\ q.at = "recorded" /\ Alters(j, {"files"})
            /\ rows'[j].files = Downloads(j) /\ asked' = asked
        BY <1>1, <1>2, <2>2, RunDoes
      <3>2. FilesOf[j] # {}
        BY DEF MergedWhole, Jobs, FilesOf
      <3>3. Downloads(j) # {}
        BY <3>2, FilesComeDown
      <3> QED BY <1>1, <1>4, <1>5, <3>1, <3>3 DEF Member, Follows, Applying, Alters, Columns, Busy
    <2>3. CASE ReadPending(j)
      <3>1. PICK job : job = rows[j]
        OBVIOUS
      <3>2. PICK base : base = tk.seen[1].dest
        OBVIOUS
      <3>3. /\ tk.at = "recorded" /\ rows' = rows /\ asked' = asked
            /\ \/ job.rename_to = NoDir /\ q.at = "verdict"
               \/ q.at = "thread" /\ q.name = job.rename_to
               \/ q.at = "moving" /\ q.name = job.rename_to
               \/ /\ q.at = "clearing"
                  /\ \/ job.rename_to = job.dir
                     \/ ~(job.dir # NoDir /\ IsDir(disk, base \o <<job.dir>>)) /\ job.files = {}
        BY <1>1, <1>2, <2>3, <3>1, <3>2, ReadPendingDoes
      <3>4. rows'[j] = job
        BY <3>1, <3>3
      <3>5. Member(job, q, asked[j])
        BY <1>4, <1>5, <3>1, <3>3 DEF Member, Follows, Applying
      <3> QED BY <1>1, <3>3, <3>4, <3>5 DEF Busy
    <2>4. CASE WriteApplied(j)
      <3>1. /\ tk.at = "renamed" /\ q.at = "verdict" /\ Alters(j, {"dir", "rename_to"})
            /\ rows'[j].dir = tk.name /\ asked' = asked
        BY <1>1, <1>2, <2>4, RunDoes
      <3> QED BY <1>1, <1>4, <1>5, <3>1 DEF Member, Follows, Applying, Alters, Columns, Busy
    <2>5. CASE ClearPending(j)
      <3>1. /\ tk.at = "clearing" /\ q.at = "verdict" /\ Alters(j, {"rename_to"}) /\ asked' = asked
        BY <1>1, <1>2, <2>5, RunDoes
      <3> QED BY <1>1, <1>4, <1>5, <3>1 DEF Member, Follows, Applying, Alters, Columns, Busy
    <2>6. CASE Finish(j)
      <3>1. /\ tk.at = "verdict" /\ q = NoTask /\ Alters(j, {"state"}) /\ rows'[j].state = "done" /\ asked' = asked
        BY <1>1, <1>2, <2>6, RunDoes
      <3> QED BY <1>1, <1>4, <3>1, Nothing DEF Member, Follows, Alters, Columns, Busy
    <2>7. CASE FailRun(j) /\ task[j].at = "failed"
      <3>1. /\ tk.at = "failed" /\ q = NoTask /\ Alters(j, {"state"}) /\ rows'[j].state = "error" /\ asked' = asked
        BY <1>1, <1>2, <2>7, RunDoes
      <3> QED BY <1>1, <1>4, <1>5, <3>1, Nothing DEF Member, Follows, Applying, Alters, Columns, Busy
    <2>8. CASE ThreadStep(j)
      <3>1. /\ tk.at \in {"thread", "moving"} /\ rows' = rows /\ asked' = asked
            /\ \/ q.at = "failed"
               \/ q.name = tk.name /\ q.at \in {"thread", "moving", tk.thread.then}
        BY <1>1, <1>2, <1>3, <2>8, ThreadDoes DEF Raising, GoesOnAs
      <3>2. tk.thread.then = "renamed"
        BY <1>3, <3>1 DEF IsTaskOf, InMerge, InThread, IsThread
      <3> QED BY <1>1, <1>4, <1>5, <3>1, <3>2 DEF Member, Follows, Applying, Busy
    <2> QED BY <2>1, <2>2, <2>3, <2>4, <2>5, <2>6, <2>7, <2>8, <2>9
  <1>7. \A k \in Jobs \ {j} : task'[k] = task[k]
    BY <1>3, OthersStand DEF Tasks
  <1>8. MembersNext
    BY <1>2, <1>6, <1>7, OneMember
  <1> QED BY <1>3, <1>6, <1>8, OnlyOneWrites

\* The worlds in which groups are of all jobs.
Whole == MergedWhole(world) /\ Names(world)

\* Every step.
LEMMA StepConverges ==
  ASSUME Settled, Converging, ~Overlap, Whole, Step, UNCHANGED world
  PROVE  MembersNext /\ WroteNext
  <1>1. /\ Typed /\ Stored /\ AtWork /\ Knowing /\ MergedWhole(world) /\ Names(world)
        /\ \A c \in Clients : c \in Tasks
    BY ClientFacts DEF Settled, Whole
  <1>2. ASSUME NEW t \in Tasks, ThreadStep(t)
        PROVE  MembersNext /\ WroteNext
    BY <1>1, <1>2, RunConverges, ReadsOnlyConverge DEF Tasks
  <1>3. ASSUME NEW c \in Clients,
               \/ RenameRequested(c) \/ DeferRename(c) \/ RenameNow(c) \/ WriteRenamed(c)
               \/ MergeRequested(c) \/ ReadMember(c) \/ GatherMember(c) \/ UpdateMember(c) \/ SetGroupName(c)
               \/ DueListed(c) \/ RequeueDue(c)
        PROVE  MembersNext /\ WroteNext
    BY <1>1, <1>3, ReadsOnlyConverge, RenameConverges, UpdateMemberConverges, SetGroupNameConverges, RequeueConverges
  <1>4. ASSUME NEW j \in Jobs,
               \/ StartRun(j) \/ DetectDir(j) \/ Downloaded(j) \/ LandFile(j) \/ RecordFiles(j) \/ ReadPending(j)
               \/ WriteApplied(j) \/ ClearPending(j) \/ Finish(j) \/ FailRun(j)
        PROVE  MembersNext /\ WroteNext
    BY <1>1, <1>4, BystandConverges, RunConverges DEF Bystands
  <1>5. CASE Retry
    BY <1>1, <1>5, RetryConverges
  <1> QED BY <1>2, <1>3, <1>4, <1>5 DEF Step

\* Members follow their groups.
LEMMA CalmConverging == Spec => [](Calm /\ Whole => Converging)
  <1>1. Init => Converging
    <2> SUFFICES ASSUME Init PROVE Converging
      OBVIOUS
    <2>1. \A t \in Tasks : task[t].at = "idle"
      BY InitTyped, Nothing DEF Init
    <2>2. \A j \in Jobs : rows[j].group = 0
      BY DEF Init, NewRow
    <2> QED BY <2>1, <2>2, NothingWritten DEF Converging, Member, Tasks
  <1>2. /\ (Calm => Settled) /\ (Calm /\ Whole => Converging) /\ [Next]_vars
        => (Calm /\ Whole => Converging)'
    <2> SUFFICES ASSUME Calm => Settled, Calm /\ Whole => Converging, [Next]_vars, Calm', Whole'
                 PROVE  Converging'
      OBVIOUS
    <2>1. UNCHANGED world
      BY DEF Next, vars
    <2>2. ~Overlap /\ Whole
      BY <2>1 DEF Calm, Overlap, Whole
    <2>3. CASE Step /\ UNCHANGED <<world, crashed>>
      BY <2>1, <2>2, <2>3, StepConverges, ConvergeThen DEF Calm
    <2>4. CASE Crash
      BY <2>4 DEF Crash, Calm
    <2>5. CASE UNCHANGED vars
      <3>1. Converging
        BY <2>2, <2>5 DEF Calm, vars
      <3>2. MembersNext /\ WroteNext
        BY <2>5, <3>1 DEF vars, Converging, MembersNext, WroteNext
      <3> QED BY <2>1, <3>2, ConvergeThen
    <2> QED BY <2>3, <2>4, <2>5 DEF Next
  <1> QED BY <1>1, <1>2, CalmSettled, PTL DEF Spec

\* GroupsConverge: when every merge names all jobs, the finished members of a group are
\* in one directory, the one with the name of the group, whether they had finished
\* when they were merged, were queued or were being downloaded, and whatever
\* retries and rechecks followed.
THEOREM MembersShareADirectory ==
  Spec => [](MergedWhole(world) /\ Names(world) => GroupsConverge)
  <1>1. /\ Typed /\ (Calm => Settled) /\ (Calm /\ Whole => Converging) /\ GroupsNamed
        => (MergedWhole(world) /\ Names(world) => GroupsConverge)
    <2> SUFFICES ASSUME Typed, Calm /\ Whole => Converging, GroupsNamed, MergedWhole(world), Names(world), Undisturbed,
                        NEW j \in Done, NEW k \in Done, SameGroup(j, k), asked[j] = NoDir, asked[k] = NoDir
                 PROVE  OutputDir(rows[j]) = OutputDir(rows[k]) /\ rows[j].dir = rows[j].gname
      BY DEF GroupsConverge
    <2>1. Calm /\ Whole
      BY DEF Undisturbed, Calm, Whole
    <2>2. \A c \in Clients : Idle(c)
      BY ClientFacts, Resters DEF Undisturbed, Quiet, Busy, Idle
    <2>3. rows[j].gname = rows[k].gname
      BY <2>1, <2>2 DEF GroupsNamed, Calm, Done
    <2>4. rows[j].dir = rows[j].gname /\ rows[k].dir = rows[k].gname
      BY <2>1 DEF Converging, Member, Follows, Done, SameGroup
    <2>5. rows[j] \in RowType /\ rows[k] \in RowType
      BY DEF Typed, Done
    <2>6. rows[j].dest = rows[k].dest
      BY <2>5, RowFacts DEF MergedWhole, DestOf
    <2> QED BY <2>3, <2>4, <2>6 DEF OutputDir
  <1> QED BY <1>1, Invariant, CalmSettled, CalmConverging, GroupsHaveOneName, PTL
=============================================================================
