---------------------------- MODULE OutputRowsProofs ----------------------------
(***************************************************************************)
(* Theorems of OutputDirs about what the rows say, beyond those of         *)
(* OutputDirsProofs.                                                       *)
(*                                                                         *)
(* RowsSayWhere: alone at work, the files of a finished job are below the  *)
(* directory of its row, or a thread is taking them there whose end writes *)
(* the row, because no other thread empties or fills its directories.      *)
(*                                                                         *)
(* RenamesAreHonoured: alone at work, the name a user gave last is the     *)
(* directory of the row, the one its thread is taking the files to, or the *)
(* pending one that the end of the run applies.                            *)
(***************************************************************************)
EXTENDS OutputDirsProofs

-----------------------------------------------------------------------------
(* No thread raises                                                        *)

\* Where the next file goes.
MovesTo(th, d) ==
    LET dst == In(th.to, NextFile(th)) IN IF th.mode = "aside" THEN FreeTarget(d, dst) ELSE dst

\* What a thread is to move is there, and what it has found of the target holds.
Sure(tk, d) ==
    /\ tk.at = "moving" /\ tk.thread.mode # "gather" => \A rel \in tk.thread.todo : In(tk.thread.from, rel) \in DOMAIN d
    /\ tk.at = "moving" /\ tk.thread.goal # <<>> =>
          /\ In(tk.thread.from, NextFile(tk.thread)) \in DOMAIN d
          /\ tk.thread.mode = "over" \/ tk.thread.goal[1] = MovesTo(tk.thread, d)
    /\ tk.at = "thread" /\ tk.thread.mode \in {"rename", "over", "whole"} => IsDir(d, tk.thread.from)
    /\ tk.at = "thread" /\ tk.thread.mode = "whole" => ~IsDir(d, tk.thread.to)
    /\ tk.at # "failed"

\* The members a merge has written are in a group.
Grouped(tk, rs) ==
    /\ tk.at = "updating" => \A k \in DOMAIN tk.jobs : k < tk.i => rs[tk.jobs[k]].group # 0
    /\ tk.at = "naming" => \A k \in DOMAIN tk.jobs : rs[tk.jobs[k]].group # 0

Sound == (\A t \in Tasks : Sure(task[t], disk)) /\ (\A c \in Clients : Grouped(task[c], rows))
SureNext == \A t \in Tasks : Sure(task'[t], disk')
GroupedNext == \A c \in Clients : Grouped(task'[c], rows')

\* It is the invariant of the next state.
LEMMA SoundThen ==
  ASSUME UNCHANGED world, SureNext, GroupedNext
  PROVE  Sound'
  <1>1. UNCHANGED <<Clients, Tasks>>
    BY DEF Clients, Jobs, Tasks
  <1>2. \A t \in Tasks : Sure(task[t], disk)'
    BY DEF SureNext, Sure, IsDir, Under, MovesTo, NextFile, FreeTarget
  <1>3. \A c \in Clients : Grouped(task[c], rows)'
    BY DEF GroupedNext, Grouped
  <1> QED BY <1>1, <1>2, <1>3 DEF Sound

\* A task that is about to move nothing.
LEMMA SurelyNothing ==
  ASSUME NEW tk, tk.at \notin {"moving", "thread", "failed"}, NEW d
  PROVE  Sure(tk, d)
  BY DEF Sure

\* While one task is busy, and when none is, the others move nothing and write nothing.
LEMMA OnlyOneMoves ==
  ASSUME Typed, AtWork, ~Overlap, NEW t \in Tasks, Busy(t) \/ MayBegin, Proceeds(t),
         Sure(task'[t], disk'), t \in Clients => Grouped(task'[t], rows')
  PROVE  SureNext /\ GroupedNext
  <1>1. ASSUME NEW u \in Tasks, u # t
        PROVE  task'[u].at \in {"idle", "downloading", "detected"}
    <2>1. task'[u] = task[u]
      BY <1>1, OthersStand
    <2>2. ~Busy(u)
      BY <1>1, OthersRest
    <2> QED BY <2>1, <2>2 DEF Busy
  <1>2. SureNext
    BY <1>1, SurelyNothing DEF SureNext
  <1>3. GroupedNext
    BY <1>1, ClientFacts DEF GroupedNext, Grouped
  <1> QED BY <1>2, <1>3

\* Paths below one directory are different when they are different from there.
LEMMA InInjective ==
  ASSUME NEW from \in Seq(Component), NEW rel, IsPath(rel), NEW other, IsPath(other), In(from, rel) = In(from, other)
  PROVE  rel = other
  <1>1. PICK q : q = In(from, rel)
    OBVIOUS
  <1>2. <<>> \in Seq(Component)
    OBVIOUS
  <1>3. In(<<>>, rel) = In(<<>>, other)
    <2>1. WithDir(q, <<>> \o Below(from, q)) = In(<<>>, rel)
      BY <1>1, <1>2, PathIn
    <2>2. WithDir(q, <<>> \o Below(from, q)) = In(<<>>, other)
      BY <1>1, <1>2, PathIn
    <2> QED BY <2>1, <2>2
  <1>4. In(<<>>, rel) = rel /\ In(<<>>, other) = other
    <2>1. ASSUME NEW r, IsPath(r)
          PROVE  In(<<>>, r) = r
      <3>1. <<>> \o r.dir = r.dir
        BY <2>1 DEF IsPath
      <3>2. In(<<>>, r) = WithDir(r, r.dir)
        BY <3>1, Relative
      <3> QED BY <2>1, <3>2, WithDirFacts DEF IsPath
    <2> QED BY <2>1
  <1> QED BY <1>3, <1>4

\* A thread that looks before it moves a file finds it, or leaves it out.
LEMMA TestFileSure ==
  ASSUME Typed, Stored, NEW t \in Tasks, TestFile(t), NEW tk, tk = task[t], NEW th, th = tk.thread, Sure(tk, disk)
  PROVE  LET q == task'[t]
         IN  /\ tk.at = "moving" /\ disk' = disk /\ Sure(q, disk)
             /\ GoesOnAs(q, tk) /\ q.at = "moving" /\ SameCall(q.thread, th) /\ q.thread.mode = th.mode
             /\ q.thread.from = th.from /\ q.thread.more = th.more /\ q.thread.todo \subseteq th.todo
             /\ \A rel \in th.todo \ q.thread.todo : In(th.from, rel) \notin DOMAIN disk
  <1>q. PICK q : q = task'[t]
    OBVIOUS
  <1>r. PICK rel : rel = NextFile(th)
    OBVIOUS
  <1>d. PICK dst : dst = In(th.to, rel)
    OBVIOUS
  <1>1. /\ tk.at = "moving" /\ th.todo # {} /\ th.mode \in {"aside", "gather"} /\ disk' = disk
        /\ GoesOnAs(q, tk) /\ q.at = "moving" /\ SameCall(q.thread, th) /\ q.thread.mode = th.mode
        /\ q.thread.from = th.from /\ q.thread.more = th.more
        /\ \/ /\ th.mode = "aside" /\ q.thread.todo = th.todo /\ q.thread.goal = <<FreeTarget(disk, dst)>>
           \/ /\ th.mode = "gather" /\ In(th.from, rel) \in DOMAIN disk
              /\ q.thread.todo = th.todo /\ q.thread.goal = <<dst>>
           \/ /\ th.mode = "gather" /\ In(th.from, rel) \notin DOMAIN disk
              /\ q.thread.todo = th.todo \ {rel} /\ q.thread.goal = <<>>
    BY <1>q, <1>r, <1>d, TestFileDoes
  <1>2. q.thread.to = th.to
    BY <1>1 DEF SameCall
  <1>3. rel \in th.todo
    BY <1>r, <1>1 DEF NextFile
  <1>4. ASSUME q.thread.todo = th.todo
        PROVE  NextFile(q.thread) = rel
    BY <1>r, <1>4 DEF NextFile
  <1>5. th.mode # "gather" => \A r \in th.todo : In(th.from, r) \in DOMAIN disk
    BY <1>1 DEF Sure
  <1>6. Sure(q, disk)
    <2>1. CASE th.mode = "aside" /\ q.thread.todo = th.todo /\ q.thread.goal = <<FreeTarget(disk, dst)>>
      <3>1. MovesTo(q.thread, disk) = FreeTarget(disk, dst)
        BY <1>d, <1>1, <1>2, <1>4, <2>1 DEF MovesTo
      <3>2. In(q.thread.from, NextFile(q.thread)) \in DOMAIN disk
        BY <1>1, <1>3, <1>4, <1>5, <2>1
      <3>3. q.thread.goal[1] = MovesTo(q.thread, disk)
        BY <2>1, <3>1
      <3> QED BY <1>1, <1>5, <2>1, <3>2, <3>3 DEF Sure
    <2>2. CASE th.mode = "gather" /\ In(th.from, rel) \in DOMAIN disk /\ q.thread.todo = th.todo /\ q.thread.goal = <<dst>>
      <3>1. MovesTo(q.thread, disk) = dst
        BY <1>d, <1>1, <1>2, <1>4, <2>2 DEF MovesTo
      <3>2. q.thread.goal[1] = MovesTo(q.thread, disk)
        BY <2>2, <3>1
      <3> QED BY <1>1, <1>4, <2>2, <3>2 DEF Sure
    <2>3. CASE th.mode = "gather" /\ q.thread.goal = <<>>
      BY <1>1, <2>3 DEF Sure
    <2> QED BY <1>1, <2>1, <2>2, <2>3
  <1> QED BY <1>q, <1>1, <1>3, <1>6

\* A file that is moved goes where the look has found.
LEMMA MoveFileSure ==
  ASSUME Typed, Stored, NEW t \in Tasks, MoveFile(t), NEW tk, tk = task[t], NEW th, th = tk.thread, Sure(tk, disk)
  PROVE  LET q == task'[t]
             rel == NextFile(th)
         IN  /\ tk.at = "moving" /\ rel \in th.todo /\ In(th.from, rel) \in DOMAIN disk
             /\ th.mode \in {"over", "aside", "gather"}
             /\ GoesOnAs(q, tk) /\ q.at = "moving" /\ SameCall(q.thread, th) /\ q.thread.mode = th.mode
             /\ q.thread.from = th.from /\ q.thread.more = th.more /\ q.thread.todo = th.todo \ {rel}
             /\ q.thread.goal = <<>>
             /\ disk' = Replace(disk, In(th.from, rel), MovesTo(th, disk))
  <1>q. PICK q : q = task'[t]
    OBVIOUS
  <1>r. PICK rel : rel = NextFile(th)
    OBVIOUS
  <1>1. /\ tk.at = "moving" /\ th.todo # {} /\ (th.mode = "over" \/ th.goal # <<>>)
        /\ \/ /\ In(th.from, rel) \in DOMAIN disk
              /\ GoesOnAs(q, tk) /\ q.at = "moving" /\ SameCall(q.thread, th) /\ q.thread.mode = th.mode
              /\ q.thread.from = th.from /\ q.thread.more = th.more /\ q.thread.todo = th.todo \ {rel}
              /\ q.thread.goal = <<>>
              /\ disk' = Replace(disk, In(th.from, rel), TargetOf(th))
           \/ In(th.from, rel) \notin DOMAIN disk
    BY <1>q, <1>r, MoveFileDoes
  <1>2. rel \in th.todo
    BY <1>r, <1>1 DEF NextFile
  <1>3. In(th.from, rel) \in DOMAIN disk
    BY <1>r, <1>1, <1>2 DEF Sure
  <1>4. th.mode # "over" => th.mode \in {"aside", "gather"}
    BY <1>1, InFields DEF IsThread, IsGoal
  <1>5. TargetOf(th) = MovesTo(th, disk)
    <2>1. CASE th.mode = "over"
      BY <2>1 DEF TargetOf, MovesTo
    <2>2. CASE th.mode # "over"
      <3>1. th.goal[1] = MovesTo(th, disk)
        BY <1>1, <2>2 DEF Sure
      <3> QED BY <2>2, <3>1 DEF TargetOf
    <2> QED BY <2>1, <2>2
  <1> QED BY <1>q, <1>r, <1>1, <1>2, <1>3, <1>4, <1>5

\* A directory that is moved as a whole goes where none was.
LEMMA ReplaceDirSure ==
  ASSUME Typed, NEW t \in Tasks, ReplaceDir(t), NEW tk, tk = task[t], NEW th, th = tk.thread, Sure(tk, disk)
  PROVE  LET q == task'[t]
         IN  /\ tk.at = "thread" /\ th.mode = "whole" /\ IsDir(disk, th.from) /\ ~IsDir(disk, th.to)
             /\ disk' = RenameTree(disk, th.from, th.to)
             /\ GoesOnAs(q, tk) /\ q.at = th.then /\ q.thread = th
  <1>1. PICK goal : goal = GoalOf(th)
    OBVIOUS
  <1>2. /\ tk.at = "thread" /\ th.mode = "whole"
        /\ \/ /\ disk' = RenameTree(disk, th.from, goal)
              /\ GoesOnAs(task'[t], tk) /\ task'[t].at = th.then /\ task'[t].thread = th
           \/ ~IsDir(disk, th.from) \/ IsDir(disk, goal)
    BY <1>1, ReplaceDirDoes
  <1>3. IsDir(disk, th.from) /\ ~IsDir(disk, th.to)
    BY <1>2 DEF Sure
  <1>4. goal = th.to
    BY <1>1, <1>3 DEF GoalOf
  <1> QED BY <1>2, <1>3, <1>4

\* A thread keeps what it is to move, until it has moved it.
LEMMA ThreadSure ==
  ASSUME Typed, Stored, NEW t \in Tasks, Sure(task[t], disk),
         ThreadStep(t)
  PROVE  /\ Sure(task'[t], disk')
         /\ GoesOnAs(task'[t], task[t]) /\ task'[t].at \in {"thread", "moving", task[t].thread.then}
         /\ task[t].thread.then \in {"renamed", "gathering"}
  <1>1. PICK tk : tk = task[t]
    OBVIOUS
  <1>2. PICK th : th = tk.thread
    OBVIOUS
  <1>3. PICK q : q = task'[t]
    OBVIOUS
  <1>4. IsTaskOf(t, tk) /\ IsThread(th) /\ tk.at \in {"thread", "moving"}
    BY <1>1, <1>2, InFields, ThreadDoes
  <1>5. th.then \in {"renamed", "gathering"}
    BY <1>2, <1>4 DEF IsTaskOf, IsThread
  <1>6. \A p \in DOMAIN disk : IsPath(p)
    BY DEF Stored
  <1>7. \A from \in Seq(Component) : \A rel \in RelFiles(disk, from) : In(from, rel) \in DOMAIN disk
    BY <1>6, RelFilesArePaths DEF Under
  <1>8. CASE TestTarget(t)
    <2>1. /\ tk.at = "thread" /\ th.mode = "rename" /\ disk' = disk
          /\ GoesOnAs(q, tk) /\ q.at = "thread" /\ SameCall(q.thread, th) /\ q.thread.from = th.from
          /\ q.thread.mode = IF IsDir(disk, th.to) THEN "over" ELSE "whole"
      BY <1>1, <1>2, <1>3, <1>8, TestTargetDoes
    <2>2. IsDir(disk, th.from)
      BY <1>1, <1>2, <2>1 DEF Sure
    <2> QED BY <1>1, <1>2, <1>3, <1>5, <2>1, <2>2 DEF Sure, SameCall
  <1>9. CASE ListTree(t)
    <2>1. /\ disk' = disk /\ GoesOnAs(q, tk) /\ q.at = "moving" /\ q.thread.mode = "over"
          /\ q.thread.from = th.from /\ q.thread.todo = RelFiles(disk, th.from) /\ q.thread.goal = <<>>
      BY <1>1, <1>2, <1>3, <1>9, ListTreeDoes
    <2> QED BY <1>1, <1>2, <1>3, <1>4, <1>5, <1>7, <2>1 DEF Sure, IsThread
  <1>10. CASE ReplaceDir(t)
    <2>1. GoesOnAs(q, tk) /\ q.at = th.then
      BY <1>1, <1>2, <1>3, <1>10, ReplaceDirSure
    <2> QED BY <1>1, <1>2, <1>3, <1>5, <2>1 DEF Sure
  <1>11. CASE NextSource(t)
    <2>1. /\ disk' = disk /\ GoesOnAs(q, tk)
          /\ \/ q.at = th.then
             \/ /\ SameCall(q.thread, th) /\ q.thread.mode = "aside" /\ q.thread.goal = <<>>
                /\ \/ q.thread.todo = {}
                   \/ q.thread.todo = RelFiles(disk, q.thread.from)
                /\ q.at \in {"thread", "moving"}
      BY <1>1, <1>2, <1>3, <1>11, NextSourceDoes
    <2> QED BY <1>1, <1>2, <1>3, <1>5, <1>7, <2>1 DEF Sure, SameCall, IsThread
  <1>12. CASE TestFile(t)
    <2>1. disk' = disk /\ Sure(q, disk) /\ GoesOnAs(q, tk) /\ q.at = "moving"
      BY <1>1, <1>2, <1>3, <1>12, TestFileSure
    <2> QED BY <1>1, <1>2, <1>3, <1>5, <2>1
  <1>13. CASE MoveFile(t)
    <2>1. PICK rel : rel = NextFile(th)
      OBVIOUS
    <2>2. PICK src : src = In(th.from, rel)
      OBVIOUS
    <2>3. PICK tgt : tgt = MovesTo(th, disk)
      OBVIOUS
    <2>4. /\ tk.at = "moving" /\ rel \in th.todo /\ GoesOnAs(q, tk) /\ q.at = "moving" /\ q.thread.mode = th.mode
          /\ q.thread.from = th.from /\ q.thread.todo = th.todo \ {rel} /\ q.thread.goal = <<>>
          /\ src \in DOMAIN disk /\ disk' = Replace(disk, src, tgt)
      BY <1>1, <1>2, <1>3, <1>13, <2>1, <2>2, <2>3, MoveFileSure
    <2>5. th.mode # "gather" => \A r \in th.todo : In(th.from, r) \in DOMAIN disk
      BY <1>1, <1>2, <2>4 DEF Sure
    <2>6. DOMAIN disk' = (DOMAIN disk \ {src}) \cup {tgt}
      BY <2>4 DEF Replace
    <2>7. ASSUME th.mode # "gather", NEW r \in th.todo \ {rel}
          PROVE  In(th.from, r) \in DOMAIN disk'
      <3>1. In(th.from, r) # src
        BY <1>4, <2>2, <2>4, <2>7, InInjective DEF IsThread
      <3> QED BY <2>5, <2>6, <2>7, <3>1
    <2> QED BY <1>1, <1>2, <1>3, <1>5, <2>4, <2>7 DEF Sure
  <1>14. CASE EndSource(t)
    <2>1. GoesOnAs(q, tk) /\ q.thread = th /\ q.at = IF th.mode = "aside" THEN "thread" ELSE th.then
      BY <1>1, <1>2, <1>3, <1>14, EndSourceDoes
    <2> QED BY <1>1, <1>2, <1>3, <1>5, <2>1 DEF Sure
  <1> QED BY <1>8, <1>9, <1>10, <1>11, <1>12, <1>13, <1>14 DEF ThreadStep

\* The threads of requests and runs that start have something to move.
LEMMA RequestSure ==
  ASSUME Typed, NEW c \in Clients,
         \/ RenameRequested(c) \/ DeferRename(c) \/ RenameNow(c) \/ WriteRenamed(c)
         \/ MergeRequested(c) \/ ReadMember(c) \/ GatherMember(c) \/ UpdateMember(c) \/ SetGroupName(c)
         \/ DueListed(c) \/ RequeueDue(c)
  PROVE  Sure(task'[c], disk') /\ (Busy(c) \/ MayBegin) /\ Proceeds(c)
  <1>1. PICK tk : tk = task[c]
    OBVIOUS
  <1>2. PICK q : q = task'[c]
    OBVIOUS
  <1>3. c \in Tasks /\ IsTask(tk)
    BY <1>1, ClientFacts, InFields
  <1>4. Proceeds(c)
    BY RenameRequestedStep, DeferRenameStep, RenameNowStep, WriteRenamedStep, MergeRequestedStep, ReadMemberStep,
       GatherMemberStep, UpdateMemberStep, SetGroupNameStep, DueListedStep, RequeueDueStep
  <1>5. CASE RenameRequested(c) \/ MergeRequested(c) \/ DueListed(c)
    BY <1>4, <1>5, RenameRequestedDoes, MergeRequestedDoes, DueListedDoes, SurelyNothing
  <1>6. CASE DeferRename(c) \/ WriteRenamed(c) \/ SetGroupName(c) \/ RequeueDue(c)
    BY <1>4, <1>6, DeferRenameDoes, WriteRenamedDoes, SetGroupNameDoes, RequeueDueDoes, Nothing, SurelyNothing DEF Busy
  <1>7. CASE RenameNow(c)
    <2>1. PICK job : job = task[c].seen[1]
      OBVIOUS
    <2>2. PICK loose : loose = Existing(job.dest, rows[task[c].jobs[1]].files)
      OBVIOUS
    <2>3. PICK target : target = job.dest \o <<task[c].name>>
      OBVIOUS
    <2>4. /\ tk.at = "rename" /\ disk' = disk
          /\ \/ task'[c] = NoTask
             \/ IsDir(disk, OutputDir(job)) /\ task'[c] = Await(task[c], Renaming(OutputDir(job), target, "renamed"))
             \/ task'[c] = Await(task[c], Gathering(job.dest, loose, target, "renamed"))
      BY <1>1, <1>7, <2>1, <2>2, <2>3, RenameNowDoes
    <2>5. CASE q = NoTask
      BY <1>1, <1>2, <1>4, <2>4, <2>5, Nothing, SurelyNothing DEF Busy
    <2>6. CASE IsDir(disk, OutputDir(job)) /\ q = Await(tk, Renaming(OutputDir(job), target, "renamed"))
      <3>1. PICK th : th = Renaming(OutputDir(job), target, "renamed")
        OBVIOUS
      <3>2. th.mode = "rename" /\ th.from = OutputDir(job)
        BY <3>1 DEF Renaming, NoThread
      <3>3. q.at = "thread" /\ q.thread = th
        BY <1>3, <2>6, <3>1, <3>2, AwaitFields
      <3> QED BY <1>1, <1>2, <1>4, <2>4, <2>6, <3>2, <3>3 DEF Sure, Busy
    <2>7. CASE q = Await(tk, Gathering(job.dest, loose, target, "renamed"))
      <3>1. PICK th : th = Gathering(job.dest, loose, target, "renamed")
        OBVIOUS
      <3>2. th.mode = "gather" /\ th.goal = <<>>
        BY <3>1 DEF Gathering, NoThread
      <3>3. q.at = "moving" /\ q.thread = th
        BY <1>3, <2>7, <3>1, <3>2, AwaitFields
      <3> QED BY <1>1, <1>2, <1>4, <2>4, <3>2, <3>3 DEF Sure, Busy
    <2> QED BY <1>1, <1>2, <2>4, <2>5, <2>6, <2>7
  <1>8. CASE ReadMember(c)
    <2>1. PICK n : n = Len(tk.seen) + 1
      OBVIOUS
    <2>2. PICK row : row = rows[tk.jobs[n]]
      OBVIOUS
    <2>3. PICK srcs : srcs = SourcesWith(tk, row)
      OBVIOUS
    <2>4. /\ tk.at = "reading"
          /\ \/ task'[c] = NoTask
             \/ task'[c].at = "reading"
             \/ /\ task'[c].at = "thread"
                /\ task'[c].thread = Merging(srcs, task'[c].seen[1].dest \o <<tk.name>>, "gathering")
      BY <1>1, <1>8, <2>1, <2>2, <2>3, ReadMemberDoes
    <2>5. \A a, b : Merging(a, b, "gathering").mode = "aside"
      BY DEF Merging, NoThread
    <2> QED BY <1>1, <1>2, <1>4, <2>4, <2>5, Nothing DEF Sure, Busy
  <1>9. CASE GatherMember(c)
    <2>1. PICK job : job = tk.seen[tk.i]
      OBVIOUS
    <2>2. PICK loose : loose = Existing(job.dest, rows[tk.jobs[tk.i]].files)
      OBVIOUS
    <2>3. /\ tk.at = "gathering"
          /\ \/ q.at \in {"updating", "gathering"}
             \/ q.at = "moving" /\ q.thread = Gathering(job.dest, loose, Target(tk), "gathering")
      BY <1>1, <1>2, <1>9, <2>1, <2>2, GatherMemberDoes
    <2>4. \A a, b, s : Gathering(a, s, b, "gathering").mode = "gather" /\ Gathering(a, s, b, "gathering").goal = <<>>
      BY DEF Gathering, NoThread
    <2> QED BY <1>1, <1>2, <1>4, <2>3, <2>4 DEF Sure, Busy
  <1>10. CASE UpdateMember(c)
    <2>1. tk.at = "updating" /\ q.at \in {"updating", "naming"}
      BY <1>1, <1>2, <1>10, UpdateMemberDoes
    <2> QED BY <1>1, <1>2, <1>4, <2>1, SurelyNothing DEF Busy
  <1> QED BY <1>5, <1>6, <1>7, <1>8, <1>9, <1>10

\* The members a merge writes are in its group.
LEMMA RequestGrouped ==
  ASSUME Typed, Stored, Sound, NEW c \in Clients,
         \/ RenameRequested(c) \/ DeferRename(c) \/ RenameNow(c) \/ WriteRenamed(c)
         \/ MergeRequested(c) \/ ReadMember(c) \/ GatherMember(c) \/ UpdateMember(c) \/ SetGroupName(c)
         \/ DueListed(c) \/ RequeueDue(c)
         \/ ThreadStep(c)
  PROVE  Grouped(task'[c], rows')
  <1>1. PICK tk : tk = task[c]
    OBVIOUS
  <1>2. PICK q : q = task'[c]
    OBVIOUS
  <1>3. /\ c \in Tasks /\ c \notin Jobs /\ IsTask(tk) /\ tk.jobs \in Seq(Jobs) /\ tk.i \in Nat
        /\ Grouped(tk, rows) /\ Sure(task[c], disk)
    BY <1>1, ClientFacts, InFields DEF Sound
  <1>4. \A rs, p : p.at \notin {"updating", "naming"} => Grouped(p, rs)
    BY DEF Grouped
  <1>5. CASE RenameRequested(c) \/ MergeRequested(c) \/ DueListed(c)
    BY <1>4, <1>5, RenameRequestedDoes, MergeRequestedDoes, DueListedDoes
  <1>6. CASE DeferRename(c) \/ WriteRenamed(c) \/ SetGroupName(c) \/ RequeueDue(c)
    BY <1>4, <1>6, DeferRenameDoes, WriteRenamedDoes, SetGroupNameDoes, RequeueDueDoes, Nothing
  <1>7. CASE RenameNow(c)
    <2>1. PICK job : job = task[c].seen[1]
      OBVIOUS
    <2>2. PICK loose : loose = Existing(job.dest, rows[task[c].jobs[1]].files)
      OBVIOUS
    <2>3. PICK target : target = job.dest \o <<task[c].name>>
      BY Zenon
    <2>4. \/ task'[c] = NoTask
          \/ task'[c] = Await(task[c], Renaming(OutputDir(job), target, "renamed"))
          \/ task'[c] = Await(task[c], Gathering(job.dest, loose, target, "renamed"))
      BY <1>7, <2>1, <2>2, <2>3, RenameNowDoes
    <2>5. q.at \in {"idle", "thread", "moving"}
      BY <1>1, <1>2, <1>3, <2>4, Nothing DEF Await, IsTask
    <2> QED BY <1>2, <1>4, <2>5
  <1>8. CASE ReadMember(c)
    <2>1. q.at \in {"idle", "reading", "thread"}
      BY <1>1, <1>2, <1>8, ReadMemberDoes, Nothing
    <2> QED BY <1>2, <1>4, <2>1
  <1>9. CASE GatherMember(c)
    <2>1. PICK job : job = tk.seen[tk.i]
      OBVIOUS
    <2>2. PICK loose : loose = Existing(job.dest, rows[tk.jobs[tk.i]].files)
      OBVIOUS
    <2>3. q.jobs = tk.jobs /\ (q.at \in {"gathering", "moving"} \/ (q.at = "updating" /\ q.i = 1))
      BY <1>1, <1>2, <1>9, <2>1, <2>2, GatherMemberDoes
    <2> QED BY <1>2, <1>3, <2>3 DEF Grouped
  <1>10. CASE UpdateMember(c)
    <2>1. PICK j : j = tk.jobs[tk.i]
      OBVIOUS
    <2>2. /\ tk.at = "updating" /\ j \in Jobs /\ tk.i \in DOMAIN tk.jobs /\ rows'[j].group # 0
          /\ q.jobs = tk.jobs /\ q.i = tk.i + 1 /\ q.at = IF tk.i = Len(tk.jobs) THEN "naming" ELSE "updating"
          /\ \A k \in Jobs \ {j} : rows'[k] = rows[k]
      BY <1>1, <1>2, <1>10, <2>1, UpdateMemberDoes DEF Alters
    <2>3. ASSUME NEW k \in DOMAIN tk.jobs, k < tk.i
          PROVE  rows'[tk.jobs[k]].group # 0
      BY <1>3, <2>2, <2>3 DEF Grouped
    <2>4. \A k \in DOMAIN tk.jobs : k < tk.i + 1 => k < tk.i \/ k = tk.i
      BY <1>3
    <2>5. \A k \in DOMAIN tk.jobs : k < tk.i + 1 => rows'[tk.jobs[k]].group # 0
      BY <2>1, <2>2, <2>3, <2>4
    <2>6. tk.i = Len(tk.jobs) => \A k \in DOMAIN tk.jobs : k < tk.i + 1
      BY <1>3
    <2> QED BY <1>2, <2>2, <2>5, <2>6 DEF Grouped
  <1>11. CASE ThreadStep(c)
    <2>1. q.at \in {"thread", "moving", "renamed", "gathering"}
      BY <1>2, <1>3, <1>11, ThreadSure
    <2> QED BY <1>2, <1>4, <2>1
  <1> QED BY <1>5, <1>6, <1>7, <1>8, <1>9, <1>10, <1>11

\* A run that has a result.
LEMMA RunSure ==
  ASSUME Typed, Stored, NEW j \in Jobs,
         \/ Downloaded(j) \/ LandFile(j) \/ RecordFiles(j) \/ ReadPending(j) \/ WriteApplied(j) \/ ClearPending(j) \/ Finish(j)
  PROVE  Sure(task'[j], disk') /\ (Busy(j) \/ MayBegin) /\ Proceeds(j)
  <1>1. PICK tk : tk = task[j]
    OBVIOUS
  <1>2. PICK q : q = task'[j]
    OBVIOUS
  <1>3. Proceeds(j)
    BY RunStep, ReadPendingStep
  <1>4. CASE Downloaded(j) \/ LandFile(j) \/ RecordFiles(j) \/ WriteApplied(j) \/ ClearPending(j) \/ Finish(j)
    <2>1. /\ q.at \in {"landing", "recorded", "verdict", "idle"}
          /\ MayBegin \/ tk.at \in {"landing", "renamed", "clearing", "verdict"}
      BY <1>1, <1>2, <1>4, RunDoes, Nothing
    <2> QED BY <1>1, <1>2, <1>3, <2>1, SurelyNothing DEF Busy
  <1>5. CASE ReadPending(j)
    <2>1. PICK job : job = rows[j]
      OBVIOUS
    <2>2. PICK base : base = tk.seen[1].dest
      OBVIOUS
    <2>3. /\ tk.at = "recorded" /\ disk' = disk
          /\ \/ q.at \in {"verdict", "clearing"}
             \/ /\ IsDir(disk, base \o <<job.dir>>) /\ q.at = "thread"
                /\ q.thread = Renaming(base \o <<job.dir>>, base \o <<job.rename_to>>, "renamed")
             \/ q.at = "moving" /\ q.thread = Gathering(base, job.files, base \o <<job.rename_to>>, "renamed")
      BY <1>1, <1>2, <1>5, <2>1, <2>2, ReadPendingDoes
    <2>4. \A a, b : Renaming(a, b, "renamed").mode = "rename" /\ Renaming(a, b, "renamed").from = a
      BY DEF Renaming, NoThread
    <2>5. \A a, b, s : Gathering(a, s, b, "renamed").mode = "gather" /\ Gathering(a, s, b, "renamed").goal = <<>>
      BY DEF Gathering, NoThread
    <2> QED BY <1>1, <1>2, <1>3, <2>3, <2>4, <2>5 DEF Sure, Busy
  <1> QED BY <1>4, <1>5

\* Where no thread raises, a run fails only in its engine.
LEMMA FailuresStandBy ==
  ASSUME Sound, NEW j \in Jobs, FailRun(j)
  PROVE  Bystands(j)
  BY DEF Sound, Sure, Bystands, Tasks

\* Every step.
LEMMA StepSound ==
  ASSUME Settled, Sound, ~Overlap, Step, UNCHANGED world
  PROVE  SureNext /\ GroupedNext
  <1>1. Typed /\ Stored /\ AtWork /\ \A c \in Clients : c \in Tasks /\ c \notin Jobs
    BY ClientFacts DEF Settled
  <1>2. ASSUME NEW t \in Tasks, ThreadStep(t)
        PROVE  SureNext /\ GroupedNext
    <2>1. Proceeds(t) /\ Busy(t)
      BY <1>1, <1>2, ThreadSteps
         DEF Busy, ThreadStep, TestTarget, ListTree, ReplaceDir, NextSource, TestFile, MoveFile, EndSource
    <2>2. Sure(task'[t], disk')
      BY <1>1, <1>2, ThreadSure DEF Sound
    <2>3. t \in Clients => Grouped(task'[t], rows')
      BY <1>1, <1>2, RequestGrouped
    <2> QED BY <1>1, <2>1, <2>2, <2>3, OnlyOneMoves, Zenon
  <1>3. ASSUME NEW c \in Clients,
               \/ RenameRequested(c) \/ DeferRename(c) \/ RenameNow(c) \/ WriteRenamed(c)
               \/ MergeRequested(c) \/ ReadMember(c) \/ GatherMember(c) \/ UpdateMember(c) \/ SetGroupName(c)
               \/ DueListed(c) \/ RequeueDue(c)
        PROVE  SureNext /\ GroupedNext
    <2>1. Sure(task'[c], disk') /\ (Busy(c) \/ MayBegin) /\ Proceeds(c)
      BY <1>1, <1>3, RequestSure
    <2>2. Grouped(task'[c], rows')
      BY <1>1, <1>3, RequestGrouped
    <2> QED BY <1>1, <2>1, <2>2, OnlyOneMoves
  <1>4. ASSUME NEW j \in Jobs,
               Downloaded(j) \/ LandFile(j) \/ RecordFiles(j) \/ ReadPending(j) \/ WriteApplied(j) \/ ClearPending(j) \/ Finish(j)
        PROVE  SureNext /\ GroupedNext
    <2>1. Sure(task'[j], disk') /\ (Busy(j) \/ MayBegin) /\ Proceeds(j)
      BY <1>1, <1>4, RunSure
    <2> QED BY <1>1, <2>1, RunFacts, OnlyOneMoves
  <1>5. ASSUME NEW j \in Jobs, Bystands(j)
        PROVE  SureNext /\ GroupedNext
    <2>1. /\ Alters(j, {"state", "dir"}) /\ disk' = disk /\ (\A u \in Tasks \ {j} : task'[u] = task[u])
          /\ task'[j].at \in {"idle", "downloading", "detected"}
      BY <1>1, <1>5, BystandDoes
    <2>2. SureNext
      BY <2>1, SurelyNothing DEF SureNext, Sound
    <2>3. \A k \in Jobs : rows'[k].group = rows[k].group
      BY <2>1 DEF Alters, Columns
    <2>4. ASSUME NEW c \in Clients
          PROVE  Grouped(task'[c], rows')
      <3>1. PICK tk : tk = task[c]
        OBVIOUS
      <3>2. task'[c] = tk /\ tk.jobs \in Seq(Jobs) /\ Grouped(tk, rows)
        BY <1>1, <2>1, <2>4, <3>1, InFields DEF Sound
      <3>3. \A k \in DOMAIN tk.jobs : rows'[tk.jobs[k]].group = rows[tk.jobs[k]].group
        BY <2>3, <3>2
      <3> QED BY <3>2, <3>3 DEF Grouped
    <2> QED BY <2>2, <2>4 DEF GroupedNext
  <1>6. CASE Retry
    <2>1. disk' = disk /\ task' = task /\ MayBegin
      BY <1>1, <1>6, RetryDoes
    <2>2. \A c \in Clients : task[c].at = "idle"
      BY <1>1, <2>1, Resters DEF MayBegin, Quiet, Busy
    <2> QED BY <2>1, <2>2 DEF Sound, SureNext, GroupedNext, Grouped
  <1> QED BY <1>2, <1>3, <1>4, <1>5, <1>6, FailuresStandBy DEF Step, Bystands

\* Where requests and ends of runs wait for each other no thread raises.
LEMMA CalmSound == Spec => [](Calm => Sound)
  <1>1. Init => Sound
    <2> SUFFICES ASSUME Init PROVE Sound
      OBVIOUS
    <2>1. \A t \in Tasks : task[t].at = "idle"
      BY InitTyped, Nothing DEF Init
    <2> QED BY <2>1, SurelyNothing DEF Sound, Grouped, Tasks
  <1>2. (Calm => Settled) /\ (Calm => Sound) /\ [Next]_vars => (Calm => Sound)'
    <2> SUFFICES ASSUME Calm => Settled, Calm => Sound, [Next]_vars, Calm'
                 PROVE  Sound'
      OBVIOUS
    <2>1. UNCHANGED world
      BY DEF Next, vars
    <2>2. ~Overlap
      BY <2>1 DEF Calm, Overlap
    <2>3. CASE Step /\ UNCHANGED <<world, crashed>>
      BY <2>1, <2>2, <2>3, StepSound, SoundThen DEF Calm
    <2>4. CASE Crash
      BY <2>4 DEF Crash, Calm
    <2>5. CASE UNCHANGED vars
      <3>1. Sound
        BY <2>2, <2>5 DEF Calm, vars
      <3>2. SureNext /\ GroupedNext
        BY <2>5, <3>1 DEF vars, Sound, SureNext, GroupedNext
      <3> QED BY <2>1, <3>2, SoundThen
    <2> QED BY <2>3, <2>4, <2>5 DEF Next
  <1> QED BY <1>1, <1>2, CalmSettled, PTL DEF Spec

-----------------------------------------------------------------------------
(* What a row says of its files                                            *)

\* Directories have names, and the files of a job come in one.
Plain(w) == Names(w) /\ OneDir(w)

\* The directory a job's source makes, and its files.
LEMMA OneDirFacts ==
  ASSUME OneDir(world), NEW j \in Jobs
  PROVE  /\ DirsOf(j) = {DirOf[j]} \ {NoDir}
         /\ Downloads(j) = {Path(IF DirOf[j] = NoDir THEN <<>> ELSE <<DirOf[j]>>, f) : f \in FilesOf[j]}
  <1>1. ApartOf[j] = <<>>
    BY DEF OneDir, ApartOf, Jobs
  <1>2. Range(ApartOf[j]) = {} /\ DOMAIN ApartOf[j] = {}
    BY <1>1 DEF Range
  <1>3. \A f : TopOf(j, f) = DirOf[j]
    BY <1>2 DEF TopOf
  <1> QED BY <1>2, <1>3 DEF DirsOf, Downloads

Late(tk) == tk.at \in {"recorded", "thread", "moving", "renamed", "clearing", "verdict"}

\* A row records all files of its job or none, all once the job has finished or its run
\* has recorded them, and the directory of a job whose source makes one.
Formed(j, row, tk) ==
    /\ row.files \in {{}, Downloads(j)}
    /\ row.state = "done" \/ Late(tk) => row.files = Downloads(j)
    /\ DirOf[j] # NoDir =>
          /\ tk.at \in {"detected", "landing", "recorded"} => row.dir = DirOf[j]
          /\ row.dir = NoDir => row.files = {}
          /\ Late(tk) => row.dir # NoDir
    /\ Applying(tk) => tk.name # NoDir

AllFormed == \A j \in Jobs : Formed(j, rows[j], task[j])
FormedNext == \A j \in Jobs : Formed(j, rows'[j], task'[j])

\* It is the invariant of the next state.
LEMMA FormedThen ==
  ASSUME UNCHANGED world, FormedNext
  PROVE  AllFormed'
  <1>1. UNCHANGED <<Jobs, DirOf>> /\ \A j : Downloads(j)' = Downloads(j)
    BY SameWorld DEF Constants
  <1> QED BY <1>1 DEF AllFormed, FormedNext, Formed, Late, Applying

\* A step that writes no row but that of j.
LEMMA OneFormed ==
  ASSUME AllFormed, NEW j \in Jobs, \A k \in Jobs \ {j} : rows'[k] = rows[k] /\ task'[k] = task[k],
         Formed(j, rows'[j], task'[j])
  PROVE  FormedNext
  BY DEF AllFormed, FormedNext

\* A step of a request, or of its thread, is no step of a run.
LEMMA RunsStand ==
  ASSUME Typed, Stored, NEW c \in Clients,
         \/ RenameRequested(c) \/ DeferRename(c) \/ RenameNow(c) \/ WriteRenamed(c)
         \/ MergeRequested(c) \/ ReadMember(c) \/ GatherMember(c) \/ UpdateMember(c) \/ SetGroupName(c)
         \/ DueListed(c) \/ RequeueDue(c)
         \/ ThreadStep(c)
  PROVE  /\ Proceeds(c) /\ \A j \in Jobs : task'[j] = task[j]
         /\ ~(DeferRename(c) \/ WriteRenamed(c) \/ UpdateMember(c) \/ SetGroupName(c) \/ RequeueDue(c)) => rows' = rows
         /\ ~(DeferRename(c) \/ WriteRenamed(c) \/ RenameNow(c)) => asked' = asked
  <1>1. c \in Tasks /\ c \notin Jobs
    BY ClientFacts
  <1>2. Proceeds(c)
    BY <1>1, RenameRequestedStep, DeferRenameStep, RenameNowStep, WriteRenamedStep, MergeRequestedStep, ReadMemberStep,
       GatherMemberStep, UpdateMemberStep, SetGroupNameStep, DueListedStep, RequeueDueStep,
       ThreadSteps
  <1>3. \A j \in Jobs : task'[j] = task[j]
    BY <1>1, <1>2, OthersStand, Zenon DEF Tasks
  <1>4. ~(DeferRename(c) \/ WriteRenamed(c) \/ UpdateMember(c) \/ SetGroupName(c) \/ RequeueDue(c)) => rows' = rows
    BY DEF RenameRequested, RenameNow, MergeRequested, ReadMember, GatherMember, DueListed,
           ThreadStep, TestTarget, ListTree, ReplaceDir, NextSource, TestFile, MoveFile, EndSource
  <1>5. ~(DeferRename(c) \/ WriteRenamed(c) \/ RenameNow(c)) => asked' = asked
    BY DEF RenameRequested, MergeRequested, ReadMember, GatherMember, DueListed, UpdateMember, SetGroupName, RequeueDue,
           ThreadStep, TestTarget, ListTree, ReplaceDir, NextSource, TestFile, MoveFile, EndSource
  <1> QED BY <1>2, <1>3, <1>4, <1>5

\* A finished row that a request has read is as it was, and its job has no run.
LEMMA SeenRests ==
  ASSUME Typed, AtWork, NEW j \in Jobs, NEW seen, StillSo(seen, rows[j]), seen.state \notin Open
  PROVE  rows[j] = seen /\ task[j].at = "idle" /\ rows[j].state \in {"done", "error"}
  <1>1. rows[j] = seen
    BY DEF StillSo
  <1>2. rows[j] \in RowType
    BY RunFacts
  <1> QED BY <1>1, <1>2, RowFacts DEF AtWork, ActiveRuns, Idle, Open

\* The steps of requests.
LEMMA RequestFormed ==
  ASSUME Typed, Stored, AtWork, Knowing, AllFormed, Names(world), NEW c \in Clients,
         \/ RenameRequested(c) \/ DeferRename(c) \/ RenameNow(c) \/ WriteRenamed(c)
         \/ MergeRequested(c) \/ ReadMember(c) \/ GatherMember(c) \/ UpdateMember(c) \/ SetGroupName(c)
         \/ DueListed(c) \/ RequeueDue(c)
         \/ ThreadStep(c)
  PROVE  FormedNext
  <1>1. PICK tk : tk = task[c]
    OBVIOUS
  <1>2. \A j \in Jobs : task'[j] = task[j]
    BY RunsStand
  <1>3. Knows(tk, rows) /\ IsTaskOf(c, tk) /\ tk.jobs \in Seq(Jobs)
    BY <1>1, ClientFacts, InFields DEF Knowing
  <1>4. CASE rows' = rows
    BY <1>2, <1>4 DEF AllFormed, FormedNext
  <1>5. CASE DeferRename(c)
    <2>1. PICK j : j = tk.jobs[1]
      OBVIOUS
    <2>2. j \in Jobs /\ Alters(j, {"rename_to"})
      BY <1>1, <1>5, <2>1, DeferRenameDoes
    <2>3. Formed(j, rows'[j], task'[j])
      BY <1>2, <2>2 DEF AllFormed, Formed, Alters, Columns
    <2> QED BY <1>2, <2>2, <2>3, OneFormed DEF Alters
  <1>6. CASE WriteRenamed(c)
    <2>1. PICK j : j = tk.jobs[1]
      OBVIOUS
    <2>2. j \in Jobs /\ Alters(j, {"dir"}) /\ rows'[j].dir = tk.name /\ tk.at = "renamed"
      BY <1>1, <1>6, <2>1, WriteRenamedDoes
    <2>3. tk.name # NoDir /\ StillSo(tk.seen[1], rows[j]) /\ tk.seen[1].state \notin Open
      BY <1>3, <2>1, <2>2 DEF Knows, InRename, Names, NamesOf, Jobs
    <2>4. task[j].at = "idle"
      BY <2>2, <2>3, SeenRests
    <2>5. Formed(j, rows'[j], task'[j])
      BY <1>2, <2>2, <2>3, <2>4 DEF AllFormed, Formed, Alters, Columns, Late, Applying
    <2> QED BY <1>2, <2>2, <2>5, OneFormed DEF Alters
  <1>7. CASE UpdateMember(c)
    <2>1. PICK j : j = tk.jobs[tk.i]
      OBVIOUS
    <2>2. /\ tk.at = "updating" /\ j \in Jobs /\ tk.i \in DOMAIN tk.jobs /\ tk.i \in DOMAIN tk.seen
          /\ \/ tk.seen[tk.i].state = "done" /\ Alters(j, {"group", "gname", "dir", "dest"}) /\ rows'[j].dir = tk.name
             \/ tk.seen[tk.i].state # "done" /\ Alters(j, {"group", "gname", "rename_to"})
      BY <1>1, <1>7, <2>1, UpdateMemberDoes
    <2>3. tk.name # NoDir /\ StillSo(tk.seen[tk.i], rows[j])
      BY <1>3, <2>1, <2>2 DEF Knows, InMerge, Names, Merges, IsTaskOf
    <2>4. tk.seen[tk.i].state = "done" => task[j].at = "idle"
      BY <2>2, <2>3, SeenRests DEF Open
    <2>5. Formed(j, rows'[j], task'[j])
      BY <1>2, <2>2, <2>3, <2>4 DEF AllFormed, Formed, Alters, Columns, Late, Applying
    <2> QED BY <1>2, <2>2, <2>5, OneFormed DEF Alters
  <1>8. CASE SetGroupName(c)
    <2>1. \A j \in Jobs : rows'[j].files = rows[j].files /\ rows'[j].dir = rows[j].dir /\ rows'[j].state = rows[j].state
      BY <1>8, SetGroupNameDoes DEF Columns
    <2> QED BY <1>2, <2>1 DEF AllFormed, FormedNext, Formed
  <1>9. CASE RequeueDue(c)
    <2>1. PICK j : j = tk.jobs[1]
      OBVIOUS
    <2>2. j \in Jobs /\ Alters(j, {"state", "rename_to"}) /\ rows'[j].state = "queued"
      BY <1>1, <1>9, <2>1, RequeueDueDoes
    <2>3. Formed(j, rows'[j], task'[j])
      BY <1>2, <2>2 DEF AllFormed, Formed, Alters, Columns
    <2> QED BY <1>2, <2>2, <2>3, OneFormed DEF Alters
  <1> QED BY <1>4, <1>5, <1>6, <1>7, <1>8, <1>9, RunsStand

\* The steps of runs and their threads.
LEMMA RunFormed ==
  ASSUME Typed, Stored, AtWork, Sound, AllFormed, OneDir(world), NEW j \in Jobs,
         \/ StartRun(j) \/ DetectDir(j) \/ Downloaded(j) \/ LandFile(j) \/ RecordFiles(j) \/ ReadPending(j)
         \/ WriteApplied(j) \/ ClearPending(j) \/ Finish(j) \/ FailRun(j)
         \/ ThreadStep(j)
  PROVE  FormedNext
  <1>1. PICK tk : tk = task[j]
    OBVIOUS
  <1>2. PICK q : q = task'[j]
    OBVIOUS
  <1>3. Proceeds(j) /\ j \in Tasks /\ IsTaskOf(j, tk)
    BY <1>1, RunStep, StartRunStep, ReadPendingStep, RunFacts, ThreadSteps
  <1>4. Formed(j, rows[j], tk) /\ Sure(tk, disk)
    BY <1>1, <1>3 DEF AllFormed, Sound
  <1>5. tk.at # "idle" => rows[j].state = "active"
    BY <1>1 DEF AtWork, ActiveRuns, Idle
  <1>8. DirsOf(j) = {DirOf[j]} \ {NoDir}
    BY OneDirFacts
  <1>6. (\A k \in Jobs \ {j} : rows'[k] = rows[k]) /\ Formed(j, rows'[j], q)
    <2>1. CASE StartRun(j)
      <3>1. tk.at = "idle" /\ Alters(j, {"state"}) /\ rows'[j].state = "active" /\ q.at = "downloading"
        BY <1>1, <1>2, <2>1, StartRunDoes
      <3> QED BY <1>4, <3>1 DEF Formed, Late, Applying, Alters, Columns
    <2>2. CASE DetectDir(j)
      <3>1. DirOf[j] # NoDir /\ q.at = "detected" /\ Alters(j, {"dir"}) /\ rows'[j].dir = DirOf[j]
        BY <1>1, <1>2, <1>8, <2>2, RunDoes
      <3> QED BY <1>4, <3>1 DEF Formed, Late, Applying, Alters, Columns
    <2>3. CASE Downloaded(j)
      <3>1. rows' = rows /\ q.at = "landing" /\ (DirOf[j] # NoDir => tk.at = "detected")
        BY <1>1, <1>2, <1>8, <2>3, RunDoes
      <3> QED BY <1>4, <3>1 DEF Formed, Late, Applying
    <2>11. CASE LandFile(j)
      <3>1. rows' = rows /\ q.at = "landing" /\ tk.at = "landing"
        BY <1>1, <1>2, <2>11, RunDoes
      <3> QED BY <1>4, <3>1 DEF Formed, Late, Applying
    <2>4. CASE RecordFiles(j)
      <3>1. tk.at = "landing" /\ q.at = "recorded" /\ Alters(j, {"files"}) /\ rows'[j].files = Downloads(j)
        BY <1>1, <1>2, <2>4, RunDoes
      <3> QED BY <1>4, <3>1 DEF Formed, Late, Applying, Alters, Columns
    <2>5. CASE ReadPending(j)
      <3>1. PICK job : job = rows[j]
        OBVIOUS
      <3>2. PICK base : base = tk.seen[1].dest
        OBVIOUS
      <3>3. /\ tk.at = "recorded" /\ rows' = rows
            /\ \/ q.at \in {"verdict", "clearing"}
               \/ job.rename_to # NoDir /\ q.at = "thread" /\ q.name = job.rename_to
               \/ job.rename_to # NoDir /\ q.at = "moving" /\ q.name = job.rename_to
        BY <1>1, <1>2, <2>5, <3>1, <3>2, ReadPendingDoes
      <3> QED BY <1>4, <3>3 DEF Formed, Late, Applying
    <2>6. CASE WriteApplied(j)
      <3>1. tk.at = "renamed" /\ q.at = "verdict" /\ Alters(j, {"dir", "rename_to"}) /\ rows'[j].dir = tk.name
        BY <1>1, <1>2, <2>6, RunDoes
      <3> QED BY <1>4, <3>1 DEF Formed, Late, Applying, Alters, Columns
    <2>7. CASE ClearPending(j)
      <3>1. tk.at = "clearing" /\ q.at = "verdict" /\ Alters(j, {"rename_to"})
        BY <1>1, <1>2, <2>7, RunDoes
      <3> QED BY <1>4, <3>1 DEF Formed, Late, Applying, Alters, Columns
    <2>8. CASE Finish(j)
      <3>1. tk.at = "verdict" /\ q = NoTask /\ Alters(j, {"state"}) /\ rows'[j].state = "done"
        BY <1>1, <1>2, <2>8, RunDoes
      <3> QED BY <1>4, <3>1, Nothing DEF Formed, Late, Applying, Alters, Columns
    <2>9. CASE FailRun(j)
      <3>1. q = NoTask /\ Alters(j, {"state"}) /\ rows'[j].state = "error"
        BY <1>1, <1>2, <2>9, RunDoes
      <3> QED BY <1>4, <3>1, Nothing DEF Formed, Late, Applying, Alters, Columns
    <2>10. CASE ThreadStep(j)
      <3>1. tk.at \in {"thread", "moving"} /\ rows' = rows
        BY <1>1, <1>3, <2>10, ThreadDoes
      <3>2. q.name = tk.name /\ q.at \in {"thread", "moving", "renamed", "gathering"}
        BY <1>1, <1>2, <1>3, <1>4, <2>10, ThreadSure DEF GoesOnAs
      <3>3. q.at # "gathering"
        BY <1>2, <1>3 DEF Proceeds, IsTaskOf, RunSteps, Typed
      <3> QED BY <1>4, <3>1, <3>2, <3>3 DEF Formed, Late, Applying
    <2> QED BY <2>1, <2>2, <2>3, <2>4, <2>5, <2>6, <2>7, <2>8, <2>9, <2>10, <2>11
  <1>7. \A k \in Jobs \ {j} : task'[k] = task[k]
    BY <1>3, OthersStand DEF Tasks
  <1> QED BY <1>2, <1>6, <1>7, OneFormed

\* Every step.
LEMMA StepFormed ==
  ASSUME Settled, Sound, AllFormed, Plain(world), Step, UNCHANGED world
  PROVE  FormedNext
  <1>1. Typed /\ Stored /\ AtWork /\ Knowing /\ Names(world) /\ OneDir(world)
    BY DEF Settled, Plain
  <1>2. CASE Retry
    <2>1. PICK j \in Jobs : task' = task /\ rows[j].state \in {"done", "error"} /\ Alters(j, {"state"}) /\ rows'[j].state = "queued"
      BY <1>1, <1>2, RetryDoes
    <2>2. Formed(j, rows'[j], task'[j])
      BY <2>1 DEF AllFormed, Formed, Alters, Columns
    <2> QED BY <2>1, <2>2, OneFormed DEF Alters
  <1>3. ASSUME NEW t \in Tasks, ThreadStep(t)
        PROVE  FormedNext
    BY <1>1, <1>3, RequestFormed, RunFormed DEF Tasks
  <1> QED BY <1>1, <1>2, <1>3, RequestFormed, RunFormed DEF Step

\* What a row says of its files holds.
LEMMA CalmFormed == Spec => [](Calm /\ Plain(world) => AllFormed)
  <1>1. Init => AllFormed
    <2> SUFFICES ASSUME Init PROVE AllFormed
      OBVIOUS
    <2>1. \A t \in Tasks : task[t].at = "idle"
      BY InitTyped, Nothing DEF Init
    <2>2. ASSUME NEW j \in Jobs
          PROVE  Formed(j, rows[j], task[j])
      <3>1. rows[j] = NewRow(j) /\ task[j].at = "idle"
        BY <2>1, <2>2 DEF Init, Tasks
      <3> QED BY <3>1 DEF NewRow, Formed, Late, Applying
    <2> QED BY <2>2 DEF AllFormed
  <1>2. /\ (Calm => Settled) /\ (Calm => Sound) /\ (Calm /\ Plain(world) => AllFormed) /\ [Next]_vars
        => (Calm /\ Plain(world) => AllFormed)'
    <2> SUFFICES ASSUME Calm => Settled, Calm => Sound, Calm /\ Plain(world) => AllFormed, [Next]_vars,
                        Calm', Plain(world)'
                 PROVE  AllFormed'
      OBVIOUS
    <2>1. UNCHANGED world
      BY DEF Next, vars
    <2>2. ~Overlap /\ Plain(world)
      BY <2>1 DEF Calm, Overlap
    <2>3. CASE Step /\ UNCHANGED <<world, crashed>>
      BY <2>1, <2>2, <2>3, StepFormed, FormedThen DEF Calm
    <2>4. CASE Crash
      BY <2>4 DEF Crash, Calm
    <2>5. CASE UNCHANGED vars
      <3>1. AllFormed
        BY <2>2, <2>5 DEF Calm, vars
      <3>2. FormedNext
        BY <2>5, <3>1 DEF vars, AllFormed, FormedNext
      <3> QED BY <2>1, <3>2, FormedThen
    <2> QED BY <2>3, <2>4, <2>5 DEF Next
  <1> QED BY <1>1, <1>2, CalmSettled, CalmSound, PTL DEF Spec

-----------------------------------------------------------------------------
(* The jobs no merge has taken up                                          *)

\* No merge has written the job's row, or is about to.
InMergeOf(j) == \E c \in Clients : InMerge(task[c]) /\ j \in Range(task[c].jobs)
Free(j) == rows[j].group = 0 /\ ~InMergeOf(j)
FreeNext(j) == rows'[j].group = 0 /\ ~\E c \in Clients : InMerge(task'[c]) /\ j \in Range(task'[c].jobs)

\* It is so in the next state.
LEMMA FreeThen ==
  ASSUME UNCHANGED world, NEW j
  PROVE  Free(j)' = FreeNext(j)
  BY DEF Free, InMergeOf, FreeNext, InMerge, InThread, Clients

\* A row that has a group keeps one.
LEMMA GroupsStay ==
  ASSUME Typed, Stored, Step, NEW j \in Jobs, rows'[j].group = 0
  PROVE  rows[j].group = 0
  <1>1. \A k, cols : k \in Jobs /\ Alters(k, cols) /\ "group" \notin cols => rows'[j].group = rows[j].group
    BY DEF Alters, Columns
  <1>2. ASSUME NEW t \in Tasks, ThreadStep(t)
        PROVE  rows' = rows
    BY <1>2, Zenon DEF ThreadStep, TestTarget, ListTree, ReplaceDir, NextSource, TestFile, MoveFile, EndSource
  <1>3. ASSUME NEW c \in Clients,
               RenameRequested(c) \/ RenameNow(c) \/ MergeRequested(c) \/ ReadMember(c) \/ GatherMember(c) \/ DueListed(c)
        PROVE  rows' = rows
    BY <1>3 DEF RenameRequested, RenameNow, MergeRequested, ReadMember, GatherMember, DueListed
  <1>4. ASSUME NEW c \in Clients, DeferRename(c) \/ WriteRenamed(c) \/ RequeueDue(c)
        PROVE  rows'[j].group = rows[j].group
    <2>1. PICK k : k = task[c].jobs[1]
      OBVIOUS
    <2> QED BY <1>1, <1>4, <2>1, DeferRenameDoes, WriteRenamedDoes, RequeueDueDoes
  <1>5. ASSUME NEW c \in Clients, UpdateMember(c)
        PROVE  rows'[j].group = rows[j].group
    <2>1. PICK tk : tk = task[c]
      OBVIOUS
    <2>2. PICK k : k = tk.jobs[tk.i]
      OBVIOUS
    <2>3. /\ k \in Jobs /\ rows'[k].group # 0
          /\ \/ Alters(k, {"group", "gname", "dir", "dest"})
             \/ Alters(k, {"group", "gname", "rename_to"})
      BY <1>5, <2>1, <2>2, UpdateMemberDoes
    <2> QED BY <2>3 DEF Alters
  <1>6. ASSUME NEW c \in Clients, SetGroupName(c)
        PROVE  rows'[j].group = rows[j].group
    BY <1>6, SetGroupNameDoes DEF Columns
  <1>7. ASSUME NEW k \in Jobs,
               \/ StartRun(k) \/ DetectDir(k) \/ Downloaded(k) \/ LandFile(k) \/ RecordFiles(k) \/ ReadPending(k)
               \/ WriteApplied(k) \/ ClearPending(k) \/ Finish(k) \/ FailRun(k)
        PROVE  rows'[j].group = rows[j].group
    <2>1. PICK tk : tk = task[k]
      OBVIOUS
    <2>2. ReadPending(k) => rows' = rows
      BY DEF ReadPending
    <2>3. StartRun(k) => Alters(k, {"state"})
      BY StartRunDoes
    <2> QED BY <1>1, <1>7, <2>1, <2>2, <2>3, RunDoes
  <1>8. CASE Retry
    BY <1>1, <1>8, RetryDoes
  <1> QED BY <1>2, <1>3, <1>4, <1>5, <1>6, <1>7, <1>8 DEF Step

\* A merge that has read its members stays at them until they have a group.
LEMMA MergesStay ==
  ASSUME Settled, Sound, Step, NEW c \in Clients, InMerge(task[c]), NEW j \in Jobs, j \in Range(task[c].jobs)
  PROVE  (InMerge(task'[c]) /\ task'[c].jobs = task[c].jobs) \/ rows'[j].group # 0
  <1>1. PICK tk : tk = task[c]
    OBVIOUS
  <1>2. PICK q : q = task'[c]
    OBVIOUS
  <1>3. /\ Typed /\ Stored /\ AtWork /\ c \in Tasks /\ c \notin Jobs /\ IsTaskOf(c, tk)
        /\ Sure(tk, disk) /\ Grouped(tk, rows) /\ tk.jobs \in Seq(Jobs)
    BY <1>1, ClientFacts, InFields DEF Settled, Sound
  <1>4. /\ tk.at \in {"gathering", "updating", "naming", "thread", "moving"}
        /\ tk.at \in {"thread", "moving"} => tk.thread.then = "gathering"
    BY <1>1 DEF InMerge, InThread
  <1>5. ASSUME NEW t \in Tasks \ {c}, Proceeds(t)
        PROVE  InMerge(q) /\ q.jobs = tk.jobs
    BY <1>1, <1>2, <1>3, <1>5, OthersStand
  <1>6. CASE ThreadStep(c)
    <2>1. GoesOnAs(q, tk) /\ q.at \in {"thread", "moving", "gathering"}
      BY <1>1, <1>2, <1>3, <1>4, <1>6, ThreadSure, ThreadDoes
    <2>2. q.at # "gathering" => q.thread.then = tk.thread.then
      BY <1>1, <1>2, <1>3, <1>6, <2>1, ThreadDoes, Nothing DEF Raising
    <2>3. tk.at \in {"thread", "moving"}
      BY <1>1, <1>3, <1>6, ThreadDoes
    <2> QED BY <1>1, <1>2, <1>4, <2>1, <2>2, <2>3 DEF InMerge, InThread, GoesOnAs
  <1>7. CASE \/ RenameRequested(c) \/ DeferRename(c) \/ RenameNow(c) \/ WriteRenamed(c)
             \/ MergeRequested(c) \/ ReadMember(c) \/ DueListed(c) \/ RequeueDue(c)
    <2>1. tk.at \in {"idle", "rename", "renamed", "reading", "due"}
      BY <1>1, <1>7 DEF RenameRequested, DeferRename, RenameNow, WriteRenamed, MergeRequested, ReadMember,
                        DueListed, RequeueDue, Idle
    <2> QED BY <1>4, <2>1, Zenon
  <1>8. CASE GatherMember(c)
    <2>1. PICK job : job = tk.seen[tk.i]
      OBVIOUS
    <2>2. PICK loose : loose = Existing(job.dest, rows[tk.jobs[tk.i]].files)
      OBVIOUS
    <2>3. /\ q.jobs = tk.jobs
          /\ \/ q.at \in {"updating", "gathering"}
             \/ q.at = "moving" /\ q.thread = Gathering(job.dest, loose, Target(tk), "gathering")
      BY <1>1, <1>2, <1>3, <1>8, <2>1, <2>2, GatherMemberDoes
    <2>4. \A a, b, s : Gathering(a, s, b, "gathering").then = "gathering"
      BY DEF Gathering, NoThread
    <2> QED BY <1>1, <1>2, <2>3, <2>4 DEF InMerge, InThread
  <1>9. CASE UpdateMember(c)
    <2>1. q.jobs = tk.jobs /\ q.at \in {"updating", "naming"}
      BY <1>1, <1>2, <1>3, <1>9, UpdateMemberDoes
    <2> QED BY <1>1, <1>2, <2>1 DEF InMerge
  <1>10. CASE SetGroupName(c)
    <2>1. tk.at = "naming" /\ rows'[j].group = rows[j].group
      BY <1>1, <1>3, <1>10, SetGroupNameDoes DEF Columns
    <2>2. rows[j].group # 0
      BY <1>1, <1>3, <2>1 DEF Grouped, Range
    <2> QED BY <2>1, <2>2
  <1>11. CASE Retry
    BY <1>1, <1>2, <1>3, <1>11, RetryDoes
  <1>12. ASSUME NEW t \in Tasks, ThreadStep(t)
         PROVE  Proceeds(t)
    BY <1>3, <1>12, ThreadSteps
  <1>13. ASSUME NEW d \in Clients,
                \/ RenameRequested(d) \/ DeferRename(d) \/ RenameNow(d) \/ WriteRenamed(d)
                \/ MergeRequested(d) \/ ReadMember(d) \/ GatherMember(d) \/ UpdateMember(d) \/ SetGroupName(d)
                \/ DueListed(d) \/ RequeueDue(d)
         PROVE  Proceeds(d) /\ d \in Tasks
    BY <1>3, <1>13, RunsStand, ClientFacts
  <1>14. ASSUME NEW k \in Jobs,
                \/ StartRun(k) \/ DetectDir(k) \/ Downloaded(k) \/ LandFile(k) \/ RecordFiles(k) \/ ReadPending(k)
                \/ WriteApplied(k) \/ ClearPending(k) \/ Finish(k) \/ FailRun(k)
         PROVE  Proceeds(k) /\ k \in Tasks \ {c}
    BY <1>3, <1>14, RunStep, StartRunStep, ReadPendingStep, RunFacts
  <1> QED BY <1>1, <1>2, <1>5, <1>6, <1>7, <1>8, <1>9, <1>10, <1>11, <1>12, <1>13, <1>14 DEF Step

\* A job that is taken up stays so.
LEMMA StaysFree ==
  ASSUME Settled, Sound, Step, NEW j \in Jobs, FreeNext(j)
  PROVE  Free(j)
  <1>1. rows[j].group = 0
    BY GroupsStay DEF Settled, FreeNext
  <1>2. ASSUME NEW c \in Clients, InMerge(task[c]), j \in Range(task[c].jobs)
        PROVE  FALSE
    BY <1>2, MergesStay DEF FreeNext
  <1> QED BY <1>1, <1>2 DEF Free, InMergeOf

-----------------------------------------------------------------------------
(* The names of a free job are its own                                     *)

Own(j) == OwnOf(world, j)

\* A name that the row or the run of job k may have, as far as job j is concerned.
Belongs(j, k, name) == IF k = j THEN name \in Own(j) \cup {NoDir} ELSE name \notin Own(j)

OwnRow(j, k, row, tk) ==
    /\ Belongs(j, k, row.dir) /\ Belongs(j, k, row.rename_to)
    /\ Applying(tk) => Belongs(j, k, tk.name)

OwnNamed == \A j, k \in Jobs : Free(j) => OwnRow(j, k, rows[k], task[k])
OwnNext == \A j, k \in Jobs : FreeNext(j) => OwnRow(j, k, rows'[k], task'[k])

\* It is the invariant of the next state.
LEMMA OwnThen ==
  ASSUME UNCHANGED world, OwnNext
  PROVE  OwnNamed'
  <1>1. UNCHANGED Jobs /\ \A j : Free(j)' = FreeNext(j)
    BY FreeThen DEF Jobs
  <1>2. \A j, k : OwnRow(j, k, rows[k], task[k])' = OwnRow(j, k, rows'[k], task'[k])
    BY DEF OwnRow, Belongs, Own, Applying
  <1> QED BY <1>1, <1>2 DEF OwnNamed, OwnNext

\* The names a source and a user give.
LEMMA GivenNames ==
  ASSUME OwnDirs(world), NEW j \in Jobs, NEW k \in Jobs
  PROVE  /\ Belongs(j, k, NoDir) /\ Belongs(j, k, DirOf[k])
         /\ \A name \in NamesOf[k] : Belongs(j, k, name)
         /\ \A m \in Merges : j \notin Range(m.jobs) => m.name \notin Own(j)
  <1>1. \A name \in {DirOf[k]} \cup NamesOf[k] : name \in Own(k) \cup {NoDir}
    BY DEF Own, OwnOf, DirOf, NamesOf
  <1>2. k # j => Own(j) \cap Own(k) = {}
    BY DEF OwnDirs, Own, Jobs
  <1>3. NoDir \notin Own(j)
    BY DEF Own, OwnOf
  <1>4. \A m \in Merges : j \notin Range(m.jobs) => m.name \notin Own(j)
    BY DEF OwnDirs, Own, Jobs, Merges
  <1> QED BY <1>1, <1>2, <1>3, <1>4 DEF Belongs

\* A step that writes no row but that of k.
LEMMA OneOwn ==
  ASSUME OwnNamed, \A j \in Jobs : FreeNext(j) => Free(j),
         NEW k \in Jobs, \A i \in Jobs \ {k} : rows'[i] = rows[i] /\ task'[i] = task[i],
         \A j \in Jobs : FreeNext(j) /\ OwnRow(j, k, rows[k], task[k]) => OwnRow(j, k, rows'[k], task'[k])
  PROVE  OwnNext
  BY DEF OwnNamed, OwnNext

\* The steps of requests.
LEMMA RequestOwn ==
  ASSUME Settled, OwnNamed, OwnDirs(world), \A j \in Jobs : FreeNext(j) => Free(j), NEW c \in Clients,
         \/ RenameRequested(c) \/ DeferRename(c) \/ RenameNow(c) \/ WriteRenamed(c)
         \/ MergeRequested(c) \/ ReadMember(c) \/ GatherMember(c) \/ UpdateMember(c) \/ SetGroupName(c)
         \/ DueListed(c) \/ RequeueDue(c)
         \/ ThreadStep(c)
  PROVE  OwnNext
  <1>1. PICK tk : tk = task[c]
    OBVIOUS
  <1>2. Typed /\ Stored /\ \A k \in Jobs : task'[k] = task[k]
    BY RunsStand DEF Settled
  <1>3. Knows(tk, rows) /\ tk.jobs \in Seq(Jobs)
    BY <1>1, ClientFacts, InFields DEF Knowing, Settled
  <1>4. CASE rows' = rows
    BY <1>2, <1>4 DEF OwnNamed, OwnNext
  <1>5. CASE DeferRename(c)
    <2>1. PICK k : k = tk.jobs[1]
      OBVIOUS
    <2>2. k \in Jobs /\ Alters(k, {"rename_to"}) /\ rows'[k].rename_to = tk.name /\ tk.at = "rename"
      BY <1>1, <1>2, <1>5, <2>1, DeferRenameDoes
    <2>3. tk.name \in NamesOf[k]
      BY <1>3, <2>1, <2>2 DEF Knows, InRename
    <2>4. \A j \in Jobs : OwnRow(j, k, rows[k], task[k]) => OwnRow(j, k, rows'[k], task'[k])
      BY <1>2, <2>2, <2>3, GivenNames DEF OwnRow, Alters, Columns
    <2> QED BY <1>2, <2>2, <2>4, OneOwn DEF Alters
  <1>6. CASE WriteRenamed(c)
    <2>1. PICK k : k = tk.jobs[1]
      OBVIOUS
    <2>2. k \in Jobs /\ Alters(k, {"dir"}) /\ rows'[k].dir = tk.name /\ tk.at = "renamed"
      BY <1>1, <1>2, <1>6, <2>1, WriteRenamedDoes
    <2>3. tk.name \in NamesOf[k]
      BY <1>3, <2>1, <2>2 DEF Knows, InRename
    <2>4. \A j \in Jobs : OwnRow(j, k, rows[k], task[k]) => OwnRow(j, k, rows'[k], task'[k])
      BY <1>2, <2>2, <2>3, GivenNames DEF OwnRow, Alters, Columns
    <2> QED BY <1>2, <2>2, <2>4, OneOwn DEF Alters
  <1>7. CASE UpdateMember(c)
    <2>1. PICK k : k = tk.jobs[tk.i]
      OBVIOUS
    <2>2. PICK q : q = task'[c]
      OBVIOUS
    <2>3. /\ tk.at = "updating" /\ k \in Jobs /\ tk.i \in DOMAIN tk.jobs
          /\ \/ Alters(k, {"group", "gname", "dir", "dest"}) /\ rows'[k].dir = tk.name
             \/ Alters(k, {"group", "gname", "rename_to"}) /\ rows'[k].rename_to = tk.name
          /\ q.jobs = tk.jobs /\ q.at \in {"updating", "naming"}
      BY <1>1, <1>2, <1>7, <2>1, <2>2, UpdateMemberDoes
    <2>4. PICK m \in Merges : tk.jobs = m.jobs /\ tk.name = m.name
      BY <1>3, <2>3 DEF Knows, InMerge
    <2>5. \A j \in Jobs : FreeNext(j) => j \notin Range(tk.jobs)
      BY <2>2, <2>3 DEF FreeNext, InMerge
    <2>6. \A j \in Jobs : FreeNext(j) => j # k /\ tk.name \notin Own(j)
      BY <2>1, <2>3, <2>4, <2>5, GivenNames DEF Range
    <2>7. ASSUME NEW j \in Jobs, FreeNext(j), OwnRow(j, k, rows[k], task[k])
          PROVE  OwnRow(j, k, rows'[k], task'[k])
      BY <1>2, <2>3, <2>6, <2>7 DEF OwnRow, Belongs, Alters, Columns
    <2> QED BY <1>2, <2>3, <2>7, OneOwn DEF Alters
  <1>8. CASE SetGroupName(c)
    <2>1. \A k \in Jobs : rows'[k].dir = rows[k].dir /\ rows'[k].rename_to = rows[k].rename_to
      BY <1>2, <1>8, SetGroupNameDoes DEF Columns
    <2> QED BY <1>2, <2>1 DEF OwnNamed, OwnNext, OwnRow
  <1>9. CASE RequeueDue(c)
    <2>1. PICK k : k = tk.jobs[1]
      OBVIOUS
    <2>2. /\ k \in Jobs /\ tk.at = "due" /\ Alters(k, {"state", "rename_to"})
          /\ rows'[k].rename_to = tk.seen[1].dir
      BY <1>1, <1>2, <1>9, <2>1, RequeueDueDoes
    <2>3. tk.seen[1] = rows[k]
      BY <1>3, <2>1, <2>2 DEF Knows
    <2>4. \A j \in Jobs : OwnRow(j, k, rows[k], task[k]) => OwnRow(j, k, rows'[k], task'[k])
      BY <1>2, <2>2, <2>3 DEF OwnRow, Alters, Columns
    <2> QED BY <1>2, <2>2, <2>4, OneOwn DEF Alters
  <1> QED BY <1>2, <1>4, <1>5, <1>6, <1>7, <1>8, <1>9, RunsStand

\* The steps of runs and their threads.
LEMMA RunOwn ==
  ASSUME Settled, Sound, OwnNamed, OwnDirs(world), OneDir(world), \A j \in Jobs : FreeNext(j) => Free(j), NEW k \in Jobs,
         \/ StartRun(k) \/ DetectDir(k) \/ Downloaded(k) \/ LandFile(k) \/ RecordFiles(k) \/ ReadPending(k)
         \/ WriteApplied(k) \/ ClearPending(k) \/ Finish(k) \/ FailRun(k)
         \/ ThreadStep(k)
  PROVE  OwnNext
  <1>1. PICK tk : tk = task[k]
    OBVIOUS
  <1>2. PICK q : q = task'[k]
    OBVIOUS
  <1>3. Typed /\ Stored /\ AtWork /\ Sure(tk, disk) /\ k \in Tasks
    BY <1>1, RunFacts DEF Settled, Sound
  <1>4. Proceeds(k)
    BY <1>3, RunStep, StartRunStep, ReadPendingStep, ThreadSteps
  <1>5. /\ \A i \in Jobs \ {k} : rows'[i] = rows[i]
        /\ \A j \in Jobs : OwnRow(j, k, rows[k], tk) => OwnRow(j, k, rows'[k], q)
    <2>1. CASE StartRun(k)
      <3>1. Alters(k, {"state"}) /\ q.at = "downloading"
        BY <1>2, <1>3, <2>1, StartRunDoes
      <3> QED BY <3>1 DEF OwnRow, Applying, Alters, Columns
    <2>2. CASE DetectDir(k)
      <3>1. q.at = "detected" /\ Alters(k, {"dir"}) /\ rows'[k].dir = DirOf[k]
        BY <1>1, <1>2, <1>3, <2>2, RunDoes, OneDirFacts
      <3> QED BY <3>1, GivenNames DEF OwnRow, Applying, Alters, Columns
    <2>3. CASE Downloaded(k)
      <3>1. rows' = rows /\ q.at = "landing"
        BY <1>1, <1>2, <1>3, <2>3, RunDoes
      <3> QED BY <3>1 DEF OwnRow, Applying
    <2>10. CASE LandFile(k)
      <3>1. rows' = rows /\ q.at = "landing"
        BY <1>1, <1>2, <1>3, <2>10, RunDoes
      <3> QED BY <3>1 DEF OwnRow, Applying
    <2>4. CASE RecordFiles(k)
      <3>1. q.at = "recorded" /\ Alters(k, {"files"})
        BY <1>1, <1>2, <1>3, <2>4, RunDoes
      <3> QED BY <3>1 DEF OwnRow, Applying, Alters, Columns
    <2>5. CASE ReadPending(k)
      <3>1. PICK job : job = rows[k]
        OBVIOUS
      <3>2. PICK base : base = tk.seen[1].dest
        OBVIOUS
      <3>3. rows' = rows /\ (q.at \in {"verdict", "clearing"} \/ q.name = job.rename_to)
        BY <1>1, <1>2, <1>3, <2>5, <3>1, <3>2, ReadPendingDoes
      <3> QED BY <3>1, <3>3 DEF OwnRow, Applying
    <2>6. CASE WriteApplied(k)
      <3>1. /\ tk.at = "renamed" /\ q.at = "verdict" /\ Alters(k, {"dir", "rename_to"})
            /\ rows'[k].dir = tk.name /\ rows'[k].rename_to = NoDir
        BY <1>1, <1>2, <1>3, <2>6, RunDoes
      <3> QED BY <3>1, GivenNames DEF OwnRow, Applying, Alters, Columns
    <2>7. CASE ClearPending(k)
      <3>1. q.at = "verdict" /\ Alters(k, {"rename_to"}) /\ rows'[k].rename_to = NoDir
        BY <1>1, <1>2, <1>3, <2>7, RunDoes
      <3> QED BY <3>1, GivenNames DEF OwnRow, Applying, Alters, Columns
    <2>8. CASE Finish(k) \/ FailRun(k)
      <3>1. q.at = "idle" /\ Alters(k, {"state"})
        BY <1>1, <1>2, <1>3, <2>8, RunDoes, Nothing
      <3> QED BY <3>1 DEF OwnRow, Applying, Alters, Columns
    <2>9. CASE ThreadStep(k)
      <3>1. tk.at \in {"thread", "moving"} /\ rows' = rows
        BY <1>1, <1>3, <2>9, ThreadDoes
      <3>2. q.name = tk.name
        BY <1>1, <1>2, <1>3, <2>9, ThreadSure DEF GoesOnAs
      <3> QED BY <3>1, <3>2 DEF OwnRow, Applying
    <2> QED BY <2>1, <2>2, <2>3, <2>4, <2>5, <2>6, <2>7, <2>8, <2>9, <2>10
  <1>6. \A i \in Jobs \ {k} : task'[i] = task[i]
    BY <1>3, <1>4, OthersStand DEF Tasks
  <1> QED BY <1>1, <1>2, <1>5, <1>6, OneOwn

\* Every step.
LEMMA StepOwn ==
  ASSUME Settled, Sound, OwnNamed, OwnDirs(world), OneDir(world), Step
  PROVE  OwnNext
  <1>1. \A j \in Jobs : FreeNext(j) => Free(j)
    BY StaysFree
  <1>2. CASE Retry
    <2>1. PICK k \in Jobs : task' = task /\ Alters(k, {"state"})
      BY <1>2, RetryDoes DEF Settled
    <2>2. \A j \in Jobs : OwnRow(j, k, rows[k], task[k]) => OwnRow(j, k, rows'[k], task'[k])
      BY <2>1 DEF OwnRow, Alters, Columns
    <2> QED BY <1>1, <2>1, <2>2, OneOwn DEF Alters
  <1>3. ASSUME NEW t \in Tasks, ThreadStep(t)
        PROVE  OwnNext
    BY <1>1, <1>3, RequestOwn, RunOwn DEF Tasks
  <1> QED BY <1>1, <1>2, <1>3, RequestOwn, RunOwn DEF Step

\* The worlds in which the names of directories are the jobs' own.
Owned == OwnDirs(world) /\ OneDir(world)

\* A free job has a directory of its own, and no other job has, will have or is
\* getting one of its names.
LEMMA CalmOwn == Spec => [](Calm /\ Owned => OwnNamed)
  <1>1. Init => (Owned => OwnNamed)
    <2> SUFFICES ASSUME Init, Owned PROVE OwnNamed
      OBVIOUS
    <2>1. \A t \in Tasks : task[t].at = "idle"
      BY InitTyped, Nothing DEF Init
    <2>2. ASSUME NEW j \in Jobs, NEW k \in Jobs
          PROVE  OwnRow(j, k, rows[k], task[k])
      <3>1. rows[k] = NewRow(k) /\ task[k].at = "idle"
        BY <2>1, <2>2 DEF Init, Tasks
      <3>2. rows[k].dir \in {NoDir, DirOf[k]} /\ rows[k].rename_to = NoDir
        BY <3>1 DEF NewRow
      <3> QED BY <3>1, <3>2, GivenNames DEF OwnRow, Applying, Owned
    <2> QED BY <2>2 DEF OwnNamed
  <1>2. /\ (Calm => Settled) /\ (Calm => Sound) /\ (Calm /\ Owned => OwnNamed) /\ [Next]_vars
        => (Calm /\ Owned => OwnNamed)'
    <2> SUFFICES ASSUME Calm => Settled, Calm => Sound, Calm /\ Owned => OwnNamed, [Next]_vars,
                        Calm', Owned'
                 PROVE  OwnNamed'
      OBVIOUS
    <2>1. UNCHANGED world
      BY DEF Next, vars
    <2>2. ~Overlap /\ Owned
      BY <2>1 DEF Calm, Overlap, Owned
    <2>3. CASE Step /\ UNCHANGED <<world, crashed>>
      BY <2>1, <2>2, <2>3, StepOwn, OwnThen DEF Calm, Owned
    <2>4. CASE Crash
      BY <2>4 DEF Crash, Calm
    <2>5. CASE UNCHANGED vars
      <3>1. OwnNamed
        BY <2>2, <2>5 DEF Calm, vars
      <3>2. OwnNext
        BY <2>5, <3>1 DEF vars, OwnNamed, OwnNext, Free, FreeNext, InMergeOf
      <3> QED BY <2>1, <3>2, OwnThen
    <2> QED BY <2>3, <2>4, <2>5 DEF Next
  <1> QED BY <1>1, <1>2, CalmSettled, CalmSound, PTL DEF Spec

-----------------------------------------------------------------------------
(* What has landed is there                                                *)

\* The files of a run that its thread has moved from staging.
Landed(j, tk, d) ==
    tk.at = "landing" => \A rel \in Downloads(j) \ tk.thread.todo : In(tk.seen[1].dest, rel) \in DOMAIN d

AllLanded == \A j \in Jobs : Landed(j, task[j], disk)
LandedNext == \A j \in Jobs : Landed(j, task'[j], disk')

\* It is the invariant of the next state.
LEMMA LandedThen ==
  ASSUME UNCHANGED world, LandedNext
  PROVE  AllLanded'
  <1>1. UNCHANGED Jobs /\ \A j : Downloads(j)' = Downloads(j)
    BY SameWorld DEF Constants
  <1> QED BY <1>1 DEF AllLanded, LandedNext, Landed

\* While one task is busy, and when none is, no other has files that land.
LEMMA OnlyOneLands ==
  ASSUME Typed, AtWork, ~Overlap, NEW t \in Tasks, Busy(t) \/ MayBegin, Proceeds(t),
         t \in Jobs => Landed(t, task'[t], disk')
  PROVE  LandedNext
  <1>1. ASSUME NEW j \in Jobs, j # t
        PROVE  Landed(j, task'[j], disk')
    <2>1. j \in Tasks
      BY RunFacts
    <2>2. task'[j] = task[j] /\ ~Busy(j)
      BY <1>1, <2>1, OthersStand, OthersRest
    <2> QED BY <2>2 DEF Busy, Landed
  <1> QED BY <1>1 DEF LandedNext

\* The steps of a run.
LEMMA RunLands ==
  ASSUME Typed, NEW j \in Jobs, Landed(j, task[j], disk),
         \/ Downloaded(j) \/ LandFile(j) \/ RecordFiles(j) \/ ReadPending(j) \/ WriteApplied(j) \/ ClearPending(j) \/ Finish(j)
  PROVE  Landed(j, task'[j], disk')
  <1>1. PICK tk : tk = task[j]
    OBVIOUS
  <1>2. PICK q : q = task'[j]
    OBVIOUS
  <1>3. CASE Downloaded(j)
    <2>1. q.thread.todo = Downloads(j)
      BY <1>1, <1>2, <1>3, RunDoes
    <2> QED BY <1>2, <2>1 DEF Landed
  <1>4. CASE LandFile(j)
    <2>1. tk.at = "landing" /\ q.seen = tk.seen
      BY <1>1, <1>2, <1>4, RunDoes
    <2>2. PICK dest : dest = tk.seen[1].dest
      OBVIOUS
    <2>3. PICK rel \in tk.thread.todo :
             disk' = Arrived(dest, j, rel, disk) /\ q.thread.todo = tk.thread.todo \ {rel}
      BY <1>1, <1>2, <1>4, <2>2, RunDoes
    <2>4. DOMAIN disk' = DOMAIN disk \cup {In(dest, rel)}
      BY <2>3 DEF Arrived
    <2> QED BY <1>1, <1>2, <2>1, <2>2, <2>3, <2>4 DEF Landed
  <1>5. CASE RecordFiles(j) \/ WriteApplied(j) \/ ClearPending(j) \/ Finish(j)
    <2>1. q.at \in {"recorded", "verdict", "idle"}
      BY <1>1, <1>2, <1>5, RunDoes, Nothing
    <2> QED BY <1>2, <2>1 DEF Landed
  <1>6. CASE ReadPending(j)
    <2>1. PICK base : base = tk.seen[1].dest
      OBVIOUS
    <2>2. q.at \in {"verdict", "clearing", "thread", "moving"}
      BY <1>1, <1>2, <1>6, <2>1, ReadPendingDoes
    <2> QED BY <1>2, <2>2 DEF Landed
  <1> QED BY <1>3, <1>4, <1>5, <1>6

\* Every step.
LEMMA StepLands ==
  ASSUME Settled, Sound, AllLanded, ~Overlap, Step
  PROVE  LandedNext
  <1>1. Typed /\ Stored /\ AtWork /\ \A c \in Clients : c \in Tasks /\ c \notin Jobs
    BY ClientFacts DEF Settled
  <1>2. ASSUME NEW t \in Tasks, ThreadStep(t)
        PROVE  LandedNext
    <2>1. Proceeds(t) /\ Busy(t)
      BY <1>1, <1>2, ThreadSteps
         DEF Busy, ThreadStep, TestTarget, ListTree, ReplaceDir, NextSource, TestFile, MoveFile, EndSource
    <2>2. task'[t].at \in {"thread", "moving", "renamed", "gathering"}
      BY <1>1, <1>2, ThreadSure DEF Sound
    <2>3. Landed(t, task'[t], disk')
      BY <2>2 DEF Landed
    <2> QED BY <1>1, <2>1, <2>3, OnlyOneLands, Zenon
  <1>3. ASSUME NEW c \in Clients,
               \/ RenameRequested(c) \/ DeferRename(c) \/ RenameNow(c) \/ WriteRenamed(c)
               \/ MergeRequested(c) \/ ReadMember(c) \/ GatherMember(c) \/ UpdateMember(c) \/ SetGroupName(c)
               \/ DueListed(c) \/ RequeueDue(c)
        PROVE  LandedNext
    <2>1. (Busy(c) \/ MayBegin) /\ Proceeds(c)
      BY <1>1, <1>3, RequestSure
    <2> QED BY <1>1, <2>1, OnlyOneLands
  <1>4. ASSUME NEW j \in Jobs,
               Downloaded(j) \/ LandFile(j) \/ RecordFiles(j) \/ ReadPending(j) \/ WriteApplied(j) \/ ClearPending(j) \/ Finish(j)
        PROVE  LandedNext
    <2>1. (Busy(j) \/ MayBegin) /\ Proceeds(j)
      BY <1>1, <1>4, RunSure
    <2>2. Landed(j, task'[j], disk')
      BY <1>1, <1>4, RunLands DEF AllLanded
    <2> QED BY <1>1, <2>1, <2>2, RunFacts, OnlyOneLands
  <1>5. ASSUME NEW j \in Jobs, Bystands(j)
        PROVE  LandedNext
    <2>1. /\ disk' = disk /\ (\A u \in Tasks \ {j} : task'[u] = task[u])
          /\ task'[j].at \in {"idle", "downloading", "detected"}
      BY <1>1, <1>5, BystandDoes
    <2>2. Landed(j, task'[j], disk')
      BY <2>1 DEF Landed
    <2>3. \A k \in Jobs : k \in Tasks
      BY DEF Tasks
    <2> QED BY <2>1, <2>2, <2>3 DEF AllLanded, LandedNext
  <1>6. CASE Retry
    <2>1. disk' = disk /\ task' = task
      BY <1>1, <1>6, RetryDoes
    <2> QED BY <2>1 DEF AllLanded, LandedNext
  <1> QED BY <1>2, <1>3, <1>4, <1>5, <1>6, FailuresStandBy DEF Step, Bystands

\* Where requests and ends of runs wait for each other nothing takes away what lands.
LEMMA CalmLanded == Spec => [](Calm => AllLanded)
  <1>1. Init => AllLanded
    <2> SUFFICES ASSUME Init PROVE AllLanded
      OBVIOUS
    <2>1. \A t \in Tasks : task[t].at = "idle"
      BY InitTyped, Nothing DEF Init
    <2> QED BY <2>1 DEF AllLanded, Landed, Tasks
  <1>2. (Calm => Settled) /\ (Calm => Sound) /\ (Calm => AllLanded) /\ [Next]_vars => (Calm => AllLanded)'
    <2> SUFFICES ASSUME Calm => Settled, Calm => Sound, Calm => AllLanded, [Next]_vars, Calm'
                 PROVE  AllLanded'
      OBVIOUS
    <2>1. UNCHANGED world
      BY DEF Next, vars
    <2>2. ~Overlap
      BY <2>1 DEF Calm, Overlap
    <2>3. CASE Step /\ UNCHANGED <<world, crashed>>
      BY <2>1, <2>2, <2>3, StepLands, LandedThen DEF Calm
    <2>4. CASE Crash
      BY <2>4 DEF Crash, Calm
    <2>5. CASE UNCHANGED vars
      <3>1. AllLanded
        BY <2>2, <2>5 DEF Calm, vars
      <3>2. LandedNext
        BY <2>5, <3>1 DEF vars, AllLanded, LandedNext
      <3> QED BY <2>1, <3>2, LandedThen
    <2> QED BY <2>3, <2>4, <2>5 DEF Next
  <1> QED BY <1>1, <1>2, CalmSettled, CalmSound, PTL DEF Spec

-----------------------------------------------------------------------------
(* Threads leave the files of other free jobs alone                        *)

\* The worlds in which jobs have files and names of their own, and all that holds in them.
Separate == Level(world) /\ OwnNames(world) /\ OwnDirs(world) /\ Plain(world)
Steady == Settled /\ Sound /\ AllFormed /\ OwnNamed /\ AllLanded /\ OneDir(world)

\* An output directory with a name that is not the job's.
Alien(j, path) == \E d \in Range(DestOf) : \E n \in NameSet : n \notin Own(j) /\ path = d \o <<n>>

\* A thread moves no file of the job, empties no directory of it, and fills none.
Spares(tk, j) ==
    /\ tk.at \in {"reading", "thread", "moving"} => \A i \in DOMAIN tk.thread.more : Alien(j, tk.thread.more[i])
    /\ tk.at = "thread" /\ tk.thread.mode \in {"rename", "over", "whole"} => Alien(j, tk.thread.from)
    /\ tk.at = "moving" /\ tk.thread.mode # "gather" => Alien(j, tk.thread.from)
    /\ tk.at = "moving" /\ tk.thread.mode = "gather" => \A rel \in tk.thread.todo : rel.name \notin FilesOf[j]
    /\ tk.at \in {"thread", "moving"} => Alien(j, tk.thread.to)

\* The jobs that a task is about.
Concerns(t, tk, j) ==
    IF t \in Jobs THEN t = j ELSE IF InRename(tk) THEN tk.jobs[1] = j ELSE j \in Range(tk.jobs)

Spared == \A j \in Jobs : Free(j) => \A t \in Tasks : Concerns(t, task[t], j) \/ Spares(task[t], j)
SparedNext == \A j \in Jobs : FreeNext(j) => \A t \in Tasks : Concerns(t, task'[t], j) \/ Spares(task'[t], j)

\* It is the invariant of the next state.
LEMMA SparedThen ==
  ASSUME UNCHANGED world, SparedNext
  PROVE  Spared'
  <1>1. UNCHANGED <<Jobs, Tasks>> /\ \A j : Free(j)' = FreeNext(j)
    BY FreeThen DEF Jobs, Tasks, Clients
  <1>2. UNCHANGED <<DestOf, NameSet, FilesOf>> /\ \A j : UNCHANGED Own(j)
    BY DEF DestOf, NameSet, FilesOf, Own
  <1>3. \A j, path : UNCHANGED Alien(j, path)
    BY <1>2 DEF Alien
  <1>4. \A t, j : Spares(task[t], j)' = Spares(task'[t], j)
    BY <1>2, <1>3 DEF Spares
  <1>5. \A t, j : Concerns(t, task[t], j)' = Concerns(t, task'[t], j)
    BY <1>1 DEF Concerns, InRename, InThread
  <1> QED BY <1>1, <1>4, <1>5 DEF Spared, SparedNext

\* A task that moves nothing spares every job.
LEMMA SparingAll ==
  ASSUME NEW tk, tk.at \notin {"reading", "thread", "moving"}, NEW j
  PROVE  Spares(tk, j)
  BY DEF Spares

\* While one task is busy, and when none is, the others move nothing.
LEMMA OnlyOneSpares ==
  ASSUME Settled, ~Overlap, NEW t \in Tasks, Busy(t) \/ MayBegin, Proceeds(t),
         \A j \in Jobs : FreeNext(j) => Concerns(t, task'[t], j) \/ Spares(task'[t], j)
  PROVE  SparedNext
  <1>1. ASSUME NEW u \in Tasks, u # t, NEW j
        PROVE  Spares(task'[u], j)
    <2>1. task'[u] = task[u] /\ ~Busy(u)
      BY <1>1, OthersStand, OthersRest DEF Settled
    <2> QED BY <2>1, SparingAll DEF Busy
  <1> QED BY <1>1 DEF SparedNext

\* A directory with a name of another job.
LEMMA AlienTo ==
  ASSUME NEW j \in Jobs, NEW row \in RowType, NEW n \in NameSet, n \notin Own(j)
  PROVE  Alien(j, row.dest \o <<n>>)
  BY RowFacts DEF Alien

\* The directory of another job.
LEMMA AlienDir ==
  ASSUME Typed, OwnNamed, NEW j \in Jobs, Free(j), NEW k \in Jobs \ {j}
  PROVE  Alien(j, OutputDir(rows[k]))
  <1>1. rows[k] \in RowType
    BY DEF Typed
  <1>2. rows[k].dir \notin Own(j)
    BY DEF OwnNamed, OwnRow, Belongs
  <1> QED BY <1>1, <1>2, RowFacts DEF Alien, OutputDir

\* The files of another job.
LEMMA AlienFiles ==
  ASSUME Typed, AllFormed, OwnNames(world), NEW j \in Jobs, NEW k \in Jobs \ {j}
  PROVE  \A rel \in rows[k].files : rel.name \notin FilesOf[j]
  <1>1. rows[k].files \subseteq Downloads(k)
    BY DEF AllFormed, Formed
  <1>2. FilesOf[k] \cap FilesOf[j] = {}
    BY DEF OwnNames, FilesOf, Jobs
  <1> QED BY <1>1, <1>2, Dirs DEF Typed

\* A thread that spares a job goes on to.
LEMMA ThreadSpares ==
  ASSUME Typed, Stored, NEW t \in Tasks, Sure(task[t], disk), NEW j \in Jobs, Spares(task[t], j),
         ThreadStep(t)
  PROVE  Spares(task'[t], j)
  <1>1. PICK tk : tk = task[t]
    OBVIOUS
  <1>2. PICK th : th = tk.thread
    OBVIOUS
  <1>3. PICK q : q = task'[t]
    OBVIOUS
  <1>4. IsTask(tk) /\ IsThread(th) /\ tk.at \in {"thread", "moving"}
    BY <1>1, <1>2, InFields, ThreadDoes
  <1>5. /\ GoesOnAs(q, tk) /\ q.at \in {"thread", "moving", th.then} /\ th.then \in {"renamed", "gathering"}
    BY <1>1, <1>2, <1>3, ThreadSure
  <1>6. Alien(j, th.to) /\ \A i \in DOMAIN th.more : Alien(j, th.more[i])
    BY <1>1, <1>2, <1>4 DEF Spares
  <1>7. CASE TestTarget(t) \/ ListTree(t) \/ ReplaceDir(t)
    <2>1. /\ th.mode \in {"rename", "over", "whole"} /\ tk.at = "thread"
          /\ \/ /\ q.at = "thread" /\ q.thread.mode \in {"over", "whole"} /\ q.thread.from = th.from
                /\ q.thread.more = th.more /\ q.thread.to = th.to
             \/ /\ q.at = "moving" /\ q.thread.mode = "over" /\ q.thread.from = th.from
                /\ q.thread.more = th.more /\ q.thread.to = th.to
             \/ q.at \notin {"reading", "thread", "moving"}
      <3>1. CASE TestTarget(t)
        BY <1>1, <1>2, <1>3, <3>1, TestTargetDoes DEF SameCall
      <3>2. CASE ListTree(t)
        BY <1>1, <1>2, <1>3, <3>2, ListTreeDoes DEF SameCall
      <3>3. CASE ReplaceDir(t)
        BY <1>1, <1>2, <1>3, <1>5, <3>3, ReplaceDirSure
      <3> QED BY <1>7, <3>1, <3>2, <3>3
    <2>2. Alien(j, th.from)
      BY <1>1, <1>2, <2>1 DEF Spares
    <2> QED BY <1>3, <1>6, <2>1, <2>2 DEF Spares
  <1>8. CASE NextSource(t)
    <2>1. \/ q.at = th.then
          \/ /\ th.more # <<>> /\ q.thread.mode = "aside" /\ q.thread.from = Head(th.more)
             /\ q.thread.more = Tail(th.more) /\ q.at \in {"thread", "moving"} /\ q.thread.to = th.to
      BY <1>1, <1>2, <1>3, <1>8, NextSourceDoes DEF SameCall
    <2>2. ASSUME th.more # <<>>
          PROVE  Alien(j, Head(th.more)) /\ \A i \in DOMAIN Tail(th.more) : Alien(j, Tail(th.more)[i])
      BY <1>4, <1>6, <2>2, HeadTailProperties DEF IsThread
    <2> QED BY <1>3, <1>5, <1>6, <2>1, <2>2 DEF Spares
  <1>9. CASE TestFile(t) \/ MoveFile(t)
    <2>1. /\ tk.at = "moving" /\ q.at = "moving" /\ q.thread.mode = th.mode /\ q.thread.from = th.from
          /\ q.thread.more = th.more /\ q.thread.todo \subseteq th.todo /\ q.thread.to = th.to
      <3>1. CASE TestFile(t)
        BY <1>1, <1>2, <1>3, <3>1, TestFileSure DEF SameCall
      <3>2. CASE MoveFile(t)
        BY <1>1, <1>2, <1>3, <3>2, MoveFileSure DEF SameCall
      <3> QED BY <1>9, <3>1, <3>2
    <2> QED BY <1>1, <1>2, <1>3, <1>6, <2>1 DEF Spares
  <1>10. CASE EndSource(t)
    <2>1. q.thread = th /\ q.at = IF th.mode = "aside" THEN "thread" ELSE th.then
      BY <1>1, <1>2, <1>3, <1>10, EndSourceDoes
    <2> QED BY <1>3, <1>5, <1>6, <2>1 DEF Spares
  <1> QED BY <1>7, <1>8, <1>9, <1>10 DEF ThreadStep

\* The steps of a thread.
LEMMA ThreadSpared ==
  ASSUME Steady, Spared, ~Overlap, \A j \in Jobs : FreeNext(j) => Free(j), NEW t \in Tasks,
         ThreadStep(t)
  PROVE  SparedNext
  <1>1. PICK tk : tk = task[t]
    OBVIOUS
  <1>2. PICK q : q = task'[t]
    OBVIOUS
  <1>3. Typed /\ Stored /\ Sure(tk, disk)
    BY <1>1 DEF Steady, Settled, Sound
  <1>4. Proceeds(t)
    BY <1>3, ThreadSteps
  <1>5. tk.at \in {"thread", "moving"} /\ Busy(t)
    BY <1>1, <1>3, ThreadDoes DEF Busy
  <1>6. GoesOnAs(q, tk) /\ q.at \in {"thread", "moving", tk.thread.then} /\ tk.thread.then \in {"renamed", "gathering"}
    BY <1>1, <1>2, <1>3, ThreadSure
  <1>7. q.at \in {"thread", "moving"} => q.thread.then = tk.thread.then
    BY <1>1, <1>2, <1>3, <1>6, ThreadDoes, Nothing DEF Raising
  <1>8. ASSUME NEW j \in Jobs, FreeNext(j)
        PROVE  Concerns(t, q, j) \/ Spares(q, j)
    <2>1. CASE q.at \in {"renamed", "gathering"}
      BY <2>1, SparingAll
    <2>2. CASE Spares(tk, j)
      BY <1>1, <1>2, <1>3, <2>2, ThreadSpares
    <2>3. CASE Concerns(t, tk, j) /\ q.at \in {"thread", "moving"}
      <3>1. q.jobs = tk.jobs /\ (InRename(q) <=> InRename(tk))
        BY <1>5, <1>6, <1>7, <2>3 DEF InRename, InThread, GoesOnAs
      <3> QED BY <2>3, <3>1 DEF Concerns
    <2> QED BY <1>1, <1>6, <1>8, <2>1, <2>2, <2>3 DEF Spared
  <1> QED BY <1>2, <1>4, <1>5, <1>8, OnlyOneSpares DEF Steady

\* The steps of requests.
LEMMA RequestSpared ==
  ASSUME Steady, Separate, Spared, ~Overlap, \A j \in Jobs : FreeNext(j) => Free(j), NEW c \in Clients,
         \/ RenameRequested(c) \/ DeferRename(c) \/ RenameNow(c) \/ WriteRenamed(c)
         \/ MergeRequested(c) \/ ReadMember(c) \/ GatherMember(c) \/ UpdateMember(c) \/ SetGroupName(c)
         \/ DueListed(c) \/ RequeueDue(c)
  PROVE  SparedNext
  <1>1. PICK tk : tk = task[c]
    OBVIOUS
  <1>2. PICK q : q = task'[c]
    OBVIOUS
  <1>3. /\ Typed /\ Stored /\ AtWork /\ AllFormed /\ OwnNamed /\ Knows(tk, rows) /\ c \in Tasks /\ c \notin Jobs
        /\ IsTask(tk) /\ IsThread(tk.thread) /\ tk.jobs \in Seq(Jobs) /\ OwnNames(world)
    BY <1>1, ClientFacts, InFields DEF Steady, Settled, Knowing, Separate
  <1>4. (Busy(c) \/ MayBegin) /\ Proceeds(c)
    BY <1>3, RequestSure
  <1>5. ASSUME NEW j \in Jobs, FreeNext(j)
        PROVE  Concerns(c, q, j) \/ Spares(q, j)
    <2>1. Free(j) /\ (Concerns(c, tk, j) \/ Spares(tk, j))
      BY <1>1, <1>3, <1>5 DEF Spared
    <2>2. CASE RenameRequested(c) \/ DueListed(c) \/ UpdateMember(c)
      <3>1. q.at \in {"rename", "due", "updating", "naming"}
        BY <1>2, <1>3, <2>2, RenameRequestedDoes, DueListedDoes, UpdateMemberDoes
      <3> QED BY <3>1, SparingAll
    <2>3. CASE DeferRename(c) \/ WriteRenamed(c) \/ SetGroupName(c) \/ RequeueDue(c)
      <3>1. q.at = "idle"
        BY <1>2, <1>3, <2>3, DeferRenameDoes, WriteRenamedDoes, SetGroupNameDoes, RequeueDueDoes, Nothing
      <3> QED BY <3>1, SparingAll
    <2>4. CASE MergeRequested(c)
      <3>1. q.at = "reading" /\ q.thread = NoThread
        BY <1>2, <1>3, <2>4, MergeRequestedDoes
      <3>2. NoThread.more = <<>>
        BY DEF NoThread
      <3> QED BY <3>1, <3>2 DEF Spares
    <2>5. CASE RenameNow(c)
      <3>1. PICK job : job = task[c].seen[1]
        OBVIOUS
      <3>2. PICK loose : loose = Existing(job.dest, rows[task[c].jobs[1]].files)
        OBVIOUS
      <3>3. PICK target : target = job.dest \o <<task[c].name>>
        OBVIOUS
      <3>4. PICK k : k = tk.jobs[1]
        OBVIOUS
      <3>10. task'[c] = NoTask
             \/ task'[c] = Await(task[c], Renaming(OutputDir(job), target, "renamed"))
             \/ task'[c] = Await(task[c], Gathering(job.dest, loose, target, "renamed"))
        BY <1>3, <2>5, <3>1, <3>2, <3>3, RenameNowDoes
      <3>11. PICK mv : mv = Renaming(OutputDir(job), target, "renamed")
        OBVIOUS
      <3>12. PICK gt : gt = Gathering(job.dest, loose, target, "renamed")
        OBVIOUS
      <3>13. /\ mv.mode = "rename" /\ mv.from = OutputDir(job) /\ mv.then = "renamed" /\ mv.more = <<>> /\ mv.to = target
             /\ gt.mode = "gather" /\ gt.todo = loose /\ gt.then = "renamed" /\ gt.more = <<>> /\ gt.to = target
        BY <3>11, <3>12, Threads
      <3>5. /\ tk.at = "rename" /\ job.state \notin Open
            /\ q.at = "idle" \/ q = Await(tk, mv) \/ q = Await(tk, gt)
        BY <1>1, <1>2, <1>3, <2>5, <3>1, <3>10, <3>11, <3>12, Nothing DEF RenameNow
      <3>14. ASSUME q = Await(tk, mv)
             PROVE  q.at = "thread" /\ q.thread = mv /\ q.jobs = tk.jobs
        BY <1>3, <3>13, <3>14 DEF Await, IsTask
      <3>15. ASSUME q = Await(tk, gt)
             PROVE  q.at = "moving" /\ q.thread = gt /\ q.jobs = tk.jobs
        BY <1>3, <3>13, <3>15 DEF Await, IsTask
      <3>6. k \in Jobs /\ rows[k] = job
        BY <1>1, <1>3, <3>1, <3>4, <3>5, RenamedJob, SeenRests DEF Knows, InRename
      <3>7. CASE k = j
        <4>1. q.at = "idle" \/ (q.jobs = tk.jobs /\ InThread(q, "renamed"))
          BY <3>5, <3>13, <3>14, <3>15 DEF InThread
        <4> QED BY <1>3, <3>4, <3>7, <4>1, SparingAll DEF Concerns, InRename
      <3>8. CASE k # j
        <4>1. Alien(j, OutputDir(job)) /\ \A rel \in loose : rel.name \notin FilesOf[j]
          BY <1>1, <1>3, <2>1, <3>2, <3>4, <3>6, <3>8, AlienDir, AlienFiles DEF Existing
        <4>5. tk.name \in NamesOf[k] /\ tk.name \in NameSet /\ job \in RowType
          BY <1>1, <1>3, <3>4, <3>5, <3>6, InFields DEF Knows, InRename, Typed
        <4>6. Alien(j, target)
          BY <1>1, <3>3, <3>6, <3>8, <4>5, GivenNames, AlienTo DEF Belongs, Separate
        <4>2. q = Await(tk, mv) => Spares(q, j)
          BY <3>13, <3>14, <4>1, <4>6 DEF Spares
        <4>3. q = Await(tk, gt) => Spares(q, j)
          BY <3>13, <3>15, <4>1, <4>6 DEF Spares
        <4> QED BY <3>5, <4>2, <4>3, SparingAll
      <3> QED BY <3>7, <3>8
    <2>6. CASE ReadMember(c)
      <3>1. PICK n : n = Len(tk.seen) + 1
        OBVIOUS
      <3>2. PICK row : row = rows[tk.jobs[n]]
        OBVIOUS
      <3>3. PICK srcs : srcs = SourcesWith(tk, row)
        OBVIOUS
      <3>4. /\ tk.at = "reading" /\ n \in DOMAIN tk.jobs /\ tk.jobs[n] \in Jobs /\ row \in RowType
            /\ \/ q = NoTask
               \/ q.jobs = tk.jobs /\ q.at = "reading" /\ q.thread.more = srcs
               \/ /\ q.jobs = tk.jobs /\ q.at = "thread" /\ q.seen = Append(tk.seen, row)
                  /\ q.thread = Merging(srcs, q.seen[1].dest \o <<tk.name>>, "gathering")
        BY <1>1, <1>2, <1>3, <2>6, <3>1, <3>2, <3>3, ReadMemberDoes
      <3>5. CASE q = NoTask
        <4>1. q.at = "idle"
          BY <1>3, <3>5, Nothing
        <4> QED BY <4>1, SparingAll
      <3>6. CASE q # NoTask
        <4>1. /\ q.jobs = tk.jobs /\ q.thread.more = srcs /\ ~InRename(q) /\ ~InRename(tk)
              /\ \/ q.at = "reading"
                 \/ q.at = "thread" /\ q.thread.mode = "aside" /\ q.thread.to = q.seen[1].dest \o <<tk.name>>
          BY <3>4, <3>6 DEF InRename, InThread, Merging, NoThread
        <4>2. CASE j \in Range(tk.jobs)
          BY <1>3, <4>1, <4>2 DEF Concerns
        <4>3. CASE j \notin Range(tk.jobs)
          <5>1. Spares(tk, j) /\ tk.jobs[n] # j
            BY <1>3, <2>1, <3>4, <4>1, <4>3 DEF Concerns, Range
          <5>2. Alien(j, OutputDir(row)) /\ \A i \in DOMAIN tk.thread.more : Alien(j, tk.thread.more[i])
            BY <1>3, <2>1, <3>2, <3>4, <5>1, AlienDir DEF Spares
          <5>3. tk.thread.more \in Seq(Seq(Component)) /\ OutputDir(row) \in Seq(Component)
            BY <1>3, <3>4, Dirs DEF IsThread
          <5>4. \A i \in DOMAIN srcs : Alien(j, srcs[i])
            BY <3>3, <5>2, <5>3 DEF SourcesWith
          <5>6. ASSUME q.at = "thread"
                PROVE  Alien(j, q.thread.to)
            <6>1. tk.name \notin Own(j)
              BY <1>3, <3>4, <4>3, GivenNames DEF Knows, Separate
            <6>2. tk.seen \in Seq(RowType) /\ q.seen = Append(tk.seen, row) /\ tk.name \in NameSet
              BY <1>1, <1>3, <3>4, <3>6, <5>6, InFields
            <6>3. q.seen[1] \in RowType
              BY <3>4, <6>2
            <6>4. Alien(j, q.seen[1].dest \o <<tk.name>>)
              BY <6>1, <6>2, <6>3, AlienTo
            <6> QED BY <4>1, <5>6, <6>4
          <5> QED BY <4>1, <5>4, <5>6 DEF Spares
        <4> QED BY <4>2, <4>3
      <3> QED BY <3>5, <3>6
    <2>7. CASE GatherMember(c)
      <3>1. PICK job : job = tk.seen[tk.i]
        OBVIOUS
      <3>2. PICK loose : loose = Existing(job.dest, rows[tk.jobs[tk.i]].files)
        OBVIOUS
      <3>3. /\ q.jobs = tk.jobs
            /\ \/ q.at \in {"updating", "gathering"}
               \/ /\ q.at = "moving" /\ tk.i \in DOMAIN tk.jobs
                  /\ q.thread = Gathering(job.dest, loose, Target(tk), "gathering")
        BY <1>1, <1>2, <1>3, <2>7, <3>1, <3>2, GatherMemberDoes
      <3>6. tk.at = "gathering"
        BY <1>1, <1>3, <2>7, <3>1, <3>2, GatherMemberDoes
      <3>4. CASE q.at \in {"updating", "gathering"}
        BY <3>4, SparingAll
      <3>5. CASE q.at \notin {"updating", "gathering"}
        <4>1. PICK k : k = tk.jobs[tk.i]
          OBVIOUS
        <4>2. /\ q.at = "moving" /\ q.thread.mode = "gather" /\ q.thread.todo = loose /\ q.thread.more = <<>>
              /\ q.thread.then = "gathering" /\ q.thread.to = Target(tk) /\ k \in Jobs /\ k \in Range(tk.jobs)
          BY <1>3, <3>3, <3>5, <4>1, Threads DEF Range
        <4>3. j \notin Range(tk.jobs)
          BY <1>2, <1>5, <3>3, <4>2 DEF FreeNext, InMerge, InThread
        <4>4. \A rel \in loose : rel.name \notin FilesOf[j]
          BY <1>3, <3>2, <4>1, <4>2, <4>3, AlienFiles DEF Existing
        <4>5. tk.name \notin Own(j)
          BY <1>3, <3>6, <4>3, GivenNames DEF Knows, InMerge, Separate
        <4>6. Alien(j, q.thread.to)
          BY <1>1, <1>3, <3>6, <4>2, <4>5, InFields, AlienTo DEF Target, IsTaskOf, InMerge
        <4> QED BY <4>2, <4>4, <4>6 DEF Spares
      <3> QED BY <3>4, <3>5
    <2> QED BY <2>2, <2>3, <2>4, <2>5, <2>6, <2>7
  <1> QED BY <1>2, <1>3, <1>4, <1>5, OnlyOneSpares DEF Steady

\* The steps of runs.
LEMMA RunSpared ==
  ASSUME Steady, Separate, Spared, ~Overlap, \A j \in Jobs : FreeNext(j) => Free(j), NEW k \in Jobs,
         \/ StartRun(k) \/ DetectDir(k) \/ Downloaded(k) \/ LandFile(k) \/ RecordFiles(k) \/ ReadPending(k)
         \/ WriteApplied(k) \/ ClearPending(k) \/ Finish(k) \/ FailRun(k)
  PROVE  SparedNext
  <1>1. PICK tk : tk = task[k]
    OBVIOUS
  <1>2. PICK q : q = task'[k]
    OBVIOUS
  <1>3. /\ Typed /\ Stored /\ AtWork /\ Sound /\ AllFormed /\ OwnNamed /\ RunReads(k) /\ k \in Tasks
        /\ IsTask(tk) /\ OwnNames(world)
    BY <1>1, RunFacts, InFields DEF Steady, Settled, Knowing, Separate
  <1>4. CASE Bystands(k)
    <2>1. (\A u \in Tasks \ {k} : task'[u] = task[u]) /\ q.at \in {"idle", "downloading", "detected"}
      BY <1>2, <1>3, <1>4, BystandDoes
    <2>2. \A j : Spares(q, j)
      BY <2>1, SparingAll
    <2> QED BY <1>2, <2>1, <2>2 DEF Spared, SparedNext
  <1>5. CASE Downloaded(k) \/ LandFile(k) \/ RecordFiles(k) \/ WriteApplied(k) \/ ClearPending(k) \/ Finish(k)
    <2>1. Sure(task'[k], disk') /\ (Busy(k) \/ MayBegin) /\ Proceeds(k)
      BY <1>3, <1>5, RunSure
    <2>2. q.at \in {"landing", "recorded", "verdict", "idle"}
      BY <1>1, <1>2, <1>3, <1>5, RunDoes, Nothing
    <2>3. \A j : Spares(q, j)
      BY <2>2, SparingAll
    <2> QED BY <1>2, <1>3, <2>1, <2>3, OnlyOneSpares DEF Steady
  <1>6. CASE ReadPending(k)
    <2>1. Sure(task'[k], disk') /\ (Busy(k) \/ MayBegin) /\ Proceeds(k)
      BY <1>3, <1>6, RunSure
    <2>2. PICK job : job = rows[k]
      OBVIOUS
    <2>3. PICK base : base = tk.seen[1].dest
      OBVIOUS
    <2>4. PICK mv : mv = Renaming(base \o <<job.dir>>, base \o <<job.rename_to>>, "renamed")
      OBVIOUS
    <2>5. PICK gt : gt = Gathering(base, job.files, base \o <<job.rename_to>>, "renamed")
      OBVIOUS
    <2>6. /\ tk.at = "recorded"
          /\ \/ q.at \in {"verdict", "clearing"}
             \/ q.at = "thread" /\ q.thread = mv
             \/ q.at = "moving" /\ q.thread = gt
      BY <1>1, <1>2, <1>3, <1>6, <2>2, <2>3, <2>4, <2>5, ReadPendingDoes
    <2>7. /\ mv.mode = "rename" /\ mv.from = base \o <<job.dir>> /\ mv.more = <<>> /\ mv.to = base \o <<job.rename_to>>
          /\ gt.mode = "gather" /\ gt.todo = job.files /\ gt.more = <<>> /\ gt.to = base \o <<job.rename_to>>
      BY <2>4, <2>5 DEF Renaming, Gathering, NoThread
    <2>8. base \o <<job.dir>> = OutputDir(job) /\ base = job.dest
      BY <1>1, <1>3, <2>2, <2>3, <2>6 DEF RunReads, OutputDir
    <2>9. ASSUME NEW j \in Jobs, FreeNext(j)
          PROVE  Concerns(k, q, j) \/ Spares(q, j)
      <3>1. CASE k = j
        BY <3>1 DEF Concerns
      <3>2. CASE k # j
        <4>1. Alien(j, OutputDir(job)) /\ \A rel \in job.files : rel.name \notin FilesOf[j]
          BY <1>3, <2>2, <2>9, <3>2, AlienDir, AlienFiles
        <4>4. Alien(j, mv.to) /\ Alien(j, gt.to)
          <5>1. job \in RowType /\ job.rename_to \in NameSet
            BY <1>3, <2>2, RowFacts DEF Typed
          <5>2. job.rename_to \notin Own(j)
            BY <1>3, <2>2, <2>9, <3>2 DEF OwnNamed, OwnRow, Belongs
          <5> QED BY <2>7, <2>8, <5>1, <5>2, AlienTo
        <4>5. mv.mode = "rename" /\ Alien(j, mv.from) /\ mv.more = <<>> /\ gt.mode = "gather" /\ gt.more = <<>>
              /\ \A rel \in gt.todo : rel.name \notin FilesOf[j]
          BY <2>7, <2>8, <4>1
        <4>2. ASSUME q.at = "thread" /\ q.thread = mv
              PROVE  Spares(q, j)
          BY <4>2, <4>4, <4>5 DEF Spares
        <4>3. ASSUME q.at = "moving" /\ q.thread = gt
              PROVE  Spares(q, j)
          BY <4>3, <4>4, <4>5 DEF Spares
        <4> QED BY <2>6, <4>2, <4>3, SparingAll
      <3> QED BY <3>1, <3>2
    <2> QED BY <1>2, <1>3, <2>1, <2>9, OnlyOneSpares DEF Steady
  <1> QED BY <1>3, <1>4, <1>5, <1>6, FailuresStandBy DEF Bystands

\* Every step.
LEMMA StepSpared ==
  ASSUME Steady, Separate, Spared, ~Overlap, Step
  PROVE  SparedNext
  <1>1. \A j \in Jobs : FreeNext(j) => Free(j)
    BY StaysFree DEF Steady
  <1>2. CASE Retry
    <2>1. task' = task
      BY <1>2, RetryDoes DEF Steady, Settled
    <2> QED BY <1>1, <2>1 DEF Spared, SparedNext
  <1> QED BY <1>1, <1>2, ThreadSpared, RequestSpared, RunSpared DEF Step

\* Threads move no file of a free job they are not about.
LEMMA CalmSpared == Spec => [](Calm /\ Separate => Steady /\ Spared)
  <1>1. Init => Spared
    <2> SUFFICES ASSUME Init PROVE Spared
      OBVIOUS
    <2>1. \A t \in Tasks : task[t].at = "idle"
      BY InitTyped, Nothing DEF Init
    <2> QED BY <2>1, SparingAll DEF Spared
  <1>2. /\ (Calm => Settled) /\ (Calm => Sound) /\ (Calm /\ Plain(world) => AllFormed) /\ (Calm /\ Owned => OwnNamed)
        /\ (Calm => AllLanded)
        => (Calm /\ Separate => Steady)
    BY DEF Separate, Steady, Owned, Plain
  <1>3. /\ (Calm /\ Separate => Steady) /\ (Calm /\ Separate => Spared) /\ [Next]_vars
        => (Calm /\ Separate => Spared)'
    <2> SUFFICES ASSUME Calm /\ Separate => Steady, Calm /\ Separate => Spared, [Next]_vars, Calm', Separate'
                 PROVE  Spared'
      OBVIOUS
    <2>1. UNCHANGED world
      BY DEF Next, vars
    <2>2. ~Overlap /\ Separate
      BY <2>1 DEF Calm, Overlap, Separate
    <2>3. CASE Step /\ UNCHANGED <<world, crashed>>
      BY <2>1, <2>2, <2>3, StepSpared, SparedThen DEF Calm
    <2>4. CASE Crash
      BY <2>4 DEF Crash, Calm
    <2>5. CASE UNCHANGED vars
      <3>1. Spared
        BY <2>2, <2>5 DEF Calm, vars
      <3>2. SparedNext
        BY <2>5, <3>1 DEF vars, Spared, SparedNext, Free, FreeNext, InMergeOf
      <3> QED BY <2>1, <3>2, SparedThen
    <2> QED BY <2>3, <2>4, <2>5 DEF Next
  <1> QED BY <1>1, <1>2, <1>3, CalmSettled, CalmSound, CalmFormed, CalmOwn, CalmLanded, PTL DEF Spec

-----------------------------------------------------------------------------
(* Files that stay where they are                                          *)

\* The step of a thread does not concern the file at p.
Clear(tk, p) ==
    /\ tk.at = "thread" /\ tk.thread.mode \in {"rename", "over", "whole"} => ~IsPrefix(tk.thread.from, p.dir)
    /\ tk.at = "moving" /\ tk.thread.mode # "gather" => ~IsPrefix(tk.thread.from, p.dir)
    /\ tk.at = "moving" /\ tk.thread.mode = "gather" => \A rel \in tk.thread.todo : rel.name # p.name

\* Such a file stays.
LEMMA PathStays ==
  ASSUME Typed, Stored, NEW t \in Tasks, Sure(task[t], disk), NEW p \in DOMAIN disk, Clear(task[t], p),
         ThreadStep(t)
  PROVE  p \in DOMAIN disk'
  <1>1. PICK tk : tk = task[t]
    OBVIOUS
  <1>2. PICK th : th = tk.thread
    OBVIOUS
  <1>3. IsThread(th) /\ IsPath(p)
    BY <1>1, <1>2, InFields DEF Stored
  <1>4. CASE TestTarget(t) \/ ListTree(t) \/ NextSource(t) \/ TestFile(t)
    BY <1>4 DEF TestTarget, ListTree, NextSource, TestFile
  <1>5. CASE ReplaceDir(t)
    <2>1. tk.at = "thread" /\ th.mode = "whole" /\ disk' = RenameTree(disk, th.from, th.to)
      BY <1>1, <1>2, <1>5, ReplaceDirSure
    <2>2. p \notin Under(disk, th.from)
      BY <1>1, <1>2, <2>1 DEF Clear, Under
    <2>3. DOMAIN RenameTree(disk, th.from, th.to)
             = (DOMAIN disk \ Under(disk, th.from)) \cup {In(th.to, rel) : rel \in RelFiles(disk, th.from)}
      BY DEF RenameTree
    <2> QED BY <2>1, <2>2, <2>3
  <1>6. CASE MoveFile(t)
    <2>1. PICK rel : rel = NextFile(th)
      OBVIOUS
    <2>2. PICK src : src = In(th.from, rel)
      OBVIOUS
    <2>3. PICK tgt : tgt = MovesTo(th, disk)
      OBVIOUS
    <2>4. /\ tk.at = "moving" /\ rel \in th.todo /\ th.mode \in {"over", "aside", "gather"}
          /\ disk' = Replace(disk, src, tgt)
      BY <1>1, <1>2, <1>6, <2>1, <2>2, <2>3, MoveFileSure
    <2>5. src.name = rel.name /\ IsPrefix(th.from, src.dir)
      BY <1>3, <2>2, <2>4, PathIn DEF IsThread
    <2>6. p # src
      BY <1>1, <1>2, <2>4, <2>5 DEF Clear
    <2>7. DOMAIN Replace(disk, src, tgt) = (DOMAIN disk \ {src}) \cup {tgt}
      BY DEF Replace
    <2> QED BY <2>4, <2>6, <2>7
  <1>7. CASE EndSource(t)
    <2>1. tk.at = "moving" /\ disk' = IF th.mode = "gather" THEN disk ELSE RemoveTree(disk, th.from)
      BY <1>1, <1>2, <1>7, EndSourceDoes
    <2>2. th.mode # "gather" => p \notin Under(disk, th.from)
      BY <1>1, <1>2, <2>1 DEF Clear, Under
    <2>3. DOMAIN RemoveTree(disk, th.from) = DOMAIN disk \ Under(disk, th.from)
      BY DEF RemoveTree
    <2> QED BY <2>1, <2>2, <2>3
  <1> QED BY <1>4, <1>5, <1>6, <1>7 DEF ThreadStep

\* A directory with a name that is not the job's holds no file of its directories and none
\* that lies flat.
LEMMA AlienApart ==
  ASSUME Typed, Level(world), NEW j \in Jobs, NEW path, Alien(j, path), NEW d \in Range(DestOf)
  PROVE  /\ ~IsPrefix(path, d)
         /\ \A n, dir : n \in Own(j) /\ n \in NameSet /\ IsPrefix(d \o <<n>>, dir) => ~IsPrefix(path, dir)
  <1>1. PICK e \in Range(DestOf) : \E m \in NameSet : m \notin Own(j) /\ path = e \o <<m>>
    BY DEF Alien
  <1>2. PICK m \in NameSet : m \notin Own(j) /\ path = e \o <<m>>
    BY <1>1
  <1>3. Range(DestOf) \subseteq Seq(Component) /\ NameSet \subseteq Component
    BY WorldFacts DEF Typed
  <1>4. Len(d) = Len(e) /\ d \in Seq(Component) /\ e \in Seq(Component) /\ Len(d) \in Nat
    BY <1>3 DEF Level, DestOf
  <1>5. Len(path) = Len(d) + 1 /\ path \in Seq(Component)
    BY <1>2, <1>3, <1>4
  <1>6. ~IsPrefix(path, d)
    BY <1>4, <1>5 DEF IsPrefix
  <1>7. ASSUME NEW n, NEW dir, n \in Own(j), n \in NameSet, IsPrefix(d \o <<n>>, dir), IsPrefix(path, dir)
        PROVE  FALSE
    <2>1. PICK own : own = d \o <<n>>
      OBVIOUS
    <2>2. own \in Seq(Component) /\ Len(own) = Len(path)
      BY <1>3, <1>4, <1>5, <1>7, <2>1
    <2>3. own = path
      BY <1>5, <1>7, <2>1, <2>2, Apart
    <2>4. own[Len(d) + 1] = n /\ path[Len(d) + 1] = m
      BY <1>2, <1>4, <2>1
    <2> QED BY <1>2, <1>7, <2>3, <2>4
  <1> QED BY <1>6, <1>7

-----------------------------------------------------------------------------
(* Where the files of a job are                                            *)

\* All files of the job are below the directory, or where they land flat.
Here(d, j, dir) == \A f \in FilesOf[j] : \E p \in DOMAIN d : p.name = f /\ IsPrefix(dir, p.dir)
LiesFlat(d, j, dest) == \A rel \in Downloads(j) : In(dest, rel) \in DOMAIN d

\* They are where the row says.
Sits(d, j, row) ==
    IF row.dir = NoDir THEN DirOf[j] = NoDir /\ LiesFlat(d, j, row.dest) ELSE Here(d, j, OutputDir(row))

\* A file that lands flat.
LEMMA FlatFile ==
  ASSUME Typed, OneDir(world), NEW j \in Jobs, DirOf[j] = NoDir, NEW dest \in Seq(Component)
  PROVE  /\ \A rel \in Downloads(j) : In(dest, rel).name \in FilesOf[j] /\ In(dest, rel).dir = dest
         /\ \A f \in FilesOf[j] : \E rel \in Downloads(j) : rel.name = f
  <1>1. Downloads(j) = {Path(<<>>, f) : f \in FilesOf[j]}
    BY OneDirFacts
  <1>2. \A f : Path(<<>>, f).dir = <<>> /\ Path(<<>>, f).name = f
    BY DEF Path
  <1>3. dest \o <<>> = dest
    OBVIOUS
  <1>4. ASSUME NEW rel \in Downloads(j)
        PROVE  In(dest, rel).name \in FilesOf[j] /\ In(dest, rel).dir = dest
    <2>1. rel.dir = <<>> /\ rel.name \in FilesOf[j] /\ IsPath(rel)
      BY <1>1, <1>2, <1>4, Dirs
    <2>2. PICK q : q = In(dest, rel)
      OBVIOUS
    <2>3. q.name = rel.name /\ q.dir = dest \o rel.dir
      BY <2>1, <2>2, PathIn
    <2> QED BY <1>3, <2>1, <2>2, <2>3
  <1> QED BY <1>1, <1>2, <1>4

\* A thread that spares a job leaves its files where its row says.
LEMMA SitsStill ==
  ASSUME Typed, Stored, Level(world), OneDir(world), NEW j \in Jobs, NEW row \in RowType, row.dir \in Own(j) \cup {NoDir},
         NEW t \in Tasks, Sure(task[t], disk), Spares(task[t], j), Sits(disk, j, row),
         ThreadStep(t)
  PROVE  Sits(disk', j, row)
  <1>1. PICK tk : tk = task[t]
    OBVIOUS
  <1>2. PICK d : d = row.dest
    OBVIOUS
  <1>3. d \in Range(DestOf) /\ d \in Seq(Component) /\ row.dir \in NameSet
    BY <1>2, RowFacts, Dirs
  <1>4. ASSUME NEW p \in DOMAIN disk, p.name \in FilesOf[j],
               p.dir = d \/ (row.dir # NoDir /\ IsPrefix(OutputDir(row), p.dir))
        PROVE  p \in DOMAIN disk'
    <2>1. ASSUME NEW path, Alien(j, path)
          PROVE  ~IsPrefix(path, p.dir)
      <3>1. ~IsPrefix(path, d)
        BY <1>3, <2>1, AlienApart
      <3>2. ASSUME row.dir # NoDir, IsPrefix(OutputDir(row), p.dir)
            PROVE  ~IsPrefix(path, p.dir)
        <4>1. row.dir \in Own(j) /\ IsPrefix(d \o <<row.dir>>, p.dir)
          BY <1>2, <3>2 DEF OutputDir
        <4> QED BY <1>3, <2>1, <4>1, AlienApart
      <3> QED BY <1>4, <3>1, <3>2
    <2>2. Clear(tk, p)
      BY <1>1, <1>4, <2>1 DEF Clear, Spares
    <2> QED BY <1>1, <2>2, PathStays
  <1>5. CASE row.dir = NoDir
    <2>1. DirOf[j] = NoDir /\ LiesFlat(disk, j, d)
      BY <1>2, <1>5 DEF Sits
    <2>2. \A rel \in Downloads(j) : In(d, rel).name \in FilesOf[j] /\ In(d, rel).dir = d
      BY <1>3, <2>1, FlatFile
    <2>3. LiesFlat(disk', j, d)
      BY <1>4, <2>1, <2>2 DEF LiesFlat
    <2> QED BY <1>2, <1>5, <2>1, <2>3 DEF Sits
  <1>6. CASE row.dir # NoDir
    <2>1. Here(disk, j, OutputDir(row))
      BY <1>6 DEF Sits
    <2>2. Here(disk', j, OutputDir(row))
      BY <1>4, <1>6, <2>1 DEF Here
    <2> QED BY <1>6, <2>2 DEF Sits
  <1> QED BY <1>5, <1>6

\* The run has its result, or has had it and renames keep it.
Has(j, row, tk) ==
    row.state = "done" \/ Late(tk) \/ (DirOf[j] = NoDir /\ (row.files # {} \/ row.dir # NoDir))

\* The task whose thread renames the job, until it has written the row.
Mover(t, tk, j) ==
    (tk.at = "renamed" \/ InThread(tk, "renamed")) /\ IF t \in Jobs THEN t = j ELSE tk.jobs[1] = j

\* The files such a thread has moved, and those it will move.
OnTheWay(d, j, th) ==
    \A f \in FilesOf[j] : \/ \E p \in DOMAIN d : p.name = f /\ IsPrefix(th.to, p.dir)
                          \/ \E rel \in th.todo : rel.name = f /\ In(th.from, rel) \in DOMAIN d

\* It moves the files of the job, if it has some, from where the row says.
Moved(d, j, row, has, tk) ==
    LET th == tk.thread
    IN  /\ th.to = row.dest \o <<tk.name>>
        /\ \/ /\ th.mode = "gather" /\ tk.at # "thread" /\ row.dir = NoDir /\ DirOf[j] = NoDir
              /\ th.from = row.dest /\ row.files # {} /\ th.todo \subseteq row.files
           \/ /\ th.mode \in {"rename", "over", "whole"} /\ (tk.at = "moving" => th.mode = "over")
              /\ row.dir \notin {NoDir, tk.name} /\ th.from = OutputDir(row)
        /\ has => CASE tk.at = "thread" -> Here(d, j, th.from)
                    [] tk.at = "moving" -> OnTheWay(d, j, th)
                    [] OTHER -> Here(d, j, th.to)

Where(j) ==
    /\ Has(j, rows[j], task[j]) /\ ~(\E t \in Tasks : Mover(t, task[t], j)) => Sits(disk, j, rows[j])
    /\ \A t \in Tasks : Mover(t, task[t], j) => Moved(disk, j, rows[j], Has(j, rows[j], task[j]), task[t])
WhereNext(j) ==
    /\ Has(j, rows'[j], task'[j]) /\ ~(\E t \in Tasks : Mover(t, task'[t], j)) => Sits(disk', j, rows'[j])
    /\ \A t \in Tasks : Mover(t, task'[t], j) => Moved(disk', j, rows'[j], Has(j, rows'[j], task'[j]), task'[t])

AllThere == \A j \in Jobs : Free(j) => Where(j)
ThereNext == \A j \in Jobs : FreeNext(j) => WhereNext(j)

\* It is the invariant of the next state.
LEMMA ThereThen ==
  ASSUME UNCHANGED world, ThereNext
  PROVE  AllThere'
  <1>1. UNCHANGED <<Jobs, Tasks, DirOf, FilesOf>> /\ \A j : Downloads(j)' = Downloads(j) /\ Free(j)' = FreeNext(j)
    BY SameWorld, FreeThen DEF Constants
  <1>2. \A j : Has(j, rows[j], task[j])' = Has(j, rows'[j], task'[j]) /\ Sits(disk, j, rows[j])' = Sits(disk', j, rows'[j])
    BY <1>1 DEF Has, Late, Sits, Here, LiesFlat, OutputDir
  <1>3. \A t, j : Mover(t, task[t], j)' = Mover(t, task'[t], j)
    BY <1>1 DEF Mover, InThread
  <1>4. \A t, j : Moved(disk, j, rows[j], Has(j, rows[j], task[j]), task[t])'
                  = Moved(disk', j, rows'[j], Has(j, rows'[j], task'[j]), task'[t])
    BY <1>1, <1>2, SMTT(30) DEF Moved, Here, OnTheWay, OutputDir
  <1>5. \A j : Where(j)' = WhereNext(j)
    BY <1>1, <1>2, <1>3, <1>4 DEF Where, WhereNext
  <1> QED BY <1>1, <1>5 DEF AllThere, ThereNext

\* While one task is busy, and when none is, no other moves files of a job.
LEMMA OneMover ==
  ASSUME Steady, ~Overlap, NEW t \in Tasks, Busy(t) \/ MayBegin, Proceeds(t), NEW j \in Jobs, Where(j)
  PROVE  /\ ~Mover(t, task[t], j) /\ Has(j, rows[j], task[j]) => Sits(disk, j, rows[j])
         /\ Mover(t, task[t], j) => Moved(disk, j, rows[j], Has(j, rows[j], task[j]), task[t])
         /\ /\ ~Mover(t, task'[t], j) /\ Has(j, rows'[j], task'[j]) => Sits(disk', j, rows'[j])
            /\ Mover(t, task'[t], j) => Moved(disk', j, rows'[j], Has(j, rows'[j], task'[j]), task'[t])
            => WhereNext(j)
  <1>1. ASSUME NEW u \in Tasks, u # t
        PROVE  task'[u] = task[u] /\ ~Mover(u, task[u], j)
    <2>1. task'[u] = task[u] /\ ~Busy(u)
      BY <1>1, OthersStand, OthersRest DEF Steady, Settled
    <2> QED BY <2>1 DEF Busy, Mover, InThread
  <1> QED BY <1>1 DEF Where, WhereNext

\* A file that a thread moves leaves no directory but the one it empties.
LEMMA MovedOn ==
  ASSUME NEW d, NEW j, NEW th, IsThread(th), OnTheWay(d, j, th),
         NEW rel \in th.todo, ~IsPrefix(th.to, th.from \o rel.dir),
         NEW e, e = IF In(th.from, rel) \in DOMAIN d THEN Replace(d, In(th.from, rel), In(th.to, rel)) ELSE d,
         NEW after, after.to = th.to /\ after.from = th.from /\ after.todo = th.todo \ {rel}
  PROVE  OnTheWay(e, j, after)
  <1>1. PICK src : src = In(th.from, rel)
    OBVIOUS
  <1>2. PICK tgt : tgt = In(th.to, rel)
    OBVIOUS
  <1>7. th.from \in Seq(Component) /\ th.to \in Seq(Component) /\ \A r \in th.todo : IsPath(r)
    BY DEF IsThread
  <1>8. src.dir = th.from \o rel.dir
    BY <1>1, <1>7, PathIn
  <1>9. tgt.name = rel.name /\ IsPrefix(th.to, tgt.dir)
    BY <1>2, <1>7, PathIn
  <1>3. /\ th.from \in Seq(Component) /\ th.to \in Seq(Component) /\ \A r \in th.todo : IsPath(r)
        /\ src.dir = th.from \o rel.dir /\ tgt.name = rel.name /\ IsPrefix(th.to, tgt.dir)
    BY <1>7, <1>8, <1>9
  <1>4. /\ \A p \in DOMAIN d : p # src => p \in DOMAIN e
        /\ src \in DOMAIN d => tgt \in DOMAIN e
    BY <1>1, <1>2 DEF Replace
  <1>5. ASSUME NEW f, NEW p \in DOMAIN d, p.name = f, IsPrefix(th.to, p.dir)
        PROVE  \E r \in DOMAIN e : r.name = f /\ IsPrefix(th.to, r.dir)
    <2>1. p # src
      BY <1>3, <1>5
    <2> QED BY <1>4, <1>5, <2>1
  <1>6. ASSUME NEW f, NEW r \in th.todo, r.name = f, In(th.from, r) \in DOMAIN d
        PROVE  \/ \E p \in DOMAIN e : p.name = f /\ IsPrefix(th.to, p.dir)
               \/ r \in th.todo \ {rel} /\ In(th.from, r) \in DOMAIN e
    <2>1. CASE r = rel
      BY <1>1, <1>3, <1>4, <1>6, <2>1
    <2>2. CASE r # rel
      <3>1. In(th.from, r) # src
        BY <1>1, <1>3, <1>6, <2>2, InInjective
      <3> QED BY <1>4, <1>6, <2>2, <3>1
    <2> QED BY <2>1, <2>2
  <1> QED BY <1>5, <1>6 DEF OnTheWay

\* What os.replace takes along.
LEMMA TreeGone ==
  ASSUME NEW d, StoredIn(d), NEW from \in Seq(Component), NEW to \in Seq(Component), NEW j, Here(d, j, from)
  PROVE  Here(RenameTree(d, from, to), j, to)
  <1>1. PICK e : e = RenameTree(d, from, to)
    OBVIOUS
  <1>2. \A rel \in RelFiles(d, from) : In(to, rel) \in DOMAIN e
    BY <1>1 DEF RenameTree
  <1>3. ASSUME NEW f \in FilesOf[j]
        PROVE  \E q \in DOMAIN e : q.name = f /\ IsPrefix(to, q.dir)
    <2>1. PICK p \in DOMAIN d : p.name = f /\ IsPrefix(from, p.dir)
      BY <1>3 DEF Here
    <2>2. PICK rel : rel = WithDir(p, Below(from, p))
      OBVIOUS
    <2>3. rel \in RelFiles(d, from) /\ IsPath(p)
      BY <2>1, <2>2, Relative DEF Under, StoredIn
    <2>4. IsPath(rel) /\ rel.name = f
      BY <2>1, <2>2, <2>3, RelPath
    <2>5. PICK q : q = In(to, rel)
      OBVIOUS
    <2>6. q.name = f /\ IsPrefix(to, q.dir) /\ q \in DOMAIN e
      BY <1>2, <2>3, <2>4, <2>5, PathIn
    <2> QED BY <2>6
  <1> QED BY <1>1, <1>3 DEF Here

\* A directory's files as those to move.
LEMMA AllToMove ==
  ASSUME NEW d, StoredIn(d), NEW from \in Seq(Component), NEW j, Here(d, j, from)
  PROVE  \A f \in FilesOf[j] : \E rel \in RelFiles(d, from) : rel.name = f /\ In(from, rel) \in DOMAIN d
  <1>1. ASSUME NEW f \in FilesOf[j]
        PROVE  \E rel \in RelFiles(d, from) : rel.name = f /\ In(from, rel) \in DOMAIN d
    <2>1. PICK p \in DOMAIN d : p.name = f /\ IsPrefix(from, p.dir)
      BY <1>1 DEF Here
    <2>2. PICK rel : rel = WithDir(p, Below(from, p))
      OBVIOUS
    <2>3. rel \in RelFiles(d, from) /\ IsPath(p)
      BY <2>1, <2>2, Relative DEF Under, StoredIn
    <2>4. IsPath(rel) /\ rel.name = f /\ In(from, rel) = p
      BY <2>1, <2>2, <2>3, RelPath
    <2> QED BY <2>1, <2>3, <2>4
  <1> QED BY <1>1

\* Where a thread takes a job's files from and to.
LEMMA MoverDirs ==
  ASSUME Typed, OneDir(world), NEW j \in Jobs, NEW row \in RowType, row.files \subseteq Downloads(j),
         NEW tk, tk.name \in NameSet,
         tk.at \in {"thread", "moving"}, NEW d, NEW has, Moved(d, j, row, has, tk)
  PROVE  /\ tk.thread.from \in Seq(Component) /\ tk.thread.to \in Seq(Component)
         /\ tk.thread.mode \in {"gather", "rename", "over", "whole"}
         /\ tk.at = "moving" /\ tk.thread.mode = "gather" =>
                \A rel \in tk.thread.todo : ~IsPrefix(tk.thread.to, tk.thread.from \o rel.dir)
         /\ tk.thread.mode # "gather" => \A path : ~(IsPrefix(tk.thread.from, path) /\ IsPrefix(tk.thread.to, path))
  <1>1. PICK th : th = tk.thread
    OBVIOUS
  <1>2. PICK dest : dest = row.dest
    OBVIOUS
  <1>3. dest \in Seq(Component) /\ Len(dest) \in Nat /\ row.dir \in Component /\ tk.name \in Component
    BY <1>2, Dirs, RowFacts, WorldFacts DEF Typed
  <1>7. th.to = dest \o <<tk.name>>
    BY <1>1, <1>2 DEF Moved
  <1>4. th.to = dest \o <<tk.name>> /\ th.to \in Seq(Component) /\ Len(th.to) = Len(dest) + 1
    BY <1>3, <1>7
  <1>5. CASE th.mode = "gather"
    <2>1. DirOf[j] = NoDir /\ th.from = dest /\ th.todo \subseteq Downloads(j)
      BY <1>1, <1>2, <1>5 DEF Moved
    <2>2. \A rel \in th.todo : IsPath(rel) /\ In(dest, rel).dir = dest
      BY <1>3, <2>1, FlatFile, Dirs
    <2>3. \A rel \in th.todo : dest \o rel.dir = dest
      BY <1>3, <2>2, PathIn
    <2>4. ~IsPrefix(th.to, dest)
      BY <1>3, <1>4 DEF IsPrefix
    <2> QED BY <1>1, <1>3, <1>4, <1>5, <2>1, <2>3, <2>4
  <1>6. CASE th.mode # "gather"
    <2>1. row.dir # tk.name /\ th.from = dest \o <<row.dir>> /\ th.mode \in {"rename", "over", "whole"}
      BY <1>1, <1>2, <1>6 DEF Moved, OutputDir
    <2>2. th.from \in Seq(Component) /\ Len(th.from) = Len(th.to) /\ th.from # th.to
      <3>1. th.from[Len(dest) + 1] = row.dir /\ th.to[Len(dest) + 1] = tk.name
        BY <1>3, <1>4, <2>1
      <3> QED BY <1>3, <1>4, <2>1, <3>1
    <2> QED BY <1>1, <1>4, <1>6, <2>1, <2>2, Apart
  <1> QED BY <1>5, <1>6

\* A thread that moves the files of a job goes on to, and has moved them when it returns.
LEMMA MoverGoes ==
  ASSUME Typed, Stored, OneDir(world), NEW j \in Jobs, NEW row \in RowType, row.files \subseteq Downloads(j),
         NEW t \in Tasks, task[t].thread.then = "renamed", Sure(task[t], disk),
         NEW has \in BOOLEAN, Moved(disk, j, row, has, task[t]),
         ThreadStep(t)
  PROVE  Moved(disk', j, row, has, task'[t])
  <1>1. PICK tk : tk = task[t]
    OBVIOUS
  <1>2. PICK th : th = tk.thread
    OBVIOUS
  <1>3. PICK q : q = task'[t]
    OBVIOUS
  <1>4. IsThread(th) /\ tk.name \in NameSet /\ tk.at \in {"thread", "moving"} /\ th.then = "renamed" /\ StoredIn(disk)
    BY <1>1, <1>2, InFields, ThreadDoes DEF Stored, StoredIn
  <1>5. /\ th.from \in Seq(Component) /\ th.to \in Seq(Component) /\ th.mode \in {"gather", "rename", "over", "whole"}
        /\ tk.at = "moving" /\ th.mode = "gather" => \A rel \in th.todo : ~IsPrefix(th.to, th.from \o rel.dir)
        /\ th.mode # "gather" => \A path : ~(IsPrefix(th.from, path) /\ IsPrefix(th.to, path))
    BY <1>1, <1>2, <1>4, MoverDirs
  <1>6. /\ th.to = row.dest \o <<tk.name>>
        /\ \/ /\ th.mode = "gather" /\ tk.at # "thread" /\ row.dir = NoDir /\ DirOf[j] = NoDir
              /\ th.from = row.dest /\ row.files # {} /\ th.todo \subseteq row.files
           \/ /\ th.mode \in {"rename", "over", "whole"} /\ (tk.at = "moving" => th.mode = "over")
              /\ row.dir \notin {NoDir, tk.name} /\ th.from = OutputDir(row)
    BY <1>1, <1>2 DEF Moved
  <1>7. has => /\ tk.at = "thread" => Here(disk, j, th.from)
               /\ tk.at = "moving" => OnTheWay(disk, j, th)
    BY <1>1, <1>2 DEF Moved
  <1>8. CASE TestTarget(t) \/ ListTree(t)
    <2>1. /\ tk.at = "thread" /\ th.mode \in {"rename", "over", "whole"} /\ disk' = disk /\ q.name = tk.name
          /\ q.thread.from = th.from /\ q.thread.to = th.to
          /\ \/ q.at = "thread" /\ q.thread.mode \in {"over", "whole"}
             \/ q.at = "moving" /\ q.thread.mode = "over" /\ q.thread.todo = RelFiles(disk, th.from)
      <3>1. CASE TestTarget(t)
        BY <1>1, <1>2, <1>3, <3>1, TestTargetDoes DEF GoesOnAs, SameCall
      <3>2. CASE ListTree(t)
        BY <1>1, <1>2, <1>3, <3>2, ListTreeDoes DEF GoesOnAs, SameCall
      <3> QED BY <1>8, <3>1, <3>2
    <2>2. row.dir \notin {NoDir, tk.name} /\ th.from = OutputDir(row)
      BY <1>6, <2>1
    <2>3. CASE q.at = "moving"
      <3>1. q.thread.mode = "over" /\ q.thread.todo = RelFiles(disk, th.from)
        BY <2>1, <2>3
      <3>2. has => OnTheWay(disk, j, q.thread)
        BY <1>4, <1>5, <1>7, <2>1, <3>1, AllToMove DEF OnTheWay
      <3> QED BY <1>3, <1>6, <2>1, <2>2, <2>3, <3>1, <3>2 DEF Moved
    <2>4. CASE q.at = "thread"
      BY <1>3, <1>6, <1>7, <2>1, <2>2, <2>4 DEF Moved
    <2> QED BY <2>1, <2>3, <2>4
  <1>12. CASE ReplaceDir(t)
    <2>1. /\ tk.at = "thread" /\ th.mode = "whole" /\ q.name = tk.name /\ q.at = "renamed" /\ q.thread = th
          /\ disk' = RenameTree(disk, th.from, th.to)
      BY <1>1, <1>2, <1>3, <1>4, <1>12, ReplaceDirSure DEF GoesOnAs
    <2>2. row.dir \notin {NoDir, tk.name} /\ th.from = OutputDir(row)
      BY <1>6, <2>1
    <2>3. has => Here(disk', j, th.to)
      BY <1>4, <1>5, <1>7, <2>1, TreeGone
    <2> QED BY <1>3, <1>6, <2>1, <2>2, <2>3 DEF Moved
  <1>9. CASE NextSource(t)
    BY <1>1, <1>2, <1>5, <1>9 DEF NextSource
  <1>10. CASE TestFile(t)
    <2>1. /\ tk.at = "moving" /\ q.name = tk.name /\ q.at = "moving" /\ q.thread.mode = th.mode
          /\ q.thread.from = th.from /\ q.thread.to = th.to /\ q.thread.todo \subseteq th.todo /\ disk' = disk
          /\ \A rel \in th.todo \ q.thread.todo : In(th.from, rel) \notin DOMAIN disk
      BY <1>1, <1>2, <1>3, <1>10, TestFileSure DEF GoesOnAs, SameCall
    <2>2. has => OnTheWay(disk, j, q.thread)
      BY <1>7, <2>1 DEF OnTheWay
    <2> QED BY <1>3, <1>6, <2>1, <2>2 DEF Moved
  <1>13. CASE MoveFile(t)
    <2>1. PICK rel : rel = NextFile(th)
      OBVIOUS
    <2>2. /\ tk.at = "moving" /\ rel \in th.todo /\ In(th.from, rel) \in DOMAIN disk
          /\ q.name = tk.name /\ q.at = "moving" /\ q.thread.mode = th.mode
          /\ q.thread.from = th.from /\ q.thread.to = th.to /\ q.thread.todo = th.todo \ {rel}
          /\ disk' = Replace(disk, In(th.from, rel), MovesTo(th, disk))
      BY <1>1, <1>2, <1>3, <1>13, <2>1, MoveFileSure DEF GoesOnAs, SameCall
    <2>3. MovesTo(th, disk) = In(th.to, rel)
      BY <1>5, <2>1 DEF MovesTo
    <2>4. IsPath(rel) /\ ~IsPrefix(th.to, th.from \o rel.dir)
      <3>1. IsPath(rel)
        BY <1>4, <2>2 DEF IsThread
      <3>2. IsPrefix(th.from, th.from \o rel.dir)
        BY <1>5, <3>1, JoinDir DEF IsPath
      <3> QED BY <1>5, <2>2, <3>1, <3>2
    <2>5. ASSUME has
          PROVE  OnTheWay(disk', j, q.thread)
      <3>1. OnTheWay(disk, j, th)
        BY <1>7, <2>2, <2>5
      <3>2. disk' = IF In(th.from, rel) \in DOMAIN disk THEN Replace(disk, In(th.from, rel), In(th.to, rel)) ELSE disk
        BY <2>2, <2>3
      <3>3. q.thread.to = th.to /\ q.thread.from = th.from /\ q.thread.todo = th.todo \ {rel}
        BY <2>2
      <3> QED BY <1>4, <2>2, <2>4, <3>1, <3>2, <3>3, MovedOn
    <2>6. q.thread.todo \subseteq th.todo
      BY <2>2
    <2> QED BY <1>3, <1>6, <2>2, <2>5, <2>6 DEF Moved
  <1>11. CASE EndSource(t)
    <2>1. /\ tk.at = "moving" /\ th.todo = {} /\ q.name = tk.name /\ q.thread = th
          /\ disk' = (IF th.mode = "gather" THEN disk ELSE RemoveTree(disk, th.from))
          /\ q.at = (IF th.mode = "aside" THEN "thread" ELSE th.then)
      BY <1>1, <1>2, <1>3, <1>11, EndSourceDoes DEF GoesOnAs
    <2>2. q.at = "renamed"
      BY <1>4, <1>5, <2>1
    <2>3. ASSUME has
          PROVE  Here(disk', j, th.to)
      <3>1. \A f \in FilesOf[j] : \E p \in DOMAIN disk : p.name = f /\ IsPrefix(th.to, p.dir)
        BY <1>7, <2>1, <2>3 DEF OnTheWay
      <3>2. ASSUME NEW p \in DOMAIN disk, IsPrefix(th.to, p.dir)
            PROVE  p \in DOMAIN disk'
        <4>1. CASE th.mode = "gather"
          BY <2>1, <3>2, <4>1
        <4>2. CASE th.mode # "gather"
          <5>1. p \notin Under(disk, th.from)
            BY <1>5, <3>2, <4>2 DEF Under
          <5> QED BY <2>1, <3>2, <4>2, <5>1 DEF RemoveTree
        <4> QED BY <4>1, <4>2
      <3> QED BY <3>1, <3>2 DEF Here
    <2>4. \/ th.mode = "gather" /\ row.dir = NoDir /\ DirOf[j] = NoDir /\ th.from = row.dest /\ row.files # {} /\ th.todo \subseteq row.files
          \/ /\ th.mode \in {"rename", "over", "whole"} /\ row.dir \notin {NoDir, tk.name}
             /\ th.from = OutputDir(row)
      BY <1>6
    <2> QED BY <1>3, <1>6, <2>1, <2>2, <2>3, <2>4 DEF Moved
  <1> QED BY <1>8, <1>9, <1>10, <1>11, <1>12, <1>13 DEF ThreadStep

\* A job that has been renamed without a merge has a name of its own.
LEMMA OwnFacts ==
  ASSUME Steady, NEW j \in Jobs, Free(j)
  PROVE  /\ rows[j] \in RowType /\ rows[j].dir \in Own(j) \cup {NoDir}
         /\ rows[j].files \in {{}, Downloads(j)} /\ rows[j].files \subseteq Downloads(j)
  <1>1. rows[j] \in RowType
    BY DEF Steady, Settled, Typed
  <1>2. OwnRow(j, j, rows[j], task[j])
    BY DEF Steady, OwnNamed
  <1>3. rows[j].dir \in Own(j) \cup {NoDir}
    BY <1>2 DEF OwnRow, Belongs
  <1>4. Formed(j, rows[j], task[j])
    BY DEF Steady, AllFormed
  <1>5. rows[j].files \in {{}, Downloads(j)}
    BY <1>4 DEF Formed
  <1> QED BY <1>1, <1>3, <1>5

\* A thread goes on to move the files of the job it moves, and spares any other free job.
LEMMA MoversGoOn ==
  ASSUME Steady, Spared, NEW t \in Tasks, ThreadStep(t)
  PROVE  /\ \A j : Mover(t, task'[t], j) <=> Mover(t, task[t], j)
         /\ \A j \in Jobs : Free(j) => Mover(t, task[t], j) \/ Spares(task[t], j)
  <1>1. PICK tk : tk = task[t]
    OBVIOUS
  <1>2. PICK q : q = task'[t]
    OBVIOUS
  <1>3. Typed /\ Stored /\ Sure(tk, disk) /\ IsTaskOf(t, tk) /\ IsThread(tk.thread)
    BY <1>1, InFields DEF Steady, Settled, Sound
  <1>4. tk.at \in {"thread", "moving"}
    BY <1>1, <1>3, ThreadDoes
  <1>5. GoesOnAs(q, tk) /\ q.at \in {"thread", "moving", tk.thread.then} /\ tk.thread.then \in {"renamed", "gathering"}
    BY <1>1, <1>2, <1>3, ThreadSure
  <1>6. q.at \in {"thread", "moving"} => q.thread.then = tk.thread.then
    BY <1>1, <1>2, <1>3, <1>5, ThreadDoes, Nothing DEF Raising
  <1>7. \A j : Mover(t, q, j) <=> Mover(t, tk, j)
    BY <1>4, <1>5, <1>6 DEF Mover, InThread, GoesOnAs
  <1>8. ASSUME NEW j \in Jobs, Free(j), ~Mover(t, tk, j)
        PROVE  Spares(tk, j)
    <2>1. Concerns(t, tk, j) \/ Spares(tk, j)
      BY <1>1, <1>8 DEF Spared
    <2>2. CASE t \in Jobs
      <3>1. tk.thread.then = "renamed"
        BY <1>3, <1>4, <1>5, <2>2, RunFacts DEF IsTaskOf, InMerge, InThread
      <3> QED BY <1>4, <1>8, <2>1, <2>2, <3>1 DEF Concerns, Mover, InThread
    <2>3. CASE t \notin Jobs
      <3>1. t \in Clients
        BY <2>3 DEF Tasks
      <3>2. InRename(tk) => tk.jobs[1] # j
        BY <1>4, <1>8, <2>3 DEF InRename, Mover, InThread
      <3>3. ~InRename(tk) => InMerge(tk)
        BY <1>4, <1>5 DEF InRename, InMerge, InThread
      <3>4. InMerge(tk) => j \notin Range(tk.jobs)
        BY <1>1, <1>8, <3>1 DEF Free, InMergeOf
      <3> QED BY <2>1, <2>3, <3>2, <3>3, <3>4 DEF Concerns
    <2> QED BY <2>2, <2>3
  <1> QED BY <1>1, <1>2, <1>7, <1>8

\* The steps of a thread.
LEMMA ThreadThere ==
  ASSUME Steady, Separate, Spared, AllThere, ~Overlap, \A j \in Jobs : FreeNext(j) => Free(j), NEW t \in Tasks,
         ThreadStep(t)
  PROVE  ThereNext
  <1>1. PICK tk : tk = task[t]
    OBVIOUS
  <1>2. PICK q : q = task'[t]
    OBVIOUS
  <1>3. Typed /\ Stored /\ Sure(tk, disk) /\ Level(world) /\ OneDir(world) /\ IsTaskOf(t, tk) /\ IsThread(tk.thread)
    BY <1>1, InFields DEF Steady, Settled, Sound, Separate
  <1>4. Proceeds(t)
    BY <1>3, ThreadSteps
  <1>5. tk.at \in {"thread", "moving"} /\ Busy(t) /\ rows' = rows
    BY <1>1, <1>3, ThreadDoes DEF Busy
  <1>6. GoesOnAs(q, tk) /\ q.at \in {"thread", "moving", tk.thread.then} /\ tk.thread.then \in {"renamed", "gathering"}
    BY <1>1, <1>2, <1>3, ThreadSure
  <1>7. /\ \A j : Mover(t, q, j) <=> Mover(t, tk, j)
        /\ \A j \in Jobs : Free(j) => Mover(t, tk, j) \/ Spares(tk, j)
    BY <1>1, <1>2, MoversGoOn
  <1>8. ASSUME NEW j \in Jobs, FreeNext(j)
        PROVE  WhereNext(j)
    <2>1. Free(j) /\ Where(j)
      BY <1>8 DEF AllThere
    <2>2. rows[j] \in RowType /\ rows[j].dir \in Own(j) \cup {NoDir} /\ rows[j].files \subseteq Downloads(j)
      BY <2>1, OwnFacts
    <2>3. PICK has \in BOOLEAN : has = Has(j, rows[j], task[j])
      BY DEF Has, Late
    <2>4. Has(j, rows[j], task'[j]) <=> has
      <3>1. CASE t = j
        <4>1. Late(tk) /\ tk.thread.then = "renamed"
          BY <1>3, <1>5, <1>6, <3>1, RunFacts DEF Late, IsTaskOf, InMerge, InThread
        <4>2. Late(q)
          BY <1>6, <4>1 DEF Late
        <4> QED BY <1>1, <1>2, <2>3, <3>1, <4>1, <4>2 DEF Has
      <3>2. CASE t # j
        <4>1. task'[j] = task[j]
          BY <1>3, <1>4, <3>2, OthersStand DEF Tasks
        <4> QED BY <2>3, <4>1
      <3> QED BY <3>1, <3>2
    <2>5. CASE Mover(t, tk, j)
      <3>1. tk.thread.then = "renamed"
        BY <1>5, <2>5 DEF Mover, InThread
      <3>2. Moved(disk, j, rows[j], has, tk)
        BY <1>1, <1>4, <1>5, <2>1, <2>3, <2>5, OneMover
      <3>3. Moved(disk', j, rows[j], has, q)
        BY <1>1, <1>2, <1>3, <2>2, <3>1, <3>2, MoverGoes
      <3>4. Moved(disk', j, rows'[j], Has(j, rows'[j], task'[j]), q)
        BY <1>5, <2>4, <3>3 DEF Moved
      <3> QED BY <1>1, <1>2, <1>4, <1>5, <1>7, <2>1, <2>5, <3>4, OneMover
    <2>6. CASE ~Mover(t, tk, j)
      <3>1. Spares(tk, j)
        BY <1>7, <2>1, <2>6
      <3>2. has => Sits(disk, j, rows[j])
        BY <1>1, <1>4, <1>5, <2>1, <2>3, <2>6, OneMover
      <3>3. has => Sits(disk', j, rows[j])
        BY <1>1, <1>3, <2>2, <3>1, <3>2, SitsStill
      <3> QED BY <1>1, <1>2, <1>4, <1>5, <1>7, <2>1, <2>4, <2>6, <3>3, OneMover
    <2> QED BY <2>5, <2>6
  <1> QED BY <1>8 DEF ThereNext

\* A row that only forgets that its job is done.
LEMMA StaysWhere ==
  ASSUME NEW j, NEW row, NEW after, after.dir = row.dir, after.dest = row.dest, after.files = row.files,
         after.state = row.state \/ after.state # "done", NEW tk, NEW d
  PROVE  /\ Has(j, after, tk) => Has(j, row, tk)
         /\ Sits(d, j, row) => Sits(d, j, after)
  BY DEF Has, Sits, OutputDir

\* The step of a request that moves no file of the job and does not say where they are.
LEMMA RequestLeaves ==
  ASSUME Steady, ~Overlap, NEW c \in Clients, Busy(c) \/ MayBegin, Proceeds(c), NEW j \in Jobs, Where(j),
         ~Mover(c, task[c], j), ~Mover(c, task'[c], j), disk' = disk,
         rows'[j].dir = rows[j].dir, rows'[j].dest = rows[j].dest, rows'[j].files = rows[j].files,
         rows'[j].state = rows[j].state \/ rows'[j].state # "done"
  PROVE  WhereNext(j)
  <1>1. c \in Tasks /\ task'[j] = task[j]
    BY ClientFacts, OthersStand DEF Steady, Settled, Tasks
  <1>2. /\ Has(j, rows'[j], task[j]) => Has(j, rows[j], task[j])
        /\ Sits(disk, j, rows[j]) => Sits(disk, j, rows'[j])
    BY StaysWhere
  <1> QED BY <1>1, <1>2, OneMover

\* A finished job is renamed from where its files are.
LEMMA RenameNowThere ==
  ASSUME Steady, AllThere, ~Overlap, \A j \in Jobs : FreeNext(j) => Free(j), NEW c \in Clients, RenameNow(c)
  PROVE  ThereNext
  <1>1. PICK tk : tk = task[c]
    OBVIOUS
  <1>2. PICK q : q = task'[c]
    OBVIOUS
  <1>3. /\ Typed /\ Stored /\ AtWork /\ AllFormed /\ Knows(tk, rows) /\ c \in Tasks /\ c \notin Jobs
        /\ IsTask(tk) /\ IsThread(tk.thread) /\ tk.jobs \in Seq(Jobs)
    BY <1>1, ClientFacts, InFields DEF Steady, Settled, Knowing
  <1>4. (Busy(c) \/ MayBegin) /\ Proceeds(c)
    BY <1>3, RequestSure
  <1>5. PICK job : job = task[c].seen[1]
    OBVIOUS
  <1>6. PICK loose : loose = Existing(job.dest, rows[task[c].jobs[1]].files)
    OBVIOUS
  <1>7. PICK target : target = job.dest \o <<task[c].name>>
    OBVIOUS
  <1>8. PICK k : k = tk.jobs[1]
    OBVIOUS
  <1>9. PICK mv : mv = Renaming(OutputDir(job), target, "renamed")
    OBVIOUS
  <1>10. PICK gt : gt = Gathering(job.dest, loose, target, "renamed")
    OBVIOUS
  <1>11. /\ mv.mode = "rename" /\ mv.from = OutputDir(job) /\ mv.to = target /\ mv.then = "renamed"
         /\ gt.mode = "gather" /\ gt.from = job.dest /\ gt.todo = loose /\ gt.to = target /\ gt.then = "renamed"
    BY <1>9, <1>10, Threads
  <1>19. /\ task[c].at = "rename" /\ job.state \notin Open
         /\ rows' = rows /\ disk' = disk
         /\ \/ /\ job.dir = NoDir /\ loose # {}
               /\ task'[c] = Await(task[c], Gathering(job.dest, loose, target, "renamed"))
            \/ /\ job.dir \notin {NoDir, task[c].name} /\ IsDir(disk, OutputDir(job))
               /\ task'[c] = Await(task[c], Renaming(OutputDir(job), target, "renamed"))
            \/ /\ ~(job.dir = NoDir /\ loose # {})
               /\ ~(job.dir \notin {NoDir, task[c].name} /\ IsDir(disk, OutputDir(job)))
               /\ task'[c] = NoTask
    <2>1. Typed
      BY <1>3
    <2> QED BY <1>5, <1>6, <1>7, <2>1, RenameNowDoes
  <1>12. tk.at = "rename" /\ job.state \notin Open /\ rows' = rows /\ disk' = disk
    BY <1>1, <1>19
  <1>13. \/ job.dir = NoDir /\ loose # {} /\ q = Await(tk, gt)
         \/ job.dir \notin {NoDir, tk.name} /\ q = Await(tk, mv)
         \/ q = NoTask
    BY <1>1, <1>2, <1>9, <1>10, <1>19
  <1>14. k \in Jobs /\ rows[k] = job
    BY <1>1, <1>3, <1>5, <1>8, <1>12, RenamedJob, SeenRests DEF Knows, InRename
  <1>15. q = NoTask => q.at = "idle"
    BY <1>3, Nothing
  <1>16. q = Await(tk, mv) => q.at = "thread" /\ q.thread = mv /\ q.jobs = tk.jobs /\ q.name = tk.name
    BY <1>3, <1>11 DEF Await, IsTask
  <1>17. q = Await(tk, gt) => q.at = "moving" /\ q.thread = gt /\ q.jobs = tk.jobs /\ q.name = tk.name
    BY <1>3, <1>11 DEF Await, IsTask
  <1>18. ASSUME NEW j \in Jobs, FreeNext(j)
         PROVE  WhereNext(j)
    <2>1. Free(j) /\ Where(j)
      BY <1>18 DEF AllThere
    <2>2. task'[j] = task[j] /\ ~Mover(c, tk, j)
      BY <1>3, <1>4, <1>12, OthersStand DEF Tasks, Mover, InThread
    <2>3. CASE ~Mover(c, q, j)
      BY <1>1, <1>2, <1>4, <1>12, <2>1, <2>2, <2>3, RequestLeaves
    <2>4. CASE Mover(c, q, j)
      <3>1. q.at \in {"thread", "moving", "renamed"} /\ q.jobs[1] = j
        BY <1>3, <2>4 DEF Mover, InThread
      <3>2. q # NoTask
        BY <1>15, <3>1
      <3>3. k = j /\ rows[j] = job /\ q.name = tk.name
        BY <1>8, <1>13, <1>14, <1>16, <1>17, <3>1, <3>2
      <3>4. PICK has \in BOOLEAN : has = Has(j, rows[j], task[j])
        BY DEF Has, Late
      <3>5. has => Sits(disk, j, job)
        BY <1>1, <1>3, <1>4, <2>1, <2>2, <3>3, <3>4, OneMover
      <3>6. target = job.dest \o <<q.name>>
        BY <1>1, <1>7, <3>3
      <3>7. CASE q = Await(tk, mv)
        <4>1. CASE job.dir \notin {NoDir, tk.name}
          <5>1. has => Here(disk, j, OutputDir(job))
            BY <3>5, <4>1 DEF Sits
          <5>2. q.at = "thread" /\ q.thread = mv
            BY <1>16, <3>7
          <5>3. Moved(disk, j, job, has, q)
            BY <1>11, <3>3, <3>6, <4>1, <5>1, <5>2 DEF Moved
          <5> QED BY <1>1, <1>2, <1>3, <1>4, <1>12, <2>1, <2>2, <2>4, <3>3, <3>4, <5>3, OneMover
        <4>2. CASE ~(job.dir \notin {NoDir, tk.name})
          <5>1. q = Await(tk, gt)
            BY <1>13, <3>2, <4>2
          <5> QED BY <1>11, <1>16, <1>17, <3>7, <5>1
        <4> QED BY <4>1, <4>2
      <3>8. CASE q = Await(tk, gt)
        <4>1. job.dir = NoDir /\ loose # {}
          <5>1. q # Await(tk, mv)
            BY <1>11, <1>16, <1>17, <3>8
          <5> QED BY <1>13, <3>2, <5>1
        <4>2. loose = Existing(job.dest, job.files)
          BY <1>1, <1>6, <1>8, <3>3
        <4>3. loose \subseteq job.files /\ job.files # {}
          BY <4>1, <4>2 DEF Existing
        <4>4. DirOf[j] = NoDir /\ job.files = Downloads(j) /\ job.dest \in Seq(Component)
          <5>1. Formed(j, job, task[j]) /\ job \in RowType
            BY <1>3, <3>3 DEF AllFormed, Typed
          <5> QED BY <1>3, <4>1, <4>3, <5>1, Dirs DEF Formed
        <4>5. q.at = "moving" /\ q.thread = gt
          BY <1>17, <3>8
        <4>6. ASSUME has
              PROVE  OnTheWay(disk, j, gt)
          <5>1. LiesFlat(disk, j, job.dest)
            BY <3>5, <4>1, <4>6 DEF Sits
          <5>2. \A rel \in Downloads(j) : rel \in loose /\ In(job.dest, rel) \in DOMAIN disk
            BY <4>2, <4>4, <5>1 DEF LiesFlat, Existing
          <5>3. \A f \in FilesOf[j] : \E rel \in Downloads(j) : rel.name = f
            BY <1>3, <4>4, FlatFile DEF Steady
          <5>4. gt.from = job.dest /\ gt.todo = loose
            BY <1>11
          <5> QED BY <5>2, <5>3, <5>4 DEF OnTheWay
        <4>7. Moved(disk, j, job, has, q)
          BY <1>11, <3>6, <4>1, <4>3, <4>4, <4>5, <4>6 DEF Moved
        <4> QED BY <1>1, <1>2, <1>3, <1>4, <1>12, <2>1, <2>2, <2>4, <3>3, <3>4, <4>7, OneMover
      <3> QED BY <1>13, <3>2, <3>7, <3>8
    <2> QED BY <2>3, <2>4
  <1> QED BY <1>18 DEF ThereNext

\* The directory of a renamed job is recorded when its files are there.
LEMMA WriteRenamedThere ==
  ASSUME Steady, Names(world), AllThere, ~Overlap, \A j \in Jobs : FreeNext(j) => Free(j),
         NEW c \in Clients, WriteRenamed(c)
  PROVE  ThereNext
  <1>1. PICK tk : tk = task[c]
    OBVIOUS
  <1>2. PICK k : k = task[c].jobs[1]
    OBVIOUS
  <1>3. /\ Typed /\ Stored /\ AtWork /\ Knows(tk, rows) /\ c \in Tasks /\ c \notin Jobs
    BY <1>1, ClientFacts DEF Steady, Settled, Knowing
  <1>4. (Busy(c) \/ MayBegin) /\ Proceeds(c)
    BY <1>3, RequestSure
  <1>5. /\ tk.at = "renamed" /\ k \in Jobs /\ Alters(k, {"dir"}) /\ rows'[k].dir = tk.name
        /\ disk' = disk /\ task'[c] = NoTask
    BY <1>1, <1>2, <1>3, WriteRenamedDoes
  <1>6. task'[c].at = "idle"
    BY <1>3, <1>5, Nothing
  <1>7. \A j : ~Mover(c, task'[c], j)
    BY <1>6 DEF Mover, InThread
  <1>8. tk.name # NoDir
    <2>1. tk.name \in NamesOf[k]
      BY <1>1, <1>2, <1>3, <1>5 DEF Knows, InRename
    <2> QED BY <1>5, <2>1 DEF Names, NamesOf, Jobs
  <1>9. ASSUME NEW j \in Jobs, FreeNext(j)
        PROVE  WhereNext(j)
    <2>1. Where(j)
      BY <1>9 DEF AllThere
    <2>2. task'[j] = task[j]
      BY <1>3, <1>4, OthersStand DEF Tasks
    <2>3. CASE j # k
      <3>1. rows'[j] = rows[j] /\ ~Mover(c, tk, j)
        BY <1>1, <1>2, <1>3, <1>5, <2>3 DEF Alters, Mover
      <3> QED BY <1>1, <1>4, <1>5, <1>7, <2>1, <3>1, RequestLeaves
    <2>4. CASE j = k
      <3>1. Mover(c, tk, j)
        BY <1>1, <1>2, <1>3, <1>5, <2>4 DEF Mover
      <3>2. Moved(disk, j, rows[j], Has(j, rows[j], task[j]), tk)
        BY <1>1, <1>3, <1>4, <2>1, <3>1, OneMover
      <3>3. /\ rows'[j].dest = rows[j].dest /\ rows'[j].files = rows[j].files /\ rows'[j].state = rows[j].state
            /\ rows'[j].dir = tk.name
        BY <1>5, <2>4 DEF Alters, Columns
      <3>4. ASSUME Has(j, rows'[j], task'[j])
            PROVE  Sits(disk', j, rows'[j])
        <4>1. Has(j, rows[j], task[j])
          <5>1. DirOf[j] = NoDir => rows[j].files # {} \/ rows[j].dir # NoDir
            BY <3>2 DEF Moved
          <5> QED BY <2>2, <3>3, <3>4, <5>1 DEF Has
        <4>2. Here(disk, j, tk.thread.to) /\ tk.thread.to = rows[j].dest \o <<tk.name>>
          BY <1>5, <3>2, <4>1 DEF Moved
        <4>3. OutputDir(rows'[j]) = tk.thread.to
          BY <3>3, <4>2 DEF OutputDir
        <4> QED BY <1>5, <1>8, <3>3, <4>2, <4>3 DEF Sits
      <3> QED BY <1>1, <1>3, <1>4, <1>7, <2>1, <3>4, OneMover
    <2> QED BY <2>3, <2>4
  <1> QED BY <1>9 DEF ThereNext

\* The other requests move no file, and leave alone what the rows of free jobs say of theirs.
LEMMA RequestMoves ==
  ASSUME Typed, NEW c \in Clients,
         \/ RenameRequested(c) \/ DeferRename(c) \/ MergeRequested(c) \/ ReadMember(c) \/ GatherMember(c)
         \/ UpdateMember(c) \/ SetGroupName(c) \/ DueListed(c) \/ RequeueDue(c)
  PROVE  /\ disk' = disk /\ \A j : ~Mover(c, task[c], j) /\ ~Mover(c, task'[c], j)
         /\ \A j \in Jobs : FreeNext(j) =>
               /\ rows'[j].dir = rows[j].dir /\ rows'[j].dest = rows[j].dest /\ rows'[j].files = rows[j].files
               /\ rows'[j].state = rows[j].state \/ rows'[j].state # "done"
  <1>1. PICK tk : tk = task[c]
    OBVIOUS
  <1>2. PICK q : q = task'[c]
    OBVIOUS
  <1>3. Typed /\ c \in Tasks /\ c \notin Jobs /\ IsTaskOf(c, tk)
    BY <1>1, ClientFacts, InFields
  <1>4. disk' = disk /\ (\A j : ~Mover(c, tk, j)) /\ (\A j : ~Mover(c, q, j))
    <2>1. CASE RenameRequested(c) \/ DueListed(c)
      <3>1. disk' = disk /\ tk.at = "idle" /\ q.at \in {"rename", "due"}
        BY <1>1, <1>2, <1>3, <2>1, RenameRequestedDoes, DueListedDoes
      <3> QED BY <3>1 DEF Mover, InThread
    <2>2. CASE MergeRequested(c)
      <3>1. disk' = disk /\ tk.at = "idle" /\ q.at = "reading"
        BY <1>1, <1>2, <1>3, <2>2, MergeRequestedDoes
      <3> QED BY <3>1 DEF Mover, InThread
    <2>3. CASE DeferRename(c) \/ RequeueDue(c) \/ SetGroupName(c)
      <3>1. PICK k : k = task[c].jobs[1]
        OBVIOUS
      <3>2. disk' = disk /\ tk.at \in {"rename", "due", "naming"} /\ q = NoTask
        BY <1>1, <1>2, <1>3, <2>3, <3>1, DeferRenameDoes, RequeueDueDoes, SetGroupNameDoes
      <3>3. q.at = "idle"
        BY <1>3, <3>2, Nothing
      <3> QED BY <3>2, <3>3 DEF Mover, InThread
    <2>4. CASE UpdateMember(c)
      <3>1. disk' = disk /\ tk.at = "updating" /\ q.at \in {"updating", "naming"}
        BY <1>1, <1>2, <1>3, <2>4, UpdateMemberDoes
      <3> QED BY <3>1 DEF Mover, InThread
    <2>5. CASE ReadMember(c)
      <3>1. PICK n : n = Len(tk.seen) + 1
        OBVIOUS
      <3>2. PICK row : row = rows[tk.jobs[n]]
        OBVIOUS
      <3>3. PICK srcs : srcs = SourcesWith(tk, row)
        OBVIOUS
      <3>4. /\ tk.at = "reading" /\ disk' = disk
            /\ \/ q = NoTask
               \/ q.at = "reading"
               \/ q.at = "thread" /\ q.thread = Merging(srcs, q.seen[1].dest \o <<tk.name>>, "gathering")
        BY <1>1, <1>2, <1>3, <2>5, <3>1, <3>2, <3>3, ReadMemberDoes
      <3>5. q.at = "idle" \/ q.at = "reading" \/ (q.at = "thread" /\ q.thread.then = "gathering")
        BY <1>3, <3>4, Threads, Nothing
      <3> QED BY <3>4, <3>5 DEF Mover, InThread
    <2>6. CASE GatherMember(c)
      <3>1. PICK job : job = tk.seen[tk.i]
        OBVIOUS
      <3>2. PICK loose : loose = Existing(job.dest, rows[tk.jobs[tk.i]].files)
        OBVIOUS
      <3>3. /\ tk.at = "gathering" /\ disk' = disk
            /\ \/ q.at \in {"updating", "gathering"}
               \/ q.at = "moving" /\ q.thread = Gathering(job.dest, loose, Target(tk), "gathering")
        BY <1>1, <1>2, <1>3, <2>6, <3>1, <3>2, GatherMemberDoes
      <3>4. q.at \in {"updating", "gathering"} \/ (q.at = "moving" /\ q.thread.then = "gathering")
        BY <3>3, Threads
      <3> QED BY <3>3, <3>4 DEF Mover, InThread
    <2> QED BY <2>1, <2>2, <2>3, <2>4, <2>5, <2>6
  <1>5. ASSUME NEW j \in Jobs, FreeNext(j)
        PROVE  /\ rows'[j].dir = rows[j].dir /\ rows'[j].dest = rows[j].dest /\ rows'[j].files = rows[j].files
               /\ rows'[j].state = rows[j].state \/ rows'[j].state # "done"
    <2>1. CASE RenameRequested(c) \/ DueListed(c) \/ MergeRequested(c) \/ ReadMember(c) \/ GatherMember(c)
      BY <2>1 DEF RenameRequested, DueListed, MergeRequested, ReadMember, GatherMember
    <2>2. PICK k : k = task[c].jobs[1]
      OBVIOUS
    <2>3. CASE DeferRename(c)
      <3>1. Alters(k, {"rename_to"})
        BY <1>3, <2>2, <2>3, DeferRenameDoes
      <3> QED BY <3>1 DEF Alters, Columns
    <2>4. CASE RequeueDue(c)
      <3>1. Alters(k, {"state", "rename_to"}) /\ rows'[k].state = "queued"
        BY <1>3, <2>2, <2>4, RequeueDueDoes
      <3> QED BY <3>1 DEF Alters, Columns
    <2>5. CASE SetGroupName(c)
      BY <1>3, <2>5, SetGroupNameDoes DEF Columns
    <2>6. CASE UpdateMember(c)
      <3>1. PICK i : i = tk.jobs[tk.i]
        OBVIOUS
      <3>2. /\ rows'[i].group # 0
            /\ \/ Alters(i, {"group", "gname", "dir", "dest"})
               \/ Alters(i, {"group", "gname", "rename_to"})
        BY <1>1, <1>3, <2>6, <3>1, UpdateMemberDoes
      <3>3. i # j
        BY <1>5, <3>2 DEF FreeNext
      <3> QED BY <3>2, <3>3 DEF Alters
    <2> QED BY <2>1, <2>3, <2>4, <2>5, <2>6
  <1> QED BY <1>1, <1>2, <1>4, <1>5

\* The steps of requests.
LEMMA RequestThere ==
  ASSUME Steady, Names(world), AllThere, ~Overlap, \A j \in Jobs : FreeNext(j) => Free(j), NEW c \in Clients,
         \/ RenameRequested(c) \/ DeferRename(c) \/ RenameNow(c) \/ WriteRenamed(c)
         \/ MergeRequested(c) \/ ReadMember(c) \/ GatherMember(c) \/ UpdateMember(c) \/ SetGroupName(c)
         \/ DueListed(c) \/ RequeueDue(c)
  PROVE  ThereNext
  <1>1. Typed
    BY DEF Steady, Settled
  <1>2. (Busy(c) \/ MayBegin) /\ Proceeds(c)
    BY <1>1, RequestSure
  <1>3. ASSUME ~RenameNow(c), ~WriteRenamed(c)
        PROVE  ThereNext
    <2>1. /\ disk' = disk /\ \A j : ~Mover(c, task[c], j) /\ ~Mover(c, task'[c], j)
          /\ \A j \in Jobs : FreeNext(j) =>
                /\ rows'[j].dir = rows[j].dir /\ rows'[j].dest = rows[j].dest /\ rows'[j].files = rows[j].files
                /\ rows'[j].state = rows[j].state \/ rows'[j].state # "done"
      BY <1>1, <1>3, RequestMoves
    <2>2. ASSUME NEW j \in Jobs, FreeNext(j)
          PROVE  WhereNext(j)
      <3>1. Where(j)
        BY <2>2 DEF AllThere
      <3> QED BY <1>2, <2>1, <2>2, <3>1, RequestLeaves
    <2> QED BY <2>2 DEF ThereNext
  <1> QED BY <1>3, RenameNowThere, WriteRenamedThere

\* What begins and fails beside a request leaves files and what is known of them alone.
LEMMA BystandThere ==
  ASSUME Steady, AllThere, \A j \in Jobs : FreeNext(j) => Free(j), NEW k \in Jobs, Bystands(k)
  PROVE  ThereNext
  <1>1. Typed /\ Stored /\ AtWork /\ Knowing /\ k \in Tasks
    BY RunFacts DEF Steady, Settled
  <1>2. /\ rows[k].state \in Open /\ rows'[k].state \in {"active", "error"}
        /\ Alters(k, {"state", "dir"}) /\ (\A u \in Tasks \ {k} : task'[u] = task[u])
        /\ task[k].at \in {"idle", "downloading", "detected"} /\ task'[k].at \in {"idle", "downloading", "detected"}
    BY <1>1, BystandDoes
  <1>3. disk' = disk
    BY DEF Bystands, StartRun, DetectDir, FailRun
  <1>4. DirOf[k] = NoDir => rows'[k].dir = rows[k].dir
    <2>1. PICK tk : tk = task[k]
      OBVIOUS
    <2>2. DetectDir(k) => DirOf[k] # NoDir
      BY OneDirFacts DEF DetectDir, Steady
    <2>3. FailRun(k) => Alters(k, {"state"})
      BY <1>1, <2>1, RunDoes
    <2>4. StartRun(k) => Alters(k, {"state"})
      BY <1>1, StartRunDoes
    <2> QED BY <2>2, <2>3, <2>4 DEF Bystands, Alters, Columns
  <1>5. \A t \in Tasks : \A j : Mover(t, task'[t], j) <=> Mover(t, task[t], j)
    BY <1>2 DEF Mover, InThread
  <1>6. ASSUME NEW j \in Jobs, FreeNext(j)
        PROVE  WhereNext(j)
    <2>1. Where(j)
      BY <1>6 DEF AllThere
    <2>2. CASE j # k
      <3>1. rows'[j] = rows[j] /\ task'[j] = task[j]
        BY <1>2, <2>2 DEF Alters, Tasks
      <3>2. \A t \in Tasks : Mover(t, task[t], j) => task'[t] = task[t]
        BY <1>2 DEF Mover, InThread
      <3> QED BY <1>3, <1>5, <2>1, <3>1, <3>2 DEF Where, WhereNext
    <2>3. CASE j = k
      <3>1. ASSUME NEW t \in Tasks, Mover(t, task[t], j)
            PROVE  FALSE
        <4>1. CASE t \in Jobs
          BY <1>2, <2>3, <3>1, <4>1 DEF Mover, InThread
        <4>2. CASE t \notin Jobs
          <5>1. t \in Clients /\ InRename(task[t]) /\ task[t].at # "rename" /\ task[t].jobs[1] = k
            BY <2>3, <3>1, <4>2 DEF Mover, InRename, InThread, Tasks
          <5>2. StillSo(task[t].seen[1], rows[k]) /\ task[t].seen[1].state \notin Open
            BY <1>1, <5>1 DEF Knowing, Knows
          <5> QED BY <1>2, <5>2 DEF StillSo
        <4> QED BY <4>1, <4>2
      <3>2. ASSUME Has(j, rows'[j], task'[j])
            PROVE  Sits(disk', j, rows'[j])
        <4>1. rows'[j].files = rows[j].files /\ rows'[j].dest = rows[j].dest
          BY <1>2, <2>3 DEF Alters, Columns
        <4>2. DirOf[j] = NoDir /\ (rows'[j].files # {} \/ rows'[j].dir # NoDir)
          BY <1>2, <2>3, <3>2 DEF Has, Late
        <4>3. rows'[j].dir = rows[j].dir
          BY <1>4, <2>3, <4>2
        <4>4. Has(j, rows[j], task[j])
          BY <4>1, <4>2, <4>3 DEF Has
        <4>5. Sits(disk, j, rows[j])
          BY <2>1, <3>1, <4>4 DEF Where
        <4> QED BY <1>3, <4>1, <4>3, <4>5 DEF Sits, OutputDir
      <3> QED BY <1>5, <3>1, <3>2 DEF WhereNext
    <2> QED BY <2>2, <2>3
  <1> QED BY <1>6 DEF ThereNext

\* Files that are where the row says stay there when others land.
LEMMA SitsThrough ==
  ASSUME NEW d, NEW e, DOMAIN d \subseteq DOMAIN e, NEW j, NEW row, Sits(d, j, row)
  PROVE  Sits(e, j, row)
  BY DEF Sits, LiesFlat, Here

\* What lands takes no file from where the row of its job says.
LEMMA LandingThere ==
  ASSUME Steady, AllThere, ~Overlap, \A j \in Jobs : FreeNext(j) => Free(j), NEW k \in Jobs,
         Downloaded(k) \/ LandFile(k)
  PROVE  ThereNext
  <1>1. PICK tk : tk = task[k]
    OBVIOUS
  <1>2. PICK q : q = task'[k]
    OBVIOUS
  <1>3. Typed /\ Stored /\ AtWork /\ k \in Tasks
    BY RunFacts DEF Steady, Settled
  <1>4. (Busy(k) \/ MayBegin) /\ Proceeds(k)
    BY <1>3, RunSure
  <1>5. /\ tk.at \in {"downloading", "detected", "landing"} /\ q.at = "landing" /\ rows' = rows
        /\ DOMAIN disk \subseteq DOMAIN disk'
    <2>1. CASE Downloaded(k)
      BY <1>1, <1>2, <1>3, <2>1, RunDoes
    <2>2. CASE LandFile(k)
      <3>1. PICK dest : dest = tk.seen[1].dest
        OBVIOUS
      <3>2. /\ tk.at = "landing" /\ q.at = "landing" /\ rows' = rows
            /\ \E rel \in tk.thread.todo : disk' = Arrived(dest, k, rel, disk)
        BY <1>1, <1>2, <1>3, <2>2, <3>1, RunDoes
      <3>3. \A rel : DOMAIN Arrived(dest, k, rel, disk) = DOMAIN disk \cup {In(dest, rel)}
        BY DEF Arrived
      <3> QED BY <3>2, <3>3
    <2> QED BY <2>1, <2>2
  <1>6. \A j : ~Mover(k, tk, j) /\ ~Mover(k, q, j)
    BY <1>5 DEF Mover, InThread
  <1>7. ASSUME NEW j \in Jobs, FreeNext(j)
        PROVE  WhereNext(j)
    <2>1. Where(j)
      BY <1>7 DEF AllThere
    <2>2. Has(j, rows[j], task[j]) => Sits(disk', j, rows[j])
      <3>1. Has(j, rows[j], task[j]) => Sits(disk, j, rows[j])
        BY <1>1, <1>3, <1>4, <1>6, <2>1, OneMover
      <3> QED BY <1>5, <3>1, SitsThrough
    <2>3. Has(j, rows[j], task'[j]) => Has(j, rows[j], task[j])
      <3>1. CASE j = k
        BY <1>2, <1>5, <3>1 DEF Has, Late
      <3>2. CASE j # k
        BY <1>3, <1>4, <3>2, OthersStand DEF Tasks
      <3> QED BY <3>1, <3>2
    <2> QED BY <1>2, <1>3, <1>4, <1>5, <1>6, <2>1, <2>2, <2>3, OneMover
  <1> QED BY <1>7 DEF ThereNext

\* What has landed is where the row of its job says, once the run records it.
LEMMA RecordedThere ==
  ASSUME Steady, AllThere, ~Overlap, \A j \in Jobs : FreeNext(j) => Free(j), NEW k \in Jobs, RecordFiles(k)
  PROVE  ThereNext
  <1>1. PICK tk : tk = task[k]
    OBVIOUS
  <1>2. PICK q : q = task'[k]
    OBVIOUS
  <1>3. PICK d : d = rows[k].dest
    OBVIOUS
  <1>4. /\ Typed /\ Stored /\ AtWork /\ AllFormed /\ RunReads(k) /\ k \in Tasks /\ rows[k] \in RowType
        /\ Landed(k, tk, disk) /\ OneDir(world)
    BY <1>1, RunFacts DEF Steady, Settled, Knowing, AllLanded
  <1>5. (Busy(k) \/ MayBegin) /\ Proceeds(k)
    BY <1>4, RunSure
  <1>6. /\ tk.at = "landing" /\ tk.thread.todo = {} /\ q.at = "recorded"
        /\ Alters(k, {"files"}) /\ disk' = disk
    BY <1>1, <1>2, <1>4, RunDoes
  <1>7. tk.seen[1].dest = d /\ d \in Seq(Component)
    BY <1>1, <1>3, <1>4, <1>6, Dirs DEF RunReads
  <1>8. \A rel \in Downloads(k) : In(d, rel) \in DOMAIN disk
    BY <1>4, <1>6, <1>7 DEF Landed
  <1>9. \A j : ~Mover(k, tk, j) /\ ~Mover(k, q, j)
    BY <1>6 DEF Mover, InThread
  <1>10. rows'[k].dir = rows[k].dir /\ rows'[k].dest = rows[k].dest
    BY <1>6 DEF Alters, Columns
  <1>11. ASSUME FreeNext(k)
         PROVE  Has(k, rows[k], tk) => Sits(disk, k, rows[k])
    <2>1. Where(k)
      BY <1>11 DEF AllThere
    <2> QED BY <1>1, <1>4, <1>5, <1>9, <2>1, OneMover
  <1>12. ASSUME FreeNext(k)
         PROVE  Sits(disk, k, rows[k])
    <2>1. CASE DirOf[k] = NoDir /\ rows[k].dir = NoDir
      BY <1>3, <1>8, <2>1 DEF Sits, LiesFlat
    <2>2. CASE DirOf[k] = NoDir /\ rows[k].dir # NoDir
      BY <1>11, <1>12, <2>2 DEF Has
    <2>3. CASE DirOf[k] # NoDir
      <3>1. rows[k].dir = DirOf[k]
        BY <1>1, <1>4, <1>6, <2>3 DEF AllFormed, Formed
      <3>2. ASSUME NEW f \in FilesOf[k]
            PROVE  \E p \in DOMAIN disk : p.name = f /\ IsPrefix(d \o <<DirOf[k]>>, p.dir)
        <4>1. PICK rel : rel = Path(<<DirOf[k]>>, f)
          OBVIOUS
        <4>2. rel \in Downloads(k)
          BY <1>4, <2>3, <3>2, <4>1, OneDirFacts
        <4>3. rel.name = f /\ rel.dir = <<DirOf[k]>>
          BY <4>1 DEF Path
        <4>4. IsPath(rel)
          BY <1>4, <4>2, Dirs
        <4>5. PICK p : p = In(d, rel)
          OBVIOUS
        <4>6. p.name = rel.name /\ p.dir = d \o rel.dir
          BY <1>7, <4>4, <4>5, PathIn
        <4>7. p.name = f /\ p.dir = d \o <<DirOf[k]>>
          BY <4>3, <4>6
        <4>8. p \in DOMAIN disk
          BY <1>8, <4>2, <4>5
        <4>9. d \o <<DirOf[k]>> \in Seq(Component)
          BY <1>3, <1>4, <3>1, Dirs DEF OutputDir
        <4>10. IsPrefix(p.dir, p.dir)
          BY <4>7, <4>9, SubSeqFull DEF IsPrefix
        <4> QED BY <4>7, <4>8, <4>10
      <3>3. OutputDir(rows[k]) = d \o <<DirOf[k]>>
        BY <1>3, <3>1 DEF OutputDir
      <3> QED BY <2>3, <3>1, <3>2, <3>3 DEF Sits, Here
    <2> QED BY <2>1, <2>2, <2>3
  <1>13. ASSUME NEW j \in Jobs, FreeNext(j)
         PROVE  WhereNext(j)
    <2>1. Where(j)
      BY <1>13 DEF AllThere
    <2>2. CASE j # k
      <3>1. rows'[j] = rows[j] /\ task'[j] = task[j]
        BY <1>4, <1>5, <1>6, <2>2, OthersStand DEF Alters, Tasks
      <3>2. Has(j, rows[j], task[j]) => Sits(disk, j, rows[j])
        BY <1>1, <1>4, <1>5, <1>9, <2>1, OneMover
      <3> QED BY <1>2, <1>4, <1>5, <1>6, <1>9, <2>1, <3>1, <3>2, OneMover
    <2>3. CASE j = k
      <3>1. Sits(disk', j, rows'[j])
        BY <1>6, <1>10, <1>12, <1>13, <2>3 DEF Sits, OutputDir
      <3> QED BY <1>2, <1>4, <1>5, <1>9, <2>1, <2>3, <3>1, OneMover
    <2> QED BY <2>2, <2>3
  <1> QED BY <1>13 DEF ThereNext

\* A run applies the pending name to where its files are.
LEMMA ReadPendingThere ==
  ASSUME Steady, AllThere, ~Overlap, \A j \in Jobs : FreeNext(j) => Free(j), NEW k \in Jobs, ReadPending(k)
  PROVE  ThereNext
  <1>1. PICK tk : tk = task[k]
    OBVIOUS
  <1>2. PICK q : q = task'[k]
    OBVIOUS
  <1>3. PICK job : job = rows[k]
    OBVIOUS
  <1>4. PICK base : base = tk.seen[1].dest
    OBVIOUS
  <1>5. PICK mv : mv = Renaming(base \o <<job.dir>>, base \o <<job.rename_to>>, "renamed")
    OBVIOUS
  <1>6. PICK gt : gt = Gathering(base, job.files, base \o <<job.rename_to>>, "renamed")
    OBVIOUS
  <1>7. /\ Typed /\ Stored /\ AtWork /\ AllFormed /\ RunReads(k) /\ k \in Tasks /\ job \in RowType
    BY <1>3, RunFacts DEF Steady, Settled, Knowing
  <1>8. (Busy(k) \/ MayBegin) /\ Proceeds(k)
    BY <1>7, RunSure
  <1>9. /\ tk.at = "recorded" /\ rows' = rows /\ disk' = disk
        /\ \/ q.at \in {"verdict", "clearing"}
           \/ /\ job.rename_to \notin {NoDir, job.dir} /\ job.dir # NoDir
              /\ q.at = "thread" /\ q.name = job.rename_to /\ q.thread = mv
           \/ /\ job.rename_to \notin {NoDir, job.dir} /\ ~(job.dir # NoDir /\ IsDir(disk, base \o <<job.dir>>))
              /\ job.files # {} /\ q.at = "moving" /\ q.name = job.rename_to /\ q.thread = gt
    <2>1. Typed
      BY <1>7
    <2>2. LET bs == tk.seen[1].dest
          IN  /\ tk.at = "recorded" /\ rows' = rows /\ disk' = disk
              /\ \/ task'[k].at \in {"verdict", "clearing"}
                 \/ /\ rows[k].rename_to \notin {NoDir, rows[k].dir} /\ rows[k].dir # NoDir
                    /\ task'[k].at = "thread" /\ task'[k].name = rows[k].rename_to
                    /\ task'[k].thread = Renaming(bs \o <<rows[k].dir>>, bs \o <<rows[k].rename_to>>, "renamed")
                 \/ /\ rows[k].rename_to \notin {NoDir, rows[k].dir}
                    /\ ~(rows[k].dir # NoDir /\ IsDir(disk, bs \o <<rows[k].dir>>))
                    /\ rows[k].files # {} /\ task'[k].at = "moving" /\ task'[k].name = rows[k].rename_to
                    /\ task'[k].thread = Gathering(bs, rows[k].files, bs \o <<rows[k].rename_to>>, "renamed")
      BY <2>1, <1>1, ReadPendingDoes
    <2>3. LET bs == base
          IN  /\ tk.at = "recorded" /\ rows' = rows /\ disk' = disk
              /\ \/ q.at \in {"verdict", "clearing"}
                 \/ /\ job.rename_to \notin {NoDir, job.dir} /\ job.dir # NoDir
                    /\ q.at = "thread" /\ q.name = job.rename_to
                    /\ q.thread = Renaming(bs \o <<job.dir>>, bs \o <<job.rename_to>>, "renamed")
                 \/ /\ job.rename_to \notin {NoDir, job.dir}
                    /\ ~(job.dir # NoDir /\ IsDir(disk, bs \o <<job.dir>>))
                    /\ job.files # {} /\ q.at = "moving" /\ q.name = job.rename_to
                    /\ q.thread = Gathering(bs, job.files, bs \o <<job.rename_to>>, "renamed")
      BY <2>2, <1>2, <1>3, <1>4
    <2>4. mv = Renaming(base \o <<job.dir>>, base \o <<job.rename_to>>, "renamed")
      BY <1>5
    <2>5. gt = Gathering(base, job.files, base \o <<job.rename_to>>, "renamed")
      BY <1>6
    <2> QED BY <2>3, <2>4, <2>5
  <1>10. /\ mv.mode = "rename" /\ mv.from = base \o <<job.dir>> /\ mv.to = base \o <<job.rename_to>>
         /\ gt.mode = "gather" /\ gt.from = base /\ gt.todo = job.files /\ gt.to = base \o <<job.rename_to>>
    BY <1>5, <1>6 DEF Renaming, Gathering, NoThread
  <1>11. base = job.dest
    BY <1>1, <1>3, <1>4, <1>7, <1>9 DEF RunReads
  <1>12. \A j : ~Mover(k, tk, j) /\ (Mover(k, q, j) => k = j)
    BY <1>9 DEF Mover, InThread
  <1>13. ASSUME NEW j \in Jobs, FreeNext(j)
         PROVE  WhereNext(j)
    <2>1. Where(j)
      BY <1>13 DEF AllThere
    <2>2. Has(j, rows[j], task[j]) => Sits(disk, j, rows[j])
      BY <1>1, <1>7, <1>8, <1>12, <2>1, OneMover
    <2>3. CASE j # k
      <3>1. task'[j] = task[j]
        BY <1>7, <1>8, <2>3, OthersStand DEF Tasks
      <3> QED BY <1>2, <1>7, <1>8, <1>9, <1>12, <2>1, <2>2, <2>3, <3>1, OneMover
    <2>4. CASE j = k
      <3>1. Sits(disk, j, job)
        BY <1>1, <1>3, <1>9, <2>2, <2>4 DEF Has, Late
      <3>2. ASSUME ~Mover(k, q, j)
            PROVE  WhereNext(j)
        <4>1. Sits(disk', j, rows'[j])
          BY <1>3, <1>9, <2>4, <3>1
        <4> QED BY <1>2, <1>7, <1>8, <2>1, <3>2, <4>1, OneMover
      <3>3. PICK has \in BOOLEAN : has = Has(j, rows'[j], task'[j])
        BY DEF Has, Late
      <3>4. ASSUME Mover(k, q, j)
            PROVE  Moved(disk, j, job, has, q)
        <4>1. q.at \notin {"verdict", "clearing"}
          BY <3>4 DEF Mover, InThread
        <4>2. CASE q.at = "thread"
          <5>1. /\ job.rename_to \notin {NoDir, job.dir} /\ job.dir # NoDir /\ q.name = job.rename_to /\ q.thread = mv
            BY <1>9, <4>2
          <5>2. mv.from = OutputDir(job) /\ mv.to = job.dest \o <<q.name>> /\ job.dir \notin {NoDir, q.name}
            BY <1>10, <1>11, <5>1 DEF OutputDir
          <5>3. Here(disk, j, OutputDir(job))
            BY <3>1, <5>1 DEF Sits
          <5> QED BY <1>10, <4>2, <5>1, <5>2, <5>3 DEF Moved
        <4>3. CASE q.at = "moving"
          <5>1. /\ ~(job.dir # NoDir /\ IsDir(disk, base \o <<job.dir>>))
                /\ job.files # {} /\ q.name = job.rename_to /\ q.thread = gt
            BY <1>9, <4>3
          <5>2. job.files = Downloads(j)
            BY <1>1, <1>3, <1>7, <1>9, <2>4 DEF AllFormed, Formed, Late
          <5>3. job.dir = NoDir
            <6>1. ASSUME job.dir # NoDir
                  PROVE  FALSE
              <7>1. Here(disk, j, base \o <<job.dir>>)
                BY <1>11, <3>1, <6>1 DEF Sits, OutputDir
              <7>2. FilesOf[j] # {}
                BY <5>1, <5>2, OneDirFacts DEF Steady
              <7> QED BY <5>1, <6>1, <7>1, <7>2 DEF Here, IsDir, Under
            <6> QED BY <6>1
          <5>4. DirOf[j] = NoDir /\ LiesFlat(disk, j, base)
            BY <1>11, <3>1, <5>3 DEF Sits
          <5>5. \A f \in FilesOf[j] : \E rel \in Downloads(j) : rel.name = f
            BY <1>7, <1>11, <5>4, FlatFile, Dirs DEF Steady
          <5>6. OnTheWay(disk, j, gt)
            BY <1>10, <5>2, <5>4, <5>5 DEF OnTheWay, LiesFlat
          <5>7. gt.mode = "gather" /\ gt.from = job.dest /\ gt.todo = job.files /\ gt.to = job.dest \o <<q.name>>
            BY <1>10, <1>11, <5>1
          <5> QED BY <4>3, <5>1, <5>3, <5>4, <5>6, <5>7 DEF Moved
        <4> QED BY <1>9, <4>1, <4>2, <4>3
      <3>5. ASSUME Mover(k, q, j)
            PROVE  WhereNext(j)
        <4>1. Moved(disk', j, rows'[j], Has(j, rows'[j], task'[j]), q)
          BY <1>3, <1>9, <2>4, <3>3, <3>4, <3>5
        <4> QED BY <1>2, <1>7, <1>8, <2>1, <3>5, <4>1, OneMover
      <3> QED BY <3>2, <3>5
    <2> QED BY <2>3, <2>4
  <1> QED BY <1>13 DEF ThereNext

\* The directory of the run's job is recorded when its files are there.
LEMMA WriteAppliedThere ==
  ASSUME Steady, AllThere, ~Overlap, \A j \in Jobs : FreeNext(j) => Free(j), NEW k \in Jobs, WriteApplied(k)
  PROVE  ThereNext
  <1>1. PICK tk : tk = task[k]
    OBVIOUS
  <1>2. PICK q : q = task'[k]
    OBVIOUS
  <1>3. /\ Typed /\ Stored /\ AtWork /\ AllFormed /\ k \in Tasks
    BY RunFacts DEF Steady, Settled
  <1>4. (Busy(k) \/ MayBegin) /\ Proceeds(k)
    BY <1>3, RunSure
  <1>5. /\ tk.at = "renamed" /\ q.at = "verdict" /\ Alters(k, {"dir", "rename_to"}) /\ rows'[k].dir = tk.name
        /\ disk' = disk
    BY <1>1, <1>2, <1>3, RunDoes
  <1>6. \A j : ~Mover(k, q, j) /\ (Mover(k, tk, j) <=> k = j)
    BY <1>5 DEF Mover, InThread
  <1>7. tk.name # NoDir
    BY <1>1, <1>3, <1>5 DEF AllFormed, Formed, Applying
  <1>8. ASSUME NEW j \in Jobs, FreeNext(j)
        PROVE  WhereNext(j)
    <2>1. Where(j)
      BY <1>8 DEF AllThere
    <2>2. CASE j # k
      <3>1. rows'[j] = rows[j] /\ task'[j] = task[j]
        BY <1>3, <1>4, <1>5, <2>2, OthersStand DEF Alters, Tasks
      <3> QED BY <1>1, <1>2, <1>3, <1>4, <1>5, <1>6, <2>1, <2>2, <3>1, OneMover
    <2>3. CASE j = k
      <3>1. Moved(disk, j, rows[j], Has(j, rows[j], task[j]), tk)
        BY <1>1, <1>3, <1>4, <1>6, <2>1, <2>3, OneMover
      <3>2. Has(j, rows[j], task[j])
        BY <1>1, <1>5, <2>3 DEF Has, Late
      <3>3. Here(disk, j, tk.thread.to) /\ tk.thread.to = rows[j].dest \o <<tk.name>>
        BY <1>5, <3>1, <3>2 DEF Moved
      <3>4. rows'[j].dest = rows[j].dest /\ rows'[j].dir = tk.name
        BY <1>5, <2>3 DEF Alters, Columns
      <3>5. OutputDir(rows'[j]) = tk.thread.to
        BY <3>3, <3>4 DEF OutputDir
      <3>6. Sits(disk', j, rows'[j])
        BY <1>5, <1>7, <3>3, <3>4, <3>5 DEF Sits
      <3> QED BY <1>1, <1>2, <1>3, <1>4, <1>6, <2>1, <3>6, OneMover
    <2> QED BY <2>2, <2>3
  <1> QED BY <1>8 DEF ThereNext

\* The steps of runs.
LEMMA RunThere ==
  ASSUME Steady, AllThere, ~Overlap, \A j \in Jobs : FreeNext(j) => Free(j), NEW k \in Jobs,
         \/ StartRun(k) \/ DetectDir(k) \/ Downloaded(k) \/ LandFile(k) \/ RecordFiles(k) \/ ReadPending(k)
         \/ WriteApplied(k) \/ ClearPending(k) \/ Finish(k) \/ FailRun(k)
  PROVE  ThereNext
  <1>1. CASE ClearPending(k) \/ Finish(k)
    <2>1. PICK tk : tk = task[k]
      OBVIOUS
    <2>2. PICK q : q = task'[k]
      OBVIOUS
    <2>3. /\ Typed /\ Stored /\ AtWork /\ k \in Tasks
      BY RunFacts DEF Steady, Settled
    <2>4. (Busy(k) \/ MayBegin) /\ Proceeds(k)
      BY <1>1, <2>3, RunSure
    <2>5. /\ tk.at \in {"clearing", "verdict"} /\ disk' = disk /\ Alters(k, {"rename_to", "state"})
          /\ q.at \in {"verdict", "idle"}
      BY <1>1, <2>1, <2>2, <2>3, RunDoes, Nothing DEF Alters
    <2>6. \A j : ~Mover(k, q, j) /\ ~Mover(k, tk, j)
      BY <2>5 DEF Mover, InThread
    <2>7. ASSUME NEW j \in Jobs, FreeNext(j)
          PROVE  WhereNext(j)
      <3>1. Where(j)
        BY <2>7 DEF AllThere
      <3>2. Has(j, rows[j], task[j]) => Sits(disk, j, rows[j])
        BY <2>1, <2>3, <2>4, <2>6, <3>1, OneMover
      <3>3. CASE j # k
        <4>1. rows'[j] = rows[j] /\ task'[j] = task[j]
          BY <2>3, <2>4, <2>5, <3>3, OthersStand DEF Alters, Tasks
        <4> QED BY <2>2, <2>3, <2>4, <2>5, <2>6, <3>1, <3>2, <4>1, OneMover
      <3>4. CASE j = k
        <4>1. Sits(disk, j, rows[j])
          BY <2>1, <2>5, <3>2, <3>4 DEF Has, Late
        <4>2. rows'[j].dest = rows[j].dest /\ rows'[j].dir = rows[j].dir
          BY <2>5, <3>4 DEF Alters, Columns
        <4>3. Sits(disk', j, rows'[j])
          BY <2>5, <4>1, <4>2 DEF Sits, OutputDir
        <4> QED BY <2>2, <2>3, <2>4, <2>6, <3>1, <4>3, OneMover
      <3> QED BY <3>3, <3>4
    <2> QED BY <2>7 DEF ThereNext
  <1>2. FailRun(k) => Bystands(k)
    BY FailuresStandBy DEF Steady
  <1> QED BY <1>1, <1>2, BystandThere, LandingThere, RecordedThere, ReadPendingThere, WriteAppliedThere DEF Bystands

\* Every step.
LEMMA StepThere ==
  ASSUME Steady, Separate, Spared, AllThere, ~Overlap, Step
  PROVE  ThereNext
  <1>1. \A j \in Jobs : FreeNext(j) => Free(j)
    BY StaysFree DEF Steady
  <1>2. CASE Retry
    <2>1. Typed /\ AtWork
      BY DEF Steady, Settled
    <2>2. PICK k \in Jobs : /\ task' = task /\ disk' = disk /\ MayBegin
                            /\ Alters(k, {"state"}) /\ rows'[k].state = "queued"
      BY <1>2, <2>1, RetryDoes
    <2>3. \A t \in Tasks : \A j : ~Mover(t, task[t], j)
      BY <2>2 DEF MayBegin, Quiet, Mover, InThread
    <2>4. ASSUME NEW j \in Jobs, FreeNext(j)
          PROVE  WhereNext(j)
      <3>1. Where(j)
        BY <1>1, <2>4 DEF AllThere
      <3>2. /\ rows'[j].dir = rows[j].dir /\ rows'[j].dest = rows[j].dest /\ rows'[j].files = rows[j].files
            /\ rows'[j].state = rows[j].state \/ rows'[j].state # "done"
        BY <2>2 DEF Alters, Columns
      <3>3. /\ Has(j, rows'[j], task[j]) => Has(j, rows[j], task[j])
            /\ Sits(disk, j, rows[j]) => Sits(disk, j, rows'[j])
        BY <3>2, StaysWhere
      <3> QED BY <2>2, <2>3, <3>1, <3>3 DEF Where, WhereNext
    <2> QED BY <2>4 DEF ThereNext
  <1>3. Names(world)
    BY DEF Separate, Plain
  <1> QED BY <1>1, <1>2, <1>3, ThreadThere, RequestThere, RunThere DEF Step

\* What finished jobs start with is where their rows say.
LEMMA InitThere == Init /\ Separate => AllThere
  <1> SUFFICES ASSUME Init, Separate PROVE AllThere
    OBVIOUS
  <1>1. Typed /\ \A t \in Tasks : task[t].at = "idle"
    BY InitTyped, Nothing DEF Init
  <1>2. \A t \in Tasks : \A j : ~Mover(t, task[t], j)
    BY <1>1 DEF Mover, InThread
  <1>3. ASSUME NEW j \in Jobs, Has(j, rows[j], task[j])
        PROVE  Sits(disk, j, rows[j])
    <2>1. rows[j] = NewRow(j) /\ task[j].at = "idle" /\ rows[j] \in RowType
      BY <1>1, <1>3 DEF Init, Tasks, Typed
    <2>2. PICK d : d = DestOf[j]
      OBVIOUS
    <2>3. StateOf[j] = "done" /\ rows[j].dir = DirOf[j] /\ rows[j].dest = d
      BY <1>3, <2>1, <2>2 DEF Has, Late, NewRow
    <2>4. \A rel \in Downloads(j) : In(d, rel) \in DOMAIN disk
      <3>1. DOMAIN disk = UNION {Landing(DestOf[k], k) : k \in {i \in Jobs : StateOf[i] = "done"}}
        BY DEF Init
      <3> QED BY <2>2, <2>3, <3>1 DEF Landing
    <2>5. CASE DirOf[j] = NoDir
      BY <2>3, <2>4, <2>5 DEF Sits, LiesFlat
    <2>6. CASE DirOf[j] # NoDir
      <3>1. d \in Seq(Component) /\ d \o <<DirOf[j]>> \in Seq(Component)
        BY <1>1, <2>1, <2>3, Dirs DEF OutputDir
      <3>2. ASSUME NEW f \in FilesOf[j]
            PROVE  \E p \in DOMAIN disk : p.name = f /\ IsPrefix(d \o <<DirOf[j]>>, p.dir)
        <4>1. PICK rel : rel = Path(<<DirOf[j]>>, f)
          OBVIOUS
        <4>2. rel \in Downloads(j) /\ rel.name = f /\ rel.dir = <<DirOf[j]>>
          BY <2>6, <3>2, <4>1, OneDirFacts DEF Separate, Plain, Path
        <4>3. IsPath(rel)
          BY <1>1, <4>2, Dirs
        <4>4. PICK p : p = In(d, rel)
          OBVIOUS
        <4>5. p.name = rel.name /\ p.dir = d \o rel.dir
          BY <3>1, <4>3, <4>4, PathIn
        <4>6. IsPrefix(p.dir, p.dir)
          BY <3>1, <4>2, <4>5, SubSeqFull DEF IsPrefix
        <4> QED BY <2>4, <4>2, <4>4, <4>5, <4>6
      <3> QED BY <2>3, <2>6, <3>2 DEF Sits, Here, OutputDir
    <2> QED BY <2>5, <2>6
  <1> QED BY <1>2, <1>3 DEF AllThere, Where

\* The files of a job that no merge has taken up are where its row says, or on their way
\* to where it will.
LEMMA CalmThere == Spec => [](Calm /\ Separate => Steady /\ AllThere)
  <1>1. Init => (Calm /\ Separate => AllThere)
    BY InitThere
  <1>2. /\ (Calm /\ Separate => Steady /\ Spared) /\ (Calm /\ Separate => AllThere) /\ [Next]_vars
        => (Calm /\ Separate => AllThere)'
    <2> SUFFICES ASSUME Calm /\ Separate => Steady /\ Spared, Calm /\ Separate => AllThere, [Next]_vars, Calm', Separate'
                 PROVE  AllThere'
      OBVIOUS
    <2>1. UNCHANGED world
      BY DEF Next, vars
    <2>2. ~Overlap /\ Separate
      BY <2>1 DEF Calm, Overlap, Separate
    <2>3. CASE Step /\ UNCHANGED <<world, crashed>>
      BY <2>1, <2>2, <2>3, StepThere, ThereThen DEF Calm
    <2>4. CASE Crash
      BY <2>4 DEF Crash, Calm
    <2>5. CASE UNCHANGED vars
      <3>1. AllThere
        BY <2>2, <2>5 DEF Calm, vars
      <3>2. ThereNext
        BY <2>5, <3>1 DEF vars, AllThere, ThereNext, Free, FreeNext, InMergeOf, Where, WhereNext
      <3> QED BY <2>1, <3>2, ThereThen
    <2> QED BY <2>3, <2>4, <2>5 DEF Next
  <1> QED BY <1>1, <1>2, CalmSpared, PTL DEF Spec

\* The files of a finished job that shares its directory with no other are in the one its
\* row names, whatever renames, merges of other jobs, retries and rechecks came before.
THEOREM RowsSayWhere ==
  Spec => [](Level(world) /\ OwnNames(world) /\ OwnDirs(world) /\ Names(world) /\ OneDir(world) => RowsPointToFiles)
  <1>1. (Calm /\ Separate => Steady /\ AllThere) => (Separate => RowsPointToFiles)
    <2> SUFFICES ASSUME Calm /\ Separate => Steady /\ AllThere, Separate, Undisturbed, NEW j \in Alone
                 PROVE  InPlace(j) = FilesOf[j]
      <3>1. Alone \subseteq Jobs
        BY DEF Alone, Done
      <3>2. Separate => \A i \in Jobs : ApartOf[i] = <<>>
        BY DEF Separate, Plain, OneDir, ApartOf, Jobs
      <3> QED BY <3>1, <3>2 DEF RowsPointToFiles
    <2>1. Steady /\ AllThere /\ Typed /\ Stored /\ Quiet /\ OneDir(world)
      BY DEF Undisturbed, Calm, Steady, Settled
    <2>2. j \in Jobs /\ rows[j].state = "done" /\ rows[j].group = 0 /\ rows[j] \in RowType
      BY <2>1 DEF Alone, Done, Typed
    <2>3. Free(j)
      BY <2>1, <2>2, ClientFacts DEF Free, InMergeOf, InMerge, InThread, Quiet
    <2>4. \A t \in Tasks : ~Mover(t, task[t], j)
      BY <2>1 DEF Quiet, Mover, InThread
    <2>5. Sits(disk, j, rows[j])
      BY <2>1, <2>2, <2>3, <2>4 DEF AllThere, Where, Has
    <2>6. ASSUME NEW f \in FilesOf[j], NEW p \in DOMAIN disk, p.name = f
          PROVE  p \in Copies(j, f)
      <3>1. PICK k \in Jobs : p.name \in FilesOf[k] /\ disk[p] = <<k, p.name>>
        BY <2>1, <2>6 DEF Stored
      <3>2. k = j
        BY <2>2, <2>6, <3>1 DEF Separate, OwnNames, FilesOf, Jobs
      <3> QED BY <2>6, <3>1, <3>2 DEF Copies
    <2>7. CASE rows[j].dir = NoDir
      <3>1. DirOf[j] = NoDir /\ LiesFlat(disk, j, rows[j].dest)
        BY <2>5, <2>7 DEF Sits
      <3>2. PICK d : d = rows[j].dest
        OBVIOUS
      <3>3. d \in Seq(Component)
        BY <2>1, <2>2, <3>2, Dirs
      <3>4. ASSUME NEW f \in FilesOf[j]
            PROVE  \E p \in Copies(j, f) : IsPrefix(Home(rows[j]), p.dir)
        <4>1. PICK rel \in Downloads(j) : rel.name = f
          BY <2>1, <2>2, <3>1, <3>3, <3>4, FlatFile
        <4>2. PICK p : p = In(d, rel)
          OBVIOUS
        <4>3. p \in DOMAIN disk
          BY <3>1, <3>2, <4>1, <4>2 DEF LiesFlat
        <4>4. p.dir = d
          BY <2>1, <2>2, <3>1, <3>3, <4>1, <4>2, FlatFile
        <4>5. IsPath(rel)
          BY <2>1, <2>2, <4>1, Dirs
        <4>6. p.name = f
          BY <3>3, <4>1, <4>2, <4>5, PathIn
        <4>7. IsPrefix(d, p.dir)
          BY <3>3, <4>4, SubSeqFull DEF IsPrefix
        <4> QED BY <2>6, <2>7, <3>2, <3>4, <4>3, <4>6, <4>7 DEF Home
      <3> QED BY <3>4 DEF InPlace
    <2>8. CASE rows[j].dir # NoDir
      <3>1. Here(disk, j, OutputDir(rows[j]))
        BY <2>5, <2>8 DEF Sits
      <3> QED BY <2>6, <2>8, <3>1 DEF Here, Home, InPlace
    <2> QED BY <2>7, <2>8
  <1>2. Spec => [](Calm /\ Separate => Steady /\ AllThere)
    BY CalmThere
  <1>3. Separate <=> Level(world) /\ OwnNames(world) /\ OwnDirs(world) /\ Names(world) /\ OneDir(world)
    BY DEF Separate, Plain
  <1> QED BY <1>1, <1>2, <1>3, PTL

-----------------------------------------------------------------------------
(* Before a job has files, nothing has its directory                       *)

\* None of the job's files has landed or been recorded.
Bare(row, tk) == row.files = {} /\ tk.at # "landing"

\* The directory that its source makes does not exist, and its row names no other.
Vacant(d, j, row) ==
    /\ row.dir \in {NoDir, DirOf[j]}
    /\ DirOf[j] # NoDir => ~IsDir(d, row.dest \o <<DirOf[j]>>)

AllVacant ==
    \A j \in Jobs : Free(j) /\ FilesOf[j] # {} /\ Bare(rows[j], task[j]) =>
        Vacant(disk, j, rows[j]) /\ \A c \in Clients : ~Mover(c, task[c], j)
VacantNext ==
    \A j \in Jobs : FreeNext(j) /\ FilesOf[j] # {} /\ Bare(rows'[j], task'[j]) =>
        Vacant(disk', j, rows'[j]) /\ \A c \in Clients : ~Mover(c, task'[c], j)

\* It is the invariant of the next state.
LEMMA VacantThen ==
  ASSUME UNCHANGED world, VacantNext
  PROVE  AllVacant'
  <1>1. UNCHANGED <<Jobs, Clients, FilesOf, DirOf>> /\ \A j : Free(j)' = FreeNext(j)
    BY FreeThen DEF Jobs, Clients, FilesOf, DirOf
  <1> QED BY <1>1 DEF AllVacant, VacantNext, Bare, Vacant, Mover, InThread

\* A directory that no new file comes to.
LEMMA StaysVacant ==
  ASSUME NEW d, NEW e, NEW j, NEW row, NEW after, Vacant(d, j, row),
         after.dir \in {row.dir, DirOf[j]}, after.dest = row.dest,
         DirOf[j] # NoDir => \A p \in DOMAIN e \ DOMAIN d : ~IsPrefix(row.dest \o <<DirOf[j]>>, p.dir)
  PROVE  Vacant(e, j, after)
  BY DEF Vacant, IsDir, Under

\* The files of another job come down elsewhere.
LEMMA LandsElsewhere ==
  ASSUME Typed, Level(world), OwnDirs(world), OneDir(world), NEW j \in Jobs, DirOf[j] # NoDir, NEW k \in Jobs \ {j},
         NEW d \in Range(DestOf), NEW dest \in Range(DestOf), NEW p \in Landing(dest, k)
  PROVE  ~IsPrefix(d \o <<DirOf[j]>>, p.dir)
  <1>1. PICK path : path = d \o <<DirOf[j]>>
    OBVIOUS
  <1>2. DirOf[j] \in NameSet /\ DirOf[k] \in NameSet /\ d \in Seq(Component) /\ dest \in Seq(Component)
    BY WorldFacts DEF Typed
  <1>3. Alien(k, path)
    <2>1. DirOf[j] \notin Own(k)
      BY GivenNames DEF Belongs
    <2> QED BY <1>1, <1>2, <2>1 DEF Alien
  <1>4. /\ ~IsPrefix(path, dest)
        /\ \A n, dir : n \in Own(k) /\ n \in NameSet /\ IsPrefix(dest \o <<n>>, dir) => ~IsPrefix(path, dir)
    BY <1>3, AlienApart
  <1>5. PICK rel \in Downloads(k) : p = In(dest, rel)
    BY DEF Landing
  <1>6. p.dir = dest \o rel.dir
    BY <1>2, <1>5, Dirs, PathIn
  <1>9. PICK n : n = IF DirOf[k] = NoDir THEN <<>> ELSE <<DirOf[k]>>
    OBVIOUS
  <1>10. Downloads(k) = {Path(n, f) : f \in FilesOf[k]}
    BY <1>9, OneDirFacts, Zenon
  <1>11. rel.dir = n
    BY <1>5, <1>10 DEF Path
  <1>7. CASE DirOf[k] = NoDir
    <2>1. rel.dir = <<>>
      BY <1>7, <1>9, <1>11
    <2>2. p.dir = dest
      BY <1>2, <1>6, <2>1
    <2> QED BY <1>1, <1>4, <2>2
  <1>8. CASE DirOf[k] # NoDir
    <2>1. PICK to : to = dest \o <<DirOf[k]>>
      OBVIOUS
    <2>2. rel.dir = <<DirOf[k]>>
      BY <1>8, <1>9, <1>11
    <2>3. to \in Seq(Component) /\ p.dir = to
      BY <1>2, <1>6, <2>1, <2>2, WorldFacts DEF Typed
    <2>4. IsPrefix(to, to)
      BY <2>3, SubSeqFull DEF IsPrefix
    <2>5. DirOf[k] \in Own(k)
      BY <1>8 DEF Own, OwnOf, DirOf
    <2> QED BY <1>1, <1>2, <1>4, <2>1, <2>3, <2>4, <2>5
  <1> QED BY <1>7, <1>8

\* A thread makes files only below the directory it moves to.
LEMMA NewPaths ==
  ASSUME Typed, Stored, NEW t \in Tasks, Sure(task[t], disk), NEW p \in DOMAIN disk' \ DOMAIN disk,
         ThreadStep(t)
  PROVE  IsPrefix(task[t].thread.to, p.dir)
  <1>1. PICK tk : tk = task[t]
    OBVIOUS
  <1>2. PICK th : th = tk.thread
    OBVIOUS
  <1>3. IsThread(th) /\ th.to \in Seq(Component) /\ th.from \in Seq(Component)
    BY <1>1, <1>2, InFields DEF IsThread
  <1>4. CASE ReplaceDir(t)
    <2>1. disk' = RenameTree(disk, th.from, th.to)
      BY <1>1, <1>2, <1>4, ReplaceDirSure
    <2>2. DOMAIN RenameTree(disk, th.from, th.to) = (DOMAIN disk \ Under(disk, th.from)) \cup {In(th.to, rel) : rel \in RelFiles(disk, th.from)}
      BY DEF RenameTree
    <2>3. PICK rel \in RelFiles(disk, th.from) : p = In(th.to, rel)
      BY <2>1, <2>2
    <2>4. IsPath(rel)
      BY <1>3, <2>3, RelFilesArePaths DEF Stored
    <2> QED BY <1>1, <1>2, <1>3, <2>3, <2>4, PathIn
  <1>5. CASE TestTarget(t) \/ ListTree(t) \/ NextSource(t) \/ TestFile(t)
    BY <1>5 DEF TestTarget, ListTree, NextSource, TestFile
  <1>6. CASE MoveFile(t)
    <2>1. PICK rel : rel = NextFile(th)
      OBVIOUS
    <2>2. PICK dst : dst = In(th.to, rel)
      OBVIOUS
    <2>3. PICK tgt : tgt = MovesTo(th, disk)
      OBVIOUS
    <2>4. rel \in th.todo /\ disk' = Replace(disk, In(th.from, rel), tgt)
      BY <1>1, <1>2, <1>6, <2>1, <2>3, MoveFileSure
    <2>5. DOMAIN Replace(disk, In(th.from, rel), tgt) = (DOMAIN disk \ {In(th.from, rel)}) \cup {tgt}
      BY DEF Replace
    <2>6. p = tgt
      BY <2>4, <2>5
    <2>7. IsPath(dst) /\ IsPrefix(th.to, dst.dir)
      BY <1>3, <2>2, <2>4, PathIn DEF IsThread
    <2>8. tgt = dst \/ tgt = FreeTarget(disk, dst)
      BY <2>1, <2>2, <2>3 DEF MovesTo
    <2>9. tgt.dir = dst.dir
      BY <2>7, <2>8, SuffixedPath
    <2> QED BY <1>1, <1>2, <2>6, <2>7, <2>9
  <1>7. CASE EndSource(t)
    <2>1. disk' = IF th.mode = "gather" THEN disk ELSE RemoveTree(disk, th.from)
      BY <1>1, <1>2, <1>7, EndSourceDoes
    <2>2. DOMAIN RemoveTree(disk, th.from) \subseteq DOMAIN disk
      BY DEF RemoveTree
    <2> QED BY <2>1, <2>2
  <1> QED BY <1>4, <1>5, <1>6, <1>7 DEF ThreadStep

\* A free job that has files and none of them yet, and what holds of it.
LEMMA VacantFacts ==
  ASSUME Steady, Separate, AllVacant, NEW j \in Jobs, Free(j), FilesOf[j] # {}, Bare(rows[j], task[j])
  PROVE  /\ Vacant(disk, j, rows[j]) /\ \A c \in Clients : ~Mover(c, task[c], j)
         /\ rows[j].dest \in Range(DestOf) /\ DirOf[j] \in NameSet
         /\ DirOf[j] # NoDir => DirOf[j] \in Own(j)
         /\ rows[j].state # "done" /\ ~Late(task[j])
  <1>1. Typed /\ Formed(j, rows[j], task[j]) /\ rows[j] \in RowType
    BY DEF Steady, Settled, AllFormed, Typed
  <1>2. Downloads(j) # {}
    BY FilesComeDown
  <1> QED BY <1>1, <1>2, WorldFacts, RowFacts DEF AllVacant, Bare, Formed, Typed, Own, OwnOf, DirOf

\* The steps of a thread.
LEMMA ThreadVacant ==
  ASSUME Steady, Separate, Spared, AllVacant, ~Overlap, \A j \in Jobs : FreeNext(j) => Free(j), NEW t \in Tasks,
         ThreadStep(t)
  PROVE  VacantNext
  <1>1. PICK tk : tk = task[t]
    OBVIOUS
  <1>2. Typed /\ Stored /\ Level(world) /\ Sure(task[t], disk)
    BY DEF Steady, Settled, Separate, Sound
  <1>3. tk.at \in {"thread", "moving"} /\ rows' = rows
    BY <1>1, <1>2, ThreadDoes
  <1>4. \A u \in Tasks \ {t} : task'[u] = task[u]
    BY <1>2, ThreadSteps, OthersStand
  <1>5. Clients \subseteq Tasks /\ Jobs \subseteq Tasks
    BY DEF Tasks
  <1>6. ASSUME NEW j \in Jobs, FreeNext(j), FilesOf[j] # {}, Bare(rows'[j], task'[j])
        PROVE  Vacant(disk', j, rows'[j]) /\ \A c \in Clients : ~Mover(c, task'[c], j)
    <2>1. Free(j) /\ Bare(rows[j], task[j])
      BY <1>1, <1>3, <1>4, <1>5, <1>6 DEF Bare
    <2>2. /\ Vacant(disk, j, rows[j]) /\ (\A c \in Clients : ~Mover(c, task[c], j))
          /\ rows[j].dest \in Range(DestOf) /\ DirOf[j] \in NameSet /\ ~Late(task[j])
          /\ DirOf[j] # NoDir => DirOf[j] \in Own(j)
      BY <1>6, <2>1, VacantFacts
    <2>3. /\ \A i : Mover(t, task'[t], i) <=> Mover(t, tk, i)
          /\ Mover(t, tk, j) \/ Spares(tk, j)
      BY <1>1, <2>1, MoversGoOn
    <2>4. ~Mover(t, tk, j)
      BY <1>1, <1>3, <2>2 DEF Mover, Late, Tasks
    <2>5. \A c \in Clients : ~Mover(c, task'[c], j)
      BY <1>1, <1>4, <1>5, <2>2, <2>3, <2>4
    <2>6. Alien(j, tk.thread.to)
      BY <1>3, <2>3, <2>4 DEF Spares
    <2>7. ASSUME DirOf[j] # NoDir, NEW p \in DOMAIN disk' \ DOMAIN disk
          PROVE  ~IsPrefix(rows[j].dest \o <<DirOf[j]>>, p.dir)
      <3>1. IsPrefix(tk.thread.to, p.dir)
        BY <1>1, <1>2, <2>7, NewPaths
      <3> QED BY <1>2, <2>2, <2>6, <2>7, <3>1, AlienApart
    <2>8. Vacant(disk', j, rows'[j])
      BY <1>3, <2>2, <2>7, StaysVacant
    <2> QED BY <2>5, <2>8
  <1> QED BY <1>6 DEF VacantNext

\* A request to rename a job that has no files changes nothing.
LEMMA RenameNowVacant ==
  ASSUME Steady, Separate, AllVacant, NEW c \in Clients, RenameNow(c)
  PROVE  \A j \in Jobs : Free(j) /\ FilesOf[j] # {} /\ Bare(rows[j], task[j]) => ~Mover(c, task'[c], j)
  <1>1. PICK tk : tk = task[c]
    OBVIOUS
  <1>2. PICK q : q = task'[c]
    OBVIOUS
  <1>3. PICK job : job = task[c].seen[1]
    OBVIOUS
  <1>4. PICK loose : loose = Existing(job.dest, rows[task[c].jobs[1]].files)
    OBVIOUS
  <1>5. PICK target : target = job.dest \o <<task[c].name>>
    OBVIOUS
  <1>6. PICK mv : mv = Renaming(OutputDir(job), target, "renamed")
    OBVIOUS
  <1>7. PICK gt : gt = Gathering(job.dest, loose, target, "renamed")
    OBVIOUS
  <1>8. Typed /\ AtWork /\ Knows(tk, rows) /\ c \notin Jobs /\ IsTask(tk) /\ c \in Tasks
    BY <1>1, ClientFacts, InFields DEF Steady, Settled, Knowing
  <1>9. /\ tk.at = "rename" /\ job.state \notin Open
        /\ \/ loose # {} /\ q = Await(tk, gt)
           \/ job.dir # NoDir /\ IsDir(disk, OutputDir(job)) /\ q = Await(tk, mv)
           \/ q = NoTask
    <2>1. Typed
      BY <1>8
    <2>2. /\ task[c].at = "rename" /\ job.state \notin Open
          /\ \/ /\ job.dir = NoDir /\ loose # {}
                /\ task'[c] = Await(task[c], Gathering(job.dest, loose, target, "renamed"))
             \/ /\ job.dir \notin {NoDir, task[c].name} /\ IsDir(disk, OutputDir(job))
                /\ task'[c] = Await(task[c], Renaming(OutputDir(job), target, "renamed"))
             \/ /\ ~(job.dir = NoDir /\ loose # {})
                /\ ~(job.dir \notin {NoDir, task[c].name} /\ IsDir(disk, OutputDir(job)))
                /\ task'[c] = NoTask
      BY <1>3, <1>4, <1>5, <2>1, RenameNowDoes
    <2> QED BY <1>1, <1>2, <1>6, <1>7, <2>2
  <1>10. SUFFICES ASSUME NEW j \in Jobs, Free(j), FilesOf[j] # {}, Bare(rows[j], task[j]), Mover(c, q, j)
                  PROVE  FALSE
    BY <1>2
  <1>11. q # NoTask
    BY <1>8, <1>10, Nothing DEF Mover, InThread
  <1>12. q.jobs = tk.jobs
    <2>1. q = Await(tk, gt) \/ q = Await(tk, mv)
      BY <1>9, <1>11
    <2> QED BY <1>8, <2>1 DEF Await, IsTask
  <1>13. tk.jobs[1] = j
    BY <1>8, <1>10, <1>12 DEF Mover
  <1>14. rows[j] = job
    BY <1>1, <1>3, <1>8, <1>9, <1>13, SeenRests DEF Knows, InRename
  <1>15. Vacant(disk, j, job) /\ job.files = {}
    BY <1>10, <1>14, VacantFacts DEF Bare
  <1>16. loose = {}
    BY <1>1, <1>4, <1>13, <1>14, <1>15 DEF Existing
  <1> QED BY <1>9, <1>11, <1>15, <1>16 DEF Vacant, OutputDir

\* The steps of requests.
LEMMA RequestVacant ==
  ASSUME Steady, Separate, AllVacant, \A j \in Jobs : FreeNext(j) => Free(j), NEW c \in Clients,
         \/ RenameRequested(c) \/ DeferRename(c) \/ RenameNow(c) \/ WriteRenamed(c)
         \/ MergeRequested(c) \/ ReadMember(c) \/ GatherMember(c) \/ UpdateMember(c) \/ SetGroupName(c)
         \/ DueListed(c) \/ RequeueDue(c)
  PROVE  VacantNext
  <1>1. Typed /\ Stored /\ c \in Tasks /\ c \notin Jobs
    BY ClientFacts DEF Steady, Settled
  <1>2. FilesFixed /\ Proceeds(c) /\ \A j \in Jobs : task'[j] = task[j]
    BY <1>1, RequestFiles, RunsStand
  <1>3. \A u \in Clients \ {c} : task'[u] = task[u]
    BY <1>1, <1>2, OthersStand DEF Tasks
  <1>4. ASSUME NEW j \in Jobs, FreeNext(j), FilesOf[j] # {}, Bare(rows'[j], task'[j])
        PROVE  Vacant(disk', j, rows'[j]) /\ \A u \in Clients : ~Mover(u, task'[u], j)
    <2>1. Free(j) /\ Bare(rows[j], task[j])
      BY <1>2, <1>4 DEF Bare, FilesFixed
    <2>2. Vacant(disk, j, rows[j]) /\ \A u \in Clients : ~Mover(u, task[u], j)
      BY <1>4, <2>1, VacantFacts
    <2>3. CASE RenameNow(c)
      <3>1. ~Mover(c, task'[c], j) /\ rows' = rows /\ disk' = disk
        BY <1>4, <2>1, <2>3, RenameNowVacant DEF RenameNow
      <3> QED BY <1>3, <2>2, <3>1
    <2>4. CASE WriteRenamed(c)
      <3>1. PICK k : k = task[c].jobs[1]
        OBVIOUS
      <3>2. task[c].at = "renamed" /\ Alters(k, {"dir"}) /\ disk' = disk /\ task'[c].at = "idle"
        BY <1>1, <2>4, <3>1, WriteRenamedDoes, Nothing
      <3>3. k # j
        BY <1>1, <2>2, <3>1, <3>2 DEF Mover
      <3> QED BY <1>3, <2>2, <3>2, <3>3 DEF Alters, Mover, InThread
    <2>5. CASE ~RenameNow(c) /\ ~WriteRenamed(c)
      <3>1. disk' = disk /\ ~Mover(c, task'[c], j) /\ rows'[j].dir = rows[j].dir /\ rows'[j].dest = rows[j].dest
        BY <1>1, <1>4, <2>5, RequestMoves
      <3> QED BY <1>3, <2>2, <3>1, StaysVacant
    <2> QED BY <2>3, <2>4, <2>5
  <1> QED BY <1>4 DEF VacantNext

\* What a step of a run leaves of other tasks and rows, and of its own job's while that has no files.
LEMMA RunBare ==
  ASSUME Steady, OneDir(world), NEW k \in Jobs,
         \/ StartRun(k) \/ DetectDir(k) \/ Downloaded(k) \/ LandFile(k) \/ RecordFiles(k) \/ ReadPending(k)
         \/ WriteApplied(k) \/ ClearPending(k) \/ Finish(k) \/ FailRun(k)
  PROVE  /\ \A u \in Tasks \ {k} : task'[u] = task[u]
         /\ \A i \in Jobs \ {k} : rows'[i] = rows[i]
         /\ FilesOf[k] # {} /\ Bare(rows'[k], task'[k]) =>
                /\ Bare(rows[k], task[k]) /\ ~LandFile(k)
                /\ rows'[k].dir \in {rows[k].dir, DirOf[k]} /\ rows'[k].dest = rows[k].dest
         /\ disk' = disk \/ (LandFile(k) /\ \E rel \in Downloads(k) : disk' = Arrived(rows[k].dest, k, rel, disk))
  <1>1. PICK tk : tk = task[k]
    OBVIOUS
  <1>2. /\ Typed /\ Stored /\ AtWork /\ RunReads(k) /\ Formed(k, rows[k], task[k]) /\ k \in Tasks
        /\ rows \in [Jobs -> RowType]
    BY RunFacts DEF Steady, Settled, Knowing, AllFormed
  <1>3. CASE Bystands(k)
    <2>1. /\ Alters(k, {"state", "dir"}) /\ rows'[k].dir \in {rows[k].dir, DirOf[k]}
          /\ disk' = disk /\ (\A u \in Tasks \ {k} : task'[u] = task[u])
          /\ task[k].at \in {"idle", "downloading", "detected"} /\ task'[k].at \in {"idle", "downloading", "detected"}
      BY <1>2, <1>3, BystandDoes, OneDirFacts
    <2>2. rows'[k].files = rows[k].files /\ rows'[k].dest = rows[k].dest /\ \A i \in Jobs \ {k} : rows'[i] = rows[i]
      BY <2>1 DEF Alters, Columns
    <2>3. ~LandFile(k)
      BY <2>1 DEF LandFile
    <2> QED BY <2>1, <2>2, <2>3 DEF Bare
  <1>4. CASE ~Bystands(k)
    <2>1. Downloaded(k) \/ LandFile(k) \/ RecordFiles(k) \/ ReadPending(k) \/ WriteApplied(k) \/ ClearPending(k) \/ Finish(k)
      BY <1>4, FailuresStandBy DEF Bystands, Steady
    <2>2. Proceeds(k)
      BY <1>2, <2>1, RunSure
    <2>3. \A u \in Tasks \ {k} : task'[u] = task[u]
      BY <1>2, <2>2, OthersStand
    <2>4. CASE Downloaded(k)
      <3>1. task'[k].at = "landing" /\ rows' = rows /\ disk' = disk
        BY <1>1, <1>2, <2>4, RunDoes
      <3> QED BY <2>3, <3>1 DEF Bare
    <2>7. CASE LandFile(k)
      <3>1. task'[k].at = "landing" /\ rows' = rows /\ tk.at = "landing"
        BY <1>1, <1>2, <2>7, RunDoes
      <3>2. PICK rel \in tk.thread.todo : disk' = Arrived(tk.seen[1].dest, k, rel, disk)
        BY <1>1, <1>2, <2>7, RunDoes
      <3>3. tk.seen[1].dest = rows[k].dest
        BY <1>1, <1>2, <3>1 DEF RunReads
      <3>4. rel \in Downloads(k)
        BY <1>1, <1>2, <3>1, RunFacts DEF IsTaskOf
      <3> QED BY <2>3, <2>7, <3>1, <3>2, <3>3, <3>4 DEF Bare
    <2>5. CASE RecordFiles(k)
      <3>1. Alters(k, {"files"}) /\ rows'[k].files = Downloads(k) /\ disk' = disk
        BY <1>1, <1>2, <2>5, RunDoes
      <3>2. Bare(rows'[k], task'[k]) => FilesOf[k] = {}
        BY <3>1, FilesComeDown DEF Bare
      <3> QED BY <2>3, <3>1, <3>2 DEF Alters
    <2>6. CASE ReadPending(k) \/ WriteApplied(k) \/ ClearPending(k) \/ Finish(k)
      <3>1. /\ tk.at \in {"recorded", "renamed", "clearing", "verdict"} /\ disk' = disk
            /\ (\A i \in Jobs \ {k} : rows'[i] = rows[i]) /\ rows'[k].files = rows[k].files
        <4>1. CASE ReadPending(k)
          BY <1>1, <4>1 DEF ReadPending
        <4>2. CASE WriteApplied(k) \/ ClearPending(k) \/ Finish(k)
          BY <1>1, <1>2, <4>2, RunDoes DEF Alters, Columns
        <4> QED BY <2>6, <4>1, <4>2
      <3>2. rows[k].files = Downloads(k)
        BY <1>1, <1>2, <3>1 DEF Formed, Late
      <3>3. Bare(rows'[k], task'[k]) => FilesOf[k] = {}
        BY <3>1, <3>2, FilesComeDown DEF Bare
      <3> QED BY <2>3, <3>1, <3>3
    <2> QED BY <2>1, <2>4, <2>5, <2>6, <2>7
  <1> QED BY <1>3, <1>4

\* The steps of runs.
LEMMA RunVacant ==
  ASSUME Steady, Separate, AllVacant, \A j \in Jobs : FreeNext(j) => Free(j), NEW k \in Jobs,
         \/ StartRun(k) \/ DetectDir(k) \/ Downloaded(k) \/ LandFile(k) \/ RecordFiles(k) \/ ReadPending(k)
         \/ WriteApplied(k) \/ ClearPending(k) \/ Finish(k) \/ FailRun(k)
  PROVE  VacantNext
  <1>1. Typed /\ k \in Tasks /\ k \notin Clients /\ rows[k] \in RowType /\ OneDir(world)
    BY RunFacts DEF Steady, Settled
  <1>2. /\ \A u \in Tasks \ {k} : task'[u] = task[u]
        /\ \A i \in Jobs \ {k} : rows'[i] = rows[i]
        /\ FilesOf[k] # {} /\ Bare(rows'[k], task'[k]) =>
               /\ Bare(rows[k], task[k]) /\ ~LandFile(k)
               /\ rows'[k].dir \in {rows[k].dir, DirOf[k]} /\ rows'[k].dest = rows[k].dest
        /\ disk' = disk \/ (LandFile(k) /\ \E rel \in Downloads(k) : disk' = Arrived(rows[k].dest, k, rel, disk))
    BY <1>1, RunBare
  <1>3. ASSUME NEW j \in Jobs, FreeNext(j), FilesOf[j] # {}, Bare(rows'[j], task'[j])
        PROVE  Vacant(disk', j, rows'[j]) /\ \A c \in Clients : ~Mover(c, task'[c], j)
    <2>1. Free(j) /\ Bare(rows[j], task[j])
      BY <1>2, <1>3 DEF Tasks
    <2>2. /\ Vacant(disk, j, rows[j]) /\ (\A c \in Clients : ~Mover(c, task[c], j))
          /\ rows[j].dest \in Range(DestOf)
      BY <1>3, <2>1, VacantFacts
    <2>3. \A c \in Clients : ~Mover(c, task'[c], j)
      BY <1>1, <1>2, <2>2 DEF Tasks
    <2>4. rows'[j].dir \in {rows[j].dir, DirOf[j]} /\ rows'[j].dest = rows[j].dest
      BY <1>2, <1>3
    <2>5. CASE disk' = disk
      BY <2>2, <2>3, <2>4, <2>5, StaysVacant
    <2>6. CASE LandFile(k) /\ \E rel \in Downloads(k) : disk' = Arrived(rows[k].dest, k, rel, disk)
      <3>1. j # k
        BY <1>2, <1>3, <2>6
      <3>5. PICK rel \in Downloads(k) : disk' = Arrived(rows[k].dest, k, rel, disk)
        BY <2>6
      <3>2. DOMAIN disk' \subseteq DOMAIN disk \cup Landing(rows[k].dest, k)
        BY <3>5 DEF Arrived, Landing
      <3>3. rows[k].dest \in Range(DestOf) /\ Level(world) /\ OwnDirs(world)
        BY <1>1, RowFacts DEF Separate
      <3>4. ASSUME DirOf[j] # NoDir, NEW p \in DOMAIN disk' \ DOMAIN disk
            PROVE  ~IsPrefix(rows[j].dest \o <<DirOf[j]>>, p.dir)
        BY <1>1, <2>2, <3>1, <3>2, <3>3, <3>4, LandsElsewhere
      <3> QED BY <2>2, <2>3, <2>4, <3>4, StaysVacant
    <2> QED BY <1>2, <2>5, <2>6
  <1> QED BY <1>3 DEF VacantNext

\* Every step.
LEMMA StepVacant ==
  ASSUME Steady, Separate, Spared, AllVacant, ~Overlap, Step
  PROVE  VacantNext
  <1>1. \A j \in Jobs : FreeNext(j) => Free(j)
    BY StaysFree DEF Steady
  <1>2. CASE Retry
    <2>1. Typed
      BY DEF Steady, Settled
    <2>2. PICK k \in Jobs : /\ task' = task /\ disk' = disk /\ Alters(k, {"state"})
      BY <1>2, <2>1, RetryDoes
    <2>3. \A j \in Jobs : rows'[j].dir = rows[j].dir /\ rows'[j].dest = rows[j].dest /\ rows'[j].files = rows[j].files
      BY <2>2 DEF Alters, Columns
    <2> QED BY <1>1, <2>2, <2>3 DEF AllVacant, VacantNext, Vacant, Bare
  <1> QED BY <1>1, <1>2, ThreadVacant, RequestVacant, RunVacant DEF Step

\* What finished jobs start with is not in the directory of another.
LEMMA InitVacant == Init /\ Separate => AllVacant
  <1> SUFFICES ASSUME Init, Separate,
                      NEW j \in Jobs, FilesOf[j] # {}, Bare(rows[j], task[j])
               PROVE  Vacant(disk, j, rows[j]) /\ \A c \in Clients : ~Mover(c, task[c], j)
    BY DEF AllVacant
  <1>1. Typed /\ rows[j] \in RowType /\ Level(world) /\ OwnDirs(world) /\ OneDir(world)
    BY InitTyped DEF Typed, Separate, Plain
  <1>2. \A c \in Clients : ~Mover(c, task[c], j)
    <2>1. \A c \in Clients : task[c].at = "idle"
      BY <1>1, Nothing DEF Init, Tasks
    <2> QED BY <2>1 DEF Mover, InThread
  <1>3. rows[j] = NewRow(j) /\ rows[j].dest = DestOf[j] /\ rows[j].dest \in Range(DestOf)
    BY <1>1, RowFacts DEF Init, NewRow
  <1>4. StateOf[j] # "done" /\ rows[j].dir = NoDir
    <2>1. StateOf[j] = "done" => rows[j].files = Downloads(j)
      BY <1>3 DEF NewRow
    <2> QED BY <1>3, <2>1, FilesComeDown DEF Bare, NewRow
  <1>5. DirOf[j] # NoDir => ~IsDir(disk, rows[j].dest \o <<DirOf[j]>>)
    <2> SUFFICES ASSUME DirOf[j] # NoDir, NEW p \in DOMAIN disk, IsPrefix(rows[j].dest \o <<DirOf[j]>>, p.dir)
                 PROVE  FALSE
      BY DEF IsDir, Under
    <2>1. DOMAIN disk = UNION {Landing(DestOf[k], k) : k \in {i \in Jobs : StateOf[i] = "done"}}
      BY DEF Init
    <2>2. PICK k \in Jobs : StateOf[k] = "done" /\ p \in Landing(DestOf[k], k)
      BY <2>1
    <2>3. DestOf[k] \in Range(DestOf)
      BY <1>1, WorldFacts DEF Typed
    <2> QED BY <1>1, <1>3, <1>4, <2>2, <2>3, LandsElsewhere
  <1> QED BY <1>2, <1>4, <1>5 DEF Vacant

\* The directory of a job comes with its files.
LEMMA CalmVacant == Spec => [](Calm /\ Separate => Steady /\ AllVacant)
  <1>1. Init => (Calm /\ Separate => AllVacant)
    BY InitVacant
  <1>2. /\ (Calm /\ Separate => Steady /\ Spared) /\ (Calm /\ Separate => AllVacant) /\ [Next]_vars
        => (Calm /\ Separate => AllVacant)'
    <2> SUFFICES ASSUME Calm /\ Separate => Steady /\ Spared, Calm /\ Separate => AllVacant, [Next]_vars, Calm', Separate'
                 PROVE  AllVacant'
      OBVIOUS
    <2>1. UNCHANGED world
      BY DEF Next, vars
    <2>2. ~Overlap /\ Separate
      BY <2>1 DEF Calm, Overlap, Separate
    <2>3. CASE Step /\ UNCHANGED <<world, crashed>>
      BY <2>1, <2>2, <2>3, StepVacant, VacantThen DEF Calm
    <2>4. CASE Crash
      BY <2>4 DEF Crash, Calm
    <2>5. CASE UNCHANGED vars
      <3>1. AllVacant
        BY <2>2, <2>5 DEF Calm, vars
      <3>2. VacantNext
        BY <2>5, <3>1 DEF vars, AllVacant, VacantNext, Free, FreeNext, InMergeOf
      <3> QED BY <2>1, <3>2, VacantThen
    <2> QED BY <2>3, <2>4, <2>5 DEF Next
  <1> QED BY <1>1, <1>2, CalmSpared, PTL DEF Spec

-----------------------------------------------------------------------------
(* Names are honoured                                                      *)

\* The name a user last gave a job, when no merge has taken it up: the directory of the
\* finished job, the one its run moves it to, or the pending one, after a failure too if
\* the job may be retried.
Honours(j, row, tk, name) ==
    /\ row.state = "done" \/ tk.at = "verdict" => row.rename_to = NoDir
    /\ name # NoDir =>
          /\ row.state = "done" \/ tk.at \in {"clearing", "verdict"} => row.dir = name
          /\ Applying(tk) => tk.name = name
          /\ row.state \in Open /\ tk.at \in {"idle", "downloading", "detected", "landing", "recorded"} =>
                row.rename_to = name
          /\ row.state = "error" /\ row.files = {} /\ <<j, "error">> \in Retried => row.rename_to = name

\* Users gave the name, and a job with files that is not finished, nor about to be, has
\* been requeued.
Owed(j, row, tk, name) ==
    /\ name \in NamesOf[j] \cup {NoDir}
    /\ row.files # {} /\ row.state # "done" /\ ~Late(tk) => <<j, "done">> \in Rechecked \cup Retried

Granted ==
    \A j \in Jobs : Owed(j, rows[j], task[j], asked[j]) /\ (Free(j) => Honours(j, rows[j], task[j], asked[j]))
GrantedNext ==
    \A j \in Jobs : Owed(j, rows'[j], task'[j], asked'[j]) /\ (FreeNext(j) => Honours(j, rows'[j], task'[j], asked'[j]))

\* It is the invariant of the next state.
LEMMA GrantedThen ==
  ASSUME UNCHANGED world, GrantedNext
  PROVE  Granted'
  <1>1. UNCHANGED <<Jobs, NamesOf, Rechecked, Retried>> /\ \A j : Free(j)' = FreeNext(j)
    BY FreeThen DEF Jobs, NamesOf, Rechecked, Retried
  <1> QED BY <1>1 DEF Granted, GrantedNext, Owed, Honours, Applying, Late

\* A step that concerns one job.
LEMMA OneGranted ==
  ASSUME Granted, \A j \in Jobs : FreeNext(j) => Free(j), NEW k \in Jobs,
         \A j \in Jobs \ {k} : rows'[j] = rows[j] /\ task'[j] = task[j] /\ asked'[j] = asked[j],
         Owed(k, rows'[k], task'[k], asked'[k]), FreeNext(k) => Honours(k, rows'[k], task'[k], asked'[k])
  PROVE  GrantedNext
  BY DEF Granted, GrantedNext

\* What a world in which names are kept says of a job with a name.
LEMMA NamesKept ==
  ASSUME KeepsNames(world), NEW j \in Jobs, NEW name, name \in NamesOf[j] \cup {NoDir}, name # NoDir
  PROVE  /\ FilesOf[j] # {} /\ <<j, "done">> \notin Retried /\ <<j, "error">> \notin Rechecked
         /\ <<j, "done">> \in Rechecked \/ DirOf[j] \in NamesOf[j] => <<j, "error">> \notin Retried
  BY DEF KeepsNames, Jobs, NamesOf, FilesOf, DirOf, Retried, Rechecked

\* The pending name is written to a job that has not finished.
LEMMA DeferGrants ==
  ASSUME Steady, Granted, ~Overlap, \A j \in Jobs : FreeNext(j) => Free(j), NEW c \in Clients, DeferRename(c)
  PROVE  GrantedNext
  <1>1. PICK tk : tk = task[c]
    OBVIOUS
  <1>2. PICK j : j = tk.jobs[1]
    OBVIOUS
  <1>3. Typed /\ AtWork /\ Knows(tk, rows) /\ c \in Tasks /\ c \notin Jobs /\ Proceeds(c) /\ asked \in [Jobs -> NameSet]
    BY <1>1, ClientFacts, InFields, DeferRenameStep DEF Steady, Settled, Knowing
  <1>4. /\ tk.at = "rename" /\ tk.seen[1].state \in Open /\ j \in Jobs
        /\ Alters(j, {"rename_to"}) /\ rows'[j].rename_to = tk.name
        /\ asked' = [asked EXCEPT ![j] = tk.name]
    BY <1>1, <1>2, <1>3, DeferRenameDoes
  <1>5. rows[j].state # "done" /\ tk.name \in NamesOf[j]
    BY <1>2, <1>3, <1>4 DEF Knows, InRename, StillSo
  <1>6. task[j].at \in {"idle", "downloading", "detected"} /\ \A k \in Jobs : task'[k] = task[k]
    BY <1>1, <1>3, <1>4, OthersRest, OthersStand DEF Busy, Tasks
  <1>7. /\ asked'[j] = tk.name /\ rows'[j].state = rows[j].state /\ rows'[j].files = rows[j].files
        /\ \A k \in Jobs \ {j} : rows'[k] = rows[k] /\ asked'[k] = asked[k]
    BY <1>3, <1>4 DEF Alters, Columns
  <1>8. Owed(j, rows'[j], task'[j], asked'[j])
    BY <1>4, <1>5, <1>6, <1>7 DEF Granted, Owed
  <1>9. Honours(j, rows'[j], task'[j], asked'[j])
    BY <1>4, <1>5, <1>6, <1>7 DEF Honours, Applying
  <1> QED BY <1>4, <1>6, <1>7, <1>8, <1>9, OneGranted

\* A name that its directory has already is the job's, without a step of a thread.
LEMMA AcceptedGrants ==
  ASSUME Steady, Granted, AllVacant, KeepsNames(world), \A j \in Jobs : FreeNext(j) => Free(j),
         NEW c \in Clients, RenameNow(c)
  PROVE  GrantedNext
  <1>1. PICK tk : tk = task[c]
    OBVIOUS
  <1>2. PICK j : j = tk.jobs[1]
    OBVIOUS
  <1>3. PICK job : job = task[c].seen[1]
    OBVIOUS
  <1>4. /\ Typed /\ Stored /\ AtWork /\ Knows(tk, rows) /\ c \in Tasks /\ c \notin Jobs
        /\ asked \in [Jobs -> NameSet] /\ tk.jobs \in Seq(Jobs)
    BY <1>1, ClientFacts, InFields DEF Steady, Settled, Knowing
  <1>5. tk.at = "rename" /\ job.state \notin Open /\ rows' = rows /\ asked' = AskedWith(c, job)
    <2>1. PICK loose : loose = Existing(job.dest, rows[task[c].jobs[1]].files)
      OBVIOUS
    <2>2. PICK target : target = job.dest \o <<task[c].name>>
      OBVIOUS
    <2>3. Typed
      BY <1>4
    <2> QED BY <1>1, <1>3, <2>1, <2>2, <2>3, RenameNowDoes
  <1>6. j \in Jobs /\ tk.name \in NamesOf[j] /\ rows[j] = job /\ task[j].at = "idle" /\ job.state \in {"done", "error"}
    <2>1. tk.jobs # <<>> /\ tk.name \in NamesOf[j] /\ StillSo(job, rows[j])
      BY <1>1, <1>2, <1>3, <1>4, <1>5 DEF Knows, InRename
    <2>2. j \in Jobs
      BY <1>2, <1>4, <2>1
    <2> QED BY <1>4, <1>5, <2>1, <2>2, SeenRests
  <1>7. \A k \in Jobs : task'[k] = task[k]
    BY <1>4, RunsStand
  <1>8. CASE asked' = asked
    BY <1>5, <1>7, <1>8 DEF Granted, GrantedNext
  <1>9. CASE asked' # asked
    <2>1. job.dir # NoDir /\ job.dir = tk.name /\ asked' = [asked EXCEPT ![j] = tk.name]
      BY <1>1, <1>2, <1>5, <1>9 DEF AskedWith
    <2>2. asked'[j] = tk.name /\ \A k \in Jobs \ {j} : asked'[k] = asked[k]
      BY <1>4, <1>6, <2>1
    <2>3. Owed(j, rows[j], task[j], asked[j]) /\ (Free(j) => Honours(j, rows[j], task[j], asked[j]))
      BY <1>6 DEF Granted
    <2>4. Owed(j, rows'[j], task'[j], asked'[j])
      BY <1>5, <1>6, <1>7, <2>2, <2>3 DEF Owed
    <2>5. ASSUME Free(j)
          PROVE  Honours(j, rows'[j], task'[j], asked'[j])
      <3>1. job.files = {} => <<j, "error">> \notin Retried
        <4>1. FilesOf[j] # {} /\ (DirOf[j] \in NamesOf[j] => <<j, "error">> \notin Retried)
          BY <1>6, <2>1, NamesKept
        <4>2. job.files = {} => job.dir \in {NoDir, DirOf[j]}
          BY <1>6, <2>5, <4>1 DEF AllVacant, Bare, Vacant
        <4> QED BY <1>6, <2>1, <4>1, <4>2
      <3>2. job.state = "done" => job.rename_to = NoDir
        BY <1>6, <2>3, <2>5 DEF Honours
      <3>3. Honours(j, job, task[j], tk.name)
        BY <1>6, <2>1, <3>1, <3>2 DEF Honours, Applying, Open
      <3> QED BY <1>5, <1>6, <1>7, <2>2, <3>3
    <2> QED BY <1>5, <1>6, <1>7, <2>2, <2>4, <2>5, OneGranted
  <1> QED BY <1>8, <1>9

\* A job that is renamed at once has finished, or has failed with files of an earlier download.
LEMMA RenamedGrants ==
  ASSUME Steady, Granted, AllVacant, KeepsNames(world), ~Overlap, \A j \in Jobs : FreeNext(j) => Free(j),
         NEW c \in Clients, WriteRenamed(c)
  PROVE  GrantedNext
  <1>1. PICK tk : tk = task[c]
    OBVIOUS
  <1>2. PICK j : j = tk.jobs[1]
    OBVIOUS
  <1>3. Typed /\ AtWork /\ Knows(tk, rows) /\ c \in Tasks /\ c \notin Jobs /\ Proceeds(c) /\ asked \in [Jobs -> NameSet]
    BY <1>1, ClientFacts, InFields, WriteRenamedStep DEF Steady, Settled, Knowing
  <1>4. /\ tk.at = "renamed" /\ j \in Jobs /\ Alters(j, {"dir"}) /\ rows'[j].dir = tk.name
        /\ asked' = [asked EXCEPT ![j] = tk.name]
    BY <1>1, <1>2, <1>3, WriteRenamedDoes
  <1>5. rows[j].state \notin Open /\ tk.name \in NamesOf[j]
    BY <1>2, <1>3, <1>4 DEF Knows, InRename, StillSo
  <1>6. task[j].at = "idle" /\ \A k \in Jobs : task'[k] = task[k]
    <2>1. task[j].at = "idle"
      BY <1>3, <1>4, <1>5 DEF AtWork, ActiveRuns, Idle, Open
    <2> QED BY <1>3, <2>1, OthersStand DEF Tasks
  <1>7. /\ asked'[j] = tk.name /\ rows'[j].state = rows[j].state /\ rows'[j].files = rows[j].files
        /\ rows'[j].rename_to = rows[j].rename_to
        /\ \A k \in Jobs \ {j} : rows'[k] = rows[k] /\ asked'[k] = asked[k]
    BY <1>3, <1>4 DEF Alters, Columns
  <1>8. Owed(j, rows'[j], task'[j], asked'[j])
    BY <1>4, <1>5, <1>6, <1>7 DEF Granted, Owed
  <1>9. ASSUME Free(j)
        PROVE  Honours(j, rows'[j], task'[j], asked'[j])
    <2>1. Honours(j, rows[j], task[j], asked[j])
      BY <1>4, <1>9 DEF Granted
    <2>2. tk.name # NoDir => rows[j].files # {}
      <3>1. Mover(c, tk, j)
        BY <1>2, <1>3, <1>4 DEF Mover
      <3>2. tk.name # NoDir => FilesOf[j] # {}
        BY <1>4, <1>5, NamesKept
      <3> QED BY <1>1, <1>4, <1>6, <1>9, <3>1, <3>2 DEF AllVacant, Bare
    <2> QED BY <1>4, <1>5, <1>6, <1>7, <2>1, <2>2 DEF Honours, Applying
  <1> QED BY <1>4, <1>6, <1>7, <1>8, <1>9, OneGranted

\* A merge writes rows of its members only, and names of groups.
LEMMA MergeGrants ==
  ASSUME Steady, Granted, ~Overlap, \A j \in Jobs : FreeNext(j) => Free(j), NEW c \in Clients,
         UpdateMember(c) \/ SetGroupName(c)
  PROVE  GrantedNext
  <1>1. PICK tk : tk = task[c]
    OBVIOUS
  <1>2. PICK j : j = tk.jobs[tk.i]
    OBVIOUS
  <1>3. Typed /\ Stored /\ c \in Tasks /\ c \notin Jobs /\ tk.jobs \in Seq(Jobs)
    BY <1>1, ClientFacts, InFields DEF Steady, Settled
  <1>4. \A k \in Jobs : task'[k] = task[k]
    BY <1>3, RunsStand
  <1>5. CASE UpdateMember(c)
    <2>1. /\ asked' = asked /\ j \in Jobs /\ rows'[j].group # 0
          /\ Alters(j, Columns \ {"state", "files"})
      <3>1. Typed
        BY <1>3
      <3>2. LET q == task'[c]
            IN  /\ tk.at = "updating" /\ asked' = asked /\ disk' = disk
                /\ j \in Jobs /\ tk.i \in DOMAIN tk.jobs /\ tk.i \in DOMAIN tk.seen
                /\ rows'[j].group = GroupOf(tk) /\ rows'[j].group # 0 /\ rows'[j].gname = tk.name
                /\ \/ /\ tk.seen[tk.i].state = "done" /\ Alters(j, {"group", "gname", "dir", "dest"})
                      /\ rows'[j].dir = tk.name /\ rows'[j].dest = tk.seen[1].dest
                   \/ /\ tk.seen[tk.i].state # "done" /\ Alters(j, {"group", "gname", "rename_to"})
                      /\ rows'[j].rename_to = tk.name
                /\ IsTask(q) /\ q.jobs = tk.jobs /\ q.name = tk.name /\ q.seen = tk.seen /\ q.i = tk.i + 1
                /\ q.thread = tk.thread /\ q.at = IF tk.i = Len(tk.jobs) THEN "naming" ELSE "updating"
        BY <1>1, <1>2, <1>5, <3>1, UpdateMemberDoes
      <3> QED BY <3>2 DEF Alters, Columns
    <2>2. /\ rows'[j].state = rows[j].state /\ rows'[j].files = rows[j].files
          /\ \A k \in Jobs \ {j} : rows'[k] = rows[k]
      BY <2>1 DEF Alters, Columns
    <2>3. Owed(j, rows'[j], task'[j], asked'[j])
      BY <1>4, <2>1, <2>2 DEF Granted, Owed
    <2>4. ~FreeNext(j)
      BY <2>1 DEF FreeNext
    <2> QED BY <1>4, <2>1, <2>2, <2>3, <2>4, OneGranted
  <1>6. CASE SetGroupName(c)
    <2>1. asked' = asked /\ \A k \in Jobs : \A f \in Columns \ {"gname"} : rows'[k][f] = rows[k][f]
      BY <1>3, <1>6, SetGroupNameDoes
    <2>2. \A k \in Jobs : /\ rows'[k].state = rows[k].state /\ rows'[k].files = rows[k].files
                          /\ rows'[k].rename_to = rows[k].rename_to /\ rows'[k].dir = rows[k].dir
      BY <2>1 DEF Columns
    <2>3. ASSUME NEW k \in Jobs
          PROVE  /\ Owed(k, rows'[k], task'[k], asked'[k])
                 /\ FreeNext(k) => Honours(k, rows'[k], task'[k], asked'[k])
      <3>1. task'[k] = task[k] /\ asked'[k] = asked[k]
        BY <1>4, <2>1, <2>3
      <3>2. Owed(k, rows[k], task[k], asked[k]) /\ (FreeNext(k) => Honours(k, rows[k], task[k], asked[k]))
        BY <2>3 DEF Granted
      <3>3. Owed(k, rows'[k], task'[k], asked'[k])
        BY <2>2, <2>3, <3>1, <3>2 DEF Owed
      <3>4. Honours(k, rows[k], task[k], asked[k]) => Honours(k, rows'[k], task'[k], asked'[k])
        BY <2>2, <2>3, <3>1 DEF Honours
      <3> QED BY <3>2, <3>3, <3>4
    <2> QED BY <2>3 DEF GrantedNext
  <1> QED BY <1>5, <1>6

\* A recheck asks for the directory that the job has.
LEMMA RequeueGrants ==
  ASSUME Steady, Granted, KeepsNames(world), \A j \in Jobs : FreeNext(j) => Free(j), NEW c \in Clients, RequeueDue(c)
  PROVE  GrantedNext
  <1>1. PICK tk : tk = task[c]
    OBVIOUS
  <1>2. PICK j : j = tk.jobs[1]
    OBVIOUS
  <1>3. Typed /\ Stored /\ AtWork /\ Knows(tk, rows) /\ c \in Tasks /\ c \notin Jobs
    BY <1>1, ClientFacts DEF Steady, Settled, Knowing
  <1>4. /\ tk.at = "due" /\ j \in Jobs /\ Alters(j, {"state", "rename_to"})
        /\ rows'[j].state = "queued" /\ rows'[j].rename_to = tk.seen[1].dir /\ asked' = asked
    BY <1>1, <1>2, <1>3, RequeueDueDoes
  <1>5. tk.seen[1] = rows[j] /\ <<j, rows[j].state>> \in Rechecked
    BY <1>2, <1>3, <1>4 DEF Knows
  <1>6. rows[j].state \in {"done", "error"} /\ task[j].at = "idle"
    BY <1>1, <1>2, <1>3, <1>4 DEF AtWork, ActiveRuns, Idle
  <1>7. \A k \in Jobs : task'[k] = task[k]
    BY <1>3, RunsStand
  <1>8. rows'[j].files = rows[j].files /\ \A k \in Jobs \ {j} : rows'[k] = rows[k]
    BY <1>4 DEF Alters, Columns
  <1>9. Owed(j, rows[j], task[j], asked[j]) /\ (Free(j) => Honours(j, rows[j], task[j], asked[j]))
    BY <1>4 DEF Granted
  <1>10. Owed(j, rows'[j], task'[j], asked'[j])
    <2>1. rows[j].state = "done" => <<j, "done">> \in Rechecked
      BY <1>5
    <2> QED BY <1>4, <1>6, <1>7, <1>8, <1>9, <2>1 DEF Owed
  <1>11. ASSUME Free(j)
         PROVE  Honours(j, rows'[j], task'[j], asked'[j])
    <2>1. asked[j] # NoDir => rows[j].state = "done"
      BY <1>4, <1>5, <1>6, <1>9, NamesKept DEF Owed
    <2>2. asked[j] # NoDir => rows'[j].rename_to = asked[j]
      BY <1>4, <1>5, <1>9, <1>11, <2>1 DEF Honours
    <2> QED BY <1>4, <1>6, <1>7, <2>2 DEF Honours, Applying
  <1> QED BY <1>4, <1>7, <1>8, <1>10, <1>11, OneGranted

\* The name of a retried job is still to be applied.
LEMMA RetryGrants ==
  ASSUME Steady, Granted, KeepsNames(world), \A j \in Jobs : FreeNext(j) => Free(j), Retry
  PROVE  GrantedNext
  <1>1. Typed /\ AtWork /\ AllFormed
    BY DEF Steady, Settled
  <1>2. asked' = asked /\ task' = task
    BY <1>1, RetryDoes
  <1>3. PICK j \in Jobs : /\ <<j, rows[j].state>> \in Retried /\ rows[j].state \in {"done", "error"}
                          /\ Alters(j, {"state"}) /\ rows'[j].state = "queued"
    BY <1>1, RetryDoes
  <1>4. task[j].at = "idle"
    BY <1>1, <1>3 DEF AtWork, ActiveRuns, Idle
  <1>5. /\ rows'[j].rename_to = rows[j].rename_to /\ rows'[j].files = rows[j].files
        /\ \A k \in Jobs \ {j} : rows'[k] = rows[k]
    BY <1>3 DEF Alters, Columns
  <1>6. Owed(j, rows[j], task[j], asked[j]) /\ (Free(j) => Honours(j, rows[j], task[j], asked[j]))
    BY DEF Granted
  <1>7. Owed(j, rows'[j], task'[j], asked'[j])
    <2>1. rows[j].state = "done" => <<j, "done">> \in Retried
      BY <1>3
    <2> QED BY <1>2, <1>3, <1>4, <1>5, <1>6, <2>1 DEF Owed
  <1>8. ASSUME Free(j)
        PROVE  Honours(j, rows'[j], task'[j], asked'[j])
    <2>1. ASSUME asked[j] # NoDir
          PROVE  rows[j].state = "error" /\ rows[j].files = {}
      <3>1. /\ <<j, "done">> \notin Retried
            /\ <<j, "done">> \in Rechecked => <<j, "error">> \notin Retried
        BY <1>6, <2>1, NamesKept DEF Owed
      <3>2. rows[j].state = "error"
        BY <1>3, <3>1
      <3>3. ~Late(task[j])
        BY <1>4 DEF Late
      <3> QED BY <1>3, <1>6, <3>1, <3>2, <3>3 DEF Owed
    <2> QED BY <1>2, <1>3, <1>4, <1>5, <1>6, <1>8, <2>1 DEF Honours, Applying
  <1> QED BY <1>2, <1>5, <1>7, <1>8, OneGranted

\* A run applies the name to its files and the row, then clears it.
LEMMA RunHonours ==
  ASSUME Steady, KeepsNames(world), NEW j \in Jobs,
         Owed(j, rows[j], task[j], asked[j]), Honours(j, rows[j], task[j], asked[j]),
         \/ StartRun(j) \/ DetectDir(j) \/ Downloaded(j) \/ LandFile(j) \/ RecordFiles(j) \/ ReadPending(j)
         \/ WriteApplied(j) \/ ClearPending(j) \/ Finish(j) \/ FailRun(j)
         \/ ThreadStep(j)
  PROVE  Honours(j, rows'[j], task'[j], asked[j])
  <1>1. PICK tk : tk = task[j]
    OBVIOUS
  <1>2. PICK q : q = task'[j]
    OBVIOUS
  <1>3. PICK name : name = asked[j]
    OBVIOUS
  <1>4. /\ Typed /\ Stored /\ Sure(tk, disk) /\ Formed(j, rows[j], tk) /\ j \in Tasks /\ j \notin Clients /\ IsTaskOf(j, tk)
        /\ Owed(j, rows[j], tk, name) /\ Honours(j, rows[j], tk, name)
        /\ (rows[j].state = "active") = (tk.at # "idle")
    BY <1>1, <1>3, RunFacts DEF Steady, Settled, Sound, AllFormed, AtWork, ActiveRuns, Idle
  <1>5. CASE StartRun(j)
    <2>1. /\ tk.at = "idle" /\ rows[j].state = "queued" /\ rows'[j].state = "active"
          /\ rows'[j].rename_to = rows[j].rename_to /\ q.at = "downloading"
      BY <1>1, <1>2, <1>4, <1>5, StartRunDoes DEF Alters, Columns
    <2> QED BY <1>2, <1>3, <1>4, <2>1 DEF Honours, Applying, Open
  <1>6. CASE DetectDir(j)
    <2>1. /\ tk.at \in {"downloading", "detected"} /\ rows'[j].state = rows[j].state
          /\ rows'[j].rename_to = rows[j].rename_to /\ q.at = "detected"
      BY <1>1, <1>2, <1>4, <1>6, RunDoes DEF Alters, Columns
    <2> QED BY <1>2, <1>3, <1>4, <2>1 DEF Honours, Applying, Open
  <1>7. CASE Downloaded(j)
    <2>1. tk.at \in {"downloading", "detected"} /\ rows' = rows /\ q.at = "landing"
      BY <1>1, <1>2, <1>4, <1>7, RunDoes
    <2> QED BY <1>2, <1>3, <1>4, <2>1 DEF Honours, Applying
  <1>15. CASE LandFile(j)
    <2>1. tk.at = "landing" /\ rows' = rows /\ q.at = "landing"
      BY <1>1, <1>2, <1>4, <1>15, RunDoes
    <2> QED BY <1>2, <1>3, <1>4, <2>1 DEF Honours, Applying
  <1>8. CASE RecordFiles(j)
    <2>1. /\ tk.at = "landing" /\ rows'[j].state = rows[j].state
          /\ rows'[j].rename_to = rows[j].rename_to /\ q.at = "recorded"
      BY <1>1, <1>2, <1>4, <1>8, RunDoes DEF Alters, Columns
    <2> QED BY <1>2, <1>3, <1>4, <2>1 DEF Honours, Applying, Open
  <1>9. CASE ReadPending(j)
    <2>1. PICK job : job = rows[j]
      OBVIOUS
    <2>2. /\ tk.at = "recorded" /\ rows' = rows
          /\ \/ job.rename_to = NoDir /\ q.at = "verdict"
             \/ q.at \in {"thread", "moving"} /\ q.name = job.rename_to
             \/ q.at = "clearing" /\ (job.rename_to = job.dir \/ job.files = {})
      <3>1. Typed
        BY <1>4
      <3>2. LET base == tk.seen[1].dest
            IN  /\ tk.at = "recorded" /\ rows' = rows
                /\ \/ job.rename_to = NoDir /\ q.at = "verdict"
                   \/ q.at = "thread" /\ q.name = job.rename_to
                   \/ q.at = "moving" /\ q.name = job.rename_to
                   \/ /\ q.at = "clearing"
                      /\ \/ job.rename_to = job.dir
                         \/ ~(job.dir # NoDir /\ IsDir(disk, base \o <<job.dir>>)) /\ job.files = {}
        BY <1>1, <1>2, <1>9, <2>1, <3>1, ReadPendingDoes
      <3> QED BY <3>2
    <2>3. name # NoDir => job.rename_to = name /\ job.files # {}
      <3>1. name # NoDir => FilesOf[j] # {}
        BY <1>4, NamesKept DEF Owed
      <3>2. job.files = Downloads(j)
        BY <1>4, <2>1, <2>2 DEF Formed, Late
      <3> QED BY <1>4, <2>1, <2>2, <3>1, <3>2, FilesComeDown DEF Honours, Open
    <2>4. job.state = "active"
      BY <1>4, <2>1, <2>2
    <2>5. Honours(j, job, q, name)
      BY <2>2, <2>3, <2>4 DEF Honours, Applying
    <2> QED BY <1>2, <1>3, <2>1, <2>2, <2>5
  <1>10. CASE WriteApplied(j)
    <2>1. /\ tk.at = "renamed" /\ rows'[j].state = rows[j].state /\ rows'[j].rename_to = NoDir
          /\ rows'[j].dir = tk.name /\ q.at = "verdict"
      BY <1>1, <1>2, <1>4, <1>10, RunDoes DEF Alters, Columns
    <2> QED BY <1>2, <1>3, <1>4, <2>1 DEF Honours, Applying
  <1>11. CASE ClearPending(j)
    <2>1. /\ tk.at = "clearing" /\ rows'[j].state = rows[j].state /\ rows'[j].rename_to = NoDir
          /\ rows'[j].dir = rows[j].dir /\ q.at = "verdict"
      BY <1>1, <1>2, <1>4, <1>11, RunDoes DEF Alters, Columns
    <2> QED BY <1>2, <1>3, <1>4, <2>1 DEF Honours, Applying
  <1>12. CASE Finish(j)
    <2>1. /\ tk.at = "verdict" /\ rows'[j].state = "done" /\ rows'[j].rename_to = rows[j].rename_to
          /\ rows'[j].dir = rows[j].dir /\ q.at = "idle"
      BY <1>1, <1>2, <1>4, <1>12, RunDoes, Nothing DEF Alters, Columns
    <2> QED BY <1>2, <1>3, <1>4, <2>1 DEF Honours, Applying, Open
  <1>13. CASE FailRun(j)
    <2>1. /\ tk.at \in {"downloading", "detected", "failed"} /\ rows'[j].state = "error"
          /\ rows'[j].rename_to = rows[j].rename_to /\ q.at = "idle"
      BY <1>1, <1>2, <1>4, <1>13, RunDoes, Nothing DEF Alters, Columns
    <2>2. tk.at # "failed" /\ rows[j].state = "active"
      BY <1>4, <2>1 DEF Sure
    <2> QED BY <1>2, <1>3, <1>4, <2>1, <2>2 DEF Honours, Applying, Open
  <1>14. CASE ThreadStep(j)
    <2>1. /\ tk.at \in {"thread", "moving"} /\ rows' = rows
          /\ q.name = tk.name /\ q.at \in {"thread", "moving", tk.thread.then}
      BY <1>1, <1>2, <1>4, <1>14, ThreadDoes, ThreadSure DEF GoesOnAs
    <2>2. tk.thread.then = "renamed"
      BY <1>4, <2>1 DEF IsTaskOf, InMerge, InThread, IsThread
    <2>3. rows[j].state = "active"
      BY <1>4, <2>1
    <2> QED BY <1>2, <1>3, <1>4, <2>1, <2>2, <2>3 DEF Honours, Applying
  <1> QED BY <1>5, <1>6, <1>7, <1>8, <1>9, <1>10, <1>11, <1>12, <1>13, <1>14, <1>15

\* A run that ends without its job finished has recorded no files.
LEMMA RunOwed ==
  ASSUME Steady, NEW j \in Jobs, Owed(j, rows[j], task[j], asked[j]),
         \/ StartRun(j) \/ DetectDir(j) \/ Downloaded(j) \/ LandFile(j) \/ RecordFiles(j) \/ ReadPending(j)
         \/ WriteApplied(j) \/ ClearPending(j) \/ Finish(j) \/ FailRun(j)
         \/ ThreadStep(j)
  PROVE  /\ Owed(j, rows'[j], task'[j], asked[j]) /\ asked' = asked
         /\ \A k \in Jobs \ {j} : rows'[k] = rows[k] /\ task'[k] = task[k]
  <1>1. PICK tk : tk = task[j]
    OBVIOUS
  <1>2. PICK q : q = task'[j]
    OBVIOUS
  <1>3. /\ Typed /\ Stored /\ AtWork /\ Sure(tk, disk) /\ j \in Tasks /\ j \notin Clients /\ IsTaskOf(j, tk)
    BY <1>1, RunFacts DEF Steady, Settled, Sound
  <1>4. CASE Bystands(j)
    <2>1. /\ rows[j].state \in Open /\ Alters(j, {"state", "dir"})
          /\ asked' = asked /\ (\A u \in Tasks \ {j} : task'[u] = task[u])
          /\ tk.at \in {"idle", "downloading", "detected"}
      BY <1>1, <1>3, <1>4, BystandDoes
    <2>2. rows'[j].files = rows[j].files /\ \A k \in Jobs \ {j} : rows'[k] = rows[k]
      BY <2>1 DEF Alters, Columns
    <2>3. rows[j].files # {} => <<j, "done">> \in Rechecked \cup Retried
      BY <1>1, <2>1 DEF Owed, Late, Open
    <2> QED BY <2>1, <2>2, <2>3 DEF Owed, Tasks
  <1>5. CASE Downloaded(j) \/ LandFile(j) \/ RecordFiles(j) \/ ReadPending(j) \/ WriteApplied(j) \/ ClearPending(j) \/ Finish(j)
    <2>1. Proceeds(j)
      BY <1>3, <1>5, RunSure
    <2>2. \A k \in Jobs \ {j} : task'[k] = task[k]
      BY <1>3, <2>1, OthersStand DEF Tasks
    <2>3. CASE Downloaded(j)
      <3>1. tk.at \in {"downloading", "detected"} /\ rows' = rows /\ asked' = asked
        BY <1>1, <1>2, <1>3, <2>3, RunDoes
      <3> QED BY <1>1, <2>2, <3>1 DEF Owed, Late
    <2>6. CASE LandFile(j)
      <3>1. tk.at = "landing" /\ rows' = rows /\ asked' = asked
        BY <1>1, <1>2, <1>3, <2>6, RunDoes
      <3> QED BY <1>1, <2>2, <3>1 DEF Owed, Late
    <2>4. CASE ReadPending(j)
      <3>1. q.at \in {"verdict", "thread", "moving", "clearing"} /\ rows' = rows /\ asked' = asked
        BY <1>1, <1>2, <1>3, <2>4, ReadPendingDoes
      <3> QED BY <1>2, <2>2, <3>1 DEF Owed, Late
    <2>5. CASE RecordFiles(j) \/ WriteApplied(j) \/ ClearPending(j) \/ Finish(j)
      <3>1. /\ Late(q) \/ rows'[j].state = "done"
            /\ asked' = asked /\ \A k \in Jobs \ {j} : rows'[k] = rows[k]
        BY <1>1, <1>2, <1>3, <2>5, RunDoes DEF Late, Alters
      <3> QED BY <1>2, <2>2, <3>1 DEF Owed
    <2> QED BY <1>5, <2>3, <2>4, <2>5, <2>6
  <1>6. CASE ThreadStep(j)
    <2>1. /\ tk.at \in {"thread", "moving"} /\ rows' = rows /\ asked' = asked
          /\ q.at \in {"thread", "moving", tk.thread.then}
      BY <1>1, <1>2, <1>3, <1>6, ThreadDoes, ThreadSure
    <2>2. tk.thread.then = "renamed"
      BY <1>3, <2>1 DEF IsTaskOf, InMerge, InThread, IsThread
    <2>3. \A k \in Jobs \ {j} : task'[k] = task[k]
      BY <1>3, <1>6, ThreadSteps, OthersStand DEF Tasks
    <2> QED BY <1>2, <2>1, <2>2, <2>3 DEF Owed, Late
  <1>7. FailRun(j) => Bystands(j)
    BY FailuresStandBy DEF Steady
  <1> QED BY <1>4, <1>5, <1>6, <1>7 DEF Bystands

\* Every step.
LEMMA StepGranted ==
  ASSUME Steady, Granted, AllVacant, KeepsNames(world), ~Overlap, Step
  PROVE  GrantedNext
  <1>1. \A j \in Jobs : FreeNext(j) => Free(j)
    BY StaysFree DEF Steady
  <1>2. Typed /\ Stored
    BY DEF Steady, Settled
  <1>3. ASSUME NEW j \in Jobs,
               \/ StartRun(j) \/ DetectDir(j) \/ Downloaded(j) \/ LandFile(j) \/ RecordFiles(j) \/ ReadPending(j)
               \/ WriteApplied(j) \/ ClearPending(j) \/ Finish(j) \/ FailRun(j)
               \/ ThreadStep(j)
        PROVE  GrantedNext
    <2>1. Owed(j, rows[j], task[j], asked[j]) /\ (Free(j) => Honours(j, rows[j], task[j], asked[j]))
      BY DEF Granted
    <2>2. /\ Owed(j, rows'[j], task'[j], asked[j]) /\ asked' = asked
          /\ \A k \in Jobs \ {j} : rows'[k] = rows[k] /\ task'[k] = task[k]
      BY <1>3, <2>1, RunOwed
    <2>3. Free(j) => Honours(j, rows'[j], task'[j], asked[j])
      BY <1>3, <2>1, RunHonours
    <2> QED BY <1>1, <2>2, <2>3, OneGranted
  <1>4. ASSUME NEW c \in Clients,
               \/ RenameRequested(c) \/ DeferRename(c) \/ RenameNow(c) \/ WriteRenamed(c)
               \/ MergeRequested(c) \/ ReadMember(c) \/ GatherMember(c) \/ UpdateMember(c) \/ SetGroupName(c)
               \/ DueListed(c) \/ RequeueDue(c)
               \/ ThreadStep(c)
        PROVE  GrantedNext
    <2>1. CASE DeferRename(c) \/ RenameNow(c) \/ WriteRenamed(c) \/ UpdateMember(c) \/ SetGroupName(c) \/ RequeueDue(c)
      BY <1>1, <2>1, DeferGrants, AcceptedGrants, RenamedGrants, MergeGrants, RequeueGrants
    <2>2. CASE ~(DeferRename(c) \/ RenameNow(c) \/ WriteRenamed(c) \/ UpdateMember(c) \/ SetGroupName(c) \/ RequeueDue(c))
      <3>1. rows' = rows /\ asked' = asked /\ \A j \in Jobs : task'[j] = task[j]
        BY <1>2, <1>4, <2>2, RunsStand
      <3> QED BY <1>1, <3>1 DEF Granted, GrantedNext
    <2> QED BY <2>1, <2>2
  <1>5. CASE Retry
    BY <1>1, <1>5, RetryGrants
  <1> QED BY <1>3, <1>4, <1>5 DEF Step, Tasks

\* The name a user last gave a job stays its name.
LEMMA CalmGranted == Spec => [](Calm /\ Separate /\ KeepsNames(world) => Granted)
  <1>1. Init => Granted
    <2> SUFFICES ASSUME Init, NEW j \in Jobs PROVE Owed(j, rows[j], task[j], asked[j]) /\ Honours(j, rows[j], task[j], asked[j])
      BY DEF Granted
    <2>1. rows[j] = NewRow(j) /\ asked[j] = NoDir /\ task[j].at = "idle"
      BY InitTyped, Nothing DEF Init, Tasks
    <2>2. rows[j].rename_to = NoDir /\ (rows[j].state # "done" => rows[j].files = {})
      BY <2>1 DEF NewRow
    <2> QED BY <2>1, <2>2 DEF Owed, Honours
  <1>2. /\ (Calm /\ Separate => Steady /\ AllVacant) /\ (Calm /\ Separate /\ KeepsNames(world) => Granted) /\ [Next]_vars
        => (Calm /\ Separate /\ KeepsNames(world) => Granted)'
    <2> SUFFICES ASSUME Calm /\ Separate => Steady /\ AllVacant, Calm /\ Separate /\ KeepsNames(world) => Granted,
                        [Next]_vars, Calm', Separate', KeepsNames(world)'
                 PROVE  Granted'
      OBVIOUS
    <2>1. UNCHANGED world
      BY DEF Next, vars
    <2>2. ~Overlap /\ Separate /\ KeepsNames(world)
      BY <2>1 DEF Calm, Overlap, Separate
    <2>3. CASE Step /\ UNCHANGED <<world, crashed>>
      BY <2>1, <2>2, <2>3, StepGranted, GrantedThen DEF Calm
    <2>4. CASE Crash
      BY <2>4 DEF Crash, Calm
    <2>5. CASE UNCHANGED vars
      <3>1. Granted
        BY <2>2, <2>5 DEF Calm, vars
      <3>2. GrantedNext
        BY <2>5, <3>1 DEF vars, Granted, GrantedNext, Free, FreeNext, InMergeOf
      <3> QED BY <2>1, <3>2, GrantedThen
    <2> QED BY <2>3, <2>4, <2>5 DEF Next
  <1> QED BY <1>1, <1>2, CalmVacant, PTL DEF Spec

\* RenameHonoured: a finished job that no merge has taken up has the directory its user
\* last asked for, whether before the download, while it ran or after it, a name it had
\* already included, and no name is left waiting, whatever failures, retries and rechecks
\* came in between.
THEOREM RenamesAreHonoured ==
  Spec => [](Level(world) /\ OwnNames(world) /\ OwnDirs(world) /\ Names(world) /\ OneDir(world) /\ KeepsNames(world)
                 => RenameHonoured)
  <1>1. Typed /\ (Calm /\ Separate /\ KeepsNames(world) => Granted) => (Separate /\ KeepsNames(world) => RenameHonoured)
    <2> SUFFICES ASSUME Typed, Calm /\ Separate /\ KeepsNames(world) => Granted, Separate, KeepsNames(world),
                        Undisturbed, NEW j \in Alone
                 PROVE  Honoured(j)
      BY DEF RenameHonoured
    <2>1. Granted /\ Quiet
      BY DEF Undisturbed, Calm
    <2>2. j \in Jobs /\ rows[j].state = "done" /\ rows[j].group = 0
      BY DEF Alone, Done
    <2>3. Free(j)
      BY <2>1, <2>2, ClientFacts DEF Free, InMergeOf, InMerge, InThread, Quiet
    <2> QED BY <2>1, <2>2, <2>3 DEF Granted, Honours, Honoured
  <1>2. Separate <=> Level(world) /\ OwnNames(world) /\ OwnDirs(world) /\ Names(world) /\ OneDir(world)
    BY DEF Separate, Plain
  <1> QED BY <1>1, <1>2, Invariant, CalmGranted, PTL
=============================================================================
