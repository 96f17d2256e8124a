---------------------------- MODULE ProgressProofs ----------------------------
(***************************************************************************)
(* Both queues are first in, first out, and a task is in at most one of    *)
(* them.  Hence a task that is ahead of another stays ahead of it through  *)
(* every await; all properties of a run's row follow from who is ahead of  *)
(* whom.                                                                   *)
(***************************************************************************)
EXTENDS Progress, TLAPS

-----------------------------------------------------------------------------
(* Queues                                                                  *)

Once(q) == \A i, j \in 1..Len(q) : q[i] = q[j] => i = j
Precedes(q, a, b) == \E i, j \in 1..Len(q) : i < j /\ q[i] = a /\ q[j] = b

\* What the head of a queue leaves behind.
LEMMA TailFacts ==
  ASSUME NEW S, NEW q \in Seq(S), q # <<>>, Once(q)
  PROVE  /\ Head(q) \in S /\ Head(q) \in Range(q)
         /\ Tail(q) \in Seq(S) /\ Once(Tail(q))
         /\ Range(Tail(q)) = Range(q) \ {Head(q)}
         /\ \A a, b : Precedes(q, a, b) => b # Head(q)
         /\ \A a, b : Precedes(q, a, b) /\ a # Head(q) => Precedes(Tail(q), a, b)
  <1> DEFINE r == Tail(q)
  <1>1. /\ r \in Seq(S) /\ Len(q) \in Nat \ {0} /\ Len(r) = Len(q) - 1
        /\ \A i \in 1..Len(r) : i + 1 \in 1..Len(q) /\ r[i] = q[i + 1]
        /\ Head(q) = q[1] /\ 1 \in 1..Len(q) /\ q[1] \in S
    OBVIOUS
  <1>2. DOMAIN q = 1..Len(q) /\ DOMAIN r = 1..Len(r)
    BY <1>1
  <1> HIDE DEF r
  <1>3. \A i \in 1..Len(q) : i # 1 => i - 1 \in 1..Len(r) /\ q[i] = r[i - 1]
    BY <1>1
  <1>4. Once(r)
    BY <1>1 DEF Once
  <1>5. Range(r) = Range(q) \ {q[1]}
    <2>1. ASSUME NEW x \in Range(r)
          PROVE  x \in Range(q) /\ x # q[1]
      <3>1. PICK i \in 1..Len(r) : x = r[i]
        BY <1>2 DEF Range
      <3>2. i + 1 \in 1..Len(q) /\ x = q[i + 1] /\ i + 1 # 1
        BY <1>1, <3>1
      <3> QED BY <1>1, <1>2, <3>2 DEF Range, Once
    <2>2. ASSUME NEW x \in Range(q), x # q[1]
          PROVE  x \in Range(r)
      <3>1. PICK i \in 1..Len(q) : x = q[i]
        BY <1>2 DEF Range
      <3>2. i # 1
        BY <2>2, <3>1
      <3> QED BY <1>2, <1>3, <3>1, <3>2 DEF Range
    <2> QED BY <2>1, <2>2
  <1>6. ASSUME NEW a, NEW b, Precedes(q, a, b)
        PROVE  b # q[1] /\ (a # q[1] => Precedes(r, a, b))
    <2>1. PICK i, j \in 1..Len(q) : i < j /\ q[i] = a /\ q[j] = b
      BY <1>6 DEF Precedes
    <2>2. j # 1 /\ b # q[1]
      BY <1>1, <2>1 DEF Once
    <2>3. ASSUME a # q[1]
          PROVE  Precedes(r, a, b)
      <3>1. i # 1
        BY <2>1, <2>3
      <3>2. i - 1 \in 1..Len(r) /\ j - 1 \in 1..Len(r) /\ r[i - 1] = a /\ r[j - 1] = b /\ i - 1 < j - 1
        BY <1>3, <2>1, <2>2, <3>1
      <3> QED BY <3>2 DEF Precedes
    <2> QED BY <2>2, <2>3
  <1> QED BY <1>1, <1>2, <1>4, <1>5, <1>6 DEF r, Range

\* What joins a queue is behind all that is in it.
LEMMA JoinFacts ==
  ASSUME NEW S, NEW q \in Seq(S), NEW s \in Seq(S), Once(q), Once(s),
         Range(q) \cap Range(s) = {}
  PROVE  /\ q \o s \in Seq(S) /\ Once(q \o s)
         /\ Range(q \o s) = Range(q) \cup Range(s)
         /\ \A a, b : Precedes(q, a, b) => Precedes(q \o s, a, b)
         /\ \A a \in Range(q), b \in Range(s) : Precedes(q \o s, a, b)
  <1> DEFINE r == q \o s
  <1>1. /\ r \in Seq(S) /\ Len(q) \in Nat /\ Len(s) \in Nat /\ Len(r) = Len(q) + Len(s)
        /\ \A i \in 1..Len(q) : i \in 1..Len(r) /\ r[i] = q[i]
        /\ \A i \in 1..Len(s) : Len(q) + i \in 1..Len(r) /\ r[Len(q) + i] = s[i]
    OBVIOUS
  <1>2. \A i \in 1..Len(r) : \/ i \in 1..Len(q) /\ r[i] = q[i]
                             \/ i - Len(q) \in 1..Len(s) /\ r[i] = s[i - Len(q)]
    <2> SUFFICES ASSUME NEW i \in 1..Len(r), i \notin 1..Len(q)
                 PROVE  i - Len(q) \in 1..Len(s) /\ r[i] = s[i - Len(q)]
      BY <1>1
    <2>1. i - Len(q) \in 1..Len(s) /\ Len(q) + (i - Len(q)) = i
      BY <1>1
    <2> QED BY <1>1, <2>1
  <1>3. DOMAIN q = 1..Len(q) /\ DOMAIN r = 1..Len(r) /\ DOMAIN s = 1..Len(s)
    BY <1>1
  <1> HIDE DEF r
  <1>4. \A i \in 1..Len(q), j \in 1..Len(s) : q[i] # s[j]
    BY <1>3 DEF Range
  <1>5. Once(r)
    <2> SUFFICES ASSUME NEW i \in 1..Len(r), NEW j \in 1..Len(r), r[i] = r[j]
                 PROVE  i = j
      BY DEF Once
    <2>1. CASE i \in 1..Len(q) /\ r[i] = q[i]
      <3>1. j \in 1..Len(q) /\ r[j] = q[j]
        BY <1>2, <1>4, <2>1
      <3> QED BY <2>1, <3>1 DEF Once
    <2>2. CASE i - Len(q) \in 1..Len(s) /\ r[i] = s[i - Len(q)]
      <3>1. j - Len(q) \in 1..Len(s) /\ r[j] = s[j - Len(q)]
        BY <1>2, <1>4, <2>2
      <3>2. i - Len(q) = j - Len(q)
        BY <2>2, <3>1 DEF Once
      <3> QED BY <1>1, <3>2
    <2> QED BY <1>2, <2>1, <2>2
  <1>6. Range(r) = Range(q) \cup Range(s)
    <2>1. ASSUME NEW x \in Range(r)
          PROVE  x \in Range(q) \cup Range(s)
      <3>1. PICK i \in 1..Len(r) : x = r[i]
        BY <1>3 DEF Range
      <3> QED BY <1>2, <1>3, <3>1 DEF Range
    <2>2. ASSUME NEW x \in Range(q)
          PROVE  x \in Range(r)
      BY <1>1, <1>3 DEF Range
    <2>3. ASSUME NEW x \in Range(s)
          PROVE  x \in Range(r)
      BY <1>1, <1>3 DEF Range
    <2> QED BY <2>1, <2>2, <2>3
  <1>7. ASSUME NEW a, NEW b, Precedes(q, a, b)
        PROVE  Precedes(r, a, b)
    BY <1>1, <1>7 DEF Precedes
  <1>8. ASSUME NEW a \in Range(q), NEW b \in Range(s)
        PROVE  Precedes(r, a, b)
    <2>1. PICK i \in 1..Len(q) : a = q[i]
      BY <1>3 DEF Range
    <2>2. PICK j \in 1..Len(s) : b = s[j]
      BY <1>3 DEF Range
    <2>3. i < Len(q) + j
      BY <1>1
    <2> QED BY <1>1, <2>1, <2>2, <2>3 DEF Precedes
  <1> QED BY <1>1, <1>5, <1>6, <1>7, <1>8 DEF r

\* The same for a single element.
LEMMA AppendFacts ==
  ASSUME NEW S, NEW q \in Seq(S), NEW t \in S, Once(q), t \notin Range(q)
  PROVE  /\ Append(q, t) \in Seq(S) /\ Once(Append(q, t))
         /\ Range(Append(q, t)) = Range(q) \cup {t}
         /\ \A a, b : Precedes(q, a, b) => Precedes(Append(q, t), a, b)
         /\ \A a \in Range(q) : Precedes(Append(q, t), a, t)
  <1>1. /\ <<t>> \in Seq(S) /\ Len(<<t>>) = 1 /\ <<t>>[1] = t /\ Append(q, t) = q \o <<t>>
    OBVIOUS
  <1>2. Once(<<t>>) /\ Range(<<t>>) = {t}
    BY <1>1 DEF Once, Range
  <1> QED BY <1>1, <1>2, JoinFacts

LEMMA RemoveFirstIsTail ==
  ASSUME NEW S, NEW q \in Seq(S), q # <<>>
  PROVE  RemoveAt(q, 1) = Tail(q) /\ q[1] = Head(q)
  <1>1. SubSeq(q, 1, 0) = <<>> /\ SubSeq(q, 2, Len(q)) = Tail(q)
    OBVIOUS
  <1>2. RemoveAt(q, 1) = <<>> \o Tail(q)
    BY <1>1 DEF RemoveAt
  <1>3. Tail(q) \in Seq(S)
    OBVIOUS
  <1> QED BY <1>2, <1>3

-----------------------------------------------------------------------------
(* The tasks and their scripts                                             *)

LEMMA TaskNames ==
  /\ Run \in Tasks /\ Count \in Tasks /\ Title \in Tasks /\ User \in Tasks /\ Detect \in Tasks
  /\ Run[1] = "run" /\ Count[1] = "count" /\ Title[1] = "title" /\ User[1] = "user"
  /\ Detect[1] = "detect"
  /\ \A n \in 1..MaxFiles : Report(n) \in Tasks
  /\ \A n : Report(n)[1] = "progress" /\ Report(n)[2] = n
  /\ \A t \in Tasks : \/ t \in {Run, Count, Title, User, Detect}
                      \/ \E n \in 1..MaxFiles : t = Report(n)
  BY DEF Tasks, Run, Count, Title, User, Detect, Report

LEMMA TasksDiffer ==
  /\ Run # Count /\ Run # Title /\ Run # User /\ Run # Detect /\ Count # Title
  /\ Count # User /\ Count # Detect /\ Title # User /\ Title # Detect /\ User # Detect
  /\ \A n : Report(n) \notin {Run, Count, Title, User, Detect}
  /\ \A m, n : Report(m) = Report(n) => m = n
  <1>1. "run" # "count" /\ "run" # "title" /\ "run" # "user" /\ "run" # "detect"
        /\ "count" # "title" /\ "count" # "user" /\ "count" # "detect" /\ "title" # "user"
        /\ "title" # "detect" /\ "user" # "detect" /\ "progress" # "run"
        /\ "progress" # "count" /\ "progress" # "title" /\ "progress" # "user"
        /\ "progress" # "detect"
    OBVIOUS
  <1> QED BY <1>1, TaskNames

\* How long each script is, and where the operations are that change something.
LEMMA ScriptOf ==
  /\ Script(Run) = RunScript(seen[Run].ok)
  /\ Script(Count) = CountScript /\ Script(Title) = TitleScript /\ Script(User) = RenameScript
  /\ Script(Detect) = <<"detect", "commit">>
  /\ \A n : Script(Report(n)) = <<"progress", "commit">>
  BY TaskNames DEF Script

Length(t) ==
    CASE t = Run -> IF seen[Run].ok THEN 13 ELSE 7
      [] t = Count -> 7
      [] t = Title -> 5
      [] t = User -> 4
      [] OTHER -> 2

LEMMA ScriptLengths ==
  ASSUME NEW t \in Tasks, seen[Run].ok \in BOOLEAN
  PROVE  Len(Script(t)) = Length(t) /\ Length(t) \in {2, 4, 5, 7, 13}
  <1>1. Len(RunScript(TRUE)) = 13 /\ Len(RunScript(FALSE)) = 7 /\ Len(CountScript) = 7
        /\ Len(TitleScript) = 5 /\ Len(RenameScript) = 4
        /\ Len(<<"detect", "commit">>) = 2 /\ Len(<<"progress", "commit">>) = 2
    BY DEF RunScript, CountScript, TitleScript, RenameScript
  <1>2. CASE t = Run
    BY <1>1, <1>2, ScriptOf, TasksDiffer DEF Length
  <1>3. CASE t # Run
    BY <1>1, <1>3, ScriptOf, TaskNames, TasksDiffer DEF Length
  <1> QED BY <1>2, <1>3

LEMMA TaskLengths ==
  ASSUME NEW t
  PROVE  Length(t) \in {2, 4, 5, 7, 13}
  BY DEF Length

\* Nothing but the end of a process resumes a task from its third await.
LEMMA Waits ==
  ASSUME NEW t \in Tasks, seen[Run].ok \in BOOLEAN, NEW i \in 1..Length(t)
  PROVE  Script(t)[i] \in {"engine", "probe"} <=> i = 3 /\ t \in {Run, Count, Title}
  <1>1. \A ok \in BOOLEAN : \A k \in 1..(IF ok THEN 13 ELSE 7) :
            RunScript(ok)[k] \in {"engine", "probe"} <=> k = 3
    BY DEF RunScript
  <1>2. \A k \in 1..7 : CountScript[k] \in {"engine", "probe"} <=> k = 3
    BY DEF CountScript
  <1>3. \A k \in 1..5 : TitleScript[k] \in {"engine", "probe"} <=> k = 3
    BY DEF TitleScript
  <1>4. \A k \in 1..4 : RenameScript[k] \notin {"engine", "probe"}
    BY DEF RenameScript
  <1>5. \A k \in 1..2 : /\ <<"detect", "commit">>[k] \notin {"engine", "probe"}
                        /\ <<"progress", "commit">>[k] \notin {"engine", "probe"}
    OBVIOUS
  <1>6. CASE t = Run
    BY <1>1, <1>6, ScriptOf DEF Length
  <1>7. CASE t = Count
    BY <1>2, <1>7, ScriptOf, TasksDiffer DEF Length
  <1>8. CASE t = Title
    BY <1>3, <1>8, ScriptOf, TasksDiffer DEF Length
  <1>9. CASE t = User
    BY <1>4, <1>9, ScriptOf, TasksDiffer DEF Length
  <1>10. CASE t = Detect \/ \E n \in 1..MaxFiles : t = Report(n)
    BY <1>5, <1>10, ScriptOf, TasksDiffer DEF Length
  <1> QED BY <1>6, <1>7, <1>8, <1>9, <1>10, TaskNames

Rows ==
    [state : {"queued", "active", "done", "error"}, done : Nat, total : Nat,
     title : {"none", "scraped", "user"}, dir : {"none", "earlier", "found"}]

\* What an assignment to one of its fields does to a row.
WithState(r, v) == [r EXCEPT !.state = v]
WithDone(r, v) == [r EXCEPT !.done = v]
WithTotal(r, v) == [r EXCEPT !.total = v]
WithTitle(r, v) == [r EXCEPT !.title = v]
WithDir(r, v) == [r EXCEPT !.dir = v]
WithCounts(r, v) == [r EXCEPT !.done = v, !.total = v]

LEMMA RowUpdates ==
  ASSUME NEW r \in Rows
  PROVE  /\ \A v \in {"queued", "active", "done", "error"} :
              LET s == WithState(r, v)
              IN  s \in Rows /\ s.state = v /\ s.done = r.done /\ s.total = r.total
                             /\ s.title = r.title /\ s.dir = r.dir
         /\ \A v \in Nat :
              LET s == WithDone(r, v)
              IN  s \in Rows /\ s.state = r.state /\ s.done = v /\ s.total = r.total
                             /\ s.title = r.title /\ s.dir = r.dir
         /\ \A v \in Nat :
              LET s == WithTotal(r, v)
              IN  s \in Rows /\ s.state = r.state /\ s.done = r.done /\ s.total = v
                             /\ s.title = r.title /\ s.dir = r.dir
         /\ \A v \in {"scraped", "user"} :
              LET s == WithTitle(r, v)
              IN  s \in Rows /\ s.state = r.state /\ s.done = r.done /\ s.total = r.total
                             /\ s.title = v /\ s.dir = r.dir
         /\ \A v \in {"found"} :
              LET s == WithDir(r, v)
              IN  s \in Rows /\ s.state = r.state /\ s.done = r.done /\ s.total = r.total
                             /\ s.title = r.title /\ s.dir = v
         /\ \A v \in Nat :
              LET s == WithCounts(r, v)
              IN  s \in Rows /\ s.state = r.state /\ s.done = v /\ s.total = v
                             /\ s.title = r.title /\ s.dir = r.dir
  BY DEF Rows, WithState, WithDone, WithTotal, WithTitle, WithDir, WithCounts

\* What an operation does to the row.
LEMMA EffectOf ==
  ASSUME NEW t \in Tasks, seen[Run].ok \in BOOLEAN, pc[t] \in 1..Length(t)
  PROVE  Effect(t) =
           CASE t = Run /\ pc[t] = 1 -> WithState(row, "active")
             [] t = Run /\ pc[t] = 6 /\ ~seen[Run].ok -> WithState(row, "error")
             [] t = Run /\ pc[t] = 10 -> WithCounts(row, lines)
             [] t = Run /\ pc[t] = 12 -> WithState(row, "done")
             [] t = Count /\ pc[t] = 4 -> Estimated(t)
             [] t = Title /\ pc[t] = 4 -> Titled(t)
             [] t = User /\ pc[t] = 3 -> WithTitle(row, "user")
             [] t = Detect /\ pc[t] = 1 -> WithDir(row, "found")
             [] t \notin {Run, Count, Title, User, Detect} /\ pc[t] = 1 -> WithDone(row, t[2])
             [] OTHER -> row
  <1>1. CASE t = Run /\ seen[Run].ok
    BY <1>1, ScriptOf, TasksDiffer DEF Effect, WithState, WithDone, WithTotal, WithTitle, WithDir, WithCounts, Op, Length, RunScript
  <1>2. CASE t = Run /\ ~seen[Run].ok
    BY <1>2, ScriptOf, TasksDiffer DEF Effect, WithState, WithDone, WithTotal, WithTitle, WithDir, WithCounts, Op, Length, RunScript
  <1>3. CASE t = Count
    BY <1>3, ScriptOf, TasksDiffer DEF Effect, WithState, WithDone, WithTotal, WithTitle, WithDir, WithCounts, Op, Length, CountScript
  <1>4. CASE t = Title
    BY <1>4, ScriptOf, TasksDiffer DEF Effect, WithState, WithDone, WithTotal, WithTitle, WithDir, WithCounts, Op, Length, TitleScript
  <1>5. CASE t = User
    BY <1>5, ScriptOf, TasksDiffer DEF Effect, WithState, WithDone, WithTotal, WithTitle, WithDir, WithCounts, Op, Length, RenameScript
  <1>6. CASE t = Detect
    BY <1>6, ScriptOf, TasksDiffer DEF Effect, WithState, WithDone, WithTotal, WithTitle, WithDir, WithCounts, Op, Length
  <1>7. CASE \E n \in 1..MaxFiles : t = Report(n)
    BY <1>7, ScriptOf, TasksDiffer DEF Effect, WithState, WithDone, WithTotal, WithTitle, WithDir, WithCounts, Op, Length
  <1> QED BY <1>1, <1>2, <1>3, <1>4, <1>5, <1>6, <1>7, TaskNames

-----------------------------------------------------------------------------
(* The inductive invariant                                                 *)

Held == [row : Rows, ok : BOOLEAN, answer : Nat, applied : BOOLEAN]
PublishedEvents ==
    [type : {"state", "progress"}, state : {"", "queued", "active", "done", "error"}, total : Nat]

Typed ==
    /\ row \in Rows
    /\ seen \in [Tasks -> Held]
    /\ pc \in [Tasks -> Nat]
    /\ \A t \in Tasks : pc[t] \in 0..Length(t) \/ pc[t] = 99
    /\ lines \in 0..MaxFiles
    /\ events \in Seq(PublishedEvents)

\* A task that awaits a process is in no queue; every other task that has started and
\* not ended is in exactly one, once.
Waiting(t) == pc[t] = 3 /\ t \in {Run, Count, Title}
Queued(t) == t \in Range(ready) \/ t \in Range(dbq)

Queues ==
    /\ ready \in Seq(Tasks) /\ Once(ready)
    /\ dbq \in Seq(Tasks) /\ Once(dbq)
    /\ Range(ready) \cap Range(dbq) = {}
    /\ \A t \in Range(ready) : pc[t] \in 0..Length(t)
    /\ \A t \in Range(dbq) : pc[t] \in 1..Length(t) /\ ~Waiting(t)
    /\ \A t \in Tasks : pc[t] \in 1..13 /\ ~Waiting(t) => Queued(t)
    /\ Run \in Range(ready) => pc[Run] # 3

\* How far a task is: even while it awaits, odd while it is ready to resume.
Clock(t) == 2 * pc[t] + (IF t \in Range(ready) THEN 1 ELSE 0)

\* The tasks that exist, by the number of lines and the step of the run.
Created ==
    /\ \A n \in 1..MaxFiles : n <= lines <=> Clock(Report(n)) > 0
    /\ lines > 0 <=> Clock(Detect) > 0
    /\ pc[Run] <= 2 => Clock(Title) = 0 /\ Clock(Count) = 0

\* a has ended, or b is at most `offset' further than a; if exactly as far, both are
\* in one queue and a is before b.
Ahead(a, b, offset) ==
    \/ pc[a] = 99
    \/ Clock(a) + offset > Clock(b)
    \/ Clock(a) + offset = Clock(b) /\ (Precedes(ready, a, b) \/ Precedes(dbq, a, b))

\* The run's verdict waits for all reports and for the directory; the probe of the title
\* has read the row before; an estimate that was written is published before.
CountStands == pc[Count] \in 4..7 /\ Clock(Count) >= 9 /\ seen[Count].applied

Order ==
    /\ \A m, n \in 1..lines : m < n => Ahead(Report(m), Report(n), 0)
    /\ \A n \in 1..lines : Ahead(Report(n), Run, 8)
    /\ lines > 0 => Ahead(Detect, Run, 8)
    /\ Clock(Title) \in {1, 2} => Ahead(Title, Run, 8)
    /\ seen[Run].ok /\ lines > 0 /\ CountStands => Ahead(Count, Run, 12)

\* A report of this run is in the row.
Reported == \E n \in 1..MaxFiles : Clock(Report(n)) >= 3

\* The row by how far the tasks are that write to it.
Values ==
    /\ Reported => row.done <= lines
    /\ Reported => \A n \in 1..MaxFiles : Clock(Report(n)) <= 2 => row.done < n
    /\ Clock(Detect) >= 3 => row.dir = "found"
    /\ seen[Run].ok /\ lines > 0 /\ Clock(Run) >= 17 => seen[Run].row.dir = "found"
    /\ seen[Run].ok /\ Clock(Run) >= 21 => row.done = lines /\ (lines > 0 => row.total = lines)
    /\ row.state = "done" => Clock(Run) >= 25
    /\ seen[Title].row.state # "done"
    /\ pc[Run] >= 4 => lines >= MinFiles
    /\ pc[Count] \in 6..7 => seen[Count].applied

\* Success is published once, by the run when it ends.
DoneIsLast ==
    \A n \in 1..Len(events) :
        events[n].state = "done" => pc[Run] = 99 /\ seen[Run].ok

IInv == Typed /\ Queues /\ Created /\ Order /\ Values /\ DoneIsLast

-----------------------------------------------------------------------------
(* What the steps do to the queues                                         *)

LEMMA ServeMoves ==
  ASSUME Typed, Queues, Serve, NEW t, t = Head(dbq)
  PROVE  /\ t \in Tasks /\ t \in Range(dbq) /\ t \notin Range(ready)
         /\ pc[t] \in 1..Length(t) /\ ~Waiting(t)
         /\ row' = Effect(t) /\ UNCHANGED <<pc, lines, events>>
         /\ seen' = CASE Op(t) = "get" -> [seen EXCEPT ![t].row = row]
                      [] Op(t) = "estimate" -> [seen EXCEPT ![t].applied = row' # row]
                      [] OTHER -> seen
         /\ ready' \in Seq(Tasks) /\ Once(ready') /\ Range(ready') = Range(ready) \cup {t}
         /\ dbq' \in Seq(Tasks) /\ Once(dbq') /\ Range(dbq') = Range(dbq) \ {t}
         /\ \A a, b : Precedes(ready, a, b) => Precedes(ready', a, b)
         /\ \A a \in Range(ready) : Precedes(ready', a, t)
         /\ \A a, b : Precedes(dbq, a, b) => b # t
         /\ \A a, b : Precedes(dbq, a, b) /\ a # t => Precedes(dbq', a, b)
  <1>1. /\ dbq # <<>> /\ dbq \in Seq(Tasks) /\ ready \in Seq(Tasks) /\ Once(dbq) /\ Once(ready)
        /\ Range(ready) \cap Range(dbq) = {}
    BY DEF Serve, Queues
  <1>2. dbq[1] = t /\ RemoveAt(dbq, 1) = Tail(dbq)
    BY <1>1, RemoveFirstIsTail
  <1>3. /\ t \in Tasks /\ t \in Range(dbq) /\ t \notin Range(ready)
        /\ pc[t] \in 1..Length(t) /\ ~Waiting(t)
    BY <1>1, TailFacts DEF Queues
  <1>4. /\ row' = Effect(t) /\ UNCHANGED <<pc, lines, events>>
        /\ seen' = CASE Op(t) = "get" -> [seen EXCEPT ![t].row = row]
                     [] Op(t) = "estimate" -> [seen EXCEPT ![t].applied = row' # row]
                     [] OTHER -> seen
        /\ dbq' = Tail(dbq) /\ ready' = Append(ready, t)
    BY <1>2 DEF Serve, Execute
  <1> QED BY <1>1, <1>3, <1>4, TailFacts, AppendFacts

Ends(t) == pc[t] > 0 /\ (GivesUp(t) \/ pc[t] = Length(t))

\* The run starts the probes once, when its first write is committed.
LEMMA SpawnedFacts ==
  ASSUME NEW t
  PROVE  /\ Spawned(t) \in Seq(Tasks) /\ Once(Spawned(t))
         /\ Range(Spawned(t)) \subseteq {Title, Count}
         /\ \A x \in Range(Spawned(t)) : t = Run /\ pc[Run] = 2
  <1> DEFINE p == IF "title" \in setup THEN <<Title>> ELSE <<>>
             q == IF "count" \in setup THEN <<Count>> ELSE <<>>
  <1>1. /\ <<>> \in Seq(Tasks) /\ <<Title>> \in Seq(Tasks) /\ <<Count>> \in Seq(Tasks)
        /\ Once(<<>>) /\ Once(<<Title>>) /\ Once(<<Count>>)
        /\ Range(<<>>) = {} /\ Range(<<Title>>) = {Title} /\ Range(<<Count>>) = {Count}
    BY TaskNames DEF Once, Range
  <1>2. /\ p \in Seq(Tasks) /\ q \in Seq(Tasks) /\ Once(p) /\ Once(q)
        /\ Range(p) \subseteq {Title} /\ Range(q) \subseteq {Count}
    BY <1>1
  <1>3. (Spawned(t) = p \o q /\ t = Run /\ pc[Run] = 2) \/ Spawned(t) = <<>>
    BY DEF Spawned
  <1> HIDE DEF p, q
  <1>4. p \o q \in Seq(Tasks) /\ Once(p \o q) /\ Range(p \o q) = Range(p) \cup Range(q)
    BY <1>2, TasksDiffer, JoinFacts
  <1> QED BY <1>1, <1>2, <1>3, <1>4

LEMMA ResumeMoves ==
  ASSUME Typed, Queues, Created, Resume, NEW t, t = Head(ready)
  PROVE  /\ t \in Tasks /\ t \in Range(ready) /\ t \notin Range(dbq) /\ pc[t] \in 0..Length(t)
         /\ Ends(t) \/ pc[t] + 1 \in 1..Length(t)
         /\ pc' = [pc EXCEPT ![t] = IF Ends(t) THEN 99 ELSE pc[t] + 1]
         /\ events' = IF Ends(t) /\ ~GivesUp(t) THEN events \o Published(t) ELSE events
         /\ UNCHANGED <<row, seen, lines>>
         /\ Range(Spawned(t)) \subseteq {Title, Count}
         /\ \A x \in Range(Spawned(t)) : t = Run /\ pc[Run] = 2 /\ ~Queued(x) /\ pc[x] = 0
         /\ ready' \in Seq(Tasks) /\ Once(ready')
         /\ Range(ready') = (Range(ready) \ {t}) \cup Range(Spawned(t))
         /\ dbq' \in Seq(Tasks) /\ Once(dbq')
         /\ IF Ends(t) \/ (pc[t] = 2 /\ t \in {Run, Count, Title})
            THEN dbq' = dbq
            ELSE /\ Range(dbq') = Range(dbq) \cup {t}
                 /\ \A a, b : Precedes(dbq, a, b) => Precedes(dbq', a, b)
                 /\ \A a \in Range(dbq) : Precedes(dbq', a, t)
         /\ \A a, b : Precedes(ready, a, b) => b # t
         /\ \A a, b : Precedes(ready, a, b) /\ a # t => Precedes(ready', a, b)
  <1>1. /\ ready # <<>> /\ dbq \in Seq(Tasks) /\ ready \in Seq(Tasks) /\ Once(dbq) /\ Once(ready)
        /\ Range(ready) \cap Range(dbq) = {}
    BY DEF Resume, Queues
  <1>2. t \in Tasks /\ t \in Range(ready) /\ t \notin Range(dbq) /\ pc[t] \in 0..Length(t)
    BY <1>1, TailFacts DEF Queues
  <1>3. seen[Run].ok \in BOOLEAN
    BY TaskNames DEF Typed, Held
  <1>4. Len(Script(t)) = Length(t) /\ Length(t) \in {2, 4, 5, 7, 13}
    BY <1>2, <1>3, ScriptLengths
  <1>5. Ends(t) \/ pc[t] + 1 \in 1..Length(t)
    BY <1>2, <1>4 DEF Ends
  <1>6. /\ pc' = [pc EXCEPT ![t] = IF Ends(t) THEN 99 ELSE pc[t] + 1]
        /\ events' = IF Ends(t) /\ ~GivesUp(t) THEN events \o Published(t) ELSE events
        /\ UNCHANGED <<row, seen, lines>>
        /\ ready' = Tail(ready) \o Spawned(t)
        /\ dbq' = IF Ends(t) \/ Script(t)[pc[t] + 1] \in {"engine", "probe"}
                  THEN dbq ELSE Append(dbq, t)
    BY <1>4 DEF Resume, Ends
  <1>7. dbq' = IF Ends(t) \/ (pc[t] = 2 /\ t \in {Run, Count, Title}) THEN dbq ELSE Append(dbq, t)
    <2>1. CASE Ends(t)
      BY <1>6, <2>1
    <2>2. CASE ~Ends(t)
      <3>1. Script(t)[pc[t] + 1] \in {"engine", "probe"} <=> pc[t] + 1 = 3 /\ t \in {Run, Count, Title}
        BY <1>2, <1>3, <1>5, <2>2, Waits
      <3>2. pc[t] + 1 = 3 <=> pc[t] = 2
        BY <1>2, <1>4
      <3> QED BY <1>6, <2>2, <3>1, <3>2
    <2> QED BY <2>1, <2>2
  <1>8. \A x \in Range(Spawned(t)) : t = Run /\ pc[Run] = 2 /\ ~Queued(x) /\ pc[x] = 0
    <2> SUFFICES ASSUME NEW x \in Range(Spawned(t))
                 PROVE  t = Run /\ pc[Run] = 2 /\ ~Queued(x) /\ pc[x] = 0
      OBVIOUS
    <2>1. t = Run /\ pc[Run] = 2 /\ x \in {Title, Count}
      BY SpawnedFacts
    <2>2. Clock(x) = 0 /\ pc[x] \in Nat
      BY <2>1, TaskNames DEF Created, Typed
    <2>3. pc[x] = 0 /\ x \notin Range(ready)
      BY <2>2 DEF Clock
    <2>4. x \notin Range(dbq)
      BY <2>3 DEF Queues
    <2> QED BY <2>1, <2>3, <2>4 DEF Queued
  <1>9. Range(Tail(ready)) \cap Range(Spawned(t)) = {}
    BY <1>1, <1>8, TailFacts DEF Queued
  <1>10. /\ ready' \in Seq(Tasks) /\ Once(ready')
         /\ Range(ready') = (Range(ready) \ {t}) \cup Range(Spawned(t))
         /\ \A a, b : Precedes(Tail(ready), a, b) => Precedes(ready', a, b)
    <2>1. Tail(ready) \in Seq(Tasks) /\ Once(Tail(ready)) /\ Range(Tail(ready)) = Range(ready) \ {t}
      BY <1>1, TailFacts
    <2>2. Spawned(t) \in Seq(Tasks) /\ Once(Spawned(t))
      BY SpawnedFacts
    <2> DEFINE r == Tail(ready)
               u == Spawned(t)
    <2>3. ready' = r \o u /\ r \in Seq(Tasks) /\ u \in Seq(Tasks) /\ Once(r) /\ Once(u)
          /\ Range(r) \cap Range(u) = {}
      BY <1>6, <1>9, <2>1, <2>2
    <2>4. Range(r) = Range(ready) \ {t}
      BY <2>1
    <2> HIDE DEF r, u
    <2>5. /\ ready' \in Seq(Tasks) /\ Once(ready') /\ Range(ready') = Range(r) \cup Range(u)
          /\ \A a, b : Precedes(r, a, b) => Precedes(ready', a, b)
      BY <2>3, JoinFacts
    <2> QED BY <2>4, <2>5 DEF r, u
  <1>11. /\ \A a, b : Precedes(ready, a, b) => b # t
         /\ \A a, b : Precedes(ready, a, b) /\ a # t => Precedes(ready', a, b)
    BY <1>1, <1>10, TailFacts
  <1>12. /\ dbq' \in Seq(Tasks) /\ Once(dbq')
         /\ IF Ends(t) \/ (pc[t] = 2 /\ t \in {Run, Count, Title})
            THEN dbq' = dbq
            ELSE /\ Range(dbq') = Range(dbq) \cup {t}
                 /\ \A a, b : Precedes(dbq, a, b) => Precedes(dbq', a, b)
                 /\ \A a \in Range(dbq) : Precedes(dbq', a, t)
    BY <1>1, <1>2, <1>7, AppendFacts
  <1> QED BY <1>2, <1>5, <1>6, <1>8, <1>10, <1>11, <1>12, SpawnedFacts

\* A step that only makes idle tasks ready: a line, an answer, a rename.
LEMMA JoinMoves ==
  ASSUME Queues, NEW s \in Seq(Tasks), Once(s), \A x \in Range(s) : ~Queued(x),
         ready' = ready \o s, UNCHANGED <<pc, dbq>>
  PROVE  /\ ready' \in Seq(Tasks) /\ Once(ready') /\ Range(ready') = Range(ready) \cup Range(s)
         /\ \A a, b : Precedes(ready, a, b) => Precedes(ready', a, b)
         /\ \A a \in Range(ready), b \in Range(s) : Precedes(ready', a, b)
         /\ Range(ready') \cap Range(dbq') = {}
  <1>1. Range(ready) \cap Range(s) = {} /\ Range(dbq) \cap Range(s) = {}
    BY DEF Queued
  <1>2. ready \in Seq(Tasks) /\ Once(ready) /\ Range(ready) \cap Range(dbq) = {}
    BY DEF Queues
  <1>3. /\ ready' \in Seq(Tasks) /\ Once(ready') /\ Range(ready') = Range(ready) \cup Range(s)
        /\ \A a, b : Precedes(ready, a, b) => Precedes(ready', a, b)
        /\ \A a \in Range(ready), b \in Range(s) : Precedes(ready', a, b)
    BY <1>1, <1>2, JoinFacts
  <1> QED BY <1>1, <1>2, <1>3

-----------------------------------------------------------------------------
(* Who is ahead stays ahead                                                *)

Offsets == {0, 8, 12}

LEMMA ServeKeepsAhead ==
  ASSUME Typed, Queues, Serve, NEW a \in Tasks, NEW b \in Tasks, a # b, NEW d \in Offsets,
         Ahead(a, b, d), pc[a] = 99 \/ Queued(a)
  PROVE  Ahead(a, b, d)'
  <1> DEFINE t == Head(dbq)
  <1>1. /\ t \in Range(dbq) /\ t \notin Range(ready) /\ pc' = pc
        /\ Range(ready') = Range(ready) \cup {t}
        /\ \A x, y : Precedes(ready, x, y) => Precedes(ready', x, y)
        /\ \A x \in Range(ready) : Precedes(ready', x, t)
        /\ \A x, y : Precedes(dbq, x, y) => y # t
        /\ \A x, y : Precedes(dbq, x, y) /\ x # t => Precedes(dbq', x, y)
    BY ServeMoves
  <1> HIDE DEF t
  <1>2. pc[a] \in Nat /\ pc[b] \in Nat /\ d \in Nat /\ (d = 0 \/ d = 8 \/ d = 12)
    BY DEF Typed, Offsets
  <1>3. /\ Clock(a)' = IF a = t THEN Clock(a) + 1 ELSE Clock(a)
        /\ Clock(b)' = IF b = t THEN Clock(b) + 1 ELSE Clock(b)
    BY <1>1, <1>2 DEF Clock
  <1>4. /\ Clock(a) = 2 * pc[a] + (IF a \in Range(ready) THEN 1 ELSE 0)
        /\ Clock(b) = 2 * pc[b] + (IF b \in Range(ready) THEN 1 ELSE 0)
        /\ Clock(a) \in Nat /\ Clock(b) \in Nat
    BY <1>2 DEF Clock
  <1>5. CASE pc[a] = 99
    BY <1>1, <1>5 DEF Ahead
  <1>6. CASE Clock(a) + d > Clock(b) /\ b # t
    BY <1>2, <1>3, <1>4, <1>6 DEF Ahead
  <1>7. CASE pc[a] # 99 /\ Clock(a) + d > Clock(b) /\ b = t
    <2>1. Clock(a)' = Clock(a) /\ Clock(b)' = Clock(b) + 1
      BY <1>3, <1>7
    <2>2. CASE Clock(a) + d > Clock(b) + 1
      BY <2>1, <2>2 DEF Ahead
    <2>3. CASE Clock(a) + d = Clock(b) + 1
      <3>1. a \in Range(ready)
        BY <1>1, <1>2, <1>4, <1>7, <2>3
      <3> QED BY <1>1, <1>7, <2>1, <2>3, <3>1 DEF Ahead
    <2> QED BY <1>2, <1>4, <1>7, <2>2, <2>3
  <1>8. CASE Clock(a) + d = Clock(b) /\ (Precedes(ready, a, b) \/ Precedes(dbq, a, b))
    <2>1. CASE a = t
      <3>1. Clock(a)' + d > Clock(b)'
        BY <1>2, <1>3, <1>4, <1>8, <2>1
      <3> QED BY <3>1 DEF Ahead
    <2>2. CASE a # t /\ b # t
      BY <1>1, <1>3, <1>8, <2>2 DEF Ahead
    <2>3. CASE a # t /\ b = t
      <3>1. Precedes(ready, a, b)
        BY <1>1, <1>8, <2>3
      <3>2. b \in Range(ready)
        BY <3>1 DEF Precedes, Range, Queues
      <3> QED BY <1>1, <2>3, <3>2
    <2> QED BY <2>1, <2>2, <2>3
  <1> QED BY <1>5, <1>6, <1>7, <1>8 DEF Ahead

LEMMA ResumeKeepsAhead ==
  ASSUME Typed, Queues, Created, Resume, NEW a \in Tasks, NEW b \in Tasks, a # b,
         b \notin {Title, Count}, NEW d \in Offsets, b = Run => d # 0,
         Ahead(a, b, d), pc[a] = 99 \/ Queued(a),
         b = Head(ready) /\ Ends(b) /\ Clock(a) + d > Clock(b) => pc[a] = 99
  PROVE  Ahead(a, b, d)'
  <1> DEFINE t == Head(ready)
  <1>1. /\ t \in Tasks /\ t \in Range(ready) /\ t \notin Range(dbq) /\ pc[t] \in 0..Length(t)
        /\ pc' = [pc EXCEPT ![t] = IF Ends(t) THEN 99 ELSE pc[t] + 1]
        /\ Range(Spawned(t)) \subseteq {Title, Count}
        /\ \A x \in Range(Spawned(t)) : ~Queued(x) /\ pc[x] = 0
        /\ Range(ready') = (Range(ready) \ {t}) \cup Range(Spawned(t))
        /\ \A x, y : Precedes(ready, x, y) => y # t
        /\ \A x, y : Precedes(ready, x, y) /\ x # t => Precedes(ready', x, y)
    BY ResumeMoves
  <1>2. IF Ends(t) \/ (pc[t] = 2 /\ t \in {Run, Count, Title})
        THEN dbq' = dbq
        ELSE /\ Range(dbq') = Range(dbq) \cup {t}
             /\ \A x, y : Precedes(dbq, x, y) => Precedes(dbq', x, y)
             /\ \A x \in Range(dbq) : Precedes(dbq', x, t)
    BY ResumeMoves
  <1> HIDE DEF t
  <1>3. /\ pc[a] \in Nat /\ pc[b] \in Nat /\ d \in Nat /\ (d = 0 \/ d = 8 \/ d = 12)
        /\ pc \in [Tasks -> Nat]
    BY DEF Typed, Offsets
  <1>4. a \notin Range(Spawned(t)) /\ b \notin Range(Spawned(t))
    BY <1>1
  <1>5. /\ a # t => Clock(a)' = Clock(a) /\ pc'[a] = pc[a]
        /\ b # t => Clock(b)' = Clock(b)
        /\ a = t /\ ~Ends(a) => Clock(a)' = Clock(a) + 1
        /\ b = t /\ ~Ends(b) => Clock(b)' = Clock(b) + 1
        /\ a = t /\ Ends(a) => pc'[a] = 99
    BY <1>1, <1>3, <1>4 DEF Clock
  <1>6. /\ Clock(a) = 2 * pc[a] + (IF a \in Range(ready) THEN 1 ELSE 0)
        /\ Clock(b) = 2 * pc[b] + (IF b \in Range(ready) THEN 1 ELSE 0)
        /\ Clock(a) \in Nat /\ Clock(b) \in Nat
    BY <1>3 DEF Clock
  <1>7. CASE pc[a] = 99
    <2>1. a # t
      <3>1. pc[t] # 99
        BY <1>1, TaskLengths
      <3> QED BY <1>7, <3>1
    <2> QED BY <1>5, <1>7, <2>1 DEF Ahead
  <1>8. CASE pc[a] # 99 /\ a = t
    <2>1. Clock(a) + d >= Clock(b)
      BY <1>3, <1>6, <1>8 DEF Ahead
    <2>2. Ends(a) \/ Clock(a)' + d > Clock(b)'
      BY <1>3, <1>5, <1>6, <1>8, <2>1
    <2> QED BY <1>5, <1>8, <2>2 DEF Ahead
  <1>9. CASE pc[a] # 99 /\ b = t
    <2>1. Clock(a) + d > Clock(b)
      <3>1. ~Precedes(ready, a, b)
        BY <1>1, <1>9
      <3>2. ~Precedes(dbq, a, b)
        <4>1. Precedes(dbq, a, b) => b \in Range(dbq)
          BY DEF Precedes, Range, Queues
        <4> QED BY <1>1, <1>9, <4>1
      <3> QED BY <1>9, <3>1, <3>2 DEF Ahead
    <2>2. ~Ends(b) /\ a # t
      BY <1>9, <2>1 DEF t
    <2>3. CASE Clock(a) + d > Clock(b) + 1
      BY <1>5, <1>9, <2>2, <2>3 DEF Ahead
    <2>4. CASE Clock(a) + d = Clock(b) + 1
      <3>1. a \notin Range(ready)
        <4>1. Clock(b) = 2 * pc[b] + 1
          BY <1>1, <1>6, <1>9
        <4>2. a \in Range(ready) => Clock(a) = 2 * pc[a] + 1
          BY <1>6
        <4> QED BY <1>3, <2>4, <4>1, <4>2
      <3>2. a \in Range(dbq)
        BY <1>9, <3>1 DEF Queued
      <3>3. ~(pc[t] = 2 /\ t \in {Run, Count, Title})
        <4>1. pc[b] = 2 /\ b = Run => Clock(b) = 5 /\ d >= 8
          BY <1>1, <1>3, <1>6, <1>9
        <4> QED BY <1>3, <1>6, <1>9, <2>4, <4>1
      <3>4. Precedes(dbq', a, b)
        BY <1>2, <1>9, <2>2, <3>2, <3>3
      <3> QED BY <1>5, <1>9, <2>2, <2>4, <3>4 DEF Ahead
    <2> QED BY <1>3, <1>6, <2>1, <2>3, <2>4
  <1>10. CASE pc[a] # 99 /\ a # t /\ b # t
    <2>1. CASE Clock(a) + d > Clock(b)
      BY <1>5, <1>10, <2>1 DEF Ahead
    <2>2. CASE Clock(a) + d = Clock(b) /\ Precedes(ready, a, b)
      BY <1>1, <1>5, <1>10, <2>2 DEF Ahead
    <2>3. CASE Clock(a) + d = Clock(b) /\ Precedes(dbq, a, b)
      BY <1>2, <1>5, <1>10, <2>3 DEF Ahead
    <2> QED BY <1>10, <2>1, <2>2, <2>3 DEF Ahead
  <1> QED BY <1>7, <1>8, <1>9, <1>10

LEMMA JoinKeepsAhead ==
  ASSUME Typed, Queues, NEW s \in Seq(Tasks), Once(s), \A x \in Range(s) : ~Queued(x) /\ pc[x] # 99,
         ready' = ready \o s, UNCHANGED <<pc, dbq>>,
         NEW a \in Tasks, NEW b \in Tasks, b \notin Range(s), NEW d \in Offsets,
         Ahead(a, b, d), pc[a] = 99 \/ Queued(a)
  PROVE  Ahead(a, b, d)'
  <1>1. /\ Range(ready') = Range(ready) \cup Range(s)
        /\ \A x, y : Precedes(ready, x, y) => Precedes(ready', x, y)
    BY JoinMoves
  <1>2. a \notin Range(s)
    OBVIOUS
  <1>3. Clock(a)' = Clock(a) /\ Clock(b)' = Clock(b)
    BY <1>1, <1>2 DEF Clock
  <1> QED BY <1>1, <1>3 DEF Ahead

\* The engine's exit puts the run behind what is in the database's queue.
LEMMA ExitKeepsAhead ==
  ASSUME Typed, Queues, Exit, NEW a \in Tasks, NEW b \in Tasks, a # Run, a # b,
         NEW d \in Offsets, b = Run => d # 0 /\ Clock(a) > 0, Ahead(a, b, d)
  PROVE  Ahead(a, b, d)'
  <1>1. /\ ready' = ready /\ dbq' = Append(dbq, Run) /\ pc' = [pc EXCEPT ![Run] = 4]
        /\ pc[Run] = 3
    BY DEF Exit
  <1>2. Run \notin Range(ready) /\ Run \notin Range(dbq)
    BY <1>1 DEF Queues, Waiting
  <1>3. \A x, y : Precedes(dbq, x, y) => Precedes(dbq', x, y)
    BY <1>1, <1>2, AppendFacts, TaskNames DEF Queues
  <1>4. pc \in [Tasks -> Nat] /\ (d = 0 \/ d = 8 \/ d = 12)
    BY DEF Typed, Offsets
  <1>5. Clock(a)' = Clock(a) /\ pc'[a] = pc[a] /\ Clock(a) \in Nat
    BY <1>1, <1>4 DEF Clock
  <1>6. CASE b = Run
    <2>1. Clock(b)' = 8
      BY <1>1, <1>2, <1>4, <1>6 DEF Clock
    <2>2. Clock(a)' + d > Clock(b)'
      BY <1>4, <1>5, <1>6, <2>1
    <2> QED BY <2>2 DEF Ahead
  <1>7. CASE b # Run
    <2>1. Clock(b)' = Clock(b)
      BY <1>1, <1>4, <1>7 DEF Clock
    <2> QED BY <1>1, <1>3, <1>5, <2>1 DEF Ahead
  <1> QED BY <1>6, <1>7

-----------------------------------------------------------------------------
(* What the database does to the row and to what the tasks hold            *)

\* Where the scripts read the row, and where the count probe writes it.
LEMMA ReadsOf ==
  ASSUME NEW t \in Tasks, seen[Run].ok \in BOOLEAN, pc[t] \in 1..Length(t)
  PROVE  /\ Op(t) = "estimate" <=> t = Count /\ pc[t] = 4
         /\ t = Run => (Op(t) = "get" <=> pc[t] \in {4, 8})
         /\ t = Title => (Op(t) = "get" <=> pc[t] = 1)
  <1>1. CASE t = Run /\ seen[Run].ok
    BY <1>1, ScriptOf, TasksDiffer DEF Op, Length, RunScript
  <1>2. CASE t = Run /\ ~seen[Run].ok
    BY <1>2, ScriptOf, TasksDiffer DEF Op, Length, RunScript
  <1>3. CASE t = Count
    BY <1>3, ScriptOf, TasksDiffer DEF Op, Length, CountScript
  <1>4. CASE t = Title
    BY <1>4, ScriptOf, TasksDiffer DEF Op, Length, TitleScript
  <1>5. CASE t = User
    BY <1>5, ScriptOf, TasksDiffer DEF Op, Length, RenameScript
  <1>6. CASE t = Detect \/ \E n \in 1..MaxFiles : t = Report(n)
    BY <1>6, ScriptOf, TasksDiffer DEF Op, Length
  <1> QED BY <1>1, <1>2, <1>3, <1>4, <1>5, <1>6, TaskNames

LEMMA ServedRow ==
  ASSUME Typed, Queues, Serve, NEW t, t = Head(dbq)
  PROVE  /\ row' \in Rows
         /\ \/ row'.done = row.done
            \/ t = Run /\ pc[t] = 10
            \/ t \notin {Run, Count, Title, User, Detect} /\ pc[t] = 1
         /\ t = Run /\ pc[t] = 10 => row'.done = lines
         /\ t \notin {Run, Count, Title, User, Detect} /\ pc[t] = 1 => row'.done = t[2]
         /\ row'.total = row.total \/ row.total = 0 \/ (t = Run /\ pc[t] = 10)
         /\ t = Run /\ pc[t] = 10 => row'.total = lines
         /\ row'.dir = row.dir \/ row'.dir = "found"
         /\ t = Detect /\ pc[t] = 1 => row'.dir = "found"
         /\ row.title = "user" => row'.title = "user"
         /\ row'.state = "done" => row.state = "done" \/ (t = Run /\ pc[t] = 12)
         /\ t = Count /\ pc[t] = 4 /\ row' # row => row.total = 0
  <1>1. /\ t \in Tasks /\ pc[t] \in 1..Length(t) /\ row' = Effect(t)
        /\ seen[Run].ok \in BOOLEAN /\ row \in Rows /\ lines \in Nat /\ seen[t].answer \in Nat
    <2>1. t \in Tasks /\ pc[t] \in 1..Length(t) /\ row' = Effect(t)
      BY ServeMoves
    <2>2. seen[t] \in Held /\ seen[Run] \in Held
      BY <2>1, TaskNames DEF Typed
    <2>3. MaxFiles \in Nat
      BY ProgressAssumption
    <2> QED BY <2>1, <2>2, <2>3 DEF Typed, Held
  <1>2. t \notin {Run, Count, Title, User, Detect} => t[2] \in Nat
    BY <1>1, TaskNames
  <1> DEFINE report == t \notin {Run, Count, Title, User, Detect}
  <1>3. row' = CASE t = Run /\ pc[t] = 1 -> WithState(row, "active")
                 [] t = Run /\ pc[t] = 6 /\ ~seen[Run].ok -> WithState(row, "error")
                 [] t = Run /\ pc[t] = 10 -> WithCounts(row, lines)
                 [] t = Run /\ pc[t] = 12 -> WithState(row, "done")
                 [] t = Count /\ pc[t] = 4 -> Estimated(t)
                 [] t = Title /\ pc[t] = 4 -> Titled(t)
                 [] t = User /\ pc[t] = 3 -> WithTitle(row, "user")
                 [] t = Detect /\ pc[t] = 1 -> WithDir(row, "found")
                 [] report /\ pc[t] = 1 -> WithDone(row, t[2])
                 [] OTHER -> row
    BY <1>1, EffectOf
  <1>4. CASE t = Run
    <2>1. \/ row' = row /\ pc[t] # 10
          \/ pc[t] = 1 /\ row' = WithState(row, "active")
          \/ pc[t] = 6 /\ row' = WithState(row, "error")
          \/ pc[t] = 12 /\ row' = WithState(row, "done")
          \/ pc[t] = 10 /\ row' = WithCounts(row, lines)
      BY <1>3, <1>4, TasksDiffer
    <2>2. \/ row' = row /\ pc[t] # 10
          \/ /\ pc[t] # 10 /\ row' \in Rows /\ row'.done = row.done /\ row'.total = row.total
             /\ row'.title = row.title /\ row'.dir = row.dir
             /\ row'.state = "done" => pc[t] = 12
          \/ /\ pc[t] = 10 /\ row' \in Rows /\ row'.done = lines /\ row'.total = lines
             /\ row'.title = row.title /\ row'.dir = row.dir /\ row'.state = row.state
      <3>1. CASE pc[t] = 1 /\ row' = WithState(row, "active")
        BY <1>1, <3>1, RowUpdates
      <3>2. CASE pc[t] = 6 /\ row' = WithState(row, "error")
        BY <1>1, <3>2, RowUpdates
      <3>3. CASE pc[t] = 12 /\ row' = WithState(row, "done")
        BY <1>1, <3>3, RowUpdates
      <3>4. CASE pc[t] = 10 /\ row' = WithCounts(row, lines)
        BY <1>1, <3>4, RowUpdates
      <3> QED BY <2>1, <3>1, <3>2, <3>3, <3>4
    <2>3. t # Count /\ t # Detect
      BY <1>4, TasksDiffer
    <2> QED BY <1>1, <1>4, <2>2, <2>3
  <1>5. CASE t = Count
    <2>1. row' = row \/ (row' = WithTotal(row, seen[t].answer) /\ row.total = 0)
      <3>1. row' = Estimated(t) \/ row' = row
        BY <1>3, <1>5, TasksDiffer
      <3>2. Estimated(t) = row \/ (Estimated(t) = WithTotal(row, seen[t].answer) /\ row.total = 0)
        BY DEF Estimated, WithTotal
      <3> QED BY <3>1, <3>2
    <2>2. /\ row' \in Rows /\ row'.done = row.done /\ row'.title = row.title
          /\ row'.dir = row.dir /\ row'.state = row.state
          /\ row' = row \/ row.total = 0
      <3>1. CASE row' = row
        BY <1>1, <3>1
      <3>2. CASE row' = WithTotal(row, seen[t].answer) /\ row.total = 0
        BY <1>1, <3>2, RowUpdates
      <3> QED BY <2>1, <3>1, <3>2
    <2>3. t # Run /\ t # Title /\ t # User /\ t # Detect
      BY <1>5, TasksDiffer
    <2> QED BY <1>5, <2>2, <2>3
  <1>6. CASE t = Title
    <2>1. row' = row \/ (row' = WithTitle(row, "scraped") /\ row.title = "none")
      <3>1. row' = Titled(t) \/ row' = row
        BY <1>3, <1>6, TasksDiffer
      <3>2. Titled(t) = row \/ (Titled(t) = WithTitle(row, "scraped") /\ row.title = "none")
        BY DEF Titled, WithTitle
      <3> QED BY <3>1, <3>2
    <2>2. /\ row' \in Rows /\ row'.done = row.done /\ row'.total = row.total
          /\ row'.dir = row.dir /\ row'.state = row.state
          /\ row' = row \/ row.title = "none"
      BY <1>1, <2>1, RowUpdates
    <2>3. t # Run /\ t # Count /\ t # User /\ t # Detect
      BY <1>6, TasksDiffer
    <2> QED BY <1>6, <2>2, <2>3
  <1>7. CASE t = User
    <2>1. row' = row \/ row' = WithTitle(row, "user")
      BY <1>3, <1>7, TasksDiffer
    <2>2. /\ row' \in Rows /\ row'.done = row.done /\ row'.total = row.total
          /\ row'.dir = row.dir /\ row'.state = row.state
          /\ row' = row \/ row'.title = "user"
      BY <1>1, <2>1, RowUpdates
    <2>3. t # Run /\ t # Count /\ t # Title /\ t # Detect
      BY <1>7, TasksDiffer
    <2> QED BY <1>7, <2>2, <2>3
  <1>8. CASE t = Detect
    <2>1. IF pc[t] = 1 THEN row' = WithDir(row, "found") ELSE row' = row
      BY <1>3, <1>8, TasksDiffer
    <2>2. /\ row' \in Rows /\ row'.done = row.done /\ row'.total = row.total
          /\ row'.title = row.title /\ row'.state = row.state
          /\ IF pc[t] = 1 THEN row'.dir = "found" ELSE row' = row
      BY <1>1, <2>1, RowUpdates
    <2>3. t # Run /\ t # Count /\ t # Title /\ t # User
      BY <1>8, TasksDiffer
    <2> QED BY <1>8, <2>2, <2>3
  <1>9. CASE report
    <2>1. IF pc[t] = 1 THEN row' = WithDone(row, t[2]) ELSE row' = row
      BY <1>3, <1>9
    <2>2. /\ row' \in Rows /\ row'.total = row.total /\ row'.dir = row.dir
          /\ row'.title = row.title /\ row'.state = row.state
          /\ row'.done = IF pc[t] = 1 THEN t[2] ELSE row.done
      BY <1>1, <1>2, <1>9, <2>1, RowUpdates
    <2> QED BY <1>9, <2>2 DEF report
  <1> QED BY <1>4, <1>5, <1>6, <1>7, <1>8, <1>9 DEF report

LEMMA ServedSeen ==
  ASSUME Typed, Queues, Serve, NEW t, t = Head(dbq)
  PROVE  /\ seen' \in [Tasks -> Held]
         /\ \A x \in Tasks : seen'[x].ok = seen[x].ok /\ (x # t => seen'[x] = seen[x])
         /\ seen'[Run].row = IF t = Run /\ pc[t] \in {4, 8} THEN row ELSE seen[Run].row
         /\ seen'[Title].row = IF t = Title /\ pc[t] = 1 THEN row ELSE seen[Title].row
         /\ seen'[Count].applied = IF t = Count /\ pc[t] = 4 THEN row' # row ELSE seen[Count].applied
  <1>1. /\ t \in Tasks /\ pc[t] \in 1..Length(t)
        /\ seen' = CASE Op(t) = "get" -> [seen EXCEPT ![t].row = row]
                     [] Op(t) = "estimate" -> [seen EXCEPT ![t].applied = row' # row]
                     [] OTHER -> seen
    BY ServeMoves
  <1>2. seen \in [Tasks -> Held] /\ row \in Rows
    BY DEF Typed
  <1>3. seen[Run].ok \in BOOLEAN
    BY <1>2, TaskNames DEF Held
  <1>4. /\ Op(t) = "estimate" <=> t = Count /\ pc[t] = 4
        /\ t = Run => (Op(t) = "get" <=> pc[t] \in {4, 8})
        /\ t = Title => (Op(t) = "get" <=> pc[t] = 1)
    BY <1>1, <1>3, ReadsOf
  <1>5. CASE Op(t) = "get"
    <2>1. seen' = [seen EXCEPT ![t].row = row]
      BY <1>1, <1>5
    <2>2. /\ seen' \in [Tasks -> Held]
          /\ \A x \in Tasks : /\ seen'[x].ok = seen[x].ok /\ seen'[x].applied = seen[x].applied
                              /\ x # t => seen'[x] = seen[x]
          /\ seen'[t].row = row
      BY <1>1, <1>2, <2>1 DEF Held
    <2>3. ~(t = Count /\ pc[t] = 4)
      BY <1>4, <1>5
    <2> QED BY <1>4, <1>5, <2>2, <2>3, TaskNames
  <1>6. CASE Op(t) = "estimate"
    <2>1. seen' = [seen EXCEPT ![t].applied = (row' # row)]
      BY <1>1, <1>6
    <2>2. /\ seen' \in [Tasks -> Held]
          /\ \A x \in Tasks : /\ seen'[x].ok = seen[x].ok /\ seen'[x].row = seen[x].row
                              /\ x # t => seen'[x] = seen[x]
          /\ seen'[t].applied = (row' # row)
      <3> DEFINE changed == row' # row
      <3>1. changed \in BOOLEAN /\ seen' = [seen EXCEPT ![t].applied = changed]
        BY <2>1
      <3> HIDE DEF changed
      <3>2. /\ seen' \in [Tasks -> Held]
            /\ \A x \in Tasks : /\ seen'[x].ok = seen[x].ok /\ seen'[x].row = seen[x].row
                                /\ x # t => seen'[x] = seen[x]
            /\ seen'[t].applied = changed
        BY <1>1, <1>2, <3>1 DEF Held
      <3> QED BY <3>2 DEF changed
    <2> QED BY <1>4, <1>6, <2>2, TaskNames, TasksDiffer
  <1>7. CASE Op(t) # "get" /\ Op(t) # "estimate"
    <2>1. seen' = seen
      BY <1>1, <1>7
    <2> QED BY <1>2, <1>4, <1>7, <2>1, TaskNames
  <1> QED BY <1>5, <1>6, <1>7

-----------------------------------------------------------------------------
(* Every task stays where its step puts it                                 *)

LEMMA TypeFacts ==
  ASSUME Typed
  PROVE  /\ \A x \in Tasks : pc[x] \in Nat /\ Length(x) \in {2, 4, 5, 7, 13} /\ Clock(x) \in Nat
         /\ \A x \in Tasks : /\ seen[x] \in Held /\ seen[x].ok \in BOOLEAN /\ seen[x].row \in Rows
                             /\ seen[x].answer \in Nat /\ seen[x].applied \in BOOLEAN
         /\ lines \in Nat /\ MaxFiles \in Nat /\ lines <= MaxFiles
         /\ row.done \in Nat /\ row.total \in Nat
  <1>1. \A x \in Tasks : pc[x] \in Nat
    BY DEF Typed
  <1>2. \A x \in Tasks : Clock(x) \in Nat
    BY <1>1 DEF Clock
  <1>3. row.done \in Nat /\ row.total \in Nat
    BY DEF Typed, Rows
  <1>4. lines \in Nat /\ MaxFiles \in Nat /\ lines <= MaxFiles
    BY ProgressAssumption DEF Typed
  <1>5. \A x \in Tasks : /\ seen[x] \in Held /\ seen[x].ok \in BOOLEAN /\ seen[x].row \in Rows
                        /\ seen[x].answer \in Nat /\ seen[x].applied \in BOOLEAN
    BY DEF Typed, Held
  <1> QED BY <1>1, <1>2, <1>3, <1>4, <1>5, TaskLengths

LEMMA ServeClocks ==
  ASSUME Typed, Queues, Serve, NEW t, t = Head(dbq)
  PROVE  /\ Clock(t) = 2 * pc[t]
         /\ \A x \in Tasks : Clock(x)' = IF x = t THEN Clock(x) + 1 ELSE Clock(x)
         /\ \A x \in Tasks : Length(x)' = Length(x)
  <1>1. /\ t \in Tasks /\ t \notin Range(ready) /\ pc' = pc /\ Range(ready') = Range(ready) \cup {t}
    BY ServeMoves
  <1>2. pc[t] \in Nat
    BY <1>1, TypeFacts
  <1>3. Clock(t) = 2 * pc[t]
    BY <1>1, <1>2 DEF Clock
  <1>4. ASSUME NEW x \in Tasks
        PROVE  Clock(x)' = IF x = t THEN Clock(x) + 1 ELSE Clock(x)
    BY <1>1, <1>2 DEF Clock
  <1>5. seen'[Run].ok = seen[Run].ok
    BY ServedSeen, TaskNames
  <1>6. \A x \in Tasks : Length(x)' = Length(x)
    BY <1>5 DEF Length
  <1> QED BY <1>3, <1>4, <1>6

LEMMA ResumeClocks ==
  ASSUME Typed, Queues, Created, Resume, NEW t, t = Head(ready)
  PROVE  /\ Clock(t) = 2 * pc[t] + 1
         /\ Clock(t)' = IF Ends(t) THEN 198 ELSE 2 * (pc[t] + 1)
         /\ \A x \in Range(Spawned(t)) : Clock(x) = 0 /\ Clock(x)' = 1
         /\ \A x \in Tasks : x # t /\ x \notin Range(Spawned(t)) => Clock(x)' = Clock(x)
         /\ \A x \in Tasks : x # t => pc'[x] = pc[x]
         /\ pc'[t] = IF Ends(t) THEN 99 ELSE pc[t] + 1
         /\ \A x \in Tasks : Length(x)' = Length(x)
  <1>1. /\ t \in Tasks /\ t \in Range(ready) /\ pc[t] \in 0..Length(t)
        /\ pc' = [pc EXCEPT ![t] = IF Ends(t) THEN 99 ELSE pc[t] + 1]
        /\ Range(Spawned(t)) \subseteq {Title, Count}
        /\ \A x \in Range(Spawned(t)) : t = Run /\ ~Queued(x) /\ pc[x] = 0
        /\ Range(ready') = (Range(ready) \ {t}) \cup Range(Spawned(t))
        /\ seen' = seen
    BY ResumeMoves
  <1>2. \A x \in Tasks : pc[x] \in Nat
    BY TypeFacts
  <1>3. /\ \A x \in Tasks : x # t => pc'[x] = pc[x]
        /\ pc'[t] = IF Ends(t) THEN 99 ELSE pc[t] + 1
    BY <1>1 DEF Typed
  <1>4. t \notin Range(Spawned(t)) /\ t \notin Range(ready')
    BY <1>1, TasksDiffer
  <1>5. Clock(t) = 2 * pc[t] + 1 /\ Clock(t)' = IF Ends(t) THEN 198 ELSE 2 * (pc[t] + 1)
    BY <1>1, <1>2, <1>3, <1>4 DEF Clock
  <1>6. ASSUME NEW x \in Range(Spawned(t))
        PROVE  Clock(x) = 0 /\ Clock(x)' = 1
    <2>1. x \in Tasks /\ x # t /\ pc[x] = 0 /\ x \notin Range(ready) /\ x \in Range(ready')
      BY <1>1, <1>4, TaskNames DEF Queued
    <2> QED BY <1>3, <2>1 DEF Clock
  <1>7. ASSUME NEW x \in Tasks, x # t, x \notin Range(Spawned(t))
        PROVE  Clock(x)' = Clock(x)
    BY <1>1, <1>3, <1>7 DEF Clock
  <1>8. \A x \in Tasks : Length(x)' = Length(x)
    BY <1>1 DEF Length
  <1> QED BY <1>3, <1>5, <1>6, <1>7, <1>8

LEMMA QueueTasks ==
  ASSUME Queues
  PROVE  Range(ready) \subseteq Tasks /\ Range(dbq) \subseteq Tasks
  BY DEF Queues, Range

LEMMA ServeKeepsPlaces ==
  ASSUME Typed, Queues, Created, Serve
  PROVE  Typed' /\ Queues' /\ Created'
  <1> DEFINE t == Head(dbq)
  <1>1. /\ t \in Tasks /\ t \in Range(dbq) /\ t \notin Range(ready)
        /\ pc[t] \in 1..Length(t) /\ ~Waiting(t) /\ UNCHANGED <<pc, lines, events>>
        /\ ready' \in Seq(Tasks) /\ Once(ready') /\ Range(ready') = Range(ready) \cup {t}
        /\ dbq' \in Seq(Tasks) /\ Once(dbq') /\ Range(dbq') = Range(dbq) \ {t}
    BY ServeMoves
  <1>2. row' \in Rows /\ seen' \in [Tasks -> Held]
    BY ServedRow, ServedSeen
  <1>3. /\ Clock(t) = 2 * pc[t]
        /\ \A x \in Tasks : Clock(x)' = IF x = t THEN Clock(x) + 1 ELSE Clock(x)
        /\ \A x \in Tasks : Length(x)' = Length(x)
    BY ServeClocks
  <1> HIDE DEF t
  <1>4. Typed'
    BY <1>1, <1>2, <1>3 DEF Typed
  <1>5. Queues'
    <2>1. Range(ready') \cap Range(dbq') = {}
      BY <1>1 DEF Queues
    <2>2. \A x \in Range(ready') : x \in Tasks /\ pc[x] \in 0..Length(x)
      <3>1. \A x \in Range(ready) : x \in Tasks
        BY DEF Queues, Range
      <3>2. pc[t] \in 0..Length(t)
        BY <1>1, TaskLengths
      <3> QED BY <1>1, <3>1, <3>2 DEF Queues
    <2>3. \A x \in Range(dbq') : x \in Tasks /\ pc[x] \in 1..Length(x) /\ ~Waiting(x)
      BY <1>1, QueueTasks DEF Queues
    <2>4. \A x \in Tasks : pc[x] \in 1..13 /\ ~Waiting(x) => x \in Range(ready') \/ x \in Range(dbq')
      BY <1>1 DEF Queues, Queued
    <2>5. Run \in Range(ready') => pc[Run] # 3
      BY <1>1 DEF Queues, Waiting
    <2> QED BY <1>1, <1>3, <2>1, <2>2, <2>3, <2>4, <2>5 DEF Queues, Queued, Waiting
  <1>6. Created'
    <2>1. Clock(t) > 0 /\ Clock(t) \in Nat
      BY <1>1, <1>3, TypeFacts
    <2>2. \A x \in Tasks : Clock(x)' > 0 <=> Clock(x) > 0
      BY <1>3, <2>1
    <2>3. pc[Run] <= 2 => Title # t /\ Count # t
      BY <2>1 DEF Created
    <2> QED BY <1>1, <1>3, <2>2, <2>3, TaskNames DEF Created
  <1> QED BY <1>4, <1>5, <1>6

LEMMA ResumeKeepsPlaces ==
  ASSUME Typed, Queues, Created, Resume
  PROVE  Queues' /\ Created' /\ pc' \in [Tasks -> Nat]
         /\ \A x \in Tasks : pc'[x] \in 0..Length(x)' \/ pc'[x] = 99
  <1>0. PICK t : t = Head(ready)
    OBVIOUS
  <1> DEFINE s == Range(Spawned(t))
  <1>1. /\ t \in Tasks /\ t \in Range(ready) /\ t \notin Range(dbq) /\ pc[t] \in 0..Length(t)
        /\ Ends(t) \/ pc[t] + 1 \in 1..Length(t)
        /\ pc' = [pc EXCEPT ![t] = IF Ends(t) THEN 99 ELSE pc[t] + 1]
        /\ s \subseteq {Title, Count} /\ \A x \in s : t = Run /\ pc[Run] = 2 /\ ~Queued(x) /\ pc[x] = 0
        /\ ready' \in Seq(Tasks) /\ Once(ready') /\ Range(ready') = (Range(ready) \ {t}) \cup s
        /\ dbq' \in Seq(Tasks) /\ Once(dbq')
        /\ IF Ends(t) \/ (pc[t] = 2 /\ t \in {Run, Count, Title})
           THEN dbq' = dbq
           ELSE Range(dbq') = Range(dbq) \cup {t}
        /\ lines' = lines
    BY <1>0, ResumeMoves
  <1>2. /\ Clock(t) = 2 * pc[t] + 1
        /\ Clock(t)' = IF Ends(t) THEN 198 ELSE 2 * (pc[t] + 1)
        /\ \A x \in s : Clock(x) = 0 /\ Clock(x)' = 1
        /\ \A x \in Tasks : x # t /\ x \notin s => Clock(x)' = Clock(x)
        /\ \A x \in Tasks : x # t => pc'[x] = pc[x]
        /\ pc'[t] = IF Ends(t) THEN 99 ELSE pc[t] + 1
        /\ \A x \in Tasks : Length(x)' = Length(x)
    BY <1>0, ResumeClocks
  <1> HIDE DEF s
  <1>3. \A x \in Tasks : Length(x) \in {2, 4, 5, 7, 13} /\ pc[x] \in Nat
    BY TypeFacts
  <1>4. \A x \in Tasks : pc'[x] \in 0..Length(x)' \/ pc'[x] = 99
    <2>1. CASE Ends(t)
      BY <1>2, <2>1 DEF Typed
    <2>2. CASE pc[t] + 1 \in 1..Length(t)
      BY <1>2, <1>3, <2>2 DEF Typed
    <2> QED BY <1>1, <2>1, <2>2
  <1>5. pc' \in [Tasks -> Nat]
    <2>1. (IF Ends(t) THEN 99 ELSE pc[t] + 1) \in Nat
      BY <1>1, <1>3
    <2> QED BY <1>1, <2>1 DEF Typed
  <1>6. Queues'
    <2>1. Range(ready') \cap Range(dbq') = {}
      BY <1>1 DEF Queues, Queued
    <2>2. ASSUME NEW x \in Range(ready')
          PROVE  x \in Tasks /\ pc'[x] \in 0..Length(x)' /\ x # t
      <3>1. CASE x \in Range(ready) /\ x # t
        <4>1. x \in Tasks
          BY <3>1 DEF Queues, Range
        <4> QED BY <1>2, <3>1, <4>1 DEF Queues
      <3>2. CASE x \in s
        <4>1. x \in Tasks /\ x # t
          BY <1>1, <3>2, TaskNames, TasksDiffer
        <4> QED BY <1>1, <1>2, <1>3, <3>2, <4>1
      <3> QED BY <1>1, <3>1, <3>2
    <2>3. ASSUME NEW x \in Range(dbq')
          PROVE  x \in Tasks /\ pc'[x] \in 1..Length(x)' /\ ~(pc'[x] = 3 /\ x \in {Run, Count, Title})
      <3>1. CASE x \in Range(dbq)
        <4>1. x \in Tasks /\ x # t
          BY <1>1, <3>1 DEF Queues, Range
        <4> QED BY <1>2, <3>1, <4>1 DEF Queues, Waiting
      <3>2. CASE x \notin Range(dbq)
        <4>1. x = t /\ ~Ends(t) /\ ~(pc[t] = 2 /\ t \in {Run, Count, Title})
          BY <1>1, <3>2, <2>3
        <4>2. pc'[t] = pc[t] + 1
          BY <1>2, <4>1
        <4> QED BY <1>1, <1>2, <1>3, <4>1, <4>2
      <3> QED BY <3>1, <3>2
    <2>4. ASSUME NEW x \in Tasks, pc'[x] \in 1..13, ~(pc'[x] = 3 /\ x \in {Run, Count, Title})
          PROVE  x \in Range(ready') \/ x \in Range(dbq')
      <3>1. CASE x = t
        <4>1. ~Ends(t) /\ pc'[t] = pc[t] + 1
          BY <1>2, <2>4, <3>1
        <4>2. ~(pc[t] = 2 /\ t \in {Run, Count, Title})
          BY <2>4, <3>1, <4>1
        <4> QED BY <1>1, <3>1, <4>1, <4>2
      <3>2. CASE x # t
        <4>1. x \in Range(ready) \/ x \in Range(dbq)
          BY <1>2, <2>4, <3>2 DEF Queues, Queued, Waiting
        <4>2. Range(dbq) \subseteq Range(dbq')
          BY <1>1
        <4> QED BY <1>1, <3>2, <4>1, <4>2
      <3> QED BY <3>1, <3>2
    <2>5. Run \in Range(ready') => pc'[Run] # 3
      <3>1. Run \notin s
        BY <1>1, TasksDiffer
      <3> QED BY <1>1, <1>2, <3>1, TaskNames DEF Queues
    <2> QED BY <1>1, <2>1, <2>2, <2>3, <2>4, <2>5 DEF Queues, Queued, Waiting
  <1>7. Created'
    <2>1. \A x \in Tasks : x \notin {Title, Count} => (Clock(x)' > 0 <=> Clock(x) > 0)
      <3>1. Clock(t) > 0 /\ Clock(t)' > 0
        BY <1>1, <1>2, <1>3
      <3> QED BY <1>1, <1>2, <3>1
    <2>2. pc'[Run] <= 2 => Clock(Title)' = 0 /\ Clock(Count)' = 0
      <3> SUFFICES ASSUME pc'[Run] <= 2
                   PROVE  Clock(Title)' = 0 /\ Clock(Count)' = 0
        OBVIOUS
      <3>1. pc[Run] <= 2 /\ ~(t = Run /\ pc[Run] = 2)
        BY <1>2, <1>3, TaskNames
      <3>2. Clock(Title) = 0 /\ Clock(Count) = 0
        BY <3>1 DEF Created
      <3>3. Title # t /\ Count # t
        BY <1>2, <1>3, <3>2, TaskNames
      <3> QED BY <1>1, <1>2, <3>1, <3>2, <3>3, TaskNames
    <2> QED BY <1>1, <2>1, <2>2, TaskNames, TasksDiffer DEF Created
  <1> QED BY <1>4, <1>5, <1>6, <1>7

\* Idle tasks that become ready.
LEMMA JoinKeepsPlaces ==
  ASSUME Typed, Queues, NEW s \in Seq(Tasks), Once(s),
         \A x \in Range(s) : ~Queued(x) /\ x # Run /\ pc[x] \in 0..Length(x),
         ready' = ready \o s, UNCHANGED <<pc, dbq>>, seen'[Run].ok = seen[Run].ok
  PROVE  /\ Queues'
         /\ \A x \in Range(s) : Clock(x)' = 2 * pc[x] + 1
         /\ \A x \in Tasks : x \notin Range(s) => Clock(x)' = Clock(x)
         /\ \A x \in Tasks : Length(x)' = Length(x)
  <1>1. /\ ready' \in Seq(Tasks) /\ Once(ready') /\ Range(ready') = Range(ready) \cup Range(s)
        /\ Range(ready') \cap Range(dbq') = {}
    BY JoinMoves
  <1>2. \A x : Length(x)' = Length(x)
    BY DEF Length
  <1>3. Queues'
    BY <1>1, <1>2 DEF Queues, Queued, Waiting
  <1>4. \A x \in Range(s) : Clock(x)' = 2 * pc[x] + 1
    BY <1>1 DEF Clock
  <1>5. \A x \in Tasks : x \notin Range(s) => Clock(x)' = Clock(x)
    BY <1>1 DEF Clock
  <1> QED BY <1>2, <1>3, <1>4, <1>5

LEMMA LineMoves ==
  ASSUME Typed, Queues, Created, Line
  PROVE  /\ UNCHANGED <<row, pc, seen, dbq, events>> /\ lines' = lines + 1
         /\ pc[Run] = 3 /\ Clock(Run) = 6 /\ lines + 1 \in 1..MaxFiles
         /\ \E s \in Seq(Tasks) :
               /\ ready' = ready \o s /\ Once(s)
               /\ Range(s) = IF lines = 0 THEN {Detect, Report(lines + 1)} ELSE {Report(lines + 1)}
               /\ \A x \in Range(s) : ~Queued(x) /\ x \in Tasks /\ x # Run /\ pc[x] = 0
  <1>1. /\ UNCHANGED <<row, pc, seen, dbq, events>> /\ lines' = lines + 1
        /\ pc[Run] = 3 /\ lines < MaxFiles
        /\ ready' = ready \o (IF lines = 0 THEN <<Detect>> ELSE <<>>) \o <<Report(lines + 1)>>
    BY DEF Line
  <1>2. lines + 1 \in 1..MaxFiles /\ lines \in Nat
    BY <1>1, TypeFacts
  <1>3. Clock(Run) = 6
    BY <1>1 DEF Queues, Clock
  <1> DEFINE r == Report(lines + 1)
             u == IF lines = 0 THEN <<Detect>> ELSE <<>>
             s == u \o <<r>>
  <1>4. r \in Tasks /\ r # Detect /\ r # Run /\ Detect # Run /\ Detect \in Tasks
    BY <1>2, TaskNames, TasksDiffer
  <1>5. ASSUME NEW x \in Tasks, Clock(x) = 0
        PROVE  ~Queued(x) /\ pc[x] = 0
    <2>1. pc[x] \in Nat
      BY TypeFacts
    <2>2. pc[x] = 0 /\ x \notin Range(ready)
      BY <1>5, <2>1 DEF Clock
    <2> QED BY <2>2 DEF Queues, Queued
  <1>6. Clock(r) = 0
    <2>1. ~(lines + 1 <= lines)
      BY <1>2
    <2> QED BY <1>2, <1>4, <2>1, TypeFacts DEF Created
  <1>7. lines = 0 => Clock(Detect) = 0
    BY <1>4, TypeFacts DEF Created
  <1>8. u \in Seq(Tasks) /\ <<r>> \in Seq(Tasks) /\ Once(u) /\ Once(<<r>>)
        /\ Range(u) = (IF lines = 0 THEN {Detect} ELSE {}) /\ Range(<<r>>) = {r}
    BY <1>4 DEF Once, Range
  <1> HIDE DEF r
  <1>9. ready' = ready \o s
    <2>1. ready' = (ready \o u) \o <<r>>
      BY <1>1 DEF r
    <2>2. ready \in Seq(Tasks)
      BY DEF Queues
    <2> HIDE DEF u
    <2> QED BY <1>8, <2>1, <2>2
  <1>10. s \in Seq(Tasks) /\ Once(s) /\ Range(s) = Range(u) \cup {r}
    <2> DEFINE v == <<r>>
    <2>1. /\ s = u \o v /\ u \in Seq(Tasks) /\ v \in Seq(Tasks) /\ Once(u) /\ Once(v)
          /\ Range(v) = {r} /\ Range(u) \cap Range(v) = {}
      BY <1>4, <1>8
    <2> HIDE DEF u, v, s
    <2> QED BY <2>1, JoinFacts
  <1>11. Range(s) = IF lines = 0 THEN {Detect, r} ELSE {r}
    BY <1>8, <1>10
  <1> HIDE DEF s
  <1>12. \A x \in Range(s) : ~Queued(x) /\ x \in Tasks /\ x # Run /\ pc[x] = 0
    BY <1>4, <1>5, <1>6, <1>7, <1>11
  <1> QED BY <1>1, <1>2, <1>3, <1>9, <1>10, <1>11, <1>12 DEF r

WithAnswer(f, t, n) == [f EXCEPT ![t].answer = n]
WithOk(f, t, ok) == [f EXCEPT ![t].ok = ok]

LEMMA HeldUpdates ==
  ASSUME NEW f \in [Tasks -> Held], NEW t \in Tasks
  PROVE  /\ \A n \in Nat :
              /\ WithAnswer(f, t, n) \in [Tasks -> Held]
              /\ \A x \in Tasks : /\ WithAnswer(f, t, n)[x].ok = f[x].ok
                                  /\ WithAnswer(f, t, n)[x].row = f[x].row
                                  /\ WithAnswer(f, t, n)[x].applied = f[x].applied
         /\ \A ok \in BOOLEAN :
              /\ WithOk(f, t, ok) \in [Tasks -> Held]
              /\ \A x \in Tasks : /\ WithOk(f, t, ok)[x].row = f[x].row
                                  /\ WithOk(f, t, ok)[x].applied = f[x].applied
  BY DEF Held, WithAnswer, WithOk

\* A probe answers, or a rename comes in.
LEMMA IdleMoves ==
  ASSUME Typed, Queues, Answer(Count) \/ Answer(Title) \/ Rename
  PROVE  \E t \in {Count, Title, User} :
           /\ ready' = ready \o <<t>> /\ <<t>> \in Seq(Tasks) /\ Once(<<t>>) /\ Range(<<t>>) = {t}
           /\ ~Queued(t) /\ t # Run /\ pc[t] \in 0..Length(t)
           /\ t = User \/ pc[t] = 3
           /\ UNCHANGED <<row, pc, dbq, lines, events>>
           /\ seen' \in [Tasks -> Held]
           /\ \A x \in Tasks : /\ seen'[x].ok = seen[x].ok /\ seen'[x].row = seen[x].row
                               /\ seen'[x].applied = seen[x].applied
  <1>1. ready \in Seq(Tasks) /\ seen \in [Tasks -> Held]
    BY DEF Queues, Typed
  <1>2. ASSUME NEW t \in {Count, Title}, Answer(t)
        PROVE  /\ ready' = Append(ready, t) /\ ~Queued(t) /\ pc[t] = 3 /\ pc[t] \in 0..Length(t)
               /\ UNCHANGED <<row, pc, dbq, lines, events>>
               /\ seen' \in [Tasks -> Held]
               /\ \A x \in Tasks : /\ seen'[x].ok = seen[x].ok /\ seen'[x].row = seen[x].row
                                   /\ seen'[x].applied = seen[x].applied
    <2>1. PICK n : n \in (IF t = Count THEN Counts ELSE {0, 1}) /\ seen' = WithAnswer(seen, t, n)
      BY <1>2 DEF Answer, WithAnswer
    <2>2. n \in Nat /\ t \in Tasks
      BY <2>1, ProgressAssumption, TaskNames
    <2>3. /\ seen' \in [Tasks -> Held]
          /\ \A x \in Tasks : /\ seen'[x].ok = seen[x].ok /\ seen'[x].row = seen[x].row
                              /\ seen'[x].applied = seen[x].applied
      BY <1>1, <2>1, <2>2, HeldUpdates
    <2>4. t \notin Range(dbq)
      BY <1>2 DEF Answer, Queues, Waiting
    <2>5. pc[t] = 3 /\ pc[t] \in 0..Length(t)
      BY <1>2, TasksDiffer DEF Answer, Length
    <2> QED BY <1>2, <2>3, <2>4, <2>5 DEF Answer, Queued
  <1>3. ASSUME Rename
        PROVE  /\ ready' = Append(ready, User) /\ ~Queued(User) /\ pc[User] \in 0..Length(User)
               /\ UNCHANGED <<row, pc, seen, dbq, lines, events>>
    <2>1. pc[User] = 0 /\ User \notin Range(dbq)
      BY <1>3 DEF Rename, Queues
    <2>2. 0 \in 0..Length(User)
      BY TaskLengths
    <2> QED BY <1>3, <2>1, <2>2 DEF Rename, Queued
  <1>4. ASSUME NEW t \in {Count, Title, User}
        PROVE  /\ <<t>> \in Seq(Tasks) /\ Once(<<t>>) /\ Range(<<t>>) = {t} /\ t # Run
               /\ Append(ready, t) = ready \o <<t>>
    BY <1>1, TaskNames, TasksDiffer DEF Once, Range
  <1>5. CASE Answer(Count)
    BY <1>2, <1>4, <1>5
  <1>6. CASE Answer(Title)
    BY <1>2, <1>4, <1>6
  <1>7. CASE Rename
    BY <1>1, <1>3, <1>4, <1>7
  <1> QED BY <1>5, <1>6, <1>7

LEMMA ExitMoves ==
  ASSUME Typed, Queues, Exit
  PROVE  /\ pc[Run] = 3 /\ pc' = [pc EXCEPT ![Run] = 4] /\ lines >= MinFiles
         /\ UNCHANGED <<row, ready, lines, events>>
         /\ seen' \in [Tasks -> Held]
         /\ \A x \in Tasks : seen'[x].row = seen[x].row /\ seen'[x].applied = seen[x].applied
         /\ Run \notin Range(ready) /\ Run \notin Range(dbq)
         /\ dbq' \in Seq(Tasks) /\ Once(dbq') /\ Range(dbq') = Range(dbq) \cup {Run}
         /\ \A x \in Tasks : IF x = Run THEN Clock(x) = 6 /\ Clock(x)' = 8
                             ELSE Clock(x)' = Clock(x) /\ Length(x)' = Length(x)
         /\ Length(Run)' \in {7, 13}
  <1>1. /\ pc[Run] = 3 /\ pc' = [pc EXCEPT ![Run] = 4] /\ lines >= MinFiles
        /\ UNCHANGED <<row, ready, lines, events>> /\ dbq' = Append(dbq, Run)
    BY DEF Exit
  <1>2. PICK ok \in BOOLEAN : seen' = WithOk(seen, Run, ok)
    BY DEF Exit, WithOk
  <1>3. /\ seen' \in [Tasks -> Held]
        /\ \A x \in Tasks : seen'[x].row = seen[x].row /\ seen'[x].applied = seen[x].applied
    <2>1. seen \in [Tasks -> Held] /\ Run \in Tasks
      BY TaskNames DEF Typed
    <2> QED BY <1>2, <2>1, HeldUpdates
  <1>4. Run \notin Range(ready) /\ Run \notin Range(dbq)
    BY <1>1 DEF Queues, Waiting
  <1>5. dbq' \in Seq(Tasks) /\ Once(dbq') /\ Range(dbq') = Range(dbq) \cup {Run}
    BY <1>1, <1>4, AppendFacts, TaskNames DEF Queues
  <1>6. \A x \in Tasks : IF x = Run THEN Clock(x) = 6 /\ Clock(x)' = 8 ELSE Clock(x)' = Clock(x)
    BY <1>1, <1>4 DEF Clock, Typed
  <1>7. \A x \in Tasks : x # Run => Length(x)' = Length(x)
    BY DEF Length
  <1>8. Length(Run)' \in {7, 13}
    BY <1>3, TaskNames DEF Length, Held
  <1> QED BY <1>1, <1>3, <1>4, <1>5, <1>6, <1>7, <1>8

LEMMA LineKeepsPlaces ==
  ASSUME Typed, Queues, Created, Line
  PROVE  Typed' /\ Queues' /\ Created'
  <1>1. /\ UNCHANGED <<row, pc, seen, dbq, events>> /\ lines' = lines + 1
        /\ pc[Run] = 3 /\ Clock(Run) = 6 /\ lines + 1 \in 1..MaxFiles
    BY LineMoves
  <1>2. PICK s \in Seq(Tasks) :
            /\ ready' = ready \o s /\ Once(s)
            /\ Range(s) = IF lines = 0 THEN {Detect, Report(lines + 1)} ELSE {Report(lines + 1)}
            /\ \A x \in Range(s) : ~Queued(x) /\ x \in Tasks /\ x # Run /\ pc[x] = 0
    BY LineMoves
  <1>3. \A x \in Range(s) : ~Queued(x) /\ x # Run /\ pc[x] \in 0..Length(x)
    <2>1. \A x \in Tasks : 0 \in 0..Length(x)
      BY TypeFacts
    <2> QED BY <1>2, <2>1
  <1>4. /\ Queues'
        /\ \A x \in Range(s) : Clock(x)' = 2 * pc[x] + 1
        /\ \A x \in Tasks : x \notin Range(s) => Clock(x)' = Clock(x)
        /\ \A x \in Tasks : Length(x)' = Length(x)
    <2>1. UNCHANGED <<pc, dbq>> /\ seen'[Run].ok = seen[Run].ok
      BY <1>1
    <2> QED BY <1>2, <1>3, <2>1, JoinKeepsPlaces
  <1>5. Typed'
    <2>1. lines' \in 0..MaxFiles
      BY <1>1, TypeFacts
    <2> QED BY <1>1, <1>4, <2>1 DEF Typed
  <1>6. Created'
    <2>1. \A n \in 1..MaxFiles : n <= lines' <=> Clock(Report(n))' > 0
      <3> SUFFICES ASSUME NEW n \in 1..MaxFiles
                   PROVE  n <= lines' <=> Clock(Report(n))' > 0
        OBVIOUS
      <3>1. Report(n) \in Tasks /\ Report(n) # Detect
        BY TaskNames, TasksDiffer
      <3>2. CASE n = lines + 1
        <4>1. Clock(Report(n))' = 1
          BY <1>2, <1>4, <3>2
        <4> QED BY <1>1, <3>2, <4>1, TypeFacts
      <3>3. CASE n # lines + 1
        <4>1. Report(n) \notin Range(s)
          BY <1>2, <3>1, <3>3, TasksDiffer
        <4>2. Clock(Report(n))' = Clock(Report(n))
          BY <1>4, <3>1, <4>1
        <4>3. n <= lines' <=> n <= lines
          BY <1>1, <3>3, TypeFacts
        <4> QED BY <4>2, <4>3 DEF Created
      <3> QED BY <3>2, <3>3
    <2>2. Clock(Detect)' > 0
      <3>1. CASE lines = 0
        BY <1>2, <1>4, <3>1
      <3>2. CASE lines # 0
        <4>1. Clock(Detect) > 0
          BY <3>2, TypeFacts DEF Created
        <4>2. Detect \notin Range(s) /\ Detect \in Tasks
          BY <1>2, <3>2, TaskNames, TasksDiffer
        <4> QED BY <1>4, <4>1, <4>2
      <3> QED BY <3>1, <3>2
    <2> QED BY <1>1, <2>1, <2>2, TypeFacts DEF Created
  <1> QED BY <1>4, <1>5, <1>6

LEMMA IdleKeepsPlaces ==
  ASSUME Typed, Queues, Created, Answer(Count) \/ Answer(Title) \/ Rename
  PROVE  Typed' /\ Queues' /\ Created'
  <1>1. PICK t \in {Count, Title, User} :
           /\ ready' = ready \o <<t>> /\ <<t>> \in Seq(Tasks) /\ Once(<<t>>) /\ Range(<<t>>) = {t}
           /\ ~Queued(t) /\ t # Run /\ pc[t] \in 0..Length(t)
           /\ t = User \/ pc[t] = 3
           /\ UNCHANGED <<row, pc, dbq, lines, events>>
           /\ seen' \in [Tasks -> Held]
           /\ \A x \in Tasks : /\ seen'[x].ok = seen[x].ok /\ seen'[x].row = seen[x].row
                               /\ seen'[x].applied = seen[x].applied
    BY IdleMoves
  <1>2. seen'[Run].ok = seen[Run].ok
    BY <1>1, TaskNames
  <1>3. /\ Queues'
        /\ Clock(t)' = 2 * pc[t] + 1
        /\ \A x \in Tasks : x # t => Clock(x)' = Clock(x)
        /\ \A x \in Tasks : Length(x)' = Length(x)
    <2> DEFINE s == <<t>>
    <2>1. /\ s \in Seq(Tasks) /\ Once(s) /\ Range(s) = {t}
          /\ \A x \in Range(s) : ~Queued(x) /\ x # Run /\ pc[x] \in 0..Length(x)
          /\ ready' = ready \o s /\ UNCHANGED <<pc, dbq>>
      BY <1>1
    <2> HIDE DEF s
    <2> QED BY <1>2, <2>1, JoinKeepsPlaces
  <1>4. Typed'
    BY <1>1, <1>3 DEF Typed
  <1>5. Created'
    <2>1. \A x \in Tasks : x \notin {Count, Title, User} => Clock(x)' = Clock(x)
      BY <1>1, <1>3
    <2>2. pc[Run] <= 2 => t = User
      <3>1. Clock(t) = 0 => pc[t] # 3
        BY <1>1 DEF Clock, Queued
      <3> QED BY <1>1, <3>1 DEF Created
    <2> QED BY <1>1, <1>3, <2>1, <2>2, TaskNames, TasksDiffer DEF Created
  <1> QED BY <1>3, <1>4, <1>5

LEMMA ExitKeepsPlaces ==
  ASSUME Typed, Queues, Created, Exit
  PROVE  Typed' /\ Queues' /\ Created'
  <1>1. /\ pc[Run] = 3 /\ pc' = [pc EXCEPT ![Run] = 4]
        /\ UNCHANGED <<row, ready, lines, events>>
        /\ seen' \in [Tasks -> Held]
        /\ Run \notin Range(ready) /\ Run \notin Range(dbq)
        /\ dbq' \in Seq(Tasks) /\ Once(dbq') /\ Range(dbq') = Range(dbq) \cup {Run}
        /\ \A x \in Tasks : IF x = Run THEN Clock(x) = 6 /\ Clock(x)' = 8
                            ELSE Clock(x)' = Clock(x) /\ Length(x)' = Length(x)
        /\ Length(Run)' \in {7, 13}
    BY ExitMoves
  <1>2. pc' \in [Tasks -> Nat] /\ \A x \in Tasks : pc'[x] = IF x = Run THEN 4 ELSE pc[x]
    BY <1>1 DEF Typed
  <1>3. Typed'
    BY <1>1, <1>2 DEF Typed
  <1>4. Queues'
    <2>1. Range(ready') \cap Range(dbq') = {}
      BY <1>1 DEF Queues
    <2>2. \A x \in Range(ready') : pc'[x] \in 0..Length(x)'
      BY <1>1, <1>2, QueueTasks DEF Queues
    <2>3. \A x \in Range(dbq') : pc'[x] \in 1..Length(x)' /\ ~(pc'[x] = 3 /\ x \in {Run, Count, Title})
      BY <1>1, <1>2, QueueTasks DEF Queues, Waiting
    <2>4. \A x \in Tasks : pc'[x] \in 1..13 /\ ~(pc'[x] = 3 /\ x \in {Run, Count, Title})
                            => x \in Range(ready') \/ x \in Range(dbq')
      BY <1>1, <1>2 DEF Queues, Queued, Waiting
    <2> QED BY <1>1, <2>1, <2>2, <2>3, <2>4 DEF Queues, Queued, Waiting
  <1>5. Created'
    BY <1>1, <1>2, TaskNames, TasksDiffer DEF Created
  <1> QED BY <1>3, <1>4, <1>5

-----------------------------------------------------------------------------
(* The order of the tasks                                                  *)

\* A task that something is waiting behind is in a queue until it ends.
LEMMA Flows ==
  ASSUME Typed, Queues, Created
  PROVE  /\ \A n \in 1..lines :
              /\ Report(n) \in Tasks /\ n \in 1..MaxFiles /\ Clock(Report(n)) > 0
              /\ pc[Report(n)] = 99 \/ Queued(Report(n))
              /\ pc[Report(n)] = 99 \/ Clock(Report(n)) <= 5
         /\ lines > 0 => /\ Clock(Detect) > 0
                         /\ pc[Detect] = 99 \/ Queued(Detect)
                         /\ pc[Detect] = 99 \/ Clock(Detect) <= 5
         /\ Clock(Title) \in {1, 2} => Queued(Title)
         /\ pc[Count] \in 4..7 => Queued(Count) /\ Clock(Count) <= 15
  <1>1. ASSUME NEW x \in Tasks, x \notin {Run, Count, Title}, Clock(x) > 0, Length(x) = 2
        PROVE  /\ pc[x] = 99 \/ Queued(x)
               /\ pc[x] = 99 \/ Clock(x) <= 5
    <2>1. pc[x] \in 0..2 \/ pc[x] = 99
      BY <1>1 DEF Typed
    <2>2. CASE pc[x] = 0
      BY <1>1, <2>2 DEF Clock, Queued
    <2>3. CASE pc[x] \in 1..2
      BY <1>1, <2>3 DEF Queues, Waiting, Clock
    <2> QED BY <2>1, <2>2, <2>3
  <1>2. ASSUME NEW n \in 1..lines
        PROVE  /\ Report(n) \in Tasks /\ n \in 1..MaxFiles /\ Clock(Report(n)) > 0
               /\ Report(n) \notin {Run, Count, Title} /\ Length(Report(n)) = 2
    <2>1. n \in 1..MaxFiles /\ n <= lines
      BY TypeFacts
    <2>2. Report(n) \in Tasks /\ Report(n) \notin {Run, Count, Title, User}
      BY <2>1, TaskNames, TasksDiffer
    <2>3. Length(Report(n)) = 2
      BY <2>2 DEF Length
    <2> QED BY <2>1, <2>2, <2>3 DEF Created
  <1>3. lines > 0 => Clock(Detect) > 0
    BY DEF Created
  <1>4. Length(Detect) = 2 /\ Detect \in Tasks /\ Detect \notin {Run, Count, Title}
    BY TaskNames, TasksDiffer DEF Length
  <1>5. Clock(Title) \in {1, 2} => Queued(Title)
    <2>1. pc[Title] \in Nat /\ Title \in Tasks
      BY TypeFacts, TaskNames
    <2>2. Clock(Title) = 1 => Title \in Range(ready)
      BY <2>1 DEF Clock
    <2>3. Clock(Title) = 2 => pc[Title] = 1
      BY <2>1 DEF Clock
    <2>4. pc[Title] = 1 => Queued(Title)
      BY <2>1 DEF Queues, Waiting
    <2> QED BY <2>2, <2>3, <2>4 DEF Queued
  <1>6. pc[Count] \in 4..7 => Queued(Count) /\ Clock(Count) <= 15
    <2>1. pc[Count] \in Nat /\ Count \in Tasks
      BY TypeFacts, TaskNames
    <2>2. pc[Count] \in 4..7 => pc[Count] \in 1..13 /\ ~Waiting(Count)
      BY <2>1 DEF Waiting
    <2>3. pc[Count] \in 4..7 => Clock(Count) <= 15
      BY <2>1 DEF Clock
    <2> QED BY <2>1, <2>2, <2>3 DEF Queues
  <1> QED BY <1>1, <1>2, <1>3, <1>4, <1>5, <1>6

LEMMA ServeKeepsOrder ==
  ASSUME Typed, Queues, Created, Order, Values, Serve
  PROVE  Order'
  <1>0. PICK t : t = Head(dbq)
    OBVIOUS
  <1>1. t \in Tasks /\ pc[t] \in 1..Length(t) /\ lines' = lines /\ pc' = pc
    BY <1>0, ServeMoves
  <1>2. Clock(t) = 2 * pc[t] /\ \A x \in Tasks : Clock(x)' = IF x = t THEN Clock(x) + 1 ELSE Clock(x)
    BY <1>0, ServeClocks
  <1>3. 0 \in Offsets /\ 8 \in Offsets /\ 12 \in Offsets
    BY DEF Offsets
  <1>4. \A m, n \in 1..lines : m < n => Ahead(Report(m), Report(n), 0)'
    <2> SUFFICES ASSUME NEW m \in 1..lines, NEW n \in 1..lines, m < n
                 PROVE  Ahead(Report(m), Report(n), 0)'
      OBVIOUS
    <2>1. Ahead(Report(m), Report(n), 0)
      BY DEF Order
    <2>2. m # n
      BY TypeFacts
    <2>3. Report(m) # Report(n)
      BY <2>2, TasksDiffer
    <2> QED BY <1>3, <2>1, <2>3, Flows, ServeKeepsAhead
  <1>5. \A n \in 1..lines : Ahead(Report(n), Run, 8)'
    BY <1>3, Flows, TaskNames, TasksDiffer, ServeKeepsAhead DEF Order
  <1>6. lines > 0 => Ahead(Detect, Run, 8)'
    BY <1>3, Flows, TaskNames, TasksDiffer, ServeKeepsAhead DEF Order
  <1>7. Clock(Title)' \in {1, 2} => Ahead(Title, Run, 8)'
    <2>1. Clock(Title)' \in {1, 2} => Clock(Title) \in {1, 2}
      BY <1>1, <1>2, TypeFacts, TaskNames
    <2> QED BY <1>3, <2>1, Flows, TaskNames, TasksDiffer, ServeKeepsAhead DEF Order
  <1>8. seen'[Run].ok /\ lines > 0 /\ CountStands' => Ahead(Count, Run, 12)'
    <2> SUFFICES ASSUME seen'[Run].ok, lines > 0, CountStands'
                 PROVE  Ahead(Count, Run, 12)'
      OBVIOUS
    <2>1. seen[Run].ok /\ pc[Count] \in 4..7
      BY <1>1, ServedSeen, TaskNames DEF CountStands
    <2>2. CASE t = Count /\ pc[t] = 4
      <3>1. row' # row
        BY <1>0, <2>2, ServedSeen DEF CountStands
      <3>2. row.total = 0
        BY <1>0, <2>2, <3>1, ServedRow
      <3>3. Clock(Run) < 21
        <4>1. row.total # lines
          BY <3>2, TypeFacts
        <4> QED BY <2>1, <4>1, TypeFacts, TaskNames DEF Values
      <3>4. Clock(Run)' = Clock(Run) /\ Clock(Count)' = 9
        BY <1>2, <2>2, TaskNames, TasksDiffer
      <3> QED BY <3>3, <3>4, TypeFacts, TaskNames DEF Ahead
    <2>3. CASE ~(t = Count /\ pc[t] = 4)
      <3>1. seen[Count].applied
        BY <1>0, <2>3, ServedSeen DEF CountStands
      <3>2. Clock(Count) >= 9
        <4>1. CASE t = Count
          BY <1>2, <2>1, <2>3, <4>1
        <4>2. CASE t # Count
          BY <1>2, <4>2, TaskNames DEF CountStands
        <4> QED BY <4>1, <4>2
      <3> QED BY <1>3, <2>1, <3>1, <3>2, Flows, TaskNames, TasksDiffer, ServeKeepsAhead
              DEF Order, CountStands
    <2> QED BY <2>2, <2>3
  <1> QED BY <1>1, <1>4, <1>5, <1>6, <1>7, <1>8 DEF Order

\* A task other than a probe ends after its last operation.
LEMMA Endings ==
  ASSUME Typed, Queues, Created, Resume, NEW t, t = Head(ready), t \notin {Title, Count}
  PROVE  /\ ~GivesUp(t) /\ (Ends(t) <=> pc[t] = Length(t))
         /\ Ends(t) /\ t = Run => Clock(t) = IF seen[Run].ok THEN 27 ELSE 15
         /\ Ends(t) /\ t \notin {Run, User} => Clock(t) = 5
  <1>1. t \in Tasks /\ Clock(t) = 2 * pc[t] + 1 /\ pc[t] \in Nat /\ Length(t) \in {2, 4, 5, 7, 13}
    BY ResumeMoves, ResumeClocks, TypeFacts
  <1>2. ~GivesUp(t) /\ (Ends(t) <=> pc[t] = Length(t))
    BY <1>1 DEF GivesUp, Ends
  <1>3. t = Run => Length(t) = IF seen[Run].ok THEN 13 ELSE 7
    BY TasksDiffer DEF Length
  <1>4. t \notin {Run, User} => Length(t) = 2
    BY DEF Length
  <1> QED BY <1>1, <1>2, <1>3, <1>4

LEMMA ResumeKeepsOrder ==
  ASSUME Typed, Queues, Created, Order, Values, Resume
  PROVE  Order'
  <1>0. PICK t : t = Head(ready)
    OBVIOUS
  <1>1. /\ t \in Tasks /\ UNCHANGED <<seen, lines>> /\ Range(Spawned(t)) \subseteq {Title, Count}
        /\ \A x \in Range(Spawned(t)) : t = Run /\ pc[Run] = 2 /\ pc[x] = 0
    BY <1>0, ResumeMoves
  <1>2. /\ Clock(t) = 2 * pc[t] + 1
        /\ Clock(t)' = IF Ends(t) THEN 198 ELSE 2 * (pc[t] + 1)
        /\ \A x \in Range(Spawned(t)) : Clock(x)' = 1
        /\ \A x \in Tasks : x # t /\ x \notin Range(Spawned(t)) => Clock(x)' = Clock(x)
        /\ \A x \in Tasks : x # t => pc'[x] = pc[x]
        /\ pc'[t] = IF Ends(t) THEN 99 ELSE pc[t] + 1
    BY <1>0, ResumeClocks
  <1>3. 0 \in Offsets /\ 8 \in Offsets /\ 12 \in Offsets
    BY DEF Offsets
  <1>4. t = Run /\ Ends(t) => Clock(Run) = IF seen[Run].ok THEN 27 ELSE 15
    BY <1>0, TasksDiffer, Endings
  <1>5. ASSUME NEW a \in Tasks, a # Run, pc[a] = 99 \/ Queued(a), Ahead(a, Run, 8),
               pc[a] = 99 \/ Clock(a) <= 5
        PROVE  Ahead(a, Run, 8)'
    <2>1. t = Run /\ Ends(t) /\ Clock(a) + 8 > Clock(Run) => pc[a] = 99
      BY <1>4, <1>5, TypeFacts
    <2> QED BY <1>0, <1>3, <1>5, <2>1, TaskNames, TasksDiffer, ResumeKeepsAhead
  <1>6. \A m, n \in 1..lines : m < n => Ahead(Report(m), Report(n), 0)'
    <2> SUFFICES ASSUME NEW m \in 1..lines, NEW n \in 1..lines, m < n
                 PROVE  Ahead(Report(m), Report(n), 0)'
      OBVIOUS
    <2>1. Ahead(Report(m), Report(n), 0)
      BY DEF Order
    <2>2. m # n
      BY TypeFacts
    <2>3. Report(m) # Report(n) /\ Report(n) \notin {Run, Title, Count, User}
      BY <2>2, TasksDiffer
    <2>4. /\ Report(m) \in Tasks /\ Report(n) \in Tasks
          /\ pc[Report(m)] = 99 \/ Queued(Report(m))
          /\ pc[Report(m)] = 99 \/ Clock(Report(m)) <= 5
      BY Flows
    <2>5. t = Report(n) /\ Ends(t) /\ Clock(Report(m)) + 0 > Clock(t) => pc[Report(m)] = 99
      <3>1. t = Report(n) /\ Ends(t) => Clock(t) = 5
        BY <1>0, <2>3, Endings
      <3> QED BY <2>4, <3>1, TypeFacts
    <2> QED BY <1>0, <1>3, <2>1, <2>3, <2>4, <2>5, ResumeKeepsAhead
  <1>7. \A n \in 1..lines : Ahead(Report(n), Run, 8)'
    BY <1>5, Flows, TasksDiffer DEF Order
  <1>8. lines > 0 => Ahead(Detect, Run, 8)'
    BY <1>5, Flows, TaskNames, TasksDiffer DEF Order
  <1>9. Clock(Title)' \in {1, 2} => Ahead(Title, Run, 8)'
    <2> SUFFICES ASSUME Clock(Title)' \in {1, 2}
                 PROVE  Ahead(Title, Run, 8)'
      OBVIOUS
    <2>1. CASE Title \in Range(Spawned(t))
      <3>1. t = Run /\ pc[Run] = 2 /\ Clock(Title)' = 1
        BY <1>1, <1>2, <2>1
      <3>2. Length(Run) # 2
        BY DEF Length
      <3>3. Clock(Run)' = 6
        BY <1>0, <1>2, <3>1, <3>2, TasksDiffer, Endings
      <3>4. Clock(Title)' + 8 > Clock(Run)'
        BY <3>1, <3>3
      <3> QED BY <3>4 DEF Ahead
    <2>2. CASE Title \notin Range(Spawned(t))
      <3>1. Clock(Title) \in {1, 2}
        <4>1. CASE t = Title
          <5>1. pc[Title] \in Nat /\ 2 * (pc[Title] + 1) \in {1, 2}
            BY <1>2, <4>1, TypeFacts, TaskNames
          <5>2. pc[Title] = 0
            BY <5>1
          <5> QED BY <1>2, <4>1, <5>2
        <4>2. CASE t # Title
          BY <1>2, <2>2, <4>2, TaskNames
        <4> QED BY <4>1, <4>2
      <3>2. Ahead(Title, Run, 8) /\ Queued(Title) /\ Clock(Title) <= 5
        BY <3>1, Flows DEF Order
      <3> QED BY <1>5, <3>2, TaskNames, TasksDiffer
    <2> QED BY <2>1, <2>2
  <1>10. seen'[Run].ok /\ lines > 0 /\ CountStands' => Ahead(Count, Run, 12)'
    <2> SUFFICES ASSUME seen[Run].ok, lines > 0, CountStands'
                 PROVE  Ahead(Count, Run, 12)'
      BY <1>1
    <2>1. /\ pc'[Count] \in 4..7 /\ Clock(Count)' >= 9 /\ seen[Count].applied
          /\ pc[Count] \in Nat /\ Count \in Tasks
      BY <1>1, TypeFacts, TaskNames DEF CountStands
    <2>2. Count \notin Range(Spawned(t))
      <3>1. Count \in Range(Spawned(t)) => pc'[Count] = 0
        BY <1>1, <1>2, TaskNames, TasksDiffer
      <3> QED BY <2>1, <3>1
    <2>3. pc[Count] \in 4..7 /\ Clock(Count) >= 9
      <3>1. CASE t = Count
        <4>1. ~Ends(t)
          BY <1>2, <2>1, <3>1
        <4>2. pc[Count] + 1 \in 4..7 /\ 2 * (pc[Count] + 1) >= 9
          BY <1>2, <2>1, <3>1, <4>1
        <4>3. pc[Count] \in 4..7
          BY <2>1, <4>2
        <4> QED BY <1>2, <3>1, <4>3
      <3>2. CASE t # Count
        BY <1>2, <2>1, <2>2, <3>2
      <3> QED BY <3>1, <3>2
    <2>4. Ahead(Count, Run, 12) /\ Queued(Count) /\ Clock(Count) <= 15
      BY <2>1, <2>3, Flows DEF Order, CountStands
    <2>5. t = Run /\ Ends(t) => ~(Clock(Count) + 12 > Clock(Run))
      BY <1>4, <2>4, TypeFacts, TaskNames
    <2> QED BY <1>0, <1>3, <2>4, <2>5, TaskNames, TasksDiffer, ResumeKeepsAhead
  <1> QED BY <1>1, <1>6, <1>7, <1>8, <1>9, <1>10 DEF Order

LEMMA LineKeepsOrder ==
  ASSUME Typed, Queues, Created, Order, Values, Line
  PROVE  Order'
  <1>1. /\ UNCHANGED <<row, pc, seen, dbq, events>> /\ lines' = lines + 1
        /\ Clock(Run) = 6 /\ lines + 1 \in 1..MaxFiles
    BY LineMoves
  <1>2. PICK s \in Seq(Tasks) :
            /\ ready' = ready \o s /\ Once(s)
            /\ Range(s) = IF lines = 0 THEN {Detect, Report(lines + 1)} ELSE {Report(lines + 1)}
            /\ \A x \in Range(s) : ~Queued(x) /\ x \in Tasks /\ x # Run /\ pc[x] = 0
    BY LineMoves
  <1>3. \A x \in Range(s) : ~Queued(x) /\ x # Run /\ pc[x] \in 0..Length(x) /\ pc[x] # 99
    <2>1. \A x \in Tasks : 0 \in 0..Length(x)
      BY TypeFacts
    <2> QED BY <1>2, <2>1
  <1>4. /\ \A x \in Range(s) : Clock(x)' = 1
        /\ \A x \in Tasks : x \notin Range(s) => Clock(x)' = Clock(x)
    <2>1. UNCHANGED <<pc, dbq>> /\ seen'[Run].ok = seen[Run].ok
      BY <1>1
    <2>2. /\ \A x \in Range(s) : Clock(x)' = 2 * pc[x] + 1
          /\ \A x \in Tasks : x \notin Range(s) => Clock(x)' = Clock(x)
      BY <1>2, <1>3, <2>1, JoinKeepsPlaces
    <2> QED BY <1>2, <2>2
  <1>5. 0 \in Offsets /\ 8 \in Offsets /\ 12 \in Offsets
    BY DEF Offsets
  <1>6. Run \notin Range(s) /\ Title \notin Range(s) /\ Count \notin Range(s)
    BY <1>2, TasksDiffer
  <1>7. Clock(Run)' = 6
    BY <1>1, <1>4, <1>6, TaskNames
  <1>8. ASSUME NEW a \in Tasks, NEW b \in Tasks, b \notin Range(s), NEW d \in Offsets,
               Ahead(a, b, d), pc[a] = 99 \/ Queued(a)
        PROVE  Ahead(a, b, d)'
    <2>1. \A x \in Range(s) : ~Queued(x) /\ pc[x] # 99
      BY <1>3
    <2> QED BY <1>1, <1>2, <1>8, <2>1, JoinKeepsAhead
  <1>9. \A n \in 1..lines : Report(n) \notin Range(s)
    <2>1. \A n \in 1..lines : n # lines + 1
      BY TypeFacts
    <2> QED BY <1>2, <2>1, TasksDiffer
  <1>10. \A m, n \in 1..lines' : m < n => Ahead(Report(m), Report(n), 0)'
    <2> SUFFICES ASSUME NEW m \in 1..(lines + 1), NEW n \in 1..(lines + 1), m < n
                 PROVE  Ahead(Report(m), Report(n), 0)'
      BY <1>1
    <2>1. m \in 1..lines
      BY TypeFacts
    <2>2. CASE n \in 1..lines
      BY <1>5, <1>8, <1>9, <2>1, <2>2, Flows DEF Order
    <2>3. CASE n = lines + 1
      <3>1. Report(n) \in Range(s) /\ Clock(Report(n))' = 1
        BY <1>2, <1>4, <2>3
      <3>2. /\ Report(m) \in Tasks /\ Clock(Report(m)) > 0 /\ Clock(Report(m)) \in Nat
            /\ Clock(Report(m))' = Clock(Report(m)) /\ pc[Report(m)] \in Nat
        BY <1>4, <1>9, <2>1, Flows, TypeFacts
      <3>3. CASE Clock(Report(m)) > 1
        <4>1. Clock(Report(m))' + 0 > Clock(Report(n))'
          BY <3>1, <3>2, <3>3
        <4> QED BY <4>1 DEF Ahead
      <3>4. CASE Clock(Report(m)) = 1
        <4>1. Report(m) \in Range(ready)
          BY <3>2, <3>4 DEF Clock
        <4>2. \A x \in Range(s) : ~Queued(x)
          BY <1>3
        <4>3. Precedes(ready', Report(m), Report(n))
          BY <1>1, <1>2, <3>1, <4>1, <4>2, JoinMoves
        <4>4. Clock(Report(m))' + 0 = Clock(Report(n))'
          BY <3>1, <3>2, <3>4
        <4> QED BY <4>3, <4>4 DEF Ahead
      <3> QED BY <3>2, <3>3, <3>4
    <2>4. lines \in Nat
      BY TypeFacts
    <2>5. n \in 1..lines \/ n = lines + 1
      BY <2>4
    <2> QED BY <2>2, <2>3, <2>5
  <1>11. \A n \in 1..lines' : Ahead(Report(n), Run, 8)'
    <2> SUFFICES ASSUME NEW n \in 1..(lines + 1)
                 PROVE  Ahead(Report(n), Run, 8)'
      BY <1>1
    <2>1. CASE n \in 1..lines
      BY <1>5, <1>6, <1>8, <2>1, Flows, TaskNames DEF Order
    <2>2. CASE n = lines + 1
      <3>1. Clock(Report(n))' + 8 > Clock(Run)'
        BY <1>2, <1>4, <1>7, <2>2
      <3> QED BY <3>1 DEF Ahead
    <2> QED BY <2>1, <2>2, TypeFacts
  <1>12. Ahead(Detect, Run, 8)'
    <2>1. CASE lines = 0
      <3>1. Clock(Detect)' + 8 > Clock(Run)'
        BY <1>2, <1>4, <1>7, <2>1
      <3> QED BY <3>1 DEF Ahead
    <2>2. CASE lines # 0
      <3>1. lines > 0
        BY <2>2, TypeFacts
      <3> QED BY <1>5, <1>6, <1>8, <3>1, Flows, TaskNames DEF Order
    <2> QED BY <2>1, <2>2
  <1>13. Clock(Title)' \in {1, 2} => Ahead(Title, Run, 8)'
    BY <1>4, <1>5, <1>6, <1>8, Flows, TaskNames DEF Order
  <1>14. CountStands' => Ahead(Count, Run, 12)'
    <2> SUFFICES ASSUME CountStands'
                 PROVE  Ahead(Count, Run, 12)'
      OBVIOUS
    <2>1. Clock(Count)' = Clock(Count) /\ Clock(Count) \in Nat
      BY <1>4, <1>6, TypeFacts, TaskNames
    <2>2. Clock(Count)' + 12 > Clock(Run)'
      BY <1>7, <2>1 DEF CountStands
    <2> QED BY <2>2 DEF Ahead
  <1> QED BY <1>10, <1>11, <1>12, <1>13, <1>14 DEF Order

LEMMA IdleKeepsOrder ==
  ASSUME Typed, Queues, Created, Order, Answer(Count) \/ Answer(Title) \/ Rename
  PROVE  Order'
  <1>1. PICK t \in {Count, Title, User} :
           /\ ready' = ready \o <<t>> /\ <<t>> \in Seq(Tasks) /\ Once(<<t>>) /\ Range(<<t>>) = {t}
           /\ ~Queued(t) /\ t # Run /\ pc[t] \in 0..Length(t)
           /\ t = User \/ pc[t] = 3
           /\ UNCHANGED <<row, pc, dbq, lines, events>>
           /\ \A x \in Tasks : seen'[x].ok = seen[x].ok /\ seen'[x].applied = seen[x].applied
    BY IdleMoves
  <1>2. t \in Tasks /\ pc[t] # 99
    BY <1>1, TaskNames, TaskLengths
  <1> DEFINE s == <<t>>
  <1>3. /\ s \in Seq(Tasks) /\ Once(s) /\ Range(s) = {t} /\ ready' = ready \o s
        /\ UNCHANGED <<pc, dbq, lines>>
        /\ \A x \in Range(s) : ~Queued(x) /\ x # Run /\ pc[x] \in 0..Length(x) /\ pc[x] # 99
    BY <1>1, <1>2
  <1> HIDE DEF s
  <1>4. Clock(t)' = 2 * pc[t] + 1 /\ \A x \in Tasks : x # t => Clock(x)' = Clock(x)
    <2>1. seen'[Run].ok = seen[Run].ok
      BY <1>1, TaskNames
    <2>2. \A x \in Range(s) : ~Queued(x) /\ x # Run /\ pc[x] \in 0..Length(x)
      BY <1>3
    <2> QED BY <1>3, <2>1, <2>2, JoinKeepsPlaces
  <1>5. 0 \in Offsets /\ 8 \in Offsets /\ 12 \in Offsets
    BY DEF Offsets
  <1>6. ASSUME NEW a \in Tasks, NEW b \in Tasks, b # t, NEW d \in Offsets,
               Ahead(a, b, d), pc[a] = 99 \/ Queued(a)
        PROVE  Ahead(a, b, d)'
    <2>1. \A x \in Range(s) : ~Queued(x) /\ pc[x] # 99
      BY <1>3
    <2>2. b \notin Range(s)
      BY <1>3, <1>6
    <2> QED BY <1>3, <1>6, <2>1, <2>2, JoinKeepsAhead
  <1>7. /\ \A n \in 1..lines : Report(n) \in Tasks /\ Report(n) # t
        /\ Run \in Tasks /\ Title \in Tasks /\ Count \in Tasks /\ Detect \in Tasks
    BY <1>1, Flows, TaskNames, TasksDiffer
  <1>8. \A m, n \in 1..lines : m < n => Ahead(Report(m), Report(n), 0)'
    BY <1>5, <1>6, <1>7, Flows DEF Order
  <1>9. \A n \in 1..lines : Ahead(Report(n), Run, 8)'
    BY <1>1, <1>5, <1>6, <1>7, Flows DEF Order
  <1>10. lines > 0 => Ahead(Detect, Run, 8)'
    BY <1>1, <1>5, <1>6, <1>7, Flows DEF Order
  <1>11. Clock(Title)' \in {1, 2} => Ahead(Title, Run, 8)'
    <2>1. Clock(Title)' \in {1, 2} => t # Title
      BY <1>1, <1>4, TasksDiffer
    <2>2. Clock(Title)' \in {1, 2} => Clock(Title) \in {1, 2}
      BY <1>4, <1>7, <2>1
    <2> QED BY <1>1, <1>5, <1>6, <1>7, <2>2, Flows DEF Order
  <1>12. seen'[Run].ok /\ lines > 0 /\ CountStands' => Ahead(Count, Run, 12)'
    <2> SUFFICES ASSUME seen'[Run].ok, lines > 0, CountStands'
                 PROVE  Ahead(Count, Run, 12)'
      OBVIOUS
    <2>1. pc[Count] \in 4..7 /\ Clock(Count)' >= 9 /\ seen[Count].applied /\ seen[Run].ok
      BY <1>1, <1>3, <1>7 DEF CountStands
    <2>2. t # Count
      BY <1>1, <2>1, TasksDiffer
    <2>3. CountStands
      BY <1>4, <1>7, <2>1, <2>2 DEF CountStands
    <2> QED BY <1>1, <1>5, <1>6, <1>7, <2>1, <2>3, Flows DEF Order
  <1> QED BY <1>3, <1>8, <1>9, <1>10, <1>11, <1>12 DEF Order

LEMMA ExitKeepsOrder ==
  ASSUME Typed, Queues, Created, Order, Exit
  PROVE  Order'
  <1>1. /\ pc[Run] = 3 /\ pc' = [pc EXCEPT ![Run] = 4] /\ lines' = lines
        /\ \A x \in Tasks : seen'[x].applied = seen[x].applied
        /\ \A x \in Tasks : IF x = Run THEN Clock(x) = 6 /\ Clock(x)' = 8 ELSE Clock(x)' = Clock(x)
    BY ExitMoves
  <1>2. 0 \in Offsets /\ 8 \in Offsets
    BY DEF Offsets
  <1>3. \A m, n \in 1..lines : m < n => Ahead(Report(m), Report(n), 0)'
    <2> SUFFICES ASSUME NEW m \in 1..lines, NEW n \in 1..lines, m < n
                 PROVE  Ahead(Report(m), Report(n), 0)'
      OBVIOUS
    <2>1. Ahead(Report(m), Report(n), 0) /\ Report(m) \in Tasks /\ Report(n) \in Tasks
      BY Flows DEF Order
    <2>2. m # n
      BY TypeFacts
    <2>3. Report(m) # Report(n) /\ Report(m) # Run /\ Report(n) # Run
      BY <2>2, TasksDiffer
    <2> QED BY <1>2, <2>1, <2>3, ExitKeepsAhead
  <1>4. \A n \in 1..lines : Ahead(Report(n), Run, 8)'
    BY <1>2, Flows, TaskNames, TasksDiffer, ExitKeepsAhead DEF Order
  <1>5. lines > 0 => Ahead(Detect, Run, 8)'
    BY <1>2, Flows, TaskNames, TasksDiffer, ExitKeepsAhead DEF Order
  <1>6. Clock(Title)' \in {1, 2} => Ahead(Title, Run, 8)'
    <2>1. Clock(Title)' = Clock(Title) /\ Clock(Run)' = 8
      BY <1>1, TaskNames, TasksDiffer
    <2>2. Clock(Title)' \in {1, 2} => Clock(Title)' + 8 > Clock(Run)'
      BY <2>1
    <2> QED BY <2>2 DEF Ahead
  <1>7. CountStands' => Ahead(Count, Run, 12)'
    <2>1. Clock(Count)' = Clock(Count) /\ Clock(Run)' = 8 /\ Clock(Count) \in Nat
      BY <1>1, TypeFacts, TaskNames, TasksDiffer
    <2>2. Clock(Count)' >= 9 => Clock(Count)' + 12 > Clock(Run)'
      BY <2>1
    <2> QED BY <2>2 DEF Ahead, CountStands
  <1> QED BY <1>1, <1>3, <1>4, <1>5, <1>6, <1>7 DEF Order

-----------------------------------------------------------------------------
(* The row                                                                 *)

\* When the database serves a report no later one has written, and the run has not
\* read the final counts.
LEMMA ServedReport ==
  ASSUME Typed, Queues, Created, Order, Serve, NEW n \in 1..MaxFiles,
         Report(n) = Head(dbq), pc[Report(n)] = 1
  PROVE  /\ n \in 1..lines
         /\ Clock(Run) <= 10
         /\ \A m \in 1..MaxFiles : m < n => Clock(Report(m)) > 2
  <1> DEFINE t == Report(n)
  <1>1. t \in Tasks /\ t \notin Range(ready) /\ Clock(t) = 2
    BY ServeMoves, ServeClocks
  <1>2. /\ \A a : ~Precedes(dbq, a, t)
        /\ \A a : ~Precedes(ready, a, t)
    <2>1. \A a : Precedes(ready, a, t) => t \in Range(ready)
      BY DEF Precedes, Range, Queues
    <2> QED BY <1>1, <2>1, ServeMoves
  <1>3. n \in 1..lines
    BY <1>1, TypeFacts DEF Created
  <1>4. Clock(Run) <= 10
    <2>1. Ahead(t, Run, 8)
      BY <1>3 DEF Order
    <2>2. Clock(t) + 8 > Clock(Run) \/ Clock(t) + 8 = Clock(Run)
      BY <2>1 DEF Ahead
    <2> QED BY <1>1, <2>2, TypeFacts, TaskNames
  <1>5. ASSUME NEW m \in 1..MaxFiles, m < n
        PROVE  Clock(Report(m)) > 2
    <2>1. m \in 1..lines
      BY <1>3, <1>5, TypeFacts
    <2>2. Ahead(Report(m), t, 0)
      BY <1>3, <1>5, <2>1 DEF Order
    <2>3. CASE pc[Report(m)] = 99
      BY <2>3 DEF Clock
    <2>4. CASE Clock(Report(m)) + 0 > Clock(t)
      BY <1>1, <2>4, TypeFacts, TaskNames
    <2> QED BY <1>2, <2>2, <2>3, <2>4 DEF Ahead
  <1> QED BY <1>3, <1>4, <1>5

LEMMA ServeKeepsCounts ==
  ASSUME Typed, Queues, Created, Order, Values, Serve
  PROVE  /\ Reported => row'.done >= row.done
         /\ Reported' => row'.done <= lines
         /\ Reported' => \A n \in 1..MaxFiles : Clock(Report(n))' <= 2 => row'.done < n
         /\ seen[Run].ok /\ Clock(Run)' >= 21 =>
                row'.done = lines /\ (lines > 0 => row'.total = lines)
  <1>0. PICK t : t = Head(dbq)
    OBVIOUS
  <1>1. t \in Tasks /\ pc[t] \in 1..Length(t) /\ Clock(t) = 2 * pc[t]
    BY <1>0, ServeMoves, ServeClocks
  <1>2. \A x \in Tasks : Clock(x)' = IF x = t THEN Clock(x) + 1 ELSE Clock(x)
    BY <1>0, ServeClocks
  <1>3. /\ row.done \in Nat /\ lines \in Nat /\ (Reported => row.done <= lines)
        /\ Reported => \A n \in 1..MaxFiles : Clock(Report(n)) <= 2 => row.done < n
        /\ seen[Run].ok /\ Clock(Run) >= 21 => row.done = lines /\ (lines > 0 => row.total = lines)
    BY TypeFacts DEF Values
  <1>4. \A x \in Tasks : Clock(x) \in Nat /\ pc[x] \in Nat
    BY TypeFacts
  <1>5. ASSUME NEW n \in 1..MaxFiles, Clock(Report(n))' <= 2
        PROVE  Report(n) # t /\ Clock(Report(n)) <= 2
    <2>1. Report(n) \in Tasks
      BY TaskNames
    <2>2. Report(n) # t
      BY <1>1, <1>2, <1>4, <1>5, <2>1
    <2> QED BY <1>2, <1>5, <2>1, <2>2
  <1>6. CASE t = Run /\ pc[t] = 10
    <2>1. row'.done = lines /\ row'.total = lines
      BY <1>0, <1>6, ServedRow
    <2>2. ASSUME NEW n \in 1..MaxFiles, Clock(Report(n))' <= 2
          PROVE  lines < n
      <3>1. SUFFICES ASSUME n <= lines
                     PROVE  FALSE
        BY <1>3
      <3>2. n \in 1..lines /\ Report(n) \in Tasks
        BY <1>3, <3>1, TaskNames
      <3>3. Ahead(Report(n), Run, 8)
        BY <3>2 DEF Order
      <3>4. Clock(Report(n)) <= 2 /\ Clock(Run) = 20
        BY <1>1, <1>5, <1>6, <2>2
      <3>5. pc[Report(n)] # 99
        BY <3>4 DEF Clock
      <3> QED BY <1>4, <3>2, <3>3, <3>4, <3>5 DEF Ahead
    <2> QED BY <1>3, <2>1, <2>2
  <1>7. CASE t \notin {Run, Count, Title, User, Detect} /\ pc[t] = 1
    <2>1. PICK n \in 1..MaxFiles : t = Report(n)
      BY <1>1, <1>7, TaskNames
    <2>2. /\ n \in 1..lines /\ Clock(Run) <= 10
          /\ \A m \in 1..MaxFiles : m < n => Clock(Report(m)) > 2
      BY <1>0, <1>7, <2>1, ServedReport
    <2>3. row'.done = n
      BY <1>0, <1>7, <2>1, ServedRow, TaskNames
    <2>4. Reported => row.done < n
      BY <1>1, <1>3, <1>7, <2>1
    <2>5. ASSUME NEW m \in 1..MaxFiles, Clock(Report(m))' <= 2
          PROVE  n < m
      <3>1. m # n /\ ~(m < n)
        BY <1>4, <1>5, <2>1, <2>2, <2>5, TaskNames
      <3> QED BY <3>1
    <2>6. Clock(Run)' <= 10
      BY <1>2, <1>7, <2>2, TaskNames
    <2>7. ~(Clock(Run)' >= 21)
      BY <1>2, <1>4, <1>7, <2>6, TaskNames
    <2> QED BY <1>3, <2>2, <2>3, <2>4, <2>5, <2>7
  <1>8. CASE ~(t = Run /\ pc[t] = 10) /\ ~(t \notin {Run, Count, Title, User, Detect} /\ pc[t] = 1)
    <2>1. row'.done = row.done /\ (row'.total = row.total \/ row.total = 0)
      BY <1>0, <1>8, ServedRow
    <2>5. ASSUME Reported'
          PROVE  Reported
      <3>1. PICK n \in 1..MaxFiles : Clock(Report(n))' >= 3
        BY <2>5 DEF Reported
      <3>2. Report(n) \in Tasks /\ Report(n) \notin {Run, Count, Title, User, Detect}
        BY TaskNames, TasksDiffer
      <3>3. CASE Report(n) = t
        <4>1. pc[t] # 1 /\ pc[t] \in Nat \ {0} /\ Clock(t) = 2 * pc[t]
          BY <1>1, <1>4, <1>8, <3>2, <3>3
        <4>2. Clock(t) >= 3
          BY <4>1
        <4> QED BY <3>3, <4>2 DEF Reported
      <3>4. CASE Report(n) # t
        BY <1>2, <3>1, <3>2, <3>4 DEF Reported
      <3> QED BY <3>3, <3>4
    <2>2. Reported => \A n \in 1..MaxFiles : Clock(Report(n))' <= 2 => row'.done < n
      BY <1>3, <1>5, <2>1
    <2>3. ASSUME Clock(Run)' >= 21
          PROVE  Clock(Run) >= 21
      <3>1. CASE t = Run
        <4>1. 2 * pc[t] + 1 >= 21 /\ pc[t] # 10
          BY <1>1, <1>2, <1>8, <2>3, <3>1
        <4> QED BY <1>1, <1>4, <3>1, <4>1
      <3>2. CASE t # Run
        BY <1>2, <2>3, <3>2, TaskNames
      <3> QED BY <3>1, <3>2
    <2>4. lines > 0 /\ row.total = lines => row'.total = lines
      BY <1>3, <2>1
    <2> QED BY <1>3, <2>1, <2>2, <2>3, <2>4, <2>5
  <1> QED BY <1>6, <1>7, <1>8

LEMMA ServeKeepsValues ==
  ASSUME Typed, Queues, Created, Order, Values, DoneIsLast, Serve
  PROVE  Values' /\ DoneIsLast'
  <1>0. PICK t : t = Head(dbq)
    OBVIOUS
  <1>1. /\ t \in Tasks /\ pc[t] \in 1..Length(t) /\ Clock(t) = 2 * pc[t]
        /\ UNCHANGED <<pc, lines, events>>
    BY <1>0, ServeMoves, ServeClocks
  <1>2. \A x \in Tasks : Clock(x)' = IF x = t THEN Clock(x) + 1 ELSE Clock(x)
    BY <1>0, ServeClocks
  <1>3. \A x \in Tasks : Clock(x) \in Nat /\ pc[x] \in Nat
    BY TypeFacts
  <1>4. /\ seen'[Run].row = IF t = Run /\ pc[t] \in {4, 8} THEN row ELSE seen[Run].row
        /\ seen'[Title].row = IF t = Title /\ pc[t] = 1 THEN row ELSE seen[Title].row
        /\ seen'[Count].applied = IF t = Count /\ pc[t] = 4 THEN row' # row ELSE seen[Count].applied
        /\ seen'[Run].ok = seen[Run].ok
    BY <1>0, ServedSeen, TaskNames
  <1>5. /\ Reported' => row'.done <= lines
        /\ Reported' => \A n \in 1..MaxFiles : Clock(Report(n))' <= 2 => row'.done < n
        /\ seen[Run].ok /\ Clock(Run)' >= 21 =>
               row'.done = lines /\ (lines > 0 => row'.total = lines)
    BY ServeKeepsCounts
  <1>6. Clock(Detect)' >= 3 => row'.dir = "found"
    <2> SUFFICES ASSUME Clock(Detect)' >= 3
                 PROVE  row'.dir = "found"
      OBVIOUS
    <2>1. CASE t = Detect /\ pc[t] = 1
      BY <1>0, <2>1, ServedRow
    <2>2. CASE ~(t = Detect /\ pc[t] = 1)
      <3>1. Clock(Detect) >= 3
        <4>1. CASE t = Detect
          <5>1. pc[t] >= 2
            BY <1>1, <1>3, <2>2, <4>1
          <5> QED BY <1>1, <1>3, <4>1, <5>1
        <4>2. CASE t # Detect
          BY <1>2, <4>2, TaskNames
        <4> QED BY <4>1, <4>2
      <3> QED BY <1>0, <3>1, ServedRow DEF Values
    <2> QED BY <2>1, <2>2
  <1>7. seen[Run].ok /\ lines > 0 /\ Clock(Run)' >= 17 => seen'[Run].row.dir = "found"
    <2> SUFFICES ASSUME seen[Run].ok, lines > 0, Clock(Run)' >= 17
                 PROVE  seen'[Run].row.dir = "found"
      OBVIOUS
    <2>1. CASE t = Run /\ pc[t] = 8
      <3>1. Ahead(Detect, Run, 8) /\ Clock(Run) = 16
        BY <1>1, <2>1 DEF Order
      <3>2. Clock(Detect) >= 3
        <4>1. CASE pc[Detect] = 99
          BY <4>1 DEF Clock
        <4>2. CASE pc[Detect] # 99
          BY <1>3, <3>1, <4>2, TaskNames DEF Ahead
        <4> QED BY <4>1, <4>2
      <3> QED BY <1>4, <2>1, <3>2 DEF Values
    <2>2. CASE t = Run /\ pc[t] # 8
      <3>1. pc[t] >= 9
        BY <1>1, <1>2, <1>3, <2>2
      <3>2. Clock(Run) >= 17 /\ pc[t] \notin {4, 8}
        BY <1>1, <1>3, <2>2, <3>1
      <3> QED BY <1>4, <3>2 DEF Values
    <2>3. CASE t # Run
      <3>1. Clock(Run) >= 17
        BY <1>2, <2>3, TaskNames
      <3> QED BY <1>4, <2>3, <3>1 DEF Values
    <2> QED BY <2>1, <2>2, <2>3
  <1>8. row'.state = "done" => Clock(Run)' >= 25
    <2>1. Clock(Run) >= 25 => Clock(Run)' >= 25
      BY <1>2, <1>3, TaskNames
    <2>2. t = Run /\ pc[t] = 12 => Clock(Run)' >= 25
      BY <1>1, <1>2
    <2> QED BY <1>0, <2>1, <2>2, ServedRow DEF Values
  <1>9. seen'[Title].row.state # "done"
    <2>1. CASE t = Title /\ pc[t] = 1
      <3>1. Ahead(Title, Run, 8) /\ Clock(Title) = 2
        BY <1>1, <2>1 DEF Order
      <3>2. ~(Clock(Run) >= 25)
        BY <1>3, <2>1, <3>1, TaskNames DEF Ahead
      <3> QED BY <1>4, <2>1, <3>2 DEF Values
    <2>2. CASE ~(t = Title /\ pc[t] = 1)
      BY <1>4, <2>2 DEF Values
    <2> QED BY <2>1, <2>2
  <1>10. pc[Count] \in 6..7 => seen'[Count].applied
    <2>1. pc[Count] \in 6..7 => ~(t = Count /\ pc[t] = 4)
      OBVIOUS
    <2> QED BY <1>4, <2>1 DEF Values
  <1>11. Values'
    <2>1. pc[Run] >= 4 => lines >= MinFiles
      BY DEF Values
    <2> QED BY <1>1, <1>4, <1>5, <1>6, <1>7, <1>8, <1>9, <1>10, <2>1 DEF Values
  <1>12. DoneIsLast'
    BY <1>1, <1>4 DEF DoneIsLast
  <1> QED BY <1>11, <1>12

\* What a task publishes when it ends: only the run announces success.
LEMMA PublishedFacts ==
  ASSUME Typed, Values, NEW t \in Tasks
  PROVE  /\ Published(t) \in Seq(PublishedEvents)
         /\ \A n \in 1..Len(Published(t)) :
               /\ Published(t)[n].state = "done" => t = Run /\ seen[Run].ok
               /\ Published(t)[n].type = "progress" => t \notin {Run, Title, User, Detect}
  <1>1. /\ seen[t] \in Held /\ seen[t].answer \in Nat /\ seen[t].ok \in BOOLEAN /\ seen[t].row \in Rows
        /\ seen[Title].row.state # "done"
    BY TypeFacts DEF Values
  <1>2. ASSUME NEW e \in PublishedEvents
        PROVE  <<e>> \in Seq(PublishedEvents) /\ Len(<<e>>) = 1 /\ <<e>>[1] = e
    OBVIOUS
  <1>3. <<>> \in Seq(PublishedEvents) /\ Len(<<>>) = 0
    OBVIOUS
  <1>4. CASE t = Run
    <2> DEFINE e == [type |-> "state", state |-> IF seen[t].ok THEN "done" ELSE "error", total |-> 0]
    <2>1. e \in PublishedEvents /\ e.type = "state" /\ (e.state = "done" => seen[Run].ok)
      BY <1>1, <1>4 DEF PublishedEvents
    <2>2. Published(t) = <<e>>
      BY <1>4, TaskNames, TasksDiffer, Zenon DEF Published
    <2> HIDE DEF e
    <2> QED BY <1>2, <1>4, <2>1, <2>2
  <1>5. CASE t = Count
    <2> DEFINE e == [type |-> "progress", state |-> "", total |-> seen[t].answer]
    <2>1. e \in PublishedEvents /\ e.state # "done"
      BY <1>1 DEF PublishedEvents
    <2>2. Published(t) = <<e>>
      BY <1>5, TaskNames, TasksDiffer, Zenon DEF Published
    <2> HIDE DEF e
    <2> QED BY <1>2, <1>5, <2>1, <2>2, TasksDiffer
  <1>6. CASE t = Title
    <2> DEFINE e == [type |-> "state", state |-> seen[t].row.state, total |-> 0]
    <2>1. seen[t].row.state \in {"queued", "active", "error"}
      BY <1>1, <1>6 DEF Rows
    <2>2. e \in PublishedEvents /\ e.type = "state" /\ e.state # "done"
      BY <2>1 DEF PublishedEvents
    <2>3. Published(t) = <<e>>
      BY <1>6, TaskNames, TasksDiffer, Zenon DEF Published
    <2> HIDE DEF e
    <2> QED BY <1>2, <2>2, <2>3
  <1>7. CASE t = User \/ t = Detect
    <2>1. Published(t) = <<>>
      BY <1>7, TaskNames, TasksDiffer DEF Published
    <2> QED BY <1>3, <2>1
  <1>8. CASE t \notin {Run, Count, Title, User, Detect}
    <2> DEFINE e == [type |-> "progress", state |-> "", total |-> 0]
    <2>1. t[1] = "progress"
      BY <1>8, TaskNames
    <2>2. e \in PublishedEvents /\ e.state # "done" /\ Published(t) = <<e>>
      BY <1>8, <2>1 DEF Published, PublishedEvents
    <2> HIDE DEF e
    <2> QED BY <1>2, <1>8, <2>2
  <1> QED BY <1>4, <1>5, <1>6, <1>7, <1>8

\* What a step adds to the events.
LEMMA ResumedEvents ==
  ASSUME Typed, Queues, Created, Values, Resume, NEW t, t = Head(ready)
  PROVE  /\ events' \in Seq(PublishedEvents) /\ Len(events) <= Len(events')
         /\ \A n \in 1..Len(events) : events'[n] = events[n]
         /\ \A n \in 1..Len(events') : n > Len(events) =>
               /\ Ends(t) /\ ~GivesUp(t)
               /\ events'[n].state = "done" => t = Run /\ seen[Run].ok
               /\ events'[n].type = "progress" => t \notin {Run, Title, User, Detect}
  <1>1. t \in Tasks /\ events' = IF Ends(t) /\ ~GivesUp(t) THEN events \o Published(t) ELSE events
    BY ResumeMoves
  <1>2. events \in Seq(PublishedEvents)
    BY DEF Typed
  <1> DEFINE p == Published(t)
  <1>3. /\ p \in Seq(PublishedEvents)
        /\ \A n \in 1..Len(p) : /\ p[n].state = "done" => t = Run /\ seen[Run].ok
                                /\ p[n].type = "progress" => t \notin {Run, Title, User, Detect}
    BY <1>1, PublishedFacts
  <1>4. events' = events \/ (Ends(t) /\ ~GivesUp(t) /\ events' = events \o p)
    BY <1>1
  <1> HIDE DEF p
  <1>5. CASE events' = events
    BY <1>2, <1>5
  <1>6. CASE Ends(t) /\ ~GivesUp(t) /\ events' = events \o p
    <2>1. /\ events' \in Seq(PublishedEvents) /\ Len(events') = Len(events) + Len(p)
          /\ Len(events) \in Nat /\ Len(p) \in Nat
          /\ \A n \in 1..Len(events) : events'[n] = events[n]
      BY <1>2, <1>3, <1>6
    <2>2. ASSUME NEW n \in 1..Len(events'), n > Len(events)
          PROVE  n - Len(events) \in 1..Len(p) /\ events'[n] = p[n - Len(events)]
      BY <1>2, <1>3, <1>6, <2>1, <2>2
    <2> QED BY <1>3, <1>6, <2>1, <2>2
  <1> QED BY <1>4, <1>5, <1>6

LEMMA ResumeKeepsValues ==
  ASSUME Typed, Queues, Created, Order, Values, DoneIsLast, Resume
  PROVE  Typed' /\ Values' /\ DoneIsLast'
  <1>0. PICK t : t = Head(ready)
    OBVIOUS
  <1>1. /\ t \in Tasks /\ t \in Range(ready) /\ pc[t] \in 0..Length(t) /\ UNCHANGED <<row, seen, lines>>
        /\ Ends(t) \/ pc[t] + 1 \in 1..Length(t)
        /\ Range(Spawned(t)) \subseteq {Title, Count}
    BY <1>0, ResumeMoves
  <1>2. /\ Clock(t) = 2 * pc[t] + 1
        /\ Clock(t)' = IF Ends(t) THEN 198 ELSE 2 * (pc[t] + 1)
        /\ \A x \in Tasks : x # t /\ x \notin {Title, Count} => Clock(x)' = Clock(x)
        /\ \A x \in Tasks : x # t => pc'[x] = pc[x]
        /\ pc'[t] = IF Ends(t) THEN 99 ELSE pc[t] + 1
    BY <1>0, <1>1, ResumeClocks
  <1>3. \A x \in Tasks : Clock(x) \in Nat /\ pc[x] \in Nat /\ Length(x) \in {2, 4, 5, 7, 13}
    BY TypeFacts
  <1>4. Typed'
    <2>1. /\ events' \in Seq(PublishedEvents)
      BY <1>0, ResumedEvents
    <2>2. pc' \in [Tasks -> Nat] /\ \A x \in Tasks : pc'[x] \in 0..Length(x)' \/ pc'[x] = 99
      BY ResumeKeepsPlaces
    <2> QED BY <1>1, <2>1, <2>2 DEF Typed
  <1>5. ASSUME NEW n \in 1..MaxFiles, Clock(Report(n))' <= 2
        PROVE  Clock(Report(n)) <= 2
    <2>1. Report(n) \in Tasks /\ Report(n) \notin {Title, Count}
      BY TaskNames, TasksDiffer
    <2>2. CASE Report(n) = t
      <3>1. ~Ends(t) /\ 2 * (pc[t] + 1) <= 2
        BY <1>2, <1>5, <2>2
      <3>2. pc[t] = 0
        BY <1>1, <1>3, <3>1
      <3> QED BY <1>2, <2>2, <3>2
    <2>3. CASE Report(n) # t
      BY <1>2, <1>5, <2>1, <2>3
    <2> QED BY <2>2, <2>3
  <1>6. Clock(Detect)' >= 3 => Clock(Detect) >= 3
    <2>1. CASE t = Detect
      <3>1. Length(t) = 2 /\ ~GivesUp(t)
        BY <2>1, TasksDiffer DEF Length, GivesUp
      <3>2. pc[t] = 0 => Clock(Detect)' = 2
        BY <1>2, <2>1, <3>1 DEF Ends
      <3>3. pc[t] # 0 => 2 * pc[t] + 1 >= 3
        BY <1>1, <1>3
      <3> QED BY <1>2, <2>1, <3>2, <3>3
    <2>2. CASE t # Detect
      BY <1>2, <2>2, TaskNames, TasksDiffer
    <2> QED BY <2>1, <2>2
  <1>7. /\ Clock(Run)' >= Clock(Run)
        /\ seen[Run].ok /\ Clock(Run)' >= 17 => Clock(Run) >= 17
        /\ seen[Run].ok /\ Clock(Run)' >= 21 => Clock(Run) >= 21
    <2>1. CASE t = Run /\ Ends(t)
      <3>1. Clock(Run) = IF seen[Run].ok THEN 27 ELSE 15
        BY <1>0, <2>1, TasksDiffer, Endings
      <3> QED BY <1>2, <2>1, <3>1
    <2>2. CASE t = Run /\ ~Ends(t)
      <3>1. Clock(Run)' = 2 * (pc[t] + 1) /\ Clock(Run) = 2 * pc[t] + 1 /\ pc[t] \in Nat
        BY <1>1, <1>2, <1>3, <2>2
      <3> QED BY <3>1
    <2>3. CASE t # Run
      <3>1. Clock(Run)' = Clock(Run) /\ Clock(Run) \in Nat
        BY <1>2, <1>3, <2>3, TaskNames, TasksDiffer
      <3> QED BY <3>1
    <2> QED BY <2>1, <2>2, <2>3
  <1>8. pc'[Run] >= 4 => lines >= MinFiles
    <2>1. CASE t = Run
      <3>1. pc[Run] # 3
        BY <1>1, <2>1 DEF Queues
      <3>2. Ends(t) => pc[Run] >= 4
        <4>1. Ends(t) => pc[Run] = Length(Run)
          BY <1>0, <2>1, TasksDiffer, Endings
        <4>2. Length(Run) = 13 \/ Length(Run) = 7
          BY TasksDiffer DEF Length
        <4> QED BY <4>1, <4>2
      <3>3. ~Ends(t) /\ pc'[Run] >= 4 => pc[Run] >= 4
        BY <1>1, <1>2, <1>3, <2>1, <3>1
      <3> QED BY <3>2, <3>3 DEF Values
    <2>2. CASE t # Run
      BY <1>2, <2>2, TaskNames DEF Values
    <2> QED BY <2>1, <2>2
  <1>9. pc'[Count] \in 6..7 => seen[Count].applied
    <2> SUFFICES ASSUME pc'[Count] \in 6..7
                 PROVE  seen[Count].applied
      OBVIOUS
    <2>1. CASE t = Count /\ pc[t] = 5
      <3>1. ~GivesUp(t)
        BY <1>2, <2>1 DEF Ends
      <3>2. Op(t) = "commit"
        BY <2>1, ScriptOf DEF Op, CountScript
      <3> QED BY <2>1, <3>1, <3>2 DEF GivesUp
    <2>2. CASE t = Count /\ pc[t] # 5
      <3>1. pc[Count] \in 6..7
        BY <1>1, <1>2, <1>3, <2>2
      <3> QED BY <3>1 DEF Values
    <2>3. CASE t # Count
      BY <1>2, <2>3, TaskNames DEF Values
    <2> QED BY <2>1, <2>2, <2>3
  <1>10. Values'
    <2>1. row.state = "done" => Clock(Run)' >= 25
      <3>1. row.state = "done" => Clock(Run) >= 25
        BY DEF Values
      <3>2. Clock(Run) \in Nat /\ Clock(Run)' \in Nat
        BY <1>2, <1>3, TaskNames, TasksDiffer
      <3> QED BY <1>7, <3>1, <3>2
    <2>3. ASSUME Reported'
          PROVE  Reported
      <3>1. PICK n \in 1..MaxFiles : Clock(Report(n))' >= 3
        BY <2>3 DEF Reported
      <3>2. Report(n) \in Tasks /\ Report(n) \notin {Title, Count}
        BY TaskNames, TasksDiffer
      <3>3. CASE Report(n) = t
        <4>1. pc[t] # 0
          BY <1>2, <3>1, <3>3 DEF Ends
        <4>2. Clock(t) >= 3
          BY <1>1, <1>2, <1>3, <4>1
        <4> QED BY <3>3, <4>2 DEF Reported
      <3>4. CASE Report(n) # t
        BY <1>2, <3>1, <3>2, <3>4 DEF Reported
      <3> QED BY <3>3, <3>4
    <2>4. Reported' => row.done <= lines
      BY <2>3 DEF Values
    <2>5. Reported' => \A n \in 1..MaxFiles : Clock(Report(n))' <= 2 => row.done < n
      BY <1>5, <2>3 DEF Values
    <2>2. /\ seen[Title].row.state # "done"
          /\ Clock(Detect)' >= 3 => row.dir = "found"
          /\ seen[Run].ok /\ lines > 0 /\ Clock(Run)' >= 17 => seen[Run].row.dir = "found"
          /\ seen[Run].ok /\ Clock(Run)' >= 21 => row.done = lines /\ (lines > 0 => row.total = lines)
      BY <1>5, <1>6, <1>7 DEF Values
    <2> QED BY <1>1, <1>8, <1>9, <2>1, <2>2, <2>4, <2>5 DEF Values
  <1>11. DoneIsLast'
    <2> SUFFICES ASSUME NEW n \in 1..Len(events'), events'[n].state = "done"
                 PROVE  pc'[Run] = 99 /\ seen[Run].ok
      BY <1>1 DEF DoneIsLast
    <2>1. /\ \A k \in 1..Len(events) : events'[k] = events[k]
          /\ n > Len(events) => Ends(t) /\ t = Run /\ seen[Run].ok
          /\ Len(events) \in Nat
      <3>1. events \in Seq(PublishedEvents)
        BY DEF Typed
      <3> QED BY <1>0, <3>1, ResumedEvents
    <2>2. CASE n > Len(events)
      BY <1>2, <2>1, <2>2
    <2>3. CASE ~(n > Len(events))
      <3>1. n \in 1..Len(events) /\ events[n].state = "done"
        BY <2>1, <2>3
      <3>2. pc[Run] = 99 /\ seen[Run].ok
        BY <3>1 DEF DoneIsLast
      <3>3. t # Run
        BY <1>1, <1>3, <3>2
      <3> QED BY <1>2, <3>2, <3>3, TaskNames
    <2> QED BY <2>2, <2>3
  <1> QED BY <1>4, <1>10, <1>11

LEMMA LineKeepsValues ==
  ASSUME Typed, Queues, Created, Values, DoneIsLast, Line
  PROVE  Values' /\ DoneIsLast'
  <1>1. /\ UNCHANGED <<row, pc, seen, dbq, events>> /\ lines' = lines + 1
        /\ pc[Run] = 3 /\ Clock(Run) = 6
    BY LineMoves
  <1>2. PICK s \in Seq(Tasks) :
            /\ ready' = ready \o s /\ Once(s)
            /\ Range(s) = IF lines = 0 THEN {Detect, Report(lines + 1)} ELSE {Report(lines + 1)}
            /\ \A x \in Range(s) : ~Queued(x) /\ x \in Tasks /\ x # Run /\ pc[x] = 0
    BY LineMoves
  <1>3. /\ \A x \in Range(s) : Clock(x)' = 1
        /\ \A x \in Tasks : x \notin Range(s) => Clock(x)' = Clock(x)
    <2>1. \A x \in Tasks : 0 \in 0..Length(x)
      BY TypeFacts
    <2>2. \A x \in Range(s) : ~Queued(x) /\ x # Run /\ pc[x] \in 0..Length(x)
      BY <1>2, <2>1
    <2>3. UNCHANGED <<pc, dbq>> /\ seen'[Run].ok = seen[Run].ok
      BY <1>1
    <2>4. /\ \A x \in Range(s) : Clock(x)' = 2 * pc[x] + 1
          /\ \A x \in Tasks : x \notin Range(s) => Clock(x)' = Clock(x)
      BY <1>2, <2>2, <2>3, JoinKeepsPlaces
    <2> QED BY <1>2, <2>4
  <1>4. Clock(Run)' = 6
    BY <1>1, <1>2, <1>3, TaskNames
  <1>13. ASSUME Reported'
         PROVE  Reported
    <2>1. PICK n \in 1..MaxFiles : Clock(Report(n))' >= 3
      BY <1>13 DEF Reported
    <2>2. Report(n) \in Tasks /\ Report(n) \notin Range(s)
      BY <1>3, <2>1, TaskNames
    <2> QED BY <1>3, <2>1, <2>2 DEF Reported
  <1>5. /\ row.done \in Nat /\ lines \in Nat /\ (Reported => row.done <= lines)
        /\ Reported => \A n \in 1..MaxFiles : Clock(Report(n)) <= 2 => row.done < n
    BY TypeFacts DEF Values
  <1>6. ASSUME Reported, NEW n \in 1..MaxFiles, Clock(Report(n))' <= 2
        PROVE  row.done < n
    <2>1. CASE Report(n) \in Range(s)
      <3>1. n = lines + 1
        BY <1>2, <2>1, TasksDiffer
      <3> QED BY <1>5, <1>6, <3>1
    <2>2. CASE Report(n) \notin Range(s)
      <3>1. Clock(Report(n)) <= 2
        BY <1>3, <1>6, <2>2, TaskNames
      <3> QED BY <1>5, <1>6, <3>1
    <2> QED BY <2>1, <2>2
  <1>7. Clock(Detect)' >= 3 => row.dir = "found"
    <2>1. CASE Detect \in Range(s)
      <3>1. Clock(Detect)' = 1
        BY <1>3, <2>1
      <3> QED BY <3>1
    <2>2. CASE Detect \notin Range(s)
      BY <1>3, <2>2, TaskNames DEF Values
    <2> QED BY <2>1, <2>2
  <1>8. row.state # "done"
    <2>1. ~(Clock(Run) >= 25)
      BY <1>1
    <2> QED BY <2>1 DEF Values
  <1>9. /\ Reported' => row.done <= lines + 1
        /\ Reported' => \A n \in 1..MaxFiles : Clock(Report(n))' <= 2 => row.done < n
    BY <1>5, <1>6, <1>13
  <1>10. ~(Clock(Run)' >= 17) /\ ~(Clock(Run)' >= 21) /\ ~(pc[Run] >= 4)
    BY <1>1, <1>4
  <1>11. Values'
    BY <1>1, <1>7, <1>8, <1>9, <1>10 DEF Values
  <1>12. DoneIsLast'
    BY <1>1 DEF DoneIsLast
  <1> QED BY <1>11, <1>12

LEMMA IdleKeepsValues ==
  ASSUME Typed, Queues, Created, Values, DoneIsLast, Answer(Count) \/ Answer(Title) \/ Rename
  PROVE  Values' /\ DoneIsLast'
  <1>1. PICK t \in {Count, Title, User} :
           /\ ready' = ready \o <<t>> /\ <<t>> \in Seq(Tasks) /\ Once(<<t>>) /\ Range(<<t>>) = {t}
           /\ ~Queued(t) /\ t # Run /\ pc[t] \in 0..Length(t)
           /\ UNCHANGED <<row, pc, dbq, lines, events>>
           /\ \A x \in Tasks : /\ seen'[x].ok = seen[x].ok /\ seen'[x].row = seen[x].row
                               /\ seen'[x].applied = seen[x].applied
    BY IdleMoves
  <1>2. \A x \in Tasks : x # t => Clock(x)' = Clock(x)
    <2> DEFINE s == <<t>>
    <2>1. /\ s \in Seq(Tasks) /\ Once(s) /\ Range(s) = {t} /\ ready' = ready \o s
          /\ UNCHANGED <<pc, dbq>> /\ seen'[Run].ok = seen[Run].ok
          /\ \A x \in Range(s) : ~Queued(x) /\ x # Run /\ pc[x] \in 0..Length(x)
      BY <1>1, TaskNames
    <2> HIDE DEF s
    <2> QED BY <2>1, JoinKeepsPlaces
  <1>3. /\ \A n \in 1..MaxFiles : Clock(Report(n))' = Clock(Report(n))
        /\ Clock(Run)' = Clock(Run) /\ Clock(Detect)' = Clock(Detect)
    BY <1>1, <1>2, TaskNames, TasksDiffer
  <1>4. /\ seen'[Run].ok = seen[Run].ok /\ seen'[Run].row = seen[Run].row
        /\ seen'[Title].row = seen[Title].row /\ seen'[Count].applied = seen[Count].applied
    BY <1>1, TaskNames
  <1>5. Values'
    BY <1>1, <1>3, <1>4 DEF Values, Reported
  <1>6. DoneIsLast'
    BY <1>1, <1>4 DEF DoneIsLast
  <1> QED BY <1>5, <1>6

LEMMA ExitKeepsValues ==
  ASSUME Typed, Queues, Created, Values, DoneIsLast, Exit
  PROVE  Values' /\ DoneIsLast'
  <1>1. /\ pc[Run] = 3 /\ pc' = [pc EXCEPT ![Run] = 4] /\ lines >= MinFiles
        /\ UNCHANGED <<row, ready, lines, events>>
        /\ \A x \in Tasks : seen'[x].row = seen[x].row /\ seen'[x].applied = seen[x].applied
        /\ \A x \in Tasks : IF x = Run THEN Clock(x) = 6 /\ Clock(x)' = 8 ELSE Clock(x)' = Clock(x)
    BY ExitMoves
  <1>2. /\ \A n \in 1..MaxFiles : Clock(Report(n))' = Clock(Report(n))
        /\ Clock(Run) = 6 /\ Clock(Run)' = 8 /\ Clock(Detect)' = Clock(Detect)
    BY <1>1, TaskNames, TasksDiffer
  <1>3. /\ seen'[Title].row = seen[Title].row /\ seen'[Count].applied = seen[Count].applied
        /\ pc'[Count] = pc[Count]
    BY <1>1, TaskNames, TasksDiffer DEF Typed
  <1>4. row.state # "done"
    <2>1. ~(Clock(Run) >= 25)
      BY <1>2
    <2> QED BY <2>1 DEF Values
  <1>5. ~(Clock(Run)' >= 17) /\ ~(Clock(Run)' >= 21)
    BY <1>2
  <1>6. Values'
    BY <1>1, <1>2, <1>3, <1>4, <1>5 DEF Values, Reported
  <1>7. DoneIsLast'
    BY <1>1 DEF DoneIsLast
  <1> QED BY <1>6, <1>7

-----------------------------------------------------------------------------
(* The theorems                                                            *)

LEMMA InitEstablishes == Init => IInv
  <1> SUFFICES ASSUME Init
               PROVE  IInv
    OBVIOUS
  <1>1. /\ row \in RowsBefore /\ pc = [t \in Tasks |-> 0] /\ seen = [t \in Tasks |-> Nothing]
        /\ ready = <<Run>> /\ dbq = <<>> /\ lines = 0 /\ events = <<>>
    BY DEF Init
  <1>2. /\ ready \in Seq(Tasks) /\ Once(ready) /\ Range(ready) = {Run}
        /\ dbq \in Seq(Tasks) /\ Once(dbq) /\ Range(dbq) = {}
    BY <1>1, TaskNames DEF Once, Range
  <1>3. NewRow \in Rows /\ NewRow.state = "queued" /\ row \in Rows /\ row.state = "queued"
    <2>1. NewRow \in Rows /\ NewRow.state = "queued"
      BY DEF NewRow, Rows
    <2>2. ASSUME NEW n \in Nat, NEW m \in Nat
          PROVE  LeftBy(n, m) \in Rows /\ LeftBy(n, m).state = "queued"
      BY DEF NewRow, LeftBy, Rows
    <2>3. Earlier \subseteq Nat /\ Earlier \cup {0} \subseteq Nat
      BY ProgressAssumption
    <2>4. CASE row = NewRow
      BY <2>1, <2>4
    <2>5. CASE row # NewRow
      <3>1. PICK n \in Earlier, m \in Earlier \cup {0} : row = LeftBy(n, m)
        BY <1>1, <2>5 DEF RowsBefore
      <3>2. n \in Nat /\ m \in Nat
        BY <2>3
      <3> QED BY <2>1, <2>2, <3>1, <3>2
    <2> QED BY <2>4, <2>5
  <1>4. Nothing \in Held /\ Nothing.row = NewRow /\ Nothing.ok
    BY <1>3 DEF Nothing, Held
  <1>5. \A t \in Tasks : 0 \in 0..Length(t)
    <2>1. \A t \in Tasks : Length(t) \in {2, 4, 5, 7, 13}
      BY TaskLengths
    <2> QED BY <2>1
  <1>6. Typed
    <2>1. events \in Seq(PublishedEvents)
      BY <1>1
    <2> QED BY <1>1, <1>3, <1>4, <1>5, <2>1, ProgressAssumption DEF Typed
  <1>7. Queues
    BY <1>1, <1>2, <1>5, TaskNames DEF Queues
  <1>8. \A t \in Tasks : Clock(t) = IF t = Run THEN 1 ELSE 0
    BY <1>1, <1>2 DEF Clock
  <1>9. Clock(Detect) = 0 /\ Clock(Title) = 0 /\ Clock(Count) = 0 /\ Clock(Run) = 1
        /\ \A n \in 1..MaxFiles : Clock(Report(n)) = 0
    BY <1>8, TaskNames, TasksDiffer
  <1>10. Created
    BY <1>1, <1>9 DEF Created
  <1>11. Order
    BY <1>1, <1>9 DEF Order
  <1>12. pc[Run] = 0 /\ pc[Count] = 0 /\ seen[Title].row.state = "queued"
    BY <1>1, <1>3, <1>4, TaskNames
  <1>13. Values
    BY <1>1, <1>3, <1>9, <1>12 DEF Values, Reported
  <1>14. DoneIsLast
    BY <1>1 DEF DoneIsLast
  <1> QED BY <1>6, <1>7, <1>10, <1>11, <1>13, <1>14 DEF IInv

LEMMA NextKeeps == IInv /\ [Next]_vars => IInv'
  <1> SUFFICES ASSUME IInv, [Next]_vars
               PROVE  IInv'
    OBVIOUS
  <1> USE DEF IInv
  <1>1. CASE Serve
    BY <1>1, ServeKeepsPlaces, ServeKeepsOrder, ServeKeepsValues
  <1>2. CASE Resume
    BY <1>2, ResumeKeepsPlaces, ResumeKeepsOrder, ResumeKeepsValues
  <1>3. CASE Line
    BY <1>3, LineKeepsPlaces, LineKeepsOrder, LineKeepsValues
  <1>4. CASE Exit
    BY <1>4, ExitKeepsPlaces, ExitKeepsOrder, ExitKeepsValues
  <1>5. CASE Answer(Count) \/ Answer(Title) \/ Rename
    BY <1>5, IdleKeepsPlaces, IdleKeepsOrder, IdleKeepsValues
  <1>6. CASE UNCHANGED vars
    <2>1. UNCHANGED <<row, pc, seen, ready, dbq, lines, events>>
      BY <1>6 DEF vars
    <2>2. \A t : Clock(t)' = Clock(t) /\ Length(t)' = Length(t) /\ Queued(t)' = Queued(t)
      BY <2>1 DEF Clock, Length, Queued
    <2>3. Typed' /\ Created' /\ Values' /\ DoneIsLast'
      BY <2>1, <2>2 DEF Typed, Created, Values, Reported, DoneIsLast
    <2>4. Queues'
      BY <2>1, <2>2 DEF Queues, Waiting
    <2>5. \A a, b, d : Ahead(a, b, d) => Ahead(a, b, d)'
      BY <2>1, <2>2 DEF Ahead
    <2>6. Order'
      BY <2>1, <2>2, <2>5 DEF Order, CountStands
    <2> QED BY <2>3, <2>4, <2>6
  <1> QED BY <1>1, <1>2, <1>3, <1>4, <1>5, <1>6 DEF Next, Step

LEMMA Invariance == Spec => []IInv
  <1>1. Init => IInv
    BY InitEstablishes
  <1>2. IInv /\ [Next]_vars => IInv'
    BY NextKeeps
  <1> QED BY <1>1, <1>2, PTL DEF Spec

\* A scraped title never replaces the one a user has set: set_title_if_missing checks and
\* writes in one statement of the database thread.
THEOREM UserTitlesStay == Spec => ChosenTitleStays
  <1>1. IInv /\ [Next]_vars => [row.title = "user" => row'.title = "user"]_vars
    <2> SUFFICES ASSUME IInv, Next, row.title = "user"
                 PROVE  row'.title = "user"
      OBVIOUS
    <2>1. CASE Serve
      BY <2>1, ServedRow DEF IInv
    <2>2. CASE ~Serve
      BY <2>2 DEF Next, Step, Resume, Line, Exit, Answer, Rename
    <2> QED BY <2>1, <2>2
  <1> QED BY <1>1, Invariance, PTL DEF Spec, ChosenTitleStays

LEMMA WrittenIsReported ==
  ASSUME IInv
  PROVE  Written <=> Reported
  <1>1. ASSUME NEW n \in 1..MaxFiles
        PROVE  pc[Report(n)] > 1 \/ (pc[Report(n)] = 1 /\ Report(n) \notin Range(dbq))
                 <=> Clock(Report(n)) >= 3
    <2> DEFINE t == Report(n)
    <2>1. t \in Tasks /\ t \notin {Run, Count, Title}
      BY TaskNames, TasksDiffer
    <2>2. pc[t] \in Nat
      BY <2>1, TypeFacts DEF IInv
    <2>3. pc[t] = 1 => t \in Range(ready) \/ t \in Range(dbq)
      BY <2>1, <2>2 DEF IInv, Queues, Queued, Waiting
    <2>4. ~(t \in Range(ready) /\ t \in Range(dbq))
      BY DEF IInv, Queues
    <2> HIDE DEF t
    <2>5. pc[t] > 1 \/ (pc[t] = 1 /\ t \notin Range(dbq)) <=> Clock(t) >= 3
      BY <2>2, <2>3, <2>4 DEF Clock
    <2> QED BY <2>5 DEF t
  <1> QED BY <1>1 DEF Written, Reported

\* From the first progress write of a run on files_done only rises, although nothing
\* awaits the writes of on_progress: they reach the database in the order of the lines,
\* and before the final count.
THEOREM DoneOnlyRises == Spec => CountsRise
  <1>1. IInv /\ [Next]_vars => [Written => row'.done >= row.done]_vars
    <2> SUFFICES ASSUME IInv, Next, Written
                 PROVE  row'.done >= row.done
      OBVIOUS
    <2>1. CASE Serve
      <3>1. Reported
        BY WrittenIsReported
      <3> QED BY <2>1, <3>1, ServeKeepsCounts DEF IInv
    <2>2. CASE ~Serve
      <3>1. row' = row
        BY <2>2 DEF Next, Step, Resume, Line, Exit, Answer, Rename
      <3>2. row.done \in Nat
        BY TypeFacts DEF IInv
      <3> QED BY <3>1, <3>2
    <2> QED BY <2>1, <2>2
  <1> QED BY <1>1, Invariance, PTL DEF Spec, CountsRise

\* The row the run reads for a pending rename has the directory that the first line of
\* the engine's output made known.
THEOREM DirectoryIsRead == Spec => []DirectoryIsKnown
  <1>1. IInv => DirectoryIsKnown
    <2> SUFFICES ASSUME IInv, pc[Run] \in 9..13, lines > 0, seen[Run].ok
                 PROVE  seen[Run].row.dir = "found"
      BY DEF DirectoryIsKnown
    <2>1. Clock(Run) >= 17
      BY DEF Clock
    <2> QED BY <2>1 DEF IInv, Values
  <1> QED BY <1>1, Invariance, PTL

\* With at least one line from the engine the counts published with the run's success are
\* the row's for good. Without one they are not: a probe's estimate may come after them.
THEOREM FinalCounts ==
  ASSUME MinFiles > 0
  PROVE  Spec => []FinalCountsStand
  <1>1. IInv => FinalCountsStand
    <2> SUFFICES ASSUME IInv, [type |-> "state", state |-> "done", total |-> 0] \in Range(events)
                 PROVE  row.done = lines /\ row.total = lines
      BY DEF FinalCountsStand
    <2>1. PICK n \in 1..Len(events) : events[n].state = "done"
      <3> DEFINE e == [type |-> "state", state |-> "done", total |-> 0]
      <3>1. e.state = "done" /\ e \in Range(events)
        OBVIOUS
      <3>2. DOMAIN events = 1..Len(events)
        BY DEF IInv, Typed
      <3> HIDE DEF e
      <3> QED BY <3>1, <3>2 DEF Range
    <2>2. pc[Run] = 99 /\ seen[Run].ok
      BY <2>1 DEF IInv, DoneIsLast
    <2>3. Clock(Run) >= 21 /\ pc[Run] >= 4
      BY <2>2 DEF Clock
    <2>4. lines > 0
      <3>1. lines >= MinFiles
        BY <2>3 DEF IInv, Values
      <3> QED BY <3>1, TypeFacts, ProgressAssumption DEF IInv
    <2> QED BY <2>2, <2>3, <2>4 DEF IInv, Values
  <1> QED BY <1>1, Invariance, PTL

\* Likewise no progress event follows the event of the run's success.
THEOREM ProgressPrecedesDone ==
  ASSUME MinFiles > 0
  PROVE  Spec => NoProgressAfterDone
  <1> DEFINE Quiet == \A n \in DOMAIN events' \ DOMAIN events :
                         events'[n].type = "progress" => \A m \in DOMAIN events : events[m].state # "done"
  <1>1. IInv /\ [Next]_vars => [Quiet]_vars
    <2> SUFFICES ASSUME IInv, Next
                 PROVE  Quiet
      OBVIOUS
    <2>1. CASE ~Resume
      <3>1. events' = events
        BY <2>1 DEF Next, Step, Serve, Execute, Line, Exit, Answer, Rename
      <3> QED BY <3>1
    <2>2. CASE Resume
      <3>0. PICK t : t = Head(ready)
        OBVIOUS
      <3> SUFFICES ASSUME NEW n \in DOMAIN events' \ DOMAIN events, events'[n].type = "progress",
                          NEW m \in DOMAIN events, events[m].state = "done"
                   PROVE  FALSE
        OBVIOUS
      <3>1. events \in Seq(PublishedEvents) /\ events' \in Seq(PublishedEvents)
        BY <2>2, <3>0, ResumedEvents DEF IInv, Typed
      <3>2. m \in 1..Len(events) /\ n \in 1..Len(events') /\ n > Len(events)
        BY <3>1
      <3>3. Ends(t) /\ ~GivesUp(t) /\ t \notin {Run, Title, User, Detect}
        BY <2>2, <3>0, <3>2, ResumedEvents DEF IInv
      <3>4. t \in Tasks /\ Clock(t) = 2 * pc[t] + 1 /\ pc[t] = Length(t) /\ pc[t] # 99
        <4>1. t \in Tasks /\ Clock(t) = 2 * pc[t] + 1
          BY <2>2, <3>0, ResumeMoves, ResumeClocks DEF IInv
        <4>2. pc[t] = Length(t)
          BY <3>3 DEF Ends
        <4>3. Length(t) # 99
          BY TaskLengths
        <4> QED BY <4>1, <4>2, <4>3
      <3>5. pc[Run] = 99 /\ seen[Run].ok /\ Clock(Run) >= 198
        BY <3>2 DEF IInv, DoneIsLast, Clock
      <3>6. lines > 0
        <4>1. lines >= MinFiles
          BY <3>5 DEF IInv, Values
        <4> QED BY <4>1, TypeFacts, ProgressAssumption DEF IInv
      <3>7. CASE t = Count
        <4>1. pc[t] = 7 /\ Clock(t) = 15
          BY <3>4, <3>7, TasksDiffer DEF Length
        <4>2. CountStands
          BY <3>7, <4>1 DEF CountStands, IInv, Values
        <4>3. Ahead(Count, Run, 12)
          BY <3>5, <3>6, <4>2 DEF IInv, Order
        <4> QED BY <3>4, <3>5, <3>7, <4>1, <4>3, TypeFacts, TaskNames DEF Ahead, IInv
      <3>8. CASE t # Count
        <4>1. PICK k \in 1..MaxFiles : t = Report(k)
          BY <3>3, <3>4, <3>8, TaskNames
        <4>2. pc[t] = 2 /\ Clock(t) = 5
          BY <3>3, <3>4, <3>8 DEF Length
        <4>3. k \in 1..lines
          BY <4>1, <4>2, TypeFacts DEF IInv, Created
        <4>4. Ahead(t, Run, 8)
          BY <4>1, <4>3 DEF IInv, Order
        <4> QED BY <3>4, <3>5, <4>2, <4>4, TypeFacts, TaskNames DEF Ahead, IInv
      <3> QED BY <3>7, <3>8
    <2> QED BY <2>1, <2>2
  <1> QED BY <1>1, Invariance, PTL DEF Spec, NoProgressAfterDone
=============================================================================
