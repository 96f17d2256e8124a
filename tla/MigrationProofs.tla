--------------------------- MODULE MigrationProofs ---------------------------
(***************************************************************************)
(* Proofs about Migration, for any old layout, any order of jobs, packages *)
(* and files, and any number of crashes: a job's row is flattened once,    *)
(* and no file is lost or overwritten.                                     *)
(***************************************************************************)
EXTENDS Migration, FiniteSetTheorems, SequenceTheorems, WellFoundedInduction, TLAPS

-----------------------------------------------------------------------------
(* The rows.                                                               *)

Done(j) == rows[j] = IF TwoLevel(Before(j)) THEN Flattened(Before(j)) ELSE Before(j)

\* The jobs the migration has yet to treat.
Ahead ==
    IF mig.at = "stopped" THEN IF version = 0 THEN Jobs ELSE {}
    ELSE IF mig.at = "jobs" THEN mig.jobs ELSE mig.jobs \cup {mig.job}

Call ==
    /\ mig = [at |-> mig.at, jobs |-> mig.jobs, job |-> mig.job, packages |-> mig.packages,
              from |-> mig.from, to |-> mig.to, todo |-> mig.todo]
    /\ mig.at \in {"stopped", "jobs", "packages", "moving"}
    /\ mig.jobs \subseteq Jobs
    /\ mig.at \in {"packages", "moving"} =>
          mig.job \in Jobs \ mig.jobs /\ TwoLevel(rows[mig.job])

Versions == version \in {0, 1} /\ crashes \in Nat /\ crashes <= MaxCrashes
            /\ (mig.at # "stopped" => version = 0)

Treated ==
    /\ DOMAIN rows = Jobs
    /\ \A j \in Jobs : rows[j] = Before(j) \/ Done(j)
    /\ \A j \in Jobs \ Ahead : Done(j)
    /\ MaxCrashes = 0 => \A j \in Ahead : rows[j] = Before(j)

RowInv == Call /\ Versions /\ Treated

LEMMA RowsInit == Init => RowInv
<1> SUFFICES ASSUME Init PROVE RowInv
  OBVIOUS
<1>1. Call
  BY DEF Init, Stopped, Call
<1>2. Versions
  BY MigrationAssumption DEF Init, Stopped, Versions
<1>3. Treated
  BY DEF Init, Stopped, Treated, Ahead, Before
<1> QED
  BY <1>1, <1>2, <1>3 DEF RowInv

\* A job of the old layout that is yet to be treated has its row as it was before: it has
\* not been flattened already, or it would not be of the old layout.
LEMMA OldRow ==
    ASSUME FlattenedOnce, RowInv, NEW j \in Jobs, j \in Ahead, TwoLevel(rows[j])
    PROVE  rows[j] = Before(j)
<1>1. CASE MaxCrashes = 0
  BY <1>1 DEF RowInv, Treated
<1>2. CASE \A k \in OldLayout : ~TwoLevel(Flattened(Before(k)))
  BY <1>2 DEF RowInv, Treated, Done, OldLayout
<1> QED
  BY <1>1, <1>2 DEF FlattenedOnce

LEMMA RowsStep ==
    ASSUME FlattenedOnce, RowInv, [Next]_vars
    PROVE  RowInv'
<1> USE DEF RowInv
<1>1. CASE Begin
  <2>1. mig' = [at |-> "jobs", jobs |-> Jobs, job |-> 0, packages |-> {},
                from |-> <<>>, to |-> <<>>, todo |-> {}]
    BY <1>1 DEF Begin, Stopped
  <2>2. Call' /\ Versions'
    BY <1>1, <2>1 DEF Begin, Call, Versions
  <2>3. Treated'
    BY <1>1, <2>1 DEF Begin, Treated, Ahead, Done, Versions
  <2> QED
    BY <2>2, <2>3
<1>2. CASE NextJob
  <2>1. PICK j \in mig.jobs :
            mig' = IF TwoLevel(rows[j])
                   THEN [mig EXCEPT !.at = "packages", !.jobs = @ \ {j}, !.job = j,
                                    !.packages = {p.dir[2] : p \in rows[j].files}]
                   ELSE [mig EXCEPT !.jobs = @ \ {j}]
    BY <1>2 DEF NextJob
  <2>2. mig.at = "jobs" /\ UNCHANGED <<rows, disk, version, crashes>>
    BY <1>2 DEF NextJob
  <2>3. CASE TwoLevel(rows[j])
    <3>1. /\ mig'.at = "packages" /\ mig'.jobs = mig.jobs \ {j} /\ mig'.job = j
          /\ Call'
      BY <2>1, <2>2, <2>3 DEF Call
    <3>2. Versions'
      BY <2>2, <3>1 DEF Versions
    <3>3. Treated'
      BY <2>2, <3>1 DEF Treated, Ahead, Done
    <3> QED
      BY <3>1, <3>2, <3>3
  <2>4. CASE ~TwoLevel(rows[j])
    <3>1. mig'.at = "jobs" /\ mig'.jobs = mig.jobs \ {j} /\ Call'
      BY <2>1, <2>2, <2>4 DEF Call
    <3>2. Versions'
      BY <2>2, <3>1 DEF Versions
    <3>3. Done(j)
      BY <2>4 DEF Treated, Done, Call
    <3>4. Treated'
      BY <2>2, <3>1, <3>3 DEF Treated, Ahead, Done
    <3> QED
      BY <3>1, <3>2, <3>4
  <2> QED
    BY <2>3, <2>4
<1>3. CASE NextPackage
  <2>1. /\ mig.at = "packages" /\ mig'.at \in {"packages", "moving"}
        /\ mig'.jobs = mig.jobs /\ mig'.job = mig.job
        /\ UNCHANGED <<rows, disk, version, crashes>>
        /\ Call'
    BY <1>3 DEF NextPackage, Call
  <2>2. Versions' /\ Treated'
    BY <2>1 DEF Versions, Treated, Ahead, Done
  <2> QED
    BY <2>1, <2>2
<1>4. CASE MoveFile
  <2>1. /\ mig.at = "moving" /\ mig'.at = "moving"
        /\ mig'.jobs = mig.jobs /\ mig'.job = mig.job
        /\ UNCHANGED <<rows, version, crashes>>
        /\ Call'
    BY <1>4 DEF MoveFile, Call
  <2>2. Versions' /\ Treated'
    BY <2>1 DEF Versions, Treated, Ahead, Done
  <2> QED
    BY <2>1, <2>2
<1>5. CASE EndPackage
  <2>1. /\ mig.at = "moving" /\ mig'.at = "packages"
        /\ mig'.jobs = mig.jobs /\ mig'.job = mig.job
        /\ UNCHANGED <<rows, version, crashes>>
        /\ Call'
    BY <1>5 DEF EndPackage, Call
  <2>2. Versions' /\ Treated'
    BY <2>1 DEF Versions, Treated, Ahead, Done
  <2> QED
    BY <2>1, <2>2
<1>6. CASE UpdateJob
  <2>1. PICK j : j = mig.job
    OBVIOUS
  <2>2. /\ mig.at = "packages" /\ mig'.at = "jobs"
        /\ mig'.jobs = mig.jobs
        /\ UNCHANGED <<disk, version, crashes>>
        /\ Call'
    BY <1>6 DEF UpdateJob, Call
  <2>3. j \in Jobs \ mig.jobs /\ TwoLevel(rows[j])
    BY <2>1, <2>2 DEF Call
  <2>4. /\ rows'[j] = Flattened(rows[j]) /\ DOMAIN rows' = Jobs
        /\ \A k \in Jobs \ {j} : rows'[k] = rows[k]
    BY <1>6, <2>1, <2>3 DEF UpdateJob, Treated
  <2>5. rows[j] = Before(j)
    BY <2>1, <2>2, <2>3, OldRow DEF Ahead
  <2>6. Done(j)'
    BY <2>3, <2>4, <2>5 DEF Done, Before
  <2>7. \A k \in Jobs \ {j} : (Done(k) => Done(k)') /\ Before(k)' = Before(k)
    BY <2>4 DEF Done, Before
  <2>8. Treated'
    <3>1. Ahead = mig.jobs \cup {j} /\ Ahead' = mig.jobs
      BY <2>1, <2>2 DEF Ahead
    <3>2. \A k \in Jobs : rows'[k] = Before(k) \/ Done(k)'
      BY <2>4, <2>6, <2>7 DEF Treated
    <3>3. \A k \in Jobs \ Ahead' : Done(k)'
      BY <2>6, <2>7, <3>1 DEF Treated
    <3>4. MaxCrashes = 0 => \A k \in Ahead' : rows'[k] = Before(k)
      BY <2>3, <2>4, <3>1 DEF Treated, Call
    <3> QED
      BY <2>4, <2>7, <3>2, <3>3, <3>4 DEF Treated
  <2>9. Versions'
    BY <2>2 DEF Versions
  <2> QED
    BY <2>2, <2>8, <2>9
<1>7. CASE SetVersion
  <2>1. Call' /\ mig'.at = "stopped"
    BY <1>7 DEF SetVersion, Stopped, Call
  <2>2. Versions' /\ Treated'
    BY <1>7, <2>1 DEF SetVersion, Versions, Treated, Ahead, Done
  <2> QED
    BY <2>1, <2>2
<1>8. CASE Crash
  <2>1. Call' /\ mig'.at = "stopped"
    BY <1>8 DEF Crash, Stopped, Call
  <2>2. Versions'
    BY <1>8, <2>1, MigrationAssumption DEF Crash, Versions
  <2>3. MaxCrashes # 0
    BY <1>8 DEF Crash, Versions
  <2>4. Treated'
    BY <1>8, <2>1, <2>3 DEF Crash, Treated, Ahead, Done, Versions
  <2> QED
    BY <2>1, <2>2, <2>4
<1>9. CASE UNCHANGED vars
  BY <1>9 DEF vars, Call, Versions, Treated, Ahead, Done
<1> QED
  BY <1>1, <1>2, <1>3, <1>4, <1>5, <1>6, <1>7, <1>8, <1>9 DEF Next, Work

\* A job in the old layout loses its domain once and every other job's row stays as it
\* was, however often migrate_flatten_domain_dirs was interrupted, provided that a
\* flattened row does not look like the old layout again: ClaimMigration shows that this
\* is needed.  Without interruption it is not.
THEOREM FlattensOnce ==
    ASSUME FlattenedOnce
    PROVE  Spec => []MigratedOnce
<1>1. Init => RowInv
  BY RowsInit
<1>2. RowInv /\ [Next]_vars => RowInv'
  BY RowsStep
<1>3. RowInv => MigratedOnce
  BY DEF RowInv, Call, Versions, Treated, Ahead, Done, MigratedOnce
<1> QED
  BY <1>1, <1>2, <1>3, PTL DEF Spec

-----------------------------------------------------------------------------
(* Paths and the helpers of FileTree.                                      *)

WithSfx(p, x) == [p EXCEPT !.sfx = x]
WithDir(p, x) == [p EXCEPT !.dir = x]

LEMMA MinBelongs ==
    ASSUME NEW S \in SUBSET Nat, S # {}
    PROVE  Min(S) \in S
<1> DEFINE I == {0..n : n \in S}
<1>1. I \subseteq FiniteSubsetsOf(Nat)
  <2> SUFFICES ASSUME NEW n \in S PROVE 0..n \in FiniteSubsetsOf(Nat)
    OBVIOUS
  <2>1. 0 \in Int /\ n \in Int
    OBVIOUS
  <2>2. IsFiniteSet(0..n)
    BY <2>1, FS_Interval
  <2>3. 0..n \in SUBSET Nat
    OBVIOUS
  <2> QED
    BY <2>2, <2>3 DEF FiniteSubsetsOf
<1>5. I # {}
  OBVIOUS
<1>2. \E x \in I : \A y \in I : ~ (<<y, x>> \in StrictSubsetOrdering(Nat))
  <2>1. IsWellFoundedOn(StrictSubsetOrdering(Nat), FiniteSubsetsOf(Nat))
    BY FS_StrictSubsetOrderingWellFounded
  <2> HIDE DEF I
  <2> QED
    BY <1>1, <1>5, <2>1, WFMin
<1>3. PICK m \in S : \A y \in I : ~ (<<y, 0..m>> \in StrictSubsetOrdering(Nat))
  BY <1>2
<1>4. ASSUME NEW y \in S PROVE m =< y
  <2>1. ~ (<<0..y, 0..m>> \in StrictSubsetOrdering(Nat))
    BY <1>3
  <2>2. SUFFICES ASSUME y < m PROVE FALSE
    OBVIOUS
  <2>3. 0..y \subseteq 0..m /\ m \in 0..m /\ m \notin 0..y
    BY <2>2
  <2>4. 0..y \in SUBSET Nat /\ 0..m \in SUBSET Nat
    OBVIOUS
  <2> QED
    BY <2>1, <2>3, <2>4 DEF StrictSubsetOrdering
<1> QED
  BY <1>4 DEF Min
LEMMA PathParts ==
    ASSUME NEW C, NEW N, NEW p \in Paths(C, N)
    PROVE  p.dir \in Seq(C) /\ p.sfx \in Seq(Nat)
BY DEF Paths

LEMMA SfxUpdate ==
    ASSUME NEW C, NEW N, NEW p \in Paths(C, N), NEW x
    PROVE  /\ x \in Seq(Nat) => WithSfx(p, x) \in Paths(C, N)
           /\ WithSfx(p, x).dir = p.dir
           /\ WithSfx(p, x).sfx = x
BY DEF Paths, WithSfx

LEMMA DirUpdate ==
    ASSUME NEW C, NEW N, NEW p \in Paths(C, N), NEW x
    PROVE  /\ x \in Seq(C) => WithDir(p, x) \in Paths(C, N)
           /\ WithDir(p, x).dir = x
           /\ \A y : WithDir(WithDir(p, x), y) = WithDir(p, y)
           /\ WithDir(p, p.dir) = p
           /\ p.dir \in Seq(C)
BY DEF Paths, WithDir

RelTo(dir, p) == [p EXCEPT !.dir = SubSeq(@, Len(dir) + 1, Len(@))]

LEMMA SplitDir ==
    ASSUME NEW C, NEW from \in Seq(C), NEW d \in Seq(C), IsPrefix(from, d)
    PROVE  /\ SubSeq(d, Len(from) + 1, Len(d)) \in Seq(C)
           /\ from \o SubSeq(d, Len(from) + 1, Len(d)) = d
           /\ \A i \in 1..Len(from) : d[i] = from[i]
           /\ Len(from) <= Len(d)
<1>1. Len(from) \in Nat /\ Len(d) \in Nat /\ Len(from) <= Len(d)
  BY DEF IsPrefix
<1>2. SubSeq(from, 1, Len(from)) = SubSeq(d, 1, Len(from))
  BY DEF IsPrefix
<1>3. SubSeq(from, 1, Len(from)) = from
  BY SubSeqFull
<1>4. ASSUME NEW i \in 1..Len(from) PROVE d[i] = from[i]
  BY <1>1, <1>2, <1>3
<1>5. PICK s : s = SubSeq(d, Len(from) + 1, Len(d))
  OBVIOUS
<1>6. s \in Seq(C) /\ Len(s) = Len(d) - Len(from)
       /\ \A i \in 1..Len(s) : s[i] = d[Len(from) + i]
  BY <1>1, <1>5
<1>7. /\ from \o s \in Seq(C) /\ Len(from \o s) = Len(d)
      /\ \A i \in 1..Len(d) : (from \o s)[i] = IF i <= Len(from) THEN from[i] ELSE s[i - Len(from)]
  BY <1>1, <1>6, ConcatProperties
<1>8. \A i \in 1..Len(d) : (from \o s)[i] = d[i]
  BY <1>1, <1>4, <1>6, <1>7
<1>9. from \o s = d
  BY <1>7, <1>8, SeqEqual
<1> QED
  BY <1>1, <1>4, <1>5, <1>6, <1>9

LEMMA JoinDir ==
    ASSUME NEW C, NEW from \in Seq(C), NEW s \in Seq(C)
    PROVE  /\ from \o s \in Seq(C)
           /\ IsPrefix(from, from \o s)
           /\ SubSeq(from \o s, Len(from) + 1, Len(from \o s)) = s
           /\ \A i \in 1..Len(from) : (from \o s)[i] = from[i]
           /\ \A i \in 1..Len(s) : (from \o s)[Len(from) + i] = s[i]
           /\ Len(from \o s) = Len(from) + Len(s)
<1>1. Len(from) \in Nat /\ Len(s) \in Nat
  OBVIOUS
<1>2. PICK d : d = from \o s
  OBVIOUS
<1>3. /\ d \in Seq(C) /\ Len(d) = Len(from) + Len(s)
      /\ \A i \in 1..Len(from) : d[i] = from[i]
      /\ \A i \in 1..Len(s) : d[Len(from) + i] = s[i]
  BY <1>1, <1>2, ConcatProperties
<1>4. SubSeq(from, 1, Len(from)) = SubSeq(d, 1, Len(from))
  <2>1. SubSeq(from, 1, Len(from)) = from
    BY SubSeqFull
  <2>2. PICK e : e = SubSeq(d, 1, Len(from))
    OBVIOUS
  <2>3. e \in Seq(C) /\ Len(e) = Len(from) /\ \A i \in 1..Len(from) : e[i] = from[i]
    BY <1>1, <1>3, <2>2
  <2>4. e = from
    BY <2>3, SeqEqual
  <2> QED
    BY <2>1, <2>2, <2>4
<1>5. IsPrefix(from, d)
  BY <1>1, <1>3, <1>4 DEF IsPrefix
<1>6. SubSeq(d, Len(from) + 1, Len(d)) = s
  <2>1. PICK e : e = SubSeq(d, Len(from) + 1, Len(d))
    OBVIOUS
  <2>2. e \in Seq(C) /\ Len(e) = Len(s) /\ \A i \in 1..Len(s) : e[i] = s[i]
    BY <1>1, <1>3, <2>1
  <2>3. e = s
    BY <2>2, SeqEqual
  <2> QED
    BY <2>1, <2>3
<1> QED
  BY <1>2, <1>3, <1>5, <1>6

\* Going into a directory and back.
LEMMA OutAndIn ==
    ASSUME NEW C, NEW N, NEW from \in Seq(C), NEW p \in Paths(C, N), IsPrefix(from, p.dir)
    PROVE  /\ RelTo(from, p) \in Paths(C, N)
           /\ In(from, RelTo(from, p)) = p
<1>1. p.dir \in Seq(C)
  BY DirUpdate
<1>2. PICK s : s = SubSeq(p.dir, Len(from) + 1, Len(p.dir))
  OBVIOUS
<1>3. s \in Seq(C) /\ from \o s = p.dir
  BY <1>1, <1>2, SplitDir
<1>4. RelTo(from, p) = WithDir(p, s)
  BY <1>2 DEF RelTo, WithDir
<1>5. In(from, WithDir(p, s)) = WithDir(WithDir(p, s), from \o s)
  <2>1. In(from, WithDir(p, s)) = WithDir(WithDir(p, s), from \o WithDir(p, s).dir)
    BY DEF In, WithDir
  <2> QED
    BY <2>1, DirUpdate
<1> QED
  BY <1>3, <1>4, <1>5, DirUpdate

LEMMA InAndOut ==
    ASSUME NEW C, NEW N, NEW from \in Seq(C), NEW p \in Paths(C, N)
    PROVE  /\ In(from, p) \in Paths(C, N)
           /\ In(from, p).dir = from \o p.dir
           /\ RelTo(from, In(from, p)) = p
<1>1. p.dir \in Seq(C)
  BY DirUpdate
<1>2. PICK d : d = from \o p.dir
  OBVIOUS
<1>3. d \in Seq(C) /\ SubSeq(d, Len(from) + 1, Len(d)) = p.dir
  BY <1>1, <1>2, JoinDir
<1>4. In(from, p) = WithDir(p, d)
  BY <1>2 DEF In, WithDir
<1>5. RelTo(from, WithDir(p, d)) = WithDir(WithDir(p, d), p.dir)
  <2>1. PICK q : q = WithDir(p, d)
    OBVIOUS
  <2>2. q.dir = d
    BY <2>1, DirUpdate
  <2>3. RelTo(from, q) = WithDir(q, SubSeq(q.dir, Len(from) + 1, Len(q.dir)))
    BY DEF RelTo, WithDir
  <2> QED
    BY <1>3, <2>1, <2>2, <2>3
<1>6. WithDir(WithDir(p, d), p.dir) = p
  BY DirUpdate
<1>7. WithDir(p, d) \in Paths(C, N) /\ WithDir(p, d).dir = d
  BY <1>3, DirUpdate
<1> QED
  BY <1>2, <1>4, <1>5, <1>6, <1>7

LEMMA TwoNames ==
    ASSUME NEW C, NEW from \in Seq(C)
    PROVE  /\ \A s \in Seq(C) : Len(from) = 2 =>
                  /\ Len(from \o s) = 2 + Len(s)
                  /\ (from \o s)[1] = from[1] /\ (from \o s)[2] = from[2]
                  /\ \A i \in 1..Len(s) : (from \o s)[2 + i] = s[i]
           /\ \A d \in Seq(C) : Len(from) = 2 /\ IsPrefix(from, d) =>
                  2 <= Len(d) /\ d[1] = from[1] /\ d[2] = from[2]
<1>1. Len(from) = 2 => 1 \in 1..Len(from) /\ 2 \in 1..Len(from)
  OBVIOUS
<1>4. ASSUME NEW s \in Seq(C)
      PROVE  /\ Len(from \o s) = Len(from) + Len(s)
             /\ \A i \in 1..Len(from) : (from \o s)[i] = from[i]
             /\ \A i \in 1..Len(s) : (from \o s)[Len(from) + i] = s[i]
  BY JoinDir
<1>2. ASSUME NEW s \in Seq(C), Len(from) = 2
      PROVE  /\ Len(from \o s) = 2 + Len(s)
             /\ (from \o s)[1] = from[1] /\ (from \o s)[2] = from[2]
             /\ \A i \in 1..Len(s) : (from \o s)[2 + i] = s[i]
  <2>1. /\ Len(from \o s) = Len(from) + Len(s)
        /\ \A i \in 1..Len(from) : (from \o s)[i] = from[i]
        /\ \A i \in 1..Len(s) : (from \o s)[Len(from) + i] = s[i]
    BY <1>4
  <2> QED
    BY <1>1, <1>2, <2>1
<1>3. ASSUME NEW d \in Seq(C), Len(from) = 2, IsPrefix(from, d)
      PROVE  2 <= Len(d) /\ d[1] = from[1] /\ d[2] = from[2]
  BY <1>1, <1>3, SplitDir
<1> QED
  BY <1>2, <1>3

LEMMA OneLevelUp ==
    ASSUME NEW C, NEW from \in Seq(C), Len(from) = 2, NEW to \in Seq(C), Len(to) = 1,
           to[1] = from[2], NEW s \in Seq(C), ~Tripled(from \o s)
    PROVE  /\ ~Tripled(to \o s)
           /\ ~IsPrefix(from, to \o s)
<1>1. PICK d : d = from \o s
  OBVIOUS
<1>2. PICK e : e = to \o s
  OBVIOUS
<1>3. Len(s) \in Nat
  OBVIOUS
<1>4. /\ Len(d) = 2 + Len(s) /\ d[1] = from[1] /\ d[2] = from[2]
      /\ \A i \in 1..Len(s) : d[2 + i] = s[i]
  BY <1>1, TwoNames
<1>5. /\ e \in Seq(C) /\ Len(e) = 1 + Len(s) /\ e[1] = from[2]
      /\ \A i \in 1..Len(s) : e[1 + i] = s[i]
  <2>1. Len(to) = 1 /\ 1 \in 1..Len(to)
    OBVIOUS
  <2>2. /\ e \in Seq(C) /\ Len(e) = Len(to) + Len(s)
        /\ \A i \in 1..Len(to) : e[i] = to[i]
        /\ \A i \in 1..Len(s) : e[Len(to) + i] = s[i]
    BY <1>2, JoinDir
  <2> QED
    BY <2>1, <2>2
<1>6. ASSUME NEW i \in 1..Len(e) PROVE e[i] = d[i + 1]
  <2>1. CASE i = 1
    BY <2>1, <1>4, <1>5
  <2>2. CASE i # 1
    <3>1. PICK k \in 1..Len(s) : i = 1 + k
      BY <2>2, <1>3, <1>5
    <3>2. e[1 + k] = s[k] /\ d[2 + k] = s[k]
      BY <1>4, <1>5
    <3>3. i + 1 = 2 + k
      BY <3>1, <1>3
    <3> QED
      BY <3>1, <3>2, <3>3
  <2> QED
    BY <2>1, <2>2
<1>7. ~Tripled(e)
  <2> SUFFICES ASSUME NEW i \in 1..Len(e), i + 2 <= Len(e), e[i] = e[i + 1], e[i + 1] = e[i + 2]
               PROVE  FALSE
    BY DEF Tripled
  <2>1. i + 1 \in 1..Len(e) /\ i + 2 \in 1..Len(e)
    BY <1>3, <1>5
  <2>2. e[i] = d[i + 1] /\ e[i + 1] = d[(i + 1) + 1] /\ e[i + 2] = d[(i + 2) + 1]
    BY <1>6, <2>1
  <2>3. i + 1 \in 1..Len(d) /\ (i + 1) + 2 <= Len(d)
    BY <1>3, <1>4, <1>5
  <2>4. (i + 2) + 1 = (i + 1) + 2
    OBVIOUS
  <2> QED
    BY <1>1, <2>2, <2>3, <2>4 DEF Tripled
<1>8. ~IsPrefix(from, e)
  <2> SUFFICES ASSUME IsPrefix(from, e) PROVE FALSE
    OBVIOUS
  <2>0. 1 \in 1..Len(from) /\ 2 \in 1..Len(from)
    OBVIOUS
  <2>1. e[1] = from[1] /\ e[2] = from[2] /\ 2 <= Len(e)
    BY <1>5, TwoNames
  <2>4. 1 \in 1..Len(s) /\ 2 \in 1..Len(e) /\ 3 <= Len(d)
    BY <2>1, <1>3, <1>4, <1>5
  <2>5. e[2] = d[2 + 1]
    BY <2>4, <1>6
  <2>2. d[1] = d[2] /\ d[2] = d[3]
    BY <2>1, <2>5, <1>4, <1>5
  <2>3. 1 \in 1..Len(d) /\ 1 + 2 <= Len(d) /\ d[1] = d[1 + 1] /\ d[1 + 1] = d[1 + 2]
    <3>1. Len(d) \in Nat
      BY <1>3, <1>4
    <3> QED
      BY <2>2, <2>4, <3>1
  <2> QED
    BY <1>1, <2>3 DEF Tripled
<1> QED
  BY <1>2, <1>7, <1>8

LEMMA Numbers ==
    ASSUME NEW k \in Nat
    PROVE  [i \in 1..k |-> i + 1] \in Seq(Nat) /\ Len([i \in 1..k |-> i + 1]) = k
OBVIOUS

LEMMA SuffixedDistinct ==
    ASSUME NEW C, NEW N, NEW p \in Paths(C, N), NEW m \in Nat, NEW n \in Nat
    PROVE  /\ Suffixed(p, n) \in Paths(C, N)
           /\ Suffixed(p, n).dir = p.dir
           /\ Suffixed(p, m) = Suffixed(p, n) => m = n
<1>1. ASSUME NEW k \in Nat
      PROVE  /\ Suffixed(p, k) \in Paths(C, N)
             /\ Suffixed(p, k).dir = p.dir
             /\ Len(Suffixed(p, k).sfx) = Len(p.sfx) + k
  <2>1. PICK x : x = [i \in 1..k |-> i + 1]
    OBVIOUS
  <2>2. x \in Seq(Nat) /\ Len(x) = k
    BY <2>1, Numbers
  <2>3. Suffixed(p, k) = WithSfx(p, p.sfx \o x)
    BY <2>1 DEF Suffixed, WithSfx
  <2>4. p.sfx \in Seq(Nat)
    BY PathParts
  <2>5. p.sfx \o x \in Seq(Nat) /\ Len(p.sfx \o x) = Len(p.sfx) + k
    BY <2>2, <2>4, ConcatProperties
  <2>6. PICK y : y = p.sfx \o x
    OBVIOUS
  <2>7. y \in Seq(Nat) /\ Len(y) = Len(p.sfx) + k /\ Suffixed(p, k) = WithSfx(p, y)
    BY <2>3, <2>5, <2>6
  <2> QED
    BY <2>7, SfxUpdate
<1>2. Len(p.sfx) \in Nat
  <2>1. p.sfx \in Seq(Nat)
    BY PathParts
  <2> QED
    BY <2>1
<1>3. Suffixed(p, m) = Suffixed(p, n) => Len(p.sfx) + m = Len(p.sfx) + n
  <2>1. Len(Suffixed(p, m).sfx) = Len(p.sfx) + m
    BY <1>1
  <2>2. Len(Suffixed(p, n).sfx) = Len(p.sfx) + n
    BY <1>1
  <2> QED
    BY <2>1, <2>2
<1>4. Len(p.sfx) + m = Len(p.sfx) + n => m = n
  BY <1>2
<1>5. Suffixed(p, n) \in Paths(C, N) /\ Suffixed(p, n).dir = p.dir
  BY <1>1
<1> QED
  BY <1>3, <1>4, <1>5

LEMMA TargetIsFree ==
    ASSUME NEW C, NEW N, NEW p \in Paths(C, N), NEW d, IsFiniteSet(DOMAIN d)
    PROVE  /\ FreeTarget(d, p) \notin DOMAIN d
           /\ FreeTarget(d, p) \in Paths(C, N)
           /\ FreeTarget(d, p).dir = p.dir
<1> DEFINE D == DOMAIN d
           K == Cardinality(D)
           S == {n \in 0..K : Suffixed(p, n) \notin D}
<1>1. K \in Nat
  BY FS_CardinalityType
<1>2. S # {}
  <2> SUFFICES ASSUME \A n \in 0..K : Suffixed(p, n) \in D PROVE FALSE
    OBVIOUS
  <2> DEFINE f == [n \in 0..K |-> Suffixed(p, n)]
  <2>1. f \in [0..K -> D]
    OBVIOUS
  <2>2. IsFiniteSet(0..K) /\ Cardinality(0..K) = K + 1
    <3>1. 0 \in Int /\ K \in Int
      BY <1>1
    <3> HIDE DEF K
    <3>2. IsFiniteSet(0..K) /\ Cardinality(0..K) = IF 0 > K THEN 0 ELSE K - 0 + 1
      BY <3>1, FS_Interval
    <3> QED
      BY <3>2, <1>1
  <2>3. Cardinality(D) < Cardinality(0..K)
    BY <2>2, <1>1
  <2>4. \E m, n \in 0..K : m # n /\ f[m] = f[n]
    <3> HIDE DEF f, D, K
    <3> QED
      BY <2>1, <2>2, <2>3, FS_PigeonHole DEF D
  <2>5. \A m, n \in 0..K : Suffixed(p, m) = Suffixed(p, n) => m = n
    BY <1>1, SuffixedDistinct
  <2> QED
    BY <2>4, <2>5
<1>3. S \in SUBSET Nat
  BY <1>1
<1>4. Min(S) \in S
  BY <1>2, <1>3, MinBelongs
<1>5. FreeTarget(d, p) = Suffixed(p, Min(S))
  BY DEF FreeTarget
<1> HIDE DEF D, K
<1> QED
  BY <1>3, <1>4, <1>5, SuffixedDistinct DEF D

-----------------------------------------------------------------------------
(* The files.  OnceEach(d): every recorded file is somewhere in the tree d, and *)
(* no two places hold the same one.                                        *)

Contents == UNION {{j} \X Recorded[j] : j \in Jobs}

OnceEach(d) ==
    /\ \A c \in Contents : \E p \in DOMAIN d : d[p] = c
    /\ \A p, q \in DOMAIN d : d[p] = d[q] => p = q

Tree(C, N) ==
    /\ IsFiniteSet(DOMAIN disk) /\ DOMAIN disk \subseteq Paths(C, N)
    /\ \A p \in DOMAIN disk : ~Tripled(p.dir)
    /\ OnceEach(disk)

\* A package directory on its way: what is under it is what is left to move.
Moving(C, N) ==
    /\ mig.todo \subseteq Paths(C, N)
    /\ mig.from \in Seq(C) /\ Len(mig.from) = 2
    /\ mig.to \in Seq(C) /\ Len(mig.to) = 1 /\ mig.to[1] = mig.from[2]
    /\ \A rel \in mig.todo : In(mig.from, rel) \in DOMAIN disk
    /\ \A p \in Under(disk, mig.from) : RelTo(mig.from, p) \in mig.todo

Rows(C, N) ==
    /\ DOMAIN rows = Jobs
    /\ \A j \in Jobs : rows[j].dir \in C /\ rows[j].files \subseteq Paths(C, N)

FileInv(C, N) ==
    /\ Call /\ mig.packages \subseteq C
    /\ Rows(C, N) /\ Tree(C, N)
    /\ mig.at = "moving" => Moving(C, N)

\* os.replace to a free name.
LEMMA ReplaceKeeps ==
    ASSUME NEW d, NEW p \in DOMAIN d, NEW q, q \notin DOMAIN d, OnceEach(d)
    PROVE  OnceEach(Replace(d, p, q))
<1>1. /\ DOMAIN Replace(d, p, q) = (DOMAIN d \ {p}) \cup {q}
      /\ Replace(d, p, q)[q] = d[p]
      /\ \A r \in DOMAIN d \ {p} : Replace(d, p, q)[r] = d[r]
  BY DEF Replace
<1>2. OnceEach(Replace(d, p, q))
  <2>1. PICK e : e = Replace(d, p, q)
    OBVIOUS
  <2>2. ASSUME NEW c \in Contents PROVE \E r \in DOMAIN e : e[r] = c
    <3>1. PICK r \in DOMAIN d : d[r] = c
      BY DEF OnceEach
    <3>2. CASE r = p
      BY <1>1, <2>1, <3>1, <3>2
    <3>3. CASE r # p
      BY <1>1, <2>1, <3>1, <3>3
    <3> QED
      BY <3>2, <3>3
  <2>3. ASSUME NEW r \in DOMAIN e, NEW s \in DOMAIN e, e[r] = e[s] PROVE r = s
    BY <1>1, <2>1, <2>3 DEF OnceEach
  <2> QED
    BY <2>1, <2>2, <2>3 DEF OnceEach
<1> QED
  BY <1>2

\* At the start every file is where its job says.
LEMMA BeginsAt ==
    ASSUME Init, NEW p \in DOMAIN disk
    PROVE  \E j \in Jobs : \E f \in Recorded[j] : disk[p] = <<j, f>> /\ OnDisk[j][f] = p
<1>1. /\ disk = [q \in FilesBefore |-> CHOOSE c \in Contents : OnDisk[c[1]][c[2]] = q]
      /\ p \in FilesBefore
  BY DEF Init, FilesBefore, Contents
<1>2. PICK j \in Jobs : \E f \in Recorded[j] : OnDisk[j][f] = p
  BY <1>1, MigrationAssumption DEF FilesBefore, Range
<1>3. PICK f \in Recorded[j] : OnDisk[j][f] = p
  BY <1>2
<1>4. <<j, f>> \in Contents /\ OnDisk[<<j, f>>[1]][<<j, f>>[2]] = p
  BY <1>3 DEF Contents
<1>5. PICK c : c = disk[p]
  OBVIOUS
<1>6. c \in Contents /\ OnDisk[c[1]][c[2]] = p
  BY <1>1, <1>4, <1>5
<1>7. PICK k \in Jobs : c \in {k} \X Recorded[k]
  BY <1>6 DEF Contents
<1>8. c = <<k, c[2]>> /\ c[2] \in Recorded[k] /\ OnDisk[k][c[2]] = p
  BY <1>6, <1>7
<1> QED
  BY <1>5, <1>8

LEMMA FilesInit ==
    ASSUME NEW C, NEW N, Layout(C, N), OwnFiles, NoneTripled, Init
    PROVE  FileInv(C, N)
<1>1. Call /\ mig.packages \subseteq C /\ mig.at # "moving"
  BY DEF Init, Stopped, Call
<1>2. Rows(C, N)
  BY DEF Init, Rows, Layout
<1>3. disk = [p \in FilesBefore |-> CHOOSE c \in Contents : OnDisk[c[1]][c[2]] = p]
  BY DEF Init, FilesBefore, Contents
<1>4. ASSUME NEW j \in Jobs, NEW f \in Recorded[j]
      PROVE  <<j, f>> \in Contents /\ OnDisk[j][f] \in FilesBefore
  <2>1. <<j, f>> \in Contents
    BY DEF Contents
  <2>2. OnDisk[j][f] \in Range(OnDisk[j])
    BY MigrationAssumption DEF Range
  <2> QED
    BY <2>1, <2>2 DEF FilesBefore
<1>5. ASSUME NEW p \in FilesBefore
      PROVE  \E j \in Jobs : \E f \in Recorded[j] : disk[p] = <<j, f>> /\ OnDisk[j][f] = p
  BY <1>3, BeginsAt
<1>6. OnceEach(disk)
  <2>1. ASSUME NEW c \in Contents PROVE \E p \in DOMAIN disk : disk[p] = c
    <3>0. PICK j \in Jobs : \E f \in Recorded[j] : c = <<j, f>>
      BY DEF Contents
    <3>1. PICK f \in Recorded[j] : c = <<j, f>>
      BY <3>0
    <3>2. PICK p : p = OnDisk[j][f]
      OBVIOUS
    <3>3. p \in FilesBefore
      BY <1>4, <3>2
    <3>6. PICK k \in Jobs : \E g \in Recorded[k] : disk[p] = <<k, g>> /\ OnDisk[k][g] = p
      BY <1>5, <3>3
    <3>4. PICK g \in Recorded[k] : disk[p] = <<k, g>> /\ OnDisk[k][g] = p
      BY <3>6
    <3>5. k = j /\ g = f
      BY <3>2, <3>4 DEF OwnFiles
    <3> QED
      BY <1>3, <3>1, <3>3, <3>4, <3>5
  <2>2. ASSUME NEW p \in DOMAIN disk, NEW q \in DOMAIN disk, disk[p] = disk[q] PROVE p = q
    <3>1. p \in FilesBefore /\ q \in FilesBefore
      BY <1>3
    <3>2. \E j \in Jobs : \E f \in Recorded[j] : disk[p] = <<j, f>> /\ OnDisk[j][f] = p
      BY <1>5, <3>1
    <3>3. \E k \in Jobs : \E g \in Recorded[k] : disk[q] = <<k, g>> /\ OnDisk[k][g] = q
      BY <1>5, <3>1
    <3>4. PICK j \in Jobs : \E f \in Recorded[j] : disk[p] = <<j, f>> /\ OnDisk[j][f] = p
      BY <3>2
    <3>5. PICK f \in Recorded[j] : disk[p] = <<j, f>> /\ OnDisk[j][f] = p
      BY <3>4
    <3>6. PICK k \in Jobs : \E g \in Recorded[k] : disk[q] = <<k, g>> /\ OnDisk[k][g] = q
      BY <3>3
    <3>7. PICK g \in Recorded[k] : disk[q] = <<k, g>> /\ OnDisk[k][g] = q
      BY <3>6
    <3>8. <<j, f>> = <<k, g>>
      BY <2>2, <3>5, <3>7
    <3>9. j = k /\ f = g
      BY <3>8
    <3> QED
      BY <3>5, <3>7, <3>9
  <2> QED
    BY <2>1, <2>2 DEF OnceEach
<1>7. Tree(C, N)
  BY <1>3, <1>6 DEF Tree, Layout, NoneTripled
<1> QED
  BY <1>1, <1>2, <1>7 DEF FileInv

\* MoveFile: the file goes to a free name, one level up.
LEMMA MovedFile ==
    ASSUME NEW C, NEW N, FileInv(C, N), MoveFile
    PROVE  \E rel \in mig.todo : \E src \in DOMAIN disk : \E tgt \in Paths(C, N) :
              /\ rel \in Paths(C, N) /\ rel.dir \in Seq(C)
              /\ src = In(mig.from, rel) /\ src.dir = mig.from \o rel.dir
              /\ tgt \notin DOMAIN disk /\ tgt.dir = mig.to \o rel.dir
              /\ disk' = Replace(disk, src, tgt)
              /\ mig' = [mig EXCEPT !.todo = @ \ {rel}]
<1>1. mig.at = "moving" /\ Moving(C, N) /\ Tree(C, N)
  BY DEF MoveFile, FileInv
<1>2. PICK from : from = mig.from
  OBVIOUS
<1>3. PICK to : to = mig.to
  OBVIOUS
<1>4. from \in Seq(C) /\ to \in Seq(C)
  BY <1>1, <1>2, <1>3 DEF Moving
<1>5. PICK rel \in mig.todo :
          /\ disk' = Replace(disk, In(from, rel), FreeTarget(disk, In(to, rel)))
          /\ mig' = [mig EXCEPT !.todo = @ \ {rel}]
  BY <1>2, <1>3 DEF MoveFile
<1>6. PICK src : src = In(from, rel)
  OBVIOUS
<1>7. PICK tgt : tgt = FreeTarget(disk, In(to, rel))
  OBVIOUS
<1>8. rel \in Paths(C, N) /\ src \in DOMAIN disk
  BY <1>1, <1>2, <1>6 DEF Moving
<1>9. rel.dir \in Seq(C)
  BY <1>8, PathParts
<1>10. src.dir = from \o rel.dir
  <2>1. In(from, rel).dir = from \o rel.dir
    BY <1>4, <1>8, InAndOut
  <2> QED
    BY <1>6, <2>1
<1>11. /\ tgt \notin DOMAIN disk /\ tgt \in Paths(C, N)
       /\ tgt.dir = to \o rel.dir
  <2>1. In(to, rel) \in Paths(C, N) /\ In(to, rel).dir = to \o rel.dir
    BY <1>4, <1>8, InAndOut
  <2>2. IsFiniteSet(DOMAIN disk)
    BY <1>1 DEF Tree
  <2> QED
    BY <1>7, <2>1, <2>2, TargetIsFree
<1> QED
  BY <1>2, <1>3, <1>5, <1>6, <1>7, <1>8, <1>9, <1>10, <1>11

LEMMA MoveKeeps ==
    ASSUME NEW C, NEW N, FileInv(C, N), MoveFile
    PROVE  Tree(C, N)' /\ Moving(C, N)'
<1>1. mig.at = "moving" /\ Moving(C, N) /\ Tree(C, N)
  BY DEF MoveFile, FileInv
<1>15. PICK from : from = mig.from
  OBVIOUS
<1>16. PICK to : to = mig.to
  OBVIOUS
<1>17. /\ from \in Seq(C) /\ Len(from) = 2
       /\ to \in Seq(C) /\ Len(to) = 1 /\ to[1] = from[2]
  BY <1>1, <1>15, <1>16 DEF Moving
<1>4. PICK rel \in mig.todo, src \in DOMAIN disk, tgt \in Paths(C, N) :
          /\ rel \in Paths(C, N) /\ rel.dir \in Seq(C)
          /\ src = In(from, rel) /\ src.dir = from \o rel.dir
          /\ tgt \notin DOMAIN disk /\ tgt.dir = to \o rel.dir
          /\ disk' = Replace(disk, src, tgt)
          /\ mig' = [mig EXCEPT !.todo = @ \ {rel}]
  BY <1>15, <1>16, MovedFile
<1>2. mig' = [mig EXCEPT !.todo = @ \ {rel}]
  BY <1>4
<1>3. mig'.todo = mig.todo \ {rel} /\ mig'.from = from /\ mig'.to = to
  BY <1>2, <1>15, <1>16 DEF FileInv, Call
<1>6. rel \in Paths(C, N) /\ src \in DOMAIN disk /\ src \in Paths(C, N)
  BY <1>1, <1>4 DEF Tree
<1>7. src.dir = from \o rel.dir /\ rel.dir \in Seq(C)
  BY <1>4
<1>8. /\ tgt \notin DOMAIN disk /\ tgt \in Paths(C, N)
      /\ tgt.dir = to \o rel.dir
  BY <1>4
<1>9. ~Tripled(tgt.dir) /\ ~IsPrefix(from, tgt.dir)
  <2>1. ~Tripled(from \o rel.dir)
    BY <1>1, <1>6, <1>7 DEF Tree
  <2> QED
    BY <1>7, <1>8, <1>17, <2>1, OneLevelUp
<1>10. /\ DOMAIN disk' = (DOMAIN disk \ {src}) \cup {tgt}
       /\ OnceEach(disk')
  <2>1. disk' = Replace(disk, src, tgt)
    BY <1>4
  <2>2. DOMAIN Replace(disk, src, tgt) = (DOMAIN disk \ {src}) \cup {tgt}
    BY DEF Replace
  <2>3. OnceEach(Replace(disk, src, tgt))
    <3>1. PICK d : d = disk
      OBVIOUS
    <3>2. src \in DOMAIN d /\ tgt \notin DOMAIN d /\ OnceEach(d)
      BY <1>1, <1>6, <1>8, <3>1 DEF Tree
    <3>3. OnceEach(Replace(d, src, tgt))
      BY <3>2, ReplaceKeeps
    <3> QED
      BY <3>1, <3>3
  <2> QED
    BY <2>1, <2>2, <2>3
<1>11. Tree(C, N)'
  <2>1. IsFiniteSet(DOMAIN disk')
    <3>1. IsFiniteSet(DOMAIN disk \ {src})
      BY <1>1, FS_RemoveElement DEF Tree
    <3> QED
      BY <1>10, <3>1, FS_AddElement
  <2>2. DOMAIN disk' \subseteq Paths(C, N)
    BY <1>1, <1>8, <1>10 DEF Tree
  <2>3. \A p \in DOMAIN disk' : ~Tripled(p.dir)
    BY <1>1, <1>9, <1>10 DEF Tree
  <2> QED
    BY <1>10, <2>1, <2>2, <2>3 DEF Tree, OnceEach
<1>12. ASSUME NEW r \in mig'.todo PROVE In(from, r) \in DOMAIN disk'
  <2>1. r \in mig.todo /\ r # rel /\ r \in Paths(C, N)
    BY <1>1, <1>3 DEF Moving
  <2>2. In(from, r) \in DOMAIN disk
    BY <1>1, <1>15, <2>1 DEF Moving
  <2>3. RelTo(from, In(from, r)) = r /\ RelTo(from, src) = rel
    BY <1>4, <1>6, <1>17, <2>1, InAndOut
  <2> QED
    BY <1>10, <2>1, <2>2, <2>3
<1>13. ASSUME NEW p \in Under(disk', from) PROVE RelTo(from, p) \in mig'.todo
  <2>1. p \in DOMAIN disk' /\ IsPrefix(from, p.dir)
    BY DEF Under
  <2>2. p \in DOMAIN disk /\ p # src
    BY <1>9, <1>10, <2>1
  <2>3. RelTo(from, p) \in mig.todo
    BY <1>1, <1>15, <2>1, <2>2 DEF Moving, Under
  <2>4. In(from, RelTo(from, p)) = p
    BY <1>1, <1>17, <2>1, <2>2, OutAndIn DEF Tree
  <2> QED
    BY <1>3, <1>4, <2>2, <2>3, <2>4
<1>14. Moving(C, N)'
  BY <1>1, <1>3, <1>12, <1>13, <1>17 DEF Moving
<1> QED
  BY <1>11, <1>14

\* NextPackage: what merge_dirs lists is what is under the directory.
LEMMA ListKeeps ==
    ASSUME NEW C, NEW N, FileInv(C, N), NextPackage
    PROVE  /\ Call' /\ mig'.packages \subseteq C
           /\ mig'.at = "moving" => Moving(C, N)'
<1>1. PICK pkg \in mig.packages :
          mig' = [mig EXCEPT !.packages = @ \ {pkg}, !.from = <<rows[mig.job].dir, pkg>>,
                             !.to = <<pkg>>, !.todo = RelFiles(disk, <<rows[mig.job].dir, pkg>>),
                             !.at = IF IsDir(disk, <<rows[mig.job].dir, pkg>>) THEN "moving" ELSE @]
  BY DEF NextPackage
<1>2. mig.at = "packages" /\ UNCHANGED <<rows, disk, version, crashes>>
  BY DEF NextPackage
<1>3. PICK src : src = <<rows[mig.job].dir, pkg>>
  OBVIOUS
<1>4. PICK to : to = <<pkg>>
  OBVIOUS
<1>5. src \in Seq(C) /\ Len(src) = 2 /\ to \in Seq(C) /\ Len(to) = 1 /\ to[1] = src[2]
  BY <1>2, <1>3, <1>4 DEF FileInv, Call, Rows
<1>6. /\ mig'.from = src /\ mig'.to = to /\ mig'.todo = RelFiles(disk, src)
      /\ mig'.packages = mig.packages \ {pkg}
      /\ Call'
  BY <1>1, <1>2, <1>3, <1>4 DEF FileInv, Call
<1>7. RelFiles(disk, src) = {RelTo(src, p) : p \in Under(disk, src)}
  BY DEF RelFiles, RelTo
<1>8. ASSUME NEW p \in Under(disk, src)
      PROVE  RelTo(src, p) \in Paths(C, N) /\ In(src, RelTo(src, p)) = p /\ p \in DOMAIN disk
  <2>1. p \in Paths(C, N) /\ p \in DOMAIN disk /\ IsPrefix(src, p.dir)
    BY DEF Under, FileInv, Tree
  <2> QED
    BY <1>5, <2>1, OutAndIn
<1>9. Moving(C, N)'
  BY <1>2, <1>5, <1>6, <1>7, <1>8 DEF Moving, Under
<1> QED
  BY <1>6, <1>9 DEF FileInv

LEMMA FlattenedRow ==
    ASSUME NEW C, NEW N, NEW row, row.files \subseteq Paths(C, N), TwoLevel(row)
    PROVE  /\ Flattened(row).dir \in C /\ Flattened(row).files \subseteq Paths(C, N)
           /\ {p.dir[2] : p \in row.files} \subseteq C
<1>1. ASSUME NEW p \in row.files
      PROVE  p.dir[2] \in C /\ Strip(p) \in Paths(C, N)
  <2>0. p \in Paths(C, N) /\ Len(p.dir) >= 2
    BY DEF TwoLevel
  <2>1. p \in Paths(C, N) /\ p.dir \in Seq(C) /\ Len(p.dir) >= 2
    BY <2>0, PathParts
  <2>2. 2 \in 1..Len(p.dir) /\ p.dir # <<>>
    BY <2>1
  <2>3. Tail(p.dir) \in Seq(C)
    <3>1. PICK d : d = p.dir
      OBVIOUS
    <3>2. d \in Seq(C) /\ d # <<>>
      BY <2>1, <2>2, <3>1
    <3> QED
      BY <3>1, <3>2, HeadTailProperties
  <2>4. Strip(p) = WithDir(p, Tail(p.dir))
    BY DEF Strip, WithDir
  <2>5. WithDir(p, Tail(p.dir)) \in Paths(C, N)
    BY <2>1, <2>3, DirUpdate
  <2>6. p.dir[2] \in C
    BY <2>1, <2>2, ElementOfSeq
  <2> QED
    BY <2>4, <2>5, <2>6
<1>2. (CHOOSE p \in row.files : TRUE) \in row.files
  BY DEF TwoLevel
<1> QED
  BY <1>1, <1>2 DEF Flattened, FirstPackage

LEMMA FilesStep ==
    ASSUME NEW C, NEW N, FileInv(C, N), [Next]_vars
    PROVE  FileInv(C, N)'
<1>1. CASE Begin
  <2>1. mig' = [at |-> "jobs", jobs |-> Jobs, job |-> 0, packages |-> {},
                from |-> <<>>, to |-> <<>>, todo |-> {}]
    BY <1>1 DEF Begin, Stopped
  <2>2. Call' /\ mig'.packages \subseteq C /\ mig'.at # "moving"
    BY <2>1 DEF Call
  <2>3. Rows(C, N)' /\ Tree(C, N)'
    BY <1>1 DEF Begin, FileInv, Rows, Tree, OnceEach
  <2> QED
    BY <2>2, <2>3 DEF FileInv
<1>2. CASE NextJob
  <2>1. PICK j \in mig.jobs :
            mig' = IF TwoLevel(rows[j])
                   THEN [mig EXCEPT !.at = "packages", !.jobs = @ \ {j}, !.job = j,
                                    !.packages = {p.dir[2] : p \in rows[j].files}]
                   ELSE [mig EXCEPT !.jobs = @ \ {j}]
    BY <1>2 DEF NextJob
  <2>2. mig.at = "jobs" /\ UNCHANGED <<rows, disk, version, crashes>>
    BY <1>2 DEF NextJob
  <2>3. Call' /\ mig'.at # "moving"
    BY <2>1, <2>2 DEF FileInv, Call
  <2>4. mig'.packages \subseteq C
    <3>1. CASE TwoLevel(rows[j])
      <4>1. rows[j].files \subseteq Paths(C, N)
        BY DEF FileInv, Call, Rows
      <4>2. {p.dir[2] : p \in rows[j].files} \subseteq C
        BY <3>1, <4>1, FlattenedRow
      <4>3. mig'.packages = {p.dir[2] : p \in rows[j].files}
        BY <2>1, <3>1 DEF FileInv, Call
      <4> QED
        BY <4>2, <4>3
    <3>2. CASE ~TwoLevel(rows[j])
      BY <2>1, <3>2 DEF FileInv, Call
    <3> QED
      BY <3>1, <3>2
  <2>5. Rows(C, N)' /\ Tree(C, N)'
    BY <2>2 DEF FileInv, Rows, Tree, OnceEach
  <2> QED
    BY <2>3, <2>4, <2>5 DEF FileInv
<1>3. CASE NextPackage
  <2>1. Rows(C, N)' /\ Tree(C, N)'
    BY <1>3 DEF NextPackage, FileInv, Rows, Tree, OnceEach
  <2> QED
    BY <1>3, <2>1, ListKeeps DEF FileInv
<1>4. CASE MoveFile
  <2>1. Call' /\ mig'.packages \subseteq C /\ Rows(C, N)'
    BY <1>4 DEF MoveFile, FileInv, Call, Rows
  <2> QED
    BY <1>4, <2>1, MoveKeeps DEF FileInv
<1>5. CASE EndPackage
  <2>1. /\ mig.at = "moving" /\ mig.todo = {} /\ UNCHANGED rows
        /\ Call' /\ mig'.packages \subseteq C /\ mig'.at = "packages"
    BY <1>5 DEF EndPackage, FileInv, Call
  <2>2. Under(disk, mig.from) = {}
    BY <2>1 DEF FileInv, Moving
  <2>3. DOMAIN disk' = DOMAIN disk /\ \A p \in DOMAIN disk : disk'[p] = disk[p]
    BY <1>5, <2>2 DEF EndPackage, RemoveTree
  <2>4. Tree(C, N)'
    BY <2>3 DEF FileInv, Tree, OnceEach
  <2> QED
    BY <2>1, <2>4 DEF FileInv, Rows
<1>6. CASE UpdateJob
  <2>1. PICK j : j = mig.job
    OBVIOUS
  <2>2. /\ mig.at = "packages" /\ mig'.at = "jobs" /\ UNCHANGED disk
        /\ Call' /\ mig'.packages \subseteq C
    BY <1>6 DEF UpdateJob, FileInv, Call
  <2>3. j \in Jobs /\ TwoLevel(rows[j]) /\ rows[j].files \subseteq Paths(C, N)
    BY <2>1, <2>2 DEF FileInv, Call, Rows
  <2>4. /\ rows'[j] = Flattened(rows[j]) /\ DOMAIN rows' = Jobs
        /\ \A k \in Jobs \ {j} : rows'[k] = rows[k]
    BY <1>6, <2>1, <2>3 DEF UpdateJob, FileInv, Rows
  <2>5. rows'[j].dir \in C /\ rows'[j].files \subseteq Paths(C, N)
    BY <2>3, <2>4, FlattenedRow
  <2>6. Rows(C, N)'
    BY <2>4, <2>5 DEF FileInv, Rows
  <2>7. Tree(C, N)'
    BY <2>2 DEF FileInv, Tree, OnceEach
  <2> QED
    BY <2>2, <2>6, <2>7 DEF FileInv
<1>7. CASE SetVersion \/ Crash
  BY <1>7 DEF SetVersion, Crash, Stopped, FileInv, Call, Rows, Tree, OnceEach
<1>8. CASE UNCHANGED vars
  BY <1>8 DEF vars, FileInv, Call, Rows, Tree, OnceEach, Moving
<1> QED
  BY <1>1, <1>2, <1>3, <1>4, <1>5, <1>6, <1>7, <1>8 DEF Next, Work

\* merge_dirs neither loses nor overwrites a file, at any step and after any crash,
\* whatever package and file names jobs have in common and however often the
\* migration starts again, unless a path has the same name on three levels.
THEOREM NothingIsLost ==
    ASSUME NEW C, NEW N, Layout(C, N), OwnFiles, NoneTripled
    PROVE  Spec => []NoFileLost
<1>1. Init => FileInv(C, N)
  BY FilesInit
<1>2. FileInv(C, N) /\ [Next]_vars => FileInv(C, N)'
  BY FilesStep
<1>3. FileInv(C, N) => NoFileLost
  <2> SUFFICES ASSUME FileInv(C, N), NEW j \in Jobs, NEW f \in Recorded[j]
               PROVE  Cardinality({p \in DOMAIN disk : disk[p] = <<j, f>>}) = 1
    BY DEF NoFileLost
  <2>1. <<j, f>> \in Contents
    BY DEF Contents
  <2>2. PICK q \in DOMAIN disk : disk[q] = <<j, f>>
    BY <2>1 DEF FileInv, Tree, OnceEach
  <2>3. {p \in DOMAIN disk : disk[p] = <<j, f>>} = {q}
    BY <2>2 DEF FileInv, Tree, OnceEach
  <2> QED
    BY <2>3, FS_Singleton
<1> QED
  BY <1>1, <1>2, <1>3, PTL DEF Spec

-----------------------------------------------------------------------------
(* Where the files are: each file of the old layout is at its recorded     *)
(* place until its package is merged, and then below the new one.          *)

AtWork == mig.at \in {"packages", "moving"}
Packages(j) == {f.dir[2] : f \in Recorded[j]}

\* The call works on the packages of a job whose row is as it was before.
OnPackage ==
    AtWork => /\ rows[mig.job] = Before(mig.job)
              /\ mig.packages \subseteq Packages(mig.job)
              /\ mig.at = "moving" =>
                    mig.from[1] = Dirs[mig.job] /\ mig.from[2] \in Packages(mig.job)

\* The package of the file has been merged, by this call or before it.
ToGo == mig.packages \cup (IF mig.at = "moving" THEN {mig.from[2]} ELSE {})
Merged(j, f) ==
    \/ j \notin Ahead
    \/ rows[j] # Before(j)
    \/ AtWork /\ j = mig.job /\ f.dir[2] \notin ToGo

IsAt(j, f, p) ==
    IF j \in OldLayout THEN p.dir = Tail(f.dir) \/ (p = f /\ ~Merged(j, f)) ELSE p = OnDisk[j][f]

Located == \A p \in DOMAIN disk : \A j \in Jobs : \A f \in Recorded[j] :
                disk[p] = <<j, f>> => IsAt(j, f, p)

\* A recorded path of the old layout begins with its domain and its package.
LEMMA InPackage ==
    ASSUME NEW C, NEW N, Layout(C, N), NEW j \in OldLayout, NEW f \in Recorded[j]
    PROVE  /\ f.dir \in Seq(C) /\ Len(f.dir) >= 2
           /\ IsPrefix(<<Dirs[j], f.dir[2]>>, f.dir)
<1>1. f \in Paths(C, N) /\ Dirs[j] \in C
  BY DEF Layout, OldLayout
<1>2. PICK d : d = f.dir
  OBVIOUS
<1>3. d \in Seq(C) /\ Len(d) >= 2 /\ d[1] = Dirs[j] /\ d[2] \in C
  <2>1. d \in Seq(C)
    BY <1>1, <1>2, PathParts
  <2>2. Len(d) >= 2 /\ d[1] = Dirs[j]
    BY <1>2 DEF OldLayout, TwoLevel, Before
  <2> QED
    BY <2>1, <2>2, ElementOfSeq
<1>4. PICK e : e = <<Dirs[j], d[2]>>
  OBVIOUS
<1>5. /\ e \in Seq(C) /\ Len(e) = 2 /\ e[1] = d[1] /\ e[2] = d[2]
  BY <1>1, <1>3, <1>4
<1>6. SubSeq(e, 1, 2) = SubSeq(d, 1, 2)
  <2>1. PICK s : s = SubSeq(e, 1, 2)
    OBVIOUS
  <2>2. PICK t : t = SubSeq(d, 1, 2)
    OBVIOUS
  <2>3. s = e
    <3>1. SubSeq(e, 1, Len(e)) = e
      BY <1>5, SubSeqFull
    <3> QED
      BY <1>5, <2>1, <3>1
  <2>4. t \in Seq(C) /\ Len(t) = 2 /\ t[1] = d[1] /\ t[2] = d[2]
    BY <1>3, <2>2
  <2>5. \A i \in 1..Len(e) : e[i] = t[i]
    BY <1>5, <2>4
  <2>6. e = t
    BY <1>5, <2>4, <2>5, SeqEqual
  <2> QED
    BY <2>1, <2>2, <2>3, <2>6
<1>7. IsPrefix(e, d)
  BY <1>3, <1>5, <1>6 DEF IsPrefix
<1> QED
  BY <1>2, <1>3, <1>4, <1>7

LEMMA PathsInit ==
    ASSUME Apart, Init
    PROVE  OnPackage /\ Located
<1>1. mig.at = "stopped" /\ version = 0 /\ rows = [j \in Jobs |-> Before(j)]
  BY DEF Init, Stopped, Before
<1>2. ASSUME NEW p \in DOMAIN disk, NEW j \in Jobs, NEW f \in Recorded[j], disk[p] = <<j, f>>
      PROVE  IsAt(j, f, p)
  <2>1. PICK k \in Jobs, g \in UNION {Recorded[i] : i \in Jobs} :
            g \in Recorded[k] /\ disk[p] = <<k, g>> /\ OnDisk[k][g] = p
    <3>1. \E k \in Jobs : \E g \in Recorded[k] : disk[p] = <<k, g>> /\ OnDisk[k][g] = p
      BY BeginsAt
    <3> QED
      BY <3>1
  <2>2. <<j, f>> = <<k, g>>
    BY <1>2, <2>1
  <2>3. OnDisk[j][f] = p
    BY <2>1, <2>2
  <2>4. j \in OldLayout => p = f
    BY <2>3 DEF Apart
  <2>5. ~Merged(j, f)
    BY <1>1 DEF Merged, AtWork, Ahead
  <2> QED
    BY <2>3, <2>4, <2>5 DEF IsAt
<1> QED
  BY <1>1, <1>2 DEF OnPackage, AtWork, Located

\* A step that moves no file and merges none for good.
LEMMA StaysLocated ==
    ASSUME Located, UNCHANGED disk,
           \A j \in OldLayout : \A f \in Recorded[j] : Merged(j, f)' => Merged(j, f)
    PROVE  Located'
<1> SUFFICES ASSUME NEW p \in DOMAIN disk', NEW j \in Jobs, NEW f \in Recorded[j],
                    disk'[p] = <<j, f>>
             PROVE  IsAt(j, f, p)'
  BY DEF Located
<1>1. IsAt(j, f, p)
  BY DEF Located
<1> QED
  BY <1>1 DEF IsAt

\* When nothing is left below the package's old directory, its files are where they
\* should be.
LEMMA PackageMerged ==
    ASSUME NEW C, NEW N, Layout(C, N), Located, NEW j \in OldLayout, NEW pkg,
           Under(disk, <<Dirs[j], pkg>>) = {},
           NEW p \in DOMAIN disk, NEW f \in Recorded[j], disk[p] = <<j, f>>, f.dir[2] = pkg
    PROVE  p.dir = Tail(f.dir)
<1>1. j \in Jobs
  BY DEF OldLayout
<1>2. IsAt(j, f, p)
  BY <1>1 DEF Located
<1>3. IsPrefix(<<Dirs[j], pkg>>, f.dir)
  BY InPackage
<1>4. p # f
  BY <1>3 DEF Under
<1> QED
  BY <1>2, <1>4 DEF IsAt

LEMMA ListedPackage ==
    ASSUME NEW C, NEW N, Layout(C, N), RowInv, OnPackage, Located, NextPackage
    PROVE  OnPackage' /\ Located'
<1>1. PICK pkg \in mig.packages :
          mig' = [mig EXCEPT !.packages = @ \ {pkg}, !.from = <<rows[mig.job].dir, pkg>>,
                             !.to = <<pkg>>, !.todo = RelFiles(disk, <<rows[mig.job].dir, pkg>>),
                             !.at = IF IsDir(disk, <<rows[mig.job].dir, pkg>>) THEN "moving" ELSE @]
  BY DEF NextPackage
<1>2. PICK k : k = mig.job
  OBVIOUS
<1>3. /\ mig.at = "packages" /\ AtWork /\ UNCHANGED <<rows, disk, version, crashes>>
      /\ k \in Jobs /\ rows[k] = Before(k) /\ mig.packages \subseteq Packages(k)
      /\ TwoLevel(rows[k])
  BY <1>2 DEF NextPackage, AtWork, OnPackage, RowInv, Call
<1>4. k \in OldLayout /\ rows[k].dir = Dirs[k]
  BY <1>3 DEF OldLayout, Before
<1>5. PICK src : src = <<Dirs[k], pkg>>
  OBVIOUS
<1>6. /\ mig'.jobs = mig.jobs /\ mig'.job = k /\ mig'.packages = mig.packages \ {pkg}
      /\ mig'.from = src /\ mig'.at = IF IsDir(disk, src) THEN "moving" ELSE "packages"
  BY <1>1, <1>2, <1>3, <1>4, <1>5 DEF RowInv, Call
<1>7. AtWork' /\ Ahead' = Ahead
  BY <1>2, <1>3, <1>6 DEF AtWork, Ahead
<1>8. OnPackage'
  <2>1. mig'.from[1] = Dirs[k] /\ mig'.from[2] = pkg
    BY <1>5, <1>6
  <2> QED
    BY <1>3, <1>6, <2>1 DEF OnPackage, Before, Packages
<1>9. ToGo = mig.packages /\ ToGo \ {pkg} \subseteq ToGo' /\ (IsDir(disk, src) => ToGo' = ToGo)
  <2>1. src[2] = pkg
    BY <1>5
  <2> QED
    BY <1>3, <1>6, <2>1 DEF ToGo
<1>10. ASSUME NEW p \in DOMAIN disk', NEW j \in Jobs, NEW f \in Recorded[j], disk'[p] = <<j, f>>
       PROVE  IsAt(j, f, p)'
  <2>1. p \in DOMAIN disk /\ disk[p] = <<j, f>> /\ IsAt(j, f, p)
    BY <1>3, <1>10 DEF Located
  <2>2. CASE ~IsDir(disk, src) /\ j = k /\ f.dir[2] = pkg
    <3>1. Under(disk, <<Dirs[k], pkg>>) = {}
      BY <1>5, <2>2 DEF IsDir
    <3>2. f \in Recorded[k] /\ disk[p] = <<k, f>>
      BY <2>1, <2>2
    <3>3. p.dir = Tail(f.dir)
      BY <1>4, <2>1, <2>2, <3>1, <3>2, PackageMerged
    <3> QED
      BY <1>4, <2>2, <3>3 DEF IsAt
  <2>3. CASE IsDir(disk, src) \/ j # k \/ f.dir[2] # pkg
    <3>1. Merged(j, f)' => Merged(j, f)
      BY <1>2, <1>3, <1>6, <1>7, <1>9, <2>3 DEF Merged, Before
    <3> QED
      BY <2>1, <3>1 DEF IsAt
  <2> QED
    BY <2>2, <2>3
<1> QED
  BY <1>8, <1>10 DEF Located

LEMMA EndedPackage ==
    ASSUME NEW C, NEW N, Layout(C, N), RowInv, FileInv(C, N), OnPackage, Located, EndPackage
    PROVE  OnPackage' /\ Located'
<1>1. PICK k : k = mig.job
  OBVIOUS
<1>2. PICK from : from = mig.from
  OBVIOUS
<1>3. PICK pkg : pkg = from[2]
  OBVIOUS
<1>4. /\ mig.at = "moving" /\ mig.todo = {} /\ AtWork /\ Moving(C, N)
      /\ disk' = RemoveTree(disk, from) /\ mig' = [mig EXCEPT !.at = "packages"]
      /\ UNCHANGED <<rows, version, crashes>>
  BY <1>2 DEF EndPackage, AtWork, FileInv
<1>5. /\ k \in Jobs /\ rows[k] = Before(k) /\ mig.packages \subseteq Packages(k)
      /\ TwoLevel(rows[k]) /\ from[1] = Dirs[k]
  BY <1>1, <1>2, <1>4 DEF OnPackage, RowInv, Call, AtWork
<1>6. k \in OldLayout
  BY <1>5 DEF OldLayout
<1>7. /\ mig'.jobs = mig.jobs /\ mig'.job = k /\ mig'.packages = mig.packages
      /\ mig'.at = "packages" /\ mig'.from = from
  BY <1>1, <1>2, <1>4 DEF RowInv, Call
<1>8. AtWork' /\ Ahead' = Ahead
  BY <1>1, <1>4, <1>7 DEF AtWork, Ahead
<1>9. OnPackage'
  BY <1>4, <1>5, <1>7 DEF OnPackage, Before, Packages
<1>10. Under(disk, from) = {}
  BY <1>2, <1>4 DEF Moving
<1>11. from = <<Dirs[k], pkg>>
  <2>1. from \in Seq(C) /\ Len(from) = 2
    BY <1>2, <1>4 DEF Moving
  <2> QED
    BY <1>3, <1>5, <2>1
<1>12. DOMAIN disk' = DOMAIN disk /\ \A p \in DOMAIN disk : disk'[p] = disk[p]
  BY <1>4, <1>10 DEF RemoveTree
<1>13. ToGo = mig.packages \cup {pkg} /\ ToGo' = mig.packages
  BY <1>2, <1>3, <1>4, <1>7 DEF ToGo
<1>14. ASSUME NEW p \in DOMAIN disk', NEW j \in Jobs, NEW f \in Recorded[j], disk'[p] = <<j, f>>
       PROVE  IsAt(j, f, p)'
  <2>1. p \in DOMAIN disk /\ disk[p] = <<j, f>> /\ IsAt(j, f, p)
    BY <1>12, <1>14 DEF Located
  <2>2. CASE j = k /\ f.dir[2] = pkg
    <3>1. Under(disk, <<Dirs[k], pkg>>) = {}
      BY <1>10, <1>11
    <3>2. f \in Recorded[k] /\ disk[p] = <<k, f>>
      BY <2>1, <2>2
    <3>3. p.dir = Tail(f.dir)
      BY <1>6, <2>1, <2>2, <3>1, <3>2, PackageMerged
    <3> QED
      BY <1>6, <2>2, <3>3 DEF IsAt
  <2>3. CASE j # k \/ f.dir[2] # pkg
    <3>1. Merged(j, f)' => Merged(j, f)
      BY <1>1, <1>4, <1>7, <1>8, <1>13, <2>3 DEF Merged, Before
    <3> QED
      BY <2>1, <3>1 DEF IsAt
  <2> QED
    BY <2>2, <2>3
<1> QED
  BY <1>9, <1>14 DEF Located

LEMMA TailOfPath ==
    ASSUME NEW C, NEW from \in Seq(C), Len(from) = 2, NEW to \in Seq(C), Len(to) = 1,
           to[1] = from[2], NEW s \in Seq(C)
    PROVE  Tail(from \o s) = to \o s
<1>1. PICK d : d = from \o s
  OBVIOUS
<1>2. PICK e : e = to \o s
  OBVIOUS
<1>3. PICK t : t = Tail(d)
  OBVIOUS
<1>4. /\ d \in Seq(C) /\ Len(d) = 2 + Len(s) /\ d[2] = from[2]
      /\ \A i \in 1..Len(s) : d[2 + i] = s[i]
  BY <1>1, TwoNames, JoinDir
<1>5. /\ e \in Seq(C) /\ Len(e) = 1 + Len(s) /\ e[1] = from[2]
      /\ \A i \in 1..Len(s) : e[1 + i] = s[i]
  <2>1. Len(to) = 1 /\ 1 \in 1..Len(to)
    OBVIOUS
  <2>2. /\ e \in Seq(C) /\ Len(e) = Len(to) + Len(s)
        /\ \A i \in 1..Len(to) : e[i] = to[i]
        /\ \A i \in 1..Len(s) : e[Len(to) + i] = s[i]
    BY <1>2, JoinDir
  <2> QED
    BY <2>1, <2>2
<1>6. Len(s) \in Nat
  OBVIOUS
<1>7. t \in Seq(C) /\ Len(t) = 1 + Len(s) /\ \A i \in 1..Len(t) : t[i] = d[i + 1]
  BY <1>3, <1>4, <1>6
<1>8. ASSUME NEW i \in 1..Len(t) PROVE t[i] = e[i]
  <2>1. CASE i = 1
    BY <2>1, <1>4, <1>5, <1>7
  <2>2. CASE i # 1
    <3>1. PICK m \in 1..Len(s) : i = 1 + m
      <4>1. i - 1 \in 1..Len(s) /\ i = 1 + (i - 1)
        BY <1>6, <1>7, <2>2
      <4> QED
        BY <4>1
    <3>2. e[1 + m] = s[m] /\ d[2 + m] = s[m] /\ i + 1 = 2 + m
      BY <1>4, <1>5, <1>6, <3>1
    <3>3. t[i] = d[i + 1]
      BY <1>7
    <3> QED
      BY <3>1, <3>2, <3>3
  <2> QED
    BY <2>1, <2>2
<1>9. t = e
  BY <1>5, <1>7, <1>8, SeqEqual
<1> QED
  BY <1>1, <1>2, <1>3, <1>9

LEMMA MovedPath ==
    ASSUME NEW C, NEW N, Layout(C, N), Apart, RowInv, FileInv(C, N), OnPackage, Located, MoveFile
    PROVE  OnPackage' /\ Located'
<1>1. PICK k : k = mig.job
  OBVIOUS
<1>2. PICK from : from = mig.from
  OBVIOUS
<1>3. PICK to : to = mig.to
  OBVIOUS
<1>4. /\ mig.at = "moving" /\ AtWork /\ Moving(C, N) /\ UNCHANGED <<rows, version, crashes>>
  BY DEF MoveFile, AtWork, FileInv
<1>5. /\ k \in Jobs /\ rows[k] = Before(k) /\ TwoLevel(rows[k])
      /\ from[1] = Dirs[k] /\ from[2] \in Packages(k)
  BY <1>1, <1>2, <1>4 DEF OnPackage, RowInv, Call, AtWork
<1>6. k \in OldLayout
  BY <1>5 DEF OldLayout
<1>7. PICK rel \in mig.todo, src \in DOMAIN disk, tgt \in Paths(C, N) :
          /\ rel \in Paths(C, N) /\ rel.dir \in Seq(C)
          /\ src = In(from, rel) /\ src.dir = from \o rel.dir
          /\ tgt \notin DOMAIN disk /\ tgt.dir = to \o rel.dir
          /\ disk' = Replace(disk, src, tgt)
          /\ mig' = [mig EXCEPT !.todo = @ \ {rel}]
  BY <1>2, <1>3, MovedFile
<1>8. /\ mig'.at = mig.at /\ mig'.jobs = mig.jobs /\ mig'.job = mig.job
      /\ mig'.packages = mig.packages /\ mig'.from = mig.from
  BY <1>7 DEF RowInv, Call
<1>9. AtWork' = AtWork /\ Ahead' = Ahead /\ ToGo' = ToGo
  BY <1>4, <1>8 DEF AtWork, Ahead, ToGo
<1>10. OnPackage'
  BY <1>4, <1>8 DEF OnPackage, AtWork, Before, Packages
<1>11. \A j \in Jobs : \A f \in Recorded[j] : Merged(j, f)' => Merged(j, f)
  BY <1>4, <1>8, <1>9 DEF Merged, Before
<1>12. /\ from \in Seq(C) /\ Len(from) = 2
       /\ to \in Seq(C) /\ Len(to) = 1 /\ to[1] = from[2]
  BY <1>2, <1>3, <1>4 DEF Moving
<1>13. PICK g \in Recorded[k] : from = <<Dirs[k], g.dir[2]>>
  <2>1. PICK g \in Recorded[k] : from[2] = g.dir[2]
    BY <1>5 DEF Packages
  <2> QED
    BY <1>5, <1>12, <2>1
\* Only files of the package, not yet moved, are below the directory.
<1>14. ASSUME NEW j \in Jobs, NEW f \in Recorded[j], disk[src] = <<j, f>>
       PROVE  j \in OldLayout /\ src = f
  <2>1. IsAt(j, f, src)
    BY <1>14 DEF Located
  <2>2. IsPrefix(from, src.dir)
    BY <1>7, <1>12, JoinDir
  <2>3. CASE j \notin OldLayout
    <3>1. src = OnDisk[j][f]
      BY <2>1, <2>3 DEF IsAt
    <3>2. ~IsPrefix(<<Dirs[k], g.dir[2]>>, OnDisk[j][f].dir)
      BY <1>6, <2>3 DEF Apart
    <3> QED
      BY <1>13, <2>2, <3>1, <3>2
  <2>4. CASE j \in OldLayout
    <3>1. ~IsPrefix(<<Dirs[k], g.dir[2]>>, Tail(f.dir))
      BY <1>6, <2>4 DEF Apart
    <3>2. src.dir # Tail(f.dir)
      BY <1>13, <2>2, <3>1
    <3> QED
      BY <2>1, <2>4, <3>2 DEF IsAt
  <2> QED
    BY <2>3, <2>4
<1>15. /\ DOMAIN disk' = (DOMAIN disk \ {src}) \cup {tgt}
       /\ disk'[tgt] = disk[src]
       /\ \A p \in DOMAIN disk \ {src} : disk'[p] = disk[p]
  <2>1. PICK d : d = disk
    OBVIOUS
  <2>2. /\ DOMAIN Replace(d, src, tgt) = (DOMAIN d \ {src}) \cup {tgt}
        /\ Replace(d, src, tgt)[tgt] = d[src]
        /\ \A p \in DOMAIN d \ {src} : p # tgt => Replace(d, src, tgt)[p] = d[p]
    BY DEF Replace
  <2>3. \A p \in DOMAIN disk : p # tgt
    BY <1>7
  <2> QED
    BY <1>7, <2>1, <2>2, <2>3
<1>16. ASSUME NEW p \in DOMAIN disk', NEW j \in Jobs, NEW f \in Recorded[j], disk'[p] = <<j, f>>
       PROVE  IsAt(j, f, p)'
  <2>1. CASE p = tgt
    <3>1. disk[src] = <<j, f>>
      BY <1>15, <1>16, <2>1
    <3>2. j \in OldLayout /\ src = f
      BY <1>14, <3>1
    <3>3. f.dir = from \o rel.dir
      BY <1>7, <3>2
    <3>4. Tail(from \o rel.dir) = to \o rel.dir
      BY <1>7, <1>12, TailOfPath
    <3>5. p.dir = Tail(f.dir)
      BY <1>7, <2>1, <3>3, <3>4
    <3> QED
      BY <3>2, <3>5 DEF IsAt
  <2>2. CASE p # tgt
    <3>1. p \in DOMAIN disk /\ disk[p] = <<j, f>>
      BY <1>15, <1>16, <2>2
    <3>2. IsAt(j, f, p)
      BY <3>1 DEF Located
    <3> QED
      BY <1>11, <3>2 DEF IsAt
  <2> QED
    BY <2>1, <2>2
<1> QED
  BY <1>10, <1>16 DEF Located

LEMMA PathsStep ==
    ASSUME NEW C, NEW N, Layout(C, N), FlattenedOnce, Apart,
           RowInv, FileInv(C, N), OnPackage, Located, [Next]_vars
    PROVE  OnPackage' /\ Located'
<1>1. CASE Begin
  <2>1. mig.at = "stopped" /\ version = 0 /\ UNCHANGED <<rows, disk, version>>
    BY <1>1 DEF Begin
  <2>2. mig'.at = "jobs" /\ mig'.jobs = Jobs
    BY <1>1 DEF Begin, Stopped
  <2>3. \A j \in OldLayout : \A f \in Recorded[j] : Merged(j, f)' => Merged(j, f)
    BY <2>1, <2>2 DEF Merged, Ahead, AtWork, Before
  <2> QED
    BY <2>1, <2>2, <2>3, StaysLocated DEF OnPackage, AtWork
<1>2. CASE NextJob
  <2>1. PICK k \in mig.jobs :
            mig' = IF TwoLevel(rows[k])
                   THEN [mig EXCEPT !.at = "packages", !.jobs = @ \ {k}, !.job = k,
                                    !.packages = {p.dir[2] : p \in rows[k].files}]
                   ELSE [mig EXCEPT !.jobs = @ \ {k}]
    BY <1>2 DEF NextJob
  <2>2. /\ mig.at = "jobs" /\ UNCHANGED <<rows, disk, version, crashes>>
        /\ k \in Jobs /\ k \in Ahead
    BY <1>2, <2>1 DEF NextJob, Ahead, RowInv, Call
  <2>3. CASE TwoLevel(rows[k])
    <3>1. /\ mig'.at = "packages" /\ mig'.jobs = mig.jobs \ {k} /\ mig'.job = k
          /\ mig'.packages = {p.dir[2] : p \in rows[k].files}
      BY <2>1, <2>3 DEF RowInv, Call
    <3>2. rows[k] = Before(k)
      BY <2>2, <2>3, OldRow
    <3>3. mig'.packages = Packages(k)
      BY <3>1, <3>2 DEF Packages, Before
    <3>4. OnPackage'
      BY <2>2, <3>1, <3>2, <3>3 DEF OnPackage, Before, Packages
    <3>5. Ahead' = Ahead /\ ToGo' = Packages(k)
      BY <2>1, <2>2, <3>1, <3>3 DEF Ahead, ToGo
    <3>6. \A j \in OldLayout : \A f \in Recorded[j] : Merged(j, f)' => Merged(j, f)
      BY <2>2, <3>1, <3>5 DEF Merged, Packages, Before
    <3> QED
      BY <2>2, <3>4, <3>6, StaysLocated
  <2>4. CASE ~TwoLevel(rows[k])
    <3>1. mig'.at = "jobs" /\ mig'.jobs = mig.jobs \ {k}
      BY <2>1, <2>2, <2>4 DEF RowInv, Call
    <3>2. Ahead' = Ahead \ {k} /\ ~AtWork'
      BY <2>2, <3>1 DEF Ahead, AtWork
    <3>3. k \in OldLayout => rows[k] # Before(k)
      BY <2>4 DEF OldLayout
    <3>4. \A j \in OldLayout : \A f \in Recorded[j] : Merged(j, f)' => Merged(j, f)
      BY <2>2, <3>2, <3>3 DEF Merged, Before
    <3> QED
      BY <2>2, <3>2, <3>4, StaysLocated DEF OnPackage
  <2> QED
    BY <2>3, <2>4
<1>3. CASE NextPackage
  BY <1>3, ListedPackage
<1>4. CASE MoveFile
  BY <1>4, MovedPath
<1>5. CASE EndPackage
  BY <1>5, EndedPackage
<1>6. CASE UpdateJob
  <2>1. PICK k : k = mig.job
    OBVIOUS
  <2>2. /\ mig.at = "packages" /\ mig.packages = {} /\ UNCHANGED <<disk, version, crashes>>
        /\ mig'.at = "jobs" /\ mig'.jobs = mig.jobs /\ k \in Jobs
    BY <1>6, <2>1 DEF UpdateJob, RowInv, Call
  <2>3. \A j \in Jobs \ {k} : rows'[j] = rows[j]
    BY <1>6, <2>1 DEF UpdateJob, RowInv, Treated
  <2>4. /\ AtWork /\ ~AtWork' /\ ToGo = {}
        /\ Ahead = mig.jobs \cup {k} /\ Ahead' = mig.jobs
    BY <2>1, <2>2 DEF AtWork, ToGo, Ahead
  <2>5. ASSUME NEW j \in OldLayout, NEW f \in Recorded[j], Merged(j, f)'
        PROVE  Merged(j, f)
    <3>1. CASE j = k
      BY <2>1, <2>4, <3>1 DEF Merged
    <3>2. CASE j # k
      BY <2>3, <2>4, <2>5, <3>2 DEF Merged, OldLayout, Before
    <3> QED
      BY <3>1, <3>2
  <2> QED
    BY <2>2, <2>4, <2>5, StaysLocated DEF OnPackage
<1>7. CASE SetVersion
  <2>1. mig.at = "jobs" /\ mig.jobs = {} /\ UNCHANGED disk /\ mig'.at = "stopped"
    BY <1>7 DEF SetVersion, Stopped
  <2>2. \A j \in OldLayout : \A f \in Recorded[j] : Merged(j, f)
    BY <2>1 DEF Merged, Ahead
  <2> QED
    BY <2>1, <2>2, StaysLocated DEF OnPackage, AtWork
<1>8. CASE Crash
  <2>1. version = 0 /\ UNCHANGED <<rows, disk, version>> /\ mig'.at = "stopped"
    BY <1>8 DEF Crash, Stopped, RowInv, Versions
  <2>2. Ahead' = Jobs /\ ~AtWork'
    BY <2>1 DEF Ahead, AtWork
  <2>3. \A j \in OldLayout : \A f \in Recorded[j] : Merged(j, f)' => Merged(j, f)
    BY <2>1, <2>2 DEF Merged, Before, OldLayout
  <2> QED
    BY <2>1, <2>2, <2>3, StaysLocated DEF OnPackage
<1>9. CASE UNCHANGED vars
  <2>1. UNCHANGED <<rows, disk, version, mig>>
    BY <1>9 DEF vars
  <2>2. \A j \in OldLayout : \A f \in Recorded[j] : Merged(j, f)' => Merged(j, f)
    BY <2>1 DEF Merged, Ahead, AtWork, ToGo, Before
  <2> QED
    BY <2>1, <2>2, StaysLocated DEF OnPackage, AtWork, Before, Packages
<1> QED
  BY <1>1, <1>2, <1>3, <1>4, <1>5, <1>6, <1>7, <1>8, <1>9 DEF Next, Work

\* After the migration each file of the old layout is below the directory its new
\* recorded path names, and no other file has moved, over any crashes and whatever
\* the jobs, packages and files have in common.  Apart is needed: a package directory
\* that is also where another job's file belongs is merged with that file in it.
THEOREM RecordedPathsLead ==
    ASSUME NEW C, NEW N, Layout(C, N), OwnFiles, NoneTripled, FlattenedOnce, Apart
    PROVE  Spec => []PathsLead
<1> DEFINE PathInv == RowInv /\ FileInv(C, N) /\ OnPackage /\ Located
<1>1. Init => PathInv
  BY RowsInit, FilesInit, PathsInit
<1>2. PathInv /\ [Next]_vars => PathInv'
  BY RowsStep, FilesStep, PathsStep
<1>3. PathInv => PathsLead
  <2> SUFFICES ASSUME PathInv, version = 1, NEW j \in Jobs, NEW f \in Recorded[j]
               PROVE  IF TwoLevel(Before(j))
                      THEN \E p \in DOMAIN disk : /\ disk[p] = <<j, f>> /\ p.dir = Tail(f.dir)
                                                  /\ Strip(f) \in rows[j].files
                      ELSE OnDisk[j][f] \in DOMAIN disk /\ disk[OnDisk[j][f]] = <<j, f>>
    BY DEF PathsLead
  <2>1. Ahead = {}
    BY DEF RowInv, Versions, Ahead
  <2>2. Done(j)
    BY <2>1 DEF RowInv, Treated
  <2>3. <<j, f>> \in Contents
    BY DEF Contents
  <2>4. PICK p \in DOMAIN disk : disk[p] = <<j, f>>
    BY <2>3 DEF FileInv, Tree, OnceEach
  <2>5. IsAt(j, f, p)
    BY <2>4 DEF Located
  <2>6. Merged(j, f)
    BY <2>1 DEF Merged
  <2>7. CASE TwoLevel(Before(j))
    <3>1. p.dir = Tail(f.dir)
      BY <2>5, <2>6, <2>7 DEF IsAt, OldLayout
    <3>2. Strip(f) \in rows[j].files
      BY <2>2, <2>7 DEF Done, Flattened, Before
    <3> QED
      BY <2>4, <2>7, <3>1, <3>2
  <2>8. CASE ~TwoLevel(Before(j))
    BY <2>4, <2>5, <2>8 DEF IsAt, OldLayout
  <2> QED
    BY <2>7, <2>8
<1> QED
  BY <1>1, <1>2, <1>3, PTL DEF Spec
=============================================================================
