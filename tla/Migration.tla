----------------------------- MODULE Migration -----------------------------
(***************************************************************************)
(* migrate_flatten_domain_dirs of worker.py: once, before the workers      *)
(* start, the files of finished jobs move from dest/<domain>/<package> to  *)
(* dest/<package>.  It is one task with nothing beside it, but the process *)
(* may die between any two of its steps and starts it again.               *)
(***************************************************************************)
EXTENDS FileTree

CONSTANTS
    Jobs,       \* ids of the jobs with a directory
    Dirs,       \* each job's dir_name before the migration
    Recorded,   \* its recorded files: paths relative to its destination
    OnDisk,     \* where each of those is: a user may have renamed the directory
    MaxCrashes  \* bound

ASSUME MigrationAssumption ==
    /\ Jobs \subseteq Nat /\ MaxCrashes \in Nat
    /\ \A j \in Jobs : Recorded[j] = DOMAIN OnDisk[j]

VARIABLES
    rows,       \* dir_name and file_paths; durable
    disk,       \* the tree under downloads.dest; durable
    version,    \* PRAGMA user_version; durable
    mig,        \* the call of the migration
    crashes

vars == <<rows, disk, version, mig, crashes>>

Stopped == [at |-> "stopped", jobs |-> {}, job |-> 0, packages |-> {},
            from |-> <<>>, to |-> <<>>, todo |-> {}]

Init ==
    /\ rows = [j \in Jobs |-> [dir |-> Dirs[j], files |-> Recorded[j]]]
    /\ disk = [p \in UNION {Range(OnDisk[j]) : j \in Jobs} |->
                  CHOOSE c \in UNION {{j} \X Recorded[j] : j \in Jobs} : OnDisk[c[1]][c[2]] = p]
    /\ version = 0 /\ mig = Stopped /\ crashes = 0

\* Every path is <domain>/<package>/...file with domain = dir_name.
TwoLevel(row) ==
    row.files # {} /\ \A p \in row.files : Len(p.dir) >= 2 /\ p.dir[1] = row.dir

Strip(p) == [p EXCEPT !.dir = Tail(@)]
FirstPackage(row) == (CHOOSE p \in row.files : TRUE).dir[2]
Flattened(row) == [dir |-> FirstPackage(row), files |-> {Strip(p) : p \in row.files}]

\* get_schema_version and list_done_with_paths, which has no ORDER BY
Begin ==
    /\ mig.at = "stopped" /\ version = 0
    /\ mig' = [Stopped EXCEPT !.at = "jobs", !.jobs = Jobs]
    /\ UNCHANGED <<rows, disk, version, crashes>>

\* The next job of the list; one that is not in the old layout is left alone.
NextJob ==
    /\ mig.at = "jobs"
    /\ \E j \in mig.jobs :
          mig' = IF TwoLevel(rows[j])
                 THEN [mig EXCEPT !.at = "packages", !.jobs = @ \ {j}, !.job = j,
                                  !.packages = {p.dir[2] : p \in rows[j].files}]
                 ELSE [mig EXCEPT !.jobs = @ \ {j}]
    /\ UNCHANGED <<rows, disk, version, crashes>>

\* Variant of NextPackage for mutation: the job's first package only.
FirstPackageOnly ==
    /\ mig.at = "packages" /\ mig.packages # {}
    /\ LET pkg == CHOOSE p \in mig.packages : TRUE
           src == <<rows[mig.job].dir, pkg>>
       IN  mig' = [mig EXCEPT !.packages = {}, !.from = src, !.to = <<pkg>>,
                              !.todo = RelFiles(disk, src),
                              !.at = IF IsDir(disk, src) THEN "moving" ELSE @]
    /\ UNCHANGED <<rows, disk, version, crashes>>

\* merge_dirs of one package; a package whose directory is gone is passed over.
NextPackage ==
    /\ mig.at = "packages"
    /\ \E pkg \in mig.packages :
          LET src == <<rows[mig.job].dir, pkg>>
          IN  mig' = [mig EXCEPT !.packages = @ \ {pkg}, !.from = src, !.to = <<pkg>>,
                                 !.todo = RelFiles(disk, src),
                                 !.at = IF IsDir(disk, src) THEN "moving" ELSE @]
    /\ UNCHANGED <<rows, disk, version, crashes>>

MoveFile ==
    /\ mig.at = "moving"
    /\ \E rel \in mig.todo :
          /\ disk' = Replace(disk, In(mig.from, rel), FreeTarget(disk, In(mig.to, rel)))
          /\ mig' = [mig EXCEPT !.todo = @ \ {rel}]
    /\ UNCHANGED <<rows, version, crashes>>

EndPackage ==
    /\ mig.at = "moving" /\ mig.todo = {}
    /\ disk' = RemoveTree(disk, mig.from)
    /\ mig' = [mig EXCEPT !.at = "packages"]
    /\ UNCHANGED <<rows, version, crashes>>

\* Variant of UpdateJob for mutation: the recorded paths keep their domain.
UpdateDirOnly ==
    /\ mig.at = "packages" /\ mig.packages = {}
    /\ rows' = [rows EXCEPT ![mig.job].dir = FirstPackage(rows[mig.job])]
    /\ mig' = [mig EXCEPT !.at = "jobs"]
    /\ UNCHANGED <<disk, version, crashes>>

\* The row; a domain directory that is empty now is removed.
UpdateJob ==
    /\ mig.at = "packages" /\ mig.packages = {}
    /\ rows' = [rows EXCEPT ![mig.job] = Flattened(@)]
    /\ mig' = [mig EXCEPT !.at = "jobs"]
    /\ UNCHANGED <<disk, version, crashes>>

SetVersion ==
    /\ mig.at = "jobs" /\ mig.jobs = {}
    /\ version' = 1
    /\ mig' = Stopped
    /\ UNCHANGED <<rows, disk, crashes>>

Crash ==
    /\ mig.at # "stopped" /\ crashes < MaxCrashes
    /\ crashes' = crashes + 1
    /\ mig' = Stopped
    /\ UNCHANGED <<rows, disk, version>>

Work == Begin \/ NextJob \/ NextPackage \/ MoveFile \/ EndPackage \/ UpdateJob \/ SetVersion
Next == Work \/ Crash

Spec == Init /\ [][Next]_vars

-----------------------------------------------------------------------------
(* What the proofs ask of the layout.  C and N stand for the names a       *)
(* directory and a file may have.                                          *)

Before(j) == [dir |-> Dirs[j], files |-> Recorded[j]]
OldLayout == {j \in Jobs : TwoLevel(Before(j))}

Paths(C, N) == [dir : Seq(C), name : N, sfx : Seq(Nat)]
FilesBefore == UNION {Range(OnDisk[j]) : j \in Jobs}

\* The layout is made of paths, finitely many of them.
Layout(C, N) ==
    /\ \A j \in Jobs : Dirs[j] \in C /\ Recorded[j] \subseteq Paths(C, N)
    /\ FilesBefore \subseteq Paths(C, N)
    /\ IsFiniteSet(FilesBefore)

\* No file is recorded by two jobs.
OwnFiles ==
    \A j, k \in Jobs : \A f \in Recorded[j] : \A g \in Recorded[k] :
        OnDisk[j][f] = OnDisk[k][g] => j = k /\ f = g

\* Three equal names one below the other.  Of such a path <n>/<n>/<n>/file merge_dirs
\* makes <n>/<n>/file, and removes <n>/<n> afterwards.
Tripled(d) == \E i \in 1..Len(d) : i + 2 <= Len(d) /\ d[i] = d[i + 1] /\ d[i + 1] = d[i + 2]
NoneTripled == \A p \in FilesBefore : ~Tripled(p.dir)

\* Interrupted, the migration looks at a flattened row again: it must not take it for
\* one of the old layout.
FlattenedOnce == MaxCrashes = 0 \/ \A j \in OldLayout : ~TwoLevel(Flattened(Before(j)))

\* Only the files of a package are below its old directory, and those where the job
\* says: nobody else's, and none that has been moved already.
Apart ==
    /\ \A j \in OldLayout : \A f \in Recorded[j] : OnDisk[j][f] = f
    /\ \A k \in OldLayout : \A g \in Recorded[k] :
          LET package == <<Dirs[k], g.dir[2]>>
          IN  /\ \A j \in OldLayout : \A f \in Recorded[j] : ~IsPrefix(package, Tail(f.dir))
              /\ \A j \in Jobs \ OldLayout : \A f \in Recorded[j] :
                    ~IsPrefix(package, OnDisk[j][f].dir)

-----------------------------------------------------------------------------
(* Properties                                                              *)

\* No file is lost or overwritten, at any step and after any crash, whatever
\* packages and file names the jobs have in common.
NoFileLost ==
    \A j \in Jobs : \A f \in Recorded[j] :
        Cardinality({p \in DOMAIN disk : disk[p] = <<j, f>>}) = 1

\* Afterwards every job in the old layout has lost its domain, once, and every
\* other job's row is as before, however often the migration was interrupted.
MigratedOnce ==
    version = 1 => \A j \in Jobs :
        rows[j] = IF TwoLevel(Before(j)) THEN Flattened(Before(j)) ELSE Before(j)

\* Afterwards each file of a migrated job is where its new recorded path says, up to
\* a suffix; a job the migration left alone has its files where they were.
PathsLead ==
    version = 1 => \A j \in Jobs : \A f \in Recorded[j] :
        IF TwoLevel(Before(j))
        THEN \E p \in DOMAIN disk : /\ disk[p] = <<j, f>> /\ p.dir = Tail(f.dir)
                                    /\ Strip(f) \in rows[j].files
        ELSE OnDisk[j][f] \in DOMAIN disk /\ disk[OnDisk[j][f]] = <<j, f>>
=============================================================================
