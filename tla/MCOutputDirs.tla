---------------------------- MODULE MCOutputDirs ----------------------------
(***************************************************************************)
(* Worlds for OutputDirs: the jobs each starts from, what users ask for,   *)
(* and what may go wrong.                                                  *)
(***************************************************************************)
EXTENDS OutputDirs

CONSTANTS c1, c2

None == <<{}, {}, {}>>
Queued == <<"queued", "queued", "queued">>
AllDone == <<"done", "done", "done">>
OwnFile == <<{"x"}, {"y"}, {"z"}>>
SameFile == <<{"x"}, {"x"}, {"x"}>>
AnyError == {<<j, "error">> : j \in 1..3}
Merge(jobs, name) == [jobs |-> jobs, name |-> name]

\* Three unfinished jobs with a directory and a file of their own; nobody asks for
\* anything.
Still ==
    [jobs |-> 1..3, clients |-> {c1}, state |-> Queued, dest |-> << <<>>, <<>>, <<>> >>,
     dir |-> <<"a", "b", "c">>, apart |-> << <<>>, <<>>, <<>> >>, files |-> OwnFile,
     names |-> None, merges |-> {}, rechecked |-> {}, retried |-> {}, runs |-> 0, overlap |-> FALSE, crash |-> FALSE]

\* A job with a directory and one that lands flat, renamed before, during and after
\* downloads, failures and retries.
Renamed ==
    [jobs |-> 1..2, dir |-> <<"a", NoDir>>, names |-> <<{"n", "m"}, {"p", "q"}>>,
     retried |-> AnyError, runs |-> 4] @@ Still

\* A job with two directories, renamed back and forth, retried and rechecked.
Spread ==
    [jobs |-> {1}, apart |-> <<"y" :> "b", <<>>, <<>> >>, files |-> <<{"x", "y"}, {}, {}>>,
     names |-> <<{"n", "a"}, {}, {}>>, rechecked |-> {<<1, "done">>}, retried |-> AnyError,
     runs |-> 3] @@ Still

\* The same, the first job rechecked by the pin loop.
Repeated ==
    [jobs |-> 1..2, dir |-> <<"a", NoDir>>, names |-> <<{"n", "a"}, {"p", "q"}>>,
     rechecked |-> {<<1, "done">>}, runs |-> 4] @@ Still

\* Finished jobs with equal file names, merged pairwise, renamed, crashed.
Merged ==
    [state |-> AllDone, files |-> SameFile, names |-> <<{"r"}, {}, {}>>,
     merges |-> {Merge(<<1, 2>>, "m"), Merge(<<2, 3>>, "n"), Merge(<<1, 3>>, "c")},
     crash |-> TRUE] @@ Still

\* A finished, a flat and an unfinished job, merged and merged again.
Regrouped ==
    [state |-> <<"done", "done", "queued">>, dir |-> <<"a", NoDir, "c">>,
     merges |-> {Merge(<<1, 2, 3>>, "m"), Merge(<<1, 2, 3>>, "n")},
     rechecked |-> {<<3, "done">>}, retried |-> AnyError, runs |-> 3] @@ Still

\* Merges of unfinished jobs that extend a group and overlap.
Extended ==
    [clients |-> {c1, c2}, merges |-> {Merge(<<1, 2>>, "m"), Merge(<<2, 3>>, "n")},
     overlap |-> TRUE] @@ Still

\* Two renames and a merge into one directory that overlap, with crashes.
Raced ==
    [jobs |-> 1..2, clients |-> {c1, c2}, state |-> AllDone, names |-> <<{"m"}, {"m"}, {}>>,
     merges |-> {Merge(<<1, 2>>, "m")}, overlap |-> TRUE, crash |-> TRUE] @@ Still

AllWorlds == {Renamed, Spread, Repeated, Merged, Regrouped, Extended, Raced}

\* What the theorems of OutputDirsProofs and OutputRowsProofs ask for, and where: only
\* in Merged do files have one name, only in Regrouped does every merge name all jobs
\* and start from some that are unfinished.
ASSUME TheoremsApply ==
    /\ \A w \in AllWorlds : NoRecheck(w) /\ Level(w) /\ Names(w)
    /\ \A w \in AllWorlds \ {Merged} : OwnNames(w)
    /\ \A w \in {Renamed, Repeated, Regrouped} : OneDir(w) /\ OwnDirs(w) /\ KeepsNames(w)
    /\ MergedWhole(Regrouped)
=============================================================================
