----------------------------- MODULE DirsClaims -----------------------------
(***************************************************************************)
(* What docstrings and comments say of renames and merges and the code     *)
(* does not keep: a world for each, small enough to read the execution,    *)
(* and the property it breaks.                                             *)
(***************************************************************************)
EXTENDS MCOutputDirs

Pair == {Merge(<<1, 2>>, "m")}
Lone == [jobs |-> {1}, names |-> <<{"r"}, {}, {}>>, runs |-> 1] @@ Still
LoneDone == [state |-> AllDone] @@ Lone

\* A pin recheck of a failed job whose rename is pending.
Pending == {[rechecked |-> {<<1, "error">>}, runs |-> 2] @@ Lone}
\* A rename accepted while the run applies pending names.
Late == {[overlap |-> TRUE] @@ Lone}
\* The same, the job landing flat and finished.
FlatRecheck == {[dir |-> <<NoDir, "b", "c">>, rechecked |-> {<<1, "done">>}] @@ LoneDone}
\* A rename back to the name the source gives, after a retry that failed.
RenameBack ==
    {[names |-> <<{"n", "a"}, {}, {}>>, retried |-> {<<1, "error">>}, runs |-> 3] @@ Lone}
\* A rename of a renamed job while it is rechecked.
RecheckRename ==
    {[names |-> <<{"n", "r"}, {}, {}>>, rechecked |-> {<<1, "done">>}] @@ LoneDone}
\* A merge of finished jobs of two destinations with equal loose files.
FlatMerge ==
    {[jobs |-> 1..2, state |-> AllDone, dest |-> << <<"s">>, <<>>, <<>> >>,
     dir |-> <<NoDir, NoDir, NoDir>>, files |-> SameFile, merges |-> Pair] @@ Still}
\* A merge of unfinished jobs with equal file names.
Deferred == {[jobs |-> 1..2, files |-> SameFile, merges |-> Pair, runs |-> 2] @@ Still}
\* A merge whose target lies below one of its sources.
Nested ==
    {[jobs |-> 1..2, state |-> AllDone, dest |-> << <<"b">>, <<>>, <<>> >>, merges |-> Pair] @@ Still}
\* Renames of one finished job that overlap.
RenameRace ==
    {[clients |-> {c1, c2}, files |-> <<{"x", "y"}, {}, {}>>, names |-> <<{"n", "r"}, {}, {}>>,
     overlap |-> TRUE] @@ LoneDone}
\* A rename of one member of a finished merge.
Shared ==
    {[jobs |-> 1..2, state |-> AllDone, names |-> <<{"r"}, {}, {}>>, merges |-> Pair] @@ Still}
\* A crash while a merge extends a group.
GroupCrash ==
    {[merges |-> Pair \cup {Merge(<<2, 3>>, "n")}, crash |-> TRUE] @@ Still}
\* Merges of finished jobs with equal file names into one directory that overlap.
MergeRace ==
    {[clients |-> {c1, c2}, state |-> AllDone, files |-> SameFile,
      merges |-> {Merge(<<1, 2>>, "a"), Merge(<<1, 3>>, "a")}, overlap |-> TRUE] @@ Still}
\* A job whose files come in two directories.
Several ==
    {[files |-> <<{"x", "y"}, {}, {}>>, apart |-> <<"y" :> "b", <<>>, <<>> >>] @@ Lone}

-----------------------------------------------------------------------------
\* worker.py:244 "Preserve a renamed directory: record it as a pending rename" and
\* api.py:188 "Running job: recorded and applied when the download completes".
\* Refuted by Pending (the recheck replaces the name that waits), by RenameBack (the
\* name that waits is applied after a later one) and by Late (the name comes after the
\* run has looked for one).
EveryRenameHonoured == Quiet => \A j \in Alone : Honoured(j)

\* CHANGELOG.md:207 "land new files in the job's current (possibly renamed)
\* directory": no file of a finished job lies outside it.  Refuted by FlatRecheck and
\* RecheckRename.
NoStrays ==
    Quiet => \A j \in Done : \A f \in FilesOf[j] : \A p \in Copies(j, f) :
        IsPrefix(Home(rows[j]), p.dir)

\* worker.py:86 "merged jobs may legitimately contain equal filenames - collisions
\* are kept by suffixing".  Refuted by FlatMerge and Deferred, which overwrite, by
\* MergeRace, where two threads find one name free, by Nested, where the target is
\* removed with the source, and by RenameRace.
NoFileLost == \A j \in Jobs : Kept(j)

\* models.py:34 "Output directory of this job's files", of members of a group too and
\* of all of the files.  Refuted by Shared and by Several.
EveryRowPointsToFiles == Quiet => \A j \in Done : InPlace(j) = FilesOf[j]

\* api.py:304 "members from the earlier merge that weren't part of this request must
\* not keep the stale name".  Refuted by GroupCrash.
NoStaleNames ==
    (\A c \in Clients : Idle(c)) =>
        \A j, k \in Jobs : SameGroup(j, k) => rows[j].gname = rows[k].gname
=============================================================================
