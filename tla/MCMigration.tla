---------------------------- MODULE MCMigration ----------------------------
(***************************************************************************)
(* Old layouts for Migration: two jobs whose packages have one name and    *)
(* equal file names, a package named as its domain, a job of two packages, *)
(* a job its user has renamed, one that is flat already; and, for the      *)
(* claim, a job with a directory below its package.                        *)
(***************************************************************************)
EXTENDS Migration, TLC

F(dir, name) == Path(dir, name)
Same(files) == [f \in files |-> f]

MCDirs == <<"d", "e", "d", "mine", "p">>
MCRecorded == <<{F(<<"d", "p">>, "x"), F(<<"d", "p">>, "y")},
                {F(<<"e", "p">>, "x"), F(<<"e", "q">>, "x")},
                {F(<<"d", "d">>, "z")},
                {F(<<"f", "g">>, "u")},
                {F(<<"p">>, "v")}>>
MCOnDisk == [j \in Jobs |->
    IF j = 4 THEN F(<<"f", "g">>, "u") :> F(<<"mine", "g">>, "u") ELSE Same(MCRecorded[j])]

\* The proofs ask nothing this layout does not have.
ASSUME LayoutAssumption ==
    Recorded = MCRecorded =>
        Layout(STRING, STRING) /\ OwnFiles /\ NoneTripled /\ FlattenedOnce /\ Apart

DeepDirs == <<"d">>
DeepRecorded == <<{F(<<"d", "p", "s">>, "x")}>>
DeepOnDisk == <<Same(DeepRecorded[1])>>
=============================================================================
