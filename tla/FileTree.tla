------------------------------ MODULE FileTree ------------------------------
(***************************************************************************)
(* The files below the download directory and the helpers of worker.py     *)
(* that move them.  A disk maps the paths of files to what they hold; a    *)
(* directory is the sequence of its components and exists while a file     *)
(* lies under it.  A file name keeps apart the suffixes merge_dirs adds:   *)
(* 'a (2) (3).jpg' is a with <<2, 3>>.                                     *)
(***************************************************************************)
EXTENDS SequencesExt, FiniteSetsExt, Naturals

Path(dir, name) == [dir |-> dir, name |-> name, sfx |-> <<>>]

\* dir / rel
In(dir, rel) == [rel EXCEPT !.dir = dir \o @]

Under(disk, dir) == {p \in DOMAIN disk : IsPrefix(dir, p.dir)}
IsDir(disk, dir) == Under(disk, dir) # {}

\* src.rglob, as paths relative to src.
RelFiles(disk, dir) ==
    {[p EXCEPT !.dir = SubSeq(@, Len(dir) + 1, Len(@))] : p \in Under(disk, dir)}

\* os.replace of a file: what the target held is gone.
Replace(disk, from, to) ==
    [q \in (DOMAIN disk \ {from}) \cup {to} |-> IF q = to THEN disk[from] ELSE disk[q]]

\* with_name of the loop in merge_dirs: suffixes accumulate.
Suffixed(p, n) == [p EXCEPT !.sfx = @ \o [i \in 1..n |-> i + 1]]

\* Variants of FreeTarget for mutation: no suffix at all, one that is not tested.
SameTarget(disk, p) == p
UntestedTarget(disk, p) == IF p \in DOMAIN disk THEN Suffixed(p, 1) ELSE p

\* Where merge_dirs puts a file: the first of its names that is free.
FreeTarget(disk, p) ==
    Suffixed(p, Min({n \in 0..Cardinality(DOMAIN disk) : Suffixed(p, n) \notin DOMAIN disk}))

\* shutil.rmtree: whatever is there by then.
RemoveTree(disk, dir) == [q \in DOMAIN disk \ Under(disk, dir) |-> disk[q]]

\* os.replace of a directory onto a name that does not exist.
RenameTree(disk, src, dst) ==
    LET moved == {In(dst, rel) : rel \in RelFiles(disk, src)}
        origin(q) == [q EXCEPT !.dir = src \o SubSeq(@, Len(dst) + 1, Len(@))]
    IN  [q \in (DOMAIN disk \ Under(disk, src)) \cup moved |->
            IF q \in moved THEN disk[origin(q)] ELSE disk[q]]
=============================================================================
