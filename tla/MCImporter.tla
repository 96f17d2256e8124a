----------------------------- MODULE MCImporter -----------------------------
(* Small instances of Importer for TLC.                                    *)
EXTENDS Importer

CONSTANTS u1, u2, u3, u4

Link(p, u) == [pkg |-> p, url |-> u]

\* Two packages; one link twice, one in both packages, one entry without a URL, one
\* of a package that has no entry of its own.
MixedLinks == <<Link(2, u1), Link(2, u2), Link(1, u2), Link(1, u1), Link(1, u2), Link(1, NoUrl),
                Link(1, u3), Link(3, u4)>>

\* What the parser makes of them.
ASSUME MixedLinksParsed == ParserIsRight
=============================================================================
