----------------------------- MODULE MCJobQueue -----------------------------
(* Small instances of JobQueue for TLC.                                    *)
EXTENDS JobQueue

CONSTANTS u1, u2, u3, h1, h2

\* The hosts of the URLs, for the instances with one URL, two and three.
OneUrl == [u \in {u1} |-> h1]
TwoUrls == [u \in {u1, u2} |-> h1]
TwoHosts == [u \in {u1, u2} |-> IF u = u1 THEN h1 ELSE h2]
ThreeUrls == [u \in {u1, u2, u3} |-> IF u = u1 THEN h1 ELSE h2]
=============================================================================
