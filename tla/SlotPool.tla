------------------------------ MODULE SlotPool ------------------------------
(***************************************************************************)
(* What the worker pool promises about downloads.max_concurrent and        *)
(* downloads.max_per_host: a job takes a slot of its host only while both  *)
(* limits leave room, gives it back once, and every slot comes back.       *)
(***************************************************************************)
EXTENDS Naturals, FiniteSets

CONSTANTS Jobs, Hosts, MaxConcurrent, MaxPerHost

VARIABLE slot   \* the hosts each job holds a slot of: none or one

Holders == {j \in Jobs : slot[j] # {}}
HoldersOf(h) == {j \in Jobs : h \in slot[j]}

Init == slot = [j \in Jobs |-> {}]

Take(j, h) ==
    /\ slot[j] = {}
    /\ Cardinality(Holders) < MaxConcurrent
    /\ Cardinality(HoldersOf(h)) < MaxPerHost
    /\ slot' = [slot EXCEPT ![j] = {h}]

GiveBack(j) ==
    /\ slot[j] # {}
    /\ slot' = [slot EXCEPT ![j] = {}]

\* The process died.
Reset == slot' = [j \in Jobs |-> {}]

Next ==
    \/ \E j \in Jobs, h \in Hosts : Take(j, h)
    \/ \E j \in Jobs : GiveBack(j)
    \/ Reset

Spec == Init /\ [][Next]_slot

\* Every slot comes back.
SlotsComeBack == \A j \in Jobs : WF_slot(GiveBack(j))
=============================================================================
