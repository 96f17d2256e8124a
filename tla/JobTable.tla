------------------------------ MODULE JobTable ------------------------------
(***************************************************************************)
(* The jobs table of db.py: its rows, its unique index, and the queries    *)
(* and updates the API, the dispatcher and the maintenance loops issue.    *)
(* A table is a function from job ids to rows.  The columns kept are those *)
(* that decide what happens next: the URL, the state and the pin flag.     *)
(* Ids come from AUTOINCREMENT, so an id names one job for ever; the ids   *)
(* not yet given out, and the ids of deleted jobs, hold an absent row.     *)
(***************************************************************************)
EXTENDS Naturals, FiniteSets

CONSTANTS
    MaxJobs,        \* bound: how many rows are ever inserted
    Urls,           \* the URLs users submit
    Hosts,          \* the hosts they live on
    HostOf,         \* urlparse(url).hostname
    DispatchLimit   \* limit of the dispatcher's list_jobs (50 in the code)

ASSUME TableAssumption ==
    /\ MaxJobs \in Nat \ {0}
    /\ Urls # {}
    /\ HostOf \in [Urls -> Hosts]
    /\ DispatchLimit \in Nat \ {0}

Ids == 1..MaxJobs

JobState == {"queued", "active", "paused", "done", "error", "cancelled"}

\* _OPEN_STATES: the states idx_jobs_url_open covers.
OpenStates == {"queued", "active", "paused"}

Row == [url : Urls, state : JobState \cup {"absent"}, pinned : BOOLEAN]

Table == [Ids -> Row]

EmptyTable ==
    [j \in Ids |->
        [url |-> CHOOSE u \in Urls : TRUE, state |-> "absent", pinned |-> FALSE]]

InState(t, S) == {j \in Ids : t[j].state \in S}

\* find_open_job, and the condition on which the unique index rejects an insert.
UrlOpen(t, u) == \E j \in InState(t, OpenStates) : t[j].url = u

\* The unique index rejects moving j to state s while another row of j's URL
\* is open.  An update of a row that is gone matches nothing and is accepted.
Conflict(t, j, s) ==
    /\ s \in OpenStates
    /\ t[j].state # "absent"
    /\ \E k \in InState(t, OpenStates) \ {j} : t[k].url = t[j].url

\* set_state / update_job(state=...): unconditional, a no-op on a missing row.
SetState(t, j, s) ==
    IF t[j].state = "absent" THEN t ELSE [t EXCEPT ![j].state = s]

SetPinned(t, j, p) ==
    IF t[j].state = "absent" THEN t ELSE [t EXCEPT ![j].pinned = p]

Insert(t, j, u) ==
    [t EXCEPT ![j] = [url |-> u, state |-> "queued", pinned |-> FALSE]]

DeleteRows(t, J) ==
    [j \in Ids |-> IF j \in J
                   THEN [t[j] EXCEPT !.state = "absent", !.pinned = FALSE]
                   ELSE t[j]]

\* list_jobs: ORDER BY pinned DESC, id DESC.
Precedes(t, j, k) ==
    \/ t[j].pinned /\ ~t[k].pinned
    \/ t[j].pinned = t[k].pinned /\ j > k

\* list_jobs(state=QUEUED, limit=DispatchLimit): the rows one pass looks at.
Window(t) ==
    LET queued == InState(t, {"queued"})
    IN  {j \in queued :
            Cardinality({k \in queued : Precedes(t, k, j)}) < DispatchLimit}

\* list_failed_unpinned
FailedUnpinned(t) == {j \in InState(t, {"error"}) : ~t[j].pinned}

\* list_pinned_due, for a cutoff that every finished run has passed.
PinnedAtRest(t) == {j \in InState(t, {"done", "error"}) : t[j].pinned}

\* The rows the SELECT and the DELETE of delete_finished_unpinned match.
FinishedUnpinned(t) == {j \in InState(t, {"done", "cancelled"}) : ~t[j].pinned}

\* Variants of requeue_interrupted for mutation: forgotten; over every open state.
RequeueNothing(t) == t
RequeueOpen(t) ==
    [j \in Ids |-> IF t[j].state \in OpenStates
                   THEN [t[j] EXCEPT !.state = "queued"] ELSE t[j]]

\* requeue_interrupted
RequeueInterrupted(t) ==
    [j \in Ids |->
        IF t[j].state = "active" THEN [t[j] EXCEPT !.state = "queued"] ELSE t[j]]
=============================================================================
