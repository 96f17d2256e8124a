------------------------------- MODULE Events -------------------------------
(***************************************************************************)
(* EventHub of events.py, the websocket of api.py and the queue page of    *)
(* web/src/App.tsx: one page, what it shows, and what the server holds.    *)
(* An event may be dropped (full queue), lost (connection closed) or       *)
(* overtaken by the answer to a refresh; two refreshes may be answered in  *)
(* either order; some changes publish no event at all.                     *)
(***************************************************************************)
EXTENDS Naturals, Sequences

CONSTANTS
    QueueSize,  \* maxsize of a subscriber's queue (500 in the code)
    MaxChanges, \* bound: changes of the rows
    MaxDrops,   \* bound: connections lost
    MaxAsked    \* bound: refreshes in progress at a time

ASSUME EventsAssumption ==
    QueueSize \in Nat \ {0} /\ {MaxChanges, MaxDrops} \subseteq Nat /\ MaxAsked \in Nat \ {0}

VARIABLES
    rows,       \* what GET /api/downloads answers: a version, and files_done
    unsent,     \* events whose change is committed and that are not yet published
    queue,      \* the subscriber's queue
    conn,       \* the websocket: "open" or "closed"
    page,       \* what the page shows
    timer,      \* the debounced refresh is scheduled
    asked,      \* refreshes the server has not answered
    answers,    \* answers on their way to the page
    drops

vars == <<rows, unsent, queue, conn, page, timer, asked, answers, drops>>

Shown == [version : 0..MaxChanges, files_done : 0..MaxChanges]
Event == [type : {"state", "progress"}, files_done : 0..MaxChanges]

Init ==
    /\ rows = [version |-> 0, files_done |-> 0]
    /\ unsent = <<>> /\ queue = <<>>
    /\ conn = "closed"
    /\ page = rows
    /\ timer = FALSE
    /\ asked = 1            \* the refresh when the page is opened
    /\ answers = {}
    /\ drops = 0

\* A handler or a task commits a change and then publishes it; removing a finished
\* row (api.py:348) publishes nothing.
ChangeState(published) ==
    /\ rows.version < MaxChanges
    /\ rows' = [rows EXCEPT !.version = @ + 1]
    /\ unsent' = IF published
                 THEN Append(unsent, [type |-> "state", files_done |-> rows.files_done])
                 ELSE unsent
    /\ UNCHANGED <<queue, conn, page, timer, asked, answers, drops>>

WriteProgress ==
    /\ rows.files_done < MaxChanges
    /\ rows' = [rows EXCEPT !.files_done = @ + 1]
    /\ unsent' = Append(unsent, [type |-> "progress", files_done |-> rows'.files_done])
    /\ UNCHANGED <<queue, conn, page, timer, asked, answers, drops>>

\* Variant of Publish for mutation: a queue without maxsize.
PublishUnbounded ==
    /\ unsent # <<>>
    /\ unsent' = Tail(unsent)
    /\ queue' = IF conn = "open" THEN Append(queue, Head(unsent)) ELSE queue
    /\ UNCHANGED <<rows, conn, page, timer, asked, answers, drops>>

\* publish: put_nowait, dropped when the queue is full or nobody subscribes.
Publish ==
    /\ unsent # <<>>
    /\ unsent' = Tail(unsent)
    /\ queue' = IF conn = "open" /\ Len(queue) < QueueSize
                THEN Append(queue, Head(unsent)) ELSE queue
    /\ UNCHANGED <<rows, conn, page, timer, asked, answers, drops>>

\* ws_events: subscribe after the key is verified, unsubscribe when it ends.
Connect ==
    /\ conn = "closed"
    /\ conn' = "open" /\ queue' = <<>>
    /\ UNCHANGED <<rows, unsent, page, timer, asked, answers, drops>>

Disconnect ==
    /\ conn = "open" /\ drops < MaxDrops
    /\ conn' = "closed" /\ queue' = <<>>
    /\ drops' = drops + 1
    /\ UNCHANGED <<rows, unsent, page, timer, asked, answers>>

\* send_json, and the page's handler: patch the count, or schedule a refresh.
Deliver ==
    /\ conn = "open" /\ queue # <<>>
    /\ queue' = Tail(queue)
    /\ IF Head(queue).type = "progress"
       THEN /\ page' = [page EXCEPT !.files_done = Head(queue).files_done]
            /\ UNCHANGED timer
       ELSE /\ timer' = TRUE
            /\ UNCHANGED page
    /\ UNCHANGED <<rows, unsent, conn, asked, answers, drops>>

TimerFires ==
    /\ timer /\ asked < MaxAsked
    /\ timer' = FALSE
    /\ asked' = asked + 1
    /\ UNCHANGED <<rows, unsent, queue, conn, page, answers, drops>>

\* Variant of Poll for mutation: it polls only while the connection is down.
PollWhenDown ==
    /\ conn = "closed" /\ asked < MaxAsked
    /\ asked' = asked + 1
    /\ UNCHANGED <<rows, unsent, queue, conn, page, timer, answers, drops>>

\* The fallback poll, every 15 seconds.
Poll ==
    /\ asked < MaxAsked
    /\ asked' = asked + 1
    /\ UNCHANGED <<rows, unsent, queue, conn, page, timer, answers, drops>>

\* list_downloads reads the table.
AnswerRefresh ==
    /\ asked > 0
    /\ asked' = asked - 1
    /\ answers' = answers \cup {rows}
    /\ UNCHANGED <<rows, unsent, queue, conn, page, timer, drops>>

\* setJobs: the answers of two refreshes in progress may arrive in either order.
ReceiveAnswer(a) ==
    /\ a \in answers
    /\ page' = a
    /\ answers' = answers \ {a}
    /\ UNCHANGED <<rows, unsent, queue, conn, timer, asked, drops>>

Next ==
    \/ \E published \in BOOLEAN : ChangeState(published)
    \/ WriteProgress \/ Publish
    \/ Connect \/ Disconnect \/ Deliver
    \/ TimerFires \/ Poll \/ AnswerRefresh
    \/ \E a \in Shown : ReceiveAnswer(a)

\* The server publishes and answers, the browser polls and handles what arrives.
\* The connection may stay closed for ever.
Fairness ==
    /\ WF_vars(Publish) /\ WF_vars(Deliver) /\ WF_vars(TimerFires)
    /\ WF_vars(Poll) /\ WF_vars(AnswerRefresh)
    /\ \A a \in Shown : WF_vars(ReceiveAnswer(a))

Spec == Init /\ [][Next]_vars
FairSpec == Spec /\ Fairness

-----------------------------------------------------------------------------
\* Types; the queue is bounded (events.py:15), and nobody is told of more files than
\* the table has.
TypeOK ==
    /\ rows \in Shown /\ page \in Shown
    /\ queue \in Seq(Event) /\ unsent \in Seq(Event)
    /\ Len(queue) <= QueueSize
    /\ conn \in {"open", "closed"}
    /\ timer \in BOOLEAN
    /\ asked \in 0..MaxAsked /\ answers \subseteq Shown
    /\ drops \in 0..MaxDrops
    /\ page.files_done <= rows.files_done /\ page.version <= rows.version

\* Once the rows stop changing the page comes to show them and keeps showing them,
\* whatever was dropped, lost, overtaken or never published: "the UI resyncs via GET
\* /api/downloads" (events.py:24).
PageConverges == <>[][UNCHANGED rows]_vars => <>[](page = rows)
=============================================================================
