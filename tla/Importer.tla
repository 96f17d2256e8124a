------------------------------ MODULE Importer ------------------------------
(***************************************************************************)
(* grabbit-import-jd of jd_import.py against the submit handler of api.py  *)
(* and its rate limiter: the list is parsed into packages, every package   *)
(* is posted in batches, a batch refused with 429 is sent again after a    *)
(* wait, any other error ends the run.  The user may start the importer    *)
(* again, and a job made by one run may have ended by the next.            *)
(*                                                                         *)
(* Time passes while the importer sleeps; otherwise MaxLag ticks in all,   *)
(* for answers that are slow to come or a sleep that lasts longer.         *)
(***************************************************************************)
EXTENDS RateLimiter, SequencesExt, FiniteSetsExt

CONSTANTS
    Urls,
    NoUrl,      \* a link entry without a usable URL
    Links,      \* the zip's link entries in order: [pkg, url]
    PackageIds, \* the package entries, by number
    Supported,  \* URLs check_url and engine.supports let pass
    BatchSize,  \* batch_size (100 in the code)
    RetryWait,  \* Retry-After or 10 seconds, in ticks
    Key,        \* the API key the importer uses
    MaxRuns,    \* bound: how often the importer is started
    MaxLag      \* bound: ticks that pass outside the importer's sleep

ASSUME ImporterAssumption ==
    /\ Links \in Seq([pkg : Nat, url : Urls \cup {NoUrl}])
    /\ PackageIds \subseteq Nat
    /\ Supported \subseteq Urls
    /\ BatchSize \in Nat \ {0}
    /\ RetryWait \in Nat \ {0}
    /\ Key \in Keys
    /\ MaxRuns \in Nat /\ MaxLag \in Nat

VARIABLES
    imp,        \* the importer process
    post,       \* the submit handler that serves each run's request
    open,       \* URLs with an open row
    rows,       \* how many rows were ever inserted for each URL
    runs,       \* how often the importer was started
    lag,        \* ticks passed outside the importer's sleep
    covered     \* history: URLs open at some time since the run began

server == <<open, rows, covered>>
vars == <<limiterVars, imp, post, server, runs, lag>>

-----------------------------------------------------------------------------
(* parse_download_list                                                     *)

\* dict.fromkeys: the first occurrence of each element, in order.
FirstsOnly(s) ==
    LET kept == SelectSeq([i \in DOMAIN s |-> i], LAMBDA i : s[i] \notin ToSet(SubSeq(s, 1, i - 1)))
    IN  [n \in DOMAIN kept |-> s[kept[n]]]

UrlsOf(p) ==
    LET own == SelectSeq(Links, LAMBDA e : e.pkg = p /\ e.url # NoUrl)
    IN  FirstsOnly([i \in DOMAIN own |-> own[i].url])

\* Packages with links, in the order of their numbers.
Packages ==
    LET ids == SetToSortSeq({p \in PackageIds : UrlsOf(p) # <<>>}, <)
    IN  [n \in DOMAIN ids |-> UrlsOf(ids[n])]

\* The slice pkg.urls[i:i + batch_size].
Chunk(pkg, i) == SubSeq(Packages[pkg], i + 1, Min({i + BatchSize, Len(Packages[pkg])}))

-----------------------------------------------------------------------------
(* Phases.  The importer: idle, sending, awaiting (an answer), sleeping,   *)
(* done, gone (SystemExit or killed).  A handler: none, received, serving, *)
(* finding (an open row), answered, refused (429).                         *)

Idle == [at |-> "idle", pkg |-> 1, i |-> 0, wake |-> 0, accepted |-> 0, rejected |-> 0]
NoPost == [at |-> "none", left |-> <<>>, results |-> <<>>]

Init ==
    /\ LimiterInit
    /\ imp = Idle
    /\ post = [r \in 1..MaxRuns |-> NoPost]
    /\ open = {} /\ covered = {}
    /\ rows = [u \in Urls |-> 0]
    /\ runs = 0 /\ lag = 0

\* Variant of Loop for mutation: an empty batch after the last full one.
LoopPastEnd(state, pkg, i) ==
    IF pkg > Len(Packages) THEN [state EXCEPT !.at = "done"]
    ELSE IF i <= Len(Packages[pkg])
         THEN [state EXCEPT !.at = "sending", !.pkg = pkg, !.i = i]
    ELSE IF pkg < Len(Packages)
         THEN [state EXCEPT !.at = "sending", !.pkg = pkg + 1, !.i = 0]
    ELSE [state EXCEPT !.at = "done"]

\* The for loops of import_packages, at package pkg and offset i: the next batch,
\* or the end.
Loop(state, pkg, i) ==
    IF pkg > Len(Packages) THEN [state EXCEPT !.at = "done"]
    ELSE IF i < Len(Packages[pkg])
         THEN [state EXCEPT !.at = "sending", !.pkg = pkg, !.i = i]
    ELSE IF pkg < Len(Packages)
         THEN [state EXCEPT !.at = "sending", !.pkg = pkg + 1, !.i = 0]
    ELSE [state EXCEPT !.at = "done"]

\* How many results of a batch are accepted, or are not.
Count(results, ok) == Cardinality({n \in DOMAIN results : results[n] = ok})

\* main
StartRun ==
    /\ imp.at \in {"idle", "gone", "done"} /\ runs < MaxRuns
    /\ runs' = runs + 1
    /\ imp' = Loop(Idle, 1, 0)
    /\ covered' = open
    /\ UNCHANGED <<limiterVars, post, open, rows, lag>>

Send ==
    /\ imp.at = "sending"
    /\ post' = [post EXCEPT ![runs] =
                   [at |-> "received", left |-> Chunk(imp.pkg, imp.i), results |-> <<>>]]
    /\ imp' = [imp EXCEPT !.at = "awaiting"]
    /\ UNCHANGED <<limiterVars, server, runs, lag>>

\* Variant of TakeAnswer for mutation: a refused batch is given up.
SkipRefused ==
    /\ imp.at = "awaiting"
    /\ \/ /\ post[runs].at = "refused"
          /\ imp' = Loop(imp, imp.pkg, imp.i + BatchSize)
       \/ /\ post[runs].at = "answered"
          /\ imp' = Loop([imp EXCEPT !.accepted = @ + Count(post[runs].results, TRUE),
                                     !.rejected = @ + Count(post[runs].results, FALSE)],
                         imp.pkg, imp.i + BatchSize)
    /\ post' = [post EXCEPT ![runs] = NoPost]
    /\ UNCHANGED <<limiterVars, server, runs, lag>>

\* submit returns, or learns of the 429 and sleeps.
TakeAnswer ==
    /\ imp.at = "awaiting"
    /\ \/ /\ post[runs].at = "refused"
          /\ imp' = [imp EXCEPT !.at = "sleeping", !.wake = now + RetryWait]
       \/ /\ post[runs].at = "answered"
          /\ imp' = Loop([imp EXCEPT !.accepted = @ + Count(post[runs].results, TRUE),
                                     !.rejected = @ + Count(post[runs].results, FALSE)],
                         imp.pkg, imp.i + BatchSize)
    /\ post' = [post EXCEPT ![runs] = NoPost]
    /\ UNCHANGED <<limiterVars, server, runs, lag>>

WakeUp ==
    /\ imp.at = "sleeping" /\ now >= imp.wake
    /\ imp' = [imp EXCEPT !.at = "sending"]
    /\ UNCHANGED <<limiterVars, post, server, runs, lag>>

\* The connection fails, before or after the server has acted, or the user
\* interrupts: the run ends, the handler does not.
Interrupt ==
    /\ imp.at \in {"sending", "awaiting", "sleeping"}
    /\ imp' = [imp EXCEPT !.at = "gone"]
    /\ UNCHANGED <<limiterVars, post, server, runs, lag>>

-----------------------------------------------------------------------------
(* The submit handler.                                                     *)

\* Variant of CheckRate for mutation: the limit is checked when the batch is in.
CheckRateLate(r) ==
    /\ post[r].at = "received"
    /\ \/ /\ Admit(Key)
          /\ post' = [post EXCEPT ![r].at = "serving"]
          /\ UNCHANGED server
       \/ /\ Refuse(Key)
          /\ post' = [post EXCEPT ![r].at = "refused"]
          /\ rows' = [u \in Urls |-> IF u \in (ToSet(post[r].left) \cap Supported) \ open
                                     THEN rows[u] + 1 ELSE rows[u]]
          /\ open' = open \cup (ToSet(post[r].left) \cap Supported)
          /\ covered' = covered \cup open'
    /\ UNCHANGED <<now, imp, runs, lag>>

\* rate_limiter.allow comes first: a refused request has done nothing.
CheckRate(r) ==
    /\ post[r].at = "received"
    /\ \/ Admit(Key) /\ post' = [post EXCEPT ![r].at = "serving"]
       \/ Refuse(Key) /\ post' = [post EXCEPT ![r].at = "refused"]
    /\ UNCHANGED <<now, imp, server, runs, lag>>

\* One turn of the loop over req.urls: reject, insert, or find that it is open.
ServeUrl(r) ==
    /\ post[r].at = "serving" /\ post[r].left # <<>>
    /\ LET u == Head(post[r].left)
           taken == [post[r] EXCEPT !.left = Tail(@), !.results = Append(@, u \in Supported)]
       IN  IF u \in Supported \cap open
           THEN /\ post' = [post EXCEPT ![r].at = "finding"]
                /\ UNCHANGED server
           ELSE /\ post' = [post EXCEPT ![r] = taken]
                /\ open' = open \cup ({u} \cap Supported)
                /\ rows' = [rows EXCEPT ![u] = IF u \in Supported THEN @ + 1 ELSE @]
                /\ covered' = covered \cup ({u} \cap Supported)
    /\ UNCHANGED <<limiterVars, imp, runs, lag>>

\* Variant of FindOpen for mutation: accepted only if the open row is found.
FindOpenOrReject(r) ==
    /\ post[r].at = "finding"
    /\ LET u == Head(post[r].left)
       IN  post' = [post EXCEPT ![r] = [at |-> "serving", left |-> Tail(@.left),
                                        results |-> Append(@.results, u \in open)]]
    /\ UNCHANGED <<limiterVars, imp, server, runs, lag>>

\* find_open_job: by now the job may have ended; accepted all the same, with no id.
FindOpen(r) ==
    /\ post[r].at = "finding"
    /\ post' = [post EXCEPT ![r] = [at |-> "serving", left |-> Tail(@.left),
                                    results |-> Append(@.results, TRUE)]]
    /\ UNCHANGED <<limiterVars, imp, server, runs, lag>>

Answer(r) ==
    /\ post[r].at = "serving" /\ post[r].left = <<>>
    /\ post' = [post EXCEPT ![r].at = "answered"]
    /\ UNCHANGED <<limiterVars, imp, server, runs, lag>>

\* A job leaves the open states: it is done, failed or cancelled.
JobEnds(u) ==
    /\ u \in open
    /\ open' = open \ {u}
    /\ UNCHANGED <<limiterVars, imp, post, rows, covered, runs, lag>>

Pass ==
    /\ Tick
    /\ IF imp.at = "sleeping" /\ now < imp.wake
       THEN UNCHANGED lag
       ELSE lag < MaxLag /\ lag' = lag + 1
    /\ UNCHANGED <<log, first, imp, post, server, runs>>

Serve(r) == CheckRate(r) \/ ServeUrl(r) \/ FindOpen(r) \/ Answer(r)

Next ==
    \/ StartRun \/ Send \/ TakeAnswer \/ WakeUp \/ Interrupt \/ Pass
    \/ \E r \in 1..MaxRuns : Serve(r)
    \/ \E u \in Urls : JobEnds(u)

\* The importer and the server take their steps, and time passes.
Fairness ==
    /\ WF_vars(Send) /\ WF_vars(TakeAnswer) /\ WF_vars(WakeUp)
    /\ WF_vars(Pass)
    /\ \A r \in 1..MaxRuns : WF_vars(Serve(r))

Spec == Init /\ [][Next]_vars
FairSpec == Spec /\ Fairness

-----------------------------------------------------------------------------
\* Types; and what the importer is about to send is a batch of some package, since
\* the API rejects an empty one (models.py:54).
TypeOK ==
    /\ LimiterTypeOK
    /\ imp \in [at : {"idle", "sending", "awaiting", "sleeping", "done", "gone"},
                pkg : Nat \ {0}, i : Nat, wake : Nat, accepted : Nat, rejected : Nat]
    /\ \A r \in 1..MaxRuns :
          /\ post[r].at \in {"none", "received", "serving", "finding", "answered", "refused"}
          /\ post[r].left \in Seq(Urls) /\ post[r].results \in Seq(BOOLEAN)
    /\ open \subseteq Urls /\ covered \subseteq Urls
    /\ rows \in [Urls -> Nat]
    /\ runs \in 0..MaxRuns /\ lag \in 0..MaxLag
    /\ imp.at = "sending" => Chunk(imp.pkg, imp.i) # <<>>

\* The links of the list, read off the zip's entries and not off the parser:
\* pairs of a package and a URL.
Wanted == {<<e.pkg, e.url>> : e \in {l \in ToSet(Links) : l.pkg \in PackageIds /\ l.url # NoUrl}}

\* The places of the URLs in the parsed list, and what it asks of the parser: the
\* places stand one for one for the links wanted, and no package lists a URL twice.
Places == UNION {{n} \X DOMAIN Packages[n] : n \in DOMAIN Packages}
UrlAt(place) == Packages[place[1]][place[2]]
ParserIsRight ==
    /\ Packages \in Seq(Seq(Urls) \ {<<>>})
    /\ \A n \in DOMAIN Packages : \A i, k \in DOMAIN Packages[n] :
          Packages[n][i] = Packages[n][k] => i = k
    /\ \E link \in Bijection(Places, Wanted) : \A place \in Places : link[place][2] = UrlAt(place)

\* When the importer reports that it is done, it has counted every link of the list
\* once, and every URL the server supports has been queued since the run began:
\* no batch was skipped by a 429, a slice or an already open URL
\* (jd_import.py:90-131, api.py:61-84).
DoneIsComplete ==
    imp.at = "done" =>
        /\ imp.accepted = Cardinality({w \in Wanted : w[2] \in Supported})
        /\ imp.rejected = Cardinality({w \in Wanted : w[2] \notin Supported})
        /\ {w[2] : w \in Wanted} \cap Supported \subseteq covered

\* However often batches were refused and sent again, a URL got at most one row per
\* run and package that lists it: a 429 leaves no trace (api.py:54, jd_import.py:127).
ResendMakesNoRow ==
    \A u \in Urls : rows[u] <= runs * Cardinality({w \in Wanted : w[2] = u})

\* A run that nobody interrupts gets through: the limiter lets it in again after
\* finitely many waits.
RunsEnd == [](imp.at = "sending" => <>(imp.at \in {"done", "gone"}))
=============================================================================
