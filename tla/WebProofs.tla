------------------------------- MODULE WebProofs -------------------------------
(***************************************************************************)
(* Theorems of ApiKeys and of Events, the two parts of the web application *)
(* that hold state of their own; neither reads the other's.                *)
(*                                                                         *)
(* Keys: what is known of a key once its token is out, for any number of   *)
(* keys, requests and crashes.                                             *)
(*                                                                         *)
(* Events: what the page may show, for queues of any size and any number   *)
(* of changes.                                                             *)
(***************************************************************************)
EXTENDS ApiKeys, Events, TLAPS

-----------------------------------------------------------------------------
(* Keys                                                                    *)

Requests ==
    [op : {"none", "create", "extension", "delete"}, key : 0..MaxKeys, id : 0..MaxKeys,
     step : {"none", "act", "answer"}]

KeysTyped ==
    /\ keys \in [Ids -> Scope \cup {"none"}]
    /\ nextKey \in 1..(MaxKeys + 1)
    /\ held \subseteq Ids /\ deleted \subseteq Ids
    /\ startup \in {"opened", "counted", "printing", "up"}
    /\ req \in [Clients -> Requests]

\* An id is given out once: below the counter a row is there or was deleted, above it
\* there is none.
IdsGivenOut ==
    \A k \in Ids : IF k < nextKey THEN Exists(k) \/ k \in deleted ELSE keys[k] = "none"

\* Whoever knows a token, or is about to, knows that of an id given out.
TokensOfRows ==
    /\ \A k \in held : k < nextKey
    /\ startup = "printing" => nextKey > 1
    /\ \A c \in Clients : req[c].step = "answer" => req[c].id \in 1..(nextKey - 1)

\* A request acts with the key of an admin, even if that is deleted by now.
ActsAsAdmin ==
    \A c \in Clients : req[c].step = "act" =>
        /\ req[c].key \in 1..(nextKey - 1)
        /\ keys[req[c].key] \in {"admin", "none"}

KeysIInv == KeysTyped /\ IdsGivenOut /\ TokensOfRows /\ ActsAsAdmin

\* The records that requests are made of.
LEMMA RequestTypes ==
  /\ NoRequest \in Requests /\ NoRequest.step = "none" /\ NoRequest.op = "none"
  /\ \A op \in {"create", "extension", "delete"}, k \in Ids :
        [op |-> op, key |-> k, id |-> 0, step |-> "act"] \in Requests
  /\ \A r \in Requests, k \in Ids :
        [op |-> r.op, key |-> r.key, id |-> k, step |-> "answer"] \in Requests
  BY KeysAssumption DEF NoRequest, Requests, Ids

LEMMA KeysInitEstablishes == KeysInit => KeysIInv
  <1> SUFFICES ASSUME KeysInit
               PROVE  KeysIInv
    OBVIOUS
  <1>1. KeysTyped
    BY KeysAssumption, RequestTypes DEF KeysInit, KeysTyped, Ids
  <1>2. IdsGivenOut
    BY DEF KeysInit, IdsGivenOut, Ids
  <1>3. TokensOfRows /\ ActsAsAdmin
    BY RequestTypes DEF KeysInit, TokensOfRows, ActsAsAdmin
  <1> QED BY <1>1, <1>2, <1>3 DEF KeysIInv

\* The server starts, prints its key, or dies.
LEMMA StartupPreserves ==
  ASSUME KeysIInv, CountKeys \/ CreateBootstrap \/ PrintToken \/ Crash
  PROVE  KeysIInv'
  <1> USE KeysAssumption DEF KeysIInv, Ids, Scope, Exists
  <1>1. CASE CountKeys
    BY <1>1 DEF CountKeys, KeysTyped, IdsGivenOut, TokensOfRows, ActsAsAdmin
  <1>2. CASE CreateBootstrap
    BY <1>2 DEF CreateBootstrap, Insert, KeysTyped, IdsGivenOut, TokensOfRows, ActsAsAdmin
  <1>3. CASE PrintToken
    BY <1>3 DEF PrintToken, KeysTyped, IdsGivenOut, TokensOfRows, ActsAsAdmin
  <1>4. CASE Crash
    BY <1>4, RequestTypes DEF Crash, KeysTyped, IdsGivenOut, TokensOfRows, ActsAsAdmin
  <1> QED BY <1>1, <1>2, <1>3, <1>4

LEMMA RequestPreserves ==
  ASSUME KeysIInv, NEW c \in Clients,
         \/ \E op \in {"create", "extension", "delete"}, k \in Ids : Authenticate(c, op, k)
         \/ Create(c) \/ Answer(c)
         \/ \E id \in Ids : Delete(c, id)
  PROVE  KeysIInv'
  <1> USE KeysAssumption DEF KeysIInv, Ids, Scope, Exists
  <1>1. ASSUME NEW op \in {"create", "extension", "delete"}, NEW k \in Ids, Authenticate(c, op, k)
        PROVE  KeysIInv'
    <2>1. /\ k < nextKey /\ k \in 1..(nextKey - 1) /\ keys[k] = "admin"
          /\ UNCHANGED <<keys, nextKey, held, startup, deleted, crashes>>
          /\ req' = [req EXCEPT ![c] = [op |-> op, key |-> k, id |-> 0, step |-> "act"]]
      BY <1>1 DEF Authenticate, Verified, Admins, KeysTyped, TokensOfRows
    <2>2. KeysTyped'
      BY <2>1, RequestTypes DEF KeysTyped
    <2>3. IdsGivenOut' /\ TokensOfRows'
      BY <2>1 DEF KeysTyped, IdsGivenOut, TokensOfRows
    <2>4. ActsAsAdmin'
      BY <2>1 DEF KeysTyped, ActsAsAdmin
    <2> QED BY <2>2, <2>3, <2>4
  <1>2. CASE Create(c)
    <2>1. PICK scope \in {"submit", "admin"} : Insert(scope)
      BY <1>2 DEF Create
    <2>2. /\ nextKey \in Ids /\ keys' = [keys EXCEPT ![nextKey] = scope] /\ nextKey' = nextKey + 1
          /\ UNCHANGED <<held, startup, deleted>>
          /\ req' = [req EXCEPT ![c] = [op |-> req[c].op, key |-> req[c].key,
                                          id |-> nextKey, step |-> "answer"]]
          /\ req[c] \in Requests
      BY <1>2, <2>1 DEF Create, Insert, KeysTyped
    <2> DEFINE new == [op |-> req[c].op, key |-> req[c].key, id |-> nextKey, step |-> "answer"]
    <2>3. new \in Requests /\ new.id = nextKey /\ new.step = "answer"
      BY <2>2, RequestTypes
    <2>4. req' = [req EXCEPT ![c] = new]
      BY <2>2
    <2> HIDE DEF new
    <2>5. KeysTyped'
      BY <2>2, <2>3, <2>4 DEF KeysTyped
    <2>6. IdsGivenOut'
      BY <2>2 DEF KeysTyped, IdsGivenOut
    <2>7. TokensOfRows'
      <3>1. \A d \in Clients : req'[d] = IF d = c THEN new ELSE req[d]
        BY <2>4 DEF KeysTyped
      <3> QED BY <2>2, <2>3, <3>1 DEF KeysTyped, TokensOfRows
    <2>8. ActsAsAdmin'
      <3>1. \A d \in Clients : req'[d] = IF d = c THEN new ELSE req[d]
        BY <2>4 DEF KeysTyped
      <3>2. ASSUME NEW d \in Clients, req'[d].step = "act"
            PROVE  /\ req'[d].key \in 1..(nextKey' - 1)
                   /\ keys'[req'[d].key] \in {"admin", "none"}
        <4>1. d # c /\ req'[d] = req[d]
          BY <2>3, <3>1, <3>2
        <4>2. req[d].key \in 1..(nextKey - 1) /\ keys[req[d].key] \in {"admin", "none"}
          BY <3>2, <4>1 DEF ActsAsAdmin
        <4> QED BY <2>2, <4>1, <4>2 DEF KeysTyped
      <3> QED BY <3>2 DEF ActsAsAdmin
    <2> QED BY <2>5, <2>6, <2>7, <2>8
  <1>3. CASE Answer(c)
    <2>1. /\ req[c].step = "answer" /\ held' = held \cup {req[c].id}
          /\ req' = [req EXCEPT ![c] = NoRequest]
          /\ UNCHANGED <<keys, nextKey, startup, deleted>>
      BY <1>3 DEF Answer
    <2>2. req[c].id \in 1..(nextKey - 1)
      BY <2>1 DEF TokensOfRows
    <2>3. KeysTyped'
      <3>1. req' \in [Clients -> Requests]
        BY <2>1, RequestTypes DEF KeysTyped
      <3>2. held' \subseteq Ids
        <4>1. nextKey \in 1..(MaxKeys + 1) /\ held \subseteq 1..MaxKeys
          BY DEF KeysTyped
        <4>2. req[c].id \in 1..MaxKeys
          BY <2>2, <4>1
        <4> QED BY <2>1, <4>1, <4>2
      <3> QED BY <2>1, <3>1, <3>2 DEF KeysTyped
    <2>4. IdsGivenOut'
      BY <2>1 DEF IdsGivenOut
    <2>5. \A d \in Clients : req'[d] = IF d = c THEN NoRequest ELSE req[d]
      BY <2>1 DEF KeysTyped
    <2>6. TokensOfRows'
      BY <2>1, <2>2, <2>5, RequestTypes DEF KeysTyped, TokensOfRows
    <2>7. ActsAsAdmin'
      BY <2>1, <2>5, RequestTypes DEF ActsAsAdmin
    <2> QED BY <2>3, <2>4, <2>6, <2>7
  <1>4. ASSUME NEW id \in Ids, Delete(c, id)
        PROVE  KeysIInv'
    <2>1. /\ UNCHANGED <<nextKey, held, startup>>
          /\ req' = [req EXCEPT ![c] = NoRequest]
          /\ \/ keys' = keys /\ deleted' = deleted
             \/ /\ keys' = [keys EXCEPT ![id] = "none"]
                /\ deleted' = IF Exists(id) THEN deleted \cup {id} ELSE deleted
      BY <1>4 DEF Delete
    <2>2. KeysTyped'
      BY <2>1, RequestTypes DEF KeysTyped
    <2>3. IdsGivenOut'
      BY <2>1 DEF KeysTyped, IdsGivenOut
    <2>4. \A d \in Clients : req'[d] = IF d = c THEN NoRequest ELSE req[d]
      BY <2>1 DEF KeysTyped
    <2>5. TokensOfRows'
      BY <2>1, <2>4, RequestTypes DEF TokensOfRows
    <2>6. ActsAsAdmin'
      <3>1. ASSUME NEW d \in Clients, req'[d].step = "act"
            PROVE  /\ req'[d].key \in 1..(nextKey' - 1)
                   /\ keys'[req'[d].key] \in {"admin", "none"}
        <4>1. req'[d] = req[d]
          BY <2>4, <3>1, RequestTypes
        <4>2. req[d].key \in 1..(nextKey - 1) /\ keys[req[d].key] \in {"admin", "none"}
          BY <3>1, <4>1 DEF ActsAsAdmin
        <4>3. req[d].key \in 1..MaxKeys
          BY <4>2 DEF KeysTyped
        <4> QED BY <2>1, <4>1, <4>2, <4>3 DEF KeysTyped
      <3> QED BY <3>1 DEF ActsAsAdmin
    <2> QED BY <2>2, <2>3, <2>5, <2>6
  <1> QED BY <1>1, <1>2, <1>3, <1>4

LEMMA KeysInvariance == KeysSpec => []KeysIInv
  <1>1. KeysIInv /\ [KeysNext]_keysVars => KeysIInv'
    <2> SUFFICES ASSUME KeysIInv, [KeysNext]_keysVars
                 PROVE  KeysIInv'
      OBVIOUS
    <2>1. CASE UNCHANGED keysVars
      BY <2>1 DEF keysVars, KeysIInv, KeysTyped, IdsGivenOut, TokensOfRows, ActsAsAdmin, Exists
    <2>2. CASE KeysNext
      BY <2>2, StartupPreserves, RequestPreserves DEF KeysNext
    <2> QED BY <2>1, <2>2
  <1> QED BY <1>1, KeysInitEstablishes, PTL DEF KeysSpec

-----------------------------------------------------------------------------
\* A token handed out has a committed row until a request deletes it, over any
\* crashes (db.py:338-346, auth.py:40-49).
THEOREM TokensLast == KeysSpec => []TokensAreDurable
  <1>1. KeysIInv => TokensAreDurable
    BY DEF KeysIInv, KeysTyped, IdsGivenOut, TokensOfRows, TokensAreDurable
  <1> QED BY <1>1, KeysInvariance, PTL

\* The check of the key in use fails to keep an admin only against a request whose
\* own key was deleted after it had authenticated (api.py:492-500).
THEOREM LastAdminIsGuarded == KeysSpec => LastAdminFallsOnlyInCrossfire
  <1>1. ASSUME KeysIInv, [KeysNext]_keysVars, Admins # {}, Admins' = {}
        PROVE  \E c \in Clients : req[c].op = "delete" /\ req'[c] = NoRequest
                                  /\ ~Exists(req[c].key)
    <2> USE <1>1 DEF KeysIInv, Admins, Ids
    <2>1. PICK k \in Ids : keys[k] = "admin"
      OBVIOUS
    <2>2. keys'[k] # "admin"
      BY <2>1
    \* No other step removes a row.
    <2>3. PICK c \in Clients, id \in Ids : Delete(c, id)
      <3>1. CASE keys' = keys
        BY <2>1, <2>2, <3>1
      <3>2. ASSUME NEW scope, Insert(scope)
            PROVE  keys'[k] = keys[k]
        <4>1. k # nextKey
          BY <2>1 DEF IdsGivenOut, KeysTyped
        <4> QED BY <3>2, <4>1 DEF Insert, KeysTyped
      <3>3. ~(\E scope \in Scope : Insert(scope))
        BY <2>1, <2>2, <3>2
      <3>4. \A c \in Clients : ~Create(c)
        BY <3>3 DEF Create
      <3>5. ~CreateBootstrap
        BY <3>3 DEF CreateBootstrap, Scope
      <3> QED BY <3>1, <3>4, <3>5
              DEF KeysNext, keysVars, CountKeys, PrintToken, Crash, Authenticate, Answer
    <2>4. id # req[c].key /\ keys' = [keys EXCEPT ![id] = "none"]
      BY <2>1, <2>2, <2>3 DEF Delete
    <2>5. req[c].key \in Ids /\ keys[req[c].key] \in {"admin", "none"}
      <3>1. req[c].step = "act"
        BY <2>3 DEF Delete
      <3>2. nextKey \in 1..(MaxKeys + 1)
        BY DEF KeysTyped
      <3> QED BY <3>1, <3>2, KeysAssumption DEF ActsAsAdmin
    <2>6. keys'[req[c].key] = keys[req[c].key] /\ keys'[req[c].key] # "admin"
      BY <2>4, <2>5 DEF KeysTyped
    <2>7. req[c].op = "delete" /\ req'[c] = NoRequest
      BY <2>3 DEF Delete, KeysTyped
    <2> QED BY <2>5, <2>6, <2>7 DEF Exists
  <1>2. KeysIInv /\ [KeysNext]_keysVars =>
            [Admins # {} /\ Admins' = {} =>
                \E c \in Clients : req[c].op = "delete" /\ req'[c] = NoRequest
                                   /\ ~Exists(req[c].key)]_keysVars
    BY <1>1
  <1> QED BY <1>2, KeysInvariance, PTL DEF KeysSpec, LastAdminFallsOnlyInCrossfire

-----------------------------------------------------------------------------
(* Events                                                                  *)

EventsTyped ==
    /\ rows \in Shown /\ page \in Shown
    /\ queue \in Seq(Event) /\ unsent \in Seq(Event)
    /\ Len(queue) <= QueueSize
    /\ conn \in {"open", "closed"}
    /\ timer \in BOOLEAN
    /\ asked \in 0..MaxAsked /\ answers \subseteq Shown
    /\ drops \in 0..MaxDrops

\* Nothing on its way to the page is ahead of the table: events carry a count that
\* was written, answers are what the table was, and the rows only go forward.
NothingAhead ==
    /\ \A i \in 1..Len(unsent) : unsent[i].files_done <= rows.files_done
    /\ \A i \in 1..Len(queue) : queue[i].files_done <= rows.files_done
    /\ \A a \in answers : a.files_done <= rows.files_done /\ a.version <= rows.version
    /\ page.files_done <= rows.files_done /\ page.version <= rows.version

EventsIInv == EventsTyped /\ NothingAhead

LEMMA EventsInitEstablishes == Init => EventsIInv
  <1> SUFFICES ASSUME Init
               PROVE  EventsIInv
    OBVIOUS
  <1>1. rows \in Shown /\ page \in Shown /\ page = rows
    BY EventsAssumption DEF Init, Shown
  <1>2. EventsTyped
    <2>1. MaxDrops \in Nat /\ MaxAsked \in Nat \ {0} /\ QueueSize \in Nat
      BY EventsAssumption
    <2>2. queue \in Seq(Event) /\ unsent \in Seq(Event) /\ Len(queue) <= QueueSize
      BY <2>1 DEF Init
    <2>3. asked \in 0..MaxAsked /\ answers \subseteq Shown /\ drops \in 0..MaxDrops
      BY <2>1 DEF Init
    <2> QED BY <1>1, <2>2, <2>3 DEF Init, EventsTyped
  <1>3. NothingAhead
    BY <1>1 DEF Init, NothingAhead, Shown
  <1> QED BY <1>2, <1>3 DEF EventsIInv

-----------------------------------------------------------------------------
\* A change only raises what the table holds, and its event carries no more.
LEMMA ChangePreserves ==
  ASSUME EventsIInv, WriteProgress \/ \E published \in BOOLEAN : ChangeState(published)
  PROVE  EventsIInv'
  <1> USE EventsAssumption DEF EventsIInv
  <1>1. PICK e \in Event :
            /\ rows' \in Shown /\ e.files_done <= rows'.files_done
            /\ rows.files_done <= rows'.files_done /\ rows.version <= rows'.version
            /\ unsent' = unsent \/ unsent' = Append(unsent, e)
    <2>1. CASE WriteProgress
      <3>1. rows.files_done \in 0..MaxChanges /\ rows.version \in 0..MaxChanges
        BY DEF EventsTyped, Shown
      <3>2. rows.files_done + 1 \in 0..MaxChanges
        BY <2>1, <3>1 DEF WriteProgress
      <3>3. /\ rows' \in Shown /\ rows'.files_done = rows.files_done + 1
            /\ rows'.version = rows.version
        BY <2>1, <3>1, <3>2 DEF WriteProgress, EventsTyped, Shown
      <3>4. [type |-> "progress", files_done |-> rows'.files_done] \in Event
        BY <3>2, <3>3 DEF Event
      <3> QED BY <2>1, <3>1, <3>3, <3>4 DEF WriteProgress
    <2>2. CASE \E published \in BOOLEAN : ChangeState(published)
      <3>1. rows.files_done \in 0..MaxChanges /\ rows.version \in 0..MaxChanges
        BY DEF EventsTyped, Shown
      <3>2. rows.version + 1 \in 0..MaxChanges
        BY <2>2, <3>1 DEF ChangeState
      <3>3. /\ rows' \in Shown /\ rows'.version = rows.version + 1
            /\ rows'.files_done = rows.files_done
        BY <2>2, <3>1, <3>2 DEF ChangeState, EventsTyped, Shown
      <3>4. [type |-> "state", files_done |-> rows.files_done] \in Event
        BY <3>1 DEF Event
      <3> QED BY <2>2, <3>1, <3>3, <3>4 DEF ChangeState
    <2> QED BY <2>1, <2>2
  <1>2. UNCHANGED <<queue, conn, page, timer, asked, answers, drops>>
    BY DEF WriteProgress, ChangeState
  <1>3. EventsTyped'
    BY <1>1, <1>2 DEF EventsTyped
  <1>4. /\ rows.files_done \in Nat /\ rows.version \in Nat
        /\ rows'.files_done \in Nat /\ rows'.version \in Nat
    BY <1>1 DEF EventsTyped, Shown
  <1>5. \A i \in 1..Len(unsent') : unsent'[i].files_done <= rows'.files_done
    <2>1. \A i \in 1..Len(unsent) : unsent[i].files_done <= rows'.files_done
      <3> SUFFICES ASSUME NEW i \in 1..Len(unsent)
                   PROVE  unsent[i].files_done <= rows'.files_done
        OBVIOUS
      <3>1. unsent[i].files_done \in Nat
        <4>1. unsent[i] \in Event
          BY DEF EventsTyped
        <4>2. unsent[i].files_done \in 0..MaxChanges
          BY <4>1 DEF Event
        <4> QED BY <4>2
      <3>2. unsent[i].files_done <= rows.files_done
        BY DEF NothingAhead
      <3> QED BY <1>1, <1>4, <3>1, <3>2
    <2> QED BY <1>1, <2>1 DEF EventsTyped
  <1>6. \A i \in 1..Len(queue) : queue[i].files_done <= rows'.files_done
    <2> SUFFICES ASSUME NEW i \in 1..Len(queue)
                 PROVE  queue[i].files_done <= rows'.files_done
      OBVIOUS
    <2>1. queue[i].files_done \in Nat
      <3>1. queue[i] \in Event
        BY DEF EventsTyped
      <3>2. queue[i].files_done \in 0..MaxChanges
        BY <3>1 DEF Event
      <3> QED BY <3>2
    <2>2. queue[i].files_done <= rows.files_done
      BY DEF NothingAhead
    <2> QED BY <1>1, <1>4, <2>1, <2>2
  <1>7. \A a \in answers \cup {page} : a.files_done <= rows'.files_done /\ a.version <= rows'.version
    <2> SUFFICES ASSUME NEW a \in answers \cup {page}
                 PROVE  a.files_done <= rows'.files_done /\ a.version <= rows'.version
      OBVIOUS
    <2>1. a \in Shown /\ a.files_done \in Nat /\ a.version \in Nat
      BY DEF EventsTyped, Shown
    <2>2. a.files_done <= rows.files_done /\ a.version <= rows.version
      BY DEF NothingAhead
    <2> QED BY <1>1, <1>4, <2>1, <2>2
  <1> QED BY <1>2, <1>3, <1>5, <1>6, <1>7 DEF NothingAhead

\* The events on their way.
LEMMA EventPreserves ==
  ASSUME EventsIInv, Publish \/ Connect \/ Disconnect \/ Deliver
  PROVE  EventsIInv'
  <1> USE EventsAssumption DEF EventsIInv
  <1>1. CASE Publish
    <2>1. Head(unsent) = unsent[1] /\ Head(unsent) \in Event /\ 1 \in 1..Len(unsent)
      BY <1>1 DEF Publish, EventsTyped
    <2>2. EventsTyped'
      BY <1>1, <2>1 DEF Publish, EventsTyped
    <2>3. \A i \in 1..Len(unsent') : i + 1 \in 1..Len(unsent) /\ unsent'[i] = unsent[i + 1]
      BY <1>1 DEF Publish, EventsTyped
    <2>4. \A i \in 1..Len(queue') : (queue'[i] = queue[i] /\ i \in 1..Len(queue)) \/ queue'[i] = unsent[1]
      BY <1>1, <2>1 DEF Publish, EventsTyped
    <2>5. UNCHANGED <<rows, page, answers>>
      BY <1>1 DEF Publish
    <2> QED BY <2>1, <2>2, <2>3, <2>4, <2>5 DEF NothingAhead
  <1>2. CASE Connect
    BY <1>2 DEF Connect, EventsTyped, NothingAhead
  <1>3. CASE Disconnect
    BY <1>3 DEF Disconnect, EventsTyped, NothingAhead
  <1>4. CASE Deliver
    <2>1. /\ Head(queue) = queue[1] /\ Head(queue) \in Event /\ 1 \in 1..Len(queue)
          /\ queue' \in Seq(Event) /\ Len(queue') <= Len(queue)
          /\ \A i \in 1..Len(queue') : i + 1 \in 1..Len(queue) /\ queue'[i] = queue[i + 1]
          /\ UNCHANGED <<rows, unsent, conn, asked, answers, drops>>
      BY <1>4 DEF Deliver, EventsTyped
    <2>2. \/ page' = page
          \/ page' = [page EXCEPT !.files_done = Head(queue).files_done]
      BY <1>4 DEF Deliver
    <2>3. Head(queue).files_done \in 0..MaxChanges /\ Head(queue).files_done <= rows.files_done
      BY <2>1 DEF NothingAhead, Event
    <2>4. page' \in Shown
      <3>1. page \in Shown
        BY DEF EventsTyped
      <3> QED BY <2>2, <2>3, <3>1 DEF Shown
    <2>5. page'.files_done <= rows.files_done /\ page'.version <= rows.version
      BY <2>2, <2>3 DEF EventsTyped, Shown, NothingAhead
    <2>6. timer' \in BOOLEAN
      BY <1>4 DEF EventsTyped, Deliver
    <2>7. EventsTyped'
      <3>1. Len(queue') <= QueueSize
        BY <2>1 DEF EventsTyped
      <3> QED BY <2>1, <2>4, <2>6, <3>1 DEF EventsTyped
    <2> QED BY <2>1, <2>5, <2>7 DEF NothingAhead
  <1> QED BY <1>1, <1>2, <1>3, <1>4

\* The refreshes: a poll or a timer asks, the server answers, the page takes the answer.
LEMMA RefreshPreserves ==
  ASSUME EventsIInv, TimerFires \/ Poll \/ AnswerRefresh \/ \E a \in Shown : ReceiveAnswer(a)
  PROVE  EventsIInv'
  <1> USE EventsAssumption DEF EventsIInv
  <1>1. CASE TimerFires \/ Poll
    <2>1. timer \in BOOLEAN /\ asked \in 0..MaxAsked /\ MaxAsked \in Nat
      BY DEF EventsTyped
    <2>2. timer' \in BOOLEAN
      BY <1>1, <2>1 DEF TimerFires, Poll
    <2>3. asked' \in 0..MaxAsked
      BY <1>1, <2>1 DEF TimerFires, Poll
    <2>4. UNCHANGED <<rows, unsent, queue, conn, page, answers, drops>>
      BY <1>1 DEF TimerFires, Poll
    <2> QED BY <2>2, <2>3, <2>4 DEF EventsTyped, NothingAhead
  <1>2. CASE AnswerRefresh
    <2>1. rows.files_done <= rows.files_done /\ rows.version <= rows.version
      BY DEF EventsTyped, Shown
    <2> QED BY <1>2, <2>1 DEF AnswerRefresh, EventsTyped, NothingAhead
  <1>3. ASSUME NEW a \in Shown, ReceiveAnswer(a)
        PROVE  EventsIInv'
    BY <1>3 DEF ReceiveAnswer, EventsTyped, NothingAhead
  <1> QED BY <1>1, <1>2, <1>3

-----------------------------------------------------------------------------
\* The subscriber's queue stays within its bound, and neither an event nor an answer
\* that was dropped, late or overtaken ever makes the page show more than the table
\* has (events.py:12-34, App.tsx).
THEOREM PageIsNeverAhead == Spec => []TypeOK
  <1>1. EventsIInv /\ [Next]_vars => EventsIInv'
    <2> SUFFICES ASSUME EventsIInv, [Next]_vars
                 PROVE  EventsIInv'
      OBVIOUS
    <2>1. CASE UNCHANGED vars
      BY <2>1 DEF vars, EventsIInv, EventsTyped, NothingAhead
    <2>2. CASE Next
      BY <2>2, ChangePreserves, EventPreserves, RefreshPreserves DEF Next
    <2> QED BY <2>1, <2>2
  <1>2. EventsIInv => TypeOK
    BY DEF EventsIInv, EventsTyped, NothingAhead, TypeOK
  <1> QED BY <1>1, <1>2, EventsInitEstablishes, PTL DEF Spec
=============================================================================
