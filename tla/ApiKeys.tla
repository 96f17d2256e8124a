------------------------------- MODULE ApiKeys -------------------------------
(***************************************************************************)
(* The API keys: the bootstrap key of a first start (auth.py, app.py), the *)
(* admin routes that create and delete keys (api.py), and the api_keys     *)
(* table (db.py).  A request authenticates in one step and acts in a later *)
(* one; in between its own key may be deleted.  A token is known to its    *)
(* holder only if the answer that carries it was sent.                     *)
(***************************************************************************)
EXTENDS Naturals, FiniteSets

CONSTANTS
    MaxKeys,    \* bound: how many keys are ever created
    Clients,    \* bound: requests in progress at a time
    MaxCrashes  \* bound: how often the process dies

ASSUME KeysAssumption ==
    MaxKeys \in Nat \ {0} /\ MaxCrashes \in Nat

Ids == 1..MaxKeys
Scope == {"submit", "admin"}

VARIABLES
    keys,       \* the api_keys table: the scope of each id, or "none"; durable
    nextKey,    \* the AUTOINCREMENT counter; durable
    held,       \* ids of keys whose token somebody has been shown
    startup,    \* lifespan: opened, counted, printing, up
    req,        \* the request each client has in progress
    deleted,    \* history: ids deleted by a request
    crashes

keysVars == <<keys, nextKey, held, startup, req, deleted, crashes>>

NoRequest == [op |-> "none", key |-> 0, id |-> 0, step |-> "none"]
Exists(k) == keys[k] # "none"
Admins == {k \in Ids : keys[k] = "admin"}

KeysInit ==
    /\ keys = [k \in Ids |-> "none"]
    /\ nextKey = 1
    /\ held = {} /\ deleted = {}
    /\ startup = "opened"
    /\ req = [c \in Clients |-> NoRequest]
    /\ crashes = 0

\* create_key: the row is committed before the token is returned.
Insert(scope) ==
    /\ nextKey \in Ids
    /\ keys' = [keys EXCEPT ![nextKey] = scope]
    /\ nextKey' = nextKey + 1

\* ensure_bootstrap_key: count_keys, create_key, print.
CountKeys ==
    /\ startup = "opened"
    /\ startup' = IF \E k \in Ids : Exists(k) THEN "up" ELSE "counted"
    /\ UNCHANGED <<keys, nextKey, held, req, deleted, crashes>>

CreateBootstrap ==
    /\ startup = "counted"
    /\ Insert("admin")
    /\ startup' = "printing"
    /\ UNCHANGED <<held, req, deleted, crashes>>

PrintToken ==
    /\ startup = "printing"
    /\ held' = held \cup {nextKey - 1}
    /\ startup' = "up"
    /\ UNCHANGED <<keys, nextKey, req, deleted, crashes>>

\* verify_key: the tokens that find a row.
Verified == {k \in held : Exists(k)}

\* _authenticate and require_admin, for the three admin routes that write.
Authenticate(c, op, k) ==
    /\ startup = "up" /\ req[c] = NoRequest
    /\ k \in Verified \cap Admins
    /\ req' = [req EXCEPT ![c] = [op |-> op, key |-> k, id |-> 0, step |-> "act"]]
    /\ UNCHANGED <<keys, nextKey, held, startup, deleted, crashes>>

\* Variant of Create for mutation: the token is returned before the commit.
CreateAnswersFirst(c) ==
    /\ req[c].op \in {"create", "extension"}
    /\ \/ /\ req[c].step = "act" /\ nextKey \in Ids
          /\ held' = held \cup {nextKey}
          /\ req' = [req EXCEPT ![c].id = nextKey, ![c].step = "answer"]
          /\ UNCHANGED <<keys, nextKey>>
       \/ /\ req[c].step = "answer"
          /\ Insert("submit")
          /\ req' = [req EXCEPT ![c] = NoRequest]
          /\ UNCHANGED held
    /\ UNCHANGED <<startup, deleted, crashes>>

\* create_key of api.py; extension_zip mints a submit key.
Create(c) ==
    /\ req[c].step = "act" /\ req[c].op \in {"create", "extension"}
    /\ \E scope \in Scope :
        /\ req[c].op = "extension" => scope = "submit"
        /\ Insert(scope)
    /\ req' = [req EXCEPT ![c] = [op |-> @.op, key |-> @.key, id |-> nextKey, step |-> "answer"]]
    /\ UNCHANGED <<held, startup, deleted, crashes>>

Answer(c) ==
    /\ req[c].step = "answer"
    /\ held' = held \cup {req[c].id}
    /\ req' = [req EXCEPT ![c] = NoRequest]
    /\ UNCHANGED <<keys, nextKey, startup, deleted, crashes>>

\* Variant of Delete for mutation: without the check of the key in use.
DeleteAny(c, id) ==
    /\ req[c].step = "act" /\ req[c].op = "delete"
    /\ keys' = [keys EXCEPT ![id] = "none"]
    /\ deleted' = IF Exists(id) THEN deleted \cup {id} ELSE deleted
    /\ req' = [req EXCEPT ![c] = NoRequest]
    /\ UNCHANGED <<nextKey, held, startup, crashes>>

\* delete_key: 409 for the key in use, 404 if there is no such row.
Delete(c, id) ==
    /\ req[c].step = "act" /\ req[c].op = "delete"
    /\ IF id # req[c].key
       THEN /\ keys' = [keys EXCEPT ![id] = "none"]
            /\ deleted' = IF Exists(id) THEN deleted \cup {id} ELSE deleted
       ELSE UNCHANGED <<keys, deleted>>
    /\ req' = [req EXCEPT ![c] = NoRequest]
    /\ UNCHANGED <<nextKey, held, startup, crashes>>

\* The process dies and is started again; the table survives.
Crash ==
    /\ crashes < MaxCrashes
    /\ crashes' = crashes + 1
    /\ startup' = "opened"
    /\ req' = [c \in Clients |-> NoRequest]
    /\ UNCHANGED <<keys, nextKey, held, deleted>>

KeysNext ==
    \/ CountKeys \/ CreateBootstrap \/ PrintToken \/ Crash
    \/ \E c \in Clients :
          \/ \E op \in {"create", "extension", "delete"}, k \in Ids : Authenticate(c, op, k)
          \/ Create(c) \/ Answer(c)
          \/ \E id \in Ids : Delete(c, id)

KeysSpec == KeysInit /\ [][KeysNext]_keysVars

-----------------------------------------------------------------------------
\* A token handed out works until a request deletes its key, whatever crashes: its
\* row was committed before the answer (db.py:338-346).
TokensAreDurable == \A k \in held : Exists(k) \/ k \in deleted

\* The last admin key falls only to a request whose own key was deleted after it
\* had authenticated: "cannot delete the key you are using" (api.py:495) protects it
\* against everything else.
LastAdminFallsOnlyInCrossfire ==
    [][Admins # {} /\ Admins' = {} =>
          \E c \in Clients : req[c].op = "delete" /\ req'[c] = NoRequest
                             /\ ~Exists(req[c].key)]_keysVars

-----------------------------------------------------------------------------
\* Refuted.  auth.py:41: "First run: create the admin key and print it once."
\* While the server answers requests, somebody holds a key or had one deleted.
BootstrapKeyWasShown == startup = "up" => held # {}
=============================================================================
