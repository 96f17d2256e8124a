----------------------------- MODULE RateLimiter -----------------------------
(***************************************************************************)
(* RateLimiter of auth.py: at most Limit submissions of a key in any       *)
(* window.  The code keeps a deque of submission times per key; the model  *)
(* keeps every time in log[k] and first[k], the position of the oldest one *)
(* still in the deque, so that a property can speak of those it has        *)
(* forgotten.                                                              *)
(***************************************************************************)
EXTENDS Naturals, Sequences

CONSTANTS
    Keys,       \* ids of API keys
    Limit,      \* SUBMIT_RATE_LIMIT
    Window,     \* _RATE_WINDOW, in ticks of the clock
    MaxTime     \* bound: the clock stops there

ASSUME LimiterAssumption ==
    /\ Limit \in Nat \ {0}
    /\ Window \in Nat
    /\ MaxTime \in Nat

VARIABLES
    now,        \* time.monotonic()
    log,        \* per key, the times of the submissions allowed, oldest first
    first       \* per key, where the deque begins in log

limiterVars == <<now, log, first>>

LimiterInit ==
    /\ now = 0
    /\ log = [k \in Keys |-> <<>>]
    /\ first = [k \in Keys |-> 1]

Tick == now < MaxTime /\ now' = now + 1

\* The test of the while loop: hits[0] < now - window.
Expired(k, i) == log[k][i] + Window < now

\* Variants of Evicted for mutation: a deque never emptied, one emptied too soon.
NothingEvicted(k, n) == n = first[k]
EvictedAtEdge(k, n) ==
    /\ \A i \in first[k]..(n - 1) : log[k][i] + Window <= now
    /\ n <= Len(log[k]) => log[k][n] + Window > now

\* The loop leaves the deque beginning at n: at the first time not expired.
Evicted(k, n) ==
    /\ \A i \in first[k]..(n - 1) : Expired(k, i)
    /\ n <= Len(log[k]) => ~Expired(k, n)

\* The two ways allow ends.
Admit(k) ==
    \E n \in first[k]..(Len(log[k]) + 1) :
        /\ Evicted(k, n)
        /\ Len(log[k]) + 1 - n < Limit
        /\ first' = [first EXCEPT ![k] = n]
        /\ log' = [log EXCEPT ![k] = Append(@, now)]

Refuse(k) ==
    \E n \in first[k]..(Len(log[k]) + 1) :
        /\ Evicted(k, n)
        /\ Len(log[k]) + 1 - n >= Limit
        /\ first' = [first EXCEPT ![k] = n]
        /\ UNCHANGED log

LimiterNext ==
    \/ Tick /\ UNCHANGED <<log, first>>
    \/ \E k \in Keys : (Admit(k) \/ Refuse(k)) /\ UNCHANGED now

LimiterSpec == LimiterInit /\ [][LimiterNext]_limiterVars

-----------------------------------------------------------------------------
\* Types: the deque is a stretch at the end of the log.
LimiterTypeOK ==
    /\ now \in Nat
    /\ log \in [Keys -> Seq(Nat)]
    /\ first \in [Keys -> Nat \ {0}]
    /\ \A k \in Keys : first[k] <= Len(log[k]) + 1

\* Any Limit + 1 submissions of a key that allow let through in a row take
\* longer than a window, whatever was evicted in between (auth.py:29-37).
RateBound ==
    \A k \in Keys : \A i \in 1..Len(log[k]) :
        i + Limit <= Len(log[k]) => log[k][i] + Window < log[k][i + Limit]

\* allow refuses a key only if Limit of its submissions, counted over all it ever
\* made, lie within the window that ends now (auth.py:34).
RefusedForCause ==
    [][\A k \in Keys :
          Refuse(k) => /\ Len(log[k]) >= Limit
                       /\ log[k][Len(log[k]) + 1 - Limit] + Window >= now]_limiterVars
=============================================================================
