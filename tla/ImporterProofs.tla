--------------------------- MODULE ImporterProofs ---------------------------
(***************************************************************************)
(* Proofs about RateLimiter and Importer: the sliding window, for any      *)
(* limit, window, clock and keys; that the submit handler and the importer *)
(* use it as it promises; and what the importer's report is worth, for any *)
(* list, batch size, number of runs and interruptions.                     *)
(***************************************************************************)
EXTENDS Importer, FiniteSetTheorems, SequenceTheorems, TLAPS

-----------------------------------------------------------------------------
(* The sliding window.                                                     *)

\* The times are in order, none in the future.
Ordered ==
    \A k \in Keys : \A i \in 1..Len(log[k]) :
        /\ log[k][i] <= now
        /\ \A j \in i..Len(log[k]) : log[k][i] <= log[k][j]

\* Only expired times have left the deque, which holds no more than Limit.
DequeHoldsWindow ==
    \A k \in Keys :
        /\ \A i \in 1..(first[k] - 1) : log[k][i] + Window < now
        /\ Len(log[k]) + 1 <= first[k] + Limit

LimiterInv == LimiterTypeOK /\ Ordered /\ DequeHoldsWindow /\ RateBound

LEMMA LimiterInitEstablishes == LimiterInit => LimiterInv
  BY LimiterAssumption
     DEF LimiterInit, LimiterInv, LimiterTypeOK, Ordered, DequeHoldsWindow, RateBound

LEMMA TickKeeps ==
  ASSUME LimiterInv, Tick, UNCHANGED <<log, first>>
  PROVE  LimiterInv'
  <1> USE LimiterAssumption
  <1>1. now \in Nat /\ now' = now + 1 /\ log' = log /\ first' = first
    BY DEF LimiterInv, LimiterTypeOK, Tick
  <1>2. LimiterTypeOK'
    BY <1>1 DEF LimiterInv, LimiterTypeOK
  <1>3. Ordered'
    BY <1>1 DEF LimiterInv, LimiterTypeOK, Ordered
  <1>4. DequeHoldsWindow'
    BY <1>1 DEF LimiterInv, LimiterTypeOK, DequeHoldsWindow
  <1>5. RateBound'
    BY <1>1 DEF LimiterInv, RateBound
  <1> QED BY <1>2, <1>3, <1>4, <1>5 DEF LimiterInv

\* What the loop of allow evicts has expired; the rest of the deque is kept.
LEMMA EvictionKeepsWindow ==
  ASSUME LimiterInv, NEW k \in Keys, NEW n \in first[k]..(Len(log[k]) + 1), Evicted(k, n)
  PROVE  \A i \in 1..(n - 1) : log[k][i] + Window < now
  <1> SUFFICES ASSUME NEW i \in 1..(n - 1)
               PROVE  log[k][i] + Window < now
    OBVIOUS
  <1>0. first[k] \in Nat \ {0}
    BY DEF LimiterInv, LimiterTypeOK
  <1>1. CASE i < first[k]
    BY <1>0, <1>1 DEF LimiterInv, DequeHoldsWindow
  <1>2. CASE i >= first[k]
    <2>1. i \in first[k]..(n - 1)
      BY <1>0, <1>2
    <2> QED BY <2>1 DEF Evicted, Expired
  <1> QED BY <1>0, <1>1, <1>2

LEMMA AdmitKeeps ==
  ASSUME LimiterInv, NEW k \in Keys, Admit(k), UNCHANGED now
  PROVE  LimiterInv'
  <1> USE LimiterAssumption
  <1>1. PICK n \in first[k]..(Len(log[k]) + 1) :
            /\ Evicted(k, n)
            /\ Len(log[k]) + 1 - n < Limit
            /\ first' = [first EXCEPT ![k] = n]
            /\ log' = [log EXCEPT ![k] = Append(@, now)]
    BY DEF Admit
  <1>2. /\ now \in Nat /\ now' = now
        /\ log \in [Keys -> Seq(Nat)] /\ first \in [Keys -> Nat \ {0}]
    BY DEF LimiterInv, LimiterTypeOK
  <1> DEFINE len == Len(log[k])
  <1>3. len \in Nat /\ log[k] \in Seq(Nat) /\ n \in Nat \ {0} /\ n <= len + 1
    BY <1>2
  <1>4. /\ first'[k] = n
        /\ log'[k] = Append(log[k], now)
        /\ \A q \in Keys \ {k} : first'[q] = first[q] /\ log'[q] = log[q]
    BY <1>1, <1>2
  <1>5. /\ Len(log'[k]) = len + 1
        /\ log'[k][len + 1] = now
        /\ \A i \in 1..len : log'[k][i] = log[k][i]
    BY <1>3, <1>4
  <1>6. LimiterTypeOK'
    <2>1. log' \in [Keys -> Seq(Nat)] /\ first' \in [Keys -> Nat \ {0}]
      BY <1>1, <1>2, <1>3
    <2>2. \A q \in Keys : first'[q] <= Len(log'[q]) + 1
      <3> TAKE q \in Keys
      <3>1. CASE q = k
        BY <1>3, <1>4, <1>5, <3>1
      <3>2. CASE q # k
        BY <1>4, <3>2 DEF LimiterInv, LimiterTypeOK
      <3> QED BY <3>1, <3>2
    <2> QED BY <1>2, <2>1, <2>2 DEF LimiterTypeOK
  <1>7. Ordered'
    <2> SUFFICES ASSUME NEW q \in Keys, NEW i \in 1..Len(log'[q])
                 PROVE  /\ log'[q][i] <= now'
                        /\ \A j \in i..Len(log'[q]) : log'[q][i] <= log'[q][j]
      BY DEF Ordered
    <2>1. CASE q # k
      BY <1>2, <1>4, <2>1 DEF LimiterInv, Ordered
    <2>2. CASE q = k
      <3>1. \A m \in 1..len : log[k][m] <= now /\ log[k][m] \in Nat
        BY <1>3 DEF LimiterInv, Ordered
      <3>2. \A m \in 1..len : \A j \in m..len : log[k][m] <= log[k][j]
        BY DEF LimiterInv, Ordered
      <3>3. i \in 1..(len + 1)
        BY <1>5, <2>2
      <3>4. CASE i = len + 1
        BY <1>2, <1>3, <1>5, <2>2, <3>4
      <3>5. CASE i \in 1..len
        <4>1. log'[k][i] = log[k][i] /\ log[k][i] <= now
          BY <1>5, <3>1, <3>5
        <4>2. \A j \in i..len : log'[k][i] <= log'[k][j]
          <5> TAKE j \in i..len
          <5>1. j \in 1..len
            BY <1>3, <3>5
          <5> QED BY <1>5, <3>2, <3>5, <4>1, <5>1
        <4> QED BY <1>2, <1>3, <1>5, <2>2, <4>1, <4>2
      <3> QED BY <1>3, <3>3, <3>4, <3>5
    <2> QED BY <2>1, <2>2
  <1>8. DequeHoldsWindow'
    <2>1. \A i \in 1..(n - 1) : log'[k][i] + Window < now
      <3>1. \A i \in 1..(n - 1) : log[k][i] + Window < now
        BY <1>1, EvictionKeepsWindow
      <3>2. \A i \in 1..(n - 1) : i \in 1..len
        BY <1>3
      <3> QED BY <1>5, <3>1, <3>2
    <2>2. Len(log'[k]) + 1 <= n + Limit
      BY <1>1, <1>3, <1>5
    <2>3. ASSUME NEW q \in Keys \ {k}
          PROVE  /\ \A i \in 1..(first'[q] - 1) : log'[q][i] + Window < now'
                 /\ Len(log'[q]) + 1 <= first'[q] + Limit
      BY <1>2, <1>4, <2>3 DEF LimiterInv, DequeHoldsWindow
    <2> QED BY <1>2, <1>4, <2>1, <2>2, <2>3 DEF DequeHoldsWindow
  <1>9. RateBound'
    <2> SUFFICES ASSUME NEW q \in Keys, NEW i \in 1..Len(log'[q]),
                        i + Limit <= Len(log'[q])
                 PROVE  log'[q][i] + Window < log'[q][i + Limit]
      BY DEF RateBound
    <2>1. CASE q # k
      BY <1>4, <2>1 DEF LimiterInv, RateBound
    <2>2. CASE q = k
      <3>1. i \in 1..len /\ i + Limit \in 1..(len + 1)
        BY <1>3, <1>5, <2>2
      <3>2. CASE i + Limit <= len
        <4>1. log[k][i] + Window < log[k][i + Limit]
          BY <1>3, <3>1, <3>2 DEF LimiterInv, RateBound
        <4>2. i + Limit \in 1..len
          BY <1>3, <3>1, <3>2
        <4> QED BY <1>5, <2>2, <3>1, <4>1, <4>2
      <3>3. CASE i + Limit = len + 1
        \* The submission Limit places earlier has just left the deque.
        <4>1. i \in 1..(n - 1)
          BY <1>1, <1>3, <3>1, <3>3
        <4>2. log[k][i] + Window < now
          BY <1>1, <4>1, EvictionKeepsWindow
        <4>3. log'[k][i] = log[k][i] /\ log'[k][i + Limit] = now
          BY <1>5, <3>1, <3>3
        <4>4. log'[q][i] = log[k][i] /\ log'[q][i + Limit] = now
          BY <2>2, <4>3
        <4> QED BY <4>2, <4>4
      <3>4. i + Limit <= len \/ i + Limit = len + 1
        <4>1. \A a, b \in Nat : a \in 1..(b + 1) => a <= b \/ a = b + 1
          OBVIOUS
        <4>2. i + Limit \in Nat /\ len \in Nat
          BY <1>3, <3>1
        <4> QED BY <3>1, <4>1, <4>2
      <3> QED BY <3>2, <3>3, <3>4
    <2> QED BY <2>1, <2>2
  <1> QED BY <1>6, <1>7, <1>8, <1>9 DEF LimiterInv

LEMMA RefuseKeeps ==
  ASSUME LimiterInv, NEW k \in Keys, Refuse(k), UNCHANGED now
  PROVE  LimiterInv'
  <1> USE LimiterAssumption
  <1>1. PICK n \in first[k]..(Len(log[k]) + 1) :
            /\ Evicted(k, n)
            /\ first' = [first EXCEPT ![k] = n]
            /\ log' = log
    BY DEF Refuse
  <1>2. /\ now' = now /\ first \in [Keys -> Nat \ {0}]
        /\ log \in [Keys -> Seq(Nat)] /\ n \in Nat \ {0}
        /\ n <= Len(log[k]) + 1 /\ first[k] <= n
    BY DEF LimiterInv, LimiterTypeOK
  <1>3. first'[k] = n /\ \A q \in Keys \ {k} : first'[q] = first[q]
    BY <1>1, <1>2
  <1>4. LimiterTypeOK'
    BY <1>1, <1>2, <1>3 DEF LimiterInv, LimiterTypeOK
  <1>5. Ordered' /\ RateBound'
    BY <1>1, <1>2 DEF LimiterInv, Ordered, RateBound
  <1>6. DequeHoldsWindow'
    <2>1. \A i \in 1..(n - 1) : log[k][i] + Window < now
      BY <1>1, EvictionKeepsWindow
    <2>2. \A q \in Keys : Len(log[q]) + 1 <= first'[q] + Limit
      <3> TAKE q \in Keys
      <3>1. Len(log[q]) \in Nat /\ Len(log[q]) + 1 <= first[q] + Limit
        BY <1>2 DEF LimiterInv, DequeHoldsWindow
      <3>2. CASE q = k
        BY <1>2, <1>3, <3>1, <3>2
      <3>3. CASE q # k
        BY <1>3, <3>1, <3>3
      <3> QED BY <3>2, <3>3
    <2> QED BY <1>1, <1>2, <1>3, <2>1, <2>2 DEF LimiterInv, DequeHoldsWindow
  <1> QED BY <1>4, <1>5, <1>6 DEF LimiterInv

LEMMA LimiterKeepsInv == LimiterSpec => []LimiterInv
  <1>1. LimiterInv /\ [LimiterNext]_limiterVars => LimiterInv'
    <2> SUFFICES ASSUME LimiterInv, [LimiterNext]_limiterVars
                 PROVE  LimiterInv'
      OBVIOUS
    <2>1. CASE Tick /\ UNCHANGED <<log, first>>
      BY <2>1, TickKeeps
    <2>2. ASSUME NEW k \in Keys, Admit(k), UNCHANGED now
          PROVE  LimiterInv'
      BY <2>2, AdmitKeeps
    <2>3. ASSUME NEW k \in Keys, Refuse(k), UNCHANGED now
          PROVE  LimiterInv'
      BY <2>3, RefuseKeeps
    <2>4. CASE UNCHANGED limiterVars
      BY <2>4 DEF limiterVars, LimiterInv, LimiterTypeOK, Ordered, DequeHoldsWindow, RateBound
    <2> QED BY <2>1, <2>2, <2>3, <2>4 DEF LimiterNext
  <1> QED BY <1>1, LimiterInitEstablishes, PTL DEF LimiterSpec

\* At most Limit submissions of a key pass in any window, for every limit, window
\* and set of keys (auth.py:23-37).
THEOREM RateIsBounded == LimiterSpec => []RateBound
  BY LimiterKeepsInv, PTL DEF LimiterInv

\* A key is refused only when it has used up the window that ends now.
THEOREM RefusalsAreJust == LimiterSpec => RefusedForCause
  <1>1. ASSUME LimiterInv, NEW k \in Keys, Refuse(k)
        PROVE  /\ Len(log[k]) >= Limit
               /\ log[k][Len(log[k]) + 1 - Limit] + Window >= now
    <2> USE LimiterAssumption
    <2>1. PICK n \in first[k]..(Len(log[k]) + 1) :
              Evicted(k, n) /\ Len(log[k]) + 1 - n >= Limit
      BY <1>1 DEF Refuse
    <2>2. /\ log[k] \in Seq(Nat) /\ Len(log[k]) \in Nat
          /\ n \in Nat \ {0} /\ now \in Nat
      BY <1>1 DEF LimiterInv, LimiterTypeOK
    <2>3. n <= Len(log[k]) /\ Len(log[k]) + 1 - Limit \in n..Len(log[k])
      BY <2>1, <2>2
    <2>4. log[k][n] + Window >= now
      <3>1. n \in 1..Len(log[k]) /\ log[k][n] \in Nat
        BY <2>2, <2>3
      <3>2. ~(log[k][n] + Window < now)
        BY <2>1, <2>3, <3>1 DEF Evicted, Expired
      <3> QED BY <2>2, <3>1, <3>2
    <2>5. log[k][n] <= log[k][Len(log[k]) + 1 - Limit]
      <3> DEFINE m == Len(log[k]) + 1 - Limit
      <3>1. \A i \in 1..Len(log[k]) : \A j \in i..Len(log[k]) : log[k][i] <= log[k][j]
        BY <1>1 DEF LimiterInv, Ordered
      <3>2. n \in 1..Len(log[k]) /\ m \in n..Len(log[k])
        BY <2>2, <2>3
      <3> HIDE DEF m
      <3>3. log[k][n] <= log[k][m]
        BY <3>1, <3>2
      <3> QED BY <3>3 DEF m
    <2>6. log[k][n] \in Nat /\ log[k][Len(log[k]) + 1 - Limit] \in Nat
      BY <2>2, <2>3
    <2>7. Len(log[k]) >= Limit
      BY <2>1, <2>2
    <2>8. \A a, b, w, t \in Nat : a + w >= t /\ a <= b => b + w >= t
      OBVIOUS
    <2>9. log[k][Len(log[k]) + 1 - Limit] + Window >= now
      BY <2>2, <2>4, <2>5, <2>6, <2>8
    <2> QED BY <2>7, <2>9
  <1>2. LimiterInv => \A k \in Keys :
            Refuse(k) => /\ Len(log[k]) >= Limit
                         /\ log[k][Len(log[k]) + 1 - Limit] + Window >= now
    BY <1>1
  <1> QED BY <1>2, LimiterKeepsInv, PTL DEF RefusedForCause

-----------------------------------------------------------------------------
(* The importer, the handler and the user reach the limiter through allow only. *)

LEMMA StepOfLimiter ==
    ASSUME [Next]_vars
    PROVE  [LimiterNext]_limiterVars
<1>1. CASE Pass
  BY <1>1 DEF Pass, LimiterNext
<1>2. ASSUME NEW r \in 1..MaxRuns, Serve(r) PROVE [LimiterNext]_limiterVars
  <2>1. CASE CheckRate(r)
    <3>1. /\ Admit(Key) \/ Refuse(Key)
          /\ UNCHANGED now
      BY <2>1 DEF CheckRate
    <3> QED
      BY <3>1, ImporterAssumption DEF LimiterNext
  <2>2. CASE ServeUrl(r) \/ FindOpen(r) \/ Answer(r)
    BY <2>2 DEF ServeUrl, FindOpen, Answer, limiterVars
  <2> QED
    BY <1>2, <2>1, <2>2 DEF Serve
<1>3. CASE StartRun \/ Send \/ TakeAnswer \/ WakeUp \/ Interrupt
  BY <1>3 DEF StartRun, Send, TakeAnswer, WakeUp, Interrupt, limiterVars
<1>4. ASSUME NEW u \in Urls, JobEnds(u) PROVE UNCHANGED limiterVars
  BY <1>4 DEF JobEnds, limiterVars
<1>5. CASE UNCHANGED vars
  BY <1>5 DEF vars
<1> QED
  BY <1>1, <1>2, <1>3, <1>4, <1>5 DEF Next

\* The composed system implements the limiter: its times are those of the submissions
\* that the handler lets in, and no other step moves the deque.
THEOREM ImporterObeysLimiter == Spec => LimiterSpec
<1>1. Init => LimiterInit
  BY DEF Init
<1>2. [Next]_vars => [LimiterNext]_limiterVars
  BY StepOfLimiter
<1> QED
  BY <1>1, <1>2, PTL DEF Spec, LimiterSpec

\* However the importer retries and is started again, its key never gets more than
\* Limit submissions into a window (api.py:54, auth.py:29-37).
THEOREM ImportsAreLimited == Spec => []RateBound
BY ImporterObeysLimiter, RateIsBounded, PTL

\* And it is refused only when it has used its window up.
THEOREM ImportsAreRefusedForCause == Spec => RefusedForCause
BY ImporterObeysLimiter, RefusalsAreJust, PTL

-----------------------------------------------------------------------------
(* The list, its places and its batches, for any list the parser gets right. *)

LEMMA SameSize ==
    ASSUME NEW S, NEW T, IsFiniteSet(S), NEW f \in [S -> T],
           \A x, y \in S : f[x] = f[y] => x = y,
           \A t \in T : \E x \in S : f[x] = t
    PROVE  IsFiniteSet(T) /\ Cardinality(T) = Cardinality(S)
<1>1. f \in Injection(S, T) /\ f \in Surjection(S, T)
  BY DEF Injection, Surjection, IsInjective
<1> QED
  BY <1>1, FS_Surjection

LEMMA ImageIsFinite ==
    ASSUME NEW S, NEW T, IsFiniteSet(S), NEW f \in [S -> T],
           \A t \in T : \E x \in S : f[x] = t
    PROVE  IsFiniteSet(T)
<1>1. f \in Surjection(S, T)
  BY DEF Surjection
<1> QED
  BY <1>1, FS_Surjection

\* A run works at the places in order: those before an offset of a package, those of
\* the batch that begins there, and the ones with a URL in V.
Before(pkg, i) == {place \in Places : place[1] < pkg \/ (place[1] = pkg /\ place[2] <= i)}
Batch(pkg, i) == Before(pkg, i + BatchSize) \ Before(pkg, i)
Of(V, places) == {place \in places : UrlAt(place) \in V}

\* A run is at an offset within a package.
AtTurn(pkg, i) == pkg \in DOMAIN Packages /\ i \in Nat /\ i < Len(Packages[pkg])

LEMMA ParsedList ==
    ASSUME ParserIsRight
    PROVE  /\ Packages \in Seq(Seq(Urls))
           /\ Len(Packages) \in Nat /\ DOMAIN Packages = 1..Len(Packages)
           /\ \A n \in 1..Len(Packages) :
                 /\ Packages[n] \in Seq(Urls)
                 /\ Len(Packages[n]) \in Nat \ {0}
                 /\ DOMAIN Packages[n] = 1..Len(Packages[n])
           /\ \A place : place \in Places <=>
                 \E n \in 1..Len(Packages) : \E k \in 1..Len(Packages[n]) : place = <<n, k>>
           /\ \A n \in 1..Len(Packages) : \A k \in 1..Len(Packages[n]) :
                 UrlAt(<<n, k>>) = Packages[n][k] /\ UrlAt(<<n, k>>) \in Urls
<1>1. Packages \in Seq(Seq(Urls) \ {<<>>})
  BY DEF ParserIsRight
<1>2. Len(Packages) \in Nat /\ DOMAIN Packages = 1..Len(Packages)
  BY <1>1
<1>3. \A n \in 1..Len(Packages) : Packages[n] \in Seq(Urls) /\ Packages[n] # <<>>
  BY <1>1, <1>2
<1>4. Packages \in Seq(Seq(Urls))
  BY <1>1, SeqMonotonic
<1>5. ASSUME NEW n \in 1..Len(Packages)
      PROVE  Len(Packages[n]) \in Nat \ {0} /\ DOMAIN Packages[n] = 1..Len(Packages[n])
  BY <1>3, EmptySeq
<1>6. ASSUME NEW place
      PROVE  place \in Places <=>
                 \E n \in 1..Len(Packages) : \E k \in 1..Len(Packages[n]) : place = <<n, k>>
  <2>1. place \in Places <=> \E n \in DOMAIN Packages : place \in {n} \X DOMAIN Packages[n]
    BY DEF Places
  <2> QED
    BY <2>1, <1>2, <1>5
<1>7. ASSUME NEW n \in 1..Len(Packages), NEW k \in 1..Len(Packages[n])
      PROVE  UrlAt(<<n, k>>) = Packages[n][k] /\ UrlAt(<<n, k>>) \in Urls
  BY <1>3, <1>5 DEF UrlAt
<1> QED
  BY <1>2, <1>3, <1>4, <1>5, <1>6, <1>7

LEMMA WantedIsFinite == IsFiniteSet(Wanted)
<1> DEFINE own == {l \in ToSet(Links) : l.pkg \in PackageIds /\ l.url # NoUrl}
<1>1. IsFiniteSet(ToSet(Links))
  <2>1. Len(Links) \in Nat /\ DOMAIN Links = 1..Len(Links)
    BY ImporterAssumption
  <2>2. IsFiniteSet(DOMAIN Links)
    BY <2>1, FS_Interval
  <2>3. PICK f : f = [k \in DOMAIN Links |-> Links[k]]
    OBVIOUS
  <2>4. f \in [DOMAIN Links -> ToSet(Links)] /\ \A l \in ToSet(Links) : \E k \in DOMAIN Links : f[k] = l
    BY <2>3 DEF ToSet
  <2> QED
    BY <2>2, <2>4, ImageIsFinite
<1>2. IsFiniteSet(own)
  BY <1>1, FS_Subset
<1>3. PICK f : f = [l \in own |-> <<l.pkg, l.url>>]
  OBVIOUS
<1>4. Wanted = {<<l.pkg, l.url>> : l \in own}
  BY DEF Wanted
<1> HIDE DEF own
<1>5. f \in [own -> Wanted] /\ \A w \in Wanted : \E l \in own : f[l] = w
  BY <1>3, <1>4
<1> QED
  BY <1>2, <1>5, ImageIsFinite

\* The places with a URL in V are as many as the links wanted with one.
LEMMA LinksOf ==
    ASSUME ParserIsRight, NEW V
    PROVE  /\ IsFiniteSet(Places)
           /\ Cardinality(Of(V, Places)) = Cardinality({w \in Wanted : w[2] \in V})
           /\ \A w \in Wanted : \E place \in Places : UrlAt(place) = w[2]
<1>1. PICK link \in Bijection(Places, Wanted) : \A place \in Places : link[place][2] = UrlAt(place)
  BY DEF ParserIsRight
<1>2. /\ link \in [Places -> Wanted]
      /\ \A p, q \in Places : link[p] = link[q] => p = q
      /\ \A w \in Wanted : \E place \in Places : link[place] = w
  BY <1>1 DEF Bijection, Injection, Surjection, IsInjective
<1>3. IsFiniteSet(Places)
  <2>1. link \in Injection(Places, Wanted)
    BY <1>1 DEF Bijection
  <2> QED
    BY <2>1, WantedIsFinite, FS_Injection
<1>4. Cardinality(Of(V, Places)) = Cardinality({w \in Wanted : w[2] \in V})
  <2>1. PICK S : S = Of(V, Places)
    OBVIOUS
  <2>2. PICK T : T = {w \in Wanted : w[2] \in V}
    OBVIOUS
  <2>3. S \subseteq Places /\ \A p \in Places : p \in S <=> UrlAt(p) \in V
    BY <2>1 DEF Of
  <2>4. IsFiniteSet(S)
    BY <1>3, <2>3, FS_Subset
  <2>5. PICK f : f = [p \in S |-> link[p]]
    OBVIOUS
  <2>6. /\ f \in [S -> T]
        /\ \A p, q \in S : f[p] = f[q] => p = q
    BY <1>1, <1>2, <2>2, <2>3, <2>5
  <2>7. \A t \in T : \E p \in S : f[p] = t
    BY <1>1, <1>2, <2>2, <2>3, <2>5
  <2>8. Cardinality(T) = Cardinality(S)
    BY <2>4, <2>6, <2>7, SameSize
  <2> QED
    BY <2>1, <2>2, <2>8
<1> QED
  BY <1>1, <1>2, <1>3, <1>4

\* The slice the importer posts at an offset is the batch of the places there.
LEMMA ChunkIsBatch ==
    ASSUME ParserIsRight, NEW pkg, NEW i, AtTurn(pkg, i), NEW chunk, chunk = Chunk(pkg, i)
    PROVE  /\ chunk \in Seq(Urls) /\ chunk # <<>>
           /\ \A m, n \in 1..Len(chunk) : chunk[m] = chunk[n] => m = n
           /\ \A place : place \in Batch(pkg, i) <=> \E n \in 1..Len(chunk) : place = <<pkg, i + n>>
           /\ \A n \in 1..Len(chunk) : UrlAt(<<pkg, i + n>>) = chunk[n]
<1> USE ParsedList
<1>1. PICK len : len = Len(Packages[pkg])
  OBVIOUS
<1>2. PICK last : last = Min({i + BatchSize, len})
  OBVIOUS
<1>3. /\ pkg \in 1..Len(Packages) /\ i \in Nat /\ len \in Nat /\ i < len
      /\ BatchSize \in Nat \ {0} /\ i + BatchSize \in Nat
  BY <1>1, ImporterAssumption DEF AtTurn
<1>4. /\ last \in Nat /\ i < last /\ last <= len
      /\ \A k \in Nat : k <= last <=> k <= i + BatchSize /\ k <= len
  <2>1. \E x \in {i + BatchSize, len} : \A y \in {i + BatchSize, len} : x <= y
    <3>1. i + BatchSize <= len \/ len <= i + BatchSize
      BY <1>3
    <3> QED
      BY <1>3, <3>1
  <2>2. last \in {i + BatchSize, len} /\ last <= i + BatchSize /\ last <= len
    BY <1>2, <2>1 DEF Min
  <2> QED
    BY <1>3, <2>2
<1>5. PICK p : p = Packages[pkg]
  OBVIOUS
<1>6. p \in Seq(Urls) /\ Len(p) = len /\ chunk = SubSeq(p, i + 1, last)
  BY <1>1, <1>2, <1>3, <1>5 DEF Chunk
<1>7. /\ chunk \in Seq(Urls) /\ Len(chunk) = last - i
      /\ \A n \in 1..(last - i) : chunk[n] = p[i + n]
  <2>1. \A k \in (i + 1)..last : p[k] \in Urls
    BY <1>3, <1>4, <1>6
  <2>2. i + 1 \in Int /\ last \in Int /\ i + 1 <= last
    BY <1>3, <1>4
  <2>3. /\ chunk \in Seq(Urls) /\ Len(chunk) = last - (i + 1) + 1
        /\ \A n \in 1..(last - (i + 1) + 1) : chunk[n] = p[(i + 1) + n - 1]
    BY <2>1, <2>2, <1>6, SubSeqProperties
  <2>4. last - (i + 1) + 1 = last - i /\ \A n \in 1..(last - i) : (i + 1) + n - 1 = i + n
    BY <1>3, <1>4
  <2> QED
    BY <2>3, <2>4
<1>8. chunk # <<>>
  BY <1>3, <1>4, <1>7
<1>9. ASSUME NEW m \in 1..Len(chunk), NEW n \in 1..Len(chunk), chunk[m] = chunk[n]
      PROVE  m = n
  <2>1. i + m \in DOMAIN p /\ i + n \in DOMAIN p /\ p[i + m] = p[i + n]
    BY <1>3, <1>4, <1>6, <1>7, <1>9
  <2>2. i + m = i + n
    BY <1>3, <1>5, <2>1 DEF ParserIsRight
  <2> QED
    BY <1>3, <2>2
<1>10. ASSUME NEW n \in 1..Len(chunk) PROVE UrlAt(<<pkg, i + n>>) = chunk[n]
  <2>1. i + n \in 1..len
    BY <1>3, <1>4, <1>7
  <2> QED
    BY <2>1, <1>1, <1>3, <1>5, <1>7
<1>11. ASSUME NEW place
       PROVE  place \in Batch(pkg, i) <=> \E n \in 1..Len(chunk) : place = <<pkg, i + n>>
  <2>1. ASSUME place \in Batch(pkg, i) PROVE \E n \in 1..Len(chunk) : place = <<pkg, i + n>>
    <3>1. PICK q \in 1..Len(Packages), k \in Nat : k \in 1..Len(Packages[q]) /\ place = <<q, k>>
      BY <2>1 DEF Batch, Before
    <3>2. q = pkg /\ k <= i + BatchSize /\ ~(k <= i)
      BY <1>3, <2>1, <3>1 DEF Batch, Before
    <3>3. k - i \in 1..Len(chunk) /\ i + (k - i) = k
      BY <1>1, <1>3, <1>4, <1>7, <3>1, <3>2
    <3> QED
      BY <3>1, <3>2, <3>3
  <2>2. ASSUME NEW n \in 1..Len(chunk), place = <<pkg, i + n>> PROVE place \in Batch(pkg, i)
    <3>1. i + n \in 1..len /\ i + n <= i + BatchSize /\ ~(i + n <= i)
      <4>1. n \in Nat \ {0} /\ n <= last - i
        BY <1>3, <1>4, <1>7
      <4>2. i + n \in Nat /\ i + n <= last /\ i + n >= 1
        BY <4>1, <1>3, <1>4
      <4>3. \A k \in Nat : k <= last => k <= len /\ k <= i + BatchSize
        BY <1>4
      <4>4. i + n <= len /\ i + n <= i + BatchSize
        BY <4>2, <4>3
      <4>5. ~(i + n <= i)
        BY <4>1, <1>3
      <4> QED
        BY <4>2, <4>4, <4>5, <1>3
    <3>2. place \in Places /\ place[1] = pkg /\ place[2] = i + n
      BY <1>1, <1>3, <2>2, <3>1
    <3> QED
      BY <1>3, <3>1, <3>2 DEF Batch, Before
  <2> QED
    BY <2>1, <2>2
<1> QED
  BY <1>7, <1>8, <1>9, <1>10, <1>11

ImpStates == [at : {"idle", "sending", "awaiting", "sleeping", "done", "gone"},
              pkg : Nat \ {0}, i : Nat, wake : Nat, accepted : Nat, rejected : Nat]

SendingFrom(s, pkg, i) == [s EXCEPT !.at = "sending", !.pkg = pkg, !.i = i]

LEMMA TurnIsState ==
    ASSUME NEW s \in ImpStates, NEW pkg \in Nat \ {0}, NEW i \in Nat
    PROVE  /\ SendingFrom(s, pkg, i) \in ImpStates
           /\ SendingFrom(s, pkg, i).at = "sending"
           /\ SendingFrom(s, pkg, i).pkg = pkg /\ SendingFrom(s, pkg, i).i = i
           /\ SendingFrom(s, pkg, i).accepted = s.accepted
           /\ SendingFrom(s, pkg, i).rejected = s.rejected
BY DEF ImpStates, SendingFrom

\* The loops neither skip a place nor come back to one, and end when none is left.
LEMMA LoopGoesOn ==
    ASSUME ParserIsRight, NEW s \in ImpStates, NEW pkg \in Nat \ {0}, NEW i \in Nat,
           NEW next, next = Loop(s, pkg, i)
    PROVE  /\ next \in ImpStates
           /\ next.accepted = s.accepted /\ next.rejected = s.rejected
           /\ \/ /\ next.at = "sending" /\ AtTurn(next.pkg, next.i)
                 /\ Before(next.pkg, next.i) = Before(pkg, i)
              \/ next.at = "done" /\ Before(pkg, i) = Places
<1>1. PICK len : len = Len(Packages)
  OBVIOUS
<1>2. len \in Nat /\ DOMAIN Packages = 1..len
  BY <1>1, ParsedList
<1>3. \A place \in Places : place[1] \in 1..len /\ place[2] \in 1..Len(Packages[place[1]])
  BY <1>1, ParsedList
<1>4. Before(pkg, i) \subseteq Places
  BY DEF Before
<1>5. CASE pkg > len
  <2>1. next = [s EXCEPT !.at = "done"]
    BY <1>1, <1>5 DEF Loop
  <2>2. Before(pkg, i) = Places
    BY <1>2, <1>3, <1>5 DEF Before
  <2> QED
    BY <2>1, <2>2 DEF ImpStates
<1>6. CASE pkg <= len /\ i < Len(Packages[pkg])
  <2>1. next = SendingFrom(s, pkg, i)
    BY <1>1, <1>2, <1>6 DEF Loop, SendingFrom
  <2>2. AtTurn(pkg, i)
    BY <1>2, <1>6 DEF AtTurn
  <2>3. /\ next \in ImpStates /\ next.at = "sending" /\ next.pkg = pkg /\ next.i = i
        /\ next.accepted = s.accepted /\ next.rejected = s.rejected
    BY <2>1, TurnIsState
  <2> QED
    BY <2>2, <2>3
<1>7. CASE pkg < len /\ ~(i < Len(Packages[pkg]))
  <2>1. next = SendingFrom(s, pkg + 1, 0)
    BY <1>1, <1>2, <1>7 DEF Loop, SendingFrom
  <2>2. AtTurn(pkg + 1, 0)
    BY <1>1, <1>2, <1>7, ParsedList DEF AtTurn
  <2>3. Before(pkg + 1, 0) = Before(pkg, i)
    <3>1. ASSUME NEW place \in Places
          PROVE  place \in Before(pkg + 1, 0) <=> place \in Before(pkg, i)
      <4>1. /\ place[1] \in Nat /\ place[2] \in Nat \ {0} /\ Len(Packages[pkg]) \in Nat
            /\ place[1] = pkg => place[2] <= Len(Packages[pkg])
        BY <1>1, <1>2, <1>3, <1>7, ParsedList
      <4> QED
        BY <4>1, <1>2, <1>7 DEF Before
    <3> QED
      BY <3>1 DEF Before
  <2>4. pkg + 1 \in Nat \ {0} /\ 0 \in Nat
    OBVIOUS
  <2>5. /\ next \in ImpStates /\ next.at = "sending" /\ next.pkg = pkg + 1 /\ next.i = 0
        /\ next.accepted = s.accepted /\ next.rejected = s.rejected
    BY <2>1, <2>4, TurnIsState
  <2> QED
    BY <2>2, <2>3, <2>5
<1>8. CASE pkg = len /\ ~(i < Len(Packages[pkg]))
  <2>1. next = [s EXCEPT !.at = "done"]
    BY <1>1, <1>2, <1>8 DEF Loop
  <2>2. Before(pkg, i) = Places
    <3>1. ASSUME NEW place \in Places PROVE place \in Before(pkg, i)
      <4>1. /\ place[1] \in 1..len /\ place[2] \in Nat /\ Len(Packages[pkg]) \in Nat
            /\ place[1] = pkg => place[2] <= Len(Packages[pkg])
        BY <1>1, <1>2, <1>3, <1>8, ParsedList
      <4> QED
        BY <4>1, <1>2, <1>8 DEF Before
    <3> QED
      BY <3>1, <1>4
  <2> QED
    BY <2>1, <2>2 DEF ImpStates
<1> QED
  BY <1>2, <1>5, <1>6, <1>7, <1>8

\* Working at a batch moves its places, and no others, before the offset.
LEMMA BatchMoves ==
    ASSUME ParserIsRight, NEW pkg \in Nat, NEW i \in Nat
    PROVE  /\ Before(pkg, i + BatchSize) = Before(pkg, i) \cup Batch(pkg, i)
           /\ Before(pkg, i) \cap Batch(pkg, i) = {}
           /\ Before(pkg, i) \subseteq Places /\ Batch(pkg, i) \subseteq Places
           /\ Before(1, 0) = {}
<1>1. \A place \in Places : place[1] \in Nat \ {0} /\ place[2] \in Nat \ {0}
  BY ParsedList
<1>2. Before(pkg, i) \subseteq Before(pkg, i + BatchSize)
  BY <1>1, ImporterAssumption DEF Before
<1>3. Before(1, 0) = {}
  BY <1>1 DEF Before
<1> QED
  BY <1>2, <1>3 DEF Before, Batch

-----------------------------------------------------------------------------
(* What a run knows, wherever it is.                                       *)

Posts == [at : {"none", "received", "serving", "finding", "answered", "refused"},
          left : Seq(Urls), results : Seq(BOOLEAN)]

Underway == imp.at \in {"sending", "awaiting", "sleeping"}

Typed ==
    /\ imp \in ImpStates
    /\ post \in [1..MaxRuns -> Posts]
    /\ open \subseteq covered /\ covered \subseteq Urls
    /\ rows \in [Urls -> Nat]
    /\ runs \in 0..MaxRuns /\ lag \in 0..MaxLag
    /\ Underway => runs \in 1..MaxRuns /\ AtTurn(imp.pkg, imp.i)
    /\ \A r \in 1..MaxRuns : post[r].at = "finding" => post[r].left # <<>>

\* The handler p has worked off the batch from its beginning: a result says whether
\* the server supports the URL, and a supported one has been open.
WorksAt(p, batch, opened) ==
    /\ p.at # "none"
    /\ Len(p.results) + Len(p.left) = Len(batch)
    /\ \A n \in 1..Len(p.left) : p.left[n] = batch[Len(p.results) + n]
    /\ \A n \in 1..Len(p.results) :
          /\ p.results[n] = TRUE <=> batch[n] \in Supported
          /\ batch[n] \in Supported => batch[n] \in opened
    /\ p.at \in {"received", "refused"} => p.left = batch
    /\ p.at = "finding" => p.left[1] \in Supported /\ p.left[1] \in opened
    /\ p.at = "answered" => p.left = <<>>

AnswerIsEarned == imp.at = "awaiting" => WorksAt(post[runs], Chunk(imp.pkg, imp.i), covered)

\* A run in this state has counted the links at these places, and every supported URL
\* among them has been open.
Counted(state, opened, places) ==
    /\ state.accepted = Cardinality(Of(Supported, places))
    /\ state.rejected = Cardinality(Of(Urls \ Supported, places))
    /\ \A place \in Of(Supported, places) : UrlAt(place) \in opened

Tally ==
    /\ Underway => Counted(imp, covered, Before(imp.pkg, imp.i))
    /\ imp.at = "done" => Counted(imp, covered, Places)

\* A request that may still insert a row for u.
Owes(p, u) == /\ p.at \in {"received", "serving", "finding"}
              /\ \E n \in 1..Len(p.left) : p.left[n] = u
Pending(u) == {r \in 1..MaxRuns : Owes(post[r], u)}

\* The places whose URL a run has still to post: all from its batch on when a 429 has
\* sent the batch back.
From(pkg, i) == Places \ Before(pkg, i)
Unsent ==
    IF ~Underway THEN {}
    ELSE IF imp.at = "awaiting" /\ post[runs].at # "refused"
         THEN From(imp.pkg, imp.i + BatchSize)
    ELSE From(imp.pkg, imp.i)

OnceInRequest ==
    \A r \in 1..MaxRuns : \A m, n \in 1..Len(post[r].left) : post[r].left[m] = post[r].left[n] => m = n

\* The rows there are, may be and will be asked for, against a place per run.
Within(made, pending, unsent, started, places) ==
    made + Cardinality(pending) + Cardinality(unsent) <= started * Cardinality(places)

RowsAreBudgeted ==
    \A u \in Urls : Within(rows[u], Pending(u), Of({u}, Unsent), runs, Of({u}, Places))

LEMMA CountIsNat ==
    ASSUME NEW results \in Seq(BOOLEAN), NEW ok
    PROVE  Count(results, ok) \in Nat
<1>1. IsFiniteSet(DOMAIN results)
  BY FS_Interval
<1>2. IsFiniteSet({n \in DOMAIN results : results[n] = ok})
  BY <1>1, FS_Subset
<1> QED
  BY <1>2, FS_CardinalityType DEF Count

AddedTo(s, a, b) == [s EXCEPT !.accepted = @ + a, !.rejected = @ + b]

LEMMA AddedIsState ==
    ASSUME NEW s \in ImpStates, NEW a \in Nat, NEW b \in Nat
    PROVE  /\ AddedTo(s, a, b) \in ImpStates
           /\ AddedTo(s, a, b).accepted = s.accepted + a
           /\ AddedTo(s, a, b).rejected = s.rejected + b
<1>1. PICK x, y : x = s.accepted + a /\ y = s.rejected + b
  OBVIOUS
<1>2. x \in Nat /\ y \in Nat
  BY <1>1 DEF ImpStates
<1>3. AddedTo(s, a, b) = [s EXCEPT !.accepted = x, !.rejected = y]
  BY <1>1 DEF AddedTo, ImpStates
<1>4. PICK t : t = AddedTo(s, a, b)
  OBVIOUS
<1>5. t \in ImpStates /\ t.accepted = x /\ t.rejected = y
  BY <1>2, <1>3, <1>4 DEF ImpStates
<1> QED
  BY <1>1, <1>4, <1>5

\* What TakeAnswer adds to the counts, and where the loops go from there.
LEMMA AnswerIsCounted ==
    ASSUME ParserIsRight, Typed, imp.at = "awaiting", post[runs].at = "answered",
           imp' = Loop([imp EXCEPT !.accepted = @ + Count(post[runs].results, TRUE),
                                   !.rejected = @ + Count(post[runs].results, FALSE)],
                       imp.pkg, imp.i + BatchSize)
    PROVE  /\ imp' \in ImpStates
           /\ imp'.accepted = imp.accepted + Count(post[runs].results, TRUE)
           /\ imp'.rejected = imp.rejected + Count(post[runs].results, FALSE)
           /\ \/ /\ imp'.at = "sending" /\ AtTurn(imp'.pkg, imp'.i)
                 /\ Before(imp'.pkg, imp'.i) = Before(imp.pkg, imp.i + BatchSize)
              \/ imp'.at = "done" /\ Before(imp.pkg, imp.i + BatchSize) = Places
<1>1. PICK a : a = Count(post[runs].results, TRUE)
  OBVIOUS
<1>2. PICK b : b = Count(post[runs].results, FALSE)
  OBVIOUS
<1>3. a \in Nat /\ b \in Nat
  BY <1>1, <1>2, CountIsNat DEF Typed, Posts, Underway
<1>4. PICK s : s = AddedTo(imp, a, b)
  OBVIOUS
<1>5. s \in ImpStates /\ s.accepted = imp.accepted + a /\ s.rejected = imp.rejected + b
  BY <1>3, <1>4, AddedIsState DEF Typed
<1>6. PICK pkg, i : pkg = imp.pkg /\ i = imp.i + BatchSize
  OBVIOUS
<1>7. pkg \in Nat \ {0} /\ i \in Nat
  BY <1>6, ImporterAssumption DEF Typed, ImpStates
<1>8. PICK next : next = Loop(s, pkg, i)
  OBVIOUS
<1>9. /\ next \in ImpStates
      /\ next.accepted = s.accepted /\ next.rejected = s.rejected
      /\ \/ /\ next.at = "sending" /\ AtTurn(next.pkg, next.i)
            /\ Before(next.pkg, next.i) = Before(pkg, i)
         \/ next.at = "done" /\ Before(pkg, i) = Places
  BY <1>5, <1>7, <1>8, LoopGoesOn
<1>10. imp' = next
  BY <1>1, <1>2, <1>4, <1>6, <1>8 DEF AddedTo
<1> QED
  BY <1>1, <1>2, <1>5, <1>6, <1>9, <1>10

\* Where a run that starts goes.
LEMMA RunStarts ==
    ASSUME ParserIsRight, StartRun
    PROVE  /\ imp' \in ImpStates /\ imp'.accepted = 0 /\ imp'.rejected = 0
           /\ \/ /\ imp'.at = "sending" /\ AtTurn(imp'.pkg, imp'.i)
                 /\ Before(imp'.pkg, imp'.i) = {}
              \/ imp'.at = "done" /\ Places = {}
<1>1. Idle \in ImpStates /\ Idle.accepted = 0 /\ Idle.rejected = 0
  BY DEF Idle, ImpStates
<1>2. imp' = Loop(Idle, 1, 0)
  BY DEF StartRun
<1>3. 1 \in Nat \ {0} /\ 0 \in Nat
  OBVIOUS
<1>4. Before(1, 0) = {}
  BY <1>3, BatchMoves
<1> QED
  BY <1>1, <1>2, <1>3, <1>4, LoopGoesOn

LEMMA TypedInit == Init => Typed
BY ImporterAssumption DEF Init, Typed, Idle, NoPost, ImpStates, Posts, Underway

LEMMA TypedStep ==
    ASSUME ParserIsRight, now \in Nat, Typed, [Next]_vars
    PROVE  Typed'
<1>0. NoPost \in Posts
  BY DEF NoPost, Posts
<1>1. CASE StartRun
  <2>1. /\ imp' \in ImpStates
        /\ imp'.at = "done" \/ (imp'.at = "sending" /\ AtTurn(imp'.pkg, imp'.i))
    BY <1>1, RunStarts
  <2>2. /\ runs' = runs + 1 /\ runs < MaxRuns /\ covered' = open
        /\ UNCHANGED <<post, open, rows, lag>>
    BY <1>1 DEF StartRun
  <2>3. Underway' => runs' \in 1..MaxRuns /\ AtTurn(imp.pkg, imp.i)'
    BY <2>1, <2>2, ImporterAssumption DEF Typed, Underway, AtTurn
  <2> QED
    BY <2>1, <2>2, <2>3, ImporterAssumption DEF Typed
<1>2. CASE Send
  <2>1. PICK chunk : chunk = Chunk(imp.pkg, imp.i)
    OBVIOUS
  <2>2. AtTurn(imp.pkg, imp.i) /\ runs \in 1..MaxRuns
    BY <1>2 DEF Send, Typed, Underway
  <2>3. chunk \in Seq(Urls)
    BY <2>1, <2>2, ChunkIsBatch
  <2>4. PICK p : p = [at |-> "received", left |-> chunk, results |-> <<>>]
    OBVIOUS
  <2>5. p \in Posts /\ p.at # "finding" /\ post' = [post EXCEPT ![runs] = p]
    BY <1>2, <2>1, <2>3, <2>4 DEF Send, Posts
  <2>6. /\ post' \in [1..MaxRuns -> Posts]
        /\ \A r \in 1..MaxRuns : post'[r].at = "finding" => post'[r].left # <<>>
    BY <2>2, <2>5 DEF Typed
  <2>7. imp' = [imp EXCEPT !.at = "awaiting"] /\ UNCHANGED <<open, rows, covered, runs, lag>>
    BY <1>2 DEF Send, server
  <2>8. imp' \in ImpStates /\ imp'.pkg = imp.pkg /\ imp'.i = imp.i
    BY <2>7 DEF Typed, ImpStates
  <2>9. AtTurn(imp.pkg, imp.i)'
    BY <2>2, <2>8 DEF AtTurn
  <2> QED
    BY <2>2, <2>6, <2>7, <2>8, <2>9 DEF Typed
<1>3. CASE TakeAnswer
  <2>1. runs \in 1..MaxRuns /\ AtTurn(imp.pkg, imp.i)
    BY <1>3 DEF TakeAnswer, Typed, Underway
  <2>2. post' = [post EXCEPT ![runs] = NoPost] /\ UNCHANGED <<open, rows, covered, runs, lag>>
    BY <1>3 DEF TakeAnswer, server
  <2>3. post' \in [1..MaxRuns -> Posts]
    BY <2>2, <1>0 DEF Typed
  <2>4. \A r \in 1..MaxRuns : post'[r].at = "finding" => post'[r].left # <<>>
    BY <2>1, <2>2 DEF Typed, NoPost
  <2>5. imp' \in ImpStates /\ (Underway' => AtTurn(imp.pkg, imp.i)')
    <3>1. CASE post[runs].at = "refused"
      <4>1. PICK wake : wake = now + RetryWait
        OBVIOUS
      <4>2. wake \in Nat
        BY <4>1, ImporterAssumption
      <4>3. imp' = [imp EXCEPT !.at = "sleeping", !.wake = wake]
        BY <1>3, <3>1, <4>1 DEF TakeAnswer
      <4>4. imp' \in ImpStates /\ imp'.pkg = imp.pkg /\ imp'.i = imp.i
        BY <4>2, <4>3 DEF Typed, ImpStates
      <4> QED
        BY <2>1, <4>4 DEF AtTurn
    <3>2. CASE post[runs].at = "answered"
      <4>1. /\ imp' \in ImpStates
            /\ imp'.at = "done" \/ (imp'.at = "sending" /\ AtTurn(imp'.pkg, imp'.i))
        BY <1>3, <3>2, AnswerIsCounted DEF TakeAnswer
      <4> QED
        BY <4>1 DEF Underway, AtTurn
    <3> QED
      BY <1>3, <3>1, <3>2 DEF TakeAnswer
  <2> QED
    BY <2>1, <2>2, <2>3, <2>4, <2>5 DEF Typed
<1>4. CASE WakeUp \/ Interrupt
  <2>1. /\ \/ imp' = [imp EXCEPT !.at = "sending"] /\ imp.at = "sleeping"
           \/ imp' = [imp EXCEPT !.at = "gone"]
        /\ UNCHANGED <<post, open, rows, covered, runs, lag>>
    BY <1>4 DEF WakeUp, Interrupt, server
  <2>2. imp' \in ImpStates /\ imp'.pkg = imp.pkg /\ imp'.i = imp.i /\ (Underway' => Underway)
    BY <2>1 DEF Typed, ImpStates, Underway
  <2>3. AtTurn(imp.pkg, imp.i) => AtTurn(imp.pkg, imp.i)'
    BY <2>2 DEF AtTurn
  <2> QED
    BY <2>1, <2>2, <2>3 DEF Typed
<1>5. CASE Pass
  <2>1. UNCHANGED <<imp, post, open, rows, covered, runs>> /\ (lag' = lag \/ (lag < MaxLag /\ lag' = lag + 1))
    BY <1>5 DEF Pass, server
  <2>2. lag' \in 0..MaxLag
    BY <2>1, ImporterAssumption DEF Typed
  <2> QED
    BY <2>1, <2>2 DEF Typed, Underway, AtTurn
<1>6. ASSUME NEW r \in 1..MaxRuns, Serve(r) PROVE Typed'
  <2>0. UNCHANGED <<imp, runs, lag>>
    BY <1>6 DEF Serve, CheckRate, ServeUrl, FindOpen, Answer
  <2>1. Underway' => runs' \in 1..MaxRuns /\ AtTurn(imp.pkg, imp.i)'
    BY <2>0 DEF Typed, Underway, AtTurn
  <2>2. ASSUME NEW p \in Posts, p.at = "finding" => p.left # <<>>, post' = [post EXCEPT ![r] = p]
        PROVE  /\ post' \in [1..MaxRuns -> Posts]
               /\ \A q \in 1..MaxRuns : post'[q].at = "finding" => post'[q].left # <<>>
    BY <2>2 DEF Typed
  <2>3. post[r] \in Posts
    BY DEF Typed
  <2>4. CASE CheckRate(r)
    <3>1. PICK at \in {"serving", "refused"} : post' = [post EXCEPT ![r].at = at]
      BY <2>4 DEF CheckRate
    <3>2. PICK p : p = [post[r] EXCEPT !.at = at]
      OBVIOUS
    <3>3. p \in Posts /\ p.at # "finding" /\ post' = [post EXCEPT ![r] = p]
      BY <2>3, <3>1, <3>2 DEF Posts
    <3> QED
      BY <2>0, <2>1, <2>2, <2>4, <3>3 DEF Typed, CheckRate, server
  <2>5. CASE FindOpen(r) \/ Answer(r)
    <3>1. \E p \in Posts : p.at # "finding" /\ post' = [post EXCEPT ![r] = p]
      <4>1. CASE FindOpen(r)
        <5>1. post[r].left \in Seq(Urls) /\ post[r].left # <<>> /\ post[r].results \in Seq(BOOLEAN)
          BY <2>3, <4>1 DEF FindOpen, Typed, Posts
        <5>2. Tail(post[r].left) \in Seq(Urls) /\ Append(post[r].results, TRUE) \in Seq(BOOLEAN)
          BY <5>1
        <5>3. PICK p : p = [at |-> "serving", left |-> Tail(post[r].left),
                            results |-> Append(post[r].results, TRUE)]
          OBVIOUS
        <5>4. p \in Posts /\ p.at # "finding"
          BY <5>2, <5>3 DEF Posts
        <5>5. post' = [post EXCEPT ![r] = p]
          BY <4>1, <5>3 DEF FindOpen
        <5> QED
          BY <5>4, <5>5
      <4>2. CASE Answer(r)
        <5>1. PICK p : p = [post[r] EXCEPT !.at = "answered"]
          OBVIOUS
        <5>2. p \in Posts /\ p.at # "finding" /\ post' = [post EXCEPT ![r] = p]
          BY <2>3, <4>2, <5>1 DEF Posts, Answer
        <5> QED
          BY <5>2
      <4> QED
        BY <2>5, <4>1, <4>2
    <3>2. UNCHANGED <<open, rows, covered>>
      BY <2>5 DEF FindOpen, Answer, server
    <3> QED
      BY <2>0, <2>1, <2>2, <3>1, <3>2 DEF Typed
  <2>6. CASE ServeUrl(r)
    <3>1. PICK u : u = Head(post[r].left)
      OBVIOUS
    <3>2. post[r].left \in Seq(Urls) /\ post[r].left # <<>> /\ post[r].results \in Seq(BOOLEAN)
      BY <2>3, <2>6 DEF ServeUrl, Posts
    <3>3. u \in Urls /\ Tail(post[r].left) \in Seq(Urls)
      BY <3>1, <3>2, HeadTailProperties
    <3>4. CASE u \in Supported \cap open
      <4>1. PICK p : p = [post[r] EXCEPT !.at = "finding"]
        OBVIOUS
      <4>2. post' = [post EXCEPT ![r] = p] /\ UNCHANGED <<open, rows, covered>>
        BY <2>6, <3>1, <3>4, <4>1 DEF ServeUrl, server
      <4>3. p \in Posts /\ p.left # <<>>
        BY <2>3, <3>2, <4>1 DEF Posts
      <4> QED
        BY <2>0, <2>1, <2>2, <4>2, <4>3 DEF Typed
    <3>5. CASE u \notin Supported \cap open
      <4>1. PICK res : res = Append(post[r].results, u \in Supported)
        OBVIOUS
      <4>2. res \in Seq(BOOLEAN)
        BY <3>2, <4>1
      <4>3. PICK p : p = [post[r] EXCEPT !.left = Tail(@), !.results = res]
        OBVIOUS
      <4>4. /\ post' = [post EXCEPT ![r] = p]
            /\ open' = open \cup ({u} \cap Supported)
            /\ rows' = [rows EXCEPT ![u] = IF u \in Supported THEN @ + 1 ELSE @]
            /\ covered' = covered \cup ({u} \cap Supported)
        BY <2>6, <3>1, <3>5, <4>1, <4>3 DEF ServeUrl
      <4>5. p \in Posts /\ p.at # "finding"
        BY <2>3, <2>6, <3>3, <4>2, <4>3 DEF Posts, ServeUrl
      <4>6. rows' \in [Urls -> Nat] /\ open' \subseteq covered' /\ covered' \subseteq Urls
        BY <3>3, <4>4 DEF Typed
      <4> QED
        BY <2>0, <2>1, <2>2, <4>4, <4>5, <4>6 DEF Typed
    <3> QED
      BY <3>4, <3>5
  <2> QED
    BY <1>6, <2>4, <2>5, <2>6 DEF Serve
<1>7. ASSUME NEW u \in Urls, JobEnds(u) PROVE Typed'
  BY <1>7 DEF JobEnds, Typed, Underway, AtTurn
<1>8. CASE UNCHANGED vars
  BY <1>8 DEF vars, server, Typed, Underway, AtTurn
<1> QED
  BY <1>1, <1>2, <1>3, <1>4, <1>5, <1>6, <1>7, <1>8 DEF Next

\* The types, and that the importer never posts an empty batch, for every list and
\* batch size (jd_import.py:122-124, models.py:54).
THEOREM ImportsAreTyped ==
    ASSUME ParserIsRight
    PROVE  Spec => []TypeOK
<1>1. Spec => []LimiterInv
  BY ImporterObeysLimiter, LimiterKeepsInv, PTL
<1>2. LimiterInv => now \in Nat
  BY DEF LimiterInv, LimiterTypeOK
<1>3. Init => Typed
  BY TypedInit
<1>4. now \in Nat /\ Typed /\ [Next]_vars => Typed'
  BY TypedStep
<1>5. LimiterInv /\ Typed => TypeOK
  <2> SUFFICES ASSUME LimiterInv, Typed PROVE TypeOK
    OBVIOUS
  <2>1. imp.at = "sending" => Chunk(imp.pkg, imp.i) # <<>>
    <3>1. PICK chunk : chunk = Chunk(imp.pkg, imp.i)
      OBVIOUS
    <3> QED
      BY <3>1, ChunkIsBatch DEF Typed, Underway
  <2> QED
    BY <2>1 DEF LimiterInv, Typed, TypeOK, ImpStates, Posts
<1> QED
  BY <1>1, <1>2, <1>3, <1>4, <1>5, PTL DEF Spec

-----------------------------------------------------------------------------
(* The report of a run.                                                    *)

LEMMA CountIs ==
    ASSUME ParserIsRight, NEW pkg, NEW i, AtTurn(pkg, i), NEW chunk, chunk = Chunk(pkg, i),
           NEW results \in Seq(BOOLEAN), Len(results) = Len(chunk), NEW V, NEW ok,
           \A n \in 1..Len(chunk) : results[n] = ok <=> chunk[n] \in V
    PROVE  Count(results, ok) = Cardinality(Of(V, Batch(pkg, i)))
<1>1. PICK S : S = {n \in DOMAIN results : results[n] = ok}
  OBVIOUS
<1>2. PICK T : T = Of(V, Batch(pkg, i))
  OBVIOUS
<1>3. /\ chunk \in Seq(Urls) /\ Len(chunk) \in Nat
      /\ \A place : place \in Batch(pkg, i) <=> \E n \in 1..Len(chunk) : place = <<pkg, i + n>>
      /\ \A n \in 1..Len(chunk) : UrlAt(<<pkg, i + n>>) = chunk[n]
  BY ChunkIsBatch
<1>4. \A n : n \in S <=> n \in 1..Len(chunk) /\ chunk[n] \in V
  BY <1>1, <1>3
<1>5. \A place : place \in T <=> \E n \in S : place = <<pkg, i + n>>
  <2>1. \A place : place \in T <=> \E n \in 1..Len(chunk) : place = <<pkg, i + n>> /\ UrlAt(place) \in V
    BY <1>2, <1>3 DEF Of
  <2> QED
    BY <2>1, <1>3, <1>4
<1>6. PICK f : f = [n \in S |-> <<pkg, i + n>>]
  OBVIOUS
<1>7. S \subseteq Nat /\ i \in Nat
  BY <1>3, <1>4 DEF AtTurn
<1>8. /\ f \in [S -> T]
      /\ \A m, n \in S : f[m] = f[n] => m = n
      /\ \A t \in T : \E n \in S : f[n] = t
  BY <1>5, <1>6, <1>7
<1>9. IsFiniteSet(S)
  <2>1. S \subseteq 1..Len(chunk) /\ IsFiniteSet(1..Len(chunk))
    BY <1>3, <1>4, FS_Interval
  <2> QED
    BY <2>1, FS_Subset
<1>10. Cardinality(T) = Cardinality(S)
  BY <1>8, <1>9, SameSize
<1> QED
  BY <1>1, <1>2, <1>10 DEF Count

LEMMA OfIsFinite ==
    ASSUME ParserIsRight, NEW V, NEW P \in SUBSET Places
    PROVE  IsFiniteSet(Of(V, P)) /\ Cardinality(Of(V, P)) \in Nat
<1>1. Of(V, P) \subseteq Places
  BY DEF Of
<1>2. IsFiniteSet(Of(V, P))
  BY <1>1, LinksOf, FS_Subset
<1> QED
  BY <1>2, FS_CardinalityType

LEMMA OfGrows ==
    ASSUME ParserIsRight, NEW V, NEW P \in SUBSET Places, NEW Q \in SUBSET Places, P \cap Q = {}
    PROVE  Cardinality(Of(V, P \cup Q)) = Cardinality(Of(V, P)) + Cardinality(Of(V, Q))
<1>1. PICK A, B : A = Of(V, P) /\ B = Of(V, Q)
  OBVIOUS
<1>2. A \cap B = {} /\ Of(V, P \cup Q) = A \cup B
  BY <1>1 DEF Of
<1>3. IsFiniteSet(A) /\ IsFiniteSet(B) /\ Cardinality(A) \in Nat /\ Cardinality(B) \in Nat
  BY <1>1, OfIsFinite
<1>4. Cardinality(A \cup B) = Cardinality(A) + Cardinality(B) - Cardinality(A \cap B)
  BY <1>3, FS_Union
<1>5. Cardinality(A \cap B) = 0
  BY <1>2, FS_EmptySet
<1>6. Cardinality(A \cup B) = Cardinality(A) + Cardinality(B)
  BY <1>3, <1>4, <1>5
<1> QED
  BY <1>1, <1>2, <1>6

LEMMA WorksOn ==
    ASSUME NEW p, NEW batch, NEW opened, WorksAt(p, batch, opened), NEW more, opened \subseteq more
    PROVE  WorksAt(p, batch, more)
BY DEF WorksAt

\* One turn of the handler's loop: the next URL gets its result.
LEMMA UrlIsServed ==
    ASSUME NEW p \in Posts, NEW batch \in Seq(Urls), NEW opened, NEW more, opened \subseteq more,
           WorksAt(p, batch, opened), p.left # <<>>,
           NEW ok \in BOOLEAN, ok = TRUE <=> p.left[1] \in Supported,
           p.left[1] \in Supported => p.left[1] \in more,
           NEW q \in Posts, q.at = "serving", q.left = Tail(p.left), q.results = Append(p.results, ok)
    PROVE  WorksAt(q, batch, more)
<1>1. /\ p.left \in Seq(Urls) /\ p.results \in Seq(BOOLEAN)
      /\ Len(p.left) \in Nat \ {0} /\ Len(p.results) \in Nat
  BY EmptySeq DEF Posts
<1>2. PICK len : len = Len(p.results)
  OBVIOUS
<1>3. /\ Len(q.left) = Len(p.left) - 1
      /\ \A n \in 1..Len(q.left) : q.left[n] = p.left[n + 1]
  BY <1>1, HeadTailProperties
<1>4. /\ Len(q.results) = len + 1 /\ q.results[len + 1] = ok
      /\ \A n \in 1..len : q.results[n] = p.results[n]
  BY <1>1, <1>2
<1>5. /\ len + Len(p.left) = Len(batch)
      /\ \A n \in 1..Len(p.left) : p.left[n] = batch[len + n]
      /\ \A n \in 1..len : /\ p.results[n] = TRUE <=> batch[n] \in Supported
                           /\ batch[n] \in Supported => batch[n] \in opened
  BY <1>2 DEF WorksAt
<1>6. p.left[1] = batch[len + 1]
  BY <1>1, <1>5
<1>7. Len(q.results) + Len(q.left) = Len(batch)
  <2>1. \A a \in Nat, b \in Nat \ {0} : (a + 1) + (b - 1) = a + b
    OBVIOUS
  <2>2. len \in Nat /\ Len(q.results) = len + 1 /\ Len(q.left) = Len(p.left) - 1
    BY <1>1, <1>2, <1>3, <1>4
  <2>3. Len(q.results) + Len(q.left) = len + Len(p.left)
    BY <2>1, <2>2, <1>1
  <2> QED
    BY <2>3, <1>5
<1>8. ASSUME NEW n \in 1..Len(q.left) PROVE q.left[n] = batch[Len(q.results) + n]
  <2>1. n + 1 \in 1..Len(p.left)
    BY <1>1, <1>3
  <2>2. q.left[n] = batch[len + (n + 1)]
    BY <2>1, <1>3, <1>5
  <2>3. len + (n + 1) = Len(q.results) + n
    <3>1. \A a, b \in Nat : a + (b + 1) = (a + 1) + b
      OBVIOUS
    <3>2. len \in Nat /\ n \in Nat /\ Len(q.results) = len + 1
      BY <1>1, <1>2, <1>3, <1>4
    <3> QED
      BY <3>1, <3>2
  <2> QED
    BY <2>2, <2>3
<1>9. ASSUME NEW n \in 1..Len(q.results)
      PROVE  /\ q.results[n] = TRUE <=> batch[n] \in Supported
             /\ batch[n] \in Supported => batch[n] \in more
  <2>1. n \in 1..len \/ n = len + 1
    BY <1>1, <1>2, <1>4
  <2>2. CASE n \in 1..len
    BY <2>2, <1>4, <1>5
  <2>3. CASE n = len + 1
    BY <2>3, <1>4, <1>6
  <2> QED
    BY <2>1, <2>2, <2>3
<1> QED
  BY <1>7, <1>8, <1>9 DEF WorksAt

LEMMA EarnedStep ==
    ASSUME ParserIsRight, now \in Nat, Typed, AnswerIsEarned, [Next]_vars
    PROVE  AnswerIsEarned'
<1>1. CASE Send
  <2>1. PICK chunk : chunk = Chunk(imp.pkg, imp.i)
    OBVIOUS
  <2>2. AtTurn(imp.pkg, imp.i) /\ runs \in 1..MaxRuns
    BY <1>1 DEF Send, Typed, Underway
  <2>3. chunk \in Seq(Urls) /\ Len(chunk) \in Nat
    BY <2>1, <2>2, ChunkIsBatch
  <2>4. PICK p : p = [at |-> "received", left |-> chunk, results |-> <<>>]
    OBVIOUS
  <2>5. post'[runs] = p /\ imp'.pkg = imp.pkg /\ imp'.i = imp.i /\ UNCHANGED <<runs, covered>>
    BY <1>1, <2>1, <2>2, <2>4 DEF Send, Typed, ImpStates, server
  <2>6. WorksAt(p, chunk, covered)
    <3>1. p.results = <<>> /\ p.left = chunk /\ p.at = "received" /\ Len(p.results) = 0
      BY <2>4
    <3>2. \A n \in 1..Len(p.left) : p.left[n] = chunk[Len(p.results) + n]
      BY <2>3, <3>1
    <3> QED
      BY <2>3, <3>1, <3>2 DEF WorksAt
  <2> QED
    BY <2>1, <2>5, <2>6 DEF AnswerIsEarned, Chunk
<1>2. CASE StartRun \/ TakeAnswer \/ WakeUp \/ Interrupt
  <2>1. imp'.at # "awaiting"
    <3>1. CASE StartRun
      BY <3>1, RunStarts
    <3>2. CASE TakeAnswer
      <4>1. CASE post[runs].at = "refused"
        <5>1. imp' = [imp EXCEPT !.at = "sleeping", !.wake = now + RetryWait]
          BY <3>2, <4>1 DEF TakeAnswer
        <5> QED
          BY <5>1 DEF Typed, ImpStates
      <4>2. CASE post[runs].at = "answered"
        BY <3>2, <4>2, AnswerIsCounted DEF TakeAnswer
      <4> QED
        BY <3>2, <4>1, <4>2 DEF TakeAnswer
    <3>3. CASE WakeUp \/ Interrupt
      BY <3>3 DEF WakeUp, Interrupt, Typed, ImpStates
    <3> QED
      BY <1>2, <3>1, <3>2, <3>3
  <2> QED
    BY <2>1 DEF AnswerIsEarned
<1>3. ASSUME NEW r \in 1..MaxRuns, Serve(r) PROVE AnswerIsEarned'
  <2> SUFFICES ASSUME imp.at = "awaiting"
               PROVE  AnswerIsEarned'
    BY <1>3 DEF AnswerIsEarned, Serve, CheckRate, ServeUrl, FindOpen, Answer
  <2>1. PICK chunk : chunk = Chunk(imp.pkg, imp.i)
    OBVIOUS
  <2>2. runs \in 1..MaxRuns /\ AtTurn(imp.pkg, imp.i) /\ WorksAt(post[runs], chunk, covered)
    BY <2>1 DEF Typed, Underway, AnswerIsEarned
  <2>3. chunk \in Seq(Urls)
    BY <2>1, <2>2, ChunkIsBatch
  <2>4. post[r] \in Posts /\ post'[r] \in Posts
    <3>1. Typed'
      BY TypedStep
    <3> QED
      BY <3>1 DEF Typed
  <2>5. covered \subseteq covered'
    BY <1>3 DEF Serve, CheckRate, ServeUrl, FindOpen, Answer, server
  <2>6. SUFFICES WorksAt(post'[runs], chunk, covered')
    <3>1. UNCHANGED <<imp, runs>>
      BY <1>3 DEF Serve, CheckRate, ServeUrl, FindOpen, Answer
    <3> QED
      BY <2>1, <2>6, <3>1 DEF AnswerIsEarned
  <2>7. CASE r # runs
    <3>1. post'[runs] = post[runs]
      BY <1>3, <2>2, <2>7 DEF Serve, CheckRate, ServeUrl, FindOpen, Answer, Typed
    <3> QED
      BY <2>2, <2>5, <3>1, WorksOn
  <2>8. CASE r = runs
    <3>1. PICK p, q : p = post[r] /\ q = post'[r]
      OBVIOUS
    <3>2. p \in Posts /\ q \in Posts /\ WorksAt(p, chunk, covered)
      BY <2>2, <2>4, <2>8, <3>1
    <3>3. CASE CheckRate(r)
      <4>1. /\ p.at = "received" /\ q.left = p.left /\ q.results = p.results
            /\ q.at \in {"serving", "refused"}
        <5>1. PICK at \in {"serving", "refused"} : post' = [post EXCEPT ![r].at = at]
          BY <3>3 DEF CheckRate
        <5>2. q = [p EXCEPT !.at = at]
          BY <3>1, <5>1 DEF Typed
        <5> QED
          BY <3>1, <3>2, <3>3, <5>2 DEF CheckRate, Posts
      <4>2. WorksAt(q, chunk, covered)
        BY <3>2, <4>1 DEF WorksAt
      <4> QED
        BY <2>5, <2>8, <3>1, <4>2, WorksOn
    <3>4. CASE Answer(r)
      <4>1. /\ p.left = <<>> /\ q.left = p.left /\ q.results = p.results
            /\ q.at = "answered"
        BY <3>1, <3>4, <2>4 DEF Answer, Typed, Posts
      <4>2. WorksAt(q, chunk, covered)
        BY <3>2, <4>1 DEF WorksAt
      <4> QED
        BY <2>5, <2>8, <3>1, <4>2, WorksOn
    <3>5. CASE FindOpen(r)
      <4>1. p.at = "finding" /\ p.left # <<>>
        BY <3>1, <3>5 DEF FindOpen, Typed
      <4>2. q.at = "serving" /\ q.left = Tail(p.left) /\ q.results = Append(p.results, TRUE)
        BY <3>1, <3>5 DEF FindOpen, Typed
      <4>3. p.left[1] \in Supported /\ p.left[1] \in covered'
        BY <2>5, <3>2, <4>1 DEF WorksAt
      <4> QED
        BY <2>3, <2>5, <2>8, <3>1, <3>2, <4>1, <4>2, <4>3, UrlIsServed
    <3>6. CASE ServeUrl(r)
      <4>1. PICK u : u = Head(p.left)
        OBVIOUS
      <4>2. p.at = "serving" /\ p.left # <<>> /\ p.left \in Seq(Urls)
        BY <3>1, <3>2, <3>6 DEF ServeUrl, Posts
      <4>3. p.left[1] = u
        BY <4>1, <4>2
      <4>4. CASE u \in Supported \cap open
        <5>1. q.at = "finding" /\ q.left = p.left /\ q.results = p.results /\ covered' = covered
          BY <3>1, <3>6, <4>1, <4>4, <2>4 DEF ServeUrl, Typed, Posts, server
        <5>2. u \in covered
          BY <4>4 DEF Typed
        <5>3. WorksAt(q, chunk, covered)
          BY <3>2, <4>2, <4>3, <4>4, <5>1, <5>2 DEF WorksAt
        <5> QED
          BY <2>8, <3>1, <5>1, <5>3
      <4>5. CASE u \notin Supported \cap open
        <5>0. PICK res : res = Append(p.results, u \in Supported)
          OBVIOUS
        <5>1. PICK ok \in BOOLEAN : (ok = TRUE <=> u \in Supported) /\ res = Append(p.results, ok)
          <6>1. CASE u \in Supported
            <7>1. res = Append(p.results, TRUE)
              BY <5>0, <6>1
            <7> QED
              BY <6>1, <7>1
          <6>2. CASE u \notin Supported
            <7>0. (u \in Supported) = FALSE
              BY <6>2
            <7>1. res = Append(p.results, FALSE)
              BY <5>0, <7>0
            <7> QED
              BY <6>2, <7>1
          <6> QED
            BY <6>1, <6>2
        <5>2. /\ q.at = "serving" /\ q.left = Tail(p.left) /\ q.results = Append(p.results, ok)
              /\ covered' = covered \cup ({u} \cap Supported)
          <6>1. PICK t : t = [p EXCEPT !.left = Tail(@), !.results = res]
            OBVIOUS
          <6>2. /\ post' = [post EXCEPT ![r] = t]
                /\ covered' = covered \cup ({u} \cap Supported)
            BY <3>1, <3>6, <4>1, <4>5, <5>0, <6>1 DEF ServeUrl
          <6>3. q = t
            BY <3>1, <6>2 DEF Typed
          <6>4. q.at = "serving" /\ q.left = Tail(p.left) /\ q.results = res
            BY <3>2, <4>2, <6>1, <6>3 DEF Posts
          <6> QED
            BY <5>1, <6>2, <6>4
        <5>3. ok = TRUE <=> p.left[1] \in Supported
          BY <4>3, <5>1
        <5>4. p.left[1] \in Supported => p.left[1] \in covered'
          BY <4>3, <5>2
        <5> QED
          BY <2>3, <2>5, <2>8, <3>1, <3>2, <4>2, <5>2, <5>3, <5>4, UrlIsServed
      <4> QED
        BY <4>4, <4>5
    <3> QED
      BY <1>3, <3>3, <3>4, <3>5, <3>6 DEF Serve
  <2> QED
    BY <2>7, <2>8
<1>4. CASE Pass
  BY <1>4 DEF Pass, server, AnswerIsEarned
<1>5. ASSUME NEW u \in Urls, JobEnds(u) PROVE AnswerIsEarned'
  BY <1>5 DEF JobEnds, AnswerIsEarned
<1>6. CASE UNCHANGED vars
  BY <1>6 DEF vars, server, AnswerIsEarned
<1> QED
  BY <1>1, <1>2, <1>3, <1>4, <1>5, <1>6 DEF Next

LEMMA TallyInit == Init => AnswerIsEarned /\ Tally
BY DEF Init, Idle, AnswerIsEarned, Tally, Underway

LEMMA CountsStay ==
    ASSUME NEW s, NEW opened, NEW P, Counted(s, opened, P),
           NEW t, t.accepted = s.accepted, t.rejected = s.rejected,
           NEW more, opened \subseteq more
    PROVE  Counted(t, more, P)
BY DEF Counted

\* A batch whose answer has come is counted, and its supported URLs have been open.
LEMMA BatchIsCounted ==
    ASSUME ParserIsRight, Typed, imp.at = "awaiting", post[runs].at = "answered",
           WorksAt(post[runs], Chunk(imp.pkg, imp.i), covered),
           Counted(imp, covered, Before(imp.pkg, imp.i)),
           NEW t, t.accepted = imp.accepted + Count(post[runs].results, TRUE),
           t.rejected = imp.rejected + Count(post[runs].results, FALSE)
    PROVE  Counted(t, covered, Before(imp.pkg, imp.i + BatchSize))
<1>1. PICK pkg, i, chunk, results : /\ pkg = imp.pkg /\ i = imp.i
                                    /\ chunk = Chunk(pkg, i) /\ results = post[runs].results
  OBVIOUS
<1>2. PICK P, Q : P = Before(pkg, i) /\ Q = Batch(pkg, i)
  OBVIOUS
<1>3. AtTurn(pkg, i) /\ pkg \in Nat /\ i \in Nat /\ runs \in 1..MaxRuns
  BY <1>1 DEF Typed, Underway, ImpStates
<1>4. /\ Before(pkg, i + BatchSize) = P \cup Q
      /\ P \cap Q = {} /\ P \subseteq Places /\ Q \subseteq Places
  BY <1>2, <1>3, BatchMoves
<1>5. /\ chunk \in Seq(Urls) /\ Len(chunk) \in Nat
      /\ \A place : place \in Q <=> \E n \in 1..Len(chunk) : place = <<pkg, i + n>>
      /\ \A n \in 1..Len(chunk) : UrlAt(<<pkg, i + n>>) = chunk[n]
  BY <1>1, <1>2, <1>3, ChunkIsBatch
<1>6. results \in Seq(BOOLEAN) /\ Len(results) \in Nat
  BY <1>1, <1>3 DEF Typed, Posts
<1>7. /\ Len(results) = Len(chunk)
      /\ \A n \in 1..Len(chunk) : /\ results[n] = TRUE <=> chunk[n] \in Supported
                                  /\ chunk[n] \in Supported => chunk[n] \in covered
  <2>1. WorksAt(post[runs], chunk, covered)
    BY <1>1
  <2>2. post[runs].left = <<>> /\ Len(results) + Len(post[runs].left) = Len(chunk)
    BY <2>1, <1>1 DEF WorksAt
  <2>3. Len(post[runs].left) = 0
    BY <2>2
  <2>4. Len(results) = Len(chunk)
    BY <2>2, <2>3, <1>6
  <2> QED
    BY <2>1, <2>4, <1>1 DEF WorksAt
<1>7a. ASSUME NEW V, NEW ok, \A n \in 1..Len(chunk) : results[n] = ok <=> chunk[n] \in V
       PROVE  Count(results, ok) = Cardinality(Of(V, Q))
  <2>1. AtTurn(pkg, i) /\ chunk = Chunk(pkg, i) /\ results \in Seq(BOOLEAN) /\ Len(results) = Len(chunk)
    BY <1>1, <1>3, <1>6, <1>7
  <2>2. Count(results, ok) = Cardinality(Of(V, Batch(pkg, i)))
    BY <2>1, <1>7a, CountIs
  <2> QED
    BY <2>2, <1>2
<1>8. Count(results, TRUE) = Cardinality(Of(Supported, Q))
  BY <1>7, <1>7a
<1>9. Count(results, FALSE) = Cardinality(Of(Urls \ Supported, Q))
  <2>1. \A n \in 1..Len(chunk) : results[n] = FALSE <=> chunk[n] \in Urls \ Supported
    <3> SUFFICES ASSUME NEW n \in 1..Len(chunk)
                 PROVE  results[n] = FALSE <=> chunk[n] \in Urls \ Supported
      OBVIOUS
    <3>1. results[n] \in BOOLEAN /\ chunk[n] \in Urls
      BY <1>5, <1>6, <1>7, ElementOfSeq
    <3>2. results[n] = TRUE <=> chunk[n] \in Supported
      BY <1>7
    <3> QED
      BY <3>1, <3>2
  <2> QED
    BY <2>1, <1>7a
<1>10. /\ imp.accepted = Cardinality(Of(Supported, P))
       /\ imp.rejected = Cardinality(Of(Urls \ Supported, P))
       /\ \A place \in Of(Supported, P) : UrlAt(place) \in covered
  BY <1>1, <1>2 DEF Counted
<1>11. /\ Cardinality(Of(Supported, P \cup Q)) = imp.accepted + Count(results, TRUE)
       /\ Cardinality(Of(Urls \ Supported, P \cup Q)) = imp.rejected + Count(results, FALSE)
  <2>1. \A V : Cardinality(Of(V, P \cup Q)) = Cardinality(Of(V, P)) + Cardinality(Of(V, Q))
    BY <1>4, OfGrows
  <2> QED
    BY <2>1, <1>1, <1>8, <1>9, <1>10
<1>12. ASSUME NEW place \in Of(Supported, P \cup Q) PROVE UrlAt(place) \in covered
  <2>1. CASE place \in P
    BY <1>10, <2>1, <1>12 DEF Of
  <2>2. CASE place \in Q
    <3>1. PICK n \in 1..Len(chunk) : place = <<pkg, i + n>>
      BY <1>5, <2>2
    <3>2. UrlAt(place) = chunk[n] /\ chunk[n] \in Supported
      BY <1>5, <1>12, <3>1 DEF Of
    <3> QED
      BY <1>7, <3>2
  <2> QED
    BY <2>1, <2>2, <1>12 DEF Of
<1>13. Counted(t, covered, P \cup Q)
  BY <1>1, <1>11, <1>12 DEF Counted
<1> QED
  BY <1>1, <1>4, <1>13

LEMMA TallyStep ==
    ASSUME ParserIsRight, now \in Nat, Typed, AnswerIsEarned, Tally, [Next]_vars
    PROVE  Tally'
<1>1. CASE StartRun
  <2>1. PICK t, more : t = imp' /\ more = covered'
    OBVIOUS
  <2>2. t.accepted = 0 /\ t.rejected = 0
    BY <1>1, <2>1, RunStarts
  <2>3. Counted(t, more, {})
    <3>1. \A V : Of(V, {}) = {}
      BY DEF Of
    <3> QED
      BY <2>2, <3>1, FS_EmptySet DEF Counted
  <2>4. \/ imp'.at = "sending" /\ Before(imp'.pkg, imp'.i) = {}
        \/ imp'.at = "done" /\ Places = {}
    BY <1>1, RunStarts
  <2> QED
    BY <2>1, <2>3, <2>4 DEF Tally, Underway
<1>2. CASE TakeAnswer
  <2>1. /\ imp.at = "awaiting" /\ Underway
        /\ WorksAt(post[runs], Chunk(imp.pkg, imp.i), covered)
        /\ Counted(imp, covered, Before(imp.pkg, imp.i))
    BY <1>2 DEF TakeAnswer, Underway, AnswerIsEarned, Tally
  <2>2. covered' = covered
    BY <1>2 DEF TakeAnswer, server
  <2>3. PICK t : t = imp'
    OBVIOUS
  <2>4. CASE post[runs].at = "refused"
    <3>1. imp' = [imp EXCEPT !.at = "sleeping", !.wake = now + RetryWait]
      BY <1>2, <2>4 DEF TakeAnswer
    <3>2. /\ t.at = "sleeping" /\ t.pkg = imp.pkg /\ t.i = imp.i
          /\ t.accepted = imp.accepted /\ t.rejected = imp.rejected
      BY <2>3, <3>1 DEF Typed, ImpStates
    <3>3. Counted(t, covered, Before(imp.pkg, imp.i))
      BY <2>1, <3>2, CountsStay
    <3> QED
      BY <2>2, <2>3, <3>2, <3>3 DEF Tally, Underway
  <2>5. CASE post[runs].at = "answered"
    <3>1. imp' = Loop([imp EXCEPT !.accepted = @ + Count(post[runs].results, TRUE),
                                  !.rejected = @ + Count(post[runs].results, FALSE)],
                      imp.pkg, imp.i + BatchSize)
      BY <1>2, <2>5 DEF TakeAnswer
    <3>2. /\ t.accepted = imp.accepted + Count(post[runs].results, TRUE)
          /\ t.rejected = imp.rejected + Count(post[runs].results, FALSE)
          /\ \/ t.at = "sending" /\ Before(t.pkg, t.i) = Before(imp.pkg, imp.i + BatchSize)
             \/ t.at = "done" /\ Before(imp.pkg, imp.i + BatchSize) = Places
      BY <2>1, <2>3, <2>5, <3>1, AnswerIsCounted
    <3>3. Counted(t, covered, Before(imp.pkg, imp.i + BatchSize))
      BY <2>1, <2>5, <3>2, BatchIsCounted
    <3> QED
      BY <2>2, <2>3, <3>2, <3>3 DEF Tally, Underway
  <2> QED
    BY <1>2, <2>4, <2>5 DEF TakeAnswer
<1>3. CASE Send \/ WakeUp \/ Interrupt
  <2>1. /\ imp' = [imp EXCEPT !.at = "awaiting"] \/ imp' = [imp EXCEPT !.at = "sending"]
              \/ imp' = [imp EXCEPT !.at = "gone"]
        /\ Underway /\ covered' = covered
    BY <1>3 DEF Send, WakeUp, Interrupt, Underway, server
  <2>2. PICK t : t = imp'
    OBVIOUS
  <2>3. /\ t.at # "done" /\ t.pkg = imp.pkg /\ t.i = imp.i
        /\ t.accepted = imp.accepted /\ t.rejected = imp.rejected
    BY <2>1, <2>2 DEF Typed, ImpStates
  <2>4. Counted(t, covered, Before(imp.pkg, imp.i))
    BY <2>1, <2>3, CountsStay DEF Tally
  <2> QED
    BY <2>1, <2>2, <2>3, <2>4 DEF Tally
<1>4. CASE UNCHANGED imp /\ covered \subseteq covered'
  <2>1. PICK more, P : more = covered' /\ P = Before(imp.pkg, imp.i)
    OBVIOUS
  <2>2. /\ Underway => Counted(imp, more, P)
        /\ imp.at = "done" => Counted(imp, more, Places)
    BY <1>4, <2>1, CountsStay DEF Tally
  <2> QED
    BY <1>4, <2>1, <2>2 DEF Tally, Underway
<1>5. CASE Pass \/ (\E r \in 1..MaxRuns : Serve(r)) \/ (\E u \in Urls : JobEnds(u)) \/ UNCHANGED vars
  <2>1. UNCHANGED imp /\ covered \subseteq covered'
    BY <1>5 DEF Pass, Serve, CheckRate, ServeUrl, FindOpen, Answer, JobEnds, vars, server
  <2> QED
    BY <1>4, <2>1
<1> QED
  BY <1>1, <1>2, <1>3, <1>5 DEF Next

\* When a run reports that it is done, it has counted every link of the list once
\* and every supported URL has been queued since it began, for every list, batch
\* size and limit, however often it was refused and whatever ran before it
\* (jd_import.py:90-131, api.py:54-84).
THEOREM ReportIsEarned ==
    ASSUME ParserIsRight
    PROVE  Spec => []DoneIsComplete
<1>1. Spec => []LimiterInv
  BY ImporterObeysLimiter, LimiterKeepsInv, PTL
<1>2. LimiterInv => now \in Nat
  BY DEF LimiterInv, LimiterTypeOK
<1>3. Init => Typed /\ AnswerIsEarned /\ Tally
  BY TypedInit, TallyInit
<1>4. now \in Nat /\ Typed /\ AnswerIsEarned /\ Tally /\ [Next]_vars
          => Typed' /\ AnswerIsEarned' /\ Tally'
  BY TypedStep, EarnedStep, TallyStep
<1>5. Tally => DoneIsComplete
  <2> SUFFICES ASSUME Tally, imp.at = "done"
               PROVE  /\ imp.accepted = Cardinality({w \in Wanted : w[2] \in Supported})
                      /\ imp.rejected = Cardinality({w \in Wanted : w[2] \notin Supported})
                      /\ {w[2] : w \in Wanted} \cap Supported \subseteq covered
    BY DEF DoneIsComplete
  <2>1. Counted(imp, covered, Places)
    BY DEF Tally
  <2>2. \A w \in Wanted : \E place \in Places : UrlAt(place) = w[2]
    BY LinksOf
  <2>3. \A w \in Wanted : w[2] \in Urls
    BY <2>2, ParsedList
  <2>4. {w \in Wanted : w[2] \notin Supported} = {w \in Wanted : w[2] \in Urls \ Supported}
    BY <2>3
  <2>5. imp.accepted = Cardinality({w \in Wanted : w[2] \in Supported})
    BY <2>1, LinksOf DEF Counted
  <2>6. imp.rejected = Cardinality({w \in Wanted : w[2] \notin Supported})
    BY <2>1, <2>4, LinksOf DEF Counted
  <2>7. {w[2] : w \in Wanted} \cap Supported \subseteq covered
    BY <2>1, <2>2 DEF Counted, Of
  <2> QED
    BY <2>5, <2>6, <2>7
<1> QED
  BY <1>1, <1>2, <1>3, <1>4, <1>5, PTL DEF Spec

-----------------------------------------------------------------------------
(* What a URL may cost: a row per run and place, and no more for a batch sent again. *)

LEMMA PendingIsFinite == \A u : IsFiniteSet(Pending(u)) /\ Cardinality(Pending(u)) \in Nat
<1> TAKE u
<1>1. Pending(u) \subseteq 1..MaxRuns /\ IsFiniteSet(1..MaxRuns)
  BY ImporterAssumption, FS_Interval DEF Pending
<1>2. IsFiniteSet(Pending(u))
  BY <1>1, FS_Subset
<1> QED
  BY <1>2, FS_CardinalityType

\* What a step may do to rows, pending requests and unsent places: drop some of them,
\* or exchange one for another.
Exchange(n, A, B, m, C, D) ==
    \/ m = n /\ C \subseteq A /\ D \subseteq B
    \/ \E r, place : m = n /\ C \subseteq A \cup {r} /\ place \in B /\ D \subseteq B \ {place}
    \/ \E r, place : m = n /\ r \in A /\ C \subseteq A \ {r} /\ D \subseteq B \cup {place}
    \/ \E r : m = n + 1 /\ r \in A /\ C \subseteq A \ {r} /\ D \subseteq B

LEMMA ExchangeIsWithin ==
    ASSUME NEW n \in Nat, NEW A, NEW B, NEW k \in Nat, NEW P, IsFiniteSet(P),
           IsFiniteSet(A), IsFiniteSet(B), Within(n, A, B, k, P),
           NEW m, NEW C, NEW D, Exchange(n, A, B, m, C, D)
    PROVE  Within(m, C, D, k, P)
<1>1. Cardinality(A) \in Nat /\ Cardinality(B) \in Nat /\ Cardinality(P) \in Nat
  BY FS_CardinalityType
<1>2. ASSUME NEW S, IsFiniteSet(S), NEW T \in SUBSET S
      PROVE  Cardinality(T) \in Nat /\ Cardinality(T) <= Cardinality(S) /\ Cardinality(S) \in Nat
  BY <1>2, FS_Subset, FS_CardinalityType
<1>3. ASSUME NEW S, IsFiniteSet(S), NEW x, NEW T \in SUBSET (S \cup {x})
      PROVE  Cardinality(T) \in Nat /\ Cardinality(T) <= Cardinality(S) + 1
  <2>1. IsFiniteSet(S \cup {x}) /\ Cardinality(S \cup {x}) <= Cardinality(S) + 1
    <3>1. Cardinality(S) \in Nat
      BY <1>3, FS_CardinalityType
    <3>2. /\ IsFiniteSet(S \cup {x})
          /\ Cardinality(S \cup {x}) = IF x \in S THEN Cardinality(S) ELSE Cardinality(S) + 1
      BY <1>3, FS_AddElement
    <3> QED
      BY <3>1, <3>2
  <2>2. Cardinality(T) \in Nat /\ Cardinality(T) <= Cardinality(S \cup {x}) /\ Cardinality(S \cup {x}) \in Nat
    BY <2>1, <1>2
  <2>3. Cardinality(S) \in Nat
    BY <1>3, FS_CardinalityType
  <2> QED
    BY <2>1, <2>2, <2>3
<1>4. ASSUME NEW S, IsFiniteSet(S), NEW x \in S, NEW T \in SUBSET (S \ {x})
      PROVE  Cardinality(T) \in Nat /\ Cardinality(T) + 1 <= Cardinality(S)
  <2>1. IsFiniteSet(S \ {x}) /\ Cardinality(S \ {x}) = Cardinality(S) - 1
    BY <1>4, FS_RemoveElement
  <2>2. Cardinality(T) \in Nat /\ Cardinality(T) <= Cardinality(S \ {x})
    BY <2>1, <1>2
  <2>3. Cardinality(S) \in Nat
    BY <1>4, FS_CardinalityType
  <2> QED
    BY <2>1, <2>2, <2>3
<1>5. /\ m \in Nat /\ Cardinality(C) \in Nat /\ Cardinality(D) \in Nat
      /\ m + Cardinality(C) + Cardinality(D) <= n + Cardinality(A) + Cardinality(B)
  <2>1. CASE m = n /\ C \subseteq A /\ D \subseteq B
    <3>1. /\ Cardinality(C) \in Nat /\ Cardinality(C) <= Cardinality(A)
          /\ Cardinality(D) \in Nat /\ Cardinality(D) <= Cardinality(B)
      BY <2>1, <1>2
    <3> QED
      BY <2>1, <3>1, <1>1
  <2>2. ASSUME NEW r, NEW place, m = n, C \subseteq A \cup {r}, place \in B, D \subseteq B \ {place}
        PROVE  /\ m \in Nat /\ Cardinality(C) \in Nat /\ Cardinality(D) \in Nat
               /\ m + Cardinality(C) + Cardinality(D) <= n + Cardinality(A) + Cardinality(B)
    <3>1. Cardinality(C) \in Nat /\ Cardinality(C) <= Cardinality(A) + 1
      BY <2>2, <1>3
    <3>2. Cardinality(D) \in Nat /\ Cardinality(D) + 1 <= Cardinality(B)
      BY <2>2, <1>4
    <3> QED
      BY <2>2, <3>1, <3>2, <1>1
  <2>3. ASSUME NEW r, NEW place, m = n, r \in A, C \subseteq A \ {r}, D \subseteq B \cup {place}
        PROVE  /\ m \in Nat /\ Cardinality(C) \in Nat /\ Cardinality(D) \in Nat
               /\ m + Cardinality(C) + Cardinality(D) <= n + Cardinality(A) + Cardinality(B)
    <3>1. Cardinality(C) \in Nat /\ Cardinality(C) + 1 <= Cardinality(A)
      BY <2>3, <1>4
    <3>2. Cardinality(D) \in Nat /\ Cardinality(D) <= Cardinality(B) + 1
      BY <2>3, <1>3
    <3> QED
      BY <2>3, <3>1, <3>2, <1>1
  <2>4. ASSUME NEW r, m = n + 1, r \in A, C \subseteq A \ {r}, D \subseteq B
        PROVE  /\ m \in Nat /\ Cardinality(C) \in Nat /\ Cardinality(D) \in Nat
               /\ m + Cardinality(C) + Cardinality(D) <= n + Cardinality(A) + Cardinality(B)
    <3>1. Cardinality(C) \in Nat /\ Cardinality(C) + 1 <= Cardinality(A)
      BY <2>4, <1>4
    <3>2. Cardinality(D) \in Nat /\ Cardinality(D) <= Cardinality(B)
      BY <2>4, <1>2
    <3> QED
      BY <2>4, <3>1, <3>2, <1>1
  <2> QED
    BY <2>1, <2>2, <2>3, <2>4 DEF Exchange
<1>6. PICK t : t = k * Cardinality(P)
  OBVIOUS
<1>7. t \in Nat /\ n + Cardinality(A) + Cardinality(B) <= t
  BY <1>1, <1>6 DEF Within
<1>8. m + Cardinality(C) + Cardinality(D) <= t
  BY <1>1, <1>5, <1>7
<1> QED
  BY <1>6, <1>8 DEF Within

LEMMA OnceStep ==
    ASSUME ParserIsRight, Typed, OnceInRequest, [Next]_vars
    PROVE  OnceInRequest'
<1>1. ASSUME NEW r \in 1..MaxRuns, NEW left \in Seq(Urls),
             \A m, n \in 1..Len(left) : left[m] = left[n] => m = n,
             post'[r].left = left, \A q \in 1..MaxRuns \ {r} : post'[q].left = post[q].left
      PROVE  OnceInRequest'
  BY <1>1 DEF OnceInRequest
<1>2. CASE Send
  <2>1. PICK chunk : chunk = Chunk(imp.pkg, imp.i)
    OBVIOUS
  <2>2. AtTurn(imp.pkg, imp.i) /\ runs \in 1..MaxRuns
    BY <1>2 DEF Send, Typed, Underway
  <2>3. chunk \in Seq(Urls) /\ \A m, n \in 1..Len(chunk) : chunk[m] = chunk[n] => m = n
    BY <2>1, <2>2, ChunkIsBatch
  <2>4. post'[runs].left = chunk /\ \A q \in 1..MaxRuns \ {runs} : post'[q].left = post[q].left
    BY <1>2, <2>1, <2>2 DEF Send, Typed
  <2> QED
    BY <2>2, <2>3, <2>4, <1>1
<1>3. CASE TakeAnswer
  <2>1. runs \in 1..MaxRuns /\ post' = [post EXCEPT ![runs] = NoPost]
    BY <1>3 DEF TakeAnswer, Typed, Underway
  <2>2. PICK left : left = <<>>
    OBVIOUS
  <2>3. left \in Seq(Urls) /\ \A m, n \in 1..Len(left) : left[m] = left[n] => m = n
    BY <2>2
  <2>4. post'[runs].left = left /\ \A q \in 1..MaxRuns \ {runs} : post'[q].left = post[q].left
    BY <2>1, <2>2 DEF Typed, NoPost
  <2> QED
    BY <2>1, <2>3, <2>4, <1>1
<1>4. ASSUME NEW r \in 1..MaxRuns, Serve(r) PROVE OnceInRequest'
  <2>1. PICK left : left = post[r].left
    OBVIOUS
  <2>2. left \in Seq(Urls) /\ \A m, n \in 1..Len(left) : left[m] = left[n] => m = n
    BY <2>1 DEF Typed, Posts, OnceInRequest
  <2>3. \A q \in 1..MaxRuns \ {r} : post'[q].left = post[q].left
    BY <1>4 DEF Serve, CheckRate, ServeUrl, FindOpen, Answer, Typed
  <2>4. post'[r].left = left \/ (left # <<>> /\ post'[r].left = Tail(left))
    <3>1. CASE CheckRate(r) \/ Answer(r)
      BY <2>1, <3>1 DEF CheckRate, Answer, Typed, Posts
    <3>2. CASE FindOpen(r)
      BY <2>1, <3>2 DEF FindOpen, Typed, Posts
    <3>3. CASE ServeUrl(r)
      <4>1. CASE Head(left) \in Supported \cap open
        BY <2>1, <3>3, <4>1 DEF ServeUrl, Typed, Posts
      <4>2. CASE Head(left) \notin Supported \cap open
        <5>1. PICK res : res = Append(post[r].results, Head(left) \in Supported)
          OBVIOUS
        <5>2. post' = [post EXCEPT ![r] = [post[r] EXCEPT !.left = Tail(@), !.results = res]] /\ left # <<>>
          BY <2>1, <3>3, <4>2, <5>1 DEF ServeUrl
        <5> QED
          BY <2>1, <5>2 DEF Typed, Posts
      <4> QED
        BY <4>1, <4>2
    <3> QED
      BY <1>4, <3>1, <3>2, <3>3 DEF Serve
  <2>5. CASE post'[r].left = left
    BY <2>2, <2>3, <2>5, <1>1
  <2>6. CASE left # <<>> /\ post'[r].left = Tail(left)
    <3>1. PICK tail : tail = Tail(left)
      OBVIOUS
    <3>2. /\ tail \in Seq(Urls) /\ Len(tail) = Len(left) - 1 /\ Len(left) \in Nat \ {0}
          /\ \A n \in 1..Len(tail) : tail[n] = left[n + 1]
      BY <2>2, <2>6, <3>1, HeadTailProperties, EmptySeq
    <3>3. ASSUME NEW m \in 1..Len(tail), NEW n \in 1..Len(tail), tail[m] = tail[n] PROVE m = n
      <4>1. m + 1 \in 1..Len(left) /\ n + 1 \in 1..Len(left) /\ left[m + 1] = left[n + 1]
        BY <3>2, <3>3
      <4>2. m + 1 = n + 1
        BY <2>2, <4>1
      <4> QED
        BY <3>2, <4>2
    <3> QED
      BY <2>3, <2>6, <3>1, <3>2, <3>3, <1>1
  <2> QED
    BY <2>4, <2>5, <2>6
<1>5. CASE StartRun \/ WakeUp \/ Interrupt \/ Pass \/ (\E u \in Urls : JobEnds(u)) \/ UNCHANGED vars
  BY <1>5 DEF StartRun, WakeUp, Interrupt, Pass, JobEnds, vars, OnceInRequest
<1> QED
  BY <1>2, <1>3, <1>4, <1>5 DEF Next

LEMMA PlacesOfBatch ==
    ASSUME ParserIsRight, NEW pkg, NEW i, AtTurn(pkg, i), NEW u
    PROVE  \/ /\ \A n \in 1..Len(Chunk(pkg, i)) : Chunk(pkg, i)[n] # u
              /\ Of({u}, From(pkg, i + BatchSize)) = Of({u}, From(pkg, i))
           \/ /\ \E n \in 1..Len(Chunk(pkg, i)) : Chunk(pkg, i)[n] = u
              /\ \E place \in Of({u}, From(pkg, i)) :
                    Of({u}, From(pkg, i + BatchSize)) = Of({u}, From(pkg, i)) \ {place}
<1> DEFINE U == From(pkg, i)
           W == From(pkg, i + BatchSize)
<1>0. PICK chunk : chunk = Chunk(pkg, i)
  OBVIOUS
<1>1. pkg \in Nat /\ i \in Nat
  BY ParsedList DEF AtTurn
<1>2. PICK Q : Q = Batch(pkg, i)
  OBVIOUS
<1>3. Q \subseteq U /\ W = U \ Q
  BY <1>1, <1>2, BatchMoves DEF From
<1> HIDE DEF U, W
<1>4. /\ \A m, n \in 1..Len(chunk) : chunk[m] = chunk[n] => m = n
      /\ \A place : place \in Q <=> \E n \in 1..Len(chunk) : place = <<pkg, i + n>>
      /\ \A n \in 1..Len(chunk) : UrlAt(<<pkg, i + n>>) = chunk[n]
  BY <1>0, <1>2, ChunkIsBatch
<1>5. ASSUME \A n \in 1..Len(chunk) : chunk[n] # u
      PROVE  Of({u}, W) = Of({u}, U)
  <2>1. \A q \in Q : UrlAt(q) # u
    BY <1>4, <1>5
  <2> QED
    BY <1>3, <2>1 DEF Of
<1>6. ASSUME NEW n \in 1..Len(chunk), chunk[n] = u
      PROVE  \E place \in Of({u}, U) : Of({u}, W) = Of({u}, U) \ {place}
  <2>1. PICK place : place = <<pkg, i + n>>
    OBVIOUS
  <2>2. place \in Q /\ UrlAt(place) = u
    BY <1>4, <1>6, <2>1
  <2>3. \A q \in Q : UrlAt(q) = u => q = place
    BY <1>4, <1>6, <2>1
  <2>4. place \in Of({u}, U) /\ Of({u}, W) = Of({u}, U) \ {place}
    BY <1>3, <2>2, <2>3 DEF Of
  <2> QED
    BY <2>4
<1> QED
  BY <1>0, <1>5, <1>6 DEF U, W

LEMMA BudgetInit == ASSUME ParserIsRight, Init PROVE RowsAreBudgeted
<1> SUFFICES ASSUME NEW u \in Urls
             PROVE  Within(rows[u], Pending(u), Of({u}, Unsent), runs, Of({u}, Places))
  BY DEF RowsAreBudgeted
<1>1. Pending(u) = {}
  BY DEF Init, NoPost, Pending, Owes
<1>2. Of({u}, Unsent) = {}
  BY DEF Init, Idle, Underway, Unsent, Of
<1>3. rows[u] = 0 /\ runs = 0
  BY DEF Init
<1>4. Cardinality(Of({u}, Places)) \in Nat
  BY OfIsFinite
<1>5. 0 + 0 + 0 <= 0 * Cardinality(Of({u}, Places))
  BY <1>4
<1> QED
  BY <1>1, <1>2, <1>3, <1>5, FS_EmptySet DEF Within

\* Another turn of a request touches no other.
LEMMA PendingAfter ==
    ASSUME Typed, NEW r \in 1..MaxRuns, NEW p, post' = [post EXCEPT ![r] = p], NEW u
    PROVE  /\ Pending(u)' \subseteq Pending(u) \cup {r}
           /\ ~Owes(p, u) => Pending(u)' \subseteq Pending(u) \ {r}
           /\ Owes(post[r], u) => Pending(u)' \subseteq Pending(u) /\ r \in Pending(u)
<1>1. \A q \in 1..MaxRuns : post'[q] = IF q = r THEN p ELSE post[q]
  BY DEF Typed
<1>2. Pending(u)' = {q \in 1..MaxRuns : Owes(post'[q], u)}
  BY DEF Pending, Owes
<1> QED
  BY <1>1, <1>2 DEF Pending

LEMMA UnsentStays ==
    ASSUME imp' = imp, runs' = runs,
           imp.at = "awaiting" => (post'[runs].at = "refused" <=> post[runs].at = "refused")
    PROVE  Unsent' = Unsent
BY DEF Unsent, Underway, From, Before

\* No step but a start makes more rows, requests and unsent places.
LEMMA StepExchanges ==
    ASSUME ParserIsRight, now \in Nat, Typed, AnswerIsEarned, OnceInRequest,
           [Next]_vars, ~StartRun, NEW u \in Urls
    PROVE  /\ Exchange(rows[u], Pending(u), Of({u}, Unsent), rows'[u], Pending(u)', Of({u}, Unsent'))
           /\ runs' = runs
<1>1. CASE Send
  <2>1. PICK chunk, U, W, p : /\ chunk = Chunk(imp.pkg, imp.i)
                              /\ U = From(imp.pkg, imp.i)
                              /\ W = From(imp.pkg, imp.i + BatchSize)
                              /\ p = [at |-> "received", left |-> chunk, results |-> <<>>]
    OBVIOUS
  <2>2. AtTurn(imp.pkg, imp.i) /\ runs \in 1..MaxRuns
    BY <1>1 DEF Send, Typed, Underway
  <2>3. /\ post' = [post EXCEPT ![runs] = p] /\ imp' = [imp EXCEPT !.at = "awaiting"]
        /\ imp.at = "sending" /\ UNCHANGED <<rows, runs>>
    BY <1>1, <2>1 DEF Send, server
  <2>4. Unsent = U
    BY <2>1, <2>3 DEF Unsent, Underway
  <2>5. Unsent' = W
    <3>1. /\ imp'.at = "awaiting" /\ imp'.pkg = imp.pkg /\ imp'.i = imp.i
          /\ post'[runs].at = "received"
      BY <2>1, <2>2, <2>3 DEF Typed, ImpStates
    <3> QED
      BY <2>1, <2>3, <3>1 DEF Unsent, Underway
  <2>6. Owes(p, u) <=> \E n \in 1..Len(chunk) : chunk[n] = u
    BY <2>1 DEF Owes
  <2>7. \/ ~Owes(p, u) /\ Of({u}, W) = Of({u}, U)
        \/ \E place \in Of({u}, U) : Of({u}, W) = Of({u}, U) \ {place}
    <3>1. PICK pkg, i : pkg = imp.pkg /\ i = imp.i
      OBVIOUS
    <3>2. \/ /\ \A n \in 1..Len(Chunk(pkg, i)) : Chunk(pkg, i)[n] # u
             /\ Of({u}, From(pkg, i + BatchSize)) = Of({u}, From(pkg, i))
          \/ \E place \in Of({u}, From(pkg, i)) :
                Of({u}, From(pkg, i + BatchSize)) = Of({u}, From(pkg, i)) \ {place}
      <4>1. AtTurn(pkg, i)
        BY <2>2, <3>1
      <4> QED
        BY <4>1, PlacesOfBatch
    <3> QED
      BY <2>1, <2>6, <3>1, <3>2
  <2>8. /\ Pending(u)' \subseteq Pending(u) \cup {runs}
        /\ ~Owes(p, u) => Pending(u)' \subseteq Pending(u)
    BY <2>2, <2>3, PendingAfter
  <2> QED
    BY <2>3, <2>4, <2>5, <2>7, <2>8 DEF Exchange
<1>2. CASE TakeAnswer
  <2>1. runs \in 1..MaxRuns /\ AtTurn(imp.pkg, imp.i) /\ imp.at = "awaiting"
    BY <1>2 DEF TakeAnswer, Typed, Underway
  <2>2. post' = [post EXCEPT ![runs] = NoPost] /\ UNCHANGED <<rows, runs>>
    BY <1>2 DEF TakeAnswer, server
  <2>3. Pending(u)' \subseteq Pending(u)
    <3>1. ~Owes(NoPost, u)
      BY DEF NoPost, Owes
    <3> QED
      BY <2>1, <2>2, <3>1, PendingAfter
  <2>4. Unsent' \subseteq Unsent
    <3>1. CASE post[runs].at = "refused"
      <4>1. imp' = [imp EXCEPT !.at = "sleeping", !.wake = now + RetryWait]
        BY <1>2, <3>1 DEF TakeAnswer
      <4>2. imp'.at = "sleeping" /\ imp'.pkg = imp.pkg /\ imp'.i = imp.i
        BY <4>1 DEF Typed, ImpStates
      <4> QED
        BY <2>1, <3>1, <4>2 DEF Unsent, Underway, From
    <3>2. CASE post[runs].at = "answered"
      <4>1. \/ imp'.at = "sending" /\ Before(imp'.pkg, imp'.i) = Before(imp.pkg, imp.i + BatchSize)
            \/ imp'.at = "done"
        BY <1>2, <2>1, <3>2, AnswerIsCounted DEF TakeAnswer
      <4> QED
        BY <2>1, <3>2, <4>1 DEF Unsent, Underway, From
    <3> QED
      BY <1>2, <3>1, <3>2 DEF TakeAnswer
  <2> QED
    BY <2>2, <2>3, <2>4 DEF Exchange, Of
<1>3. CASE WakeUp \/ Interrupt
  <2>1. UNCHANGED <<post, rows, runs>>
    BY <1>3 DEF WakeUp, Interrupt, server
  <2>2. Unsent' \subseteq Unsent
    BY <1>3, <2>1 DEF WakeUp, Interrupt, Unsent, Underway, Typed, ImpStates
  <2>3. Pending(u)' = Pending(u)
    BY <2>1 DEF Pending, Owes
  <2> QED
    BY <2>1, <2>2, <2>3 DEF Exchange, Of
<1>4. ASSUME NEW r \in 1..MaxRuns, Serve(r)
      PROVE  /\ Exchange(rows[u], Pending(u), Of({u}, Unsent), rows'[u], Pending(u)', Of({u}, Unsent'))
             /\ runs' = runs
  <2>0. UNCHANGED <<imp, runs>>
    BY <1>4 DEF Serve, CheckRate, ServeUrl, FindOpen, Answer
  <2>1. PICK p : p = post[r]
    OBVIOUS
  <2>2. p \in Posts
    BY <2>1 DEF Typed
  \* A step that does not refuse the request leaves the unsent places alone.
  <2>3. ASSUME NEW q, post' = [post EXCEPT ![r] = q], q.at # "refused", p.at # "refused"
        PROVE  Unsent' = Unsent
    BY <2>0, <2>1, <2>3, UnsentStays DEF Typed
  <2>4. CASE CheckRate(r)
    <3>1. PICK at \in {"serving", "refused"} : post' = [post EXCEPT ![r].at = at]
      BY <2>4 DEF CheckRate
    <3>2. PICK q : q = [p EXCEPT !.at = at]
      OBVIOUS
    <3>3. /\ post' = [post EXCEPT ![r] = q] /\ q.at = at /\ q.left = p.left
          /\ p.at = "received" /\ UNCHANGED rows
      BY <2>1, <2>2, <2>4, <3>1, <3>2 DEF CheckRate, Posts, server
    <3>4. CASE at = "serving"
      <4>1. Pending(u)' \subseteq Pending(u)
        <5>1. Owes(q, u) => Owes(p, u)
          BY <3>3, <3>4 DEF Owes
        <5> QED
          BY <2>1, <3>3, <5>1, PendingAfter
      <4>2. Unsent' = Unsent
        BY <2>3, <3>3, <3>4
      <4> QED
        BY <2>0, <3>3, <4>1, <4>2 DEF Exchange
    <3>5. CASE at = "refused"
      <4>1. ~Owes(q, u)
        BY <3>3, <3>5 DEF Owes
      <4>2. Pending(u)' \subseteq Pending(u) \ {r}
        BY <3>3, <4>1, PendingAfter
      <4>3. CASE imp.at = "awaiting" /\ r = runs
        <5>1. PICK chunk, U, W : /\ chunk = Chunk(imp.pkg, imp.i)
                                 /\ U = From(imp.pkg, imp.i)
                                 /\ W = From(imp.pkg, imp.i + BatchSize)
          OBVIOUS
        <5>2. AtTurn(imp.pkg, imp.i) /\ p.left = chunk
          BY <2>1, <3>3, <4>3, <5>1 DEF Typed, Underway, AnswerIsEarned, WorksAt
        <5>3. Unsent = W
          BY <2>1, <3>3, <4>3, <5>1 DEF Unsent, Underway
        <5>4. Unsent' = U
          <6>1. post'[runs].at = "refused"
            BY <3>3, <3>5, <4>3 DEF Typed
          <6> QED
            BY <2>0, <4>3, <5>1, <6>1 DEF Unsent, Underway
        <5>5. CASE Of({u}, W) = Of({u}, U)
          BY <2>0, <3>3, <4>2, <5>3, <5>4, <5>5 DEF Exchange
        <5>6. CASE Of({u}, W) # Of({u}, U)
          <6>0. PICK pkg, i : pkg = imp.pkg /\ i = imp.i
            OBVIOUS
          <6>1. /\ \E n \in 1..Len(Chunk(pkg, i)) : Chunk(pkg, i)[n] = u
                /\ \E place \in Of({u}, From(pkg, i)) :
                      Of({u}, From(pkg, i + BatchSize)) = Of({u}, From(pkg, i)) \ {place}
            <7>1. AtTurn(pkg, i) /\ Of({u}, From(pkg, i + BatchSize)) # Of({u}, From(pkg, i))
              BY <5>1, <5>2, <5>6, <6>0
            <7> QED
              BY <7>1, PlacesOfBatch
          <6>2. PICK place \in Of({u}, U) : Of({u}, W) = Of({u}, U) \ {place}
            BY <5>1, <6>0, <6>1
          <6>3. \E n \in 1..Len(chunk) : chunk[n] = u
            BY <5>1, <6>0, <6>1
          <6>4. r \in Pending(u)
            BY <2>1, <3>3, <5>2, <6>3 DEF Pending, Owes
          <6>5. Of({u}, U) \subseteq Of({u}, W) \cup {place}
            BY <6>2
          <6> QED
            BY <2>0, <3>3, <4>2, <5>3, <5>4, <6>4, <6>5 DEF Exchange
        <5> QED
          BY <5>5, <5>6
      <4>4. CASE ~(imp.at = "awaiting" /\ r = runs)
        <5>1. Unsent' = Unsent
          BY <2>0, <3>3, <4>4, UnsentStays DEF Typed, Underway
        <5> QED
          BY <2>0, <3>3, <4>2, <5>1 DEF Exchange
      <4> QED
        BY <4>3, <4>4
    <3> QED
      BY <3>4, <3>5
  <2>5. CASE Answer(r)
    <3>1. PICK q : q = [p EXCEPT !.at = "answered"]
      OBVIOUS
    <3>2. post' = [post EXCEPT ![r] = q] /\ q.at = "answered" /\ p.at = "serving" /\ UNCHANGED rows
      BY <2>1, <2>2, <2>5, <3>1 DEF Answer, Posts, server
    <3>3. Pending(u)' \subseteq Pending(u)
      <4>1. ~Owes(q, u)
        BY <3>2 DEF Owes
      <4> QED
        BY <3>2, <4>1, PendingAfter
    <3>4. Unsent' = Unsent
      BY <2>3, <3>2
    <3> QED
      BY <2>0, <3>2, <3>3, <3>4 DEF Exchange
  \* The next URL is taken, with or without a row.
  <2>6. ASSUME NEW q, post' = [post EXCEPT ![r] = q], q.at = "serving", q.left = Tail(p.left),
               p.left # <<>>, p.at \in {"serving", "finding"},
               \/ rows'[u] = rows[u]
               \/ rows'[u] = rows[u] + 1 /\ u = Head(p.left)
        PROVE  Exchange(rows[u], Pending(u), Of({u}, Unsent), rows'[u], Pending(u)', Of({u}, Unsent'))
    <3>1. PICK left, tail : left = p.left /\ tail = Tail(left)
      OBVIOUS
    <3>2. left \in Seq(Urls) /\ left # <<>>
      BY <2>2, <2>6, <3>1 DEF Posts
    <3>3. /\ Len(tail) = Len(left) - 1 /\ Len(left) \in Nat \ {0} /\ Head(left) = left[1]
          /\ \A n \in 1..Len(tail) : tail[n] = left[n + 1]
      BY <3>1, <3>2, HeadTailProperties, EmptySeq
    <3>4. Unsent' = Unsent
      BY <2>3, <2>6
    <3>5. Owes(q, u) => Owes(p, u)
      <4>1. ASSUME NEW n \in 1..Len(tail), tail[n] = u PROVE \E k \in 1..Len(left) : left[k] = u
        <5>1. n + 1 \in 1..Len(left)
          BY <3>3
        <5> QED
          BY <3>3, <4>1, <5>1
      <4> QED
        BY <2>6, <3>1, <4>1 DEF Owes
    <3>6. CASE rows'[u] = rows[u]
      <4>1. Pending(u)' \subseteq Pending(u)
        BY <2>1, <2>6, <3>5, PendingAfter
      <4> QED
        BY <3>4, <3>6, <4>1 DEF Exchange
    <3>7. CASE rows'[u] = rows[u] + 1 /\ u = Head(p.left)
      <4>1. 1 \in 1..Len(left) /\ left[1] = u
        BY <3>1, <3>3, <3>7
      <4>2. Owes(p, u)
        BY <2>6, <3>1, <4>1 DEF Owes
      <4>3. ~Owes(q, u)
        <5>1. ASSUME NEW n \in 1..Len(tail), tail[n] = u PROVE FALSE
          <6>1. n + 1 \in 1..Len(left) /\ left[n + 1] = left[1] /\ n + 1 # 1
            BY <3>3, <4>1, <5>1
          <6> QED
            BY <2>1, <3>1, <4>1, <6>1 DEF OnceInRequest
        <5> QED
          BY <2>6, <3>1, <5>1 DEF Owes
      <4>4. Pending(u)' \subseteq Pending(u) \ {r} /\ r \in Pending(u)
        BY <2>1, <2>6, <4>2, <4>3, PendingAfter
      <4> QED
        BY <3>4, <3>7, <4>4 DEF Exchange
    <3> QED
      BY <2>6, <3>6, <3>7
  <2>7. CASE FindOpen(r)
    <3>1. PICK q : q = [at |-> "serving", left |-> Tail(p.left), results |-> Append(p.results, TRUE)]
      OBVIOUS
    <3>2. /\ post' = [post EXCEPT ![r] = q] /\ UNCHANGED rows
          /\ p.at = "finding" /\ p.left # <<>>
      BY <2>1, <2>7, <3>1 DEF FindOpen, server, Typed
    <3> QED
      BY <2>0, <2>6, <3>1, <3>2
  <2>8. CASE ServeUrl(r)
    <3>1. PICK v : v = Head(p.left)
      OBVIOUS
    <3>2. p.at = "serving" /\ p.left # <<>> /\ v \in Urls
      BY <2>1, <2>2, <2>8, <3>1, HeadTailProperties DEF ServeUrl, Posts
    <3>3. CASE v \in Supported \cap open
      <4>1. PICK q : q = [p EXCEPT !.at = "finding"]
        OBVIOUS
      <4>2. /\ post' = [post EXCEPT ![r] = q] /\ q.at = "finding" /\ q.left = p.left /\ UNCHANGED rows
        BY <2>1, <2>2, <2>8, <3>1, <3>3, <4>1 DEF ServeUrl, server, Posts
      <4>3. Owes(q, u) => Owes(p, u)
        BY <3>2, <4>2 DEF Owes
      <4>4. Pending(u)' \subseteq Pending(u)
        BY <2>1, <4>2, <4>3, PendingAfter
      <4>5. Unsent' = Unsent
        BY <2>3, <3>2, <4>2
      <4> QED
        BY <2>0, <4>2, <4>4, <4>5 DEF Exchange
    <3>4. CASE v \notin Supported \cap open
      <4>1. PICK res : res = Append(p.results, v \in Supported)
        OBVIOUS
      <4>2. PICK q : q = [p EXCEPT !.left = Tail(@), !.results = res]
        OBVIOUS
      <4>3. /\ post' = [post EXCEPT ![r] = q]
            /\ rows' = [rows EXCEPT ![v] = IF v \in Supported THEN @ + 1 ELSE @]
        BY <2>1, <2>8, <3>1, <3>4, <4>1, <4>2 DEF ServeUrl
      <4>4. q.at = "serving" /\ q.left = Tail(p.left)
        BY <2>2, <3>2, <4>2 DEF Posts
      <4>5. rows'[u] = rows[u] \/ (rows'[u] = rows[u] + 1 /\ u = v)
        BY <3>2, <4>3 DEF Typed
      <4> QED
        BY <2>0, <2>6, <3>1, <3>2, <4>3, <4>4, <4>5
    <3> QED
      BY <3>3, <3>4
  <2> QED
    BY <1>4, <2>4, <2>5, <2>7, <2>8 DEF Serve
<1>5. CASE Pass \/ (\E v \in Urls : JobEnds(v)) \/ UNCHANGED vars
  <2>1. UNCHANGED <<imp, post, rows, runs>>
    BY <1>5 DEF Pass, JobEnds, vars, server
  <2>2. Unsent' = Unsent /\ Pending(u)' = Pending(u)
    BY <2>1 DEF Unsent, Underway, From, Before, Pending, Owes
  <2> QED
    BY <2>1, <2>2 DEF Exchange
<1> QED
  BY <1>1, <1>2, <1>3, <1>4, <1>5 DEF Next

LEMMA BudgetStep ==
    ASSUME ParserIsRight, now \in Nat, Typed, AnswerIsEarned, OnceInRequest, RowsAreBudgeted, [Next]_vars
    PROVE  RowsAreBudgeted'
<1> SUFFICES ASSUME NEW u \in Urls
             PROVE  Within(rows'[u], Pending(u)', Of({u}, Unsent'), runs', Of({u}, Places))
  BY DEF RowsAreBudgeted
<1>1. PICK n, A, B, k, P : /\ n = rows[u] /\ A = Pending(u) /\ B = Of({u}, Unsent)
                           /\ k = runs /\ P = Of({u}, Places)
  OBVIOUS
<1>2. PICK m, C, D : m = rows'[u] /\ C = Pending(u)' /\ D = Of({u}, Unsent')
  OBVIOUS
<1>3. /\ n \in Nat /\ k \in Nat /\ Within(n, A, B, k, P)
      /\ IsFiniteSet(A) /\ IsFiniteSet(P) /\ IsFiniteSet(B)
  <2>1. n \in Nat /\ k \in Nat /\ Within(n, A, B, k, P)
    BY <1>1, ImporterAssumption DEF Typed, RowsAreBudgeted
  <2>2. Unsent \subseteq Places
    BY DEF Unsent, From
  <2>3. IsFiniteSet(A)
    BY <1>1, PendingIsFinite
  <2>4. IsFiniteSet(B) /\ IsFiniteSet(P)
    BY <1>1, <2>2, OfIsFinite
  <2> QED
    BY <2>1, <2>3, <2>4
<1>4. CASE ~StartRun
  <2>1. Exchange(n, A, B, m, C, D) /\ runs' = k
    BY <1>1, <1>2, <1>4, StepExchanges
  <2>2. Within(m, C, D, k, P)
    BY <1>3, <2>1, ExchangeIsWithin
  <2> QED
    BY <1>1, <1>2, <2>1, <2>2
<1>5. CASE StartRun
  <2>1. m = n /\ runs' = k + 1 /\ B = {}
    BY <1>1, <1>2, <1>5 DEF StartRun, server, Unsent, Underway, Of
  <2>2. C = A
    BY <1>1, <1>2, <1>5 DEF StartRun, Pending, Owes
  <2>3. D \subseteq P
    BY <1>1, <1>2 DEF Unsent, From, Of
  <2>4. Cardinality(D) \in Nat /\ Cardinality(D) <= Cardinality(P) /\ Cardinality(P) \in Nat
    <3>1. IsFiniteSet(D) /\ Cardinality(D) <= Cardinality(P)
      BY <1>3, <2>3, FS_Subset
    <3> QED
      BY <1>3, <3>1, FS_CardinalityType
  <2>5. Cardinality(A) \in Nat /\ Cardinality(B) = 0
    BY <1>3, <2>1, FS_CardinalityType, FS_EmptySet
  <2>6. PICK c, d : c = Cardinality(P) /\ d = k * c
    OBVIOUS
  <2>7. d \in Nat /\ (k + 1) * c = d + c
    BY <1>3, <2>4, <2>6
  <2>8. n + Cardinality(A) <= d
    BY <1>3, <2>5, <2>6 DEF Within
  <2>9. n + Cardinality(A) + Cardinality(D) <= d + c
    BY <1>3, <2>4, <2>5, <2>6, <2>7, <2>8
  <2> QED
    BY <1>1, <1>2, <2>1, <2>2, <2>6, <2>7, <2>9 DEF Within
<1> QED
  BY <1>4, <1>5

\* However often batches are refused and sent again, and runs interrupted with their
\* requests still served, a URL gets at most one row per run and package that lists
\* it (api.py:54, jd_import.py:127).
THEOREM ResendsAreFree ==
    ASSUME ParserIsRight
    PROVE  Spec => []ResendMakesNoRow
<1>1. Spec => []LimiterInv
  BY ImporterObeysLimiter, LimiterKeepsInv, PTL
<1>2. LimiterInv => now \in Nat
  BY DEF LimiterInv, LimiterTypeOK
<1>3. Init => Typed /\ AnswerIsEarned /\ OnceInRequest /\ RowsAreBudgeted
  <2>1. Init => OnceInRequest
    BY DEF Init, NoPost, OnceInRequest
  <2> QED
    BY <2>1, TypedInit, TallyInit, BudgetInit
<1>4. now \in Nat /\ Typed /\ AnswerIsEarned /\ OnceInRequest /\ RowsAreBudgeted /\ [Next]_vars
          => Typed' /\ AnswerIsEarned' /\ OnceInRequest' /\ RowsAreBudgeted'
  BY TypedStep, EarnedStep, OnceStep, BudgetStep
<1>5. Typed /\ RowsAreBudgeted => ResendMakesNoRow
  <2> SUFFICES ASSUME Typed, RowsAreBudgeted, NEW u \in Urls
               PROVE  rows[u] <= runs * Cardinality({w \in Wanted : w[2] = u})
    BY DEF ResendMakesNoRow
  <2>1. {w \in Wanted : w[2] = u} = {w \in Wanted : w[2] \in {u}}
    OBVIOUS
  <2>2. PICK c : c = runs * Cardinality(Of({u}, Places))
    OBVIOUS
  <2>3. c = runs * Cardinality({w \in Wanted : w[2] = u})
    BY <2>1, <2>2, LinksOf
  <2>4. Cardinality(Pending(u)) \in Nat /\ Cardinality(Of({u}, Unsent)) \in Nat
    <3>1. Unsent \subseteq Places
      BY DEF Unsent, From
    <3> QED
      BY <3>1, PendingIsFinite, OfIsFinite
  <2>5. rows[u] \in Nat /\ c \in Nat
    <3>1. runs \in Nat /\ Cardinality(Of({u}, Places)) \in Nat
      BY OfIsFinite, ImporterAssumption DEF Typed
    <3> QED
      BY <2>2, <3>1 DEF Typed
  <2>6. rows[u] + Cardinality(Pending(u)) + Cardinality(Of({u}, Unsent)) <= c
    BY <2>2 DEF RowsAreBudgeted, Within
  <2>7. rows[u] <= c
    BY <2>4, <2>5, <2>6
  <2> QED
    BY <2>3, <2>7
<1> QED
  BY <1>1, <1>2, <1>3, <1>4, <1>5, PTL DEF Spec
=============================================================================
