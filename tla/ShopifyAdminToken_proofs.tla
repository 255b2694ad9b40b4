---------------------- MODULE ShopifyAdminToken_proofs ----------------------
(***************************************************************************)
(* Proofs about ShopifyAdminToken: types, which tokens the cache may hand   *)
(* out though Shopify refuses them, and how long tokens of replaced credentials may  *)
(* be in use, for any number of workers, lifetimes and limits.             *)
(***************************************************************************)
EXTENDS ShopifyAdminToken, TLAPS

\* Types are kept by every step: no counter leaves its range, and versions
\* never run ahead of the changes made.
LEMMA TypeStep == TypeOK /\ [Next]_vars => TypeOK'
<1> SUFFICES ASSUME TypeOK, [Next]_vars PROVE TypeOK'
  OBVIOUS
<1> USE TokenConstants DEF TypeOK, Process, Steps, StaleLimit
<1>1. CASE Onboard
  BY <1>1 DEF Onboard, NewOAuth, Invalidate, sync
<1>2. CASE PatchDomain
  BY <1>2 DEF PatchDomain, NewOAuth, cache, sync
<1>3. ASSUME NEW p \in Worker, SyncStep(p) PROVE TypeOK'
  <2>1. CASE Load(p)
    BY <2>1 DEF Load, Goto, row, cache
  <2>2. CASE Skip(p)
    BY <2>2 DEF Skip, Proceed, Goto, row, cache
  <2>3. CASE UseStatic(p)
    BY <2>3 DEF UseStatic, Goto, row, cache
  <2>4. CASE Hit(p)
    BY <2>4 DEF Hit, Goto, row, cache
  <2>5. CASE Miss(p)
    BY <2>5 DEF Miss, Goto, row, cache
  <2>6. CASE Fetched(p)
    <3>1. PICK g \in Grants :
            /\ cacheLeft' = [cacheLeft EXCEPT ![p] =
                               IF TTL(g) >= waited[p] THEN TTL(g) - waited[p] ELSE 0]
            /\ cacheLife' = [cacheLife EXCEPT ![p] = g.life]
            /\ cacheGrant' = [cacheGrant EXCEPT ![p] = g]
      BY <2>6 DEF Fetched
    <3>2. TTL(g) \in Nat /\ TTL(g) <= LongestTTL /\ g.life \in Nat
      OBVIOUS
    <3>3. waited[p] \in Nat /\ seen[p][2] \in 0 .. changes
      OBVIOUS
    <3> QED
      BY <2>6, <3>1, <3>2, <3>3 DEF Fetched, Goto, row
  <2>7. CASE Used(p)
    BY <2>7 DEF Used, Proceed, Goto, row, cache
  <2>8. CASE Raises(p)
    BY <2>8 DEF Raises, Goto, row, cache
  <2>9. CASE ChildLost(p)
    BY <2>9 DEF ChildLost, Invalidate, Goto, row
  <2> QED
    BY <1>3, <2>1, <2>2, <2>3, <2>4, <2>5, <2>6, <2>7, <2>8, <2>9 DEF SyncStep
<1>4. CASE Tick
  <2>1. /\ sinceChange' \in 0 .. StaleLimit
        /\ cacheLeft' \in [Process -> 0 .. LongestTTL]
        /\ cacheLife' \in [Process -> Nat]
    BY <1>4 DEF Tick, Less
  <2>2. age' \in [Worker -> 0 .. RunLimit]
    BY <1>4 DEF Tick
  <2>3. waited' \in [Worker -> 0 .. FetchLimit]
    BY <1>4 DEF Tick
  <2> QED
    BY <1>4, <2>1, <2>2, <2>3 DEF Tick
<1>5. CASE UNCHANGED vars
  BY <1>5 DEF vars, row, cache, sync
<1> QED
  BY <1>1, <1>2, <1>3, <1>4, <1>5 DEF Next

\* TypeOK holds in every behaviour.
THEOREM TypeCorrect == Spec => []TypeOK
<1>1. Init => TypeOK
  BY TokenConstants DEF Init, TypeOK, Process, Steps, StaleLimit
<1> QED
  BY <1>1, TypeStep, PTL DEF Spec

\* 85 percent of a lifetime, rounded down, is no more than it.
LEMMA CutIsLess == \A n \in Nat : (n * 85) \div 100 \in Nat /\ (n * 85) \div 100 <= n
  OBVIOUS

\* Only a short-lived token has a TTL that exceeds its lifetime.
LEMMA OverrunIsShort ==
  ASSUME NEW g \in Grants, TTL(g) > g.life
  PROVE  ShortLived(g)
<1>1. g.life \in Nat /\ g.announced \in BOOLEAN /\ Floor \in Nat /\ DefaultTTL \in Nat
  BY TokenConstants
<1>2. CASE g.announced
  <2> DEFINE cut == (g.life * 85) \div 100
  <2>1. cut \in Nat /\ cut <= g.life
    BY <1>1, CutIsLess
  <2>2. TTL(g) = IF Floor >= cut THEN Floor ELSE cut
    BY <1>2 DEF TTL
  <2> QED
    BY <1>1, <1>2, <2>1, <2>2 DEF ShortLived
<1>3. CASE ~g.announced
  BY <1>1, <1>3 DEF TTL, ShortLived
<1> QED
  BY <1>2, <1>3

\* For every lifetime Shopify may grant: a cached token is dropped no later than
\* Shopify drops it, unless it was granted for less than the cache's least TTL.
THEOREM CacheAlive == Spec => []DeadHitsAreShortLived
<1>1. Init => DeadHitsAreShortLived
  <2>1. Init => \A p \in Process : cacheLeft[p] = 0 /\ cacheLife[p] = 0
    BY DEF Init
  <2> QED
    BY <2>1 DEF DeadHitsAreShortLived
<1>2. TypeOK /\ DeadHitsAreShortLived /\ [Next]_vars => DeadHitsAreShortLived'
  <2> SUFFICES ASSUME TypeOK, DeadHitsAreShortLived, [Next]_vars PROVE DeadHitsAreShortLived'
    OBVIOUS
  <2> USE TokenConstants DEF TypeOK, DeadHitsAreShortLived, Process
  <2>0. ASSUME NEW p \in Process, Invalidate(p) PROVE DeadHitsAreShortLived'
    BY <2>0 DEF Invalidate
  <2>1. CASE Onboard
    BY <2>0, <2>1 DEF Onboard
  <2>2. ASSUME NEW p \in Worker, Fetched(p) PROVE DeadHitsAreShortLived'
    <3>1. PICK g \in Grants :
            /\ cacheLeft' = [cacheLeft EXCEPT ![p] =
                               IF TTL(g) >= waited[p] THEN TTL(g) - waited[p] ELSE 0]
            /\ cacheLife' = [cacheLife EXCEPT ![p] = g.life]
            /\ cacheGrant' = [cacheGrant EXCEPT ![p] = g]
      BY <2>2 DEF Fetched
    <3>2. TTL(g) \in Nat /\ g.life \in Nat /\ waited[p] \in Nat
      OBVIOUS
    <3>3. /\ cacheLife'[p] = g.life /\ cacheGrant'[p] = g
          /\ cacheLeft'[p] = IF TTL(g) >= waited[p] THEN TTL(g) - waited[p] ELSE 0
      BY <3>1
    <3>4. cacheLeft'[p] > cacheLife'[p] =>
            ShortLived(g) /\ cacheLeft'[p] - cacheLife'[p] <= TTL(g) - g.life
      BY <3>2, <3>3, OverrunIsShort
    <3>5. \A q \in Process \ {p} :
            cacheLeft'[q] = cacheLeft[q] /\ cacheLife'[q] = cacheLife[q] /\ cacheGrant'[q] = cacheGrant[q]
      BY <3>1
    <3>6. ASSUME NEW q \in Process, cacheLeft'[q] > cacheLife'[q]
          PROVE  /\ ShortLived(cacheGrant'[q])
                 /\ cacheLeft'[q] - cacheLife'[q] <= TTL(cacheGrant'[q]) - cacheGrant'[q].life
      BY <3>3, <3>4, <3>5, <3>6
    <3> QED
      BY <3>6 DEF ShortLived
  <2>3. ASSUME NEW p \in Worker, ChildLost(p) PROVE DeadHitsAreShortLived'
    BY <2>0, <2>3 DEF ChildLost
  <2>4. CASE Tick
    <3>1. ASSUME NEW p \in Process, cacheLeft'[p] > cacheLife'[p]
          PROVE  cacheLeft[p] > cacheLife[p] /\ cacheLeft'[p] - cacheLife'[p] <= cacheLeft[p] - cacheLife[p]
      BY <2>4, <3>1 DEF Tick, Less
    <3>2. ASSUME NEW p \in Process, cacheLeft'[p] > cacheLife'[p]
          PROVE  /\ ShortLived(cacheGrant[p])
                 /\ cacheLeft'[p] - cacheLife'[p] <= TTL(cacheGrant[p]) - cacheGrant[p].life
      <4>1. TTL(cacheGrant[p]) \in Int /\ cacheGrant[p].life \in Int
        BY DEF NoGrant, TTL
      <4>2. /\ cacheLeft'[p] \in Nat /\ cacheLife'[p] \in Nat
        BY <2>4 DEF Tick, Less
      <4> QED
        BY <3>1, <3>2, <4>1, <4>2
    <3> QED
      BY <2>4, <3>2 DEF Tick, ShortLived
  <2>5. CASE UNCHANGED cache
    BY <2>5 DEF cache, ShortLived
  <2> QED
    BY <2>1, <2>2, <2>3, <2>4, <2>5
    DEF Next, SyncStep, PatchDomain, Load, Skip, UseStatic, Hit, Miss, Used, Raises, vars
<1> QED
  BY <1>1, <1>2, TypeCorrect, PTL DEF Spec

\* The ages of what syncs have loaded, of what is cached and of what is in use.
Ages == SnapshotAge /\ CacheAge /\ TokenAge

\* A change of the credentials restarts the clock, so what it makes stale is
\* stale for no time yet; every other step keeps or passes on an age.
LEMMA AgesStep == TypeOK /\ TypeOK' /\ Ages /\ [Next]_vars => Ages'
<1> SUFFICES ASSUME TypeOK, TypeOK', Ages, [Next]_vars PROVE Ages'
  OBVIOUS
<1> USE TokenConstants DEF TypeOK, Process
<1>0. ASSUME sinceChange' = 0, UNCHANGED sync,
             \A p \in Process : cacheLeft'[p] = cacheLeft[p] \/ cacheLeft'[p] = 0
      PROVE Ages'
  BY <1>0 DEF Ages, SnapshotAge, CacheAge, TokenAge, sync
<1>1. CASE Onboard
  <2>1. CASE NewOAuth
    BY <1>0, <1>1, <2>1 DEF Onboard, NewOAuth, Invalidate
  <2>2. CASE UNCHANGED <<oauth, sinceChange>>
    BY <1>1, <2>2 DEF Onboard, Invalidate, Ages, SnapshotAge, CacheAge, TokenAge, sync
  <2> QED
    BY <1>1, <2>1, <2>2 DEF Onboard
<1>2. CASE PatchDomain
  BY <1>0, <1>2 DEF PatchDomain, NewOAuth, cache, sync
<1>3. ASSUME NEW p \in Worker, SyncStep(p) PROVE Ages'
  <2> USE DEF Ages, SnapshotAge, CacheAge, TokenAge
  <2>1. CASE Load(p)
    BY <2>1 DEF Load, Goto, row, cache
  <2>2. CASE Skip(p)
    BY <2>2 DEF Skip, Proceed, Goto, row, cache
  <2>3. CASE UseStatic(p)
    BY <2>3 DEF UseStatic, Goto, row, cache
  <2>4. CASE Hit(p)
    BY <2>4 DEF Hit, Goto, row, cache
  <2>5. CASE Miss(p)
    BY <2>5 DEF Miss, Goto, row, cache
  <2>6. CASE Fetched(p)
    <3>1. PICK g \in Grants :
            cacheLeft' = [cacheLeft EXCEPT ![p] =
                            IF TTL(g) >= waited[p] THEN TTL(g) - waited[p] ELSE 0]
      BY <2>6 DEF Fetched
    <3>2. TTL(g) \in Nat /\ TTL(g) <= LongestTTL /\ waited[p] \in Nat
      OBVIOUS
    <3>3. cacheLeft'[p] <= LongestTTL
      OBVIOUS
    <3>4. /\ cacheVer' = [cacheVer EXCEPT ![p] = seen[p][2]]
          /\ token' = [token EXCEPT ![p] = seen[p][2]]
          /\ step' = [step EXCEPT ![p] = "use"] /\ step[p] = "fetch"
          /\ UNCHANGED <<row, phase, seen, age, waited>>
      BY <2>6 DEF Fetched, Goto
    <3>5. seen[p][2] # oauth => sinceChange <= age[p]
      BY <3>4
    <3>6. SnapshotAge'
      BY <3>4 DEF row
    <3>7. CacheAge'
      BY <3>1, <3>3, <3>4, <3>5 DEF row
    <3>8. TokenAge'
      BY <3>4, <3>5 DEF row
    <3> QED
      BY <3>6, <3>7, <3>8
  <2>7. CASE Used(p)
    BY <2>7 DEF Used, Proceed, Goto, row, cache
  <2>8. CASE Raises(p)
    BY <2>8 DEF Raises, Goto, row, cache
  <2>9. CASE ChildLost(p)
    BY <2>9 DEF ChildLost, Invalidate, Goto, row
  <2> QED
    BY <1>3, <2>1, <2>2, <2>3, <2>4, <2>5, <2>6, <2>7, <2>8, <2>9 DEF SyncStep
<1>4. CASE Tick
  BY <1>4 DEF Tick, Less, Ages, SnapshotAge, CacheAge, TokenAge
<1>5. CASE UNCHANGED vars
  BY <1>5 DEF vars, row, cache, sync, Ages, SnapshotAge, CacheAge, TokenAge
<1> QED
  BY <1>1, <1>2, <1>3, <1>4, <1>5 DEF Next

\* A full TTL and two runs after the last change of the OAuth credentials no
\* sync uses a token of older ones.
THEOREM StaleTokensEnd == Spec => []StaleTokenGone
<1>1. Init => Ages
  BY DEF Init, Ages, SnapshotAge, CacheAge, TokenAge, Process
<1>2. TypeOK /\ Ages => StaleTokenGone
  BY TokenConstants DEF TypeOK, Ages, TokenAge, StaleTokenGone, StaleLimit
<1> QED
  BY <1>1, <1>2, AgesStep, TypeCorrect, PTL DEF Spec
=============================================================================
