------------------------- MODULE ShopifyAdminToken -------------------------
(***************************************************************************)
(* The Admin token a product sync presents to Shopify, for one store.  A   *)
(* sync loads the store row, then asks for a token three times (content,   *)
(* orders, analytics): the static token of the row if there is one, else   *)
(* an OAuth token of the process's own cache, fetched when it is missing   *)
(* or has run out.  Onboarding drops the cached token after it has changed *)
(* the credentials; it does so in the API process, which never fetches a   *)
(* token, and each worker child has a cache of its own.  A child runs one  *)
(* task at a time on one event loop, so the cache's lock is uncontended.   *)
(*                                                                         *)
(* The versions stand for what a token is issued for: shop domain, client  *)
(* id and secret.                                                          *)
(***************************************************************************)
EXTENDS Integers

CONSTANTS
  Worker,       \* prefork children
  Server,       \* the API process
  Floor,        \* least TTL of an announced lifetime (120)
  DefaultTTL,   \* _DEFAULT_TTL_SEC, when no lifetime is announced
  Grants,       \* what Shopify may answer: lifetimes, announced or not
  LongestTTL,   \* the largest TTL these lead to
  RunLimit,     \* seconds a sync may last: task_time_limit
  FetchLimit,   \* seconds a fetch may last: the HTTP timeout
  MaxChanges    \* BOUND: changes of the credentials

Process == Worker \cup {Server}

\* ttl = max(120, int(expires_in * 0.85)), or the default.
TTL(g) ==
  IF ~g.announced THEN DefaultTTL
  ELSE LET cut == (g.life * 85) \div 100 IN IF Floor >= cut THEN Floor ELSE cut

ASSUME TokenConstants ==
  /\ Server \notin Worker
  /\ {Floor, DefaultTTL, LongestTTL, FetchLimit, MaxChanges} \subseteq Nat
  /\ RunLimit \in Nat \ {0}
  /\ Grants \subseteq [announced : BOOLEAN, life : Nat]
  /\ \A g \in Grants : TTL(g) \in Nat /\ TTL(g) <= LongestTTL

VARIABLES
  static,    \* committed: version of the static token, 0 = none
  oauth,     \* committed: version of the OAuth credentials, 0 = none
  changes,   \* history: changes so far, the newest version
  sinceChange, \* seconds since the OAuth credentials changed, up to StaleLimit
  cacheVer,  \* of a process: version its cached token was issued for
  cacheLeft, \* seconds until the cached token is not used any more, 0 = none
  cacheLife, \* seconds until Shopify refuses the cached token
  cacheGrant,\* history: what Shopify answered when it was fetched
  step,      \* of a worker's sync: idle, resolve, fetch, use
  phase,     \* 1 content, 2 orders, 3 analytics
  seen,      \* the credentials the sync loaded: <<static, oauth>>
  age,       \* seconds since the sync loaded them
  waited,    \* seconds since the fetch noted the time
  token      \* version of the OAuth token in use, 0 = the static one

row == <<static, oauth, changes, sinceChange>>
cache == <<cacheVer, cacheLeft, cacheLife, cacheGrant>>
sync == <<step, phase, seen, age, waited, token>>
vars == <<row, cache, sync>>

Steps == {"idle", "resolve", "fetch", "use"}

\* From then on nobody may hold a token of replaced credentials.
StaleLimit == 2 * RunLimit + LongestTTL

NoGrant == [announced |-> FALSE, life |-> 0]

Goto(p, s) == step' = [step EXCEPT ![p] = s]

Less(n) == IF n = 0 THEN 0 ELSE n - 1

(***************************************************************************)
(* Faulty variants                                                         *)
(***************************************************************************)
\* a hit starts the cached token's time again
HitExtends(p) ==
  /\ step[p] = "resolve" /\ seen[p][1] = 0 /\ seen[p][2] # 0
  /\ cacheLeft[p] > 0
  /\ token' = [token EXCEPT ![p] = cacheVer[p]]
  /\ cacheLeft' = [cacheLeft EXCEPT ![p] = LongestTTL]
  /\ Goto(p, "use")
  /\ UNCHANGED <<row, cacheVer, cacheLife, cacheGrant, phase, seen, age, waited>>

\* no time limit for the task
TickOn ==
  /\ \A p \in Worker : step[p] = "fetch" => waited[p] < FetchLimit
  /\ sinceChange' = IF sinceChange < StaleLimit THEN sinceChange + 1 ELSE sinceChange
  /\ cacheLeft' = [p \in Process |-> Less(cacheLeft[p])]
  /\ cacheLife' = [p \in Process |-> Less(cacheLife[p])]
  /\ age' = [p \in Worker |-> IF step[p] # "idle" THEN age[p] + 1 ELSE age[p]]
  /\ waited' = [p \in Worker |-> IF step[p] = "fetch" THEN waited[p] + 1 ELSE waited[p]]
  /\ UNCHANGED <<static, oauth, changes, cacheVer, cacheGrant, step, phase, seen, token>>

Init ==
  /\ static = 0 /\ oauth = 0 /\ changes = 0 /\ sinceChange = 0
  /\ cacheVer = [p \in Process |-> 0]
  /\ cacheLeft = [p \in Process |-> 0]
  /\ cacheLife = [p \in Process |-> 0]
  /\ cacheGrant = [p \in Process |-> NoGrant]
  /\ step = [p \in Worker |-> "idle"]
  /\ phase = [p \in Worker |-> 1]
  /\ seen = [p \in Worker |-> <<0, 0>>]
  /\ age = [p \in Worker |-> 0]
  /\ waited = [p \in Worker |-> 0]
  /\ token = [p \in Worker |-> 0]

(***************************************************************************)
(* Credential changes, in the API process                                  *)
(***************************************************************************)
NewOAuth ==
  /\ oauth' = changes + 1
  /\ sinceChange' = 0

\* invalidate_shopify_oauth_cache, in the calling process
Invalidate(p) ==
  /\ cacheVer' = [cacheVer EXCEPT ![p] = 0]
  /\ cacheLeft' = [cacheLeft EXCEPT ![p] = 0]
  /\ cacheLife' = [cacheLife EXCEPT ![p] = 0]
  /\ cacheGrant' = [cacheGrant EXCEPT ![p] = NoGrant]

\* POST /stores/onboard: what the request leaves empty keeps its old value.
Onboard ==
  /\ changes < MaxChanges
  /\ changes' = changes + 1
  /\ static' \in {static, changes + 1}
  /\ NewOAuth \/ UNCHANGED <<oauth, sinceChange>>
  /\ Invalidate(Server)
  /\ UNCHANGED sync

\* PATCH /stores with another domain: a token is issued by a shop, and nothing
\* is invalidated.
PatchDomain ==
  /\ changes < MaxChanges
  /\ oauth # 0
  /\ changes' = changes + 1
  /\ NewOAuth
  /\ UNCHANGED <<static, cache, sync>>

(***************************************************************************)
(* sync_store_products, in a worker child                                  *)
(***************************************************************************)
Load(p) ==
  /\ step[p] = "idle"
  /\ Goto(p, "resolve")
  /\ phase' = [phase EXCEPT ![p] = 1]
  /\ seen' = [seen EXCEPT ![p] = <<static, oauth>>]
  /\ age' = [age EXCEPT ![p] = 0]
  /\ UNCHANGED <<row, cache, waited, token>>

\* On to the next part, or the end of the sync.
Proceed(p) ==
  /\ Goto(p, IF phase[p] = 3 THEN "idle" ELSE "resolve")
  /\ phase' = [phase EXCEPT ![p] = IF @ = 3 THEN 1 ELSE @ + 1]

\* "Skipping ...: no admin token available"
Skip(p) ==
  /\ step[p] = "resolve" /\ seen[p] = <<0, 0>>
  /\ Proceed(p)
  /\ UNCHANGED <<row, cache, seen, age, waited, token>>

UseStatic(p) ==
  /\ step[p] = "resolve" /\ seen[p][1] # 0
  /\ token' = [token EXCEPT ![p] = 0]
  /\ Goto(p, "use")
  /\ UNCHANGED <<row, cache, phase, seen, age, waited>>

\* The cache is asked by store, whatever credentials the sync has loaded.
Hit(p) ==
  /\ step[p] = "resolve" /\ seen[p][1] = 0 /\ seen[p][2] # 0
  /\ cacheLeft[p] > 0
  /\ token' = [token EXCEPT ![p] = cacheVer[p]]
  /\ Goto(p, "use")
  /\ UNCHANGED <<row, cache, phase, seen, age, waited>>

\* No usable entry: note the time, then ask Shopify.
Miss(p) ==
  /\ step[p] = "resolve" /\ seen[p][1] = 0 /\ seen[p][2] # 0
  /\ cacheLeft[p] = 0
  /\ waited' = [waited EXCEPT ![p] = 0]
  /\ Goto(p, "fetch")
  /\ UNCHANGED <<row, cache, phase, seen, age, token>>

\* The token is stored until ttl seconds after the time noted before the fetch.
Fetched(p) ==
  /\ step[p] = "fetch"
  /\ \E g \in Grants :
       /\ cacheLeft' = [cacheLeft EXCEPT ![p] =
                          IF TTL(g) >= waited[p] THEN TTL(g) - waited[p] ELSE 0]
       /\ cacheLife' = [cacheLife EXCEPT ![p] = g.life]
       /\ cacheGrant' = [cacheGrant EXCEPT ![p] = g]
  /\ cacheVer' = [cacheVer EXCEPT ![p] = seen[p][2]]
  /\ token' = [token EXCEPT ![p] = seen[p][2]]
  /\ Goto(p, "use")
  /\ UNCHANGED <<row, phase, seen, age, waited>>

Used(p) ==
  /\ step[p] = "use"
  /\ Proceed(p)
  /\ UNCHANGED <<row, cache, seen, age, waited, token>>

\* A fetch or a call to Shopify raises, or a time limit ends the task.
Raises(p) ==
  /\ step[p] # "idle"
  /\ Goto(p, "idle")
  /\ UNCHANGED <<row, cache, phase, seen, age, waited, token>>

\* The child dies; another takes its place with an empty cache.
ChildLost(p) ==
  /\ Invalidate(p)
  /\ Goto(p, "idle")
  /\ UNCHANGED <<row, phase, seen, age, waited, token>>

\* A second passes; a sync does not outlive its time limit.
Tick ==
  /\ \A p \in Worker : step[p] # "idle" => age[p] < RunLimit
  /\ \A p \in Worker : step[p] = "fetch" => waited[p] < FetchLimit
  /\ sinceChange' = IF sinceChange < StaleLimit THEN sinceChange + 1 ELSE sinceChange
  /\ cacheLeft' = [p \in Process |-> Less(cacheLeft[p])]
  /\ cacheLife' = [p \in Process |-> Less(cacheLife[p])]
  /\ age' = [p \in Worker |-> IF step[p] # "idle" THEN age[p] + 1 ELSE age[p]]
  /\ waited' = [p \in Worker |-> IF step[p] = "fetch" THEN waited[p] + 1 ELSE waited[p]]
  /\ UNCHANGED <<static, oauth, changes, cacheVer, cacheGrant, step, phase, seen, token>>

SyncStep(p) ==
  \/ Load(p) \/ Skip(p) \/ UseStatic(p) \/ Hit(p) \/ Miss(p) \/ Fetched(p)
  \/ Used(p) \/ Raises(p) \/ ChildLost(p)

Next == Onboard \/ PatchDomain \/ (\E p \in Worker : SyncStep(p)) \/ Tick

Spec == Init /\ [][Next]_vars

(***************************************************************************)
(* Properties                                                              *)
(***************************************************************************)
TypeOK ==
  /\ static \in 0 .. changes /\ oauth \in 0 .. changes /\ changes \in 0 .. MaxChanges
  /\ sinceChange \in 0 .. StaleLimit
  /\ cacheVer \in [Process -> 0 .. changes]
  /\ cacheLeft \in [Process -> 0 .. LongestTTL]
  /\ cacheLife \in [Process -> Nat]
  /\ cacheGrant \in [Process -> Grants \cup {NoGrant}]
  /\ step \in [Worker -> Steps]
  /\ phase \in [Worker -> 1 .. 3]
  /\ seen \in [Worker -> (0 .. changes) \X (0 .. changes)]
  /\ age \in [Worker -> 0 .. RunLimit]
  /\ waited \in [Worker -> 0 .. FetchLimit]
  /\ token \in [Worker -> 0 .. changes]

\* Whatever lifetimes Shopify grants, a token the cache would hand out though
\* Shopify refuses it was granted for less than the floor, or for less than the
\* default without saying so: 85 percent, counted from before the fetch, overrun
\* no other. Such a token is dropped as late as the rule says, and no later.
ShortLived(g) == g.life < IF g.announced THEN Floor ELSE DefaultTTL
DeadHitsAreShortLived ==
  \A p \in Process :
    cacheLeft[p] > cacheLife[p] =>
      /\ ShortLived(cacheGrant[p])
      /\ cacheLeft[p] - cacheLife[p] <= TTL(cacheGrant[p]) - cacheGrant[p].life

\* The worst that caching per process does: a full TTL and two sync runs after
\* the OAuth credentials were changed no sync uses a token of older ones, so
\* the old secret can be revoked then without failing a sync.
StaleTokenGone ==
  \A p \in Worker :
    step[p] = "use" /\ token[p] \notin {0, oauth} => sinceChange < StaleLimit

\* Why stale tokens end: what a sync loaded is as old as the sync, a cached
\* token was fetched by such a sync, and a token in use is one or the other.
SnapshotAge ==
  \A p \in Worker :
    step[p] # "idle" /\ seen[p][2] # oauth => sinceChange <= age[p]

CacheAge ==
  \A p \in Process :
    cacheLeft[p] > 0 /\ cacheVer[p] # oauth =>
      sinceChange + cacheLeft[p] <= RunLimit + LongestTTL

TokenAge ==
  \A p \in Worker :
    step[p] = "use" /\ token[p] \notin {0, oauth} =>
      sinceChange < RunLimit + LongestTTL + age[p]
=============================================================================
