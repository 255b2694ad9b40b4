--------------------------- MODULE StoreRegistry ---------------------------
(***************************************************************************)
(* The store rows of the platform and the requests that write them: POST   *)
(* /stores, onboarding of a Shopify shop or a custom feed, PATCH and       *)
(* DELETE of a store. A request is a transaction at READ COMMITTED; its    *)
(* session loads the row once, computes from that object, and writes back  *)
(* the columns it changed.                                                 *)
(***************************************************************************)
EXTENDS Naturals, FiniteSets

CONSTANTS
  Store,   \* BOUND: store ids
  Domain,  \* domains, lower case as the requests normalise them
  Txn,     \* requests that may run at the same time
  None,    \* no row, no domain, no secret
  MaxSerial, \* BOUND: requests
  MaxSlug    \* BOUND: suffix of a slug

VARIABLES
  row,       \* committed rows
  pend,      \* pend[t][s]: row s as t wrote it, which locks it
  req,       \* the request t serves
  serial,    \* requests so far; the number stands for the secrets they carry
  newest,    \* history: the secrets last given to a store, by commit
  stale,     \* history: stores whose credentials a request wrote that had read
             \* them before another one's commit
  contested  \* history: platform and domain pairs that were given without a
             \* lookup, or onboarded by two requests at once

history == <<newest, stale, contested>>
vars == <<row, pend, req, serial, history>>

Platform == {"shopify", "custom"}
Kind == {"token", "hook", "app"}
Secrets == [Kind -> (1 .. MaxSerial) \cup {None}]
NoSecrets == [k \in Kind |-> None]
Blocks == [Platform -> Domain \cup {None}]
Slug == Domain \X (0 .. MaxSlug)

\* at[p]: credentials.p.domain; secrets: those of credentials.shopify.
Row == [platform : Platform, at : Blocks, secrets : Secrets, active : BOOLEAN, slug : Slug]

ASSUME RegistryConstants ==
  /\ None \notin Row \cup Store \cup Domain \cup Slug \cup (1 .. MaxSerial)
  /\ MaxSerial \in Nat /\ MaxSlug \in Nat

Column == {"credentials", "active"}
Step == {"idle", "lookup", "slug", "insert", "update", "commit"}
Request ==
  [step : Step, kind : {"create", "onboard", "patch", "deactivate"}, platform : Platform,
   domain : Domain \cup {None}, given : SUBSET Kind, feed : BOOLEAN, serial : 0 .. MaxSerial,
   id : Store \cup {None}, seen : Row \cup {None}, slug : Slug \cup {None},
   sets : SUBSET Column, active : BOOLEAN]
NoRequest ==
  [step |-> "idle", kind |-> "patch", platform |-> "custom", domain |-> None, given |-> {},
   feed |-> FALSE, serial |-> 0, id |-> None, seen |-> None, slug |-> None, sets |-> {}, active |-> TRUE]

Stores == {s \in Store : row[s] # None}
Unlocked(t, s) == \A u \in Txn \ {t} : pend[u][s] = None
Fresh(s) == row[s] = None /\ \A t \in Txn : pend[t][s] = None
Goto(t, step) == req' = [req EXCEPT ![t].step = step]

\* StoreOnboardRequest: without a webhook secret, OAuth credentials alone lend
\* theirs; a token or OAuth credentials need one.
Stored(given) ==
  IF "app" \in given /\ given \cap {"token", "hook"} = {} THEN given \cup {"hook"} ELSE given
Accepted(given) == given \cap {"token", "app"} # {} => "hook" \in Stored(given)

\* Faulty variant: a reconnect replaces the block
MergedReplaces(old, given, n) == [k \in Kind |-> IF k \in given THEN n ELSE None]

\* _build_shopify_credentials_block: what is not given stays as it was.
Merged(old, given, n) == [k \in Kind |-> IF k \in given THEN n ELSE old[k]]

Init ==
  /\ row = [s \in Store |-> None]
  /\ pend = [t \in Txn |-> [s \in Store |-> None]]
  /\ req = [t \in Txn |-> NoRequest]
  /\ serial = 0
  /\ newest = [s \in Store |-> NoSecrets]
  /\ stale = {} /\ contested = {}

(***************************************************************************)
(* Requests begin                                                          *)
(***************************************************************************)
Begin(t, r) ==
  /\ req[t].step = "idle" /\ serial < MaxSerial
  /\ serial' = serial + 1
  /\ req' = [req EXCEPT ![t] = [r EXCEPT !.serial = serial']]
  /\ UNCHANGED <<row, pend, newest, stale>>

Given(p, d) == IF d = None THEN contested ELSE contested \cup {<<p, d>>}

\* POST /stores, with a domain or without: no lookup.
BeginCreate(t, p, d) ==
  /\ Begin(t, [NoRequest EXCEPT !.step = "slug", !.kind = "create", !.platform = p, !.domain = d])
  /\ contested' = Given(p, d)

\* POST /stores/onboard; a custom feed has no secrets, but may come with another
\* products_url, items_path or field_map than its store has.
BeginOnboard(t, p, d, given, feed) ==
  /\ Accepted(given) /\ (p = "custom" => given = {}) /\ (feed => p = "custom")
  /\ Begin(t, [NoRequest EXCEPT !.step = "lookup", !.kind = "onboard", !.platform = p,
                                !.domain = d, !.given = Stored(given), !.feed = feed])
  /\ contested' = IF \E u \in Txn : req[u].kind = "onboard" /\ req[u].step # "idle"
                                    /\ req[u].platform = p /\ req[u].domain = d
                  THEN contested \cup {<<p, d>>} ELSE contested

\* PATCH /stores/me, whose key finds active stores only, with a domain or an
\* is_active or both; get_store returns the object the authentication loaded.
BeginPatch(t, s, d, sets, act) ==
  /\ s \in Stores /\ row[s].active /\ sets # {}
  /\ (d # None <=> "credentials" \in sets) /\ ("active" \notin sets => act)
  /\ Begin(t, [NoRequest EXCEPT !.step = "update", !.platform = row[s].platform, !.domain = d,
                                !.id = s, !.seen = row[s], !.sets = sets, !.active = act])
  /\ contested' = Given(row[s].platform, d)

\* DELETE /stores/me, and the platform's, which reaches inactive stores too.
BeginDeactivate(t, s) ==
  /\ s \in Stores
  /\ Begin(t, [NoRequest EXCEPT !.step = "update", !.kind = "deactivate", !.id = s,
                                !.seen = row[s], !.sets = {"active"}, !.active = FALSE])
  /\ UNCHANGED contested

(***************************************************************************)
(* Onboarding finds its store, or makes one                                *)
(***************************************************************************)
Rollback(t) ==
  /\ req' = [req EXCEPT ![t] = NoRequest]
  /\ pend' = [pend EXCEPT ![t] = [s \in Store |-> None]]
  /\ UNCHANGED <<row, serial, history>>

Found(p, d) == {s \in Stores : row[s].at[p] = d}

\* Faulty variant: the lookup passes over deactivated stores
LookupActive(t) ==
  LET found == {s \in Found(req[t].platform, req[t].domain) : row[s].active} IN
  /\ req[t].step = "lookup" /\ Cardinality(found) < 2
  /\ \/ found = {} /\ Goto(t, "slug")
     \/ \E s \in found : req' = [req EXCEPT ![t].step = "update", ![t].id = s,
                                    ![t].seen = row[s], ![t].sets = {"credentials"}]
  /\ UNCHANGED <<row, pend, serial, history>>

\* get_by_platform_domain, active or not: two rows raise; a custom feed takes
\* only a store that is on the custom platform.
Lookup(t) ==
  LET found == Found(req[t].platform, req[t].domain) IN
  /\ req[t].step = "lookup"
  /\ \/ Cardinality(found) > 1 /\ Rollback(t)
     \/ /\ Cardinality(found) < 2
        /\ \/ \E s \in found :
                /\ req[t].platform = "custom" => row[s].platform = "custom"
                /\ req' = [req EXCEPT ![t].step = "update", ![t].id = s, ![t].seen = row[s],
                                      ![t].sets = {"credentials"}]
           \/ /\ \A s \in found : req[t].platform = "custom" /\ row[s].platform # "custom"
              /\ Goto(t, "slug")
        /\ UNCHANGED <<row, pend, serial, history>>

\* The first free suffix for a name; by default the name is the domain's.
Taken == {row[s].slug : s \in Stores}
AllocateSlug(t, name) ==
  /\ req[t].step = "slug"
  /\ \E n \in 0 .. MaxSlug :
       /\ <<name, n>> \notin Taken /\ \A m \in 0 .. n - 1 : <<name, m>> \in Taken
       /\ req' = [req EXCEPT ![t].slug = <<name, n>>, ![t].step = "insert"]
  /\ UNCHANGED <<row, pend, serial, history>>

NewRow(r) ==
  [platform |-> r.platform, at |-> [p \in Platform |-> IF p = r.platform THEN r.domain ELSE None],
   secrets |-> Merged(NoSecrets, r.given, r.serial), active |-> TRUE, slug |-> r.slug]

\* Faulty variant: slug is not unique
InsertAnySlug(t, s) ==
  /\ req[t].step = "insert" /\ Fresh(s)
  /\ pend' = [pend EXCEPT ![t][s] = NewRow(req[t])]
  /\ req' = [req EXCEPT ![t].step = "commit", ![t].id = s]
  /\ UNCHANGED <<row, serial, history>>

\* The unique slug: the INSERT waits for another one's, and fails on its row.
Insert(t, s) ==
  /\ req[t].step = "insert" /\ Fresh(s)
  /\ \A u \in Txn \ {t}, z \in Store : pend[u][z] # None => pend[u][z].slug # req[t].slug
  /\ req[t].slug \notin Taken
  /\ pend' = [pend EXCEPT ![t][s] = NewRow(req[t])]
  /\ req' = [req EXCEPT ![t].step = "commit", ![t].id = s]
  /\ UNCHANGED <<row, serial, history>>

SlugClash(t) ==
  /\ req[t].step = "insert" /\ req[t].slug \in Taken
  /\ Rollback(t)

(***************************************************************************)
(* A store is changed                                                      *)
(***************************************************************************)
\* Faulty variant: PATCH takes every store for a Shopify shop
PatchedAtShopify(r) ==
  IF "credentials" \in r.sets
  THEN [r.seen.at EXCEPT ![IF r.kind = "patch" THEN "shopify" ELSE r.platform] = r.domain]
  ELSE r.seen.at

\* The credentials the request computes from the row it loaded.
NewAt(r) ==
  IF "credentials" \in r.sets THEN [r.seen.at EXCEPT ![r.platform] = r.domain] ELSE r.seen.at
NewSecrets(r) == Merged(r.seen.secrets, r.given, r.serial)
NewCredentials(r) ==
  \/ NewAt(r) # r.seen.at \/ NewSecrets(r) # r.seen.secrets
  \/ r.kind = "onboard" /\ r.feed

\* Faulty variant: the UPDATE writes is_active whether it changed or not
WrittenWithActive(r, now) ==
  [now EXCEPT !.at = IF NewCredentials(r) THEN NewAt(r) ELSE @,
              !.secrets = IF NewCredentials(r) THEN NewSecrets(r) ELSE @,
              !.active = IF "active" \in r.sets THEN r.active ELSE r.seen.active]

\* The UPDATE names the columns in which the object differs from the row it
\* was loaded from; credentials is one column.
Written(r, now) ==
  [now EXCEPT !.at = IF NewCredentials(r) THEN NewAt(r) ELSE @,
              !.secrets = IF NewCredentials(r) THEN NewSecrets(r) ELSE @,
              !.platform = IF r.kind = "onboard" /\ r.seen.platform # r.platform
                           THEN r.platform ELSE @,
              !.active = IF "active" \in r.sets /\ r.active # r.seen.active
                         THEN r.active ELSE @]

\* Onboarding always sets onboarding_status; the others may have nothing to say.
Writes(r) ==
  \/ r.kind = "onboard" \/ NewCredentials(r)
  \/ "active" \in r.sets /\ r.active # r.seen.active
ReadBefore(r, now) == NewCredentials(r) /\ <<now.at, now.secrets>> # <<r.seen.at, r.seen.secrets>>

Update(t) ==
  LET r == req[t] IN
  /\ r.step = "update"
  /\ \/ /\ Writes(r) /\ Unlocked(t, r.id)
        /\ pend' = [pend EXCEPT ![t][r.id] = Written(r, row[r.id])]
        /\ stale' = IF ReadBefore(r, row[r.id]) THEN stale \cup {r.id} ELSE stale
     \/ ~Writes(r) /\ UNCHANGED <<pend, stale>>
  /\ Goto(t, "commit")
  /\ UNCHANGED <<row, serial, newest, contested>>

(***************************************************************************)
(* Requests end                                                            *)
(***************************************************************************)
Commit(t) ==
  LET r == req[t] IN
  /\ r.step = "commit"
  /\ row' = [s \in Store |-> IF pend[t][s] # None THEN pend[t][s] ELSE row[s]]
  /\ pend' = [pend EXCEPT ![t] = [s \in Store |-> None]]
  /\ newest' = [newest EXCEPT ![r.id] =
       [k \in Kind |-> IF k \in r.given THEN r.serial ELSE newest[r.id][k]]]
  /\ req' = [req EXCEPT ![t] = NoRequest]
  /\ UNCHANGED <<serial, stale, contested>>

\* Any statement, or the commit, fails; or the process dies.
Fail(t) == req[t].step # "idle" /\ Rollback(t)

Next ==
  \E t \in Txn :
    \/ \E p \in Platform, d \in Domain \cup {None} : BeginCreate(t, p, d)
    \/ \E p \in Platform, d \in Domain, given \in SUBSET Kind, feed \in BOOLEAN :
         BeginOnboard(t, p, d, given, feed)
    \/ \E s \in Store, d \in Domain \cup {None}, sets \in SUBSET Column, act \in BOOLEAN :
         BeginPatch(t, s, d, sets, act)
    \/ \E s \in Store : BeginDeactivate(t, s) \/ Insert(t, s)
    \/ \E d \in Domain : AllocateSlug(t, d)
    \/ Lookup(t) \/ SlugClash(t) \/ Update(t) \/ Commit(t) \/ Fail(t)

Spec == Init /\ [][Next]_vars

(***************************************************************************)
(* Properties                                                              *)
(***************************************************************************)
\* Types of the rows and requests; the unique index keeps slugs apart.
TypeOK ==
  /\ row \in [Store -> Row \cup {None}]
  /\ pend \in [Txn -> [Store -> Row \cup {None}]]
  /\ req \in [Txn -> Request]
  /\ serial \in 0 .. MaxSerial
  /\ newest \in [Store -> Secrets]
  /\ stale \subseteq Store /\ contested \subseteq Platform \X Domain
  /\ \A s, u \in Stores : row[s].slug = row[u].slug => s = u

\* A store has the credentials block of its platform and no other, whichever
\* way it was made, reconnected or patched: Store.domain, the lookups and PATCH
\* all read the same one.
BlockOfPlatform ==
  \A s \in Stores, p \in Platform : row[s].at[p] # None => p = row[s].platform

\* Two stores share a domain of a platform only if one request gave it without
\* a lookup, or two requests onboarded it at the same time; from then on the
\* lookup raises.
OneStorePerDomain ==
  \A s, u \in Stores, p \in Platform :
    row[s].at[p] = row[u].at[p] /\ row[s].at[p] # None /\ <<p, row[s].at[p]>> \notin contested
      => s = u

\* Every secret of a store is the one last given to it, however many partial
\* reconnects and patches followed, unless a request wrote the credentials back
\* that it had read before another one's commit.
SecretsNewest ==
  \A s \in Stores : s \notin stale => row[s].secrets = newest[s]

\* A deactivated store stays deactivated: PATCH is_active true by a request that
\* loaded the store while it was active writes nothing.
Revive == \E s \in Stores : ~row[s].active /\ row'[s].active
NoRevival == [][~Revive]_vars
=============================================================================
