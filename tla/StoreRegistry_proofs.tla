------------------------ MODULE StoreRegistry_proofs ------------------------
(***************************************************************************)
(* Proofs about StoreRegistry for every set of stores, domains and         *)
(* requests. The inductive invariant says what a pending version of a row  *)
(* may be next to the committed one, and what a request may still believe  *)
(* of the row it loaded.                                                   *)
(***************************************************************************)
EXTENDS StoreRegistry, TLAPS

Types ==
  /\ row \in [Store -> Row \cup {None}]
  /\ pend \in [Txn -> [Store -> Row \cup {None}]]
  /\ req \in [Txn -> Request]
  /\ serial \in 0 .. MaxSerial
  /\ newest \in [Store -> Secrets]
  /\ stale \subseteq Store /\ contested \subseteq Platform \X Domain

\* Only a request about to commit has written, and one request to a row.
WritesAtEnd == \A t \in Txn : req[t].step # "commit" => \A s \in Store : pend[t][s] = None
OneWriter ==
  \A t, u \in Txn, s \in Store : pend[t][s] # None /\ pend[u][s] # None => t = u

\* The block of a version is its platform's.
OwnBlock(v) == \A p \in Platform : v.at[p] # None => p = v.platform
OwnBlocks ==
  /\ \A s \in Store : row[s] # None => OwnBlock(row[s])
  /\ \A t \in Txn, s \in Store : pend[t][s] # None => OwnBlock(pend[t][s])

\* No two stores share a slug, in any version.
SlugsApart ==
  /\ \A s, z \in Store : s # z /\ row[s] # None /\ row[z] # None => row[s].slug # row[z].slug
  /\ \A t \in Txn, s, z \in Store :
       s # z /\ pend[t][s] # None /\ row[z] # None => pend[t][s].slug # row[z].slug
  /\ \A t, u \in Txn, s, z \in Store :
       s # z /\ pend[t][s] # None /\ pend[u][z] # None => pend[t][s].slug # pend[u][z].slug

\* A pending version of a store keeps its platform and does not revive it.
Successor(old, new) == new.platform = old.platform /\ (new.active => old.active)
Successors ==
  \A t \in Txn, s \in Store :
    pend[t][s] # None /\ row[s] # None => Successor(row[s], pend[t][s])

\* What a request about to write knows of its row: it may have changed since,
\* but not its platform.
LoadedBy(r) ==
  /\ r.id \in Store /\ r.seen \in Row /\ OwnBlock(r.seen)
  /\ row[r.id] # None /\ row[r.id].platform = r.seen.platform
  /\ r.platform = r.seen.platform \/ (r.kind # "onboard" /\ r.sets = {"active"} /\ r.given = {})
  /\ "active" \in r.sets /\ r.active => r.seen.active
RequestOK(r) ==
  /\ r.step = "update" => LoadedBy(r)
  /\ r.step = "lookup" => r.domain \in Domain /\ r.kind = "onboard"
  /\ r.step = "insert" => r.slug \in Slug
  /\ r.step = "commit" => r.id \in Store
Loaded == \A t \in Txn : RequestOK(req[t])

\* An open request has a number.
Numbered == \A t \in Txn : req[t].step # "idle" => req[t].serial # 0

IInv ==
  /\ Types /\ WritesAtEnd /\ OneWriter /\ OwnBlocks /\ SlugsApart /\ Successors /\ Loaded
  /\ Numbered

LEMMA MergedType ==
  ASSUME NEW old \in Secrets, NEW given \in SUBSET Kind, NEW n \in 1 .. MaxSerial
  PROVE  Merged(old, given, n) \in Secrets
BY DEF Merged, Secrets

LEMMA StoredType ==
  ASSUME NEW given \in SUBSET Kind
  PROVE  Stored(given) \in SUBSET Kind
BY DEF Stored, Kind

LEMMA NoRequestType == NoRequest \in Request /\ NoRequest.step = "idle"
BY RegistryConstants DEF NoRequest, Request, Step, Platform, Kind, Column

\* A request that goes on to its next step writes nothing.
LEMMA GoesOn ==
  ASSUME IInv, NEW t \in Txn, NEW r \in Request, req' = [req EXCEPT ![t] = r],
         req[t].step # "commit", RequestOK(r), r.serial # 0, UNCHANGED <<row, pend>>,
         serial' \in 0 .. MaxSerial, newest' \in [Store -> Secrets],
         stale' \subseteq Store, contested' \subseteq Platform \X Domain
  PROVE  IInv'
<1>1. Types'
  BY DEF IInv, Types
<1>2. WritesAtEnd'
  BY DEF IInv, Types, WritesAtEnd
<1>3. OneWriter' /\ OwnBlocks' /\ SlugsApart' /\ Successors'
  BY DEF IInv, OneWriter, OwnBlocks, OwnBlock, SlugsApart, Successors, Successor
<1>4. Loaded'
  <2>1. RequestOK(r)'
    BY DEF RequestOK, LoadedBy, OwnBlock
  <2>2. ASSUME NEW u \in Txn, u # t PROVE RequestOK(req[u])'
    BY <2>2 DEF IInv, Types, Loaded, RequestOK, LoadedBy, OwnBlock
  <2> QED
    BY <2>1, <2>2 DEF IInv, Types, Loaded
<1>5. Numbered'
  BY DEF IInv, Types, Numbered
<1> QED
  BY <1>1, <1>2, <1>3, <1>4, <1>5 DEF IInv

\* A rollback takes back what the request wrote.
LEMMA RollsBack ==
  ASSUME IInv, NEW t \in Txn, Rollback(t)
  PROVE  IInv'
<1>1. NoRequest \in Request /\ NoRequest.step = "idle"
  BY NoRequestType
<1>2. Types'
  BY <1>1 DEF IInv, Types, Rollback, history
<1>3. /\ \A s \in Store : pend'[t][s] = None
      /\ \A u \in Txn \ {t} : pend'[u] = pend[u] /\ req'[u] = req[u]
      /\ req'[t] = NoRequest /\ row' = row
  BY DEF IInv, Types, Rollback
<1>4. WritesAtEnd' /\ OneWriter'
  BY <1>1, <1>3 DEF IInv, WritesAtEnd, OneWriter
<1>5. OwnBlocks' /\ Successors'
  BY <1>3 DEF IInv, OwnBlocks, OwnBlock, Successors, Successor
<1>6. SlugsApart'
  BY <1>3 DEF IInv, SlugsApart
<1>7. Loaded'
  <2>1. RequestOK(req[t])'
    BY <1>1, <1>3 DEF RequestOK
  <2>2. ASSUME NEW u \in Txn, u # t PROVE RequestOK(req[u])'
    BY <1>3, <2>2 DEF IInv, Loaded, RequestOK, LoadedBy, OwnBlock
  <2> QED
    BY <2>1, <2>2 DEF Loaded
<1>8. Numbered'
  BY <1>1, <1>3 DEF IInv, Numbered
<1> QED
  BY <1>2, <1>4, <1>5, <1>6, <1>7, <1>8 DEF IInv

\* A request writes the one version it is going to commit.
LEMMA WritesOne ==
  ASSUME IInv, NEW t \in Txn, NEW s \in Store, NEW v \in Row, NEW r \in Request,
         pend' = [pend EXCEPT ![t][s] = v], req' = [req EXCEPT ![t] = r], row' = row,
         req[t].step # "commit", r.step = "commit", r.id \in Store, r.serial # 0, Unlocked(t, s),
         OwnBlock(v), row[s] # None => Successor(row[s], v),
         \A z \in Store \ {s} : row[z] # None => row[z].slug # v.slug,
         \A u \in Txn \ {t}, z \in Store \ {s} : pend[u][z] # None => pend[u][z].slug # v.slug,
         UNCHANGED <<serial, newest, contested>>, stale' \subseteq Store
  PROVE  IInv'
<1>1. Types'
  BY DEF IInv, Types
<1>2. /\ \A z \in Store \ {s} : pend'[t][z] = None
      /\ pend'[t][s] = v /\ req'[t] = r
      /\ \A u \in Txn \ {t} : pend'[u] = pend[u] /\ req'[u] = req[u] /\ pend[u][s] = None
  BY DEF IInv, Types, WritesAtEnd, Unlocked
<1>3. WritesAtEnd' /\ OneWriter'
  BY <1>2 DEF IInv, WritesAtEnd, OneWriter
<1>4. OwnBlocks' /\ Successors'
  BY <1>2 DEF IInv, OwnBlocks, OwnBlock, Successors, Successor
<1>5. SlugsApart'
  BY <1>2 DEF IInv, SlugsApart
<1>6. Loaded'
  <2>1. RequestOK(req[t])'
    BY <1>2 DEF RequestOK
  <2>2. ASSUME NEW u \in Txn, u # t PROVE RequestOK(req[u])'
    BY <1>2, <2>2 DEF IInv, Loaded, RequestOK, LoadedBy, OwnBlock
  <2> QED
    BY <2>1, <2>2 DEF Loaded
<1>7. Numbered'
  BY <1>2 DEF IInv, Numbered
<1> QED
  BY <1>1, <1>3, <1>4, <1>5, <1>6, <1>7 DEF IInv

\* A new request carries a number of its own and believes what it just read.
LEMMA BeginsRight ==
  ASSUME IInv, NEW t \in Txn, NEW r \in Request, Begin(t, r),
         RequestOK([r EXCEPT !.serial = serial + 1]), contested' \subseteq Platform \X Domain
  PROVE  IInv'
<1>1. serial' = serial + 1 /\ serial' \in 0 .. MaxSerial /\ serial' # 0
  BY RegistryConstants DEF Begin, IInv, Types
<1>2. [r EXCEPT !.serial = serial'] \in Request /\ [r EXCEPT !.serial = serial'].serial # 0
  BY <1>1 DEF Request
<1>3. /\ req' = [req EXCEPT ![t] = [r EXCEPT !.serial = serial']]
      /\ req[t].step # "commit" /\ UNCHANGED <<row, pend, newest, stale>>
  BY DEF Begin
<1>4. newest' \in [Store -> Secrets] /\ stale' \subseteq Store
  BY <1>3 DEF IInv, Types
<1> QED
  BY <1>1, <1>2, <1>3, <1>4, GoesOn

LEMMA GivenType ==
  ASSUME IInv, NEW p \in Platform, NEW d \in Domain \cup {None}
  PROVE  Given(p, d) \subseteq Platform \X Domain
BY DEF IInv, Types, Given

LEMMA BeginCreateKeeps ==
  ASSUME IInv, NEW t \in Txn, NEW p \in Platform, NEW d \in Domain \cup {None},
         BeginCreate(t, p, d)
  PROVE  IInv'
<1> DEFINE r == [NoRequest EXCEPT !.step = "slug", !.kind = "create", !.platform = p,
                                  !.domain = d]
<1>1. r \in Request /\ r.step = "slug"
  BY NoRequestType DEF Request, Step
<1>2. RequestOK([r EXCEPT !.serial = serial + 1])
  BY <1>1 DEF RequestOK, Request
<1> QED
  BY <1>1, <1>2, GivenType, BeginsRight DEF BeginCreate

LEMMA BeginOnboardKeeps ==
  ASSUME IInv, NEW t \in Txn, NEW p \in Platform, NEW d \in Domain,
         NEW given \in SUBSET Kind,
         NEW feed \in BOOLEAN, BeginOnboard(t, p, d, given, feed)
  PROVE  IInv'
<1> DEFINE r == [NoRequest EXCEPT !.step = "lookup", !.kind = "onboard", !.platform = p,
                                  !.domain = d, !.given = Stored(given), !.feed = feed]
<1>1. r \in Request /\ r.step = "lookup" /\ r.kind = "onboard" /\ r.domain = d
  BY NoRequestType, StoredType DEF Request, Step
<1>2. RequestOK([r EXCEPT !.serial = serial + 1])
  BY <1>1 DEF RequestOK, Request
<1>3. contested' \subseteq Platform \X Domain
  BY DEF BeginOnboard, IInv, Types
<1> QED
  BY <1>1, <1>2, <1>3, BeginsRight DEF BeginOnboard

\* PATCH and DELETE load the row they are going to change.
LEMMA BeginChangeKeeps ==
  ASSUME IInv, NEW t \in Txn, NEW s \in Store, NEW d \in Domain \cup {None},
         NEW sets \in SUBSET Column, NEW act \in BOOLEAN,
         BeginPatch(t, s, d, sets, act) \/ BeginDeactivate(t, s)
  PROVE  IInv'
<1>1. s \in Stores /\ row[s] \in Row /\ row[s] # None /\ row[s].platform \in Platform
  BY DEF BeginPatch, BeginDeactivate, Stores, IInv, Types, Row
<1>2. OwnBlock(row[s])
  BY <1>1 DEF IInv, OwnBlocks
<1>3. CASE BeginPatch(t, s, d, sets, act)
  <2> DEFINE r == [NoRequest EXCEPT !.step = "update", !.platform = row[s].platform,
                     !.domain = d, !.id = s, !.seen = row[s], !.sets = sets, !.active = act]
  <2>1. /\ r \in Request /\ r.step = "update" /\ r.platform = row[s].platform
        /\ r.id = s /\ r.seen = row[s]
    BY <1>1, NoRequestType DEF Request, Step
  <2>2. row[s].active
    BY <1>3 DEF BeginPatch
  <2>3. RequestOK([r EXCEPT !.serial = serial + 1])
    BY <1>1, <1>2, <2>1, <2>2 DEF RequestOK, Request, LoadedBy
  <2>4. contested' \subseteq Platform \X Domain
    BY <1>1, <1>3, GivenType DEF BeginPatch
  <2> QED
    BY <1>3, <2>1, <2>3, <2>4, BeginsRight DEF BeginPatch
<1>4. CASE BeginDeactivate(t, s)
  <2> DEFINE r == [NoRequest EXCEPT !.step = "update", !.kind = "deactivate", !.id = s,
                     !.seen = row[s], !.sets = {"active"}, !.active = FALSE]
  <2>1. /\ r \in Request /\ r.step = "update" /\ r.kind = "deactivate" /\ r.sets = {"active"}
        /\ r.id = s /\ r.seen = row[s] /\ r.active = FALSE /\ r.given = {}
    BY <1>1, NoRequestType DEF Request, Step, Column, NoRequest
  <2>2. RequestOK([r EXCEPT !.serial = serial + 1])
    BY <1>1, <1>2, <2>1 DEF RequestOK, Request, LoadedBy
  <2>3. contested' \subseteq Platform \X Domain
    BY <1>4 DEF BeginDeactivate, IInv, Types
  <2> QED
    BY <1>4, <2>1, <2>2, <2>3, BeginsRight DEF BeginDeactivate
<1> QED
  BY <1>3, <1>4

\* A row found under a domain is of the platform that was asked for.
LEMMA LookupKeeps ==
  ASSUME IInv, NEW t \in Txn, Lookup(t)
  PROVE  IInv'
<1>1. /\ req[t] \in Request /\ req[t].domain \in Domain /\ req[t].kind = "onboard"
      /\ req[t].serial # 0
  BY DEF Lookup, IInv, Types, Loaded, RequestOK, Numbered
<1>2. CASE Rollback(t)
  BY <1>2, RollsBack
<1>3. ASSUME NEW s \in Found(req[t].platform, req[t].domain), UNCHANGED <<row, pend, serial, history>>,
             req' = [req EXCEPT ![t].step = "update", ![t].id = s, ![t].seen = row[s],
                                ![t].sets = {"credentials"}]
      PROVE  IInv'
  <2> DEFINE r == [req[t] EXCEPT !.step = "update", !.id = s, !.seen = row[s],
                                 !.sets = {"credentials"}]
  <2>1. /\ s \in Store /\ row[s] # None /\ row[s] \in Row
        /\ row[s].at[req[t].platform] = req[t].domain
    BY <1>3 DEF Found, Stores, IInv, Types
  <2>2. OwnBlock(row[s]) /\ row[s].platform = req[t].platform
    BY <1>1, <2>1, RegistryConstants DEF IInv, OwnBlocks, OwnBlock, Request
  <2>3. r \in Request /\ r.step = "update" /\ r.serial # 0
    BY <1>1, <2>1 DEF Request, Step, Column
  <2>4. RequestOK(r)
    BY <1>1, <2>1, <2>2 DEF RequestOK, LoadedBy, Request
  <2>5. req' = [req EXCEPT ![t] = r]
    BY <1>3 DEF IInv, Types
  <2>6. req[t].step # "commit"
    BY DEF Lookup
  <2> QED
    BY <1>3, <2>3, <2>4, <2>5, <2>6, GoesOn DEF history, IInv, Types
<1>4. CASE Goto(t, "slug") /\ UNCHANGED <<row, pend, serial, history>>
  <2> DEFINE r == [req[t] EXCEPT !.step = "slug"]
  <2>1. r \in Request /\ RequestOK(r) /\ r.serial # 0
    BY <1>1 DEF Request, Step, RequestOK
  <2>2. req' = [req EXCEPT ![t] = r] /\ req[t].step # "commit"
    BY <1>4 DEF Goto, Lookup
  <2> QED
    BY <1>4, <2>1, <2>2, GoesOn DEF history, IInv, Types
<1> QED
  BY <1>2, <1>3, <1>4 DEF Lookup

LEMMA AllocateKeeps ==
  ASSUME IInv, NEW t \in Txn, NEW name \in Domain, AllocateSlug(t, name)
  PROVE  IInv'
<1>1. req[t] \in Request /\ req[t].step # "commit" /\ req[t].serial # 0
  BY DEF AllocateSlug, IInv, Types, Numbered
<1>2. PICK n \in 0 .. MaxSlug :
        req' = [req EXCEPT ![t].slug = <<name, n>>, ![t].step = "insert"]
  BY DEF AllocateSlug
<1> DEFINE r == [req[t] EXCEPT !.slug = <<name, n>>, !.step = "insert"]
<1>3. r \in Request /\ RequestOK(r) /\ r.serial # 0
  BY <1>1 DEF Request, Step, RequestOK, Slug
<1>4. req' = [req EXCEPT ![t] = r] /\ UNCHANGED <<row, pend, serial, history>>
  BY <1>2 DEF AllocateSlug
<1> QED
  BY <1>1, <1>3, <1>4, GoesOn DEF history, IInv, Types

LEMMA InsertKeeps ==
  ASSUME IInv, NEW t \in Txn, NEW s \in Store, Insert(t, s)
  PROVE  IInv'
<1> DEFINE v == NewRow(req[t])
           r == [req[t] EXCEPT !.step = "commit", !.id = s]
<1>1. /\ req[t] \in Request /\ req[t].step = "insert" /\ req[t].slug \in Slug
      /\ req[t].serial \in 1 .. MaxSerial /\ req[t].serial # 0
  BY RegistryConstants DEF Insert, IInv, Types, Loaded, RequestOK, Numbered, Request
<1>2. NoSecrets \in Secrets /\ Merged(NoSecrets, req[t].given, req[t].serial) \in Secrets
  BY <1>1 DEF NoSecrets, Secrets, Merged, Request
<1>3. [p \in Platform |-> IF p = req[t].platform THEN req[t].domain ELSE None] \in Blocks
  BY <1>1 DEF Request, Blocks
<1>4. v \in Row /\ v.slug = req[t].slug
  BY <1>1, <1>2, <1>3 DEF Row, NewRow, Request
<1>5. OwnBlock(v)
  BY DEF OwnBlock, NewRow
<1>6. r \in Request /\ r.step = "commit" /\ r.id \in Store /\ r.serial # 0
  BY <1>1 DEF Request, Step
<1>7. /\ pend' = [pend EXCEPT ![t][s] = v] /\ UNCHANGED <<row, serial, history>>
      /\ req' = [req EXCEPT ![t] = r]
  BY <1>1 DEF Insert, IInv, Types
<1>8. row[s] = None /\ Unlocked(t, s)
  BY DEF Insert, Fresh, Unlocked
<1>9. \A z \in Store \ {s} : row[z] # None => row[z].slug # v.slug
  BY <1>4 DEF Insert, Taken, Stores
<1>10. \A u \in Txn \ {t}, z \in Store \ {s} : pend[u][z] # None => pend[u][z].slug # v.slug
  BY <1>4 DEF Insert
<1> QED
  BY <1>1, <1>4, <1>5, <1>6, <1>7, <1>8, <1>9, <1>10, WritesOne DEF history, IInv, Types

\* What a request writes over a row that may have changed since it was loaded.
LEMMA WrittenRight ==
  ASSUME NEW r \in Request, LoadedBy(r), r.serial \in 1 .. MaxSerial,
         NEW now \in Row, now = row[r.id], OwnBlock(now)
  PROVE  /\ Written(r, now) \in Row /\ OwnBlock(Written(r, now))
         /\ Successor(now, Written(r, now)) /\ Written(r, now).slug = now.slug
<1>1. /\ r.seen \in Row /\ OwnBlock(r.seen) /\ r.platform \in Platform
      /\ now.platform = r.seen.platform /\ r.domain \in Domain \cup {None}
      /\ r.given \in SUBSET Kind /\ r.active \in BOOLEAN
  BY DEF LoadedBy, Request
<1>2. NewAt(r) \in Blocks
  BY <1>1 DEF NewAt, Blocks, Row
<1>3. \A p \in Platform : NewAt(r)[p] # None => p = now.platform
  BY <1>1 DEF NewAt, OwnBlock, LoadedBy, Row, Blocks
<1>4. NewSecrets(r) \in Secrets
  BY <1>1, MergedType DEF NewSecrets, Row
<1>5. ~(r.kind = "onboard" /\ r.seen.platform # r.platform)
  BY DEF LoadedBy
<1>6. "active" \in r.sets /\ r.active # r.seen.active => r.active = FALSE
  BY <1>1 DEF LoadedBy, Row
<1> DEFINE w == Written(r, now)
<1>7. /\ w.at \in {now.at, NewAt(r)} /\ w.secrets \in {now.secrets, NewSecrets(r)}
      /\ w.platform = now.platform /\ w.slug = now.slug /\ w.active \in {now.active, FALSE}
  BY <1>5, <1>6 DEF Written, Row
<1>8. w \in Row
  BY <1>1, <1>2, <1>4, <1>5 DEF Written, Row
<1>9. OwnBlock(w)
  BY <1>3, <1>7 DEF OwnBlock
<1>10. Successor(now, w)
  BY <1>7 DEF Successor, Row
<1> QED
  BY <1>7, <1>8, <1>9, <1>10

LEMMA UpdateKeeps ==
  ASSUME IInv, NEW t \in Txn, Update(t)
  PROVE  IInv'
<1> DEFINE r == [req[t] EXCEPT !.step = "commit"]
           id == req[t].id
<1>1. /\ req[t] \in Request /\ req[t].step = "update" /\ LoadedBy(req[t])
      /\ req[t].serial \in 1 .. MaxSerial
  BY RegistryConstants DEF Update, IInv, Types, Loaded, RequestOK, Numbered, Request
<1>2. id \in Store /\ row[id] # None /\ row[id] \in Row /\ OwnBlock(row[id])
  BY <1>1 DEF LoadedBy, IInv, Types, OwnBlocks
<1>3. r \in Request /\ r.step = "commit" /\ r.id \in Store /\ r.serial # 0
  BY <1>1, <1>2 DEF Request, Step
<1>4. req' = [req EXCEPT ![t] = r] /\ UNCHANGED <<row, serial, newest, contested>>
  BY DEF Update, Goto
<1>5. CASE Writes(req[t]) /\ Unlocked(t, id) /\ pend' = [pend EXCEPT ![t][id] = Written(req[t], row[id])]
           /\ stale' = IF ReadBefore(req[t], row[id]) THEN stale \cup {id} ELSE stale
  <2> DEFINE v == Written(req[t], row[id])
  <2>1. v \in Row /\ OwnBlock(v) /\ Successor(row[id], v) /\ v.slug = row[id].slug
    BY <1>1, <1>2, WrittenRight
  <2>2. \A z \in Store \ {id} : row[z] # None => row[z].slug # v.slug
    BY <1>2, <2>1 DEF IInv, SlugsApart
  <2>3. \A u \in Txn \ {t}, z \in Store \ {id} : pend[u][z] # None => pend[u][z].slug # v.slug
    BY <1>2, <2>1 DEF IInv, SlugsApart
  <2>4. stale' \subseteq Store
    BY <1>2, <1>5 DEF IInv, Types
  <2> QED
    BY <1>1, <1>2, <1>3, <1>4, <1>5, <2>1, <2>2, <2>3, <2>4, WritesOne
<1>6. CASE UNCHANGED <<pend, stale>>
  <2>1. RequestOK(r)
    BY <1>3 DEF RequestOK
  <2> QED
    BY <1>1, <1>3, <1>4, <1>6, <2>1, GoesOn DEF IInv, Types
<1> QED
  BY <1>5, <1>6 DEF Update

\* A commit turns one version, which no other request has, into a row.
LEMMA CommitKeeps ==
  ASSUME IInv, NEW t \in Txn, Commit(t)
  PROVE  IInv'
<1>1. /\ req[t] \in Request /\ req[t].id \in Store /\ req[t].serial \in 1 .. MaxSerial
      /\ req[t].given \in SUBSET Kind
  BY RegistryConstants DEF Commit, IInv, Types, Loaded, RequestOK, Numbered, Request
<1>2. /\ \A s \in Store : pend'[t][s] = None
      /\ \A u \in Txn \ {t} : pend'[u] = pend[u] /\ req'[u] = req[u]
      /\ req'[t] = NoRequest
      /\ \A s \in Store : row'[s] = IF pend[t][s] # None THEN pend[t][s] ELSE row[s]
  BY DEF Commit, IInv, Types
<1>3. Types'
  <2>1. row' \in [Store -> Row \cup {None}] /\ pend' \in [Txn -> [Store -> Row \cup {None}]]
    BY DEF Commit, IInv, Types
  <2>2. req' \in [Txn -> Request]
    BY NoRequestType DEF Commit, IInv, Types
  <2>3. newest' \in [Store -> Secrets]
    BY <1>1 DEF Commit, IInv, Types, Secrets
  <2> QED
    BY <2>1, <2>2, <2>3 DEF Commit, IInv, Types
<1>4. WritesAtEnd' /\ OneWriter' /\ Numbered'
  BY <1>2, NoRequestType DEF IInv, WritesAtEnd, OneWriter, Numbered
<1>5. OwnBlocks'
  BY <1>2 DEF IInv, OwnBlocks, OwnBlock
<1>6. Successors'
  BY <1>2 DEF IInv, Successors, Successor, OneWriter
<1>7. SlugsApart'
  BY <1>2 DEF IInv, SlugsApart
<1>8. Loaded'
  <2>1. RequestOK(req[t])'
    BY <1>2, NoRequestType DEF RequestOK
  <2>2. ASSUME NEW u \in Txn, u # t PROVE RequestOK(req[u])'
    <3>1. RequestOK(req[u]) /\ req'[u] = req[u]
      BY <1>2, <2>2 DEF IInv, Loaded
    <3>2. LoadedBy(req[u]) => LoadedBy(req[u])'
      BY <1>2, <3>1 DEF LoadedBy, OwnBlock, IInv, Types, Successors, Successor
    <3> QED
      BY <3>1, <3>2 DEF RequestOK
  <2> QED
    BY <2>1, <2>2 DEF Loaded
<1> QED
  BY <1>3, <1>4, <1>5, <1>6, <1>7, <1>8 DEF IInv

LEMMA InvStep == IInv /\ [Next]_vars => IInv'
<1> SUFFICES ASSUME IInv, [Next]_vars PROVE IInv'
  OBVIOUS
<1>1. CASE UNCHANGED vars
  BY <1>1 DEF vars, history, IInv, Types, WritesAtEnd, OneWriter, OwnBlocks, OwnBlock, SlugsApart,
              Successors, Successor, Loaded, RequestOK, LoadedBy, Numbered
<1>2. ASSUME NEW t \in Txn, Fail(t) \/ SlugClash(t) PROVE IInv'
  BY <1>2, RollsBack DEF Fail, SlugClash
<1>3. ASSUME NEW t \in Txn, NEW s \in Store, BeginDeactivate(t, s) PROVE IInv'
  BY <1>3, BeginChangeKeeps
<1> QED
  BY <1>1, <1>2, <1>3, BeginCreateKeeps, BeginOnboardKeeps, BeginChangeKeeps, LookupKeeps,
     AllocateKeeps, InsertKeeps, UpdateKeeps, CommitKeeps DEF Next

LEMMA InvInit == Init => IInv
<1> SUFFICES ASSUME Init PROVE IInv
  OBVIOUS
<1>1. Types
  BY NoRequestType, RegistryConstants DEF Init, Types, NoSecrets, Secrets
<1> QED
  BY <1>1, NoRequestType DEF Init, IInv, WritesAtEnd, OneWriter, OwnBlocks, SlugsApart,
     Successors, Loaded, RequestOK, Numbered

\* Rows, requests and histories keep their types, and no two stores share a slug
\* although it is chosen from a snapshot that misses uncommitted rows.
THEOREM TypeCorrect == Spec => []TypeOK
<1>1. IInv => TypeOK
  BY DEF IInv, Types, SlugsApart, TypeOK, Stores
<1> QED
  BY <1>1, InvInit, InvStep, PTL DEF Spec

\* A store has the block of its platform only, whatever requests overlap.
THEOREM BlocksMatch == Spec => []BlockOfPlatform
<1>1. IInv => BlockOfPlatform
  BY DEF IInv, OwnBlocks, OwnBlock, BlockOfPlatform, Stores
<1> QED
  BY <1>1, InvInit, InvStep, PTL DEF Spec

\* No interleaving of requests switches a deactivated store back on.
THEOREM NeverRevived == Spec => NoRevival
<1>1. ASSUME IInv, [Next]_vars PROVE [~Revive]_vars
  <2>1. ASSUME NEW t \in Txn, Commit(t) PROVE ~Revive
    <3>1. \A s \in Store : row'[s] = IF pend[t][s] # None THEN pend[t][s] ELSE row[s]
      BY <2>1 DEF Commit
    <3> QED
      BY <1>1, <3>1 DEF IInv, Successors, Successor, Revive, Stores
  <2>2. CASE row' = row
    BY <2>2 DEF Revive, Stores
  <2>3. CASE \E t \in Txn : Commit(t)
    BY <2>1, <2>3
  <2>4. ASSUME NEW t \in Txn, NEW s \in Store PROVE Insert(t, s) \/ BeginDeactivate(t, s) => row' = row
    BY DEF Insert, BeginDeactivate, Begin
  <2>5. ASSUME NEW t \in Txn, NEW r, Begin(t, r) PROVE row' = row
    BY <2>5 DEF Begin
  <2>6. ASSUME NEW t \in Txn
        PROVE  Lookup(t) \/ SlugClash(t) \/ Update(t) \/ Fail(t) => row' = row
    BY DEF Lookup, SlugClash, Update, Fail, Rollback
  <2>7. ASSUME NEW t \in Txn, NEW d \in Domain PROVE AllocateSlug(t, d) => row' = row
    BY DEF AllocateSlug
  <2>8. ASSUME NEW t \in Txn, NEW p \in Platform, NEW d \in Domain \cup {None},
               NEW given \in SUBSET Kind, NEW feed \in BOOLEAN
        PROVE  BeginCreate(t, p, d) \/ BeginOnboard(t, p, d, given, feed) => row' = row
    BY <2>5 DEF BeginCreate, BeginOnboard
  <2>9. ASSUME NEW t \in Txn, NEW s \in Store, NEW d \in Domain \cup {None},
               NEW sets \in SUBSET Column, NEW act \in BOOLEAN
        PROVE  BeginPatch(t, s, d, sets, act) => row' = row
    BY <2>5 DEF BeginPatch
  <2>10. CASE Next
    BY <2>2, <2>3, <2>4, <2>6, <2>7, <2>8, <2>9, <2>10 DEF Next
  <2> QED
    BY <1>1, <2>10
<1> QED
  BY <1>1, InvInit, InvStep, PTL DEF Spec, NoRevival

(***************************************************************************)
(* The steps, by what they do to rows, requests and histories              *)
(***************************************************************************)
Open(t) == req[t].step # "idle"
Same(q, r) ==
  /\ r.kind = q.kind /\ r.platform = q.platform /\ r.domain = q.domain
  /\ r.given = q.given /\ r.serial = q.serial
Onboards(r, p, d) == r.step # "idle" /\ r.kind = "onboard" /\ r.platform = p /\ r.domain = d
Holds(v, p, d) == v # None /\ v.at[p] = d

Begins(t, r) ==
  /\ req' = [req EXCEPT ![t] = r] /\ ~Open(t) /\ UNCHANGED <<row, pend, newest, stale>>
  /\ r.serial = serial + 1 /\ serial' = serial + 1 /\ serial + 1 \in 1 .. MaxSerial
  /\ r.step \in {"slug", "lookup", "update"}
  /\ r.step = "update" => r.id \in Store /\ row[r.id] # None /\ r.seen = row[r.id]
  /\ r.given # {} => r.kind = "onboard"
  /\ contested \subseteq contested'
  /\ r.kind # "onboard" /\ r.domain # None => <<r.platform, r.domain>> \in contested'
  /\ r.kind = "onboard" =>
       /\ r.step = "lookup" /\ r.domain \in Domain
       /\ \A u \in Txn : Onboards(req[u], r.platform, r.domain) => <<r.platform, r.domain>> \in contested'

Continues(t, r) ==
  /\ req' = [req EXCEPT ![t] = r] /\ Same(req[t], r)
  /\ UNCHANGED <<row, pend, serial, newest, stale, contested>>
  /\ \/ /\ req[t].step = "lookup" /\ r.step = "update"
        /\ r.id \in Store /\ row[r.id] # None /\ r.seen = row[r.id]
        /\ Holds(row[r.id], r.platform, r.domain) /\ "credentials" \in r.sets
     \/ /\ req[t].step = "lookup" /\ r.step = "slug"
        /\ \A s \in Store : ~Holds(row[s], r.platform, r.domain)
     \/ req[t].step = "slug" /\ r.step = "insert"

\* It has the version v of row s, locked, ready to commit.
Puts(t, s, v, r) ==
  /\ req' = [req EXCEPT ![t] = r] /\ Same(req[t], r) /\ r.id = s /\ r.step = "commit"
  /\ req[t].step \in {"insert", "update"} /\ (req[t].step = "update" => req[t].id = s)
  /\ pend' = [pend EXCEPT ![t][s] = v] /\ v # None /\ Unlocked(t, s)
  /\ UNCHANGED <<row, serial, newest, contested>> /\ stale \subseteq stale'
  /\ \A p \in Platform : v.at[p] # None =>
       Holds(row[s], p, v.at[p]) \/ (req[t].platform = p /\ req[t].domain = v.at[p])
  /\ \/ req[t].step = "insert" /\ row[s] = None /\ v.secrets = Merged(NoSecrets, r.given, r.serial)
     \/ /\ req[t].step = "update" /\ row[s] # None
        /\ \/ v.secrets = row[s].secrets /\ req[t].seen.secrets = Merged(req[t].seen.secrets, r.given, r.serial)
           \/ /\ v.secrets = Merged(req[t].seen.secrets, r.given, r.serial)
              /\ s \notin stale' => req[t].seen.secrets = row[s].secrets

\* It has nothing to write.
Rests(t, r) ==
  /\ req' = [req EXCEPT ![t] = r] /\ Same(req[t], r) /\ r.id = req[t].id /\ r.step = "commit"
  /\ req[t].step = "update" /\ req[t].kind # "onboard"
  /\ UNCHANGED <<row, pend, serial, newest, stale, contested>>

Starts(t, r0, r) ==
  /\ r.step = r0.step /\ r.kind = r0.kind /\ r.platform = r0.platform /\ r.domain = r0.domain
  /\ r.given = r0.given /\ r.id = r0.id /\ r.seen = r0.seen
  /\ req' = [req EXCEPT ![t] = r] /\ ~Open(t) /\ UNCHANGED <<row, pend, newest, stale>>
  /\ r.serial = serial + 1 /\ serial' = serial + 1 /\ serial + 1 \in 1 .. MaxSerial

LEMMA BeginMoves ==
  ASSUME IInv, NEW t \in Txn,
         \/ \E p \in Platform, d \in Domain \cup {None} : BeginCreate(t, p, d)
         \/ \E p \in Platform, d \in Domain, given \in SUBSET Kind, feed \in BOOLEAN :
              BeginOnboard(t, p, d, given, feed)
         \/ \E s \in Store, d \in Domain \cup {None}, sets \in SUBSET Column, act \in BOOLEAN :
              BeginPatch(t, s, d, sets, act)
         \/ \E s \in Store : BeginDeactivate(t, s)
  PROVE  \E r \in Request : Begins(t, r)
<1>1. ASSUME NEW r0 \in Request, Begin(t, r0)
      PROVE  \E r \in Request : Starts(t, r0, r)
  <2>1. serial' = serial + 1 /\ serial + 1 \in 1 .. MaxSerial /\ serial + 1 \in 0 .. MaxSerial
    BY <1>1, RegistryConstants DEF Begin, IInv, Types
  <2> DEFINE r == [r0 EXCEPT !.serial = serial + 1]
  <2>2. /\ r \in Request /\ r.serial = serial + 1
        /\ r.step = r0.step /\ r.kind = r0.kind /\ r.platform = r0.platform /\ r.domain = r0.domain
        /\ r.given = r0.given /\ r.id = r0.id /\ r.seen = r0.seen
    BY <2>1 DEF Request
  <2>3. req' = [req EXCEPT ![t] = r] /\ ~Open(t) /\ UNCHANGED <<row, pend, newest, stale>>
    BY <1>1, <2>1 DEF Begin, Open
  <2> HIDE DEF r
  <2> QED
    BY <2>1, <2>2, <2>3 DEF Starts
<1>2. ASSUME NEW p \in Platform, NEW d \in Domain \cup {None}, BeginCreate(t, p, d)
      PROVE  \E r \in Request : Begins(t, r)
  <2> DEFINE r0 == [NoRequest EXCEPT !.step = "slug", !.kind = "create", !.platform = p, !.domain = d]
  <2>1. /\ r0 \in Request /\ r0.step = "slug" /\ r0.kind = "create" /\ r0.platform = p
        /\ r0.domain = d /\ r0.given = {}
    BY NoRequestType DEF Request, Step, NoRequest
  <2>2. Begin(t, r0) /\ contested' = Given(p, d)
    BY <1>2 DEF BeginCreate
  <2> HIDE DEF r0
  <2>5. PICK r \in Request : Starts(t, r0, r)
    BY <1>1, <2>1, <2>2
  <2> QED
    BY <2>1, <2>2, <2>5 DEF Begins, Given, Starts
<1>3. ASSUME NEW p \in Platform, NEW d \in Domain, NEW given \in SUBSET Kind,
         NEW feed \in BOOLEAN, BeginOnboard(t, p, d, given, feed)
      PROVE  \E r \in Request : Begins(t, r)
  <2> DEFINE r0 == [NoRequest EXCEPT !.step = "lookup", !.kind = "onboard", !.platform = p,
                                     !.domain = d, !.given = Stored(given), !.feed = feed]
  <2>1. /\ r0 \in Request /\ r0.step = "lookup" /\ r0.kind = "onboard" /\ r0.platform = p /\ r0.domain = d
    BY NoRequestType, StoredType DEF Request, Step
  <2>2. /\ Begin(t, r0) /\ contested \subseteq contested'
        /\ \A u \in Txn : Onboards(req[u], p, d) => <<p, d>> \in contested'
    BY <1>3 DEF BeginOnboard, Onboards
  <2> HIDE DEF r0
  <2>5. PICK r \in Request : Starts(t, r0, r)
    BY <1>1, <2>1, <2>2
  <2> QED
    BY <2>1, <2>2, <2>5 DEF Begins, Starts
<1>4. ASSUME NEW s \in Store, NEW d \in Domain \cup {None}, NEW sets \in SUBSET Column,
             NEW act \in BOOLEAN, BeginPatch(t, s, d, sets, act)
      PROVE  \E r \in Request : Begins(t, r)
  <2> DEFINE r0 == [NoRequest EXCEPT !.step = "update", !.platform = row[s].platform,
                      !.domain = d, !.id = s, !.seen = row[s], !.sets = sets, !.active = act]
  <2>1. row[s] # None /\ row[s] \in Row /\ row[s].platform \in Platform
    BY <1>4 DEF BeginPatch, Stores, IInv, Types, Row
  <2>2. /\ r0 \in Request /\ r0.step = "update" /\ r0.kind = "patch" /\ r0.platform = row[s].platform
        /\ r0.domain = d /\ r0.given = {} /\ r0.id = s /\ r0.seen = row[s]
    BY <2>1, NoRequestType DEF Request, Step, NoRequest
  <2>3. Begin(t, r0) /\ contested' = Given(row[s].platform, d)
    BY <1>4 DEF BeginPatch
  <2> HIDE DEF r0
  <2>5. PICK r \in Request : Starts(t, r0, r)
    BY <1>1, <2>2, <2>3
  <2> QED
    BY <2>1, <2>2, <2>3, <2>5 DEF Begins, Given, Starts
<1>5. ASSUME NEW s \in Store, BeginDeactivate(t, s)
      PROVE  \E r \in Request : Begins(t, r)
  <2> DEFINE r0 == [NoRequest EXCEPT !.step = "update", !.kind = "deactivate", !.id = s,
                      !.seen = row[s], !.sets = {"active"}, !.active = FALSE]
  <2>1. row[s] # None /\ row[s] \in Row
    BY <1>5 DEF BeginDeactivate, Stores, IInv, Types
  <2>2. /\ r0 \in Request /\ r0.step = "update" /\ r0.kind = "deactivate" /\ r0.domain = None
        /\ r0.given = {} /\ r0.id = s /\ r0.seen = row[s]
    BY <2>1, NoRequestType DEF Request, Step, Column, NoRequest
  <2>3. Begin(t, r0) /\ UNCHANGED contested
    BY <1>5 DEF BeginDeactivate
  <2> HIDE DEF r0
  <2>5. PICK r \in Request : Starts(t, r0, r)
    BY <1>1, <2>2, <2>3
  <2> QED
    BY <2>1, <2>2, <2>3, <2>5 DEF Begins, Starts
<1> QED
  BY <1>2, <1>3, <1>4, <1>5

\* Only onboarding has secrets to give, and it always writes the credentials.
Intents ==
  \A t \in Txn :
    /\ req[t].given # {} => req[t].kind = "onboard"
    /\ req[t].step = "update" /\ req[t].kind = "onboard" => "credentials" \in req[t].sets

LEMMA LookupMoves ==
  ASSUME IInv, NEW t \in Txn, Lookup(t)
  PROVE  Rollback(t) \/ \E r \in Request : Continues(t, r)
<1>1. /\ req[t] \in Request /\ req[t].domain \in Domain /\ req[t].step = "lookup"
      /\ req[t].platform \in Platform /\ req[t].domain # None
  BY RegistryConstants DEF Lookup, IInv, Types, Loaded, RequestOK, Request
<1>2. ASSUME NEW s \in Found(req[t].platform, req[t].domain), UNCHANGED <<row, pend, serial, history>>,
             req' = [req EXCEPT ![t].step = "update", ![t].id = s, ![t].seen = row[s],
                                ![t].sets = {"credentials"}]
      PROVE  \E r \in Request : Continues(t, r)
  <2> DEFINE r == [req[t] EXCEPT !.step = "update", !.id = s, !.seen = row[s],
                                 !.sets = {"credentials"}]
  <2>1. s \in Store /\ row[s] \in Row /\ row[s] # None /\ row[s].at[req[t].platform] = req[t].domain
    BY <1>2 DEF Found, Stores, IInv, Types
  <2>2. /\ r \in Request /\ Same(req[t], r) /\ r.step = "update" /\ r.id = s /\ r.seen = row[s]
        /\ r.sets = {"credentials"} /\ r.platform = req[t].platform /\ r.domain = req[t].domain
    BY <1>1, <2>1 DEF Request, Step, Column, Same
  <2>3. req' = [req EXCEPT ![t] = r]
    BY <1>2 DEF IInv, Types
  <2> HIDE DEF r
  <2> QED
    BY <1>1, <1>2, <2>1, <2>2, <2>3 DEF Continues, Holds, history
<1>3. ASSUME \A s \in Found(req[t].platform, req[t].domain) :
               req[t].platform = "custom" /\ row[s].platform # "custom",
             Goto(t, "slug"), UNCHANGED <<row, pend, serial, history>>
      PROVE  \E r \in Request : Continues(t, r)
  <2> DEFINE r == [req[t] EXCEPT !.step = "slug"]
  <2>1. /\ r \in Request /\ Same(req[t], r) /\ r.step = "slug" /\ r.platform = req[t].platform
        /\ r.domain = req[t].domain
    BY <1>1 DEF Request, Step, Same
  <2>2. req' = [req EXCEPT ![t] = r]
    BY <1>3 DEF Goto, IInv, Types
  <2>3. \A s \in Store : ~Holds(row[s], req[t].platform, req[t].domain)
    BY <1>1, <1>3 DEF Holds, Found, Stores, IInv, OwnBlocks, OwnBlock
  <2> HIDE DEF r
  <2> QED
    BY <1>1, <1>3, <2>1, <2>2, <2>3 DEF Continues, history
<1> QED
  BY <1>2, <1>3 DEF Lookup

LEMMA AllocateMoves ==
  ASSUME IInv, NEW t \in Txn, NEW name \in Domain, AllocateSlug(t, name)
  PROVE  \E r \in Request : Continues(t, r)
<1>1. PICK n \in 0 .. MaxSlug : req' = [req EXCEPT ![t].slug = <<name, n>>, ![t].step = "insert"]
  BY DEF AllocateSlug
<1> DEFINE r == [req[t] EXCEPT !.slug = <<name, n>>, !.step = "insert"]
<1>2. req[t] \in Request
  BY DEF IInv, Types
<1>3. r \in Request /\ Same(req[t], r) /\ r.step = "insert"
  BY <1>2 DEF Request, Step, Same, Slug
<1>4. req' = [req EXCEPT ![t] = r]
  BY <1>1 DEF IInv, Types
<1> HIDE DEF r
<1> QED
  BY <1>3, <1>4 DEF Continues, AllocateSlug, history

LEMMA InsertMoves ==
  ASSUME IInv, NEW t \in Txn, NEW s \in Store, Insert(t, s)
  PROVE  \E v \in Row, r \in Request : Puts(t, s, v, r)
<1> DEFINE v == NewRow(req[t])
           r == [req[t] EXCEPT !.step = "commit", !.id = s]
<1>1. /\ req[t] \in Request /\ req[t].step = "insert" /\ req[t].slug \in Slug
      /\ req[t].serial \in 1 .. MaxSerial
  BY RegistryConstants DEF Insert, IInv, Types, Loaded, RequestOK, Numbered, Request
<1>2. NoSecrets \in Secrets /\ Merged(NoSecrets, req[t].given, req[t].serial) \in Secrets
  BY <1>1 DEF NoSecrets, Secrets, Merged, Request
<1>3. [p \in Platform |-> IF p = req[t].platform THEN req[t].domain ELSE None] \in Blocks
  BY <1>1 DEF Request, Blocks
<1>4. v \in Row /\ v # None /\ v.secrets = Merged(NoSecrets, req[t].given, req[t].serial)
  <2>1. v \in Row
    BY <1>1, <1>2, <1>3 DEF Row, NewRow, Request
  <2>2. v # None
    BY <2>1, RegistryConstants
  <2>3. v.secrets = Merged(NoSecrets, req[t].given, req[t].serial)
    BY DEF NewRow
  <2> QED
    BY <2>1, <2>2, <2>3
<1>5. \A p \in Platform : v.at[p] # None => req[t].platform = p /\ req[t].domain = v.at[p]
  BY DEF NewRow
<1>6. r \in Request /\ r.step = "commit" /\ r.id = s /\ Same(req[t], r)
  BY <1>1 DEF Request, Step, Same
<1>7. /\ pend' = [pend EXCEPT ![t][s] = v] /\ UNCHANGED <<row, serial, history>>
      /\ req' = [req EXCEPT ![t] = r]
  BY <1>1 DEF Insert, IInv, Types
<1>8. row[s] = None /\ Unlocked(t, s)
  BY DEF Insert, Fresh, Unlocked
<1>9. r.given = req[t].given /\ r.serial = req[t].serial
  BY <1>6 DEF Same
<1> HIDE DEF r, v
<1> QED
  BY <1>1, <1>4, <1>5, <1>6, <1>7, <1>8, <1>9 DEF Puts, history

\* What an update writes into the credentials of its row.
LEMMA WrittenCredentials ==
  ASSUME NEW r \in Request, LoadedBy(r), r.given # {} => r.kind = "onboard",
         r.kind = "onboard" => "credentials" \in r.sets, NEW now \in Row
  PROVE  LET w == Written(r, now) IN
         /\ \A p \in Platform : w.at[p] # None =>
              now.at[p] = w.at[p] \/ (r.platform = p /\ r.domain = w.at[p])
         /\ \/ w.secrets = now.secrets /\ r.seen.secrets = NewSecrets(r)
            \/ w.secrets = NewSecrets(r) /\ (~ReadBefore(r, now) => r.seen.secrets = now.secrets)
<1> DEFINE w == Written(r, now)
<1>1. r.seen \in Row /\ OwnBlock(r.seen) /\ r.platform \in Platform
  BY DEF LoadedBy, Request
<1>2. CASE ~NewCredentials(r)
  <2>1. w.at = now.at /\ w.secrets = now.secrets
    BY <1>2 DEF Written, Row
  <2>2. r.seen.secrets = NewSecrets(r)
    BY <1>2 DEF NewCredentials
  <2> QED
    BY <2>1, <2>2
<1>3. CASE NewCredentials(r)
  <2>1. w.at = NewAt(r) /\ w.secrets = NewSecrets(r)
    BY <1>3 DEF Written, Row
  <2>2. ~ReadBefore(r, now) => r.seen.secrets = now.secrets
    BY <1>3 DEF ReadBefore
  <2>3. "credentials" \in r.sets
    <3>1. CASE r.given = {}
      <4>1. NewSecrets(r) = r.seen.secrets
        BY <1>1, <3>1 DEF NewSecrets, Merged, Row, Secrets
      <4> QED
        BY <1>3, <4>1 DEF NewCredentials, NewAt
    <3> QED
      BY <3>1
  <2>4. \A p \in Platform : NewAt(r)[p] # None => r.platform = p /\ r.domain = NewAt(r)[p]
    BY <1>1, <2>3 DEF NewAt, LoadedBy, OwnBlock, Row, Blocks
  <2> QED
    BY <2>1, <2>2, <2>4
<1> QED
  BY <1>2, <1>3

LEMMA UpdateMoves ==
  ASSUME IInv, Intents, NEW t \in Txn, Update(t)
  PROVE  \/ \E r \in Request : Rests(t, r)
         \/ \E s \in Store, v \in Row, r \in Request : Puts(t, s, v, r)
<1> DEFINE r == [req[t] EXCEPT !.step = "commit"]
           q == req[t]
           s == req[t].id
<1>1. /\ q \in Request /\ q.step = "update" /\ LoadedBy(q) /\ q.serial \in 1 .. MaxSerial
      /\ q.given # {} => q.kind = "onboard"
      /\ q.kind = "onboard" => "credentials" \in q.sets
  BY RegistryConstants DEF Update, IInv, Types, Loaded, RequestOK, Numbered, Request, Intents
<1>2. s \in Store /\ row[s] # None /\ row[s] \in Row /\ OwnBlock(row[s])
  BY <1>1 DEF LoadedBy, IInv, Types, OwnBlocks
<1>3. r \in Request /\ r.step = "commit" /\ r.id = s /\ Same(q, r)
  BY <1>1 DEF Request, Step, Same
<1>4. req' = [req EXCEPT ![t] = r] /\ UNCHANGED <<row, serial, newest, contested>>
  BY DEF Update, Goto
<1>5. CASE Writes(q) /\ Unlocked(t, s) /\ pend' = [pend EXCEPT ![t][s] = Written(q, row[s])]
           /\ stale' = IF ReadBefore(q, row[s]) THEN stale \cup {s} ELSE stale
  <2> DEFINE v == Written(q, row[s])
  <2>1. v \in Row
    BY <1>1, <1>2, WrittenRight
  <2>2. v # None
    BY <2>1, RegistryConstants
  <2>3. \A p \in Platform : v.at[p] # None =>
          Holds(row[s], p, v.at[p]) \/ (q.platform = p /\ q.domain = v.at[p])
    BY <1>1, <1>2, WrittenCredentials DEF Holds
  <2>4. NewSecrets(q) = Merged(q.seen.secrets, r.given, r.serial)
    BY <1>3 DEF NewSecrets, Same
  <2>5. \/ v.secrets = row[s].secrets /\ q.seen.secrets = NewSecrets(q)
        \/ v.secrets = NewSecrets(q) /\ (~ReadBefore(q, row[s]) => q.seen.secrets = row[s].secrets)
    BY <1>1, <1>2, WrittenCredentials
  <2>6. stale \subseteq stale' /\ (ReadBefore(q, row[s]) => s \in stale')
    BY <1>5
  <2>7. pend' = [pend EXCEPT ![t][s] = v] /\ Unlocked(t, s)
    BY <1>5
  <2> HIDE DEF v, r
  <2>8. \/ v.secrets = row[s].secrets /\ q.seen.secrets = Merged(q.seen.secrets, r.given, r.serial)
        \/ /\ v.secrets = Merged(q.seen.secrets, r.given, r.serial)
           /\ s \notin stale' => q.seen.secrets = row[s].secrets
    BY <2>4, <2>5, <2>6
  <2>9. Puts(t, s, v, r)
    BY <1>1, <1>2, <1>3, <1>4, <2>2, <2>3, <2>6, <2>7, <2>8 DEF Puts
  <2> QED
    BY <1>2, <1>3, <2>1, <2>9
<1>6. CASE ~Writes(q) /\ UNCHANGED <<pend, stale>>
  <2>1. q.kind # "onboard"
    BY <1>6 DEF Writes
  <2> HIDE DEF r
  <2> QED
    BY <1>1, <1>3, <1>4, <1>6, <2>1 DEF Rests
<1> QED
  BY <1>5, <1>6 DEF Update

Moves(t) ==
  \/ \E r \in Request : Begins(t, r) \/ Continues(t, r) \/ Rests(t, r)
  \/ \E s \in Store, v \in Row, r \in Request : Puts(t, s, v, r)
  \/ Rollback(t) \/ Commit(t)

LEMMA NextMoves ==
  ASSUME IInv, Intents, Next
  PROVE  \E t \in Txn : Moves(t)
<1>1. PICK t \in Txn :
        \/ \E p \in Platform, d \in Domain \cup {None} : BeginCreate(t, p, d)
        \/ \E p \in Platform, d \in Domain, given \in SUBSET Kind, feed \in BOOLEAN :
              BeginOnboard(t, p, d, given, feed)
        \/ \E s \in Store, d \in Domain \cup {None}, sets \in SUBSET Column, act \in BOOLEAN :
             BeginPatch(t, s, d, sets, act)
        \/ \E s \in Store : BeginDeactivate(t, s)
        \/ \E s \in Store : Insert(t, s)
        \/ \E d \in Domain : AllocateSlug(t, d)
        \/ Lookup(t) \/ SlugClash(t) \/ Update(t) \/ Commit(t) \/ Fail(t)
  BY DEF Next
<1>2. SlugClash(t) \/ Fail(t) => Rollback(t)
  BY DEF SlugClash, Fail
<1>3. Moves(t)
  BY <1>1, <1>2, BeginMoves, LookupMoves, AllocateMoves, InsertMoves, UpdateMoves DEF Moves
<1> QED
  BY <1>3

LEMMA IntentsMove ==
  ASSUME IInv, Intents, NEW t \in Txn, Moves(t)
  PROVE  Intents'
<1>1. ASSUME NEW r \in Request, req' = [req EXCEPT ![t] = r],
             (r.given # {} => r.kind = "onboard")
             /\ (r.step = "update" /\ r.kind = "onboard" => "credentials" \in r.sets)
      PROVE  Intents'
  BY <1>1 DEF Intents, IInv, Types
<1>2. ASSUME NEW r \in Request, Begins(t, r) \/ Continues(t, r) \/ Rests(t, r) PROVE Intents'
  BY <1>1, <1>2 DEF Begins, Continues, Rests, Same, Intents
<1>3. ASSUME NEW s \in Store, NEW v \in Row, NEW r \in Request, Puts(t, s, v, r) PROVE Intents'
  BY <1>1, <1>3 DEF Puts, Same, Intents
<1>4. CASE Rollback(t) \/ Commit(t)
  BY <1>1, <1>4, NoRequestType DEF Rollback, Commit, NoRequest
<1> QED
  BY <1>2, <1>3, <1>4 DEF Moves

(***************************************************************************)
(* The secrets of a store are the newest                                   *)
(***************************************************************************)
\* The number n stands in no secret of x; x has only numbers given so far.
Lacks(x, n) == \A k \in Kind : x[k] # n
Issued(x, n) == \A k \in Kind : x[k] # None => x[k] <= n

\* Open requests have numbers of their own, and none of them stands in a version
\* that is not the request's.
Serials ==
  /\ \A t \in Txn : req[t].serial <= serial
  /\ \A t, u \in Txn : t # u /\ Open(t) /\ Open(u) => req[t].serial # req[u].serial
OthersLack(x, u) == \A t \in Txn \ {u} : Open(t) => Lacks(x, req[t].serial)
AllLack(x) == \A t \in Txn : Open(t) => Lacks(x, req[t].serial)
SecretsKnown ==
  /\ \A s \in Store : row[s] # None =>
       Issued(row[s].secrets, serial) /\ AllLack(row[s].secrets)
  /\ \A u \in Txn, s \in Store : pend[u][s] # None =>
       Issued(pend[u][s].secrets, serial) /\ OthersLack(pend[u][s].secrets, u)
  /\ \A u \in Txn : req[u].step = "update" =>
       Issued(req[u].seen.secrets, serial) /\ AllLack(req[u].seen.secrets)

\* A request writes the row it names; one that wrote nothing has nothing to give.
Writer == \A t \in Txn, s \in Store : pend[t][s] # None => req[t].id = s
Nothing ==
  \A t \in Txn : req[t].step = "commit" /\ pend[t][req[t].id] = None => req[t].given = {}

\* The newest secrets of a row, and of the version that is to become one.
Unborn == \A s \in Store : row[s] = None => newest[s] = NoSecrets
NewestRows == \A s \in Store : row[s] # None /\ s \notin stale => row[s].secrets = newest[s]
NewestPend ==
  \A t \in Txn, s \in Store : pend[t][s] # None /\ s \notin stale =>
    pend[t][s].secrets = Merged(newest[s], req[t].given, req[t].serial)

SecretsInv ==
  /\ Serials /\ SecretsKnown /\ Writer /\ Nothing /\ Unborn /\ NewestRows /\ NewestPend

LEMMA MergedNothing ==
  ASSUME NEW x \in Secrets, NEW n
  PROVE  Merged(x, {}, n) = x
BY DEF Merged, Secrets

\* A merge that changes nothing although its number is new gave nothing.
LEMMA MergedSame ==
  ASSUME NEW x \in Secrets, NEW given \in SUBSET Kind, NEW n, Lacks(x, n), x = Merged(x, given, n)
  PROVE  given = {}
BY DEF Merged, Secrets, Lacks

LEMMA MergedLacks ==
  ASSUME NEW x, NEW given, NEW n, NEW m, Lacks(x, m), m # n
  PROVE  Lacks(Merged(x, given, n), m)
BY DEF Merged, Lacks

LEMMA MergedIssued ==
  ASSUME NEW x \in Secrets, NEW given, NEW n \in Nat, NEW m \in Nat, Issued(x, m), n <= m
  PROVE  Issued(Merged(x, given, n), m)
BY DEF Merged, Issued

LEMMA SerialTypes ==
  ASSUME IInv
  PROVE  /\ MaxSerial \in Nat /\ serial \in Nat /\ None \notin 1 .. MaxSerial
         /\ \A t \in Txn : req[t].serial \in Nat /\ (Open(t) => req[t].serial \in 1 .. MaxSerial)
         /\ \A s \in Store : row[s] # None => row[s].secrets \in Secrets
         /\ \A t \in Txn, s \in Store : pend[t][s] # None => pend[t][s].secrets \in Secrets
         /\ \A t \in Txn : req[t].step = "update" => req[t].seen.secrets \in Secrets
<1>1. MaxSerial \in Nat /\ serial \in Nat /\ None \notin 1 .. MaxSerial
  BY RegistryConstants DEF IInv, Types
<1>2. \A t \in Txn : req[t].serial \in Nat /\ (Open(t) => req[t].serial \in 1 .. MaxSerial)
  BY <1>1 DEF IInv, Types, Numbered, Open, Request
<1>3. \A s \in Store : row[s] # None => row[s].secrets \in Secrets
  BY DEF IInv, Types, Row
<1>4. \A t \in Txn, s \in Store : pend[t][s] # None => pend[t][s].secrets \in Secrets
  BY DEF IInv, Types, Row
<1>5. \A t \in Txn : req[t].step = "update" => req[t].seen.secrets \in Secrets
  BY DEF IInv, Loaded, RequestOK, LoadedBy, Row
<1> QED
  BY <1>1, <1>2, <1>3, <1>4, <1>5

\* A new request has a number nobody has seen.
LEMMA BeginsSerials ==
  ASSUME IInv, SecretsInv, NEW t \in Txn, NEW r \in Request, Begins(t, r)
  PROVE  Serials' /\ SecretsKnown'
<1>1. /\ \A u \in Txn \ {t} : req'[u] = req[u]
      /\ req'[t] = r /\ r.serial = serial + 1 /\ serial' = serial + 1 /\ row' = row /\ pend' = pend
      /\ r.step = "update" => r.id \in Store /\ row[r.id] # None /\ r.seen = row[r.id]
      /\ Open(t)' /\ ~Open(t)
  BY DEF Begins, IInv, Types, Open
<1>2. \A u \in Txn \ {t} : Open(u)' = Open(u)
  BY <1>1 DEF Open
<1>3. serial \in Nat /\ \A u \in Txn : req[u].serial \in Nat /\ req[u].serial <= serial
  BY SerialTypes DEF SecretsInv, Serials
<1>4. Serials'
  BY <1>1, <1>2, <1>3 DEF SecretsInv, Serials
<1>5. ASSUME NEW x \in Secrets, Issued(x, serial)
      PROVE  Issued(x, serial + 1) /\ Lacks(x, serial + 1)
  <2>1. \A k \in Kind : x[k] # None => x[k] \in Nat /\ x[k] <= serial
    BY <1>5, SerialTypes DEF Secrets, Issued
  <2>2. None # serial + 1
    BY RegistryConstants DEF Begins
  <2> QED
    BY <1>3, <2>1, <2>2 DEF Issued, Lacks
<1>6. ASSUME NEW x \in Secrets, Issued(x, serial)
      PROVE  /\ AllLack(x) => \A w \in Txn : Open(w)' => Lacks(x, req'[w].serial)
             /\ \A u \in Txn : OthersLack(x, u) =>
                  \A w \in Txn \ {u} : Open(w)' => Lacks(x, req'[w].serial)
  BY <1>1, <1>2, <1>5, <1>6 DEF OthersLack, AllLack
<1>7. ASSUME NEW s \in Store, row'[s] # None
      PROVE  /\ Issued(row[s].secrets, serial + 1)
             /\ \A w \in Txn : Open(w)' => Lacks(row[s].secrets, req'[w].serial)
  <2>1. /\ row[s].secrets \in Secrets /\ Issued(row[s].secrets, serial)
        /\ AllLack(row[s].secrets)
    BY <1>1, <1>7, SerialTypes DEF SecretsInv, SecretsKnown
  <2> QED
    BY <1>5, <1>6, <2>1
<1>8. ASSUME NEW u \in Txn, NEW s \in Store, pend'[u][s] # None
      PROVE  /\ Issued(pend[u][s].secrets, serial + 1)
             /\ \A w \in Txn \ {u} : Open(w)' => Lacks(pend[u][s].secrets, req'[w].serial)
  <2>1. /\ pend[u][s].secrets \in Secrets /\ Issued(pend[u][s].secrets, serial)
        /\ OthersLack(pend[u][s].secrets, u)
    BY <1>1, <1>8, SerialTypes DEF SecretsInv, SecretsKnown
  <2> QED
    BY <1>5, <1>6, <2>1
<1>9. ASSUME NEW u \in Txn, req'[u].step = "update"
      PROVE  /\ Issued(req'[u].seen.secrets, serial + 1)
             /\ \A w \in Txn : Open(w)' => Lacks(req'[u].seen.secrets, req'[w].serial)
  <2>1. CASE u # t
    <3>1. /\ req[u].seen.secrets \in Secrets /\ Issued(req[u].seen.secrets, serial)
          /\ AllLack(req[u].seen.secrets)
      BY <1>1, <1>9, <2>1, SerialTypes DEF SecretsInv, SecretsKnown
    <3> QED
      BY <1>1, <1>5, <1>6, <2>1, <3>1
  <2>2. CASE u = t
    <3>1. r.id \in Store /\ row'[r.id] # None /\ req'[u].seen.secrets = row[r.id].secrets
      BY <1>1, <1>9, <2>2
    <3> QED
      BY <1>7, <3>1
  <2> QED
    BY <2>1, <2>2
<1>10. SecretsKnown'
  BY <1>1, <1>7, <1>8, <1>9 DEF SecretsKnown, OthersLack, AllLack
<1> QED
  BY <1>4, <1>10

\* Requests that go on keep their numbers.
LEMMA NumbersStay ==
  ASSUME SecretsInv, serial' = serial,
         \A w \in Txn : Open(w)' => Open(w) /\ req'[w].serial = req[w].serial,
         \A w \in Txn : req'[w].serial <= serial
  PROVE  /\ Serials'
         /\ \A x, u : OthersLack(x, u) => \A w \in Txn \ {u} : Open(w)' => Lacks(x, req'[w].serial)
         /\ \A x : AllLack(x) => \A w \in Txn : Open(w)' => Lacks(x, req'[w].serial)
BY DEF SecretsInv, Serials, OthersLack, AllLack

\* A request that writes nothing leaves the newest secrets where they are.
LEMMA QuietNewest ==
  ASSUME IInv, SecretsInv, NEW t \in Txn, NEW r \in Request, req' = [req EXCEPT ![t] = r],
         req[t].step # "commit", UNCHANGED <<row, pend, newest, stale>>,
         r.step = "commit" => r.given = {}
  PROVE  Writer' /\ Nothing' /\ Unborn' /\ NewestRows' /\ NewestPend'
<1>1. /\ \A s \in Store : pend[t][s] = None
      /\ \A u \in Txn \ {t} : req'[u] = req[u]
      /\ req'[t] = r
  BY DEF IInv, Types, WritesAtEnd
<1>2. Writer' /\ Nothing'
  BY <1>1 DEF SecretsInv, Writer, Nothing
<1>3. Unborn' /\ NewestRows' /\ NewestPend'
  BY <1>1 DEF SecretsInv, Unborn, NewestRows, NewestPend
<1> QED
  BY <1>2, <1>3

LEMMA ContinuesSecrets ==
  ASSUME IInv, SecretsInv, Intents, NEW t \in Txn, NEW r \in Request,
         Continues(t, r) \/ Rests(t, r)
  PROVE  SecretsInv'
<1>1. /\ req' = [req EXCEPT ![t] = r] /\ Same(req[t], r) /\ Open(t) /\ req[t].step # "commit"
      /\ UNCHANGED <<row, pend, serial, newest, stale>>
  BY DEF Continues, Rests, Open
<1>2. r.step = "commit" => r.given = {}
  BY DEF Continues, Rests, Intents, Same
<1>3. Writer' /\ Nothing' /\ Unborn' /\ NewestRows' /\ NewestPend'
  BY <1>1, <1>2, QuietNewest
<1>4. /\ \A u \in Txn \ {t} : req'[u] = req[u]
      /\ req'[t] = r /\ r.serial = req[t].serial
  BY <1>1 DEF IInv, Types, Same
<1>5. /\ \A w \in Txn : Open(w)' => Open(w) /\ req'[w].serial = req[w].serial
      /\ \A w \in Txn : req'[w].serial <= serial
  BY <1>1, <1>4 DEF Open, SecretsInv, Serials
<1>6. /\ Serials'
      /\ \A x, u : OthersLack(x, u) => \A w \in Txn \ {u} : Open(w)' => Lacks(x, req'[w].serial)
      /\ \A x : AllLack(x) => \A w \in Txn : Open(w)' => Lacks(x, req'[w].serial)
  BY <1>1, <1>5, NumbersStay
<1>7. ASSUME NEW s \in Store, row'[s] # None
      PROVE  Issued(row'[s].secrets, serial') /\ AllLack(row[s].secrets)'
  BY <1>1, <1>6, <1>7 DEF SecretsInv, SecretsKnown, AllLack
<1>8. ASSUME NEW u \in Txn, NEW s \in Store, pend'[u][s] # None
      PROVE  Issued(pend'[u][s].secrets, serial') /\ OthersLack(pend[u][s].secrets, u)'
  BY <1>1, <1>6, <1>8 DEF SecretsInv, SecretsKnown, OthersLack
<1>9. ASSUME NEW u \in Txn, req'[u].step = "update"
      PROVE  Issued(req'[u].seen.secrets, serial') /\ AllLack(req[u].seen.secrets)'
  <2>1. CASE u # t
    BY <1>1, <1>4, <1>6, <1>9, <2>1 DEF SecretsInv, SecretsKnown, AllLack
  <2>2. CASE u = t
    <3>1. r.id \in Store /\ row[r.id] # None /\ r.seen = row[r.id]
      BY <1>4, <1>9, <2>2 DEF Continues, Rests
    <3>2. Issued(row[r.id].secrets, serial) /\ AllLack(row[r.id].secrets)
      BY <3>1 DEF SecretsInv, SecretsKnown
    <3> QED
      BY <1>1, <1>4, <1>6, <2>2, <3>1, <3>2 DEF AllLack
  <2> QED
    BY <2>1, <2>2
<1> QED
  BY <1>3, <1>6, <1>7, <1>8, <1>9 DEF SecretsInv, SecretsKnown

LEMMA PutsSecrets ==
  ASSUME IInv, SecretsInv, NEW t \in Txn, NEW s \in Store, NEW v \in Row, NEW r \in Request,
         Puts(t, s, v, r)
  PROVE  SecretsInv'
<1>1. /\ req' = [req EXCEPT ![t] = r] /\ Same(req[t], r) /\ Open(t) /\ req[t].step # "commit"
      /\ r.id = s /\ r.step = "commit" /\ pend' = [pend EXCEPT ![t][s] = v] /\ v # None
      /\ Unlocked(t, s) /\ UNCHANGED <<row, serial, newest>> /\ stale \subseteq stale'
  BY DEF Puts, Open
<1>2. /\ \A u \in Txn \ {t} : req'[u] = req[u] /\ pend'[u] = pend[u] /\ pend[u][s] = None
      /\ req'[t] = r /\ r.serial = req[t].serial /\ r.given = req[t].given
      /\ \A z \in Store \ {s} : pend'[t][z] = None
      /\ pend'[t][s] = v
  BY <1>1 DEF IInv, Types, Same, WritesAtEnd, Unlocked
<1>3. /\ \A w \in Txn : Open(w)' => Open(w) /\ req'[w].serial = req[w].serial
      /\ \A w \in Txn : req'[w].serial <= serial
  BY <1>1, <1>2 DEF Open, SecretsInv, Serials
<1>4. /\ Serials'
      /\ \A x, u : OthersLack(x, u) => \A w \in Txn \ {u} : Open(w)' => Lacks(x, req'[w].serial)
      /\ \A x : AllLack(x) => \A w \in Txn : Open(w)' => Lacks(x, req'[w].serial)
  BY <1>1, <1>3, NumbersStay
<1>5. Writer' /\ Nothing'
  BY <1>1, <1>2 DEF SecretsInv, Writer, Nothing
<1>6. Unborn' /\ NewestRows'
  BY <1>1 DEF SecretsInv, Unborn, NewestRows
<1>7. /\ r.serial \in Nat /\ r.serial \in 1 .. MaxSerial /\ r.serial <= serial /\ serial \in Nat
      /\ r.given \in SUBSET Kind
  BY <1>1, <1>2, SerialTypes DEF SecretsInv, Serials, Request
<1>8. ASSUME NEW x \in Secrets, Issued(x, serial), AllLack(x)
      PROVE  /\ Issued(Merged(x, r.given, r.serial), serial)
             /\ OthersLack(Merged(x, r.given, r.serial), t)
  <2>1. Issued(Merged(x, r.given, r.serial), serial)
    BY <1>7, <1>8, MergedIssued
  <2>2. ASSUME NEW w \in Txn \ {t}, Open(w) PROVE Lacks(Merged(x, r.given, r.serial), req[w].serial)
    <3>1. Lacks(x, req[w].serial) /\ req[w].serial # r.serial
      BY <1>1, <1>2, <1>8, <2>2 DEF AllLack, SecretsInv, Serials
    <3> QED
      BY <3>1, MergedLacks
  <2> QED
    BY <2>1, <2>2 DEF OthersLack
<1>9. ASSUME req[t].step = "insert", row[s] = None, v.secrets = Merged(NoSecrets, r.given, r.serial)
      PROVE  /\ Issued(v.secrets, serial) /\ OthersLack(v.secrets, t)
             /\ s \notin stale' => v.secrets = Merged(newest[s], r.given, r.serial)
  <2>1. NoSecrets \in Secrets /\ Issued(NoSecrets, serial)
    BY DEF NoSecrets, Secrets, Issued
  <2>2. AllLack(NoSecrets)
    BY SerialTypes DEF NoSecrets, AllLack, Lacks
  <2>3. newest[s] = NoSecrets
    BY <1>9 DEF SecretsInv, Unborn
  <2> QED
    BY <1>8, <1>9, <2>1, <2>2, <2>3
<1>10. ASSUME req[t].step = "update", row[s] # None, v.secrets = row[s].secrets,
             req[t].seen.secrets = Merged(req[t].seen.secrets, r.given, r.serial)
      PROVE  /\ Issued(v.secrets, serial) /\ OthersLack(v.secrets, t)
             /\ s \notin stale' => v.secrets = Merged(newest[s], r.given, r.serial)
  <2>1. req[t].seen.secrets \in Secrets /\ Lacks(req[t].seen.secrets, r.serial)
    BY <1>1, <1>2, <1>10, SerialTypes DEF SecretsInv, SecretsKnown, AllLack
  <2>2. r.given = {}
    BY <1>7, <1>10, <2>1, MergedSame
  <2>3. Issued(v.secrets, serial) /\ OthersLack(v.secrets, t)
    BY <1>10 DEF SecretsInv, SecretsKnown, AllLack, OthersLack
  <2>4. row[s].secrets \in Secrets
    BY <1>10, SerialTypes
  <2>5. s \notin stale' => v.secrets = Merged(newest[s], r.given, r.serial)
    BY <1>1, <1>10, <2>2, <2>4, MergedNothing DEF SecretsInv, NewestRows
  <2> QED
    BY <2>3, <2>5
<1>11. ASSUME req[t].step = "update", row[s] # None,
             v.secrets = Merged(req[t].seen.secrets, r.given, r.serial),
             s \notin stale' => req[t].seen.secrets = row[s].secrets
      PROVE  /\ Issued(v.secrets, serial) /\ OthersLack(v.secrets, t)
             /\ s \notin stale' => v.secrets = Merged(newest[s], r.given, r.serial)
  <2>1. /\ req[t].seen.secrets \in Secrets /\ Issued(req[t].seen.secrets, serial)
        /\ AllLack(req[t].seen.secrets)
    BY <1>11, SerialTypes DEF SecretsInv, SecretsKnown
  <2>2. s \notin stale' => v.secrets = Merged(newest[s], r.given, r.serial)
    BY <1>1, <1>11 DEF SecretsInv, NewestRows
  <2> QED
    BY <1>8, <1>11, <2>1, <2>2
<1>12. /\ Issued(v.secrets, serial) /\ OthersLack(v.secrets, t)
       /\ s \notin stale' => v.secrets = Merged(newest[s], r.given, r.serial)
  BY <1>9, <1>10, <1>11 DEF Puts
<1>13. NewestPend'
  BY <1>1, <1>2, <1>12 DEF SecretsInv, NewestPend
<1>14. ASSUME NEW z \in Store, row'[z] # None
       PROVE  Issued(row'[z].secrets, serial') /\ AllLack(row[z].secrets)'
  BY <1>1, <1>4, <1>14 DEF SecretsInv, SecretsKnown, AllLack
<1>15. ASSUME NEW u \in Txn, NEW z \in Store, pend'[u][z] # None
       PROVE  Issued(pend'[u][z].secrets, serial') /\ OthersLack(pend[u][z].secrets, u)'
  <2>1. pend'[u][z] = pend[u][z] \/ (u = t /\ z = s /\ pend'[u][z] = v)
    BY <1>1, <1>2, <1>15
  <2>2. Issued(pend'[u][z].secrets, serial) /\ OthersLack(pend'[u][z].secrets, u)
    BY <1>12, <1>15, <2>1 DEF SecretsInv, SecretsKnown
  <2>3. \A w \in Txn \ {u} : Open(w)' => Lacks(pend'[u][z].secrets, req'[w].serial)
    BY <1>4, <2>2
  <2> QED
    BY <1>1, <2>2, <2>3 DEF OthersLack
<1>16. ASSUME NEW u \in Txn, req'[u].step = "update"
       PROVE  Issued(req'[u].seen.secrets, serial') /\ AllLack(req[u].seen.secrets)'
  <2>1. u # t
    BY <1>1, <1>2, <1>16
  <2> QED
    BY <1>1, <1>2, <1>4, <1>16, <2>1 DEF SecretsInv, SecretsKnown, AllLack
<1> QED
  BY <1>4, <1>5, <1>6, <1>13, <1>14, <1>15, <1>16 DEF SecretsInv, SecretsKnown

LEMMA RollbackSecrets ==
  ASSUME IInv, SecretsInv, NEW t \in Txn, Rollback(t)
  PROVE  SecretsInv'
<1>1. /\ \A u \in Txn \ {t} : req'[u] = req[u] /\ pend'[u] = pend[u]
      /\ req'[t] = NoRequest /\ \A s \in Store : pend'[t][s] = None
      /\ UNCHANGED <<row, serial, newest, stale>>
  BY DEF Rollback, history, IInv, Types
<1>2. NoRequest.step = "idle" /\ NoRequest.serial = 0 /\ NoRequest.given = {} /\ serial \in Nat
  BY SerialTypes DEF NoRequest
<1>3. /\ \A w \in Txn : Open(w)' => Open(w) /\ req'[w].serial = req[w].serial
      /\ \A w \in Txn : req'[w].serial <= serial
  BY <1>1, <1>2 DEF Open, SecretsInv, Serials
<1>4. /\ Serials'
      /\ \A x, u : OthersLack(x, u) => \A w \in Txn \ {u} : Open(w)' => Lacks(x, req'[w].serial)
      /\ \A x : AllLack(x) => \A w \in Txn : Open(w)' => Lacks(x, req'[w].serial)
  BY <1>1, <1>3, NumbersStay
<1>5. SecretsKnown'
  <2>1. ASSUME NEW s \in Store, row'[s] # None
        PROVE  Issued(row'[s].secrets, serial') /\ AllLack(row[s].secrets)'
    BY <1>1, <1>4, <2>1 DEF SecretsInv, SecretsKnown, AllLack
  <2>2. ASSUME NEW u \in Txn, NEW s \in Store, pend'[u][s] # None
        PROVE  Issued(pend'[u][s].secrets, serial') /\ OthersLack(pend[u][s].secrets, u)'
    BY <1>1, <1>4, <2>2 DEF SecretsInv, SecretsKnown, OthersLack
  <2>3. ASSUME NEW u \in Txn, req'[u].step = "update"
        PROVE  Issued(req'[u].seen.secrets, serial') /\ AllLack(req[u].seen.secrets)'
    BY <1>1, <1>2, <1>4, <2>3 DEF SecretsInv, SecretsKnown, AllLack
  <2> QED
    BY <2>1, <2>2, <2>3 DEF SecretsKnown
<1>6. Writer' /\ Nothing' /\ Unborn' /\ NewestRows' /\ NewestPend'
  BY <1>1, <1>2 DEF SecretsInv, Writer, Nothing, Unborn, NewestRows, NewestPend
<1> QED
  BY <1>4, <1>5, <1>6 DEF SecretsInv

\* A commit gives the store the secrets its version was computed from.
LEMMA CommitSecrets ==
  ASSUME IInv, SecretsInv, NEW t \in Txn, Commit(t)
  PROVE  SecretsInv'
<1> DEFINE id == req[t].id
<1>1. /\ \A u \in Txn \ {t} : req'[u] = req[u] /\ pend'[u] = pend[u]
      /\ req'[t] = NoRequest /\ \A s \in Store : pend'[t][s] = None
      /\ UNCHANGED <<serial, stale>> /\ id \in Store /\ Open(t) /\ req[t].step = "commit"
  BY DEF Commit, IInv, Types, Loaded, RequestOK, Open
<1>2. NoRequest.step = "idle" /\ NoRequest.serial = 0 /\ NoRequest.given = {} /\ serial \in Nat
  BY SerialTypes DEF NoRequest
<1>3. /\ \A w \in Txn : Open(w)' => Open(w) /\ req'[w].serial = req[w].serial
      /\ \A w \in Txn : req'[w].serial <= serial
  BY <1>1, <1>2 DEF Open, SecretsInv, Serials
<1>4. /\ Serials'
      /\ \A x, u : OthersLack(x, u) => \A w \in Txn \ {u} : Open(w)' => Lacks(x, req'[w].serial)
      /\ \A x : AllLack(x) => \A w \in Txn : Open(w)' => Lacks(x, req'[w].serial)
  BY <1>1, <1>3, NumbersStay
<1>5. /\ \A s \in Store \ {id} : row'[s] = row[s] /\ newest'[s] = newest[s]
      /\ row'[id] = IF pend[t][id] # None THEN pend[t][id] ELSE row[id]
      /\ newest'[id] = Merged(newest[id], req[t].given, req[t].serial)
  BY <1>1 DEF Commit, IInv, Types, SecretsInv, Writer, Merged
<1>6. newest[id] \in Secrets
  BY <1>1 DEF IInv, Types
<1>7. pend[t][id] = None => newest'[id] = newest[id]
  <2>1. ASSUME pend[t][id] = None PROVE req[t].given = {}
    BY <1>1, <2>1 DEF SecretsInv, Nothing
  <2>2. Merged(newest[id], {}, req[t].serial) = newest[id]
    BY <1>6, MergedNothing
  <2> QED
    BY <1>5, <2>1, <2>2
<1>8. \A u \in Txn \ {t} : pend[u][id] # None => pend[t][id] = None
  BY <1>1 DEF IInv, OneWriter
<1>9. Writer' /\ Nothing'
  BY <1>1, <1>2 DEF SecretsInv, Writer, Nothing
<1>10. Unborn'
  BY <1>1, <1>5, <1>7 DEF SecretsInv, Unborn
<1>11. NewestRows'
  BY <1>1, <1>5, <1>7 DEF SecretsInv, NewestRows, NewestPend
<1>12. NewestPend'
  BY <1>1, <1>5, <1>7, <1>8 DEF SecretsInv, NewestPend
<1>13. ASSUME NEW s \in Store, row'[s] # None
       PROVE  Issued(row'[s].secrets, serial') /\ AllLack(row[s].secrets)'
  <2>1. CASE row'[s] = row[s]
    BY <1>1, <1>4, <1>13, <2>1 DEF SecretsInv, SecretsKnown, AllLack
  <2>2. CASE s = id /\ pend[t][id] # None /\ row'[s] = pend[t][id]
    <3>1. Issued(pend[t][id].secrets, serial) /\ OthersLack(pend[t][id].secrets, t)
      BY <1>1, <2>2 DEF SecretsInv, SecretsKnown
    <3>2. \A w \in Txn : Open(w)' => w \in Txn \ {t}
      BY <1>1, <1>2 DEF Open
    <3>3. \A w \in Txn : Open(w)' => Lacks(pend[t][id].secrets, req'[w].serial)
      BY <1>4, <3>1, <3>2
    <3> QED
      BY <1>1, <2>2, <3>1, <3>3 DEF AllLack
  <2> QED
    BY <1>5, <2>1, <2>2
<1>14. ASSUME NEW u \in Txn, NEW s \in Store, pend'[u][s] # None
       PROVE  Issued(pend'[u][s].secrets, serial') /\ OthersLack(pend[u][s].secrets, u)'
  BY <1>1, <1>4, <1>14 DEF SecretsInv, SecretsKnown, OthersLack
<1>15. ASSUME NEW u \in Txn, req'[u].step = "update"
       PROVE  Issued(req'[u].seen.secrets, serial') /\ AllLack(req[u].seen.secrets)'
  BY <1>1, <1>2, <1>4, <1>15 DEF SecretsInv, SecretsKnown, AllLack
<1> QED
  BY <1>4, <1>9, <1>10, <1>11, <1>12, <1>13, <1>14, <1>15 DEF SecretsInv, SecretsKnown

LEMMA BeginsSecrets ==
  ASSUME IInv, SecretsInv, NEW t \in Txn, NEW r \in Request, Begins(t, r)
  PROVE  SecretsInv'
<1>1. /\ req' = [req EXCEPT ![t] = r] /\ req[t].step # "commit" /\ r.step # "commit"
      /\ UNCHANGED <<row, pend, newest, stale>>
  BY DEF Begins, Open
<1> QED
  BY <1>1, BeginsSerials, QuietNewest DEF SecretsInv

LEMMA IntentsStep == IInv /\ Intents /\ [Next]_vars => Intents'
<1>1. IInv /\ Intents /\ Next => Intents'
  BY NextMoves, IntentsMove
<1>2. Intents /\ UNCHANGED vars => Intents'
  BY DEF Intents, vars
<1> QED
  BY <1>1, <1>2

LEMMA IntentsInit == Init => Intents
BY DEF Init, Intents, NoRequest

LEMMA SecretsStep == IInv /\ Intents /\ SecretsInv /\ [Next]_vars => SecretsInv'
<1> SUFFICES ASSUME IInv, Intents, SecretsInv, [Next]_vars PROVE SecretsInv'
  OBVIOUS
<1>1. CASE UNCHANGED vars
  BY <1>1 DEF vars, history, SecretsInv, Serials, SecretsKnown, OthersLack, AllLack, Open,
              Writer, Nothing, Unborn, NewestRows, NewestPend
<1>2. ASSUME NEW t \in Txn, Moves(t) PROVE SecretsInv'
  BY <1>2, BeginsSecrets, ContinuesSecrets, PutsSecrets, RollbackSecrets, CommitSecrets DEF Moves
<1> QED
  BY <1>1, <1>2, NextMoves

LEMMA SecretsInit == Init => SecretsInv
<1> SUFFICES ASSUME Init PROVE SecretsInv
  OBVIOUS
<1>1. Serials
  BY DEF Init, Serials, Open, NoRequest
<1> QED
  BY <1>1 DEF Init, SecretsInv, SecretsKnown, Writer, Nothing, Unborn, NewestRows, NewestPend,
              NoRequest

\* Through any number of partial reconnects and patches, each secret of a store
\* is the one last committed for it, unless a request that had read before
\* another's commit wrote the credentials back.
THEOREM SecretsAreNewest == Spec => []SecretsNewest
<1>1. SecretsInv => SecretsNewest
  BY DEF SecretsInv, NewestRows, SecretsNewest, Stores
<1> QED
  BY <1>1, InvInit, InvStep, IntentsInit, IntentsStep, SecretsInit, SecretsStep, PTL DEF Spec

(***************************************************************************)
(* A domain of a platform has one store                                    *)
(***************************************************************************)
Free(p, d) == d # None /\ <<p, d>> \notin contested

\* Store s has the domain, in its row or in a version about to be committed.
Holder(s, p, d) == Holds(row[s], p, d) \/ \E t \in Txn : Holds(pend[t][s], p, d)
HoldersApart ==
  \A p \in Platform, d \in Domain, s, z \in Store :
    Free(p, d) /\ Holder(s, p, d) /\ Holder(z, p, d) => s = z

\* What an onboarding found out stays true: nobody has its domain, or only the
\* store it chose.
Claim(r) ==
  r.kind = "onboard" /\ r.step \in {"slug", "insert", "update", "commit"}
    /\ Free(r.platform, r.domain) =>
      \A s \in Store : Holder(s, r.platform, r.domain) =>
        r.step \in {"update", "commit"} /\ s = r.id
Claims == \A t \in Txn : Claim(req[t])

\* Two requests that onboard a domain contest it, and one that gives it away
\* without a lookup does.
Rivals ==
  \A t, u \in Txn :
    t # u /\ Open(t) /\ Onboards(req[u], req[t].platform, req[t].domain) /\ req[t].kind = "onboard"
      => ~Free(req[t].platform, req[t].domain)
Givers ==
  \A t \in Txn :
    Open(t) /\ req[t].kind # "onboard" => ~Free(req[t].platform, req[t].domain)

\* A version has its row's domain or the one its request brought.
PendGiven ==
  \A t \in Txn, s \in Store, p \in Platform :
    pend[t][s] # None /\ pend[t][s].at[p] # None =>
      \/ Holds(row[s], p, pend[t][s].at[p])
      \/ req[t].platform = p /\ req[t].domain = pend[t][s].at[p]

DomainInv == HoldersApart /\ Claims /\ Rivals /\ Givers /\ PendGiven

\* Only a request about to commit has versions.
LEMMA PendOpen ==
  ASSUME IInv, NEW u \in Txn, NEW s \in Store, pend[u][s] # None
  PROVE  Open(u) /\ req[u].step = "commit"
BY DEF IInv, WritesAtEnd, Open

\* Nobody else's request brings a free domain that a request onboards.
LEMMA NoRival ==
  ASSUME Rivals, Givers, NEW t \in Txn, NEW u \in Txn, t # u, Open(t), Open(u),
         req[t].kind = "onboard", Free(req[t].platform, req[t].domain)
  PROVE  ~(req[u].platform = req[t].platform /\ req[u].domain = req[t].domain)
BY DEF Rivals, Givers, Onboards, Open

\* A request that only goes on: the holders stay, and nobody gives a domain anew.
LEMMA SameDomains ==
  ASSUME IInv, DomainInv, NEW t \in Txn, NEW r \in Request, req' = [req EXCEPT ![t] = r],
         Same(req[t], r), Open(t), r.step # "idle", req[t].step # "commit",
         UNCHANGED <<row, pend, contested>>, Claim(r)
  PROVE  DomainInv'
<1>1. /\ \A u \in Txn \ {t} : req'[u] = req[u]
      /\ req'[t] = r /\ r.kind = req[t].kind /\ r.platform = req[t].platform /\ r.domain = req[t].domain
      /\ \A u \in Txn : Open(u)' <=> Open(u)
  BY DEF IInv, Types, Same, Open
<1>2. HoldersApart'
  BY DEF DomainInv, HoldersApart, Free, Holder, Holds
<1>3. Claims'
  BY <1>1 DEF DomainInv, Claims, Claim, Free, Holder, Holds
<1>4. Rivals' /\ Givers'
  BY <1>1 DEF DomainInv, Rivals, Givers, Free, Onboards, Open
<1>5. PendGiven'
  BY <1>1 DEF DomainInv, PendGiven, Holds
<1> QED
  BY <1>2, <1>3, <1>4, <1>5 DEF DomainInv

LEMMA ContinuesDomain ==
  ASSUME IInv, DomainInv, NEW t \in Txn, NEW r \in Request, Continues(t, r) \/ Rests(t, r)
  PROVE  DomainInv'
<1>1. /\ req' = [req EXCEPT ![t] = r] /\ Same(req[t], r) /\ Open(t) /\ r.step # "idle"
      /\ req[t].step # "commit" /\ UNCHANGED <<row, pend, contested>>
  BY DEF Continues, Rests, Open
<1>2. /\ r.kind = req[t].kind /\ r.platform = req[t].platform /\ r.domain = req[t].domain
      /\ r.platform \in Platform /\ (r.domain # None => r.domain \in Domain)
  BY <1>1 DEF Same, Request
<1>3. Claim(r)
  <2>1. CASE /\ req[t].step = "lookup" /\ r.step = "update" /\ r.id \in Store
             /\ Holds(row[r.id], r.platform, r.domain)
    <3>1. Holder(r.id, r.platform, r.domain)
      BY <2>1 DEF Holder
    <3> QED
      BY <1>2, <2>1, <3>1 DEF Claim, DomainInv, HoldersApart, Free
  <2>2. CASE /\ req[t].step = "lookup" /\ r.step = "slug"
             /\ \A s \in Store : ~Holds(row[s], r.platform, r.domain)
    <3>1. ASSUME r.kind = "onboard", Free(r.platform, r.domain), NEW s \in Store,
                 Holder(s, r.platform, r.domain)
          PROVE  FALSE
      <4>1. PICK u \in Txn : Holds(pend[u][s], r.platform, r.domain)
        BY <2>2, <3>1 DEF Holder
      <4>2. /\ pend[u][s] # None /\ pend[u][s].at[r.platform] = r.domain /\ r.domain # None
            /\ u # t
        BY <1>1, <3>1, <4>1 DEF Holds, Free, IInv, WritesAtEnd
      <4>3. req[u].platform = r.platform /\ req[u].domain = r.domain
        BY <1>2, <2>2, <4>2 DEF DomainInv, PendGiven
      <4>4. Open(u)
        BY <4>2, PendOpen
      <4> QED
        BY <1>1, <1>2, <3>1, <4>2, <4>3, <4>4, NoRival DEF DomainInv
    <3> QED
      BY <3>1 DEF Claim
  <2>3. CASE req[t].step = "slug" /\ r.step = "insert"
    BY <1>2, <2>3 DEF DomainInv, Claims, Claim
  <2>4. CASE Rests(t, r)
    BY <1>2, <2>4 DEF Rests, Claim
  <2> QED
    BY <2>1, <2>2, <2>3, <2>4 DEF Continues
<1> QED
  BY <1>1, <1>3, SameDomains

\* A new request has no claim yet; if it gives a domain, the domain is contested.
LEMMA BeginsDomain ==
  ASSUME IInv, DomainInv, NEW t \in Txn, NEW r \in Request, Begins(t, r)
  PROVE  DomainInv'
<1>1. /\ \A u \in Txn \ {t} : req'[u] = req[u]
      /\ req'[t] = r /\ row' = row /\ pend' = pend /\ contested \subseteq contested'
      /\ Open(t)' /\ ~Open(t) /\ \A u \in Txn \ {t} : Open(u)' = Open(u)
      /\ req[t].step # "commit" /\ (r.kind = "onboard" => r.step = "lookup")
  BY DEF Begins, IInv, Types, Open
<1> DEFINE Contested(p, d) == d = None \/ <<p, d>> \in contested'
<1>2. \A p, d : (Free(p, d)' => Free(p, d)) /\ (~Free(p, d) => Contested(p, d))
  BY <1>1 DEF Free
<1>3. HoldersApart'
  BY <1>1 DEF DomainInv, HoldersApart, Holder, Holds, Free
<1>4. Claims'
  <2>1. ASSUME NEW u \in Txn \ {t} PROVE Claim(req[u])'
    BY <1>1, <1>2, <2>1 DEF DomainInv, Claims, Claim, Holder, Holds
  <2>2. Claim(req[t])'
    BY <1>1 DEF Claim
  <2> QED
    BY <2>1, <2>2 DEF Claims
<1>5. Rivals'
  <2>1. r.kind = "onboard" => \A u \in Txn : Onboards(req[u], r.platform, r.domain) => Contested(r.platform, r.domain)
    BY DEF Begins
  <2>2. ASSUME NEW u \in Txn, NEW w \in Txn, u # w, Open(u)', req'[u].kind = "onboard",
               Onboards(req'[w], req'[u].platform, req'[u].domain)
        PROVE  Contested(req'[u].platform, req'[u].domain)
    <3>1. CASE u = t
      BY <1>1, <2>1, <2>2, <3>1
    <3>2. CASE w = t
      BY <1>1, <2>1, <2>2, <3>2 DEF Onboards, Open
    <3>3. CASE u # t /\ w # t
      <4>1. /\ Open(u) /\ req[u].kind = "onboard" /\ req'[u] = req[u]
            /\ Onboards(req[w], req[u].platform, req[u].domain)
        BY <1>1, <2>2, <3>3
      <4> QED
        BY <1>2, <2>2, <4>1 DEF DomainInv, Rivals
    <3> QED
      BY <3>1, <3>2, <3>3
  <2> QED
    BY <2>2 DEF Rivals, Onboards, Free
<1>6. Givers'
  <2>1. r.kind # "onboard" => Contested(r.platform, r.domain)
    BY DEF Begins
  <2>2. ASSUME NEW u \in Txn, Open(u)', req'[u].kind # "onboard"
        PROVE  Contested(req'[u].platform, req'[u].domain)
    BY <1>1, <1>2, <2>1, <2>2 DEF DomainInv, Givers
  <2> QED
    BY <2>2 DEF Givers, Free
<1>7. PendGiven'
  BY <1>1 DEF DomainInv, PendGiven, Holds, IInv, WritesAtEnd
<1> QED
  BY <1>3, <1>4, <1>5, <1>6, <1>7 DEF DomainInv

\* A version gives its store only the domain its request brought.
LEMMA PutsHolders ==
  ASSUME IInv, NEW t \in Txn, NEW s \in Store, NEW v \in Row, NEW r \in Request, Puts(t, s, v, r),
         NEW z \in Store, NEW p \in Platform, NEW d, d # None, Holder(z, p, d)'
  PROVE  Holder(z, p, d) \/ (z = s /\ req[t].platform = p /\ req[t].domain = d)
<1>1. /\ row' = row /\ \A u \in Txn, y \in Store : pend'[u][y] = IF u = t /\ y = s THEN v ELSE pend[u][y]
  BY DEF Puts, IInv, Types
<1>2. v.at[p] = d => Holds(row[s], p, d) \/ (req[t].platform = p /\ req[t].domain = d)
  BY DEF Puts
<1>3. CASE Holds(row[z], p, d)
  BY <1>3 DEF Holder
<1>4. ASSUME NEW u \in Txn, Holds(pend'[u][z], p, d)
      PROVE  Holder(z, p, d) \/ (z = s /\ req[t].platform = p /\ req[t].domain = d)
  <2>1. CASE u = t /\ z = s
    BY <1>1, <1>2, <1>4, <2>1 DEF Holder, Holds
  <2>2. CASE ~(u = t /\ z = s)
    BY <1>1, <1>4, <2>2 DEF Holder
  <2> QED
    BY <2>1, <2>2
<1> QED
  BY <1>1, <1>3, <1>4 DEF Holder, Holds

LEMMA PutsDomain ==
  ASSUME IInv, DomainInv, NEW t \in Txn, NEW s \in Store, NEW v \in Row, NEW r \in Request,
         Puts(t, s, v, r)
  PROVE  DomainInv'
<1>1. /\ \A u \in Txn \ {t} : req'[u] = req[u] /\ pend'[u] = pend[u]
      /\ req'[t] = r /\ row' = row /\ contested' = contested /\ pend'[t][s] = v
      /\ \A z \in Store \ {s} : pend'[t][z] = pend[t][z]
      /\ Open(t) /\ Open(t)' /\ \A u \in Txn : Open(u)' = Open(u)
      /\ r.kind = req[t].kind /\ r.platform = req[t].platform /\ r.domain = req[t].domain
      /\ r.id = s /\ r.step = "commit"
      /\ req[t].step \in {"insert", "update"} /\ (req[t].step = "update" => req[t].id = s)
  BY DEF Puts, IInv, Types, Open, Same
<1>2. /\ \A z \in Store : pend[t][z] = None
      /\ v # None
  BY <1>1 DEF IInv, WritesAtEnd, Puts
<1>3. \A p, d : Free(p, d)' <=> Free(p, d)
  BY <1>1 DEF Free
\* A free domain that the version gives is one nobody else has.
<1>4. ASSUME NEW p, NEW d, Free(p, d), req[t].platform = p, req[t].domain = d, NEW z \in Store,
             Holder(z, p, d)
      PROVE  z = s /\ req[t].kind = "onboard"
  BY <1>1, <1>4 DEF DomainInv, Givers, Claims, Claim
<1>5. ASSUME NEW z \in Store, NEW p \in Platform, NEW d, d # None, Holder(z, p, d)'
      PROVE  Holder(z, p, d) \/ (z = s /\ req[t].platform = p /\ req[t].domain = d)
  BY <1>5, PutsHolders
<1>6. HoldersApart'
  <2>1. ASSUME NEW p \in Platform, NEW d \in Domain, NEW y \in Store, NEW z \in Store,
               Free(p, d)', Holder(y, p, d)', Holder(z, p, d)'
        PROVE  y = z
    <3>1. Free(p, d) /\ d # None
      BY <1>3, <2>1 DEF Free
    <3>2. Holder(y, p, d) \/ (y = s /\ req[t].platform = p /\ req[t].domain = d)
      BY <1>5, <2>1, <3>1
    <3>3. Holder(z, p, d) \/ (z = s /\ req[t].platform = p /\ req[t].domain = d)
      BY <1>5, <2>1, <3>1
    <3> QED
      BY <1>4, <3>1, <3>2, <3>3 DEF DomainInv, HoldersApart
  <2> QED
    BY <2>1 DEF HoldersApart
<1>7. Claims'
  <2>1. ASSUME NEW u \in Txn, req'[u].kind = "onboard",
               req'[u].step \in {"slug", "insert", "update", "commit"},
               Free(req'[u].platform, req'[u].domain), NEW z \in Store,
               NEW p, NEW d, p = req'[u].platform, d = req'[u].domain, Holder(z, p, d)'
        PROVE  req'[u].step \in {"update", "commit"} /\ z = req'[u].id
    <3>1. p \in Platform /\ d # None
      BY <1>1, <2>1 DEF IInv, Types, Request, Free
    <3>2. Holder(z, p, d) \/ (z = s /\ req[t].platform = p /\ req[t].domain = d)
      BY <1>5, <2>1, <3>1
    <3>3. CASE u = t
      BY <1>1, <1>4, <2>1, <3>2, <3>3
    <3>4. CASE u # t
      <4>1. req'[u] = req[u] /\ Open(u)
        BY <1>1, <2>1, <3>4 DEF Open
      <4>2. ~(req[t].platform = p /\ req[t].domain = d)
        BY <1>1, <2>1, <3>4, <4>1, NoRival DEF DomainInv
      <4> QED
        BY <2>1, <3>2, <4>1, <4>2 DEF DomainInv, Claims, Claim
    <3> QED
      BY <3>3, <3>4
  <2> QED
    BY <1>3, <2>1 DEF Claims, Claim
<1>8. Rivals' /\ Givers'
  <2>1. \A u, w \in Txn : Onboards(req'[u], req'[w].platform, req'[w].domain)
          => Onboards(req[u], req[w].platform, req[w].domain)
    BY <1>1 DEF Onboards, Open
  <2> QED
    BY <1>1, <1>3, <2>1 DEF DomainInv, Rivals, Givers, Onboards
<1>9. PendGiven'
  <2>1. \A p \in Platform : v.at[p] # None =>
          Holds(row[s], p, v.at[p]) \/ (req[t].platform = p /\ req[t].domain = v.at[p])
    BY DEF Puts
  <2> QED
    BY <1>1, <1>2, <2>1 DEF DomainInv, PendGiven, Holds
<1> QED
  BY <1>6, <1>7, <1>8, <1>9 DEF DomainInv

\* A request that ends leaves no holder that was none.
LEMMA EndsDomain ==
  ASSUME IInv, DomainInv, NEW t \in Txn, Rollback(t) \/ Commit(t)
  PROVE  DomainInv'
<1>1. /\ \A u \in Txn \ {t} : req'[u] = req[u] /\ pend'[u] = pend[u]
      /\ req'[t] = NoRequest /\ contested' = contested
      /\ \A z \in Store : pend'[t][z] = None
      /\ \A u \in Txn \ {t} : Open(u)' = Open(u)
      /\ \A z \in Store : row'[z] = row[z] \/ (row'[z] = pend[t][z] /\ pend[t][z] # None)
  BY DEF Rollback, Commit, history, IInv, Types, Open
<1>2. ~Open(t)' /\ NoRequest.step = "idle"
  BY <1>1 DEF Open, NoRequest
<1>3. \A p, d : Free(p, d)' <=> Free(p, d)
  BY <1>1 DEF Free
<1>4. ASSUME NEW z \in Store, NEW p, NEW d, Holder(z, p, d)'
      PROVE  Holder(z, p, d)
  BY <1>1, <1>4 DEF Holder, Holds
<1>5. HoldersApart'
  BY <1>3, <1>4 DEF DomainInv, HoldersApart
<1>6. Claims'
  <2>1. ASSUME NEW u \in Txn \ {t} PROVE Claim(req[u])'
    BY <1>1, <1>3, <1>4, <2>1 DEF DomainInv, Claims, Claim
  <2>2. Claim(req[t])'
    BY <1>1, <1>2 DEF Claim
  <2> QED
    BY <2>1, <2>2 DEF Claims
<1>7. Rivals' /\ Givers'
  BY <1>1, <1>2, <1>3 DEF DomainInv, Rivals, Givers, Onboards
<1>8. PendGiven'
  <2>1. ASSUME NEW u \in Txn, NEW z \in Store, NEW p \in Platform,
               pend'[u][z] # None, pend'[u][z].at[p] # None
        PROVE  \/ Holds(row'[z], p, pend'[u][z].at[p])
               \/ req'[u].platform = p /\ req'[u].domain = pend'[u][z].at[p]
    <3>1. u # t /\ pend'[u] = pend[u] /\ req'[u] = req[u]
      BY <1>1, <2>1
    <3>2. row'[z] = row[z]
      BY <1>1, <2>1, <3>1 DEF IInv, OneWriter
    <3> QED
      BY <2>1, <3>1, <3>2 DEF DomainInv, PendGiven
  <2> QED
    BY <2>1 DEF PendGiven, Holds
<1> QED
  BY <1>5, <1>6, <1>7, <1>8 DEF DomainInv

LEMMA DomainStep == IInv /\ Intents /\ DomainInv /\ [Next]_vars => DomainInv'
<1> SUFFICES ASSUME IInv, Intents, DomainInv, [Next]_vars PROVE DomainInv'
  OBVIOUS
<1>1. CASE UNCHANGED vars
  BY <1>1 DEF vars, history, DomainInv, HoldersApart, Claims, Claim, Rivals, Givers, PendGiven,
              Free, Holder, Holds, Onboards, Open
<1>2. ASSUME NEW t \in Txn, Moves(t) PROVE DomainInv'
  BY <1>2, BeginsDomain, ContinuesDomain, PutsDomain, EndsDomain DEF Moves
<1> QED
  BY <1>1, <1>2, NextMoves

LEMMA DomainInit == Init => DomainInv
BY DEF Init, DomainInv, HoldersApart, Claims, Claim, Rivals, Givers, PendGiven, Holder, Holds,
       Onboards, Open, NoRequest

\* A domain of a platform belongs to one store, whatever requests overlap, as
\* long as nobody gave it without a lookup and no two onboarded it at once.
THEOREM StoresApart == Spec => []OneStorePerDomain
<1>1. IInv /\ DomainInv => OneStorePerDomain
  <2> SUFFICES ASSUME IInv, DomainInv, NEW s \in Stores, NEW u \in Stores, NEW p \in Platform,
                      row[s].at[p] = row[u].at[p], row[s].at[p] # None,
                      <<p, row[s].at[p]>> \notin contested
               PROVE  s = u
    BY DEF OneStorePerDomain
  <2>1. row[s].at[p] \in Domain
    BY DEF IInv, Types, Row, Blocks, Stores
  <2>2. Holder(s, p, row[s].at[p]) /\ Holder(u, p, row[s].at[p])
    BY DEF Holder, Holds, Stores
  <2> QED
    BY <2>1, <2>2 DEF DomainInv, HoldersApart, Free, Stores
<1> QED
  BY <1>1, InvInit, InvStep, IntentsInit, IntentsStep, DomainInit, DomainStep, PTL DEF Spec
=============================================================================
