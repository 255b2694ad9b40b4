----------------------------- MODULE ProductSync -----------------------------
(***************************************************************************)
(* The product rows of one store and everyone who writes them: sync jobs   *)
(* that read the shop page by page and upsert a page per transaction,      *)
(* webhooks that upsert one product, and the merchant's bulk inserts.      *)
(* Jobs lock rows statement by statement at READ COMMITTED; a webhook      *)
(* writes one row in one transaction, which is one step here.              *)
(***************************************************************************)
EXTENDS Naturals, FiniteSets, Sequences

CONSTANTS
  Product,      \* external ids
  Writer,       \* sync tasks and bulk requests that may run at the same time
  None,         \* no row, nothing written
  Listings,     \* what may be set up at first: [source, list, out, token]
                \* with the BOUNDS events (shop changes and lost workers) and
                \* writers; out: products not offered
  Price,        \* Price[p][v]: price of version v of p, 0 if it has none;
                \* version 0 is the merchant's own
  Categories,   \* Categories[p]: what the merchant files p under
  Amounts,      \* price limits and budgets of those who ask for products
  ContextLimit, \* PRODUCT_SEARCH_CONTEXT_LIMIT (5)
  PageSize,     \* products per page of products.json (250)
  MaxPages,     \* pages a sync asks for (500)
  MaxRetries,   \* SYNC_MAX_RETRIES (5)
  MaxVersion    \* BOUND: versions of a product

VARIABLES
  source,     \* "shopify", "custom", or "unset": no domain or feed configured
  token,      \* the store has a Shopify admin token
  list,       \* the products the shop publishes, in the order it lists them
  shop,       \* newest version of each product
  offered,    \* Shopify: its status is active, listed or not; a custom feed: it
              \* says is_available
  row,        \* committed rows, by external id
  pend,       \* pend[t][p]: row p as t wrote it, which locks it
  job,        \* what each writer is doing
  mail,       \* product webhooks Shopify has not had acknowledged
  events,     \* shop changes and lost workers still to come
  calm,       \* history: nobody else wrote and the shop was still since t began
  raced,      \* history: p's webhook met an older write of p still under way
  lost,       \* history: Shopify gave up on a webhook of p
  rearranged  \* history: the shop's order was changed

shopVars == <<source, token, list, shop, offered, events, rearranged>>
history == <<raced, lost>>
vars == <<shopVars, row, pend, job, mail, calm, history>>

Version == 0 .. MaxVersion
Row == [v : Version, on : BOOLEAN]
Item == [at : Nat, p : Product, v : Version, on : BOOLEAN]
Hook == [p : Product, v : Version, on : BOOLEAN]
Valid(p, v) == Price[p][v] > 0

ASSUME SyncConstants ==
  /\ None \notin Row
  /\ PageSize \in Nat \ {0} /\ MaxPages \in Nat \ {0}
  /\ MaxRetries \in Nat /\ MaxVersion \in Nat \ {0} /\ ContextLimit \in Nat \ {0}
  /\ Amounts \subseteq Nat
  /\ Price \in [Product -> [Version -> Nat]]
  /\ \A p \in Product : Valid(p, 0)
  /\ \A l \in Listings :
       /\ l.source \in {"shopify", "custom", "unset"}
       /\ l.list \in Seq(Product) /\ l.out \subseteq Product /\ l.token \in BOOLEAN
       /\ l.events \in Nat /\ l.writers \subseteq Writer
       /\ l.source # "custom" => \A i, j \in DOMAIN l.list : l.list[i] = l.list[j] => i = j
       /\ l.source = "shopify" => \A i \in DOMAIN l.list : l.list[i] \notin l.out

\* A shop lists finitely many products.
ASSUME FiniteProducts == IsFiniteSet(Product)

Job == [step : {"idle", "fetch", "upsert", "insert", "admin", "done", "failed"},
        page : 1 .. MaxPages, todo : SUBSET Item, last : BOOLEAN, tries : 0 .. MaxRetries]
Idle == [step |-> "idle", page |-> 1, todo |-> {}, last |-> FALSE, tries |-> 0]

Listed == {list[i] : i \in DOMAIN list}
Unlocked(t, p) == \A u \in Writer \ {t} : pend[u][p] = None
Busy(t) == job[t].step \notin {"idle", "done", "failed"}

\* The versions of p a sync has read and still means to write.
UnderWay(t, p) ==
  IF job[t].step # "upsert" THEN {} ELSE {it.v : it \in {i \in job[t].todo : i.p = p}}

\* One page of the listing as it is now, as places; a custom feed comes whole.
Page(n) ==
  IF source = "custom" THEN DOMAIN list
  ELSE {i \in DOMAIN list : (n - 1) * PageSize < i /\ i <= n * PageSize}

\* is_available as a sync reads it: a storefront lists what is published, and
\* says no more; a custom feed says what is available.
Available(p) == source = "shopify" \/ offered[p]

\* Normalised: an item without a price is skipped.
Normalised(page) ==
  {[at |-> i, p |-> list[i], v |-> shop[list[i]], on |-> Available(list[i])] :
     i \in {j \in page : Valid(list[j], shop[list[j]])}}

\* The item of a statement the database takes next.
IsNext(t, it) == it \in job[t].todo /\ \A other \in job[t].todo : it.at <= other.at

\* Faulty variant: a page is taken for the last one when few of its items are
\* valid.
LastPageByValid(n) ==
  source = "custom" \/ Cardinality(Normalised(Page(n))) < PageSize \/ n = MaxPages

\* A page that is not full is the last one; so is the last one asked for.
LastPage(n) == source = "custom" \/ Len(list) < n * PageSize \/ n = MaxPages

\* A job without rows to write goes on to the next page, or to the end.
AfterPage(j, last) ==
  [j EXCEPT !.step = IF ~last THEN "fetch" ELSE IF source = "shopify" THEN "admin" ELSE "done",
            !.page = IF last THEN @ ELSE @ + 1, !.todo = {}, !.last = FALSE]

\* Only a writer of T can still count on a calm run.
Disturb(T) == calm' = [u \in Writer |-> calm[u] /\ u \in T]
NoWrites(t) == pend' = [pend EXCEPT ![t] = [p \in Product |-> None]]

\* Faulty variant: the retry count is not carried over
RaiseUncounted(t) ==
  /\ job' = [job EXCEPT ![t] = [Idle EXCEPT !.step =
       IF job[t].step = "insert" THEN "failed" ELSE "fetch"]]
  /\ NoWrites(t)
  /\ calm' = [calm EXCEPT ![t] = FALSE]
  /\ UNCHANGED <<shopVars, row, mail, history>>

\* Faulty variant: one retry too many
RaiseOnceMore(t) ==
  /\ job' = [job EXCEPT ![t] =
       IF @.step = "insert" THEN [Idle EXCEPT !.step = "failed"]
       ELSE IF @.tries <= MaxRetries THEN [Idle EXCEPT !.step = "fetch", !.tries = job[t].tries + 1]
       ELSE [Idle EXCEPT !.step = "failed"]]
  /\ NoWrites(t)
  /\ calm' = [calm EXCEPT ![t] = \A u \in Writer \ {t} : ~Busy(u)]
  /\ UNCHANGED <<shopVars, row, mail, history>>

\* An exception ends the transaction; the task starts over while it may.
RaiseIn(t) ==
  /\ job' = [job EXCEPT ![t] =
       IF @.step = "insert" THEN [Idle EXCEPT !.step = "failed"]
       ELSE IF @.tries < MaxRetries THEN [Idle EXCEPT !.step = "fetch", !.tries = job[t].tries + 1]
       ELSE [Idle EXCEPT !.step = "failed", !.tries = MaxRetries]]
  /\ NoWrites(t)
  /\ calm' = [calm EXCEPT ![t] = \A u \in Writer \ {t} : ~Busy(u)]
  /\ UNCHANGED <<shopVars, row, mail, history>>

(***************************************************************************)
(* Faulty variants                                                         *)
(***************************************************************************)
\* the batch passes through a set, which forgets the order
FetchUnordered(t) ==
  /\ job[t].step = "fetch"
  /\ LET items == Normalised(Page(job[t].page))
         last == LastPage(job[t].page)
     IN  \E f \in [DOMAIN list -> DOMAIN list] :
           /\ \A i, j \in DOMAIN list : f[i] = f[j] => i = j
           /\ job' = [job EXCEPT ![t] =
                IF items = {} THEN AfterPage(@, last)
                ELSE [@ EXCEPT !.step = "upsert", !.last = last,
                               !.todo = {[it EXCEPT !.at = f[@]] : it \in items}]]
  /\ UNCHANGED <<shopVars, row, pend, mail, calm, history>>

\* ON CONFLICT DO NOTHING
WebhookKeepsOld(m) ==
  /\ Valid(m.p, m.v)
  /\ \A t \in Writer : pend[t][m.p] = None
  /\ row' = [row EXCEPT ![m.p] = IF @ = None THEN [v |-> m.v, on |-> m.on] ELSE @]
  /\ mail' \in {mail, mail \ {m}}
  /\ Disturb({})
  /\ UNCHANGED <<shopVars, pend, job, history>>

Init ==
  /\ \E l \in Listings :
       /\ source = l.source /\ list = l.list /\ token = l.token /\ events = l.events
       /\ offered = [p \in Product |-> p \notin l.out]
       /\ job = [t \in Writer |-> IF t \in l.writers THEN Idle ELSE [Idle EXCEPT !.step = "done"]]
  /\ shop = [p \in Product |-> 1]
  /\ row = [p \in Product |-> None]
  /\ pend = [t \in Writer |-> [p \in Product |-> None]]
  /\ mail = {}
  /\ calm = [t \in Writer |-> FALSE]
  /\ raced = [p \in Product |-> FALSE]
  /\ lost = [p \in Product |-> FALSE]
  /\ rearranged = FALSE

(***************************************************************************)
(* The shop                                                                *)
(***************************************************************************)
\* A new version of p: Shopify posts it with its status, published or not.
Change(p, on) ==
  /\ events > 0 /\ events' = events - 1
  /\ shop[p] < MaxVersion
  /\ shop' = [shop EXCEPT ![p] = @ + 1]
  /\ offered' = [offered EXCEPT ![p] = on]
  /\ mail' = IF source = "shopify" THEN mail \cup {[p |-> p, v |-> shop[p] + 1, on |-> on]} ELSE mail
  /\ Disturb({})
  /\ UNCHANGED <<source, token, row, pend, job, history>>

\* A listing with p behind its place i, and one without place i.
With(s, i, p) ==
  [j \in 1 .. Len(s) + 1 |-> IF j <= i THEN s[j] ELSE IF j = i + 1 THEN p ELSE s[j - 1]]
Without(s, i) == [j \in 1 .. Len(s) - 1 |-> IF j < i THEN s[j] ELSE s[j + 1]]

\* What a Shopify storefront lists is active; what it does not list may be.
Edit(p, on) ==
  /\ p \in Listed \/ source = "shopify"
  /\ source = "shopify" /\ p \in Listed => on
  /\ Change(p, on) /\ UNCHANGED <<list, rearranged>>

\* Archived, or active still and only taken off the Online Store.
Withdraw(p, on) ==
  /\ p \in Listed
  /\ Change(p, on)
  /\ \E i \in DOMAIN list : list[i] = p /\ list' = Without(list, i)
  /\ rearranged' = (rearranged \/ p \in Listed')  \* a feed may have it twice

Publish(p, on) ==
  /\ p \notin Listed
  /\ source = "shopify" => on
  /\ Change(p, on)
  /\ \E i \in 0 .. Len(list) : list' = With(list, i, p)
  /\ rearranged' = (rearranged \/ shop[p] > 1)  \* it may have been listed elsewhere before

\* The merchant sorts the collection another way.
Rearrange ==
  /\ events > 0 /\ events' = events - 1
  /\ \E i, j \in DOMAIN list :
       i < j /\ list' = [list EXCEPT ![i] = list[j], ![j] = list[i]]
  /\ rearranged' = TRUE
  /\ Disturb({})
  /\ UNCHANGED <<source, token, shop, offered, row, pend, job, mail, history>>

(***************************************************************************)
(* Webhooks                                                                *)
(***************************************************************************)
\* upsert_product: data without a price is refused, a locked row awaited; a
\* product whose status is active is available, published_at is not looked at.
\* Shopify may not see the answer and post the same change again.
Webhook(m) ==
  /\ Valid(m.p, m.v)
  /\ \A t \in Writer : pend[t][m.p] = None
  /\ row' = [row EXCEPT ![m.p] = [v |-> m.v, on |-> m.on]]
  /\ mail' \in {mail, mail \ {m}}
  /\ raced' = [raced EXCEPT ![m.p] =
       \/ @
       \/ \E t \in Writer : \E v \in UnderWay(t, m.p) : v < m.v
       \/ \E n \in mail : n.p = m.p /\ n.v < m.v]
  /\ Disturb({})
  /\ UNCHANGED <<shopVars, pend, job, lost>>

\* Refused (bad data, no secret, unknown domain) or failed until Shopify
\* stops repeating it.
GiveUpHook(m) ==
  /\ mail' = mail \ {m}
  /\ lost' = [lost EXCEPT ![m.p] = TRUE]
  /\ UNCHANGED <<shopVars, row, pend, job, calm, raced>>

(***************************************************************************)
(* Writers                                                                 *)
(***************************************************************************)
StartSync(t) ==
  /\ job[t].step = "idle"
  /\ job' = [job EXCEPT ![t].step = IF source = "unset" THEN "done" ELSE "fetch"]
  /\ calm' = [u \in Writer |-> u = t /\ \A w \in Writer \ {t} : ~Busy(w)]
  /\ UNCHANGED <<shopVars, row, pend, mail, history>>

\* bulk_create_products (create_product: one item), with external ids.
StartBulk(t) ==
  /\ job[t].step = "idle"
  /\ \E p, q \in Product, on \in BOOLEAN :
       job' = [job EXCEPT ![t].step = "insert",
               ![t].todo = {[at |-> 1, p |-> p, v |-> 0, on |-> on]}
                           \cup IF p = q THEN {} ELSE {[at |-> 2, p |-> q, v |-> 0, on |-> TRUE]}]
  /\ Disturb({})
  /\ UNCHANGED <<shopVars, row, pend, mail, history>>

\* The next page is read and normalised; an empty batch is not written.
Fetch(t) ==
  /\ job[t].step = "fetch"
  /\ LET items == Normalised(Page(job[t].page))
         last == LastPage(job[t].page)
     IN  job' = [job EXCEPT ![t] =
           IF items = {} THEN AfterPage(@, last)
           ELSE [@ EXCEPT !.step = "upsert", !.last = last, !.todo = items]]
  /\ UNCHANGED <<shopVars, row, pend, mail, calm, history>>

FetchRaises(t) == job[t].step = "fetch" /\ RaiseIn(t)

\* INSERT ... ON CONFLICT DO UPDATE takes the items in order: each waits for
\* its row's lock.
Upsert(t) ==
  /\ job[t].step = "upsert"
  /\ \E it \in job[t].todo :
       /\ IsNext(t, it) /\ Unlocked(t, it.p)
       /\ pend[t][it.p] = None
       /\ pend' = [pend EXCEPT ![t][it.p] = [v |-> it.v, on |-> it.on]]
       /\ job' = [job EXCEPT ![t].todo = @ \ {it}]
  /\ UNCHANGED <<shopVars, row, mail, calm, history>>

\* It cannot affect a row a second time: two items of one id raise.
UpsertRaises(t) ==
  /\ job[t].step = "upsert"
  /\ \E it \in job[t].todo : IsNext(t, it) /\ pend[t][it.p] # None
  /\ RaiseIn(t)

\* bulk_insert_products: plain INSERTs in one flush.
Insert(t) ==
  /\ job[t].step = "insert"
  /\ \E it \in job[t].todo :
       /\ IsNext(t, it) /\ Unlocked(t, it.p)
       /\ row[it.p] = None
       /\ pend' = [pend EXCEPT ![t][it.p] = [v |-> it.v, on |-> it.on]]
       /\ job' = [job EXCEPT ![t].todo = @ \ {it}]
  /\ UNCHANGED <<shopVars, row, mail, calm, history>>

\* uq_product_store_external_id: the whole request fails.
InsertRaises(t) ==
  /\ job[t].step = "insert"
  /\ \E it \in job[t].todo : IsNext(t, it) /\ Unlocked(t, it.p) /\ row[it.p] # None
  /\ RaiseIn(t)

\* Each batch is committed before the next page is read.
Commit(t) ==
  /\ job[t].step \in {"upsert", "insert"} /\ job[t].todo = {}
  /\ row' = [p \in Product |-> IF pend[t][p] = None THEN row[p] ELSE pend[t][p]]
  /\ NoWrites(t)
  /\ job' = [job EXCEPT ![t] =
       IF @.step = "insert" THEN [@ EXCEPT !.step = "done"] ELSE AfterPage(@, @.last)]
  /\ Disturb({t})
  /\ UNCHANGED <<shopVars, mail, history>>

\* The store's content, orders and metrics: skipped without an admin token.
SkipAdmin(t) ==
  /\ job[t].step = "admin" /\ ~token
  /\ job' = [job EXCEPT ![t].step = "done"]
  /\ UNCHANGED <<shopVars, row, pend, mail, calm, history>>

\* With one, the first upsert of content names a NULL id (at the latest the
\* catalogue context, which is always written) and the task raises.
AdminRaises(t) == job[t].step = "admin" /\ token /\ RaiseIn(t)

Waits(t, u) ==
  /\ job[t].step \in {"upsert", "insert"} /\ t # u
  /\ \E it \in job[t].todo : IsNext(t, it) /\ pend[u][it.p] # None

\* t is on a cycle of writers, each waiting for the next.
Deadlocked(t) ==
  \E S \in SUBSET Writer :
    /\ t \in S
    /\ \A u \in S : (\E w \in S : Waits(u, w)) /\ (\E w \in S : Waits(w, u))

DeadlockVictim(t) == Deadlocked(t) /\ RaiseIn(t)

\* The worker dies: its transaction is gone and the task delivered again.
Lost(t) ==
  /\ job[t].step \in {"fetch", "upsert", "admin"}
  /\ events > 0 /\ events' = events - 1
  /\ job' = [job EXCEPT ![t] = [Idle EXCEPT !.step = "fetch", !.tries = job[t].tries]]
  /\ NoWrites(t)
  /\ calm' = [calm EXCEPT ![t] = \A u \in Writer \ {t} : ~Busy(u)]
  /\ UNCHANGED <<source, token, list, shop, offered, rearranged, row, mail, history>>

\* The database connection is lost in the middle of a statement or a commit.
Disconnect(t) == job[t].step \in {"upsert", "insert"} /\ RaiseIn(t)

ShopStep ==
  \/ \E p \in Product, on \in BOOLEAN : Edit(p, on) \/ Withdraw(p, on) \/ Publish(p, on)
  \/ Rearrange
HookStep == \E m \in mail : Webhook(m) \/ GiveUpHook(m)
Progress(t) ==
  \/ Fetch(t) \/ FetchRaises(t) \/ Upsert(t) \/ UpsertRaises(t)
  \/ Insert(t) \/ InsertRaises(t) \/ Commit(t)
  \/ SkipAdmin(t) \/ AdminRaises(t) \/ DeadlockVictim(t)

Next ==
  \/ ShopStep \/ HookStep
  \/ \E t \in Writer : StartSync(t) \/ StartBulk(t) \/ Progress(t) \/ Lost(t) \/ Disconnect(t)

\* Workers run, servers answer, and PostgreSQL breaks deadlocks.
Fairness == \A t \in Writer : WF_vars(Progress(t))
Spec == Init /\ [][Next]_vars /\ Fairness

(***************************************************************************)
(* Properties                                                              *)
(***************************************************************************)
\* Rows and writes are of versions there were, jobs within their limits; who
\* does not write holds no row.
TypeOK ==
  /\ source \in {"shopify", "custom", "unset"} /\ token \in BOOLEAN
  /\ list \in Seq(Product) /\ shop \in [Product -> Version] /\ offered \in [Product -> BOOLEAN]
  /\ row \in [Product -> Row \cup {None}]
  /\ pend \in [Writer -> [Product -> Row \cup {None}]]
  /\ job \in [Writer -> Job]
  /\ mail \subseteq Hook /\ events \in Nat
  /\ calm \in [Writer -> BOOLEAN] /\ rearranged \in BOOLEAN
  /\ raced \in [Product -> BOOLEAN] /\ lost \in [Product -> BOOLEAN]
  /\ \A t \in Writer : job[t].step \notin {"upsert", "insert"} => \A p \in Product : pend[t][p] = None

\* The part of the listing a sync reaches.
Reached == {list[i] : i \in {j \in DOMAIN list : source = "custom" \/ j <= PageSize * MaxPages}}

\* A sync nobody disturbed stores every product it can reach, whatever was
\* stored before, and as available as the shop says: pagination misses none, a
\* bad item costs only itself (fetch_and_normalize_products,
\* iter_storefront_product_batches).
CalmSyncComplete ==
  \A t \in Writer :
    calm[t] /\ source # "unset" /\ job[t].step \in {"admin", "done"} =>
      \A p \in Reached :
        Valid(p, shop[p]) => row[p] = [v |-> shop[p], on |-> Available(p)]

Quiet == mail = {} /\ \A t \in Writer : ~Busy(t)

\* When all is quiet, the last change of a product is in its row, and it is
\* available if it is active, unless the webhook was lost or raced with an older
\* write (upsert_products_bulk keeps no version and overwrites whatever is
\* there).  So an archived product is gone from the chat's answers; one that was
\* only taken off the Online Store is not.
ChangesArrive ==
  Quiet /\ source = "shopify" =>
    \A p \in Product :
      shop[p] = 1 \/ lost[p] \/ raced[p]
        \/ row[p] = [v |-> shop[p], on |-> offered[p]]

\* Syncs alone never deadlock on product rows: they lock them in the order of
\* the listing, which only the shop can change.
DeadlockNeedsReorder ==
  (\E t \in Writer : Deadlocked(t)) => rearranged \/ \E t \in Writer : job[t].step = "insert"

\* The rows as the chat's product search sees them.  What Shopify sends has no
\* categories; a custom feed and the merchant's own products have.
Catalogue ==
  [p \in Product |->
     IF row[p] = None THEN None
     ELSE [on |-> row[p].on, price |-> Price[p][row[p].v],
           categories |-> IF source = "custom" \/ row[p].v = 0 THEN Categories[p] ELSE {}]]

Retrieval == INSTANCE ProductRetrieval WITH Nothing <- None

\* Messages about products and preferences of a user, as far as search tells
\* them apart.
Queries ==
  LET categories == {None} \cup UNION {Categories[p] : p \in Product}
  IN  [hits : {None} \cup SUBSET Product, max : Amounts \cup {None}, category : categories,
       likes : categories, budget : Amounts \cup {None}]

\* Whatever syncs, webhooks and inserts left in the rows, the chat is given
\* offered products within budget and category, keyword hits before others
\* and cheap before dear, and as many as there are up to its limit
\* (get_products_for_query broadens a search that found too few); if none fits,
\* the cheapest of the message's category at any price (ChatService.process).
\* A price limit of 0 raises and is given none.
SearchAnswers ==
  Quiet /\ (\A t \in Writer : job[t].step # "idle") =>
    \A q \in Queries : \A T \in Retrieval!ChatProducts(Catalogue, q) :
      Retrieval!Answers(Catalogue, q, T)

\* Every sync ends, done or given up, through lock waits, deadlocks and retries.
SyncEnds == \A t \in Writer : Busy(t) ~> ~Busy(t)
=============================================================================
