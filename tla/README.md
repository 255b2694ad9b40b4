# A TLA+ model of ComAI

ComAI is a multi-tenant commerce assistant: a FastAPI application, Celery
workers, PostgreSQL and Redis. A store connects its Shopify (or custom) catalogue, its
customers chat with an agent on the web or WhatsApp, and an automation pipeline
turns what they search for into recommendations.

This directory models the parts whose correctness depends on the order of
steps taken by several processes: what the broker, the workers, the request transactions and
the Redis keys do to each other when they interleave, crash, time out and retry. Paths are
relative to `src/app/` unless they start with `src/`.

## Inventory

### Processes and stores

* **API process**: asynchronous handlers. Each request has one database session; `get_db`
  (`core/database.py`) commits after the handler returned and rolls back on an exception.
  Everything a handler sends to Celery or Redis leaves *before* that commit.
* **Celery workers**: prefork children, each with one task at a time and one event loop of its own.
  `core/celery_app.py`: late acknowledgement, requeue when a child is lost, prefetch 1, soft limit
  540 s, hard limit 600 s.
* **PostgreSQL** at READ COMMITTED. **Redis** as broker and for idempotency keys, trigger
  slots and rate counters.

### Components

| Component | State | Operations | What makes it correct |
|---|---|---|---|
| Task execution and idempotency (`tasks/task_idempotency.py`, `tasks/message_tasks.py`, `core/celery_*.py`) | broker copies, `lease` and `done` keys | publish, deliver, check_or_acquire, effect, mark_completed, release_lease, retry, acknowledge | runs of one key exclude each other; a completed key had its effect; duplicates have a cause; the work is done at least once; retries end |
| Agent management (`services/agent_management_service.py`, `repositories/agent_repo.py`) | agent rows: type, is_active | create, patch chat, update, deactivate, onboarding's replacement | at most one active agent per type; clean-up never removes the last one; stale sessions revive nothing |
| Store onboarding (`modules/stores/onboarding_service.py`, `tasks/onboarding_tasks.py`) | onboarding_status, credentials, the job's copies | onboard, enqueue, mark syncing, sync, finish, fail, retry | ready means synced with the credentials in force; status polling ends |
| Automation (`modules/automation/*`, `tasks/automation_tasks.py`) | events, trigger slots, the evaluation's key | track, evaluate, reserve, decide, act, release | a trigger acts once per 48 h; one evaluation acts once; a slot is held only for an action; new events are evaluated |
| Shopify admin token (`adapters/shopify/oauth_token_cache.py`, `modules/stores/service.py`) | token cache of each process | onboard, patch domain, resolve, fetch, invalidate | a dead token is not handed out for long; tokens of replaced credentials go |
| Store registry (`modules/stores/service.py`, `repositories/store_repo.py`) | store rows: platform, slug, credentials, is_active | create, onboard, patch, deactivate, look up | a domain finds one store; secrets are the newest given; a deactivated store stays so |
| Products (`modules/products/service.py`, `repositories/product_repo.py`, `adapters/*`, `api/v1/webhooks/shopify.py`) | product rows by external id, jobs, webhooks | sync a page, upsert, bulk insert, webhook | the last change arrives; an undisturbed sync stores the listing, available or not as its source says; syncs end |
| Product search (`services/chat_service.py`, `ai/retrieval/retrieval.py`, `repositories/product_repo.py`) | none | search, personalise, broaden, search at any price | the answer is within budget and category, best first, and full; out of budget only when nothing fits |
| Chat session (`services/chat_service.py`, `services/user_service.py`, `services/memory_service.py`, `api/v1/webhooks/whatsapp.py`) | users, turns, queued replies | message, webhook, reply, redelivery | an answered turn is stored, a stored turn is answered; one user per sender |
| Rate limiter (`api/dependencies.py`) | counter per store, address, minute | increment, expire | at most 20 requests per minute; counters end |
| Authentication, AI configuration, prompts, providers, normalizers, encryption, dashboard | rows or none | stateless transformations | not a matter of order |

### How they interact

`POST /stores/onboard` writes the store and enqueues `complete_store_onboarding`; that task runs
`sync_store_products` (products, content, orders, metrics, with the admin token) and replaces
the chat agent. A chat message flushes a user and an event and enqueues
`evaluate_user_automation`; that task reserves trigger slots and enqueues
`send_whatsapp_message`. WhatsApp webhooks run the chat and enqueue the reply the same way. The
dashboard polls `onboarding_status`.

### What is hard

1. Enqueue before commit (onboarding, chat, WhatsApp): the worker may run first.
2. Lease, effect and completion are separate Redis calls around an HTTP call; the copy may be
   redelivered, the lease may expire, the child may die between any two.
3. Retries meet the leases of their own dead predecessors.
4. Sibling clean-up is an UPDATE that sees only committed rows.
5. Idempotency keys that identify less than the work they stand for (a user, a phone and text).
6. Fail-open dedupe: Redis errors count as "acquired", releases check no owner.
7. Caches per process, invalidated in another process.
8. Upserts without a version: the write that commits last wins, not the newest data.
9. Write errors swallowed by `try`/`except` in the middle of a transaction that goes on.
10. JSON documents read, changed and written back as a whole.
11. Messages that raise on every delivery, in a payload with others that do not.

`PROJECT.json` lists each hazard at its line with the properties that cover it.

## Modules

| Module | Models | Proofs |
|---|---|---|
| `IdempotencyWindow` | abstract: what `TaskIdempotency` promises for one key | |
| `TaskExecution` | broker copies, worker runs and Redis keys of an idempotent task; implements `IdempotencyWindow` per key | `TaskExecution_proofs` |
| `AgentCommands` | abstract: agent requests as atomic commands | in `AgentTransactions_proofs` |
| `AgentTransactions` | the same requests statement by statement at READ COMMITTED; one at a time it implements `AgentCommands` | `AgentTransactions_proofs` |
| `StoreOnboarding` | request transactions, jobs and status of one store | `StoreOnboarding_proofs` |
| `AutomationPipeline` | events, evaluations and trigger slots of one user | `AutomationPipeline_proofs` |
| `ShopifyAdminToken` | token caches of the workers through credential changes | `ShopifyAdminToken_proofs` |
| `StoreRegistry` | the store rows and the requests that make, reconnect, patch and deactivate them | `StoreRegistry_proofs` |
| `ProductSync` | product rows of one store: syncs, webhooks, bulk inserts | `ProductSync_proofs` |
| `ProductRetrieval` | the chat's product search as pure operators, with a reference (`Answers`) | in `ProductSync_proofs` |
| `RateLimiter` | the counters in front of `POST /chat` | in `ChatSession_proofs` |
| `ChatSession` | chat requests and WhatsApp webhooks; extends `RateLimiter` | `ChatSession_proofs` |
| `ChatContext` | what a request makes of the stored turns; extends `ChatSession` | in `ChatSession_proofs` |

`MC*.tla` extend them with what only TLC needs (symmetry, values of constants). "Faulty
variants" are changed forms of actions; no specification uses them, they show that each property
can be broken by a plausible mistake in the code.

The modules meet at their edges. `ChatSession` queues replies and stops there: how a queued reply is sent,
retried and de-duplicated by phone and text for seven days is `TaskExecution`, what the search event sets
off is `AutomationPipeline`. `StoreOnboarding` takes a sync as one step that may fail: `ProductSync` is
that step. `StoreRegistry` is what `ShopifyAdminToken` calls the stored credentials.

### TaskExecution

A *slot* is one copy of a message. `st[m]` is the line of the task body the copy is at
(`read_done`, `set_lease`, `reread_done`, `work`, `mark`, `release`, `retry`, `ack`), or where in the
broker it waits (`ready`, `delayed`). One action is one Redis or broker call. `send_whatsapp_message`
and `evaluate_user_automation` are the same skeleton; their effect is abstract here.
Faults: a lost child (requeued at once), a lost node (redelivered after the visibility timeout,
an hour), a raising effect that may have happened all the same, Redis errors that may have been applied,
a retry that cannot be published, runs that reach the soft and the hard limit. `MaxFaults` bounds them all but raising
effects, which the retries bound. Time is counted in
seconds in `Tick`. Two history variables count effects and the events that open a key
for one more effect.

The safety of the lease protocol rests on two facts about constants, stated as assumptions:
`LimitWithinLease` (600 s limit, 600 s lease) and `LeaseWithinVisibility`. The lease has no
owner; runs exclude each other because no run outlives its lease. Without any fault a duplicate may still
repeat the effect: `check_or_acquire` reads the done key before `SET NX`, so a copy that read it early takes the lease that the
first run has just given up. `DuplicatesExplained` counts this among the causes.

### AgentTransactions

Each request is a sequence of statements; `pend[t]` are the uncommitted row versions, which lock
their rows. The sibling UPDATE picks its rows from its snapshot (`SelectSiblings`), then visits them one
by one, waits for locks and tests its WHERE clause again (`Visit`), as PostgreSQL does.
A deadlock is possible; PostgreSQL breaks it by a rollback (`Rollback`).
`overlapped` remembers that two requests were once open together. Requests that never were implement `AgentCommands`,
and those keep one active agent per type, as the docstrings promise. Two that overlap need not: each clean-up misses the
other's uncommitted row, and two agents of a type stay active. A partial unique index or a lock on the store row would be needed.

### StoreOnboarding

`Lookup`, `Write`, `Enqueue`, `CommitRequest` are the request; the row is locked from the flush to
the commit. The job's steps are its database transactions. Session semantics matter and are kept: a session writes
what differs from what it loaded, an UPDATE waits for the row, and where nothing differs there is neither UPDATE nor
wait (`Writes`, `MarkSyncing`, `Finish`, `LeavesFailed`). The refresh after `syncing` reads the newest
credentials. The chat agent that `Finish` replaces is `OnboardAgent`'s in `AgentTransactions`.

`dropped` remembers that the work of a request was lost. The code logs most causes and lets them
pass: the enqueue or a retry could not be published, the failure could not be persisted, the hard limit
killed the run, or the run found no store. The last cause is silent: a run that gives up and reads `failed`
writes nothing and does not wait for a request that is about to commit `connected`, so that nobody settles that. `NoneForgotten`
says that nothing else leaves a store unsettled. `overtaken` remembers that new credentials were committed under a run that had
already read the old ones. `EndsCurrent` says that in every other case a store that ends ready was synced with the
newest.

### AutomationPipeline

One evaluation attempt at a time, which is what `TaskExecution` guarantees for the user's key
(`NoConcurrentWork`). Scores depend on the clock, so triggers may come in any order. A unit of
time is a day. `blind` counts how often Redis or the broker misled the pipeline, `excuses` the
attempts of an evaluation that were cut short or told that their action failed, `leaked` the triggers whose slot
a crash or a failed release left behind.

### ShopifyAdminToken

The API process only invalidates and never fetches; a worker child only fetches and is never
told of a change. The model keeps both caches and the three token requests of a sync. A
*version* stands for all a token depends on: shop domain, client id, secret. Since the invalidation happens in the
other process, a worker uses the old token until its TTL ends; `StaleTokenGone` bounds for how long.

A token that lives for less than the 120 s of the rule, or for less than the default TTL when Shopify announces no lifetime,
is kept longer than it lives, and the sync that gets it fails. `DeadHitsAreShortLived` says that no other is handed
out dead, and these no longer than the rule overruns their lifetime.

### StoreRegistry

A request loads its row once, computes from that object, and its UPDATE names the columns in which the object differs
from what was loaded (`Written`); `credentials` is one JSON column, so a write of it brings back the whole document as it was
read. A custom feed comes with a URL, a path and field names beside its domain (`feed`); other ones are a new document too. The history variables name the two ways in which the obvious properties fail: `stale` (a document was written
back over another request's commit) and `contested` (a domain was given by `POST /stores` or `PATCH`,
which look nothing up, or by two onboardings at once). The properties say that there is no third way. What the
model also makes visible:

* Onboarding finds a store whether active or not, so that a deactivated store's domain updates the dead row, whose API
  key no longer authenticates.
* `PATCH` of the domain keeps the secrets of the old domain.
* Of two overlapping onboardings with the same name one may fail on the unique slug.
* `POST /stores` can give a domain twice; from then on onboarding that domain raises. The same holds for phone numbers, which
  the WhatsApp webhook looks up (not modelled: a column nothing else depends on).

### ProductSync

A job fetches a page, upserts its items row by row (`Upsert`, each waiting for the lock of its row) and commits before it
reads the next page; `todo` are the items of the page left to write, taken in the order of the listing (`IsNext`). A webhook writes one row in a transaction of its own, so it is one step. `mail` holds the
webhooks Shopify repeats until they are acknowledged, in no order. What the shop lists (`list`) and what it offers (`offered`) are
two things. A storefront lists what is published, and a sync stores all of it as available. A webhook
stores whether the product's status is active and does not look at `published_at`. A custom feed says of each item
whether it is available (`Available`). `Valid` stands for whatever makes an
item fail its normalisation, taken to be the same for the storefront and for webhook payloads.

`ChangesArrive` says that a changed product ends with its newest version, available if it is active. It names the two excuses: `lost` (Shopify gave up) and `raced` (an older write of the product was under
way, in a batch or in another webhook). Rows carry no version, and the upsert overwrites whatever is there. `CalmSyncComplete` is
about syncs nobody disturbed, because changes of the shop move products across page borders; it covers availability too.

What the model also makes visible:

* `StoreContentRepository.upsert_bulk` passes a NULL id, so the part of a sync that needs an admin token always raises
  (`AdminRaises`). The products are committed by then, but the task never ends as done. `StoreOnboarding` lets the
  sync of such a store succeed and so allows more than the code does.
* A custom feed that names an id twice is never stored: one `ON CONFLICT` statement must not touch a row twice.
* What comes from Shopify has no categories, so a search by category finds none of it.
* A product that is only taken off the Online Store keeps its status active: its webhook leaves it
  available, no sync visits it any more, and the chat goes on to offer it. Archiving it makes it disappear.

### ProductRetrieval

`Retrieve` follows `get_products_for_query`: personalise, search, search again with less, fill up. `ChatProducts` adds what the
chat does around it: when nothing was found it asks for the message's category at any price, and a price limit of 0
raises (`Refused`). `Answers` says what a good answer is without saying how it is found: within budget and category as long as
anything fits, else the cheapest of the category. `SearchAnswers` compares the two for every catalogue that syncs, webhooks
and inserts can leave behind and every query over them.

### RateLimiter, ChatSession, ChatContext

A request is one transaction around all the messages of its payload; `req[r].step` is the statement it is at. Writes of
turns and events stand in `try`/`except` blocks, so `session` keeps what a swallowed error leaves behind. A failed
INSERT poisons the session, whose commit is then refused and whose answer is 500. Only a failing SELECT in
`track_chat_turn` aborts the transaction without the session noticing; the request is then answered 200 with nothing
stored (`hollow`). Two payloads with the same two new senders in opposite order may deadlock (`DeadlockVictim`).

Replies are queued before the commit; Meta repeats a payload that was not answered 200, also while an attempt is
under way. An attempt may die between its commit and its answer (`cut`); its turns are then stored once
more by the next attempt. `TurnsMatchAnswers` is the balance of all this.

Two kinds of message raise on every delivery: those over 4000 characters (`Long`, `ChatRequest`) and those that ask for a price
under 0 (`Unsearchable`, `ProductSearchFilters`). A webhook with one is never answered. Meta repeats it until it gives up;
each time the turns of the messages before it are rolled back, although their replies were queued. Over `POST /chat` they are answered 422 and 400.
Since replies have no key of their own, the same text to the same phone is one reply (`sent`): that a second equal answer is
suppressed for seven days is how the model is built, not something a property of it would notice.

`AnswerMessage` keeps the order of the intent rules; products are searched for search intents only, and the general intent gets the
fallback. Which reply a model gives is open.

`created_at` is the start of the transaction, so rows of one request tie and come back in any order: `Recent` gives
all of them, and `RecentTurns` may pair a question with another one's answer. `ChatContext` keeps a pair as its lines, since
only their order reaches the prompt. `TranscriptIsNewest` promises only what is true of each order: the transcript is the
newest of the rows read, in their order and without a gap, as long as its limits allow.

`RateLimiter` keeps the window a request computed before it waited for Redis. The three excuses of `LimitHolds` and
`CountersExpire` are Redis failing open (`spared`), a request so late that its window's counter has expired (`late`), and
a crash between INCR and EXPIRE (`leaked`). Redis is assumed to keep what it was told.

## Runs

| Run | Bounds | Shows |
|---|---|---|
| `TaskExecution` | 1 key, 2 publications, 2 children, 1 retry, 1 fault of any kind, lease 3 s, limit 3 s, visibility 6 s | runs of a key exclude each other; every duplicate has a cause; refinement of `IdempotencyWindow` |
| `TaskLive` | 2 publications, 1 retry, 4 copies, 1 lost node, effects that may raise each time, fairness | every copy is acknowledged in the end, also when the effect fails for good; if it never raised, the work is done |
| `TaskChildLost` (violated) | the code's constants in seconds | a lost child loses the task |
| `AgentTransactions` | 3 agents, 2 types, 2 transactions | no stale session revives an agent; an activation that commits holds; requests that do not overlap implement `AgentCommands` |
| `StoreOnboarding` | new, existing or failed store, 2 requests, 3 copies, 1 retry, 3 faults of any kind, fairness | ready is about the stored credentials, at once after one request and in the end after two, but for an overtaken run; polling ends and nothing is left unsettled, unless the work was dropped |
| `OnboardingNewStore` (violated) | new store, no faults | a fast worker misses the uncommitted store |
| `AutomationFaults` | 2 categories, 1 product, 4 faults, slot 2 days, key 3 days | bounded repetitions, one action per evaluation, a slot stands for an action |
| `AutomationSkipped` (violated) | the code's constants in days | new events are not evaluated for seven days |
| `TokenStale` | 1 worker, 3 changes, floor and default 2 s, lifetimes 1 and 4 s, or 1 and 2 s unannounced | only short-lived tokens are handed out dead, and not for long; stale ones end |
| `StoreRegistry` | 2 stores, 2 domains, 3 requests, 2 at a time, slug suffixes 0 and 1 | blocks match platforms; a domain has one store and secrets are the newest, each but for its named cause; nothing is revived |
| `ProductSync` | 3 products, 2 to a page, 2 pages, 2 writers, 1 retry, 3 versions and the merchant's own, up to 2 shop changes or lost workers, fairness | calm syncs are complete; changes arrive but for named causes, each with its availability; syncs alone do not deadlock; the chat's products are the right ones; syncs end |
| `ChatSession` | two webhooks with the same two senders in opposite order, both sound or one with a message that raises, too long or under 0; one with a fault and an early repetition; three or two `POST /chat`, the two with a fault, some of them raising; limit 2, minutes 0 to 2; fairness | turns match answers; stored turns are answered; the limiter; the transcript; every webhook that can be is answered in the end |

Why the bounds are enough. Keys, users and stores do not share state, so one of each suffices. Two
publications and two children give every pair of runs of one key; a third copy appears as a retry.
TTLs are shrunk but keep their order (limit ≤ lease, limit + lease ≤ visibility), which is all the
protocol uses; where the numbers themselves matter (`TaskChildLost`, `AutomationSkipped`) the runs use the
code's. With agents, two transactions are the least that race, and the siblings of both fit in three rows.
Worker caches share nothing but the store row, so one worker suffices for `ShopifyAdminToken`.
In `StoreRegistry` a store is made, and two requests that follow may overlap on it; two stores are the
least that can share a domain or a slug. In `ProductSync` three products make a full page and one that is not, two
writers are the least that deadlock, and two changes are the least whose webhooks can swap; a withdrawal between two
fetches makes the second page empty. Listings longer than the pages a sync asks for (500 of 250 in the code) are left out. In `ChatSession` three requests exceed a limit of two, one more
minute than a counter lives lets one expire under a request, and the context limits of 2 to 4 are passed by the turns
of two webhooks. `MaxClock` lets a webhook that can never be answered begin up to three attempts: one before
the webhook beside it, one under way with it and one after it. What holds beyond the bounds is the subject of the proofs.

Runs with `CHECK_DEADLOCK FALSE` are of systems that stop: copies, requests, payloads and changes are finite.

### Fairness

`TaskLive`: delivery, the steps of a run, the hard limit and time are weakly fair. Workers poll the broker,
a run goes on until it returns or the parent kills it, clocks advance. Publishing and faults are not fair.
`StoreOnboarding`: the steps of open requests and of jobs are weakly fair; new requests and
faults are not. `ProductSync`: the steps of a writer at work (`Progress`): a worker goes on, servers answer
or fail in bounded time, and PostgreSQL breaks deadlocks. `ChatSession`: the steps of a request, the repetition of a payload that
is unanswered and not under way, and the workers that take replies. The other specifications state none.

## What the violated runs say

Each quotes the text it contradicts in `PROJECT.json`:

1. *Lost child* (`TaskChildLost`): requeued at once, the copy meets its predecessor's lease (600 s) and its
   five retries (4, 8, 16, 32, 64 s plus jitter) end long before. The lease needs an owner or the
   retries must outlast it.
2. *Enqueue before commit* (`OnboardingNewStore`): the job returns as done when it does not find the store.
3. *Key too coarse* (`AutomationSkipped`): the user's evaluation key stays completed for seven days.

## Proofs

All theorems are proved by TLAPS (SMT, Zenon, PTL) for every value of the constants.

* **TaskExecution**. `TaskInvariant` proves the inductive invariant `TaskInv`. Exclusion alone is not inductive: a
  second run could take an expired lease. `LeaseCoversRun` adds that a lease covers the rest of the run's time
  limit, from which follows that only the holder's own release or completion can delete it (`LeaseOutlivesRun`). `EffectAccount`
  strengthens `DuplicatesExplained`: effects exceed openings by one only while a run has still to record its
  effect, or while the done key records it and no run works. `CompletionSound`: a completed key had its effect.
  `Refinement` maps the keys and copies of a key to the phase of
  `IdempotencyWindow` and proves each step a step of it or a stutter. `WorkIsDone` proves `DoneUnlessRaised` where only
  lost nodes, failing effects and broker errors occur (`Harmless`; a child that dies alone loses its work, as
  `TaskChildLost` shows). It needs two things at every moment of a key of which nothing is done yet: a
  lease belongs to a run at work, or to a lost run whose copy the broker redelivers after the lease is over (`Covers`);
  and otherwise some copy is still going to ask for the lease (`WorkIsComing`). Assumptions: `TaskConstants`,
  `LimitWithinLease`, `LeaseWithinVisibility`.
* **AgentTransactions**. `NothingResurrected` rests on `Ownership`: row locks keep a pending version the only one of
  its row, and what it says of is_active is FALSE, the committed value it was copied from, or the request's own wish.
  Without the locks a committed value could change under a copy of it. `ActivationsHold` rests on `AllGranted`: the row a
  request switched on stays locked until the commit, and the request's own clean-up leaves it out. `SerialImplements` is the
  refinement of `AgentCommands`. Its invariant `Serial` says that while nobody overlapped at most one request is open, so
  that its snapshot is what is committed and it waits for no lock, and how far its statements have come: which siblings are
  switched off, which are still to be visited. `CommandsSingle` proves of the abstract commands that they keep one active agent
  per type, and `SingleUntilOverlap` carries that over to the transactions: until two requests have overlapped, no two active
  agents of a type are committed.
* **StoreOnboarding**. `ReadyCurrent`
  is about the first request and rests on the row lock: a run that loaded before the commit waits for it
  in its first UPDATE and refreshes what it uses. `NobodyForgets` rests on `Attended`: while a store is unsettled, or a request
  stands before the commit that will unsettle it, a copy has still to run or to be enqueued. The last copy cannot end
  too early, because it settles the store in an UPDATE that waits for that commit; if it leaves `failed` unwritten instead, that is
  `dropped`. `ExistingStoreSettles` then proves the violated `Settled` where the causes are absent: the store exists, and nothing
  goes wrong but rollbacks and lost children. `EndsWithNewest` adds `CurrentInv`: a run that syncs has the credentials in force, and a ready
  store under which new ones were committed still has a copy to run, which `Attended` provides.
* **AutomationPipeline**. `RepeatAccount` (a slot that outlives the repetition window protects the trigger; otherwise a
  misjudgement has paid for one more) and `ActAccount` (who is still to act has not acted, or was excused). `SlotMeansActed`
  is inductive by itself.
* **ShopifyAdminToken**. `CacheAlive` is `DeadHitsAreShortLived` for all lifetimes, by the arithmetic of `TTL`: 85 percent of a lifetime, or the floor.
  `StaleTokensEnd` uses three ages:
  what a sync loaded is as old as the sync, a cached token at most a run and a TTL, a token in use one more run.
* **StoreRegistry**. The inductive invariant `IInv` says what may stand in a version that is not yet committed. Only a
  request about to commit has one (`WritesAtEnd`), no two have one of the same row (`OneWriter`), it keeps the platform of the
  row and is active only if the row is (`Successors`), its block is its platform's (`OwnBlocks`) and its slug nobody
  else's (`SlugsApart`). `Loaded` is about the object a request computed from: it may be older than the row, but not of
  another platform. `BlocksMatch` is `OwnBlocks` for rows, `NeverRevived` is `Successors` at the commit.
  `SecretsAreNewest` adds that requests have numbers of their own (`Serials`), that a number stands only in versions that
  descend from its request (`SecretsKnown`), and that the uncommitted version of a store that is not `stale` is the newest
  secrets with those its request was given merged in (`NewestPend`). `StoresApart` reasons about who holds or is about to hold a domain (`HoldersApart`): what
  an onboarding found out when it looked stays true until it commits (`Claims`), unless the domain is contested (`Rivals`, `Givers`).
* **ProductSync**. `LastChangeArrives` rests on `Arrival`: of every product that changed, the newest version is in its row and nothing
  older can overwrite it (`Arrived`), or its webhook is still to come (`OnItsWay`), or that webhook was lost or raced.
  `CalmSyncStoresAll` follows a sync through the listing place by place (`CalmRuns`): what it has passed is
  stored as the shop has it, available or not. `SyncsDoNotDeadlock` numbers the products so that the numbers rise along the listing (`LockOrder`) and
  shows that publishing, editing and withdrawing leave such a numbering; locks are then taken in rising order, and a cycle
  of waiting writers would have no least row. `ChatFindsProducts` is `ChatAnswers`, a lemma about the operators of
  `ProductRetrieval` for every finite catalogue and every query. Assumptions: `SyncConstants`, `FiniteProducts`.
* **ChatSession** with **RateLimiter**. `LimitIsKept` rests on `WindowHolds`: while a window's key lives it has counted
  every request let through but the spared ones, and it can be evicted only when a further request would be `late`, `CountersGetTtl` is inductive next to the types. `TurnsAreAnswers` rests on `ChatData`: a user per
  sender, in the table or uncommitted (`UniqueUsers`); transactions begin at different times (`Clocks`); the rows a
  request has written are those of the messages behind it, each whole unless an error was swallowed (`Rows`); and
  the stored turns of a message are as many as its payload's answers and cut attempts, and the attempt between its
  commit and its answer, less the `hollow` ones (`Counts`). `RepliesAreQueued`
  adds that a row whose reply is due has it queued, sent or dropped before the commit (`RepliesFirst`). Assumptions: `LimiterConstants`,
  `ChatConstants`, and `ChatPayloads`: Meta names each message once and with its sender, and `POST /chat` carries one.
* **ChatContext**. `TranscriptHolds` proves `TranscriptIsNewest` for tables of any size. The library's induction theorems
  take an operator, which the installed provers cannot instantiate; `AllNumbers` is induction over a *set* of
  numbers, from the well-foundedness of the subset relation on finite sets, and `Recursion` shows with it that a
  function defined by recursion on the numbers exists. On these rest the lemmas about flattening a sequence of sequences
  (`FlattenIs`, `FlattenAppend`, `FlattenEnds`) and about pairing: read line by line, the pairs are the rows in their order
  (`PairsAreRows`). The last pairs of a sequence then hold the newest lines of it (`FlattenEnds`, `EndIsNewest`). The
  invariant is `FiniteRows`, so that an order to read the rows in exists at all. Assumption: `ContextConstants`.

Every safety and action property that a passing run checks is also a theorem. Only model-checked are the liveness properties
`EventuallyDrained`, `PollingEnds`, `SyncEnds` and `EveryoneAnswered`: they rest on fairness and so on ENABLED, which is out of
the prover's reach. What the violation runs show is a counterexample and needs no proof.

## Not modelled

* Language model, prompt texts and their builder, encryption, logging, the dashboard: transformations without
  shared state. Only the ranges of their results appear.
* Authentication: comparisons with one row. That a deactivated store's key is refused is in `StoreRegistry`.
* AI configuration: one settings row per store, set column by column by one form. Its mechanism, a save that sends only
  what differs from what it loaded, is `Written` in `StoreRegistry`.
* The order lookup and the user preferences of a chat; which words and intents a text has is given by constants.
* Mock mode, and products without an external id, which conflict with nothing. WooCommerce stores, which nothing reads.
* What PostgreSQL's full text search hits, and how an item is converted field by field.

Some models declare an attribute named
`metadata`, which SQLAlchemy's declarative base reserves; the models take the classes as if it were mapped under
another name. `PROJECT.json` gives the reason for each part.

## Plan

Next modules: the ranking of triggers as operators with a reference, and overlapping saves of the AI configuration, where
provider and model are a pair.
