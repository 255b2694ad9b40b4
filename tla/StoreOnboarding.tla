-------------------------- MODULE StoreOnboarding --------------------------
(***************************************************************************)
(* Connecting one store: POST /stores/onboard writes the credentials and   *)
(* enqueues complete_store_onboarding before its transaction commits; the  *)
(* task moves onboarding_status through syncing to ready or failed in      *)
(* transactions of its own.  The dashboard polls that status.              *)
(*                                                                         *)
(* A job is one copy of the task's message (see TaskExecution for the      *)
(* broker); the task has no idempotency key, so copies may run together.   *)
(* Only one store is modelled: the row of one domain.  Its chat agent,     *)
(* replaced in the transaction of Finish, is OnboardAgent's in             *)
(* AgentTransactions.                                                      *)
(*                                                                         *)
(* A session sends an UPDATE only for the columns in which its object      *)
(* differs from what it loaded.  Without one it does not wait for the row  *)
(* either: both matter here, wherever a status is written.                 *)
(***************************************************************************)
EXTENDS Naturals

CONSTANTS
  Request,       \* onboarding requests that may be open at once
  NoRequest,     \* nobody
  Job,           \* BOUND: message copies alive at once
  MaxRetries,    \* MAX_RETRIES of the task
  InitialStatus, \* no row; what POST /stores left; an earlier onboarding gave up
  FaultKinds,    \* the faults the environment may inject
  MaxFaults,     \* BOUND: injected faults
  MaxOnboard     \* BOUND: onboarding requests

AllFaultKinds ==
  {"enqueue_error", "commit_error", "work_error", "persist_error", "retry_error",
   "child_lost", "hard_kill"}

\* After these nobody is left to move the store's status.
LosingKinds == {"enqueue_error", "persist_error", "retry_error", "hard_kill"}

ASSUME OnboardingConstants ==
  /\ NoRequest \notin Request
  /\ InitialStatus \subseteq {"absent", "created", "failed"}
  /\ MaxRetries \in Nat /\ MaxFaults \in Nat /\ MaxOnboard \in Nat
  /\ FaultKinds \subseteq AllFaultKinds

VARIABLES
  status,  \* committed onboarding_status; "absent" while no row is committed
  creds,   \* version of the committed credentials, 1 = those before any request
  synced,  \* history: credentials version of the last finished sync, 0 = none
  lock,    \* request that wrote the row and has not committed
  req,     \* the open requests
  job,     \* the message copies and the runs that execute them
  asked,   \* history: requests so far; the n-th brings version n + 1
  dropped, \* history: the work of a request was lost, see LosingKinds, NoStore
           \* and LeavesFailed
  overtaken, \* history: credentials were committed under a run that had read
             \* the ones before
  faults   \* history: injected faults

vars == <<status, creds, synced, lock, req, job, asked, dropped, overtaken, faults>>
row == <<status, creds>>
history == <<dropped, overtaken, faults>>

Statuses == {"created", "connected", "syncing", "ready", "failed"}

Versions == 1 .. MaxOnboard + 1

NoReq == [step |-> "idle", seen |-> "absent", version |-> 1, fresh |-> FALSE]
Copy(step, tries) == [step |-> step, tries |-> tries, seen |-> "absent", creds |-> 1]
FreeJob == Copy("free", 0)

RunSteps == {"load", "mark", "sync", "finish"}
Executing == RunSteps \cup {"retry", "persist", "fail", "ack"}

May(kind) == kind \in FaultKinds /\ faults < MaxFaults
Fault(kind) ==
  /\ May(kind)
  /\ faults' = faults + 1
  /\ dropped' = (dropped \/ kind \in LosingKinds)
  /\ UNCHANGED overtaken

ReqTo(r, step) == req' = [req EXCEPT ![r].step = step]
JobTo(j, step) == job' = [job EXCEPT ![j].step = step]

\* The session is closed; what it has read is gone.
CloseTo(j, step) == job' = [job EXCEPT ![j] = Copy(step, job[j].tries)]

\* Copies are interchangeable: a new one goes to a fixed free place.
Vacant(j) == job[j].step = "free" /\ j = CHOOSE i \in Job : job[i].step = "free"

\* An UPDATE of the store row waits for a request's uncommitted version.
RowFree == lock = NoRequest

(***************************************************************************)
(* Faulty variants                                                         *)
(***************************************************************************)
\* syncing is not flushed before the sync, so that nothing waits for the row
MarkWithoutFlush(j) ==
  /\ job[j].step = "mark"
  /\ status' = "syncing"
  /\ job' = [job EXCEPT ![j] = [@ EXCEPT !.step = "sync", !.seen = "syncing", !.creds = creds]]
  /\ UNCHANGED <<creds, synced, lock, req, asked, history>>

\* no refresh after the flush
MarkWithoutRefresh(j) ==
  /\ job[j].step = "mark"
  /\ \/ job[j].seen = "syncing" /\ UNCHANGED status
     \/ job[j].seen # "syncing" /\ RowFree /\ status' = "syncing"
  /\ job' = [job EXCEPT ![j] = [@ EXCEPT !.step = "sync", !.seen = "syncing"]]
  /\ UNCHANGED <<creds, synced, lock, req, asked, history>>

\* a store that is syncing already is left to the run that is at it
MarkOnlyOnce(j) ==
  /\ job[j].step = "mark"
  /\ \/ job[j].seen = "syncing" /\ CloseTo(j, "ack") /\ UNCHANGED status
     \/ /\ job[j].seen # "syncing" /\ RowFree /\ status' = "syncing"
        /\ job' = [job EXCEPT ![j] = [@ EXCEPT !.step = "sync", !.seen = "syncing", !.creds = creds]]
  /\ UNCHANGED <<creds, synced, lock, req, asked, history>>

\* off by one: retries <= max_retries
RaisesOnceTooOften(j) ==
  /\ job[j].step \in RunSteps
  /\ Fault("work_error")
  /\ CloseTo(j, IF job[j].tries <= MaxRetries THEN "retry" ELSE "persist")
  /\ UNCHANGED <<row, synced, lock, req, asked>>

\* exhausted retries are logged, the status is left alone
GivesUpSilently(j) ==
  /\ job[j].step = "persist"
  /\ CloseTo(j, "ack")
  /\ UNCHANGED <<row, synced, lock, req, asked, history>>

Init ==
  /\ status \in InitialStatus
  /\ creds = 1
  /\ synced = 0
  /\ lock = NoRequest
  /\ req = [r \in Request |-> NoReq]
  /\ job = [j \in Job |-> FreeJob]
  /\ asked = 0
  /\ dropped = FALSE
  /\ overtaken = FALSE
  /\ faults = 0

(***************************************************************************)
(* POST /stores/onboard                                                    *)
(***************************************************************************)
\* get_by_platform_domain: reconnect the store if it exists.  Two requests
\* that both find none would insert two rows; that is another store's life.
\* A request that brings what the row has already is not fresh; encrypted
\* anew, a secret never is the same.
Lookup(r) ==
  /\ req[r].step = "idle"
  /\ asked < MaxOnboard
  /\ status = "absent" => \A q \in Request : req[q].step = "idle"
  /\ \E fresh \in BOOLEAN :
       /\ status = "absent" => fresh
       /\ req' = [req EXCEPT ![r] =
                    [step |-> "write", seen |-> status, version |-> asked + 2, fresh |-> fresh]]
  /\ asked' = asked + 1
  /\ UNCHANGED <<row, synced, lock, job, history>>

\* Only what differs from the row as it was looked up is written.
Writes(r) == req[r].fresh \/ req[r].seen # "connected"

\* update_store / create_store: flushed, so the row is locked (a new row is
\* invisible to others) until the request's transaction ends.
Write(r) ==
  /\ req[r].step = "write"
  /\ \/ Writes(r) /\ RowFree /\ lock' = r
     \/ ~Writes(r) /\ UNCHANGED lock
  /\ ReqTo(r, "enqueue")
  /\ UNCHANGED <<row, synced, job, asked, history>>

\* complete_store_onboarding.apply_async, still inside the transaction.
Enqueue(r) ==
  /\ req[r].step = "enqueue"
  /\ \E j \in Job :
       /\ Vacant(j)
       /\ job' = [job EXCEPT ![j] = Copy("ready", 0)]
  /\ ReqTo(r, "commit")
  /\ UNCHANGED <<row, synced, lock, asked, history>>

\* onboarding_job = "enqueue_failed": reported to the caller, then committed.
EnqueueFails(r) ==
  /\ req[r].step = "enqueue"
  /\ Fault("enqueue_error")
  /\ ReqTo(r, "commit")
  /\ UNCHANGED <<row, synced, lock, job, asked>>

EndRequest(r) ==
  /\ lock' = IF lock = r THEN NoRequest ELSE lock
  /\ req' = [req EXCEPT ![r] = NoReq]
  /\ UNCHANGED <<synced, job, asked>>

\* get_db commits after the handler.  onboarding_status and credentials are
\* part of the UPDATE only if they differ from what the request loaded.
CommitRequest(r) ==
  /\ req[r].step = "commit"
  /\ status' = IF req[r].seen = "connected" THEN status ELSE "connected"
  /\ creds' = IF req[r].fresh THEN req[r].version ELSE creds
  /\ overtaken' =
       (overtaken \/ (req[r].fresh /\ \E j \in Job : job[j].step \in {"sync", "finish"}))
  /\ EndRequest(r)
  /\ UNCHANGED <<dropped, faults>>

\* The transaction fails after the enqueue: rolled back, the job stays.
RollbackRequest(r) ==
  /\ req[r].step = "commit"
  /\ Fault("commit_error")
  /\ EndRequest(r)
  /\ UNCHANGED row

(***************************************************************************)
(* complete_store_onboarding                                               *)
(***************************************************************************)
Deliver(j) ==
  /\ job[j].step = "ready"
  /\ JobTo(j, "load")
  /\ UNCHANGED <<row, synced, lock, req, asked, history>>

\* The run finds no store: "Store %s not found", or nothing to mark as failed.
NoStore == status = "absent" /\ dropped' = TRUE

\* get_by_id: a store that is not committed yet is not found, and the task
\* returns as if it were done.
Load(j) ==
  /\ job[j].step = "load"
  /\ \/ NoStore /\ CloseTo(j, "ack")
     \/ /\ status # "absent"
        /\ job' = [job EXCEPT ![j] = [@ EXCEPT !.step = "mark", !.seen = status, !.creds = creds]]
        /\ UNCHANGED dropped
  /\ UNCHANGED <<row, synced, lock, req, asked, overtaken, faults>>

\* update_onboarding_status(syncing), refresh, commit.  The refresh reads the
\* row after the UPDATE; without one, when the loaded status was syncing
\* already, it reads whatever is committed.
MarkSyncing(j) ==
  /\ job[j].step = "mark"
  /\ \/ job[j].seen = "syncing" /\ UNCHANGED status
     \/ job[j].seen # "syncing" /\ RowFree /\ status' = "syncing"
  /\ job' = [job EXCEPT ![j] = [@ EXCEPT !.step = "sync", !.seen = status', !.creds = creds]]
  /\ UNCHANGED <<creds, synced, lock, req, asked, history>>

\* sync_store_products with the credentials the session holds; it commits in
\* batches, a run that raises later leaves them.
Sync(j) ==
  /\ job[j].step = "sync"
  /\ synced' = job[j].creds
  /\ JobTo(j, "finish")
  /\ UNCHANGED <<row, lock, req, asked, history>>

\* One transaction: old chat agents off, a new one in, status ready; the
\* status needs no UPDATE if the refresh after syncing has read ready.
Finish(j) ==
  /\ job[j].step = "finish"
  /\ \/ job[j].seen = "ready" /\ UNCHANGED status
     \/ job[j].seen # "ready" /\ RowFree /\ status' = "ready"
  /\ CloseTo(j, "ack")
  /\ UNCHANGED <<creds, synced, lock, req, asked, history>>

\* Any exception of the body, the soft time limit included.
Raises(j) ==
  /\ job[j].step \in RunSteps
  /\ Fault("work_error")
  /\ CloseTo(j, IF job[j].tries < MaxRetries THEN "retry" ELSE "persist")
  /\ UNCHANGED <<row, synced, lock, req, asked>>

\* self.retry: a new copy, then the acknowledgement of this one.
Retry(j) ==
  /\ job[j].step = "retry"
  /\ \E n \in Job :
       /\ Vacant(n)
       /\ job' = [job EXCEPT
                    ![j] = Copy("ack", job[j].tries),
                    ![n] = Copy("ready", job[j].tries + 1)]
  /\ UNCHANGED <<row, synced, lock, req, asked, history>>

\* The retry cannot be published: the copy is rejected for good.
RetryFails(j) ==
  /\ job[j].step = "retry"
  /\ Fault("retry_error")
  /\ CloseTo(j, "ack")
  /\ UNCHANGED <<row, synced, lock, req, asked>>

\* _persist_onboarding_failed, in a session of its own: get_by_id.
GiveUp(j) ==
  /\ job[j].step = "persist"
  /\ \/ NoStore /\ CloseTo(j, "ack")
     \/ /\ status # "absent"
        /\ job' = [job EXCEPT ![j] = [@ EXCEPT !.step = "fail", !.seen = status]]
        /\ UNCHANGED dropped
  /\ UNCHANGED <<row, synced, lock, req, asked, overtaken, faults>>

\* failed was read, so it is not written, although the row does not say so any
\* more or an open request is about to change it.
LeavesFailed(j) ==
  /\ job[j].seen = "failed"
  /\ dropped' = (dropped \/ status # "failed" \/ ~RowFree)
  /\ UNCHANGED status

\* update_onboarding_status(failed), commit.
PersistFailed(j) ==
  /\ job[j].step = "fail"
  /\ \/ LeavesFailed(j)
     \/ job[j].seen # "failed" /\ RowFree /\ status' = "failed" /\ UNCHANGED dropped
  /\ CloseTo(j, "ack")
  /\ UNCHANGED <<creds, synced, lock, req, asked, overtaken, faults>>

\* "Could not persist onboarding failed status"
PersistRaises(j) ==
  /\ job[j].step \in {"persist", "fail"}
  /\ Fault("persist_error")
  /\ CloseTo(j, "ack")
  /\ UNCHANGED <<row, synced, lock, req, asked>>

Ack(j) ==
  /\ job[j].step = "ack"
  /\ job' = [job EXCEPT ![j] = FreeJob]
  /\ UNCHANGED <<row, synced, lock, req, asked, history>>

\* The child dies: its transaction is rolled back and the copy requeued.
ChildLost(j) ==
  /\ job[j].step \in Executing
  /\ Fault("child_lost")
  /\ CloseTo(j, "ready")
  /\ UNCHANGED <<row, synced, lock, req, asked>>

\* The hard time limit kills the child and acknowledges the copy.
HardKill(j) ==
  /\ job[j].step \in Executing
  /\ Fault("hard_kill")
  /\ job' = [job EXCEPT ![j] = FreeJob]
  /\ UNCHANGED <<row, synced, lock, req, asked>>

HandlerStep(r) ==
  Write(r) \/ Enqueue(r) \/ EnqueueFails(r) \/ CommitRequest(r) \/ RollbackRequest(r)

RunStep(j) ==
  \/ Deliver(j) \/ Load(j) \/ MarkSyncing(j) \/ Sync(j) \/ Finish(j)
  \/ Retry(j) \/ GiveUp(j) \/ PersistFailed(j) \/ Ack(j)

RunFault(j) ==
  Raises(j) \/ RetryFails(j) \/ PersistRaises(j) \/ ChildLost(j) \/ HardKill(j)

Next ==
  \/ \E r \in Request : Lookup(r) \/ HandlerStep(r)
  \/ \E j \in Job : RunStep(j) \/ RunFault(j)

Spec == Init /\ [][Next]_vars

\* Open requests are served and queued copies are run; nobody has to onboard,
\* and faults owe nothing.
Fairness ==
  /\ \A r \in Request : WF_vars(HandlerStep(r))
  /\ \A j \in Job : WF_vars(RunStep(j))

FairSpec == Spec /\ Fairness

(***************************************************************************)
(* Properties                                                              *)
(***************************************************************************)
TypeOK ==
  /\ status \in Statuses \cup {"absent"}
  /\ creds \in Versions
  /\ synced \in Versions \cup {0}
  /\ lock \in Request \cup {NoRequest}
  /\ req \in [Request ->
       [step : {"idle", "write", "enqueue", "commit"},
        seen : Statuses \cup {"absent"}, version : Versions, fresh : BOOLEAN]]
  /\ job \in [Job ->
       [step : {"free", "ready"} \cup Executing, tries : 0 .. MaxRetries,
        seen : Statuses \cup {"absent"}, creds : Versions]]
  /\ asked \in 0 .. MaxOnboard
  /\ dropped \in BOOLEAN
  /\ overtaken \in BOOLEAN
  /\ faults \in 0 .. MaxFaults
  /\ \A j \in Job : job[j].step = "retry" => job[j].tries < MaxRetries

\* The row is locked exactly by the request between its flush and its end.
LockHeld ==
  \A r \in Request : lock = r <=> req[r].step \in {"enqueue", "commit"} /\ Writes(r)

Quiet ==
  /\ \A r \in Request : req[r].step = "idle"
  /\ \A j \in Job : job[j].step = "free"

\* ready is about the credentials in force: after one onboarding request, a run
\* that was enqueued before the commit still syncs what the request wrote,
\* because its first UPDATE waits for the request's row lock.
ReadyIsCurrent == asked <= 1 /\ status = "ready" => synced = creds

\* After any number of requests: when nothing is left to run, a ready store was
\* synced with the credentials given last, also if those were committed while
\* an older run had still to start, to retry or to give up.  A run that is
\* already syncing goes on with the old ones, and one that found the store
\* syncing reads them before the commit: these two are overtaken.
EndsCurrent == Quiet /\ status = "ready" => synced = creds \/ overtaken \/ dropped

Waiting == status \in {"connected", "syncing"}

\* "queues Celery work to sync products and create an active default chat agent"
\* (api/v1/stores.py): when nothing is left to run, the store that was onboarded
\* is ready or failed.
Settled == Quiet /\ asked > 0 => status \in {"ready", "failed"}

\* A store is left unsettled only by the causes the code logs and lets pass and
\* by a failed left unwritten: retried, repeated, overlapping and rolled back
\* work never leaves it connected or syncing with nobody at work on it.
NoneForgotten == Quiet /\ asked > 0 => status \in {"ready", "failed"} \/ dropped

\* The dashboard's polling ends: a store that is being connected becomes ready
\* or failed, through retries, lost workers, rollbacks and overlapping requests,
\* unless the work was lost by one of those causes.
PollingEnds == Waiting ~> ~Waiting \/ dropped
=============================================================================
