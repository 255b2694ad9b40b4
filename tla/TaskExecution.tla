--------------------------- MODULE TaskExecution ---------------------------
(***************************************************************************)
(* A Celery task guarded by TaskIdempotency: the broker's message copies,  *)
(* the prefork worker that runs them, and the two Redis keys (done, lease) *)
(* of each idempotency key.  send_whatsapp_message and                     *)
(* evaluate_user_automation share this skeleton line by line; "the effect" *)
(* is the call inside their try block.                                     *)
(*                                                                         *)
(* A slot is one copy of a message in the broker.  A copy is delivered,    *)
(* runs the body one Redis or broker call at a time, and stays             *)
(* unacknowledged until the task has returned (task_acks_late).  retry()   *)
(* publishes a new copy before the old one is acknowledged.  Time passes   *)
(* in Tick: TTLs and countdowns run down, the time of a run goes up.       *)
(***************************************************************************)
EXTENDS Integers, FiniteSets

CONSTANTS
  Key,               \* idempotency keys
  Slot,              \* BOUND: message copies alive at once
  NoKey,             \* the key of an unused slot
  Workers,           \* prefork children
  MaxRetries,        \* max_retries of the task
  BaseDelay,         \* base_seconds of retry_countdown_seconds
  MaxDelay,          \* max_seconds of retry_countdown_seconds
  LeaseTTL,          \* lease_ttl_seconds
  DoneTTL,           \* completed_ttl_seconds
  SoftLimit,         \* task_soft_time_limit
  HardLimit,         \* task_time_limit
  VisibilityTimeout, \* Redis transport: an unacknowledged copy of a dead
                     \* node is redelivered this long after its delivery
  FaultKinds,        \* the faults the environment may inject
  MaxFaults,         \* BOUND: injected faults
  MaxPublish         \* BOUND: apply_async calls per key

AllFaultKinds ==
  {"child_lost", "node_lost", "work_error", "redis_error", "broker_error", "slow"}

ASSUME TaskConstants ==
  /\ NoKey \notin Key
  /\ {Workers, MaxRetries, MaxFaults, MaxPublish} \subseteq Nat
  /\ {BaseDelay, MaxDelay, LeaseTTL, DoneTTL, SoftLimit, HardLimit} \subseteq Nat \ {0}
  /\ VisibilityTimeout \in Nat
  /\ FaultKinds \subseteq AllFaultKinds

\* celery_app.py sets task_time_limit = 600, task_soft_time_limit = 540 and
\* task_idempotency.py lease_ttl_seconds = 600: a run never outlives its lease.
ASSUME LimitWithinLease == SoftLimit < HardLimit /\ HardLimit <= LeaseTTL

\* The Redis transport's default visibility timeout is an hour: a lease taken
\* by a run is gone when the run's copy is redelivered.
ASSUME LeaseWithinVisibility == HardLimit + LeaseTTL <= VisibilityTimeout

VARIABLES
  st,        \* where a copy is: in the broker, or at which line of the body
  keyOf,     \* its idempotency key
  tries,     \* request.retries
  timer,     \* delayed: seconds to its eta;  running: seconds since delivery
  warned,    \* running: SoftTimeLimitExceeded was already raised
  lease,     \* seconds the lease key still lives, 0 = absent
  done,      \* seconds the done key still lives, 0 = absent
  effects,   \* history: how often the effect of a key happened
  reopened,  \* history: how often a key became free for one more effect
  published, \* history: apply_async calls for a key
  faults     \* history: injected faults

vars == <<st, keyOf, tries, timer, warned, lease, done, effects, reopened,
          published, faults>>
copies == <<keyOf, tries, timer, warned>>
redis == <<lease, done>>
history == <<effects, reopened>>

Checking == {"read_done", "set_lease", "reread_done"}
Holding == {"work", "mark", "release"}   \* between "proceed" and its end
Running == Checking \cup Holding \cup {"retry", "ack"}
Status == {"free", "ready", "delayed"} \cup Running

MinOf(a, b) == IF a <= b THEN a ELSE b
MaxOf(a, b) == IF a >= b THEN a ELSE b

Bump(f, k) == [f EXCEPT ![k] = @ + 1]

RunningSlots == {m \in Slot : st[m] \in Running}
Alive(k) == {m \in Slot : keyOf[m] = k}

\* A fault of this kind may be injected now.
May(kind) == kind \in FaultKinds /\ faults < MaxFaults

\* retry_countdown_seconds(attempt): exponential, capped, ten percent jitter
\* (never less than a second, never more than thirty), cut to whole seconds.
RetryDelays(attempt) ==
  LET exp == MinOf(MaxDelay, BaseDelay * 2^attempt)
  IN  (exp .. (exp + MinOf(30, MaxOf(1, exp \div 10)))) \cap Nat

(***************************************************************************)
(* Faulty variants: what plausible mistakes in the code would turn an      *)
(* action into.  No specification of the project uses them.                *)
(***************************************************************************)
\* SET without nx=True
SetLeaseWithoutNX(m) ==
  /\ st[m] = "set_lease"
  /\ lease' = [lease EXCEPT ![keyOf[m]] = LeaseTTL]
  /\ st' = [st EXCEPT ![m] = "work"]
  /\ reopened' = IF done[keyOf[m]] > 0 THEN Bump(reopened, keyOf[m]) ELSE reopened
  /\ UNCHANGED <<copies, done, effects, published, faults>>

\* the pipeline deletes the lease but forgets the done key
MarkWithoutDone(m) ==
  /\ st[m] = "mark"
  /\ lease' = [lease EXCEPT ![keyOf[m]] = 0]
  /\ st' = [st EXCEPT ![m] = "ack"]
  /\ UNCHANGED <<copies, done, history, published, faults>>

\* the except branch logs and falls through to mark_completed
RaisesFallsThrough(m) ==
  /\ st[m] = "work"
  /\ "work_error" \in FaultKinds
  /\ st' = [st EXCEPT ![m] = "mark"]
  /\ UNCHANGED <<copies, redis, history, published, faults>>

\* acks_late dropped: the broker forgets a copy when it is delivered
NodeLostEarlyAck(m) ==
  /\ st[m] \in Running \cup {"delayed"}
  /\ May("node_lost")
  /\ st' = [st EXCEPT ![m] = "free"]
  /\ keyOf' = [keyOf EXCEPT ![m] = NoKey]
  /\ tries' = [tries EXCEPT ![m] = 0]
  /\ timer' = [timer EXCEPT ![m] = 0]
  /\ warned' = [warned EXCEPT ![m] = FALSE]
  /\ reopened' = IF st[m] = "mark" THEN Bump(reopened, keyOf[m]) ELSE reopened
  /\ faults' = faults + 1
  /\ UNCHANGED <<redis, effects, published>>

\* the new copy is published with the retry count of the old one
RetryWithoutCount(m) ==
  /\ st[m] = "retry"
  /\ \E n \in Slot, d \in RetryDelays(tries[m]) :
       /\ st[n] = "free"
       /\ st' = [st EXCEPT ![m] = "ack", ![n] = "delayed"]
       /\ keyOf' = [keyOf EXCEPT ![n] = keyOf[m]]
       /\ tries' = [tries EXCEPT ![n] = tries[m]]
       /\ timer' = [timer EXCEPT ![n] = d]
  /\ UNCHANGED <<warned, redis, history, published, faults>>

\* retry() called without max_retries
RetryUnlimited(m) ==
  /\ st[m] = "retry"
  /\ \E n \in Slot, d \in RetryDelays(tries[m]) :
       /\ st[n] = "free"
       /\ st' = [st EXCEPT ![m] = "ack", ![n] = "delayed"]
       /\ keyOf' = [keyOf EXCEPT ![n] = keyOf[m]]
       /\ tries' = [tries EXCEPT ![n] = tries[m] + 1]
       /\ timer' = [timer EXCEPT ![n] = d]
  /\ UNCHANGED <<warned, redis, history, published, faults>>

(***************************************************************************)
(* The broker                                                              *)
(***************************************************************************)
Init ==
  /\ st = [m \in Slot |-> "free"]
  /\ keyOf = [m \in Slot |-> NoKey]
  /\ tries = [m \in Slot |-> 0]
  /\ timer = [m \in Slot |-> 0]
  /\ warned = [m \in Slot |-> FALSE]
  /\ lease = [k \in Key |-> 0]
  /\ done = [k \in Key |-> 0]
  /\ effects = [k \in Key |-> 0]
  /\ reopened = [k \in Key |-> 0]
  /\ published = [k \in Key |-> 0]
  /\ faults = 0

\* A producer calls apply_async; nothing stops two producers (or one that
\* repeats itself) from using the same idempotency key.
Publish(m, k) ==
  /\ st[m] = "free"
  /\ published[k] < MaxPublish
  /\ st' = [st EXCEPT ![m] = "ready"]
  /\ keyOf' = [keyOf EXCEPT ![m] = k]
  /\ published' = Bump(published, k)
  /\ UNCHANGED <<tries, timer, warned, redis, history, faults>>

\* A free child takes a waiting copy (prefetch 1), or one whose eta came.
Deliver(m) ==
  /\ st[m] = "ready" \/ (st[m] = "delayed" /\ timer[m] = 0)
  /\ Cardinality(RunningSlots) < Workers
  /\ st' = [st EXCEPT ![m] = "read_done"]
  /\ timer' = [timer EXCEPT ![m] = 0]
  /\ UNCHANGED <<keyOf, tries, warned, redis, history, published, faults>>

\* The broker forgets the copy.
Forget(m) ==
  /\ st' = [st EXCEPT ![m] = "free"]
  /\ keyOf' = [keyOf EXCEPT ![m] = NoKey]
  /\ tries' = [tries EXCEPT ![m] = 0]
  /\ timer' = [timer EXCEPT ![m] = 0]
  /\ warned' = [warned EXCEPT ![m] = FALSE]

\* The task returned or raised: late acknowledgement.
Ack(m) ==
  /\ st[m] = "ack"
  /\ Forget(m)
  /\ UNCHANGED <<redis, history, published, faults>>

(***************************************************************************)
(* The task body                                                           *)
(***************************************************************************)
\* check_or_acquire: the first GET of the done key.
ReadDone(m) ==
  /\ st[m] = "read_done"
  /\ st' = [st EXCEPT ![m] = IF done[keyOf[m]] > 0 THEN "ack" ELSE "set_lease"]
  /\ UNCHANGED <<copies, redis, history, published, faults>>

\* check_or_acquire: SET lease NX EX.  The done key is not read again when
\* it succeeds, so a run may proceed although the key is completed by now.
SetLease(m) ==
  /\ st[m] = "set_lease"
  /\ IF lease[keyOf[m]] = 0
       THEN /\ lease' = [lease EXCEPT ![keyOf[m]] = LeaseTTL]
            /\ st' = [st EXCEPT ![m] = "work"]
            /\ reopened' = IF done[keyOf[m]] > 0 THEN Bump(reopened, keyOf[m])
                                                 ELSE reopened
       ELSE /\ st' = [st EXCEPT ![m] = "reread_done"]
            /\ UNCHANGED <<lease, reopened>>
  /\ UNCHANGED <<copies, done, effects, published, faults>>

\* check_or_acquire: the second GET; "lease_held" goes to self.retry.
RereadDone(m) ==
  /\ st[m] = "reread_done"
  /\ st' = [st EXCEPT ![m] = IF done[keyOf[m]] > 0 THEN "ack" ELSE "retry"]
  /\ UNCHANGED <<copies, redis, history, published, faults>>

\* The call inside the try block succeeds.
Work(m) ==
  /\ st[m] = "work"
  /\ st' = [st EXCEPT ![m] = "mark"]
  /\ effects' = Bump(effects, keyOf[m])
  /\ UNCHANGED <<copies, redis, reopened, published, faults>>

\* The call raises.  An HTTP timeout may come after the message was accepted:
\* then the effect has happened and the key is open for another.  It may raise
\* every time, only the retries bound it: MaxFaults does not count it.
RaiseAfter(m, happened) ==
  /\ effects' = IF happened THEN Bump(effects, keyOf[m]) ELSE effects
  /\ reopened' = IF happened THEN Bump(reopened, keyOf[m]) ELSE reopened

WorkRaises(m) ==
  /\ st[m] = "work"
  /\ "work_error" \in FaultKinds
  /\ st' = [st EXCEPT ![m] = "release"]
  /\ \E happened \in BOOLEAN : RaiseAfter(m, happened)
  /\ UNCHANGED <<copies, redis, published, faults>>

\* release_lease: an unconditional DEL, the lease carries no owner.
ReleaseLease(m) ==
  /\ st[m] = "release"
  /\ lease' = [lease EXCEPT ![keyOf[m]] = 0]
  /\ st' = [st EXCEPT ![m] = "retry"]
  /\ UNCHANGED <<copies, done, history, published, faults>>

\* mark_completed: MULTI; SET done EX; DEL lease; EXEC.
MarkCompleted(m) ==
  /\ st[m] = "mark"
  /\ done' = [done EXCEPT ![keyOf[m]] = DoneTTL]
  /\ lease' = [lease EXCEPT ![keyOf[m]] = 0]
  /\ st' = [st EXCEPT ![m] = "ack"]
  /\ UNCHANGED <<copies, history, published, faults>>

\* self.retry: a new copy with a countdown, published before the ack.
Retry(m) ==
  /\ st[m] = "retry"
  /\ tries[m] < MaxRetries
  /\ \E n \in Slot, d \in RetryDelays(tries[m]) :
       /\ st[n] = "free"
       /\ st' = [st EXCEPT ![m] = "ack", ![n] = "delayed"]
       /\ keyOf' = [keyOf EXCEPT ![n] = keyOf[m]]
       /\ tries' = [tries EXCEPT ![n] = tries[m] + 1]
       /\ timer' = [timer EXCEPT ![n] = d]
  /\ UNCHANGED <<warned, redis, history, published, faults>>

\* Retries exhausted: MaxRetriesExceededError after a held lease, the bare
\* raise after an exception.  The task fails and is acknowledged.
GiveUp(m) ==
  /\ st[m] = "retry"
  /\ tries[m] >= MaxRetries
  /\ st' = [st EXCEPT ![m] = "ack"]
  /\ UNCHANGED <<copies, redis, history, published, faults>>

(***************************************************************************)
(* Faults                                                                  *)
(***************************************************************************)
\* The run ends here; if its effect happened, nobody recorded it.
Unrecorded(m) ==
  reopened' = IF st[m] = "mark" THEN Bump(reopened, keyOf[m]) ELSE reopened

\* The child process dies: task_reject_on_worker_lost requeues the copy at once.
ChildLost(m) ==
  /\ st[m] \in Running
  /\ May("child_lost")
  /\ st' = [st EXCEPT ![m] = "ready"]
  /\ timer' = [timer EXCEPT ![m] = 0]
  /\ warned' = [warned EXCEPT ![m] = FALSE]
  /\ Unrecorded(m)
  /\ faults' = faults + 1
  /\ UNCHANGED <<keyOf, tries, redis, effects, published>>

\* The whole node dies, also with a copy it holds until its eta: the broker
\* redelivers when the visibility timeout has passed.
NodeLost(m) ==
  /\ st[m] \in Running \cup {"delayed"}
  /\ May("node_lost")
  /\ st' = [st EXCEPT ![m] = "delayed"]
  /\ timer' = [timer EXCEPT ![m] =
                 IF st[m] = "delayed" THEN VisibilityTimeout ELSE VisibilityTimeout - @]
  /\ warned' = [warned EXCEPT ![m] = FALSE]
  /\ Unrecorded(m)
  /\ faults' = faults + 1
  /\ UNCHANGED <<keyOf, tries, redis, effects, published>>

\* A Redis call outside the try block raises: the task fails without a retry
\* and is acknowledged.  The command itself may have been applied.
RedisError(m) ==
  /\ st[m] \in Checking \cup {"mark", "release"}
  /\ May("redis_error")
  /\ st' = [st EXCEPT ![m] = "ack"]
  /\ \E applied \in BOOLEAN :
       IF applied
         THEN /\ lease' = IF st[m] = "set_lease" /\ lease[keyOf[m]] = 0
                            THEN [lease EXCEPT ![keyOf[m]] = LeaseTTL]
                          ELSE IF st[m] \in {"mark", "release"}
                            THEN [lease EXCEPT ![keyOf[m]] = 0]
                          ELSE lease
              /\ done' = IF st[m] = "mark"
                           THEN [done EXCEPT ![keyOf[m]] = DoneTTL] ELSE done
              /\ UNCHANGED reopened
         ELSE UNCHANGED redis /\ Unrecorded(m)
  /\ faults' = faults + 1
  /\ UNCHANGED <<copies, effects, published>>

\* Publishing the retry fails: Celery rejects the copy without requeueing it.
BrokerError(m) ==
  /\ st[m] = "retry"
  /\ tries[m] < MaxRetries
  /\ May("broker_error")
  /\ st' = [st EXCEPT ![m] = "ack"]
  /\ faults' = faults + 1
  /\ UNCHANGED <<copies, redis, history, published>>

\* SoftTimeLimitExceeded is raised once, wherever the body is.  Inside the try
\* block it is an Exception like any other; elsewhere it fails the task.
SoftTimeout(m) ==
  /\ st[m] \in Running
  /\ timer[m] >= SoftLimit
  /\ ~warned[m]
  /\ warned' = [warned EXCEPT ![m] = TRUE]
  /\ \/ /\ st[m] = "work"
        /\ st' = [st EXCEPT ![m] = "release"]
        /\ \E happened \in BOOLEAN : RaiseAfter(m, happened)
     \/ /\ st[m] # "work"
        /\ st' = [st EXCEPT ![m] = "ack"]
        /\ Unrecorded(m)
        /\ UNCHANGED effects
  /\ UNCHANGED <<keyOf, tries, timer, redis, published, faults>>

\* The hard limit: the parent kills the child and acknowledges the copy
\* (acks_on_failure_or_timeout), the lease stays.
HardTimeout(m) ==
  /\ st[m] \in Running
  /\ timer[m] + 1 >= HardLimit
  /\ Unrecorded(m)
  /\ Forget(m)
  /\ UNCHANGED <<redis, effects, published, faults>>

(***************************************************************************)
(* Time.  timer = n means that a run has lasted between n and n + 1        *)
(* seconds.  The hard limit strikes before second HardLimit is over; a run *)
(* that is not slow has returned before the soft limit.                    *)
(***************************************************************************)
RunLimit == IF "slow" \in FaultKinds THEN HardLimit ELSE SoftLimit

Elapsed(m) ==
  IF st[m] \in Running THEN timer[m] + 1
  ELSE MaxOf(0, timer[m] - 1)

Tick ==
  /\ \/ \E k \in Key : lease[k] > 0 \/ done[k] > 0
     \/ \E m \in Slot : st[m] \in Running \/ timer[m] > 0
  /\ \A m \in Slot : st[m] \in Running => timer[m] + 1 < RunLimit
  /\ timer' = [m \in Slot |-> Elapsed(m)]
  /\ lease' = [k \in Key |-> MaxOf(0, lease[k] - 1)]
  /\ done' = [k \in Key |-> MaxOf(0, done[k] - 1)]
  /\ reopened' = [k \in Key |-> IF done[k] = 1 THEN reopened[k] + 1 ELSE reopened[k]]
  /\ UNCHANGED <<st, keyOf, tries, warned, effects, published, faults>>

Step(m) ==
  \/ Ack(m) \/ ReadDone(m) \/ SetLease(m) \/ RereadDone(m)
  \/ Work(m) \/ ReleaseLease(m) \/ MarkCompleted(m) \/ Retry(m) \/ GiveUp(m)

Fault(m) ==
  \/ WorkRaises(m) \/ ChildLost(m) \/ NodeLost(m) \/ RedisError(m)
  \/ BrokerError(m) \/ SoftTimeout(m) \/ HardTimeout(m)

Next ==
  \/ \E m \in Slot, k \in Key : Publish(m, k)
  \/ \E m \in Slot : Deliver(m) \/ Step(m) \/ Fault(m)
  \/ Tick

Spec == Init /\ [][Next]_vars

\* Children keep taking work, a run keeps going until a limit stops it, and
\* time passes.  Producers and faults owe nothing.
Fairness ==
  /\ \A m \in Slot : WF_vars(Deliver(m)) /\ WF_vars(Step(m)) /\ WF_vars(HardTimeout(m))
  /\ WF_vars(Tick)

FairSpec == Spec /\ Fairness

(***************************************************************************)
(* Properties                                                              *)
(***************************************************************************)
TypeOK ==
  /\ st \in [Slot -> Status]
  /\ keyOf \in [Slot -> Key \cup {NoKey}]
  /\ \A m \in Slot : keyOf[m] = NoKey <=> st[m] = "free"
  /\ tries \in [Slot -> 0 .. MaxRetries]
  /\ timer \in [Slot -> Nat]
  /\ \A m \in Slot : st[m] \in Running => timer[m] < HardLimit
  /\ warned \in [Slot -> BOOLEAN]
  /\ lease \in [Key -> 0 .. LeaseTTL]
  /\ done \in [Key -> 0 .. DoneTTL]
  /\ effects \in [Key -> Nat]
  /\ reopened \in [Key -> Nat]
  /\ published \in [Key -> 0 .. MaxPublish]
  /\ faults \in 0 .. MaxFaults

\* Two runs are never between "proceed" and their end for one key, although
\* the lease expires on its own, is deleted without an owner check and a copy
\* may be redelivered while another runs: the time limit is within the lease.
NoConcurrentWork ==
  \A m, n \in Slot :
    st[m] \in Holding /\ st[n] \in Holding /\ keyOf[m] = keyOf[n] => m = n

\* The lease of a run that proceeds outlives it: what remains of the TTL covers
\* what remains of the time limit.  So release_lease and mark_completed, which
\* check no owner, only ever delete the lease of their own run.
LeaseCoversRun ==
  \A m \in Slot : st[m] \in Holding => lease[keyOf[m]] >= HardLimit - timer[m]

\* Every effect of a key beyond the first is accounted for by an event that
\* opened the key again: a run that ended with its effect unrecorded, a lease
\* taken on a stale read of the done key, or the end of the dedupe window.
DuplicatesExplained == \A k \in Key : effects[k] <= 1 + reopened[k]

\* A completed mark always stands for an effect that happened: a duplicate is
\* skipped only because the work was done.
CompletedWasDone == \A k \in Key : done[k] > 0 => effects[k] > 0

\* Why DuplicatesExplained is kept by every step: one more effect than openings
\* only while a run still has to record it or while the done key records it.
EffectAccount ==
  \A k \in Key :
    \/ effects[k] <= reopened[k]
    \/ /\ effects[k] = reopened[k] + 1
       /\ \/ \E m \in Slot : keyOf[m] = k /\ st[m] = "mark"
          \/ done[k] > 0 /\ \A m \in Slot : keyOf[m] = k => st[m] # "work"

\* A run that is about to mark its key completed has had its effect.
MarkAfterEffect == \A m \in Slot : st[m] = "mark" => effects[keyOf[m]] > 0

\* The inductive invariant.
TaskInv ==
  /\ NoConcurrentWork
  /\ LeaseCoversRun
  /\ EffectAccount
  /\ CompletedWasDone
  /\ MarkAfterEffect

\* At-least-once: when every copy of a published key is gone, its effect has
\* happened.
AtLeastOnce ==
  \A k \in Key : published[k] > 0 /\ Alive(k) = {} => effects[k] > 0

\* What the redelivery of a lost node's copies promises: if the effect never
\* raises, the key's work is done, on the first copy or on a later one.
DoneUnlessRaised == [](\A m \in Slot : st[m] # "release") => []AtLeastOnce

\* The phase of a key, as IdempotencyWindow sees it.
Holder(k, where) == \E m \in Slot : keyOf[m] = k /\ st[m] \in where
PhaseOf(k) ==
  CASE Holder(k, {"mark"}) -> "effected"
    [] Holder(k, {"work", "release"}) -> "running"
    [] ~Holder(k, Holding) /\ done[k] > 0 -> "done"
    [] ~Holder(k, Holding) /\ done[k] = 0 /\ lease[k] > 0 -> "orphaned"
    [] OTHER -> "idle"

Window(k) == INSTANCE IdempotencyWindow
               WITH phase <- PhaseOf(k), effects <- effects[k], reopened <- reopened[k]

\* The lease and done keys, driven by copies, crashes, limits and Redis errors,
\* implement the window of IdempotencyWindow for every idempotency key.
ImplementsWindow ==
  /\ \A k \in Key : Window(k)!Init
  /\ [][\A k \in Key : [Window(k)!Next]_(Window(k)!vars)]_vars

\* Once producers stop, every copy is acknowledged: held leases, exceptions
\* and redeliveries are retried only finitely often.
EventuallyDrained == <>[](\A m \in Slot : st[m] = "free")
=============================================================================
