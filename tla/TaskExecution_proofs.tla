------------------------ MODULE TaskExecution_proofs ------------------------
(***************************************************************************)
(* Type correctness of TaskExecution, mutual exclusion of the runs of one  *)
(* idempotency key, and the account of duplicate effects, for any number   *)
(* of copies, workers, retries and faults and any time limits within the   *)
(* lease (LimitWithinLease).                                               *)
(***************************************************************************)
EXTENDS TaskExecution, TLAPS

(* A retry countdown is a natural number of seconds. *)
LEMMA RetryDelaysInNat == ASSUME NEW a PROVE RetryDelays(a) \subseteq Nat
BY DEF RetryDelays

(* Type correctness: in particular an unused slot has no key, and a run never *)
(* lasts HardLimit seconds. *)
THEOREM TypeCorrect == Spec => []TypeOK
<1>1. Init => TypeOK
  BY TaskConstants, LimitWithinLease
  DEF Init, TypeOK, Status, Running, Checking, Holding
<1>2. TypeOK /\ [Next]_vars => TypeOK'
  <2> SUFFICES ASSUME TypeOK, [Next]_vars
               PROVE  TypeOK'
    OBVIOUS
  <2> USE TaskConstants, LimitWithinLease, LeaseWithinVisibility
      DEF TypeOK, Status, Running, Checking, Holding
  <2>1. ASSUME NEW m \in Slot, NEW k \in Key, Publish(m, k)
        PROVE  TypeOK'
    BY <2>1 DEF Publish, redis, history, Bump
  <2>2. ASSUME NEW m \in Slot, Deliver(m)
        PROVE  TypeOK'
    BY <2>2 DEF Deliver, redis, history
  <2>3. ASSUME NEW m \in Slot, Ack(m)
        PROVE  TypeOK'
    BY <2>3 DEF Ack, Forget, redis, history
  <2>4. ASSUME NEW m \in Slot, ReadDone(m)
        PROVE  TypeOK'
    BY <2>4 DEF ReadDone, copies, redis, history
  <2>5. ASSUME NEW m \in Slot, SetLease(m)
        PROVE  TypeOK'
    BY <2>5 DEF SetLease, copies, Bump
  <2>6. ASSUME NEW m \in Slot, RereadDone(m)
        PROVE  TypeOK'
    BY <2>6 DEF RereadDone, copies, redis, history
  <2>7. ASSUME NEW m \in Slot, Work(m)
        PROVE  TypeOK'
    BY <2>7 DEF Work, copies, redis, Bump
  <2>8. ASSUME NEW m \in Slot, ReleaseLease(m)
        PROVE  TypeOK'
    BY <2>8 DEF ReleaseLease, copies, history
  <2>9. ASSUME NEW m \in Slot, MarkCompleted(m)
        PROVE  TypeOK'
    BY <2>9 DEF MarkCompleted, copies, history
  <2>10. ASSUME NEW m \in Slot, Retry(m)
         PROVE  TypeOK'
    <3> PICK n \in Slot, d \in RetryDelays(tries[m]) :
          /\ st[n] = "free"
          /\ st' = [st EXCEPT ![m] = "ack", ![n] = "delayed"]
          /\ keyOf' = [keyOf EXCEPT ![n] = keyOf[m]]
          /\ tries' = [tries EXCEPT ![n] = tries[m] + 1]
          /\ timer' = [timer EXCEPT ![n] = d]
      BY <2>10 DEF Retry
    <3>1. d \in Nat
      BY RetryDelaysInNat
    <3> QED
      BY <2>10, <3>1 DEF Retry, redis, history
  <2>11. ASSUME NEW m \in Slot, GiveUp(m)
         PROVE  TypeOK'
    BY <2>11 DEF GiveUp, copies, redis, history
  <2>12. ASSUME NEW m \in Slot, WorkRaises(m)
         PROVE  TypeOK'
    BY <2>12 DEF WorkRaises, RaiseAfter, May, copies, redis, Bump
  <2>13. ASSUME NEW m \in Slot, ChildLost(m)
         PROVE  TypeOK'
    BY <2>13 DEF ChildLost, Unrecorded, May, redis, Bump
  <2>14. ASSUME NEW m \in Slot, NodeLost(m)
         PROVE  TypeOK'
    BY <2>14 DEF NodeLost, Unrecorded, May, redis, Bump
  <2>15. ASSUME NEW m \in Slot, RedisError(m)
         PROVE  TypeOK'
    BY <2>15 DEF RedisError, Unrecorded, May, copies, redis, Bump
  <2>16. ASSUME NEW m \in Slot, BrokerError(m)
         PROVE  TypeOK'
    BY <2>16 DEF BrokerError, May, copies, redis, history
  <2>17. ASSUME NEW m \in Slot, SoftTimeout(m)
         PROVE  TypeOK'
    BY <2>17 DEF SoftTimeout, RaiseAfter, Unrecorded, redis, Bump
  <2>18. ASSUME NEW m \in Slot, HardTimeout(m)
         PROVE  TypeOK'
    BY <2>18 DEF HardTimeout, Forget, Unrecorded, redis, Bump
  <2>19. CASE Tick
    BY <2>19 DEF Tick, Elapsed, RunLimit, MaxOf
  <2>20. CASE UNCHANGED vars
    BY <2>20 DEF vars
  <2> QED
    BY <2>1, <2>2, <2>3, <2>4, <2>5, <2>6, <2>7, <2>8, <2>9, <2>10, <2>11, <2>12,
       <2>13, <2>14, <2>15, <2>16, <2>17, <2>18, <2>19, <2>20 DEF Next, Step, Fault
<1> QED
  BY <1>1, <1>2, PTL DEF Spec

(* One holder per key, and its lease outlives it: preserved by every step. *)
LEMMA LeaseStep ==
  ASSUME TypeOK, NoConcurrentWork, LeaseCoversRun, [Next]_vars
  PROVE  NoConcurrentWork' /\ LeaseCoversRun'
<1> USE TaskConstants, LimitWithinLease, LeaseWithinVisibility
    DEF TypeOK, Status, Running, Checking, Holding, NoConcurrentWork, LeaseCoversRun
<1>1. NoConcurrentWork' /\ LeaseCoversRun'
  <2>1. ASSUME NEW m \in Slot, NEW k \in Key, Publish(m, k)
        PROVE  (NoConcurrentWork /\ LeaseCoversRun)'
    BY <2>1 DEF Publish, copies, redis, history
  <2>2. ASSUME NEW m \in Slot, Deliver(m)
        PROVE  (NoConcurrentWork /\ LeaseCoversRun)'
    BY <2>2 DEF Deliver, copies, redis, history
  <2>3. ASSUME NEW m \in Slot, Ack(m)
        PROVE  (NoConcurrentWork /\ LeaseCoversRun)'
    BY <2>3 DEF Ack, Forget, copies, redis, history
  <2>4. ASSUME NEW m \in Slot, ReadDone(m)
        PROVE  (NoConcurrentWork /\ LeaseCoversRun)'
    BY <2>4 DEF ReadDone, copies, redis, history
  <2>5. ASSUME NEW m \in Slot, SetLease(m)
        PROVE  (NoConcurrentWork /\ LeaseCoversRun)'
    BY <2>5 DEF SetLease, copies, redis, history
  <2>6. ASSUME NEW m \in Slot, RereadDone(m)
        PROVE  (NoConcurrentWork /\ LeaseCoversRun)'
    BY <2>6 DEF RereadDone, copies, redis, history
  <2>7. ASSUME NEW m \in Slot, Work(m)
        PROVE  (NoConcurrentWork /\ LeaseCoversRun)'
    BY <2>7 DEF Work, copies, redis, history
  <2>8. ASSUME NEW m \in Slot, ReleaseLease(m)
        PROVE  (NoConcurrentWork /\ LeaseCoversRun)'
    BY <2>8 DEF ReleaseLease, copies, redis, history
  <2>9. ASSUME NEW m \in Slot, MarkCompleted(m)
        PROVE  (NoConcurrentWork /\ LeaseCoversRun)'
    BY <2>9 DEF MarkCompleted, copies, redis, history
  <2>10. ASSUME NEW m \in Slot, Retry(m)
        PROVE  (NoConcurrentWork /\ LeaseCoversRun)'
    BY <2>10 DEF Retry, copies, redis, history
  <2>11. ASSUME NEW m \in Slot, GiveUp(m)
        PROVE  (NoConcurrentWork /\ LeaseCoversRun)'
    BY <2>11 DEF GiveUp, copies, redis, history
  <2>12. ASSUME NEW m \in Slot, WorkRaises(m)
        PROVE  (NoConcurrentWork /\ LeaseCoversRun)'
    BY <2>12 DEF WorkRaises, RaiseAfter, copies, redis, history
  <2>13. ASSUME NEW m \in Slot, ChildLost(m)
        PROVE  (NoConcurrentWork /\ LeaseCoversRun)'
    BY <2>13 DEF ChildLost, copies, redis, history
  <2>14. ASSUME NEW m \in Slot, NodeLost(m)
        PROVE  (NoConcurrentWork /\ LeaseCoversRun)'
    BY <2>14 DEF NodeLost, copies, redis, history
  <2>15. ASSUME NEW m \in Slot, RedisError(m)
        PROVE  (NoConcurrentWork /\ LeaseCoversRun)'
    BY <2>15 DEF RedisError, copies, redis, history
  <2>16. ASSUME NEW m \in Slot, BrokerError(m)
        PROVE  (NoConcurrentWork /\ LeaseCoversRun)'
    BY <2>16 DEF BrokerError, copies, redis, history
  <2>17. ASSUME NEW m \in Slot, SoftTimeout(m)
        PROVE  (NoConcurrentWork /\ LeaseCoversRun)'
    BY <2>17 DEF SoftTimeout, RaiseAfter, copies, redis, history
  <2>18. ASSUME NEW m \in Slot, HardTimeout(m)
        PROVE  (NoConcurrentWork /\ LeaseCoversRun)'
    BY <2>18 DEF HardTimeout, Forget, copies, redis, history
  <2>19. CASE Tick
    BY <2>19 DEF Tick, Elapsed, RunLimit, MaxOf
  <2>20. CASE UNCHANGED vars
    BY <2>20 DEF vars
  <2> QED
    BY <2>1, <2>2, <2>3, <2>4, <2>5, <2>6, <2>7, <2>8, <2>9, <2>10, <2>11, <2>12, <2>13, <2>14, <2>15, <2>16, <2>17, <2>18, <2>19, <2>20 DEF Next, Step, Fault
<1> QED
  BY <1>1

(* The account of effects, with the lease facts of the state it starts from. *)
LEMMA EffectStep ==
  ASSUME TypeOK, TaskInv, [Next]_vars
  PROVE  EffectAccount' /\ CompletedWasDone' /\ MarkAfterEffect'
<1> USE TaskConstants, LimitWithinLease, LeaseWithinVisibility
    DEF TypeOK, Status, Running, Checking, Holding, TaskInv, NoConcurrentWork,
        LeaseCoversRun, EffectAccount, CompletedWasDone, MarkAfterEffect
<1>1. EffectAccount' /\ CompletedWasDone' /\ MarkAfterEffect'
  <2>1. ASSUME NEW m \in Slot, NEW k \in Key, Publish(m, k)
        PROVE  (EffectAccount /\ CompletedWasDone /\ MarkAfterEffect)'
    BY <2>1 DEF Publish, copies, redis, history, Unrecorded, Bump
  <2>2. ASSUME NEW m \in Slot, Deliver(m)
        PROVE  (EffectAccount /\ CompletedWasDone /\ MarkAfterEffect)'
    BY <2>2 DEF Deliver, copies, redis, history, Unrecorded, Bump
  <2>3. ASSUME NEW m \in Slot, Ack(m)
        PROVE  (EffectAccount /\ CompletedWasDone /\ MarkAfterEffect)'
    BY <2>3 DEF Ack, Forget, copies, redis, history, Unrecorded, Bump
  <2>4. ASSUME NEW m \in Slot, ReadDone(m)
        PROVE  (EffectAccount /\ CompletedWasDone /\ MarkAfterEffect)'
    BY <2>4 DEF ReadDone, copies, redis, history, Unrecorded, Bump
  <2>5. ASSUME NEW m \in Slot, SetLease(m)
        PROVE  (EffectAccount /\ CompletedWasDone /\ MarkAfterEffect)'
    BY <2>5 DEF SetLease, copies, redis, history, Unrecorded, Bump
  <2>6. ASSUME NEW m \in Slot, RereadDone(m)
        PROVE  (EffectAccount /\ CompletedWasDone /\ MarkAfterEffect)'
    BY <2>6 DEF RereadDone, copies, redis, history, Unrecorded, Bump
  <2>7. ASSUME NEW m \in Slot, Work(m)
        PROVE  (EffectAccount /\ CompletedWasDone /\ MarkAfterEffect)'
    BY <2>7 DEF Work, copies, redis, history, Unrecorded, Bump
  <2>8. ASSUME NEW m \in Slot, ReleaseLease(m)
        PROVE  (EffectAccount /\ CompletedWasDone /\ MarkAfterEffect)'
    BY <2>8 DEF ReleaseLease, copies, redis, history, Unrecorded, Bump
  <2>9. ASSUME NEW m \in Slot, MarkCompleted(m)
        PROVE  (EffectAccount /\ CompletedWasDone /\ MarkAfterEffect)'
    BY <2>9 DEF MarkCompleted, copies, redis, history, Unrecorded, Bump
  <2>10. ASSUME NEW m \in Slot, Retry(m)
        PROVE  (EffectAccount /\ CompletedWasDone /\ MarkAfterEffect)'
    BY <2>10 DEF Retry, copies, redis, history, Unrecorded, Bump
  <2>11. ASSUME NEW m \in Slot, GiveUp(m)
        PROVE  (EffectAccount /\ CompletedWasDone /\ MarkAfterEffect)'
    BY <2>11 DEF GiveUp, copies, redis, history, Unrecorded, Bump
  <2>12. ASSUME NEW m \in Slot, WorkRaises(m)
        PROVE  (EffectAccount /\ CompletedWasDone /\ MarkAfterEffect)'
    BY <2>12 DEF WorkRaises, RaiseAfter, copies, redis, history, Unrecorded, Bump
  <2>13. ASSUME NEW m \in Slot, ChildLost(m)
        PROVE  (EffectAccount /\ CompletedWasDone /\ MarkAfterEffect)'
    BY <2>13 DEF ChildLost, copies, redis, history, Unrecorded, Bump
  <2>14. ASSUME NEW m \in Slot, NodeLost(m)
        PROVE  (EffectAccount /\ CompletedWasDone /\ MarkAfterEffect)'
    BY <2>14 DEF NodeLost, copies, redis, history, Unrecorded, Bump
  <2>15. ASSUME NEW m \in Slot, RedisError(m)
        PROVE  (EffectAccount /\ CompletedWasDone /\ MarkAfterEffect)'
    BY <2>15 DEF RedisError, copies, redis, history, Unrecorded, Bump
  <2>16. ASSUME NEW m \in Slot, BrokerError(m)
        PROVE  (EffectAccount /\ CompletedWasDone /\ MarkAfterEffect)'
    BY <2>16 DEF BrokerError, copies, redis, history, Unrecorded, Bump
  <2>17. ASSUME NEW m \in Slot, SoftTimeout(m)
        PROVE  (EffectAccount /\ CompletedWasDone /\ MarkAfterEffect)'
    BY <2>17 DEF SoftTimeout, RaiseAfter, copies, redis, history, Unrecorded, Bump
  <2>18. ASSUME NEW m \in Slot, HardTimeout(m)
        PROVE  (EffectAccount /\ CompletedWasDone /\ MarkAfterEffect)'
    BY <2>18 DEF HardTimeout, Forget, copies, redis, history, Unrecorded, Bump
  <2>19. CASE Tick
    BY <2>19 DEF Tick, Elapsed, RunLimit, MaxOf
  <2>20. CASE UNCHANGED vars
    BY <2>20 DEF vars
  <2> QED
    BY <2>1, <2>2, <2>3, <2>4, <2>5, <2>6, <2>7, <2>8, <2>9, <2>10, <2>11, <2>12, <2>13, <2>14, <2>15, <2>16, <2>17, <2>18, <2>19, <2>20 DEF Next, Step, Fault
<1> QED
  BY <1>1

(* The inductive invariant of the specification. *)
THEOREM TaskInvariant == Spec => []TaskInv
<1>1. Init => TaskInv
  BY TaskConstants
  DEF Init, TaskInv, NoConcurrentWork, LeaseCoversRun, EffectAccount,
      CompletedWasDone, MarkAfterEffect, Holding
<1>2. TypeOK /\ TaskInv /\ [Next]_vars => TaskInv'
  BY LeaseStep, EffectStep DEF TaskInv
<1> QED
  BY <1>1, <1>2, TypeCorrect, PTL DEF Spec

(* At most one run per idempotency key is between "proceed" and its end. *)
THEOREM MutualExclusion == Spec => []NoConcurrentWork
<1>1. TaskInv => NoConcurrentWork
  BY DEF TaskInv
<1> QED
  BY <1>1, TaskInvariant, PTL

(* release_lease and mark_completed delete only the lease of their own run. *)
THEOREM LeaseOutlivesRun == Spec => []LeaseCoversRun
<1>1. TaskInv => LeaseCoversRun
  BY DEF TaskInv
<1> QED
  BY <1>1, TaskInvariant, PTL

(* A key has at most one effect more than it was opened for. *)
THEOREM DuplicatesAccounted == Spec => []DuplicatesExplained
<1>1. TypeOK /\ TaskInv => DuplicatesExplained
  BY DEF TypeOK, TaskInv, EffectAccount, DuplicatesExplained
<1> QED
  BY <1>1, TaskInvariant, TypeCorrect, PTL

(* The done key is only ever set for a key whose effect happened. *)
THEOREM CompletionSound == Spec => []CompletedWasDone
<1>1. TaskInv => CompletedWasDone
  BY DEF TaskInv
<1> QED
  BY <1>1, TaskInvariant, PTL

(***************************************************************************)
(* Refinement: the keys of TaskExecution implement IdempotencyWindow.      *)
(***************************************************************************)
WindowStep(k) == [Window(k)!Next]_(Window(k)!vars)

LEMMA WindowStepCorrect ==
  ASSUME TypeOK, TaskInv, TypeOK', [Next]_vars, NEW k \in Key
  PROVE  WindowStep(k)
<1> USE TaskConstants, LimitWithinLease
    DEF TypeOK, Status, Running, Checking, Holding, TaskInv, NoConcurrentWork,
        LeaseCoversRun, WindowStep, PhaseOf, Holder,
        Window!Next, Window!vars, Window!Start, Window!Effect, Window!Complete,
        Window!Attempt, Window!Abandon, Window!Orphan, Window!Expire,
        Window!Phase, Window!Active
<1>1. WindowStep(k)
  <2>1. ASSUME NEW m \in Slot, NEW k2 \in Key, Publish(m, k2)
        PROVE  WindowStep(k)
    BY <2>1 DEF Publish, copies, redis, history, Unrecorded, Bump
  <2>2. ASSUME NEW m \in Slot, Deliver(m)
        PROVE  WindowStep(k)
    BY <2>2 DEF Deliver, copies, redis, history, Unrecorded, Bump
  <2>3. ASSUME NEW m \in Slot, Ack(m)
        PROVE  WindowStep(k)
    BY <2>3 DEF Ack, Forget, copies, redis, history, Unrecorded, Bump
  <2>4. ASSUME NEW m \in Slot, ReadDone(m)
        PROVE  WindowStep(k)
    BY <2>4 DEF ReadDone, copies, redis, history, Unrecorded, Bump
  <2>5. ASSUME NEW m \in Slot, SetLease(m)
        PROVE  WindowStep(k)
    BY <2>5 DEF SetLease, copies, redis, history, Unrecorded, Bump
  <2>6. ASSUME NEW m \in Slot, RereadDone(m)
        PROVE  WindowStep(k)
    BY <2>6 DEF RereadDone, copies, redis, history, Unrecorded, Bump
  <2>7. ASSUME NEW m \in Slot, Work(m)
        PROVE  WindowStep(k)
    BY <2>7 DEF Work, copies, redis, history, Unrecorded, Bump
  <2>8. ASSUME NEW m \in Slot, ReleaseLease(m)
        PROVE  WindowStep(k)
    BY <2>8 DEF ReleaseLease, copies, redis, history, Unrecorded, Bump
  <2>9. ASSUME NEW m \in Slot, MarkCompleted(m)
        PROVE  WindowStep(k)
    BY <2>9 DEF MarkCompleted, copies, redis, history, Unrecorded, Bump
  <2>10. ASSUME NEW m \in Slot, Retry(m)
        PROVE  WindowStep(k)
    BY <2>10 DEF Retry, copies, redis, history, Unrecorded, Bump
  <2>11. ASSUME NEW m \in Slot, GiveUp(m)
        PROVE  WindowStep(k)
    BY <2>11 DEF GiveUp, copies, redis, history, Unrecorded, Bump
  <2>12. ASSUME NEW m \in Slot, WorkRaises(m)
        PROVE  WindowStep(k)
    BY <2>12 DEF WorkRaises, RaiseAfter, copies, redis, history, Unrecorded, Bump
  <2>13. ASSUME NEW m \in Slot, ChildLost(m)
        PROVE  WindowStep(k)
    BY <2>13 DEF ChildLost, copies, redis, history, Unrecorded, Bump
  <2>14. ASSUME NEW m \in Slot, NodeLost(m)
        PROVE  WindowStep(k)
    BY <2>14 DEF NodeLost, copies, redis, history, Unrecorded, Bump
  <2>15. ASSUME NEW m \in Slot, RedisError(m)
        PROVE  WindowStep(k)
    BY <2>15 DEF RedisError, copies, redis, history, Unrecorded, Bump
  <2>16. ASSUME NEW m \in Slot, BrokerError(m)
        PROVE  WindowStep(k)
    BY <2>16 DEF BrokerError, copies, redis, history, Unrecorded, Bump
  <2>17. ASSUME NEW m \in Slot, SoftTimeout(m)
        PROVE  WindowStep(k)
    BY <2>17 DEF SoftTimeout, RaiseAfter, copies, redis, history, Unrecorded, Bump
  <2>18. ASSUME NEW m \in Slot, HardTimeout(m)
        PROVE  WindowStep(k)
    BY <2>18 DEF HardTimeout, Forget, copies, redis, history, Unrecorded, Bump
  <2>19. CASE Tick
    BY <2>19 DEF Tick, Elapsed, RunLimit, MaxOf
  <2>20. CASE UNCHANGED vars
    BY <2>20 DEF vars
  <2> QED
    BY <2>1, <2>2, <2>3, <2>4, <2>5, <2>6, <2>7, <2>8, <2>9, <2>10, <2>11, <2>12, <2>13, <2>14, <2>15, <2>16, <2>17, <2>18, <2>19, <2>20 DEF Next, Step, Fault
<1> QED
  BY <1>1

(* Every behaviour of the keys is one IdempotencyWindow allows. *)
THEOREM Refinement == Spec => ImplementsWindow
<1>1. Init => \A k \in Key : Window(k)!Init
  BY TaskConstants
  DEF Init, Window!Init, PhaseOf, Holder, Holding
<1>2. TypeOK /\ TaskInv /\ TypeOK' /\ [Next]_vars
        => [\A k \in Key : [Window(k)!Next]_(Window(k)!vars)]_vars
  BY WindowStepCorrect DEF WindowStep
<1> QED
  BY <1>1, <1>2, TypeCorrect, TaskInvariant, PTL DEF Spec, ImplementsWindow

(***************************************************************************)
(* The work is done in the end                                             *)
(***************************************************************************)
\* The faults that cost no work: the copy of a lost node comes back when its
\* lease is gone, and a retry that cannot be published gave way to a run.
Harmless == {"node_lost", "work_error", "broker_error"}

\* No run reaches a limit.
OnTime == \A m \in Slot : st[m] \in Running => timer[m] < SoftLimit

\* As long as nothing was done, a lease is that of a run at work or of one whose
\* copy outlasts it, and without a lease some copy will still ask for it.
Covers(m, k) == st[m] = "work" \/ (st[m] = "delayed" /\ timer[m] >= lease[k])
Asking == {"ready", "delayed", "read_done", "set_lease", "work"}
WorkIsComing ==
  \A k \in Key : effects[k] = 0 =>
    /\ lease[k] > 0 => \E m \in Slot : keyOf[m] = k /\ Covers(m, k)
    /\ lease[k] = 0 /\ published[k] > 0 => \E m \in Slot : keyOf[m] = k /\ st[m] \in Asking

\* Runs that are never slow stay below the soft limit.
LEMMA OnTimeStep ==
  ASSUME FaultKinds \subseteq Harmless, TypeOK, OnTime, [Next]_vars
  PROVE  OnTime'
<1> USE TaskConstants, LimitWithinLease DEF TypeOK, Status, Running, Checking, Holding, OnTime
<1>1. ASSUME NEW m \in Slot, NEW k \in Key, Publish(m, k)
      PROVE  OnTime'
  BY <1>1 DEF Publish
<1>2. ASSUME NEW m \in Slot, Deliver(m)
      PROVE  OnTime'
  BY <1>2 DEF Deliver
<1>3. ASSUME NEW m \in Slot, Ack(m)
      PROVE  OnTime'
  BY <1>3 DEF Ack, Forget
<1>4. ASSUME NEW m \in Slot, ReadDone(m)
      PROVE  OnTime'
  BY <1>4 DEF ReadDone, copies
<1>5. ASSUME NEW m \in Slot, SetLease(m)
      PROVE  OnTime'
  BY <1>5 DEF SetLease, copies
<1>6. ASSUME NEW m \in Slot, RereadDone(m)
      PROVE  OnTime'
  BY <1>6 DEF RereadDone, copies
<1>7. ASSUME NEW m \in Slot, Work(m)
      PROVE  OnTime'
  BY <1>7 DEF Work, copies, Bump
<1>8. ASSUME NEW m \in Slot, ReleaseLease(m)
      PROVE  OnTime'
  BY <1>8 DEF ReleaseLease, copies
<1>9. ASSUME NEW m \in Slot, MarkCompleted(m)
      PROVE  OnTime'
  BY <1>9 DEF MarkCompleted, copies
<1>10. ASSUME NEW m \in Slot, Retry(m)
      PROVE  OnTime'
  BY <1>10 DEF Retry
<1>11. ASSUME NEW m \in Slot, GiveUp(m)
      PROVE  OnTime'
  BY <1>11 DEF GiveUp, copies
<1>12. ASSUME NEW m \in Slot, NodeLost(m)
      PROVE  OnTime'
  BY <1>12 DEF NodeLost
<1>13. ASSUME NEW m \in Slot, BrokerError(m)
      PROVE  OnTime'
  BY <1>13 DEF BrokerError, copies
<1>14. ASSUME NEW m \in Slot, WorkRaises(m)
      PROVE  OnTime'
  BY <1>14 DEF WorkRaises, copies
<1>15. ASSUME NEW m \in Slot, ChildLost(m) \/ RedisError(m)
      PROVE  FALSE
  BY <1>15 DEF ChildLost, RedisError, May, Harmless
<1>16. ASSUME NEW m \in Slot, SoftTimeout(m) \/ HardTimeout(m)
      PROVE  FALSE
  BY <1>16 DEF SoftTimeout, HardTimeout
<1>17. CASE Tick
  BY <1>17 DEF Tick, Elapsed, RunLimit, MaxOf, Harmless
<1>18. CASE UNCHANGED vars
  BY <1>18 DEF vars
<1> QED
  BY <1>1, <1>2, <1>3, <1>4, <1>5, <1>6, <1>7, <1>8, <1>9, <1>10, <1>11, <1>12, <1>13, <1>14, <1>15, <1>16, <1>17, <1>18 DEF Next, Step, Fault

\* No step but a raising effect leaves a published key to nobody.
LEMMA WorkStep ==
  ASSUME FaultKinds \subseteq Harmless, TypeOK, TaskInv, OnTime, WorkIsComing, [Next]_vars,
         \A m \in Slot : st[m] # "release", \A m \in Slot : st'[m] # "release"
  PROVE  WorkIsComing'
<1> USE TaskConstants, LimitWithinLease, LeaseWithinVisibility
    DEF TypeOK, Status, Running, Checking, Holding, WorkIsComing, Covers, Asking
<1>1. ASSUME NEW m \in Slot, NEW k \in Key, Publish(m, k)
      PROVE  WorkIsComing'
  BY <1>1 DEF Publish, Bump, redis, history
<1>2. ASSUME NEW m \in Slot, Deliver(m)
      PROVE  WorkIsComing'
  BY <1>2 DEF Deliver, redis, history
<1>3. ASSUME NEW m \in Slot, Ack(m)
      PROVE  WorkIsComing'
  BY <1>3 DEF Ack, Forget, redis, history
<1>4. ASSUME NEW m \in Slot, ReadDone(m)
      PROVE  WorkIsComing'
  BY <1>4 DEF TaskInv, CompletedWasDone, ReadDone, copies, redis, history
<1>5. ASSUME NEW m \in Slot, SetLease(m)
      PROVE  WorkIsComing'
  BY <1>5 DEF SetLease, copies, redis, history
<1>6. ASSUME NEW m \in Slot, RereadDone(m)
      PROVE  WorkIsComing'
  BY <1>6 DEF RereadDone, copies, redis, history
<1>7. ASSUME NEW m \in Slot, Work(m)
      PROVE  WorkIsComing'
  BY <1>7 DEF Work, copies, Bump, redis, history
<1>8. ASSUME NEW m \in Slot, ReleaseLease(m)
      PROVE  WorkIsComing'
  BY <1>8 DEF ReleaseLease, copies, redis, history
<1>9. ASSUME NEW m \in Slot, MarkCompleted(m)
      PROVE  WorkIsComing'
  BY <1>9 DEF MarkCompleted, copies, redis, history
<1>10. ASSUME NEW m \in Slot, Retry(m)
      PROVE  WorkIsComing'
  BY <1>10 DEF Retry, redis, history
<1>11. ASSUME NEW m \in Slot, GiveUp(m)
      PROVE  WorkIsComing'
  BY <1>11 DEF GiveUp, copies, redis, history
<1>12. ASSUME NEW m \in Slot, NodeLost(m)
      PROVE  WorkIsComing'
  BY <1>12 DEF NodeLost, redis, history
<1>13. ASSUME NEW m \in Slot, BrokerError(m)
      PROVE  WorkIsComing'
  BY <1>13 DEF BrokerError, copies, redis, history
<1>14. ASSUME NEW m \in Slot, WorkRaises(m)
      PROVE  WorkIsComing'
  BY <1>14 DEF WorkRaises, copies
<1>15. ASSUME NEW m \in Slot, ChildLost(m) \/ RedisError(m)
      PROVE  FALSE
  BY <1>15 DEF ChildLost, RedisError, May, Harmless
<1>16. ASSUME NEW m \in Slot, SoftTimeout(m) \/ HardTimeout(m)
      PROVE  FALSE
  BY <1>16 DEF SoftTimeout, HardTimeout, OnTime
<1>17. CASE Tick
  BY <1>17 DEF Tick, Elapsed, RunLimit, MaxOf, Harmless
<1>18. CASE UNCHANGED vars
  BY <1>18 DEF vars
<1> QED
  BY <1>1, <1>2, <1>3, <1>4, <1>5, <1>6, <1>7, <1>8, <1>9, <1>10, <1>11, <1>12, <1>13, <1>14, <1>15, <1>16, <1>17, <1>18 DEF Next, Step, Fault

\* The work of every key is done by the time its copies are gone, whichever
\* nodes die and however often producers repeat themselves, unless its effect
\* raised: late acknowledgement and the visibility timeout keep that promise,
\* because a lost run's lease ends before its copy comes back.
THEOREM WorkIsDone ==
  ASSUME FaultKinds \subseteq Harmless
  PROVE  Spec => DoneUnlessRaised
<1>1. Init => OnTime /\ WorkIsComing
  BY TaskConstants DEF Init, OnTime, WorkIsComing, Running, Checking, Holding
<1>2. TypeOK /\ OnTime /\ [Next]_vars => OnTime'
  BY OnTimeStep
<1>3. /\ TypeOK /\ TaskInv /\ OnTime /\ WorkIsComing /\ [Next]_vars
      /\ \A m \in Slot : st[m] # "release"
      /\ (\A m \in Slot : st[m] # "release")'
      => WorkIsComing'
  BY WorkStep
<1>4. TypeOK /\ WorkIsComing => AtLeastOnce
  BY TaskConstants DEF TypeOK, WorkIsComing, AtLeastOnce, Alive
<1> QED
  BY <1>1, <1>2, <1>3, <1>4, TypeCorrect, TaskInvariant, PTL DEF Spec, DoneUnlessRaised
=============================================================================
