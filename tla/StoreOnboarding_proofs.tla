----------------------- MODULE StoreOnboarding_proofs -----------------------
(***************************************************************************)
(* Theorems about StoreOnboarding for any number of requests, copies,      *)
(* retries and faults.                                                     *)
(***************************************************************************)
EXTENDS StoreOnboarding, TLAPS

(* Type correctness. *)
THEOREM TypeCorrect == Spec => []TypeOK
<1> USE OnboardingConstants DEF TypeOK, Statuses, RunSteps, Executing, NoReq, FreeJob, Copy, Versions
<1>1. ASSUME Init PROVE TypeOK
  <2>1. status \in Statuses \cup {"absent"} /\ dropped \in BOOLEAN /\ overtaken \in BOOLEAN
    BY <1>1 DEF Init
  <2>2. /\ creds \in Versions /\ synced = 0
        /\ asked \in 0 .. MaxOnboard /\ faults \in 0 .. MaxFaults
    BY <1>1 DEF Init
  <2>3. \A j \in Job : job[j].step = "free" /\ job[j].tries = 0
    BY <1>1 DEF Init
  <2> QED
    BY <1>1, <2>1, <2>2, <2>3 DEF Init
<1>2. ASSUME TypeOK, [Next]_vars
      PROVE  TypeOK'
  <2> USE <1>2
  <2>1. ASSUME NEW r \in Request, Lookup(r)
        PROVE  TypeOK'
    BY <2>1 DEF Lookup, row, history
  <2>2. ASSUME NEW r \in Request, Write(r)
        PROVE  TypeOK'
    BY <2>2 DEF Write, ReqTo, RowFree, row, history
  <2>3. ASSUME NEW r \in Request, Enqueue(r)
        PROVE  TypeOK'
    BY <2>3 DEF Enqueue, Vacant, ReqTo, row, history
  <2>4. ASSUME NEW r \in Request, EnqueueFails(r)
        PROVE  TypeOK'
    BY <2>4 DEF EnqueueFails, ReqTo, Fault, May, row, history
  <2>5. ASSUME NEW r \in Request, CommitRequest(r)
        PROVE  TypeOK'
    BY <2>5 DEF CommitRequest, EndRequest, history
  <2>6. ASSUME NEW r \in Request, RollbackRequest(r)
        PROVE  TypeOK'
    BY <2>6 DEF RollbackRequest, EndRequest, Fault, May, row, history
  <2>7. ASSUME NEW j \in Job, Deliver(j)
        PROVE  TypeOK'
    BY <2>7 DEF Deliver, JobTo, row, history
  <2>8. ASSUME NEW j \in Job, Load(j)
        PROVE  TypeOK'
    <3>1. CASE NoStore /\ CloseTo(j, "ack")
      BY <2>8, <3>1 DEF Load, NoStore, CloseTo, row
    <3>2. CASE /\ status # "absent"
               /\ job' = [job EXCEPT ![j] = [@ EXCEPT !.step = "mark", !.seen = status, !.creds = creds]]
               /\ UNCHANGED dropped
      BY <2>8, <3>2 DEF Load, row, history
    <3> QED
      BY <2>8, <3>1, <3>2 DEF Load
  <2>9. ASSUME NEW j \in Job, MarkSyncing(j)
        PROVE  TypeOK'
    BY <2>9 DEF MarkSyncing, RowFree, history
  <2>10. ASSUME NEW j \in Job, Sync(j)
        PROVE  TypeOK'
    BY <2>10 DEF Sync, JobTo, row, history
  <2>11. ASSUME NEW j \in Job, Finish(j)
        PROVE  TypeOK'
    BY <2>11 DEF Finish, CloseTo, RowFree, history
  <2>12. ASSUME NEW j \in Job, Retry(j)
        PROVE  TypeOK'
    <3>1. PICK n \in Job :
             /\ job[n].step = "free"
             /\ job' = [job EXCEPT ![j] = Copy("ack", job[j].tries), ![n] = Copy("ready", job[j].tries + 1)]
      BY <2>12 DEF Retry, Vacant
    <3>2. job[j].tries + 1 \in 0 .. MaxRetries
      BY <2>12 DEF Retry, Vacant
    <3>3. \A i \in Job : job'[i] =
             IF i = n THEN [step |-> "ready", tries |-> job[j].tries + 1,
                            seen |-> "absent", creds |-> 1]
             ELSE IF i = j THEN [step |-> "ack", tries |-> job[j].tries,
                                 seen |-> "absent", creds |-> 1]
             ELSE job[i]
      BY <2>12, <3>1 DEF Retry
    <3>4. job' \in [Job ->
               [step : {"free", "ready"} \cup Executing, tries : 0 .. MaxRetries,
                seen : Statuses \cup {"absent"}, creds : Versions]]
      BY <3>1, <3>2, <3>3
    <3>5. \A i \in Job : job'[i].step = "retry" => job'[i].tries < MaxRetries
      BY <3>3
    <3> QED
      BY <2>12, <3>4, <3>5 DEF Retry, row, history
  <2>21. ASSUME NEW j \in Job, GiveUp(j)
        PROVE  TypeOK'
    <3>1. CASE NoStore /\ CloseTo(j, "ack")
      BY <2>21, <3>1 DEF GiveUp, NoStore, CloseTo, row
    <3>2. CASE /\ status # "absent"
               /\ job' = [job EXCEPT ![j] = [@ EXCEPT !.step = "fail", !.seen = status]]
               /\ UNCHANGED dropped
      BY <2>21, <3>2 DEF GiveUp, row
    <3> QED
      BY <2>21, <3>1, <3>2 DEF GiveUp
  <2>13. ASSUME NEW j \in Job, PersistFailed(j)
        PROVE  TypeOK'
    <3>1. dropped' \in BOOLEAN
      BY <2>13 DEF PersistFailed, LeavesFailed
    <3>2. status' \in {status, "failed"}
      BY <2>13 DEF PersistFailed, LeavesFailed
    <3> QED
      BY <2>13, <3>1, <3>2 DEF PersistFailed, CloseTo
  <2>14. ASSUME NEW j \in Job, Ack(j)
        PROVE  TypeOK'
    BY <2>14 DEF Ack, row, history
  <2>15. ASSUME NEW j \in Job, Raises(j)
        PROVE  TypeOK'
    BY <2>15 DEF Raises, CloseTo, Fault, May, row, history
  <2>16. ASSUME NEW j \in Job, RetryFails(j)
        PROVE  TypeOK'
    BY <2>16 DEF RetryFails, CloseTo, Fault, May, row, history
  <2>17. ASSUME NEW j \in Job, PersistRaises(j)
        PROVE  TypeOK'
    BY <2>17 DEF PersistRaises, CloseTo, Fault, May, row, history
  <2>18. ASSUME NEW j \in Job, ChildLost(j)
        PROVE  TypeOK'
    BY <2>18 DEF ChildLost, CloseTo, Fault, May, row, history
  <2>19. ASSUME NEW j \in Job, HardKill(j)
        PROVE  TypeOK'
    BY <2>19 DEF HardKill, Fault, May, row, history
  <2>20. CASE UNCHANGED vars
    BY <2>20 DEF vars, row, history
  <2> QED
    BY <2>1, <2>2, <2>3, <2>4, <2>5, <2>6, <2>7, <2>8, <2>9, <2>10, <2>11,
       <2>12, <2>13, <2>14, <2>15, <2>16, <2>17, <2>18, <2>19, <2>20, <2>21 DEF Next,
       HandlerStep, RunStep, RunFault
<1> QED
  BY <1>1, <1>2, PTL DEF Spec

(***************************************************************************)
(* After a single onboarding request ready is about its credentials.  A    *)
(* copy exists only once the request is past its flush; a run that got     *)
(* past its first UPDATE found the row unlocked, so the request had ended  *)
(* and the credentials can no longer change.                               *)
(***************************************************************************)
AllIdle == \A r \in Request : req[r].step = "idle"

OneRequest ==
  /\ LockHeld
  /\ asked = 0 => status # "connected"
  /\ \A r \in Request : req[r].step # "idle" => asked > 0 /\ Writes(r)
  /\ \A q, r \in Request : req[q].step # "idle" /\ req[r].step # "idle" => q = r
  /\ \A j \in Job : job[j].step # "free" =>
       asked > 0 /\ \A r \in Request : req[r].step \in {"idle", "commit"}
  /\ \A j \in Job : job[j].step = "mark" /\ job[j].seen = "syncing" => asked > 0 /\ AllIdle
  /\ \A j \in Job : job[j].step \in {"sync", "finish"} => job[j].creds = creds /\ AllIdle
  /\ \A j \in Job : job[j].step = "finish" => synced = creds
  /\ status \in {"syncing", "ready"} => asked > 0 /\ AllIdle
  /\ status = "ready" => synced = creds

OneRequestInv == asked <= 1 => OneRequest

(* The number of requests only grows. *)
LEMMA AskedGrows == [Next]_vars => asked' = asked \/ asked' = asked + 1
  BY DEF Next, vars, HandlerStep, RunStep, RunFault, Lookup, Write, Enqueue, EnqueueFails,
     CommitRequest, RollbackRequest, EndRequest, Deliver, Load, MarkSyncing, Sync, Finish,
     Retry, GiveUp, PersistFailed, LeavesFailed, Ack, Raises, RetryFails, PersistRaises, ChildLost, HardKill

(* A store that became ready after its only request has that request's products. *)
THEOREM ReadyCurrent == Spec => []ReadyIsCurrent
<1> USE OnboardingConstants
    DEF TypeOK, Statuses, RunSteps, Executing, NoReq, FreeJob, Copy, Versions, OneRequest,
        LockHeld, AllIdle, Writes
<1>1. Init => OneRequestInv
  BY DEF Init, OneRequestInv
<1>2. ASSUME TypeOK, OneRequestInv, [Next]_vars
      PROVE  OneRequestInv'
  <2> SUFFICES ASSUME asked' <= 1 PROVE OneRequest'
    BY DEF OneRequestInv
  <2>0. OneRequest /\ asked <= 1
    BY <1>2, AskedGrows DEF OneRequestInv, TypeOK
  <2> USE <1>2, <2>0
  <2>1. ASSUME NEW r \in Request, Lookup(r)
        PROVE  OneRequest'
    <3>1. asked = 0 /\ asked' = 1
      BY <2>1 DEF Lookup
    <3>2. \A q \in Request : req[q].step = "idle"
      BY <3>1
    <3>3. \A i \in Job : job[i].step = "free"
      BY <3>1
    <3>4. /\ \A q \in Request : q # r => req'[q].step = "idle"
          /\ req'[r].step = "write" /\ req'[r].seen # "connected"
      BY <2>1, <3>1, <3>2 DEF Lookup
    <3>5. job' = job /\ lock' = lock /\ status' = status /\ synced' = synced /\ creds' = creds
      BY <2>1 DEF Lookup, row, history
    <3> QED
      BY <3>1, <3>2, <3>3, <3>4, <3>5
  <2>2. ASSUME NEW r \in Request, Write(r)
        PROVE  OneRequest'
    BY <2>2 DEF Write, ReqTo, RowFree, row, history
  <2>3. ASSUME NEW r \in Request, Enqueue(r)
        PROVE  OneRequest'
    <3>1. PICK n \in Job : job[n].step = "free" /\ job' = [job EXCEPT ![n] = Copy("ready", 0)]
      BY <2>3 DEF Enqueue, Vacant
    <3>2. asked > 0 /\ lock = r /\ lock # NoRequest
      BY <2>3 DEF Enqueue, Vacant
    <3>3. \A q \in Request : /\ req'[q].step = IF q = r THEN "commit" ELSE req[q].step
                             /\ req'[q].seen = req[q].seen /\ req'[q].fresh = req[q].fresh
      BY <2>3 DEF Enqueue, ReqTo
    <3>4. \A i \in Job : job'[i] = IF i = n THEN Copy("ready", 0) ELSE job[i]
      BY <3>1
    <3> QED
      BY <2>3, <3>1, <3>2, <3>3, <3>4 DEF Enqueue, row, history
  <2>4. ASSUME NEW r \in Request, EnqueueFails(r)
        PROVE  OneRequest'
    BY <2>4 DEF EnqueueFails, ReqTo, Fault, May, row, history
  <2>5. ASSUME NEW r \in Request, CommitRequest(r)
        PROVE  OneRequest'
    BY <2>5 DEF CommitRequest, EndRequest, history
  <2>6. ASSUME NEW r \in Request, RollbackRequest(r)
        PROVE  OneRequest'
    BY <2>6 DEF RollbackRequest, EndRequest, Fault, May, row, history
  <2>7. ASSUME NEW j \in Job, Deliver(j)
        PROVE  OneRequest'
    BY <2>7 DEF Deliver, JobTo, row, history
  <2>8. ASSUME NEW j \in Job, Load(j)
        PROVE  OneRequest'
    <3>1. CASE NoStore /\ CloseTo(j, "ack")
      BY <2>8, <3>1 DEF Load, NoStore, CloseTo, row
    <3>2. CASE /\ status # "absent"
               /\ job' = [job EXCEPT ![j] = [@ EXCEPT !.step = "mark", !.seen = status, !.creds = creds]]
               /\ UNCHANGED dropped
      BY <2>8, <3>2 DEF Load, row, history
    <3> QED
      BY <2>8, <3>1, <3>2 DEF Load
  <2>9. ASSUME NEW j \in Job, MarkSyncing(j)
        PROVE  OneRequest'
    BY <2>9 DEF MarkSyncing, RowFree, history
  <2>10. ASSUME NEW j \in Job, Sync(j)
        PROVE  OneRequest'
    BY <2>10 DEF Sync, JobTo, row, history
  <2>11. ASSUME NEW j \in Job, Finish(j)
        PROVE  OneRequest'
    BY <2>11 DEF Finish, CloseTo, RowFree, history
  <2>12. ASSUME NEW j \in Job, Retry(j)
        PROVE  OneRequest'
    <3>1. PICK n \in Job :
             /\ job[n].step = "free"
             /\ job' = [job EXCEPT ![j] = Copy("ack", job[j].tries), ![n] = Copy("ready", job[j].tries + 1)]
      BY <2>12 DEF Retry, Vacant
    <3>2. \A i \in Job : /\ job'[i].step = IF i = n THEN "ready"
                                          ELSE IF i = j THEN "ack" ELSE job[i].step
                         /\ i # n /\ i # j => job'[i] = job[i]
      BY <2>12, <3>1 DEF Retry
    <3>3. UNCHANGED <<status, creds, synced, lock, req, asked>> /\ job[j].step # "free"
      BY <2>12 DEF Retry, row
    <3> HIDE DEF Copy
    <3> QED
      BY <3>2, <3>3
  <2>21. ASSUME NEW j \in Job, GiveUp(j)
        PROVE  OneRequest'
    <3>1. CASE NoStore /\ CloseTo(j, "ack")
      BY <2>21, <3>1 DEF GiveUp, NoStore, CloseTo, row
    <3>2. CASE /\ status # "absent"
               /\ job' = [job EXCEPT ![j] = [@ EXCEPT !.step = "fail", !.seen = status]]
               /\ UNCHANGED dropped
      BY <2>21, <3>2 DEF GiveUp, row
    <3> QED
      BY <2>21, <3>1, <3>2 DEF GiveUp
  <2>13. ASSUME NEW j \in Job, PersistFailed(j)
        PROVE  OneRequest'
    BY <2>13 DEF PersistFailed, LeavesFailed, CloseTo, RowFree, history
  <2>14. ASSUME NEW j \in Job, Ack(j)
        PROVE  OneRequest'
    BY <2>14 DEF Ack, row, history
  <2>15. ASSUME NEW j \in Job, Raises(j)
        PROVE  OneRequest'
    BY <2>15 DEF Raises, CloseTo, Fault, May, row, history
  <2>16. ASSUME NEW j \in Job, RetryFails(j)
        PROVE  OneRequest'
    BY <2>16 DEF RetryFails, CloseTo, Fault, May, row, history
  <2>17. ASSUME NEW j \in Job, PersistRaises(j)
        PROVE  OneRequest'
    BY <2>17 DEF PersistRaises, CloseTo, Fault, May, row, history
  <2>18. ASSUME NEW j \in Job, ChildLost(j)
        PROVE  OneRequest'
    BY <2>18 DEF ChildLost, CloseTo, Fault, May, row, history
  <2>19. ASSUME NEW j \in Job, HardKill(j)
        PROVE  OneRequest'
    BY <2>19 DEF HardKill, Fault, May, row, history
  <2>20. CASE UNCHANGED vars
    BY <2>20 DEF vars, row, history
  <2> QED
    BY <2>1, <2>2, <2>3, <2>4, <2>5, <2>6, <2>7, <2>8, <2>9, <2>10, <2>11,
       <2>12, <2>13, <2>14, <2>15, <2>16, <2>17, <2>18, <2>19, <2>20, <2>21 DEF Next,
       HandlerStep, RunStep, RunFault
<1>3. OneRequestInv => ReadyIsCurrent
  BY DEF OneRequestInv, ReadyIsCurrent
<1> QED
  BY <1>1, <1>2, <1>3, TypeCorrect, PTL DEF Spec

(***************************************************************************)
(* Who is going to settle the store.  As long as it is unsettled, or a     *)
(* request that will make it so stands before its commit, a copy is still  *)
(* to run, unless the request has yet to enqueue it.  A run settles the    *)
(* store in an UPDATE that waits for the row, and so for the requests that *)
(* have written and not committed.  The runs that send no UPDATE in the    *)
(* end are those whose refresh has read ready (or will, at mark): they do  *)
(* not count.  One that finds failed says so in dropped, where it matters. *)
(***************************************************************************)
Settles(j) ==
  \/ job[j].step \in {"ready", "load", "retry", "persist", "fail"}
  \/ job[j].step = "mark" /\ (job[j].seen = "syncing" => status # "ready")
  \/ job[j].step \in {"sync", "finish"} /\ job[j].seen # "ready"

ToSettle == \E j \in Job : Settles(j)
ToEnqueue == \E r \in Request : req[r].step \in {"write", "enqueue"}
ToCommit == \E r \in Request : req[r].step = "commit" /\ Writes(r)

Attended ==
  \/ dropped
  \/ ToSettle
  \/ ~ToCommit /\ (asked > 0 => status \in {"ready", "failed"} \/ ToEnqueue)

(* The lock of the row is the open request's that wrote it. *)
LEMMA LockKept == Spec => []LockHeld
<1>1. ASSUME Init PROVE LockHeld
  <2>1. lock = NoRequest /\ \A r \in Request : req[r].step = "idle"
    BY <1>1 DEF Init, NoReq
  <2> QED
    BY <2>1, OnboardingConstants DEF LockHeld
<1>2. ASSUME TypeOK, LockHeld, [Next]_vars
      PROVE  LockHeld'
  <2> USE <1>2, OnboardingConstants DEF TypeOK, LockHeld, Writes
  <2>1. ASSUME NEW r \in Request, Lookup(r)
        PROVE  LockHeld'
    BY <2>1 DEF Lookup
  <2>2. ASSUME NEW r \in Request, Write(r)
        PROVE  LockHeld'
    BY <2>2 DEF Write, ReqTo, RowFree
  <2>3. ASSUME NEW r \in Request, Enqueue(r) \/ EnqueueFails(r)
        PROVE  LockHeld'
    BY <2>3 DEF Enqueue, EnqueueFails, ReqTo
  <2>4. ASSUME NEW r \in Request, CommitRequest(r) \/ RollbackRequest(r)
        PROVE  LockHeld'
    BY <2>4 DEF CommitRequest, RollbackRequest, EndRequest, NoReq
  <2>5. ASSUME NEW j \in Job, RunStep(j) \/ RunFault(j)
        PROVE  UNCHANGED <<lock, req>>
    BY <2>5 DEF RunStep, RunFault, Deliver, Load, MarkSyncing, Sync, Finish, Retry, GiveUp,
       PersistFailed, Ack, Raises, RetryFails, PersistRaises, ChildLost, HardKill
  <2> QED
    BY <2>1, <2>2, <2>3, <2>4, <2>5 DEF Next, HandlerStep, vars
<1> QED
  BY <1>1, <1>2, TypeCorrect, PTL DEF Spec

LEMMA AttendedStep ==
  ASSUME TypeOK, LockHeld, Attended, [Next]_vars
  PROVE  Attended'
<1> USE OnboardingConstants DEF TypeOK, Attended
<1>0. ASSUME NEW j \in Job, \A i \in Job \ {j} : job'[i] = job[i], ~Settles(j),
             UNCHANGED <<status, req, asked, dropped>>
      PROVE  Attended'
  BY <1>0 DEF ToSettle, Settles, ToEnqueue, ToCommit, Writes
<1>00. ASSUME NEW j \in Job, Settles(j)'
       PROVE  Attended'
  BY <1>00 DEF ToSettle
<1>1. ASSUME NEW r \in Request, Lookup(r)
      PROVE  Attended'
  <2>1. req'[r].step = "write" /\ UNCHANGED <<status, job, dropped>>
    BY <1>1 DEF Lookup, row, history
  <2>2. \A q \in Request : q # r => req'[q] = req[q]
    BY <1>1 DEF Lookup
  <2> QED
    BY <2>1, <2>2 DEF ToEnqueue, ToCommit, ToSettle, Settles, Writes
<1>2. ASSUME NEW r \in Request, Write(r)
      PROVE  Attended'
  <2>1. req'[r].step = "enqueue" /\ UNCHANGED <<status, job, dropped, asked>>
    BY <1>2 DEF Write, ReqTo, row, history
  <2>2. \A q \in Request : q # r => req'[q] = req[q]
    BY <1>2 DEF Write, ReqTo
  <2> QED
    BY <2>1, <2>2 DEF ToEnqueue, ToCommit, ToSettle, Settles, Writes
<1>3. ASSUME NEW r \in Request, Enqueue(r)
      PROVE  Attended'
  <2>1. PICK n \in Job : job' = [job EXCEPT ![n] = Copy("ready", 0)]
    BY <1>3 DEF Enqueue
  <2>2. job'[n].step = "ready"
    BY <2>1 DEF Copy
  <2> QED
    BY <1>00, <2>2 DEF Settles
<1>4. ASSUME NEW r \in Request, EnqueueFails(r)
      PROVE  Attended'
  BY <1>4 DEF EnqueueFails, Fault, LosingKinds
<1>5. ASSUME NEW r \in Request, CommitRequest(r) \/ RollbackRequest(r)
      PROVE  Attended'
  <2>1. job' = job /\ asked' = asked /\ (dropped => dropped') /\ status' \in {status, "connected"}
    BY <1>5 DEF CommitRequest, RollbackRequest, EndRequest, Fault, row
  <2>2. req'[r].step = "idle" /\ \A q \in Request : q # r => req'[q] = req[q]
    BY <1>5 DEF CommitRequest, RollbackRequest, EndRequest, NoReq
  <2>3. CASE dropped \/ ToSettle
    BY <2>1, <2>3 DEF ToSettle, Settles
  <2>4. CASE ~dropped /\ ~ToSettle
    <3>1. req[r].step = "commit" /\ ~Writes(r)
      BY <1>5, <2>4 DEF CommitRequest, RollbackRequest, ToCommit
    <3>2. status' = status
      BY <1>5, <3>1 DEF CommitRequest, RollbackRequest, Writes, row
    <3> QED
      BY <2>1, <2>2, <2>4, <3>1, <3>2 DEF ToCommit, ToEnqueue, Writes
  <2> QED
    BY <2>3, <2>4
<1>6. ASSUME NEW j \in Job, Deliver(j)
      PROVE  Attended'
  <2>1. job'[j].step = "load"
    BY <1>6 DEF Deliver, JobTo
  <2> QED
    BY <1>00, <2>1 DEF Settles
<1>7. ASSUME NEW j \in Job, Load(j)
      PROVE  Attended'
  <2>1. CASE NoStore
    BY <2>1 DEF NoStore
  <2>2. CASE job' = [job EXCEPT ![j] = [@ EXCEPT !.step = "mark", !.seen = status, !.creds = creds]]
    <3>1. job'[j].step = "mark" /\ job'[j].seen = status /\ status' = status
      BY <1>7, <2>2 DEF Load, row
    <3> QED
      BY <1>00, <3>1 DEF Settles
  <2> QED
    BY <1>7, <2>1, <2>2 DEF Load
<1>8. ASSUME NEW j \in Job, MarkSyncing(j)
      PROVE  Attended'
  <2>1. job'[j].step = "sync" /\ job'[j].seen = status'
    BY <1>8 DEF MarkSyncing
  <2>2. CASE status' # "ready"
    BY <1>00, <2>1, <2>2 DEF Settles
  <2>3. CASE status' = "ready"
    <3>1. ~Settles(j) /\ UNCHANGED <<status, req, asked, dropped>>
      BY <1>8, <2>3 DEF MarkSyncing, Settles, history
    <3>2. \A i \in Job \ {j} : job'[i] = job[i]
      BY <1>8 DEF MarkSyncing
    <3> QED
      BY <1>0, <3>1, <3>2
  <2> QED
    BY <2>2, <2>3
<1>9. ASSUME NEW j \in Job, Sync(j)
      PROVE  Attended'
  <2>1. job'[j].step = "finish" /\ job'[j].seen = job[j].seen /\ job[j].step = "sync"
    BY <1>9 DEF Sync, JobTo
  <2>2. \A i \in Job \ {j} : job'[i] = job[i]
    BY <1>9 DEF Sync, JobTo
  <2>3. UNCHANGED <<status, req, asked, dropped>>
    BY <1>9 DEF Sync, row, history
  <2>4. CASE job[j].seen = "ready"
    BY <1>0, <2>1, <2>2, <2>3, <2>4 DEF Settles
  <2>5. CASE job[j].seen # "ready"
    BY <1>00, <2>1, <2>5 DEF Settles
  <2> QED
    BY <2>4, <2>5
<1>10. ASSUME NEW j \in Job, Finish(j) \/ PersistFailed(j)
       PROVE  Attended'
  <2>1. CASE status' \in {"ready", "failed"} /\ RowFree
    <3>1. ~ToCommit
      BY <2>1 DEF RowFree, LockHeld, ToCommit
    <3>2. req' = req
      BY <1>10 DEF Finish, PersistFailed
    <3> QED
      BY <2>1, <3>1, <3>2 DEF ToCommit, Writes
  <2>2. CASE dropped'
    BY <2>2
  <2>3. CASE Finish(j) /\ job[j].seen = "ready" /\ UNCHANGED status
    <3>1. ~Settles(j) /\ UNCHANGED <<status, req, asked, dropped>>
      BY <2>3 DEF Finish, Settles, history
    <3>2. \A i \in Job \ {j} : job'[i] = job[i]
      BY <2>3 DEF Finish, CloseTo
    <3> QED
      BY <1>0, <3>1, <3>2
  <2> QED
    BY <1>10, <2>1, <2>2, <2>3 DEF Finish, PersistFailed, LeavesFailed
<1>11. ASSUME NEW j \in Job, Retry(j)
       PROVE  Attended'
  <2>1. PICK n \in Job : Vacant(n)
             /\ job' = [job EXCEPT ![j] = Copy("ack", job[j].tries),
                                  ![n] = Copy("ready", job[j].tries + 1)]
    BY <1>11 DEF Retry
  <2>2. job'[n].step = "ready"
    BY <2>1 DEF Copy
  <2> QED
    BY <1>00, <2>2 DEF Settles
<1>12. ASSUME NEW j \in Job, GiveUp(j)
       PROVE  Attended'
  <2>1. CASE NoStore
    BY <2>1 DEF NoStore
  <2>2. CASE job' = [job EXCEPT ![j] = [@ EXCEPT !.step = "fail", !.seen = status]]
    <3>1. job'[j].step = "fail"
      BY <2>2
    <3> QED
      BY <1>00, <3>1 DEF Settles
  <2> QED
    BY <1>12, <2>1, <2>2 DEF GiveUp
<1>13. ASSUME NEW j \in Job, RetryFails(j) \/ PersistRaises(j) \/ HardKill(j)
       PROVE  Attended'
  BY <1>13 DEF RetryFails, PersistRaises, HardKill, Fault, LosingKinds
<1>14. ASSUME NEW j \in Job, Ack(j)
       PROVE  Attended'
  <2>1. ~Settles(j) /\ UNCHANGED <<status, req, asked, dropped>>
    BY <1>14 DEF Ack, Settles, row, history
  <2>2. \A i \in Job \ {j} : job'[i] = job[i]
    BY <1>14 DEF Ack
  <2> QED
    BY <1>0, <2>1, <2>2
<1>15. ASSUME NEW j \in Job, ChildLost(j) \/ Raises(j)
       PROVE  Attended'
  <2>1. job'[j].step \in {"ready", "retry", "persist"}
    BY <1>15 DEF ChildLost, Raises, CloseTo, Copy
  <2> QED
    BY <1>00, <2>1 DEF Settles
<1>16. CASE UNCHANGED vars
  BY <1>16 DEF vars, ToEnqueue, ToCommit, ToSettle, Settles, Writes
<1> QED
  BY <1>1, <1>2, <1>3, <1>4, <1>5, <1>6, <1>7, <1>8, <1>9, <1>10, <1>11, <1>12, <1>13,
     <1>14, <1>15, <1>16 DEF Next, HandlerStep, RunStep, RunFault

LEMMA AttendedHolds == Spec => []Attended
<1>1. Init => Attended
  BY DEF Init, Attended, NoReq, ToCommit
<1>2. QED
  BY <1>1, AttendedStep, TypeCorrect, LockKept, PTL DEF Spec

(* What is left unsettled was given up by a cause the code logs, or its *)
(* failed was left unwritten. *)
THEOREM NobodyForgets == Spec => []NoneForgotten
<1>1. TypeOK /\ Attended => NoneForgotten
  BY DEF Attended, NoneForgotten, Quiet, ToSettle, Settles, ToEnqueue
<1> QED
  BY <1>1, AttendedHolds, TypeCorrect, PTL

(***************************************************************************)
(* Where those causes do not occur: the store has a row before it is       *)
(* onboarded, no run raises, so that none gives up, and no message is      *)
(* lost.  Children may die and requests overlap and be rolled back.        *)
(***************************************************************************)
NothingDropped ==
  /\ status # "absent" /\ ~dropped
  /\ \A j \in Job : job[j].step \notin {"retry", "persist", "fail"}

(* What the onboarding endpoint promises then holds: when nothing is left *)
(* to run, the store is ready or failed. *)
THEOREM ExistingStoreSettles ==
  ASSUME "absent" \notin InitialStatus, FaultKinds \subseteq {"commit_error", "child_lost"}
  PROVE  Spec => []Settled
<1>1. Init => NothingDropped
  BY OnboardingConstants DEF Init, NothingDropped, FreeJob, Copy
<1>2. ASSUME TypeOK, NothingDropped, [Next]_vars
      PROVE  NothingDropped'
  <2> USE <1>2 DEF NothingDropped, TypeOK
  <2>1. ASSUME NEW r \in Request, Lookup(r) \/ HandlerStep(r)
        PROVE  NothingDropped'
    <3>1. CASE EnqueueFails(r)
      BY <3>1 DEF EnqueueFails, Fault, May
    <3>2. CASE RollbackRequest(r)
      BY <3>2 DEF RollbackRequest, EndRequest, Fault, May, LosingKinds, row
    <3>3. CASE CommitRequest(r)
      BY <3>3 DEF CommitRequest, EndRequest
    <3>4. CASE Lookup(r) \/ Write(r)
      BY <3>4 DEF Lookup, Write, row, history
    <3>5. CASE Enqueue(r)
      BY <3>5 DEF Enqueue, Copy, row, history
    <3> QED
      BY <2>1, <3>1, <3>2, <3>3, <3>4, <3>5 DEF HandlerStep
  <2>2. ASSUME NEW j \in Job, RunStep(j)
        PROVE  NothingDropped'
    <3>1. CASE Deliver(j) \/ Sync(j)
      BY <3>1 DEF Deliver, Sync, JobTo, row, history
    <3>2. CASE Load(j)
      <4>1. UNCHANGED <<status, dropped>>
        BY <3>2 DEF Load, NoStore, row
      <4>2. job' = [job EXCEPT ![j] = [@ EXCEPT !.step = "mark", !.seen = status, !.creds = creds]]
        BY <3>2 DEF Load, NoStore
      <4> QED
        BY <4>1, <4>2
    <3>3. CASE MarkSyncing(j)
      BY <3>3 DEF MarkSyncing, history
    <3>4. CASE Finish(j)
      BY <3>4 DEF Finish, CloseTo, Copy, history
    <3>5. CASE Ack(j)
      BY <3>5 DEF Ack, FreeJob, Copy, row, history
    <3>6. CASE Retry(j) \/ GiveUp(j) \/ PersistFailed(j)
      BY <3>6 DEF Retry, GiveUp, PersistFailed
    <3> QED
      BY <2>2, <3>1, <3>2, <3>3, <3>4, <3>5, <3>6 DEF RunStep
  <2>3. ASSUME NEW j \in Job, RunFault(j)
        PROVE  NothingDropped'
    BY <2>3 DEF RunFault, Raises, RetryFails, PersistRaises, ChildLost, HardKill, Fault,
       May, LosingKinds, CloseTo, Copy, row
  <2> QED
    BY <2>1, <2>2, <2>3 DEF Next, vars
<1>3. NoneForgotten /\ NothingDropped => Settled
  BY DEF NoneForgotten, NothingDropped, Settled
<1> QED
  BY <1>1, <1>2, <1>3, NobodyForgets, TypeCorrect, PTL DEF Spec

(***************************************************************************)
(* Which credentials a ready store was synced with.  Unless a run was      *)
(* overtaken or the work lost: a run that syncs has the credentials in     *)
(* force (RunsAreCurrent), one about to finish has stored what they give,  *)
(* and a ready store that new ones were committed under still has a copy   *)
(* to run, which was enqueued before that commit and could not end.        *)
(***************************************************************************)
ToRun == \E j \in Job : job[j].step \notin {"free", "ack"}

RunsAreCurrent ==
  /\ \A j \in Job : job[j].step \in {"sync", "finish"} => job[j].creds = creds
  /\ \A j \in Job : job[j].step = "finish" => synced = creds

SyncedOrToRun == status = "ready" => synced = creds \/ ToRun

CurrentInv == overtaken \/ dropped \/ (RunsAreCurrent /\ SyncedOrToRun)

(* The excuses are never taken back. *)
LEMMA ExcusesStay ==
  ASSUME [Next]_vars
  PROVE  (overtaken => overtaken') /\ (dropped => dropped')
<1>1. ASSUME NEW r \in Request, Lookup(r) \/ HandlerStep(r)
      PROVE  (overtaken => overtaken') /\ (dropped => dropped')
  <2>1. CASE Lookup(r) \/ Write(r) \/ Enqueue(r)
    BY <2>1 DEF Lookup, Write, Enqueue, history
  <2>2. CASE EnqueueFails(r) \/ RollbackRequest(r)
    <3>1. overtaken' = overtaken
      BY <2>2 DEF EnqueueFails, RollbackRequest, Fault
    <3>2. ASSUME dropped PROVE dropped'
      BY <2>2, <3>2, Zenon DEF EnqueueFails, RollbackRequest, Fault
    <3> QED
      BY <3>1, <3>2
  <2>3. CASE CommitRequest(r)
    BY <2>3 DEF CommitRequest
  <2> QED
    BY <1>1, <2>1, <2>2, <2>3 DEF HandlerStep
<1>2. ASSUME NEW j \in Job, RunStep(j)
      PROVE  overtaken' = overtaken /\ (dropped => dropped')
  <2>1. CASE Deliver(j) \/ MarkSyncing(j) \/ Sync(j) \/ Finish(j) \/ Retry(j) \/ Ack(j)
    BY <2>1 DEF Deliver, MarkSyncing, Sync, Finish, Retry, Ack, history
  <2>2. CASE Load(j) \/ GiveUp(j)
    BY <2>2 DEF Load, GiveUp, NoStore
  <2>3. CASE PersistFailed(j)
    <3>1. overtaken' = overtaken
      BY <2>3 DEF PersistFailed
    <3>2. ASSUME dropped PROVE dropped'
      BY <2>3, <3>2, Zenon DEF PersistFailed, LeavesFailed
    <3> QED
      BY <3>1, <3>2
  <2> QED
    BY <1>2, <2>1, <2>2, <2>3 DEF RunStep
<1>3. ASSUME NEW j \in Job, RunFault(j)
      PROVE  overtaken' = overtaken /\ (dropped => dropped')
  BY <1>3 DEF RunFault, Raises, RetryFails, PersistRaises, ChildLost, HardKill, Fault
<1> QED
  BY <1>1, <1>2, <1>3 DEF Next, vars

(* Whatever onboarding requests and runs overlap, the store ends with the *)
(* products of the credentials given last, but for the two causes. *)
THEOREM EndsWithNewest == Spec => []EndsCurrent
<1>1. Init => CurrentInv
  BY OnboardingConstants DEF Init, CurrentInv, RunsAreCurrent, SyncedOrToRun, FreeJob, Copy
<1>2. ASSUME TypeOK, Attended, CurrentInv, [Next]_vars
      PROVE  CurrentInv'
  <2> SUFFICES ASSUME ~overtaken', ~dropped' PROVE (RunsAreCurrent /\ SyncedOrToRun)'
    BY DEF CurrentInv
  <2>0. ~dropped /\ RunsAreCurrent /\ SyncedOrToRun
    BY <1>2, ExcusesStay DEF CurrentInv
  <2> USE <1>2, <2>0 DEF TypeOK, RunsAreCurrent, SyncedOrToRun, ToRun
  <2>1. ASSUME NEW r \in Request, Lookup(r) \/ Write(r) \/ EnqueueFails(r) \/ RollbackRequest(r)
        PROVE  (RunsAreCurrent /\ SyncedOrToRun)'
    BY <2>1 DEF Lookup, Write, EnqueueFails, RollbackRequest, EndRequest, row
  <2>2. ASSUME NEW r \in Request, Enqueue(r)
        PROVE  (RunsAreCurrent /\ SyncedOrToRun)'
    BY <2>2 DEF Enqueue, Copy, row
  <2>3. ASSUME NEW r \in Request, CommitRequest(r)
        PROVE  (RunsAreCurrent /\ SyncedOrToRun)'
    <3>1. job' = job /\ synced' = synced /\ (status' = "ready" => status = "ready")
      BY <2>3 DEF CommitRequest, EndRequest
    <3>2. CASE ~req[r].fresh
      BY <2>3, <3>1, <3>2 DEF CommitRequest
    <3>3. CASE req[r].fresh
      <4>1. \A j \in Job : job[j].step \notin {"sync", "finish"}
        BY <2>3, <3>3 DEF CommitRequest
      <4>2. ToCommit
        BY <2>3, <3>3 DEF CommitRequest, ToCommit, Writes
      <4>3. ToRun
        BY <4>2 DEF Attended, ToSettle, Settles
      <4> QED
        BY <3>1, <4>1, <4>3
    <3> QED
      BY <3>2, <3>3
  <2>4. ASSUME NEW j \in Job, Deliver(j) \/ Load(j) \/ GiveUp(j) \/ Raises(j) \/ ChildLost(j)
        PROVE  (RunsAreCurrent /\ SyncedOrToRun)'
    <3>1. UNCHANGED <<row, synced>> /\ \A i \in Job \ {j} : job'[i] = job[i]
      BY <2>4 DEF Deliver, Load, GiveUp, Raises, ChildLost, JobTo, CloseTo
    <3>2. job'[j].step \in {"load", "mark", "fail", "retry", "persist", "ready"}
      <4>1. CASE Deliver(j) \/ Raises(j) \/ ChildLost(j)
        BY <4>1 DEF Deliver, Raises, ChildLost, JobTo, CloseTo, Copy
      <4>2. CASE Load(j) \/ GiveUp(j)
        <5>1. ~NoStore
          BY DEF NoStore
        <5>2. \/ job' = [job EXCEPT ![j] = [@ EXCEPT !.step = "mark", !.seen = status, !.creds = creds]]
              \/ job' = [job EXCEPT ![j] = [@ EXCEPT !.step = "fail", !.seen = status]]
          BY <4>2, <5>1, Zenon DEF Load, GiveUp
        <5>3. CASE job' = [job EXCEPT ![j] = [@ EXCEPT !.step = "mark", !.seen = status, !.creds = creds]]
          BY <5>3
        <5>4. CASE job' = [job EXCEPT ![j] = [@ EXCEPT !.step = "fail", !.seen = status]]
          BY <5>4
        <5> QED
          BY <5>2, <5>3, <5>4
      <4> QED
        BY <2>4, <4>1, <4>2
    <3> QED
      BY <3>1, <3>2 DEF row
  <2>5. ASSUME NEW j \in Job, MarkSyncing(j)
        PROVE  (RunsAreCurrent /\ SyncedOrToRun)'
    BY <2>5 DEF MarkSyncing
  <2>6. ASSUME NEW j \in Job, Sync(j)
        PROVE  (RunsAreCurrent /\ SyncedOrToRun)'
    <3>1. synced' = creds /\ creds' = creds
      BY <2>6 DEF Sync, row
    <3>2. \A i \in Job : job'[i].creds = job[i].creds
             /\ (job'[i].step \in {"sync", "finish"} => job[i].step \in {"sync", "finish"})
      BY <2>6 DEF Sync, JobTo
    <3> QED
      BY <3>1, <3>2
  <2>7. ASSUME NEW j \in Job, Finish(j)
        PROVE  (RunsAreCurrent /\ SyncedOrToRun)'
    <3>1. synced' = creds' /\ creds' = creds
      BY <2>7 DEF Finish
    <3>2. \A i \in Job : job'[i].step \in {"sync", "finish"} => job'[i] = job[i]
      BY <2>7 DEF Finish, CloseTo, Copy
    <3> QED
      BY <3>1, <3>2
  <2>8. ASSUME NEW j \in Job, PersistFailed(j)
        PROVE  (RunsAreCurrent /\ SyncedOrToRun)'
    <3>1. status' = "failed" /\ UNCHANGED <<creds, synced>>
      BY <2>8 DEF PersistFailed, LeavesFailed
    <3>2. \A i \in Job : job'[i].step \in {"sync", "finish"} => job'[i] = job[i]
      BY <2>8 DEF PersistFailed, CloseTo, Copy
    <3> QED
      BY <3>1, <3>2
  <2>9. ASSUME NEW j \in Job, Retry(j)
        PROVE  (RunsAreCurrent /\ SyncedOrToRun)'
    <3>1. PICK n \in Job : Vacant(n)
             /\ job' = [job EXCEPT ![j] = Copy("ack", job[j].tries),
                                  ![n] = Copy("ready", job[j].tries + 1)]
      BY <2>9 DEF Retry
    <3>2. job'[n].step = "ready" /\ UNCHANGED <<row, synced>>
      BY <2>9, <3>1 DEF Retry, Copy
    <3>3. \A i \in Job : job'[i].step \in {"sync", "finish"} => job'[i] = job[i]
      BY <3>1 DEF Copy
    <3> QED
      BY <3>2, <3>3 DEF row
  <2>10. ASSUME NEW j \in Job, Ack(j)
         PROVE  (RunsAreCurrent /\ SyncedOrToRun)'
    BY <2>10 DEF Ack, FreeJob, Copy, row
  <2>11. ASSUME NEW j \in Job, RetryFails(j) \/ PersistRaises(j) \/ HardKill(j)
         PROVE  FALSE
    BY <2>11 DEF RetryFails, PersistRaises, HardKill, Fault, LosingKinds
  <2>12. CASE UNCHANGED vars
    BY <2>12 DEF vars
  <2> QED
    BY <2>1, <2>2, <2>3, <2>4, <2>5, <2>6, <2>7, <2>8, <2>9, <2>10, <2>11, <2>12
       DEF Next, HandlerStep, RunStep, RunFault
<1>3. CurrentInv => EndsCurrent
  BY DEF CurrentInv, SyncedOrToRun, ToRun, EndsCurrent, Quiet
<1> QED
  BY <1>1, <1>2, <1>3, TypeCorrect, AttendedHolds, PTL DEF Spec
=============================================================================
