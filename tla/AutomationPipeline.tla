------------------------- MODULE AutomationPipeline -------------------------
(***************************************************************************)
(* Automation for one user of one store.  Requests record events; a chat   *)
(* search also enqueues evaluate_user_automation, before its transaction   *)
(* commits.  An evaluation ranks the triggers whose events passed the      *)
(* threshold, reserves each one's dedupe slot in Redis (48 hours, SET NX), *)
(* and stops after the first action that took effect.                      *)
(*                                                                         *)
(* TaskExecution is the task around it: here an evaluation has one attempt *)
(* at a time (NoConcurrentWork), an attempt that raised or died is run     *)
(* again or given up, and a completed one closes the user's idempotency    *)
(* key for DoneTTL.  Scores depend on clock and counts, so the ranking may *)
(* be any order.  One unit of time is a day; an evaluation takes none.     *)
(***************************************************************************)
EXTENDS Integers

CONSTANTS
  Category,   \* repeated_interest triggers: the categories searched for
  Product,    \* high_intent triggers: the products viewed
  NoTrigger,  \* none
  Threshold,  \* events that make a trigger fire
  SlotTTL,    \* DEFAULT_TTL_SECONDS of a trigger slot, in days
  DoneTTL,    \* completed_ttl_seconds of the evaluation's key, in days
  FaultKinds, \* the faults the environment may inject
  MaxFaults,  \* BOUND: injected faults
  MaxEvents,  \* BOUND: events per trigger
  MaxQueue    \* BOUND: evaluations waiting

Trigger == Category \cup Product

AllFaultKinds ==
  {"chat_error", "enqueue_error", "late_error", "work_error", "commit_error",
   "redis_error", "child_lost"}

ASSUME AutomationConstants ==
  /\ Category \cap Product = {} /\ NoTrigger \notin Trigger
  /\ Threshold \in Nat \ {0} /\ SlotTTL \in Nat \ {0} /\ DoneTTL \in Nat \ {0}
  /\ MaxFaults \in Nat /\ MaxEvents \in Nat /\ MaxQueue \in Nat
  /\ FaultKinds \subseteq AllFaultKinds

VARIABLES
  user,    \* the committed user row: absent or known
  events,  \* committed events behind each trigger
  chat,    \* the search of an open chat transaction, or NoTrigger
  queue,   \* evaluation messages waiting
  done,    \* days the evaluation's key stays completed
  step,    \* where the attempt is
  todo,    \* ranked triggers it has still to consider
  cur,     \* the trigger it is working on
  grip,    \* how it got cur's slot: own (SET NX) or open (Redis failed)
  slot,    \* days a trigger's slot lives, 0 = absent
  recent,  \* history: days until another action on a trigger is no repetition
  repeats, \* history: actions on a trigger inside that time
  leaked,  \* history: triggers whose slot a crash or a failed release left behind
  blind,   \* history: times the pipeline worked on a trigger it misjudged
  acts,    \* history: actions of this evaluation
  excuses, \* history: events that entitle this evaluation to one more
  faults   \* history: injected faults

requests == <<user, events, chat>>
evaluation == <<acts, excuses>>
window == <<recent, repeats, leaked>>
vars == <<requests, queue, done, step, todo, cur, grip, slot, window, blind,
          evaluation, faults>>

Attempt == {"load", "consider", "decide", "release", "raise", "commit", "mark"}

May(kind) == kind \in FaultKinds /\ faults < MaxFaults
Fault(kind) == May(kind) /\ faults' = faults + 1

Ripe == {t \in Trigger : events[t] >= Threshold}

\* An action on cur: a repetition if the last one was less than SlotTTL ago.
Acted ==
  /\ repeats' = [repeats EXCEPT ![cur] = IF recent[cur] > 0 THEN @ + 1 ELSE @]
  /\ recent' = [recent EXCEPT ![cur] = SlotTTL]
  /\ leaked' = leaked \ {cur}
  /\ acts' = acts + 1

\* The loop goes on with the next trigger.
NextTrigger == step' = "consider" /\ cur' = NoTrigger /\ grip' = "own"

\* The slot of the trigger in hand, if it has one, outlives its turn.
LeaveSlot ==
  /\ leaked' = leaked \cup {t \in {cur} \cap Trigger : slot[t] > 0}
  /\ UNCHANGED <<recent, repeats>>

DayLess(n) == IF n = 0 THEN 0 ELSE n - 1

(***************************************************************************)
(* Faulty variants                                                         *)
(***************************************************************************)
\* SET without nx=True
ReserveAlways ==
  /\ step = "consider"
  /\ \E t \in todo : todo' = todo \ {t} /\ cur' = t /\ slot' = [slot EXCEPT ![t] = SlotTTL]
  /\ step' = "decide"
  /\ grip' = "own"
  /\ UNCHANGED <<requests, queue, done, window, blind, evaluation, faults>>

\* continue instead of return after an action
ActAndGoOn ==
  /\ step = "decide"
  /\ Acted
  /\ NextTrigger
  /\ UNCHANGED <<requests, queue, done, todo, slot, blind, excuses, faults>>

\* continue without release_trigger_slot
DeclineWithoutRelease ==
  /\ step = "decide"
  /\ cur \in Category
  /\ NextTrigger
  /\ UNCHANGED <<requests, queue, done, todo, slot, window, blind, evaluation, faults>>

\* the days left count on below zero
TickPastZero ==
  /\ step = "idle"
  /\ done > 0 \/ \E t \in Trigger : slot[t] > 0 \/ recent[t] > 0
  /\ done' = done - 1
  /\ slot' = [t \in Trigger |-> DayLess(slot[t])]
  /\ recent' = [t \in Trigger |-> DayLess(recent[t])]
  /\ leaked' = {t \in leaked : slot[t] > 1}
  /\ UNCHANGED <<requests, queue, step, todo, cur, grip, repeats, blind, evaluation, faults>>

Init ==
  /\ user = "absent"
  /\ events = [t \in Trigger |-> 0]
  /\ chat = NoTrigger
  /\ queue = 0
  /\ done = 0
  /\ step = "idle" /\ todo = {} /\ cur = NoTrigger /\ grip = "own"
  /\ slot = [t \in Trigger |-> 0]
  /\ recent = [t \in Trigger |-> 0]
  /\ repeats = [t \in Trigger |-> 0]
  /\ blind = [t \in Trigger |-> 0]
  /\ leaked = {}
  /\ acts = 0 /\ excuses = 0 /\ faults = 0

(***************************************************************************)
(* Requests                                                                *)
(***************************************************************************)
\* (A search naming several categories counts as several searches.)
\* handle_chat: the search event (and a first-time user) is flushed, the
\* evaluation is enqueued, the reply is generated; nothing is committed yet.
ChatSearch ==
  /\ chat = NoTrigger
  /\ \E t \in Category : events[t] < MaxEvents /\ chat' = t
  /\ \/ queue < MaxQueue /\ queue' = queue + 1 /\ UNCHANGED faults
     \/ Fault("enqueue_error") /\ UNCHANGED queue
  /\ UNCHANGED <<user, events, done, step, todo, cur, grip, slot, window, blind, evaluation>>

CommitChat ==
  /\ chat # NoTrigger
  /\ user' = "known"
  /\ events' = [events EXCEPT ![chat] = @ + 1]
  /\ chat' = NoTrigger
  /\ UNCHANGED <<queue, done, step, todo, cur, grip, slot, window, blind, evaluation, faults>>

\* The request fails after the enqueue.
RollbackChat ==
  /\ chat # NoTrigger
  /\ Fault("chat_error")
  /\ chat' = NoTrigger
  /\ UNCHANGED <<user, events, queue, done, step, todo, cur, grip, slot, window, blind,
                 evaluation>>

\* POST /events: a search or a product view of a known user; no evaluation.
\* (t # chat keeps the bound MaxEvents; the order of the two commits is free.)
TrackEvent ==
  /\ user = "known"
  /\ \E t \in Trigger :
       t # chat /\ events[t] < MaxEvents /\ events' = [events EXCEPT ![t] = @ + 1]
  /\ UNCHANGED <<user, chat, queue, done, step, todo, cur, grip, slot, window, blind,
                 evaluation, faults>>

(***************************************************************************)
(* evaluate_user_automation                                                *)
(***************************************************************************)
\* check_or_acquire: a completed key makes the message a no-op.
Skip ==
  /\ step = "idle" /\ queue > 0 /\ done > 0
  /\ queue' = queue - 1
  /\ UNCHANGED <<requests, done, step, todo, cur, grip, slot, window, blind, evaluation, faults>>

Start ==
  /\ step = "idle" /\ queue > 0 /\ done = 0
  /\ queue' = queue - 1
  /\ step' = "load"
  /\ acts' = 0 /\ excuses' = 0
  /\ UNCHANGED <<requests, done, todo, cur, grip, slot, window, blind, faults>>

\* An unknown user returns at once; else the 20 most recent events are ranked:
\* those behind a ripe trigger may have slid out of that window.
Load ==
  /\ step = "load"
  /\ \/ user = "absent" /\ step' = "mark" /\ todo' = {}
     \/ user = "known" /\ step' = "consider" /\ todo' \in SUBSET Ripe
  /\ UNCHANGED <<requests, queue, done, cur, grip, slot, window, blind, evaluation, faults>>

\* try_acquire_trigger_slot: SET NX EX ...
Reserve ==
  /\ step = "consider"
  /\ \E t \in todo :
       /\ slot[t] = 0
       /\ todo' = todo \ {t} /\ cur' = t /\ slot' = [slot EXCEPT ![t] = SlotTTL]
  /\ step' = "decide"
  /\ grip' = "own"
  /\ UNCHANGED <<requests, queue, done, window, blind, evaluation, faults>>

\* ... a slot that is taken: dedupe_skip_repeat_trigger ...
PassOver ==
  /\ step = "consider"
  /\ \E t \in todo : slot[t] > 0 /\ todo' = todo \ {t}
  /\ UNCHANGED <<requests, queue, done, step, cur, grip, slot, window, blind, evaluation, faults>>

\* ... and the call fails: proceed as if it had been acquired.  The SET may
\* have been applied all the same.
ReserveBlindly ==
  /\ step = "consider"
  /\ Fault("redis_error")
  /\ \E t \in todo :
       /\ todo' = todo \ {t} /\ cur' = t
       /\ \/ UNCHANGED slot
          \/ slot[t] = 0 /\ slot' = [slot EXCEPT ![t] = SlotTTL]
       /\ blind' = [blind EXCEPT ![t] = @ + 1]
  /\ step' = "decide"
  /\ grip' = "open"
  /\ UNCHANGED <<requests, queue, done, window, evaluation>>

\* exit_no_triggers, exit_all_candidates_exhausted
Exhausted ==
  /\ step = "consider" /\ todo = {}
  /\ step' = "commit"
  /\ UNCHANGED <<requests, queue, done, todo, cur, grip, slot, window, blind, evaluation, faults>>

\* decide_action and execute_action: the WhatsApp message is enqueued (a
\* category), or the web recommendation counts as done (a product): return.
Act ==
  /\ step = "decide"
  /\ Acted
  /\ step' = "commit"
  /\ todo' = {} /\ cur' = NoTrigger /\ grip' = "own"
  /\ UNCHANGED <<requests, queue, done, slot, blind, excuses, faults>>

\* no_action, no phone, no products, or the enqueue fails.
Decline ==
  /\ step = "decide"
  /\ cur \in Category
  /\ step' = "release"
  /\ UNCHANGED <<requests, queue, done, todo, cur, grip, slot, window, blind, evaluation, faults>>

\* The enqueue raises although the broker took the message: "Failed to enqueue".
ActUnnoticed ==
  /\ step = "decide"
  /\ cur \in Category
  /\ Fault("late_error")
  /\ Acted
  /\ excuses' = excuses + 1
  /\ blind' = [blind EXCEPT ![cur] = @ + 1]
  /\ step' = "release"
  /\ UNCHANGED <<requests, queue, done, todo, cur, grip, slot>>

\* Products, preferences or the user cannot be read.
Raises ==
  /\ step = "decide"
  /\ Fault("work_error")
  /\ step' = "raise"
  /\ UNCHANGED <<requests, queue, done, todo, cur, grip, slot, window, blind, evaluation>>

\* After the release: the next trigger, or the exception goes up to the task.
Released ==
  IF step = "release" THEN NextTrigger /\ UNCHANGED <<todo, excuses>>
  ELSE /\ step' = "again"
       /\ todo' = {} /\ cur' = NoTrigger /\ grip' = "own"
       /\ excuses' = excuses + 1

\* release_trigger_slot: DEL, whoever holds the slot.
Release ==
  /\ step \in {"release", "raise"}
  /\ slot' = [slot EXCEPT ![cur] = 0]
  /\ leaked' = leaked \ {cur}
  /\ Released
  /\ UNCHANGED <<requests, queue, done, recent, repeats, blind, acts, faults>>

\* automation_dedup_release_failed is logged; the slot lives on.
ReleaseFails ==
  /\ step \in {"release", "raise"}
  /\ Fault("redis_error")
  /\ Released
  /\ LeaveSlot
  /\ UNCHANGED <<requests, queue, done, slot, blind, acts>>

Commit ==
  /\ step = "commit"
  /\ step' = "mark"
  /\ UNCHANGED <<requests, queue, done, todo, cur, grip, slot, window, blind, evaluation, faults>>

\* session.commit raises after the loop: nothing releases the slot.
CommitRaises ==
  /\ step = "commit"
  /\ Fault("commit_error")
  /\ step' = "again"
  /\ excuses' = excuses + 1
  /\ UNCHANGED <<requests, queue, done, todo, cur, grip, slot, window, blind, acts>>

\* mark_completed
Mark ==
  /\ step = "mark"
  /\ done' = DoneTTL
  /\ step' = "idle"
  /\ UNCHANGED <<requests, queue, todo, cur, grip, slot, window, blind, evaluation, faults>>

MarkFails ==
  /\ step = "mark"
  /\ Fault("redis_error")
  /\ step' = "idle"
  /\ UNCHANGED <<requests, queue, done, todo, cur, grip, slot, window, blind, evaluation>>

\* The worker dies: the message comes back, the slot stays.
Crash ==
  /\ step \in Attempt
  /\ Fault("child_lost")
  /\ step' = "again"
  /\ todo' = {} /\ cur' = NoTrigger /\ grip' = "own"
  /\ excuses' = excuses + 1
  /\ LeaveSlot
  /\ UNCHANGED <<requests, queue, done, slot, blind, acts>>

\* The retry of a failed attempt, or the end of its retries.
Rerun ==
  /\ step = "again"
  /\ step' = "load"
  /\ UNCHANGED <<requests, queue, done, todo, cur, grip, slot, window, blind, evaluation, faults>>

GiveUp ==
  /\ step = "again"
  /\ step' = "idle"
  /\ UNCHANGED <<requests, queue, done, todo, cur, grip, slot, window, blind, evaluation, faults>>

\* A day passes; keys in Redis expire.
Tick ==
  /\ step = "idle"
  /\ done > 0 \/ \E t \in Trigger : slot[t] > 0 \/ recent[t] > 0
  /\ done' = DayLess(done)
  /\ slot' = [t \in Trigger |-> DayLess(slot[t])]
  /\ recent' = [t \in Trigger |-> DayLess(recent[t])]
  /\ leaked' = {t \in leaked : slot[t] > 1}
  /\ UNCHANGED <<requests, queue, step, todo, cur, grip, repeats, blind, evaluation, faults>>

Next ==
  \/ ChatSearch \/ CommitChat \/ RollbackChat \/ TrackEvent
  \/ Skip \/ Start \/ Load \/ Reserve \/ PassOver \/ ReserveBlindly \/ Exhausted
  \/ Act \/ Decline \/ ActUnnoticed \/ Raises \/ Release \/ ReleaseFails
  \/ Commit \/ CommitRaises \/ Mark \/ MarkFails \/ Crash \/ Rerun \/ GiveUp
  \/ Tick

Spec == Init /\ [][Next]_vars

(***************************************************************************)
(* Properties                                                              *)
(***************************************************************************)
TypeOK ==
  /\ user \in {"absent", "known"}
  /\ events \in [Trigger -> 0 .. MaxEvents]
  /\ chat \in Category \cup {NoTrigger}
  /\ chat # NoTrigger => events[chat] < MaxEvents
  /\ queue \in 0 .. MaxQueue
  /\ done \in 0 .. DoneTTL
  /\ step \in Attempt \cup {"idle", "again"}
  /\ todo \subseteq Trigger
  /\ cur \in Trigger \cup {NoTrigger}
  /\ cur # NoTrigger <=> step \in {"decide", "release", "raise"}
  /\ grip \in {"own", "open"}
  /\ slot \in [Trigger -> 0 .. SlotTTL]
  /\ recent \in [Trigger -> 0 .. SlotTTL]
  /\ repeats \in [Trigger -> Nat]
  /\ leaked \subseteq Trigger
  /\ blind \in [Trigger -> Nat]
  /\ acts \in Nat /\ excuses \in Nat
  /\ faults \in 0 .. MaxFaults

\* "so the same automation trigger does not fire repeatedly" (dedup.py): inside
\* the slot's lifetime a trigger acts again only because Redis did not answer or
\* the broker's answer was lost, at most twice for each time; crashes, retries,
\* failing commits and releases never cause it.
RepeatsBounded == \A t \in Trigger : repeats[t] <= 2 * blind[t]

\* A slot that no attempt is working on stands for an action: every path that
\* did not act gave it back, unless a crash or a failed DEL left it behind.
SlotMeansActed ==
  \A t \in Trigger \ leaked : slot[t] > 0 /\ cur # t => recent[t] >= slot[t]

\* One evaluation acts once, plus once for every attempt that was cut short or
\* was told its action had failed.
OneAction == acts <= 1 + excuses

\* Why repetitions stay bounded: a slot that outlives the time in which an
\* action would be a repetition protects the trigger; where it does not, or
\* while the slot is in hand, a misjudgement has already paid for the next one.
RepeatAccount ==
  \A t \in Trigger :
    /\ repeats[t] <= 2 * blind[t]
    /\ cur # t /\ recent[t] > slot[t] => repeats[t] + 1 <= 2 * blind[t]
    /\ cur = t /\ recent[t] > 0 => repeats[t] + 1 <= 2 * blind[t]
    /\ cur = t /\ step = "decide" /\ grip = "own" => slot[t] = SlotTTL
    /\ cur = t /\ step = "decide" /\ grip = "open" => repeats[t] + 2 <= 2 * blind[t]

\* Why an evaluation acts once: whoever is still to act has not acted, or was
\* excused for it.
ActAccount ==
  /\ OneAction
  /\ step \in {"load", "consider", "decide", "release", "raise", "again"} => acts <= excuses

\* "mark completed after success so duplicates no-op" (task_idempotency.py): an
\* evaluation that is skipped as a duplicate had nothing left to evaluate.
OnlyDuplicatesSkipped == [][Skip => \A t \in Ripe : slot[t] > 0]_vars
=============================================================================
