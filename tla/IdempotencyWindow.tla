------------------------- MODULE IdempotencyWindow -------------------------
(***************************************************************************)
(* What TaskIdempotency promises for one idempotency key, whatever broker, *)
(* worker and Redis do: at most one run at a time, no run while a dead     *)
(* run's lease lasts, completion only after an effect, and one effect per  *)
(* time the key was open.                                                  *)
(***************************************************************************)
EXTENDS Naturals

VARIABLES
  phase,    \* of the key
  effects,  \* effects so far
  reopened  \* times the key was opened for one more effect

vars == <<phase, effects, reopened>>

Phase == {"idle",      \* free to be worked on
          "running",   \* a run proceeds, its effect still ahead
          "effected",  \* its effect happened and is not recorded yet
          "orphaned",  \* leased, but its run is gone
          "done"}      \* inside the dedupe window
Active == {"running", "effected"}

Init == phase = "idle" /\ effects = 0 /\ reopened = 0

\* A run takes the lease; over a completed key only on a stale read.
Start ==
  /\ phase' = "running"
  /\ \/ phase = "idle" /\ UNCHANGED reopened
     \/ phase = "done" /\ reopened' = reopened + 1
  /\ UNCHANGED effects

Effect ==
  /\ phase = "running"
  /\ phase' = "effected"
  /\ effects' = effects + 1
  /\ UNCHANGED reopened

Complete ==
  /\ phase = "effected"
  /\ phase' = "done"
  /\ UNCHANGED <<effects, reopened>>

\* The attempt raised, perhaps after its effect; the run still has the lease.
Attempt ==
  /\ phase = "running"
  /\ UNCHANGED phase
  /\ effects' = effects + 1
  /\ reopened' = reopened + 1

\* The run ends unrecorded: released, orphaned, or over an older completion.
Abandon ==
  /\ phase' \in Phase \ Active
  /\ \/ phase = "running" /\ UNCHANGED reopened
     \/ phase = "effected" /\ reopened' = reopened + 1
  /\ UNCHANGED effects

\* A lease without a run: taken by a call that failed, or left when the
\* completed mark of an earlier run expired.
Orphan ==
  /\ phase \in {"idle", "done"}
  /\ phase' = "orphaned"
  /\ reopened' = IF phase = "done" THEN reopened + 1 ELSE reopened
  /\ UNCHANGED effects

\* A lease or the dedupe window runs out.
Expire ==
  /\ \/ phase = "orphaned" /\ phase' = "idle" /\ UNCHANGED reopened
     \/ phase = "done" /\ phase' = "idle" /\ reopened' = reopened + 1
     \/ phase \in Active /\ UNCHANGED phase /\ reopened' = reopened + 1
  /\ UNCHANGED effects

Next ==
  \/ Start \/ Effect \/ Complete \/ Attempt \/ Abandon \/ Orphan \/ Expire

Spec == Init /\ [][Next]_vars
=============================================================================
