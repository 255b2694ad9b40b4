---------------------- MODULE AutomationPipeline_proofs ----------------------
(***************************************************************************)
(* Theorems about AutomationPipeline for any triggers, thresholds, TTLs    *)
(* and numbers of faults.                                                  *)
(***************************************************************************)
EXTENDS AutomationPipeline, TLAPS

(* Type correctness: in particular a trigger is in hand exactly between the *)
(* reservation of its slot and the end of its turn. *)
THEOREM TypeCorrect == Spec => []TypeOK
<1> USE AutomationConstants DEF TypeOK
<1>1. Init => TypeOK
  BY DEF Init, Trigger
<1>2. ASSUME TypeOK, [Next]_vars
      PROVE  TypeOK'
  <2> USE <1>2 DEF Attempt, Trigger
  <2>1. CASE ChatSearch
    BY <2>1 DEF ChatSearch, Fault, May, evaluation, window
  <2>2. CASE CommitChat
    BY <2>2 DEF CommitChat, evaluation, window
  <2>3. CASE RollbackChat
    BY <2>3 DEF RollbackChat, Fault, May, evaluation, window
  <2>4. CASE TrackEvent
    BY <2>4 DEF TrackEvent, evaluation, window
  <2>5. CASE Skip
    BY <2>5 DEF Skip, requests, evaluation, window
  <2>6. CASE Start
    BY <2>6 DEF Start, requests, window
  <2>7. CASE Load
    BY <2>7 DEF Load, Ripe, requests, evaluation, window
  <2>8. CASE Reserve
    BY <2>8 DEF Reserve, requests, evaluation, window
  <2>9. CASE PassOver
    BY <2>9 DEF PassOver, requests, evaluation, window
  <2>10. CASE ReserveBlindly
    BY <2>10 DEF ReserveBlindly, Fault, May, requests, evaluation, window
  <2>11. CASE Exhausted
    BY <2>11 DEF Exhausted, requests, evaluation, window
  <2>12. CASE Act
    BY <2>12 DEF Act, Acted, requests
  <2>13. CASE Decline
    BY <2>13 DEF Decline, requests, evaluation, window
  <2>14. CASE ActUnnoticed
    BY <2>14 DEF ActUnnoticed, Fault, May, Acted, requests
  <2>15. CASE Raises
    BY <2>15 DEF Raises, Fault, May, requests, evaluation, window
  <2>16. CASE Release
    BY <2>16 DEF Release, Released, NextTrigger, requests
  <2>17. CASE ReleaseFails
    BY <2>17 DEF ReleaseFails, LeaveSlot, Fault, May, Released, NextTrigger, requests
  <2>18. CASE Commit
    BY <2>18 DEF Commit, requests, evaluation, window
  <2>19. CASE CommitRaises
    BY <2>19 DEF CommitRaises, Fault, May, requests, window
  <2>20. CASE Mark
    BY <2>20 DEF Mark, requests, evaluation, window
  <2>21. CASE MarkFails
    BY <2>21 DEF MarkFails, Fault, May, requests, evaluation, window
  <2>22. CASE Crash
    BY <2>22 DEF Crash, LeaveSlot, Fault, May, Attempt, requests
  <2>23. CASE Rerun
    BY <2>23 DEF Rerun, requests, evaluation, window
  <2>24. CASE GiveUp
    BY <2>24 DEF GiveUp, requests, evaluation, window
  <2>25. CASE Tick
    BY <2>25 DEF Tick, DayLess, requests, evaluation
  <2>26. CASE UNCHANGED vars
    BY <2>26 DEF vars, requests, evaluation, window
  <2> QED
    BY <2>1, <2>2, <2>3, <2>4, <2>5, <2>6, <2>7, <2>8, <2>9, <2>10, <2>11, <2>12,
       <2>13, <2>14, <2>15, <2>16, <2>17, <2>18, <2>19, <2>20, <2>21, <2>22, <2>23,
       <2>24, <2>25, <2>26 DEF Next
<1> QED
  BY <1>1, <1>2, PTL DEF Spec

(* A trigger repeats inside its slot's lifetime at most twice for each time *)
(* Redis did not answer or the broker's answer was lost. *)
THEOREM FewRepeats == Spec => []RepeatsBounded
<1> USE AutomationConstants DEF RepeatAccount
<1>1. Init => RepeatAccount
  BY DEF Init
<1>2. ASSUME TypeOK, RepeatAccount, [Next]_vars
      PROVE  RepeatAccount'
  <2> USE <1>2 DEF TypeOK
  <2>1. CASE ChatSearch
    BY <2>1 DEF ChatSearch, Fault, May, evaluation, window
  <2>2. CASE CommitChat
    BY <2>2 DEF CommitChat, evaluation, window
  <2>3. CASE RollbackChat
    BY <2>3 DEF RollbackChat, Fault, May, evaluation, window
  <2>4. CASE TrackEvent
    BY <2>4 DEF TrackEvent, evaluation, window
  <2>5. CASE Skip
    BY <2>5 DEF Skip, requests, evaluation, window
  <2>6. CASE Start
    BY <2>6 DEF Start, requests, window
  <2>7. CASE Load
    BY <2>7 DEF Load, Ripe, requests, evaluation, window
  <2>8. CASE Reserve
    BY <2>8 DEF Reserve, requests, evaluation, window
  <2>9. CASE PassOver
    BY <2>9 DEF PassOver, requests, evaluation, window
  <2>10. CASE ReserveBlindly
    BY <2>10 DEF ReserveBlindly, Fault, May, requests, evaluation, window
  <2>11. CASE Exhausted
    BY <2>11 DEF Exhausted, requests, evaluation, window
  <2>12. CASE Act
    BY <2>12 DEF Act, Acted, requests
  <2>13. CASE Decline
    BY <2>13 DEF Decline, requests, evaluation, window
  <2>14. CASE ActUnnoticed
    BY <2>14 DEF ActUnnoticed, Fault, May, Acted, requests
  <2>15. CASE Raises
    BY <2>15 DEF Raises, Fault, May, requests, evaluation, window
  <2>16. CASE Release
    BY <2>16 DEF Release, Released, NextTrigger, requests
  <2>17. CASE ReleaseFails
    BY <2>17 DEF ReleaseFails, LeaveSlot, Fault, May, Released, NextTrigger, requests
  <2>18. CASE Commit
    BY <2>18 DEF Commit, requests, evaluation, window
  <2>19. CASE CommitRaises
    BY <2>19 DEF CommitRaises, Fault, May, requests, window
  <2>20. CASE Mark
    BY <2>20 DEF Mark, requests, evaluation, window
  <2>21. CASE MarkFails
    BY <2>21 DEF MarkFails, Fault, May, requests, evaluation, window
  <2>22. CASE Crash
    BY <2>22 DEF Crash, LeaveSlot, Fault, May, Attempt, requests
  <2>23. CASE Rerun
    BY <2>23 DEF Rerun, requests, evaluation, window
  <2>24. CASE GiveUp
    BY <2>24 DEF GiveUp, requests, evaluation, window
  <2>25. CASE Tick
    BY <2>25 DEF Tick, DayLess, requests, evaluation
  <2>26. CASE UNCHANGED vars
    BY <2>26 DEF vars, requests, evaluation, window
  <2> QED
    BY <2>1, <2>2, <2>3, <2>4, <2>5, <2>6, <2>7, <2>8, <2>9, <2>10, <2>11, <2>12,
       <2>13, <2>14, <2>15, <2>16, <2>17, <2>18, <2>19, <2>20, <2>21, <2>22, <2>23,
       <2>24, <2>25, <2>26 DEF Next
<1>3. RepeatAccount => RepeatsBounded
  BY DEF RepeatsBounded
<1> QED
  BY <1>1, <1>2, <1>3, TypeCorrect, PTL DEF Spec

(* An evaluation acts once, plus once for every attempt that was cut short. *)
THEOREM SingleAction == Spec => []OneAction
<1> USE DEF ActAccount, OneAction
<1>1. Init => ActAccount
  BY DEF Init
<1>2. ASSUME TypeOK, ActAccount, [Next]_vars
      PROVE  ActAccount'
  <2> USE <1>2 DEF TypeOK
  <2>1. CASE ChatSearch
    BY <2>1 DEF ChatSearch, Fault, May, evaluation, window
  <2>2. CASE CommitChat
    BY <2>2 DEF CommitChat, evaluation, window
  <2>3. CASE RollbackChat
    BY <2>3 DEF RollbackChat, Fault, May, evaluation, window
  <2>4. CASE TrackEvent
    BY <2>4 DEF TrackEvent, evaluation, window
  <2>5. CASE Skip
    BY <2>5 DEF Skip, requests, evaluation, window
  <2>6. CASE Start
    BY <2>6 DEF Start, requests, window
  <2>7. CASE Load
    BY <2>7 DEF Load, Ripe, requests, evaluation, window
  <2>8. CASE Reserve
    BY <2>8 DEF Reserve, requests, evaluation, window
  <2>9. CASE PassOver
    BY <2>9 DEF PassOver, requests, evaluation, window
  <2>10. CASE ReserveBlindly
    BY <2>10 DEF ReserveBlindly, Fault, May, requests, evaluation, window
  <2>11. CASE Exhausted
    BY <2>11 DEF Exhausted, requests, evaluation, window
  <2>12. CASE Act
    BY <2>12 DEF Act, Acted, requests
  <2>13. CASE Decline
    BY <2>13 DEF Decline, requests, evaluation, window
  <2>14. CASE ActUnnoticed
    BY <2>14 DEF ActUnnoticed, Fault, May, Acted, requests
  <2>15. CASE Raises
    BY <2>15 DEF Raises, Fault, May, requests, evaluation, window
  <2>16. CASE Release
    BY <2>16 DEF Release, Released, NextTrigger, requests
  <2>17. CASE ReleaseFails
    BY <2>17 DEF ReleaseFails, LeaveSlot, Fault, May, Released, NextTrigger, requests
  <2>18. CASE Commit
    BY <2>18 DEF Commit, requests, evaluation, window
  <2>19. CASE CommitRaises
    BY <2>19 DEF CommitRaises, Fault, May, requests, window
  <2>20. CASE Mark
    BY <2>20 DEF Mark, requests, evaluation, window
  <2>21. CASE MarkFails
    BY <2>21 DEF MarkFails, Fault, May, requests, evaluation, window
  <2>22. CASE Crash
    BY <2>22 DEF Crash, LeaveSlot, Fault, May, Attempt, requests
  <2>23. CASE Rerun
    BY <2>23 DEF Rerun, requests, evaluation, window
  <2>24. CASE GiveUp
    BY <2>24 DEF GiveUp, requests, evaluation, window
  <2>25. CASE Tick
    BY <2>25 DEF Tick, DayLess, requests, evaluation
  <2>26. CASE UNCHANGED vars
    BY <2>26 DEF vars, requests, evaluation, window
  <2> QED
    BY <2>1, <2>2, <2>3, <2>4, <2>5, <2>6, <2>7, <2>8, <2>9, <2>10, <2>11, <2>12,
       <2>13, <2>14, <2>15, <2>16, <2>17, <2>18, <2>19, <2>20, <2>21, <2>22, <2>23,
       <2>24, <2>25, <2>26 DEF Next
<1> QED
  BY <1>1, <1>2, TypeCorrect, PTL DEF Spec

(* A slot nobody works on stands for an action, or was left behind by a crash *)
(* or a failed release.  Only the steps that touch a slot, the trigger in hand *)
(* or the history matter. *)
THEOREM SlotsActed == Spec => []SlotMeansActed
<1> USE AutomationConstants DEF SlotMeansActed
<1>1. Init => SlotMeansActed
  BY DEF Init
<1>2. ASSUME TypeOK, SlotMeansActed, [Next]_vars
      PROVE  SlotMeansActed'
  <2> USE <1>2 DEF TypeOK
  <2>1. CASE UNCHANGED <<slot, cur, window>>
    BY <2>1 DEF window
  <2>2. CASE Reserve \/ ReserveBlindly
    BY <2>2 DEF Reserve, ReserveBlindly, window
  <2>3. CASE Act \/ ActUnnoticed
    BY <2>3 DEF Act, ActUnnoticed, Acted
  <2>4. CASE Release
    BY <2>4 DEF Release, Released, NextTrigger
  <2>5. CASE ReleaseFails
    BY <2>5 DEF ReleaseFails, Released, NextTrigger, LeaveSlot
  <2>6. CASE Crash
    BY <2>6 DEF Crash, LeaveSlot
  <2>7. CASE Tick
    BY <2>7 DEF Tick, DayLess
  <2> QED
    BY <2>1, <2>2, <2>3, <2>4, <2>5, <2>6, <2>7 DEF Next, vars, ChatSearch, CommitChat,
       RollbackChat, TrackEvent, Skip, Start, Load, PassOver, Exhausted, Decline, Raises,
       Commit, CommitRaises, Mark, MarkFails, Rerun, GiveUp
<1> QED
  BY <1>1, <1>2, TypeCorrect, PTL DEF Spec
=============================================================================
