------------------------- MODULE AgentTransactions -------------------------
(***************************************************************************)
(* The agent requests of one store as PostgreSQL runs them: each request   *)
(* is a transaction at READ COMMITTED (get_db commits after the handler),  *)
(* each statement sees what is committed when it starts plus the           *)
(* transaction's own writes, and an UPDATE waits for a row another         *)
(* transaction wrote and then tests its WHERE clause again.                *)
(***************************************************************************)
EXTENDS Naturals, FiniteSets

CONSTANTS
  Agent, \* BOUND: agent rows the store may have
  Type,  \* channel types
  Chat,  \* the type of onboarding and of PATCH /agents/chat
  None,  \* no row, no written version
  Txn    \* requests and tasks that may run at the same time

VARIABLES
  type, active, \* the committed rows
  pend,         \* pend[t][a]: version of row a that t wrote, which locks it
  req,          \* the request t serves, with the agent object of its session
  todo,         \* rows the UPDATE statement of t has still to visit
  overlapped    \* history: two transactions were open at the same time

rows == <<type, active>>
vars == <<rows, pend, req, todo, overlapped>>

Row == [type : Type, active : BOOLEAN]

ASSUME TransactionConstants == Chat \in Type /\ None \notin Type \cup Row \cup Agent

Step == {"idle", "flush", "clear", "insert", "siblings", "visit", "commit"}
Request ==
  [step : Step, id : Agent \cup {None}, type : Type \cup {None},
   active : BOOLEAN, sets : SUBSET {"type", "active"}]
NoRequest ==
  [step |-> "idle", id |-> None, type |-> None, active |-> FALSE, sets |-> {}]

Unlocked(t, a) == \A u \in Txn \ {t} : pend[u][a] = None

\* Row a as a statement of t sees it.
View(t, a) ==
  IF pend[t][a] # None THEN pend[t][a] ELSE [type |-> type[a], active |-> active[a]]

\* An id no committed or pending row has (ids are random UUIDs).
Fresh(a) == type[a] = None /\ \A t \in Txn : pend[t][a] = None

Matching(t, ty) == {a \in Agent : View(t, a).type = ty /\ View(t, a).active}

Goto(t, step) == req' = [req EXCEPT ![t].step = step]
AfterWrite(act) == IF act THEN "siblings" ELSE "commit"

Begin(t, step, a, ty, act, sets) ==
  /\ req[t].step = "idle"
  /\ req' = [req EXCEPT ![t] = [step |-> step, id |-> a, type |-> ty,
                                active |-> act, sets |-> sets]]
  /\ overlapped' = (overlapped \/ \E u \in Txn \ {t} : req[u].step # "idle")

(***************************************************************************)
(* Faulty variants                                                         *)
(***************************************************************************)
\* the flush writes every column of the session's object back
FlushAllColumns(t) ==
  /\ req[t].step = "flush"
  /\ LET a == req[t].id IN
       /\ Unlocked(t, a)
       /\ pend' = [pend EXCEPT ![t][a] = [type |-> req[t].type, active |-> req[t].active]]
  /\ Goto(t, AfterWrite(req[t].active))
  /\ UNCHANGED <<rows, todo, overlapped>>

\* the sibling rows are the inactive ones
SelectInactive(t) ==
  /\ req[t].step = "siblings"
  /\ todo' = [todo EXCEPT ![t] = {a \in Agent : View(t, a).type = req[t].type
                                              /\ ~View(t, a).active} \ {req[t].id}]
  /\ Goto(t, "visit")
  /\ UNCHANGED <<rows, pend, overlapped>>

\* keep_agent_id is left out of the WHERE clause
SelectWithKeeper(t) ==
  /\ req[t].step = "siblings"
  /\ todo' = [todo EXCEPT ![t] = Matching(t, req[t].type)]
  /\ Goto(t, "visit")
  /\ UNCHANGED <<rows, pend, overlapped>>

\* the INSERT is not flushed: the object still has no id when its siblings go
InsertUnflushed(t) ==
  /\ \/ req[t].step = "insert"
     \/ req[t].step = "clear" /\ todo[t] = {}
  /\ \E a \in Agent :
       /\ Fresh(a)
       /\ pend' = [pend EXCEPT ![t][a] = [type |-> Chat, active |-> TRUE]]
       /\ Goto(t, "siblings")
  /\ UNCHANGED <<rows, todo, overlapped>>

Init ==
  /\ type = [a \in Agent |-> None]
  /\ active = [a \in Agent |-> FALSE]
  /\ pend = [t \in Txn |-> [a \in Agent |-> None]]
  /\ req = [t \in Txn |-> NoRequest]
  /\ todo = [t \in Txn |-> {}]
  /\ overlapped = FALSE

(***************************************************************************)
(* The first statement of each request                                     *)
(***************************************************************************)
\* create_agent: INSERT, then the siblings if the agent is to be active.
CreateAgent(t) ==
  \E a \in Agent, ty \in Type, act \in BOOLEAN :
    /\ Fresh(a)
    /\ Begin(t, AfterWrite(act), a, ty, act, {"type", "active"})
    /\ pend' = [pend EXCEPT ![t][a] = [type |-> ty, active |-> act]]
    /\ UNCHANGED <<rows, todo>>

\* patch_chat_agent_config: get_by_type(chat) reads an active chat agent to
\* edit, or finds none and builds the prompt of a new one first.
PatchChat(t) ==
  /\ \/ /\ Matching(t, Chat) = {}
        /\ Begin(t, "insert", None, Chat, TRUE, {"type", "active"})
     \/ \E a \in Matching(t, Chat) : Begin(t, "flush", a, Chat, TRUE, {})
  /\ UNCHANGED <<rows, pend, todo>>

\* update_agent: loads the row; only fields that differ from it are written.
UpdateAgent(t) ==
  \E a \in Agent, ty \in Type, act \in BOOLEAN :
    /\ type[a] # None
    /\ Begin(t, "flush", a, ty, act,
             (IF ty # type[a] THEN {"type"} ELSE {})
               \cup (IF act # active[a] THEN {"active"} ELSE {}))
    /\ UNCHANGED <<rows, pend, todo>>

\* deactivate_agent: is_active = False, no sibling is touched.
DeactivateAgent(t) ==
  \E a \in Agent :
    /\ type[a] # None
    /\ Begin(t, "flush", a, type[a], FALSE, IF active[a] THEN {"active"} ELSE {})
    /\ UNCHANGED <<rows, pend, todo>>

\* _complete_onboarding_async: UPDATE all chat agents of the store, active or not.
OnboardAgent(t) ==
  /\ Begin(t, "clear", None, Chat, TRUE, {"type", "active"})
  /\ todo' = [todo EXCEPT ![t] = {a \in Agent : View(t, a).type = Chat}]
  /\ UNCHANGED <<rows, pend>>

(***************************************************************************)
(* The statements that follow                                              *)
(***************************************************************************)
\* session.flush: an UPDATE of the changed columns by primary key; none when
\* the request changed nothing.  Other columns may have changed as well.
Flush(t) ==
  /\ req[t].step = "flush"
  /\ LET a == req[t].id
         written == [type |-> IF "type" \in req[t].sets THEN req[t].type ELSE type[a],
                     active |-> IF "active" \in req[t].sets THEN req[t].active
                                                            ELSE active[a]]
     IN  \/ /\ Unlocked(t, a)
            /\ pend' = [pend EXCEPT ![t][a] = written]
         \/ req[t].sets = {} /\ UNCHANGED pend
  /\ Goto(t, AfterWrite(req[t].active))
  /\ UNCHANGED <<rows, todo, overlapped>>

\* The INSERT of a new chat agent.
InsertChat(t) ==
  /\ \/ req[t].step = "insert"
     \/ req[t].step = "clear" /\ todo[t] = {}
  /\ \E a \in Agent :
       /\ Fresh(a)
       /\ pend' = [pend EXCEPT ![t][a] = [type |-> Chat, active |-> TRUE]]
       /\ req' = [req EXCEPT ![t].step = "siblings", ![t].id = a]
  /\ UNCHANGED <<rows, todo, overlapped>>

\* deactivate_others_same_type: the statement's snapshot picks its rows ...
SelectSiblings(t) ==
  /\ req[t].step = "siblings"
  /\ todo' = [todo EXCEPT ![t] = Matching(t, req[t].type) \ {req[t].id}]
  /\ Goto(t, "visit")
  /\ UNCHANGED <<rows, pend, overlapped>>

\* ... and it visits one after the other: wait for the row's lock, test the
\* WHERE clause on its newest version, write.
Visit(t) ==
  /\ req[t].step \in {"clear", "visit"}
  /\ \E a \in todo[t] :
       /\ Unlocked(t, a)
       /\ todo' = [todo EXCEPT ![t] = @ \ {a}]
       /\ IF /\ View(t, a).type = req[t].type
             /\ View(t, a).active \/ req[t].step = "clear"
            THEN pend' = [pend EXCEPT ![t][a] = [type |-> req[t].type, active |-> FALSE]]
            ELSE UNCHANGED pend
  /\ UNCHANGED <<rows, req, overlapped>>

End(t) ==
  /\ pend' = [pend EXCEPT ![t] = [a \in Agent |-> None]]
  /\ req' = [req EXCEPT ![t] = NoRequest]
  /\ todo' = [todo EXCEPT ![t] = {}]
  /\ UNCHANGED overlapped

\* The handler returned: get_db (or the task) commits.
Commit(t) ==
  /\ \/ req[t].step = "commit"
     \/ req[t].step = "visit" /\ todo[t] = {}
  /\ type' = [a \in Agent |-> View(t, a).type]
  /\ active' = [a \in Agent |-> View(t, a).active]
  /\ End(t)

\* An error, a lost connection or the victim of a deadlock: session.rollback.
Rollback(t) ==
  /\ req[t].step # "idle"
  /\ End(t)
  /\ UNCHANGED rows

Next ==
  \E t \in Txn :
    \/ CreateAgent(t) \/ PatchChat(t) \/ UpdateAgent(t) \/ DeactivateAgent(t)
    \/ OnboardAgent(t)
    \/ Flush(t) \/ InsertChat(t) \/ SelectSiblings(t) \/ Visit(t)
    \/ Commit(t) \/ Rollback(t)

Spec == Init /\ [][Next]_vars

(***************************************************************************)
(* Properties                                                              *)
(***************************************************************************)
\* The committed rows and what the transactions wrote.
RowsOK ==
  /\ type \in [Agent -> Type \cup {None}]
  /\ active \in [Agent -> BOOLEAN]
  /\ pend \in [Txn -> [Agent -> Row \cup {None}]]
  /\ todo \in [Txn -> SUBSET Agent]
  /\ \A a \in Agent : active[a] => type[a] # None

\* Each request has a type, and an agent once it has found or inserted one.
RequestsOK ==
  /\ req \in [Txn -> Request]
  /\ overlapped \in BOOLEAN
  /\ \A t \in Txn : req[t].id = None <=> req[t].step \in {"idle", "clear", "insert"}
  /\ \A t \in Txn : req[t].type = None <=> req[t].step = "idle"

\* Who serves nothing has written nothing; a flush is of a row that exists.
WritesOK ==
  \A t \in Txn :
    /\ req[t].step = "idle" => \A a \in Agent : pend[t][a] = None
    /\ req[t].step = "flush" => type[req[t].id] # None

TypeOK == RowsOK /\ RequestsOK /\ WritesOK

\* The request of t asked for agent a to be switched on; it was off or new.
Activates(t, a) == req[t].id = a /\ req[t].active /\ "active" \in req[t].sets

\* A stale session never switches an agent back on: only a request that sets
\* is_active on that agent does (deactivations are not lost to a rename).
NoResurrection ==
  [][\A a \in Agent :
       type[a] # None /\ ~active[a] /\ active'[a] => \E t \in Txn : Activates(t, a)]_vars

\* The other way round: a request that asked for its agent to be switched on
\* commits it switched on, whoever cleaned up meanwhile (an inactive agent
\* would answer nobody although the owner was told it is active).
ActivationHolds ==
  [][\A t \in Txn, a \in Agent : Commit(t) /\ Activates(t, a) => active'[a]]_vars

\* As long as requests run one at a time, in any order and with any failures,
\* what they commit, statement by statement, are the atomic commands of
\* AgentCommands, which keep at most one agent of a type active.
Commands == INSTANCE AgentCommands
SerialCommands == Commands!Init /\ [][overlapped' \/ Commands!Next]_rows
=============================================================================
