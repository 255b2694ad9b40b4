--------------------------- MODULE AgentCommands ---------------------------
(***************************************************************************)
(* The agents of one store, one request at a time: what the management API *)
(* and the onboarding task mean to do.  AgentTransactions is the same      *)
(* requests statement by statement under READ COMMITTED.                   *)
(***************************************************************************)
CONSTANTS
  Agent, \* BOUND: agent rows a store may have
  Type,  \* channel types: chat, whatsapp, call
  Chat,  \* the type of onboarding and of PATCH /agents/chat
  None   \* the type of a row that does not exist

VARIABLES
  type,   \* of a row, None before its INSERT
  active  \* is_active

vars == <<type, active>>

Init ==
  /\ type = [a \in Agent |-> None]
  /\ active = [a \in Agent |-> FALSE]

ActiveOf(ty) == {a \in Agent : type[a] = ty /\ active[a]}

\* Row a gets type ty and flag act; active siblings of a switched-on row go off.
Put(a, ty, act) ==
  /\ type' = [type EXCEPT ![a] = ty]
  /\ active' = [b \in Agent |->
                  IF b = a THEN act
                  ELSE IF act /\ type[b] = ty THEN FALSE
                  ELSE active[b]]

\* POST /agents
CreateAgent ==
  \E a \in Agent, ty \in Type, act \in BOOLEAN : type[a] = None /\ Put(a, ty, act)

\* PATCH /agents/chat: edits the active chat agent, or makes one.
PatchChat ==
  \/ ActiveOf(Chat) = {} /\ \E a \in Agent : type[a] = None /\ Put(a, Chat, TRUE)
  \/ \E a \in ActiveOf(Chat) : Put(a, Chat, TRUE)

\* PATCH /agents/{id}: type and is_active are optional fields.
UpdateAgent ==
  \E a \in Agent, ty \in Type, act \in BOOLEAN : type[a] # None /\ Put(a, ty, act)

\* DELETE /agents/{id}
DeactivateAgent ==
  \E a \in Agent : type[a] # None /\ Put(a, type[a], FALSE)

\* complete_store_onboarding: a fresh chat agent replaces all others.
OnboardAgent ==
  \E a \in Agent : type[a] = None /\ Put(a, Chat, TRUE)

Next ==
  CreateAgent \/ PatchChat \/ UpdateAgent \/ DeactivateAgent \/ OnboardAgent

Spec == Init /\ [][Next]_vars

\* agent_management_service.py: "at most one active agent per (store_id, type)".
AtMostOneActive == \A ty \in Type : \A a, b \in ActiveOf(ty) : a = b
=============================================================================
