---------------------- MODULE AgentTransactions_proofs ----------------------
(***************************************************************************)
(* Proofs about AgentTransactions, for any number of rows, types and       *)
(* concurrent requests.                                                    *)
(***************************************************************************)
EXTENDS AgentTransactions, TLAPS

\* What a statement of t sees of a row is well typed.
LEMMA ViewTyped ==
  ASSUME RowsOK, NEW t \in Txn, NEW a \in Agent
  PROVE  /\ View(t, a).type \in Type \cup {None}
         /\ View(t, a).active \in BOOLEAN
         /\ View(t, a).active => View(t, a).type # None
         /\ type[a] # None => View(t, a).type # None
  BY TransactionConstants DEF RowsOK, View, Row

\* A request that begins with an existing row, or with none to insert one later.
LEMMA BeginTyped ==
  ASSUME RequestsOK, NEW t \in Txn, NEW step \in Step \ {"idle"},
         NEW a \in Agent \cup {None}, NEW ty \in Type, NEW act \in BOOLEAN,
         NEW sets \in SUBSET {"type", "active"},
         a = None <=> step \in {"clear", "insert"},
         Begin(t, step, a, ty, act, sets)
  PROVE  /\ RequestsOK'
         /\ req[t].step = "idle"
         /\ req' = [req EXCEPT ![t] = [step |-> step, id |-> a, type |-> ty,
                                       active |-> act, sets |-> sets]]
<1> DEFINE new == [step |-> step, id |-> a, type |-> ty, active |-> act, sets |-> sets]
<1>1. new \in Request /\ new.step = step /\ new.id = a /\ new.type = ty
  BY DEF Request
<1>2. req' = [req EXCEPT ![t] = new] /\ overlapped' \in BOOLEAN
  BY DEF Begin
<1>3. ty # None /\ step # "idle"
  BY TransactionConstants
<1>4. RequestsOK'
  BY <1>1, <1>2, <1>3 DEF RequestsOK
<1> QED
  BY <1>4 DEF Begin

\* Going on to another statement keeps a request well typed.
LEMMA GotoTyped ==
  ASSUME RequestsOK, NEW t \in Txn, NEW step \in Step \ {"idle", "clear", "insert"},
         req[t].step \notin {"idle", "clear", "insert"},
         Goto(t, step), UNCHANGED overlapped
  PROVE  /\ RequestsOK'
         /\ \A u \in Txn : /\ req'[u].step = IF u = t THEN step ELSE req[u].step
                           /\ req'[u].id = req[u].id /\ req'[u].type = req[u].type
                           /\ req'[u].active = req[u].active /\ req'[u].sets = req[u].sets
<1>1. /\ req' \in [Txn -> Request]
      /\ \A u \in Txn : /\ req'[u].step = IF u = t THEN step ELSE req[u].step
                        /\ req'[u].id = req[u].id /\ req'[u].type = req[u].type
                        /\ req'[u].active = req[u].active /\ req'[u].sets = req[u].sets
  BY DEF RequestsOK, Goto, Request
<1> QED
  BY <1>1 DEF RequestsOK

\* The end of a transaction leaves no request and no pending row.
LEMMA EndTyped ==
  ASSUME TypeOK, NEW t \in Txn, End(t)
  PROVE  /\ RequestsOK'
         /\ pend' \in [Txn -> [Agent -> Row \cup {None}]]
         /\ todo' \in [Txn -> SUBSET Agent]
         /\ \A u \in Txn \ {t} : pend'[u] = pend[u] /\ req'[u] = req[u]
         /\ \A a \in Agent : pend'[t][a] = None
         /\ req'[t].step = "idle"
<1>1. /\ NoRequest \in Request /\ NoRequest.step = "idle"
      /\ NoRequest.id = None /\ NoRequest.type = None
  BY DEF NoRequest, Request, Step
<1>2. RequestsOK'
  BY <1>1 DEF TypeOK, RequestsOK, End
<1>3. /\ pend' \in [Txn -> [Agent -> Row \cup {None}]]
      /\ todo' \in [Txn -> SUBSET Agent]
      /\ \A u \in Txn \ {t} : pend'[u] = pend[u]
      /\ \A a \in Agent : pend'[t][a] = None
  BY DEF TypeOK, RowsOK, End
<1> QED
  BY <1>1, <1>2, <1>3 DEF TypeOK, RequestsOK, End

\* One pending version more.
LEMMA PendTyped ==
  ASSUME RowsOK, NEW t \in Txn, NEW a \in Agent, NEW r \in Row,
         pend' = [pend EXCEPT ![t][a] = r]
  PROVE  /\ pend' \in [Txn -> [Agent -> Row \cup {None}]]
         /\ \A u \in Txn, b \in Agent :
              pend'[u][b] = IF u = t /\ b = a THEN r ELSE pend[u][b]
         /\ \A u \in Txn \ {t} : pend'[u] = pend[u]
         /\ pend'[t][a] = r /\ r # None
  BY TransactionConstants DEF RowsOK

\* The rows are unchanged or the transaction that commits keeps them typed.
LEMMA CommitTyped ==
  ASSUME TypeOK, NEW t \in Txn, Commit(t)
  PROVE  TypeOK'
<1>1. End(t)
  BY DEF Commit
<1>2. /\ \A a \in Agent : type'[a] = View(t, a).type /\ active'[a] = View(t, a).active
      /\ type' \in [Agent -> Type \cup {None}]
      /\ active' \in [Agent -> BOOLEAN]
  BY ViewTyped DEF TypeOK, Commit
<1>3. RowsOK'
  BY <1>1, <1>2, EndTyped, ViewTyped DEF TypeOK, RowsOK
<1>4. \A a \in Agent : type[a] # None => type'[a] # None
  BY <1>2, ViewTyped DEF TypeOK
<1>5. WritesOK'
  <2> SUFFICES ASSUME NEW u \in Txn
               PROVE  /\ req'[u].step = "idle" => \A a \in Agent : pend'[u][a] = None
                      /\ req'[u].step = "flush" => type'[req'[u].id] # None
    BY DEF WritesOK
  <2>1. CASE u = t
    BY <1>1, <2>1, EndTyped
  <2>2. CASE u # t
    <3>1. pend'[u] = pend[u] /\ req'[u] = req[u]
      BY <1>1, <2>2, EndTyped
    <3>2. req[u].step = "flush" => req[u].id \in Agent
      BY DEF TypeOK, RequestsOK, Request
    <3> QED
      BY <1>4, <3>1, <3>2 DEF TypeOK, WritesOK
  <2> QED
    BY <2>1, <2>2
<1> QED
  BY <1>1, <1>3, <1>5, EndTyped DEF TypeOK

\* Steps that neither write nor commit: only todo may change.
LEMMA BeginStep ==
  ASSUME TypeOK, NEW t \in Txn, NEW step \in Step \ {"idle"},
         NEW a \in Agent \cup {None}, NEW ty \in Type, NEW act \in BOOLEAN,
         NEW sets \in SUBSET {"type", "active"},
         a = None <=> step \in {"clear", "insert"},
         step = "flush" => type[a] # None,
         Begin(t, step, a, ty, act, sets),
         UNCHANGED <<rows, pend>>, todo' \in [Txn -> SUBSET Agent]
  PROVE  TypeOK'
<1>1. /\ RequestsOK'
      /\ req' = [req EXCEPT ![t] = [step |-> step, id |-> a, type |-> ty,
                                    active |-> act, sets |-> sets]]
      /\ req[t].step = "idle"
  BY BeginTyped DEF TypeOK
<1>2. RowsOK'
  BY DEF TypeOK, RowsOK, rows
<1>3. WritesOK'
  BY <1>1 DEF TypeOK, WritesOK, RequestsOK, rows
<1> QED
  BY <1>1, <1>2, <1>3 DEF TypeOK

\* Types are kept by every step.
LEMMA TypeStep == TypeOK /\ [Next]_vars => TypeOK'
<1> SUFFICES ASSUME TypeOK, [Next]_vars PROVE TypeOK'
  OBVIOUS
<1>1. ASSUME NEW t \in Txn, CreateAgent(t) PROVE TypeOK'
  <2>1. PICK a \in Agent, ty \in Type, act \in BOOLEAN :
           /\ Begin(t, AfterWrite(act), a, ty, act, {"type", "active"})
           /\ pend' = [pend EXCEPT ![t][a] = [type |-> ty, active |-> act]]
           /\ UNCHANGED <<rows, todo>>
    BY <1>1 DEF CreateAgent
  <2>2. AfterWrite(act) \in Step \ {"idle", "clear", "insert", "flush"} /\ a # None
    BY TransactionConstants DEF AfterWrite, Step
  <2>3. /\ RequestsOK'
        /\ req' = [req EXCEPT ![t] = [step |-> AfterWrite(act), id |-> a, type |-> ty,
                                      active |-> act, sets |-> {"type", "active"}]]
    BY <2>1, <2>2, BeginTyped DEF TypeOK
  <2>4. [type |-> ty, active |-> act] \in Row
    BY DEF Row
  <2>5. /\ pend' \in [Txn -> [Agent -> Row \cup {None}]]
        /\ \A u \in Txn \ {t}, b \in Agent : pend'[u][b] = pend[u][b]
    BY <2>1, <2>4, PendTyped DEF TypeOK
  <2>6. RowsOK'
    BY <2>1, <2>5 DEF TypeOK, RowsOK, rows
  <2>7. WritesOK'
    BY <2>1, <2>2, <2>3, <2>5 DEF TypeOK, WritesOK, RequestsOK, rows
  <2> QED
    BY <2>3, <2>6, <2>7 DEF TypeOK
<1>2. ASSUME NEW t \in Txn, PatchChat(t) PROVE TypeOK'
  <2>0. todo' \in [Txn -> SUBSET Agent] /\ UNCHANGED <<rows, pend>>
    BY <1>2 DEF PatchChat, TypeOK, RowsOK
  <2>1. CASE Begin(t, "insert", None, Chat, TRUE, {"type", "active"})
    BY <2>0, <2>1, BeginStep, TransactionConstants DEF Step
  <2>2. CASE \E a \in Matching(t, Chat) : Begin(t, "flush", a, Chat, TRUE, {})
    <3>1. PICK a \in Matching(t, Chat) : Begin(t, "flush", a, Chat, TRUE, {})
      BY <2>2
    <3>2. a \in Agent /\ View(t, a).type = Chat /\ req[t].step = "idle"
      BY <3>1 DEF Matching, Begin
    <3>3. type[a] # None /\ a # None
      BY <3>2, TransactionConstants DEF TypeOK, WritesOK, View
    <3> QED
      BY <2>0, <3>1, <3>2, <3>3, BeginStep, TransactionConstants DEF Step
  <2> QED
    BY <1>2, <2>1, <2>2 DEF PatchChat
<1>3. ASSUME NEW t \in Txn, UpdateAgent(t) PROVE TypeOK'
  <2>0. todo' \in [Txn -> SUBSET Agent] /\ UNCHANGED <<rows, pend>>
    BY <1>3 DEF UpdateAgent, TypeOK, RowsOK
  <2>1. PICK a \in Agent, ty \in Type, act \in BOOLEAN :
           /\ type[a] # None
           /\ Begin(t, "flush", a, ty, act,
                    (IF ty # type[a] THEN {"type"} ELSE {})
                      \cup (IF act # active[a] THEN {"active"} ELSE {}))
    BY <1>3 DEF UpdateAgent
  <2> QED
    BY <2>0, <2>1, BeginStep, TransactionConstants DEF Step
<1>4. ASSUME NEW t \in Txn, DeactivateAgent(t) PROVE TypeOK'
  <2>0. todo' \in [Txn -> SUBSET Agent] /\ UNCHANGED <<rows, pend>>
    BY <1>4 DEF DeactivateAgent, TypeOK, RowsOK
  <2>1. PICK a \in Agent, sets \in SUBSET {"type", "active"} :
           type[a] # None /\ Begin(t, "flush", a, type[a], FALSE, sets)
    BY <1>4 DEF DeactivateAgent
  <2>2. type[a] \in Type
    BY <2>1 DEF TypeOK, RowsOK
  <2> QED
    BY <2>0, <2>1, <2>2, BeginStep, TransactionConstants DEF Step
<1>5. ASSUME NEW t \in Txn, OnboardAgent(t) PROVE TypeOK'
  <2>1. todo' \in [Txn -> SUBSET Agent] /\ UNCHANGED <<rows, pend>>
    BY <1>5 DEF OnboardAgent, TypeOK, RowsOK
  <2> QED
    BY <1>5, <2>1, BeginStep, TransactionConstants DEF OnboardAgent, Step
<1>6. ASSUME NEW t \in Txn, Flush(t) PROVE TypeOK'
  <2> DEFINE a == req[t].id
             written == [type |-> IF "type" \in req[t].sets THEN req[t].type ELSE type[a],
                         active |-> IF "active" \in req[t].sets THEN req[t].active
                                                                ELSE active[a]]
  <2>1. req[t] \in Request /\ a \in Agent /\ req[t].type \in Type /\ type[a] \in Type
    BY <1>6, TransactionConstants DEF TypeOK, RequestsOK, RowsOK, WritesOK, Flush, Request
  <2>2. AfterWrite(req[t].active) \in Step \ {"idle", "clear", "insert", "flush"}
    BY DEF AfterWrite, Step
  <2>3. /\ RequestsOK'
        /\ \A u \in Txn : /\ req'[u].step = IF u = t THEN AfterWrite(req[t].active)
                                            ELSE req[u].step
                          /\ req'[u].id = req[u].id
    BY <1>6, <2>2, GotoTyped DEF Flush, TypeOK
  <2>4. /\ pend' \in [Txn -> [Agent -> Row \cup {None}]]
        /\ \A u \in Txn \ {t}, b \in Agent : pend'[u][b] = pend[u][b]
    <3>1. written \in Row
      BY <2>1 DEF TypeOK, RowsOK, Row, Request
    <3>2. CASE pend' = [pend EXCEPT ![t][a] = written]
      BY <2>1, <3>1, <3>2, PendTyped DEF TypeOK
    <3>3. CASE UNCHANGED pend
      BY <3>3 DEF TypeOK, RowsOK
    <3> QED
      BY <1>6, <3>2, <3>3 DEF Flush
  <2>5. RowsOK'
    BY <1>6, <2>4 DEF TypeOK, RowsOK, Flush, rows
  <2>6. WritesOK'
    BY <1>6, <2>2, <2>3, <2>4 DEF TypeOK, WritesOK, Flush, rows
  <2> QED
    BY <2>3, <2>5, <2>6 DEF TypeOK
<1>7. ASSUME NEW t \in Txn, InsertChat(t) PROVE TypeOK'
  <2>1. PICK a \in Agent :
           /\ pend' = [pend EXCEPT ![t][a] = [type |-> Chat, active |-> TRUE]]
           /\ req' = [req EXCEPT ![t].step = "siblings", ![t].id = a]
    BY <1>7 DEF InsertChat
  <2>2. a # None /\ [type |-> Chat, active |-> TRUE] \in Row
    BY TransactionConstants DEF Row
  <2>3. /\ req' \in [Txn -> Request]
        /\ \A u \in Txn : /\ req'[u].step = IF u = t THEN "siblings" ELSE req[u].step
                          /\ req'[u].id = IF u = t THEN a ELSE req[u].id
                          /\ req'[u].type = req[u].type
    <3> DEFINE new == [req[t] EXCEPT !.step = "siblings", !.id = a]
    <3>1. req' = [req EXCEPT ![t] = new] /\ new \in Request
      BY <2>1 DEF TypeOK, RequestsOK, Request, Step
    <3> QED
      BY <3>1 DEF TypeOK, RequestsOK, Request
  <2>4. RequestsOK'
    BY <1>7, <2>2, <2>3 DEF TypeOK, RequestsOK, InsertChat
  <2>5. /\ pend' \in [Txn -> [Agent -> Row \cup {None}]]
        /\ \A u \in Txn \ {t}, b \in Agent : pend'[u][b] = pend[u][b]
    BY <2>1, <2>2, PendTyped DEF TypeOK
  <2>6. RowsOK'
    BY <1>7, <2>5 DEF TypeOK, RowsOK, InsertChat, rows
  <2>7. type' = type
    BY <1>7 DEF InsertChat, rows
  <2>8. WritesOK'
    BY <2>2, <2>3, <2>5, <2>7 DEF TypeOK, WritesOK
  <2> QED
    BY <2>4, <2>6, <2>8 DEF TypeOK
<1>8. ASSUME NEW t \in Txn, SelectSiblings(t) PROVE TypeOK'
  <2>1. /\ RequestsOK'
        /\ \A u \in Txn : /\ req'[u].step = IF u = t THEN "visit" ELSE req[u].step
                          /\ req'[u].id = req[u].id
    BY <1>8, GotoTyped DEF SelectSiblings, TypeOK, Step
  <2>2. RowsOK'
    BY <1>8 DEF TypeOK, RowsOK, SelectSiblings, Matching, rows
  <2>3. WritesOK'
    BY <1>8, <2>1 DEF TypeOK, WritesOK, SelectSiblings, rows
  <2> QED
    BY <2>1, <2>2, <2>3 DEF TypeOK
<1>9. ASSUME NEW t \in Txn, Visit(t) PROVE TypeOK'
  <2>1. PICK a \in todo[t] :
           /\ todo' = [todo EXCEPT ![t] = @ \ {a}]
           /\ \/ pend' = [pend EXCEPT ![t][a] = [type |-> req[t].type, active |-> FALSE]]
              \/ UNCHANGED pend
    BY <1>9 DEF Visit
  <2>2. a \in Agent /\ [type |-> req[t].type, active |-> FALSE] \in Row
    BY <1>9, <2>1 DEF Visit, TypeOK, RowsOK, RequestsOK, Request, Row
  <2>3. /\ pend' \in [Txn -> [Agent -> Row \cup {None}]]
        /\ \A u \in Txn \ {t}, b \in Agent : pend'[u][b] = pend[u][b]
    <3>1. CASE pend' = [pend EXCEPT ![t][a] = [type |-> req[t].type, active |-> FALSE]]
      BY <2>2, <3>1, PendTyped DEF TypeOK
    <3>2. CASE UNCHANGED pend
      BY <3>2 DEF TypeOK, RowsOK
    <3> QED
      BY <2>1, <3>1, <3>2
  <2>4. RowsOK'
    BY <1>9, <2>1, <2>3 DEF TypeOK, RowsOK, Visit, rows
  <2>5. RequestsOK'
    BY <1>9 DEF TypeOK, RequestsOK, Visit
  <2>6. WritesOK'
    BY <1>9, <2>3 DEF TypeOK, WritesOK, Visit, rows
  <2> QED
    BY <2>4, <2>5, <2>6 DEF TypeOK
<1>10. ASSUME NEW t \in Txn, Commit(t) PROVE TypeOK'
  BY <1>10, CommitTyped
<1>11. ASSUME NEW t \in Txn, Rollback(t) PROVE TypeOK'
  <2>1. End(t) /\ UNCHANGED rows
    BY <1>11 DEF Rollback
  <2>2. RowsOK'
    BY <2>1, EndTyped DEF TypeOK, RowsOK, rows
  <2>3. WritesOK'
    BY <2>1, EndTyped DEF TypeOK, WritesOK, rows
  <2> QED
    BY <2>1, <2>2, <2>3, EndTyped DEF TypeOK
<1>12. CASE UNCHANGED vars
  BY <1>12 DEF vars, rows, TypeOK, RowsOK, RequestsOK, WritesOK
<1> QED
  BY <1>1, <1>2, <1>3, <1>4, <1>5, <1>6, <1>7, <1>8, <1>9, <1>10, <1>11, <1>12 DEF Next

\* TypeOK holds in every behaviour.
THEOREM TypeCorrect == Spec => []TypeOK
<1>1. ASSUME Init PROVE TypeOK
  <2>1. NoRequest \in Request /\ NoRequest.step = "idle" /\ NoRequest.id = None
        /\ NoRequest.type = None
    BY DEF NoRequest, Request, Step
  <2>2. RequestsOK
    BY <1>1, <2>1 DEF Init, RequestsOK
  <2>3. RowsOK /\ WritesOK
    BY <1>1, <2>1 DEF Init, RowsOK, WritesOK
  <2> QED
    BY <2>2, <2>3 DEF TypeOK
<1> QED
  BY <1>1, TypeStep, PTL DEF Spec

(***************************************************************************)
(* A row is switched on only by a request that asked for it: row locks     *)
(* keep a pending version the only one, and what it says of is_active is   *)
(* FALSE, the committed value it was copied from, or the request's own.    *)
(* Committed values cannot change under a pending version.                 *)
(***************************************************************************)
OneWriter ==
  \A t, u \in Txn : t # u =>
    \A a \in Agent : pend[t][a] = None \/ pend[u][a] = None

Inserts ==
  \A t \in Txn : req[t].step \in {"clear", "insert"} => req[t].active /\ "active" \in req[t].sets

Owned(t, a) == pend[t][a] # None /\ pend[t][a].active => active[a] \/ Activates(t, a)

Ownership == OneWriter /\ Inserts /\ \A t \in Txn : \A a \in Agent : Owned(t, a)

\* A statement that writes row a, which nobody else has written.
LEMMA WriteOwned ==
  ASSUME TypeOK, Ownership, NEW t \in Txn, NEW a \in Agent, NEW r \in Row,
         Unlocked(t, a), pend' = [pend EXCEPT ![t][a] = r], UNCHANGED rows,
         \A u \in Txn \ {t} : req'[u] = req[u],
         Inserts',
         r.active => active[a] \/ Activates(t, a)',
         \A b \in Agent \ {a} : pend[t][b] # None => (Activates(t, b) => Activates(t, b)')
  PROVE  Ownership'
<1>1. \A u \in Txn, b \in Agent : pend'[u][b] = IF u = t /\ b = a THEN r ELSE pend[u][b]
  BY PendTyped DEF TypeOK
<1>2. OneWriter'
  BY <1>1 DEF Ownership, OneWriter, Unlocked
<1>3. ASSUME NEW u \in Txn, NEW b \in Agent PROVE Owned(u, b)'
  <2>1. Owned(u, b) /\ active' = active
    BY DEF Ownership, rows
  <2>2. CASE u = t /\ b = a
    BY <1>1, <2>1, <2>2 DEF Owned
  <2>3. CASE u = t /\ b # a
    BY <1>1, <2>1, <2>3 DEF Owned
  <2>4. CASE u # t
    BY <1>1, <2>1, <2>4 DEF Owned, Activates
  <2> QED
    BY <2>2, <2>3, <2>4
<1> QED
  BY <1>2, <1>3 DEF Ownership

\* A step that writes nothing and leaves t's wish as it was, if t wrote at all.
LEMMA KeepOwned ==
  ASSUME TypeOK, Ownership, NEW t \in Txn, UNCHANGED <<rows, pend>>,
         \A u \in Txn \ {t} : req'[u] = req[u],
         Inserts',
         \A b \in Agent : pend[t][b] # None => (Activates(t, b) => Activates(t, b)')
  PROVE  Ownership'
<1>1. OneWriter'
  BY DEF Ownership, OneWriter
<1>2. ASSUME NEW u \in Txn, NEW b \in Agent PROVE Owned(u, b)'
  <2>1. Owned(u, b) /\ active' = active /\ pend' = pend
    BY DEF Ownership, rows
  <2>2. CASE u = t
    BY <2>1, <2>2 DEF Owned
  <2>3. CASE u # t
    BY <2>1, <2>3 DEF Owned, Activates
  <2> QED
    BY <2>2, <2>3
<1> QED
  BY <1>1, <1>2 DEF Ownership

\* The end of a transaction: the rows it had not written are as they were.
LEMMA EndOwned ==
  ASSUME TypeOK, Ownership, NEW t \in Txn, End(t),
         \A a \in Agent : pend[t][a] = None => active'[a] = active[a]
  PROVE  Ownership'
<1>1. /\ \A u \in Txn \ {t} : pend'[u] = pend[u] /\ req'[u] = req[u]
      /\ \A a \in Agent : pend'[t][a] = None
      /\ req'[t].step = "idle"
  BY EndTyped
<1>2. OneWriter' /\ Inserts'
  BY <1>1 DEF Ownership, OneWriter, Inserts
<1>3. ASSUME NEW u \in Txn, NEW b \in Agent PROVE Owned(u, b)'
  <2>1. CASE u = t
    BY <1>1, <2>1 DEF Owned
  <2>2. CASE u # t
    BY <1>1, <2>2 DEF Ownership, OneWriter, Owned, Activates
  <2> QED
    BY <2>1, <2>2
<1> QED
  BY <1>2, <1>3 DEF Ownership

\* A request begins: it has written nothing yet.
LEMMA BeginOwned ==
  ASSUME TypeOK, Ownership, NEW t \in Txn, UNCHANGED <<rows, pend>>,
         req[t].step = "idle", NEW new, req' = [req EXCEPT ![t] = new],
         new.step \in {"clear", "insert"} => new.active /\ "active" \in new.sets
  PROVE  Ownership'
<1>1. /\ \A u \in Txn \ {t} : req'[u] = req[u]
      /\ req'[t] = new
  BY DEF TypeOK, RequestsOK
<1>2. Inserts'
  BY <1>1 DEF Ownership, Inserts
<1>3. \A b \in Agent : pend[t][b] = None
  BY DEF TypeOK, WritesOK
<1> QED
  BY <1>1, <1>2, <1>3, KeepOwned

\* Ownership is kept by every step.
LEMMA OwnershipStep == TypeOK /\ Ownership /\ [Next]_vars => Ownership'
<1> SUFFICES ASSUME TypeOK, Ownership, [Next]_vars PROVE Ownership'
  OBVIOUS
<1>1. ASSUME NEW t \in Txn, CreateAgent(t) PROVE Ownership'
  <2>1. PICK a \in Agent, ty \in Type, act \in BOOLEAN :
           /\ Fresh(a)
           /\ Begin(t, AfterWrite(act), a, ty, act, {"type", "active"})
           /\ pend' = [pend EXCEPT ![t][a] = [type |-> ty, active |-> act]]
           /\ UNCHANGED <<rows, todo>>
    BY <1>1 DEF CreateAgent
  <2>2. /\ \A u \in Txn \ {t} : req'[u] = req[u]
        /\ req'[t] = [step |-> AfterWrite(act), id |-> a, type |-> ty,
                      active |-> act, sets |-> {"type", "active"}]
        /\ req[t].step = "idle"
    BY <2>1 DEF Begin, TypeOK, RequestsOK
  <2>3. Inserts' /\ (act => Activates(t, a)')
    BY <2>2 DEF Ownership, Inserts, Activates, AfterWrite
  <2>4. \A b \in Agent : pend[t][b] = None
    BY <2>2 DEF TypeOK, WritesOK
  <2>5. Unlocked(t, a) /\ [type |-> ty, active |-> act] \in Row
    BY <2>1 DEF Fresh, Unlocked, Row
  <2> QED
    BY <2>1, <2>2, <2>3, <2>4, <2>5, WriteOwned
<1>2. ASSUME NEW t \in Txn, PatchChat(t) PROVE Ownership'
  <2>1. PICK step \in {"insert", "flush"}, a \in Agent \cup {None},
             sets \in SUBSET {"type", "active"} :
           /\ Begin(t, step, a, Chat, TRUE, sets)
           /\ step = "insert" => "active" \in sets
    BY <1>2 DEF PatchChat, Matching
  <2> QED
    BY <1>2, <2>1, BeginOwned DEF PatchChat, Begin
<1>3. ASSUME NEW t \in Txn, UpdateAgent(t) PROVE Ownership'
  BY <1>3, BeginOwned DEF UpdateAgent, Begin
<1>4. ASSUME NEW t \in Txn, DeactivateAgent(t) PROVE Ownership'
  BY <1>4, BeginOwned DEF DeactivateAgent, Begin
<1>5. ASSUME NEW t \in Txn, OnboardAgent(t) PROVE Ownership'
  BY <1>5, BeginOwned DEF OnboardAgent, Begin
<1>6. ASSUME NEW t \in Txn, Flush(t) PROVE Ownership'
  <2>0. PICK a \in Agent : a = req[t].id
    BY <1>6 DEF Flush, TypeOK, RequestsOK, Request
  <2> DEFINE written ==
        [type |-> IF "type" \in req[t].sets THEN req[t].type ELSE type[a],
         active |-> IF "active" \in req[t].sets THEN req[t].active ELSE active[a]]
  <2>1. /\ AfterWrite(req[t].active) \in Step \ {"idle", "clear", "insert", "flush"}
        /\ req[t].step = "flush" /\ req[t] \in Request
        /\ req[t].type \in Type /\ type[a] \in Type
    BY <1>6, <2>0, TransactionConstants
    DEF AfterWrite, Step, Flush, TypeOK, RequestsOK, RowsOK, WritesOK, Request
  <2>2. \A u \in Txn : /\ req'[u].step = IF u = t THEN AfterWrite(req[t].active)
                                           ELSE req[u].step
                       /\ req'[u].id = req[u].id /\ req'[u].active = req[u].active
                       /\ req'[u].sets = req[u].sets
    BY <1>6, <2>1, GotoTyped DEF Flush, TypeOK
  <2>3. Inserts' /\ \A b \in Agent : Activates(t, b)' = Activates(t, b)
    BY <2>1, <2>2 DEF Ownership, Inserts, Activates
  <2>4. \A u \in Txn \ {t} : req'[u] = req[u]
    BY <1>6 DEF Flush, Goto, TypeOK, RequestsOK
  <2>5. CASE Unlocked(t, a) /\ pend' = [pend EXCEPT ![t][a] = written]
    <3>1. written \in Row
      BY <2>1 DEF TypeOK, RowsOK, Row, Request
    <3>2. written.active => active[a] \/ Activates(t, a)'
      <4>1. CASE "active" \in req[t].sets
        BY <2>0, <2>1, <2>3, <4>1 DEF Activates
      <4>2. CASE "active" \notin req[t].sets
        BY <4>2
      <4> QED
        BY <4>1, <4>2
    <3>3. UNCHANGED rows
      BY <1>6 DEF Flush
    <3> HIDE DEF written
    <3> QED
      BY <2>3, <2>4, <2>5, <3>1, <3>2, <3>3, WriteOwned
  <2>6. CASE UNCHANGED pend
    BY <1>6, <2>3, <2>4, <2>6, KeepOwned DEF Flush
  <2> QED
    BY <1>6, <2>0, <2>5, <2>6 DEF Flush
<1>7. ASSUME NEW t \in Txn, InsertChat(t) PROVE Ownership'
  <2>1. PICK a \in Agent :
           /\ Fresh(a)
           /\ pend' = [pend EXCEPT ![t][a] = [type |-> Chat, active |-> TRUE]]
           /\ req' = [req EXCEPT ![t].step = "siblings", ![t].id = a]
           /\ UNCHANGED rows
    BY <1>7 DEF InsertChat
  <2>2. req[t].step \in {"clear", "insert"} /\ req[t].id = None
    BY <1>7 DEF InsertChat, TypeOK, RequestsOK
  <2>3. /\ \A u \in Txn \ {t} : req'[u] = req[u]
        /\ req'[t].step = "siblings" /\ req'[t].id = a
        /\ req'[t].active = req[t].active /\ req'[t].sets = req[t].sets
    <3> DEFINE new == [req[t] EXCEPT !.step = "siblings", !.id = a]
    <3>1. req' = [req EXCEPT ![t] = new] /\ req[t] \in Request
      BY <2>1 DEF TypeOK, RequestsOK
    <3> QED
      BY <3>1 DEF TypeOK, RequestsOK, Request
  <2>4. Inserts' /\ Activates(t, a)'
    BY <2>2, <2>3 DEF Ownership, Inserts, Activates
  <2>5. \A b \in Agent : ~Activates(t, b)
    BY <2>2, TransactionConstants DEF Activates
  <2>6. Unlocked(t, a) /\ [type |-> Chat, active |-> TRUE] \in Row
    BY <2>1, TransactionConstants DEF Fresh, Unlocked, Row
  <2> QED
    BY <2>1, <2>3, <2>4, <2>5, <2>6, WriteOwned
<1>8. ASSUME NEW t \in Txn, SelectSiblings(t) PROVE Ownership'
  <2>1. \A u \in Txn : /\ req'[u].step = IF u = t THEN "visit" ELSE req[u].step
                       /\ req'[u].id = req[u].id /\ req'[u].active = req[u].active
                       /\ req'[u].sets = req[u].sets
    BY <1>8, GotoTyped DEF SelectSiblings, TypeOK, Step
  <2>2. \A u \in Txn \ {t} : req'[u] = req[u]
    BY <1>8 DEF SelectSiblings, Goto, TypeOK, RequestsOK
  <2>3. Inserts' /\ \A b \in Agent : Activates(t, b)' = Activates(t, b)
    BY <2>1 DEF Ownership, Inserts, Activates
  <2> QED
    BY <1>8, <2>2, <2>3, KeepOwned DEF SelectSiblings
<1>9. ASSUME NEW t \in Txn, Visit(t) PROVE Ownership'
  <2>1. PICK a \in todo[t] :
           /\ Unlocked(t, a)
           /\ \/ pend' = [pend EXCEPT ![t][a] = [type |-> req[t].type, active |-> FALSE]]
              \/ UNCHANGED pend
    BY <1>9 DEF Visit
  <2>2. a \in Agent /\ [type |-> req[t].type, active |-> FALSE] \in Row
    BY <1>9, <2>1 DEF Visit, TypeOK, RowsOK, RequestsOK, Request, Row
  <2>3. req' = req /\ UNCHANGED rows
    BY <1>9 DEF Visit
  <2>4. Inserts' /\ \A b \in Agent : Activates(t, b)' = Activates(t, b)
    BY <2>3 DEF Ownership, Inserts, Activates
  <2>5. CASE pend' = [pend EXCEPT ![t][a] = [type |-> req[t].type, active |-> FALSE]]
    <3> DEFINE r == [type |-> req[t].type, active |-> FALSE]
    <3>1. r \in Row /\ ~r.active /\ pend' = [pend EXCEPT ![t][a] = r]
      BY <2>2, <2>5
    <3> HIDE DEF r
    <3> QED
      BY <2>1, <2>2, <2>3, <2>4, <3>1, WriteOwned
  <2>6. CASE UNCHANGED pend
    BY <2>3, <2>4, <2>6, KeepOwned
  <2> QED
    BY <2>1, <2>5, <2>6
<1>10. ASSUME NEW t \in Txn, Commit(t) PROVE Ownership'
  <2>1. \A a \in Agent : pend[t][a] = None => active'[a] = active[a]
    BY <1>10 DEF Commit, View, TypeOK, RowsOK
  <2> QED
    BY <1>10, <2>1, EndOwned DEF Commit
<1>11. ASSUME NEW t \in Txn, Rollback(t) PROVE Ownership'
  BY <1>11, EndOwned DEF Rollback, rows
<1>12. CASE UNCHANGED vars
  BY <1>12 DEF vars, rows, Ownership, OneWriter, Inserts, Owned, Activates
<1> QED
  BY <1>1, <1>2, <1>3, <1>4, <1>5, <1>6, <1>7, <1>8, <1>9, <1>10, <1>11, <1>12 DEF Next

\* Only a request that asked for it switches an agent on.
THEOREM NothingResurrected == Spec => NoResurrection
<1>1. ASSUME Init PROVE Ownership
  BY <1>1 DEF Init, NoRequest, Ownership, OneWriter, Inserts, Owned
<1>2. ASSUME TypeOK, Ownership, [Next]_vars
      PROVE  [\A a \in Agent : type[a] # None /\ ~active[a] /\ active'[a]
                                 => \E t \in Txn : Activates(t, a)]_vars
  <2> SUFFICES ASSUME ~ UNCHANGED vars, NEW a \in Agent, ~active[a], active'[a]
               PROVE  \E t \in Txn : Activates(t, a)
    OBVIOUS
  <2>1. \E t \in Txn : Commit(t)
    BY <1>2 DEF Next, rows, CreateAgent, PatchChat, UpdateAgent, DeactivateAgent, OnboardAgent,
       Flush, InsertChat, SelectSiblings, Visit, Rollback
  <2>2. PICK t \in Txn : Commit(t)
    BY <2>1
  <2>3. active'[a] = View(t, a).active
    BY <2>2 DEF Commit
  <2>4. pend[t][a] # None /\ pend[t][a].active
    BY <2>3 DEF View
  <2> QED
    BY <1>2, <2>4 DEF Ownership, Owned
<1> QED
  BY <1>1, <1>2, TypeCorrect, OwnershipStep, PTL DEF Spec, NoResurrection

(***************************************************************************)
(* A request that asks for its agent to be active writes it so, keeps the  *)
(* row locked until it commits and leaves it out of its own clean-up.      *)
(***************************************************************************)
Granted(t) ==
  req[t].step \in {"siblings", "visit", "commit"} /\ req[t].active /\ "active" \in req[t].sets =>
    /\ pend[t][req[t].id] # None /\ pend[t][req[t].id].active
    /\ req[t].step = "visit" => req[t].id \notin todo[t]

AllGranted == \A t \in Txn : Granted(t)

\* A step of t changes nothing another transaction's grant speaks of.
LEMMA OthersGranted ==
  ASSUME AllGranted, NEW t \in Txn, Granted(t)',
         \A u \in Txn \ {t} : pend'[u] = pend[u] /\ req'[u] = req[u] /\ todo'[u] = todo[u]
  PROVE  AllGranted'
<1> SUFFICES ASSUME NEW u \in Txn PROVE Granted(u)'
  BY DEF AllGranted
<1>1. CASE u = t
  BY <1>1
<1>2. CASE u # t
  BY <1>2 DEF AllGranted, Granted
<1> QED
  BY <1>1, <1>2

\* A request that begins with anything but its clean-up has nothing to keep yet.
LEMMA BeginGranted ==
  ASSUME TypeOK, AllGranted, NEW t \in Txn, NEW new, req' = [req EXCEPT ![t] = new],
         new.step \in {"flush", "insert", "clear"}, UNCHANGED pend,
         \A u \in Txn \ {t} : todo'[u] = todo[u]
  PROVE  AllGranted'
<1>1. req'[t] = new /\ \A u \in Txn \ {t} : req'[u] = req[u]
  BY DEF TypeOK, RequestsOK
<1>2. Granted(t)'
  BY <1>1 DEF Granted
<1> QED
  BY <1>1, <1>2, OthersGranted

\* Grants are kept by every step.
LEMMA GrantedStep == TypeOK /\ AllGranted /\ [Next]_vars => AllGranted'
<1> SUFFICES ASSUME TypeOK, AllGranted, [Next]_vars PROVE AllGranted'
  OBVIOUS
<1>1. ASSUME NEW t \in Txn, CreateAgent(t) PROVE AllGranted'
  <2>1. PICK a \in Agent, ty \in Type, act \in BOOLEAN :
           /\ Begin(t, AfterWrite(act), a, ty, act, {"type", "active"})
           /\ pend' = [pend EXCEPT ![t][a] = [type |-> ty, active |-> act]]
           /\ UNCHANGED todo
    BY <1>1 DEF CreateAgent
  <2>2. /\ \A u \in Txn \ {t} : req'[u] = req[u]
        /\ req'[t].step = AfterWrite(act) /\ req'[t].id = a /\ req'[t].active = act
    BY <2>1 DEF Begin, TypeOK, RequestsOK
  <2>3. /\ pend'[t][a] = [type |-> ty, active |-> act] /\ pend'[t][a] # None
        /\ \A u \in Txn \ {t} : pend'[u] = pend[u]
    <3> DEFINE r == [type |-> ty, active |-> act]
    <3>1. r \in Row /\ pend' = [pend EXCEPT ![t][a] = r]
      BY <2>1 DEF Row
    <3> HIDE DEF r
    <3>2. pend'[t][a] = r /\ r # None /\ \A u \in Txn \ {t} : pend'[u] = pend[u]
      BY <3>1, PendTyped DEF TypeOK
    <3> QED
      BY <3>2 DEF r
  <2>4. Granted(t)'
    BY <2>2, <2>3 DEF Granted, AfterWrite
  <2> QED
    BY <2>1, <2>2, <2>3, <2>4, OthersGranted
<1>2. ASSUME NEW t \in Txn, PatchChat(t) PROVE AllGranted'
  <2>1. PICK step \in {"insert", "flush"}, a \in Agent \cup {None},
             sets \in SUBSET {"type", "active"} : Begin(t, step, a, Chat, TRUE, sets)
    BY <1>2 DEF PatchChat, Matching
  <2> QED
    BY <1>2, <2>1, BeginGranted DEF PatchChat, Begin
<1>3. ASSUME NEW t \in Txn, UpdateAgent(t) PROVE AllGranted'
  BY <1>3, BeginGranted DEF UpdateAgent, Begin
<1>4. ASSUME NEW t \in Txn, DeactivateAgent(t) PROVE AllGranted'
  BY <1>4, BeginGranted DEF DeactivateAgent, Begin
<1>5. ASSUME NEW t \in Txn, OnboardAgent(t) PROVE AllGranted'
  BY <1>5, BeginGranted DEF OnboardAgent, Begin, TypeOK, RowsOK
<1>6. ASSUME NEW t \in Txn, Flush(t) PROVE AllGranted'
  <2>1. PICK a \in Agent : a = req[t].id
    BY <1>6 DEF Flush, TypeOK, RequestsOK, Request
  <2>2. /\ req'[t].step \in {"siblings", "commit"} /\ req'[t].id = a
        /\ req'[t].active = req[t].active /\ req'[t].sets = req[t].sets
        /\ \A u \in Txn \ {t} : req'[u] = req[u]
    BY <1>6, <2>1 DEF Flush, Goto, AfterWrite, TypeOK, RequestsOK, Request
  <2>3. CASE req[t].active /\ "active" \in req[t].sets
    <3> DEFINE ty == IF "type" \in req[t].sets THEN req[t].type ELSE type[a]
               r == [type |-> ty, active |-> req[t].active]
    <3>1. ty \in Type /\ req[t].active \in BOOLEAN
      BY <1>6, <2>1, TransactionConstants
      DEF Flush, TypeOK, RequestsOK, RowsOK, WritesOK, Request
    <3>2. pend' = [pend EXCEPT ![t][a] = r]
      BY <1>6, <2>1, <2>3 DEF Flush
    <3>3. r \in Row /\ r.active
      BY <2>3, <3>1 DEF Row
    <3> HIDE DEF r
    <3>4. pend'[t][a] = r /\ r # None /\ \A u \in Txn \ {t} : pend'[u] = pend[u]
      BY <3>2, <3>3, PendTyped DEF TypeOK
    <3>5. Granted(t)'
      BY <2>2, <3>3, <3>4 DEF Granted
    <3> QED
      BY <1>6, <2>2, <3>4, <3>5, OthersGranted DEF Flush
  <2>4. CASE ~(req[t].active /\ "active" \in req[t].sets)
    <3>1. Granted(t)'
      BY <2>2, <2>4 DEF Granted
    <3> QED
      BY <1>6, <2>2, <3>1, OthersGranted DEF Flush, TypeOK, RowsOK
  <2> QED
    BY <2>3, <2>4
<1>7. ASSUME NEW t \in Txn, InsertChat(t) PROVE AllGranted'
  <2>1. PICK a \in Agent :
           /\ pend' = [pend EXCEPT ![t][a] = [type |-> Chat, active |-> TRUE]]
           /\ req' = [req EXCEPT ![t].step = "siblings", ![t].id = a]
    BY <1>7 DEF InsertChat
  <2>2. req'[t].step = "siblings" /\ req'[t].id = a /\ \A u \in Txn \ {t} : req'[u] = req[u]
    BY <2>1 DEF TypeOK, RequestsOK, Request
  <2>3. /\ pend'[t][a] = [type |-> Chat, active |-> TRUE]
        /\ [type |-> Chat, active |-> TRUE] # None
        /\ \A u \in Txn \ {t} : pend'[u] = pend[u]
    <3> DEFINE r == [type |-> Chat, active |-> TRUE]
    <3>1. r \in Row /\ pend' = [pend EXCEPT ![t][a] = r]
      BY <2>1, TransactionConstants DEF Row
    <3> HIDE DEF r
    <3>2. pend'[t][a] = r /\ r # None /\ \A u \in Txn \ {t} : pend'[u] = pend[u]
      BY <3>1, PendTyped DEF TypeOK
    <3> QED
      BY <3>2 DEF r
  <2>4. Granted(t)'
    BY <2>2, <2>3 DEF Granted
  <2> QED
    BY <1>7, <2>2, <2>3, <2>4, OthersGranted DEF InsertChat
<1>8. ASSUME NEW t \in Txn, SelectSiblings(t) PROVE AllGranted'
  <2>1. /\ req'[t].step = "visit" /\ req'[t].id = req[t].id
        /\ req'[t].active = req[t].active /\ req'[t].sets = req[t].sets
        /\ \A u \in Txn \ {t} : req'[u] = req[u] /\ todo'[u] = todo[u]
        /\ req[t].id \notin todo'[t]
    BY <1>8 DEF SelectSiblings, Goto, TypeOK, RequestsOK, RowsOK, Request
  <2>2. Granted(t)'
    BY <1>8, <2>1 DEF SelectSiblings, AllGranted, Granted
  <2> QED
    BY <1>8, <2>1, <2>2, OthersGranted DEF SelectSiblings
<1>9. ASSUME NEW t \in Txn, Visit(t) PROVE AllGranted'
  <2>1. PICK a \in todo[t] :
           /\ todo' = [todo EXCEPT ![t] = @ \ {a}]
           /\ \/ pend' = [pend EXCEPT ![t][a] = [type |-> req[t].type, active |-> FALSE]]
              \/ UNCHANGED pend
    BY <1>9 DEF Visit
  <2>2. /\ req' = req /\ req[t].step \in {"clear", "visit"}
        /\ todo'[t] = todo[t] \ {a}
        /\ \A u \in Txn \ {t} : todo'[u] = todo[u] /\ pend'[u] = pend[u]
        /\ \A b \in Agent \ {a} : pend'[t][b] = pend[t][b]
    BY <1>9, <2>1 DEF Visit, TypeOK, RowsOK
  <2>3. Granted(t)'
    <3>1. CASE req[t].step = "clear"
      BY <2>2, <3>1 DEF Granted
    <3>2. CASE req[t].step = "visit"
      <4>1. req[t].id \in Agent
        BY <3>2 DEF TypeOK, RequestsOK, Request
      <4> QED
        BY <2>1, <2>2, <3>2, <4>1 DEF AllGranted, Granted
    <3> QED
      BY <2>2, <3>1, <3>2
  <2> QED
    BY <2>2, <2>3, OthersGranted
<1>10. ASSUME NEW t \in Txn, Commit(t) \/ Rollback(t) PROVE AllGranted'
  <2>1. End(t)
    BY <1>10 DEF Commit, Rollback
  <2>2. /\ \A u \in Txn \ {t} : pend'[u] = pend[u] /\ req'[u] = req[u] /\ todo'[u] = todo[u]
        /\ req'[t].step = "idle"
    BY <2>1, EndTyped DEF End, TypeOK, RowsOK
  <2>3. Granted(t)'
    BY <2>2 DEF Granted
  <2> QED
    BY <2>2, <2>3, OthersGranted
<1>11. CASE UNCHANGED vars
  BY <1>11 DEF vars, AllGranted, Granted
<1> QED
  BY <1>1, <1>2, <1>3, <1>4, <1>5, <1>6, <1>7, <1>8, <1>9, <1>10, <1>11 DEF Next

\* Whoever asked for an agent to be active commits it active.
THEOREM ActivationsHold == Spec => ActivationHolds
<1>1. ASSUME Init PROVE AllGranted
  BY <1>1 DEF Init, NoRequest, AllGranted, Granted
<1>2. ASSUME TypeOK, AllGranted, [Next]_vars
      PROVE  [\A t \in Txn, a \in Agent : Commit(t) /\ Activates(t, a) => active'[a]]_vars
  <2> SUFFICES ASSUME NEW t \in Txn, NEW a \in Agent, Commit(t), Activates(t, a)
               PROVE  active'[a]
    OBVIOUS
  <2>1. pend[t][a] # None /\ pend[t][a].active
    BY <1>2 DEF AllGranted, Granted, Commit, Activates
  <2> QED
    BY <2>1 DEF Commit, View
<1> QED
  BY <1>1, <1>2, TypeCorrect, GrantedStep, PTL DEF Spec, ActivationHolds
\* Commands leave rows typed, a type with at most one active agent.
CommandInv ==
  /\ type \in [Agent -> Type \cup {None}] /\ active \in [Agent -> BOOLEAN]
  /\ Commands!AtMostOneActive

LEMMA PutSingle ==
  ASSUME CommandInv, NEW a \in Agent, NEW ty \in Type \cup {None}, NEW act \in BOOLEAN,
         Commands!Put(a, ty, act)
  PROVE  CommandInv'
<1>1. /\ type' \in [Agent -> Type \cup {None}] /\ active' \in [Agent -> BOOLEAN]
  BY DEF CommandInv, Commands!Put
<1>2. ASSUME NEW u \in Type, NEW b \in Agent, NEW c \in Agent,
             type'[b] = u, type'[c] = u, active'[b], active'[c]
      PROVE  b = c
  BY <1>2 DEF CommandInv, Commands!Put, Commands!AtMostOneActive, Commands!ActiveOf
<1> QED
  BY <1>1, <1>2 DEF CommandInv, Commands!AtMostOneActive, Commands!ActiveOf

LEMMA CommandStep == CommandInv /\ [Commands!Next]_(Commands!vars) => CommandInv'
<1> SUFFICES ASSUME CommandInv, [Commands!Next]_(Commands!vars) PROVE CommandInv'
  OBVIOUS
<1>1. CASE UNCHANGED Commands!vars
  BY <1>1 DEF Commands!vars, CommandInv, Commands!AtMostOneActive, Commands!ActiveOf
<1>2. CASE Commands!CreateAgent
  BY <1>2, PutSingle DEF Commands!CreateAgent
<1>3. CASE Commands!PatchChat
  BY <1>3, PutSingle, TransactionConstants DEF Commands!PatchChat, Commands!ActiveOf
<1>4. CASE Commands!UpdateAgent
  BY <1>4, PutSingle DEF Commands!UpdateAgent
<1>5. CASE Commands!DeactivateAgent
  <2>1. PICK a \in Agent : Commands!Put(a, type[a], FALSE)
    BY <1>5 DEF Commands!DeactivateAgent
  <2>2. type[a] \in Type \cup {None}
    BY DEF CommandInv
  <2> QED
    BY <2>1, <2>2, PutSingle
<1>6. CASE Commands!OnboardAgent
  BY <1>6, PutSingle, TransactionConstants DEF Commands!OnboardAgent
<1> QED
  BY <1>1, <1>2, <1>3, <1>4, <1>5, <1>6 DEF Commands!Next

\* The atomic commands keep the documented promise of one active agent a type.
THEOREM CommandsSingle == Commands!Spec => []Commands!AtMostOneActive
<1>1. ASSUME Commands!Init PROVE CommandInv
  BY <1>1 DEF Commands!Init, CommandInv, Commands!AtMostOneActive, Commands!ActiveOf
<1>2. CommandInv => Commands!AtMostOneActive
  BY DEF CommandInv
<1> QED
  BY <1>1, <1>2, CommandStep, PTL DEF Commands!Spec

(***************************************************************************)
(* Requests that run one at a time implement the atomic commands.          *)
(***************************************************************************)
\* A row other than the request's own: as committed, or switched off by it.
Side(t, b) ==
  /\ View(t, b).type = type[b]
  /\ \/ View(t, b).active = active[b]
     \/ ~View(t, b).active /\ req[t].active /\ type[b] = req[t].type

\* How far the only open request has come on the way to its command.
Done(t) == View(t, req[t].id) = [type |-> req[t].type, active |-> req[t].active]
Progress(t) ==
  /\ \A b \in Agent \ {req[t].id} : Side(t, b)
  /\ req[t].step \in {"clear", "insert"} => req[t].type = Chat /\ req[t].active
  /\ req[t].step = "flush" =>
       /\ pend[t][req[t].id] = None
       /\ "type" \notin req[t].sets => type[req[t].id] = req[t].type
       /\ "active" \notin req[t].sets => active[req[t].id] = req[t].active
  /\ req[t].step \in {"siblings", "visit", "commit"} => Done(t)
  /\ req[t].step \in {"siblings", "visit"} => req[t].active
  /\ req[t].step = "commit" => ~req[t].active
  /\ req[t].step = "visit" =>
       /\ req[t].id \notin todo[t]
       /\ \A b \in Agent \ {req[t].id} :
            View(t, b).type = req[t].type /\ View(t, b).active => b \in todo[t]

Serial ==
  ~overlapped => \A t \in Txn : req[t].step # "idle" =>
    Progress(t) /\ \A u \in Txn \ {t} : req[u].step = "idle"

\* A step of t that keeps its progress keeps everyone's: the others are idle.
LEMMA SerialBy ==
  ASSUME Serial, NEW t \in Txn, \A u \in Txn \ {t} : req'[u] = req[u],
         ~overlapped' => ~overlapped /\ \A u \in Txn \ {t} : req[u].step = "idle",
         ~overlapped' /\ req'[t].step # "idle" => Progress(t)'
  PROVE  Serial'
<1> SUFFICES ASSUME ~overlapped', NEW u \in Txn, req'[u].step # "idle"
             PROVE  Progress(u)' /\ \A w \in Txn \ {u} : req'[w].step = "idle"
  BY DEF Serial
<1>1. u = t
  OBVIOUS
<1> QED
  BY <1>1

\* A request that begins while the others are idle sees the committed rows.
LEMMA SerialBegin ==
  ASSUME TypeOK, Serial, NEW t \in Txn, NEW step, NEW a, NEW ty, NEW act, NEW sets,
         Begin(t, step, a, ty, act, sets), ~overlapped'
  PROVE  /\ ~overlapped /\ \A u \in Txn \ {t} : req[u].step = "idle" /\ req'[u] = req[u]
         /\ req'[t] = [step |-> step, id |-> a, type |-> ty, active |-> act, sets |-> sets]
         /\ \A b \in Agent : pend[t][b] = None
BY DEF Begin, TypeOK, RequestsOK, WritesOK

\* A view depends on the pending version and the committed row only.
LEMMA ViewOf ==
  ASSUME NEW t \in Txn, NEW b \in Agent
  PROVE  /\ pend[t][b] = None => View(t, b) = [type |-> type[b], active |-> active[b]]
         /\ pend[t][b] # None => View(t, b) = pend[t][b]
BY DEF View

LEMMA BeginProgress ==
  ASSUME TypeOK, Serial, NEW t \in Txn, NEW step \in {"flush", "insert", "clear"},
         NEW a \in Agent \cup {None}, NEW ty, NEW act, NEW sets,
         Begin(t, step, a, ty, act, sets), UNCHANGED <<rows, pend>>,
         step = "flush" =>
           /\ a \in Agent
           /\ "type" \notin sets => type[a] = ty
           /\ "active" \notin sets => active[a] = act,
         step # "flush" => ty = Chat /\ act = TRUE
  PROVE  Serial'
<1>1. \A u \in Txn \ {t} : req'[u] = req[u]
  BY DEF Begin, TypeOK, RequestsOK
<1>2. ASSUME ~overlapped' PROVE Progress(t)'
  <2> DEFINE q == [step |-> step, id |-> a, type |-> ty, active |-> act, sets |-> sets]
  <2>1. req'[t] = q /\ \A b \in Agent : pend'[t][b] = None
    BY <1>2, SerialBegin
  <2>2. \A b \in Agent : View(t, b)' = [type |-> type'[b], active |-> active'[b]]
    BY <2>1 DEF View
  <2>3. \A b \in Agent : Side(t, b)'
    BY <2>2 DEF Side
  <2> QED
    BY <2>1, <2>3 DEF Progress, rows
<1> QED
  BY <1>1, <1>2, SerialBegin, SerialBy

\* An open request that goes on was the only one.
LEMMA SerialOn ==
  ASSUME Serial, NEW t \in Txn, req[t].step # "idle", UNCHANGED overlapped,
         \A u \in Txn \ {t} : req'[u] = req[u],
         Progress(t) /\ req'[t].step # "idle" => Progress(t)'
  PROVE  Serial'
<1>1. ~overlapped => Progress(t) /\ \A u \in Txn \ {t} : req[u].step = "idle"
  BY DEF Serial
<1> QED
  BY <1>1, SerialBy

\* A statement of t that writes a row sees what it wrote.
LEMMA WriteSeen ==
  ASSUME TypeOK, NEW t \in Txn, NEW a \in Agent, NEW r \in Row, pend' = [pend EXCEPT ![t][a] = r]
  PROVE  /\ View(t, a)' = r
         /\ \A b \in Agent \ {a} : pend'[t][b] = pend[t][b]
<1>1. pend'[t][a] = r /\ r # None /\ \A b \in Agent \ {a} : pend'[t][b] = pend[t][b]
  BY PendTyped DEF TypeOK
<1> QED
  BY <1>1 DEF View

LEMMA CreateProgress ==
  ASSUME TypeOK, Serial, NEW t \in Txn, CreateAgent(t)
  PROVE  Serial'
<1>1. PICK a \in Agent, ty \in Type, act \in BOOLEAN :
         /\ Begin(t, AfterWrite(act), a, ty, act, {"type", "active"})
         /\ pend' = [pend EXCEPT ![t][a] = [type |-> ty, active |-> act]]
         /\ UNCHANGED <<rows, todo>>
  BY DEF CreateAgent
<1>2. \A u \in Txn \ {t} : req'[u] = req[u]
  BY <1>1 DEF Begin, TypeOK, RequestsOK
<1>3. ASSUME ~overlapped' PROVE Progress(t)'
  <2> DEFINE q == [step |-> AfterWrite(act), id |-> a, type |-> ty, active |-> act,
                   sets |-> {"type", "active"}]
             v == [type |-> ty, active |-> act]
  <2>1. req'[t] = q /\ \A b \in Agent : pend[t][b] = None
    BY <1>1, <1>3, SerialBegin
  <2>2. v \in Row
    BY DEF Row
  <2>3. pend' = [pend EXCEPT ![t][a] = v] /\ UNCHANGED rows
    BY <1>1
  <2> HIDE DEF v
  <2>4. View(t, a)' = v /\ \A b \in Agent \ {a} : pend'[t][b] = None
    BY <2>1, <2>2, <2>3, WriteSeen
  <2>5. \A b \in Agent \ {a} : Side(t, b)'
    BY <2>3, <2>4 DEF Side, View
  <2>6. AfterWrite(act) = IF act THEN "siblings" ELSE "commit"
    BY DEF AfterWrite
  <2> QED
    BY <2>1, <2>4, <2>5, <2>6 DEF Progress, Done, v
<1> QED
  BY <1>1, <1>2, <1>3, SerialBegin, SerialBy

\* What the request writes is what it asked for, changed columns or all.
LEMMA FlushProgress ==
  ASSUME TypeOK, Serial, NEW t \in Txn, Flush(t)
  PROVE  Serial'
<1>0. PICK a \in Agent : a = req[t].id
  BY TransactionConstants DEF Flush, TypeOK, RequestsOK, Request
<1> DEFINE v == [type |-> IF "type" \in req[t].sets THEN req[t].type ELSE type[a],
                 active |-> IF "active" \in req[t].sets THEN req[t].active ELSE active[a]]
<1>1. /\ req[t].step = "flush" /\ UNCHANGED <<rows, todo, overlapped>>
      /\ Goto(t, AfterWrite(req[t].active))
      /\ pend' = [pend EXCEPT ![t][a] = v] \/ (req[t].sets = {} /\ UNCHANGED pend)
  BY <1>0 DEF Flush
<1>2. /\ req[t] \in Request /\ req[t].type \in Type /\ type[a] \in Type
  BY <1>0, <1>1, TransactionConstants DEF TypeOK, RequestsOK, RowsOK, WritesOK, Request
<1>3. v \in Row
  BY <1>2 DEF TypeOK, RowsOK, Row, Request
<1>4. /\ \A u \in Txn \ {t} : req'[u] = req[u]
      /\ req'[t] = [req[t] EXCEPT !.step = AfterWrite(req[t].active)]
  BY <1>1 DEF Goto, TypeOK, RequestsOK
<1>5. /\ req'[t].step = AfterWrite(req[t].active) /\ req'[t].id = a /\ req'[t].type = req[t].type
      /\ req'[t].active = req[t].active /\ req[t].active \in BOOLEAN
  BY <1>0, <1>2, <1>4 DEF Request
<1>6. ASSUME Progress(t) PROVE Progress(t)'
  <2>1. /\ v = [type |-> req[t].type, active |-> req[t].active] /\ pend[t][a] = None
    BY <1>0, <1>1, <1>6 DEF Progress
  <2>2. /\ View(t, a)' = v
        /\ \A b \in Agent \ {a} : pend'[t][b] = pend[t][b]
    <3>1. CASE pend' = [pend EXCEPT ![t][a] = v]
      <4> HIDE DEF v
      <4> QED
        BY <1>3, <3>1, WriteSeen
    <3>2. CASE req[t].sets = {} /\ UNCHANGED pend
      <4>1. v = [type |-> type[a], active |-> active[a]]
        BY <3>2
      <4> HIDE DEF v
      <4>2. View(t, a)' = [type |-> type[a], active |-> active[a]]
        BY <1>1, <2>1, <3>2 DEF View, rows
      <4> QED
        BY <3>2, <4>1, <4>2
    <3> QED
      BY <1>1, <3>1, <3>2
  <2>3. \A b \in Agent \ {a} : Side(t, b)'
    BY <1>0, <1>1, <1>5, <1>6, <2>2 DEF Progress, Side, View, rows
  <2>4. AfterWrite(req[t].active) = IF req[t].active THEN "siblings" ELSE "commit"
    BY DEF AfterWrite
  <2> HIDE DEF v
  <2> QED
    BY <1>5, <2>1, <2>2, <2>3, <2>4 DEF Progress, Done
<1> QED
  BY <1>1, <1>4, <1>6, SerialOn

LEMMA InsertProgress ==
  ASSUME TypeOK, Serial, NEW t \in Txn, InsertChat(t)
  PROVE  Serial'
<1> DEFINE v == [type |-> Chat, active |-> TRUE]
<1>1. PICK a \in Agent :
         /\ Fresh(a) /\ pend' = [pend EXCEPT ![t][a] = v]
         /\ req' = [req EXCEPT ![t].step = "siblings", ![t].id = a]
  BY DEF InsertChat
<1>2. /\ req[t].step \in {"insert", "clear"} /\ UNCHANGED <<rows, todo, overlapped>>
      /\ req[t] \in Request /\ req[t].id = None
  BY DEF InsertChat, TypeOK, RequestsOK
<1>3. /\ \A u \in Txn \ {t} : req'[u] = req[u]
      /\ req'[t] = [req[t] EXCEPT !.step = "siblings", !.id = a]
  BY <1>1 DEF TypeOK, RequestsOK
<1>4. /\ req'[t].step = "siblings" /\ req'[t].id = a /\ req'[t].type = req[t].type
      /\ req'[t].active = req[t].active
  BY <1>2, <1>3 DEF Request
<1>5. v \in Row
  BY TransactionConstants DEF Row
<1>6. View(t, a)' = v /\ \A b \in Agent \ {a} : pend'[t][b] = pend[t][b]
  <2>1. pend' = [pend EXCEPT ![t][a] = v]
    BY <1>1
  <2> HIDE DEF v
  <2> QED
    BY <1>5, <2>1, WriteSeen
<1>7. ASSUME Progress(t) PROVE Progress(t)'
  <2>1. req[t].type = Chat /\ req[t].active = TRUE
    BY <1>2, <1>7 DEF Progress, Request
  <2>2. View(t, a)' = v
    BY <1>6
  <2>3. \A b \in Agent : Side(t, b)
    BY <1>2, <1>7, TransactionConstants DEF Progress
  <2>4. \A b \in Agent \ {a} : Side(t, b)'
    BY <1>2, <1>4, <1>6, <2>3 DEF Side, View, rows
  <2> QED
    BY <1>4, <2>1, <2>2, <2>4 DEF Progress, Done
<1> QED
  BY <1>2, <1>3, <1>7, SerialOn

LEMMA SelectProgress ==
  ASSUME TypeOK, Serial, NEW t \in Txn, SelectSiblings(t)
  PROVE  Serial'
<1>1. /\ req[t].step = "siblings" /\ UNCHANGED <<rows, pend, overlapped>>
      /\ todo' = [todo EXCEPT ![t] = Matching(t, req[t].type) \ {req[t].id}]
  BY DEF SelectSiblings
<1>2. /\ \A u \in Txn \ {t} : req'[u] = req[u]
      /\ req'[t] = [req[t] EXCEPT !.step = "visit"] /\ req[t] \in Request
  BY DEF SelectSiblings, Goto, TypeOK, RequestsOK
<1>3. /\ req'[t].step = "visit" /\ req'[t].id = req[t].id /\ req'[t].type = req[t].type
      /\ req'[t].active = req[t].active
  BY <1>2 DEF Request
<1>4. todo'[t] = Matching(t, req[t].type) \ {req[t].id}
  BY <1>1 DEF TypeOK, RowsOK
<1>5. \A b \in Agent : View(t, b)' = View(t, b)
  BY <1>1 DEF View, rows
<1>6. req[t].id \in Agent
  BY <1>1, TransactionConstants DEF TypeOK, RequestsOK, Request
<1>7. ASSUME Progress(t) PROVE Progress(t)'
  <2>1. \A b \in Agent \ {req[t].id} : Side(t, b)'
    BY <1>1, <1>3, <1>5, <1>7 DEF Progress, Side, rows
  <2>2. Done(t)' /\ req'[t].active
    BY <1>1, <1>3, <1>5, <1>6, <1>7 DEF Progress, Done
  <2>3. \A b \in Agent \ {req[t].id} :
          View(t, b)'.type = req[t].type /\ View(t, b)'.active => b \in todo'[t]
    BY <1>4, <1>5 DEF Matching
  <2> QED
    BY <1>3, <1>4, <2>1, <2>2, <2>3 DEF Progress
<1> QED
  BY <1>1, <1>2, <1>7, SerialOn

\* The UPDATE switches a sibling off and crosses it off its list.
LEMMA VisitProgress ==
  ASSUME TypeOK, Serial, NEW t \in Txn, Visit(t)
  PROVE  Serial'
<1> DEFINE v == [type |-> req[t].type, active |-> FALSE]
<1>1. PICK a \in todo[t] :
        /\ todo' = [todo EXCEPT ![t] = @ \ {a}]
        /\ IF /\ View(t, a).type = req[t].type
              /\ View(t, a).active \/ req[t].step = "clear"
             THEN pend' = [pend EXCEPT ![t][a] = v]
             ELSE UNCHANGED pend
  BY DEF Visit
<1>2. /\ req[t].step \in {"clear", "visit"} /\ UNCHANGED <<rows, req, overlapped>>
      /\ a \in Agent /\ todo'[t] = todo[t] \ {a}
      /\ req[t] \in Request /\ req[t].type \in Type /\ req[t].type # None
  BY <1>1, TransactionConstants DEF Visit, TypeOK, RowsOK, RequestsOK, Request
<1>3. v \in Row
  BY <1>2 DEF Row
<1>4. ASSUME Progress(t) PROVE Progress(t)'
  <2>1. a # req[t].id
    BY <1>1, <1>2, <1>4, TransactionConstants DEF Progress, TypeOK, RequestsOK
  <2>2. req[t].active
    BY <1>2, <1>4 DEF Progress
  <2>3. CASE View(t, a).type = req[t].type /\ pend' = [pend EXCEPT ![t][a] = v]
    <3> HIDE DEF v
    <3>1. View(t, a)' = v /\ \A b \in Agent \ {a} : pend'[t][b] = pend[t][b]
      BY <1>2, <1>3, <2>3, WriteSeen
    <3>2. View(t, a)' = v /\ \A b \in Agent \ {a} : View(t, b)' = View(t, b)
      BY <1>2, <3>1 DEF View, rows
    <3>3. Side(t, a)'
      <4>1. type[a] = req[t].type
        BY <1>2, <1>4, <2>1, <2>3 DEF Progress, Side
      <4> QED
        BY <1>2, <2>2, <3>2, <4>1 DEF Side, rows, v
    <3>4. \A b \in Agent \ {a, req[t].id} : Side(t, b)'
      BY <1>2, <1>4, <3>2 DEF Progress, Side, rows
    <3>5. req[t].step = "visit" =>
            \A b \in Agent \ {req[t].id} :
              View(t, b)'.type = req[t].type /\ View(t, b)'.active => b \in todo'[t]
      BY <1>2, <1>4, <3>2 DEF Progress, v
    <3>6. req[t].step = "visit" => Done(t)' /\ req[t].id \notin todo'[t]
      <4>1. req[t].step = "visit" => req[t].id \in Agent
        BY <1>2 DEF TypeOK, RequestsOK, Request
      <4> QED
        BY <1>2, <1>4, <2>1, <3>2, <4>1 DEF Progress, Done
    <3> QED
      BY <1>2, <1>4, <3>3, <3>4, <3>5, <3>6 DEF Progress
  <2>4. CASE /\ ~(View(t, a).type = req[t].type /\ (View(t, a).active \/ req[t].step = "clear"))
             /\ UNCHANGED pend
    <3>1. \A b \in Agent : View(t, b)' = View(t, b)
      BY <1>2, <2>4 DEF View, rows
    <3>2. \A b \in Agent \ {req[t].id} : Side(t, b)'
      BY <1>2, <1>4, <3>1 DEF Progress, Side, rows
    <3>3. req[t].step = "visit" =>
            \A b \in Agent \ {req[t].id} :
              View(t, b)'.type = req[t].type /\ View(t, b)'.active => b \in todo'[t]
      BY <1>2, <1>4, <2>4, <3>1 DEF Progress
    <3>4. req[t].step = "visit" => Done(t)' /\ req[t].id \notin todo'[t]
      <4>1. req[t].step = "visit" => req[t].id \in Agent
        BY <1>2 DEF TypeOK, RequestsOK, Request
      <4> QED
        BY <1>2, <1>4, <3>1, <4>1 DEF Progress, Done
    <3> QED
      BY <1>2, <1>4, <3>2, <3>3, <3>4 DEF Progress
  <2> QED
    BY <1>1, <2>3, <2>4
<1> QED
  BY <1>2, <1>4, SerialOn

LEMMA SerialStep == TypeOK /\ Serial /\ [Next]_vars => Serial'
<1> SUFFICES ASSUME TypeOK, Serial, [Next]_vars PROVE Serial'
  OBVIOUS
<1>1. ASSUME NEW t \in Txn, PatchChat(t) PROVE Serial'
  <2>1. UNCHANGED <<rows, pend>>
    BY <1>1 DEF PatchChat
  <2>2. CASE Begin(t, "insert", None, Chat, TRUE, {"type", "active"})
    BY <2>1, <2>2, BeginProgress
  <2>3. CASE \E a \in Matching(t, Chat) : Begin(t, "flush", a, Chat, TRUE, {})
    <3>1. PICK a \in Matching(t, Chat) : Begin(t, "flush", a, Chat, TRUE, {})
      BY <2>3
    <3>2. a \in Agent /\ View(t, a).type = Chat /\ View(t, a).active /\ pend[t][a] = None
      BY <3>1 DEF Matching, Begin, TypeOK, WritesOK
    <3>3. type[a] = Chat /\ active[a] = TRUE
      BY <3>2 DEF View, TypeOK, RowsOK
    <3> QED
      BY <2>1, <3>1, <3>2, <3>3, BeginProgress
  <2> QED
    BY <1>1, <2>2, <2>3 DEF PatchChat
<1>2. ASSUME NEW t \in Txn, UpdateAgent(t) PROVE Serial'
  <2>1. PICK a \in Agent, ty \in Type, act \in BOOLEAN :
           Begin(t, "flush", a, ty, act,
                 (IF ty # type[a] THEN {"type"} ELSE {})
                   \cup (IF act # active[a] THEN {"active"} ELSE {}))
    BY <1>2 DEF UpdateAgent
  <2> DEFINE sets == (IF ty # type[a] THEN {"type"} ELSE {})
                       \cup (IF act # active[a] THEN {"active"} ELSE {})
  <2>2. ("type" \notin sets => type[a] = ty) /\ ("active" \notin sets => active[a] = act)
    OBVIOUS
  <2>3. UNCHANGED <<rows, pend>> /\ Begin(t, "flush", a, ty, act, sets)
    BY <1>2, <2>1 DEF UpdateAgent
  <2> HIDE DEF sets
  <2> QED
    BY <2>2, <2>3, BeginProgress
<1>3. ASSUME NEW t \in Txn, DeactivateAgent(t) PROVE Serial'
  <2>1. PICK a \in Agent :
          Begin(t, "flush", a, type[a], FALSE, IF active[a] THEN {"active"} ELSE {})
    BY <1>3 DEF DeactivateAgent
  <2> DEFINE sets == IF active[a] THEN {"active"} ELSE {}
  <2>2. "active" \notin sets => active[a] = FALSE
    BY DEF TypeOK, RowsOK
  <2>3. UNCHANGED <<rows, pend>> /\ Begin(t, "flush", a, type[a], FALSE, sets)
    BY <1>3, <2>1 DEF DeactivateAgent
  <2> HIDE DEF sets
  <2> QED
    BY <2>2, <2>3, BeginProgress
<1>4. ASSUME NEW t \in Txn, OnboardAgent(t) PROVE Serial'
  BY <1>4, BeginProgress DEF OnboardAgent
<1>5. ASSUME NEW t \in Txn, Commit(t) \/ Rollback(t) PROVE Serial'
  <2>1. End(t) /\ req[t].step # "idle"
    BY <1>5 DEF Commit, Rollback
  <2>2. (\A u \in Txn \ {t} : req'[u] = req[u]) /\ req'[t].step = "idle" /\ UNCHANGED overlapped
    BY <2>1, EndTyped DEF End
  <2> QED
    BY <2>1, <2>2, SerialOn
<1>6. CASE UNCHANGED vars
  BY <1>6 DEF vars, rows, Serial, Progress, Side, Done, View
<1> QED
  BY <1>1, <1>2, <1>3, <1>4, <1>5, <1>6, CreateProgress, FlushProgress, InsertProgress,
     SelectProgress, VisitProgress DEF Next

\* A commit of the only open request is the command that puts its agent.
LEMMA CommitIsCommand ==
  ASSUME TypeOK, Serial, ~overlapped, NEW t \in Txn, Commit(t)
  PROVE  Commands!Next
<1> DEFINE a == req[t].id
           ty == req[t].type
           act == req[t].active
<1>1. /\ req[t].step \in {"commit", "visit"} /\ (req[t].step = "visit" => todo[t] = {})
      /\ type' = [b \in Agent |-> View(t, b).type] /\ active' = [b \in Agent |-> View(t, b).active]
  BY DEF Commit
<1>2. Progress(t)
  BY <1>1 DEF Serial
<1>3. a \in Agent /\ ty \in Type /\ act \in BOOLEAN
  BY <1>1, TransactionConstants DEF TypeOK, RequestsOK, Request
<1>4. View(t, a) = [type |-> ty, active |-> act]
  BY <1>1, <1>2 DEF Progress, Done
<1>5. type' = [type EXCEPT ![a] = ty]
  <2>1. \A b \in Agent : View(t, b).type = IF b = a THEN ty ELSE type[b]
    BY <1>2, <1>4 DEF Progress, Side
  <2>2. type \in [Agent -> Type \cup {None}]
    BY DEF TypeOK, RowsOK
  <2> HIDE DEF a, ty
  <2>3. type' = [b \in Agent |-> IF b = a THEN ty ELSE type[b]]
    BY <1>1, <2>1
  <2> QED
    BY <1>3, <2>2, <2>3
<1>6. ASSUME NEW b \in Agent
      PROVE  View(t, b).active = IF b = a THEN act
                                 ELSE IF act /\ type[b] = ty THEN FALSE
                                 ELSE active[b]
  <2>1. CASE b = a
    BY <1>4, <2>1
  <2>2. CASE b # a
    <3>1. Side(t, b) /\ View(t, b).active \in BOOLEAN
      BY <1>2, <1>6, <2>2, ViewTyped DEF Progress, TypeOK
    <3>2. act /\ type[b] = ty => ~View(t, b).active
      BY <1>1, <1>2, <2>2, <3>1 DEF Progress, Side
    <3> QED
      BY <2>2, <3>1, <3>2 DEF Side
  <2> QED
    BY <2>1, <2>2
<1>7. Commands!Put(a, ty, act)
  <2>1. active' = [b \in Agent |-> IF b = a THEN act
                                   ELSE IF act /\ type[b] = ty THEN FALSE
                                   ELSE active[b]]
    BY <1>1, <1>6
  <2> QED
    BY <1>5, <2>1 DEF Commands!Put
<1> HIDE DEF a, ty, act
<1>8. CASE type[a] = None
  BY <1>3, <1>7, <1>8 DEF Commands!Next, Commands!CreateAgent
<1>9. CASE type[a] # None
  BY <1>3, <1>7, <1>9 DEF Commands!Next, Commands!UpdateAgent
<1> QED
  BY <1>8, <1>9

\* The statements of a request that runs alone implement one atomic command,
\* done at its commit, and nothing if it is rolled back.
THEOREM SerialImplements == Spec => SerialCommands
<1>1. ASSUME Init PROVE Serial /\ Commands!Init
  BY <1>1 DEF Init, Serial, NoRequest, Commands!Init
<1>2. ASSUME TypeOK, Serial, [Next]_vars PROVE [overlapped' \/ Commands!Next]_rows
  <2> SUFFICES ASSUME ~overlapped', ~UNCHANGED rows PROVE Commands!Next
    OBVIOUS
  <2>1. \E t \in Txn : Commit(t)
    BY <1>2 DEF Next, vars, CreateAgent, PatchChat, UpdateAgent, DeactivateAgent, OnboardAgent,
       Flush, InsertChat, SelectSiblings, Visit, Rollback
  <2>2. PICK t \in Txn : Commit(t)
    BY <2>1
  <2>3. ~overlapped
    BY <2>2 DEF Commit, End
  <2> QED
    BY <1>2, <2>2, <2>3, CommitIsCommand
<1> QED
  BY <1>1, <1>2, TypeCorrect, SerialStep, PTL DEF Spec, SerialCommands

\* So the promise holds in the database until two requests have overlapped.
THEOREM SingleUntilOverlap == Spec => [](~overlapped => Commands!AtMostOneActive)
<1> DEFINE Inv == ~overlapped => CommandInv
<1>1. ASSUME Init PROVE Inv
  BY <1>1 DEF Init, CommandInv, Commands!AtMostOneActive, Commands!ActiveOf
<1>2. ASSUME Inv, [overlapped' \/ Commands!Next]_rows, overlapped => overlapped' PROVE Inv'
  BY <1>2, CommandStep DEF Commands!vars, rows
<1>3. ASSUME [Next]_vars PROVE overlapped => overlapped'
  BY <1>3 DEF Next, vars, CreateAgent, PatchChat, UpdateAgent, DeactivateAgent, OnboardAgent,
     Begin, Flush, InsertChat, SelectSiblings, Visit, Commit, Rollback, End
<1>4. Inv => (~overlapped => Commands!AtMostOneActive)
  BY DEF CommandInv
<1> QED
  BY <1>1, <1>2, <1>3, <1>4, SerialImplements, PTL DEF Spec, SerialCommands
=============================================================================
