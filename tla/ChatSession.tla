---------------------------- MODULE ChatSession ----------------------------
(***************************************************************************)
(* Chat requests of one store: POST /chat behind the rate limiter, and     *)
(* WhatsApp webhooks, whose payload may carry messages of several people.  *)
(* A request is one transaction at READ COMMITTED around all its messages; *)
(* replies to WhatsApp are queued before it commits. Meta delivers a       *)
(* payload again until it is answered 200, also while an attempt is still  *)
(* under way. How a queued reply is sent, retried and de-duplicated by     *)
(* phone and text is TaskExecution; here a text counts as sent once.       *)
(***************************************************************************)
EXTENDS RateLimiter, FiniteSets, Sequences

CONSTANTS
  Message, From, Words, \* From[m]: session or phone, None without a session;
                        \* Words[m]: the word classes its text contains
  Ours,                 \* messages to a phone number some store has
  Long,                 \* messages over the 4000 characters of ChatRequest
  Payload, Content,     \* Content[p]: the text messages of a payload
  Hooks,                \* payloads that are WhatsApp webhooks
  Setups,               \* BOUNDS: payloads, faults, impatience of a run
  MaxClock,             \* BOUND: transactions until Meta stops to repeat a webhook
                        \* that can never be answered
  Slot,                 \* requests that may run at the same time, numbered
  HistoryLimit,         \* messages read as context (10)
  None

VARIABLES
  setup,      \* what this behaviour starts with
  asked,      \* payloads received at least once
  clock,      \* transactions begun, for created_at
  users,      \* committed user rows
  turns,      \* committed turns
  req,        \* what each slot works on
  outbox,     \* replies queued for WhatsApp, by phone and text
  sent,       \* replies that reached the phone
  dropped,    \* history: the broker or the retries gave up on the reply
  acks,       \* history: 200 responses to a payload
  cut,        \* history: attempts that committed and died before they answered
  hollow,     \* history: attempts answered 200 over a rolled-back transaction
  faults,     \* faults still to come
  impatience  \* times Meta still gives up on an attempt under way

history == <<dropped, acks, cut, hollow>>
chatVars == <<setup, asked, clock, users, turns, req, outbox, sent, history, faults, impatience>>
vars == <<limiterVars, chatVars>>

Phone == {From[m] : m \in Message} \ {None}
Class == {"greeting", "order status", "support", "price", "price 0", "category", "keyword"}
Intent == Class \cup {"product", "general"}
Text == [kind : Intent \cup {"llm", "sorry"}, msg : Message \cup {None}, at : Nat]
Part == {"user", "assistant", "event"}
Turn == [msg : Message, at : Nat, text : Text, parts : SUBSET Part]
User == [ext : Phone, at : Nat]
Reply == [to : Phone, text : Text]

ASSUME ChatConstants ==
  /\ None \notin Message /\ Ours \subseteq Message /\ Long \subseteq Message
  /\ MaxClock \in Nat /\ Hooks \subseteq Payload /\ Slot \subseteq Nat
  /\ Words \in [Message -> SUBSET Class]
  /\ Content \in [Payload -> Seq(Message)]
  /\ HistoryLimit \in Nat \ {0}
  /\ \A s \in Setups : /\ s.payloads \subseteq Payload
                       /\ s.faults \in Nat /\ s.impatience \in Nat

\* detect_intent: the first class that matches decides.
IntentOf(m) ==
  IF "greeting" \in Words[m] THEN "greeting"
  ELSE IF "order status" \in Words[m] THEN "order status"
  ELSE IF "support" \in Words[m] THEN "support"
  ELSE IF Words[m] = {} THEN "general" ELSE "product"

\* The canned replies never differ; the model's do, or it fails.
Answers(m, at) ==
  IF IntentOf(m) # "product" THEN {[kind |-> IntentOf(m), msg |-> None, at |-> 0]}
  ELSE {[kind |-> "llm", msg |-> m, at |-> at], [kind |-> "sorry", msg |-> None, at |-> 0]}

\* A search "under 0" raises each time: ProductSearchFilters wants more than 0.
Unsearchable(m) == IntentOf(m) = "product" /\ "price 0" \in Words[m]

\* Only a search or an order question asks the database for its answer.
NeedsRows(m) == IntentOf(m) \in {"product", "order status"}

NoText == [kind |-> "general", msg |-> None, at |-> 0]
Idle == [step |-> "idle", payload |-> None, at |-> 0, left |-> <<>>, window |-> 0,
         new |-> {}, rows |-> {}, parts |-> {}, text |-> NoText, session |-> "ok"]

Messages(p) == {Content[p][i] : i \in DOMAIN Content[p]}

\* A message comes in one payload, once; without a sender it is not taken from
\* a webhook, and POST /chat has one message.
ASSUME ChatPayloads ==
  /\ IsFiniteSet(Slot)
  /\ \A p \in Payload : \A i, j \in DOMAIN Content[p] : Content[p][i] = Content[p][j] => i = j
  /\ \A p, q \in Payload : p # q => Messages(p) \cap Messages(q) = {}
  /\ \A p \in Hooks : \A m \in Messages(p) : From[m] # None
  /\ \A p \in Payload \ Hooks : Len(Content[p]) = 1

Busy(r) == req[r].step # "idle"
Current(r) == Head(req[r].left)
Sender(r) == From[Current(r)]
ByWhatsApp(r) == req[r].payload \in Hooks

\* The steps of one message: a session has rows, the others do not.
First(left, hook) ==
  IF left = <<>> THEN "commit"
  ELSE IF hook THEN "lookup"
  ELSE IF From[Head(left)] = None THEN "answer" ELSE "user"

Goto(r, step) == req' = [req EXCEPT ![r].step = step]
NextMessage(q, hook) ==
  [q EXCEPT !.left = Tail(@), !.step = First(Tail(q.left), hook), !.parts = {}, !.text = NoText]

Spend == faults > 0 /\ faults' = faults - 1
KeepData == UNCHANGED <<users, turns>>
KeepQueue == UNCHANGED <<outbox, sent, dropped>>
KeepResponses == UNCHANGED <<acks, cut, hollow>>
KeepWorld == UNCHANGED <<setup, asked, clock, impatience>>
Local == KeepData /\ KeepQueue /\ KeepResponses /\ KeepWorld /\ UNCHANGED limiterVars

Init ==
  /\ LimiterInit
  /\ setup \in Setups
  /\ asked = {} /\ clock = 0 /\ users = {} /\ turns = {}
  /\ req = [r \in Slot |-> Idle]
  /\ outbox = {} /\ sent = {} /\ dropped = {}
  /\ acks = [p \in Payload |-> 0] /\ cut = [p \in Payload |-> 0] /\ hollow = [p \in Payload |-> 0]
  /\ faults = setup.faults /\ impatience = setup.impatience

(***************************************************************************)
(* A payload arrives                                                       *)
(***************************************************************************)
Begin(r, p, step) ==
  /\ ~Busy(r) /\ \A q \in Slot : q < r => Busy(q) \* slots are only names
  /\ p \in setup.payloads
  /\ asked' = asked \cup {p} /\ clock' = clock + 1
  /\ req' = [req EXCEPT ![r] = [Idle EXCEPT !.step = step, !.payload = p, !.at = clock + 1,
                                            !.left = Content[p], !.window = minute]]
  /\ KeepData /\ KeepQueue /\ KeepResponses
  /\ UNCHANGED <<setup, faults, limiterVars>>

\* Messages of p that get as far as the chat, and a payload whose messages can
\* all be handled.
Kept(p) == {m \in Messages(p) : From[m] # None /\ (p \in Hooks => m \in Ours)}
Answerable(p) == \A m \in Kept(p) : m \notin Long /\ ~Unsearchable(m)

UnderWay(p) == \E r \in Slot : req[r].payload = p

\* A webhook, for the first time or again.
Deliver(r, p) ==
  /\ p \in Hooks /\ acks[p] = 0
  /\ Answerable(p) \/ clock < MaxClock
  /\ IF UnderWay(p) THEN impatience > 0 /\ impatience' = impatience - 1
     ELSE UNCHANGED impatience
  /\ Begin(r, p, First(Content[p], TRUE))

\* POST /chat with a valid key; the client does not repeat it.
Ask(r, p) ==
  /\ p \notin Hooks /\ p \notin asked
  /\ UNCHANGED impatience
  /\ Begin(r, p, "limit")

(***************************************************************************)
(* The rate limiter, before POST /chat                                     *)
(***************************************************************************)
\* Let through; the body is only then found too long, and answered 422.
Unlimited(r) ==
  IF Current(r) \in Long THEN req' = [req EXCEPT ![r] = Idle]
  ELSE Goto(r, First(req[r].left, FALSE))
LimiterOnly == KeepData /\ KeepQueue /\ KeepResponses /\ KeepWorld

\* Faulty variant: the key gets its time to live when the window is full
CountTtlLater(r) ==
  LET w == req[r].window
      n == counter[w] + 1
  IN
  /\ req[r].step = "limit"
  /\ Incr(w)
  /\ IF Over(n) THEN req' = [req EXCEPT ![r] = Idle]
     ELSE IF n = Limit THEN Goto(r, "expire") ELSE Unlimited(r)
  /\ LimiterOnly /\ UNCHANGED faults

\* INCR; over the limit the answer is 429.
CountRequest(r) ==
  LET w == req[r].window
      n == counter[w] + 1
  IN
  /\ req[r].step = "limit"
  /\ Incr(w)
  /\ IF Over(n) THEN req' = [req EXCEPT ![r] = Idle]
     ELSE IF n = 1 THEN Goto(r, "expire") ELSE Unlimited(r)
  /\ LimiterOnly /\ UNCHANGED faults

SetTtl(r) ==
  /\ req[r].step = "expire"
  /\ Expire(req[r].window)
  /\ Unlimited(r)
  /\ LimiterOnly /\ UNCHANGED faults

RedisFails(r) ==
  /\ Spend
  /\ \/ req[r].step = "limit" /\ Spare(req[r].window)
     \/ req[r].step = "expire" /\ Leak(req[r].window)
  /\ Unlimited(r)
  /\ LimiterOnly

(***************************************************************************)
(* A request ends without a commit                                         *)
(***************************************************************************)
Rollback(r) == req' = [req EXCEPT ![r] = Idle]

\* An exception: get_db rolls back and the answer is 500.
RaiseIn(r) == Rollback(r) /\ Local

\* The process dies or the client is gone: whatever is queued stays queued.
Crash(r) ==
  /\ Busy(r) /\ Spend
  /\ Rollback(r)
  /\ cut' = IF req[r].step = "respond" /\ req[r].session = "ok"
            THEN [cut EXCEPT ![req[r].payload] = @ + 1] ELSE cut
  /\ IF req[r].step = "expire" THEN Leak(req[r].window) ELSE UNCHANGED limiterVars
  /\ KeepData /\ KeepQueue /\ KeepWorld /\ UNCHANGED <<acks, hollow>>

\* A statement fails outside of any try block.
StatementRaises(r) ==
  /\ \/ req[r].step \in {"lookup", "user", "insert"}
     \/ req[r].step = "answer" /\ NeedsRows(Current(r))
  /\ Spend
  /\ RaiseIn(r)

(***************************************************************************)
(* One message                                                             *)
(***************************************************************************)
\* The store is found by the phone number id of the message, or it is ignored;
\* after a message that left the session unwell the query raises, and a body
\* that is too long makes ChatRequest raise, on every delivery.
Lookup(r) ==
  /\ req[r].step = "lookup"
  /\ IF req[r].session # "ok" \/ Current(r) \in Ours \cap Long THEN Rollback(r)
     ELSE IF Current(r) \in Ours THEN Goto(r, "user")
     ELSE req' = [req EXCEPT ![r] = NextMessage(@, TRUE)]
  /\ Local /\ UNCHANGED faults

\* The user row as this transaction sees it.
Known(r) == {u.ext : u \in users} \cup req[r].new

\* get_or_create_user, and the rows read as context.
GetUser(r) ==
  /\ req[r].step = "user"
  /\ Goto(r, IF Sender(r) \in Known(r) THEN "inbound" ELSE "insert")
  /\ Local /\ UNCHANGED faults

Pending(r) == {q \in Slot \ {r} : Sender(r) \in req[q].new}
Inserted(r) == req' = [req EXCEPT ![r].new = @ \cup {Sender(r)}, ![r].step = "inbound"]

\* Faulty variant: external_id is not unique
InsertUserAnyway(r) ==
  /\ req[r].step = "insert"
  /\ Inserted(r)
  /\ Local /\ UNCHANGED faults

\* Faulty variant: a conflicting INSERT is repeated without another look
InsertUserAgain(r) ==
  /\ req[r].step = "insert" /\ Pending(r) = {}
  /\ IF Sender(r) \in {u.ext : u \in users} THEN UNCHANGED req ELSE Inserted(r)
  /\ Local /\ UNCHANGED faults

\* The unique index: wait for a pending row, fail on a committed one.
InsertUser(r) ==
  /\ req[r].step = "insert" /\ Pending(r) = {}
  /\ IF Sender(r) \in {u.ext : u \in users} THEN Rollback(r) ELSE Inserted(r)
  /\ Local /\ UNCHANGED faults

\* Two payloads with the same two new senders in opposite order: PostgreSQL ends
\* r, which wakes the other long before Meta delivers the payload again.
DeadlockVictim(r) ==
  /\ req[r].step = "insert"
  /\ \E q \in Pending(r) :
       /\ req[q].step = "insert" /\ Pending(q) = {r}
       /\ req' = [req EXCEPT ![r] = Idle, ![q].new = @ \cup {Sender(q)}, ![q].step = "inbound"]
  /\ Local /\ UNCHANGED faults

\* A session after an INSERT and its refresh inside try/except: a failed INSERT
\* poisons it, a failed SELECT only aborts the transaction under it.
Outcome == {"ok", "poisoned", "aborted"}
\* Faulty variant: a savepoint around the guarded block
FlushedInSavepoint(s, fault) == s
Flushed(s, fault) == IF s = "ok" THEN fault ELSE "poisoned"
\* The same for a block that begins with a SELECT.
Tracked(s, fault) == IF s = "ok" THEN fault ELSE s

\* Faults happen to a session that is well; at most one in a step.
Fault(s, outcome) ==
  IF outcome = "ok" THEN UNCHANGED faults ELSE s = "ok" /\ Spend

\* The customer's row is added; an error is logged and the chat goes on.
AddInbound(r) ==
  /\ req[r].step = "inbound"
  /\ \E outcome \in Outcome :
       /\ Fault(req[r].session, outcome)
       /\ req' = [req EXCEPT ![r].session = Flushed(@, outcome), ![r].step = "answer",
                             ![r].parts = IF outcome = "ok" THEN {"user"} ELSE {}]
  /\ Local

\* Intent, products, model: a session that is not well raises when asked.
AnswerMessage(r) ==
  /\ req[r].step = "answer"
  /\ IF \/ Unsearchable(Current(r))
        \/ NeedsRows(Current(r)) /\ req[r].session # "ok" THEN Rollback(r)
     ELSE \E x \in Answers(Current(r), req[r].at) :
            req' = [req EXCEPT ![r].text = x,
                               ![r].step = IF Sender(r) = None THEN "commit" ELSE "reply"]
  /\ Local /\ UNCHANGED faults

\* The assistant's row, in a try block of its own.
AddReply(r) ==
  /\ req[r].step = "reply"
  /\ \E outcome \in Outcome :
       /\ Fault(req[r].session, outcome)
       /\ req' = [req EXCEPT ![r].session = Flushed(@, outcome), ![r].step = "event",
                             ![r].parts = IF outcome = "ok" THEN @ \cup {"assistant"} ELSE @]
  /\ Local

\* track_chat_turn, in another.
TrackTurn(r) ==
  /\ req[r].step = "event"
  /\ \E outcome \in Outcome :
       /\ Fault(req[r].session, outcome)
       /\ LET parts == IF outcome = "ok" THEN req[r].parts \cup {"event"} ELSE req[r].parts
              turn == [msg |-> Current(r), at |-> req[r].at, text |-> req[r].text, parts |-> parts]
          IN  req' = [req EXCEPT ![r].session = Tracked(@, outcome), ![r].rows = @ \cup {turn},
                                ![r].step = IF ByWhatsApp(r) THEN "send" ELSE "commit"]
  /\ Local

\* The reply is queued now, before the commit; a broker error is logged.
SendReply(r) ==
  LET reply == [to |-> Sender(r), text |-> req[r].text] IN
  /\ req[r].step = "send"
  /\ req' = [req EXCEPT ![r] = NextMessage(@, TRUE)]
  /\ \/ outbox' = outbox \cup {reply} /\ UNCHANGED <<sent, dropped, faults>>
     \/ dropped' = dropped \cup {reply} /\ Spend /\ UNCHANGED <<outbox, sent>>
  /\ KeepData /\ KeepResponses /\ KeepWorld /\ UNCHANGED limiterVars

(***************************************************************************)
(* The end of a request                                                    *)
(***************************************************************************)
\* Over an aborted transaction PostgreSQL turns COMMIT into a silent rollback;
\* a poisoned session refuses to commit.
Commit(r) ==
  /\ req[r].step = "commit"
  /\ \/ /\ req[r].session = "ok"
        /\ users' = users \cup [ext : req[r].new, at : {req[r].at}]
        /\ turns' = turns \cup req[r].rows
        /\ req' = [req EXCEPT ![r].step = "respond", ![r].new = {}, ![r].rows = {}]
     \/ /\ req[r].session = "aborted"
        /\ req' = [req EXCEPT ![r].step = "respond", ![r].new = {}, ![r].rows = {}]
        /\ KeepData
     \/ req[r].session = "poisoned" /\ Rollback(r) /\ KeepData
  /\ KeepQueue /\ KeepResponses /\ KeepWorld /\ UNCHANGED <<faults, limiterVars>>

CommitFails(r) ==
  /\ req[r].step = "commit" /\ Spend
  /\ RaiseIn(r)

Respond(r) ==
  LET p == req[r].payload IN
  /\ req[r].step = "respond"
  /\ acks' = [acks EXCEPT ![p] = @ + 1]
  /\ hollow' = IF req[r].session = "aborted" THEN [hollow EXCEPT ![p] = @ + 1] ELSE hollow
  /\ req' = [req EXCEPT ![r] = Idle]
  /\ KeepData /\ KeepQueue /\ KeepWorld /\ UNCHANGED <<cut, faults, limiterVars>>

(***************************************************************************)
(* send_whatsapp_message                                                   *)
(***************************************************************************)
\* Faulty variant: the idempotency key is the phone alone
SendOutByPhone(reply) ==
  /\ reply \in outbox
  /\ outbox' = outbox \ {reply}
  /\ sent' = IF \E k \in sent : k.to = reply.to THEN sent ELSE sent \cup {reply}
  /\ UNCHANGED <<dropped, req, faults, limiterVars>>
  /\ KeepData /\ KeepResponses /\ KeepWorld

SendOut(reply) ==
  /\ reply \in outbox
  /\ outbox' = outbox \ {reply}
  /\ sent' = sent \cup {reply}
  /\ UNCHANGED <<dropped, req, faults, limiterVars>>
  /\ KeepData /\ KeepResponses /\ KeepWorld

\* Every retry failed.
GiveUp(reply) ==
  /\ reply \in outbox /\ Spend
  /\ outbox' = outbox \ {reply}
  /\ dropped' = dropped \cup {reply}
  /\ UNCHANGED <<sent, req, limiterVars>>
  /\ KeepData /\ KeepResponses /\ KeepWorld

Minute ==
  /\ \E p \in setup.payloads : p \notin Hooks \* nothing else reads the clock
  /\ Tick \/ \E w \in Window : Evict(w)
  /\ UNCHANGED chatVars

Step(r) ==
  \/ CountRequest(r) \/ SetTtl(r)
  \/ Lookup(r) \/ GetUser(r) \/ InsertUser(r) \/ DeadlockVictim(r)
  \/ AddInbound(r) \/ AnswerMessage(r) \/ AddReply(r) \/ TrackTurn(r) \/ SendReply(r)
  \/ Commit(r) \/ Respond(r)

Next ==
  \/ \E r \in Slot, p \in Payload : Deliver(r, p) \/ Ask(r, p)
  \/ \E r \in Slot : Step(r)
  \/ \E r \in Slot : RedisFails(r) \/ StatementRaises(r) \/ CommitFails(r) \/ Crash(r)
  \/ \E reply \in outbox : SendOut(reply) \/ GiveUp(reply)
  \/ Minute

\* Requests run on, Meta repeats what was not answered, workers take replies.
Fairness ==
  /\ \A r \in Slot : WF_vars(Step(r))
  /\ \A p \in Hooks : WF_vars(\E r \in Slot : ~UnderWay(p) /\ Deliver(r, p))
  /\ WF_vars(\E reply \in outbox : SendOut(reply))

Spec == Init /\ [][Next]_vars /\ Fairness

(***************************************************************************)
(* Properties                                                              *)
(***************************************************************************)
Request ==
  [step : {"idle", "limit", "expire", "lookup", "user", "insert", "inbound", "answer",
           "reply", "event", "send", "commit", "respond"},
   payload : Payload \cup {None}, at : Nat, left : Seq(Message), window : Window,
   new : SUBSET Phone, rows : SUBSET Turn, parts : SUBSET Part, text : Text,
   session : Outcome]

\* Types of the session data; a phone new to an open transaction is pending in
\* no other (the unique index of users).
TypeOK ==
  /\ LimiterTypeOK
  /\ asked \subseteq setup.payloads /\ clock \in Nat
  /\ users \subseteq User /\ turns \subseteq Turn
  /\ req \in [Slot -> Request]
  /\ \A r, q \in Slot : r # q => req[r].new \cap req[q].new = {}
  /\ outbox \cup sent \cup dropped \subseteq Reply
  /\ acks \in [Payload -> Nat] /\ cut \in [Payload -> Nat] /\ hollow \in [Payload -> Nat]

TurnsOf(m) == {t \in turns : t.msg = m}
Committed(p) == {r \in Slot : req[r].payload = p /\ req[r].step = "respond"
                              /\ req[r].session = "ok"}

\* Swallowed write errors never turn into an answer without the turn: each
\* answered attempt stored the whole turn of each of its messages, once, and no
\* failed attempt stored any. Attempts that died after their commit stored it
\* too, and only a SELECT that failed in the last guarded block is answered
\* over nothing. However first messages of one sender overlap, the stored turns
\* are of one user row.
TurnsMatchAnswers ==
  /\ \A t \in turns :
       t.parts = Part /\ Cardinality({u \in users : u.ext = From[t.msg]}) = 1
  /\ \A p \in Payload : \A m \in Kept(p) :
       Cardinality(TurnsOf(m)) + hollow[p] = acks[p] + cut[p] + Cardinality(Committed(p))

HookMessages == UNION {Messages(p) : p \in Hooks}
ReplyOf(t) == [to |-> From[t.msg], text |-> t.text]

\* No stored WhatsApp turn is without its reply, whatever dies when: the text
\* is queued, or has gone to that phone, or was refused and logged. A second
\* canned answer inside the dedupe window is the first one.
StoredIsAnswered ==
  \A t \in turns : t.msg \in HookMessages => ReplyOf(t) \in outbox \cup sent \cup dropped

\* A counter is without a time to live only while its first request is about
\* to set it, or after that request died or lost Redis on the way.
CountersExpire ==
  \A w \in Window : counter[w] > 0 /\ ~ttl[w] =>
    w \in leaked \/ \E r \in Slot : req[r].step = "expire" /\ req[r].window = w

\* Every webhook whose messages can all be handled is answered in the end, and
\* each of them is stored with a reply whose text was sent, refused or given up
\* on: again and again none is waiting, and what was answered stays so.  One
\* message that is too long or asks for a price under 0 keeps its webhook
\* unanswered for good (ChatRequest, ProductSearchFilters).
Served(p) ==
  acks[p] > 0 /\ \A m \in Kept(p) :
    hollow[p] > 0 \/ \E t \in TurnsOf(m) : ReplyOf(t) \in sent \cup dropped
EveryoneAnswered == []<>(\A p \in asked \cap Hooks : Answerable(p) => Served(p))
=============================================================================
