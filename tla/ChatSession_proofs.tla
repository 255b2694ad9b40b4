------------------------- MODULE ChatSession_proofs -------------------------
(***************************************************************************)
(* Proofs about ChatSession, the rate limiter before it and the context of *)
(* the prompt (ChatContext), for any number of slots, payloads, messages   *)
(* and faults.                                                             *)
(***************************************************************************)
EXTENDS ChatContext, Integers, FiniteSetTheorems, SequenceTheorems, WellFoundedInduction, TLAPS

(***************************************************************************)
(* What is left of a payload                                               *)
(***************************************************************************)
Items(s) == {s[i] : i \in DOMAIN s}
Distinct(s) == \A i, j \in DOMAIN s : s[i] = s[j] => i = j

\* Taking the first message of a payload leaves the others, once each.
LEMMA TailFacts ==
  ASSUME NEW s \in Seq(Message), s # <<>>, Distinct(s)
  PROVE  /\ Head(s) \in Message /\ Head(s) \in Items(s)
         /\ Tail(s) \in Seq(Message)
         /\ Distinct(Tail(s)) /\ Items(Tail(s)) = Items(s) \ {Head(s)}
<1>1. /\ Head(s) \in Message /\ Tail(s) \in Seq(Message) /\ Len(Tail(s)) = Len(s) - 1
      /\ \A i \in 1 .. Len(Tail(s)) : Tail(s)[i] = s[i + 1]
  BY HeadTailProperties
<1>2. Len(s) \in Nat \ {0} /\ DOMAIN s = 1 .. Len(s) /\ Head(s) = s[1]
  BY EmptySeq, LenProperties
<1>3. DOMAIN Tail(s) = 1 .. Len(s) - 1
  BY <1>1, LenProperties
<1>4. Head(s) \in Items(s)
  BY <1>2 DEF Items
<1>5. Distinct(Tail(s))
  BY <1>1, <1>2, <1>3 DEF Distinct
<1>6. \A x \in Items(Tail(s)) : x \in Items(s) \ {Head(s)}
  BY <1>1, <1>2, <1>3 DEF Items, Distinct
<1>7. ASSUME NEW x \in Items(s) \ {Head(s)}
      PROVE  x \in Items(Tail(s))
  <2>1. PICK i \in 1 .. Len(s) : x = s[i] /\ i # 1
    BY <1>2, <1>7 DEF Items
  <2>2. i - 1 \in 1 .. Len(s) - 1 /\ (i - 1) + 1 = i
    BY <1>2, <2>1
  <2>3. Tail(s)[i - 1] = x
    BY <1>1, <2>1, <2>2
  <2> QED
    BY <1>3, <2>2, <2>3 DEF Items
<1> QED
  BY <1>1, <1>4, <1>5, <1>6, <1>7

LEMMA NothingLeft == Items(<<>>) = {}
  BY EmptySeq DEF Items

\* A payload's messages, as a request begins with them.
LEMMA Contents ==
  ASSUME NEW p \in Payload
  PROVE  /\ Content[p] \in Seq(Message) /\ Items(Content[p]) = Messages(p)
         /\ Distinct(Content[p]) /\ Messages(p) \subseteq Message
<1>1. Content[p] \in Seq(Message)
  BY ChatConstants
<1>2. Items(Content[p]) = Messages(p) /\ Distinct(Content[p])
  BY ChatPayloads DEF Items, Messages, Distinct
<1>3. Messages(p) \subseteq Message
  BY <1>1, ElementOfSeq, LenProperties DEF Messages
<1> QED
  BY <1>1, <1>2, <1>3

\* POST /chat carries one message.
LEMMA OneQuestion ==
  ASSUME NEW p \in Payload \ Hooks
  PROVE  Content[p] # <<>> /\ Messages(p) = {Head(Content[p])}
<1>1. Content[p] \in Seq(Message) /\ Len(Content[p]) = 1
  BY ChatConstants, ChatPayloads
<1>2. Content[p] # <<>> /\ DOMAIN Content[p] = 1 .. 1 /\ Head(Content[p]) = Content[p][1]
  BY <1>1, EmptySeq, LenProperties
<1>3. \A i \in 1 .. 1 : i = 1
  OBVIOUS
<1> QED
  BY <1>2, <1>3 DEF Messages

(***************************************************************************)
(* The shape of a request at each step                                     *)
(***************************************************************************)
ChatSteps == {"user", "insert", "inbound", "answer", "reply", "event", "send"}
SenderSteps == ChatSteps \ {"answer"}

\* What a request is about: its payload decides the way it takes, and a
\* message that is worked on has a sender and a store, but in "answer".
WellFormed(q) == q.step # "idle" =>
  /\ q.payload \in Payload
  /\ Distinct(q.left) /\ Items(q.left) \subseteq Messages(q.payload)
  /\ q.payload \notin Hooks => q.left = Content[q.payload]
  /\ q.step \in {"limit", "expire"} => q.payload \notin Hooks
  /\ q.step \in {"lookup", "send"} => q.payload \in Hooks
  /\ q.step \in ChatSteps \cup {"lookup"} => q.left # <<>>
  /\ q.step \in SenderSteps => Head(q.left) \in Kept(q.payload)
  /\ q.step = "answer" /\ From[Head(q.left)] # None => Head(q.left) \in Kept(q.payload)
  /\ q.step = "commit" /\ q.payload \in Hooks => q.left = <<>>
  /\ q.step = "respond" => q.session # "poisoned"

World ==
  /\ LimiterTypeOK
  /\ asked \subseteq setup.payloads /\ clock \in Nat
  /\ users \subseteq User /\ turns \subseteq Turn
  /\ outbox \cup sent \cup dropped \subseteq Reply
  /\ acks \in [Payload -> Nat] /\ cut \in [Payload -> Nat] /\ hollow \in [Payload -> Nat]

Apart == \A r, q \in Slot : r # q => req[r].new \cap req[q].new = {}
Requests ==
  /\ req \in [Slot -> Request] /\ Apart
  /\ \A r \in Slot : WellFormed(req[r])

Kind == World /\ Requests

LEMMA IdleIsRequest == Idle \in Request /\ WellFormed(Idle) /\ Idle.new = {}
<1>1. NoText \in Text
  BY DEF NoText, Text, Intent, Class
<1>2. <<>> \in Seq(Message) /\ 0 \in Window
  BY EmptySeq, LimiterConstants DEF Window
<1> QED
  BY <1>1, <1>2 DEF Idle, Request, WellFormed, Outcome

\* The text that answers a message is one of the texts.
LEMMA AnswersAreTexts ==
  ASSUME NEW m \in Message, NEW n \in Nat
  PROVE  Answers(m, n) \subseteq Text
<1>1. IntentOf(m) \in Intent
  BY DEF IntentOf, Intent, Class
<1> QED
  BY <1>1 DEF Answers, Text

\* A request at a message works on one of its payload's messages.
LEMMA AtMessage ==
  ASSUME NEW q \in Request, WellFormed(q), q.step \in ChatSteps \cup {"lookup"}
  PROVE  /\ q.left # <<>> /\ Head(q.left) \in Message /\ Head(q.left) \in Items(q.left)
         /\ Tail(q.left) \in Seq(Message) /\ Distinct(Tail(q.left))
         /\ Items(Tail(q.left)) = Items(q.left) \ {Head(q.left)}
         /\ q.payload \in Payload /\ Head(q.left) \in Messages(q.payload)
         /\ From[Head(q.left)] # None => From[Head(q.left)] \in Phone
         /\ q.payload \in Hooks => From[Head(q.left)] # None
<1>1. /\ q.left # <<>> /\ Distinct(q.left) /\ q.payload \in Payload
      /\ Items(q.left) \subseteq Messages(q.payload) /\ q.left \in Seq(Message)
  BY DEF WellFormed, Request, ChatSteps
<1>2. /\ Head(q.left) \in Message /\ Head(q.left) \in Items(q.left)
      /\ Tail(q.left) \in Seq(Message) /\ Distinct(Tail(q.left))
      /\ Items(Tail(q.left)) = Items(q.left) \ {Head(q.left)}
  BY <1>1, TailFacts
<1>3. q.payload \in Hooks => From[Head(q.left)] # None
  BY <1>1, <1>2, ChatPayloads
<1> QED
  BY <1>1, <1>2, <1>3 DEF Phone

LEMMA KeptFacts ==
  ASSUME NEW p, NEW m
  PROVE  m \in Kept(p) <=> m \in Messages(p) /\ From[m] # None /\ (p \in Hooks => m \in Ours)
  BY DEF Kept

\* A webhook goes on to its next message, or to the commit.
LEMMA NextMessageFacts ==
  ASSUME NEW q \in Request, WellFormed(q), q.step \in {"lookup", "send"}
  PROVE  LET n == NextMessage(q, TRUE) IN
         /\ n \in Request /\ WellFormed(n) /\ n.step \in {"lookup", "commit"}
         /\ n.left = Tail(q.left) /\ n.payload = q.payload /\ n.at = q.at /\ n.new = q.new
         /\ n.rows = q.rows /\ n.session = q.session /\ n.window = q.window
         /\ n.step = "commit" => n.left = <<>>
<1> DEFINE n == NextMessage(q, TRUE)
           s == First(Tail(q.left), TRUE)
<1>1. /\ Tail(q.left) \in Seq(Message) /\ Distinct(Tail(q.left)) /\ q.payload \in Payload
      /\ Items(Tail(q.left)) = Items(q.left) \ {Head(q.left)}
  BY AtMessage DEF ChatSteps
<1>2. s \in {"lookup", "commit"} /\ (s = "commit" <=> Tail(q.left) = <<>>)
  BY DEF First
<1>3. NoText \in Text
  BY DEF NoText, Text, Intent, Class
<1> HIDE DEF s
<1>4. n = [q EXCEPT !.left = Tail(q.left), !.step = s, !.parts = {}, !.text = NoText]
  BY DEF NextMessage, s
<1>5. /\ n \in Request /\ n.step = s /\ n.left = Tail(q.left) /\ n.payload = q.payload
      /\ n.at = q.at /\ n.new = q.new /\ n.rows = q.rows /\ n.session = q.session /\ n.window = q.window
  BY <1>1, <1>2, <1>3, <1>4 DEF Request
<1>6. q.payload \in Hooks /\ Items(q.left) \subseteq Messages(q.payload)
  BY DEF WellFormed, ChatSteps
<1>7. WellFormed(n)
  BY <1>1, <1>2, <1>5, <1>6 DEF WellFormed, ChatSteps, SenderSteps
<1> QED
  BY <1>2, <1>5, <1>7

\* POST /chat goes on from the rate limiter.
LEMMA UnlimitedFacts ==
  ASSUME NEW q \in Request, WellFormed(q), q.step \in {"limit", "expire"}
  PROVE  LET s == First(q.left, FALSE) IN
         /\ s \in {"user", "answer"} /\ (s = "answer" <=> From[Head(q.left)] = None)
         /\ [q EXCEPT !.step = s] \in Request /\ WellFormed([q EXCEPT !.step = s])
<1> DEFINE s == First(q.left, FALSE)
<1>1. q.payload \in Payload \ Hooks /\ q.left = Content[q.payload] /\ Distinct(q.left)
      /\ Items(q.left) \subseteq Messages(q.payload)
  BY DEF WellFormed
<1>2. q.left # <<>> /\ Messages(q.payload) = {Head(q.left)}
  BY <1>1, OneQuestion
<1>3. s \in {"user", "answer"} /\ (s = "answer" <=> From[Head(q.left)] = None)
  BY <1>2 DEF First
<1> HIDE DEF s
<1>4. [q EXCEPT !.step = s] \in Request
  BY <1>3 DEF Request
<1>5. s = "user" => Head(q.left) \in Kept(q.payload)
  BY <1>1, <1>2, <1>3, KeptFacts
<1>6. WellFormed([q EXCEPT !.step = s])
  BY <1>1, <1>2, <1>3, <1>5 DEF WellFormed, Request, ChatSteps, SenderSteps
<1> QED
  BY <1>3, <1>4, <1>6 DEF s

(***************************************************************************)
(* What a step does to the request of its slot                             *)
(***************************************************************************)
Becomes(r, n) ==
  /\ n \in Request /\ WellFormed(n)
  /\ req' = [req EXCEPT ![r] = n]
  /\ \A s \in Slot : s # r => n.new \cap req[s].new = {}

\* It works on the same message of the same payload.
Stays(q, n) ==
  /\ n.payload = q.payload /\ n.at = q.at /\ n.left = q.left /\ n.window = q.window

Calm(q, n) == Stays(q, n) /\ n.new = q.new /\ n.rows = q.rows
Quiet(q, n) == Calm(q, n) /\ n.parts = q.parts /\ n.session = q.session

LEMMA BecomesKeeps ==
  ASSUME Requests, NEW r \in Slot, NEW n, Becomes(r, n)
  PROVE  Requests'
<1>1. req' \in [Slot -> Request] /\ req'[r] = n /\ \A s \in Slot : s # r => req'[s] = req[s]
  BY DEF Requests, Becomes
<1>2. \A s \in Slot : WellFormed(req'[s])
  BY <1>1 DEF Requests, Becomes
<1>3. Apart'
  BY <1>1 DEF Requests, Becomes, Apart
<1> QED
  BY <1>1, <1>2, <1>3 DEF Requests, WellFormed

\* A request that keeps its new users is apart from the others as it was.
LEMMA BecomesWhen ==
  ASSUME Requests, NEW r \in Slot, NEW n \in Request, WellFormed(n),
         req' = [req EXCEPT ![r] = n], n.new = {} \/ n.new = req[r].new
  PROVE  Becomes(r, n)
BY DEF Requests, Becomes, Apart

LEMMA Ends ==
  ASSUME Requests, NEW r \in Slot, Rollback(r)
  PROVE  Becomes(r, Idle)
BY IdleIsRequest, BecomesWhen DEF Rollback

\* Between the steps of one message a request keeps its shape.
LEMMA SameMessage ==
  ASSUME NEW q \in Request, WellFormed(q), NEW n \in Request, Stays(q, n),
         q.step \in ChatSteps, From[Head(q.left)] # None,
         \/ n.step \in ChatSteps /\ (n.step = "send" => q.payload \in Hooks)
         \/ n.step = "commit" /\ q.payload \notin Hooks
  PROVE  WellFormed(n)
<1>1. Head(q.left) \in Kept(q.payload)
  BY DEF WellFormed, ChatSteps, SenderSteps
<1> QED
  BY <1>1 DEF WellFormed, Stays, ChatSteps, SenderSteps

LEMMA BeginEdit ==
  ASSUME Kind, NEW r \in Slot, NEW p \in Payload, Deliver(r, p) \/ Ask(r, p)
  PROVE  \E n \in Request :
           /\ Becomes(r, n) /\ req[r].step = "idle"
           /\ n.step \in {"limit", "lookup", "commit"} /\ n.payload = p /\ n.at = clock + 1
           /\ n.new = {} /\ n.rows = {} /\ n.session = "ok" /\ n.left = Content[p]
           /\ n.step = "commit" => p \in Hooks
           /\ clock' = clock + 1 /\ asked' = asked \cup {p} /\ p \in setup.payloads
           /\ KeepData /\ KeepQueue /\ KeepResponses /\ UNCHANGED <<setup, limiterVars>>
<1>1. /\ Content[p] \in Seq(Message) /\ Items(Content[p]) = Messages(p) /\ Distinct(Content[p])
      /\ Items(Content[p]) \subseteq Messages(p)
  BY Contents
<1>2. clock + 1 \in Nat /\ minute \in Window
  BY DEF Kind, World, LimiterTypeOK
<1>3. PICK step \in {"limit", "lookup", "commit"} :
        /\ Begin(r, p, step) /\ (step = "limit" <=> p \notin Hooks)
        /\ step = "lookup" => Content[p] # <<>>
        /\ step = "commit" => Content[p] = <<>>
  BY DEF Deliver, Ask, First
<1> DEFINE n == [Idle EXCEPT !.step = step, !.payload = p, !.at = clock + 1,
                             !.left = Content[p], !.window = minute]
<1>4. n \in Request
  BY <1>1, <1>2, IdleIsRequest DEF Request
<1>5. /\ n.step = step /\ n.payload = p /\ n.at = clock + 1 /\ n.left = Content[p]
      /\ n.new = {} /\ n.rows = {} /\ n.session = "ok"
  BY DEF Idle
<1>6. req' = [req EXCEPT ![r] = n]
  BY <1>3 DEF Begin
<1> HIDE DEF n
<1>7. WellFormed(n)
  BY <1>1, <1>3, <1>5 DEF WellFormed, ChatSteps, SenderSteps
<1>8. Becomes(r, n)
  BY <1>4, <1>5, <1>6, <1>7, BecomesWhen DEF Kind
<1> QED
  BY <1>3, <1>4, <1>5, <1>8 DEF Begin, Busy

LEMMA Lets ==
  ASSUME Kind, NEW r \in Slot, req[r].step \in {"limit", "expire"}, Unlimited(r)
  PROVE  \E n \in Request :
           /\ Becomes(r, n)
           /\ \/ n = Idle
              \/ /\ Quiet(req[r], n) /\ n.step \in {"user", "answer"}
                 /\ (n.step = "answer" => From[Head(n.left)] = None)
<1> DEFINE s == First(req[r].left, FALSE)
           n == [req[r] EXCEPT !.step = s]
<1>1. req[r] \in Request /\ WellFormed(req[r])
  BY DEF Kind, Requests
<1>2. /\ s \in {"user", "answer"} /\ (s = "answer" <=> From[Head(req[r].left)] = None)
      /\ n \in Request /\ WellFormed(n)
  BY <1>1, UnlimitedFacts
<1>3. CASE Current(r) \in Long
  <2>1. Rollback(r)
    BY <1>3 DEF Unlimited, Rollback
  <2> QED
    BY <1>1, <2>1, Ends, IdleIsRequest DEF Kind
<1>4. CASE Current(r) \notin Long
  <2>1. req' = [req EXCEPT ![r] = n]
    BY <1>1, <1>4 DEF Unlimited, Goto, Kind, Requests
  <2>2. Quiet(req[r], n) /\ n.step = s /\ n.left = req[r].left
    BY <1>1 DEF Quiet, Calm, Stays, Request
  <2> HIDE DEF n
  <2>3. Becomes(r, n)
    BY <1>2, <2>1, <2>2, BecomesWhen DEF Kind, Quiet, Calm
  <2> QED
    BY <1>2, <2>2, <2>3
<1> QED
  BY <1>3, <1>4

LEMMA CountEdit ==
  ASSUME Kind, NEW r \in Slot, CountRequest(r)
  PROVE  \E n \in Request :
           /\ Becomes(r, n) /\ req[r].step = "limit"
           /\ ~Over(counter[req[r].window] + 1) /\ counter[req[r].window] + 1 = 1 =>
                n.step = "expire" /\ n.window = req[r].window
           /\ \/ n = Idle
              \/ /\ Quiet(req[r], n) /\ n.step \in {"expire", "user", "answer"}
                 /\ (n.step = "answer" => From[Head(n.left)] = None)
<1> DEFINE w == req[r].window
           e == [req[r] EXCEPT !.step = "expire"]
<1>1. req[r] \in Request /\ WellFormed(req[r]) /\ req[r].step = "limit" /\ Requests
  BY DEF Kind, Requests, CountRequest
<1>2. CASE Over(counter[w] + 1)
  <2>1. Rollback(r)
    BY <1>2 DEF CountRequest, Rollback
  <2> QED
    <3>1. Becomes(r, Idle) /\ Idle \in Request
      BY <1>1, <2>1, Ends, IdleIsRequest DEF Kind
    <3> QED
      BY <1>1, <1>2, <3>1
<1>3. CASE ~Over(counter[w] + 1) /\ counter[w] + 1 = 1
  <2>1. req' = [req EXCEPT ![r] = e]
    BY <1>1, <1>3 DEF CountRequest, Goto, Requests
  <2>2. e \in Request /\ Quiet(req[r], e) /\ e.step = "expire"
    BY <1>1 DEF Request, Quiet, Calm, Stays
  <2> HIDE DEF e
  <2>3. WellFormed(e)
    BY <1>1, <2>2 DEF WellFormed, Quiet, Calm, Stays, ChatSteps, SenderSteps
  <2>4. Becomes(r, e)
    BY <1>1, <2>1, <2>2, <2>3, BecomesWhen DEF Quiet, Calm
  <2> QED
    BY <1>1, <1>3, <2>2, <2>4 DEF Quiet, Calm, Stays
<1>4. CASE ~Over(counter[w] + 1) /\ counter[w] + 1 # 1
  <2>1. Unlimited(r)
    BY <1>4 DEF CountRequest
  <2> QED
    BY <1>1, <1>4, <2>1, Lets
<1> QED
  BY <1>2, <1>3, <1>4

LEMMA LookupEdit ==
  ASSUME Kind, NEW r \in Slot, Lookup(r)
  PROVE  \E n \in Request :
           /\ Becomes(r, n) /\ req[r].step = "lookup"
           /\ \/ n = Idle
              \/ Quiet(req[r], n) /\ n.step = "user"
              \/ n = NextMessage(req[r], TRUE) /\ Current(r) \notin Ours
<1> DEFINE u == [req[r] EXCEPT !.step = "user"]
           k == NextMessage(req[r], TRUE)
<1>1. req[r] \in Request /\ WellFormed(req[r]) /\ req[r].step = "lookup" /\ Requests
  BY DEF Kind, Requests, Lookup
<1>2. CASE req[r].session # "ok" \/ Current(r) \in Ours \cap Long
  BY <1>1, <1>2, Ends, IdleIsRequest DEF Lookup
<1>3. CASE req[r].session = "ok" /\ Current(r) \in Ours \ Long
  <2>1. req' = [req EXCEPT ![r] = u]
    BY <1>1, <1>3 DEF Lookup, Goto, Requests
  <2>2. u \in Request /\ Quiet(req[r], u) /\ u.step = "user"
    BY <1>1 DEF Request, Quiet, Calm, Stays
  <2>3. /\ Head(req[r].left) \in Messages(req[r].payload) /\ From[Head(req[r].left)] # None
    BY <1>1, AtMessage DEF WellFormed
  <2>4. Head(req[r].left) \in Kept(req[r].payload)
    BY <1>3, <2>3, KeptFacts DEF Current
  <2> HIDE DEF u
  <2>5. WellFormed(u)
    BY <1>1, <2>2, <2>4 DEF WellFormed, Quiet, Calm, Stays, ChatSteps, SenderSteps
  <2>6. Becomes(r, u)
    BY <1>1, <2>1, <2>2, <2>5, BecomesWhen DEF Quiet, Calm
  <2> QED
    BY <1>1, <2>2, <2>6
<1>4. CASE req[r].session = "ok" /\ Current(r) \notin Ours
  <2>1. req' = [req EXCEPT ![r] = k]
    BY <1>4 DEF Lookup
  <2>2. k \in Request /\ WellFormed(k) /\ k.new = req[r].new
    BY <1>1, NextMessageFacts
  <2> HIDE DEF k
  <2>3. Becomes(r, k)
    BY <1>1, <2>1, <2>2, BecomesWhen
  <2> QED
    BY <1>1, <1>4, <2>2, <2>3 DEF k
<1> QED
  BY <1>2, <1>3, <1>4

LEMMA UserEdit ==
  ASSUME Kind, NEW r \in Slot, GetUser(r)
  PROVE  \E n \in Request :
           /\ Becomes(r, n) /\ Quiet(req[r], n) /\ req[r].step = "user"
           /\ n.step \in {"insert", "inbound"} /\ (n.step = "inbound" => Sender(r) \in Known(r))
<1> DEFINE s == IF Sender(r) \in Known(r) THEN "inbound" ELSE "insert"
           n == [req[r] EXCEPT !.step = s]
<1>1. req[r] \in Request /\ WellFormed(req[r]) /\ req[r].step = "user" /\ Requests
  BY DEF Kind, Requests, GetUser
<1>2. s \in {"insert", "inbound"} /\ (s = "inbound" => Sender(r) \in Known(r))
  OBVIOUS
<1>3. req' = [req EXCEPT ![r] = n]
  BY <1>1 DEF GetUser, Goto, Requests
<1> HIDE DEF s
<1>4. n \in Request /\ Quiet(req[r], n) /\ n.step = s
  BY <1>1, <1>2 DEF Request, Quiet, Calm, Stays
<1> HIDE DEF n
<1>5. From[Head(req[r].left)] # None
  BY <1>1, KeptFacts DEF WellFormed, ChatSteps, SenderSteps
<1>6. WellFormed(n)
  BY <1>1, <1>2, <1>4, <1>5, SameMessage DEF ChatSteps, Quiet, Calm
<1>7. Becomes(r, n)
  BY <1>1, <1>3, <1>4, <1>6, BecomesWhen DEF Quiet, Calm
<1> QED
  BY <1>1, <1>2, <1>4, <1>7

\* The record of a request whose user has been added.
LEMMA InsertedFacts ==
  ASSUME Requests, NEW r \in Slot, req[r].step = "insert"
  PROVE  LET n == [req[r] EXCEPT !.new = @ \cup {Sender(r)}, !.step = "inbound"] IN
         /\ n \in Request /\ WellFormed(n) /\ Stays(req[r], n) /\ n.step = "inbound"
         /\ n.new = req[r].new \cup {Sender(r)} /\ n.rows = req[r].rows
         /\ n.parts = req[r].parts /\ n.session = req[r].session
<1> DEFINE n == [req[r] EXCEPT !.new = @ \cup {Sender(r)}, !.step = "inbound"]
<1>1. req[r] \in Request /\ WellFormed(req[r])
  BY DEF Requests
<1>2. From[Head(req[r].left)] # None
  BY <1>1, KeptFacts DEF WellFormed, ChatSteps, SenderSteps
<1>3. Sender(r) \in Phone
  BY <1>1, <1>2, AtMessage DEF ChatSteps, Sender, Current
<1>4. /\ n \in Request /\ n.step = "inbound" /\ Stays(req[r], n)
      /\ n.new = req[r].new \cup {Sender(r)} /\ n.rows = req[r].rows
      /\ n.parts = req[r].parts /\ n.session = req[r].session
  BY <1>1, <1>3 DEF Request, Stays
<1> HIDE DEF n
<1>5. WellFormed(n)
  BY <1>1, <1>2, <1>4, SameMessage DEF ChatSteps
<1> QED
  BY <1>4, <1>5 DEF n

LEMMA InsertEdit ==
  ASSUME Kind, NEW r \in Slot, InsertUser(r)
  PROVE  \E n \in Request :
           /\ Becomes(r, n) /\ req[r].step = "insert"
           /\ \/ n = Idle
              \/ /\ Stays(req[r], n) /\ n.new = req[r].new \cup {Sender(r)} /\ n.step = "inbound"
                 /\ n.rows = req[r].rows /\ n.session = req[r].session /\ n.parts = req[r].parts
                 /\ Sender(r) \notin {u.ext : u \in users}
<1> DEFINE n == [req[r] EXCEPT !.new = @ \cup {Sender(r)}, !.step = "inbound"]
<1>1. req[r] \in Request /\ req[r].step = "insert" /\ Requests
  BY DEF Kind, Requests, InsertUser
<1>2. CASE Sender(r) \in {u.ext : u \in users}
  BY <1>1, <1>2, Ends, IdleIsRequest DEF InsertUser
<1>3. CASE Sender(r) \notin {u.ext : u \in users}
  <2>1. req' = [req EXCEPT ![r] = n]
    BY <1>1, <1>3 DEF InsertUser, Inserted, Requests
  <2>2. /\ n \in Request /\ WellFormed(n) /\ Stays(req[r], n) /\ n.step = "inbound"
        /\ n.new = req[r].new \cup {Sender(r)} /\ n.rows = req[r].rows
        /\ n.parts = req[r].parts /\ n.session = req[r].session
    BY <1>1, InsertedFacts
  <2> HIDE DEF n
  <2>3. \A s \in Slot : s # r => Sender(r) \notin req[s].new
    BY <1>3 DEF InsertUser, Pending
  <2>4. Becomes(r, n)
    BY <1>1, <2>1, <2>2, <2>3 DEF Becomes, Requests, Apart
  <2> QED
    BY <1>1, <1>3, <2>2, <2>4
<1> QED
  BY <1>2, <1>3

\* The victim ends and the other, with its user added, is apart from all.
LEMMA DeadlockEdit ==
  ASSUME Kind, NEW r \in Slot, DeadlockVictim(r)
  PROVE  /\ Requests'
         /\ \E q \in Slot \ {r} : \E n \in Request :
              /\ req' = [req EXCEPT ![r] = Idle, ![q] = n]
              /\ req[r].step = "insert" /\ req[q].step = "insert"
              /\ Stays(req[q], n) /\ n.new = req[q].new \cup {Sender(q)} /\ n.step = "inbound"
              /\ n.rows = req[q].rows /\ n.session = req[q].session /\ n.parts = req[q].parts
              /\ Sender(q) \in req[r].new
<1>1. PICK q \in Slot \ {r} :
        /\ req[q].step = "insert" /\ Pending(q) = {r}
        /\ req' = [req EXCEPT ![r] = Idle, ![q].new = @ \cup {Sender(q)}, ![q].step = "inbound"]
  BY DEF DeadlockVictim, Pending
<1> DEFINE n == [req[q] EXCEPT !.new = @ \cup {Sender(q)}, !.step = "inbound"]
<1>2. Requests /\ req \in [Slot -> Request] /\ req[r].step = "insert"
  BY DEF Kind, Requests, DeadlockVictim
<1>3. req' = [req EXCEPT ![r] = Idle, ![q] = n]
  BY <1>1, <1>2
<1>4. /\ n \in Request /\ WellFormed(n) /\ Stays(req[q], n) /\ n.step = "inbound"
      /\ n.new = req[q].new \cup {Sender(q)} /\ n.rows = req[q].rows
      /\ n.parts = req[q].parts /\ n.session = req[q].session
  BY <1>1, <1>2, InsertedFacts
<1> HIDE DEF n
<1>5. /\ req' \in [Slot -> Request] /\ req'[r] = Idle /\ req'[q] = n
      /\ \A s \in Slot : s # r /\ s # q => req'[s] = req[s]
  BY <1>1, <1>2, <1>3, <1>4, IdleIsRequest
<1>6. Sender(q) \in req[r].new /\ \A s \in Slot : s # q /\ s # r => Sender(q) \notin req[s].new
  BY <1>1 DEF Pending
<1>7. Apart'
  <2> SUFFICES ASSUME NEW s \in Slot, NEW t \in Slot, s # t
               PROVE  req'[s].new \cap req'[t].new = {}
    BY DEF Apart
  <2>1. req[s].new \cap req[t].new = {} /\ Idle.new = {}
    BY <1>2, IdleIsRequest DEF Requests, Apart
  <2>2. CASE s = q \/ t = q
    BY <1>1, <1>4, <1>5, <1>6, <2>1, <2>2
  <2>3. CASE s # q /\ t # q
    BY <1>5, <2>1, <2>3
  <2> QED
    BY <2>2, <2>3
<1>8. \A s \in Slot : WellFormed(req'[s])
  BY <1>2, <1>4, <1>5, IdleIsRequest DEF Requests
<1>9. Requests'
  BY <1>5, <1>7, <1>8 DEF Requests, WellFormed
<1> QED
  BY <1>1, <1>2, <1>3, <1>4, <1>6, <1>9

\* A session that has failed in a request is never well again in it.
LEMMA Sessions ==
  ASSUME NEW s \in Outcome, NEW f \in Outcome
  PROVE  /\ Flushed(s, f) \in Outcome /\ Tracked(s, f) \in Outcome
         /\ Flushed(s, f) = "ok" <=> s = "ok" /\ f = "ok"
         /\ Tracked(s, f) = "ok" <=> s = "ok" /\ f = "ok"
  BY DEF Flushed, Tracked, Outcome

\* The customer's row and the assistant's: one guarded INSERT each.
LEMMA InboundEdit ==
  ASSUME Kind, NEW r \in Slot, AddInbound(r)
  PROVE  \E n \in Request :
           /\ Becomes(r, n) /\ Calm(req[r], n) /\ req[r].step = "inbound" /\ n.step = "answer"
           /\ From[Head(n.left)] # None
           /\ n.session = "ok" => req[r].session = "ok" /\ n.parts = {"user"}
<1>1. req[r] \in Request /\ WellFormed(req[r]) /\ req[r].step = "inbound" /\ Requests
  BY DEF Kind, Requests, AddInbound
<1>2. PICK outcome \in Outcome :
        req' = [req EXCEPT ![r].session = Flushed(@, outcome), ![r].step = "answer",
                           ![r].parts = IF outcome = "ok" THEN {"user"} ELSE {}]
  BY DEF AddInbound
<1> DEFINE f == Flushed(req[r].session, outcome)
           parts == IF outcome = "ok" THEN {"user"} ELSE {}
           n == [req[r] EXCEPT !.session = f, !.step = "answer", !.parts = parts]
<1>3. req' = [req EXCEPT ![r] = n]
  BY <1>1, <1>2 DEF Requests
<1>4. f \in Outcome /\ (f = "ok" => req[r].session = "ok" /\ outcome = "ok")
  BY <1>1, Sessions DEF Request
<1>5. parts \subseteq Part /\ (outcome = "ok" => parts = {"user"})
  BY DEF Part
<1> HIDE DEF f, parts
<1>6. n \in Request /\ Calm(req[r], n) /\ n.step = "answer" /\ n.session = f /\ n.parts = parts
  BY <1>1, <1>4, <1>5 DEF Request, Calm, Stays
<1> HIDE DEF n
<1>7. From[Head(req[r].left)] # None
  BY <1>1, KeptFacts DEF WellFormed, ChatSteps, SenderSteps
<1>8. WellFormed(n)
  BY <1>1, <1>6, <1>7, SameMessage DEF ChatSteps, Calm
<1>9. Becomes(r, n)
  BY <1>1, <1>3, <1>6, <1>8, BecomesWhen DEF Calm
<1> QED
  BY <1>1, <1>4, <1>5, <1>6, <1>7, <1>9 DEF Calm, Stays

LEMMA ReplyEdit ==
  ASSUME Kind, NEW r \in Slot, AddReply(r)
  PROVE  \E n \in Request :
           /\ Becomes(r, n) /\ Calm(req[r], n) /\ req[r].step = "reply" /\ n.step = "event"
           /\ n.session = "ok" => req[r].session = "ok" /\ n.parts = req[r].parts \cup {"assistant"}
<1>1. req[r] \in Request /\ WellFormed(req[r]) /\ req[r].step = "reply" /\ Requests
  BY DEF Kind, Requests, AddReply
<1>2. PICK outcome \in Outcome :
        req' = [req EXCEPT ![r].session = Flushed(@, outcome), ![r].step = "event",
                           ![r].parts = IF outcome = "ok" THEN @ \cup {"assistant"} ELSE @]
  BY DEF AddReply
<1> DEFINE f == Flushed(req[r].session, outcome)
           parts == IF outcome = "ok" THEN req[r].parts \cup {"assistant"} ELSE req[r].parts
           n == [req[r] EXCEPT !.session = f, !.step = "event", !.parts = parts]
<1>3. req' = [req EXCEPT ![r] = n]
  BY <1>1, <1>2 DEF Requests
<1>4. f \in Outcome /\ (f = "ok" => req[r].session = "ok" /\ outcome = "ok")
  BY <1>1, Sessions DEF Request
<1>5. parts \subseteq Part /\ (outcome = "ok" => parts = req[r].parts \cup {"assistant"})
  BY <1>1 DEF Part, Request
<1> HIDE DEF f, parts
<1>6. n \in Request /\ Calm(req[r], n) /\ n.step = "event" /\ n.session = f /\ n.parts = parts
  BY <1>1, <1>4, <1>5 DEF Request, Calm, Stays
<1> HIDE DEF n
<1>7. From[Head(req[r].left)] # None
  BY <1>1, KeptFacts DEF WellFormed, ChatSteps, SenderSteps
<1>8. WellFormed(n)
  BY <1>1, <1>6, <1>7, SameMessage DEF ChatSteps, Calm
<1>9. Becomes(r, n)
  BY <1>1, <1>3, <1>6, <1>8, BecomesWhen DEF Calm
<1> QED
  BY <1>1, <1>4, <1>5, <1>6, <1>9

LEMMA AnswerEdit ==
  ASSUME Kind, NEW r \in Slot, AnswerMessage(r)
  PROVE  \E n \in Request :
           /\ Becomes(r, n) /\ req[r].step = "answer"
           /\ \/ n = Idle
              \/ /\ Calm(req[r], n) /\ n.parts = req[r].parts /\ n.session = req[r].session
                 /\ \/ n.step = "reply" /\ Sender(r) # None
                    \/ n.step = "commit" /\ Sender(r) = None /\ n.payload \notin Hooks
<1>1. req[r] \in Request /\ WellFormed(req[r]) /\ req[r].step = "answer" /\ Requests
  BY DEF Kind, Requests, AnswerMessage
<1>2. CASE Unsearchable(Current(r)) \/ (NeedsRows(Current(r)) /\ req[r].session # "ok")
  BY <1>1, <1>2, Ends, IdleIsRequest DEF AnswerMessage
<1>3. CASE ~(Unsearchable(Current(r)) \/ (NeedsRows(Current(r)) /\ req[r].session # "ok"))
  <2> DEFINE s == IF Sender(r) = None THEN "commit" ELSE "reply"
  <2>1. PICK x \in Answers(Current(r), req[r].at) :
          req' = [req EXCEPT ![r].text = x, ![r].step = s]
    BY <1>3 DEF AnswerMessage
  <2> DEFINE n == [req[r] EXCEPT !.text = x, !.step = s]
  <2>2. req' = [req EXCEPT ![r] = n]
    BY <1>1, <2>1 DEF Requests
  <2>3. /\ Current(r) \in Message /\ req[r].at \in Nat
        /\ req[r].payload \in Hooks => Sender(r) # None
    BY <1>1, AtMessage DEF ChatSteps, Current, Sender, Request
  <2>4. x \in Text
    BY <2>1, <2>3, AnswersAreTexts
  <2>5. \/ s = "reply" /\ Sender(r) # None
        \/ s = "commit" /\ Sender(r) = None /\ req[r].payload \notin Hooks
    BY <2>3
  <2> HIDE DEF s
  <2>6. /\ n \in Request /\ Calm(req[r], n) /\ n.parts = req[r].parts /\ n.session = req[r].session
        /\ n.step = s
    BY <1>1, <2>4, <2>5 DEF Request, Calm, Stays
  <2> HIDE DEF n
  <2>7. WellFormed(n)
    <3>1. CASE s = "reply"
      BY <1>1, <2>5, <2>6, <3>1, SameMessage DEF ChatSteps, Calm, Sender, Current
    <3>2. CASE s = "commit"
      BY <1>1, <2>5, <2>6, <3>2 DEF WellFormed, Calm, Stays, ChatSteps, SenderSteps
    <3> QED
      BY <2>5, <3>1, <3>2
  <2>8. Becomes(r, n)
    BY <1>1, <2>2, <2>6, <2>7, BecomesWhen DEF Calm
  <2> QED
    BY <1>1, <2>5, <2>6, <2>8 DEF Calm, Stays
<1> QED
  BY <1>2, <1>3

\* The event closes the turn, which is now among the rows.
LEMMA TurnEdit ==
  ASSUME Kind, NEW r \in Slot, TrackTurn(r)
  PROVE  \E n \in Request, turn \in Turn :
           /\ Becomes(r, n) /\ req[r].step = "event" /\ Stays(req[r], n)
           /\ n.new = req[r].new /\ n.rows = req[r].rows \cup {turn} /\ n.text = req[r].text
           /\ turn.msg = Current(r) /\ turn.at = req[r].at /\ turn.text = req[r].text
           /\ n.session = "ok" => req[r].session = "ok" /\ turn.parts = req[r].parts \cup {"event"}
           /\ \/ n.step = "send" /\ n.payload \in Hooks
              \/ n.step = "commit" /\ n.payload \notin Hooks
<1>1. req[r] \in Request /\ WellFormed(req[r]) /\ req[r].step = "event" /\ Requests
  BY DEF Kind, Requests, TrackTurn
<1> DEFINE s == IF ByWhatsApp(r) THEN "send" ELSE "commit"
           parts(outcome) == IF outcome = "ok" THEN req[r].parts \cup {"event"} ELSE req[r].parts
           row(ps) == [msg |-> Current(r), at |-> req[r].at, text |-> req[r].text, parts |-> ps]
<1>2. PICK outcome \in Outcome :
        req' = [req EXCEPT ![r].session = Tracked(@, outcome),
                           ![r].rows = @ \cup {row(parts(outcome))}, ![r].step = s]
  BY DEF TrackTurn
<1> DEFINE f == Tracked(req[r].session, outcome)
           ps == parts(outcome)
           turn == row(ps)
           n == [req[r] EXCEPT !.session = f, !.rows = req[r].rows \cup {turn}, !.step = s]
<1>3. req' = [req EXCEPT ![r] = n]
  BY <1>1, <1>2 DEF Requests
<1>4. f \in Outcome /\ (f = "ok" => req[r].session = "ok" /\ outcome = "ok")
  BY <1>1, Sessions DEF Request
<1>5. ps \subseteq Part /\ (outcome = "ok" => ps = req[r].parts \cup {"event"})
  BY <1>1 DEF Part, Request
<1> HIDE DEF f, ps
<1>6. Current(r) \in Message
  BY <1>1, AtMessage DEF ChatSteps, Current
<1>7. turn \in Turn /\ turn.msg = Current(r) /\ turn.at = req[r].at
      /\ turn.text = req[r].text /\ turn.parts = ps
  BY <1>1, <1>5, <1>6 DEF Turn, Request
<1> HIDE DEF turn
<1>8. \/ s = "send" /\ req[r].payload \in Hooks
      \/ s = "commit" /\ req[r].payload \notin Hooks
  BY DEF ByWhatsApp
<1> HIDE DEF s
<1>9. /\ n \in Request /\ Stays(req[r], n) /\ n.new = req[r].new
      /\ n.rows = req[r].rows \cup {turn} /\ n.text = req[r].text /\ n.session = f /\ n.step = s
  BY <1>1, <1>4, <1>7, <1>8 DEF Request, Stays
<1> HIDE DEF n
<1>10. From[Head(req[r].left)] # None
  BY <1>1, KeptFacts DEF WellFormed, ChatSteps, SenderSteps
<1>11. WellFormed(n)
  BY <1>1, <1>8, <1>9, <1>10, SameMessage DEF ChatSteps
<1>12. Becomes(r, n)
  BY <1>1, <1>3, <1>9, <1>11, BecomesWhen
<1> QED
  BY <1>1, <1>4, <1>5, <1>7, <1>8, <1>9, <1>12 DEF Stays

LEMMA SendEdit ==
  ASSUME Kind, NEW r \in Slot, SendReply(r)
  PROVE  \E n \in Request, reply \in Reply :
           /\ Becomes(r, n) /\ req[r].step = "send" /\ n = NextMessage(req[r], TRUE)
           /\ reply = [to |-> Sender(r), text |-> req[r].text]
           /\ outbox \subseteq outbox' /\ UNCHANGED sent /\ dropped \subseteq dropped'
           /\ outbox' \cup dropped' = outbox \cup dropped \cup {reply}
<1> DEFINE n == NextMessage(req[r], TRUE)
           reply == [to |-> Sender(r), text |-> req[r].text]
<1>1. req[r] \in Request /\ WellFormed(req[r]) /\ req[r].step = "send" /\ Requests
  BY DEF Kind, Requests, SendReply
<1>2. Sender(r) \in Phone
  BY <1>1, AtMessage DEF WellFormed, ChatSteps, Sender, Current
<1>3. reply \in Reply
  BY <1>1, <1>2 DEF Reply, Request
<1>4. n \in Request /\ WellFormed(n) /\ n.new = req[r].new
  BY <1>1, NextMessageFacts
<1>5. req' = [req EXCEPT ![r] = n]
  BY DEF SendReply
<1> HIDE DEF n
<1>6. Becomes(r, n)
  BY <1>1, <1>4, <1>5, BecomesWhen
<1> QED
  BY <1>1, <1>3, <1>4, <1>6 DEF SendReply, n

\* A commit that is answered has stored everything or, aborted, nothing.
LEMMA CommitEdit ==
  ASSUME Kind, NEW r \in Slot, Commit(r)
  PROVE  \E n \in Request :
           /\ Becomes(r, n) /\ req[r].step = "commit"
           /\ \/ n = Idle /\ KeepData
              \/ /\ Stays(req[r], n) /\ n.step = "respond" /\ n.new = {} /\ n.rows = {}
                 /\ n.session = req[r].session
                 /\ \/ /\ req[r].session = "ok"
                       /\ users' = users \cup [ext : req[r].new, at : {req[r].at}]
                       /\ turns' = turns \cup req[r].rows
                    \/ req[r].session = "aborted" /\ KeepData
<1> DEFINE n == [req[r] EXCEPT !.step = "respond", !.new = {}, !.rows = {}]
<1>1. req[r] \in Request /\ WellFormed(req[r]) /\ req[r].step = "commit" /\ Requests
  BY DEF Kind, Requests, Commit
<1>2. CASE req[r].session = "poisoned" /\ Rollback(r) /\ KeepData
  BY <1>1, <1>2, Ends, IdleIsRequest
<1>3. CASE /\ req[r].session \in {"ok", "aborted"}
           /\ req' = [req EXCEPT ![r].step = "respond", ![r].new = {}, ![r].rows = {}]
           /\ \/ /\ req[r].session = "ok"
                 /\ users' = users \cup [ext : req[r].new, at : {req[r].at}]
                 /\ turns' = turns \cup req[r].rows
              \/ req[r].session = "aborted" /\ KeepData
  <2>1. req' = [req EXCEPT ![r] = n]
    BY <1>1, <1>3 DEF Requests
  <2>2. /\ n \in Request /\ Stays(req[r], n) /\ n.step = "respond" /\ n.new = {} /\ n.rows = {}
        /\ n.session = req[r].session
    BY <1>1 DEF Request, Stays
  <2> HIDE DEF n
  <2>3. WellFormed(n)
    BY <1>1, <1>3, <2>2 DEF WellFormed, Stays, ChatSteps, SenderSteps
  <2>4. Becomes(r, n)
    BY <1>1, <2>1, <2>2, <2>3, BecomesWhen
  <2> QED
    BY <1>1, <1>3, <2>2, <2>4
<1> QED
  BY <1>2, <1>3 DEF Commit

\* A request that ends without an answer leaves the stored data alone.
Fails(r) == StatementRaises(r) \/ CommitFails(r) \/ Crash(r)

LEMMA FailsEdit ==
  ASSUME Kind, NEW r \in Slot, Fails(r) \/ Respond(r)
  PROVE  Becomes(r, Idle) /\ KeepData /\ KeepQueue /\ KeepWorld /\ req[r].step # "idle"
<1>1. Rollback(r) /\ KeepData /\ KeepQueue /\ KeepWorld /\ req[r].step # "idle"
  BY DEF Fails, StatementRaises, CommitFails, Crash, RaiseIn, Rollback, Respond, Local, Busy
<1> QED
  BY <1>1, Ends DEF Kind

(***************************************************************************)
(* Types                                                                   *)
(***************************************************************************)
\* The limiter's commands keep its types.
LEMMA LimiterKinds ==
  ASSUME LimiterTypeOK, NEW w \in Window,
         \/ Incr(w) \/ Expire(w) \/ Leak(w) \/ Spare(w) \/ Tick \/ Evict(w) \/ UNCHANGED limiterVars
  PROVE  LimiterTypeOK'
<1>1. MaxMinute \in Nat
  BY LimiterConstants
<1>2. CASE Incr(w)
  BY <1>2 DEF LimiterTypeOK, Incr
<1>3. CASE Expire(w)
  <2>1. (counter[w] > 0) \in BOOLEAN
    OBVIOUS
  <2> QED
    BY <1>3, <2>1 DEF LimiterTypeOK, Expire
<1>4. CASE Leak(w)
  BY <1>4 DEF LimiterTypeOK, Leak
<1>5. CASE Spare(w)
  BY <1>5 DEF LimiterTypeOK, Spare
<1>6. CASE Evict(w)
  BY <1>6 DEF LimiterTypeOK, Evict
<1>7. CASE Tick
  BY <1>1, <1>7 DEF LimiterTypeOK, Tick, Window
<1>8. CASE UNCHANGED limiterVars
  BY <1>8 DEF LimiterTypeOK, limiterVars
<1> QED
  BY <1>2, <1>3, <1>4, <1>5, <1>6, <1>7, <1>8

\* The limiter before a step of a request, in the window the request keeps.
LEMMA LimiterSteps ==
  ASSUME Kind, Next
  PROVE  \/ UNCHANGED limiterVars
         \/ \E r \in Slot : CountRequest(r) /\ Incr(req[r].window)
         \/ \E r \in Slot : SetTtl(r) /\ Expire(req[r].window)
         \/ \E r \in Slot : req[r].step = "limit" /\ RedisFails(r) /\ Spare(req[r].window)
         \/ \E r \in Slot : req[r].step = "expire" /\ (RedisFails(r) \/ Crash(r)) /\ Leak(req[r].window)
         \/ Tick /\ UNCHANGED req
         \/ \E w \in Window : Evict(w) /\ UNCHANGED req
<1>1. CASE \E r \in Slot, p \in Payload : Deliver(r, p) \/ Ask(r, p)
  BY <1>1 DEF Deliver, Ask, Begin
<1>2. ASSUME NEW r \in Slot, Step(r)
      PROVE  \/ UNCHANGED limiterVars
             \/ CountRequest(r) /\ Incr(req[r].window)
             \/ SetTtl(r) /\ Expire(req[r].window)
  <2>1. CountRequest(r) => Incr(req[r].window)
    BY DEF CountRequest
  <2>2. SetTtl(r) => Expire(req[r].window)
    BY DEF SetTtl
  <2>3. Lookup(r) \/ GetUser(r) \/ InsertUser(r) \/ DeadlockVictim(r) \/ AnswerMessage(r)
          => UNCHANGED limiterVars
    BY DEF Lookup, GetUser, InsertUser, DeadlockVictim, AnswerMessage, Local
  <2>4. AddInbound(r) \/ AddReply(r) \/ TrackTurn(r) => UNCHANGED limiterVars
    BY DEF AddInbound, AddReply, TrackTurn, Local
  <2>5. SendReply(r) \/ Commit(r) \/ Respond(r) => UNCHANGED limiterVars
    BY DEF SendReply, Commit, Respond
  <2> QED
    BY <1>2, <2>1, <2>2, <2>3, <2>4, <2>5 DEF Step
<1>3. ASSUME NEW r \in Slot, RedisFails(r) \/ StatementRaises(r) \/ CommitFails(r) \/ Crash(r)
      PROVE  \/ UNCHANGED limiterVars
             \/ req[r].step = "limit" /\ RedisFails(r) /\ Spare(req[r].window)
             \/ req[r].step = "expire" /\ (RedisFails(r) \/ Crash(r)) /\ Leak(req[r].window)
  BY <1>3 DEF RedisFails, StatementRaises, CommitFails, Crash, RaiseIn, Local
<1>4. CASE \E reply \in outbox : SendOut(reply) \/ GiveUp(reply)
  BY <1>4 DEF SendOut, GiveUp
<1>5. CASE Minute
  BY <1>5 DEF Minute, chatVars
<1> QED
  BY <1>1, <1>2, <1>3, <1>4, <1>5 DEF Next

\* Every action but the deadlock's changes one request or none.
LEMMA OneRequest ==
  ASSUME Kind, Next
  PROVE  Requests'
<1>1. ASSUME NEW r \in Slot, NEW p \in Payload, Deliver(r, p) \/ Ask(r, p)
      PROVE  Requests'
  BY <1>1, BeginEdit, BecomesKeeps DEF Kind
<1>2. ASSUME NEW r \in Slot, Step(r)
      PROVE  Requests'
  <2>1. CASE CountRequest(r)
    BY <2>1, CountEdit, BecomesKeeps DEF Kind
  <2>2. CASE SetTtl(r)
    BY <2>2, Lets, BecomesKeeps DEF Kind, SetTtl
  <2>3. CASE Lookup(r)
    BY <2>3, LookupEdit, BecomesKeeps DEF Kind
  <2>4. CASE GetUser(r)
    BY <2>4, UserEdit, BecomesKeeps DEF Kind
  <2>5. CASE InsertUser(r)
    BY <2>5, InsertEdit, BecomesKeeps DEF Kind
  <2>6. CASE DeadlockVictim(r)
    BY <2>6, DeadlockEdit
  <2>7. CASE AddInbound(r)
    BY <2>7, InboundEdit, BecomesKeeps DEF Kind
  <2>8. CASE AnswerMessage(r)
    BY <2>8, AnswerEdit, BecomesKeeps DEF Kind
  <2>9. CASE AddReply(r)
    BY <2>9, ReplyEdit, BecomesKeeps DEF Kind
  <2>10. CASE TrackTurn(r)
    BY <2>10, TurnEdit, BecomesKeeps DEF Kind
  <2>11. CASE SendReply(r)
    BY <2>11, SendEdit, BecomesKeeps DEF Kind
  <2>12. CASE Commit(r)
    BY <2>12, CommitEdit, BecomesKeeps DEF Kind
  <2>13. CASE Respond(r)
    BY <2>13, FailsEdit, BecomesKeeps DEF Kind
  <2> QED
    BY <1>2, <2>1, <2>2, <2>3, <2>4, <2>5, <2>6, <2>7, <2>8, <2>9, <2>10, <2>11, <2>12, <2>13 DEF Step
<1>3. ASSUME NEW r \in Slot, RedisFails(r)
      PROVE  Requests'
  BY <1>3, Lets, BecomesKeeps DEF Kind, RedisFails
<1>4. ASSUME NEW r \in Slot, StatementRaises(r) \/ CommitFails(r) \/ Crash(r)
      PROVE  Requests'
  BY <1>4, FailsEdit, BecomesKeeps DEF Kind, Fails
<1>5. CASE (\E reply \in outbox : SendOut(reply) \/ GiveUp(reply)) \/ Minute
  <2>1. UNCHANGED req
    BY <1>5 DEF SendOut, GiveUp, Minute, chatVars
  <2> QED
    BY <2>1 DEF Kind, Requests, Apart, WellFormed
<1> QED
  BY <1>1, <1>2, <1>3, <1>4, <1>5 DEF Next

\* Who begins requests, stores data, moves replies and gives answers.
LEMMA Footprints ==
  ASSUME Next
  PROVE  /\ \/ UNCHANGED <<setup, asked, clock>>
            \/ \E r \in Slot, p \in Payload : Deliver(r, p) \/ Ask(r, p)
         /\ KeepData \/ \E r \in Slot : Commit(r)
         /\ \/ KeepQueue
            \/ \E r \in Slot : SendReply(r)
            \/ \E reply \in outbox : SendOut(reply) \/ GiveUp(reply)
         /\ KeepResponses \/ \E r \in Slot : Respond(r) \/ Crash(r)
<1>1. CASE \E r \in Slot, p \in Payload : Deliver(r, p) \/ Ask(r, p)
  <2>1. KeepData /\ KeepQueue /\ KeepResponses
    BY <1>1 DEF Deliver, Ask, Begin
  <2> QED
    BY <1>1, <2>1
<1>2. ASSUME NEW r \in Slot,
             \/ CountRequest(r) \/ SetTtl(r) \/ RedisFails(r) \/ Lookup(r) \/ GetUser(r)
             \/ InsertUser(r) \/ DeadlockVictim(r) \/ AnswerMessage(r)
             \/ StatementRaises(r) \/ CommitFails(r)
      PROVE  KeepData /\ KeepQueue /\ KeepResponses /\ KeepWorld
  BY <1>2 DEF CountRequest, SetTtl, RedisFails, LimiterOnly, Lookup, GetUser, InsertUser,
       DeadlockVictim, AnswerMessage, StatementRaises, CommitFails, RaiseIn, Local
<1>3. ASSUME NEW r \in Slot, AddInbound(r) \/ AddReply(r) \/ TrackTurn(r)
      PROVE  KeepData /\ KeepQueue /\ KeepResponses /\ KeepWorld
  BY <1>3 DEF AddInbound, AddReply, TrackTurn, Local
<1>4. ASSUME NEW r \in Slot, SendReply(r)
      PROVE  KeepData /\ KeepResponses /\ KeepWorld
  BY <1>4 DEF SendReply
<1>5. ASSUME NEW r \in Slot, Commit(r)
      PROVE  KeepQueue /\ KeepResponses /\ KeepWorld
  BY <1>5 DEF Commit
<1>6. ASSUME NEW r \in Slot, Respond(r) \/ Crash(r)
      PROVE  KeepData /\ KeepQueue /\ KeepWorld
  BY <1>6 DEF Respond, Crash
<1>7. ASSUME NEW reply \in outbox, SendOut(reply) \/ GiveUp(reply)
      PROVE  KeepData /\ KeepResponses /\ KeepWorld
  BY <1>7 DEF SendOut, GiveUp
<1>8. CASE Minute
  BY <1>8 DEF Minute, chatVars, history, KeepData, KeepQueue, KeepResponses
<1>9. KeepWorld => UNCHANGED <<setup, asked, clock>>
  BY DEF KeepWorld
<1> QED
  BY <1>1, <1>2, <1>3, <1>4, <1>5, <1>6, <1>7, <1>8, <1>9 DEF Next, Step

\* An open transaction's data joins what is stored at its commit.
LEMMA WorldSteps ==
  ASSUME Kind, Next
  PROVE  World'
<1> USE DEF Kind
<1>1. LimiterTypeOK'
  <2>1. \A r \in Slot : req[r].window \in Window
    BY DEF Requests, Request
  <2> QED
    BY <2>1, LimiterSteps, LimiterKinds, LimiterConstants DEF World, Window
<1>2. asked' \subseteq setup'.payloads /\ clock' \in Nat
  BY Footprints, BeginEdit DEF World
<1>3. users' \subseteq User /\ turns' \subseteq Turn
  <2>1. CASE KeepData
    BY <2>1 DEF KeepData, World
  <2>2. ASSUME NEW r \in Slot, Commit(r)
        PROVE  users' \subseteq User /\ turns' \subseteq Turn
    <3>1. req[r].at \in Nat /\ req[r].rows \subseteq Turn /\ req[r].new \subseteq Phone
      BY DEF Requests, Request
    <3>2. [ext : req[r].new, at : {req[r].at}] \subseteq User
      BY <3>1 DEF User
    <3> QED
      BY <2>2, <3>1, <3>2, CommitEdit DEF World, KeepData
  <2> QED
    BY <2>1, <2>2, Footprints
<1>4. outbox' \cup sent' \cup dropped' \subseteq Reply
  <2>1. CASE KeepQueue
    BY <2>1 DEF KeepQueue, World
  <2>2. ASSUME NEW r \in Slot, SendReply(r)
        PROVE  outbox' \cup sent' \cup dropped' \subseteq Reply
    BY <2>2, SendEdit DEF World
  <2>3. ASSUME NEW reply \in outbox, SendOut(reply) \/ GiveUp(reply)
        PROVE  outbox' \cup sent' \cup dropped' \subseteq Reply
    BY <2>3 DEF SendOut, GiveUp, World
  <2> QED
    BY <2>1, <2>2, <2>3, Footprints
<1>5. acks' \in [Payload -> Nat] /\ cut' \in [Payload -> Nat] /\ hollow' \in [Payload -> Nat]
  <2>1. CASE KeepResponses
    BY <2>1 DEF KeepResponses, World
  <2>2. ASSUME NEW r \in Slot, Respond(r) \/ Crash(r)
        PROVE  acks' \in [Payload -> Nat] /\ cut' \in [Payload -> Nat] /\ hollow' \in [Payload -> Nat]
    <3>1. req[r].payload \in Payload
      BY <2>2, FailsEdit DEF Fails, Requests, WellFormed
    <3> QED
      BY <2>2, <3>1 DEF Respond, Crash, World
  <2> QED
    BY <2>1, <2>2, Footprints
<1> QED
  BY <1>1, <1>2, <1>3, <1>4, <1>5 DEF World, LimiterTypeOK, Window

LEMMA KindStep ==
  ASSUME Kind, [Next]_vars
  PROVE  Kind'
<1>1. CASE Next
  BY <1>1, OneRequest, WorldSteps DEF Kind
<1>2. CASE UNCHANGED vars
  BY <1>2 DEF Kind, vars, limiterVars, chatVars, history, World, LimiterTypeOK, Requests, Apart, WellFormed
<1> QED
  BY <1>1, <1>2

LEMMA KindInit == Init => Kind
<1> SUFFICES ASSUME Init
             PROVE  Kind
  OBVIOUS
<1>1. 0 \in Window
  BY LimiterConstants DEF Window
<1>2. LimiterTypeOK
  BY <1>1 DEF Init, LimiterInit, LimiterTypeOK
<1>3. World
  BY <1>2 DEF Init, World
<1>4. Requests
  BY IdleIsRequest DEF Init, Requests, Apart
<1> QED
  BY <1>3, <1>4 DEF Kind

\* The session data are of their types, and no phone is new to two open
\* transactions: the unique index of users, and PostgreSQL's end of a
\* deadlock, keep them apart.
THEOREM TypeCorrect == Spec => []TypeOK
<1>1. Spec => []Kind
  BY KindInit, KindStep, PTL DEF Spec
<1>2. Kind => TypeOK
  BY DEF Kind, World, Requests, Apart, TypeOK
<1> QED
  BY <1>1, <1>2, PTL

(***************************************************************************)
(* The rate limiter                                                        *)
(***************************************************************************)
\* While a window's key lives it has counted every request let through, and it
\* can only be evicted from the second minute after the window's own.
WindowHolds(w) ==
  /\ minute < w + 2 => /\ admitted[w] <= counter[w] + spared[w]
                       /\ admitted[w] <= Limit + spared[w]
  /\ admitted[w] <= Limit + spared[w] + late[w]

LEMMA WindowStep ==
  ASSUME LimiterTypeOK, NEW v \in Window, NEW w \in Window, WindowHolds(w),
         \/ Incr(v) \/ Expire(v) \/ Leak(v) \/ Spare(v) \/ Tick \/ Evict(v) \/ UNCHANGED limiterVars
  PROVE  WindowHolds(w)'
<1>1. /\ minute \in Nat /\ w \in Nat /\ Limit \in Nat /\ counter[w] \in Nat /\ counter[v] \in Nat
      /\ admitted[w] \in Nat /\ spared[w] \in Nat /\ late[w] \in Nat
  BY LimiterConstants DEF LimiterTypeOK, Window
<1>2. CASE Incr(v)
  <2>1. CASE v = w
    <3>1. /\ counter'[w] = counter[w] + 1 /\ spared'[w] = spared[w] /\ minute' = minute
          /\ admitted'[w] = IF counter[w] + 1 > Limit THEN admitted[w] ELSE admitted[w] + 1
          /\ late'[w] = IF minute >= w + 2 THEN late[w] + 1 ELSE late[w]
      BY <1>2, <2>1 DEF Incr, LimiterTypeOK, Over
    <3> QED
      BY <1>1, <3>1 DEF WindowHolds
  <2>2. CASE v # w
    BY <1>2, <2>2 DEF Incr, LimiterTypeOK, WindowHolds
  <2> QED
    BY <2>1, <2>2
<1>3. CASE Spare(v)
  BY <1>1, <1>3 DEF Spare, LimiterTypeOK, WindowHolds
<1>4. CASE Evict(v)
  BY <1>1, <1>4 DEF Evict, LimiterTypeOK, WindowHolds
<1>5. CASE Tick
  BY <1>1, <1>5 DEF Tick, WindowHolds
<1>6. CASE Expire(v) \/ Leak(v) \/ UNCHANGED limiterVars
  BY <1>6 DEF Expire, Leak, limiterVars, WindowHolds
<1> QED
  BY <1>2, <1>3, <1>4, <1>5, <1>6

\* However requests, minutes and expiries interleave, a client gets no more
\* than Limit requests of a window through, but for those Redis failed on and
\* those that came back to a window whose key had run out.
THEOREM LimitIsKept == Spec => []LimitHolds
<1> DEFINE Inv == Kind /\ \A w \in Window : WindowHolds(w)
<1>1. Init => Inv
  <2> SUFFICES ASSUME Init
               PROVE  Inv
    OBVIOUS
  <2>1. Limit \in Nat
    BY LimiterConstants
  <2> QED
    BY <2>1, KindInit DEF Init, LimiterInit, WindowHolds
<1>2. Inv /\ [Next]_vars => Inv'
  <2> SUFFICES ASSUME Inv, [Next]_vars
               PROVE  Inv'
    OBVIOUS
  <2>1. Kind' /\ LimiterTypeOK /\ \A r \in Slot : req[r].window \in Window
    BY KindStep DEF Kind, World, Requests, Request
  <2>2. \E v \in Window : \/ Incr(v) \/ Expire(v) \/ Leak(v) \/ Spare(v) \/ Tick \/ Evict(v)
                          \/ UNCHANGED limiterVars
    <3>1. 0 \in Window
      BY LimiterConstants DEF Window
    <3>2. CASE Next
      BY <2>1, <3>1, <3>2, LimiterSteps
    <3>3. CASE UNCHANGED vars
      BY <3>1, <3>3 DEF vars
    <3> QED
      BY <3>2, <3>3
  <2>3. \A w \in Window : WindowHolds(w)'
    BY <2>1, <2>2, WindowStep
  <2> QED
    BY <2>1, <2>3
<1>3. Inv => LimitHolds
  BY DEF WindowHolds, LimitHolds
<1> QED
  BY <1>1, <1>2, <1>3, PTL DEF Spec

\* The request that must set the time to live of a window stays at that step
\* until it has done so, or has left the window among the leaked.
ExpiryPending(w) == \E r \in Slot : req[r].step = "expire" /\ req[r].window = w

LEMMA ExpiryStep ==
  ASSUME Kind, CountersExpire, Next
  PROVE  CountersExpire'
<1> SUFFICES ASSUME NEW w \in Window, counter'[w] > 0, ~ttl'[w], w \notin leaked',
                    ~ExpiryPending(w)'
             PROVE  FALSE
  BY DEF CountersExpire, ExpiryPending
<1>1. /\ counter \in [Window -> Nat] /\ ttl \in [Window -> BOOLEAN]
      /\ \A r \in Slot : req[r].window \in Window
      /\ req \in [Slot -> Request]
  BY DEF Kind, World, LimiterTypeOK, Requests, Request
<1>2. counter[w] > 0 /\ ~ttl[w] /\ w \notin leaked => ExpiryPending(w)
  BY DEF CountersExpire, ExpiryPending
\* A request that is not at this step cannot take the pending one away.
<1>3. ASSUME NEW r \in Slot, NEW n, Becomes(r, n), req[r].step # "expire",
             counter[w] > 0, ~ttl[w], w \notin leaked
      PROVE  FALSE
  BY <1>1, <1>2, <1>3 DEF ExpiryPending, Becomes
<1>4. ASSUME NEW r \in Slot, CountRequest(r), Incr(req[r].window)
      PROVE  FALSE
  <2>1. PICK n \in Request :
          /\ Becomes(r, n) /\ req[r].step = "limit"
          /\ ~Over(counter[req[r].window] + 1) /\ counter[req[r].window] + 1 = 1 =>
               n.step = "expire" /\ n.window = req[r].window
    BY <1>4, CountEdit
  <2>2. ~ttl[w] /\ w \notin leaked
    BY <1>4 DEF Incr
  <2>3. counter[w] = 0
    BY <1>1, <1>3, <2>1, <2>2
  <2>4. req[r].window = w
    BY <1>1, <1>4, <2>3 DEF Incr
  <2>5. ~Over(0 + 1)
    BY LimiterConstants DEF Over
  <2>6. n.step = "expire" /\ n.window = w
    BY <2>1, <2>3, <2>4, <2>5
  <2> QED
    BY <1>1, <2>1, <2>6 DEF ExpiryPending, Becomes
<1>5. ASSUME NEW r \in Slot, SetTtl(r), Expire(req[r].window)
      PROVE  FALSE
  <2>1. PICK n \in Request : Becomes(r, n) /\ req[r].step = "expire"
    BY <1>5, Lets DEF SetTtl
  <2>2. counter[w] > 0 /\ w \notin leaked
    BY <1>5 DEF Expire
  <2>3. req[r].window # w
    BY <1>1, <1>5, <2>2 DEF Expire
  <2>4. ~ttl[w]
    BY <1>1, <1>5, <2>3 DEF Expire
  <2> QED
    BY <1>1, <1>2, <2>1, <2>2, <2>3, <2>4 DEF ExpiryPending, Becomes
<1>6. ASSUME NEW r \in Slot, req[r].step = "limit", RedisFails(r), Spare(req[r].window)
      PROVE  FALSE
  <2>1. PICK n \in Request : Becomes(r, n)
    BY <1>6, Lets DEF RedisFails
  <2> QED
    BY <1>3, <1>6, <2>1 DEF Spare
<1>7. ASSUME NEW r \in Slot, req[r].step = "expire", RedisFails(r) \/ Crash(r),
             Leak(req[r].window)
      PROVE  FALSE
  <2>1. PICK n \in Request : Becomes(r, n)
    BY <1>7, Lets, FailsEdit, IdleIsRequest DEF RedisFails, Fails
  <2>2. counter[w] > 0 /\ ~ttl[w] /\ w \notin leaked /\ req[r].window # w
    BY <1>7 DEF Leak
  <2> QED
    BY <1>1, <1>2, <2>1, <2>2 DEF ExpiryPending, Becomes
<1>8. CASE Tick /\ UNCHANGED req
  BY <1>2, <1>8 DEF Tick, ExpiryPending
<1>9. ASSUME NEW v \in Window, Evict(v), UNCHANGED req
      PROVE  FALSE
  BY <1>1, <1>2, <1>9 DEF Evict, ExpiryPending
<1>10. ASSUME NEW r \in Slot, Step(r), UNCHANGED limiterVars
       PROVE  FALSE
  <2>1. counter[w] > 0 /\ ~ttl[w] /\ w \notin leaked
    BY <1>10 DEF limiterVars
  <2>2. CASE CountRequest(r) \/ SetTtl(r)
    BY <1>4, <1>5, <2>2 DEF CountRequest, SetTtl
  <2>3. CASE Lookup(r) \/ GetUser(r) \/ InsertUser(r)
    BY <1>3, <2>1, <2>3, LookupEdit, UserEdit, InsertEdit
  <2>4. CASE AddInbound(r) \/ AnswerMessage(r) \/ AddReply(r)
    BY <1>3, <2>1, <2>4, InboundEdit, AnswerEdit, ReplyEdit
  <2>5. CASE TrackTurn(r) \/ SendReply(r) \/ Commit(r)
    BY <1>3, <2>1, <2>5, TurnEdit, SendEdit, CommitEdit
  <2>6. CASE Respond(r)
    BY <1>3, <2>1, <2>6, FailsEdit DEF Respond
  <2>7. CASE DeadlockVictim(r)
    <3>1. PICK q \in Slot \ {r}, n \in Request :
            /\ req' = [req EXCEPT ![r] = Idle, ![q] = n]
            /\ req[r].step = "insert" /\ req[q].step = "insert"
      BY <2>7, DeadlockEdit
    <3> QED
      BY <1>1, <1>2, <2>1, <3>1 DEF ExpiryPending
  <2> QED
    BY <1>10, <2>2, <2>3, <2>4, <2>5, <2>6, <2>7 DEF Step
<1>11. CASE UNCHANGED limiterVars
  <2>1. counter[w] > 0 /\ ~ttl[w] /\ w \notin leaked
    BY <1>11 DEF limiterVars
  <2>2. CASE \E r \in Slot, p \in Payload : Deliver(r, p) \/ Ask(r, p)
    BY <1>3, <2>1, <2>2, BeginEdit
  <2>3. ASSUME NEW r \in Slot, RedisFails(r)
        PROVE  FALSE
    BY <1>6, <1>7, <2>3 DEF RedisFails
  <2>4. ASSUME NEW r \in Slot, StatementRaises(r) \/ CommitFails(r) \/ Crash(r)
        PROVE  FALSE
    <3>1. CASE req[r].step = "expire"
      <4>1. Crash(r) /\ Leak(req[r].window)
        BY <2>4, <3>1 DEF StatementRaises, CommitFails, Crash
      <4> QED
        BY <1>7, <3>1, <4>1
    <3>2. CASE req[r].step # "expire"
      BY <1>3, <2>1, <2>4, <3>2, FailsEdit DEF Fails
    <3> QED
      BY <3>1, <3>2
  <2>5. CASE (\E reply \in outbox : SendOut(reply) \/ GiveUp(reply)) \/ Minute
    <3>1. UNCHANGED req
      BY <2>5 DEF SendOut, GiveUp, Minute, chatVars
    <3> QED
      BY <1>2, <2>1, <3>1 DEF ExpiryPending
  <2> QED
    BY <1>10, <1>11, <2>2, <2>3, <2>4, <2>5 DEF Next
<1> QED
  BY <1>4, <1>5, <1>6, <1>7, <1>8, <1>9, <1>11, LimiterSteps

\* A counter lives without a time to live only while its first request is about
\* to set it, or after that request died or lost Redis on the way.
THEOREM CountersGetTtl == Spec => []CountersExpire
<1>1. Init => Kind /\ CountersExpire
  BY KindInit DEF Init, LimiterInit, CountersExpire
<1>2. Kind /\ CountersExpire /\ [Next]_vars => (Kind /\ CountersExpire)'
  <2>1. UNCHANGED vars /\ CountersExpire => CountersExpire'
    BY DEF vars, limiterVars, chatVars, CountersExpire
  <2> QED
    BY <2>1, KindStep, ExpiryStep
<1> QED
  BY <1>1, <1>2, PTL DEF Spec

(***************************************************************************)
(* The steps, by what they do to the data of a request                     *)
(***************************************************************************)
Stored == {u.ext : u \in users}
KeepStore == KeepData /\ UNCHANGED clock

Working == {"limit", "expire", "lookup", "user", "insert", "inbound", "answer", "reply", "event"}
WithUser == {"inbound", "answer", "reply", "event", "send"} \* steps after the user's row

\* It works on, and has no row more.
MovesOn(r, n) ==
  /\ Becomes(r, n) /\ Stays(req[r], n) /\ n.rows = req[r].rows
  /\ req[r].step \in Working /\ n.step \in Working
  /\ \/ n.new = req[r].new
     \/ n.new = req[r].new \cup {Sender(r)} /\ Sender(r) \notin Stored
  /\ n.step \in WithUser => Sender(r) \in Stored \cup n.new \cup {None} \/ req[r].step \in WithUser
  /\ n.session = "ok" => req[r].session = "ok"
  /\ n.session = "ok" /\ Sender(r) # None =>
       /\ n.step = "answer" => n.parts = {"user"}
       /\ n.step = "reply" => n.parts = req[r].parts /\ req[r].step = "answer"
       /\ n.step = "event" => n.parts = req[r].parts \cup {"assistant"} /\ req[r].step = "reply"

\* A question without a session goes to the commit, a message for a number no
\* store has is passed over.
Finishes(r, n) ==
  /\ Becomes(r, n) /\ Calm(req[r], n) /\ n.session = req[r].session
  /\ req[r].step = "answer" /\ n.step = "commit" /\ Sender(r) = None /\ n.payload \notin Hooks
Skips(r, n) ==
  /\ Becomes(r, n) /\ n = NextMessage(req[r], TRUE)
  /\ req[r].step = "lookup" /\ Current(r) \notin Ours

Works(r) == \E n \in Request : MovesOn(r, n) \/ Finishes(r, n) \/ Skips(r, n)

\* The steps before the turn is among the rows.
LEMMA EarlySteps ==
  ASSUME Kind, NEW r \in Slot,
         \/ CountRequest(r) \/ SetTtl(r) \/ RedisFails(r) \/ Lookup(r) \/ GetUser(r)
         \/ InsertUser(r) \/ AddInbound(r) \/ AnswerMessage(r) \/ AddReply(r)
  PROVE  KeepStore /\ ((Becomes(r, Idle) /\ Busy(r)) \/ Works(r))
<1>1. KeepStore
  <2>1. CASE \/ CountRequest(r) \/ SetTtl(r) \/ RedisFails(r) \/ Lookup(r) \/ GetUser(r)
             \/ InsertUser(r) \/ AnswerMessage(r)
    BY <2>1 DEF CountRequest, SetTtl, RedisFails, LimiterOnly, Lookup, GetUser, InsertUser,
         AnswerMessage, Local, KeepWorld, KeepStore
  <2>2. CASE AddInbound(r) \/ AddReply(r)
    BY <2>2 DEF AddInbound, AddReply, Local, KeepWorld, KeepStore
  <2> QED
    BY <2>1, <2>2
<1>2. Stored \cup req[r].new = Known(r)
  BY DEF Stored, Known
<1>3. CASE CountRequest(r)
  BY <1>1, <1>3, CountEdit DEF Works, MovesOn, Quiet, Calm, Working, WithUser, Sender, Current, Busy, Stays
<1>4. CASE SetTtl(r) \/ RedisFails(r)
  <2>1. req[r].step \in {"limit", "expire"} /\ Unlimited(r)
    BY <1>4 DEF SetTtl, RedisFails
  <2> QED
    <3>1. PICK n \in Request :
             /\ Becomes(r, n)
             /\ \/ n = Idle
                \/ /\ Quiet(req[r], n) /\ n.step \in {"user", "answer"}
                   /\ (n.step = "answer" => From[Head(n.left)] = None)
      BY <2>1, Lets
    <3>2. CASE n = Idle
      BY <1>1, <2>1, <3>1, <3>2 DEF Busy
    <3>3. CASE n # Idle
      BY <1>1, <2>1, <3>1, <3>3 DEF Works, MovesOn, Quiet, Calm, Working, WithUser, Sender, Current, Stays
    <3> QED
      BY <3>2, <3>3
<1>5. CASE Lookup(r)
  BY <1>1, <1>5, LookupEdit DEF Works, MovesOn, Skips, Quiet, Calm, Working, WithUser, Busy
<1>6. CASE GetUser(r)
  BY <1>1, <1>2, <1>6, UserEdit DEF Works, MovesOn, Quiet, Calm, Working, WithUser
<1>7. CASE InsertUser(r)
  BY <1>1, <1>7, InsertEdit DEF Works, MovesOn, Working, WithUser, Busy, Stored
<1>8. CASE AddInbound(r)
  BY <1>1, <1>8, InboundEdit DEF Works, MovesOn, Calm, Working, WithUser
<1>9. CASE AnswerMessage(r)
  <2>1. PICK n \in Request :
           /\ Becomes(r, n) /\ req[r].step = "answer"
           /\ \/ n = Idle
              \/ /\ Calm(req[r], n) /\ n.parts = req[r].parts /\ n.session = req[r].session
                 /\ \/ n.step = "reply" /\ Sender(r) # None
                    \/ n.step = "commit" /\ Sender(r) = None /\ n.payload \notin Hooks
    BY <1>9, AnswerEdit
  <2>2. CASE n = Idle
    BY <1>1, <2>1, <2>2 DEF Busy
  <2>3. CASE Calm(req[r], n) /\ n.session = req[r].session /\ n.parts = req[r].parts
             /\ n.step = "reply" /\ Sender(r) # None
    BY <1>1, <2>1, <2>3 DEF Works, MovesOn, Calm, Working, WithUser
  <2>4. CASE Calm(req[r], n) /\ n.session = req[r].session
             /\ n.step = "commit" /\ Sender(r) = None /\ n.payload \notin Hooks
    BY <1>1, <2>1, <2>4 DEF Works, Finishes
  <2> QED
    BY <1>1, <2>1, <2>2, <2>3, <2>4
<1>10. CASE AddReply(r)
  BY <1>1, <1>10, ReplyEdit DEF Works, MovesOn, Calm, Working, WithUser
<1> QED
  BY <1>1, <1>3, <1>4, <1>5, <1>6, <1>7, <1>8, <1>9, <1>10

LEMMA Moves ==
  ASSUME Kind, Next
  PROVE  \/ UNCHANGED req /\ KeepStore
         \/ \E r \in Slot, p \in Payload : Deliver(r, p) \/ Ask(r, p)
         \/ \E r \in Slot : DeadlockVictim(r) \/ TrackTurn(r) \/ SendReply(r) \/ Commit(r)
         \/ \E r \in Slot : KeepStore /\ ((Becomes(r, Idle) /\ Busy(r)) \/ Works(r))
<1>1. ASSUME NEW r \in Slot, Step(r)
      PROVE  \/ DeadlockVictim(r) \/ TrackTurn(r) \/ SendReply(r) \/ Commit(r)
             \/ KeepStore /\ ((Becomes(r, Idle) /\ Busy(r)) \/ Works(r))
  <2>1. CASE Respond(r)
    <3>1. KeepStore /\ Becomes(r, Idle) /\ Busy(r)
      BY <2>1, FailsEdit DEF KeepStore, KeepWorld, Busy
    <3> QED
      BY <3>1
  <2> QED
    BY <1>1, <2>1, EarlySteps DEF Step
<1>2. ASSUME NEW r \in Slot, RedisFails(r) \/ StatementRaises(r) \/ CommitFails(r) \/ Crash(r)
      PROVE  KeepStore /\ ((Becomes(r, Idle) /\ Busy(r)) \/ Works(r))
  <2>1. CASE RedisFails(r)
    BY <2>1, EarlySteps
  <2>2. CASE Fails(r)
    BY <2>2, FailsEdit DEF KeepStore, KeepWorld, Busy
  <2> QED
    BY <1>2, <2>1, <2>2 DEF Fails
<1>3. CASE (\E reply \in outbox : SendOut(reply) \/ GiveUp(reply)) \/ Minute
  BY <1>3 DEF SendOut, GiveUp, Minute, chatVars, KeepStore, KeepWorld, KeepData
<1> QED
  BY <1>1, <1>2, <1>3 DEF Next

(***************************************************************************)
(* The users of the stored turns                                           *)
(***************************************************************************)
\* The users a request adds are not stored yet; those its rows and its message
\* need are stored or added by it.
HasUsers(q, stored) ==
  /\ q.new \cap stored = {}
  /\ \A t \in q.rows : From[t.msg] \in stored \cup q.new
  /\ q.step \in WithUser => From[Head(q.left)] \in stored \cup q.new \cup {None}

UniqueUsers ==
  /\ \A u, v \in users : u.ext = v.ext => u = v
  /\ \A t \in turns : From[t.msg] \in Stored
  /\ \A r \in Slot : HasUsers(req[r], Stored)

LEMMA UsersStep ==
  ASSUME Kind, UniqueUsers, Next
  PROVE  UniqueUsers'
<1> USE DEF Kind
<1>1. /\ req \in [Slot -> Request] /\ \A r \in Slot : req[r] \in Request /\ WellFormed(req[r])
      /\ Apart
  BY DEF Requests
<1>2. /\ \A u, v \in users : u.ext = v.ext => u = v
      /\ \A t \in turns : From[t.msg] \in Stored
      /\ \A r \in Slot : HasUsers(req[r], Stored)
  BY DEF UniqueUsers
\* The stored data stay, and one request is as this invariant wants it.
<1>3. ASSUME KeepData, NEW r \in Slot, NEW n, Becomes(r, n), HasUsers(n, Stored)
      PROVE  UniqueUsers'
  <2>1. Stored' = Stored /\ users' = users /\ turns' = turns
    BY <1>3 DEF KeepData, Stored
  <2>2. \A s \in Slot : HasUsers(req'[s], Stored)
    BY <1>1, <1>2, <1>3 DEF Becomes
  <2> QED
    BY <1>2, <2>1, <2>2 DEF UniqueUsers, HasUsers
<1>4. HasUsers(Idle, Stored)
  BY DEF HasUsers, Idle, WithUser
<1>5. CASE UNCHANGED req /\ KeepStore
  BY <1>2, <1>5 DEF KeepStore, KeepData, UniqueUsers, HasUsers, Stored
<1>6. ASSUME NEW r \in Slot, NEW p \in Payload, Deliver(r, p) \/ Ask(r, p)
      PROVE  UniqueUsers'
  <2>1. PICK n \in Request :
          Becomes(r, n) /\ n.step \in {"limit", "lookup", "commit"} /\ n.new = {} /\ n.rows = {} /\ KeepData
    BY <1>6, BeginEdit
  <2>2. HasUsers(n, Stored)
    BY <2>1 DEF HasUsers, WithUser
  <2> QED
    BY <1>3, <2>1, <2>2
<1>7. ASSUME NEW r \in Slot, KeepStore, Becomes(r, Idle)
      PROVE  UniqueUsers'
  BY <1>3, <1>4, <1>7 DEF KeepStore
<1>8. ASSUME NEW r \in Slot, NEW n \in Request, KeepStore, MovesOn(r, n)
      PROVE  UniqueUsers'
  <2>1. HasUsers(req[r], Stored)
    BY <1>2
  <2>2. /\ Becomes(r, n) /\ n.left = req[r].left /\ n.rows = req[r].rows /\ req[r].new \subseteq n.new
        /\ n.new \cap Stored = {}
    BY <1>8, <2>1 DEF MovesOn, Stays, HasUsers
  <2>3. n.step \in WithUser => Sender(r) \in Stored \cup n.new \cup {None}
    BY <1>8, <2>1, <2>2 DEF MovesOn, HasUsers, Sender, Current
  <2>4. HasUsers(n, Stored)
    BY <2>1, <2>2, <2>3 DEF HasUsers, Sender, Current
  <2> QED
    BY <1>3, <1>8, <2>2, <2>4 DEF KeepStore
<1>9. ASSUME NEW r \in Slot, NEW n \in Request, KeepStore, Finishes(r, n) \/ Skips(r, n)
      PROVE  UniqueUsers'
  <2>1. /\ Becomes(r, n) /\ n.rows = req[r].rows /\ n.new = req[r].new
        /\ n.step \in {"lookup", "commit"}
    BY <1>1, <1>9, NextMessageFacts DEF Finishes, Skips, Calm
  <2>2. HasUsers(n, Stored)
    BY <1>2, <2>1 DEF HasUsers, WithUser
  <2> QED
    BY <1>3, <1>9, <2>1, <2>2 DEF KeepStore
<1>10. ASSUME NEW r \in Slot, TrackTurn(r)
       PROVE  UniqueUsers'
  <2>1. PICK n \in Request, turn \in Turn :
           /\ Becomes(r, n) /\ req[r].step = "event" /\ n.left = req[r].left
           /\ n.new = req[r].new /\ n.rows = req[r].rows \cup {turn}
           /\ turn.msg = Current(r) /\ n.step \in {"send", "commit"}
    BY <1>10, TurnEdit DEF Stays
  <2>2. KeepData
    BY <1>10 DEF TrackTurn, Local
  <2>3. From[Head(req[r].left)] # None
    BY <1>1, <2>1, KeptFacts DEF WellFormed, ChatSteps, SenderSteps
  <2>4. From[turn.msg] \in Stored \cup req[r].new
    BY <1>2, <2>1, <2>3 DEF HasUsers, WithUser, Current
  <2>5. HasUsers(n, Stored)
    BY <1>2, <2>1, <2>4 DEF HasUsers, Current
  <2> QED
    BY <1>3, <2>1, <2>2, <2>5
<1>11. ASSUME NEW r \in Slot, SendReply(r)
       PROVE  UniqueUsers'
  <2>1. PICK n \in Request :
           Becomes(r, n) /\ n.new = req[r].new /\ n.rows = req[r].rows /\ n.step \in {"lookup", "commit"}
    BY <1>1, <1>11, SendEdit, NextMessageFacts
  <2>2. HasUsers(n, Stored)
    BY <1>2, <2>1 DEF HasUsers, WithUser
  <2> QED
    BY <1>3, <1>11, <2>1, <2>2 DEF SendReply
<1>12. ASSUME NEW r \in Slot, DeadlockVictim(r)
       PROVE  UniqueUsers'
  <2>1. PICK q \in Slot \ {r}, n \in Request :
           /\ req' = [req EXCEPT ![r] = Idle, ![q] = n]
           /\ n.new = req[q].new \cup {Sender(q)} /\ n.step = "inbound" /\ n.left = req[q].left
           /\ n.rows = req[q].rows /\ Sender(q) \in req[r].new
    BY <1>12, DeadlockEdit DEF Stays
  <2>2. KeepData
    BY <1>12 DEF DeadlockVictim, Local
  <2>3. Sender(q) \notin Stored
    BY <1>2, <2>1 DEF HasUsers
  <2>4. HasUsers(n, Stored)
    BY <1>2, <2>1, <2>3 DEF HasUsers, Sender, Current
  <2>5. \A s \in Slot : HasUsers(req'[s], Stored)
    BY <1>1, <1>2, <1>4, <2>1, <2>4
  <2>6. Stored' = Stored /\ users' = users /\ turns' = turns
    BY <2>2 DEF KeepData, Stored
  <2> QED
    BY <1>2, <2>5, <2>6 DEF UniqueUsers, HasUsers
<1>13. ASSUME NEW r \in Slot, Commit(r)
       PROVE  UniqueUsers'
  <2>1. PICK n \in Request :
           /\ Becomes(r, n)
           /\ \/ n = Idle /\ KeepData
              \/ /\ n.step = "respond" /\ n.new = {} /\ n.rows = {}
                 /\ \/ /\ users' = users \cup [ext : req[r].new, at : {req[r].at}]
                       /\ turns' = turns \cup req[r].rows
                    \/ KeepData
    BY <1>13, CommitEdit
  <2>2. CASE KeepData
    <3>1. HasUsers(n, Stored)
      BY <1>4, <2>1 DEF HasUsers, WithUser, Idle
    <3> QED
      BY <1>3, <2>1, <2>2, <3>1
  <2>3. CASE /\ n.step = "respond" /\ n.new = {} /\ n.rows = {}
             /\ users' = users \cup [ext : req[r].new, at : {req[r].at}]
             /\ turns' = turns \cup req[r].rows
    <3> DEFINE added == [ext : req[r].new, at : {req[r].at}]
    <3>1. \A u \in added : u.ext \in req[r].new /\ u.at = req[r].at /\ u = [ext |-> u.ext, at |-> u.at]
      OBVIOUS
    <3>2. \A x \in req[r].new : [ext |-> x, at |-> req[r].at] \in added
      OBVIOUS
    <3>3. Stored' = Stored \cup req[r].new
      BY <2>3, <3>1, <3>2 DEF Stored
    <3>4. \A u, v \in users' : u.ext = v.ext => u = v
      <4>1. \A u \in users : u.ext \notin req[r].new
        BY <1>2 DEF HasUsers, Stored
      <4> HIDE DEF added
      <4> QED
        BY <1>2, <2>3, <3>1, <4>1 DEF added
    <3>5. \A t \in turns' : From[t.msg] \in Stored'
      BY <1>2, <2>3, <3>3 DEF HasUsers
    <3>6. HasUsers(n, Stored')
      BY <2>3 DEF HasUsers, WithUser
    <3>7. ASSUME NEW s \in Slot, s # r
          PROVE  HasUsers(req[s], Stored')
      <4>1. req[s].new \cap req[r].new = {}
        BY <1>1, <3>7 DEF Apart
      <4> QED
        BY <1>2, <3>3, <4>1 DEF HasUsers
    <3>8. \A s \in Slot : HasUsers(req'[s], Stored')
      BY <1>1, <2>1, <3>6, <3>7 DEF Becomes
    <3> QED
      BY <3>4, <3>5, <3>8 DEF UniqueUsers, HasUsers
  <2> QED
    BY <2>1, <2>2, <2>3
<1> QED
  BY <1>5, <1>6, <1>7, <1>8, <1>9, <1>10, <1>11, <1>12, <1>13, Moves DEF Works

(***************************************************************************)
(* When transactions began                                                 *)
(***************************************************************************)
Open(q) == q.step \notin {"idle", "respond"}

\* No two requests began at one time, and no stored turn is of an open one.
Clocks ==
  /\ \A r \in Slot : Busy(r) => req[r].at <= clock
  /\ \A r, q \in Slot : Busy(r) /\ Busy(q) /\ r # q => req[r].at # req[q].at
  /\ \A t \in turns : t.at <= clock
  /\ \A t \in turns : \A r \in Slot : Open(req[r]) => t.at # req[r].at

LEMMA ClocksStep ==
  ASSUME Kind, Clocks, Next, \A r \in Slot : \A t \in req[r].rows : t.at = req[r].at
  PROVE  Clocks'
<1> USE DEF Kind
<1>1. /\ req \in [Slot -> Request] /\ clock \in Nat
      /\ \A t \in turns : t.at \in Nat
      /\ \A r \in Slot : req[r].at \in Nat
      /\ \A r \in Slot : req[r] \in Request /\ WellFormed(req[r])
  BY DEF Requests, Request, World, Turn
<1>2. ASSUME KeepStore, NEW r \in Slot, NEW n, Becomes(r, n), Busy(r),
             n.step = "idle" \/ (n.at = req[r].at /\ (Open(req[r]) \/ ~Open(n)))
      PROVE  Clocks'
  <2>1. /\ req'[r] = n /\ (\A s \in Slot : s # r => req'[s] = req[s])
        /\ turns' = turns /\ clock' = clock
    BY <1>1, <1>2 DEF Becomes, KeepStore, KeepData
  <2> QED
    BY <1>2, <2>1 DEF Clocks, Busy, Open
<1>3. CASE UNCHANGED req /\ KeepStore
  BY <1>3 DEF KeepStore, KeepData, Clocks, Busy, Open
<1>4. ASSUME NEW r \in Slot, NEW p \in Payload, Deliver(r, p) \/ Ask(r, p)
      PROVE  Clocks'
  <2>1. PICK n \in Request :
          Becomes(r, n) /\ n.step # "idle" /\ n.at = clock + 1 /\ clock' = clock + 1 /\ KeepData
    BY <1>4, BeginEdit
  <2>2. /\ req'[r] = n /\ (\A s \in Slot : s # r => req'[s] = req[s])
        /\ turns' = turns
    BY <1>1, <2>1 DEF Becomes, KeepData
  <2>3. ASSUME NEW m \in Nat, m <= clock
        PROVE  m # clock + 1 /\ m <= clock + 1
    BY <1>1, <2>3
  <2>4. /\ \A s \in Slot : Busy(s) => req[s].at # clock + 1 /\ req[s].at <= clock + 1
        /\ \A t \in turns : t.at # clock + 1 /\ t.at <= clock + 1
    <3>1. ASSUME NEW s \in Slot, Busy(s)
          PROVE  req[s].at # clock + 1 /\ req[s].at <= clock + 1
      <4>1. req[s].at \in Nat
        BY <1>1
      <4>2. req[s].at <= clock
        BY <3>1 DEF Clocks
      <4> QED
        BY <2>3, <4>1, <4>2
    <3>2. ASSUME NEW t \in turns
          PROVE  t.at # clock + 1 /\ t.at <= clock + 1
      <4>1. t.at \in Nat /\ t.at <= clock
        BY <1>1 DEF Clocks
      <4> QED
        BY <2>3, <4>1
    <3> QED
      BY <3>1, <3>2
  <2>5. \A s \in Slot : Busy(s)' => req'[s].at <= clock + 1
    BY <1>1, <2>1, <2>2, <2>4 DEF Busy
  <2>6. \A s, q \in Slot : Busy(s)' /\ Busy(q)' /\ s # q => req'[s].at # req'[q].at
    BY <1>1, <2>1, <2>2, <2>4 DEF Clocks, Busy
  <2>7. \A t \in turns : \A s \in Slot : Open(req'[s]) => t.at # req'[s].at
    BY <1>1, <2>1, <2>2, <2>4 DEF Clocks, Open
  <2> QED
    BY <2>1, <2>2, <2>4, <2>5, <2>6, <2>7 DEF Clocks, Busy, Open
<1>5. ASSUME NEW r \in Slot, KeepStore, Becomes(r, Idle) /\ Busy(r)
      PROVE  Clocks'
  BY <1>2, <1>5 DEF Idle
<1>6. ASSUME NEW r \in Slot, KeepStore, Works(r)
      PROVE  Clocks'
  BY <1>1, <1>2, <1>6, NextMessageFacts
     DEF Works, MovesOn, Finishes, Skips, Calm, Stays, Working, Open, Busy
<1>7. ASSUME NEW r \in Slot, TrackTurn(r) \/ SendReply(r)
      PROVE  Clocks'
  <2>1. KeepStore
    BY <1>7 DEF TrackTurn, SendReply, Local, KeepStore, KeepWorld
  <2>2. CASE TrackTurn(r)
    BY <1>2, <2>1, <2>2, TurnEdit DEF Stays, Open, Busy
  <2>3. CASE SendReply(r)
    <3>1. PICK n \in Request :
            Becomes(r, n) /\ req[r].step = "send" /\ n = NextMessage(req[r], TRUE)
      BY <2>3, SendEdit
    <3>2. n.at = req[r].at
      BY <1>1, <3>1, NextMessageFacts
    <3> QED
      BY <1>2, <2>1, <3>1, <3>2 DEF Open, Busy
  <2> QED
    BY <1>7, <2>2, <2>3
<1>8. ASSUME NEW r \in Slot, DeadlockVictim(r)
      PROVE  Clocks'
  <2>1. PICK q \in Slot \ {r}, n \in Request :
           /\ req' = [req EXCEPT ![r] = Idle, ![q] = n]
           /\ req[q].step = "insert" /\ n.at = req[q].at
    BY <1>8, DeadlockEdit DEF Stays
  <2>2. turns' = turns /\ clock' = clock
    BY <1>8 DEF DeadlockVictim, Local, KeepData, KeepWorld
  <2>3. /\ req'[r] = Idle /\ req'[q] = n /\ Idle.step = "idle"
        /\ \A s \in Slot : s # r /\ s # q => req'[s] = req[s]
    BY <1>1, <2>1 DEF Idle
  <2>4. \A s \in Slot : Busy(s)' => Busy(s) /\ req'[s].at = req[s].at
    BY <2>1, <2>3 DEF Busy
  <2>5. \A s \in Slot : Open(req'[s]) => Open(req[s]) /\ req'[s].at = req[s].at
    BY <2>1, <2>3 DEF Open
  <2> QED
    BY <2>2, <2>4, <2>5 DEF Clocks, Busy, Open
<1>9. ASSUME NEW r \in Slot, Commit(r)
      PROVE  Clocks'
  <2>1. PICK n \in Request :
           /\ Becomes(r, n) /\ req[r].step = "commit"
           /\ \/ n = Idle /\ KeepData
              \/ /\ n.at = req[r].at /\ n.step = "respond"
                 /\ (turns' = turns \cup req[r].rows \/ KeepData)
    BY <1>9, CommitEdit DEF Stays
  <2>2. /\ req'[r] = n /\ (\A s \in Slot : s # r => req'[s] = req[s]) /\ clock' = clock
        /\ Idle.step = "idle"
    BY <1>1, <1>9, <2>1 DEF Becomes, Commit, KeepWorld, Idle
  <2>3. \A t \in turns' : t \in turns \/ (n.step = "respond" /\ t.at = req[r].at)
    BY <2>1 DEF KeepData
  <2> QED
    BY <2>1, <2>2, <2>3 DEF Clocks, Busy, Open
<1> QED
  BY <1>3, <1>4, <1>5, <1>6, <1>7, <1>8, <1>9, Moves

(***************************************************************************)
(* The rows of an open transaction                                         *)
(***************************************************************************)
\* The messages of a request that have had their turn.
Handled(q) ==
  IF q.step = "commit" THEN Messages(q.payload)
  ELSE (Messages(q.payload) \ Items(q.left)) \cup (IF q.step = "send" THEN {Head(q.left)} ELSE {})

\* One row for each message it handled and keeps.
RowsInOrder(q) == Open(q) =>
  /\ \A m \in Kept(q.payload) : m \in Handled(q) <=> \E t \in q.rows : t.msg = m
  /\ \A t \in q.rows : t.msg \in Kept(q.payload) /\ t.at = q.at
  /\ \A s, t \in q.rows : s.msg = t.msg => s = t

\* While nothing has failed, a turn is whole when its message is done.
Whole(q) == q.step # "idle" /\ q.session = "ok" =>
  /\ \A t \in q.rows : t.parts = Part
  /\ q.step \in {"answer", "reply"} /\ From[Head(q.left)] # None => "user" \in q.parts
  /\ q.step = "event" => {"user", "assistant"} \subseteq q.parts

RowsFit(q) == RowsInOrder(q) /\ Whole(q) /\ (q.rows # {} => Open(q))
Rows == \A r \in Slot : RowsFit(req[r])
\* Going on to the next message of a webhook leaves the current one handled.
LEMMA HandledNext ==
  ASSUME NEW q \in Request, WellFormed(q), q.step \in {"lookup", "send"}
  PROVE  Handled(NextMessage(q, TRUE)) = (Messages(q.payload) \ Items(q.left)) \cup {Head(q.left)}
<1> DEFINE n == NextMessage(q, TRUE)
<1>1. /\ n.step \in {"lookup", "commit"} /\ n.left = Tail(q.left) /\ n.payload = q.payload
      /\ n.step = "commit" => n.left = <<>>
  BY NextMessageFacts
<1>2. Items(Tail(q.left)) = Items(q.left) \ {Head(q.left)} /\ Head(q.left) \in Messages(q.payload)
  BY AtMessage DEF ChatSteps
<1>3. n.step = "commit" => Items(n.left) = {}
  BY <1>1, NothingLeft
<1>4. Handled(n) = Messages(q.payload) \ Items(n.left)
  BY <1>1, <1>3 DEF Handled
<1> QED
  BY <1>1, <1>2, <1>4

\* A question has one message, which the commit finds handled.
LEMMA QuestionHandled ==
  ASSUME NEW q \in Request, WellFormed(q), q.step \in {"answer", "event"}, q.payload \notin Hooks
  PROVE  Messages(q.payload) = {Head(q.left)} /\ Handled(q) = {}
<1>1. q.payload \in Payload \ Hooks /\ q.left = Content[q.payload]
  BY DEF WellFormed
<1>2. Messages(q.payload) = {Head(q.left)} /\ Items(q.left) = Messages(q.payload)
  BY <1>1, OneQuestion, Contents
<1> QED
  BY <1>2 DEF Handled

LEMMA BeginRows ==
  ASSUME NEW n \in Request, WellFormed(n), n.step \in {"limit", "lookup", "commit"}, n.rows = {},
         n.left = Content[n.payload], n.step = "commit" => n.payload \in Hooks
  PROVE  RowsFit(n)
<1>1. n.payload \in Payload /\ (n.step = "commit" => n.left = <<>>)
  BY DEF WellFormed
<1>2. Items(n.left) = Messages(n.payload)
  BY <1>1, Contents
<1>3. Handled(n) = {}
  BY <1>1, <1>2, NothingLeft DEF Handled
<1> QED
  BY <1>3 DEF RowsFit, RowsInOrder, Whole

\* Nothing is handled between lookup and event.
LEMMA WorkRows ==
  ASSUME NEW q \in Request, NEW n \in Request, RowsFit(q), q.step \in Working, n.step \in Working,
         Stays(q, n), n.rows = q.rows, Whole(n)
  PROVE  RowsFit(n)
<1>1. Handled(n) = Handled(q)
  BY DEF Handled, Stays, Working
<1> QED
  BY <1>1 DEF RowsFit, RowsInOrder, Stays, Working, Open

LEMMA SkipRows ==
  ASSUME NEW q \in Request, WellFormed(q), RowsFit(q), q.step \in {"lookup", "send"},
         q.step = "lookup" => Head(q.left) \notin Ours
  PROVE  RowsFit(NextMessage(q, TRUE))
<1> DEFINE n == NextMessage(q, TRUE)
<1>1. /\ n.step \in {"lookup", "commit"} /\ n.payload = q.payload /\ n.at = q.at
      /\ n.rows = q.rows /\ n.session = q.session
  BY NextMessageFacts
<1>2. Handled(n) = (Messages(q.payload) \ Items(q.left)) \cup {Head(q.left)}
  BY HandledNext
<1> HIDE DEF n
<1>3. \A m \in Kept(q.payload) : m \in Handled(n) <=> m \in Handled(q)
  <2>1. CASE q.step = "send"
    BY <1>2, <2>1 DEF Handled
  <2>2. CASE q.step = "lookup"
    <3>1. Head(q.left) \notin Kept(q.payload)
      BY <2>2, KeptFacts DEF WellFormed
    <3> QED
      BY <1>2, <2>2, <3>1 DEF Handled
  <2> QED
    BY <2>1, <2>2
<1>4. RowsFit(n)
  BY <1>1, <1>3 DEF RowsFit, RowsInOrder, Whole, Open
<1> QED
  BY <1>4 DEF n

LEMMA TurnRows ==
  ASSUME NEW q \in Request, WellFormed(q), RowsFit(q), q.step = "event", NEW n \in Request,
         NEW turn, Stays(q, n), n.rows = q.rows \cup {turn}, turn.msg = Head(q.left), turn.at = q.at,
         n.session = "ok" => q.session = "ok" /\ turn.parts = q.parts \cup {"event"},
         \/ n.step = "send" /\ n.payload \in Hooks
         \/ n.step = "commit" /\ n.payload \notin Hooks
  PROVE  RowsFit(n)
<1>1. n.left = q.left /\ n.payload = q.payload /\ n.at = q.at
  BY DEF Stays
<1>2. /\ Head(q.left) \in Kept(q.payload) /\ Head(q.left) \in Messages(q.payload)
      /\ Head(q.left) \in Items(q.left)
  BY AtMessage DEF WellFormed, ChatSteps, SenderSteps
<1>3. Handled(q) = Messages(q.payload) \ Items(q.left)
  BY DEF Handled
<1>4. Handled(n) = Handled(q) \cup {Head(q.left)}
  <2>1. CASE n.step = "send"
    BY <1>1, <1>3, <2>1 DEF Handled
  <2>2. CASE n.step = "commit" /\ q.payload \notin Hooks
    BY <1>1, <2>2, QuestionHandled DEF Handled
  <2> QED
    BY <1>1, <2>1, <2>2
<1>5. \A t \in q.rows : t.msg \in Kept(q.payload) /\ t.msg \in Handled(q) /\ t.at = q.at
  BY DEF RowsFit, RowsInOrder, Open
<1>6. \A t \in q.rows : t.msg # Head(q.left)
  BY <1>2, <1>3, <1>5
<1>7. \A m \in Kept(n.payload) : m \in Handled(n) <=> \E t \in n.rows : t.msg = m
  BY <1>1, <1>2, <1>4, <1>5 DEF RowsFit, RowsInOrder, Open
<1>8. \A t \in n.rows : t.msg \in Kept(n.payload) /\ t.at = n.at
  BY <1>1, <1>2, <1>5
<1>9. \A s, t \in n.rows : s.msg = t.msg => s = t
  BY <1>6 DEF RowsFit, RowsInOrder, Open
<1>10. Whole(n)
  <2> SUFFICES ASSUME n.session = "ok"
               PROVE  \A t \in n.rows : t.parts = Part
    BY DEF Whole
  <2>1. {"user", "assistant"} \subseteq q.parts /\ q.parts \subseteq Part
    BY DEF RowsFit, Whole, Request
  <2>2. turn.parts = Part
    BY <2>1 DEF Part
  <2> QED
    BY <2>2 DEF RowsFit, Whole
<1> QED
  BY <1>7, <1>8, <1>9, <1>10 DEF RowsFit, RowsInOrder, Open

LEMMA RowsStep ==
  ASSUME Kind, Rows, Next
  PROVE  Rows'
<1> USE DEF Kind
<1>1. /\ req \in [Slot -> Request]
      /\ \A r \in Slot : req[r] \in Request /\ WellFormed(req[r]) /\ RowsFit(req[r])
  BY DEF Requests, Rows
<1>2. ASSUME NEW r \in Slot, NEW n, Becomes(r, n), RowsFit(n)
      PROVE  Rows'
  <2>1. \A s \in Slot : RowsFit(req'[s])
    BY <1>1, <1>2 DEF Becomes
  <2> QED
    BY <2>1 DEF Rows, RowsFit, RowsInOrder, Whole, Open, Handled
<1>3. RowsFit(Idle)
  BY DEF RowsFit, RowsInOrder, Whole, Open, Idle
<1>4. CASE UNCHANGED req
  BY <1>1, <1>4 DEF Rows, RowsFit, RowsInOrder, Whole, Open, Handled
<1>5. ASSUME NEW r \in Slot, NEW p \in Payload, Deliver(r, p) \/ Ask(r, p)
      PROVE  Rows'
  BY <1>2, <1>5, BeginEdit, BeginRows DEF Becomes
<1>6. ASSUME NEW r \in Slot, NEW n \in Request, MovesOn(r, n)
      PROVE  Rows'
  <2>1. /\ Becomes(r, n) /\ Stays(req[r], n) /\ n.rows = req[r].rows
        /\ req[r].step \in Working /\ n.step \in Working
    BY <1>6 DEF MovesOn
  <2>2. Whole(n)
    <3> SUFFICES ASSUME n.session = "ok", n.step # "idle"
                 PROVE  /\ \A t \in n.rows : t.parts = Part
                        /\ n.step \in {"answer", "reply"} /\ From[Head(n.left)] # None => "user" \in n.parts
                        /\ n.step = "event" => {"user", "assistant"} \subseteq n.parts
      BY DEF Whole
    <3>1. /\ req[r].session = "ok" /\ req[r].step # "idle" /\ n.left = req[r].left
          /\ Sender(r) = From[Head(n.left)]
      BY <1>6, <2>1 DEF MovesOn, Stays, Working, Sender, Current
    <3>2. /\ \A t \in req[r].rows : t.parts = Part
          /\ req[r].step \in {"answer", "reply"} /\ From[Head(n.left)] # None => "user" \in req[r].parts
      BY <1>1, <3>1 DEF RowsFit, Whole
    <3>3. n.step = "event" => From[Head(n.left)] # None
      BY KeptFacts, <2>1 DEF Becomes, WellFormed, ChatSteps, SenderSteps
    <3> QED
      BY <1>6, <2>1, <3>1, <3>2, <3>3 DEF MovesOn
  <2> QED
    BY <1>1, <1>2, <2>1, <2>2, WorkRows
<1>7. ASSUME NEW r \in Slot, NEW n \in Request, Finishes(r, n)
      PROVE  Rows'
  <2>1. /\ Becomes(r, n) /\ Stays(req[r], n) /\ n.rows = req[r].rows /\ n.session = req[r].session
        /\ req[r].step = "answer" /\ n.step = "commit" /\ Sender(r) = None /\ req[r].payload \notin Hooks
    BY <1>7 DEF Finishes, Calm, Stays
  <2>2. Messages(req[r].payload) = {Head(req[r].left)}
    BY <1>1, <2>1, QuestionHandled
  <2>3. Kept(req[r].payload) = {}
    BY <2>1, <2>2, KeptFacts DEF Sender, Current
  <2>4. RowsFit(n)
    BY <1>1, <2>1, <2>3 DEF RowsFit, RowsInOrder, Whole, Open, Stays
  <2> QED
    BY <1>2, <2>1, <2>4
<1>8. ASSUME NEW r \in Slot, NEW n \in Request, Skips(r, n)
      PROVE  Rows'
  BY <1>1, <1>2, <1>8, SkipRows DEF Skips, Current
<1>9. ASSUME NEW r \in Slot, TrackTurn(r)
      PROVE  Rows'
  <2>1. PICK n \in Request, turn \in Turn :
           /\ Becomes(r, n) /\ req[r].step = "event" /\ Stays(req[r], n)
           /\ n.rows = req[r].rows \cup {turn} /\ turn.msg = Current(r) /\ turn.at = req[r].at
           /\ n.session = "ok" => req[r].session = "ok" /\ turn.parts = req[r].parts \cup {"event"}
           /\ \/ n.step = "send" /\ n.payload \in Hooks
              \/ n.step = "commit" /\ n.payload \notin Hooks
    BY <1>9, TurnEdit
  <2>2. RowsFit(n)
    BY <1>1, <2>1, TurnRows DEF Current
  <2> QED
    BY <1>2, <2>1, <2>2
<1>10. ASSUME NEW r \in Slot, SendReply(r)
       PROVE  Rows'
  BY <1>1, <1>2, <1>10, SendEdit, SkipRows
<1>11. ASSUME NEW r \in Slot, DeadlockVictim(r)
       PROVE  Rows'
  <2>1. PICK q \in Slot \ {r}, n \in Request :
           /\ req' = [req EXCEPT ![r] = Idle, ![q] = n]
           /\ req[q].step = "insert" /\ Stays(req[q], n) /\ n.step = "inbound"
           /\ n.rows = req[q].rows /\ n.session = req[q].session
    BY <1>11, DeadlockEdit
  <2>2. Whole(n)
    BY <1>1, <2>1 DEF RowsFit, Whole
  <2>3. RowsFit(n)
    BY <1>1, <2>1, <2>2, WorkRows DEF Working
  <2>4. \A s \in Slot : RowsFit(req'[s])
    BY <1>1, <1>3, <2>1, <2>3
  <2> QED
    BY <2>4 DEF Rows, RowsFit, RowsInOrder, Whole, Open, Handled
<1>12. ASSUME NEW r \in Slot, Commit(r)
       PROVE  Rows'
  <2>1. PICK n \in Request : Becomes(r, n) /\ (n = Idle \/ (n.step = "respond" /\ n.rows = {}))
    BY <1>12, CommitEdit
  <2>2. RowsFit(n)
    BY <1>3, <2>1 DEF RowsFit, RowsInOrder, Whole, Open
  <2> QED
    BY <1>2, <2>1, <2>2
<1> QED
  BY <1>2, <1>3, <1>4, <1>5, <1>6, <1>7, <1>8, <1>9, <1>10, <1>11, <1>12, Moves DEF Works

(***************************************************************************)
(* Answers and stored turns                                                *)
(***************************************************************************)
\* A request has committed from its commit until it answers or dies.
LEMMA SameCommitted ==
  ASSUME Kind, NEW r \in Slot, NEW n, Becomes(r, n), req[r].step # "respond",
         n.step # "respond" \/ n.session # "ok"
  PROVE  \A p : Committed(p)' = Committed(p)
<1>1. req' = [req EXCEPT ![r] = n] /\ req \in [Slot -> Request]
  BY DEF Becomes, Kind, Requests
<1>2. req'[r] = n /\ \A s \in Slot : s # r => req'[s] = req[s]
  BY <1>1
<1> QED
  BY <1>2 DEF Committed

LEMMA CommittedStep ==
  ASSUME Kind, Next
  PROVE  \/ \E r \in Slot : Commit(r) \/ Respond(r) \/ Crash(r)
         \/ KeepData /\ KeepResponses /\ \A p : Committed(p)' = Committed(p)
<1>1. ASSUME NEW r \in Slot, NEW p \in Payload, Deliver(r, p) \/ Ask(r, p)
      PROVE  KeepData /\ KeepResponses /\ \A o : Committed(o)' = Committed(o)
  BY <1>1, BeginEdit, SameCommitted
<1>2. ASSUME NEW r \in Slot,
             \/ CountRequest(r) \/ SetTtl(r) \/ RedisFails(r) \/ Lookup(r) \/ GetUser(r)
             \/ InsertUser(r) \/ AddInbound(r) \/ AnswerMessage(r) \/ AddReply(r)
      PROVE  KeepData /\ KeepResponses /\ \A o : Committed(o)' = Committed(o)
  <2>1. KeepData
    BY <1>2, EarlySteps DEF KeepStore
  <2>2. KeepResponses /\ req[r].step # "respond"
    <3>1. CASE \/ CountRequest(r) \/ SetTtl(r) \/ RedisFails(r) \/ Lookup(r) \/ GetUser(r)
               \/ InsertUser(r) \/ AnswerMessage(r)
      BY <3>1 DEF CountRequest, SetTtl, RedisFails, LimiterOnly, Lookup, GetUser, InsertUser,
           AnswerMessage, Local
    <3>2. CASE AddInbound(r) \/ AddReply(r)
      BY <3>2 DEF AddInbound, AddReply, Local
    <3> QED
      BY <1>2, <3>1, <3>2
  <2>3. Idle.step # "respond"
    BY DEF Idle
  <2>4. ASSUME NEW n \in Request, MovesOn(r, n) \/ Finishes(r, n) \/ Skips(r, n)
        PROVE  Becomes(r, n) /\ n.step # "respond"
    BY <2>4, NextMessageFacts DEF MovesOn, Finishes, Skips, Working, Kind, Requests
  <2>5. \A o : Committed(o)' = Committed(o)
    BY <1>2, <2>2, <2>3, <2>4, EarlySteps, SameCommitted DEF Works
  <2> QED
    BY <2>1, <2>2, <2>5
<1>3. ASSUME NEW r \in Slot, DeadlockVictim(r)
      PROVE  KeepData /\ KeepResponses /\ \A o : Committed(o)' = Committed(o)
  <2>1. PICK q \in Slot \ {r}, n \in Request :
           /\ req' = [req EXCEPT ![r] = Idle, ![q] = n]
           /\ req[r].step = "insert" /\ req[q].step = "insert" /\ n.step = "inbound"
    BY <1>3, DeadlockEdit
  <2>2. /\ req'[r].step = "idle" /\ req'[q].step = "inbound"
        /\ \A s \in Slot : s # r /\ s # q => req'[s] = req[s]
    BY <2>1 DEF Kind, Requests, Idle
  <2>3. \A o : Committed(o)' = Committed(o)
    BY <2>1, <2>2 DEF Committed
  <2> QED
    BY <1>3, <2>3 DEF DeadlockVictim, Local
<1>4. ASSUME NEW r \in Slot, TrackTurn(r) \/ SendReply(r)
      PROVE  KeepData /\ KeepResponses /\ \A o : Committed(o)' = Committed(o)
  <2>1. KeepData /\ KeepResponses
    BY <1>4 DEF TrackTurn, SendReply, Local
  <2>2. PICK n \in Request : Becomes(r, n) /\ req[r].step # "respond" /\ n.step # "respond"
    <3>1. CASE TrackTurn(r)
      BY <3>1, TurnEdit
    <3>2. CASE SendReply(r)
      BY <3>2, SendEdit, NextMessageFacts DEF Kind, Requests
    <3> QED
      BY <1>4, <3>1, <3>2
  <2> QED
    BY <2>1, <2>2, SameCommitted
<1>5. ASSUME NEW r \in Slot, StatementRaises(r) \/ CommitFails(r)
      PROVE  KeepData /\ KeepResponses /\ \A o : Committed(o)' = Committed(o)
  <2>1. KeepData /\ KeepResponses /\ req[r].step # "respond" /\ Rollback(r)
    BY <1>5 DEF StatementRaises, CommitFails, RaiseIn, Local
  <2> QED
    BY <2>1, Ends, SameCommitted DEF Kind, Idle
<1>6. CASE (\E reply \in outbox : SendOut(reply) \/ GiveUp(reply)) \/ Minute
  <2>1. KeepData /\ KeepResponses /\ UNCHANGED req
    BY <1>6 DEF SendOut, GiveUp, Minute, chatVars, history, KeepData, KeepResponses
  <2> QED
    BY <2>1 DEF Committed
<1> QED
  BY <1>1, <1>2, <1>3, <1>4, <1>5, <1>6 DEF Next, Step

CountHolds(p, m) ==
  /\ IsFiniteSet(TurnsOf(m))
  /\ Cardinality(TurnsOf(m)) + hollow[p] = acks[p] + cut[p] + Cardinality(Committed(p))
Counts == \A p \in Payload : \A m \in Kept(p) : CountHolds(p, m)

LEMMA FiniteCommitted ==
  ASSUME NEW p
  PROVE  IsFiniteSet(Committed(p)) /\ Cardinality(Committed(p)) \in Nat
<1>1. IsFiniteSet(Committed(p))
  BY ChatPayloads, FS_Subset DEF Committed
<1> QED
  BY <1>1, FS_CardinalityType

\* A request that answers or dies moves from the committed to the answered or
\* the cut ones, or was none of either.
LEMMA CountsLeave ==
  ASSUME Kind, Counts, NEW r \in Slot, Respond(r) \/ Crash(r)
  PROVE  Counts'
<1> SUFFICES ASSUME NEW p \in Payload, NEW m \in Kept(p)
             PROVE  CountHolds(p, m)'
  BY DEF Counts, Kept
<1>1. /\ req \in [Slot -> Request] /\ req[r] \in Request /\ WellFormed(req[r])
      /\ acks \in [Payload -> Nat] /\ cut \in [Payload -> Nat] /\ hollow \in [Payload -> Nat]
  BY DEF Kind, Requests, World
<1>2. req' = [req EXCEPT ![r] = Idle] /\ UNCHANGED turns /\ req[r].step # "idle"
  BY <1>2 DEF Respond, Crash, Rollback, KeepData, Busy
<1>3. req'[r] = Idle /\ \A s \in Slot : s # r => req'[s] = req[s]
  BY <1>1, <1>2, IdleIsRequest
<1>4. Committed(p)' = Committed(p) \ {r}
  BY <1>3 DEF Committed, Idle
<1>5. r \in Committed(p) <=> req[r].payload = p /\ req[r].step = "respond" /\ req[r].session = "ok"
  BY DEF Committed
<1>6. req[r].payload \in Payload /\ (req[r].step = "respond" => req[r].session \in {"ok", "aborted"})
  BY <1>1, <1>2 DEF WellFormed, Request, Outcome
<1> DEFINE a == Cardinality(Committed(p))
           b == Cardinality(Committed(p)')
           t == Cardinality(TurnsOf(m))
<1>7. a \in Nat /\ b = IF r \in Committed(p) THEN a - 1 ELSE a
  BY <1>4, FiniteCommitted, FS_RemoveElement
<1>8. /\ IsFiniteSet(TurnsOf(m)) /\ t \in Nat
      /\ t + hollow[p] = acks[p] + cut[p] + a
  BY FS_CardinalityType DEF Counts, CountHolds
<1>9. TurnsOf(m)' = TurnsOf(m)
  BY <1>2 DEF TurnsOf
<1>10. t + hollow'[p] = acks'[p] + cut'[p] + b
  <2> HIDE DEF a, b, t
  <2>1. acks[p] \in Nat /\ cut[p] \in Nat /\ hollow[p] \in Nat
    BY <1>1
  <2>2. CASE Respond(r)
    <3>1. /\ acks' = [acks EXCEPT ![req[r].payload] = @ + 1] /\ cut' = cut
          /\ hollow' = IF req[r].session = "aborted" THEN [hollow EXCEPT ![req[r].payload] = @ + 1]
                       ELSE hollow
          /\ req[r].step = "respond"
      BY <2>2 DEF Respond
    <3>2. CASE req[r].payload = p
      BY <1>1, <1>5, <1>6, <1>7, <1>8, <2>1, <3>1, <3>2
    <3>3. CASE req[r].payload # p
      BY <1>1, <1>5, <1>6, <1>7, <1>8, <2>1, <3>1, <3>3
    <3> QED
      BY <3>2, <3>3
  <2>3. CASE Crash(r)
    <3>1. /\ acks' = acks /\ hollow' = hollow
          /\ cut' = IF req[r].step = "respond" /\ req[r].session = "ok"
                    THEN [cut EXCEPT ![req[r].payload] = @ + 1] ELSE cut
      BY <2>3 DEF Crash
    <3>2. CASE req[r].payload = p
      BY <1>1, <1>5, <1>6, <1>7, <1>8, <2>1, <3>1, <3>2
    <3>3. CASE req[r].payload # p
      BY <1>1, <1>5, <1>6, <1>7, <1>8, <2>1, <3>1, <3>3
    <3> QED
      BY <3>2, <3>3
  <2> QED
    BY <2>2, <2>3
<1> QED
  BY <1>8, <1>9, <1>10 DEF CountHolds

\* A commit stores one turn of each message its payload keeps.
LEMMA CountsCommit ==
  ASSUME Kind, Counts, Rows, Clocks, NEW r \in Slot, Commit(r)
  PROVE  Counts'
<1> SUFFICES ASSUME NEW p \in Payload, NEW m \in Kept(p)
             PROVE  CountHolds(p, m)'
  BY DEF Counts, Kept
<1>1. /\ req \in [Slot -> Request] /\ req[r] \in Request /\ WellFormed(req[r]) /\ RowsFit(req[r])
      /\ acks \in [Payload -> Nat] /\ cut \in [Payload -> Nat] /\ hollow \in [Payload -> Nat]
  BY DEF Kind, Requests, World, Rows
<1>2. UNCHANGED <<acks, cut, hollow>>
  BY DEF Commit, KeepResponses
<1>3. PICK n \in Request :
         /\ Becomes(r, n) /\ req[r].step = "commit"
         /\ \/ n = Idle /\ KeepData
            \/ /\ Stays(req[r], n) /\ n.step = "respond" /\ n.session = req[r].session
               /\ \/ req[r].session = "ok" /\ turns' = turns \cup req[r].rows
                  \/ req[r].session = "aborted" /\ KeepData
  BY CommitEdit
<1>4. /\ IsFiniteSet(TurnsOf(m)) /\ Cardinality(TurnsOf(m)) \in Nat
      /\ Cardinality(TurnsOf(m)) + hollow[p] = acks[p] + cut[p] + Cardinality(Committed(p))
  BY FS_CardinalityType DEF Counts, CountHolds
<1>5. CASE KeepData /\ (n = Idle \/ n.session = "aborted")
  <2>1. Committed(p)' = Committed(p)
    BY <1>3, <1>5, SameCommitted DEF Idle
  <2>2. TurnsOf(m)' = TurnsOf(m)
    BY <1>5 DEF TurnsOf, KeepData
  <2> QED
    BY <1>2, <1>4, <2>1, <2>2 DEF CountHolds
<1>6. CASE /\ n.step = "respond" /\ n.session = "ok" /\ n.payload = req[r].payload
           /\ turns' = turns \cup req[r].rows
  <2>1. req'[r] = n /\ \A s \in Slot : s # r => req'[s] = req[s]
    BY <1>1, <1>3 DEF Becomes
  <2>2. r \notin Committed(p)
    BY <1>3 DEF Committed
  <2>3. /\ req[r].payload \in Payload /\ Handled(req[r]) = Messages(req[r].payload)
        /\ Kept(req[r].payload) \subseteq Messages(req[r].payload) /\ m \in Messages(p)
    BY <1>1, <1>3 DEF WellFormed, Handled, Kept
  <2>4. \A t \in req[r].rows : t.msg \in Messages(req[r].payload) /\ t.at = req[r].at
    BY <1>1, <1>3, <2>3 DEF RowsFit, RowsInOrder, Open
  <2>5. CASE req[r].payload # p
    <3>1. Committed(p)' = Committed(p)
      BY <1>3, <1>6, <2>1, <2>5 DEF Committed
    <3>2. \A t \in req[r].rows : t.msg # m
      BY <2>3, <2>4, <2>5, ChatPayloads
    <3>3. TurnsOf(m)' = TurnsOf(m)
      BY <1>6, <3>2 DEF TurnsOf
    <3> QED
      BY <1>2, <1>4, <3>1, <3>3 DEF CountHolds
  <2>6. CASE req[r].payload = p
    <3>1. Committed(p)' = Committed(p) \cup {r}
      BY <1>3, <1>6, <2>1, <2>6 DEF Committed
    <3>2. PICK t \in req[r].rows : t.msg = m
      BY <1>1, <1>3, <2>3, <2>6 DEF RowsFit, RowsInOrder, Open
    <3>3. \A s \in req[r].rows : s.msg = m => s = t
      BY <1>1, <1>3, <3>2 DEF RowsFit, RowsInOrder, Open
    <3>4. t \notin turns
      BY <1>3, <2>4, <3>2 DEF Clocks, Open
    <3>5. TurnsOf(m)' = TurnsOf(m) \cup {t} /\ t \notin TurnsOf(m)
      BY <1>6, <3>2, <3>3, <3>4 DEF TurnsOf
    <3>6. /\ IsFiniteSet(TurnsOf(m) \cup {t})
          /\ Cardinality(TurnsOf(m) \cup {t}) = Cardinality(TurnsOf(m)) + 1
      BY <1>4, <3>5, FS_AddElement
    <3>7. Cardinality(Committed(p) \cup {r}) = Cardinality(Committed(p)) + 1
      BY <2>2, FiniteCommitted, FS_AddElement
    <3>8. IsFiniteSet(TurnsOf(m))' /\ Cardinality(TurnsOf(m))' = Cardinality(TurnsOf(m)) + 1
          /\ Cardinality(Committed(p))' = Cardinality(Committed(p)) + 1
      BY <3>1, <3>5, <3>6, <3>7
    <3>9. Cardinality(Committed(p)) \in Nat /\ acks[p] \in Nat /\ cut[p] \in Nat /\ hollow[p] \in Nat
      BY <1>1, FiniteCommitted
    <3> QED
      BY <1>2, <1>4, <3>8, <3>9 DEF CountHolds
  <2> QED
    BY <2>5, <2>6
<1> QED
  BY <1>3, <1>5, <1>6 DEF Stays

LEMMA CountsStep ==
  ASSUME Kind, Counts, Rows, Clocks, Next
  PROVE  Counts'
<1>1. CASE KeepData /\ KeepResponses /\ \A p : Committed(p)' = Committed(p)
  <2>1. \A m : TurnsOf(m)' = TurnsOf(m)
    BY <1>1 DEF TurnsOf, KeepData
  <2> QED
    BY <1>1, <2>1 DEF Counts, CountHolds, KeepResponses, Kept
<1> QED
  BY <1>1, CommittedStep, CountsCommit, CountsLeave

WholeTurns == \A t \in turns : t.parts = Part

LEMMA WholeStep ==
  ASSUME Kind, Rows, WholeTurns, Next
  PROVE  WholeTurns'
<1>1. CASE KeepData
  BY <1>1 DEF KeepData, WholeTurns
<1>2. ASSUME NEW r \in Slot, Commit(r)
      PROVE  WholeTurns'
  <2>1. KeepData \/ (turns' = turns \cup req[r].rows /\ req[r].session = "ok" /\ req[r].step = "commit")
    BY <1>2, CommitEdit
  <2>2. req[r].session = "ok" /\ req[r].step = "commit" => \A t \in req[r].rows : t.parts = Part
    BY DEF Rows, RowsFit, Whole
  <2> QED
    BY <1>1, <2>1, <2>2 DEF WholeTurns
<1> QED
  BY <1>1, <1>2, Footprints

ChatData == Kind /\ UniqueUsers /\ Clocks /\ Rows /\ Counts /\ WholeTurns

LEMMA ChatDataInit == Init => ChatData
<1> SUFFICES ASSUME Init
             PROVE  ChatData
  OBVIOUS
<1>1. users = {} /\ turns = {} /\ \A r \in Slot : req[r] = Idle
  BY DEF Init
<1>2. UniqueUsers
  BY <1>1 DEF UniqueUsers, HasUsers, Idle, WithUser
<1>3. Clocks
  BY <1>1 DEF Clocks, Busy, Open, Idle
<1>4. Rows
  BY <1>1 DEF Rows, RowsFit, RowsInOrder, Whole, Open, Idle
<1>5. Counts
  <2> SUFFICES ASSUME NEW p \in Payload, NEW m \in Kept(p)
               PROVE  CountHolds(p, m)
    BY DEF Counts
  <2>1. TurnsOf(m) = {} /\ Committed(p) = {}
    BY <1>1 DEF TurnsOf, Committed, Idle
  <2>2. acks[p] = 0 /\ cut[p] = 0 /\ hollow[p] = 0
    BY DEF Init
  <2> QED
    BY <2>1, <2>2, FS_EmptySet DEF CountHolds
<1> QED
  BY <1>1, <1>2, <1>3, <1>4, <1>5, KindInit DEF ChatData, WholeTurns

LEMMA ChatDataStep ==
  ASSUME ChatData, [Next]_vars
  PROVE  ChatData'
<1>1. CASE Next
  <2>1. \A r \in Slot : \A t \in req[r].rows : t.at = req[r].at
    BY DEF ChatData, Rows, RowsFit, RowsInOrder
  <2> QED
    BY <1>1, <2>1, KindStep, UsersStep, ClocksStep, RowsStep, CountsStep, WholeStep DEF ChatData
<1>2. CASE UNCHANGED vars
  <2>1. Kind'
    BY <1>2, KindStep DEF ChatData
  <2>2. UNCHANGED <<users, turns, req, clock, acks, cut, hollow>>
    BY <1>2 DEF vars, chatVars, history
  <2>3. UniqueUsers' /\ Clocks' /\ WholeTurns'
    BY <2>2 DEF ChatData, UniqueUsers, HasUsers, Stored, Clocks, Busy, Open, WholeTurns
  <2>4. Rows'
    BY <2>2 DEF ChatData, Rows, RowsFit, RowsInOrder, Whole, Open, Handled
  <2>5. Counts'
    BY <2>2 DEF ChatData, Counts, CountHolds, TurnsOf, Committed, Kept
  <2> QED
    BY <2>1, <2>3, <2>4, <2>5 DEF ChatData
<1> QED
  BY <1>1, <1>2

\* Each answered attempt stored the whole turn of each of its messages, once,
\* and no failed attempt stored any, but for attempts that died after their
\* commit and those answered over an aborted transaction. However the first
\* messages of a sender overlap, the stored turns are of one user row.
THEOREM TurnsAreAnswers == Spec => []TurnsMatchAnswers
<1>1. Spec => []ChatData
  BY ChatDataInit, ChatDataStep, PTL DEF Spec
<1>2. ChatData => TurnsMatchAnswers
  <2> SUFFICES ASSUME ChatData
               PROVE  TurnsMatchAnswers
    OBVIOUS
  <2>1. ASSUME NEW t \in turns
        PROVE  t.parts = Part /\ Cardinality({u \in users : u.ext = From[t.msg]}) = 1
    <3>1. PICK v \in users : v.ext = From[t.msg]
      BY DEF ChatData, UniqueUsers, Stored
    <3>2. {u \in users : u.ext = From[t.msg]} = {v}
      BY <3>1 DEF ChatData, UniqueUsers
    <3>3. Cardinality({v}) = 1
      BY FS_Singleton
    <3> QED
      BY <3>2, <3>3 DEF ChatData, WholeTurns
  <2> QED
    BY <2>1 DEF TurnsMatchAnswers, ChatData, Counts, CountHolds
<1> QED
  BY <1>1, <1>2, PTL

(***************************************************************************)
(* Replies before the commit                                               *)
(***************************************************************************)
Replies == outbox \cup sent \cup dropped

\* The reply to a row is out of the request's hands, or is being sent.
Replied(q, replies) ==
  \A t \in q.rows : t.msg \in HookMessages =>
    \/ ReplyOf(t) \in replies
    \/ q.step = "send" /\ t.msg = Head(q.left) /\ t.text = q.text

RepliesFirst ==
  /\ \A t \in turns : t.msg \in HookMessages => ReplyOf(t) \in Replies
  /\ \A r \in Slot : Replied(req[r], Replies)

\* A reply that was queued has gone out or was given up, never forgotten.
LEMMA RepliesStay ==
  ASSUME Kind, Next
  PROVE  Replies \subseteq Replies'
<1>1. CASE KeepQueue
  BY <1>1 DEF KeepQueue, Replies
<1>2. CASE \E r \in Slot : SendReply(r)
  BY <1>2, SendEdit DEF Replies
<1>3. CASE \E reply \in outbox : SendOut(reply) \/ GiveUp(reply)
  BY <1>3 DEF SendOut, GiveUp, Replies
<1> QED
  BY <1>1, <1>2, <1>3, Footprints

\* A question over POST /chat is no message of a webhook.
LEMMA QuestionsApart ==
  ASSUME NEW p \in Payload, NEW m \in Messages(p), m \in HookMessages
  PROVE  p \in Hooks
BY ChatPayloads, ChatConstants DEF HookMessages

LEMMA RepliesStep ==
  ASSUME Kind, RepliesFirst, Next
  PROVE  RepliesFirst'
<1> USE DEF Kind
<1>1. /\ req \in [Slot -> Request]
      /\ \A r \in Slot : req[r] \in Request /\ WellFormed(req[r]) /\ Replied(req[r], Replies)
  BY DEF Requests, RepliesFirst
<1>2. \A r \in Slot : Replied(req[r], Replies')
  BY <1>1, RepliesStay DEF Replied
<1>3. ASSUME \A r \in Slot : Replied(req'[r], Replies'),
             \A t \in turns' : t.msg \in HookMessages => ReplyOf(t) \in Replies'
      PROVE  RepliesFirst'
  BY <1>3 DEF RepliesFirst, Replied, Replies, HookMessages, Messages, ReplyOf
<1>4. KeepData => \A t \in turns' : t.msg \in HookMessages => ReplyOf(t) \in Replies'
  BY RepliesStay DEF KeepData, RepliesFirst
<1>5. ASSUME NEW r \in Slot, NEW n, Becomes(r, n), Replied(n, Replies')
      PROVE  \A s \in Slot : Replied(req'[s], Replies')
  BY <1>1, <1>2, <1>5 DEF Becomes
<1>6. Replied(Idle, Replies')
  BY DEF Replied, Idle
<1>7. CASE UNCHANGED req /\ KeepStore
  BY <1>2, <1>3, <1>4, <1>7 DEF KeepStore
<1>8. ASSUME NEW r \in Slot, NEW p \in Payload, Deliver(r, p) \/ Ask(r, p)
      PROVE  RepliesFirst'
  <2>1. PICK n \in Request : Becomes(r, n) /\ n.rows = {} /\ KeepData
    BY <1>8, BeginEdit
  <2>2. Replied(n, Replies')
    BY <2>1 DEF Replied
  <2> QED
    BY <1>3, <1>4, <1>5, <2>1, <2>2
<1>9. ASSUME NEW r \in Slot, NEW n \in Request, Becomes(r, n), KeepData, n.rows = req[r].rows,
             req[r].step # "send"
      PROVE  RepliesFirst'
  <2>1. Replied(n, Replies')
    BY <1>2, <1>9 DEF Replied
  <2> QED
    BY <1>3, <1>4, <1>5, <1>9, <2>1
<1>10. ASSUME NEW r \in Slot, KeepStore, (Becomes(r, Idle) /\ Busy(r)) \/ Works(r)
       PROVE  RepliesFirst'
  <2>1. CASE Becomes(r, Idle)
    BY <1>3, <1>4, <1>5, <1>6, <1>10, <2>1 DEF KeepStore
  <2>2. CASE Works(r)
    BY <1>1, <1>9, <1>10, <2>2, NextMessageFacts
       DEF Works, MovesOn, Finishes, Skips, Calm, Working, KeepStore
  <2> QED
    BY <1>10, <2>1, <2>2
<1>11. ASSUME NEW r \in Slot, TrackTurn(r)
       PROVE  RepliesFirst'
  <2>1. PICK n \in Request, turn \in Turn :
           /\ Becomes(r, n) /\ req[r].step = "event" /\ Stays(req[r], n)
           /\ n.rows = req[r].rows \cup {turn} /\ n.text = req[r].text
           /\ turn.msg = Current(r) /\ turn.text = req[r].text
           /\ \/ n.step = "send" /\ n.payload \in Hooks
              \/ n.step = "commit" /\ n.payload \notin Hooks
    BY <1>11, TurnEdit
  <2>2. KeepData
    BY <1>11 DEF TrackTurn, Local
  <2>3. Current(r) \in Messages(req[r].payload) /\ req[r].payload \in Payload
    BY <1>1, <2>1, AtMessage DEF ChatSteps, Current
  <2>4. Current(r) \in HookMessages => n.step = "send"
    BY <2>1, <2>3, QuestionsApart DEF Stays
  <2>5. Replied(n, Replies')
    BY <1>2, <2>1, <2>4 DEF Replied, Stays, Current
  <2> QED
    BY <1>3, <1>4, <1>5, <2>1, <2>2, <2>5
<1>12. ASSUME NEW r \in Slot, SendReply(r)
       PROVE  RepliesFirst'
  <2>1. PICK n \in Request, reply \in Reply :
           /\ Becomes(r, n) /\ req[r].step = "send" /\ n = NextMessage(req[r], TRUE)
           /\ reply = [to |-> Sender(r), text |-> req[r].text]
           /\ outbox' \cup dropped' = outbox \cup dropped \cup {reply}
    BY <1>12, SendEdit
  <2>2. KeepData
    BY <1>12 DEF SendReply
  <2>3. reply \in Replies'
    BY <2>1 DEF Replies
  <2>4. n.rows = req[r].rows
    BY <1>1, <2>1, NextMessageFacts
  <2>5. \A t \in req[r].rows : t.msg = Head(req[r].left) /\ t.text = req[r].text => ReplyOf(t) = reply
    BY <2>1 DEF ReplyOf, Sender, Current
  <2>6. Replied(n, Replies')
    BY <1>2, <2>3, <2>4, <2>5 DEF Replied
  <2> QED
    BY <1>3, <1>4, <1>5, <2>1, <2>2, <2>6
<1>13. ASSUME NEW r \in Slot, DeadlockVictim(r)
       PROVE  RepliesFirst'
  <2>1. PICK q \in Slot \ {r}, n \in Request :
           /\ req' = [req EXCEPT ![r] = Idle, ![q] = n]
           /\ req[q].step = "insert" /\ n.rows = req[q].rows
    BY <1>13, DeadlockEdit
  <2>2. KeepData
    BY <1>13 DEF DeadlockVictim, Local
  <2>3. Replied(n, Replies')
    BY <1>2, <2>1 DEF Replied
  <2>4. \A s \in Slot : Replied(req'[s], Replies')
    BY <1>1, <1>2, <1>6, <2>1, <2>3
  <2> QED
    BY <1>3, <1>4, <2>2, <2>4
<1>14. ASSUME NEW r \in Slot, Commit(r)
       PROVE  RepliesFirst'
  <2>1. PICK n \in Request :
           /\ Becomes(r, n) /\ req[r].step = "commit"
           /\ n = Idle \/ n.rows = {}
           /\ KeepData \/ turns' = turns \cup req[r].rows
    BY <1>14, CommitEdit
  <2>2. Replied(n, Replies')
    BY <1>6, <2>1 DEF Replied
  <2>3. \A t \in req[r].rows : t.msg \in HookMessages => ReplyOf(t) \in Replies'
    BY <1>2, <2>1 DEF Replied
  <2>4. \A t \in turns : t.msg \in HookMessages => ReplyOf(t) \in Replies'
    BY RepliesStay DEF RepliesFirst
  <2>5. \A t \in turns' : t.msg \in HookMessages => ReplyOf(t) \in Replies'
    BY <1>4, <2>1, <2>3, <2>4
  <2> QED
    BY <1>3, <1>5, <2>1, <2>2, <2>5
<1> QED
  BY <1>7, <1>8, <1>10, <1>11, <1>12, <1>13, <1>14, Moves

\* No stored WhatsApp turn is without its reply, whatever dies when: its text
\* was queued before the commit, and has gone to that phone or was refused.
THEOREM RepliesAreQueued == Spec => []StoredIsAnswered
<1> DEFINE Inv == Kind /\ RepliesFirst
<1>1. Init => Inv
  BY KindInit DEF Init, RepliesFirst, Replied, Idle
<1>2. Inv /\ [Next]_vars => Inv'
  <2>1. UNCHANGED vars /\ RepliesFirst => RepliesFirst'
    BY DEF vars, chatVars, history, RepliesFirst, Replied, Replies, HookMessages, Messages, ReplyOf
  <2> QED
    BY <2>1, KindStep, RepliesStep
<1>3. Inv => StoredIsAnswered
  BY DEF RepliesFirst, Replies, StoredIsAnswered
<1> QED
  BY <1>1, <1>2, <1>3, PTL DEF Spec

(***************************************************************************)
(* Sets and functions defined by recursion on numbers                      *)
(***************************************************************************)
\* A set of numbers that has 0, and the next number of each it has, has them all.
LEMMA AllNumbers ==
  ASSUME NEW S \in SUBSET Nat, 0 \in S, \A n \in S : n + 1 \in S
  PROVE  S = Nat
<1> SUFFICES ASSUME Nat \ S # {}
             PROVE  FALSE
  OBVIOUS
<1> DEFINE T == {1 .. n : n \in Nat \ S}
<1>1. T \subseteq FiniteSubsetsOf(Nat) /\ T # {}
  <2>1. \A n \in Nat : 1 .. n \in SUBSET Nat /\ IsFiniteSet(1 .. n)
    BY FS_Interval
  <2> QED
    BY <2>1 DEF FiniteSubsetsOf
<1>2. PICK I \in T : \A J \in T : <<J, I>> \notin StrictSubsetOrdering(Nat)
  <2> HIDE DEF T
  <2>1. IsWellFoundedOn(StrictSubsetOrdering(Nat), FiniteSubsetsOf(Nat))
    BY FS_StrictSubsetOrderingWellFounded
  <2> QED
    BY <1>1, <2>1, WFMin
<1>3. PICK n \in Nat \ S : I = 1 .. n
  OBVIOUS
<1>4. n # 0 /\ n - 1 \in Nat /\ (n - 1) + 1 = n
  BY <1>3
<1>5. n - 1 \notin S
  BY <1>3, <1>4
<1>6. 1 .. (n - 1) \in T
  BY <1>4, <1>5
<1>7. 1 .. (n - 1) \in SUBSET Nat /\ 1 .. n \in SUBSET Nat
  OBVIOUS
<1>8. 1 .. (n - 1) \subseteq 1 .. n /\ n \in 1 .. n /\ n \notin 1 .. (n - 1)
  BY <1>4
<1> QED
  BY <1>2, <1>3, <1>6, <1>7, <1>8 DEF StrictSubsetOrdering

\* What the recursion makes of the numbers up to n.
UpTo(n, V, first, step) ==
  {g \in [0 .. n -> V] : g[0] = first /\ \A i \in 1 .. n : g[i] = step[i][g[i - 1]]}

\* f has the given first value, and computes each other value from the one before.
Steps(V) == [Nat -> [V -> V]]
Recurs(f, V, first, step) ==
  f \in [Nat -> V] /\ f[0] = first /\ \A n \in Nat \ {0} : f[n] = step[n][f[n - 1]]

LEMMA Recursion ==
  ASSUME NEW V, NEW first, first \in V, NEW step, step \in Steps(V)
  PROVE  \E f : Recurs(f, V, first, step)
<1> USE DEF Steps
<1> DEFINE G(n) == UpTo(n, V, first, step)
           S == {n \in Nat : G(n) # {}}
           A == {i \in Nat : \A n, m \in Nat : i <= n /\ i <= m =>
                   \A g \in G(n), h \in G(m) : g[i] = h[i]}
<1>1. S = Nat
  <2>1. 0 \in S
    <3>1. [i \in 0 .. 0 |-> first] \in G(0)
      BY DEF UpTo
    <3> QED
      BY <3>1
  <2>2. ASSUME NEW n \in S
        PROVE  n + 1 \in S
    <3>1. PICK g \in G(n) : TRUE
      BY <2>2
    <3>2. /\ n \in Nat /\ g \in [0 .. n -> V] /\ g[0] = first
          /\ \A i \in 1 .. n : g[i] = step[i][g[i - 1]]
      BY <3>1 DEF UpTo
    <3> DEFINE h == [i \in 0 .. n + 1 |-> IF i = n + 1 THEN step[n + 1][g[n]] ELSE g[i]]
    <3>3. step[n + 1][g[n]] \in V
      BY <3>2
    <3>4. h \in [0 .. n + 1 -> V]
      BY <3>2, <3>3
    <3>5. h[0] = first
      BY <3>2
    <3>6. ASSUME NEW i \in 1 .. n + 1
          PROVE  h[i] = step[i][h[i - 1]]
      <4>1. i - 1 \in 0 .. n /\ h[i - 1] = g[i - 1]
        BY <3>2, <3>6
      <4>2. CASE i = n + 1
        BY <3>2, <4>1, <4>2
      <4>3. CASE i \in 1 .. n
        BY <3>2, <4>1, <4>3
      <4> QED
        BY <3>2, <4>2, <4>3
    <3>7. h \in G(n + 1)
      <4> HIDE DEF h
      <4> QED
        BY <3>4, <3>5, <3>6 DEF UpTo
    <3> QED
      BY <3>2, <3>7
  <2> HIDE DEF S
  <2>3. S \in SUBSET Nat
    BY DEF S
  <2> QED
    BY <2>1, <2>2, <2>3, AllNumbers
<1>2. A = Nat
  <2>1. 0 \in A
    BY DEF UpTo
  <2>2. ASSUME NEW i \in A
        PROVE  i + 1 \in A
    <3> SUFFICES ASSUME NEW n \in Nat, NEW m \in Nat, i + 1 <= n, i + 1 <= m,
                        NEW g \in G(n), NEW h \in G(m)
                 PROVE  g[i + 1] = h[i + 1]
      OBVIOUS
    <3>1. i \in Nat /\ i <= n /\ i <= m /\ (i + 1) - 1 = i
      OBVIOUS
    <3>2. g[i] = h[i]
      BY <3>1
    <3>3. g[i + 1] = step[i + 1][g[i]] /\ h[i + 1] = step[i + 1][h[i]]
      <4>1. i + 1 \in 1 .. n /\ i + 1 \in 1 .. m
        BY <3>1
      <4> QED
        BY <3>1, <4>1 DEF UpTo
    <3> QED
      BY <3>2, <3>3
  <2> HIDE DEF A
  <2>3. A \in SUBSET Nat
    BY DEF A
  <2> QED
    BY <2>1, <2>2, <2>3, AllNumbers
<1> DEFINE g(n) == CHOOSE x \in G(n) : TRUE
           f == [n \in Nat |-> g(n)[n]]
<1>3. \A n \in Nat : g(n) \in G(n)
  BY <1>1
<1>4. \A n \in Nat : g(n) \in [0 .. n -> V] /\ g(n)[0] = first
  BY <1>3 DEF UpTo
<1>5. f \in [Nat -> V] /\ f[0] = first
  BY <1>4
<1>6. ASSUME NEW n \in Nat \ {0}
      PROVE  f[n] = step[n][f[n - 1]]
  <2>1. n - 1 \in Nat /\ n - 1 <= n /\ n \in 1 .. n
    OBVIOUS
  <2>2. g(n) \in G(n) /\ g(n - 1) \in G(n - 1)
    BY <1>3, <2>1
  <2>3. g(n)[n] = step[n][g(n)[n - 1]]
    BY <2>1, <2>2 DEF UpTo
  <2>4. g(n)[n - 1] = g(n - 1)[n - 1]
    <3>1. n - 1 \in A
      BY <1>2, <2>1
    <3> QED
      BY <2>1, <2>2, <3>1
  <2> QED
    BY <2>1, <2>3, <2>4
<1> QED
  BY <1>5, <1>6, Zenon DEF Recurs

(***************************************************************************)
(* Sequences laid end to end                                               *)
(***************************************************************************)
\* g[n] is the first n of ps, end to end.
Joins(g, ps, R) ==
  /\ g \in [Nat -> Seq(R)] /\ g[0] = <<>>
  /\ \A n \in Nat : n < Len(ps) => g[n + 1] = g[n] \o ps[n + 1]

LEMMA JoinsExist ==
  ASSUME NEW R, NEW ps \in Seq(Seq(R))
  PROVE  \E g : Joins(g, ps, R)
<1> DEFINE step == [n \in Nat |-> [s \in Seq(R) |-> IF n \in 1 .. Len(ps) THEN s \o ps[n] ELSE s]]
<1>1. \A n \in 1 .. Len(ps) : ps[n] \in Seq(R)
  BY ElementOfSeq
<1>2. \A n \in Nat, s \in Seq(R) : (IF n \in 1 .. Len(ps) THEN s \o ps[n] ELSE s) \in Seq(R)
  BY <1>1, ConcatProperties
<1>3. step \in Steps(Seq(R))
  BY <1>2 DEF Steps
<1>4. <<>> \in Seq(R)
  OBVIOUS
<1>5. PICK g : Recurs(g, Seq(R), <<>>, step)
  <2> HIDE DEF step
  <2> QED
    BY <1>3, <1>4, Recursion
<1>6. ASSUME NEW n \in Nat, n < Len(ps)
      PROVE  g[n + 1] = g[n] \o ps[n + 1]
  <2>1. n + 1 \in Nat \ {0} /\ n + 1 \in 1 .. Len(ps) /\ (n + 1) - 1 = n
    BY <1>6, LenProperties
  <2>2. g[n + 1] = step[n + 1][g[n]] /\ g[n] \in Seq(R)
    BY <1>5, <2>1 DEF Recurs
  <2> QED
    BY <2>1, <2>2
<1> QED
  BY <1>5, <1>6 DEF Joins, Recurs

LEMMA FlattenIs ==
  ASSUME NEW R, NEW ps \in Seq(Seq(R)), NEW g, Joins(g, ps, R)
  PROVE  FlattenSeq(ps) = g[Len(ps)]
<1>1. Len(ps) \in Nat
  BY LenProperties
<1>2. CASE Len(ps) = 0
  BY <1>2, EmptySeq DEF FlattenSeq, Joins
<1>3. CASE Len(ps) # 0
  <2> DEFINE Eq(f) == f = [i \in 1 .. Len(ps) |-> IF i = 1 THEN ps[i] ELSE f[i - 1] \o ps[i]]
             F == CHOOSE f : Eq(f)
             h == [i \in 1 .. Len(ps) |-> g[i]]
  <2>1. \A i \in 1 .. Len(ps) : ps[i] \in Seq(R)
    BY ElementOfSeq
  <2>2. ASSUME NEW i \in 1 .. Len(ps)
        PROVE  h[i] = IF i = 1 THEN ps[i] ELSE h[i - 1] \o ps[i]
    <3>1. i - 1 \in Nat /\ i - 1 < Len(ps) /\ (i - 1) + 1 = i /\ i \in Nat
      BY <1>1
    <3>2. g[i] = g[i - 1] \o ps[i]
      BY <3>1 DEF Joins
    <3>3. CASE i = 1
      <4>1. g[i - 1] = <<>>
        BY <3>3 DEF Joins
      <4>2. <<>> \o ps[i] = ps[i]
        BY <2>1, ConcatEmptySeq
      <4> QED
        BY <3>2, <3>3, <4>1, <4>2
    <3>4. CASE i # 1
      <4>1. i - 1 \in 1 .. Len(ps)
        BY <1>1, <3>4
      <4> QED
        BY <3>2, <3>4, <4>1
    <3> QED
      BY <3>3, <3>4
  <2>3. Eq(h)
    BY <2>2
  <2>4. Eq(F)
    BY <2>3
  <2> HIDE DEF F
  <2> DEFINE S == {n \in Nat : n \in 1 .. Len(ps) => F[n] = g[n]}
  <2>5. ASSUME NEW n \in S
        PROVE  n + 1 \in S
    <3> SUFFICES ASSUME n + 1 \in 1 .. Len(ps)
                 PROVE  F[n + 1] = g[n + 1]
      OBVIOUS
    <3>0. n \in Nat /\ n < Len(ps) /\ (n + 1) - 1 = n
      BY <1>1
    <3>1. g[n + 1] = g[n] \o ps[n + 1] /\ g[0] = <<>>
      BY <3>0 DEF Joins
    <3>2. CASE n = 0
      <4>1. ps[n + 1] \in Seq(R)
        BY <2>1
      <4>2. <<>> \o ps[n + 1] = ps[n + 1]
        BY <4>1, ConcatEmptySeq
      <4>3. F[n + 1] = ps[n + 1]
        BY <2>4, <3>2
      <4> QED
        BY <3>1, <3>2, <4>2, <4>3
    <3>3. CASE n # 0
      <4>1. n \in 1 .. Len(ps)
        BY <1>1, <3>0, <3>3
      <4>2. F[n + 1] = IF n + 1 = 1 THEN ps[n + 1] ELSE F[(n + 1) - 1] \o ps[n + 1]
        BY <2>4
      <4>4. n + 1 # 1
        BY <3>0, <3>3
      <4>3. F[n + 1] = F[n] \o ps[n + 1]
        BY <3>0, <4>2, <4>4, Zenon
      <4> QED
        BY <3>1, <4>1, <4>3
    <3> QED
      BY <3>2, <3>3
  <2>6. S = Nat
    <3>1. S \in SUBSET Nat /\ 0 \in S
      BY <1>1
    <3> HIDE DEF S
    <3> QED
      BY <2>5, <3>1, AllNumbers
  <2>7. F[Len(ps)] = g[Len(ps)]
    BY <1>1, <1>3, <2>6
  <2>8. FlattenSeq(ps) = F[Len(ps)]
    BY <1>3 DEF FlattenSeq, F
  <2> QED
    BY <2>7, <2>8
<1> QED
  BY <1>2, <1>3

\* One more sequence comes at the end.
LEMMA FlattenAppend ==
  ASSUME NEW R, NEW ps \in Seq(Seq(R)), NEW x \in Seq(R)
  PROVE  /\ FlattenSeq(ps) \in Seq(R)
         /\ Append(ps, x) \in Seq(Seq(R))
         /\ FlattenSeq(Append(ps, x)) = FlattenSeq(ps) \o x
<1> DEFINE qs == Append(ps, x)
<1>1. /\ qs \in Seq(Seq(R)) /\ Len(qs) = Len(ps) + 1 /\ qs[Len(ps) + 1] = x
      /\ \A i \in 1 .. Len(ps) : qs[i] = ps[i]
  BY AppendProperties
<1> HIDE DEF qs
<1>2. Len(ps) \in Nat
  BY LenProperties
<1>3. PICK g : Joins(g, qs, R)
  BY <1>1, JoinsExist
<1>4. Joins(g, ps, R)
  <2>1. ASSUME NEW n \in Nat, n < Len(ps)
        PROVE  g[n + 1] = g[n] \o ps[n + 1]
    <3>1. n < Len(qs) /\ n + 1 \in 1 .. Len(ps)
      BY <1>1, <1>2, <2>1
    <3> QED
      BY <1>1, <1>3, <3>1 DEF Joins
  <2> QED
    BY <1>3, <2>1 DEF Joins
<1>5. FlattenSeq(ps) = g[Len(ps)] /\ FlattenSeq(qs) = g[Len(ps) + 1]
  BY <1>1, <1>3, <1>4, FlattenIs
<1>6. g[Len(ps) + 1] = g[Len(ps)] \o x /\ g[Len(ps)] \in Seq(R)
  <2>1. Len(ps) < Len(qs)
    BY <1>1, <1>2
  <2> QED
    BY <1>1, <1>2, <1>3, <2>1 DEF Joins
<1> QED
  BY <1>1, <1>5, <1>6 DEF qs

\* The last of them end the whole.
LEMMA FlattenEnds ==
  ASSUME NEW R, NEW ps \in Seq(Seq(R)), NEW d \in 0 .. Len(ps)
  PROVE  /\ SubSeq(ps, d + 1, Len(ps)) \in Seq(Seq(R))
         /\ \E b \in Seq(R) : FlattenSeq(ps) = b \o FlattenSeq(SubSeq(ps, d + 1, Len(ps)))
<1> DEFINE qs == SubSeq(ps, d + 1, Len(ps))
<1>1. Len(ps) \in Nat /\ d \in Nat
  BY LenProperties
<1>2. /\ qs \in Seq(Seq(R)) /\ Len(qs) = Len(ps) - d
      /\ \A i \in 1 .. Len(ps) - d : qs[i] = ps[d + i]
  BY <1>1
<1> HIDE DEF qs
<1>3. PICK g : Joins(g, ps, R)
  BY JoinsExist
<1>4. PICK h : Joins(h, qs, R)
  BY <1>2, JoinsExist
<1> DEFINE S == {n \in Nat : n <= Len(ps) - d => g[d + n] = g[d] \o h[n]}
<1>5. g[d] \in Seq(R)
  BY <1>1, <1>3 DEF Joins
<1>6. 0 \in S
  <2>1. h[0] = <<>> /\ d + 0 = d
    BY <1>1, <1>4 DEF Joins
  <2>2. g[d] \o <<>> = g[d]
    BY <1>5, ConcatEmptySeq
  <2> QED
    BY <2>1, <2>2
<1>7. ASSUME NEW n \in S
      PROVE  n + 1 \in S
  <2>0. n \in Nat /\ (n <= Len(ps) - d => g[d + n] = g[d] \o h[n])
    OBVIOUS
  <2> HIDE DEF S
  <2> DEFINE next == n + 1 <= Len(ps) - d => g[d + (n + 1)] = g[d] \o h[n + 1]
  <2>a. next => n + 1 \in S
    <3>1. n + 1 \in Nat
      BY <2>0
    <3> QED
      BY <3>1, Zenon DEF S
  <2> SUFFICES ASSUME n + 1 <= Len(ps) - d
               PROVE  g[d + (n + 1)] = g[d] \o h[n + 1]
    BY <2>a
  <2>1. /\ n < Len(qs) /\ n + 1 \in 1 .. Len(qs) /\ n <= Len(ps) - d
        /\ d + n \in Nat /\ d + n < Len(ps) /\ d + (n + 1) = (d + n) + 1
    BY <1>1, <1>2, <2>0
  <2>2. g[d + n] = g[d] \o h[n]
    BY <2>0, <2>1
  <2>3. g[d + (n + 1)] = g[d + n] \o ps[d + (n + 1)] /\ h[n + 1] = h[n] \o qs[n + 1]
    <3>1. g[(d + n) + 1] = g[d + n] \o ps[(d + n) + 1]
      BY <1>3, <2>1 DEF Joins
    <3>2. h[n + 1] = h[n] \o qs[n + 1]
      BY <1>4, <2>0, <2>1 DEF Joins
    <3> QED
      BY <2>1, <3>1, <3>2
  <2>4. ps[d + (n + 1)] = qs[n + 1] /\ qs[n + 1] \in Seq(R)
    BY <1>2, <2>1, ElementOfSeq
  <2>5. h[n] \in Seq(R)
    BY <1>4, <2>0 DEF Joins
  <2>6. (g[d] \o h[n]) \o qs[n + 1] = g[d] \o (h[n] \o qs[n + 1])
    <3> HIDE DEF S
    <3>1. \A a, b, c \in Seq(R) : (a \o b) \o c = a \o (b \o c)
      BY ConcatAssociative
    <3> QED
      BY <1>5, <2>4, <2>5, <3>1
  <2> QED
    BY <2>2, <2>3, <2>4, <2>6
<1>8. S = Nat
  <2>1. S \in SUBSET Nat
    OBVIOUS
  <2> HIDE DEF S
  <2> QED
    BY <1>6, <1>7, <2>1, AllNumbers
<1>9. g[Len(ps)] = g[d] \o h[Len(qs)]
  <2>1. Len(qs) \in Nat /\ Len(qs) <= Len(ps) - d /\ d + Len(qs) = Len(ps)
    BY <1>1, <1>2
  <2>2. \A n \in Nat : n <= Len(ps) - d => g[d + n] = g[d] \o h[n]
    BY <1>8
  <2> QED
    BY <2>1, <2>2
<1>10. FlattenSeq(ps) = g[Len(ps)] /\ FlattenSeq(qs) = h[Len(qs)]
  BY <1>2, <1>3, <1>4, FlattenIs
<1> QED
  BY <1>2, <1>5, <1>9, <1>10 DEF qs

\* If none is empty, the whole is no shorter than their number.
LEMMA FlattenLong ==
  ASSUME NEW R, NEW ps \in Seq(Seq(R)), \A i \in 1 .. Len(ps) : ps[i] # <<>>
  PROVE  FlattenSeq(ps) \in Seq(R) /\ Len(FlattenSeq(ps)) >= Len(ps)
<1>1. Len(ps) \in Nat
  BY LenProperties
<1>2. PICK g : Joins(g, ps, R)
  BY JoinsExist
<1> DEFINE S == {n \in Nat : n <= Len(ps) => Len(g[n]) >= n}
<1>3. \A n \in Nat : g[n] \in Seq(R) /\ Len(g[n]) \in Nat
  BY <1>2, LenProperties DEF Joins
<1>4. 0 \in S
  BY <1>3
<1>5. ASSUME NEW n \in S
      PROVE  n + 1 \in S
  <2> SUFFICES ASSUME n + 1 <= Len(ps)
               PROVE  Len(g[n + 1]) >= n + 1
    OBVIOUS
  <2>1. n \in Nat /\ n + 1 \in 1 .. Len(ps) /\ Len(g[n]) >= n
    BY <1>1
  <2>2. g[n + 1] = g[n] \o ps[n + 1]
    <3>1. n < Len(ps)
      BY <1>1
    <3> QED
      BY <1>2, <2>1, <3>1 DEF Joins
  <2>3. ps[n + 1] \in Seq(R) /\ ps[n + 1] # <<>>
    BY <2>1, ElementOfSeq
  <2>4. Len(ps[n + 1]) \in Nat \ {0}
    BY <2>3, EmptySeq, LenProperties
  <2>5. Len(g[n + 1]) = Len(g[n]) + Len(ps[n + 1])
    BY <1>3, <2>1, <2>2, <2>3, ConcatProperties
  <2>6. Len(g[n]) \in Nat
    BY <1>3, <2>1
  <2>7. \A a \in Nat, b \in Nat \ {0} : a >= n => a + b >= n + 1
    BY <2>1
  <2> QED
    BY <2>1, <2>4, <2>5, <2>6, <2>7, Zenon
<1>6. S = Nat
  <2>1. S \in SUBSET Nat
    OBVIOUS
  <2> HIDE DEF S
  <2> QED
    BY <1>4, <1>5, <2>1, AllNumbers
<1>7. Len(g[Len(ps)]) >= Len(ps)
  BY <1>1, <1>6
<1> QED
  BY <1>1, <1>2, <1>3, <1>7, FlattenIs

(***************************************************************************)
(* Pairs of questions and answers                                          *)
(***************************************************************************)
AllLines(pairs) == \A i \in 1 .. Len(pairs) : pairs[i] # <<>>
Pairing(R) == [pairs : Seq(Seq(R)), user : Seq(R)]

\* A pair at the end of the pairs.
LEMMA AppendPair ==
  ASSUME NEW R, NEW ps \in Seq(Seq(R)), AllLines(ps), NEW x \in Seq(R), x # <<>>
  PROVE  /\ Append(ps, x) \in Seq(Seq(R)) /\ AllLines(Append(ps, x))
         /\ FlattenSeq(Append(ps, x)) = FlattenSeq(ps) \o x
<1>1. /\ Len(Append(ps, x)) = Len(ps) + 1 /\ Append(ps, x)[Len(ps) + 1] = x
      /\ \A i \in 1 .. Len(ps) : Append(ps, x)[i] = ps[i]
  BY AppendProperties
<1>2. Len(ps) \in Nat
  BY LenProperties
<1>3. AllLines(Append(ps, x))
  <2> SUFFICES ASSUME NEW i \in 1 .. Len(ps) + 1
               PROVE  Append(ps, x)[i] # <<>>
    BY <1>1 DEF AllLines
  <2>1. i \in 1 .. Len(ps) \/ i = Len(ps) + 1
    BY <1>2
  <2> QED
    BY <1>1, <2>1 DEF AllLines
<1> QED
  BY <1>3, FlattenAppend

LEMMA FlushFacts ==
  ASSUME NEW R, NEW a \in Pairing(R), AllLines(a.pairs)
  PROVE  /\ Flush(a) \in Seq(Seq(R)) /\ AllLines(Flush(a))
         /\ FlattenSeq(Flush(a)) = FlattenSeq(a.pairs) \o a.user
<1>1. a.pairs \in Seq(Seq(R)) /\ a.user \in Seq(R)
  BY DEF Pairing
<1>2. FlattenSeq(a.pairs) \in Seq(R)
  BY <1>1, FlattenAppend
<1>3. CASE a.user = <<>>
  <2>1. FlattenSeq(a.pairs) \o <<>> = FlattenSeq(a.pairs)
    BY <1>2, ConcatEmptySeq
  <2> QED
    BY <1>1, <1>3, <2>1 DEF Flush
<1>4. CASE a.user # <<>>
  BY <1>1, <1>4, AppendPair DEF Flush
<1> QED
  BY <1>3, <1>4

\* One more row: the pairs and the open question are still the rows in order.
LEMMA PairFacts ==
  ASSUME NEW R, NEW a \in Pairing(R), NEW row \in R, AllLines(a.pairs)
  PROVE  /\ Pair(a, row) \in Pairing(R) /\ AllLines(Pair(a, row).pairs)
         /\ FlattenSeq(Pair(a, row).pairs) \o Pair(a, row).user
              = Append(FlattenSeq(a.pairs) \o a.user, row)
<1> DEFINE done == FlattenSeq(a.pairs)
           b == Pair(a, row)
<1>1. a.pairs \in Seq(Seq(R)) /\ a.user \in Seq(R)
  BY DEF Pairing
<1>2. done \in Seq(R) /\ done \o a.user \in Seq(R) /\ <<row>> \in Seq(R)
  BY <1>1, FlattenAppend, ConcatProperties
<1>3. Append(done \o a.user, row) = (done \o a.user) \o <<row>>
  BY <1>2, AppendIsConcat
<1>4. CASE row.role = "user"
  <2>1. b.pairs = Flush(a) /\ b.user = <<row>> /\ b = [pairs |-> Flush(a), user |-> <<row>>]
    BY <1>4 DEF Pair
  <2>2. /\ Flush(a) \in Seq(Seq(R)) /\ AllLines(Flush(a))
        /\ FlattenSeq(Flush(a)) = done \o a.user
    BY FlushFacts
  <2>3. b \in Pairing(R)
    BY <1>2, <2>1, <2>2 DEF Pairing
  <2> QED
    BY <1>3, <2>1, <2>2, <2>3
<1>5. CASE row.role # "user"
  <2> DEFINE x == Append(a.user, row)
  <2>1. b.pairs = Append(a.pairs, x) /\ b.user = <<>> /\ b = [pairs |-> Append(a.pairs, x), user |-> <<>>]
    BY <1>5 DEF Pair
  <2>2. x \in Seq(R) /\ x # <<>> /\ x = a.user \o <<row>>
    BY <1>1, AppendProperties, AppendIsConcat
  <2>3. /\ Append(a.pairs, x) \in Seq(Seq(R)) /\ AllLines(Append(a.pairs, x))
        /\ FlattenSeq(Append(a.pairs, x)) = done \o x
    <3> HIDE DEF x
    <3> QED
      BY <1>1, <2>2, AppendPair
  <2>4. b \in Pairing(R)
    BY <2>1, <2>3 DEF Pairing
  <2>5. done \o x = (done \o a.user) \o <<row>>
    <3> HIDE DEF x, done
    <3>1. \A s, t, u \in Seq(R) : (s \o t) \o u = s \o (t \o u)
      BY ConcatAssociative
    <3> QED
      BY <1>1, <1>2, <2>2, <3>1
  <2>6. done \o x \in Seq(R) /\ (done \o x) \o <<>> = done \o x
    BY <1>2, <2>2, ConcatProperties, ConcatEmptySeq
  <2> QED
    BY <1>3, <2>1, <2>3, <2>4, <2>5, <2>6
<1> QED
  BY <1>4, <1>5

\* The pairs, line by line, are the rows in their order.
LEMMA PairsAreRows ==
  ASSUME NEW R, NEW rows \in Seq(R)
  PROVE  /\ RecentTurns(rows) \in Seq(Seq(R)) /\ AllLines(RecentTurns(rows))
         /\ FlattenSeq(RecentTurns(rows)) = rows
<1> DEFINE Row == R \cup {rows[n] : n \in Nat}
           Good(a) == a \in Pairing(Row) /\ AllLines(a.pairs)
           V == {a \in Pairing(Row) : AllLines(a.pairs)}
           step == [n \in Nat |-> [a \in V |-> Pair(a, rows[n])]]
           Eq(f) == f = [n \in Nat |-> IF n = 0 THEN NoPairs ELSE Pair(f[n - 1], rows[n])]
           acc == CHOOSE f : Eq(f)
<1>1. Len(rows) \in Nat
  BY LenProperties
<1>2. NoPairs \in Pairing(R) /\ NoPairs \in V /\ AllLines(NoPairs.pairs)
      /\ FlattenSeq(NoPairs.pairs) \o NoPairs.user = <<>>
  <2>1. \A T : <<>> \in Seq(T)
    BY EmptySeq
  <2>2. AllLines(<<>>) /\ FlattenSeq(<<>>) = <<>>
    BY EmptySeq DEF AllLines, FlattenSeq
  <2>3. <<>> \o <<>> = <<>>
    BY <2>1, ConcatEmptySeq
  <2> QED
    BY <2>1, <2>2, <2>3 DEF NoPairs, Pairing
<1>3. Eq(acc)
  <2>1. \A n \in Nat, a \in V : Pair(a, rows[n]) \in V
    BY PairFacts
  <2>2. step \in Steps(V)
    BY <2>1 DEF Steps
  <2> HIDE DEF step, V
  <2>3. PICK g : Recurs(g, V, NoPairs, step)
    BY <1>2, <2>2, Recursion
  <2>4. ASSUME NEW n \in Nat
        PROVE  g[n] = IF n = 0 THEN NoPairs ELSE Pair(g[n - 1], rows[n])
    <3>1. CASE n = 0
      BY <2>3, <3>1 DEF Recurs
    <3>2. CASE n # 0
      <4>1. n - 1 \in Nat /\ n \in Nat \ {0}
        BY <3>2
      <4>2. g[n] = step[n][g[n - 1]] /\ g[n - 1] \in V
        BY <2>3, <4>1 DEF Recurs
      <4>3. step[n][g[n - 1]] = Pair(g[n - 1], rows[n])
        BY <4>2 DEF step
      <4> QED
        BY <3>2, <4>2, <4>3
    <3> QED
      BY <3>1, <3>2
  <2>5. g = [n \in Nat |-> g[n]]
    BY <2>3 DEF Recurs
  <2>6. Eq(g)
    BY <2>4, <2>5
  <2> QED
    BY <2>6
<1> HIDE DEF acc
<1> DEFINE Fits(n) == /\ acc[n] \in Pairing(R) /\ AllLines(acc[n].pairs)
                      /\ FlattenSeq(acc[n].pairs) \o acc[n].user = SubSeq(rows, 1, n)
           S == {n \in Nat : n <= Len(rows) => Fits(n)}
<1>4. 0 \in S
  <2>1. acc[0] = NoPairs
    BY <1>3
  <2>2. SubSeq(rows, 1, 0) = <<>>
    BY SubSeqEmpty
  <2> QED
    BY <1>2, <2>1, <2>2
<1>5. ASSUME NEW n \in S
      PROVE  n + 1 \in S
  <2>1. n \in Nat /\ n + 1 \in Nat /\ n + 1 # 0 /\ (n + 1) - 1 = n /\ (n <= Len(rows) => Fits(n))
    <3> HIDE DEF Fits
    <3> QED
      OBVIOUS
  <2>2. acc[n + 1] = Pair(acc[n], rows[n + 1])
    <3>1. acc[n + 1] = IF n + 1 = 0 THEN NoPairs ELSE Pair(acc[(n + 1) - 1], rows[n + 1])
      BY <1>3, <2>1
    <3> QED
      BY <2>1, <3>1, Zenon
  <2>3. ASSUME n + 1 <= Len(rows)
        PROVE  Fits(n + 1)
    <3>1. n <= Len(rows) /\ n + 1 \in 1 .. Len(rows) /\ 1 \in 1 .. Len(rows) /\ n + 1 \in 1 .. Len(rows)
      BY <1>1, <2>1, <2>3
    <3>2. Fits(n)
      BY <2>1, <3>1
    <3>3. rows[n + 1] \in R
      BY <3>1, ElementOfSeq
    <3>4. SubSeq(rows, 1, n + 1) = Append(SubSeq(rows, 1, n), rows[n + 1])
      <4>1. SubSeq(rows, 1, n) \in Seq(R)
        BY <1>1, <2>1, <3>1
      <4>2. Append(SubSeq(rows, 1, n), rows[n + 1]) = SubSeq(rows, 1, n) \o <<rows[n + 1]>>
        BY <3>3, <4>1, AppendIsConcat
      <4>3. n + 1 \in 1 .. Len(rows) /\ 1 \in 1 .. Len(rows) /\ n + 1 \in 1 .. Len(rows)
        BY <3>1
      <4>4. SubSeq(rows, 1, n + 1) = SubSeq(rows, 1, (n + 1) - 1) \o <<rows[n + 1]>>
        BY <4>3, SubSeqRecursiveSecond
      <4> QED
        BY <2>1, <4>2, <4>4
    <3> QED
      BY <2>2, <3>2, <3>3, <3>4, PairFacts
  <2> QED
    BY <2>1, <2>3
<1>6. S = Nat
  <2>1. S \in SUBSET Nat
    OBVIOUS
  <2> HIDE DEF S
  <2> QED
    BY <1>4, <1>5, <2>1, AllNumbers
<1>7. Fits(Len(rows))
  <2> HIDE DEF Fits
  <2> QED
    BY <1>1, <1>6
<1>8. RecentTurns(rows) = Flush(acc[Len(rows)])
  BY DEF RecentTurns, acc
<1>9. SubSeq(rows, 1, Len(rows)) = rows
  BY SubSeqFull
<1> DEFINE last == acc[Len(rows)]
<1>10. /\ last \in Pairing(R) /\ AllLines(last.pairs)
       /\ FlattenSeq(last.pairs) \o last.user = rows
  BY <1>7, <1>9
<1> HIDE DEF last
<1>11. /\ Flush(last) \in Seq(Seq(R)) /\ AllLines(Flush(last))
       /\ FlattenSeq(Flush(last)) = FlattenSeq(last.pairs) \o last.user
  BY <1>10, FlushFacts
<1> QED
  BY <1>8, <1>10, <1>11 DEF last

(***************************************************************************)
(* The newest of a sequence                                                *)
(***************************************************************************)
\* What is left out in front.
Cut(s, n) == IF Len(s) > n THEN Len(s) - n ELSE 0

LEMMA NewestFacts ==
  ASSUME NEW R, NEW s \in Seq(R), NEW n \in Nat
  PROVE  /\ Cut(s, n) \in 0 .. Len(s) /\ Len(s) - Cut(s, n) <= n
         /\ Newest(s, n) = SubSeq(s, Cut(s, n) + 1, Len(s))
         /\ Newest(s, n) \in Seq(R) /\ Len(Newest(s, n)) = Len(s) - Cut(s, n)
         /\ \A i \in 1 .. Len(s) - Cut(s, n) : Newest(s, n)[i] = s[Cut(s, n) + i]
<1>1. Len(s) \in Nat
  BY LenProperties
<1>2. Cut(s, n) \in 0 .. Len(s) /\ Len(s) - Cut(s, n) <= n
  BY <1>1 DEF Cut
<1>3. Newest(s, n) = SubSeq(s, Cut(s, n) + 1, Len(s))
  <2>1. CASE Len(s) > n
    BY <1>1, <2>1 DEF Newest, Cut
  <2>2. CASE ~(Len(s) > n)
    BY <1>1, <2>2, SubSeqFull DEF Newest, Cut
  <2> QED
    BY <2>1, <2>2
<1> DEFINE c == Cut(s, n)
<1>4. /\ SubSeq(s, c + 1, Len(s)) \in Seq(R)
      /\ Len(SubSeq(s, c + 1, Len(s))) = Len(s) - c
      /\ \A i \in 1 .. Len(s) - c : SubSeq(s, c + 1, Len(s))[i] = s[c + i]
  <2> HIDE DEF c
  <2>1. c \in 0 .. Len(s)
    BY <1>2 DEF c
  <2> QED
    BY <1>1, <2>1
<1> QED
  BY <1>2, <1>3, <1>4

\* What ends a sequence is the newest of it.
LEMMA EndIsNewest ==
  ASSUME NEW R, NEW b \in Seq(R), NEW s \in Seq(R), NEW n \in Nat
  PROVE  /\ Len(Newest(s, n)) <= Len(b \o s)
         /\ Newest(s, n) = Newest(b \o s, Len(Newest(s, n)))
<1> DEFINE t == b \o s
           l == Newest(s, n)
           k == Len(l)
           m == Newest(t, k)
<1>1. /\ t \in Seq(R) /\ Len(t) = Len(b) + Len(s)
      /\ \A i \in 1 .. Len(b) + Len(s) : t[i] = IF i <= Len(b) THEN b[i] ELSE s[i - Len(b)]
  BY ConcatProperties
<1>2. Len(b) \in Nat /\ Len(s) \in Nat /\ Cut(s, n) \in 0 .. Len(s)
  BY LenProperties, NewestFacts
<1>3. /\ l \in Seq(R) /\ k = Len(s) - Cut(s, n) /\ k \in 0 .. Len(s)
      /\ \A i \in 1 .. k : l[i] = s[Cut(s, n) + i]
  <2>1. /\ l \in Seq(R) /\ k = Len(s) - Cut(s, n)
        /\ \A i \in 1 .. Len(s) - Cut(s, n) : l[i] = s[Cut(s, n) + i]
    BY NewestFacts
  <2> HIDE DEF k, l
  <2> QED
    BY <1>2, <2>1
<1> HIDE DEF t, l
<1>4. Cut(t, k) = Len(b) + Cut(s, n)
  <2>1. k \in Nat /\ k = Len(s) - Cut(s, n) /\ Len(t) = Len(b) + Len(s)
    BY <1>1, <1>3
  <2> HIDE DEF k
  <2>2. Len(t) - k = Len(b) + Cut(s, n) /\ Len(t) \in Nat /\ Len(b) + Cut(s, n) \in Nat
    BY <1>2, <2>1
  <2>3. Cut(t, k) = IF Len(t) > k THEN Len(t) - k ELSE 0
    BY DEF Cut
  <2> QED
    BY <2>1, <2>2, <2>3
<1>5. /\ m \in Seq(R) /\ Len(m) = Len(t) - Cut(t, k)
      /\ \A i \in 1 .. Len(t) - Cut(t, k) : m[i] = t[Cut(t, k) + i]
  <2>1. k \in Nat /\ t \in Seq(R)
    BY <1>1, <1>2, <1>3
  <2> HIDE DEF k
  <2>2. /\ Newest(t, k) \in Seq(R) /\ Len(Newest(t, k)) = Len(t) - Cut(t, k)
        /\ \A i \in 1 .. Len(t) - Cut(t, k) : Newest(t, k)[i] = t[Cut(t, k) + i]
    BY <2>1, NewestFacts
  <2> QED
    BY <2>2
<1> HIDE DEF m
<1>6. Len(m) = k /\ Len(t) - Cut(t, k) = k
  BY <1>1, <1>2, <1>3, <1>4, <1>5
<1>7. ASSUME NEW i \in 1 .. k
      PROVE  l[i] = m[i]
  <2>1. m[i] = t[Len(b) + Cut(s, n) + i]
    BY <1>4, <1>5, <1>6
  <2> DEFINE j == Len(b) + Cut(s, n) + i
  <2>2. j \in 1 .. Len(b) + Len(s) /\ ~(j <= Len(b)) /\ j - Len(b) = Cut(s, n) + i
    BY <1>2, <1>3
  <2>3. t[j] = s[j - Len(b)]
    BY <1>1, <2>2
  <2> QED
    BY <1>3, <2>1, <2>2, <2>3
<1>8. l = m
  BY <1>3, <1>5, <1>6, <1>7, SeqEqual
<1> QED
  BY <1>1, <1>2, <1>3, <1>8 DEF t, l, m

\* The transcript of any rows.
TranscriptFits(rows) ==
  LET lines == Transcript(rows) IN
  /\ Len(lines) <= Len(rows) /\ lines = Newest(rows, Len(lines))
  /\ \A n \in {PairLimit, LineLimit, Len(rows)} :
       (\A k \in {PairLimit, LineLimit, Len(rows)} : n <= k) => Len(lines) >= n

LEMMA TranscriptOfRows ==
  ASSUME NEW R, NEW rows \in Seq(R)
  PROVE  TranscriptFits(rows)
<1> DEFINE pairs == RecentTurns(rows)
           last == Newest(pairs, PairLimit)
           all == FlattenSeq(last)
           lines == Newest(all, LineLimit)
           c == Cut(pairs, PairLimit)
<1>1. PairLimit \in Nat /\ LineLimit \in Nat
  BY ContextConstants
<1>2. pairs \in Seq(Seq(R)) /\ AllLines(pairs) /\ FlattenSeq(pairs) = rows
  BY PairsAreRows
<1> HIDE DEF pairs
<1>3. /\ c \in 0 .. Len(pairs) /\ last = SubSeq(pairs, c + 1, Len(pairs))
      /\ last \in Seq(Seq(R)) /\ Len(last) = Len(pairs) - c
      /\ \A i \in 1 .. Len(pairs) - c : last[i] = pairs[c + i]
  BY <1>1, <1>2, NewestFacts
<1>4. Len(pairs) \in Nat
  BY <1>2, LenProperties
<1>5. \E b \in Seq(R) : rows = b \o all
  BY <1>2, <1>3, FlattenEnds
<1>6. all \in Seq(R) /\ Len(all) >= Len(last)
  <2>1. \A i \in 1 .. Len(last) : last[i] # <<>>
    <3> SUFFICES ASSUME NEW i \in 1 .. Len(last)
                 PROVE  last[i] # <<>>
      OBVIOUS
    <3>1. c + i \in 1 .. Len(pairs) /\ last[i] = pairs[c + i]
      BY <1>3, <1>4
    <3> QED
      BY <1>2, <3>1 DEF AllLines
  <2> HIDE DEF last
  <2> QED
    BY <1>3, <2>1, FlattenLong
<1>7. Len(pairs) <= PairLimit => all = rows
  BY <1>1, <1>2, <1>4 DEF Newest
<1>8. Len(pairs) > PairLimit => Len(last) = PairLimit
  BY <1>1, <1>3, <1>4 DEF Cut
<1> HIDE DEF last, all
<1>9. Len(lines) <= Len(rows) /\ lines = Newest(rows, Len(lines))
  BY <1>1, <1>5, <1>6, EndIsNewest
<1>10. Len(lines) = Len(all) - Cut(all, LineLimit)
  BY <1>1, <1>6, NewestFacts
<1>11. Len(all) \in Nat /\ Len(rows) \in Nat /\ Len(last) \in Nat
  BY <1>3, <1>6, LenProperties
<1>12. Len(lines) >= LineLimit \/ Len(lines) = Len(all)
  BY <1>1, <1>10, <1>11 DEF Cut
<1>13. Len(lines) >= LineLimit \/ Len(lines) >= PairLimit \/ Len(lines) = Len(rows)
  <2> HIDE DEF lines
  <2>1. CASE Len(pairs) <= PairLimit
    BY <1>7, <1>12, <2>1
  <2>2. CASE Len(pairs) > PairLimit
    BY <1>1, <1>6, <1>8, <1>11, <1>12, <2>2
  <2> QED
    BY <1>1, <1>4, <2>1, <2>2
<1>14. lines = Transcript(rows)
  BY DEF Transcript, pairs, last, all
<1>15. Len(lines) \in Nat
  BY <1>1, <1>6, NewestFacts, LenProperties
<1> HIDE DEF lines
<1>16. ASSUME NEW n \in {PairLimit, LineLimit, Len(rows)},
              \A k \in {PairLimit, LineLimit, Len(rows)} : n <= k
       PROVE  Len(lines) >= n
  BY <1>1, <1>11, <1>13, <1>15, <1>16
<1> QED
  BY <1>9, <1>14, <1>16 DEF TranscriptFits

(***************************************************************************)
(* The rows that are read                                                  *)
(***************************************************************************)
FiniteRows == IsFiniteSet(turns) /\ \A r \in Slot : IsFiniteSet(req[r].rows)

LEMMA FiniteRowsStep ==
  ASSUME Kind, FiniteRows, Next
  PROVE  FiniteRows'
<1>1. req \in [Slot -> Request] /\ \A r \in Slot : req[r] \in Request /\ WellFormed(req[r])
  BY DEF Kind, Requests
<1>2. IsFiniteSet({})
  BY FS_EmptySet
<1>3. ASSUME KeepData, NEW r \in Slot, NEW n, Becomes(r, n), IsFiniteSet(n.rows)
      PROVE  FiniteRows'
  BY <1>1, <1>3 DEF FiniteRows, KeepData, Becomes
<1>4. CASE UNCHANGED req /\ KeepStore
  BY <1>4 DEF FiniteRows, KeepStore, KeepData
<1>5. ASSUME NEW r \in Slot, NEW p \in Payload, Deliver(r, p) \/ Ask(r, p)
      PROVE  FiniteRows'
  <2>1. PICK n \in Request : Becomes(r, n) /\ n.rows = {} /\ KeepData
    BY <1>5, BeginEdit
  <2> QED
    BY <1>2, <1>3, <2>1
<1>6. ASSUME NEW r \in Slot, KeepStore, (Becomes(r, Idle) /\ Busy(r)) \/ Works(r)
      PROVE  FiniteRows'
  <2>1. IsFiniteSet(Idle.rows) /\ KeepData /\ IsFiniteSet(req[r].rows)
    BY <1>2, <1>6 DEF Idle, KeepStore, FiniteRows
  <2>2. ASSUME Works(r)
        PROVE  FiniteRows'
    <3>1. PICK n \in Request : MovesOn(r, n) \/ Finishes(r, n) \/ Skips(r, n)
      BY <2>2 DEF Works
    <3>2. Becomes(r, n)
      BY <3>1 DEF MovesOn, Finishes, Skips
    <3>3. n.rows = req[r].rows
      BY <1>1, <3>1, NextMessageFacts DEF MovesOn, Finishes, Skips, Calm
    <3> QED
      BY <1>3, <2>1, <3>2, <3>3
  <2> QED
    BY <1>3, <1>6, <2>1, <2>2
<1>7. ASSUME NEW r \in Slot, TrackTurn(r)
      PROVE  FiniteRows'
  <2>1. PICK n \in Request, turn \in Turn : Becomes(r, n) /\ n.rows = req[r].rows \cup {turn}
    BY <1>7, TurnEdit
  <2>2. IsFiniteSet(n.rows) /\ KeepData
    BY <1>7, <2>1, FS_AddElement DEF FiniteRows, TrackTurn, Local
  <2> QED
    BY <1>3, <2>1, <2>2
<1>8. ASSUME NEW r \in Slot, SendReply(r)
      PROVE  FiniteRows'
  <2>1. PICK n \in Request : Becomes(r, n) /\ req[r].step = "send" /\ n = NextMessage(req[r], TRUE)
    BY <1>8, SendEdit
  <2>2. n.rows = req[r].rows /\ KeepData
    BY <1>1, <1>8, <2>1, NextMessageFacts DEF SendReply
  <2> QED
    BY <1>3, <2>1, <2>2 DEF FiniteRows
<1>9. ASSUME NEW r \in Slot, DeadlockVictim(r)
      PROVE  FiniteRows'
  <2>1. PICK q \in Slot \ {r}, n \in Request :
          req' = [req EXCEPT ![r] = Idle, ![q] = n] /\ n.rows = req[q].rows
    BY <1>9, DeadlockEdit
  <2>2. turns' = turns
    BY <1>9 DEF DeadlockVictim, Local, KeepData
  <2>3. \A s \in Slot : req'[s].rows = {} \/ req'[s].rows = req[s].rows
    BY <1>1, <2>1 DEF Idle
  <2> QED
    BY <1>2, <2>2, <2>3 DEF FiniteRows
<1>10. ASSUME NEW r \in Slot, Commit(r)
       PROVE  FiniteRows'
  <2>1. PICK n \in Request :
           /\ Becomes(r, n) /\ n.rows = {}
           /\ turns' = turns \cup req[r].rows \/ KeepData
    BY <1>10, CommitEdit DEF Idle
  <2>2. IsFiniteSet(turns')
    BY <2>1, FS_Union DEF FiniteRows, KeepData
  <2> QED
    BY <1>1, <1>2, <2>1, <2>2 DEF FiniteRows, Becomes
<1> QED
  BY <1>4, <1>5, <1>6, <1>7, <1>8, <1>9, <1>10, Moves

\* What is read is a sequence of rows of stored turns.
Line == [turn : turns, role : {"user", "assistant"}]

LEMMA ReadIsRows ==
  ASSUME IsFiniteSet(turns), clock \in Nat, NEW ph, NEW rows \in Recent(ph)
  PROVE  rows \in Seq(Line)
<1>1. IsFiniteSet(Line)
  <2> DEFINE P == turns \X {"user", "assistant"}
             f == [x \in P |-> [turn |-> x[1], role |-> x[2]]]
  <2>1. IsFiniteSet({"user", "assistant"})
    <3>1. IsFiniteSet({"user"})
      BY FS_Singleton
    <3>2. {"user", "assistant"} = {"user"} \cup {"assistant"}
      OBVIOUS
    <3> QED
      BY <3>1, <3>2, FS_AddElement
  <2>2. IsFiniteSet(P)
    BY <2>1, FS_Product
  <2>3. f \in Surjection(P, Line)
    <3>1. f \in [P -> Line]
      BY DEF Line
    <3>2. ASSUME NEW y \in Line
          PROVE  \E x \in P : f[x] = y
      <4>1. <<y.turn, y.role>> \in P /\ f[<<y.turn, y.role>>] = y
        BY DEF Line
      <4> QED
        BY <4>1
    <3> QED
      BY <3>1, <3>2 DEF Surjection
  <2> QED
    BY <2>2, <2>3, FS_Surjection
<1> DEFINE Orders(n) == SetToSeqs(RowsAt(ph, n))
           V == SUBSET Seq(Line)
           more(X, n) == {s \o t : s \in X, t \in Orders(n)}
           Eq(f) == f = [n \in Nat |-> IF n = 0 THEN {<<>>} ELSE more(f[n - 1], n)]
           read == CHOOSE f : Eq(f)
           step == [n \in Nat |-> [X \in V |-> more(X, n)]]
<1>2. ASSUME NEW n
      PROVE  Orders(n) \subseteq Seq(Line)
  <2>1. RowsAt(ph, n) \subseteq Line
    BY DEF RowsAt, Line
  <2>2. Cardinality(RowsAt(ph, n)) \in Nat
    BY <1>1, <2>1, FS_Subset, FS_CardinalityType
  <2>3. ASSUME NEW s \in Orders(n)
        PROVE  s \in Seq(Line)
    <3>1. s \in [1 .. Cardinality(RowsAt(ph, n)) -> Line]
      BY <2>1 DEF SetToSeqs
    <3> QED
      BY <2>2, <3>1
  <2> QED
    BY <2>3
<1> HIDE DEF Orders
<1>3. \A n \in Nat, X \in V : more(X, n) \in V
  <2> SUFFICES ASSUME NEW n \in Nat, NEW X \in V, NEW x \in more(X, n)
               PROVE  x \in Seq(Line)
    OBVIOUS
  <2>1. PICK s \in X, t \in Orders(n) : x = s \o t
    OBVIOUS
  <2>2. s \in Seq(Line) /\ t \in Seq(Line)
    BY <1>2
  <2> QED
    BY <2>1, <2>2, ConcatProperties
<1>4. {<<>>} \in V
  BY EmptySeq
<1>5. Eq(read)
  <2> HIDE DEF V, more
  <2>1. step \in Steps(V)
    BY <1>3 DEF Steps
  <2>2. \A n \in Nat, X \in V : step[n][X] = more(X, n)
    OBVIOUS
  <2> HIDE DEF step
  <2>3. PICK g : Recurs(g, V, {<<>>}, step)
    BY <1>4, <2>1, Recursion
  <2>4. ASSUME NEW n \in Nat
        PROVE  g[n] = IF n = 0 THEN {<<>>} ELSE more(g[n - 1], n)
    <3>1. CASE n = 0
      BY <2>3, <3>1 DEF Recurs
    <3>2. CASE n # 0
      <4>1. n - 1 \in Nat /\ n \in Nat \ {0}
        BY <3>2
      <4>2. g[n] = step[n][g[n - 1]] /\ g[n - 1] \in V
        BY <2>3, <4>1 DEF Recurs
      <4> QED
        BY <2>2, <3>2, <4>2
    <3> QED
      BY <3>1, <3>2
  <2>5. g = [n \in Nat |-> g[n]]
    BY <2>3 DEF Recurs
  <2>6. g = [n \in Nat |-> IF n = 0 THEN {<<>>} ELSE more(g[n - 1], n)]
    BY <2>4, <2>5, Zenon
  <2> QED
    BY <2>6, Zenon
<1>6. Recent(ph) = {Newest(s, HistoryLimit) : s \in read[clock]}
  BY DEF Recent, Orders
<1> HIDE DEF read
<1> DEFINE S == {n \in Nat : read[n] \in V}
<1>7. 0 \in S
  <2>1. read[0] = {<<>>}
    BY <1>5
  <2> QED
    BY <1>4, <2>1
<1>8. ASSUME NEW n \in S
      PROVE  n + 1 \in S
  <2>1. n \in Nat /\ n + 1 \in Nat /\ n + 1 # 0 /\ (n + 1) - 1 = n /\ read[n] \in V
    OBVIOUS
  <2>2. read[n + 1] = IF n + 1 = 0 THEN {<<>>} ELSE more(read[(n + 1) - 1], n + 1)
    <3> HIDE DEF more
    <3> QED
      BY <1>5, <2>1, Zenon
  <2> HIDE DEF V, more
  <2>3. read[n + 1] = more(read[n], n + 1)
    BY <2>1, <2>2, Zenon
  <2> QED
    BY <1>3, <2>1, <2>3
<1>9. S = Nat
  <2>1. S \in SUBSET Nat
    OBVIOUS
  <2> HIDE DEF S
  <2> QED
    BY <1>7, <1>8, <2>1, AllNumbers
<1>10. PICK s \in Seq(Line) : rows = Newest(s, HistoryLimit)
  BY <1>6, <1>9
<1>11. HistoryLimit \in Nat
  BY ChatConstants
<1> QED
  BY <1>10, <1>11, NewestFacts

\* Whatever order the tied rows of a session come back in and whichever turns
\* overlapped, the transcript in the prompt is the newest of what was read, in
\* its order and without a gap, and as long as the limits let it be.
THEOREM TranscriptHolds == Spec => []TranscriptIsNewest
<1>1. Init => Kind /\ FiniteRows
  <2>1. ASSUME Init
        PROVE  FiniteRows
    <3>1. turns = {} /\ \A r \in Slot : req[r].rows = {}
      BY <2>1 DEF Init, Idle
    <3> QED
      BY <3>1, FS_EmptySet DEF FiniteRows
  <2> QED
    BY <2>1, KindInit
<1>2. Kind /\ FiniteRows /\ [Next]_vars => (Kind /\ FiniteRows)'
  <2> SUFFICES ASSUME Kind, FiniteRows, [Next]_vars
               PROVE  (Kind /\ FiniteRows)'
    OBVIOUS
  <2>1. CASE UNCHANGED vars
    BY <2>1, KindStep DEF FiniteRows, vars, chatVars
  <2> QED
    BY <2>1, KindStep, FiniteRowsStep
<1>3. Kind /\ FiniteRows => TranscriptIsNewest
  <2> SUFFICES ASSUME Kind, FiniteRows, NEW ph \in Phone, NEW rows \in Recent(ph)
               PROVE  TranscriptFits(rows)
    BY Zenon DEF TranscriptIsNewest, TranscriptFits
  <2>1. rows \in Seq(Line)
    BY ReadIsRows DEF Kind, World, FiniteRows
  <2> QED
    BY <2>1, TranscriptOfRows
<1> QED
  BY <1>1, <1>2, <1>3, PTL DEF Spec
==============================================================================
