------------------------- MODULE ProductSync_proofs -------------------------
(***************************************************************************)
(* Proofs about ProductSync for every set of products and writers, every   *)
(* listing and every number of changes, pages and retries.                 *)
(***************************************************************************)
EXTENDS ProductSync, Integers, FiniteSetTheorems, WellFoundedInduction, SequenceTheorems, TLAPS

(***************************************************************************)
(* Listings                                                                *)
(***************************************************************************)
LEMMA WithIsList ==
  ASSUME NEW s \in Seq(Product), NEW i \in 0 .. Len(s), NEW p \in Product
  PROVE  With(s, i, p) \in Seq(Product) /\ Len(With(s, i, p)) = Len(s) + 1
<1>1. Len(s) + 1 \in Nat
  OBVIOUS
<1>2. \A j \in 1 .. Len(s) + 1 :
        (IF j <= i THEN s[j] ELSE IF j = i + 1 THEN p ELSE s[j - 1]) \in Product
  OBVIOUS
<1> QED
  BY <1>1, <1>2, IsASeq DEF With

LEMMA WithoutIsList ==
  ASSUME NEW s \in Seq(Product), NEW i \in 1 .. Len(s)
  PROVE  Without(s, i) \in Seq(Product) /\ Len(Without(s, i)) = Len(s) - 1
BY DEF Without

\* Where the places of an edited listing were before.
Before(a, i) == IF a < i THEN a ELSE a + 1
After(a, i) == IF a <= i THEN a ELSE a - 1

LEMMA WithoutPlaces ==
  ASSUME NEW s \in Seq(Product), NEW i \in 1 .. Len(s)
  PROVE  /\ DOMAIN Without(s, i) = 1 .. Len(s) - 1
         /\ \A a \in 1 .. Len(s) - 1 :
              Before(a, i) \in 1 .. Len(s) /\ Without(s, i)[a] = s[Before(a, i)]
         /\ \A a, b \in 1 .. Len(s) - 1 : a < b <=> Before(a, i) < Before(b, i)
         /\ \A b \in 1 .. Len(s) : b # i => \E a \in 1 .. Len(s) - 1 : b = Before(a, i)
<1>1. Len(s) \in Nat
  OBVIOUS
<1>2. \A a \in 1 .. Len(s) - 1 : Before(a, i) \in 1 .. Len(s)
  BY <1>1 DEF Before
<1>3. \A a \in 1 .. Len(s) - 1 : Without(s, i)[a] = s[Before(a, i)]
  BY <1>1 DEF Without, Before
<1>4. \A a, b \in 1 .. Len(s) - 1 : a < b <=> Before(a, i) < Before(b, i)
  BY <1>1 DEF Before
<1>5. ASSUME NEW b \in 1 .. Len(s), b # i
      PROVE  \E a \in 1 .. Len(s) - 1 : b = Before(a, i)
  <2>1. CASE b < i
    BY <1>1, <2>1 DEF Before
  <2>2. CASE b > i
    <3>1. b - 1 \in 1 .. Len(s) - 1 /\ b = Before(b - 1, i)
      BY <1>1, <2>2 DEF Before
    <3> QED
      BY <3>1
  <2> QED
    BY <1>5, <2>1, <2>2
<1> QED
  BY <1>2, <1>3, <1>4, <1>5 DEF Without

LEMMA WithPlaces ==
  ASSUME NEW s \in Seq(Product), NEW i \in 0 .. Len(s), NEW p \in Product
  PROVE  /\ DOMAIN With(s, i, p) = 1 .. Len(s) + 1
         /\ i + 1 \in 1 .. Len(s) + 1 /\ With(s, i, p)[i + 1] = p
         /\ \A a \in 1 .. Len(s) + 1 : a # i + 1 =>
              After(a, i) \in 1 .. Len(s) /\ With(s, i, p)[a] = s[After(a, i)]
         /\ \A a, b \in 1 .. Len(s) + 1 :
              a # i + 1 /\ b # i + 1 => (a < b <=> After(a, i) < After(b, i))
         /\ \A b \in 1 .. Len(s) : \E a \in 1 .. Len(s) + 1 : a # i + 1 /\ b = After(a, i)
<1>1. Len(s) \in Nat
  OBVIOUS
<1>2. DOMAIN With(s, i, p) = 1 .. Len(s) + 1 /\ With(s, i, p)[i + 1] = p
  BY <1>1 DEF With
<1>3. \A a \in 1 .. Len(s) + 1 : a # i + 1 => After(a, i) \in 1 .. Len(s)
  BY <1>1 DEF After
<1>4. \A a \in 1 .. Len(s) + 1 : a # i + 1 => With(s, i, p)[a] = s[After(a, i)]
  BY <1>1 DEF With, After
<1>5. \A a, b \in 1 .. Len(s) + 1 :
        a # i + 1 /\ b # i + 1 => (a < b <=> After(a, i) < After(b, i))
  BY <1>1 DEF After
<1>6. ASSUME NEW b \in 1 .. Len(s)
      PROVE  \E a \in 1 .. Len(s) + 1 : a # i + 1 /\ b = After(a, i)
  <2>1. CASE b <= i
    <3>1. b \in 1 .. Len(s) + 1 /\ b # i + 1 /\ b = After(b, i)
      BY <1>1, <2>1 DEF After
    <3> QED
      BY <3>1
  <2>2. CASE b > i
    <3>1. b + 1 \in 1 .. Len(s) + 1 /\ b + 1 # i + 1 /\ b = After(b + 1, i)
      BY <1>1, <2>2 DEF After
    <3> QED
      BY <3>1
  <2> QED
    BY <2>1, <2>2
<1> QED
  BY <1>1, <1>2, <1>3, <1>4, <1>5, <1>6

\* Every nonempty set of numbers has a least one.
LEMMA LeastNat ==
  ASSUME NEW S \in SUBSET Nat, S # {}
  PROVE  \E n \in S : \A m \in S : n <= m
<1> DEFINE T == {1 .. n : n \in S}
<1>1. T \subseteq FiniteSubsetsOf(Nat) /\ T # {}
  <2>1. \A n \in S : 1 .. n \in SUBSET Nat /\ IsFiniteSet(1 .. n)
    BY FS_Interval
  <2> QED
    BY <2>1 DEF FiniteSubsetsOf
<1>2. PICK I \in T : \A J \in T : <<J, I>> \notin StrictSubsetOrdering(Nat)
  <2> HIDE DEF T
  <2> QED
    BY <1>1, FS_StrictSubsetOrderingWellFounded, WFMin
<1>3. PICK n \in S : I = 1 .. n
  OBVIOUS
<1>4. ASSUME NEW m \in S, m < n PROVE FALSE
  <2>1. 1 .. m \in T
    OBVIOUS
  <2>2. 1 .. m \subseteq 1 .. n /\ n \in 1 .. n /\ n \notin 1 .. m
    BY <1>4
  <2>3. 1 .. m \in SUBSET Nat /\ 1 .. n \in SUBSET Nat /\ 1 .. m # 1 .. n
    BY <2>2
  <2> QED
    BY <1>2, <1>3, <2>1, <2>2, <2>3 DEF StrictSubsetOrdering
<1> QED
  BY <1>4

(***************************************************************************)
(* Types, locks and pages                                                  *)
(***************************************************************************)
\* Only a custom feed lists a product twice.
Distinct == source # "custom" => \A i, j \in DOMAIN list : list[i] = list[j] => i = j

Numbered == \A p \in Product : shop[p] >= 1

\* A sync that has read its last page by number knows it.
Paged == \A t \in Writer : job[t].step = "upsert" /\ ~job[t].last => job[t].page < MaxPages

OneWriter ==
  \A t, u \in Writer, p \in Product : pend[t][p] # None /\ pend[u][p] # None => t = u

Base == TypeOK /\ Distinct /\ Numbered /\ Paged /\ OneWriter

LEMMA Bounds ==
  /\ None \notin Row /\ PageSize \in Nat \ {0} /\ MaxPages \in Nat \ {0}
  /\ MaxRetries \in Nat /\ MaxVersion \in Nat \ {0}
BY SyncConstants

LEMMA BaseInit == Init => Base
<1> SUFFICES ASSUME Init PROVE Base
  OBVIOUS
<1>1. PICK l \in Listings :
        /\ source = l.source /\ list = l.list /\ token = l.token /\ events = l.events
        /\ offered = [p \in Product |-> p \notin l.out]
        /\ job = [t \in Writer |-> IF t \in l.writers THEN Idle ELSE [Idle EXCEPT !.step = "done"]]
  BY DEF Init
<1>2. Idle \in Job /\ [Idle EXCEPT !.step = "done"] \in Job
  <2>1. Idle \in Job
    BY Bounds DEF Idle, Job
  <2> QED
    BY <2>1 DEF Job
<1>3. job \in [Writer -> Job]
  BY <1>1, <1>2
<1>4. \A t \in Writer : job[t].step \notin {"upsert", "insert"}
  BY <1>1 DEF Idle
<1>5. shop \in [Product -> Version] /\ row \in [Product -> Row \cup {None}]
  BY SyncConstants DEF Init, Version
<1>6. TypeOK
  BY SyncConstants, <1>1, <1>3, <1>4, <1>5 DEF Init, TypeOK
<1>7. Distinct
  BY SyncConstants, <1>1 DEF Distinct
<1> QED
  BY <1>4, <1>6, <1>7 DEF Init, Base, Numbered, Paged, OneWriter

\* What a writer reads of a page.
LEMMA PageItems ==
  ASSUME Base, NEW n \in 1 .. MaxPages
  PROVE  Normalised(Page(n)) \in SUBSET Item
<1>1. \A i \in DOMAIN list : list[i] \in Product /\ shop[list[i]] \in Version /\ i \in Nat
  BY DEF Base, TypeOK
<1>2. \A i \in DOMAIN list : Available(list[i]) \in BOOLEAN
  BY <1>1 DEF Base, TypeOK, Available
<1> QED
  BY <1>1, <1>2 DEF Normalised, Page, Item

LEMMA AfterPageType ==
  ASSUME NEW j \in Job, NEW last \in BOOLEAN, last \/ j.page < MaxPages
  PROVE  /\ AfterPage(j, last) \in Job
         /\ AfterPage(j, last).step \in {"fetch", "admin", "done"}
         /\ AfterPage(j, last).todo = {} /\ ~AfterPage(j, last).last
<1> DEFINE step == IF ~last THEN "fetch" ELSE IF source = "shopify" THEN "admin" ELSE "done"
           page == IF last THEN j.page ELSE j.page + 1
<1>1. page \in 1 .. MaxPages /\ step \in {"fetch", "admin", "done"}
  BY SyncConstants DEF Job
<1>2. AfterPage(j, last) = [j EXCEPT !.step = step, !.page = page, !.todo = {}, !.last = FALSE]
  BY DEF AfterPage
<1> HIDE DEF step, page
<1> QED
  BY <1>1, <1>2 DEF Job

\* A writer goes on: it gives up the rows it held, keeps them, or locks a free one.
LEMMA WriterStep ==
  ASSUME Base, NEW t \in Writer, NEW j \in Job, job' = [job EXCEPT ![t] = j],
         j.step = "upsert" /\ ~j.last => j.page < MaxPages,
         UNCHANGED <<source, list, token, shop, offered, rearranged>>, events' \in Nat,
         row' \in [Product -> Row \cup {None}], mail' \subseteq Hook,
         calm' \in [Writer -> BOOLEAN], UNCHANGED <<raced, lost>>,
         pend' \in [Writer -> [Product -> Row \cup {None}]],
         \A u \in Writer, p \in Product :
           pend'[u][p] # None => pend[u][p] # None \/ (u = t /\ Unlocked(t, p)),
         j.step \notin {"upsert", "insert"} => \A p \in Product : pend'[t][p] = None
  PROVE  Base'
<1>1. job' \in [Writer -> Job] /\ job'[t] = j /\ \A u \in Writer \ {t} : job'[u] = job[u]
  BY DEF Base, TypeOK
<1>2. TypeOK'
  <2>1. ASSUME NEW u \in Writer, job'[u].step \notin {"upsert", "insert"}, NEW p \in Product
        PROVE  pend'[u][p] = None
    BY <1>1, <2>1 DEF Base, TypeOK
  <2>2. \A u \in Writer : job'[u].step \notin {"upsert", "insert"} => \A p \in Product : pend'[u][p] = None
    BY <2>1
  <2>3. /\ source' \in {"shopify", "custom", "unset"} /\ token' \in BOOLEAN
        /\ list' \in Seq(Product) /\ shop' \in [Product -> Version]
        /\ offered' \in [Product -> BOOLEAN] /\ rearranged' \in BOOLEAN
        /\ raced' \in [Product -> BOOLEAN] /\ lost' \in [Product -> BOOLEAN]
    BY DEF Base, TypeOK
  <2> QED
    BY <1>1, <2>2, <2>3 DEF TypeOK
<1>3. Distinct' /\ Numbered'
  BY DEF Base, Distinct, Numbered
<1>4. Paged'
  BY <1>1 DEF Base, Paged
<1>5. OneWriter'
  BY DEF Base, OneWriter, Unlocked
<1> QED
  BY <1>2, <1>3, <1>4, <1>5 DEF Base

\* The shop changes, or a webhook is taken.
LEMMA ShopOrHookStep ==
  ASSUME Base, UNCHANGED <<source, token, pend, job>>, Distinct',
         list' \in Seq(Product), shop' \in [Product -> Version], Numbered',
         offered' \in [Product -> BOOLEAN],
         rearranged' \in BOOLEAN, events' \in Nat,
         row' \in [Product -> Row \cup {None}], mail' \subseteq Hook,
         calm' \in [Writer -> BOOLEAN],
         raced' \in [Product -> BOOLEAN], lost' \in [Product -> BOOLEAN]
  PROVE  Base'
BY DEF Base, TypeOK, Paged, OneWriter

LEMMA ChangeKeeps ==
  ASSUME Base, NEW p \in Product, NEW on \in BOOLEAN, Change(p, on)
  PROVE  /\ UNCHANGED <<source, token, row, pend, job, raced, lost>>
         /\ shop' = [shop EXCEPT ![p] = @ + 1] /\ shop' \in [Product -> Version] /\ Numbered'
         /\ offered' = [offered EXCEPT ![p] = on] /\ offered' \in [Product -> BOOLEAN]
         /\ events' \in Nat /\ calm' \in [Writer -> BOOLEAN]
         /\ mail' = IF source = "shopify"
                      THEN mail \cup {[p |-> p, v |-> shop[p] + 1, on |-> on]} ELSE mail
         /\ mail' \subseteq Hook
<1>1. shop[p] + 1 \in Version
  BY Bounds DEF Change, Base, TypeOK, Version
<1>2. shop' = [shop EXCEPT ![p] = @ + 1] /\ shop' \in [Product -> Version] /\ Numbered'
  BY <1>1 DEF Change, Base, TypeOK, Version, Numbered
<1>3. [p |-> p, v |-> shop[p] + 1, on |-> on] \in Hook
  BY <1>1 DEF Hook
<1>4. events' \in Nat
  BY DEF Change, Base, TypeOK
<1> QED
  BY <1>2, <1>3, <1>4 DEF Change, history, Base, TypeOK, Disturb

LEMMA EditBase ==
  ASSUME Base, NEW p \in Product, NEW on \in BOOLEAN, Edit(p, on)
  PROVE  Base'
<1>1. Change(p, on) /\ UNCHANGED <<list, rearranged>>
  BY DEF Edit
<1>2. Distinct' /\ list' \in Seq(Product) /\ rearranged' \in BOOLEAN
  BY <1>1, ChangeKeeps DEF Distinct, Base, TypeOK
<1> QED
  BY <1>1, <1>2, ChangeKeeps, ShopOrHookStep DEF Base, TypeOK

LEMMA WithdrawBase ==
  ASSUME Base, NEW p \in Product, NEW on \in BOOLEAN, Withdraw(p, on)
  PROVE  Base'
<1>1. Change(p, on) /\ rearranged' = (rearranged \/ p \in Listed')
  BY DEF Withdraw
<1>2. PICK i \in DOMAIN list : list' = Without(list, i)
  BY DEF Withdraw
<1>3. list \in Seq(Product) /\ i \in 1 .. Len(list)
  BY <1>2 DEF Base, TypeOK
<1>4. list' \in Seq(Product)
  BY <1>2, <1>3, WithoutIsList
<1>5. Distinct'
  <2>1. source' = source
    BY <1>1, ChangeKeeps
  <2>2. ASSUME source # "custom", NEW j \in DOMAIN list', NEW k \in DOMAIN list',
               list'[j] = list'[k]
        PROVE  j = k
    <3>1. j \in 1 .. Len(list) - 1 /\ k \in 1 .. Len(list) - 1
      BY <1>2, <1>3, WithoutPlaces
    <3>2. list[Before(j, i)] = list[Before(k, i)]
      BY <1>2, <1>3, <2>2, <3>1, WithoutPlaces
    <3>3. \A m, n \in 1 .. Len(list) : list[m] = list[n] => m = n
      BY <1>3, <2>2 DEF Base, Distinct
    <3>4. Before(j, i) \in 1 .. Len(list) /\ Before(k, i) \in 1 .. Len(list)
      BY <1>3, <3>1, WithoutPlaces
    <3>5. Before(j, i) = Before(k, i)
      BY <3>2, <3>3, <3>4
    <3> QED
      BY <1>3, <3>1, <3>5 DEF Before
  <2> QED
    BY <2>1, <2>2 DEF Distinct
<1> QED
  BY <1>1, <1>4, <1>5, ChangeKeeps, ShopOrHookStep DEF Base, TypeOK

LEMMA PublishBase ==
  ASSUME Base, NEW p \in Product, NEW on \in BOOLEAN, Publish(p, on)
  PROVE  Base'
<1>1. Change(p, on) /\ rearranged' = (rearranged \/ shop[p] > 1) /\ p \notin Listed
  BY DEF Publish
<1>2. PICK i \in 0 .. Len(list) : list' = With(list, i, p)
  BY DEF Publish
<1>3. list \in Seq(Product)
  BY DEF Base, TypeOK
<1>4. list' \in Seq(Product)
  BY <1>2, <1>3, WithIsList
<1>5. Distinct'
  <2>1. source' = source
    BY <1>1, ChangeKeeps
  <2>2. \A m \in 1 .. Len(list) : list[m] # p
    BY <1>1, <1>3 DEF Listed
  <2>3. ASSUME source # "custom", NEW j \in DOMAIN list', NEW k \in DOMAIN list',
               list'[j] = list'[k]
        PROVE  j = k
    <3>1. j \in 1 .. Len(list) + 1 /\ k \in 1 .. Len(list) + 1
      BY <1>2, <1>3, WithPlaces
    <3>2. \A a \in {j, k} : a # i + 1 =>
            After(a, i) \in 1 .. Len(list) /\ list'[a] = list[After(a, i)] /\ list'[a] # p
      BY <1>2, <1>3, <2>2, <3>1, WithPlaces
    <3>4. CASE j = i + 1 \/ k = i + 1
      <4>1. list'[i + 1] = p
        BY <1>2, <1>3, WithPlaces
      <4> QED
        BY <2>3, <3>2, <3>4, <4>1
    <3>3. CASE j # i + 1 /\ k # i + 1
      <4>1. \A m, n \in 1 .. Len(list) : list[m] = list[n] => m = n
        BY <1>3, <2>3 DEF Base, Distinct
      <4>2. After(j, i) = After(k, i)
        BY <2>3, <3>2, <3>3, <4>1
      <4> QED
        BY <1>3, <3>1, <3>3, <4>2 DEF After
    <3> QED
      BY <3>3, <3>4
  <2> QED
    BY <2>1, <2>3 DEF Distinct
<1> QED
  BY <1>1, <1>4, <1>5, ChangeKeeps, ShopOrHookStep DEF Base, TypeOK

LEMMA RearrangeBase == Base /\ Rearrange => Base'
<1> SUFFICES ASSUME Base, Rearrange PROVE Base'
  OBVIOUS
<1>1. PICK i, j \in DOMAIN list : i < j /\ list' = [list EXCEPT ![i] = list[j], ![j] = list[i]]
  BY DEF Rearrange
<1>2. list \in Seq(Product) /\ list' \in Seq(Product)
  BY <1>1 DEF Base, TypeOK
<1>3. Distinct'
  BY <1>1, <1>2 DEF Rearrange, Base, Distinct
<1> QED
  BY <1>2, <1>3, ShopOrHookStep DEF Rearrange, Disturb, history, Base, TypeOK, Numbered

LEMMA WebhookBase ==
  ASSUME Base, NEW m \in mail, Webhook(m)
  PROVE  Base'
<1>1. m \in Hook /\ [v |-> m.v, on |-> m.on] \in Row
  BY DEF Base, TypeOK, Hook, Row
<1>2. row' \in [Product -> Row \cup {None}] /\ raced' \in [Product -> BOOLEAN]
  BY <1>1 DEF Webhook, Base, TypeOK
<1> QED
  BY <1>2, ShopOrHookStep DEF Webhook, shopVars, Disturb, Base, TypeOK, Distinct, Numbered

LEMMA GiveUpHookBase ==
  ASSUME Base, NEW m \in mail, GiveUpHook(m)
  PROVE  Base'
BY ShopOrHookStep DEF GiveUpHook, shopVars, Base, TypeOK, Distinct, Numbered

LEMMA Restarted ==
  ASSUME NEW j \in Job, NEW n \in 0 .. MaxRetries, NEW step \in {"fetch", "failed"}
  PROVE  [j EXCEPT !.step = step, !.tries = n] \in Job
BY DEF Job

LEMMA RaiseInBase ==
  ASSUME Base, NEW t \in Writer, RaiseIn(t)
  PROVE  Base'
<1> DEFINE j == IF job[t].step = "insert" THEN [Idle EXCEPT !.step = "failed"]
                ELSE IF job[t].tries < MaxRetries
                THEN [Idle EXCEPT !.step = "fetch", !.tries = job[t].tries + 1]
                ELSE [Idle EXCEPT !.step = "failed", !.tries = MaxRetries]
<1>1. job[t] \in Job /\ Idle \in Job
  BY Bounds DEF Base, TypeOK, Idle, Job
<1>2. [Idle EXCEPT !.step = "failed"] \in Job
  BY <1>1 DEF Job
<1>3. job[t].tries < MaxRetries =>
        [Idle EXCEPT !.step = "fetch", !.tries = job[t].tries + 1] \in Job
  <2>1. job[t].tries < MaxRetries => job[t].tries + 1 \in 0 .. MaxRetries
    BY <1>1, Bounds DEF Job
  <2> QED
    BY <1>1, <2>1, Restarted
<1>4. [Idle EXCEPT !.step = "failed", !.tries = MaxRetries] \in Job
  <2>1. MaxRetries \in 0 .. MaxRetries
    BY Bounds
  <2> QED
    BY <1>1, <2>1, Restarted
<1>5. j \in Job
  BY <1>2, <1>3, <1>4
<1>6. j.step \in {"fetch", "failed"}
  BY <1>1 DEF Idle
<1>7. job' = [job EXCEPT ![t] = j]
  BY DEF RaiseIn
<1> HIDE DEF j
<1> QED
  BY <1>5, <1>6, <1>7, WriterStep DEF RaiseIn, NoWrites, shopVars, history, Base, TypeOK

\* Another step of the job, with nothing to write.
LEMMA Moved ==
  ASSUME NEW j \in Job, NEW step \in {"fetch", "insert", "admin", "done", "failed"}
  PROVE  [j EXCEPT !.step = step] \in Job
BY DEF Job

LEMMA StartSyncBase ==
  ASSUME Base, NEW t \in Writer, StartSync(t)
  PROVE  Base'
<1> DEFINE step == IF source = "unset" THEN "done" ELSE "fetch"
           j == [job[t] EXCEPT !.step = step]
<1>1. job[t] \in Job /\ step \in {"fetch", "done"}
  BY DEF Base, TypeOK
<1>2. j \in Job /\ j.step \in {"fetch", "done"}
  <2> HIDE DEF step
  <2> QED
    BY <1>1, Moved DEF Job
<1>3. job' = [job EXCEPT ![t] = j]
  BY DEF StartSync, Base, TypeOK
<1>4. \A p \in Product : pend[t][p] = None
  BY DEF StartSync, Base, TypeOK
<1>5. /\ events' \in Nat /\ row' \in [Product -> Row \cup {None}] /\ mail' \subseteq Hook
      /\ calm' \in [Writer -> BOOLEAN] /\ pend' \in [Writer -> [Product -> Row \cup {None}]]
  BY DEF StartSync, shopVars, Base, TypeOK
<1> HIDE DEF j, step
<1> QED
  BY <1>2, <1>3, <1>4, <1>5, WriterStep DEF StartSync, shopVars, history

LEMMA StartBulkBase ==
  ASSUME Base, NEW t \in Writer, StartBulk(t)
  PROVE  Base'
<1>1. PICK p \in Product, q \in Product, on \in BOOLEAN :
        job' = [job EXCEPT ![t].step = "insert",
                ![t].todo = {[at |-> 1, p |-> p, v |-> 0, on |-> on]}
                            \cup IF p = q THEN {} ELSE {[at |-> 2, p |-> q, v |-> 0, on |-> TRUE]}]
  BY DEF StartBulk
<1> DEFINE todo == {[at |-> 1, p |-> p, v |-> 0, on |-> on]}
                   \cup IF p = q THEN {} ELSE {[at |-> 2, p |-> q, v |-> 0, on |-> TRUE]}
           j == [job[t] EXCEPT !.step = "insert", !.todo = todo]
<1>2. todo \subseteq Item
  <2>1. [at |-> 1, p |-> p, v |-> 0, on |-> on] \in Item
    BY Bounds DEF Item, Version
  <2>2. [at |-> 2, p |-> q, v |-> 0, on |-> TRUE] \in Item
    BY Bounds DEF Item, Version
  <2> QED
    BY <2>1, <2>2
<1>3. job' = [job EXCEPT ![t] = j]
  BY <1>1 DEF Base, TypeOK
<1>4. j \in Job /\ j.step = "insert"
  <2> HIDE DEF todo
  <2> QED
    BY <1>2 DEF Base, TypeOK, Job
<1> HIDE DEF j
<1> QED
  BY <1>3, <1>4, WriterStep DEF StartBulk, Disturb, shopVars, history, Base, TypeOK

LEMMA FetchBase ==
  ASSUME Base, NEW t \in Writer, Fetch(t)
  PROVE  Base'
<1> DEFINE items == Normalised(Page(job[t].page))
           last == LastPage(job[t].page)
           j == IF items = {} THEN AfterPage(job[t], last)
                ELSE [job[t] EXCEPT !.step = "upsert", !.last = last, !.todo = items]
<1>1. job[t] \in Job /\ job[t].page \in 1 .. MaxPages /\ last \in BOOLEAN
  BY DEF Base, TypeOK, Job, LastPage
<1>2. items \in SUBSET Item
  BY <1>1, PageItems
<1>3. last \/ job[t].page < MaxPages
  BY <1>1, Bounds DEF LastPage
<1>4. job' = [job EXCEPT ![t] = j]
  BY DEF Fetch
<1>5. j \in Job /\ (j.step = "upsert" /\ ~j.last => j.page < MaxPages)
  <2> HIDE DEF items, last
  <2>1. CASE items = {}
    BY <1>1, <1>3, <2>1, AfterPageType
  <2>2. CASE items # {}
    BY <1>1, <1>2, <1>3, <2>2 DEF Job
  <2> QED
    BY <2>1, <2>2
<1>6. \A p \in Product : pend[t][p] = None
  BY DEF Fetch, Base, TypeOK
<1> HIDE DEF j
<1> QED
  BY <1>4, <1>5, <1>6, WriterStep DEF Fetch, shopVars, history, Base, TypeOK

\* One statement: its row is locked and its item done.
LEMMA StatementBase ==
  ASSUME Base, NEW t \in Writer, NEW it \in job[t].todo, Unlocked(t, it.p),
         pend' = [pend EXCEPT ![t][it.p] = [v |-> it.v, on |-> it.on]],
         job' = [job EXCEPT ![t].todo = @ \ {it}], job[t].step \in {"upsert", "insert"},
         UNCHANGED <<shopVars, row, mail, calm, history>>
  PROVE  Base'
<1> DEFINE todo == job[t].todo \ {it}
           j == [job[t] EXCEPT !.todo = todo]
<1>1. job[t] \in Job /\ it \in Item /\ todo \in SUBSET Item
  BY DEF Base, TypeOK, Job
<1>2. job' = [job EXCEPT ![t] = j]
  BY DEF Base, TypeOK
<1>3. j \in Job /\ j.step = job[t].step /\ j.page = job[t].page /\ j.last = job[t].last
  <2> HIDE DEF todo
  <2> QED
    BY <1>1 DEF Job
<1>4. [v |-> it.v, on |-> it.on] \in Row
  BY <1>1 DEF Item, Row
<1>5. pend' \in [Writer -> [Product -> Row \cup {None}]]
  BY <1>1, <1>4 DEF Base, TypeOK, Item
<1>6. \A u \in Writer, p \in Product :
        pend'[u][p] # None => pend[u][p] # None \/ (u = t /\ Unlocked(t, p))
  BY <1>1 DEF Base, TypeOK, Item
<1>7. j.step = "upsert" /\ ~j.last => j.page < MaxPages
  BY <1>3 DEF Base, Paged
<1> HIDE DEF j
<1> QED
  BY <1>2, <1>3, <1>5, <1>6, <1>7, WriterStep DEF shopVars, history, Base, TypeOK

LEMMA UpsertBase ==
  ASSUME Base, NEW t \in Writer, Upsert(t) \/ Insert(t)
  PROVE  Base'
BY StatementBase DEF Upsert, Insert

LEMMA CommitBase ==
  ASSUME Base, NEW t \in Writer, Commit(t)
  PROVE  Base'
<1> DEFINE j == IF job[t].step = "insert" THEN [job[t] EXCEPT !.step = "done"]
                ELSE AfterPage(job[t], job[t].last)
<1>1. job[t] \in Job /\ job[t].last \in BOOLEAN
  BY DEF Base, TypeOK, Job
<1>2. job[t].step = "upsert" => job[t].last \/ job[t].page < MaxPages
  BY DEF Base, Paged
<1>3. j \in Job /\ j.step \in {"fetch", "admin", "done"}
  <2>1. CASE job[t].step = "insert"
    BY <1>1, <2>1, Moved DEF Job
  <2>2. CASE job[t].step = "upsert"
    BY <1>1, <1>2, <2>2, AfterPageType
  <2> QED
    BY <2>1, <2>2 DEF Commit
<1>4. job' = [job EXCEPT ![t] = j]
  BY DEF Commit
<1>5. row' \in [Product -> Row \cup {None}]
  BY DEF Commit, Base, TypeOK
<1> HIDE DEF j
<1> QED
  BY <1>3, <1>4, <1>5, WriterStep DEF Commit, NoWrites, Disturb, shopVars, history, Base, TypeOK

LEMMA SkipAdminBase ==
  ASSUME Base, NEW t \in Writer, SkipAdmin(t)
  PROVE  Base'
<1> DEFINE j == [job[t] EXCEPT !.step = "done"]
<1>1. j \in Job /\ j.step = "done"
  <2>1. job[t] \in Job
    BY DEF Base, TypeOK
  <2> QED
    BY <2>1, Moved DEF Job
<1>2. job' = [job EXCEPT ![t] = j]
  BY DEF SkipAdmin, Base, TypeOK
<1>3. \A p \in Product : pend[t][p] = None
  BY DEF SkipAdmin, Base, TypeOK
<1>4. /\ events' \in Nat /\ row' \in [Product -> Row \cup {None}] /\ mail' \subseteq Hook
      /\ calm' \in [Writer -> BOOLEAN] /\ pend' \in [Writer -> [Product -> Row \cup {None}]]
  BY DEF SkipAdmin, shopVars, Base, TypeOK
<1> HIDE DEF j
<1> QED
  BY <1>1, <1>2, <1>3, <1>4, WriterStep DEF SkipAdmin, shopVars, history

LEMMA LostBase ==
  ASSUME Base, NEW t \in Writer, Lost(t)
  PROVE  Base'
<1> DEFINE j == [Idle EXCEPT !.step = "fetch", !.tries = job[t].tries]
<1>1. Idle \in Job /\ job[t].tries \in 0 .. MaxRetries
  BY Bounds DEF Base, TypeOK, Idle, Job
<1>2. j \in Job
  BY <1>1, Restarted
<1>3. j.step = "fetch"
  BY DEF Idle
<1>4. job' = [job EXCEPT ![t] = j]
  BY DEF Lost
<1>5. events' \in Nat /\ calm' \in [Writer -> BOOLEAN]
  BY DEF Lost, Base, TypeOK
<1> HIDE DEF j
<1> QED
  BY <1>2, <1>3, <1>4, <1>5, WriterStep DEF Lost, NoWrites, history, Base, TypeOK

LEMMA BaseStep == Base /\ [Next]_vars => Base'
<1> SUFFICES ASSUME Base, [Next]_vars PROVE Base'
  OBVIOUS
<1>1. CASE ShopStep
  BY <1>1, EditBase, WithdrawBase, PublishBase, RearrangeBase DEF ShopStep
<1>2. CASE HookStep
  BY <1>2, WebhookBase, GiveUpHookBase DEF HookStep
<1>3. ASSUME NEW t \in Writer,
             StartSync(t) \/ StartBulk(t) \/ Progress(t) \/ Lost(t) \/ Disconnect(t)
      PROVE  Base'
  <2>1. CASE StartSync(t) \/ StartBulk(t) \/ Fetch(t) \/ Upsert(t) \/ Insert(t) \/ Commit(t)
             \/ SkipAdmin(t) \/ Lost(t)
    BY <2>1, StartSyncBase, StartBulkBase, FetchBase, UpsertBase, CommitBase, SkipAdminBase, LostBase
  <2>2. CASE RaiseIn(t)
    BY <2>2, RaiseInBase
  <2> QED
    BY <1>3, <2>1, <2>2
       DEF Progress, Disconnect, FetchRaises, UpsertRaises, InsertRaises, AdminRaises, DeadlockVictim
<1>4. CASE UNCHANGED vars
  BY <1>4 DEF vars, shopVars, history, Base, TypeOK, Distinct, Numbered, Paged, OneWriter
<1> QED
  BY <1>1, <1>2, <1>3, <1>4 DEF Next

THEOREM BaseHolds == Spec => []Base
BY BaseInit, BaseStep, PTL DEF Spec

\* Rows, writes and jobs are always of their types, and who does not write
\* holds no row lock.
THEOREM TypeCorrect == Spec => []TypeOK
<1>1. Base => TypeOK
  BY DEF Base
<1> QED
  BY <1>1, BaseHolds, PTL

(***************************************************************************)
(* Changes arrive                                                          *)
(***************************************************************************)
\* t has read version v of p, or written it in its transaction.
Carries(t, p, v) ==
  \/ \E it \in job[t].todo : it.p = p /\ it.v = v
  \/ pend[t][p] # None /\ pend[t][p].v = v

\* Nobody carries a version the shop has not had, and the newest only of an
\* active product; a sync writes products as available, and an insert's row is
\* new.
SoundWrites ==
  /\ \A t \in Writer, p \in Product, v \in Version :
       Carries(t, p, v) => v <= shop[p] /\ (v = shop[p] => offered[p])
  /\ \A t \in Writer, p \in Product :
       pend[t][p] # None =>
         (job[t].step # "insert" => pend[t][p].on) /\ (job[t].step = "insert" => row[p] = None)
  /\ \A t \in Writer : job[t].step = "upsert" => \A it \in job[t].todo : it.on
  /\ \A t \in Writer : job[t].step \notin {"upsert", "insert"} => job[t].todo = {}

SoundHooks == \A m \in mail : m.v <= shop[m.p] /\ (m.v = shop[m.p] => m.on = offered[m.p])

\* A storefront lists active products.
ListedActive == \A p \in Listed : offered[p]

\* The row says what the shop says, and nothing older can overwrite it.
Arrived(p) ==
  /\ row[p] = [v |-> shop[p], on |-> offered[p]]
  /\ \A t \in Writer, v \in Version :
       Carries(t, p, v) /\ job[t].step # "insert" => v = shop[p]
  /\ \A m \in mail : m.p = p => m.v = shop[p]

OnItsWay(p) == \E m \in mail : m.p = p /\ m.v = shop[p]

Arrival ==
  source = "shopify" =>
    /\ SoundWrites /\ SoundHooks /\ ListedActive
    /\ \A p \in Product : shop[p] = 1 \/ lost[p] \/ raced[p] \/ OnItsWay(p) \/ Arrived(p)

LEMMA ArrivalInit == Init => Arrival
<1> SUFFICES ASSUME Init PROVE Arrival
  OBVIOUS
<1>1. \A t \in Writer : job[t].todo = {}
  BY DEF Init, Idle
<1>2. source = "shopify" => ListedActive
  <2>1. PICK l \in Listings :
          source = l.source /\ list = l.list /\ offered = [p \in Product |-> p \notin l.out]
    BY DEF Init
  <2>2. l.list \in Seq(Product)
    BY SyncConstants
  <2>3. \A i \in DOMAIN list : list[i] \in Product
    BY <2>1, <2>2
  <2>4. source = "shopify" => \A i \in DOMAIN list : list[i] \notin l.out
    BY <2>1, SyncConstants
  <2> QED
    BY <2>1, <2>3, <2>4 DEF ListedActive, Listed
<1> QED
  BY <1>1, <1>2 DEF Init, Arrival, SoundWrites, SoundHooks, Carries

\* A new version is newer than all that is carried.
LEMMA ChangeArrives ==
  ASSUME Base, Arrival, NEW p \in Product, NEW on \in BOOLEAN, Change(p, on),
         source = "shopify" => \A q \in Listed' : IF q = p THEN on ELSE q \in Listed
  PROVE  Arrival'
<1> SUFFICES ASSUME source = "shopify" PROVE Arrival'
  BY ChangeKeeps DEF Arrival
<1> USE ChangeKeeps
<1>1. shop'[p] = shop[p] + 1 /\ \A q \in Product \ {p} : shop'[q] = shop[q]
  BY DEF Base, TypeOK
<1>0. offered'[p] = on /\ \A q \in Product \ {p} : offered'[q] = offered[q]
  BY DEF Base, TypeOK
<1>2. \A q \in Product : shop[q] \in Nat /\ shop'[q] \in Nat
  BY DEF Base, TypeOK, Version
<1>3. \A v \in Version : v \in Nat
  BY DEF Version
<1>4. ASSUME NEW t \in Writer, NEW q \in Product, NEW v \in Version
      PROVE  Carries(t, q, v)' <=> Carries(t, q, v)
  BY DEF Carries
<1>5. SoundWrites'
  <2>1. ASSUME NEW t \in Writer, NEW q \in Product, NEW v \in Version, Carries(t, q, v)'
        PROVE  v <= shop'[q] /\ (v = shop'[q] => offered'[q])
    <3>1. v <= shop[q] /\ (v = shop[q] => offered[q])
      BY <1>4, <2>1 DEF Arrival, SoundWrites
    <3> QED
      BY <1>0, <1>1, <1>2, <1>3, <3>1
  <2> QED
    BY <2>1 DEF Arrival, SoundWrites
<1>6. SoundHooks'
  <2>1. ASSUME NEW m \in mail
        PROVE  m.v <= shop'[m.p] /\ (m.v = shop'[m.p] => m.on = offered'[m.p])
    <3>1. m.p \in Product /\ m.v \in Nat /\ m.v <= shop[m.p] /\ m.on \in BOOLEAN
      BY <1>3 DEF Arrival, SoundHooks, Base, TypeOK, Hook
    <3>2. CASE m.p = p
      BY <1>1, <1>2, <3>1, <3>2
    <3>3. CASE m.p # p
      BY <1>0, <1>1, <3>1, <3>3 DEF Arrival, SoundHooks
    <3> QED
      BY <3>2, <3>3
  <2>2. DEFINE new == [p |-> p, v |-> shop[p] + 1, on |-> on]
  <2>3. new.v <= shop'[new.p] /\ new.on = offered'[new.p]
    BY <1>0, <1>1, <1>2
  <2>4. mail' = mail \cup {new}
    OBVIOUS
  <2> HIDE DEF new
  <2> QED
    BY <2>1, <2>3, <2>4 DEF SoundHooks
<1>7. ASSUME NEW q \in Product
      PROVE  shop'[q] = 1 \/ lost'[q] \/ raced'[q] \/ OnItsWay(q)' \/ Arrived(q)'
  <2>1. CASE q = p
    <3>1. OnItsWay(p)'
      <4>1. [p |-> p, v |-> shop[p] + 1, on |-> on] \in mail'
        OBVIOUS
      <4> QED
        BY <1>1, <4>1 DEF OnItsWay
    <3> QED
      BY <2>1, <3>1
  <2>2. CASE q # p
    <3>1. shop'[q] = shop[q] /\ offered'[q] = offered[q] /\ row'[q] = row[q]
      BY <1>0, <1>1, <2>2
    <3>2. OnItsWay(q) => OnItsWay(q)'
      BY <3>1 DEF OnItsWay
    <3>3. ASSUME Arrived(q) PROVE Arrived(q)'
      <4>1. \A m \in mail' : m.p = q => m \in mail
        BY <2>2
      <4> QED
        BY <1>4, <3>1, <3>3, <4>1 DEF Arrived
    <3> QED
      BY <3>1, <3>2, <3>3 DEF Arrival
  <2> QED
    BY <2>1, <2>2
<1>8. ListedActive'
  <2>1. \A q \in Listed : q \in Product
    BY DEF Listed, Base, TypeOK
  <2> QED
    BY <1>0, <2>1 DEF Arrival, ListedActive
<1> QED
  BY <1>5, <1>6, <1>7, <1>8 DEF Arrival

LEMMA WithdrawnListed ==
  ASSUME Base, NEW p \in Product, NEW on \in BOOLEAN, Withdraw(p, on)
  PROVE  /\ Listed' \subseteq Listed /\ Listed \ {p} \subseteq Listed'
         /\ source # "custom" => p \notin Listed'
<1>1. PICK i \in DOMAIN list : list[i] = p /\ list' = Without(list, i)
  BY DEF Withdraw
<1>2. list \in Seq(Product) /\ i \in 1 .. Len(list)
  BY <1>1 DEF Base, TypeOK
<1>3. ASSUME NEW q \in Listed' PROVE q \in Listed /\ (source # "custom" => q # p)
  <2>1. PICK a \in DOMAIN list' : q = list'[a]
    BY DEF Listed
  <2>2. a \in 1 .. Len(list) - 1 /\ Before(a, i) \in 1 .. Len(list) /\ q = list[Before(a, i)]
    BY <1>1, <1>2, <2>1, WithoutPlaces
  <2>3. Before(a, i) # i
    BY <1>2, <2>2 DEF Before
  <2>4. source # "custom" => \A m \in 1 .. Len(list) : list[m] = p => m = i
    BY <1>1, <1>2 DEF Base, Distinct
  <2> QED
    BY <1>2, <2>2, <2>3, <2>4 DEF Listed
<1>4. ASSUME NEW q \in Listed, q # p PROVE q \in Listed'
  <2>1. PICK b \in 1 .. Len(list) : q = list[b]
    BY <1>2 DEF Listed
  <2>2. PICK a \in 1 .. Len(list) - 1 : b = Before(a, i)
    BY <1>1, <1>2, <1>4, <2>1, WithoutPlaces
  <2>3. a \in DOMAIN list' /\ q = list'[a]
    BY <1>1, <1>2, <2>1, <2>2, WithoutPlaces
  <2> QED
    BY <2>3 DEF Listed
<1> QED
  BY <1>3, <1>4

LEMMA PublishedListed ==
  ASSUME Base, NEW p \in Product, NEW i \in 0 .. Len(list), list' = With(list, i, p)
  PROVE  Listed' = Listed \cup {p}
<1>1. list \in Seq(Product)
  BY DEF Base, TypeOK
<1>2. ASSUME NEW q \in Listed' PROVE q \in Listed \cup {p}
  <2>1. PICK a \in DOMAIN list' : q = list'[a]
    BY DEF Listed
  <2>2. CASE a = i + 1
    BY <1>1, <2>1, <2>2, WithPlaces
  <2>3. CASE a # i + 1
    <3>1. After(a, i) \in 1 .. Len(list) /\ q = list[After(a, i)]
      BY <1>1, <2>1, <2>3, WithPlaces
    <3> QED
      BY <1>1, <3>1 DEF Listed
  <2> QED
    BY <2>2, <2>3
<1>3. ASSUME NEW q \in Listed PROVE q \in Listed'
  <2>1. PICK b \in 1 .. Len(list) : q = list[b]
    BY <1>1 DEF Listed
  <2>2. PICK a \in 1 .. Len(list) + 1 : a # i + 1 /\ b = After(a, i)
    BY <1>1, <2>1, WithPlaces
  <2>3. a \in DOMAIN list' /\ q = list'[a]
    BY <1>1, <2>1, <2>2, WithPlaces
  <2> QED
    BY <2>3 DEF Listed
<1>4. p \in Listed'
  <2>1. i + 1 \in DOMAIN list' /\ p = list'[i + 1]
    BY <1>1, WithPlaces
  <2> QED
    BY <2>1 DEF Listed
<1> QED
  BY <1>2, <1>3, <1>4

LEMMA RearrangedListed == Base /\ Rearrange => Listed' = Listed
<1> SUFFICES ASSUME Base, Rearrange PROVE Listed' = Listed
  OBVIOUS
<1>1. PICK i, j \in DOMAIN list : i < j /\ list' = [list EXCEPT ![i] = list[j], ![j] = list[i]]
  BY DEF Rearrange
<1>2. DOMAIN list' = DOMAIN list /\ i # j
  BY <1>1 DEF Base, TypeOK
<1>3. \A k \in DOMAIN list : list'[k] = IF k = i THEN list[j] ELSE IF k = j THEN list[i] ELSE list[k]
  BY <1>1, <1>2
<1>4. \A q : q \in Listed' => q \in Listed
  BY <1>2, <1>3 DEF Listed
<1>5. ASSUME NEW k \in DOMAIN list PROVE \E m \in DOMAIN list : list'[m] = list[k]
  <2>1. CASE k = i
    BY <1>2, <1>3, <2>1
  <2>2. CASE k = j
    BY <1>2, <1>3, <2>2
  <2>3. CASE k # i /\ k # j
    BY <1>3, <2>3
  <2> QED
    BY <2>1, <2>2, <2>3
<1> QED
  BY <1>2, <1>4, <1>5 DEF Listed

LEMMA ShopArrives == Base /\ Arrival /\ ShopStep => Arrival'
<1> SUFFICES ASSUME Base, Arrival, ShopStep PROVE Arrival'
  OBVIOUS
<1>1. ASSUME NEW p \in Product, NEW on \in BOOLEAN, Edit(p, on) PROVE Arrival'
  <2>1. Change(p, on) /\ list' = list /\ (source = "shopify" /\ p \in Listed => on)
    BY <1>1 DEF Edit
  <2>2. Listed' = Listed
    BY <2>1 DEF Listed
  <2> QED
    BY <2>1, <2>2, ChangeArrives
<1>2. ASSUME NEW p \in Product, NEW on \in BOOLEAN, Withdraw(p, on) PROVE Arrival'
  <2>1. Change(p, on)
    BY <1>2 DEF Withdraw
  <2>2. Listed' \subseteq Listed /\ (source # "custom" => p \notin Listed')
    BY <1>2, WithdrawnListed
  <2> QED
    BY <2>1, <2>2, ChangeArrives
<1>3. ASSUME NEW p \in Product, NEW on \in BOOLEAN, Publish(p, on) PROVE Arrival'
  <2>1. Change(p, on) /\ Listed' = Listed \cup {p} /\ (source = "shopify" => on)
    BY <1>3, PublishedListed DEF Publish
  <2> QED
    BY <2>1, ChangeArrives
<1>4. CASE Rearrange
  <2>1. /\ Listed' = Listed
        /\ UNCHANGED <<source, shop, offered, row, pend, job, mail, raced, lost>>
    BY <1>4, RearrangedListed DEF Rearrange, history
  <2>2. \A t \in Writer, p \in Product, v \in Version : Carries(t, p, v)' <=> Carries(t, p, v)
    BY <2>1 DEF Carries
  <2> QED
    BY <2>1, <2>2 DEF Arrival, SoundWrites, SoundHooks, ListedActive, OnItsWay, Arrived
<1> QED
  BY <1>1, <1>2, <1>3, <1>4 DEF ShopStep

LEMMA HookArrives == Base /\ Arrival /\ HookStep => Arrival'
<1> SUFFICES ASSUME Base, Arrival, HookStep, source = "shopify" PROVE Arrival'
  BY DEF HookStep, Webhook, GiveUpHook, shopVars, Arrival
<1>1. PICK m \in mail : Webhook(m) \/ GiveUpHook(m)
  BY DEF HookStep
<1>2. UNCHANGED <<source, list, shop, offered, pend, job>> /\ mail' \subseteq mail /\ mail \ {m} \subseteq mail'
  BY <1>1 DEF Webhook, GiveUpHook, shopVars
<1>3. Listed' = Listed
  BY <1>2 DEF Listed
<1>4. \A t \in Writer, p \in Product, v \in Version : Carries(t, p, v)' <=> Carries(t, p, v)
  BY <1>2 DEF Carries
<1>5. m.p \in Product /\ m.v \in Nat /\ m.on \in BOOLEAN /\ m.v \in Version
  BY DEF Base, TypeOK, Hook, Version
<1>6. \A p \in Product \ {m.p} : row'[p] = row[p] /\ lost'[p] = lost[p] /\ raced'[p] = raced[p]
  BY <1>1 DEF Webhook, GiveUpHook, Base, TypeOK
<1>7. SoundWrites'
  <2>1. \A t \in Writer, p \in Product : pend[t][p] # None => row'[p] = row[p]
    BY <1>1, <1>6 DEF Webhook, GiveUpHook
  <2> QED
    BY <1>2, <1>3, <1>4, <2>1 DEF Arrival, SoundWrites
<1>8. SoundHooks' /\ ListedActive'
  BY <1>2, <1>3 DEF Arrival, SoundHooks, ListedActive
<1>9. ASSUME NEW p \in Product
      PROVE  shop'[p] = 1 \/ lost'[p] \/ raced'[p] \/ OnItsWay(p)' \/ Arrived(p)'
  <2>1. CASE p # m.p
    <3>1. row'[p] = row[p] /\ lost'[p] = lost[p] /\ raced'[p] = raced[p]
      BY <1>6, <2>1
    <3>2. OnItsWay(p) => OnItsWay(p)'
      BY <1>2, <2>1 DEF OnItsWay
    <3>3. Arrived(p) => Arrived(p)'
      BY <1>2, <1>3, <1>4, <3>1 DEF Arrived
    <3> QED
      BY <1>2, <3>1, <3>2, <3>3 DEF Arrival
  <2>2. CASE p = m.p /\ GiveUpHook(m)
    BY <2>2 DEF GiveUpHook, Base, TypeOK
  <2>3. CASE p = m.p /\ Webhook(m)
    <3>1. /\ row'[p] = [v |-> m.v, on |-> m.on] /\ lost' = lost
          /\ raced'[p] = \/ raced[p]
                         \/ \E t \in Writer : \E v \in UnderWay(t, p) : v < m.v
                         \/ \E n \in mail : n.p = p /\ n.v < m.v
      BY <2>3 DEF Webhook, Base, TypeOK
    <3>2. m.v <= shop[p] /\ shop[p] \in Nat /\ (m.v = shop[p] => m.on = offered[p])
      BY <2>3 DEF Arrival, SoundHooks, Base, TypeOK, Version
    <3>3. CASE m.v < shop[p]
      <4>1. ~Arrived(p)
        BY <1>5, <2>3, <3>2, <3>3 DEF Arrived
      <4>2. OnItsWay(p) => OnItsWay(p)'
        BY <1>2, <1>5, <3>2, <3>3 DEF OnItsWay
      <4> QED
        BY <1>2, <3>1, <4>1, <4>2 DEF Arrival
    <3>4. CASE m.v = shop[p] /\ ~raced'[p]
      <4>1. row'[p] = [v |-> shop'[p], on |-> offered'[p]]
        BY <1>2, <1>3, <3>1, <3>2, <3>4
      <4>2. ASSUME NEW t \in Writer, NEW v \in Version, Carries(t, p, v), job[t].step # "insert"
            PROVE  v = shop[p]
        <5>1. pend[t][p] = None
          BY <2>3 DEF Webhook
        <5>2. PICK it \in job[t].todo : it.p = p /\ it.v = v
          BY <4>2, <5>1 DEF Carries
        <5>3. job[t].step = "upsert"
          BY <4>2, <5>2 DEF Arrival, SoundWrites
        <5>4. v \in UnderWay(t, p)
          BY <5>2, <5>3 DEF UnderWay
        <5>5. v \in Nat /\ v <= shop[p] /\ ~(v < m.v)
          BY <3>1, <3>4, <4>2, <5>4 DEF Arrival, SoundWrites, Version
        <5> QED
          BY <3>2, <3>4, <5>5
      <4>3. ASSUME NEW n \in mail, n.p = p PROVE n.v = shop[p]
        <5>1. n.v \in Nat /\ n.v <= shop[p] /\ ~(n.v < m.v)
          BY <3>1, <3>4, <4>3 DEF Arrival, SoundHooks, Base, TypeOK, Hook, Version
        <5> QED
          BY <3>2, <3>4, <5>1
      <4> QED
        BY <1>2, <1>4, <4>1, <4>2, <4>3 DEF Arrived
    <3> QED
      BY <1>5, <3>2, <3>3, <3>4
  <2> QED
    BY <1>1, <2>1, <2>2, <2>3
<1> QED
  BY <1>7, <1>8, <1>9 DEF Arrival

\* A writer carries on with what it had, reads the newest, or inserts.
LEMMA WriterArrives ==
  ASSUME Base, Arrival, NEW t \in Writer,
         UNCHANGED <<source, list, shop, offered, mail, raced, lost>>,
         \A u \in Writer \ {t} : job'[u] = job[u] /\ pend'[u] = pend[u],
         \A p \in Product, v \in Version : Carries(t, p, v)' =>
           \/ Carries(t, p, v) /\ job'[t].step = job[t].step
           \/ v = shop[p] /\ offered[p]
           \/ v = 0 /\ job'[t].step = "insert",
         \A p \in Product : pend'[t][p] # None =>
           /\ job'[t].step # "insert" => pend'[t][p].on
           /\ job'[t].step = "insert" => row'[p] = None,
         job'[t].step = "upsert" => \A it \in job'[t].todo : it.on,
         job'[t].step \notin {"upsert", "insert"} => job'[t].todo = {},
         \A p \in Product : row'[p] = row[p] \/ (pend[t][p] # None /\ row'[p] = pend[t][p])
  PROVE  Arrival'
<1> SUFFICES ASSUME source = "shopify" PROVE Arrival'
  BY DEF Arrival
<1>1. Listed' = Listed /\ \A p \in Product : OnItsWay(p)' <=> OnItsWay(p)
  BY DEF Listed, OnItsWay
<1>2. \A u \in Writer \ {t}, p \in Product, v \in Version : Carries(u, p, v)' <=> Carries(u, p, v)
  BY DEF Carries
<1>3. \A p \in Product : shop[p] \in Nat /\ shop[p] >= 1
  BY DEF Base, TypeOK, Numbered, Version
<1>4. SoundWrites'
  <2>1. ASSUME NEW u \in Writer, NEW p \in Product, NEW v \in Version, Carries(u, p, v)'
        PROVE  v <= shop[p] /\ (v = shop[p] => offered[p])
    BY <1>2, <1>3, <2>1 DEF Arrival, SoundWrites
  <2>2. ASSUME NEW u \in Writer, NEW p \in Product, pend'[u][p] # None
        PROVE  /\ job'[u].step # "insert" => pend'[u][p].on
               /\ job'[u].step = "insert" => row'[p] = None
    <3>1. CASE u = t
      BY <2>2, <3>1
    <3>2. CASE u # t
      <4>1. pend[u][p] # None /\ pend[t][p] = None
        BY <2>2, <3>2 DEF Base, OneWriter
      <4> QED
        BY <3>2, <4>1 DEF Arrival, SoundWrites
    <3> QED
      BY <3>1, <3>2
  <2>3. /\ \A u \in Writer : job'[u].step \notin {"upsert", "insert"} => job'[u].todo = {}
        /\ \A u \in Writer : job'[u].step = "upsert" => \A it \in job'[u].todo : it.on
    BY DEF Arrival, SoundWrites
  <2> QED
    BY <1>1, <2>1, <2>2, <2>3 DEF SoundWrites
<1>5. SoundHooks' /\ ListedActive'
  BY <1>1 DEF Arrival, SoundHooks, ListedActive
<1>6. ASSUME NEW p \in Product, Arrived(p) PROVE Arrived(p)'
  <2>1. row'[p] = row[p]
    <3>1. SUFFICES ASSUME pend[t][p] # None, row'[p] = pend[t][p] PROVE row'[p] = row[p]
      OBVIOUS
    <3>2. pend[t][p] \in Row
      BY <3>1 DEF Base, TypeOK
    <3>3. pend[t][p] = [v |-> pend[t][p].v, on |-> pend[t][p].on] /\ pend[t][p].v \in Version
      BY <3>2 DEF Row
    <3>4. Carries(t, p, pend[t][p].v)
      BY <3>1 DEF Carries
    <3>5. job[t].step # "insert"
      <4>1. row[p] # None
        <5>1. offered[p] \in BOOLEAN
          BY DEF Base, TypeOK
        <5>2. \A b \in BOOLEAN : [v |-> shop[p], on |-> b] \in Row
          BY DEF Base, TypeOK, Row
        <5> QED
          BY <1>6, <5>1, <5>2, Bounds DEF Arrived
      <4> QED
        BY <3>1, <4>1 DEF Arrival, SoundWrites
    <3>6. pend[t][p].v = shop[p] /\ offered[p]
      BY <1>6, <3>3, <3>4, <3>5 DEF Arrived, Arrival, SoundWrites
    <3>7. pend[t][p].on = offered[p]
      BY <3>1, <3>2, <3>5, <3>6 DEF Arrival, SoundWrites, Row, Base, TypeOK
    <3> QED
      BY <1>6, <3>1, <3>3, <3>6, <3>7 DEF Arrived
  <2>2. ASSUME NEW u \in Writer, NEW v \in Version, Carries(u, p, v)', job'[u].step # "insert"
        PROVE  v = shop[p]
    BY <1>2, <1>6, <2>2 DEF Arrived
  <2> QED
    BY <1>1, <1>6, <2>1, <2>2 DEF Arrived
<1> QED
  BY <1>1, <1>4, <1>5, <1>6 DEF Arrival

LEMMA StartArrives ==
  ASSUME Base, Arrival, NEW t \in Writer, StartSync(t) \/ StartBulk(t)
  PROVE  Arrival'
<1>1. /\ UNCHANGED <<source, list, shop, offered, mail, raced, lost, row, pend>>
      /\ \A u \in Writer \ {t} : job'[u] = job[u]
      /\ \A p \in Product : pend[t][p] = None
  BY DEF StartSync, StartBulk, shopVars, history, Base, TypeOK
<1>2. CASE StartSync(t)
  <2>1. job'[t].todo = job[t].todo
    BY <1>2 DEF StartSync, Base, TypeOK
  <2>2. source = "shopify" => job[t].todo = {}
    BY <1>2 DEF StartSync, Arrival, SoundWrites
  <2>3. source # "shopify" => Arrival'
    BY <1>1 DEF Arrival
  <2>4. \A p \in Product, v \in Version : source = "shopify" => ~Carries(t, p, v)'
    BY <1>1, <2>1, <2>2 DEF Carries
  <2> QED
    BY <1>1, <2>1, <2>2, <2>3, <2>4, WriterArrives
<1>3. CASE StartBulk(t)
  <2>1. job'[t].step = "insert" /\ \A it \in job'[t].todo : it.v = 0
    <3>1. PICK p \in Product, q \in Product, on \in BOOLEAN :
            job' = [job EXCEPT ![t].step = "insert",
                    ![t].todo = {[at |-> 1, p |-> p, v |-> 0, on |-> on]}
                                \cup IF p = q THEN {} ELSE {[at |-> 2, p |-> q, v |-> 0, on |-> TRUE]}]
      BY <1>3 DEF StartBulk
    <3> DEFINE todo == {[at |-> 1, p |-> p, v |-> 0, on |-> on]}
                       \cup IF p = q THEN {} ELSE {[at |-> 2, p |-> q, v |-> 0, on |-> TRUE]}
    <3>2. \A it \in todo : it.v = 0
      OBVIOUS
    <3>3. job[t] \in Job /\ job \in [Writer -> Job]
      BY DEF Base, TypeOK
    <3> HIDE DEF todo
    <3>4. job'[t].step = "insert" /\ job'[t].todo = todo
      BY <3>1, <3>3 DEF todo, Job
    <3> QED
      BY <3>2, <3>4
  <2>2. \A p \in Product, v \in Version : Carries(t, p, v)' => v = 0
    BY <1>1, <2>1 DEF Carries
  <2> QED
    BY <1>1, <2>1, <2>2, WriterArrives
<1> QED
  BY <1>2, <1>3

LEMMA FetchArrives ==
  ASSUME Base, Arrival, NEW t \in Writer, Fetch(t)
  PROVE  Arrival'
<1>1. /\ UNCHANGED <<source, list, shop, offered, mail, raced, lost, row, pend>>
      /\ \A u \in Writer \ {t} : job'[u] = job[u]
      /\ \A p \in Product : pend[t][p] = None
  BY DEF Fetch, shopVars, history, Base, TypeOK
<1> DEFINE items == Normalised(Page(job[t].page))
<1>2. \A it \in items : it.v = shop[it.p] /\ it.p \in Listed /\ (source = "shopify" => it.on)
  <2>1. \A it \in items : it.v = shop[it.p] /\ it.p \in Listed /\ it.on = Available(it.p)
    BY DEF Normalised, Page, Listed
  <2>2. source = "shopify" => \A p : Available(p)
    BY DEF Available
  <2> QED
    BY <2>1, <2>2
<1>3. job'[t].todo \subseteq items /\ (job'[t].todo = {} \/ job'[t].step = "upsert")
  <2>1. job[t] \in Job
    BY DEF Base, TypeOK
  <2> QED
    BY <2>1 DEF Fetch, Base, TypeOK, AfterPage, Job
<1>4. \A p \in Product, v \in Version : Carries(t, p, v)' => v = shop[p] /\ p \in Listed
  <2> HIDE DEF items
  <2> QED
    BY <1>1, <1>2, <1>3 DEF Carries
<1>5. source # "shopify" => Arrival'
  BY <1>1 DEF Arrival
<1> HIDE DEF items
<1>6. source = "shopify" => \A p \in Product, v \in Version : Carries(t, p, v)' => v = shop[p] /\ offered[p]
  BY <1>4 DEF Arrival, ListedActive
<1> QED
  BY <1>1, <1>2, <1>3, <1>5, <1>6, WriterArrives

LEMMA StatementArrives ==
  ASSUME Base, Arrival, NEW t \in Writer, Upsert(t) \/ Insert(t)
  PROVE  Arrival'
<1>1. PICK it \in job[t].todo :
        /\ pend' = [pend EXCEPT ![t][it.p] = [v |-> it.v, on |-> it.on]]
        /\ job' = [job EXCEPT ![t].todo = @ \ {it}]
        /\ job[t].step = "insert" => row[it.p] = None
  BY DEF Upsert, Insert
<1>2. UNCHANGED <<source, list, shop, offered, mail, raced, lost, row>> /\ job[t].step \in {"upsert", "insert"}
  BY DEF Upsert, Insert, shopVars, history
<1>3. it.p \in Product /\ it.v \in Version
  BY DEF Base, TypeOK, Job, Item
<1>4. job'[t].step = job[t].step /\ job'[t].todo = job[t].todo \ {it}
  BY <1>1 DEF Base, TypeOK
<1>5. /\ \A u \in Writer \ {t} : job'[u] = job[u] /\ pend'[u] = pend[u]
      /\ \A p \in Product \ {it.p} : pend'[t][p] = pend[t][p]
      /\ pend'[t][it.p] = [v |-> it.v, on |-> it.on]
  BY <1>1, <1>3 DEF Base, TypeOK
<1>6. ASSUME NEW p \in Product, NEW v \in Version, Carries(t, p, v)'
      PROVE  Carries(t, p, v)
  <2>1. CASE p = it.p
    BY <1>4, <1>5, <1>6, <2>1 DEF Carries
  <2>2. CASE p # it.p
    BY <1>4, <1>5, <1>6, <2>2 DEF Carries
  <2> QED
    BY <2>1, <2>2
<1>7. source # "shopify" => Arrival'
  BY <1>2 DEF Arrival
<1>8. ASSUME source = "shopify", NEW p \in Product, pend'[t][p] # None
      PROVE  /\ job'[t].step # "insert" => pend'[t][p].on
             /\ job'[t].step = "insert" => row'[p] = None
  <2>1. CASE p = it.p
    BY <1>1, <1>2, <1>4, <1>5, <1>8, <2>1 DEF Arrival, SoundWrites
  <2>2. CASE p # it.p
    BY <1>2, <1>4, <1>5, <1>8, <2>2 DEF Arrival, SoundWrites
  <2> QED
    BY <2>1, <2>2
<1>9. source = "shopify" => (job'[t].step = "upsert" => \A i \in job'[t].todo : i.on)
  BY <1>4 DEF Arrival, SoundWrites
<1> QED
  BY <1>2, <1>4, <1>5, <1>6, <1>7, <1>8, <1>9, WriterArrives

\* A writer that starts over, or ends, carries nothing.
LEMMA EmptyHandedArrives ==
  ASSUME Base, Arrival, NEW t \in Writer,
         UNCHANGED <<source, list, shop, offered, mail, raced, lost>>,
         \A u \in Writer \ {t} : job'[u] = job[u],
         \A u \in Writer \ {t} : pend'[u] = pend[u],
         \A p \in Product : pend'[t][p] = None, job'[t].todo = {},
         \A p \in Product : row'[p] = row[p] \/ (pend[t][p] # None /\ row'[p] = pend[t][p])
  PROVE  Arrival'
<1>1. \A p \in Product, v \in Version : ~Carries(t, p, v)'
  BY DEF Carries
<1> QED
  BY <1>1, WriterArrives

LEMMA RestartArrives ==
  ASSUME Base, Arrival, NEW t \in Writer, RaiseIn(t) \/ Lost(t)
  PROVE  Arrival'
<1>1. UNCHANGED <<source, list, shop, offered, mail, raced, lost, row>>
  BY DEF RaiseIn, Lost, shopVars, history
<1>2. /\ \A u \in Writer \ {t} : pend'[u] = pend[u]
      /\ \A p \in Product : pend'[t][p] = None
  BY DEF RaiseIn, Lost, NoWrites, Base, TypeOK
<1>3. job'[t].todo = {} /\ \A u \in Writer \ {t} : job'[u] = job[u]
  <2>1. job \in [Writer -> Job]
    BY DEF Base, TypeOK
  <2>2. CASE RaiseIn(t)
    BY <2>1, <2>2 DEF RaiseIn, Idle
  <2>3. CASE Lost(t)
    BY <2>1, <2>3 DEF Lost, Idle
  <2> QED
    BY <2>2, <2>3
<1> QED
  BY <1>1, <1>2, <1>3, EmptyHandedArrives

LEMMA CommitArrives ==
  ASSUME Base, Arrival, NEW t \in Writer, Commit(t)
  PROVE  Arrival'
<1>1. UNCHANGED <<source, list, shop, offered, mail, raced, lost>>
  BY DEF Commit, shopVars, history
<1>2. /\ \A u \in Writer \ {t} : pend'[u] = pend[u]
      /\ \A p \in Product : pend'[t][p] = None
  BY DEF Commit, NoWrites, Base, TypeOK
<1>3. job'[t].todo = {} /\ \A u \in Writer \ {t} : job'[u] = job[u]
  <2>1. job[t] \in Job
    BY DEF Base, TypeOK
  <2> QED
    BY <2>1 DEF Commit, Base, TypeOK, AfterPage, Job
<1>4. \A p \in Product : row'[p] = row[p] \/ (pend[t][p] # None /\ row'[p] = pend[t][p])
  BY DEF Commit
<1> QED
  BY <1>1, <1>2, <1>3, <1>4, EmptyHandedArrives

LEMMA SkipAdminArrives ==
  ASSUME Base, Arrival, NEW t \in Writer, SkipAdmin(t)
  PROVE  Arrival'
<1>1. UNCHANGED <<source, list, shop, offered, mail, raced, lost, row, pend>>
  BY DEF SkipAdmin, shopVars, history
<1>2. \A p \in Product : pend[t][p] = None
  BY DEF SkipAdmin, Base, TypeOK
<1>3. job'[t].todo = job[t].todo /\ \A u \in Writer \ {t} : job'[u] = job[u]
  BY DEF SkipAdmin, Base, TypeOK
<1>4. source = "shopify" => job[t].todo = {}
  BY DEF SkipAdmin, Arrival, SoundWrites
<1>5. source # "shopify" => Arrival'
  BY <1>1 DEF Arrival
<1> QED
  BY <1>1, <1>2, <1>3, <1>4, <1>5, EmptyHandedArrives

LEMMA ArrivalStep == Base /\ Arrival /\ [Next]_vars => Arrival'
<1> SUFFICES ASSUME Base, Arrival, [Next]_vars PROVE Arrival'
  OBVIOUS
<1>1. CASE ShopStep \/ HookStep
  BY <1>1, ShopArrives, HookArrives
<1>2. ASSUME NEW t \in Writer,
             StartSync(t) \/ StartBulk(t) \/ Progress(t) \/ Lost(t) \/ Disconnect(t)
      PROVE  Arrival'
  <2>1. CASE StartSync(t) \/ StartBulk(t) \/ Fetch(t) \/ Upsert(t) \/ Insert(t) \/ Commit(t)
             \/ SkipAdmin(t)
    BY <2>1, StartArrives, FetchArrives, StatementArrives, CommitArrives, SkipAdminArrives
  <2>2. CASE RaiseIn(t) \/ Lost(t)
    BY <2>2, RestartArrives
  <2> QED
    BY <1>2, <2>1, <2>2
       DEF Progress, Disconnect, FetchRaises, UpsertRaises, InsertRaises, AdminRaises, DeadlockVictim
<1>3. CASE UNCHANGED vars
  <2>1. UNCHANGED <<source, list, shop, offered, row, pend, job, mail, raced, lost>>
    BY <1>3 DEF vars, shopVars, history
  <2>2. \A t \in Writer, p \in Product, v \in Version : Carries(t, p, v)' <=> Carries(t, p, v)
    BY <2>1 DEF Carries
  <2>3. Listed' = Listed
    BY <2>1 DEF Listed
  <2> QED
    BY <2>1, <2>2, <2>3 DEF Arrival, SoundWrites, SoundHooks, ListedActive, OnItsWay, Arrived
<1> QED
  BY <1>1, <1>2, <1>3 DEF Next

\* When all is quiet the last change of every product is in its row, unless
\* its webhook was lost or met an older write under way.
THEOREM LastChangeArrives == Spec => []ChangesArrive
<1>1. Init => Base /\ Arrival
  BY BaseInit, ArrivalInit
<1>2. Base /\ Arrival /\ [Next]_vars => Base' /\ Arrival'
  BY BaseStep, ArrivalStep
<1>3. Base /\ Arrival => ChangesArrive
  BY DEF Arrival, ChangesArrive, Quiet, OnItsWay, Arrived
<1> QED
  BY <1>1, <1>2, <1>3, PTL DEF Spec

(***************************************************************************)
(* A calm sync is complete                                                 *)
(***************************************************************************)
Stored(p) == row[p] = [v |-> shop[p], on |-> Available(p)]

\* Place i is a good item's, and that item is stored.
GoodAt(i) == Valid(list[i], shop[list[i]])
EarlierStored(t) ==
  \A i \in DOMAIN list : i <= (job[t].page - 1) * PageSize /\ GoodAt(i) => Stored(list[i])

\* The page t has read is written or still to write, as the shop has it.
PageRead(t) ==
  /\ job[t].last = LastPage(job[t].page)
  /\ \A i \in Page(job[t].page) : GoodAt(i) =>
       \/ pend[t][list[i]] = [v |-> shop[list[i]], on |-> Available(list[i])]
       \/ [at |-> i, p |-> list[i], v |-> shop[list[i]], on |-> Available(list[i])] \in job[t].todo
  /\ \A p \in Product : pend[t][p] # None => pend[t][p] = [v |-> shop[p], on |-> Available(p)]
  /\ \A it \in job[t].todo : it.v = shop[it.p] /\ it.on = Available(it.p)

ReachedStored == \A p \in Reached : Valid(p, shop[p]) => Stored(p)

\* How far a sync has come.
SoFar(t) ==
  source # "unset" =>
    /\ job[t].step \in {"fetch", "upsert"} => EarlierStored(t)
    /\ job[t].step = "upsert" => PageRead(t)
    /\ job[t].step \in {"admin", "done"} => ReachedStored

Undisturbed(t) ==
  calm[t] =>
    /\ \A u \in Writer \ {t} : ~Busy(u)
    /\ job[t].step \notin {"idle", "insert"}
    /\ SoFar(t)

CalmRuns ==
  /\ \A t \in Writer : job[t].step = "idle" => job[t].page = 1
  /\ \A t \in Writer : Undisturbed(t)

LEMMA CalmInit == Init => CalmRuns
<1> SUFFICES ASSUME Init PROVE CalmRuns
  OBVIOUS
<1>1. \A t \in Writer : job[t].page = 1 /\ ~calm[t]
  BY DEF Init, Idle
<1> QED
  BY <1>1 DEF CalmRuns, Undisturbed

\* While a writer is busy nobody else is on a calm run.
LEMMA BusyWriter ==
  ASSUME CalmRuns, NEW t \in Writer, Busy(t), \A u \in Writer \ {t} : calm'[u] => calm[u],
         \A u \in Writer \ {t} : job'[u] = job[u],
         job'[t].step # "idle", Undisturbed(t)'
  PROVE  CalmRuns'
<1>1. \A u \in Writer \ {t} : ~calm'[u]
  BY DEF CalmRuns, Undisturbed
<1>2. \A u \in Writer : Undisturbed(u)'
  BY <1>1 DEF Undisturbed
<1>3. \A u \in Writer : job'[u].step = "idle" => job'[u].page = 1
  BY DEF CalmRuns
<1> QED
  BY <1>2, <1>3 DEF CalmRuns

\* Whoever writes from outside ends every calm run.
LEMMA Disturbed ==
  ASSUME Base, CalmRuns, Disturb({}),
         \A t \in Writer : job'[t].step = "idle" => job'[t] = job[t]
  PROVE  CalmRuns'
BY DEF CalmRuns, Undisturbed, Disturb

LEMMA ShopCalm == Base /\ CalmRuns /\ ShopStep => CalmRuns'
<1> SUFFICES ASSUME Base, CalmRuns, ShopStep PROVE CalmRuns'
  OBVIOUS
<1>1. Disturb({}) /\ job' = job
  BY DEF ShopStep, Edit, Withdraw, Publish, Rearrange, Change
<1> QED
  BY <1>1, Disturbed

LEMMA UnchangedCalm ==
  ASSUME CalmRuns, UNCHANGED <<source, list, shop, offered, row, pend, job, calm>>
  PROVE  CalmRuns'
<1>1. /\ Reached' = Reached /\ \A p : Stored(p)' <=> Stored(p)
      /\ \A n : Page(n)' = Page(n) /\ (LastPage(n)' = LastPage(n))
      /\ \A t \in Writer : Busy(t)' <=> Busy(t)
  BY DEF Reached, Stored, Page, LastPage, Busy, Available
<1>2. ReachedStored' <=> ReachedStored
  BY <1>1 DEF ReachedStored
<1>3. \A t \in Writer : (EarlierStored(t)' <=> EarlierStored(t)) /\ (PageRead(t)' <=> PageRead(t))
  BY <1>1 DEF Available, EarlierStored, PageRead, GoodAt
<1> QED
  BY <1>1, <1>2, <1>3 DEF CalmRuns, Undisturbed, SoFar

LEMMA HookCalm == Base /\ CalmRuns /\ HookStep => CalmRuns'
<1> SUFFICES ASSUME Base, CalmRuns, HookStep PROVE CalmRuns'
  OBVIOUS
<1>1. PICK m \in mail : Webhook(m) \/ GiveUpHook(m)
  BY DEF HookStep
<1>2. CASE Webhook(m)
  BY <1>2, Disturbed DEF Webhook
<1>3. CASE GiveUpHook(m)
  BY <1>3, UnchangedCalm DEF GiveUpHook, shopVars
<1> QED
  BY <1>1, <1>2, <1>3

\* Nothing is stored before the first page.
LEMMA FirstPage ==
  ASSUME Base, NEW t \in Writer, job[t].page = 1
  PROVE  EarlierStored(t)
BY Bounds DEF EarlierStored, Base, TypeOK

\* A page is the places between the pages before it and the next.
LEMMA Pages ==
  ASSUME Base, NEW n \in 1 .. MaxPages, NEW i \in DOMAIN list
  PROVE  /\ LastPage(n) /\ (source = "custom" \/ i <= PageSize * MaxPages) =>
              i <= (n - 1) * PageSize \/ i \in Page(n)
         /\ ~LastPage(n) /\ i <= (n + 1 - 1) * PageSize =>
              i <= (n - 1) * PageSize \/ i \in Page(n)
<1>1. i \in Nat /\ i <= Len(list) /\ Len(list) \in Nat /\ n \in Nat
  BY DEF Base, TypeOK
<1>2. PageSize * MaxPages = MaxPages * PageSize /\ n + 1 - 1 = n
  BY <1>1, Bounds
<1>3. /\ n * PageSize \in Nat /\ (n - 1) * PageSize \in Nat /\ MaxPages * PageSize \in Nat
  BY <1>1, Bounds
<1>4. i \in Page(n) <=> source = "custom" \/ ((n - 1) * PageSize < i /\ i <= n * PageSize)
  BY DEF Page
<1>5. LastPage(n) <=> source = "custom" \/ Len(list) < n * PageSize \/ n = MaxPages
  BY DEF LastPage
<1> QED
  BY <1>1, <1>2, <1>3, <1>4, <1>5

\* With its page stored a sync has come one page further.
LEMMA PageStored ==
  ASSUME Base, NEW t \in Writer, UNCHANGED <<source, list, shop, offered>>,
         job'[t] = AfterPage(job[t], LastPage(job[t].page)),
         \A i \in DOMAIN list :
           (i <= (job[t].page - 1) * PageSize \/ i \in Page(job[t].page)) /\ GoodAt(i)
             => Stored(list[i])'
  PROVE  SoFar(t)'
<1> DEFINE n == job[t].page
<1>1. job[t] \in Job /\ n \in 1 .. MaxPages
  BY DEF Base, TypeOK, Job
<1>2. CASE LastPage(n)
  <2>1. job'[t].step \in {"admin", "done"}
    BY <1>1, <1>2 DEF AfterPage, Job
  <2>2. ASSUME NEW p \in Reached', Valid(p, shop[p]) PROVE Stored(p)'
    <3>1. PICK i \in DOMAIN list : p = list[i] /\ (source = "custom" \/ i <= PageSize * MaxPages)
      BY DEF Reached
    <3>2. i <= (n - 1) * PageSize \/ i \in Page(n)
      BY <1>1, <1>2, <3>1, Pages
    <3> QED
      BY <2>2, <3>1, <3>2 DEF GoodAt
  <2> QED
    BY <2>1, <2>2 DEF SoFar, ReachedStored
<1>3. CASE ~LastPage(n)
  <2>1. job'[t].step = "fetch" /\ job'[t].page = n + 1
    BY <1>1, <1>3 DEF AfterPage, Job
  <2>2. ASSUME NEW i \in DOMAIN list, i <= (job'[t].page - 1) * PageSize, GoodAt(i)
        PROVE  Stored(list[i])'
    BY <1>1, <1>3, <2>1, <2>2, Pages
  <2>3. EarlierStored(t)'
    <3>1. DOMAIN list' = DOMAIN list
      OBVIOUS
    <3>2. \A i \in DOMAIN list : GoodAt(i)' => GoodAt(i)
      BY DEF GoodAt
    <3> QED
      BY <2>2, <3>1, <3>2 DEF EarlierStored
  <2> QED
    BY <2>1, <2>3 DEF SoFar
<1> QED
  BY <1>2, <1>3

LEMMA FetchCalm ==
  ASSUME Base, CalmRuns, NEW t \in Writer, Fetch(t)
  PROVE  CalmRuns'
<1>1. job[t] \in Job /\ job \in [Writer -> Job]
  BY DEF Base, TypeOK
<1>0. PICK n \in 1 .. MaxPages : n = job[t].page
  BY <1>1 DEF Job
<1> DEFINE items == Normalised(Page(n))
<1>2. /\ UNCHANGED <<source, list, shop, offered, row, pend, calm>> /\ Busy(t)
      /\ \A u \in Writer \ {t} : job'[u] = job[u]
  BY <1>1 DEF Fetch, shopVars, history, Busy
<1>3. ASSUME calm[t], source # "unset" PROVE SoFar(t)'
  <2>1. EarlierStored(t)
    BY <1>3 DEF Fetch, CalmRuns, Undisturbed, SoFar
  <2>2. \A i \in Page(n) : GoodAt(i) => [at |-> i, p |-> list[i], v |-> shop[list[i]], on |-> Available(list[i])] \in items
    BY DEF Normalised, GoodAt
  <2>3. CASE items = {}
    <3>1. job'[t] = AfterPage(job[t], LastPage(n))
      BY <1>0, <1>1, <2>3 DEF Fetch
    <3>2. \A p : Stored(p)' <=> Stored(p)
      BY <1>2 DEF Stored, Available
    <3> QED
      BY <1>2, <1>0, <2>1, <2>2, <2>3, <3>1, <3>2, PageStored DEF EarlierStored
  <2>4. CASE items # {}
    <3>1. job'[t] = [job[t] EXCEPT !.step = "upsert", !.last = LastPage(n), !.todo = items]
      BY <1>0, <1>1, <2>4 DEF Fetch
    <3>2. /\ job'[t].step = "upsert" /\ job'[t].page = n
          /\ job'[t].last = LastPage(n) /\ job'[t].todo = items
      <4> HIDE DEF items
      <4> QED
        BY <1>0, <1>1, <3>1 DEF Job
    <3>3. Page(n)' = Page(n) /\ LastPage(n)' = LastPage(n)
      BY <1>2 DEF Page, LastPage
    <3>4. EarlierStored(t)'
      BY <1>0, <1>2, <2>1, <3>2 DEF EarlierStored, Stored, GoodAt, Available
    <3>5. \A it \in items : it.v = shop[it.p] /\ it.on = Available(it.p)
      BY DEF Normalised
    <3>6. \A p \in Product : pend[t][p] = None
      BY DEF Fetch, Base, TypeOK
    <3>7. PageRead(t)'
      <4> HIDE DEF items
      <4>1. job'[t].last = LastPage(job[t].page)'
        BY <3>2, <3>3
      <4> QED
        BY <1>2, <2>2, <3>2, <3>3, <3>5, <3>6, <4>1 DEF PageRead, GoodAt, Page, Available
    <3> QED
      BY <3>2, <3>4, <3>7 DEF SoFar
  <2> QED
    BY <2>3, <2>4
<1>4. job'[t].step \notin {"idle", "insert"}
  <2> HIDE DEF items
  <2> QED
    BY <1>1 DEF Fetch, AfterPage, Job
<1>5. Undisturbed(t)'
  <2>1. source = "unset" => SoFar(t)'
    BY <1>2 DEF SoFar
  <2> QED
    BY <1>2, <1>3, <1>4, <2>1 DEF CalmRuns, Undisturbed, Busy
<1> QED
  BY <1>2, <1>4, <1>5, BusyWriter

LEMMA UpsertCalm ==
  ASSUME Base, CalmRuns, NEW t \in Writer, Upsert(t)
  PROVE  CalmRuns'
<1>1. PICK it \in job[t].todo :
        /\ pend[t][it.p] = None
        /\ pend' = [pend EXCEPT ![t][it.p] = [v |-> it.v, on |-> it.on]]
        /\ job' = [job EXCEPT ![t].todo = @ \ {it}]
  BY DEF Upsert
<1>2. job[t] \in Job /\ job \in [Writer -> Job] /\ it \in Item
  BY DEF Base, TypeOK, Job
<1>3. /\ UNCHANGED <<source, list, shop, offered, row, calm>> /\ Busy(t)
      /\ \A u \in Writer \ {t} : job'[u] = job[u]
  BY <1>1, <1>2 DEF Upsert, shopVars, history, Busy
<1>4. /\ job'[t].step = "upsert" /\ job'[t].todo = job[t].todo \ {it}
      /\ job'[t].page = job[t].page /\ job'[t].last = job[t].last
  BY <1>1, <1>2 DEF Upsert, Job
<1>5. /\ pend'[t][it.p] = [v |-> it.v, on |-> it.on]
      /\ \A p \in Product \ {it.p} : pend'[t][p] = pend[t][p]
  BY <1>1, <1>2 DEF Base, TypeOK, Item
<1>6. ASSUME calm[t], source # "unset" PROVE SoFar(t)'
  <2>1. EarlierStored(t) /\ PageRead(t)
    BY <1>6 DEF Upsert, CalmRuns, Undisturbed, SoFar
  <2>2. EarlierStored(t)'
    BY <1>3, <1>4, <2>1 DEF EarlierStored, Stored, GoodAt, Available
  <2>3. \A n : Page(n)' = Page(n) /\ LastPage(n)' = LastPage(n)
    BY <1>3 DEF Page, LastPage
  <2>4. pend'[t][it.p] = [v |-> shop[it.p], on |-> Available(it.p)]
    BY <1>5, <2>1 DEF PageRead
  <2>5. ASSUME NEW i \in Page(job[t].page), GoodAt(i)
        PROVE  \/ pend'[t][list[i]] = [v |-> shop[list[i]], on |-> Available(list[i])]
               \/ [at |-> i, p |-> list[i], v |-> shop[list[i]], on |-> Available(list[i])] \in job[t].todo \ {it}
    <3>1. list[i] \in Product
      BY DEF Page, Base, TypeOK
    <3>2. CASE list[i] = it.p
      BY <2>4, <3>2
    <3>3. CASE list[i] # it.p
      BY <1>5, <2>1, <2>5, <3>1, <3>3 DEF PageRead
    <3> QED
      BY <3>2, <3>3
  <2>6. \A p \in Product : pend'[t][p] # None => pend'[t][p] = [v |-> shop[p], on |-> Available(p)]
    BY <1>5, <2>1, <2>4 DEF PageRead
  <2>7. PageRead(t)'
    <3>1. job'[t].last = LastPage(job[t].page)'
      BY <1>4, <2>1, <2>3 DEF PageRead
    <3>2. \A i \in Page(job[t].page)' : i \in Page(job[t].page)
      BY <1>4, <2>3
    <3> QED
      BY <1>3, <1>4, <2>1, <2>5, <2>6, <3>1, <3>2 DEF PageRead, GoodAt, Available
  <2> QED
    BY <1>4, <2>2, <2>7 DEF SoFar
<1>7. Undisturbed(t)'
  <2>1. source = "unset" => SoFar(t)'
    BY <1>3 DEF SoFar
  <2> QED
    BY <1>3, <1>4, <1>6, <2>1 DEF CalmRuns, Undisturbed, Busy
<1> QED
  BY <1>3, <1>4, <1>7, BusyWriter

LEMMA CommitCalm ==
  ASSUME Base, CalmRuns, NEW t \in Writer, Commit(t)
  PROVE  CalmRuns'
<1>1. job[t] \in Job /\ job \in [Writer -> Job] /\ calm \in [Writer -> BOOLEAN]
  BY DEF Base, TypeOK
<1>3. /\ UNCHANGED <<source, list, shop, offered>> /\ Busy(t)
      /\ \A u \in Writer \ {t} : job'[u] = job[u]
      /\ \A u \in Writer : calm'[u] => calm[u]
  BY <1>1 DEF Commit, Disturb, shopVars, Busy
<1>4. job'[t].step \notin {"idle", "insert"}
  BY <1>1 DEF Commit, AfterPage, Job
<1>5. ASSUME calm[t], source # "unset" PROVE SoFar(t)'
  <2>1. job[t].step = "upsert" /\ job[t].todo = {}
    BY <1>5 DEF Commit, CalmRuns, Undisturbed
  <2>2. EarlierStored(t) /\ PageRead(t)
    BY <1>5, <2>1 DEF CalmRuns, Undisturbed, SoFar
  <2>3. job'[t] = AfterPage(job[t], LastPage(job[t].page))
    BY <1>1, <2>1, <2>2 DEF Commit, PageRead
  <2>4. \A p \in Product : row'[p] = IF pend[t][p] = None THEN row[p] ELSE pend[t][p]
    BY DEF Commit
  <2>5. ASSUME NEW p \in Product, Stored(p) PROVE Stored(p)'
    BY <1>3, <2>2, <2>4, <2>5 DEF Stored, PageRead, Available
  <2>6. ASSUME NEW i \in DOMAIN list, i <= (job[t].page - 1) * PageSize \/ i \in Page(job[t].page), GoodAt(i)
        PROVE  Stored(list[i])'
    <3>1. list[i] \in Product
      BY DEF Base, TypeOK
    <3>2. CASE i <= (job[t].page - 1) * PageSize
      <4>1. Stored(list[i])
        BY <2>2, <2>6, <3>2 DEF EarlierStored
      <4> QED
        BY <1>3, <2>5, <3>1, <4>1
    <3>3. CASE i \in Page(job[t].page)
      <4>1. pend[t][list[i]] = [v |-> shop[list[i]], on |-> Available(list[i])]
        BY <2>1, <2>2, <2>6, <3>3 DEF PageRead
      <4>2. [v |-> shop[list[i]], on |-> Available(list[i])] # None
        <5>1. shop[list[i]] \in Version
          BY <3>1 DEF Base, TypeOK
        <5>2. [v |-> shop[list[i]], on |-> Available(list[i])] \in Row
          <6>1. Available(list[i]) \in BOOLEAN
              BY <3>1 DEF Base, TypeOK, Available
            <6> QED
              BY <5>1, <6>1 DEF Row
        <5> QED
          BY <5>2, Bounds
      <4> QED
        BY <1>3, <2>4, <3>1, <4>1, <4>2 DEF Stored, Available
    <3> QED
      BY <2>6, <3>2, <3>3
  <2> QED
    BY <1>3, <2>3, <2>6, PageStored
<1>6. Undisturbed(t)'
  <2>1. source = "unset" => SoFar(t)'
    BY <1>3 DEF SoFar
  <2> QED
    BY <1>3, <1>4, <1>5, <2>1 DEF CalmRuns, Undisturbed, Busy
<1> QED
  BY <1>3, <1>4, <1>6, BusyWriter

LEMMA InsertCalm ==
  ASSUME Base, CalmRuns, NEW t \in Writer, Insert(t)
  PROVE  CalmRuns'
<1>1. /\ Busy(t) /\ calm' = calm /\ ~calm[t]
      /\ job'[t].step = "insert" /\ \A u \in Writer \ {t} : job'[u] = job[u]
  BY DEF Insert, history, Busy, CalmRuns, Undisturbed, Base, TypeOK
<1> QED
  BY <1>1, BusyWriter DEF Undisturbed

LEMMA SkipAdminCalm ==
  ASSUME Base, CalmRuns, NEW t \in Writer, SkipAdmin(t)
  PROVE  CalmRuns'
<1>1. /\ UNCHANGED <<source, list, shop, offered, row, calm>> /\ Busy(t)
      /\ job'[t].step = "done" /\ \A u \in Writer \ {t} : job'[u] = job[u]
  BY DEF SkipAdmin, shopVars, history, Busy, Base, TypeOK
<1>2. ReachedStored' <=> ReachedStored
  BY <1>1 DEF ReachedStored, Reached, Stored, Available
<1>3. Undisturbed(t)'
  BY <1>1, <1>2 DEF SkipAdmin, CalmRuns, Undisturbed, SoFar, Busy
<1> QED
  BY <1>1, <1>3, BusyWriter

LEMMA RestartCalm ==
  ASSUME Base, Base', CalmRuns, NEW t \in Writer, Busy(t), RaiseIn(t) \/ Lost(t)
  PROVE  CalmRuns'
<1>1. job \in [Writer -> Job] /\ calm \in [Writer -> BOOLEAN]
  BY DEF Base, TypeOK
<1>2. /\ job'[t].step \in {"fetch", "failed"} /\ job'[t].page = 1
      /\ \A u \in Writer \ {t} : job'[u] = job[u]
  <2>1. CASE RaiseIn(t)
    BY <1>1, <2>1 DEF RaiseIn, Idle
  <2>2. CASE Lost(t)
    BY <1>1, <2>2 DEF Lost, Idle
  <2> QED
    BY <2>1, <2>2
<1>3. /\ calm'[t] => \A u \in Writer \ {t} : ~Busy(u)
      /\ \A u \in Writer \ {t} : calm'[u] = calm[u]
  BY <1>1 DEF RaiseIn, Lost
<1>4. EarlierStored(t)'
  BY <1>2, Bounds DEF EarlierStored, Base, TypeOK
<1>5. Undisturbed(t)'
  BY <1>2, <1>3, <1>4 DEF Undisturbed, SoFar, Busy
<1> QED
  BY <1>2, <1>3, <1>5, BusyWriter

LEMMA StartCalm ==
  ASSUME Base, Base', CalmRuns, NEW t \in Writer, StartSync(t) \/ StartBulk(t)
  PROVE  CalmRuns'
<1>1. job \in [Writer -> Job]
  BY DEF Base, TypeOK
<1>2. CASE StartBulk(t)
  <2>1. job'[t].step # "idle" /\ \A u \in Writer \ {t} : job'[u] = job[u]
    <3>1. PICK todo :
            job' = [job EXCEPT ![t].step = "insert", ![t].todo = todo]
      BY <1>2 DEF StartBulk
    <3> QED
      BY <1>1, <3>1 DEF Job
  <2> QED
    BY <1>2, <2>1, Disturbed DEF StartBulk
<1>3. CASE StartSync(t)
  <2>1. /\ \A u \in Writer \ {t} : job'[u] = job[u] /\ ~calm'[u]
        /\ calm'[t] => \A u \in Writer \ {t} : ~Busy(u)
        /\ job'[t].page = 1 /\ source' = source
        /\ job'[t].step = IF source = "unset" THEN "done" ELSE "fetch"
    <3>1. /\ job' = [job EXCEPT ![t].step = IF source = "unset" THEN "done" ELSE "fetch"]
          /\ job[t].page = 1 /\ source' = source
      BY <1>3 DEF StartSync, CalmRuns, shopVars
    <3>2. \A u \in Writer : calm'[u] = (u = t /\ \A w \in Writer \ {t} : ~Busy(w))
      BY <1>3 DEF StartSync
    <3>3. /\ \A u \in Writer \ {t} : job'[u] = job[u]
          /\ job'[t].page = job[t].page
          /\ job'[t].step = IF source = "unset" THEN "done" ELSE "fetch"
      BY <1>1, <3>1 DEF Job
    <3> QED
      BY <3>1, <3>2, <3>3
  <2>2. EarlierStored(t)'
    BY <2>1, Bounds DEF EarlierStored, Base, TypeOK
  <2>3. Undisturbed(t)'
    BY <2>1, <2>2 DEF Undisturbed, SoFar, Busy
  <2>4. \A u \in Writer \ {t} : Undisturbed(u)'
    BY <2>1 DEF Undisturbed
  <2> QED
    BY <2>1, <2>3, <2>4 DEF CalmRuns
<1> QED
  BY <1>2, <1>3

LEMMA CalmStep == Base /\ Base' /\ CalmRuns /\ [Next]_vars => CalmRuns'
<1> SUFFICES ASSUME Base, Base', CalmRuns, [Next]_vars PROVE CalmRuns'
  OBVIOUS
<1>1. CASE ShopStep \/ HookStep
  BY <1>1, ShopCalm, HookCalm
<1>2. ASSUME NEW t \in Writer,
             StartSync(t) \/ StartBulk(t) \/ Progress(t) \/ Lost(t) \/ Disconnect(t)
      PROVE  CalmRuns'
  <2>1. CASE StartSync(t) \/ StartBulk(t) \/ Fetch(t) \/ Upsert(t) \/ Insert(t) \/ Commit(t)
             \/ SkipAdmin(t)
    BY <2>1, StartCalm, FetchCalm, UpsertCalm, InsertCalm, CommitCalm, SkipAdminCalm
  <2>2. CASE Busy(t) /\ (RaiseIn(t) \/ Lost(t))
    BY <2>2, RestartCalm
  <2>3. Deadlocked(t) => Busy(t)
    BY DEF Deadlocked, Waits, Busy
  <2>4. Lost(t) => Busy(t)
    BY DEF Lost, Busy
  <2>5. FetchRaises(t) \/ UpsertRaises(t) \/ InsertRaises(t) \/ AdminRaises(t) \/ Disconnect(t)
          => Busy(t) /\ RaiseIn(t)
    BY DEF FetchRaises, UpsertRaises, InsertRaises, AdminRaises, Disconnect, Busy
  <2> QED
    BY <1>2, <2>1, <2>2, <2>3, <2>4, <2>5 DEF Progress, DeadlockVictim
<1>3. CASE UNCHANGED vars
  BY <1>3, UnchangedCalm DEF vars, shopVars
<1> QED
  BY <1>1, <1>2, <1>3 DEF Next

\* A sync nobody disturbed has stored every product it can reach.
THEOREM CalmSyncStoresAll == Spec => []CalmSyncComplete
<1>1. Init => Base /\ CalmRuns
  BY BaseInit, CalmInit
<1>2. Base /\ CalmRuns /\ [Next]_vars => Base' /\ CalmRuns'
  BY BaseStep, CalmStep
<1>3. CalmRuns => CalmSyncComplete
  BY DEF CalmRuns, Undisturbed, SoFar, ReachedStored, Stored, CalmSyncComplete
<1> QED
  BY <1>1, <1>2, <1>3, PTL DEF Spec

(***************************************************************************)
(* Syncs alone do not deadlock                                             *)
(***************************************************************************)
\* ord gives the products numbers that rise along the listing, and bounded ones.
RisesAlongList(ord) ==
  \A i \in DOMAIN list, q \in Listed :
    (\A j \in DOMAIN list : list[j] = q => i < j) => ord[list[i]] < ord[q]
Below(ord, N) == \A q \in Listed : ord[q] < N

\* A sync writes in the order of its page, and has written what comes before
\* the rows it has left.
TodoRises(t, ord) ==
  job[t].step = "upsert" =>
    \A x, y \in job[t].todo :
      pend[t][y.p] = None /\ (\A z \in job[t].todo : z.p = y.p => x.at < z.at)
        => ord[x.p] < ord[y.p]
LocksRise(t, ord) ==
  job[t].step = "upsert" =>
    \A p \in Product, y \in job[t].todo :
      pend[t][p] # None /\ pend[t][y.p] = None => ord[p] < ord[y.p]

\* A page has one item at a place, and no product the shop has yet to list.
PageSound(t) ==
  job[t].step = "upsert" =>
    /\ \A x, y \in job[t].todo : x.at = y.at => x = y
    /\ \A p \in Product : p \notin Listed /\ shop[p] = 1 =>
         pend[t][p] = None /\ \A y \in job[t].todo : y.p # p

LockOrder ==
  ~rearranged =>
    /\ \A t \in Writer : PageSound(t)
    /\ \E ord \in [Product -> Nat], N \in Nat :
         /\ RisesAlongList(ord) /\ Below(ord, N)
         /\ \A t \in Writer : TodoRises(t, ord) /\ LocksRise(t, ord)

\* At first: the place where a product is first listed.
LEMMA LockOrderInit == Init => LockOrder
<1> SUFFICES ASSUME Init PROVE LockOrder
  OBVIOUS
<1>1. list \in Seq(Product) /\ Len(list) \in Nat
  BY BaseInit DEF Base, TypeOK
<1>2. \A t \in Writer : job[t].step # "upsert"
  BY DEF Init, Idle
<1> DEFINE First(p, n) == list[n] = p /\ \A m \in DOMAIN list : list[m] = p => n <= m
           ord == [p \in Product |-> IF p \in Listed THEN CHOOSE n \in DOMAIN list : First(p, n) ELSE 0]
<1>3. ASSUME NEW p \in Listed PROVE ord[p] \in DOMAIN list /\ First(p, ord[p])
  <2>1. PICK k \in DOMAIN list : list[k] = p
    BY DEF Listed
  <2> DEFINE S == {m \in DOMAIN list : list[m] = p}
  <2>2. S \in SUBSET Nat /\ S # {}
    BY <1>1, <2>1
  <2>3. PICK n \in S : \A m \in S : n <= m
    <3> HIDE DEF S
    <3> QED
      BY <2>2, LeastNat
  <2>4. n \in DOMAIN list /\ First(p, n)
    BY <2>3
  <2>5. p \in Product
    BY <1>1 DEF Listed
  <2>6. ord[p] = CHOOSE n1 \in DOMAIN list : First(p, n1)
    BY <2>5
  <2> HIDE DEF First
  <2> QED
    BY <2>4, <2>6
<1>4. ord \in [Product -> Nat]
  <2>1. ord = [p \in Product |-> ord[p]] /\ \A p \in Product \ Listed : ord[p] = 0
    OBVIOUS
  <2> HIDE DEF ord
  <2>2. \A p \in Product : ord[p] \in Nat
    BY <1>1, <1>3, <2>1
  <2> QED
    BY <2>1, <2>2
<1>5. RisesAlongList(ord)
  <2>1. ASSUME NEW i \in DOMAIN list, NEW q \in Listed,
               \A j \in DOMAIN list : list[j] = q => i < j
        PROVE  ord[list[i]] < ord[q]
    <3>1. list[i] \in Listed
      BY DEF Listed
    <3>2. ord[list[i]] \in DOMAIN list /\ ord[list[i]] <= i
      BY <1>3, <3>1
    <3>3. ord[q] \in DOMAIN list /\ i < ord[q]
      BY <1>3, <2>1
    <3> HIDE DEF ord
    <3> QED
      BY <1>1, <3>2, <3>3
  <2> QED
    BY <2>1 DEF RisesAlongList
<1>6. Below(ord, Len(list) + 1)
  <2> HIDE DEF ord
  <2>1. \A q \in Listed : ord[q] \in 1 .. Len(list)
    BY <1>1, <1>3
  <2> QED
    BY <1>1, <2>1 DEF Below
<1>7. Len(list) + 1 \in Nat
  BY <1>1
<1> HIDE DEF ord
<1> QED
  BY <1>2, <1>4, <1>5, <1>6, <1>7 DEF LockOrder, PageSound, TodoRises, LocksRise

LEMMA SameLockOrder ==
  ASSUME LockOrder, UNCHANGED <<list, shop, pend, job, rearranged>>
  PROVE  LockOrder'
BY DEF LockOrder, PageSound, RisesAlongList, Below, TodoRises, LocksRise, Listed

\* Writers do not change the listing, so the numbers stay.
LEMMA WriterLockOrder ==
  ASSUME LockOrder, NEW t \in Writer, UNCHANGED <<list, shop, rearranged>>,
         \A u \in Writer \ {t} : job'[u] = job[u] /\ pend'[u] = pend[u],
         ~rearranged => PageSound(t)',
         ~rearranged => \A ord \in [Product -> Nat] :
           RisesAlongList(ord) /\ TodoRises(t, ord) /\ LocksRise(t, ord)
             => TodoRises(t, ord)' /\ LocksRise(t, ord)'
  PROVE  LockOrder'
<1> SUFFICES ASSUME ~rearranged PROVE LockOrder'
  BY DEF LockOrder
<1>1. Listed' = Listed
  BY DEF Listed
<1>2. \A u \in Writer : PageSound(u)'
  BY <1>1 DEF LockOrder, PageSound
<1>3. PICK ord \in [Product -> Nat], N \in Nat :
        /\ RisesAlongList(ord) /\ Below(ord, N)
        /\ \A u \in Writer : TodoRises(u, ord) /\ LocksRise(u, ord)
  BY DEF LockOrder
<1>4. RisesAlongList(ord)' /\ Below(ord, N)'
  BY <1>1, <1>3 DEF RisesAlongList, Below
<1>5. \A u \in Writer : TodoRises(u, ord)' /\ LocksRise(u, ord)'
  BY <1>3 DEF TodoRises, LocksRise
<1> QED
  BY <1>2, <1>4, <1>5 DEF LockOrder

LEMMA OtherWriterLockOrder ==
  ASSUME LockOrder, NEW t \in Writer, UNCHANGED <<list, shop, rearranged>>,
         \A u \in Writer \ {t} : job'[u] = job[u],
         \A u \in Writer \ {t} : pend'[u] = pend[u],
         job'[t].step # "upsert"
  PROVE  LockOrder'
<1>1. PageSound(t)' /\ \A ord : TodoRises(t, ord)' /\ LocksRise(t, ord)'
  BY DEF PageSound, TodoRises, LocksRise
<1> QED
  BY <1>1, WriterLockOrder

\* A page is read in the order of the listing.
LEMMA FetchLockOrder ==
  ASSUME Base, LockOrder, NEW t \in Writer, Fetch(t)
  PROVE  LockOrder'
<1>1. job[t] \in Job /\ job \in [Writer -> Job] /\ list \in Seq(Product)
  BY DEF Base, TypeOK
<1>2. /\ UNCHANGED <<list, shop, rearranged, pend, source>>
      /\ \A u \in Writer \ {t} : job'[u] = job[u]
      /\ \A p \in Product : pend[t][p] = None
  BY <1>1 DEF Fetch, shopVars, Base, TypeOK
<1>3. PICK n \in 1 .. MaxPages : n = job[t].page
  BY <1>1 DEF Job
<1> DEFINE items == Normalised(Page(n))
<1>4. job'[t].todo = items \/ job'[t].step # "upsert"
  <2> HIDE DEF items
  <2>1. CASE items = {}
    BY <1>1, <1>3, <2>1 DEF Fetch, AfterPage, items, Job
  <2>2. CASE items # {}
    BY <1>1, <1>3, <2>2 DEF Fetch, items, Job
  <2> QED
    BY <2>1, <2>2
<1>5. \A x \in items : /\ x.at \in DOMAIN list /\ x.at \in Page(n) /\ x.p = list[x.at]
                       /\ x = [at |-> x.at, p |-> list[x.at], v |-> shop[list[x.at]],
                              on |-> Available(list[x.at])]
                       /\ Valid(x.p, shop[x.p])
  BY DEF Normalised, Page
<1>6. \A x, y \in items : x.at = y.at => x = y
  BY <1>5
<1>7. \A y \in items : y.p \in Listed
  BY <1>5 DEF Listed
<1>8. PageSound(t)'
  <2>1. Listed' = Listed
    BY <1>2 DEF Listed
  <2> HIDE DEF items
  <2> QED
    BY <1>2, <1>4, <1>6, <1>7, <2>1 DEF PageSound
<1>9. ASSUME NEW ord \in [Product -> Nat], RisesAlongList(ord)
      PROVE  TodoRises(t, ord)' /\ LocksRise(t, ord)'
  <2>1. ASSUME NEW x \in items, NEW y \in items, \A z \in items : z.p = y.p => x.at < z.at
        PROVE  ord[x.p] < ord[y.p]
    <3>1. ASSUME NEW j \in DOMAIN list, list[j] = y.p PROVE x.at < j
      <4>1. CASE source = "custom"
        <5>1. j \in Page(n) /\ Valid(list[j], shop[list[j]])
          BY <1>5, <3>1, <4>1 DEF Page
        <5>2. [at |-> j, p |-> list[j], v |-> shop[list[j]], on |-> Available(list[j])] \in items
          BY <5>1 DEF Normalised
        <5> HIDE DEF items
        <5> QED
          BY <2>1, <3>1, <5>2
      <4>2. CASE source # "custom"
        <5>1. j = y.at
          BY <1>5, <3>1, <4>2 DEF Base, Distinct
        <5> QED
          BY <2>1, <5>1
      <4> QED
        BY <4>1, <4>2
    <3> QED
      BY <1>5, <1>7, <1>9, <3>1 DEF RisesAlongList
  <2> HIDE DEF items
  <2> QED
    BY <1>2, <1>4, <2>1 DEF TodoRises, LocksRise
<1> HIDE DEF items
<1> QED
  BY <1>2, <1>8, <1>9, WriterLockOrder

\* The next row locked comes before all that are left.
LEMMA UpsertLockOrder ==
  ASSUME Base, LockOrder, NEW t \in Writer, Upsert(t)
  PROVE  LockOrder'
<1>1. PICK it \in job[t].todo :
        /\ IsNext(t, it) /\ pend[t][it.p] = None
        /\ pend' = [pend EXCEPT ![t][it.p] = [v |-> it.v, on |-> it.on]]
        /\ job' = [job EXCEPT ![t].todo = @ \ {it}]
  BY DEF Upsert
<1>2. job[t] \in Job /\ job \in [Writer -> Job] /\ it \in Item /\ job[t].step = "upsert"
  BY DEF Upsert, Base, TypeOK, Job
<1>3. /\ UNCHANGED <<list, shop, rearranged>>
      /\ \A u \in Writer \ {t} : job'[u] = job[u] /\ pend'[u] = pend[u]
      /\ job'[t].step = "upsert" /\ job'[t].todo = job[t].todo \ {it}
  BY <1>1, <1>2 DEF Upsert, shopVars, Base, TypeOK, Job
<1>4. /\ pend'[t][it.p] # None
      /\ \A p \in Product \ {it.p} : pend'[t][p] = pend[t][p]
  <2>1. [v |-> it.v, on |-> it.on] \in Row
    BY <1>2 DEF Item, Row
  <2>2. /\ pend'[t][it.p] = [v |-> it.v, on |-> it.on]
        /\ \A p \in Product \ {it.p} : pend'[t][p] = pend[t][p]
    BY <1>1, <1>2 DEF Base, TypeOK, Item
  <2> QED
    BY <2>1, <2>2, Bounds
<1>5. \A y \in job[t].todo : y \in Item
  BY <1>2 DEF Job
<1>6. ASSUME ~rearranged PROVE PageSound(t)'
  <2>1. PageSound(t) /\ Listed' = Listed
    BY <1>3, <1>6 DEF LockOrder, Listed
  <2> QED
    BY <1>2, <1>3, <1>4, <1>5, <2>1 DEF PageSound
<1>7. ASSUME ~rearranged, NEW ord \in [Product -> Nat], TodoRises(t, ord), LocksRise(t, ord)
      PROVE  TodoRises(t, ord)' /\ LocksRise(t, ord)'
  <2>1. ASSUME NEW y \in job[t].todo, pend'[t][y.p] = None
        PROVE  y.p # it.p /\ pend[t][y.p] = None
    BY <1>4, <1>5, <2>1 DEF Item
  <2>2. TodoRises(t, ord)'
    <3>1. ASSUME NEW x \in job[t].todo, NEW y \in job[t].todo \ {it}, pend'[t][y.p] = None,
                 \A z \in job[t].todo \ {it} : z.p = y.p => x.at < z.at
          PROVE  ord[x.p] < ord[y.p]
      BY <1>2, <1>7, <2>1, <3>1 DEF TodoRises
    <3> QED
      BY <1>3, <3>1 DEF TodoRises
  <2>3. LocksRise(t, ord)'
    <3>1. ASSUME NEW p \in Product, NEW y \in job[t].todo \ {it},
                 pend'[t][p] # None, pend'[t][y.p] = None
          PROVE  ord[p] < ord[y.p]
      <4>1. CASE p # it.p
        BY <1>2, <1>4, <1>7, <2>1, <3>1, <4>1 DEF LocksRise
      <4>2. CASE p = it.p
        <5>1. ASSUME NEW z \in job[t].todo, z.p = y.p PROVE it.at < z.at
          <6>1. z # it /\ it.at <= z.at
            BY <1>1, <2>1, <3>1, <5>1 DEF IsNext
          <6>2. it.at # z.at
            BY <1>2, <1>7, <6>1 DEF LockOrder, PageSound
          <6>3. it.at \in Nat /\ z.at \in Nat
            BY <1>5 DEF Item
          <6> QED
            BY <6>1, <6>2, <6>3
        <5> QED
          BY <1>2, <1>7, <2>1, <3>1, <4>2, <5>1 DEF TodoRises
      <4> QED
        BY <4>1, <4>2
    <3> QED
      BY <1>3, <3>1 DEF LocksRise
  <2> QED
    BY <2>2, <2>3
<1> QED
  BY <1>3, <1>6, <1>7, WriterLockOrder

\* A withdrawn product leaves the others in their order.
LEMMA WithdrawLockOrder ==
  ASSUME Base, LockOrder, NEW p \in Product, NEW on \in BOOLEAN, Withdraw(p, on)
  PROVE  LockOrder'
<1>1. Change(p, on) /\ rearranged' = (rearranged \/ p \in Listed')
  BY DEF Withdraw
<1> SUFFICES ASSUME ~rearranged, p \notin Listed' PROVE LockOrder'
  BY <1>1 DEF LockOrder
<1>2. PICK i \in DOMAIN list : list[i] = p /\ list' = Without(list, i)
  BY DEF Withdraw
<1>3. list \in Seq(Product) /\ i \in 1 .. Len(list)
  BY <1>2 DEF Base, TypeOK
<1>4. Listed' \subseteq Listed /\ Listed \ {p} \subseteq Listed'
  BY WithdrawnListed
<1>5. /\ UNCHANGED <<pend, job>> /\ shop'[p] = shop[p] + 1
      /\ \A q \in Product \ {p} : shop'[q] = shop[q]
  BY <1>1, ChangeKeeps DEF Base, TypeOK
<1>6. \A t \in Writer : PageSound(t)'
  <2>1. shop[p] \in Nat /\ shop[p] >= 1
    BY DEF Base, TypeOK, Numbered, Version
  <2>2. \A q \in Product : q \notin Listed' /\ shop'[q] = 1 => q \notin Listed /\ shop[q] = 1
    BY <1>4, <1>5, <2>1
  <2> QED
    BY <1>5, <2>2 DEF LockOrder, PageSound
<1>7. PICK ord \in [Product -> Nat], N \in Nat :
        /\ RisesAlongList(ord) /\ Below(ord, N)
        /\ \A t \in Writer : TodoRises(t, ord) /\ LocksRise(t, ord)
  BY DEF LockOrder
<1>8. ASSUME NEW a \in DOMAIN list', NEW q \in Listed',
             \A b \in DOMAIN list' : list'[b] = q => a < b
      PROVE  ord[list'[a]] < ord[q]
  <2>1. /\ a \in 1 .. Len(list) - 1 /\ DOMAIN list' = 1 .. Len(list) - 1
        /\ Before(a, i) \in DOMAIN list /\ list'[a] = list[Before(a, i)]
    <3>1. DOMAIN list' = 1 .. Len(list) - 1 /\ DOMAIN list = 1 .. Len(list)
      BY <1>2, <1>3, WithoutPlaces
    <3>2. a \in 1 .. Len(list) - 1
      BY <3>1
    <3>3. Before(a, i) \in 1 .. Len(list) /\ Without(list, i)[a] = list[Before(a, i)]
      BY <1>3, <3>2, WithoutPlaces
    <3> QED
      BY <1>2, <3>1, <3>2, <3>3
  <2>2. ASSUME NEW j \in DOMAIN list, list[j] = q PROVE Before(a, i) < j
    <3>1. j # i /\ j \in 1 .. Len(list)
      BY <1>2, <1>3, <2>2
    <3>2. PICK b \in 1 .. Len(list) - 1 : j = Before(b, i)
      BY <1>3, <3>1, WithoutPlaces
    <3>3. list'[b] = q
      BY <1>2, <1>3, <2>2, <3>2, WithoutPlaces
    <3>4. a < b
      BY <1>8, <2>1, <3>3
    <3> QED
      BY <1>3, <2>1, <3>2, <3>4, WithoutPlaces
  <2> QED
    BY <1>4, <1>7, <2>1, <2>2 DEF RisesAlongList
<1>9. RisesAlongList(ord)' /\ Below(ord, N)'
  BY <1>4, <1>7, <1>8 DEF RisesAlongList, Below
<1>10. \A t \in Writer : TodoRises(t, ord)' /\ LocksRise(t, ord)'
  BY <1>5, <1>7 DEF TodoRises, LocksRise
<1> QED
  BY <1>6, <1>7, <1>9, <1>10 DEF LockOrder

\* A new product is given a number between its neighbours': all numbers are
\* doubled to make room.
LEMMA PublishLockOrder ==
  ASSUME Base, LockOrder, NEW p \in Product, NEW on \in BOOLEAN, Publish(p, on)
  PROVE  LockOrder'
<1>1. Change(p, on) /\ rearranged' = (rearranged \/ shop[p] > 1) /\ p \notin Listed
  BY DEF Publish
<1>2. shop[p] \in Nat /\ shop[p] >= 1
  BY DEF Base, TypeOK, Numbered, Version
<1> SUFFICES ASSUME ~rearranged, shop[p] = 1 PROVE LockOrder'
  <2>1. shop[p] # 1 => shop[p] > 1
    BY <1>2
  <2> QED
    BY <1>1, <2>1, Zenon DEF LockOrder
<1>3. PICK i \in 0 .. Len(list) : list' = With(list, i, p)
  BY DEF Publish
<1>4. list \in Seq(Product) /\ Len(list) \in Nat /\ DOMAIN list = 1 .. Len(list)
  BY DEF Base, TypeOK
<1>5. Listed' = Listed \cup {p}
  BY <1>3, PublishedListed
<1>6. /\ UNCHANGED <<pend, job>> /\ shop'[p] = 2
      /\ \A q \in Product \ {p} : shop'[q] = shop[q]
  <2>1. UNCHANGED <<pend, job>> /\ shop' = [shop EXCEPT ![p] = @ + 1]
    BY <1>1, ChangeKeeps
  <2>2. shop \in [Product -> Version]
    BY DEF Base, TypeOK
  <2> QED
    BY <2>1, <2>2
<1>7. /\ \A t \in Writer : PageSound(t)'
      /\ \A t \in Writer : job[t].step = "upsert" =>
           pend[t][p] = None /\ \A y \in job[t].todo : y.p # p
  BY <1>1, <1>5, <1>6 DEF LockOrder, PageSound
<1>8. PICK ord \in [Product -> Nat], N \in Nat :
        /\ RisesAlongList(ord) /\ Below(ord, N)
        /\ \A t \in Writer : TodoRises(t, ord) /\ LocksRise(t, ord)
  BY DEF LockOrder
<1> DEFINE Later(k) == k > i /\ \A m \in 1 .. i : list[m] # list[k]
           S == {ord[list[k]] : k \in {m \in DOMAIN list : Later(m)}} \cup {N}
<1>9. PICK T \in S : \A n \in S : T <= n
  <2>1. S \in SUBSET Nat /\ S # {}
    BY <1>4, <1>8
  <2> HIDE DEF S
  <2> QED
    BY <2>1, LeastNat
<1>10. T \in Nat /\ T <= N /\ \A k \in DOMAIN list : Later(k) => T <= ord[list[k]]
  BY <1>4, <1>8, <1>9
<1>11. ASSUME NEW m \in 1 .. i PROVE ord[list[m]] < T
  <2>1. m \in DOMAIN list /\ list[m] \in Listed
    BY <1>3, <1>4 DEF Listed
  <2>2. CASE T = N
    BY <1>8, <2>1, <2>2 DEF Below
  <2>3. CASE T # N
    <3>1. PICK k \in DOMAIN list : Later(k) /\ T = ord[list[k]]
      BY <1>9, <2>3
    <3>2. \A j \in DOMAIN list : list[j] = list[k] => m < j
      BY <1>3, <1>4, <3>1
    <3>3. list[k] \in Listed
      BY DEF Listed
    <3> QED
      BY <1>8, <2>1, <3>1, <3>2, <3>3 DEF RisesAlongList
  <2> QED
    BY <2>2, <2>3
<1> HIDE DEF S
<1> DEFINE new == [q \in Product |-> IF q = p THEN 2 * T ELSE 2 * ord[q] + 1]
<1>12. /\ new \in [Product -> Nat] /\ new[p] = 2 * T
       /\ \A q \in Product \ {p} : new[q] = 2 * ord[q] + 1 /\ ord[q] \in Nat
  BY <1>8, <1>10
<1> HIDE DEF new
<1>13. \A q \in Listed : q \in Product \ {p}
  BY <1>1, <1>4 DEF Listed
<1>14. \A b \in DOMAIN list' : b # i + 1 =>
         /\ b \in 1 .. Len(list) + 1 /\ After(b, i) \in DOMAIN list
         /\ list'[b] = list[After(b, i)] /\ list'[b] \in Listed
  <2>1. DOMAIN list' = 1 .. Len(list) + 1
    BY <1>3, <1>4, WithPlaces
  <2>2. ASSUME NEW b \in 1 .. Len(list) + 1, b # i + 1
        PROVE  After(b, i) \in 1 .. Len(list) /\ With(list, i, p)[b] = list[After(b, i)]
    BY <1>4, <2>2, WithPlaces
  <2> QED
    BY <1>3, <1>4, <2>1, <2>2 DEF Listed
<1>15. /\ DOMAIN list' = 1 .. Len(list) + 1 /\ list'[i + 1] = p
       /\ \A j \in DOMAIN list : \E b \in DOMAIN list' : b # i + 1 /\ j = After(b, i)
       /\ \A a, b \in DOMAIN list' : a # i + 1 /\ b # i + 1 => (a < b <=> After(a, i) < After(b, i))
  <2>1. DOMAIN list' = 1 .. Len(list) + 1 /\ list'[i + 1] = p
    BY <1>3, <1>4, WithPlaces
  <2>2. /\ \A j \in 1 .. Len(list) : \E b \in 1 .. Len(list) + 1 : b # i + 1 /\ j = After(b, i)
        /\ \A a, b \in 1 .. Len(list) + 1 :
             a # i + 1 /\ b # i + 1 => (a < b <=> After(a, i) < After(b, i))
    BY <1>4, WithPlaces
  <2> QED
    BY <1>4, <2>1, <2>2
<1>16. ASSUME NEW a \in DOMAIN list', NEW q \in Listed',
              \A b \in DOMAIN list' : list'[b] = q => a < b
       PROVE  new[list'[a]] < new[q]
  <2>1. a \in Nat /\ i \in Nat
    BY <1>3, <1>4, <1>15
  <2>2. CASE q = p
    <3>1. a < i + 1
      BY <1>3, <1>4, <1>15, <1>16, <2>2
    <3>2. After(a, i) = a /\ a \in 1 .. i
      BY <1>15, <2>1, <3>1 DEF After
    <3>3. ord[list'[a]] < T /\ list'[a] \in Listed
      BY <1>11, <1>14, <2>1, <3>1, <3>2
    <3>4. ord[list'[a]] \in Nat
      BY <1>12, <1>13, <3>3
    <3>5. new[list'[a]] = 2 * ord[list'[a]] + 1
      BY <1>12, <1>13, <3>3
    <3> QED
      BY <1>10, <1>12, <2>2, <3>3, <3>4, <3>5
  <2>3. CASE q # p
    <3>1. q \in Listed /\ new[q] = 2 * ord[q] + 1 /\ ord[q] \in Nat
      BY <1>5, <1>12, <1>13, <2>3
    <3>2. CASE a = i + 1
      <4>1. PICK k \in DOMAIN list : list[k] = q
        BY <3>1 DEF Listed
      <4>2. PICK b \in DOMAIN list' : b # i + 1 /\ k = After(b, i)
        BY <1>15
      <4>3. b > i + 1
        BY <1>14, <1>16, <3>2, <4>1, <4>2
      <4>4. k > i
        BY <1>14, <2>1, <4>2, <4>3 DEF After
      <4>5. ASSUME NEW m \in 1 .. i PROVE list[m] # q
        <5>1. m \in DOMAIN list' /\ m # i + 1 /\ After(m, i) = m
          BY <1>3, <1>4, <1>15 DEF After
        <5>2. list'[m] = list[m] /\ ~(a < m)
          BY <1>14, <2>1, <3>2, <5>1
        <5> QED
          BY <1>16, <5>1, <5>2
      <4>6. T <= ord[q]
        BY <1>10, <4>1, <4>4, <4>5
      <4> QED
        BY <1>10, <1>12, <1>15, <3>1, <3>2, <4>6
    <3>3. CASE a # i + 1
      <4>1. ASSUME NEW j \in DOMAIN list, list[j] = q PROVE After(a, i) < j
        <5>1. PICK b \in DOMAIN list' : b # i + 1 /\ j = After(b, i)
          BY <1>15
        <5>2. list'[b] = q
          BY <1>14, <4>1, <5>1
        <5> QED
          BY <1>15, <1>16, <3>3, <5>1, <5>2
      <4>2. ord[list'[a]] < ord[q]
        BY <1>8, <1>14, <3>1, <3>3, <4>1 DEF RisesAlongList
      <4>3. new[list'[a]] = 2 * ord[list'[a]] + 1 /\ ord[list'[a]] \in Nat
        BY <1>12, <1>13, <1>14, <3>3
      <4> QED
        BY <3>1, <4>2, <4>3
    <3> QED
      BY <3>2, <3>3
  <2> QED
    BY <2>2, <2>3
<1>17. Below(new, 2 * N + 1)'
  <2>1. ASSUME NEW q \in Listed' PROVE new[q] < 2 * N + 1
    <3>1. CASE q = p
      BY <1>10, <1>12, <3>1
    <3>2. CASE q # p
      <4>1. ord[q] < N /\ new[q] = 2 * ord[q] + 1 /\ ord[q] \in Nat
        BY <1>5, <1>8, <1>12, <1>13, <3>2 DEF Below
      <4> QED
        BY <4>1
    <3> QED
      BY <3>1, <3>2
  <2> QED
    BY <2>1 DEF Below
<1>18. \A x, y \in Product \ {p} : ord[x] < ord[y] => new[x] < new[y]
  BY <1>12
<1>19. ASSUME NEW t \in Writer
       PROVE  TodoRises(t, new)' /\ LocksRise(t, new)'
  <2>1. \A y \in job[t].todo : y.p \in Product
    BY DEF Base, TypeOK, Job, Item
  <2>2. TodoRises(t, ord) /\ LocksRise(t, ord)
    BY <1>8
  <2>3. TodoRises(t, new)
    BY <1>7, <1>18, <2>1, <2>2 DEF TodoRises
  <2>4. LocksRise(t, new)
    BY <1>7, <1>18, <2>1, <2>2 DEF LocksRise
  <2> QED
    BY <1>6, <2>3, <2>4 DEF TodoRises, LocksRise
<1>20. 2 * N + 1 \in Nat
  OBVIOUS
<1> QED
  BY <1>7, <1>12, <1>16, <1>17, <1>19, <1>20 DEF LockOrder, RisesAlongList

LEMMA LockOrderStep == Base /\ LockOrder /\ [Next]_vars => LockOrder'
<1> SUFFICES ASSUME Base, LockOrder, [Next]_vars PROVE LockOrder'
  OBVIOUS
<1>0. job \in [Writer -> Job] /\ pend \in [Writer -> [Product -> Row \cup {None}]]
  BY DEF Base, TypeOK
<1>1. CASE ShopStep
  <2>1. ASSUME NEW p \in Product, NEW on \in BOOLEAN, Edit(p, on) PROVE LockOrder'
    <3>1. /\ UNCHANGED <<list, pend, job, rearranged>> /\ shop' = [shop EXCEPT ![p] = @ + 1]
      BY <2>1, ChangeKeeps DEF Edit
    <3>2. \A q \in Product : shop'[q] = 1 => shop[q] = 1
      <4>1. shop \in [Product -> Version] /\ \A q \in Product : shop[q] \in Nat /\ shop[q] >= 1
        BY DEF Base, TypeOK, Numbered, Version
      <4> QED
        BY <3>1, <4>1
    <3>3. Listed' = Listed
      BY <3>1 DEF Listed
    <3> QED
      BY <3>1, <3>2, <3>3
         DEF LockOrder, PageSound, RisesAlongList, Below, TodoRises, LocksRise
  <2>2. Rearrange => LockOrder'
    BY DEF Rearrange, LockOrder
  <2> QED
    BY <1>1, <2>1, <2>2, WithdrawLockOrder, PublishLockOrder DEF ShopStep
<1>2. CASE HookStep
  <2>1. UNCHANGED <<list, shop, pend, job, rearranged>>
    BY <1>2 DEF HookStep, Webhook, GiveUpHook, shopVars
  <2> QED
    BY <2>1, SameLockOrder
<1>3. ASSUME NEW t \in Writer,
             StartSync(t) \/ StartBulk(t) \/ Progress(t) \/ Lost(t) \/ Disconnect(t)
      PROVE  LockOrder'
  <2>1. CASE Fetch(t) \/ Upsert(t)
    BY <2>1, FetchLockOrder, UpsertLockOrder
  <2>2. CASE StartSync(t) \/ SkipAdmin(t)
    <3>1. /\ UNCHANGED <<list, shop, rearranged, pend>>
          /\ job'[t].step # "upsert" /\ \A u \in Writer \ {t} : job'[u] = job[u]
      <4>1. PICK step \in {"fetch", "done"} : job' = [job EXCEPT ![t].step = step]
        BY <2>2, Zenon DEF StartSync, SkipAdmin
      <4>2. job'[t].step = step /\ \A u \in Writer \ {t} : job'[u] = job[u]
        BY <1>0, <4>1 DEF Job
      <4> QED
        BY <2>2, <4>1, <4>2 DEF StartSync, SkipAdmin, shopVars
    <3> QED
      BY <3>1, OtherWriterLockOrder
  <2>3. CASE StartBulk(t)
    <3>1. PICK todo : job' = [job EXCEPT ![t].step = "insert", ![t].todo = todo]
      BY <2>3 DEF StartBulk
    <3>2. /\ UNCHANGED <<list, shop, rearranged, pend>>
          /\ job'[t].step # "upsert" /\ \A u \in Writer \ {t} : job'[u] = job[u]
      BY <1>0, <2>3, <3>1 DEF StartBulk, shopVars, Job
    <3> QED
      BY <3>2, OtherWriterLockOrder
  <2>4. CASE Insert(t)
    <3>1. PICK it \in job[t].todo :
            /\ pend' = [pend EXCEPT ![t][it.p] = [v |-> it.v, on |-> it.on]]
            /\ job' = [job EXCEPT ![t].todo = @ \ {it}]
      BY <2>4 DEF Insert
    <3>2. /\ UNCHANGED <<list, shop, rearranged>>
          /\ \A u \in Writer \ {t} : job'[u] = job[u]
          /\ \A u \in Writer \ {t} : pend'[u] = pend[u]
      BY <1>0, <2>4, <3>1 DEF Insert, shopVars
    <3>3. job'[t].step # "upsert"
      BY <1>0, <2>4, <3>1 DEF Insert, Job
    <3> QED
      BY <3>2, <3>3, OtherWriterLockOrder
  <2>5. CASE Commit(t)
    <3>1. /\ UNCHANGED <<list, shop, rearranged>>
          /\ \A u \in Writer \ {t} : job'[u] = job[u]
          /\ \A u \in Writer \ {t} : pend'[u] = pend[u]
      BY <1>0, <2>5 DEF Commit, NoWrites, shopVars
    <3>2. job[t] \in Job
      BY <1>0
    <3>3. job'[t].step # "upsert"
      BY <1>0, <2>5, <3>2 DEF Commit, AfterPage, Job
    <3> QED
      BY <3>1, <3>3, OtherWriterLockOrder
  <2>6. CASE RaiseIn(t) \/ Lost(t)
    <3>1. /\ UNCHANGED <<list, shop, rearranged>>
          /\ \A u \in Writer \ {t} : pend'[u] = pend[u]
      BY <1>0, <2>6 DEF RaiseIn, Lost, NoWrites, shopVars
    <3>2. job'[t].step # "upsert" /\ \A u \in Writer \ {t} : job'[u] = job[u]
      <4>1. CASE RaiseIn(t)
        BY <1>0, <4>1 DEF RaiseIn, Idle
      <4>2. CASE Lost(t)
        BY <1>0, <4>2 DEF Lost, Idle
      <4> QED
        BY <2>6, <4>1, <4>2
    <3> QED
      BY <3>1, <3>2, OtherWriterLockOrder
  <2> QED
    BY <1>3, <2>1, <2>2, <2>3, <2>4, <2>5, <2>6
       DEF Progress, Disconnect, FetchRaises, UpsertRaises, InsertRaises, AdminRaises, DeadlockVictim
<1>4. CASE UNCHANGED vars
  BY <1>4, SameLockOrder DEF vars, shopVars
<1> QED
  BY <1>1, <1>2, <1>3, <1>4 DEF Next

\* In a cycle of waiting syncs the one whose next row comes first would wait
\* for a writer that has locked a row behind its own next one.
LEMMA OrderedWritersDoNotDeadlock ==
  ASSUME Base, LockOrder, ~rearranged, \A t \in Writer : job[t].step # "insert"
  PROVE  \A t \in Writer : ~Deadlocked(t)
<1> SUFFICES ASSUME NEW t \in Writer, Deadlocked(t) PROVE FALSE
  OBVIOUS
<1>1. PICK S \in SUBSET Writer :
        t \in S /\ \A u \in S : (\E w \in S : Waits(u, w)) /\ (\E w \in S : Waits(w, u))
  BY DEF Deadlocked
<1>2. PICK ord \in [Product -> Nat] : \A u \in Writer : LocksRise(u, ord)
  BY DEF LockOrder
<1>3. \A u \in Writer : \A it \in job[u].todo : it.p \in Product
  BY DEF Base, TypeOK, Job, Item
<1> DEFINE Places == {n \in Nat : \E u \in S : \E it \in job[u].todo : IsNext(u, it) /\ n = ord[it.p]}
<1>4. ASSUME NEW u \in S PROVE \E it \in job[u].todo : IsNext(u, it) /\ ord[it.p] \in Places
  <2>1. PICK w \in S : Waits(u, w)
    BY <1>1
  <2>2. PICK it \in job[u].todo : IsNext(u, it)
    BY <2>1 DEF Waits
  <2>3. ord[it.p] \in Nat
    BY <1>2, <1>3
  <2> QED
    BY <2>2, <2>3
<1>5. PICK n \in Places : \A m \in Places : n <= m
  <2>1. Places \in SUBSET Nat /\ Places # {}
    BY <1>1, <1>4
  <2> HIDE DEF Places
  <2> QED
    BY <2>1, LeastNat
<1>6. PICK u \in S : \E it \in job[u].todo : IsNext(u, it) /\ n = ord[it.p]
  BY <1>5
<1>7. PICK it \in job[u].todo : IsNext(u, it) /\ n = ord[it.p]
  BY <1>6
<1>8. PICK w \in S : Waits(w, u)
  BY <1>1
<1>9. PICK y \in job[w].todo : IsNext(w, y) /\ pend[u][y.p] # None
  BY <1>8 DEF Waits
<1>10. PICK x \in S : Waits(u, x)
  BY <1>1
<1>11. PICK z \in job[u].todo : IsNext(u, z) /\ pend[x][z.p] # None /\ u # x
  BY <1>10 DEF Waits
<1>12. pend[u][z.p] = None /\ job[u].step = "upsert"
  BY <1>3, <1>10, <1>11 DEF Base, OneWriter, Waits
<1>13. ord[y.p] < ord[z.p] /\ ord[y.p] \in Nat /\ ord[z.p] \in Nat
  BY <1>2, <1>3, <1>9, <1>12 DEF LocksRise
<1>14. it = z
  <2>1. it.at <= z.at /\ z.at <= it.at /\ it.at \in Nat /\ z.at \in Nat
    BY <1>7, <1>11 DEF IsNext, Base, TypeOK, Job, Item
  <2>2. it.at = z.at
    BY <2>1
  <2> QED
    BY <1>12, <2>2 DEF LockOrder, PageSound
<1>15. ord[y.p] \in Places
  BY <1>9, <1>13
<1> QED
  BY <1>5, <1>7, <1>13, <1>14, <1>15

\* Syncs alone never deadlock on the product rows, whatever is published,
\* edited or withdrawn meanwhile: only a listing in another order, or an
\* insert, can make them.
THEOREM SyncsDoNotDeadlock == Spec => []DeadlockNeedsReorder
<1>1. Init => Base /\ LockOrder
  BY BaseInit, LockOrderInit
<1>2. Base /\ LockOrder /\ [Next]_vars => Base' /\ LockOrder'
  BY BaseStep, LockOrderStep
<1>3. Base /\ LockOrder => DeadlockNeedsReorder
  BY OrderedWritersDoNotDeadlock DEF DeadlockNeedsReorder
<1> QED
  BY <1>1, <1>2, <1>3, PTL DEF Spec

(***************************************************************************)
(* Search                                                                  *)
(***************************************************************************)
\* The search counts as FiniteSets does.
LEMMA SameCardinality == \A S : Retrieval!Cardinality(S) = Cardinality(S)
BY DEF Cardinality, Retrieval!Cardinality

\* The n cheapest of S are of S, as many as there are up to n.
LEMMA CheapestOf ==
  ASSUME NEW rows, NEW S, IsFiniteSet(S), NEW n \in Nat, NEW T \in Retrieval!Cheapest(rows, S, n)
  PROVE  /\ T \subseteq S /\ IsFiniteSet(T) /\ Cardinality(T) \in Nat /\ Cardinality(S) \in Nat
         /\ Cardinality(T) = IF Cardinality(S) < n THEN Cardinality(S) ELSE n
         /\ Cardinality(T) < n => T = S
         /\ \A p \in T, q \in S \ T : rows[p].price <= rows[q].price
<1>1. /\ T \subseteq S
      /\ Cardinality(T) = IF Cardinality(S) < n THEN Cardinality(S) ELSE n
      /\ \A p \in T, q \in S \ T : rows[p].price <= rows[q].price
  BY SameCardinality DEF Retrieval!Cheapest
<1>2. IsFiniteSet(T) /\ Cardinality(T) \in Nat /\ Cardinality(S) \in Nat
  BY <1>1, FS_Subset, FS_CardinalityType
<1>3. Cardinality(T) < n => Cardinality(T) = Cardinality(S)
  BY <1>1, <1>2
<1>4. Cardinality(T) = Cardinality(S) => T = S
  BY <1>1, FS_Subset
<1> QED
  BY <1>1, <1>2, <1>3, <1>4

\* A broadened search fills up to the limit with what fits.
LEMMA BroadenedCount ==
  ASSUME NEW fitting, IsFiniteSet(fitting), NEW found \in SUBSET fitting, NEW limit \in Nat,
         NEW more \in SUBSET (fitting \ found), Cardinality(found) < limit,
         Cardinality(more) = IF Cardinality(fitting \ found) < limit - Cardinality(found)
                             THEN Cardinality(fitting \ found) ELSE limit - Cardinality(found)
  PROVE  Cardinality(found \cup more)
           = IF Cardinality(fitting) < limit THEN Cardinality(fitting) ELSE limit
<1>1. IsFiniteSet(found) /\ IsFiniteSet(more) /\ IsFiniteSet(fitting \ found)
  BY FS_Subset
<1>2. /\ Cardinality(found) \in Nat /\ Cardinality(more) \in Nat
      /\ Cardinality(fitting) \in Nat /\ Cardinality(fitting \ found) \in Nat
  BY <1>1, FS_CardinalityType
<1>3. Cardinality(found \cup more) = Cardinality(found) + Cardinality(more)
  <2>1. found \cap more = {} /\ Cardinality({}) = 0
    BY FS_EmptySet
  <2>2. Cardinality(found \cup more)
          = Cardinality(found) + Cardinality(more) - Cardinality(found \cap more)
    BY <1>1, FS_Union
  <2>3. Cardinality(found \cap more) = 0
    BY <2>1, Zenon
  <2> QED
    BY <1>2, <2>2, <2>3
<1>4. Cardinality(fitting \ found) = Cardinality(fitting) - Cardinality(found)
  <2>1. fitting \cap found = found
    OBVIOUS
  <2> QED
    BY <2>1, FS_Difference
<1> QED
  BY <1>2, <1>3, <1>4

\* What get_products_for_query finds is within budget and category, prefers
\* what the keyword hits, and is as much as there is up to the limit.
LEMMA RetrieveFits ==
  ASSUME NEW rows, IsFiniteSet(DOMAIN rows), ContextLimit \in Nat \ {0}, NEW query,
         NEW T \in Retrieval!Retrieve(rows, query)
  PROVE  LET q == Retrieval!Personalise(query)
             wanted == Retrieval!Matching(rows, Retrieval!Filters(q, q.hits, 0, {}))
             fitting == Retrieval!Matching(rows, Retrieval!Filters(q, None, 0, {}))
         IN  /\ T \subseteq fitting
             /\ Cardinality(T \cap wanted)
                  >= (IF Cardinality(wanted) < ContextLimit THEN Cardinality(wanted) ELSE ContextLimit)
             /\ \A p \in wanted \ T, r \in T : r \in wanted /\ rows[r].price <= rows[p].price
             /\ Cardinality(T)
                  = IF Cardinality(fitting) < ContextLimit THEN Cardinality(fitting) ELSE ContextLimit
             /\ T = {} => fitting = {}
<1> DEFINE q == Retrieval!Personalise(query)
           limit == ContextLimit
           wanted == Retrieval!Matching(rows, Retrieval!Filters(q, q.hits, 0, {}))
           fitting == Retrieval!Matching(rows, Retrieval!Filters(q, None, 0, {}))
<1>2. wanted \subseteq fitting /\ fitting \subseteq DOMAIN rows
  BY DEF Retrieval!Matching, Retrieval!Filters
<1>3. IsFiniteSet(fitting) /\ IsFiniteSet(wanted)
  BY <1>2, FS_Subset
<1>4. PICK found \in Retrieval!Search(rows, Retrieval!Filters(q, q.hits, limit, {})) :
        IF Cardinality(found) < limit
        THEN T \in {found \cup U : U \in Retrieval!Search(rows,
                      Retrieval!Filters(q, None, limit - Cardinality(found), found))}
        ELSE T = found
  BY SameCardinality DEF Retrieval!Retrieve
<1>5. found \in Retrieval!Cheapest(rows, wanted, limit)
  BY <1>4 DEF Retrieval!Search, Retrieval!Matching, Retrieval!Filters
<1>1. limit \in Nat /\ limit > 0
  OBVIOUS
<1> HIDE DEF q, limit, wanted, fitting
<1>6. /\ found \subseteq wanted /\ IsFiniteSet(found) /\ Cardinality(found) \in Nat
      /\ Cardinality(wanted) \in Nat
      /\ Cardinality(found) = IF Cardinality(wanted) < limit THEN Cardinality(wanted) ELSE limit
      /\ Cardinality(found) < limit => found = wanted
      /\ \A p \in found, r \in wanted \ found : rows[p].price <= rows[r].price
  BY <1>1, <1>3, <1>5, CheapestOf
<1>7. Cardinality(fitting) \in Nat /\ Cardinality(wanted) <= Cardinality(fitting)
  BY <1>2, <1>3, FS_Subset, FS_CardinalityType
<1>8. /\ T \subseteq fitting
      /\ Cardinality(T \cap wanted)
           >= (IF Cardinality(wanted) < limit THEN Cardinality(wanted) ELSE limit)
      /\ \A p \in wanted \ T, r \in T : r \in wanted /\ rows[r].price <= rows[p].price
      /\ Cardinality(T) = IF Cardinality(fitting) < limit THEN Cardinality(fitting) ELSE limit
  <2>8. CASE Cardinality(found) < limit
    <3>1. PICK U \in Retrieval!Search(rows,
                 Retrieval!Filters(q, None, limit - Cardinality(found), found)) : T = found \cup U
      BY <1>4, <2>8
    <3>2. U \in Retrieval!Cheapest(rows, fitting \ found, limit - Cardinality(found))
      <4>1. Retrieval!Matching(rows, Retrieval!Filters(q, None, limit - Cardinality(found), found))
              = fitting \ found
        BY DEF fitting, Retrieval!Matching, Retrieval!Filters
      <4>2. Retrieval!Filters(q, None, limit - Cardinality(found), found).limit
              = limit - Cardinality(found)
        BY DEF Retrieval!Filters
      <4> QED
        BY <3>1, <4>1, <4>2 DEF Retrieval!Search
    <3>3. IsFiniteSet(fitting \ found) /\ limit - Cardinality(found) \in Nat
      BY <1>1, <1>3, <1>6, <2>8, FS_Subset
    <3>4. /\ U \subseteq fitting \ found
          /\ Cardinality(U) = IF Cardinality(fitting \ found) < limit - Cardinality(found)
                              THEN Cardinality(fitting \ found) ELSE limit - Cardinality(found)
      BY <3>2, <3>3, CheapestOf
    <3>5. Cardinality(T) = IF Cardinality(fitting) < limit THEN Cardinality(fitting) ELSE limit
      BY <1>1, <1>2, <1>3, <1>6, <2>8, <3>1, <3>4, BroadenedCount
    <3>6. T \subseteq fitting /\ T \cap wanted = wanted
      BY <1>2, <1>6, <2>8, <3>1, <3>4
    <3>7. Cardinality(T \cap wanted)
            >= (IF Cardinality(wanted) < limit THEN Cardinality(wanted) ELSE limit)
      <4>1. Cardinality(T \cap wanted) = Cardinality(wanted)
        BY <3>6, Zenon
      <4> QED
        BY <1>1, <1>6, <4>1
    <3> QED
      BY <3>5, <3>6, <3>7
  <2>9. CASE ~(Cardinality(found) < limit)
    <3>1. T = found /\ T \cap wanted = found
      BY <1>4, <1>6, <2>9
    <3>2. Cardinality(T \cap wanted)
            >= (IF Cardinality(wanted) < limit THEN Cardinality(wanted) ELSE limit)
      <4>1. Cardinality(T \cap wanted) = Cardinality(found)
        BY <3>1, Zenon
      <4> QED
        BY <1>1, <1>6, <4>1
    <3>3. Cardinality(T) = IF Cardinality(fitting) < limit THEN Cardinality(fitting) ELSE limit
      BY <1>1, <1>6, <1>7, <2>9, <3>1
    <3>4. T \subseteq fitting /\ \A p \in wanted \ T, r \in T : r \in wanted /\ rows[r].price <= rows[p].price
      BY <1>2, <1>6, <3>1
    <3> QED
      BY <3>2, <3>3, <3>4
  <2> QED
    BY <2>8, <2>9
<1>9. T = {} => fitting = {}
  <2>1. T = {} => Cardinality(T) = 0
    BY FS_EmptySet
  <2>2. T = {} => Cardinality(fitting) = 0
    BY <1>1, <1>7, <1>8, <2>1
  <2> QED
    BY <1>3, <2>2, FS_EmptySet
<1> QED
  BY <1>8, <1>9 DEF q, limit, wanted, fitting

\* Whatever the chat shows is an answer, for every catalogue of finitely many
\* products and every query.
LEMMA ChatAnswers ==
  ASSUME NEW rows, IsFiniteSet(DOMAIN rows), ContextLimit \in Nat \ {0}, NEW query,
         NEW T \in Retrieval!ChatProducts(rows, query)
  PROVE  Retrieval!Answers(rows, query, T)
<1> DEFINE q == Retrieval!Personalise(query)
           wanted == Retrieval!Matching(rows, Retrieval!Filters(q, q.hits, 0, {}))
           fitting == Retrieval!Matching(rows, Retrieval!Filters(q, None, 0, {}))
           anyPrice == Retrieval!Matching(rows, Retrieval!AnyPrice(query))
<1>1. PICK found \in Retrieval!Retrieve(rows, query) :
        IF found = {} THEN T \in Retrieval!Search(rows, Retrieval!AnyPrice(query)) ELSE T = found
  BY DEF Retrieval!ChatProducts
<1>2. /\ found \subseteq fitting
      /\ Cardinality(found \cap wanted)
           >= (IF Cardinality(wanted) < ContextLimit THEN Cardinality(wanted) ELSE ContextLimit)
      /\ \A p \in wanted \ found, r \in found : r \in wanted /\ rows[r].price <= rows[p].price
      /\ Cardinality(found)
           = IF Cardinality(fitting) < ContextLimit THEN Cardinality(fitting) ELSE ContextLimit
      /\ found = {} => fitting = {}
  BY RetrieveFits
<1>3. found = {} => T \in Retrieval!Cheapest(rows, anyPrice, ContextLimit)
  BY <1>1 DEF Retrieval!Search, Retrieval!AnyPrice
<1> HIDE DEF q, wanted, fitting, anyPrice
<1>4. CASE found = {}
  <2>1. fitting = {} /\ T \in Retrieval!Cheapest(rows, anyPrice, ContextLimit)
    BY <1>2, <1>3, <1>4
  <2> QED
    BY <2>1 DEF q, fitting, anyPrice, Retrieval!Answers
<1>5. CASE found # {}
  <2>1. T = found /\ fitting # {}
    BY <1>1, <1>2, <1>5
  <2> QED
    BY <1>2, <2>1, SameCardinality DEF q, wanted, fitting, Retrieval!Answers
<1> QED
  BY <1>4, <1>5

\* Whatever was written to the rows, the chat is given what its search has
\* to find.
THEOREM ChatFindsProducts == Spec => []SearchAnswers
<1>1. IsFiniteSet(DOMAIN Catalogue) /\ ContextLimit \in Nat \ {0}
  BY FiniteProducts, SyncConstants DEF Catalogue
<1>2. TypeOK => SearchAnswers
  BY <1>1, ChatAnswers DEF SearchAnswers
<1> QED
  BY <1>2, TypeCorrect, PTL
=============================================================================
