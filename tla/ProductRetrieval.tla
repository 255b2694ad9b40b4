-------------------------- MODULE ProductRetrieval --------------------------
(***************************************************************************)
(* How the chat finds products: ChatService.process over                   *)
(* RetrievalEngine.get_products_for_query and                              *)
(* ProductRepository.search_products.  Pure operators.  A catalogue is a   *)
(* function from products to rows; which rows a keyword hits is part of the*)
(* query (PostgreSQL's full text search is external).  ORDER BY price      *)
(* leaves ties open, so an answer is one of a set of possible answers.     *)
(* Only messages about products get here: the chat asks for no others.     *)
(***************************************************************************)
EXTENDS Naturals, FiniteSets

CONSTANTS
  Nothing,      \* an absent keyword, price, category or row
  ContextLimit  \* PRODUCT_SEARCH_CONTEXT_LIMIT (5), the fall-back's limit too

\* The WHERE clause of search_products.
Matching(rows, f) ==
  {p \in DOMAIN rows :
     /\ rows[p] # Nothing
     /\ rows[p].on
     /\ f.hits = Nothing \/ p \in f.hits
     /\ f.max = Nothing \/ rows[p].price <= f.max
     /\ f.category = Nothing \/ f.category \in rows[p].categories
     /\ p \notin f.exclude}

\* ORDER BY price LIMIT n.
Cheapest(rows, S, n) ==
  {T \in SUBSET S :
     /\ Cardinality(T) = IF Cardinality(S) < n THEN Cardinality(S) ELSE n
     /\ \A p \in T, q \in S \ T : rows[p].price <= rows[q].price}

Search(rows, f) == Cheapest(rows, Matching(rows, f), f.limit)

\* get_products_for_chat: the filters of one search.
Filters(q, hits, limit, exclude) ==
  [hits |-> hits, max |-> q.max, category |-> q.category,
   limit |-> limit, exclude |-> exclude]

\* The user's preferences fill in what the message left open, a budget of 0 none
\* at all; of several categories only the first is searched, and the message's
\* come first.
Personalise(q) ==
  [q EXCEPT !.category = IF @ = Nothing THEN q.likes ELSE @,
            !.max = IF @ = Nothing /\ q.budget # 0 THEN q.budget ELSE @]

\* ProductSearchFilters: a price limit of 0 raises, and with it the request.
Refused(q) == Personalise(q).max = 0

\* Faulty variant: the second search does not exclude what the first one found
RetrieveWithoutExclude(rows, query) ==
  LET q == Personalise(query)
      broader(T) ==
        IF Cardinality(T) < ContextLimit
          THEN {T \cup U : U \in Search(rows,
                   Filters(q, Nothing, ContextLimit - Cardinality(T), {}))}
          ELSE {T}
  IN  UNION {broader(T) : T \in Search(rows, Filters(q, q.hits, ContextLimit, {}))}

\* get_products_for_query: search with the keyword; too few answers are
\* broadened by a search without it, minus what was found.
\* (_rank_products orders the answer and drops nothing.)
Retrieve(rows, query) ==
  LET q == Personalise(query)
      broader(T) ==
        IF Cardinality(T) < ContextLimit
          THEN {T \cup U : U \in Search(rows,
                   Filters(q, Nothing, ContextLimit - Cardinality(T), T))}
          ELSE {T}
  IN  UNION {broader(T) : T \in Search(rows, Filters(q, q.hits, ContextLimit, {}))}

\* When that finds nothing, the message's own category at any price; the same
\* search again after the LLM has failed, which finds what this one did.
AnyPrice(query) ==
  [hits |-> Nothing, max |-> Nothing, category |-> query.category,
   limit |-> ContextLimit, exclude |-> {}]

\* What the chat shows and tells the LLM about; no answer when it raises.
ChatProducts(rows, query) ==
  IF Refused(query) THEN {}
  ELSE UNION {IF T = {} THEN Search(rows, AnyPrice(query)) ELSE {T} : T \in Retrieve(rows, query)}

(***************************************************************************)
(* The reference: what an answer has to be, whatever search finds it       *)
(***************************************************************************)
Answers(rows, query, T) ==
  LET q == Personalise(query)
      wanted == Matching(rows, Filters(q, q.hits, 0, {}))
      fitting == Matching(rows, Filters(q, Nothing, 0, {}))
      room(S) == IF Cardinality(S) < ContextLimit THEN Cardinality(S) ELSE ContextLimit
  IN  IF fitting = {}
      \* nothing fits the user: the cheapest of the message's category
      THEN T \in Cheapest(rows, Matching(rows, AnyPrice(query)), ContextLimit)
      ELSE
      \* only offered products within the budget and the category
      /\ T \subseteq fitting
      \* what the keyword hits goes first, the cheapest of it
      /\ Cardinality(T \cap wanted) >= room(wanted)
      /\ \A p \in wanted \ T, r \in T : r \in wanted /\ rows[r].price <= rows[p].price
      \* and the context is filled while anything fits
      /\ Cardinality(T) = room(fitting)
=============================================================================
