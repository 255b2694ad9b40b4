---------------------------- MODULE MCProductSync ----------------------------
(* TLC definitions for ProductSync: three products, two to a page. *)
EXTENDS ProductSync, TLC

CONSTANTS a, b, c, t1

Setup(kind, goods, none, secret, n, who) ==
  [source |-> kind, list |-> goods, out |-> none, token |-> secret, events |-> n, writers |-> who]

\* A Shopify store with two pages; one whose shop changes twice during one sync;
\* one with a token; custom feeds, one with items out of stock, one with an id
\* twice; nothing set up.
MCListings ==
  {Setup("shopify", <<b, a, c>>, {}, FALSE, 1, Writer),
   Setup("shopify", <<a, b>>, {c}, FALSE, 2, {t1}),
   Setup("shopify", <<a>>, {}, TRUE, 0, Writer),
   Setup("custom", <<b, a, c>>, {a}, FALSE, 1, Writer),
   Setup("custom", <<a, c, a>>, {}, FALSE, 0, Writer),
   Setup("unset", <<>>, {}, FALSE, 0, Writer)}

\* b has no price at first, c loses its own.
Prices == (a :> <<3, 1, 4, 2>>) @@ (b :> <<2, 0, 2, 3>>) @@ (c :> <<1, 2, 0, 1>>)
MCPrice == [p \in Product |-> [v \in Version |-> Prices[p][v + 1]]]
MCCategories == [p \in Product |-> IF p = b THEN {} ELSE {"shirts"}]
=============================================================================
