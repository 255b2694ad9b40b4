------------------------ MODULE MCShopifyAdminToken ------------------------
(* TLC definitions for ShopifyAdminToken. *)
EXTENDS ShopifyAdminToken

\* Shopify announces a lifetime below the floor or a long one, or none and
\* grants the default or less.
MCGrants ==
  {[announced |-> TRUE, life |-> 1], [announced |-> TRUE, life |-> 4],
   [announced |-> FALSE, life |-> 1], [announced |-> FALSE, life |-> 2]}
=============================================================================
