---------------------------- MODULE MCChatSession ----------------------------
(* TLC definitions for ChatSession: two webhooks with two senders each, in    *)
(* opposite order, two that cannot be answered, questions over POST /chat.    *)
EXTENDS ChatContext, TLC

CONSTANTS a1, a2, b1, b2, b3, c1, c2, d1, d2, w1, x1, y1, z1,
          p1, p2, A, B, C, D, W, X, Y, Z

MCFrom == (a1 :> p1) @@ (a2 :> p2) @@ (b1 :> p2) @@ (b2 :> p1) @@ (b3 :> p1)
          @@ (c1 :> p1) @@ (c2 :> p2) @@ (d1 :> p2) @@ (d2 :> p1)
          @@ (w1 :> None) @@ (x1 :> p1) @@ (y1 :> None) @@ (z1 :> None)
MCWords == (a1 :> {"greeting", "keyword"}) @@ (a2 :> {"category", "price"})
           @@ (b1 :> {}) @@ (b2 :> {"greeting"}) @@ (b3 :> {"support", "keyword"})
           @@ (c1 :> {"greeting"}) @@ (c2 :> {"price", "price 0"})
           @@ (d1 :> {"keyword"}) @@ (d2 :> {"support", "price 0"}) @@ (w1 :> {"keyword"})
           @@ (x1 :> {"order status", "support"}) @@ (y1 :> {"keyword", "price 0"})
           @@ (z1 :> {"price"})
MCContent == (A :> <<a1, a2>>) @@ (B :> <<b1, b3, b2>>)
             @@ (C :> <<c1, c2>>) @@ (D :> <<d2, d1>>)
             @@ (W :> <<w1>>) @@ (X :> <<x1>>) @@ (Y :> <<y1>>) @@ (Z :> <<z1>>)

Setup(payloads, f, n) ==
  [payloads |-> payloads, faults |-> f, impatience |-> n]

\* Two webhooks at once; one with a fault, that Meta repeats too early; one
\* beside another with a message that raises; the limiter, with and without a
\* fault.
MCSetups == {Setup({A, B}, 0, 0), Setup({A}, 1, 1), Setup({B, C}, 0, 0), Setup({A, D}, 0, 0),
            Setup({W, X}, 0, 0), Setup({X, Y, Z}, 0, 0), Setup({X, Z}, 1, 0)}
=============================================================================
