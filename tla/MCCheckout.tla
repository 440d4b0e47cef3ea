----------------------------- MODULE MCCheckout -----------------------------
(* Instances of Checkout: who sends which request for what with which key.  *)
EXTENDS Checkout, TLC

CONSTANTS ann, bob, c1, c2, r1, r2, r3, k1, k2, w1, w2

OneConn == c1 :> ann
TwoConns == (c1 :> ann) @@ (c2 :> bob)

(* A request, its retry with the same key, and a second tab with its own. *)
RetryKeys == (r1 :> k1) @@ (r2 :> k1) @@ (r3 :> k2)
RetryBuyers == (r1 :> ann) @@ (r2 :> ann) @@ (r3 :> ann)
OneItem == [r \in Requests |-> {w1}]

(* Two rivals. *)
RivalKeys == (r1 :> k1) @@ (r2 :> k2)
RivalBuyers == (r1 :> ann) @@ (r2 :> bob)

(* One shopper with two carts. *)
SameBuyer == (r1 :> ann) @@ (r2 :> ann)
=============================================================================
