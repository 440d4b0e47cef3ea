--------------------------- MODULE MCLockLifecycle ---------------------------
(* Two shoppers with one connection each. *)
EXTENDS LockLifecycle, TLC

CONSTANTS ann, bob, c1, c2

TwoUsers == (c1 :> ann) @@ (c2 :> bob)
=============================================================================
