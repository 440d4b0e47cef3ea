----------------------------- MODULE MCPositions -----------------------------
(* One mover, or two movers on two instances. *)
EXTENDS Positions, TLC

CONSTANTS c1, c2, i1, i2

OneMover == c1 :> i1
TwoMovers == (c1 :> i1) @@ (c2 :> i2)
=============================================================================
