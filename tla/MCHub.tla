-------------------------------- MODULE MCHub --------------------------------
(* One connection on each of two instances, and a worker.                   *)
EXTENDS Hub, TLC

CONSTANTS i1, i2, c1, c2, s1, r1, r2, z1

Cluster == (c1 :> i1) @@ (c2 :> i2) @@ (s1 :> i1) @@ (r1 :> i1) @@ (r2 :> i2)

Views == {{}, {z1}}
=============================================================================
