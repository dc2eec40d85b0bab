----------------------------- MODULE MCMemCache -----------------------------
(* TLC instances of MemCache: four calls, two of them for the same url.     *)
EXTENDS MemCache, TLC

CONSTANTS c1, c2, c3, c4, u1, u2, s1, s2

MCUrlOf == (c1 :> u1) @@ (c2 :> u1) @@ (c3 :> u1) @@ (c4 :> u2)

OwnShards   == (u1 :> s1) @@ (u2 :> s2)
SharedShard == (u1 :> s1) @@ (u2 :> s1)
=============================================================================
