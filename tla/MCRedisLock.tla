----------------------------- MODULE MCRedisLock -----------------------------
(***************************************************************************)
(* Instances of RedisLock for TLC: requests spread over processes and      *)
(* ticket types in the ways that matter to lockValues.                     *)
(***************************************************************************)
EXTENDS RedisLock, TLC

CONSTANTS r1, r2, r3, r4, p1, p2, t1, t2

\* r1, r2 and r4 share a process, r3 has one of its own; r4 locks another key.
SharedHome == r1 :> p1 @@ r2 :> p1 @@ r3 :> p2 @@ r4 :> p1

MostOnT1 == r1 :> t1 @@ r2 :> t1 @@ r3 :> t1 @@ r4 :> t2
=============================================================================
