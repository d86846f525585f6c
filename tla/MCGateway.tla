------------------------------- MODULE MCGateway -------------------------------
(***************************************************************************)
(* An instance of Gateway for TLC.                                         *)
(***************************************************************************)
EXTENDS Gateway, TLC

CONSTANTS r1, r2, u1, u2, a1, a2, a3, long, k1, blank, removed, o1, o2

TwoUsers == u1 :> a1 @@ u2 :> a2

OnePaid == o1 :> "PENDING" @@ o2 :> "PAID"

\* Every operation, and the pairs of two that touch the same data.
Ops ==
    r1 :> {"me", "createEvent", "signup", "postEvent"} @@
    r2 :> (Op \ {"me", "createEvent"})

Tokens ==
    r1 :> {u1, Nobody, Unauthenticated} @@
    r2 :> {u1, u2, removed}

Organizers ==
    r1 :> {u1} @@
    r2 :> {u1, removed}
=============================================================================
