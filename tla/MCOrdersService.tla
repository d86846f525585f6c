--------------------------- MODULE MCOrdersService ---------------------------
(***************************************************************************)
(* Instances of OrdersService for TLC.                                     *)
(***************************************************************************)
EXTENDS OrdersService, TLC

CONSTANTS r1, r2, r3, r4, p1, p2, t1, t2, e1, e2, e3, k1, blank, long

\* Which process serves which request.
Alone == r1 :> p1
OneHome == r1 :> p1 @@ r2 :> p1
Apart == r1 :> p1 @@ r2 :> p2
Homes == r1 :> p1 @@ r2 :> p1 @@ r3 :> p2
TwoPayers == r1 :> p1 @@ r2 :> p1 @@ r3 :> p1 @@ r4 :> p2

\* Nothing but their names tells r1 and r2 apart under Homes.
Swap12 == Permutations({r1, r2})

\* Which ticket type a request is about; r3 takes another lock in TwoTickets.
OneTicket == [r \in Request |-> t1]
TwoTickets == r1 :> t1 @@ r2 :> t1 @@ r3 :> t2

\* All ticket types belong to e1: a request that names another event is wrong.
EventOfTicket == [t \in TicketType |-> e1]

TwoLeft == [t \in TicketType |-> 2]
UnitPrice == [t \in TicketType |-> 1]
=============================================================================
