------------------------------ MODULE TicketSale ------------------------------
(***************************************************************************)
(* What orders-service promises about stock, with requests, locks, failures *)
(* and tables left out: a sale first takes its tickets from what is        *)
(* available, at once and never more than there is, and may be confirmed   *)
(* once, afterwards.  Tickets that were taken do not come back, whether    *)
(* the sale is confirmed or not.                                           *)
(***************************************************************************)
EXTENDS Naturals, FiniteSets

CONSTANTS
    Sale,        \* possible sales
    TicketType,
    TicketOf,    \* the ticket type each sale is about
    Capacity     \* tickets on sale, per ticket type

SaleAssumption ==
    /\ TicketOf \in [Sale -> TicketType]
    /\ Capacity \in [TicketType -> Nat]

VARIABLES
    available,   \* available[t]: tickets of t nobody has taken
    taken,       \* taken[s]: number of tickets sale s has taken
    confirmed    \* the sales that are confirmed

saleVars == <<available, taken, confirmed>>

SaleTypeOK ==
    /\ available \in [TicketType -> Nat]
    /\ taken \in [Sale -> Nat]
    /\ confirmed \in SUBSET Sale

SaleInit ==
    /\ available = Capacity
    /\ taken = [s \in Sale |-> 0]
    /\ confirmed = {}

Take(s) ==
    /\ taken[s] = 0
    /\ s \notin confirmed
    /\ \E n \in 1 .. available[TicketOf[s]] :
          /\ taken' = [taken EXCEPT ![s] = n]
          /\ available' = [available EXCEPT ![TicketOf[s]] = @ - n]
    /\ confirmed' = confirmed

Confirm(s) ==
    /\ taken[s] > 0
    /\ s \notin confirmed
    /\ confirmed' = confirmed \cup {s}
    /\ UNCHANGED <<available, taken>>

SaleNext == \E s \in Sale : Take(s) \/ Confirm(s)

SaleSpec == SaleInit /\ [][SaleNext]_saleVars
-----------------------------------------------------------------------------
\* The tickets taken by the sales in S, each as <<sale, number>>.
Tickets(S) == UNION {{s} \X (1 .. taken[s]) : s \in S}

OfType(t) == {s \in Sale : TicketOf[s] = t}

(***************************************************************************)
(* Nothing is sold twice: what is left and what was taken add up to the    *)
(* capacity, and confirmed sales hold tickets they took.                   *)
(***************************************************************************)
Balanced ==
    /\ \A t \in TicketType :
          /\ IsFiniteSet(Tickets(OfType(t)))
          /\ available[t] + Cardinality(Tickets(OfType(t))) = Capacity[t]
    /\ \A s \in confirmed : taken[s] > 0
=============================================================================
