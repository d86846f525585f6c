-------------------------- MODULE TicketSaleProofs --------------------------
(***************************************************************************)
(* The abstract sale never sells a ticket twice, for any number of sales   *)
(* and ticket types.  SaleAssumption is a hypothesis, which a module that   *)
(* implements the sale has to establish for its own constants.             *)
(***************************************************************************)
EXTENDS TicketSale, TLAPS, FiniteSetTheorems

SaleInv == SaleTypeOK /\ Balanced

LEMMA SaleInitInv ==
    ASSUME SaleAssumption, SaleInit PROVE SaleInv
<1>1. SaleTypeOK
  BY DEF SaleAssumption, SaleInit, SaleTypeOK
<1>2. ASSUME NEW t \in TicketType PROVE Tickets(OfType(t)) = {}
  BY DEF SaleInit, Tickets, OfType
<1> QED
  BY <1>1, <1>2, FS_EmptySet DEF SaleAssumption, SaleInit, SaleInv, SaleTypeOK, Balanced

(***************************************************************************)
(* Taking n tickets adds n pairs to those of the ticket type, since the    *)
(* sale had none.                                                          *)
(***************************************************************************)
LEMMA TakeTickets ==
    ASSUME SaleTypeOK, NEW s \in Sale, NEW n \in Nat \ {0},
           taken[s] = 0, taken' = [taken EXCEPT ![s] = n],
           IsFiniteSet(Tickets(OfType(TicketOf[s])))
    PROVE  LET t == TicketOf[s]
           IN  /\ IsFiniteSet(Tickets(OfType(t))')
               /\ Cardinality(Tickets(OfType(t))') = Cardinality(Tickets(OfType(t))) + n
<1> DEFINE T == Tickets(OfType(TicketOf[s]))
           N == {s} \X (1 .. n)
<1>a. \A x : x \in T <=> \E u \in OfType(TicketOf[s]) : x \in {u} \X (1 .. taken[u])
  BY DEF Tickets
<1>b. \A x : x \in T' <=> \E u \in OfType(TicketOf[s]) : x \in {u} \X (1 .. taken'[u])
  BY DEF Tickets, OfType
<1>c. \A u \in OfType(TicketOf[s]) : taken'[u] = IF u = s THEN n ELSE taken[u]
  BY DEF SaleTypeOK, OfType
<1>d. s \in OfType(TicketOf[s]) /\ {s} \X (1 .. taken[s]) = {}
  BY DEF OfType
<1>1. T' = T \cup N
  <2>1. ASSUME NEW x \in T' PROVE x \in T \cup N
    BY <1>a, <1>b, <1>c
  <2>2. ASSUME NEW x \in T \cup N PROVE x \in T'
    BY <1>a, <1>b, <1>c, <1>d
  <2> QED
    BY <2>1, <2>2
<1>2. T \cap N = {}
  BY <1>a, <1>d
<1>3. IsFiniteSet(N) /\ Cardinality(N) = n
  <2>1. IsFiniteSet({s}) /\ Cardinality({s}) = 1
    BY FS_Singleton
  <2>2. IsFiniteSet(1 .. n) /\ Cardinality(1 .. n) = n
    BY FS_Interval
  <2>3. IsFiniteSet(N) /\ Cardinality(N) = Cardinality({s}) * Cardinality(1 .. n)
    BY <2>1, <2>2, FS_Product
  <2> QED
    BY <2>1, <2>2, <2>3
<1>4. Cardinality(T \cup N) = Cardinality(T) + n /\ IsFiniteSet(T \cup N)
  <2> HIDE DEF T, N
  <2>1. IsFiniteSet(T) /\ Cardinality(T) \in Nat
    BY FS_CardinalityType DEF T
  <2>2. /\ IsFiniteSet(T \cup N)
        /\ Cardinality(T \cup N) = Cardinality(T) + Cardinality(N) - Cardinality(T \cap N)
    BY <1>3, <2>1, FS_Union
  <2>3. Cardinality(T \cap N) = 0
    BY <1>2, FS_EmptySet
  <2> QED
    BY <1>3, <2>1, <2>2, <2>3
<1> QED
  BY <1>1, <1>4

LEMMA SaleStepInv ==
    ASSUME SaleAssumption, SaleInv, [SaleNext]_saleVars PROVE SaleInv'
<1> USE DEF SaleAssumption, SaleInv
<1>1. ASSUME NEW s \in Sale, Take(s) PROVE SaleInv'
  <2> PICK n \in 1 .. available[TicketOf[s]] :
          /\ taken' = [taken EXCEPT ![s] = n]
          /\ available' = [available EXCEPT ![TicketOf[s]] = @ - n]
    BY <1>1 DEF Take
  <2> taken[s] = 0 /\ confirmed' = confirmed /\ n \in Nat \ {0}
    BY <1>1 DEF Take, SaleTypeOK
  <2>1. SaleTypeOK'
    BY DEF SaleTypeOK
  <2>2. ASSUME NEW t \in TicketType, t # TicketOf[s]
        PROVE  Tickets(OfType(t))' = Tickets(OfType(t)) /\ available'[t] = available[t]
    BY <2>2 DEF SaleTypeOK, Tickets, OfType
  <2>3. ASSUME NEW t \in TicketType
        PROVE  /\ IsFiniteSet(Tickets(OfType(t))')
               /\ available'[t] + Cardinality(Tickets(OfType(t))') = Capacity[t]
    <3>1. CASE t = TicketOf[s]
      <4>1. /\ IsFiniteSet(Tickets(OfType(t))')
            /\ Cardinality(Tickets(OfType(t))') = Cardinality(Tickets(OfType(t))) + n
        BY <3>1, TakeTickets DEF Balanced
      <4>2. Cardinality(Tickets(OfType(t))) \in Nat
        BY FS_CardinalityType DEF Balanced
      <4> QED
        BY <3>1, <4>1, <4>2 DEF Balanced, SaleTypeOK
    <3>2. CASE t # TicketOf[s]
      BY <3>2, <2>2 DEF Balanced
    <3> QED
      BY <3>1, <3>2
  <2>4. \A x \in confirmed' : taken'[x] > 0
    BY DEF Balanced, SaleTypeOK
  <2> QED
    BY <2>1, <2>3, <2>4 DEF Balanced
<1>2. ASSUME NEW s \in Sale, Confirm(s) PROVE SaleInv'
  BY <1>2 DEF Confirm, SaleTypeOK, Balanced, Tickets, OfType
<1>3. CASE UNCHANGED saleVars
  BY <1>3 DEF saleVars, SaleTypeOK, Balanced, Tickets, OfType
<1> QED
  BY <1>1, <1>2, <1>3 DEF SaleNext

(***************************************************************************)
(* What is left and what was taken always add up to the capacity.          *)
(***************************************************************************)
THEOREM SaleBalanced ==
    ASSUME SaleAssumption
    PROVE  SaleSpec => [](SaleTypeOK /\ Balanced)
<1>1. SaleInit => SaleInv
  BY SaleInitInv
<1>2. SaleInv /\ [SaleNext]_saleVars => SaleInv'
  BY SaleStepInv
<1> QED
  BY <1>1, <1>2, PTL DEF SaleSpec, SaleInv
=============================================================================
