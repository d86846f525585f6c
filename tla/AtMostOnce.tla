------------------------------ MODULE AtMostOnce ------------------------------
(***************************************************************************)
(* What notifications-service promises about the events of the topic:      *)
(* whatever is delivered how often and to whom, an event is handled at     *)
(* most once, and only if it was published.  Nothing is promised about the *)
(* order, or that an event is handled at all.                              *)
(***************************************************************************)
EXTENDS Sequences

CONSTANT Event

VARIABLES
    offered,     \* events published
    handled      \* events handled, in order

Handled == {handled[n] : n \in DOMAIN handled}

Init ==
    /\ offered = {}
    /\ handled = <<>>

Offer(e) ==
    /\ offered' = offered \cup {e}
    /\ UNCHANGED handled

Handle(e) ==
    /\ e \in offered \ Handled
    /\ handled' = Append(handled, e)
    /\ UNCHANGED offered

Next == \E e \in Event : Offer(e) \/ Handle(e)

Spec == Init /\ [][Next]_<<offered, handled>>
=============================================================================
