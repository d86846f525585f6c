----------------------------- MODULE OutboxTable -----------------------------
(***************************************************************************)
(* The order_outbox table and the statements of                            *)
(* DrizzleOrderOutboxRepository on it.  A row is identified by its place   *)
(* in the sequence of rows, which is also the order of created_at.  The    *)
(* payload is left out: type and aggregate determine what it says.         *)
(***************************************************************************)
EXTENDS Naturals, Sequences, FiniteSets

CONSTANT Order          \* ids of orders

VARIABLE outbox         \* the rows, oldest first

OrderOutboxType == {"ORDER_CREATED", "ORDER_PAID"}

OutboxStatus == {"PENDING", "PROCESSING", "SENT", "FAILED"}

OutboxRow == [aggregateId : Order, type : OrderOutboxType, status : OutboxStatus]

OutboxTypeOK == outbox \in Seq(OutboxRow)

OutboxInit == outbox = <<>>

\* Some row announces that this happened to the order.
Announced(order, type) ==
    \E i \in DOMAIN outbox : outbox[i].aggregateId = order /\ outbox[i].type = type

Enqueue(aggregateId, type) ==
    outbox' = Append(outbox, [aggregateId |-> aggregateId,
                              type        |-> type,
                              status      |-> "PENDING"])

RowsIn(status) == {i \in DOMAIN outbox : outbox[i].status = status}

\* SELECT ... ORDER BY created_at LIMIT n of the PENDING rows.
OldestPending(n) ==
    {i \in RowsIn("PENDING") : Cardinality({j \in RowsIn("PENDING") : j < i}) < n}

SetStatus(rows, status) ==
    outbox' = [i \in DOMAIN outbox |->
                  IF i \in rows THEN [outbox[i] EXCEPT !.status = status] ELSE outbox[i]]

\* UPDATE to PROCESSING of the rows that are still PENDING.
Claim(rows) == SetStatus(rows \cap RowsIn("PENDING"), "PROCESSING")

\* markAsSent, markAsFailed: UPDATE of a row that is still PROCESSING.
Mark(row, status) == SetStatus({row} \cap RowsIn("PROCESSING"), status)
=============================================================================
