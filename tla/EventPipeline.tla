----------------------------- MODULE EventPipeline -----------------------------
(***************************************************************************)
(* The way of an order event from the outbox table to its handler: what    *)
(* the outbox workers (OutboxWorker) publish is what the consumers of      *)
(* notifications-service (Notifications) read.  A message is the row it    *)
(* was published from; it always parses, and rows have different keys, as  *)
(* the event name, the order and the time are in the key.                  *)
(***************************************************************************)
EXTENDS OutboxWorker

CONSTANTS Consumer, Nobody, NoOffset, NoKey,
    ConsumerFaults   \* failures of the consumers; see Notifications

ASSUME RowsAssumption == MaxRows \in Nat
ASSUME NoneAssumption ==
    Nobody \notin Consumer /\ NoOffset \notin Nat /\ NoKey \notin 1 .. MaxRows

VARIABLES owner, committed, pos, consumerAt, life, inbox, handled, skipped, interrupted

Inbox == INSTANCE Notifications WITH
    topic <- published, Message <- 1 .. MaxRows, KeyOf <- [i \in 1 .. MaxRows |-> i],
    MaxMessages <- 2 * MaxRows, Faults <- ConsumerFaults

inboxVars == <<owner, committed, pos, consumerAt, life, inbox, handled, skipped, interrupted>>
pipelineVars == <<allVars, inboxVars>>

PipelineInit == WorkerInit /\ Inbox!NotifInit

StepOfWorker(w) == WorkerStep(w) /\ UNCHANGED inboxVars

StepOfConsumer(c) == Inbox!ConsumerStep(c) /\ UNCHANGED allVars

\* The type of a row plays no part on its way: every row is an ORDER_PAID here.
PipelineNext ==
    \/ /\ \/ \E o \in Order : Insert(o, "ORDER_PAID")
          \/ \E w \in Worker : WorkerStep(w) \/ Start(w) \/ Signal(w) \/ Crash(w)
       /\ UNCHANGED inboxVars
    \/ Inbox!ConsumerNext /\ UNCHANGED allVars

\* Awaited calls return or throw, timers fire, and Kafka delivers what is there.
PipelineSpec ==
    /\ PipelineInit /\ [][PipelineNext]_pipelineVars
    /\ \A w \in Worker : WF_pipelineVars(StepOfWorker(w))
    /\ \A c \in Consumer : WF_pipelineVars(StepOfConsumer(c))
-----------------------------------------------------------------------------
(***************************************************************************)
(* Properties                                                              *)
(***************************************************************************)

EndToEnd == INSTANCE AtMostOnce WITH
    Event <- 1 .. MaxRows, offered <- DOMAIN outbox, handled <- handled

(***************************************************************************)
(* From the insertion of a row to its handler: an event is handled at most *)
(* once and only if orders-service inserted it, although the Kafka client  *)
(* repeats sends, Kafka repeats deliveries, and processes stop and start.  *)
(***************************************************************************)
HandledOncePerRow == EndToEnd!Spec

(***************************************************************************)
(* One worker and one consumer: events are handled less than BatchSize     *)
(* places before their turn, although the worker publishes a batch in any  *)
(* order and is restarted, and Kafka repeats and refuses sends.            *)
(***************************************************************************)
HandledInBatchOrder ==
    (\A v, w \in Worker : v = w) /\ (\A c, d \in Consumer : c = d) =>
        \A m, n \in DOMAIN handled : m < n => handled[m] < handled[n] + BatchSize

(***************************************************************************)
(* A row marked SENT reaches the handler, unless the consumer was stopped, *)
(* or started reading behind it because nothing was committed yet.         *)
(***************************************************************************)
SentIsHandled ==
    \A i \in 1 .. MaxRows :
        i \in RowsIn("SENT")
            ~> \/ \E n \in DOMAIN handled : handled[n] = i
               \/ \A c \in Consumer : consumerAt[c] = "down" \/ life[c] # "running"
               \/ \E n \in skipped : published[n] = i
=============================================================================
