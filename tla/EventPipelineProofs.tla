-------------------------- MODULE EventPipelineProofs --------------------------
(***************************************************************************)
(* What holds from the outbox table to the handler, for any number of      *)
(* workers, consumers and rows, any batch size and all faults.  The worker *)
(* and the consumer are composed: a step of the pipeline is one of the     *)
(* worker, during which the topic can only grow for the consumers, or one  *)
(* of a consumer, which the workers do not notice.                         *)
(***************************************************************************)
EXTENDS EventPipeline, OutboxWorkerProofs

Proven == INSTANCE NotificationsProofs WITH
    topic <- published, Message <- 1 .. MaxRows, KeyOf <- [i \in 1 .. MaxRows |-> i],
    MaxMessages <- 2 * MaxRows, Faults <- ConsumerFaults

LEMMA AssumptionsHold == Proven!ConsumerAssumption /\ Proven!OffsetAssumption
BY NoneAssumption DEF Proven!ConsumerAssumption, Proven!OffsetAssumption

LEMMA SameInit == Inbox!NotifInit => Proven!NotifInit
BY DEF Inbox!NotifInit, Proven!NotifInit

LEMMA SameConsumerStep == Inbox!ConsumerNext => Proven!ConsumerNext
BY DEF Inbox!ConsumerNext, Proven!ConsumerNext, Inbox!ConsumerStep, Proven!ConsumerStep,
       Inbox!Assign, Proven!Assign, Inbox!Deliver, Proven!Deliver,
       Inbox!TryMarkProcessed, Proven!TryMarkProcessed, Inbox!HandleEvent, Proven!HandleEvent,
       Inbox!StopConsumer, Proven!StopConsumer, Inbox!ExitConsumer, Proven!ExitConsumer,
       Inbox!Commit, Proven!Commit, Inbox!StartConsumer, Proven!StartConsumer,
       Inbox!SignalConsumer, Proven!SignalConsumer, Inbox!CrashConsumer, Proven!CrashConsumer,
       Inbox!ConsumerGone, Proven!ConsumerGone, Inbox!Go, Proven!Go, Inbox!Pass, Proven!Pass,
       Inbox!Mark, Proven!Mark, Inbox!InHand, Proven!InHand, Inbox!groupVars, Proven!groupVars
-----------------------------------------------------------------------------
(***************************************************************************)
(* Whose step a step of the pipeline is.                                   *)
(***************************************************************************)
LEMMA StepOfPipeline ==
    ASSUME [PipelineNext]_pipelineVars
    PROVE  \/ WorkerNext /\ UNCHANGED inboxVars
           \/ Proven!ConsumerNext /\ UNCHANGED allVars
           \/ UNCHANGED pipelineVars
BY SameConsumerStep DEF PipelineNext, WorkerNext, OrderOutboxType

(***************************************************************************)
(* Every step of the pipeline is one of the outbox workers or leaves them  *)
(* alone; what OutboxWorkerProofs proves of them holds in the pipeline.    *)
(***************************************************************************)
THEOREM PipelineUsesWorker == PipelineSpec => WorkerSpec
<1>1. [PipelineNext]_pipelineVars => [WorkerNext]_allVars
  BY StepOfPipeline DEF pipelineVars
<1>2. PipelineInit => WorkerInit
  BY DEF PipelineInit
<1> QED
  BY <1>1, <1>2, PTL DEF PipelineSpec, WorkerSpec
-----------------------------------------------------------------------------
(***************************************************************************)
(* The invariants of the two sides.  Rows are numbered up to MaxRows, so   *)
(* that what is published are messages.                                    *)
(***************************************************************************)
PipelineInv == WorkerInv /\ Len(outbox) <= MaxRows /\ Proven!NotifInv

LEMMA PipelineInitInv == PipelineInit => PipelineInv
<1> SUFFICES ASSUME PipelineInit PROVE PipelineInv
  OBVIOUS
<1>1. WorkerInv
  BY WorkerInitInv DEF PipelineInit
<1>2. Len(outbox) <= MaxRows
  BY RowsAssumption DEF PipelineInit, WorkerInit, OutboxInit
<1>3. Proven!NotifInv
  BY SameInit, AssumptionsHold, Proven!NotifInitInv DEF PipelineInit
<1> QED
  BY <1>1, <1>2, <1>3 DEF PipelineInv

LEMMA LengthStep ==
    ASSUME OutboxTypeOK, Len(outbox) <= MaxRows, WorkerInv, [WorkerNext]_allVars
    PROVE  Len(outbox') <= MaxRows
<1>1. Len(outbox) \in Nat
  BY DEF OutboxTypeOK
<1>2. ASSUME NEW o \in Order, NEW type \in OrderOutboxType, Insert(o, type)
      PROVE  Len(outbox') <= MaxRows
  BY <1>1, <1>2, RowsAssumption DEF Insert, Enqueue, OutboxTypeOK
<1>3. ASSUME NEW rows, NEW status, SetStatus(rows, status)
      PROVE  Len(outbox') = Len(outbox)
  BY <1>3 DEF SetStatus, OutboxTypeOK
<1>4. ASSUME outbox' # outbox, ~\E rows, status : SetStatus(rows, status)
      PROVE  \E o \in Order, type \in OrderOutboxType : Insert(o, type)
  BY <1>4
  DEF WorkerNext, WorkerStep, allVars, workerVars, SelectPending, UpdateClaimed, Send, Claim,
      MarkAsSent, MarkAsFailed, Mark, Wake, Exit, Crash, Gone, Start, Signal
<1> QED
  BY <1>1, <1>2, <1>3, <1>4

\* For the consumers a step of a worker is a growth of the topic.
LEMMA WorkerStepGrowsTopic ==
    ASSUME PipelineInv, WorkerInv', Len(outbox') <= MaxRows, WorkerNext, UNCHANGED inboxVars
    PROVE  Proven!TopicGrows
<1>1. /\ Len(published) <= Len(published')
      /\ \A n \in 1 .. Len(published) : published'[n] = published[n]
  BY PublishedGrows DEF PipelineInv
<1>2. published' \in Seq(DOMAIN outbox') /\ DOMAIN outbox' \subseteq 1 .. MaxRows
  BY RowsAssumption DEF WorkerInv, WorkerTypeOK, OutboxTypeOK
<1>3. published' \in Seq(1 .. MaxRows)
  BY <1>2, SeqMonotonic
<1>4. UNCHANGED <<owner, committed, pos, consumerAt, life, inbox, handled, skipped, interrupted>>
  BY DEF inboxVars
<1> QED
  BY <1>1, <1>3, <1>4 DEF Proven!TopicGrows, Proven!consumerVars, Proven!groupVars

LEMMA PipelineStepInv == PipelineInv /\ [PipelineNext]_pipelineVars => PipelineInv'
<1> SUFFICES ASSUME PipelineInv, [PipelineNext]_pipelineVars PROVE PipelineInv'
  OBVIOUS
<1>1. WorkerInv' /\ Len(outbox)' <= MaxRows
  <2>1. [WorkerNext]_allVars
    BY StepOfPipeline DEF pipelineVars
  <2>2. OutboxTypeOK
    BY DEF PipelineInv, WorkerInv, WorkerTypeOK
  <2> QED
    BY <2>1, <2>2, LengthStep, WorkerTypeStep, ClaimsStep DEF PipelineInv, WorkerInv
<1>2. CASE WorkerNext /\ UNCHANGED inboxVars
  <2>1. Proven!TopicGrows
    BY <1>1, <1>2, WorkerStepGrowsTopic
  <2>2. Proven!NotifInv'
    BY <2>1, AssumptionsHold, Proven!GrowthInv DEF PipelineInv
  <2> QED
    BY <1>1, <2>2 DEF PipelineInv
<1>3. CASE Proven!ConsumerNext /\ UNCHANGED allVars
  <2>1. Proven!NotifNext
    BY <1>3 DEF Proven!NotifNext
  <2>2. Proven!NotifInv'
    BY <2>1, AssumptionsHold, Proven!NotifStepInv DEF PipelineInv
  <2> QED
    BY <1>1, <2>2 DEF PipelineInv
<1>4. CASE UNCHANGED pipelineVars
  <2>1. UNCHANGED Proven!notifVars
    BY <1>4 DEF pipelineVars, allVars, workerVars, inboxVars, Proven!notifVars,
               Proven!consumerVars, Proven!groupVars
  <2>2. Proven!NotifInv'
    BY <2>1, AssumptionsHold, Proven!NotifStepInv DEF PipelineInv
  <2> QED
    BY <1>1, <2>2 DEF PipelineInv
<1> QED
  BY <1>2, <1>3, <1>4, StepOfPipeline

(***************************************************************************)
(* What the worker and the consumers guarantee alone, they guarantee       *)
(* together, and rows keep within their bound.                             *)
(***************************************************************************)
THEOREM PipelineInvariance == PipelineSpec => []PipelineInv
BY PipelineInitInv, PipelineStepInv, PTL DEF PipelineSpec

(***************************************************************************)
(* The guarantees of the workers in the pipeline: a row is SENT only if it *)
(* is in the topic, in the hands of one worker, never sent again, and not  *)
(* forgotten while statements succeed and processes are let finish.        *)
(***************************************************************************)
THEOREM PipelineKeepsClaims ==
    PipelineSpec => /\ [](SentIsPublished /\ ClaimedByOne /\ NothingStranded /\ DisorderBounded)
                    /\ NeverSentAgain /\ ResolvedStays
BY PipelineUsesWorker, SentIsPublishedHolds, ClaimedByOneHolds, NothingStrandedHolds,
   DisorderBoundedHolds, NeverSentAgainHolds, ResolvedStaysHolds, PTL
-----------------------------------------------------------------------------
\* What the consumers notice of a step of the pipeline.
LEMMA ConsumersSee ==
    ASSUME PipelineInv, PipelineInv', [PipelineNext]_pipelineVars
    PROVE  Proven!ConsumerNext \/ Proven!TopicGrows \/ UNCHANGED Proven!notifVars
<1>1. CASE WorkerNext /\ UNCHANGED inboxVars
  BY <1>1, WorkerStepGrowsTopic DEF PipelineInv
<1>2. CASE UNCHANGED pipelineVars
  BY <1>2 DEF pipelineVars, allVars, workerVars, inboxVars, Proven!notifVars,
              Proven!consumerVars, Proven!groupVars
<1> QED
  BY <1>1, <1>2, StepOfPipeline

(***************************************************************************)
(* Behind the outbox workers the consumers lose what they lose alone: the  *)
(* events whose marking was interrupted, and no others (MarkedIsHandled).  *)
(***************************************************************************)
THEOREM PipelineForgetsNothing == PipelineSpec => [](Proven!ForgottenFits)
<1>1. PipelineInit => Proven!ForgottenFits
  BY SameInit, AssumptionsHold, Proven!ForgottenInit DEF PipelineInit
<1>2. PipelineInv /\ PipelineInv' /\ Proven!ForgottenFits /\ [PipelineNext]_pipelineVars
          => Proven!ForgottenFits'
  BY ConsumersSee, AssumptionsHold, Proven!ForgottenStep DEF PipelineInv
<1> QED
  BY <1>1, <1>2, PipelineInvariance, PTL DEF PipelineSpec

(***************************************************************************)
(* Kafka's promise and the inbox together: an event whose message lies     *)
(* below the committed offset has been handled, or some consumer has it in *)
(* hand, unless its message was passed over unseen (see PassedIsMarked) or *)
(* the call that marked it was interrupted (see MarkedIsHandled).          *)
(***************************************************************************)
CommittedIsHandled ==
    committed # NoOffset =>
        \A n \in 1 .. committed :
            \/ n \in skipped \/ published[n] \in interrupted
            \/ \E k \in DOMAIN handled : handled[k] = published[n]
            \/ \E c \in Consumer : consumerAt[c] = "inserted" /\ Inbox!InHand(c) = published[n]

THEOREM CommittedIsHandledHolds == PipelineSpec => []CommittedIsHandled
<1>1. PipelineInv /\ Proven!ForgottenFits => CommittedIsHandled
  <2> SUFFICES ASSUME PipelineInv, Proven!ForgottenFits, committed # NoOffset,
                      NEW n \in 1 .. committed,
                      n \notin skipped, published[n] \notin interrupted
               PROVE  \/ \E k \in DOMAIN handled : handled[k] = published[n]
                      \/ \E c \in Consumer : /\ consumerAt[c] = "inserted"
                                             /\ Inbox!InHand(c) = published[n]
    BY DEF CommittedIsHandled
  <2>1. Proven!PassedIsMarked
    BY AssumptionsHold, Proven!PassedSeenMarked DEF PipelineInv
  <2>2. published[n] \in 1 .. MaxRows
    <3>1. published \in Seq(1 .. MaxRows) /\ n \in 1 .. Len(published)
      BY DEF PipelineInv, Proven!NotifInv, Proven!NotifTypeOK
    <3> QED
      BY <3>1, ElementOfSeq
  <2>3. published[n] \in inbox
    BY <2>1, <2>2, NoneAssumption DEF Proven!PassedIsMarked
  <2>4. published[n] \notin Proven!Forgotten
    BY DEF Proven!ForgottenFits, Proven!MarkedIsHandled
  <2> QED
    BY <2>3, <2>4
    DEF Proven!Forgotten, Proven!HandledKeys, Proven!AboutToHandle, Inbox!InHand, Proven!InHand
<1> QED
  BY <1>1, PipelineForgetsNothing, PipelineInvariance, PTL

(***************************************************************************)
(* One worker and one consumer: the worker publishes a row less than       *)
(* BatchSize places early, and the consumer does not let messages overtake *)
(* each other, so an event is handled less than BatchSize places early,    *)
(* under all faults of both.                                               *)
(***************************************************************************)
THEOREM HandledInBatchOrderHolds == PipelineSpec => []HandledInBatchOrder
<1> DEFINE Ordered == Proven!OneConsumer => Proven!HandledInTopicOrder
<1>1. PipelineSpec => []Ordered
  <2>1. CASE Proven!OneConsumer
    <3>1. PipelineInit => Proven!TopicOrderInv
      BY SameInit, AssumptionsHold, Proven!TopicOrderInit DEF PipelineInit
    <3>2. PipelineInv /\ PipelineInv' /\ Proven!TopicOrderInv /\ [PipelineNext]_pipelineVars
              => Proven!TopicOrderInv'
      BY <2>1, ConsumersSee, AssumptionsHold, Proven!TopicOrderStep DEF PipelineInv
    <3>3. Proven!TopicOrderInv => Ordered
      BY DEF Proven!TopicOrderInv
    <3> HIDE DEF Ordered
    <3> QED
      BY <3>1, <3>2, <3>3, PipelineInvariance, PTL DEF PipelineSpec
  <2>2. CASE ~Proven!OneConsumer
    <3>1. Ordered
      BY <2>2
    <3> HIDE DEF Ordered
    <3> QED
      BY <3>1, PTL
  <2> QED
    BY <2>1, <2>2
<1>2. PipelineInv /\ DisorderBounded /\ Ordered => HandledInBatchOrder
  <2> SUFFICES ASSUME PipelineInv, DisorderBounded, Ordered, OneWorker,
                      \A c, d \in Consumer : c = d,
                      NEW m \in DOMAIN handled, NEW n \in DOMAIN handled, m < n
               PROVE  handled[m] < handled[n] + BatchSize
    BY DEF HandledInBatchOrder, OneWorker
  <2>1. PICK a, b \in DOMAIN published :
           /\ a < b
           /\ [i \in 1 .. MaxRows |-> i][published[a]] = handled[m]
           /\ [i \in 1 .. MaxRows |-> i][published[b]] = handled[n]
    BY DEF Proven!OneConsumer, Proven!HandledInTopicOrder
  <2>2. published[a] \in 1 .. MaxRows /\ published[b] \in 1 .. MaxRows
    <3>1. published \in Seq(1 .. MaxRows)
      BY DEF PipelineInv, Proven!NotifInv, Proven!NotifTypeOK
    <3>2. DOMAIN published = 1 .. Len(published)
      BY <3>1, LenProperties
    <3>3. a \in 1 .. Len(published) /\ b \in 1 .. Len(published)
      BY <2>1, <3>2
    <3> QED
      BY <3>1, <3>3, ElementOfSeq
  <2>3. published[a] = handled[m] /\ published[b] = handled[n]
    BY <2>1, <2>2
  <2> QED
    BY <2>1, <2>3 DEF DisorderBounded, OneWorker
<1> HIDE DEF Ordered
<1> QED
  BY <1>1, <1>2, PipelineInvariance, PipelineKeepsClaims, PTL
-----------------------------------------------------------------------------
LEMMA RowsOnlyInserted ==
    ASSUME PipelineInv, PipelineInv', WorkerNext
    PROVE  \/ DOMAIN outbox' = DOMAIN outbox
           \/ \E i \in 1 .. MaxRows : DOMAIN outbox' = DOMAIN outbox \cup {i}
<1>1. ASSUME NEW o \in Order, NEW type \in OrderOutboxType, Insert(o, type)
      PROVE  \E i \in 1 .. MaxRows : DOMAIN outbox' = DOMAIN outbox \cup {i}
  <2>1. DOMAIN outbox' = DOMAIN outbox \cup {Len(outbox) + 1} /\ Len(outbox) \in Nat
    <3>1. OutboxTypeOK
      BY DEF PipelineInv, WorkerInv, WorkerTypeOK
    <3> QED
      BY <1>1, <3>1, InsertRow, RowsAreNumbers DEF Insert
  <2>2. Len(outbox) + 1 \in 1 .. MaxRows
    BY <1>1, <2>1, RowsAssumption DEF Insert
  <2> QED
    BY <2>1, <2>2
<1>2. ASSUME NEW rows, NEW status, SetStatus(rows, status)
      PROVE  DOMAIN outbox' = DOMAIN outbox
  BY <1>2 DEF SetStatus
<1>3. ASSUME outbox' # outbox, ~\E rows, status : SetStatus(rows, status)
      PROVE  \E o \in Order, type \in OrderOutboxType : Insert(o, type)
  BY <1>3
  DEF WorkerNext, WorkerStep, allVars, workerVars, SelectPending, UpdateClaimed, Send, Claim,
      MarkAsSent, MarkAsFailed, Mark, Wake, Exit, Crash, Gone, Start, Signal
<1> QED
  BY <1>1, <1>2, <1>3

LEMMA EndToEndStep ==
    PipelineInv /\ PipelineInv' /\ [PipelineNext]_pipelineVars
        => [EndToEnd!Next]_<<DOMAIN outbox, handled>>
<1> SUFFICES ASSUME PipelineInv, PipelineInv', [PipelineNext]_pipelineVars
             PROVE  \/ EndToEnd!Next
                    \/ DOMAIN outbox' = DOMAIN outbox /\ handled' = handled
  OBVIOUS
<1>1. CASE WorkerNext /\ UNCHANGED inboxVars
  <2>1. handled' = handled
    BY <1>1 DEF inboxVars
  <2> QED
    BY <1>1, <2>1, RowsOnlyInserted DEF EndToEnd!Next, EndToEnd!Offer
<1>2. ASSUME NEW c \in Consumer, Proven!HandleEvent(c), UNCHANGED allVars
      PROVE  EndToEnd!Next
  <2>1. /\ handled' = Append(handled, Proven!InHand(c))
        /\ Proven!InHand(c) \in Proven!Offered \ Proven!HandledKeys
    BY <1>2, AssumptionsHold, Proven!HandleEventInv DEF PipelineInv
  <2>2. Proven!Offered \subseteq DOMAIN outbox /\ DOMAIN outbox \subseteq 1 .. MaxRows
    <3>1. published \in Seq(DOMAIN outbox) /\ outbox \in Seq(OutboxRow) /\ Len(outbox) <= MaxRows
      BY DEF PipelineInv, WorkerInv, WorkerTypeOK, OutboxTypeOK
    <3>2. DOMAIN published = 1 .. Len(published) /\ DOMAIN outbox = 1 .. Len(outbox)
          /\ Len(outbox) \in Nat
      BY <3>1, LenProperties
    <3>3. \A n \in DOMAIN published : published[n] \in DOMAIN outbox
      BY <3>1, <3>2, ElementOfSeq
    <3>4. DOMAIN outbox \subseteq 1 .. MaxRows
      BY <3>1, <3>2, RowsAssumption
    <3> QED
      BY <3>3, <3>4 DEF Proven!Offered
  <2>3. DOMAIN outbox' = DOMAIN outbox
    BY <1>2 DEF allVars
  <2>4. EndToEnd!Handled = Proven!HandledKeys
    BY DEF EndToEnd!Handled, Proven!HandledKeys
  <2>5. EndToEnd!Handle(Proven!InHand(c))
    BY <2>1, <2>2, <2>3, <2>4 DEF EndToEnd!Handle
  <2> QED
    BY <2>1, <2>2, <2>5 DEF EndToEnd!Next
<1>3. ASSUME NEW c \in Consumer, UNCHANGED allVars,
             \/ Proven!Assign(c) \/ Proven!Deliver(c) \/ Proven!TryMarkProcessed(c)
             \/ Proven!StopConsumer(c) \/ Proven!ExitConsumer(c) \/ Proven!Commit(c)
             \/ Proven!StartConsumer(c) \/ Proven!SignalConsumer(c) \/ Proven!CrashConsumer(c)
      PROVE  DOMAIN outbox' = DOMAIN outbox /\ handled' = handled
  BY <1>3
  DEF Proven!Assign, Proven!Deliver, Proven!TryMarkProcessed, Proven!StopConsumer,
      Proven!ExitConsumer, Proven!Commit, Proven!StartConsumer, Proven!SignalConsumer,
      Proven!CrashConsumer, Proven!ConsumerGone, allVars
<1>4. CASE UNCHANGED pipelineVars
  BY <1>4 DEF pipelineVars, allVars, inboxVars
<1> QED
  BY <1>1, <1>2, <1>3, <1>4, StepOfPipeline DEF Proven!ConsumerNext, Proven!ConsumerStep

(***************************************************************************)
(* From the insertion of a row to its handler an event is handled at most  *)
(* once, and only if it was inserted: the pipeline as a whole implements   *)
(* AtMostOnce, whatever fails in any number of workers and consumers.      *)
(***************************************************************************)
THEOREM HandledOncePerRowHolds == PipelineSpec => HandledOncePerRow
<1>1. PipelineInit => EndToEnd!Init
  BY DEF PipelineInit, WorkerInit, OutboxInit, Inbox!NotifInit, EndToEnd!Init
<1> QED
  BY <1>1, EndToEndStep, PipelineInvariance, PTL
  DEF PipelineSpec, HandledOncePerRow, EndToEnd!Spec
=============================================================================
