-------------------------- MODULE OutboxWorkerProofs --------------------------
(***************************************************************************)
(* What the outbox worker guarantees for any number of workers, orders and *)
(* rows, any batch size and any faults.                                    *)
(***************************************************************************)
EXTENDS OutboxWorker, TLAPS, FiniteSetTheorems, SequenceTheorems

(***************************************************************************)
(* The strengthening.  A worker has rows in hand exactly while it deals    *)
(* with them; those it has not tried to send are PROCESSING, in nobody     *)
(* else's hands (ClaimedByOne) and not in the topic; a row is published    *)
(* before it is marked SENT.                                               *)
(***************************************************************************)
Busy == {"send", "markAsSent", "markAsFailed"}

Untried(w, n) == at[w] = "send" \/ n > 1

Hands ==
    \A w \in Worker :
        /\ batch[w] # <<>> <=> at[w] \in Busy
        /\ \A n \in DOMAIN batch[w] : outbox[batch[w][n]].status # "PENDING"

Unpublished ==
    /\ \A i \in RowsIn("PENDING") : ~IsPublished(i)
    /\ \A w \in Worker : \A n \in DOMAIN batch[w] :
          Untried(w, n) => ~IsPublished(batch[w][n])

PublishedFirst ==
    \A w \in Worker : at[w] = "markAsSent" => IsPublished(batch[w][1])

Claims == Hands /\ ClaimedByOne /\ Unpublished /\ PublishedFirst /\ SentIsPublished

WorkerInv == WorkerTypeOK /\ Claims

LEMMA WorkerInitInv == WorkerInit => WorkerInv
<1> SUFFICES ASSUME WorkerInit PROVE WorkerInv
  OBVIOUS
<1>1. WorkerTypeOK
  BY EmptySeq DEF WorkerInit, OutboxInit, WorkerTypeOK, OutboxTypeOK, Await
<1>2. Claims
  BY DEF WorkerInit, OutboxInit, Claims, Hands, ClaimedByOne, Unpublished, PublishedFirst,
         SentIsPublished, RowsIn, InBatch, Busy
<1> QED
  BY <1>1, <1>2 DEF WorkerInv
-----------------------------------------------------------------------------
(***************************************************************************)
(* What the operators on the table, the topic and the batch do.            *)
(***************************************************************************)
LEMMA SetStatusRows ==
    ASSUME OutboxTypeOK, NEW rows \in SUBSET DOMAIN outbox, NEW status \in OutboxStatus,
           SetStatus(rows, status)
    PROVE  /\ OutboxTypeOK'
           /\ DOMAIN outbox' = DOMAIN outbox
           /\ \A i \in DOMAIN outbox :
                 outbox'[i].status = IF i \in rows THEN status ELSE outbox[i].status
<1>1. outbox \in [1 .. Len(outbox) -> OutboxRow] /\ DOMAIN outbox = 1 .. Len(outbox)
      /\ Len(outbox) \in Nat
  BY LenProperties DEF OutboxTypeOK
<1>2. \A i \in DOMAIN outbox :
         /\ outbox'[i] \in OutboxRow
         /\ outbox'[i].status = IF i \in rows THEN status ELSE outbox[i].status
  BY <1>1 DEF SetStatus, OutboxRow
<1>3. DOMAIN outbox' = 1 .. Len(outbox)
  BY <1>1 DEF SetStatus
<1>4. outbox' \in Seq(OutboxRow)
  BY <1>1, <1>2, <1>3 DEF SetStatus
<1> QED
  BY <1>1, <1>2, <1>3, <1>4 DEF OutboxTypeOK

LEMMA InsertRow ==
    ASSUME OutboxTypeOK, NEW o \in Order, NEW type \in OrderOutboxType, Enqueue(o, type)
    PROVE  /\ OutboxTypeOK'
           /\ DOMAIN outbox' = DOMAIN outbox \cup {Len(outbox) + 1}
           /\ Len(outbox) + 1 \notin DOMAIN outbox
           /\ \A i \in DOMAIN outbox : outbox'[i] = outbox[i]
           /\ outbox'[Len(outbox) + 1].status = "PENDING"
BY DEF OutboxTypeOK, OutboxRow, OutboxStatus, Enqueue

LEMMA PublishRow ==
    ASSUME NEW w \in Worker, NEW times \in {1, 2}, WorkerTypeOK,
           batch[w] # <<>>, Publish(w, times)
    PROVE  /\ published' \in Seq(DOMAIN outbox)
           /\ \A i : IsPublished(i)' <=> IsPublished(i) \/ i = batch[w][1]
           /\ \A n \in DOMAIN published' \ DOMAIN published : published'[n] = batch[w][1]
<1> DEFINE row == Head(batch[w])
           sent == [n \in 1 .. times |-> row]
<1>1. row = batch[w][1] /\ row \in DOMAIN outbox
  BY DEF WorkerTypeOK
<1>2. sent \in Seq(DOMAIN outbox) /\ Len(sent) = times /\ \A n \in 1 .. times : sent[n] = row
  BY <1>1
<1>3. published \in Seq(DOMAIN outbox) /\ published' = published \o sent
  BY DEF WorkerTypeOK, Publish
<1> HIDE DEF sent, row
<1>4. /\ published' \in Seq(DOMAIN outbox)
      /\ Len(published') = Len(published) + times
      /\ \A n \in 1 .. Len(published) + times :
            published'[n] = IF n <= Len(published) THEN published[n] ELSE row
  BY <1>2, <1>3, ConcatProperties
<1>5. DOMAIN published = 1 .. Len(published) /\ Len(published) \in Nat
      /\ DOMAIN published' = 1 .. Len(published) + times
  BY <1>3, <1>4, LenProperties
<1>6. ASSUME NEW i PROVE IsPublished(i)' <=> IsPublished(i) \/ i = row
  <2>1. published'[Len(published) + 1] = row /\ Len(published) + 1 \in DOMAIN published'
    BY <1>4, <1>5
  <2>2. \A n \in DOMAIN published : n \in DOMAIN published' /\ published'[n] = published[n]
    BY <1>4, <1>5
  <2> QED
    BY <1>4, <1>5, <2>1, <2>2 DEF IsPublished
<1> QED
  BY <1>1, <1>4, <1>5, <1>6

(***************************************************************************)
(* A listing of a finite set names each of its elements exactly once: a    *)
(* surjection between sets of one size is injective.                       *)
(***************************************************************************)
LEMMA ListingOnce ==
    ASSUME NEW rows, IsFiniteSet(rows), NEW listing \in Listings(rows)
    PROVE  /\ listing \in Seq(rows)
           /\ \A i : i \in rows <=> \E n \in DOMAIN listing : listing[n] = i
           /\ \A m, n \in DOMAIN listing : listing[m] = listing[n] => m = n
           /\ listing # <<>> <=> rows # {}
<1> DEFINE N == Cardinality(rows)
<1>1. N \in Nat
  BY FS_CardinalityType
<1> HIDE DEF N
<1>2. listing \in [1 .. N -> rows] /\ \A i \in rows : \E n \in 1 .. N : listing[n] = i
  BY DEF Listings, N
<1>3. IsFiniteSet(1 .. N) /\ Cardinality(1 .. N) = N
  BY <1>1, FS_Interval
<1>4. listing \in Injection(1 .. N, rows)
  <2>1. listing \in Surjection(1 .. N, rows)
    BY <1>2 DEF Surjection
  <2> QED
    BY <1>3, <2>1, FS_SurjSameCardinalityImpliesInj DEF N
<1>5. \A m, n \in 1 .. N : listing[m] = listing[n] => m = n
  BY <1>4 DEF Injection, IsInjective
<1>6. listing \in Seq(rows) /\ Len(listing) = N
  BY <1>1, <1>2
<1> QED
  BY <1>1, <1>2, <1>5, <1>6, EmptySeq

LEMMA RowsFinite ==
    ASSUME OutboxTypeOK, NEW rows \in SUBSET DOMAIN outbox
    PROVE  IsFiniteSet(rows)
<1>1. DOMAIN outbox = 1 .. Len(outbox) /\ Len(outbox) \in Nat
  BY LenProperties DEF OutboxTypeOK
<1>2. IsFiniteSet(1 .. Len(outbox))
  BY <1>1, FS_Interval
<1> QED
  BY <1>1, <1>2, FS_Subset

LEMMA NextRowBatch ==
    ASSUME NEW w \in Worker, WorkerTypeOK, batch[w] # <<>>, NextRow(w)
    PROVE  /\ batch' \in [Worker -> Seq(DOMAIN outbox)]
           /\ \A v \in Worker \ {w} : batch'[v] = batch[v] /\ at'[v] = at[v]
           /\ \A n \in DOMAIN batch'[w] :
                 n + 1 \in DOMAIN batch[w] /\ n + 1 > 1 /\ batch'[w][n] = batch[w][n + 1]
           /\ \A n \in DOMAIN batch[w] :
                 n > 1 => n - 1 \in DOMAIN batch'[w] /\ batch'[w][n - 1] = batch[w][n]
           /\ batch'[w] # <<>> <=> at'[w] \in Busy
           /\ at'[w] \in {"send", "sleep"}
           /\ at' \in [Worker -> Await \cup {"ended", "down"}]
           /\ timer' \in [Worker -> BOOLEAN]
<1>1. batch[w] \in Seq(DOMAIN outbox) /\ batch' = [batch EXCEPT ![w] = Tail(@)]
  BY DEF WorkerTypeOK, NextRow
<1>2. /\ Tail(batch[w]) \in Seq(DOMAIN outbox)
      /\ Len(Tail(batch[w])) = Len(batch[w]) - 1
      /\ \A n \in 1 .. Len(Tail(batch[w])) : Tail(batch[w])[n] = batch[w][n + 1]
      /\ Len(batch[w]) \in Nat \ {0}
      /\ DOMAIN batch[w] = 1 .. Len(batch[w])
  BY <1>1, HeadTailProperties, EmptySeq, LenProperties
<1>3. /\ batch' \in [Worker -> Seq(DOMAIN outbox)]
      /\ batch'[w] = Tail(batch[w])
      /\ \A v \in Worker \ {w} : batch'[v] = batch[v]
  BY <1>1, <1>2 DEF WorkerTypeOK
<1>4. DOMAIN batch'[w] = 1 .. Len(batch[w]) - 1
  BY <1>2, <1>3, LenProperties
<1>5. batch'[w] # <<>> <=> Len(batch[w]) > 1
  <2> DEFINE tail == Tail(batch[w])
             length == Len(batch[w])
  <2>1. tail \in Seq(DOMAIN outbox) /\ Len(tail) = length - 1 /\ length \in Nat \ {0}
    BY <1>2
  <2>2. batch'[w] = tail
    BY <1>3
  <2> HIDE DEF tail, length
  <2>3. tail = <<>> <=> Len(tail) = 0
    BY <2>1, EmptySeq, SeqEqual
  <2>4. tail # <<>> <=> length > 1
    BY <2>1, <2>3
  <2> QED
    BY <2>2, <2>4 DEF length
<1>6. /\ at' = [at EXCEPT ![w] = IF Len(batch[w]) > 1 THEN "send" ELSE "sleep"]
      /\ timer' \in [Worker -> BOOLEAN]
  BY DEF NextRow, GoOn, Sleep, WorkerTypeOK
<1>7. /\ at' \in [Worker -> Await \cup {"ended", "down"}]
      /\ at'[w] = IF Len(batch[w]) > 1 THEN "send" ELSE "sleep"
      /\ \A v \in Worker \ {w} : at'[v] = at[v]
  BY <1>6 DEF WorkerTypeOK, Await
<1> QED
  BY <1>2, <1>3, <1>4, <1>5, <1>6, <1>7 DEF Busy
-----------------------------------------------------------------------------
(***************************************************************************)
(* Types.                                                                  *)
(***************************************************************************)
LEMMA WorkerTypeStep == WorkerInv /\ [WorkerNext]_allVars => WorkerTypeOK'
<1> SUFFICES ASSUME WorkerInv, [WorkerNext]_allVars PROVE WorkerTypeOK'
  OBVIOUS
<1> USE DEF WorkerInv, WorkerTypeOK, Await, OutboxStatus
<1>0. \A w \in Worker : at[w] \in Busy => batch[w] # <<>> /\ Head(batch[w]) \in DOMAIN outbox
  BY HeadTailProperties DEF Claims, Hands
<1>a. \A row, status : {row} \cap RowsIn(status) \in SUBSET DOMAIN outbox
  BY DEF RowsIn
<1>b. ASSUME NEW w \in Worker, Abandon(w)
      PROVE  /\ at' \in [Worker -> Await \cup {"ended", "down"}]
             /\ batch' \in [Worker -> Seq(DOMAIN outbox)]
             /\ timer' \in [Worker -> BOOLEAN]
  BY <1>b, EmptySeq DEF Abandon, Sleep
<1>1. ASSUME NEW o \in Order, NEW type \in OrderOutboxType, Insert(o, type)
      PROVE  WorkerTypeOK'
  <2>1. OutboxTypeOK' /\ DOMAIN outbox \subseteq DOMAIN outbox'
    BY <1>1, InsertRow DEF Insert
  <2>2. Seq(DOMAIN outbox) \subseteq Seq(DOMAIN outbox')
    BY <2>1, SeqMonotonic
  <2> QED
    BY <1>1, <2>1, <2>2 DEF Insert, workerVars
<1>2. ASSUME NEW w \in Worker, SelectPending(w) PROVE WorkerTypeOK'
  <2>1. OldestPending(BatchSize) \in SUBSET DOMAIN outbox
    BY DEF OldestPending, RowsIn
  <2>2. selected' \in [Worker -> SUBSET DOMAIN outbox]
    BY <1>2, <2>1 DEF SelectPending
  <2> QED
    BY <1>2, <2>2 DEF SelectPending, GoOn, Sleep, OutboxTypeOK
<1>3. ASSUME NEW w \in Worker, UpdateClaimed(w) PROVE WorkerTypeOK'
  <2>1. OutboxTypeOK' /\ DOMAIN outbox' = DOMAIN outbox
    <3>1. selected[w] \cap RowsIn("PENDING") \in SUBSET DOMAIN outbox
      BY DEF RowsIn
    <3> QED
      BY <1>3, <3>1, SetStatusRows DEF UpdateClaimed, Claim, OutboxTypeOK
  <2>2. batch' \in [Worker -> Seq(DOMAIN outbox)]
    <3> DEFINE rows == selected[w] \cap RowsIn("PENDING")
    <3>1. CASE UNCHANGED batch
      BY <3>1
    <3>2. ASSUME NEW listing \in Listings(rows), batch' = [batch EXCEPT ![w] = listing]
          PROVE  batch' \in [Worker -> Seq(DOMAIN outbox)]
      <4>1. rows \in SUBSET DOMAIN outbox
        BY DEF RowsIn
      <4> HIDE DEF rows
      <4>2. listing \in Seq(rows)
        BY <4>1, ListingOnce, RowsFinite
      <4>3. listing \in Seq(DOMAIN outbox)
        BY <4>1, <4>2, SeqMonotonic
      <4> QED
        BY <3>2, <4>3
    <3> QED
      BY <1>3, <3>1, <3>2 DEF UpdateClaimed
  <2>3. /\ at' \in [Worker -> Await \cup {"ended", "down"}]
        /\ timer' \in [Worker -> BOOLEAN]
    BY <1>3 DEF UpdateClaimed, GoOn, Sleep
  <2> QED
    BY <1>3, <2>1, <2>2, <2>3 DEF UpdateClaimed
<1>4. ASSUME NEW w \in Worker, Send(w) PROVE WorkerTypeOK'
  <2>1. published' \in Seq(DOMAIN outbox)
    BY <1>0, <1>4, PublishRow DEF Send, Busy
  <2> QED
    BY <1>4, <2>1 DEF Send, GoOn, OutboxTypeOK
<1>5. ASSUME NEW w \in Worker, MarkAsSent(w) PROVE WorkerTypeOK'
  <2>1. OutboxTypeOK' /\ DOMAIN outbox' = DOMAIN outbox
    BY <1>5, <1>a, SetStatusRows DEF MarkAsSent, Mark, OutboxTypeOK
  <2>2. batch[w] # <<>>
    BY <1>0, <1>5 DEF MarkAsSent, Busy
  <2>3. /\ at' \in [Worker -> Await \cup {"ended", "down"}]
        /\ batch' \in [Worker -> Seq(DOMAIN outbox)]
        /\ timer' \in [Worker -> BOOLEAN]
    BY <1>5, <2>2, NextRowBatch DEF MarkAsSent, GoOn
  <2> QED
    BY <1>5, <2>1, <2>3 DEF MarkAsSent
<1>6. ASSUME NEW w \in Worker, MarkAsFailed(w) PROVE WorkerTypeOK'
  <2>1. OutboxTypeOK' /\ DOMAIN outbox' = DOMAIN outbox
    BY <1>6, <1>a, SetStatusRows DEF MarkAsFailed, Mark, OutboxTypeOK
  <2>2. batch[w] # <<>>
    BY <1>0, <1>6 DEF MarkAsFailed, Busy
  <2>3. /\ at' \in [Worker -> Await \cup {"ended", "down"}]
        /\ batch' \in [Worker -> Seq(DOMAIN outbox)]
        /\ timer' \in [Worker -> BOOLEAN]
    BY <1>6, <1>b, <2>2, NextRowBatch DEF MarkAsFailed
  <2> QED
    BY <1>6, <2>1, <2>3 DEF MarkAsFailed
<1>7. ASSUME NEW w \in Worker, Start(w) PROVE WorkerTypeOK'
  BY <1>7 DEF Start, OutboxTypeOK
<1>8. ASSUME NEW w \in Worker, Wake(w) PROVE WorkerTypeOK'
  BY <1>8 DEF Wake, OutboxTypeOK
<1>9. ASSUME NEW w \in Worker, Signal(w) PROVE WorkerTypeOK'
  BY <1>9 DEF Signal, OutboxTypeOK
<1>10. ASSUME NEW w \in Worker, Exit(w) \/ Crash(w) PROVE WorkerTypeOK'
  <2>1. <<>> \in Seq(DOMAIN outbox)
    BY EmptySeq
  <2>2. UNCHANGED <<outbox, published>> /\ Gone(w)
    BY <1>10 DEF Exit, Crash, Gone
  <2> QED
    BY <2>1, <2>2 DEF Gone, OutboxTypeOK
<1>11. CASE UNCHANGED allVars
  BY <1>11 DEF allVars, workerVars, OutboxTypeOK
<1> QED
  BY <1>1, <1>2, <1>3, <1>4, <1>5, <1>6, <1>7, <1>8, <1>9, <1>10, <1>11
  DEF WorkerNext, WorkerStep
-----------------------------------------------------------------------------
(***************************************************************************)
(* Claims, step by step.  The steps that leave the table and the topic     *)
(* alone keep it if workers keep their rows or drop them and stop working. *)
(***************************************************************************)
LEMMA ForgetStep ==
    ASSUME WorkerInv, UNCHANGED <<outbox, published>>,
           \A v \in Worker : \/ at'[v] = at[v] /\ batch'[v] = batch[v]
                             \/ at'[v] \notin Busy /\ batch'[v] = <<>>
    PROVE  Claims'
<1> USE DEF WorkerInv, Claims
<1>0. /\ \A i : IsPublished(i)' <=> IsPublished(i)
      /\ \A status : RowsIn(status)' = RowsIn(status)
  BY DEF IsPublished, RowsIn
<1>1. Hands'
  BY DEF Hands, Busy
<1>2. ClaimedByOne'
  BY DEF ClaimedByOne, InBatch
<1>3. Unpublished'
  BY <1>0 DEF Unpublished, Untried
<1>4. PublishedFirst'
  BY <1>0 DEF PublishedFirst, Busy
<1>5. SentIsPublished'
  BY <1>0 DEF SentIsPublished
<1> QED
  BY <1>1, <1>2, <1>3, <1>4, <1>5

LEMMA InsertStep ==
    ASSUME WorkerInv, NEW o \in Order, NEW type \in OrderOutboxType, Insert(o, type)
    PROVE  Claims'
<1> DEFINE new == Len(outbox) + 1
<1> USE DEF WorkerInv, Claims
<1>0. /\ UNCHANGED workerVars
      /\ DOMAIN outbox' = DOMAIN outbox \cup {new}
      /\ new \notin DOMAIN outbox
      /\ \A i \in DOMAIN outbox : outbox'[i] = outbox[i]
      /\ outbox'[new].status = "PENDING"
  BY InsertRow DEF Insert, WorkerTypeOK
<1> HIDE DEF new
<1>1. \A w \in Worker : \A n \in DOMAIN batch[w] : batch[w][n] \in DOMAIN outbox
  BY DEF WorkerTypeOK
<1>2. \A i : IsPublished(i)' <=> IsPublished(i)
  BY <1>0 DEF IsPublished, workerVars
<1>3. ~IsPublished(new)
  BY <1>0 DEF IsPublished, WorkerTypeOK
<1>4. Hands'
  BY <1>0, <1>1 DEF Hands, workerVars
<1>5. ClaimedByOne'
  BY <1>0, <1>1 DEF ClaimedByOne, InBatch, workerVars
<1>6. Unpublished'
  BY <1>0, <1>2, <1>3 DEF Unpublished, Untried, workerVars, RowsIn
<1>7. PublishedFirst'
  BY <1>0, <1>2 DEF PublishedFirst, workerVars
<1>8. SentIsPublished'
  BY <1>0, <1>2 DEF SentIsPublished, RowsIn
<1> QED
  BY <1>4, <1>5, <1>6, <1>7, <1>8

(***************************************************************************)
(* A claim takes rows that are still PENDING, hence in nobody's hands.     *)
(***************************************************************************)
LEMMA ClaimStep ==
    ASSUME WorkerInv, NEW w \in Worker, UpdateClaimed(w)
    PROVE  Claims'
<1> DEFINE rows == selected[w] \cap RowsIn("PENDING")
<1> USE DEF WorkerInv, Claims
<1>0. batch[w] = <<>> /\ at[w] = "update" /\ published' = published
  BY DEF UpdateClaimed, Hands, Busy
<1>1. rows \in SUBSET DOMAIN outbox /\ IsFiniteSet(rows) /\ OutboxTypeOK
  BY RowsFinite DEF WorkerTypeOK, RowsIn
<1>2. \A i : IsPublished(i)' <=> IsPublished(i)
  BY <1>0 DEF IsPublished
<1>3. \A i \in DOMAIN outbox : i \in rows => outbox[i].status = "PENDING"
  BY DEF RowsIn
<1>4. \A v \in Worker : \A n \in DOMAIN batch[v] : batch[v][n] \notin rows
                                               /\ batch[v][n] \in DOMAIN outbox
  BY <1>3 DEF Hands, WorkerTypeOK
<1>5. SetStatus(rows, "PROCESSING") => 
         /\ DOMAIN outbox' = DOMAIN outbox
         /\ \A i \in DOMAIN outbox :
               outbox'[i].status = IF i \in rows THEN "PROCESSING" ELSE outbox[i].status
  BY <1>1, SetStatusRows DEF OutboxStatus
<1>6. \A v \in Worker \ {w} : at'[v] = at[v]
  BY DEF UpdateClaimed, GoOn, Sleep, WorkerTypeOK
<1>7. CASE DbFault /\ (Claim(selected[w]) \/ UNCHANGED outbox) /\ Sleep(w) /\ UNCHANGED batch
  <2>1. /\ DOMAIN outbox' = DOMAIN outbox
        /\ \A i \in DOMAIN outbox :
              \/ outbox'[i].status = outbox[i].status
              \/ i \in rows /\ outbox'[i].status = "PROCESSING"
    BY <1>5, <1>7 DEF Claim
  <2>2. at'[w] = "sleep" /\ batch' = batch
    BY <1>7 DEF Sleep, WorkerTypeOK
  <2> HIDE DEF rows
  <2>3. Hands'
    BY <1>0, <1>4, <1>6, <2>1, <2>2 DEF Hands, Busy
  <2>4. ClaimedByOne'
    BY <1>0, <1>4, <1>6, <2>1, <2>2 DEF ClaimedByOne, InBatch
  <2>5. Unpublished'
    BY <1>0, <1>2, <1>6, <2>1, <2>2 DEF Unpublished, Untried, RowsIn
  <2>6. PublishedFirst' /\ SentIsPublished'
    BY <1>2, <1>6, <2>1, <2>2 DEF PublishedFirst, SentIsPublished, RowsIn
  <2> QED
    BY <2>3, <2>4, <2>5, <2>6
<1>8. ASSUME NEW listing \in Listings(rows), batch' = [batch EXCEPT ![w] = listing],
             Claim(selected[w]), IF rows = {} THEN Sleep(w) ELSE GoOn(w, "send")
      PROVE  Claims'
  <2>1. /\ DOMAIN outbox' = DOMAIN outbox
        /\ \A i \in DOMAIN outbox :
              outbox'[i].status = IF i \in rows THEN "PROCESSING" ELSE outbox[i].status
    BY <1>5, <1>8 DEF Claim
  <2>2. /\ at'[w] = IF rows = {} THEN "sleep" ELSE "send"
        /\ batch'[w] = listing
        /\ \A v \in Worker \ {w} : batch'[v] = batch[v]
    BY <1>8 DEF Sleep, GoOn, WorkerTypeOK
  <2>3. \A i \in rows : ~IsPublished(i)
    BY DEF Unpublished
  <2> HIDE DEF rows
  <2>4. /\ \A n \in DOMAIN listing : listing[n] \in rows
        /\ \A m, n \in DOMAIN listing : listing[m] = listing[n] => m = n
        /\ listing # <<>> <=> rows # {}
    BY <1>1, <1>8, ListingOnce
  <2>5. Hands'
    BY <1>1, <1>4, <1>6, <2>1, <2>2, <2>4 DEF Hands, Busy
  <2>6. ClaimedByOne'
    <3>1. ASSUME NEW v \in Worker, NEW n \in DOMAIN batch'[v]
          PROVE  /\ Untried(v, n)' => outbox'[batch'[v][n]].status = "PROCESSING"
                 /\ \A m \in DOMAIN batch'[v] : batch'[v][m] = batch'[v][n] => m = n
      BY <1>1, <1>4, <1>6, <2>1, <2>2, <2>4 DEF ClaimedByOne, Untried
    <3>2. ASSUME NEW v \in Worker, NEW u \in Worker, NEW i \in DOMAIN outbox,
                 InBatch(v, i)', InBatch(u, i)'
          PROVE  v = u
      BY <1>4, <2>2, <2>4, <3>2 DEF ClaimedByOne, InBatch
    <3> QED
      BY <2>1, <3>1, <3>2 DEF ClaimedByOne, Untried
  <2>7. Unpublished'
    BY <1>2, <1>6, <2>1, <2>2, <2>3, <2>4 DEF Unpublished, Untried, RowsIn
  <2>8. PublishedFirst' /\ SentIsPublished'
    BY <1>2, <1>6, <2>1, <2>2 DEF PublishedFirst, SentIsPublished, RowsIn
  <2> QED
    BY <2>5, <2>6, <2>7, <2>8
<1> QED
  BY <1>7, <1>8 DEF UpdateClaimed

LEMMA SendStep ==
    ASSUME WorkerInv, NEW w \in Worker, Send(w)
    PROVE  Claims'
<1> DEFINE row == batch[w][1]
<1> USE DEF WorkerInv, Claims
<1>1. /\ batch[w] # <<>> /\ at[w] = "send"
      /\ UNCHANGED <<outbox, batch>>
      /\ at' = [at EXCEPT ![w] = at'[w]]
      /\ at'[w] \in {"markAsSent", "markAsFailed"}
  BY DEF Send, GoOn, Hands, Busy, WorkerTypeOK
<1>2. 1 \in DOMAIN batch[w] /\ row \in DOMAIN outbox
  BY <1>1, EmptySeq, LenProperties DEF WorkerTypeOK
<1>3. /\ \A i : IsPublished(i)' => IsPublished(i) \/ i = row
      /\ \A i : IsPublished(i) => IsPublished(i)'
      /\ at'[w] = "markAsSent" => IsPublished(row)'
  <2>1. CASE \E times \in {1, 2} : Publish(w, times)
    BY <1>1, <2>1, PublishRow
  <2>2. CASE UNCHANGED published /\ GoOn(w, "markAsFailed")
    BY <2>2 DEF IsPublished, GoOn, WorkerTypeOK
  <2> QED
    BY <2>1, <2>2 DEF Send
<1>4. row \notin RowsIn("PENDING")
  BY <1>2 DEF Hands, RowsIn
<1>5. \A status : RowsIn(status)' = RowsIn(status)
  BY <1>1 DEF RowsIn
<1>6. \A v \in Worker \ {w} : \A n \in DOMAIN batch[v] : batch[v][n] # row
  BY <1>2 DEF ClaimedByOne, InBatch
<1>7. \A n \in DOMAIN batch[w] : n > 1 => batch[w][n] # row
  BY <1>2 DEF ClaimedByOne
<1> HIDE DEF row
<1>8. Hands'
  BY <1>1 DEF Hands, Busy, WorkerTypeOK
<1>9. ClaimedByOne'
  <2>1. \A v \in Worker : at'[v] = "send" => at[v] = "send"
    BY <1>1 DEF WorkerTypeOK
  <2> QED
    BY <1>1, <2>1 DEF ClaimedByOne, InBatch
<1>10. Unpublished'
  BY <1>1, <1>3, <1>4, <1>5, <1>6, <1>7 DEF Unpublished, Untried, WorkerTypeOK
<1>11. PublishedFirst'
  BY <1>1, <1>3 DEF PublishedFirst, WorkerTypeOK, row
<1>12. SentIsPublished'
  BY <1>3, <1>5 DEF SentIsPublished
<1> QED
  BY <1>8, <1>9, <1>10, <1>11, <1>12

(***************************************************************************)
(* A worker marks the row it has in hand, or fails to, and goes on with    *)
(* that row, with the next one, or not at all.                             *)
(***************************************************************************)
LEMMA MarkStep ==
    ASSUME WorkerInv, NEW w \in Worker, batch[w] # <<>>,
           NEW status \in {"SENT", "FAILED"},
           status = "SENT" => IsPublished(batch[w][1]),
           Mark(Head(batch[w]), status) \/ UNCHANGED outbox,
           \/ NextRow(w)
           \/ Abandon(w)
           \/ GoOn(w, "markAsFailed") /\ at[w] = "markAsSent" /\ UNCHANGED batch,
           UNCHANGED published
    PROVE  Claims'
<1> DEFINE row == batch[w][1]
<1> USE DEF WorkerInv, Claims
<1>0. 1 \in DOMAIN batch[w] /\ row \in DOMAIN outbox /\ row = Head(batch[w])
  BY EmptySeq, LenProperties DEF WorkerTypeOK
<1>1. \A i : IsPublished(i)' <=> IsPublished(i)
  BY DEF IsPublished
<1>2. /\ DOMAIN outbox' = DOMAIN outbox
      /\ \A i \in DOMAIN outbox :
            \/ outbox'[i].status = outbox[i].status
            \/ i = row /\ outbox[i].status = "PROCESSING" /\ outbox'[i].status = status
  <2>1. CASE Mark(row, status)
    <3>1. {row} \cap RowsIn("PROCESSING") \in SUBSET DOMAIN outbox
      BY DEF RowsIn
    <3>2. /\ DOMAIN outbox' = DOMAIN outbox
          /\ \A i \in DOMAIN outbox : outbox'[i].status =
                IF i \in {row} \cap RowsIn("PROCESSING") THEN status ELSE outbox[i].status
      BY <2>1, <3>1, SetStatusRows DEF Mark, WorkerTypeOK, OutboxStatus
    <3> QED
      BY <3>2 DEF RowsIn
  <2>2. CASE UNCHANGED outbox
    BY <2>2
  <2> QED
    BY <1>0, <2>1, <2>2
<1>3. /\ \A v \in Worker \ {w} : batch'[v] = batch[v] /\ at'[v] = at[v]
      /\ batch'[w] # <<>> <=> at'[w] \in Busy
      /\ at'[w] # "markAsSent"
      /\ \/ /\ \A n \in DOMAIN batch'[w] :
                  n + 1 \in DOMAIN batch[w] /\ n + 1 > 1 /\ batch'[w][n] = batch[w][n + 1]
         \/ batch'[w] = batch[w] /\ at'[w] # "send"
  <2>1. CASE NextRow(w)
    BY <2>1, NextRowBatch
  <2>2. CASE Abandon(w)
    BY <2>2, EmptySeq DEF Abandon, Sleep, WorkerTypeOK, Busy
  <2>3. CASE GoOn(w, "markAsFailed") /\ UNCHANGED batch
    BY <2>3 DEF GoOn, WorkerTypeOK, Busy
  <2> QED
    BY <2>1, <2>2, <2>3
<1>4. \A v \in Worker \ {w} : \A n \in DOMAIN batch[v] : batch[v][n] # row
  BY <1>0 DEF ClaimedByOne, InBatch
<1>5. \A n \in DOMAIN batch[w] : n > 1 => batch[w][n] # row
  BY <1>0 DEF ClaimedByOne
<1>6. \A v \in Worker : \A n \in DOMAIN batch[v] :
         batch[v][n] \in DOMAIN outbox /\ n \in Nat
  BY LenProperties DEF WorkerTypeOK
<1>7. \A i \in DOMAIN outbox : outbox'[i].status = "PENDING" => outbox[i].status = "PENDING"
  BY <1>2
<1>13. batch'[w] \in Seq(DOMAIN outbox)
  BY NextRowBatch, EmptySeq DEF Abandon, WorkerTypeOK
<1>14. \A n \in DOMAIN batch'[w] : n \in Nat
  <2>1. Len(batch'[w]) \in Nat /\ DOMAIN batch'[w] = 1 .. Len(batch'[w])
    BY <1>13, LenProperties
  <2> QED
    BY <2>1
<1> HIDE DEF row
<1>8. Hands'
  BY <1>2, <1>3, <1>6, <1>7 DEF Hands
<1>9. ClaimedByOne'
  <2>1. ASSUME NEW v \in Worker, NEW n \in DOMAIN batch'[v]
        PROVE  /\ Untried(v, n)' => outbox'[batch'[v][n]].status = "PROCESSING"
               /\ \A m \in DOMAIN batch'[v] : batch'[v][m] = batch'[v][n] => m = n
    <3>1. CASE v # w
      BY <1>2, <1>3, <1>4, <1>6, <3>1 DEF ClaimedByOne, Untried
    <3>2. CASE v = w /\ \A m \in DOMAIN batch'[w] :
                  m + 1 \in DOMAIN batch[w] /\ m + 1 > 1 /\ batch'[w][m] = batch[w][m + 1]
      <4>1. batch[w][n + 1] # row /\ outbox[batch[w][n + 1]].status = "PROCESSING"
        BY <1>5, <3>2 DEF ClaimedByOne
      <4>2. outbox'[batch'[w][n]].status = "PROCESSING"
        BY <1>2, <1>6, <3>2, <4>1
      <4>3. ASSUME NEW m \in DOMAIN batch'[w], batch'[w][m] = batch'[w][n]
            PROVE  m = n
        <5>1. m + 1 = n + 1
          BY <3>2, <4>3 DEF ClaimedByOne
        <5>2. m \in Nat /\ n \in Nat
          BY <1>14, <3>2
        <5> QED
          BY <5>1, <5>2
      <4> QED
        BY <3>2, <4>2, <4>3
    <3>3. CASE v = w /\ batch'[w] = batch[w] /\ at'[w] # "send"
      BY <1>2, <1>3, <1>5, <1>6, <3>3 DEF ClaimedByOne, Untried
    <3> QED
      BY <1>3, <3>1, <3>2, <3>3
  <2>2. ASSUME NEW v \in Worker, NEW u \in Worker, NEW i \in DOMAIN outbox,
               InBatch(v, i)', InBatch(u, i)'
        PROVE  v = u
    BY <1>3, <2>2 DEF ClaimedByOne, InBatch
  <2> QED
    BY <1>2, <2>1, <2>2 DEF ClaimedByOne, Untried
<1>10. Unpublished'
  <2>1. \A i \in RowsIn("PENDING")' : i \in RowsIn("PENDING")
    BY <1>2, <1>7 DEF RowsIn
  <2>2. ASSUME NEW v \in Worker, NEW n \in DOMAIN batch'[v], Untried(v, n)'
        PROVE  ~IsPublished(batch'[v][n])
    BY <1>3, <1>6, <2>2 DEF Unpublished, Untried
  <2> QED
    BY <1>1, <2>1, <2>2 DEF Unpublished
<1>11. PublishedFirst'
  BY <1>1, <1>3 DEF PublishedFirst
<1>12. SentIsPublished'
  BY <1>1, <1>2 DEF SentIsPublished, RowsIn, row
<1> QED
  BY <1>8, <1>9, <1>10, <1>11, <1>12

LEMMA ClaimsStep == WorkerInv /\ [WorkerNext]_allVars => Claims'
<1> SUFFICES ASSUME WorkerInv, [WorkerNext]_allVars PROVE Claims'
  OBVIOUS
<1> USE DEF WorkerInv
<1>0. \A w \in Worker :
         /\ at[w] \in Busy => batch[w] # <<>>
         /\ at[w] \notin Busy => batch[w] = <<>>
         /\ at[w] = "markAsSent" => IsPublished(batch[w][1])
  BY DEF Claims, Hands, PublishedFirst
<1>1. ASSUME NEW o \in Order, NEW type \in OrderOutboxType, Insert(o, type) PROVE Claims'
  BY <1>1, InsertStep
<1>2. ASSUME NEW w \in Worker, SelectPending(w) PROVE Claims'
  BY <1>0, <1>2, ForgetStep DEF SelectPending, GoOn, Sleep, WorkerTypeOK, Busy
<1>3. ASSUME NEW w \in Worker, UpdateClaimed(w) PROVE Claims'
  BY <1>3, ClaimStep
<1>4. ASSUME NEW w \in Worker, Send(w) PROVE Claims'
  BY <1>4, SendStep
<1>5. ASSUME NEW w \in Worker, MarkAsSent(w) PROVE Claims'
  BY <1>0, <1>5, MarkStep DEF MarkAsSent, Busy
<1>6. ASSUME NEW w \in Worker, MarkAsFailed(w) PROVE Claims'
  BY <1>0, <1>6, MarkStep DEF MarkAsFailed, Busy
<1>7. ASSUME NEW w \in Worker, Start(w) PROVE Claims'
  BY <1>0, <1>7, ForgetStep DEF Start, WorkerTypeOK, Busy
<1>8. ASSUME NEW w \in Worker, Wake(w) PROVE Claims'
  BY <1>0, <1>8, ForgetStep DEF Wake, WorkerTypeOK, Busy
<1>9. ASSUME NEW w \in Worker, Signal(w) PROVE Claims'
  BY <1>9, ForgetStep DEF Signal
<1>10. ASSUME NEW w \in Worker, Exit(w) \/ Crash(w) PROVE Claims'
  <2>1. Gone(w)
    BY <1>10 DEF Exit, Crash
  <2> QED
    BY <2>1, ForgetStep DEF Gone, WorkerTypeOK, Busy
<1>11. CASE UNCHANGED allVars
  BY <1>11, ForgetStep DEF allVars, workerVars
<1> QED
  BY <1>1, <1>2, <1>3, <1>4, <1>5, <1>6, <1>7, <1>8, <1>9, <1>10, <1>11
  DEF WorkerNext, WorkerStep

LEMMA WorkerInvariance == WorkerSpec => []WorkerInv
<1>1. WorkerInv /\ [WorkerNext]_allVars => WorkerInv'
  BY WorkerTypeStep, ClaimsStep DEF WorkerInv
<1> QED
  BY <1>1, WorkerInitInv, PTL DEF WorkerSpec
-----------------------------------------------------------------------------
(***************************************************************************)
(* Rows, the topic, signals and what workers hold keep their types; in     *)
(* particular a worker that counts two signals receives no further one.    *)
(***************************************************************************)
THEOREM WorkerTypeCorrect == WorkerSpec => []WorkerTypeOK
BY WorkerInvariance, PTL DEF WorkerInv

(***************************************************************************)
(* A row is marked SENT only when it is in the topic, whatever fails.      *)
(***************************************************************************)
THEOREM SentIsPublishedHolds == WorkerSpec => []SentIsPublished
<1>1. WorkerInv => SentIsPublished
  BY DEF WorkerInv, Claims
<1> QED
  BY <1>1, WorkerInvariance, PTL

(***************************************************************************)
(* The two statements of claimPending give each row to one worker, however *)
(* many workers select it.                                                 *)
(***************************************************************************)
THEOREM ClaimedByOneHolds == WorkerSpec => []ClaimedByOne
<1>1. WorkerInv => ClaimedByOne
  BY DEF WorkerInv, Claims
<1> QED
  BY <1>1, WorkerInvariance, PTL

(***************************************************************************)
(* What is in the topic is not sent again: a row is sent from a batch in   *)
(* which it has not been tried, and gets into a batch once.                *)
(***************************************************************************)
THEOREM NeverSentAgainHolds == WorkerSpec => NeverSentAgain
<1>1. WorkerInv /\ [WorkerNext]_allVars =>
         \A n \in DOMAIN published' \ DOMAIN published : ~IsPublished(published'[n])
  <2> SUFFICES ASSUME WorkerInv, [WorkerNext]_allVars,
                      NEW n \in DOMAIN published' \ DOMAIN published
               PROVE  ~IsPublished(published'[n])
    OBVIOUS
  <2>1. published' # published
    OBVIOUS
  <2>2. PICK w \in Worker : Send(w)
    BY <2>1
    DEF WorkerNext, WorkerStep, allVars, workerVars, Insert, SelectPending, UpdateClaimed,
        MarkAsSent, MarkAsFailed, Wake, Exit, Crash, Gone, Start, Signal
  <2>3. batch[w] # <<>> /\ at[w] = "send" /\ WorkerTypeOK
    BY <2>2 DEF Send, WorkerInv, Claims, Hands, Busy
  <2>4. published'[n] = batch[w][1]
    BY <2>1, <2>2, <2>3, PublishRow DEF Send
  <2>5. 1 \in DOMAIN batch[w]
    BY <2>3, EmptySeq, LenProperties DEF WorkerTypeOK
  <2> QED
    BY <2>3, <2>4, <2>5 DEF WorkerInv, Claims, Unpublished, Untried
<1> QED
  BY <1>1, WorkerInvariance, PTL DEF WorkerSpec, NeverSentAgain

(***************************************************************************)
(* The topic is only appended to.                                          *)
(***************************************************************************)
LEMMA PublishedGrows ==
    ASSUME WorkerInv, [WorkerNext]_allVars
    PROVE  /\ Len(published) <= Len(published')
           /\ \A n \in 1 .. Len(published) : published'[n] = published[n]
<1>0. published \in Seq(DOMAIN outbox) /\ Len(published) \in Nat
  BY LenProperties DEF WorkerInv, WorkerTypeOK
<1>1. CASE published' = published
  BY <1>0, <1>1
<1>2. CASE published' # published
  <2>1. PICK w \in Worker : Send(w)
    BY <1>2
    DEF WorkerNext, WorkerStep, allVars, workerVars, Insert, SelectPending, UpdateClaimed,
        MarkAsSent, MarkAsFailed, Wake, Exit, Crash, Gone, Start, Signal
  <2>2. PICK times \in {1, 2} : Publish(w, times)
    BY <1>2, <2>1 DEF Send
  <2> DEFINE row == Head(batch[w])
             sent == [n \in 1 .. times |-> row]
             Any == DOMAIN outbox \cup {row}
  <2>3. sent \in Seq(Any)
    OBVIOUS
  <2>4. published \in Seq(Any)
    <3> HIDE DEF row
    <3> QED
      BY <1>0, SeqMonotonic
  <2>5. published' = published \o sent
    BY <2>2 DEF Publish
  <2> HIDE DEF sent, Any
  <2>6. Len(published') = Len(published) + Len(sent) /\ Len(sent) \in Nat
    BY <2>3, <2>4, <2>5, ConcatProperties, LenProperties
  <2>7. \A n \in 1 .. Len(published) : published'[n] = published[n]
    BY <1>0, <2>3, <2>4, <2>5, <2>6, ConcatProperties
  <2> QED
    BY <1>0, <2>6, <2>7
<1> QED
  BY <1>1, <1>2

(***************************************************************************)
(* SENT and FAILED are final: every UPDATE asks for the status it expects. *)
(***************************************************************************)
THEOREM ResolvedStaysHolds == WorkerSpec => ResolvedStays
<1>1. WorkerInv /\ [WorkerNext]_allVars =>
         \A i \in RowsIn("SENT") \cup RowsIn("FAILED") : outbox'[i].status = outbox[i].status
  <2> SUFFICES ASSUME WorkerInv, [WorkerNext]_allVars,
                      NEW i \in RowsIn("SENT") \cup RowsIn("FAILED")
               PROVE  outbox'[i].status = outbox[i].status
    OBVIOUS
  <2> USE DEF WorkerInv, WorkerTypeOK
  <2>1. i \in DOMAIN outbox /\ outbox[i].status \in {"SENT", "FAILED"}
    BY DEF RowsIn
  <2>2. ASSUME NEW rows \in SUBSET (RowsIn("PENDING") \cup RowsIn("PROCESSING")),
               NEW status \in OutboxStatus, SetStatus(rows, status)
        PROVE  outbox'[i].status = outbox[i].status
    <3>1. rows \in SUBSET DOMAIN outbox /\ i \notin rows
      BY <2>1 DEF RowsIn
    <3> QED
      BY <2>1, <2>2, <3>1, SetStatusRows
  <2>3. ASSUME NEW rows, Claim(rows) PROVE outbox'[i].status = outbox[i].status
    BY <2>2, <2>3 DEF Claim, OutboxStatus
  <2>4. ASSUME NEW row, NEW status \in {"SENT", "FAILED"}, Mark(row, status)
        PROVE  outbox'[i].status = outbox[i].status
    BY <2>2, <2>4 DEF Mark, OutboxStatus
  <2>5. CASE UNCHANGED outbox
    BY <2>5
  <2>6. ASSUME NEW o \in Order, NEW type \in OrderOutboxType, Insert(o, type)
        PROVE  outbox'[i].status = outbox[i].status
    BY <2>1, <2>6, InsertRow DEF Insert
  <2> QED
    BY <2>3, <2>4, <2>5, <2>6
    DEF WorkerNext, WorkerStep, allVars, workerVars, SelectPending, UpdateClaimed, Send,
        MarkAsSent, MarkAsFailed, Wake, Exit, Crash, Gone, Start, Signal
<1> QED
  BY <1>1, WorkerInvariance, PTL DEF WorkerSpec, ResolvedStays

(***************************************************************************)
(* When statements succeed, nobody is killed and nobody signals twice,     *)
(* every claimed row is in some worker's hands: a worker leaves the loop   *)
(* over its batch only at its end, and exits only outside that loop.       *)
(***************************************************************************)
Graceful ==
    Faults \subseteq {"kafka", "signal"} =>
        /\ \A w \in Worker : signals[w] < 2
        /\ \A i \in RowsIn("PROCESSING") : \E w \in Worker : InBatch(w, i)

LEMMA GracefulStep ==
    WorkerInv /\ Graceful /\ [WorkerNext]_allVars => Graceful'
<1> SUFFICES ASSUME WorkerInv, Graceful, [WorkerNext]_allVars,
                    Faults \subseteq {"kafka", "signal"}
             PROVE  /\ \A w \in Worker : signals'[w] < 2
                    /\ \A i \in RowsIn("PROCESSING")' : \E w \in Worker : InBatch(w, i)'
  BY DEF Graceful
<1> USE DEF WorkerInv, WorkerTypeOK
<1>0. /\ \A w \in Worker : signals[w] < 2
      /\ \A i \in RowsIn("PROCESSING") : \E w \in Worker : InBatch(w, i)
      /\ \A w \in Worker : at[w] \in Busy <=> batch[w] # <<>>
      /\ ~DbFault
      /\ "crash" \notin Faults /\ "secondSignal" \notin Faults
  BY DEF Graceful, Claims, Hands, DbFault
<1>1. \A w \in Worker : signals'[w] < 2
  <2>1. ASSUME NEW w \in Worker, Signal(w) PROVE \A v \in Worker : signals'[v] < 2
    BY <1>0, <2>1 DEF Signal
  <2>2. ASSUME NEW w \in Worker, Start(w) \/ Gone(w) PROVE \A v \in Worker : signals'[v] < 2
    <3>1. signals' = [signals EXCEPT ![w] = 0]
      BY <2>2 DEF Start, Gone
    <3> QED
      BY <1>0, <3>1
  <2>3. CASE UNCHANGED signals
    BY <1>0, <2>3
  <2> QED
    BY <2>1, <2>2, <2>3
    DEF WorkerNext, WorkerStep, allVars, workerVars, Insert, SelectPending, UpdateClaimed,
        Send, MarkAsSent, MarkAsFailed, Wake, Exit, Crash
<1>2. \A i \in RowsIn("PROCESSING")' : \E w \in Worker : InBatch(w, i)'
  <2>1. ASSUME UNCHANGED <<outbox, batch>>
        PROVE  \A i \in RowsIn("PROCESSING")' : \E w \in Worker : InBatch(w, i)'
    BY <1>0, <2>1 DEF RowsIn, InBatch
  <2>2. ASSUME NEW o \in Order, NEW type \in OrderOutboxType, Insert(o, type)
        PROVE  \A i \in RowsIn("PROCESSING")' : \E w \in Worker : InBatch(w, i)'
    <3>1. RowsIn("PROCESSING")' \subseteq RowsIn("PROCESSING")
      BY <2>2, InsertRow DEF Insert, RowsIn
    <3> QED
      BY <1>0, <2>2, <3>1 DEF Insert, workerVars, InBatch
  <2>3. ASSUME NEW w \in Worker, UpdateClaimed(w)
        PROVE  \A i \in RowsIn("PROCESSING")' : \E v \in Worker : InBatch(v, i)'
    <3> DEFINE rows == selected[w] \cap RowsIn("PENDING")
    <3>1. PICK listing \in Listings(rows) : batch' = [batch EXCEPT ![w] = listing]
      BY <1>0, <2>3 DEF UpdateClaimed
    <3>2. rows \in SUBSET DOMAIN outbox /\ batch[w] = <<>> /\ SetStatus(rows, "PROCESSING")
      BY <1>0, <2>3 DEF UpdateClaimed, Claim, RowsIn, Busy
    <3>3. \A i \in RowsIn("PROCESSING")' : i \in RowsIn("PROCESSING") \/ i \in rows
      BY <3>2, SetStatusRows DEF RowsIn, OutboxStatus
    <3>4. batch'[w] = listing /\ \A v \in Worker \ {w} : batch'[v] = batch[v]
      BY <3>1
    <3> HIDE DEF rows
    <3>5. \A i \in rows : InBatch(w, i)'
      <4>1. \A i \in rows : \E n \in DOMAIN listing : listing[n] = i
        <5>1. IsFiniteSet(rows)
          BY <3>2, RowsFinite
        <5> QED
          BY <3>1, <5>1, ListingOnce
      <4> QED
        BY <3>4, <4>1 DEF InBatch
    <3>6. \A v \in Worker, i \in RowsIn("PROCESSING") : InBatch(v, i) => InBatch(v, i)'
      <4>1. \A i : ~InBatch(w, i)
        BY <3>2, EmptySeq, LenProperties DEF InBatch
      <4> QED
        BY <3>4, <4>1 DEF InBatch
    <3> QED
      BY <1>0, <3>3, <3>5, <3>6
  <2>4. ASSUME NEW w \in Worker, NEW status \in {"SENT", "FAILED"},
               batch[w] # <<>>, Mark(Head(batch[w]), status), NextRow(w)
        PROVE  \A i \in RowsIn("PROCESSING")' : \E v \in Worker : InBatch(v, i)'
    <3> DEFINE row == Head(batch[w])
    <3>1. row = batch[w][1]
      OBVIOUS
    <3>2. {row} \cap RowsIn("PROCESSING") \in SUBSET DOMAIN outbox
      BY DEF RowsIn
    <3>3. \A i \in RowsIn("PROCESSING")' : i \in RowsIn("PROCESSING") /\ i # row
      <4>1. /\ DOMAIN outbox' = DOMAIN outbox
            /\ \A i \in DOMAIN outbox : outbox'[i].status =
                  IF i \in {row} \cap RowsIn("PROCESSING") THEN status ELSE outbox[i].status
        BY <2>4, <3>2, SetStatusRows DEF Mark, OutboxStatus
      <4> HIDE DEF row
      <4> QED
        BY <4>1 DEF RowsIn
    <3>4. ASSUME NEW v \in Worker, NEW i \in RowsIn("PROCESSING"), i # row, InBatch(v, i)
          PROVE  InBatch(v, i)'
      <4>1. PICK n \in DOMAIN batch[v] : batch[v][n] = i
        BY <3>4 DEF InBatch
      <4>2. CASE v # w
        <5> HIDE DEF WorkerTypeOK
        <5>1. batch'[v] = batch[v]
          BY <2>4, <4>2, NextRowBatch
        <5> QED
          BY <3>4, <5>1 DEF InBatch
      <4>3. CASE v = w
        <5>1. n > 1
          BY <3>1, <3>4, <4>1, <4>3, LenProperties
        <5> QED
          BY <2>4, <4>1, <4>3, <5>1, NextRowBatch DEF InBatch
      <4> QED
        BY <4>2, <4>3
    <3> QED
      BY <1>0, <3>3, <3>4
  <2>5. ASSUME NEW w \in Worker, MarkAsSent(w) \/ MarkAsFailed(w)
        PROVE  \A i \in RowsIn("PROCESSING")' : \E v \in Worker : InBatch(v, i)'
    BY <1>0, <2>4, <2>5 DEF MarkAsSent, MarkAsFailed, Busy
  <2>6. ASSUME NEW w \in Worker, Exit(w) \/ Crash(w)
        PROVE  \A i \in RowsIn("PROCESSING")' : \E v \in Worker : InBatch(v, i)'
    <3>1. at[w] = "ended" /\ Gone(w)
      BY <1>0, <2>6 DEF Exit, Crash
    <3>2. batch[w] = <<>> /\ UNCHANGED outbox /\ batch' = [batch EXCEPT ![w] = <<>>]
      BY <1>0, <3>1 DEF Gone, Busy
    <3>3. batch' = batch
      BY <3>2
    <3> QED
      BY <2>1, <3>2, <3>3
  <2> QED
    BY <2>1, <2>2, <2>3, <2>5, <2>6
    DEF WorkerNext, WorkerStep, allVars, workerVars, SelectPending, Send, Wake, Start, Signal
<1> QED
  BY <1>1, <1>2

THEOREM NothingStrandedHolds == WorkerSpec => []NothingStranded
<1>1. WorkerInit => Graceful
  BY DEF WorkerInit, OutboxInit, Graceful, RowsIn
<1>2. Graceful => NothingStranded
  BY DEF Graceful, NothingStranded
<1> QED
  BY <1>1, <1>2, GracefulStep, WorkerInvariance, PTL DEF WorkerSpec
-----------------------------------------------------------------------------
(***************************************************************************)
(* How far from their order a single worker publishes rows.  The worker    *)
(* claims the oldest rows, so the PENDING rows are always the youngest     *)
(* ones and have no gaps; a batch is a piece of the sequence of rows no    *)
(* longer than BatchSize, and what was published before is older.          *)
(***************************************************************************)
OneWorker == \A v, w \in Worker : v = w

\* Every row that has been claimed is older than every row that has not.
ClaimedAreOldest ==
    \A i \in DOMAIN outbox \ RowsIn("PENDING"), j \in RowsIn("PENDING") : i < j

\* Between SELECT and UPDATE, the rows selected remain the oldest PENDING ones.
SelectedAreOldest ==
    \A w \in Worker : at[w] = "update" =>
        /\ selected[w] \subseteq RowsIn("PENDING")
        /\ \A i \in selected[w], j \in RowsIn("PENDING") \ selected[w] : i < j
        /\ \A i, j \in selected[w] : i < j + BatchSize

\* Whatever is published, or will be with the batch, is not far ahead of the batch.
BatchIsNear ==
    \A w \in Worker : \A i, p \in DOMAIN outbox :
        InBatch(w, i) /\ (IsPublished(p) \/ InBatch(w, p)) => p < i + BatchSize

PublishedInOrder ==
    \A m, n \in DOMAIN published : m < n => published[m] < published[n] + BatchSize

OrderInv == ClaimedAreOldest /\ SelectedAreOldest /\ BatchIsNear /\ PublishedInOrder

LEMMA OrderInitInv == WorkerInit => OrderInv
BY DEF WorkerInit, OutboxInit, OrderInv, ClaimedAreOldest, SelectedAreOldest, BatchIsNear,
       PublishedInOrder, RowsIn, InBatch

LEMMA RowsAreNumbers ==
    ASSUME OutboxTypeOK
    PROVE  DOMAIN outbox = 1 .. Len(outbox) /\ Len(outbox) \in Nat
BY LenProperties DEF OutboxTypeOK

(***************************************************************************)
(* The oldest PENDING rows lie together.                                   *)
(***************************************************************************)
LEMMA OldestLieTogether ==
    ASSUME OutboxTypeOK, ClaimedAreOldest
    PROVE  /\ OldestPending(BatchSize) \subseteq RowsIn("PENDING")
           /\ \A i \in OldestPending(BatchSize),
                 j \in RowsIn("PENDING") \ OldestPending(BatchSize) : i < j
           /\ \A i, j \in OldestPending(BatchSize) : i < j + BatchSize
<1> USE BatchSizeAssumption
<1> DEFINE Before(i) == {k \in RowsIn("PENDING") : k < i}
<1>1. RowsIn("PENDING") \subseteq DOMAIN outbox
  BY DEF RowsIn
<1>2. \A i : IsFiniteSet(Before(i)) /\ Cardinality(Before(i)) \in Nat
  <2>1. \A i : Before(i) \in SUBSET DOMAIN outbox
    BY <1>1
  <2> HIDE DEF Before
  <2>2. \A i : IsFiniteSet(Before(i))
    BY <2>1, RowsFinite
  <2> QED
    BY <2>2, FS_CardinalityType
<1>3. \A i : i \in OldestPending(BatchSize) <=>
               i \in RowsIn("PENDING") /\ Cardinality(Before(i)) < BatchSize
  BY DEF OldestPending
<1>4. ASSUME NEW i \in OldestPending(BatchSize),
             NEW j \in RowsIn("PENDING") \ OldestPending(BatchSize)
      PROVE  i < j
  <2>1. i \in Nat /\ j \in Nat /\ i # j
    <3>1. i \in DOMAIN outbox /\ j \in DOMAIN outbox
      BY <1>1, <1>3, <1>4
    <3>2. DOMAIN outbox \subseteq Nat
      BY RowsAreNumbers
    <3> QED
      BY <1>4, <3>1, <3>2
  <2>2. SUFFICES ASSUME j < i PROVE FALSE
    BY <2>1
  <2>3. Before(j) \subseteq Before(i)
    BY <1>1, <2>1, <2>2, RowsAreNumbers
  <2> HIDE DEF Before
  <2>4. Cardinality(Before(j)) <= Cardinality(Before(i))
    BY <1>2, <2>3, FS_Subset
  <2> QED
    BY <1>2, <1>3, <1>4, <2>4
<1>5. ASSUME NEW i \in OldestPending(BatchSize), NEW j \in OldestPending(BatchSize)
      PROVE  i < j + BatchSize
  <2>1. i \in 1 .. Len(outbox) /\ j \in 1 .. Len(outbox) /\ Len(outbox) \in Nat
    BY <1>1, <1>3, <1>5, RowsAreNumbers
  <2>2. SUFFICES ASSUME j + BatchSize <= i PROVE FALSE
    BY <2>1
  <2>3. j .. (i - 1) \subseteq Before(i)
    <3>1. ASSUME NEW k \in j .. (i - 1), k \notin RowsIn("PENDING") PROVE FALSE
      <4>1. k \in DOMAIN outbox
        BY <2>1, <3>1, RowsAreNumbers
      <4>2. k < j
        BY <1>3, <3>1, <4>1 DEF ClaimedAreOldest
      <4> QED
        BY <2>1, <3>1, <4>2
    <3> QED
      BY <2>1, <3>1
  <2>4. Cardinality(j .. (i - 1)) = i - j
    BY <2>1, <2>2, FS_Interval
  <2> HIDE DEF Before
  <2>5. i - j <= Cardinality(Before(i))
    BY <1>2, <2>3, <2>4, FS_Subset
  <2> QED
    BY <1>2, <1>3, <2>1, <2>2, <2>5
<1> QED
  BY <1>3, <1>4, <1>5
-----------------------------------------------------------------------------
(***************************************************************************)
(* The steps that claim and publish nothing, and may forget rows in hand.  *)
(***************************************************************************)
LEMMA ForgetOrder ==
    ASSUME OrderInv, WorkerTypeOK, UNCHANGED published, DOMAIN outbox' = DOMAIN outbox,
           RowsIn("PENDING")' = RowsIn("PENDING"),
           \A v \in Worker : at'[v] = "update" => at[v] = "update" /\ selected'[v] = selected[v],
           \A v \in Worker : \A i \in DOMAIN outbox : InBatch(v, i)' => InBatch(v, i)
    PROVE  OrderInv'
<1>1. ClaimedAreOldest' /\ SelectedAreOldest'
  BY DEF OrderInv, ClaimedAreOldest, SelectedAreOldest
<1>2. \A p : IsPublished(p)' <=> IsPublished(p)
  BY DEF IsPublished
<1>3. BatchIsNear'
  BY <1>2 DEF OrderInv, BatchIsNear
<1>4. PublishedInOrder'
  BY DEF OrderInv, PublishedInOrder
<1> QED
  BY <1>1, <1>3, <1>4 DEF OrderInv

LEMMA InsertOrderInv ==
    ASSUME OrderInv, WorkerInv, NEW o \in Order, NEW type \in OrderOutboxType, Insert(o, type)
    PROVE  OrderInv'
<1> DEFINE new == Len(outbox) + 1
<1>1. /\ DOMAIN outbox' = DOMAIN outbox \cup {new}
      /\ RowsIn("PENDING")' = RowsIn("PENDING") \cup {new}
      /\ DOMAIN outbox = 1 .. Len(outbox) /\ Len(outbox) \in Nat
  BY InsertRow, RowsAreNumbers DEF Insert, RowsIn, WorkerInv, WorkerTypeOK
<1>2. RowsIn("PENDING") \subseteq DOMAIN outbox
  BY DEF RowsIn
<1>3. UNCHANGED <<published, at, selected, batch>>
  BY DEF Insert, workerVars
<1>4. ClaimedAreOldest'
  BY <1>1, <1>2 DEF OrderInv, ClaimedAreOldest
<1>5. SelectedAreOldest'
  BY <1>1, <1>2, <1>3 DEF OrderInv, SelectedAreOldest
<1>6. BatchIsNear'
  <2>1. \A w \in Worker : \A i : InBatch(w, i)' => InBatch(w, i) /\ i \in DOMAIN outbox
    BY <1>3 DEF InBatch, WorkerInv, WorkerTypeOK
  <2>2. \A p : IsPublished(p)' => IsPublished(p) /\ p \in DOMAIN outbox
    BY <1>3 DEF IsPublished, WorkerInv, WorkerTypeOK
  <2> QED
    BY <2>1, <2>2 DEF OrderInv, BatchIsNear
<1>7. PublishedInOrder'
  BY <1>3 DEF OrderInv, PublishedInOrder
<1> QED
  BY <1>4, <1>5, <1>6, <1>7 DEF OrderInv

LEMMA SelectOrderInv ==
    ASSUME OrderInv, WorkerInv, NEW w \in Worker, SelectPending(w)
    PROVE  OrderInv'
<1>1. UNCHANGED <<outbox, published, batch>>
  BY DEF SelectPending
<1>2. \A v \in Worker : at'[v] = "update" =>
          \/ at[v] = "update" /\ selected'[v] = selected[v]
          \/ selected'[v] = OldestPending(BatchSize)
  BY DEF SelectPending, GoOn, Sleep, WorkerInv, WorkerTypeOK
<1>3. RowsIn("PENDING")' = RowsIn("PENDING")
  BY <1>1 DEF RowsIn
<1>4. ClaimedAreOldest' /\ BatchIsNear' /\ PublishedInOrder'
  BY <1>1, <1>3
  DEF OrderInv, ClaimedAreOldest, BatchIsNear, PublishedInOrder, InBatch, IsPublished
<1>5. SelectedAreOldest'
  <2>1. OutboxTypeOK /\ ClaimedAreOldest
    BY DEF OrderInv, WorkerInv, WorkerTypeOK
  <2> QED
    BY <1>2, <1>3, <2>1, OldestLieTogether DEF OrderInv, SelectedAreOldest
<1> QED
  BY <1>4, <1>5 DEF OrderInv

LEMMA UpdateOrderInv ==
    ASSUME OneWorker, OrderInv, WorkerInv, NEW w \in Worker, UpdateClaimed(w)
    PROVE  OrderInv'
<1> DEFINE rows == selected[w] \cap RowsIn("PENDING")
<1>1. at[w] = "update" /\ batch[w] = <<>> /\ UNCHANGED published /\ OutboxTypeOK
  BY DEF UpdateClaimed, WorkerInv, WorkerTypeOK, Claims, Hands, Busy
<1>2. /\ rows = selected[w] /\ rows \in SUBSET DOMAIN outbox
      /\ \A i \in rows, j \in RowsIn("PENDING") \ rows : i < j
      /\ \A i, j \in rows : i < j + BatchSize
  BY <1>1 DEF OrderInv, SelectedAreOldest, RowsIn
<1>3. at'[w] # "update"
  BY DEF UpdateClaimed, GoOn, Sleep, WorkerInv, WorkerTypeOK
<1>4. SelectedAreOldest'
  BY <1>3 DEF SelectedAreOldest, OneWorker
<1>5. PublishedInOrder'
  BY <1>1 DEF OrderInv, PublishedInOrder
<1>6. /\ DOMAIN outbox' = DOMAIN outbox
      /\ RowsIn("PENDING")' \in {RowsIn("PENDING"), RowsIn("PENDING") \ rows}
  <2>1. CASE UNCHANGED outbox
    BY <2>1 DEF RowsIn
  <2>2. CASE Claim(selected[w])
    <3> HIDE DEF rows
    <3>1. SetStatus(rows, "PROCESSING")
      BY <2>2 DEF Claim, rows
    <3>2. /\ DOMAIN outbox' = DOMAIN outbox
          /\ \A i \in DOMAIN outbox :
                outbox'[i].status = IF i \in rows THEN "PROCESSING" ELSE outbox[i].status
      BY <1>1, <1>2, <3>1, SetStatusRows DEF OutboxStatus
    <3> QED
      BY <3>2 DEF RowsIn
  <2> QED
    BY <2>1, <2>2 DEF UpdateClaimed
<1>7. ClaimedAreOldest'
  <2>1. \A i \in DOMAIN outbox, j \in RowsIn("PENDING") : i \notin RowsIn("PENDING") => i < j
    BY DEF OrderInv, ClaimedAreOldest
  <2> QED
    BY <1>2, <1>6, <2>1 DEF ClaimedAreOldest
<1>8. \A i : InBatch(w, i)' => i \in rows
  <2>1. CASE UNCHANGED batch
    BY <1>1, <2>1 DEF InBatch
  <2>2. ASSUME NEW listing \in Listings(rows), batch' = [batch EXCEPT ![w] = listing]
        PROVE  \A i : InBatch(w, i)' => i \in rows
    <3>1. batch'[w] = listing
      BY <2>2 DEF WorkerInv, WorkerTypeOK
    <3> HIDE DEF rows
    <3>2. \A i : i \in rows <=> \E n \in DOMAIN listing : listing[n] = i
      BY <1>1, <1>2, ListingOnce, RowsFinite
    <3> QED
      BY <3>1, <3>2 DEF InBatch
  <2> QED
    BY <2>1, <2>2 DEF UpdateClaimed
<1>9. BatchIsNear'
  <2>1. \A p \in DOMAIN outbox : IsPublished(p)' => p \in DOMAIN outbox \ RowsIn("PENDING")
    BY <1>1 DEF IsPublished, WorkerInv, Claims, Unpublished
  <2>2. \A i \in rows : \A p \in DOMAIN outbox : IsPublished(p)' => p < i
    BY <2>1 DEF OrderInv, ClaimedAreOldest
  <2>3. \A i \in DOMAIN outbox : i \in Nat
    BY <1>1, RowsAreNumbers
  <2> QED
    BY <1>2, <1>6, <1>8, <2>2, <2>3, BatchSizeAssumption DEF BatchIsNear, OneWorker
<1> QED
  BY <1>4, <1>5, <1>7, <1>9 DEF OrderInv

LEMMA SendOrderInv ==
    ASSUME OneWorker, OrderInv, WorkerInv, NEW w \in Worker, Send(w)
    PROVE  OrderInv'
<1> DEFINE row == batch[w][1]
<1>1. /\ batch[w] # <<>> /\ WorkerTypeOK /\ at[w] = "send"
      /\ 1 \in DOMAIN batch[w] /\ row \in DOMAIN outbox /\ InBatch(w, row)
  <2>1. batch[w] # <<>> /\ WorkerTypeOK /\ at[w] = "send"
    BY DEF Send, WorkerInv, Claims, Hands, Busy
  <2>2. batch[w] \in Seq(DOMAIN outbox)
    BY <2>1 DEF WorkerTypeOK
  <2>3. 1 \in DOMAIN batch[w]
    BY <2>1, <2>2, EmptySeq, LenProperties
  <2> QED
    BY <2>1, <2>2, <2>3 DEF InBatch
<1>2. /\ UNCHANGED <<outbox, selected, batch>>
      /\ \A v \in Worker : at'[v] = "update" => at[v] = "update"
  BY <1>1 DEF Send, GoOn, WorkerTypeOK
<1>3. CASE UNCHANGED published
  <2>1. RowsIn("PENDING")' = RowsIn("PENDING") /\ \A v \in Worker : \A i : InBatch(v, i)' <=> InBatch(v, i)
    BY <1>2 DEF RowsIn, InBatch
  <2> QED
    BY <1>1, <1>2, <1>3, <2>1, ForgetOrder
<1>4. ASSUME NEW times \in {1, 2}, Publish(w, times) PROVE OrderInv'
  <2>1. /\ \A i : IsPublished(i)' <=> IsPublished(i) \/ i = row
        /\ \A n \in DOMAIN published' \ DOMAIN published : published'[n] = row
    BY <1>1, <1>4, PublishRow
  <2>2. /\ DOMAIN published \subseteq DOMAIN published'
        /\ \A n \in DOMAIN published : published'[n] = published[n]
        /\ DOMAIN published = 1 .. Len(published) /\ Len(published) \in Nat
        /\ DOMAIN published' \subseteq Nat
    <3> DEFINE sent == [n \in 1 .. times |-> Head(batch[w])]
    <3>1. sent \in Seq({Head(batch[w])}) /\ published \in Seq(DOMAIN outbox)
      BY <1>1 DEF WorkerTypeOK
    <3>2. published' = published \o sent
      BY <1>4 DEF Publish
    <3> HIDE DEF sent
    <3> DEFINE Any == DOMAIN outbox \cup {Head(batch[w])}
    <3>3. sent \in Seq(Any) /\ published \in Seq(Any)
      BY <3>1, SeqMonotonic
    <3> HIDE DEF Any
    <3>4. /\ published' \in Seq(Any) /\ Len(published') = Len(published) + Len(sent)
          /\ \A n \in 1 .. Len(published) + Len(sent) :
                n <= Len(published) => published'[n] = published[n]
      BY <3>2, <3>3, ConcatProperties
    <3>5. /\ DOMAIN published = 1 .. Len(published) /\ Len(published) \in Nat /\ Len(sent) \in Nat
          /\ DOMAIN published' = 1 .. Len(published) + Len(sent)
      BY <3>3, <3>4, LenProperties
    <3> QED
      BY <3>4, <3>5
  <2>3. RowsIn("PENDING")' = RowsIn("PENDING") /\ \A v \in Worker : \A i : InBatch(v, i)' <=> InBatch(v, i)
    BY <1>2 DEF RowsIn, InBatch
  <2>4. ClaimedAreOldest' /\ SelectedAreOldest'
    BY <1>2, <2>3 DEF OrderInv, ClaimedAreOldest, SelectedAreOldest
  <2>5. BatchIsNear'
    BY <1>1, <1>2, <2>1, <2>3 DEF OrderInv, BatchIsNear, OneWorker
  <2>6. PublishedInOrder'
    <3> SUFFICES ASSUME NEW m \in DOMAIN published', NEW n \in DOMAIN published', m < n
                 PROVE  published'[m] < published'[n] + BatchSize
      BY DEF PublishedInOrder
    <3>1. CASE n \in DOMAIN published
      BY <2>2, <3>1 DEF OrderInv, PublishedInOrder
    <3>2. CASE n \notin DOMAIN published
      <4>1. published'[n] = row
        BY <2>1, <3>2
      <4>2. published'[m] = row \/ IsPublished(published'[m])
        BY <2>1, <2>2 DEF IsPublished
      <4>3. published'[m] \in DOMAIN outbox
        <5>1. \A l \in DOMAIN published : published[l] \in DOMAIN outbox
          BY <1>1 DEF WorkerTypeOK
        <5>2. CASE m \in DOMAIN published
          BY <2>2, <5>1, <5>2
        <5>3. CASE m \notin DOMAIN published
          BY <1>1, <2>1, <5>3
        <5> QED
          BY <5>2, <5>3
      <4> QED
        BY <1>1, <4>1, <4>2, <4>3 DEF OrderInv, BatchIsNear
    <3> QED
      BY <3>1, <3>2
  <2> QED
    BY <2>4, <2>5, <2>6 DEF OrderInv
<1> QED
  BY <1>3, <1>4 DEF Send

LEMMA MarkOrderInv ==
    ASSUME OrderInv, WorkerInv, NEW w \in Worker, MarkAsSent(w) \/ MarkAsFailed(w)
    PROVE  OrderInv'
<1>1. WorkerTypeOK /\ OutboxTypeOK /\ batch[w] # <<>>
  BY DEF MarkAsSent, MarkAsFailed, WorkerInv, WorkerTypeOK, Claims, Hands, Busy
<1>2. DOMAIN outbox' = DOMAIN outbox /\ RowsIn("PENDING")' = RowsIn("PENDING")
  <2>1. ASSUME NEW row, NEW status \in {"SENT", "FAILED"}, Mark(row, status)
        PROVE  DOMAIN outbox' = DOMAIN outbox /\ RowsIn("PENDING")' = RowsIn("PENDING")
    <3> DEFINE rows == {row} \cap RowsIn("PROCESSING")
    <3>1. rows \in SUBSET DOMAIN outbox /\ \A i \in rows : outbox[i].status = "PROCESSING"
      BY DEF RowsIn
    <3>2. SetStatus(rows, status)
      BY <2>1 DEF Mark
    <3> HIDE DEF rows
    <3>3. /\ DOMAIN outbox' = DOMAIN outbox
          /\ \A i \in DOMAIN outbox :
                outbox'[i].status = IF i \in rows THEN status ELSE outbox[i].status
      BY <1>1, <3>1, <3>2, SetStatusRows DEF OutboxStatus
    <3> QED
      BY <3>1, <3>3 DEF RowsIn
  <2>2. CASE UNCHANGED outbox
    BY <2>2 DEF RowsIn
  <2> QED
    BY <2>1, <2>2 DEF MarkAsSent, MarkAsFailed
<1>3. UNCHANGED <<published, selected>>
  BY DEF MarkAsSent, MarkAsFailed
<1>4. /\ \A v \in Worker : at'[v] = "update" => at[v] = "update"
      /\ \A v \in Worker : \A i \in DOMAIN outbox : InBatch(v, i)' => InBatch(v, i)
  <2>1. CASE NextRow(w)
    <3>1. \A v \in Worker \ {w} : batch'[v] = batch[v] /\ at'[v] = at[v]
      BY <1>1, <2>1, NextRowBatch
    <3>2. at'[w] \in {"send", "sleep"}
      BY <1>1, <2>1, NextRowBatch
    <3>3. \A n \in DOMAIN batch'[w] : n + 1 \in DOMAIN batch[w] /\ batch'[w][n] = batch[w][n + 1]
      BY <1>1, <2>1, NextRowBatch
    <3> QED
      BY <3>1, <3>2, <3>3 DEF InBatch
  <2>2. CASE GoOn(w, "markAsFailed") /\ UNCHANGED batch
    BY <1>1, <2>2 DEF GoOn, InBatch, WorkerTypeOK
  <2>3. CASE Abandon(w)
    BY <1>1, <2>3 DEF Abandon, Sleep, InBatch, WorkerTypeOK
  <2> QED
    BY <2>1, <2>2, <2>3 DEF MarkAsSent, MarkAsFailed
<1> QED
  BY <1>1, <1>2, <1>3, <1>4, ForgetOrder

LEMMA LifeOrderInv ==
    ASSUME OrderInv, WorkerInv, NEW w \in Worker,
           Start(w) \/ Wake(w) \/ Signal(w) \/ Exit(w) \/ Crash(w)
    PROVE  OrderInv'
<1>1. WorkerTypeOK
  BY DEF WorkerInv
<1>2. UNCHANGED <<outbox, published>>
  BY DEF Start, Wake, Signal, Exit, Crash, Gone
<1>3. \A v \in Worker : at'[v] = "update" => at[v] = "update" /\ selected'[v] = selected[v]
  BY <1>1 DEF Start, Wake, Signal, Exit, Crash, Gone, WorkerTypeOK
<1>4. \A v \in Worker : batch'[v] = batch[v] \/ batch'[v] = <<>>
  BY <1>1 DEF Start, Wake, Signal, Exit, Crash, Gone, WorkerTypeOK
<1>5. \A v \in Worker : \A i : InBatch(v, i)' => InBatch(v, i)
  BY <1>4 DEF InBatch
<1>6. RowsIn("PENDING")' = RowsIn("PENDING")
  BY <1>2 DEF RowsIn
<1> QED
  BY <1>1, <1>2, <1>3, <1>5, <1>6, ForgetOrder

LEMMA OrderStep == OneWorker /\ OrderInv /\ WorkerInv /\ [WorkerNext]_allVars => OrderInv'
<1> SUFFICES ASSUME OneWorker, OrderInv, WorkerInv, [WorkerNext]_allVars PROVE OrderInv'
  OBVIOUS
<1>1. CASE UNCHANGED allVars
  <2>1. UNCHANGED <<outbox, published, at, selected, batch>>
    BY <1>1 DEF allVars, workerVars
  <2>2. RowsIn("PENDING")' = RowsIn("PENDING") /\ \A v \in Worker : \A i : InBatch(v, i)' <=> InBatch(v, i)
    BY <2>1 DEF RowsIn, InBatch
  <2> QED
    BY <2>1, <2>2, ForgetOrder DEF WorkerInv
<1>2. CASE WorkerNext
  BY <1>2, InsertOrderInv, SelectOrderInv, UpdateOrderInv, SendOrderInv, MarkOrderInv, LifeOrderInv
  DEF WorkerNext, WorkerStep
<1> QED
  BY <1>1, <1>2

(***************************************************************************)
(* A single worker, restarted at will and whatever fails, publishes a row  *)
(* fewer than BatchSize places before its turn.                            *)
(***************************************************************************)
THEOREM DisorderBoundedHolds == WorkerSpec => []DisorderBounded
<1>1. CASE OneWorker
  <2>1. OrderInv => DisorderBounded
    BY DEF OrderInv, PublishedInOrder, DisorderBounded
  <2>2. OrderInv /\ WorkerInv /\ [WorkerNext]_allVars => OrderInv'
    BY <1>1, OrderStep
  <2> QED
    BY <2>1, <2>2, OrderInitInv, WorkerInvariance, PTL DEF WorkerSpec
<1>2. CASE ~OneWorker
  <2>1. DisorderBounded
    BY <1>2 DEF OneWorker, DisorderBounded
  <2> QED
    BY <2>1, PTL
<1> QED
  BY <1>1, <1>2
=============================================================================
