----------------------------- MODULE OutboxWorker -----------------------------
(***************************************************************************)
(* The outbox worker (OrderOutboxWorker.ts, main-outbox-worker.ts): each   *)
(* worker is a process that claims PENDING rows, publishes them to Kafka   *)
(* one by one, marks them SENT or FAILED, sleeps and starts again, until   *)
(* a signal stops it.  Every awaited call is an action; at[w] names the    *)
(* call worker w awaits.                                                   *)
(*                                                                         *)
(* Faults may contain "db" (a statement fails, executed or not), "kafka"   *)
(* (a send fails, executed or not, or is repeated by the Kafka client),    *)
(* "crash" (a process is killed), "signal" (a process is told to stop) and *)
(* "secondSignal" (it is told again).                                      *)
(***************************************************************************)
EXTENDS OutboxTable

CONSTANTS
    Worker,      \* worker processes
    BatchSize,   \* ORDERS_OUTBOX_BATCH_SIZE
    MaxRows,     \* bound of the model: rows orders-service inserts
    Faults

ASSUME BatchSizeAssumption == BatchSize \in Nat \ {0}

VARIABLES
    published,   \* the topic: the rows published, in order, repetitions included
    at,          \* the call a worker awaits
    selected,    \* rows read by the SELECT of claimPending
    batch,       \* claimed rows not dealt with yet, the current one first
    timer,       \* currentTimeout is set
    signals      \* signals a worker has received since it started

workerVars == <<published, at, selected, batch, timer, signals>>
allVars == <<outbox, workerVars>>

Await == {"select", "update", "send", "markAsSent", "markAsFailed", "sleep"}

WorkerTypeOK ==
    /\ OutboxTypeOK
    /\ published \in Seq(DOMAIN outbox)
    /\ at \in [Worker -> Await \cup {"ended", "down"}]
    /\ selected \in [Worker -> SUBSET DOMAIN outbox]
    /\ batch \in [Worker -> Seq(DOMAIN outbox)]
    /\ timer \in [Worker -> BOOLEAN]
    /\ signals \in [Worker -> 0 .. 2]

WorkerInit ==
    /\ OutboxInit
    /\ published = <<>>
    /\ at = [w \in Worker |-> "down"]
    /\ selected = [w \in Worker |-> {}]
    /\ batch = [w \in Worker |-> <<>>]
    /\ timer = [w \in Worker |-> FALSE]
    /\ signals = [w \in Worker |-> 0]
-----------------------------------------------------------------------------
(***************************************************************************)
(* orders-service inserts rows: an order is created once, but may be paid  *)
(* more than once, and paid before its creation is announced.              *)
(***************************************************************************)
Insert(o, type) ==
    /\ Len(outbox) < MaxRows
    /\ type = "ORDER_CREATED" => ~Announced(o, type)
    /\ Enqueue(o, type)
    /\ UNCHANGED workerVars
-----------------------------------------------------------------------------
(***************************************************************************)
(* processOutboxBatch                                                      *)
(***************************************************************************)
DbFault == "db" \in Faults

KafkaFault == "kafka" \in Faults

GoOn(w, call) ==
    /\ at' = [at EXCEPT ![w] = call]
    /\ UNCHANGED timer

\* sleepCancellable
Sleep(w) ==
    /\ at' = [at EXCEPT ![w] = "sleep"]
    /\ timer' = [timer EXCEPT ![w] = TRUE]

SelectAny(w) ==         \* mutant: the SELECT has no ORDER BY
    /\ at[w] = "select"
    /\ \E rows \in SUBSET RowsIn("PENDING") :
          /\ Cardinality(rows) <= BatchSize
          /\ selected' = [selected EXCEPT ![w] = rows]
    /\ GoOn(w, "update")
    /\ UNCHANGED <<outbox, published, batch, signals>>

SelectFull(w) ==        \* mutant: waits until there is a full batch
    /\ at[w] = "select"
    /\ IF Cardinality(RowsIn("PENDING")) >= BatchSize
       THEN selected' = [selected EXCEPT ![w] = OldestPending(BatchSize)] /\ GoOn(w, "update")
       ELSE selected' = selected /\ Sleep(w)
    /\ UNCHANGED <<outbox, published, batch, signals>>

SelectPending(w) ==
    /\ at[w] = "select"
    /\ \/ /\ selected' = [selected EXCEPT ![w] = OldestPending(BatchSize)]
          /\ GoOn(w, "update")
       \/ DbFault /\ Sleep(w) /\ UNCHANGED selected
    /\ UNCHANGED <<outbox, published, batch, signals>>

\* RETURNING lists the rows in an order of the database's choice.
Listings(rows) ==
    {listing \in [1 .. Cardinality(rows) -> rows] :
        \A i \in rows : \E n \in DOMAIN listing : listing[n] = i}

UpdateUnchecked(w) ==   \* mutant: UPDATE without status = 'PENDING'
    /\ at[w] = "update"
    /\ SetStatus(selected[w], "PROCESSING")
    /\ \E listing \in Listings(selected[w]) : batch' = [batch EXCEPT ![w] = listing]
    /\ IF selected[w] = {} THEN Sleep(w) ELSE GoOn(w, "send")
    /\ selected' = [selected EXCEPT ![w] = {}]
    /\ UNCHANGED <<published, signals>>

UpdateClaimed(w) ==
    LET rows == selected[w] \cap RowsIn("PENDING")
    IN  /\ at[w] = "update"
        /\ \/ /\ Claim(selected[w])
              /\ \E listing \in Listings(rows) : batch' = [batch EXCEPT ![w] = listing]
              /\ IF rows = {} THEN Sleep(w) ELSE GoOn(w, "send")
           \/ /\ DbFault
              /\ Claim(selected[w]) \/ UNCHANGED outbox
              /\ Sleep(w)
              /\ UNCHANGED batch
        /\ selected' = [selected EXCEPT ![w] = {}]
        /\ UNCHANGED <<published, signals>>

\* The loop goes to the next row, or ends and the worker sleeps.
NextRow(w) ==
    /\ batch' = [batch EXCEPT ![w] = Tail(@)]
    /\ IF Len(batch[w]) > 1 THEN GoOn(w, "send") ELSE Sleep(w)

\* An exception leaves the loop; the rest of the batch is forgotten.
Abandon(w) ==
    /\ batch' = [batch EXCEPT ![w] = <<>>]
    /\ Sleep(w)

Publish(w, times) ==
    published' = published \o [n \in 1 .. times |-> Head(batch[w])]

SendUncaught(w) ==      \* mutant: an error of send leaves the loop
    /\ at[w] = "send"
    /\ \/ Publish(w, 1) /\ GoOn(w, "markAsSent") /\ UNCHANGED batch
       \/ KafkaFault /\ UNCHANGED published /\ Abandon(w)
    /\ UNCHANGED <<outbox, selected, signals>>

(***************************************************************************)
(* producer.send: the Kafka client repeats a send whose answer it misses   *)
(* (here at most once), and gives up after some attempts.  Once it is      *)
(* disconnected (after a second signal) it refuses to send.                *)
(***************************************************************************)
Send(w) ==
    /\ at[w] = "send"
    /\ \/ Publish(w, 1) /\ GoOn(w, "markAsSent")
       \/ KafkaFault /\ Publish(w, 2) /\ GoOn(w, "markAsSent")
       \/ KafkaFault /\ Publish(w, 1) /\ GoOn(w, "markAsFailed")
       \/ (KafkaFault \/ signals[w] = 2) /\ UNCHANGED published /\ GoOn(w, "markAsFailed")
    /\ UNCHANGED <<outbox, selected, batch, signals>>

MarkAsSent(w) ==
    /\ at[w] = "markAsSent"
    /\ \/ Mark(Head(batch[w]), "SENT") /\ NextRow(w)
       \/ /\ DbFault
          /\ Mark(Head(batch[w]), "SENT") \/ UNCHANGED outbox
          /\ GoOn(w, "markAsFailed")
          /\ UNCHANGED batch
    /\ UNCHANGED <<published, selected, signals>>

FailUnchecked(w) ==     \* mutant: UPDATE without status = 'PROCESSING'
    /\ at[w] = "markAsFailed"
    /\ SetStatus({Head(batch[w])}, "FAILED")
    /\ NextRow(w)
    /\ UNCHANGED <<published, selected, signals>>

FailedAsSent(w) ==      \* mutant: a row whose send failed is marked SENT
    /\ at[w] = "markAsFailed"
    /\ Mark(Head(batch[w]), "SENT")
    /\ NextRow(w)
    /\ UNCHANGED <<published, selected, signals>>

MarkAsFailed(w) ==
    /\ at[w] = "markAsFailed"
    /\ \/ Mark(Head(batch[w]), "FAILED") /\ NextRow(w)
       \/ /\ DbFault
          /\ Mark(Head(batch[w]), "FAILED") \/ UNCHANGED outbox
          /\ Abandon(w)
    /\ UNCHANGED <<published, selected, signals>>
-----------------------------------------------------------------------------
(***************************************************************************)
(* The life of a worker                                                    *)
(***************************************************************************)
Start(w) ==
    /\ at[w] = "down"
    /\ at' = [at EXCEPT ![w] = "select"]
    /\ signals' = [signals EXCEPT ![w] = 0]
    /\ UNCHANGED <<outbox, published, selected, batch, timer>>

WakeOn(w) ==            \* mutant: the loop does not test isShuttingDown
    /\ at[w] = "sleep" /\ timer[w]
    /\ timer' = [timer EXCEPT ![w] = FALSE]
    /\ at' = [at EXCEPT ![w] = "select"]
    /\ UNCHANGED <<outbox, published, selected, batch, signals>>

\* The timer fires and the loop tests isShuttingDown.
Wake(w) ==
    /\ at[w] = "sleep" /\ timer[w]
    /\ timer' = [timer EXCEPT ![w] = FALSE]
    /\ at' = [at EXCEPT ![w] = IF signals[w] = 0 THEN "select" ELSE "ended"]
    /\ UNCHANGED <<outbox, published, selected, batch, signals>>

SignalCounted(w) ==     \* mutant: later signals start the shutdown again
    /\ "signal" \in Faults /\ at[w] # "down"
    /\ signals' = [signals EXCEPT ![w] = @ + 1]
    /\ timer' = [timer EXCEPT ![w] = FALSE]
    /\ UNCHANGED <<outbox, published, at, selected, batch>>

SignalLeaves(w) ==      \* mutant: shutdown does not wait for the loop
    /\ "signal" \in Faults /\ at[w] # "down" /\ signals[w] = 0
    /\ signals' = [signals EXCEPT ![w] = 2]
    /\ UNCHANGED <<outbox, published, at, selected, batch, timer>>

(***************************************************************************)
(* shutdown: the first signal clears the timer, so that the promise a      *)
(* sleeping worker awaits is never resolved, and waits for the loop; a     *)
(* second one does not wait.                                               *)
(***************************************************************************)
Signal(w) ==
    /\ at[w] # "down"
    /\ \/ "signal" \in Faults /\ signals[w] = 0
       \/ "secondSignal" \in Faults /\ signals[w] = 1
    /\ signals' = [signals EXCEPT ![w] = @ + 1]
    /\ timer' = IF signals[w] = 0 THEN [timer EXCEPT ![w] = FALSE] ELSE timer
    /\ UNCHANGED <<outbox, published, at, selected, batch>>

\* What a process leaves behind when it is gone: the rows it had claimed.
Gone(w) ==
    /\ at' = [at EXCEPT ![w] = "down"]
    /\ selected' = [selected EXCEPT ![w] = {}]
    /\ batch' = [batch EXCEPT ![w] = <<>>]
    /\ timer' = [timer EXCEPT ![w] = FALSE]
    /\ signals' = [signals EXCEPT ![w] = 0]
    /\ UNCHANGED <<outbox, published>>

\* The producer is disconnected and the process exits.
Exit(w) == at[w] # "down" /\ (at[w] = "ended" \/ signals[w] = 2) /\ Gone(w)

Crash(w) == "crash" \in Faults /\ at[w] # "down" /\ Gone(w)

WorkerStep(w) ==
    \/ SelectPending(w) \/ UpdateClaimed(w) \/ Send(w) \/ MarkAsSent(w)
    \/ MarkAsFailed(w) \/ Wake(w) \/ Exit(w)

WorkerNext ==
    \/ \E o \in Order, type \in OrderOutboxType : Insert(o, type)
    \/ \E w \in Worker : WorkerStep(w) \/ Start(w) \/ Signal(w) \/ Crash(w)

WorkerSpec == WorkerInit /\ [][WorkerNext]_allVars

\* Awaited calls return or throw, and timers fire.
FairWorkerSpec == WorkerSpec /\ \A w \in Worker : WF_allVars(WorkerStep(w))

\* Moreover somebody starts a worker that is down.
RestartedWorkerSpec == FairWorkerSpec /\ \A w \in Worker : WF_allVars(Start(w))
-----------------------------------------------------------------------------
(***************************************************************************)
(* Properties                                                              *)
(***************************************************************************)
InBatch(w, i) == \E n \in DOMAIN batch[w] : batch[w][n] = i

IsPublished(i) == \E n \in DOMAIN published : published[n] = i

(***************************************************************************)
(* A row that is SENT is in the topic, whatever fails and however many     *)
(* workers there are.                                                      *)
(***************************************************************************)
SentIsPublished == \A i \in RowsIn("SENT") : IsPublished(i)

(***************************************************************************)
(* claimPending is two statements, and workers may select the same rows:   *)
(* still no row is in the hands of two workers, or twice in those of one,  *)
(* and what a worker has in hand and has not sent is PROCESSING.           *)
(***************************************************************************)
ClaimedByOne ==
    \A w \in Worker :
        /\ \A n \in DOMAIN batch[w] :
              /\ at[w] = "send" \/ n > 1 => outbox[batch[w][n]].status = "PROCESSING"
              /\ \A m \in DOMAIN batch[w] : batch[w][m] = batch[w][n] => m = n
        /\ \A v \in Worker, i \in DOMAIN outbox : InBatch(w, i) /\ InBatch(v, i) => w = v

(***************************************************************************)
(* A row that is in the topic is never sent again, neither after an error  *)
(* of its send or of the statement that records it, nor after a crash or a *)
(* restart, nor by another worker that selected it too.  Repetitions come  *)
(* from the Kafka client alone, within one send.                           *)
(***************************************************************************)
NeverSentAgain ==
    [][\A n \in DOMAIN published' \ DOMAIN published :
          ~IsPublished(published'[n])]_allVars

(***************************************************************************)
(* A single worker, restarted at will, publishes a row fewer than          *)
(* BatchSize places before its turn: rows of different batches keep their  *)
(* order, those of one batch need not.                                     *)
(***************************************************************************)
DisorderBounded ==
    (\A v, w \in Worker : v = w) =>
        \A m, n \in DOMAIN published :
            m < n => published[m] < published[n] + BatchSize

(***************************************************************************)
(* SENT and FAILED are final, also when markAsSent was executed, reported  *)
(* an error and is followed by markAsFailed.                               *)
(***************************************************************************)
ResolvedStays ==
    [][\A i \in RowsIn("SENT") \cup RowsIn("FAILED") :
          outbox'[i].status = outbox[i].status]_allVars

(***************************************************************************)
(* When statements succeed and processes are neither killed nor signalled  *)
(* twice, no claimed row is forgotten: shutdown waits for the batch, and a *)
(* failed send does not end it.                                            *)
(***************************************************************************)
NothingStranded ==
    Faults \subseteq {"kafka", "signal"} =>
        \A i \in RowsIn("PROCESSING") : \E w \in Worker : InBatch(w, i)

(***************************************************************************)
(* A PENDING row is claimed, unless every worker is stopped.               *)
(***************************************************************************)
PendingIsClaimed ==
    \A i \in 1 .. MaxRows :
        i \in RowsIn("PENDING")
            ~> (i \notin RowsIn("PENDING") \/ \A w \in Worker : at[w] = "down" \/ signals[w] > 0)

(***************************************************************************)
(* A row in the hands of a worker is marked, unless the process ends.      *)
(***************************************************************************)
ClaimedIsResolved ==
    \A w \in Worker, i \in 1 .. MaxRows :
        InBatch(w, i) ~> (i \in RowsIn("SENT") \cup RowsIn("FAILED") \/ at[w] = "down")

(***************************************************************************)
(* A worker that is told to stop ends, unless it sleeps: clearing its      *)
(* timer leaves the promise it awaits pending for ever.                    *)
(***************************************************************************)
HangsOnlyAsleep ==
    \A w \in Worker :
        signals[w] > 0 ~> (at[w] = "down" \/ (at[w] = "sleep" /\ ~timer[w]))

(***************************************************************************)
(* Stated by the repository, and not what the code does                    *)
(***************************************************************************)

(***************************************************************************)
(* README.md:27: "Run a dedicated Outbox worker that publishes events      *)
(* reliably".  What a worker claims gets published, by that worker or by   *)
(* one started after it, provided they are not killed for ever.            *)
(***************************************************************************)
ClaimedIsPublished ==
    (\A w \in Worker : <>[](at[w] # "down")) =>
        \A i \in 1 .. MaxRows : i \in RowsIn("PROCESSING") ~> IsPublished(i)

=============================================================================
