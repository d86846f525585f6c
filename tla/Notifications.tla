---------------------------- MODULE Notifications ----------------------------
(***************************************************************************)
(* notifications-service (orders-events-consumer.ts, main-kafka.ts,        *)
(* DrizzleInboxRepository.ts): the consumers of one group read a partition *)
(* of the topic of order events; before an event is handled its key is     *)
(* inserted into the inbox table, and an event whose key is there already  *)
(* is passed over.                                                         *)
(*                                                                         *)
(* All events of an order share a partition, so one partition is modelled. *)
(* Of Kafka and its client this module keeps: offsets are committed from   *)
(* time to time and only by the owner of the partition; a rebalance may    *)
(* happen at any moment, delivery then starts again from the committed     *)
(* offset, and the former owner goes on until it notices; a message whose  *)
(* handler throws is delivered again.                                      *)
(*                                                                         *)
(* Faults may contain "db" (the INSERT fails, executed or not), "crash",   *)
(* "rebalance", "signal" and "secondSignal" (SIGTERM, SIGTERM again), and  *)
(* "late" (the client delivers a message after its stop was called).       *)
(***************************************************************************)
EXTENDS Naturals, Sequences

CONSTANTS
    Consumer,    \* consumer processes of the group
    Nobody,      \* the partition has no owner
    NoOffset,    \* no offset: nothing committed, or not assigned
    Message,     \* message values
    KeyOf,       \* KeyOf[m]: the key built from m, NoKey if m does not parse
    NoKey,
    MaxMessages, \* bound of the model: messages published
    Faults

Key == {KeyOf[m] : m \in Message} \ {NoKey}

ASSUME ConsumerAssumption == Nobody \notin Consumer
ASSUME OffsetAssumption == NoOffset \notin Nat

VARIABLES
    topic,       \* the partition: message values in order
    owner,       \* the consumer the group assigned the partition to
    committed,   \* the offset the group has committed: messages passed
    pos,         \* the offset a consumer has reached
    consumerAt,  \* what eachMessage awaits in a consumer
    life,        \* how far the shutdown of a consumer is
    inbox,       \* keys in table order_inbox
    handled,     \* history: keys of the events passed to handleEvent
    skipped,     \* history: offsets passed without looking at the message
    interrupted  \* history: keys inserted by a call that did not return

groupVars == <<owner, committed, pos, skipped>>
consumerVars == <<groupVars, consumerAt, life, inbox, handled, interrupted>>
notifVars == <<topic, consumerVars>>

(***************************************************************************)
(* ready: no message in hand.  insert: tryMarkProcessed has sent its       *)
(* statement.  inserted: the row was inserted, the reply is on its way.    *)
(***************************************************************************)
Await == {"down", "ready", "insert", "inserted"}

(***************************************************************************)
(* running; ending: pool.end was called; stopping: isShuttingDown is set   *)
(* and consumer.stop was called.                                           *)
(***************************************************************************)
Life == {"running", "ending", "stopping"}

NotifTypeOK ==
    /\ topic \in Seq(Message)
    /\ owner \in Consumer \cup {Nobody}
    /\ committed \in 0 .. Len(topic) \cup {NoOffset}
    /\ pos \in [Consumer -> 0 .. Len(topic) \cup {NoOffset}]
    /\ consumerAt \in [Consumer -> Await]
    /\ life \in [Consumer -> Life]
    /\ inbox \in SUBSET Key
    /\ handled \in Seq(Key)
    /\ skipped \in SUBSET (1 .. Len(topic))
    /\ interrupted \in SUBSET Key

NotifInit ==
    /\ topic = <<>>
    /\ owner = Nobody
    /\ committed = NoOffset
    /\ pos = [c \in Consumer |-> NoOffset]
    /\ consumerAt = [c \in Consumer |-> "down"]
    /\ life = [c \in Consumer |-> "running"]
    /\ inbox = {}
    /\ handled = <<>>
    /\ skipped = {}
    /\ interrupted = {}
-----------------------------------------------------------------------------
(***************************************************************************)
(* Kafka and the group                                                     *)
(***************************************************************************)
Produce(m) ==
    /\ Len(topic) < MaxMessages
    /\ topic' = Append(topic, m)
    /\ UNCHANGED consumerVars

\* fromBeginning is false: without a committed offset, delivery starts at the end.
Assign(c) ==
    /\ consumerAt[c] = "ready" /\ life[c] # "stopping"
    /\ owner = Nobody \/ "rebalance" \in Faults
    /\ owner' = c
    /\ IF committed = NoOffset
       THEN /\ pos' = [pos EXCEPT ![c] = Len(topic)]
            /\ skipped' = skipped \cup 1 .. Len(topic)
       ELSE /\ pos' = [pos EXCEPT ![c] = committed]
            /\ UNCHANGED skipped
    /\ UNCHANGED <<topic, committed, consumerAt, life, inbox, handled, interrupted>>

Commit(c) ==
    /\ consumerAt[c] = "ready" /\ owner = c /\ pos[c] # NoOffset
    /\ committed' = pos[c]
    /\ UNCHANGED <<topic, owner, pos, skipped, consumerAt, life, inbox, handled, interrupted>>
-----------------------------------------------------------------------------
(***************************************************************************)
(* eachMessage                                                             *)
(***************************************************************************)
InHand(c) == KeyOf[topic[pos[c] + 1]]

Pass(c) == pos' = [pos EXCEPT ![c] = @ + 1]

Go(c, await) == consumerAt' = [consumerAt EXCEPT ![c] = await]

DeliverUnparsed(c) ==   \* mutant: an event that does not parse is processed
    /\ consumerAt[c] = "ready" /\ life[c] = "running"
    /\ pos[c] # NoOffset /\ pos[c] < Len(topic)
    /\ Go(c, "insert")
    /\ UNCHANGED <<topic, groupVars, life, inbox, handled, interrupted>>

\* While the pool is ended the statement is refused: the message comes again.
Deliver(c) ==
    /\ consumerAt[c] = "ready"
    /\ pos[c] # NoOffset /\ pos[c] < Len(topic)
    /\ \/ /\ life[c] = "stopping" /\ "late" \in Faults
          /\ Pass(c)
          /\ skipped' = skipped \cup {pos[c] + 1}
          /\ UNCHANGED consumerAt
       \/ /\ life[c] # "stopping" /\ InHand(c) = NoKey
          /\ Pass(c)
          /\ UNCHANGED <<skipped, consumerAt>>
       \/ /\ life[c] = "running" /\ InHand(c) # NoKey
          /\ Go(c, "insert")
          /\ UNCHANGED <<pos, skipped>>
    /\ UNCHANGED <<topic, owner, committed, life, inbox, handled, interrupted>>

\* INSERT ... ON CONFLICT DO NOTHING.
Mark(c) == inbox' = inbox \cup {InHand(c)}

InsertInverted(c) ==    \* mutant: an INSERT that conflicts counts as the first
    /\ consumerAt[c] = "insert"
    /\ Mark(c)
    /\ IF InHand(c) \in inbox
       THEN Go(c, "inserted") /\ UNCHANGED pos
       ELSE Go(c, "ready") /\ Pass(c)
    /\ UNCHANGED <<topic, owner, committed, skipped, life, handled, interrupted>>

InsertUnchecked(c) ==   \* mutant: how many rows were inserted is not looked at
    /\ consumerAt[c] = "insert"
    /\ Mark(c)
    /\ Go(c, "inserted")
    /\ UNCHANGED <<topic, groupVars, life, handled, interrupted>>

InsertCaught(c) ==      \* mutant: an error of the INSERT is logged, the message passed
    /\ consumerAt[c] = "insert"
    /\ \/ Mark(c) /\ Go(c, "inserted") /\ UNCHANGED pos
       \/ "db" \in Faults /\ Pass(c) /\ Go(c, "ready") /\ UNCHANGED inbox
    /\ UNCHANGED <<topic, owner, committed, skipped, life, handled, interrupted>>

TryMarkProcessed(c) ==
    /\ consumerAt[c] = "insert"
    /\ \/ /\ InHand(c) \notin inbox
          /\ Mark(c)
          /\ Go(c, "inserted")
          /\ UNCHANGED <<pos, interrupted>>
       \/ /\ InHand(c) \in inbox
          /\ Pass(c)
          /\ Go(c, "ready")
          /\ UNCHANGED <<inbox, interrupted>>
       \/ /\ "db" \in Faults
          /\ \/ Mark(c) /\ interrupted' = interrupted \cup ({InHand(c)} \ inbox)
             \/ UNCHANGED <<inbox, interrupted>>
          /\ Go(c, "ready")
          /\ UNCHANGED pos
    /\ UNCHANGED <<topic, owner, committed, skipped, life, handled>>

HandleEvent(c) ==
    /\ consumerAt[c] = "inserted"
    /\ handled' = Append(handled, InHand(c))
    /\ Pass(c)
    /\ Go(c, "ready")
    /\ UNCHANGED <<topic, owner, committed, skipped, life, inbox, interrupted>>
-----------------------------------------------------------------------------
(***************************************************************************)
(* The life of a consumer                                                  *)
(***************************************************************************)
StartConsumer(c) ==
    /\ consumerAt[c] = "down"
    /\ Go(c, "ready")
    /\ UNCHANGED <<topic, groupVars, life, inbox, handled, interrupted>>

\* The process is gone, and the group takes the partition from it.
ConsumerGone(c) ==
    /\ Go(c, "down")
    /\ life' = [life EXCEPT ![c] = "running"]
    /\ pos' = [pos EXCEPT ![c] = NoOffset]
    /\ owner' = IF owner = c THEN Nobody ELSE owner
    /\ UNCHANGED <<topic, committed, skipped, inbox, handled>>

SignalConsumer(c) ==
    /\ consumerAt[c] # "down"
    /\ life[c] = "running" /\ "signal" \in Faults
    /\ life' = [life EXCEPT ![c] = "ending"]
    /\ UNCHANGED <<topic, groupVars, consumerAt, inbox, handled, interrupted>>

\* The pool has waited for the statement in flight; worker.shutdown is called.
StopConsumer(c) ==
    /\ life[c] = "ending" /\ consumerAt[c] = "ready"
    /\ life' = [life EXCEPT ![c] = "stopping"]
    /\ UNCHANGED <<topic, groupVars, consumerAt, inbox, handled, interrupted>>

ExitAtOnce(c) ==        \* mutant: a process told to stop does not wait for the call under way
    /\ life[c] # "running" /\ consumerAt[c] # "down"
    /\ ConsumerGone(c)
    /\ UNCHANGED interrupted

ExitConsumer(c) ==
    /\ life[c] = "stopping" /\ consumerAt[c] = "ready"
    /\ ConsumerGone(c)
    /\ UNCHANGED interrupted

\* Ending a pool twice is an error, and nobody handles it.
CrashConsumer(c) ==
    /\ consumerAt[c] # "down"
    /\ \/ "crash" \in Faults
       \/ "secondSignal" \in Faults /\ life[c] # "running"
    /\ ConsumerGone(c)
    /\ interrupted' = interrupted \cup (IF consumerAt[c] = "inserted" THEN {InHand(c)} ELSE {})

ConsumerStep(c) ==
    \/ Assign(c) \/ Deliver(c) \/ TryMarkProcessed(c) \/ HandleEvent(c)
    \/ StopConsumer(c) \/ ExitConsumer(c)

ConsumerNext ==
    \E c \in Consumer :
        ConsumerStep(c) \/ Commit(c) \/ StartConsumer(c) \/ SignalConsumer(c) \/ CrashConsumer(c)

NotifNext ==
    \/ \E m \in Message : Produce(m)
    \/ ConsumerNext

NotifSpec == NotifInit /\ [][NotifNext]_notifVars
-----------------------------------------------------------------------------
(***************************************************************************)
(* Properties                                                              *)
(***************************************************************************)

Offered == {KeyOf[topic[n]] : n \in DOMAIN topic} \ {NoKey}

Delivery == INSTANCE AtMostOnce WITH Event <- Key, offered <- Offered, handled <- handled

(***************************************************************************)
(* An event is handled at most once, whoever delivers it how often: sends  *)
(* repeated by Kafka, redelivery after errors, crashes and rebalances, and *)
(* a former owner that handles messages beside the new one.                *)
(***************************************************************************)
ImplementsAtMostOnce == Delivery!Spec

(***************************************************************************)
(* No message is lost to the group unseen: below the committed offset      *)
(* every message that parses has its key in the inbox, unless delivery     *)
(* began after it or it was dropped during a shutdown.  Offsets are taken  *)
(* and committed by several consumers, some of which are no longer owners. *)
(***************************************************************************)
PassedIsMarked ==
    committed # NoOffset =>
        \A n \in 1 .. committed : n \in skipped \/ KeyOf[topic[n]] \in inbox \cup {NoKey}

HandledKeys == {handled[n] : n \in DOMAIN handled}

AboutToHandle(c, k) == consumerAt[c] = "inserted" /\ InHand(c) = k

\* The events that will never be handled: whoever delivers them finds them marked.
Forgotten == {k \in inbox \ HandledKeys : \A c \in Consumer : ~AboutToHandle(c, k)}

(***************************************************************************)
(* An event is marked before it is handled, and that loses exactly the     *)
(* events whose own INSERT was executed and reported an error, or whose    *)
(* consumer died between INSERT and handler; neither redelivery, nor a     *)
(* rebalance, nor a shutdown, nor an error of a repeated INSERT loses one. *)
(***************************************************************************)
MarkedIsHandled == Forgotten = interrupted
=============================================================================
