-------------------------- MODULE NotificationsProofs --------------------------
(***************************************************************************)
(* An event is handled at most once and passed only if it is marked, for   *)
(* any number of consumers and messages and all faults of Notifications.   *)
(***************************************************************************)
EXTENDS Notifications, TLAPS

\* A consumer with a statement on its way has a message whose key it knows.
HoldsMessage ==
    \A c \in Consumer : consumerAt[c] \in {"insert", "inserted"} =>
        pos[c] \in 0 .. Len(topic) - 1 /\ InHand(c) \in Key

\* The consumer whose INSERT took place is the only one to handle the event.
OwnsMark ==
    \A c \in Consumer : consumerAt[c] = "inserted" =>
        /\ InHand(c) \in inbox /\ InHand(c) \notin HandledKeys
        /\ \A d \in Consumer : consumerAt[d] = "inserted" /\ InHand(d) = InHand(c) => d = c

HandledMarked == HandledKeys \subseteq inbox

InboxOffered == inbox \subseteq Offered

Seen(n) == n \in skipped \/ KeyOf[topic[n]] \in inbox \cup {NoKey}

\* A consumer reaches an offset only over messages that were seen.
PassedSeen ==
    /\ \A c \in Consumer : pos[c] # NoOffset => \A n \in 1 .. pos[c] : Seen(n)
    /\ committed # NoOffset => \A n \in 1 .. committed : Seen(n)

NotifInv ==
    NotifTypeOK /\ HoldsMessage /\ OwnsMark /\ HandledMarked /\ InboxOffered /\ PassedSeen

LEMMA NotifInitInv == NotifInit => NotifInv
BY OffsetAssumption
DEF NotifInit, NotifInv, NotifTypeOK, HoldsMessage, OwnsMark, HandledMarked, InboxOffered,
    PassedSeen, HandledKeys, Await, Life
-----------------------------------------------------------------------------
\* Kafka appends messages to the partition; nothing else changes.
TopicGrows ==
    /\ topic' \in Seq(Message) /\ Len(topic) <= Len(topic')
    /\ \A n \in 1 .. Len(topic) : topic'[n] = topic[n]
    /\ UNCHANGED consumerVars

LEMMA ProduceGrows ==
    ASSUME NotifInv, NEW m \in Message, Produce(m)
    PROVE  TopicGrows
BY DEF NotifInv, NotifTypeOK, Produce, TopicGrows

LEMMA GrowthInv ==
    ASSUME NotifInv, TopicGrows PROVE NotifInv'
<1> USE OffsetAssumption DEF NotifInv, TopicGrows, consumerVars, groupVars
<1>1. NotifTypeOK'
  BY DEF NotifTypeOK
<1>2. \A c \in Consumer : consumerAt[c] \in {"insert", "inserted"} => InHand(c)' = InHand(c)
  BY DEF HoldsMessage, InHand, NotifTypeOK
<1>3. HoldsMessage'
  BY <1>2 DEF HoldsMessage, NotifTypeOK
<1>4. OwnsMark' /\ HandledMarked'
  BY <1>2 DEF OwnsMark, HandledMarked, HandledKeys
<1>5. InboxOffered'
  BY DEF InboxOffered, Offered, NotifTypeOK
<1>6. \A n \in 1 .. Len(topic) : Seen(n) => Seen(n)'
  BY DEF Seen
<1>7. PassedSeen'
  BY <1>6 DEF PassedSeen, NotifTypeOK
<1> QED
  BY <1>1, <1>3, <1>4, <1>5, <1>7

LEMMA AssignInv ==
    ASSUME NotifInv, NEW c \in Consumer, Assign(c) PROVE NotifInv'
<1> USE OffsetAssumption DEF NotifInv, Assign
<1>1. NotifTypeOK'
  <2>1. pos' \in [Consumer -> 0 .. Len(topic) \cup {NoOffset}]
    BY DEF NotifTypeOK
  <2>2. skipped' \in SUBSET (1 .. Len(topic))
    BY DEF NotifTypeOK
  <2> QED
    BY <2>1, <2>2 DEF NotifTypeOK, Await
<1>2. \A d \in Consumer : consumerAt[d] \in {"insert", "inserted"} =>
          pos'[d] = pos[d] /\ InHand(d)' = InHand(d)
  BY DEF NotifTypeOK, InHand
<1>3. HoldsMessage'
  BY <1>2 DEF HoldsMessage
<1>4. OwnsMark' /\ HandledMarked' /\ InboxOffered'
  BY <1>2 DEF OwnsMark, HandledMarked, HandledKeys, InboxOffered, Offered
<1>5. PassedSeen'
  BY DEF PassedSeen, Seen, NotifTypeOK
<1> QED
  BY <1>1, <1>3, <1>4, <1>5

\* A consumer that goes on by one message has seen it.
LEMMA PassedSeenStep ==
    ASSUME NotifTypeOK, PassedSeen, NEW c \in Consumer, UNCHANGED <<topic, committed>>,
           \A d \in Consumer \ {c} : pos'[d] = pos[d],
           \A n \in 1 .. Len(topic) : Seen(n) => Seen(n)',
           pos'[c] = pos[c] \/ \E n \in 1 .. Len(topic) : pos[c] = n - 1 /\ pos'[c] = n /\ Seen(n)'
    PROVE  PassedSeen'
<1> USE OffsetAssumption DEF NotifTypeOK, PassedSeen
<1>1. \A d \in Consumer : pos[d] # NoOffset => pos[d] \in 0 .. Len(topic)
  OBVIOUS
<1>2. ASSUME NEW d \in Consumer, pos'[d] # NoOffset, NEW n \in 1 .. pos'[d] PROVE Seen(n)'
  <2>1. CASE pos'[d] = pos[d]
    BY <1>1, <1>2, <2>1
  <2>2. CASE d = c /\ pos'[c] # pos[c]
    <3>1. PICK k \in 1 .. Len(topic) : pos[c] = k - 1 /\ pos'[c] = k /\ Seen(k)'
      BY <2>2
    <3>2. n = k \/ n \in 1 .. pos[c]
      BY <1>2, <2>2, <3>1
    <3>3. \A i \in 1 .. pos[c] : i \in 1 .. Len(topic) /\ Seen(i)
      BY <3>1
    <3> QED
      BY <3>1, <3>2, <3>3
  <2> QED
    BY <2>1, <2>2
<1>3. committed # NoOffset => \A n \in 1 .. committed : Seen(n)'
  OBVIOUS
<1> QED
  BY <1>2, <1>3

LEMMA DeliverInv ==
    ASSUME NotifInv, NEW c \in Consumer, Deliver(c) PROVE NotifInv'
<1> USE OffsetAssumption DEF NotifInv, Deliver, Pass, Go
<1>1. NotifTypeOK'
  <2>1. pos' \in [Consumer -> 0 .. Len(topic) \cup {NoOffset}]
    BY DEF NotifTypeOK
  <2>2. skipped' \in SUBSET (1 .. Len(topic))
    <3>1. pos[c] \in 0 .. Len(topic) /\ pos[c] < Len(topic) /\ Len(topic) \in Nat
      BY DEF NotifTypeOK
    <3>2. skipped' \subseteq skipped \cup {pos[c] + 1}
      OBVIOUS
    <3> QED
      BY <3>1, <3>2 DEF NotifTypeOK
  <2> QED
    BY <2>1, <2>2 DEF NotifTypeOK, Await
<1>2. \A d \in Consumer \ {c} : pos'[d] = pos[d] /\ consumerAt'[d] = consumerAt[d]
  BY DEF NotifTypeOK
<1>3. consumerAt'[c] # "inserted" /\ (consumerAt'[c] = "insert" => pos' = pos /\ InHand(c) \in Key)
  BY DEF NotifTypeOK, InHand, Key
<1>4. HoldsMessage'
  BY <1>2, <1>3 DEF HoldsMessage, NotifTypeOK, InHand
<1>5. OwnsMark' /\ HandledMarked' /\ InboxOffered'
  BY <1>2, <1>3 DEF OwnsMark, HandledMarked, HandledKeys, InboxOffered, Offered, InHand
<1>6. \A n \in 1 .. Len(topic) : Seen(n) => Seen(n)'
  BY DEF Seen
<1>7. pos'[c] = pos[c] \/ \E n \in 1 .. Len(topic) : pos[c] = n - 1 /\ pos'[c] = n /\ Seen(n)'
  BY DEF NotifTypeOK, Seen, InHand
<1>8. PassedSeen'
  BY <1>2, <1>6, <1>7, PassedSeenStep
<1> QED
  BY <1>1, <1>4, <1>5, <1>8

LEMMA TryMarkProcessedInv ==
    ASSUME NotifInv, NEW c \in Consumer, TryMarkProcessed(c) PROVE NotifInv'
<1> USE OffsetAssumption DEF NotifInv, TryMarkProcessed, Pass, Go, Mark
<1>0. pos[c] \in 0 .. Len(topic) - 1 /\ InHand(c) \in Key
  BY DEF HoldsMessage
<1>1. NotifTypeOK'
  BY <1>0 DEF NotifTypeOK, Await
<1>2. \A d \in Consumer \ {c} : pos'[d] = pos[d] /\ consumerAt'[d] = consumerAt[d]
  BY DEF NotifTypeOK
<1>3. consumerAt'[c] = "inserted" =>
          pos' = pos /\ InHand(c) \notin inbox /\ inbox' = inbox \cup {InHand(c)}
  BY DEF NotifTypeOK
<1>4. HoldsMessage'
  BY <1>0, <1>2, <1>3 DEF HoldsMessage, NotifTypeOK, InHand
<1>5. OwnsMark'
  BY <1>2, <1>3 DEF OwnsMark, HandledMarked, HandledKeys, InHand
<1>6. HandledMarked'
  BY DEF HandledMarked, HandledKeys
<1>7. InboxOffered'
  BY <1>0 DEF InboxOffered, Offered, InHand, Key, NotifTypeOK
<1>8. \A n \in 1 .. Len(topic) : Seen(n) => Seen(n)'
  BY DEF Seen
<1>9. pos'[c] = pos[c] \/ \E n \in 1 .. Len(topic) : pos[c] = n - 1 /\ pos'[c] = n /\ Seen(n)'
  BY <1>0 DEF NotifTypeOK, Seen, InHand
<1>10. PassedSeen'
  BY <1>2, <1>8, <1>9, PassedSeenStep
<1> QED
  BY <1>1, <1>4, <1>5, <1>6, <1>7, <1>10

LEMMA HandleEventInv ==
    ASSUME NotifInv, NEW c \in Consumer, HandleEvent(c)
    PROVE  /\ NotifInv'
           /\ handled' = Append(handled, InHand(c)) /\ InHand(c) \in Offered \ HandledKeys
<1> USE OffsetAssumption DEF NotifInv, HandleEvent, Pass, Go
<1>0. /\ pos[c] \in 0 .. Len(topic) - 1 /\ InHand(c) \in Key
      /\ InHand(c) \in inbox \ HandledKeys
  BY DEF HoldsMessage, OwnsMark
<1>1. NotifTypeOK'
  BY <1>0 DEF NotifTypeOK, Await
<1>2. \A d \in Consumer \ {c} :
          pos'[d] = pos[d] /\ consumerAt'[d] = consumerAt[d] /\ InHand(d)' = InHand(d)
  BY DEF NotifTypeOK, InHand
<1>3. consumerAt'[c] = "ready"
  BY DEF NotifTypeOK
<1>4. HoldsMessage'
  BY <1>2, <1>3 DEF HoldsMessage, NotifTypeOK
<1>5. HandledKeys' = HandledKeys \cup {InHand(c)}
  <2>1. DOMAIN handled' = DOMAIN handled \cup {Len(handled) + 1}
    BY DEF NotifTypeOK
  <2>2. \A n \in DOMAIN handled : handled'[n] = handled[n]
    BY DEF NotifTypeOK
  <2>3. handled'[Len(handled) + 1] = InHand(c)
    BY DEF NotifTypeOK
  <2> QED
    BY <2>1, <2>2, <2>3 DEF HandledKeys
<1>6. OwnsMark'
  BY <1>2, <1>3, <1>5 DEF OwnsMark
<1>7. HandledMarked' /\ InboxOffered'
  BY <1>0, <1>5 DEF HandledMarked, InboxOffered, Offered
<1>8. \A n \in 1 .. Len(topic) : Seen(n) => Seen(n)'
  BY DEF Seen
<1>9. \E n \in 1 .. Len(topic) : pos[c] = n - 1 /\ pos'[c] = n /\ Seen(n)'
  BY <1>0 DEF NotifTypeOK, Seen, InHand
<1>10. PassedSeen'
  BY <1>2, <1>8, <1>9, PassedSeenStep
<1> QED
  BY <1>0, <1>1, <1>4, <1>6, <1>7, <1>10 DEF InboxOffered

\* The steps that move no offset but to NoOffset, and hold or handle no message.
LEMMA LifeInv ==
    ASSUME NotifInv, NEW c \in Consumer,
           \/ Commit(c) \/ StartConsumer(c) \/ SignalConsumer(c)
           \/ StopConsumer(c) \/ ExitConsumer(c) \/ CrashConsumer(c)
    PROVE  NotifInv' /\ UNCHANGED <<topic, handled>>
<1> USE OffsetAssumption
    DEF NotifInv, Commit, StartConsumer, SignalConsumer, StopConsumer, ExitConsumer,
        CrashConsumer, ConsumerGone, Go, groupVars
<1>1. NotifTypeOK'
  <2>1. interrupted' \in SUBSET Key
    BY DEF NotifTypeOK, HoldsMessage
  <2> QED
    BY <2>1 DEF NotifTypeOK, Await, Life
<1>2. UNCHANGED <<topic, inbox, handled, skipped>>
  OBVIOUS
<1>3. \A d \in Consumer :
          /\ consumerAt'[d] \in {"insert", "inserted"} => consumerAt'[d] = consumerAt[d] /\ pos'[d] = pos[d]
          /\ pos'[d] \in {pos[d], NoOffset}
  BY DEF NotifTypeOK
<1>4. committed' = committed \/ \E d \in Consumer : pos[d] # NoOffset /\ committed' = pos[d]
  OBVIOUS
<1>5. HoldsMessage' /\ OwnsMark' /\ HandledMarked' /\ InboxOffered'
  BY <1>2, <1>3 DEF HoldsMessage, OwnsMark, HandledMarked, HandledKeys, InboxOffered, Offered, InHand
<1>6. PassedSeen'
  BY <1>2, <1>3, <1>4 DEF PassedSeen, Seen
<1> QED
  BY <1>1, <1>2, <1>5, <1>6

LEMMA NotifUnchanged ==
    ASSUME NotifInv, UNCHANGED notifVars PROVE NotifInv'
BY DEF notifVars, consumerVars, groupVars, NotifInv, NotifTypeOK, HoldsMessage, OwnsMark,
       HandledMarked, HandledKeys, InboxOffered, Offered, PassedSeen, Seen, InHand

LEMMA NotifStepInv == NotifInv /\ [NotifNext]_notifVars => NotifInv'
BY ProduceGrows, GrowthInv, AssignInv, DeliverInv, TryMarkProcessedInv, HandleEventInv, LifeInv,
   NotifUnchanged
DEF NotifNext, ConsumerNext, ConsumerStep

THEOREM NotifInvariance == NotifSpec => []NotifInv
BY NotifInitInv, NotifStepInv, PTL DEF NotifSpec

(***************************************************************************)
(* The variables keep their types.                                         *)
(***************************************************************************)
THEOREM NotifTypeCorrect == NotifSpec => []NotifTypeOK
BY NotifInvariance, PTL DEF NotifInv

LEMMA PassedSeenMarked == NotifInv => PassedIsMarked
BY DEF NotifInv, PassedSeen, Seen, PassedIsMarked

(***************************************************************************)
(* The group never commits an offset past a message that has no mark in    *)
(* the inbox, whatever fails, however often the partition changes hands.   *)
(***************************************************************************)
THEOREM PassedIsMarkedHolds == NotifSpec => []PassedIsMarked
BY NotifInvariance, PassedSeenMarked, PTL
-----------------------------------------------------------------------------
LEMMA DeliveryInit == NotifInit => Delivery!Init
BY DEF NotifInit, Delivery!Init, Offered

LEMMA DeliveryStep ==
    NotifInv /\ [NotifNext]_notifVars => [Delivery!Next]_<<Offered, handled>>
<1> SUFFICES ASSUME NotifInv, [NotifNext]_notifVars
             PROVE  Delivery!Next \/ (Offered' = Offered /\ handled' = handled)
  OBVIOUS
<1>1. ASSUME NEW m \in Message, Produce(m)
      PROVE  Delivery!Next \/ (Offered' = Offered /\ handled' = handled)
  <2>1. /\ DOMAIN topic' = DOMAIN topic \cup {Len(topic) + 1}
        /\ \A n \in DOMAIN topic : topic'[n] = topic[n]
        /\ topic'[Len(topic) + 1] = m
    BY <1>1 DEF Produce, NotifInv, NotifTypeOK
  <2>2. Offered' = Offered \cup ({KeyOf[m]} \ {NoKey})
    BY <2>1 DEF Offered
  <2>3. handled' = handled
    BY <1>1 DEF Produce, consumerVars
  <2>4. CASE KeyOf[m] = NoKey
    BY <2>2, <2>3, <2>4
  <2>5. CASE KeyOf[m] # NoKey
    <3>1. KeyOf[m] \in Key
      BY <2>5 DEF Key
    <3>2. Delivery!Offer(KeyOf[m])
      BY <2>2, <2>3, <2>5 DEF Delivery!Offer
    <3> QED
      BY <3>1, <3>2 DEF Delivery!Next
  <2> QED
    BY <2>4, <2>5
<1>2. ASSUME NEW c \in Consumer, HandleEvent(c) PROVE Delivery!Next
  <2>1. InHand(c) \in Offered \ HandledKeys /\ handled' = Append(handled, InHand(c))
    BY <1>2, HandleEventInv
  <2>2. Offered' = Offered
    BY <1>2 DEF HandleEvent, Offered
  <2>3. InHand(c) \in Key
    BY <2>1 DEF Offered, Key, NotifInv, NotifTypeOK
  <2> QED
    BY <2>1, <2>2, <2>3 DEF Delivery!Next, Delivery!Handle, Delivery!Handled, HandledKeys
<1>3. ASSUME NEW c \in Consumer, Assign(c) \/ Deliver(c) \/ TryMarkProcessed(c)
      PROVE  Offered' = Offered /\ handled' = handled
  BY <1>3 DEF Assign, Deliver, TryMarkProcessed, Offered
<1>4. ASSUME NEW c \in Consumer,
             \/ Commit(c) \/ StartConsumer(c) \/ SignalConsumer(c)
             \/ StopConsumer(c) \/ ExitConsumer(c) \/ CrashConsumer(c)
      PROVE  Offered' = Offered /\ handled' = handled
  BY <1>4, LifeInv DEF Offered
<1>5. CASE UNCHANGED notifVars
  BY <1>5 DEF notifVars, consumerVars, Offered
<1> QED
  BY <1>1, <1>2, <1>3, <1>4, <1>5 DEF NotifNext, ConsumerNext, ConsumerStep

(***************************************************************************)
(* notifications-service handles every event at most once.                 *)
(***************************************************************************)
THEOREM ImplementsAtMostOnceHolds == NotifSpec => ImplementsAtMostOnce
BY NotifInvariance, DeliveryInit, DeliveryStep, PTL
DEF NotifSpec, ImplementsAtMostOnce, Delivery!Spec
-----------------------------------------------------------------------------
(***************************************************************************)
(* What the inbox says of an event, and what no step but an interruption   *)
(* takes back.                                                             *)
(***************************************************************************)
ForgottenFits == interrupted \subseteq inbox /\ MarkedIsHandled

LEMMA ForgottenInit == NotifInit => ForgottenFits
BY DEF NotifInit, ForgottenFits, MarkedIsHandled, Forgotten

\* Steps that mark and handle nothing and stop nobody between the two.
LEMMA ForgottenKept ==
    ASSUME ForgottenFits, UNCHANGED <<inbox, handled, interrupted>>,
           \A c \in Consumer, k \in inbox : AboutToHandle(c, k)' <=> AboutToHandle(c, k)
    PROVE  ForgottenFits'
<1>1. HandledKeys' = HandledKeys
  BY DEF HandledKeys
<1>2. Forgotten' = Forgotten
  BY <1>1 DEF Forgotten
<1> QED
  BY <1>2 DEF ForgottenFits, MarkedIsHandled

LEMMA MarkForgets ==
    ASSUME NotifInv, ForgottenFits, NEW c \in Consumer, TryMarkProcessed(c)
    PROVE  ForgottenFits'
<1> DEFINE K == InHand(c)
<1>1. /\ UNCHANGED <<topic, handled>>
      /\ \A d \in Consumer \ {c} : pos'[d] = pos[d] /\ consumerAt'[d] = consumerAt[d]
      /\ consumerAt[c] = "insert"
  BY DEF TryMarkProcessed, Pass, Go, NotifInv, NotifTypeOK
<1>2. HandledKeys' = HandledKeys
  BY <1>1 DEF HandledKeys
<1>3. \A d \in Consumer \ {c}, k \in Key : AboutToHandle(d, k)' <=> AboutToHandle(d, k)
  BY <1>1 DEF AboutToHandle, InHand
<1>4. \A k \in Key : ~AboutToHandle(c, k)
  BY <1>1 DEF AboutToHandle
<1>5. K \notin inbox => K \notin HandledKeys /\ \A d \in Consumer : ~AboutToHandle(d, K)
  BY DEF NotifInv, HandledMarked, OwnsMark, AboutToHandle
<1>6. inbox \subseteq Key /\ K \in Key
  BY <1>1 DEF NotifInv, NotifTypeOK, HoldsMessage
<1>7. CASE /\ K \notin inbox /\ inbox' = inbox \cup {K} /\ UNCHANGED <<pos, interrupted>>
           /\ consumerAt'[c] = "inserted"
  <2>1. \A k \in Key : AboutToHandle(c, k)' <=> k = K
    BY <1>1, <1>7 DEF AboutToHandle, InHand
  <2>2. Forgotten' = Forgotten
    BY <1>2, <1>3, <1>4, <1>5, <1>6, <1>7, <2>1 DEF Forgotten
  <2> QED
    BY <1>7, <2>2 DEF ForgottenFits, MarkedIsHandled
<1>8. CASE UNCHANGED <<inbox, interrupted>> /\ consumerAt'[c] = "ready"
  <2>1. \A k \in Key : ~AboutToHandle(c, k)'
    BY <1>8 DEF AboutToHandle
  <2> QED
    BY <1>1, <1>3, <1>4, <1>6, <1>8, <2>1, ForgottenKept
<1>9. CASE /\ inbox' = inbox \cup {K} /\ interrupted' = interrupted \cup ({K} \ inbox)
           /\ consumerAt'[c] = "ready"
  <2>1. \A k \in Key : ~AboutToHandle(c, k)'
    BY <1>9 DEF AboutToHandle
  <2>2. Forgotten' = Forgotten \cup ({K} \ inbox)
    BY <1>2, <1>3, <1>4, <1>5, <1>6, <1>9, <2>1 DEF Forgotten
  <2> QED
    BY <1>9, <2>2 DEF ForgottenFits, MarkedIsHandled
<1> QED
  BY <1>7, <1>8, <1>9 DEF TryMarkProcessed, Mark, Go, NotifInv, NotifTypeOK

LEMMA HandleForgets ==
    ASSUME NotifInv, ForgottenFits, NEW c \in Consumer, HandleEvent(c)
    PROVE  ForgottenFits'
<1>1. /\ UNCHANGED <<topic, inbox, interrupted>> /\ consumerAt[c] = "inserted"
      /\ consumerAt'[c] = "ready" /\ InHand(c) \in Key
      /\ \A d \in Consumer \ {c} : pos'[d] = pos[d] /\ consumerAt'[d] = consumerAt[d]
  BY DEF HandleEvent, Pass, Go, NotifInv, NotifTypeOK, HoldsMessage
<1>2. HandledKeys' = HandledKeys \cup {InHand(c)}
  <2>1. /\ handled \in Seq(Key) /\ handled' = Append(handled, InHand(c))
        /\ Len(handled) \in Nat /\ DOMAIN handled = 1 .. Len(handled)
        /\ DOMAIN handled' = 1 .. Len(handled) + 1
        /\ handled'[Len(handled) + 1] = InHand(c)
        /\ \A n \in 1 .. Len(handled) : handled'[n] = handled[n]
    BY <1>1 DEF NotifInv, NotifTypeOK, HandleEvent
  <2> QED
    BY <2>1 DEF HandledKeys
<1>3. \A d \in Consumer \ {c}, k \in inbox : AboutToHandle(d, k)' <=> AboutToHandle(d, k)
  BY <1>1 DEF AboutToHandle, InHand
<1>4. \A k \in inbox : ~AboutToHandle(c, k)' /\ (AboutToHandle(c, k) <=> k = InHand(c))
  BY <1>1 DEF AboutToHandle
<1>5. Forgotten' = Forgotten
  BY <1>1, <1>2, <1>3, <1>4 DEF Forgotten
<1> QED
  BY <1>1, <1>5 DEF ForgottenFits, MarkedIsHandled

LEMMA CrashForgets ==
    ASSUME NotifInv, ForgottenFits, NEW c \in Consumer, CrashConsumer(c)
    PROVE  ForgottenFits'
<1>1. /\ UNCHANGED <<topic, inbox, handled>> /\ consumerAt'[c] = "down"
      /\ \A d \in Consumer \ {c} : pos'[d] = pos[d] /\ consumerAt'[d] = consumerAt[d]
  BY DEF CrashConsumer, ConsumerGone, Go, NotifInv, NotifTypeOK
<1>2. HandledKeys' = HandledKeys
  BY <1>1 DEF HandledKeys
<1>3. \A d \in Consumer \ {c}, k \in inbox : AboutToHandle(d, k)' <=> AboutToHandle(d, k)
  BY <1>1 DEF AboutToHandle, InHand
<1>4. \A k \in inbox : ~AboutToHandle(c, k)'
  BY <1>1 DEF AboutToHandle
<1>5. CASE consumerAt[c] = "inserted"
  <2>1. /\ InHand(c) \in inbox \ HandledKeys
        /\ \A d \in Consumer \ {c} : ~AboutToHandle(d, InHand(c))
    BY <1>5 DEF NotifInv, OwnsMark, AboutToHandle
  <2>2. \A k \in inbox : AboutToHandle(c, k) <=> k = InHand(c)
    BY <1>5 DEF AboutToHandle
  <2>3. Forgotten' = Forgotten \cup {InHand(c)}
    BY <1>1, <1>2, <1>3, <1>4, <2>1, <2>2 DEF Forgotten
  <2>4. interrupted' = interrupted \cup {InHand(c)}
    BY <1>5 DEF CrashConsumer
  <2> QED
    BY <1>1, <2>1, <2>3, <2>4 DEF ForgottenFits, MarkedIsHandled
<1>6. CASE consumerAt[c] # "inserted"
  <2>1. interrupted' = interrupted
    BY <1>6 DEF CrashConsumer
  <2> QED
    BY <1>1, <1>3, <1>4, <1>6, <2>1, ForgottenKept DEF AboutToHandle
<1> QED
  BY <1>5, <1>6

\* A consumer leaves while it awaits nothing; the other steps move nobody who has marked.
LEMMA OthersForgetNothing ==
    ASSUME NotifInv, ForgottenFits, NEW c \in Consumer,
           \/ Assign(c) \/ Deliver(c) \/ Commit(c) \/ StartConsumer(c) \/ SignalConsumer(c)
           \/ StopConsumer(c) \/ ExitConsumer(c)
    PROVE  ForgottenFits'
<1>1. UNCHANGED <<topic, inbox, handled, interrupted>>
  BY DEF Assign, Deliver, Commit, StartConsumer, SignalConsumer, StopConsumer, ExitConsumer,
         ConsumerGone
<1>2. \A d \in Consumer :
          /\ consumerAt'[d] = "inserted" <=> consumerAt[d] = "inserted"
          /\ consumerAt[d] = "inserted" => pos'[d] = pos[d]
  BY DEF Assign, Deliver, Commit, StartConsumer, SignalConsumer, StopConsumer, ExitConsumer,
         ConsumerGone, Pass, Go, groupVars, NotifInv, NotifTypeOK
<1>3. \A d \in Consumer, k \in inbox : AboutToHandle(d, k)' <=> AboutToHandle(d, k)
  BY <1>1, <1>2 DEF AboutToHandle, InHand
<1> QED
  BY <1>1, <1>3, ForgottenKept

LEMMA ForgottenStep ==
    ASSUME NotifInv, ForgottenFits, ConsumerNext \/ TopicGrows \/ UNCHANGED notifVars
    PROVE  ForgottenFits'
<1>1. CASE ConsumerNext
  BY <1>1, MarkForgets, HandleForgets, CrashForgets, OthersForgetNothing DEF ConsumerNext, ConsumerStep
<1>2. CASE TopicGrows
  <2>1. \A c \in Consumer : consumerAt[c] = "inserted" => InHand(c)' = InHand(c)
    <3>1. ASSUME NEW c \in Consumer, consumerAt[c] = "inserted"
          PROVE  pos[c] + 1 \in 1 .. Len(topic) /\ pos'[c] = pos[c]
      BY <1>2, <3>1
      DEF TopicGrows, consumerVars, groupVars, NotifInv, HoldsMessage, NotifTypeOK
    <3> QED
      BY <1>2, <3>1 DEF TopicGrows, InHand
  <2>2. \A c \in Consumer, k \in inbox : AboutToHandle(c, k)' <=> AboutToHandle(c, k)
    BY <1>2, <2>1 DEF TopicGrows, consumerVars, AboutToHandle
  <2> QED
    BY <1>2, <2>2, ForgottenKept DEF TopicGrows, consumerVars
<1>3. CASE UNCHANGED notifVars
  BY <1>3, ForgottenKept DEF notifVars, consumerVars, groupVars, AboutToHandle, InHand
<1> QED
  BY <1>1, <1>2, <1>3

(***************************************************************************)
(* An event in the inbox is handled or about to be, unless the call that   *)
(* marked it was interrupted; and such an event is never handled.  This is *)
(* so for any group of consumers and under all faults.                     *)
(***************************************************************************)
THEOREM MarkedIsHandledHolds == NotifSpec => []MarkedIsHandled
<1>1. NotifInv /\ ForgottenFits /\ [NotifNext]_notifVars => ForgottenFits'
  BY ForgottenStep, ProduceGrows DEF NotifNext
<1>2. ForgottenFits => MarkedIsHandled
  BY DEF ForgottenFits
<1> QED
  BY <1>1, <1>2, ForgottenInit, NotifInvariance, PTL DEF NotifSpec
-----------------------------------------------------------------------------
(***************************************************************************)
(* One consumer, and the order of the topic.  Delivery goes back to the    *)
(* committed offset after every rebalance, error and restart, and jumps to *)
(* the end when nothing is committed; still the consumer handles a message *)
(* only if everything it handled before stands before it.                  *)
(***************************************************************************)
OneConsumer == \A c, d \in Consumer : c = d

\* The consumer will not see a message up to this offset again.
Base(c) ==
    IF committed # NoOffset THEN committed ELSE IF pos[c] # NoOffset THEN pos[c] ELSE Len(topic)

Settled(n) == KeyOf[topic[n]] \in inbox \cup {NoKey}

HandledBefore(n) == \A k \in HandledKeys : \E m \in DOMAIN topic : m < n /\ KeyOf[topic[m]] = k

\* Between the base and its position a consumer has left nothing unmarked, unless it drops
\* messages during a shutdown; then it handles nothing more.
NoGap(c) ==
    /\ pos[c] # NoOffset =>
          /\ Base(c) <= pos[c]
          /\ life[c] # "stopping" => \A n \in Base(c) + 1 .. pos[c] : Settled(n)
    /\ life[c] = "stopping" => consumerAt[c] = "ready"

\* What a consumer may still handle comes after all that is handled.
ToComeIsLater(c) ==
    /\ \A n \in DOMAIN topic : n > Base(c) /\ ~Settled(n) => HandledBefore(n)
    /\ consumerAt[c] = "inserted" => HandledBefore(pos[c] + 1)

HandledInTopicOrder ==
    \A m, n \in DOMAIN handled : m < n =>
        \E a, b \in DOMAIN topic :
            a < b /\ KeyOf[topic[a]] = handled[m] /\ KeyOf[topic[b]] = handled[n]

TopicOrderInv ==
    /\ \A c \in Consumer : NoGap(c) /\ ToComeIsLater(c)
    /\ HandledInTopicOrder

LEMMA TopicOrderInit == NotifInit => TopicOrderInv
BY DEF NotifInit, TopicOrderInv, NoGap, ToComeIsLater, HandledInTopicOrder

LEMMA TopicOrderGrowth ==
    ASSUME NotifInv, TopicOrderInv, TopicGrows PROVE TopicOrderInv'
<1> USE OffsetAssumption DEF NotifInv, TopicGrows, consumerVars, groupVars
<1>1. /\ DOMAIN topic = 1 .. Len(topic) /\ DOMAIN topic' = 1 .. Len(topic')
      /\ Len(topic) \in Nat /\ Len(topic') \in Nat
      /\ \A n \in DOMAIN topic : n \in DOMAIN topic' /\ topic'[n] = topic[n]
  <2>1. topic \in Seq(Message)
    BY DEF NotifTypeOK
  <2>2. DOMAIN topic = 1 .. Len(topic) /\ Len(topic) \in Nat
    BY <2>1
  <2>3. DOMAIN topic' = 1 .. Len(topic') /\ Len(topic') \in Nat
    OBVIOUS
  <2> QED
    BY <2>2, <2>3
<1>2. HandledKeys' = HandledKeys
  BY DEF HandledKeys
<1>3. \A n : HandledBefore(n) => HandledBefore(n)'
  BY <1>1, <1>2 DEF HandledBefore
<1>4. \A n \in DOMAIN topic : Settled(n)' <=> Settled(n)
  BY <1>1 DEF Settled
<1>5. ASSUME NEW c \in Consumer PROVE NoGap(c)' /\ ToComeIsLater(c)'
  <2>1. /\ pos[c] # NoOffset => pos[c] \in 0 .. Len(topic)
        /\ committed # NoOffset => committed \in 0 .. Len(topic)
    BY DEF NotifTypeOK
  <2>2. Base(c)' = Base(c) \/ Base(c)' = Len(topic')
    BY DEF Base
  <2>3. pos[c] # NoOffset => Base(c)' = Base(c)
    BY DEF Base
  <2>4. Base(c) \in 0 .. Len(topic)
    BY <1>1, <2>1 DEF Base
  <2>5. NoGap(c)'
    BY <1>1, <1>4, <2>1, <2>3, <2>4 DEF TopicOrderInv, NoGap
  <2>6. ASSUME NEW n \in DOMAIN topic', n > Base(c)', ~Settled(n)' PROVE HandledBefore(n)'
    <3>1. CASE n \in DOMAIN topic
      BY <1>1, <1>3, <1>4, <2>2, <2>6, <3>1 DEF TopicOrderInv, ToComeIsLater
    <3>2. CASE n \notin DOMAIN topic
      <4>1. \A k \in HandledKeys : \E m \in DOMAIN topic : KeyOf[topic[m]] = k
        BY DEF HandledMarked, InboxOffered, Offered
      <4>2. \A m \in DOMAIN topic : m < n
        BY <1>1, <3>2
      <4> QED
        BY <1>1, <1>2, <4>1, <4>2 DEF HandledBefore
    <3> QED
      BY <3>1, <3>2
  <2>7. consumerAt[c] = "inserted" => HandledBefore(pos[c] + 1)'
    BY <1>3, <2>1 DEF TopicOrderInv, ToComeIsLater, HoldsMessage
  <2> QED
    BY <2>5, <2>6, <2>7 DEF ToComeIsLater
<1>6. HandledInTopicOrder'
  BY <1>1 DEF TopicOrderInv, HandledInTopicOrder
<1> QED
  BY <1>5, <1>6 DEF TopicOrderInv

(***************************************************************************)
(* The steps that handle nothing, in one consumer: what may still come is  *)
(* less than before, and an unmarked message is not left behind.           *)
(***************************************************************************)
LEMMA TopicOrderKept ==
    ASSUME NotifInv, NotifInv', TopicOrderInv, OneConsumer, NEW c \in Consumer,
           UNCHANGED <<topic, handled>>, inbox \subseteq inbox',
           Base(c) <= Base(c)', NoGap(c)',
           consumerAt'[c] = "inserted" =>
               \/ consumerAt[c] = "inserted" /\ pos'[c] = pos[c]
               \/ HandledBefore(pos'[c] + 1)
    PROVE  TopicOrderInv'
<1>1. HandledKeys' = HandledKeys
  BY DEF HandledKeys
<1>2. \A n : (HandledBefore(n)' <=> HandledBefore(n)) /\ (Settled(n) => Settled(n)')
  BY <1>1 DEF HandledBefore, Settled
<1>3. Base(c) \in Nat /\ Base(c)' \in Nat /\ DOMAIN topic \subseteq Nat
  BY OffsetAssumption DEF NotifInv, NotifTypeOK, Base
<1>4. ToComeIsLater(c) /\ HandledInTopicOrder
  BY DEF TopicOrderInv
<1>5. \A n \in DOMAIN topic : n > Base(c)' => n > Base(c)
  BY <1>3
<1>6. ToComeIsLater(c)'
  BY <1>2, <1>4, <1>5 DEF ToComeIsLater
<1>7. HandledInTopicOrder'
  BY <1>4 DEF HandledInTopicOrder
<1> QED
  BY <1>6, <1>7 DEF TopicOrderInv, OneConsumer

LEMMA AssignOrder ==
    ASSUME NotifInv, NotifInv', TopicOrderInv, OneConsumer, NEW c \in Consumer, Assign(c)
    PROVE  TopicOrderInv'
<1> USE OffsetAssumption DEF NotifInv, Assign
<1>1. Base(c) <= Base(c)' /\ pos'[c] = Base(c)' /\ Base(c)' \in Nat
  BY DEF NotifTypeOK, Base
<1>2. NoGap(c)'
  BY <1>1 DEF TopicOrderInv, NoGap
<1>3. consumerAt'[c] # "inserted"
  OBVIOUS
<1> QED
  BY <1>1, <1>2, <1>3, TopicOrderKept

LEMMA CommitOrder ==
    ASSUME NotifInv, NotifInv', TopicOrderInv, OneConsumer, NEW c \in Consumer, Commit(c)
    PROVE  TopicOrderInv'
<1> USE OffsetAssumption DEF NotifInv, Commit
<1>1. Base(c) <= Base(c)' /\ pos'[c] = Base(c)' /\ Base(c)' \in Nat
  BY DEF NotifTypeOK, Base, TopicOrderInv, NoGap
<1>2. NoGap(c)'
  BY <1>1 DEF TopicOrderInv, NoGap
<1> QED
  BY <1>1, <1>2, TopicOrderKept

LEMMA DeliverOrder ==
    ASSUME NotifInv, NotifInv', TopicOrderInv, OneConsumer, NEW c \in Consumer, Deliver(c)
    PROVE  TopicOrderInv'
<1> USE OffsetAssumption DEF NotifInv, Deliver, Pass, Go
<1>1. NoGap(c) /\ pos[c] \in 0 .. Len(topic) /\ Len(topic) \in Nat
  BY DEF TopicOrderInv, NotifTypeOK
<1>2. Base(c) <= Base(c)' /\ Base(c) \in Nat
  BY <1>1 DEF NotifTypeOK, Base
<1>3. CASE pos' = pos
  <2>1. Base(c)' = Base(c) /\ life[c] = "running"
    BY <1>1, <1>3 DEF Base, NotifTypeOK
  <2>2. NoGap(c)'
    BY <1>1, <1>3, <2>1 DEF NoGap, Settled
  <2>3. consumerAt'[c] # "inserted"
    BY <1>1, <1>3 DEF NotifTypeOK
  <2> QED
    BY <1>2, <2>2, <2>3, TopicOrderKept
<1>4. CASE pos' = [pos EXCEPT ![c] = @ + 1] /\ UNCHANGED consumerAt
  <2>1. pos'[c] = pos[c] + 1 /\ pos'[c] # NoOffset
    BY <1>1, <1>4 DEF NotifTypeOK
  <2>2. Base(c)' = Base(c) \/ Base(c)' = pos'[c]
    BY <1>1, <2>1 DEF Base
  <2>3. life[c] # "stopping" => Settled(pos[c] + 1)
    BY <1>1, <1>4, <2>1 DEF Settled, InHand
  <2>4. NoGap(c)'
    BY <1>1, <1>2, <1>4, <2>1, <2>2, <2>3 DEF NoGap, Settled
  <2> QED
    BY <1>2, <1>4, <2>4, TopicOrderKept
<1> QED
  BY <1>3, <1>4

LEMMA MarkOrder ==
    ASSUME NotifInv, NotifInv', TopicOrderInv, OneConsumer, NEW c \in Consumer,
           TryMarkProcessed(c)
    PROVE  TopicOrderInv'
<1> USE OffsetAssumption DEF NotifInv, TryMarkProcessed, Mark, Pass, Go
<1>1. /\ NoGap(c) /\ ToComeIsLater(c)
      /\ pos[c] \in 0 .. Len(topic) - 1 /\ Len(topic) \in Nat /\ InHand(c) \in Key
      /\ DOMAIN topic = 1 .. Len(topic)
  BY DEF TopicOrderInv, NotifTypeOK, HoldsMessage
<1>2. Base(c) <= Base(c)' /\ Base(c) \in Nat
  BY <1>1 DEF NotifTypeOK, Base
<1>3. \A n : Settled(n) => Settled(n)'
  BY DEF Settled
<1>4. life[c] # "stopping" /\ UNCHANGED life
  BY <1>1 DEF NoGap
<1>5. CASE pos' = pos
  <2>1. Base(c)' = Base(c)
    BY <1>5 DEF Base
  <2>2. NoGap(c)'
    BY <1>1, <1>3, <1>4, <1>5, <2>1 DEF NoGap
  <2>3. consumerAt'[c] = "inserted" => ~Settled(pos[c] + 1)
    BY <1>1, <1>5 DEF Settled, InHand, Key, NotifTypeOK
  <2>4. consumerAt'[c] = "inserted" => HandledBefore(pos[c] + 1)
    BY <1>1, <1>2, <2>3 DEF ToComeIsLater, NoGap
  <2> QED
    BY <1>2, <1>5, <2>2, <2>4, TopicOrderKept
<1>6. CASE pos' = [pos EXCEPT ![c] = @ + 1] /\ Go(c, "ready") /\ InHand(c) \in inbox
  <2>1. pos'[c] = pos[c] + 1 /\ pos'[c] # NoOffset /\ consumerAt'[c] = "ready"
    BY <1>1, <1>6 DEF NotifTypeOK
  <2>2. Base(c)' = Base(c) \/ Base(c)' = pos'[c]
    BY <1>1, <2>1 DEF Base
  <2>3. Settled(pos[c] + 1)
    BY <1>6 DEF Settled, InHand
  <2>4. NoGap(c)'
    BY <1>1, <1>2, <1>3, <1>4, <2>1, <2>2, <2>3 DEF NoGap
  <2> QED
    BY <1>2, <2>1, <2>4, TopicOrderKept
<1> QED
  BY <1>5, <1>6

LEMMA LifeOrder ==
    ASSUME NotifInv, NotifInv', TopicOrderInv, OneConsumer, NEW c \in Consumer,
           StartConsumer(c) \/ SignalConsumer(c) \/ StopConsumer(c)
               \/ ExitConsumer(c) \/ CrashConsumer(c)
    PROVE  TopicOrderInv'
<1> USE OffsetAssumption DEF NotifInv
<1>1. NoGap(c) /\ NotifTypeOK /\ Base(c) \in Nat
  BY DEF TopicOrderInv, NotifTypeOK, Base
<1>2. CASE StartConsumer(c) \/ SignalConsumer(c) \/ StopConsumer(c)
  <2>1. UNCHANGED <<topic, handled, inbox, pos, committed>>
    BY <1>2 DEF StartConsumer, SignalConsumer, StopConsumer, groupVars
  <2>2. Base(c)' = Base(c)
    BY <2>1 DEF Base
  <2>3. /\ life'[c] = "stopping" => life[c] = "stopping" \/ consumerAt'[c] = "ready"
        /\ life'[c] # "stopping" => life[c] # "stopping"
        /\ consumerAt[c] = "ready" => consumerAt'[c] = "ready"
        /\ consumerAt'[c] = "inserted" => consumerAt[c] = "inserted"
    BY <1>1, <1>2 DEF StartConsumer, SignalConsumer, StopConsumer, Go, groupVars, NotifTypeOK
  <2>4. NoGap(c)'
    BY <1>1, <2>1, <2>2, <2>3 DEF NoGap, Settled
  <2> QED
    BY <1>1, <2>1, <2>2, <2>3, <2>4, TopicOrderKept
<1>3. CASE ConsumerGone(c)
  <2>1. /\ UNCHANGED <<topic, handled, inbox, committed>>
        /\ pos'[c] = NoOffset /\ life'[c] = "running" /\ consumerAt'[c] = "down"
    BY <1>1, <1>3 DEF ConsumerGone, Go, NotifTypeOK
  <2>2. Base(c) <= Base(c)'
    BY <1>1, <2>1 DEF Base, NotifTypeOK
  <2>3. NoGap(c)'
    BY <2>1 DEF NoGap
  <2> QED
    BY <2>1, <2>2, <2>3, TopicOrderKept
<1> QED
  BY <1>2, <1>3 DEF ExitConsumer, CrashConsumer

LEMMA HandleOrder ==
    ASSUME NotifInv, NotifInv', TopicOrderInv, OneConsumer, NEW c \in Consumer, HandleEvent(c)
    PROVE  TopicOrderInv'
<1> USE OffsetAssumption DEF NotifInv, HandleEvent, Pass, Go
<1>1. /\ NoGap(c) /\ ToComeIsLater(c) /\ HandledInTopicOrder
      /\ pos[c] \in 0 .. Len(topic) - 1 /\ Len(topic) \in Nat
      /\ DOMAIN topic = 1 .. Len(topic) /\ InHand(c) \in inbox
  BY DEF TopicOrderInv, NotifTypeOK, HoldsMessage, OwnsMark
<1>2. Base(c) \in Nat
  BY <1>1 DEF NotifTypeOK, Base
<1>3. /\ pos'[c] = pos[c] + 1 /\ pos'[c] # NoOffset /\ pos[c] # NoOffset
      /\ consumerAt'[c] = "ready" /\ UNCHANGED <<topic, committed, inbox, life>>
  BY <1>1 DEF NotifTypeOK
<1>4. /\ handled \in Seq(Key) /\ Len(handled) \in Nat
      /\ DOMAIN handled = 1 .. Len(handled) /\ DOMAIN handled' = 1 .. Len(handled) + 1
      /\ \A n \in 1 .. Len(handled) : handled'[n] = handled[n]
      /\ handled'[Len(handled) + 1] = InHand(c)
  BY DEF NotifTypeOK
<1>5. HandledKeys' = HandledKeys \cup {InHand(c)}
  BY <1>4 DEF HandledKeys
<1>6. HandledBefore(pos[c] + 1)
  BY <1>1 DEF ToComeIsLater
<1>7. Base(c)' = Base(c) \/ Base(c)' = pos'[c]
  BY <1>3 DEF Base
<1>8. Settled(pos[c] + 1) /\ \A n : Settled(n)' <=> Settled(n)
  BY <1>1, <1>3 DEF Settled, InHand
<1>9. NoGap(c)'
  <2>1. ASSUME life[c] # "stopping", NEW n \in Base(c)' + 1 .. pos'[c] PROVE Settled(n)'
    <3>1. n = pos[c] + 1 \/ n \in Base(c) + 1 .. pos[c]
      BY <1>1, <1>2, <1>3, <1>7, <2>1 DEF NoGap
    <3> QED
      BY <1>1, <1>3, <1>8, <2>1, <3>1 DEF NoGap
  <2>2. Base(c)' <= pos'[c]
    BY <1>1, <1>2, <1>3, <1>7 DEF NoGap
  <2> QED
    BY <1>3, <2>1, <2>2 DEF NoGap
<1>10. ASSUME NEW n \in DOMAIN topic', n > Base(c)', ~Settled(n)' PROVE HandledBefore(n)'
  <2>1. n \in DOMAIN topic /\ ~Settled(n) /\ n > Base(c) /\ n \in Nat
    BY <1>1, <1>2, <1>3, <1>7, <1>8, <1>10 DEF NoGap
  <2>2. pos[c] + 1 < n
    BY <1>1, <1>2, <1>3, <1>8, <2>1 DEF NoGap
  <2>3. HandledBefore(n)
    BY <1>1, <2>1 DEF ToComeIsLater
  <2> QED
    BY <1>1, <1>3, <1>5, <2>2, <2>3 DEF HandledBefore, InHand
<1>11. ToComeIsLater(c)'
  BY <1>3, <1>10 DEF ToComeIsLater
<1>12. HandledInTopicOrder'
  <2> SUFFICES ASSUME NEW m \in DOMAIN handled', NEW n \in DOMAIN handled', m < n
               PROVE  \E a, b \in DOMAIN topic :
                          /\ a < b
                          /\ KeyOf[topic[a]] = handled'[m] /\ KeyOf[topic[b]] = handled'[n]
    BY <1>3 DEF HandledInTopicOrder
  <2>1. CASE n \in DOMAIN handled
    <3>1. m \in DOMAIN handled /\ handled'[m] = handled[m] /\ handled'[n] = handled[n]
      BY <1>4, <2>1
    <3> QED
      BY <1>1, <2>1, <3>1 DEF HandledInTopicOrder
  <2>2. CASE n = Len(handled) + 1
    <3>1. m \in DOMAIN handled /\ handled'[m] \in HandledKeys
      BY <1>4, <2>2 DEF HandledKeys
    <3>2. PICK a \in DOMAIN topic : a < pos[c] + 1 /\ KeyOf[topic[a]] = handled'[m]
      BY <1>6, <3>1 DEF HandledBefore
    <3> QED
      BY <1>1, <1>4, <2>2, <3>2 DEF InHand
  <2> QED
    BY <1>4, <2>1, <2>2
<1> QED
  BY <1>9, <1>11, <1>12 DEF TopicOrderInv, OneConsumer

LEMMA TopicOrderStep ==
    ASSUME NotifInv, NotifInv', TopicOrderInv, OneConsumer,
           ConsumerNext \/ TopicGrows \/ UNCHANGED notifVars
    PROVE  TopicOrderInv'
<1>1. CASE UNCHANGED notifVars
  BY <1>1
  DEF notifVars, consumerVars, groupVars, TopicOrderInv, NoGap, ToComeIsLater, HandledInTopicOrder,
      Base, Settled, HandledBefore, HandledKeys
<1>2. CASE ConsumerNext
  BY <1>2, AssignOrder, CommitOrder, DeliverOrder, MarkOrder, HandleOrder, LifeOrder
  DEF ConsumerNext, ConsumerStep
<1> QED
  BY <1>1, <1>2, TopicOrderGrowth

(***************************************************************************)
(* A single consumer handles events in the order of the topic, whatever    *)
(* fails: errors, redelivery from the committed offset, restarts,          *)
(* rebalances and dropped messages lose or delay events, and never let one *)
(* overtake another.                                                       *)
(***************************************************************************)
THEOREM OneConsumerKeepsOrder == NotifSpec => [](OneConsumer => HandledInTopicOrder)
<1>1. OneConsumer /\ NotifInv /\ NotifInv' /\ TopicOrderInv /\ [NotifNext]_notifVars => TopicOrderInv'
  BY TopicOrderStep, ProduceGrows DEF NotifNext
<1>2. TopicOrderInv => HandledInTopicOrder
  BY DEF TopicOrderInv
<1>3. CASE OneConsumer
  <2>1. NotifInv /\ NotifInv' /\ TopicOrderInv /\ [NotifNext]_notifVars => TopicOrderInv'
    BY <1>1, <1>3
  <2>2. TopicOrderInv => (OneConsumer => HandledInTopicOrder)
    BY <1>2
  <2> QED
    BY <2>1, <2>2, TopicOrderInit, NotifInvariance, PTL DEF NotifSpec
<1>4. CASE ~OneConsumer
  <2>1. OneConsumer => HandledInTopicOrder
    BY <1>4
  <2> QED
    BY <2>1, PTL
<1> QED
  BY <1>3, <1>4
=============================================================================
