-------------------------- MODULE WorkQueueProofs --------------------------
(***************************************************************************)
(* What module WorkQueue promises, for any messages, invocations, batch    *)
(* size and number of retries.  Placed, the invariant about where messages *)
(* are, is inductive on its own; Alerted, about the alerts the owner got,  *)
(* is inductive relative to it.                                            *)
(***************************************************************************)
EXTENDS WorkQueue, TLAPS

\* A message of a batch has retries left, is in no other place and in no
\* other batch.
LEMMA InOneBatch ==
  ASSUME Placed, NEW c \in Consumer, NEW m \in batch[c]
  PROVE  /\ m \in Message
         /\ m \notin waiting \cup acked \cup dead
         /\ attempts[m] \in 0 .. MaxRetries
         /\ \A d \in Consumer : d # c => m \notin batch[d] /\ m \notin handled[d]
<1>1. m \in Message BY DEF Placed, TypeOK
<1>2. m \in InBatches BY DEF InBatches
<1>3. m \notin waiting \cup acked \cup dead BY <1>2 DEF Placed, NothingDropped
<1>4. attempts[m] \in 0 .. MaxRetries + 1 /\ attempts[m] # MaxRetries + 1
  BY <1>1, <1>3 DEF Placed, TypeOK, DeadUsedRetries
<1>5. attempts[m] \in 0 .. MaxRetries BY <1>4, QueueAssumption
<1>6. \A d \in Consumer : d # c => m \notin batch[d] /\ m \notin handled[d]
  BY DEF Placed, NothingDropped, HandledOK
<1> QED BY <1>1, <1>3, <1>5, <1>6

LEMMA InitPlaced == Init => Placed
<1> SUFFICES ASSUME Init PROVE Placed OBVIOUS
<1>1. TypeOK BY QueueAssumption DEF Init, TypeOK
<1>2. NothingDropped BY DEF Init, NothingDropped, InBatches, Sent
<1>3. DeadUsedRetries BY QueueAssumption DEF Init, DeadUsedRetries
<1>4. HandledOK BY DEF Init, HandledOK
<1> QED BY <1>1, <1>2, <1>3, <1>4 DEF Placed

LEMMA SendPlaced == ASSUME Placed, NEW m \in Message, Send(m) PROVE Placed'
<1> USE DEF Placed, Send
<1>1. TypeOK' BY DEF TypeOK
<1>2. InBatches' = InBatches BY DEF InBatches
<1>3. NothingDropped' BY <1>2 DEF NothingDropped, Sent
<1>4. DeadUsedRetries' BY DEF DeadUsedRetries
<1>5. HandledOK' BY DEF HandledOK
<1> QED BY <1>1, <1>3, <1>4, <1>5

LEMMA DeliverPlaced == ASSUME Placed, NEW c \in Consumer, Deliver(c) PROVE Placed'
<1>1. PICK b \in SUBSET waiting : /\ batch' = [batch EXCEPT ![c] = b]
                                  /\ waiting' = waiting \ b
  BY DEF Deliver
<1>2. /\ batch[c] = {}
      /\ handled' = [handled EXCEPT ![c] = {}]
      /\ UNCHANGED <<acked, dead, attempts, alerts>>
  BY DEF Deliver
<1>3. /\ \A d \in Consumer : batch'[d] = IF d = c THEN b ELSE batch[d]
      /\ \A d \in Consumer : handled'[d] = IF d = c THEN {} ELSE handled[d]
  BY <1>1, <1>2 DEF Placed, TypeOK
<1>4. TypeOK' BY <1>1, <1>2 DEF Placed, TypeOK
<1>5. InBatches' = InBatches \cup b
  <2>1. InBatches' \subseteq InBatches \cup b BY <1>3 DEF InBatches
  <2>2. b \subseteq InBatches' BY <1>3 DEF InBatches
  <2>3. ASSUME NEW m \in InBatches PROVE m \in InBatches'
    <3>1. PICK d \in Consumer : m \in batch[d] BY <2>3 DEF InBatches
    <3>2. d # c BY <3>1, <1>2
    <3>3. m \in batch'[d] BY <3>1, <3>2, <1>3
    <3> QED BY <3>3 DEF InBatches
  <2> QED BY <2>1, <2>2, <2>3
<1>6. NothingDropped'
  <2>1. ASSUME NEW d \in Consumer, NEW e \in Consumer, d # e
        PROVE  batch'[d] \cap batch'[e] = {}
    <3>1. \A f \in Consumer : batch[f] \cap b = {}
      BY DEF Placed, NothingDropped, InBatches
    <3>2. batch[d] \cap batch[e] = {} BY <2>1 DEF Placed, NothingDropped
    <3> QED BY <2>1, <3>1, <3>2, <1>3
  <2>2. Sent' = Sent BY <1>1, <1>2, <1>5 DEF Sent
  <2> QED BY <1>1, <1>2, <1>5, <2>1, <2>2 DEF Placed, NothingDropped
<1>7. DeadUsedRetries' BY <1>2 DEF Placed, DeadUsedRetries
<1>8. HandledOK' BY <1>3 DEF Placed, HandledOK
<1> QED BY <1>4, <1>6, <1>7, <1>8 DEF Placed

LEMMA HandlePlaced ==
  ASSUME Placed, NEW c \in Consumer, NEW m \in Message, Handle(c, m)
  PROVE  Placed'
<1>1. /\ m \in batch[c]
      /\ handled' = [handled EXCEPT ![c] = @ \cup {m}]
      /\ UNCHANGED <<waiting, batch, acked, dead, attempts>>
  BY DEF Handle
<1>2. alerts' \in [Message -> Nat] BY DEF Placed, TypeOK, Handle
<1>3. TypeOK' BY <1>1, <1>2 DEF Placed, TypeOK
<1>4. NothingDropped' BY <1>1 DEF Placed, NothingDropped, InBatches, Sent
<1>5. DeadUsedRetries' BY <1>1 DEF Placed, DeadUsedRetries
<1>6. HandledOK' BY <1>1 DEF Placed, TypeOK, HandledOK
<1> QED BY <1>3, <1>4, <1>5, <1>6 DEF Placed

\* Batches end: the messages of one leave it for the places to.
LEMMA BatchEnds ==
  ASSUME Placed, NEW c \in Consumer,
         batch' = [batch EXCEPT ![c] = {}],
         handled' = [handled EXCEPT ![c] = {}]
  PROVE  /\ \A d \in Consumer : batch'[d] = IF d = c THEN {} ELSE batch[d]
         /\ \A d \in Consumer : handled'[d] = IF d = c THEN {} ELSE handled[d]
         /\ InBatches' = InBatches \ batch[c]
         /\ \A d, e \in Consumer : d # e => batch'[d] \cap batch'[e] = {}
         /\ HandledOK'
<1>1. /\ \A d \in Consumer : batch'[d] = IF d = c THEN {} ELSE batch[d]
      /\ \A d \in Consumer : handled'[d] = IF d = c THEN {} ELSE handled[d]
  BY DEF Placed, TypeOK
<1>2. \A d, e \in Consumer : d # e => batch[d] \cap batch[e] = {}
  BY DEF Placed, NothingDropped
<1>3. InBatches' = InBatches \ batch[c]
  <2>1. ASSUME NEW m \in InBatches' PROVE m \in InBatches \ batch[c]
    <3>1. PICK d \in Consumer : m \in batch'[d] BY <2>1 DEF InBatches
    <3>2. d # c /\ m \in batch[d] BY <3>1, <1>1
    <3> QED BY <3>2, <1>2 DEF InBatches
  <2>2. ASSUME NEW m \in InBatches, m \notin batch[c] PROVE m \in InBatches'
    <3>1. PICK d \in Consumer : m \in batch[d] BY <2>2 DEF InBatches
    <3>2. m \in batch'[d] BY <3>1, <2>2, <1>1
    <3> QED BY <3>2 DEF InBatches
  <2> QED BY <2>1, <2>2
<1>4. \A d, e \in Consumer : d # e => batch'[d] \cap batch'[e] = {} BY <1>1, <1>2
<1>5. HandledOK' BY <1>1 DEF Placed, HandledOK
<1> QED BY <1>1, <1>3, <1>4, <1>5

LEMMA AcknowledgePlaced ==
  ASSUME Placed, NEW c \in Consumer, Acknowledge(c)
  PROVE  Placed'
<1>1. /\ acked' = acked \cup batch[c]
      /\ batch' = [batch EXCEPT ![c] = {}]
      /\ handled' = [handled EXCEPT ![c] = {}]
      /\ UNCHANGED <<waiting, dead, attempts, alerts>>
  BY DEF Acknowledge
<1>2. TypeOK' BY <1>1 DEF Placed, TypeOK
<1>3. /\ InBatches' = InBatches \ batch[c]
      /\ \A d, e \in Consumer : d # e => batch'[d] \cap batch'[e] = {}
      /\ HandledOK'
  BY <1>1, BatchEnds
<1>4. batch[c] \subseteq InBatches BY DEF InBatches
<1>5. NothingDropped' BY <1>1, <1>3, <1>4 DEF Placed, NothingDropped, Sent
<1>6. DeadUsedRetries' BY <1>1 DEF Placed, DeadUsedRetries
<1> QED BY <1>2, <1>3, <1>5, <1>6 DEF Placed

\* What RetryBatch does to the attempts and to the places of messages.
LEMMA RetryFacts ==
  ASSUME Placed, NEW c \in Consumer, RetryBatch(c)
  PROVE  /\ dead' = dead \cup {m \in batch[c] : attempts[m] = MaxRetries}
         /\ waiting' = waiting \cup {m \in batch[c] : attempts[m] # MaxRetries}
         /\ attempts' \in [Message -> 0 .. MaxRetries + 1]
         /\ \A m \in batch[c] : attempts'[m] = attempts[m] + 1
         /\ \A m \in Message \ batch[c] : attempts'[m] = attempts[m]
         /\ batch' = [batch EXCEPT ![c] = {}]
         /\ handled' = [handled EXCEPT ![c] = {}]
         /\ UNCHANGED acked
<1>1. /\ dead' = dead \cup {m \in batch[c] : attempts[m] = MaxRetries}
      /\ waiting' = waiting \cup (batch[c] \ {m \in batch[c] : attempts[m] = MaxRetries})
      /\ attempts' = [m \in Message |-> IF m \in batch[c] THEN attempts[m] + 1 ELSE attempts[m]]
      /\ batch' = [batch EXCEPT ![c] = {}]
      /\ handled' = [handled EXCEPT ![c] = {}]
      /\ UNCHANGED acked
  BY DEF RetryBatch, Settle
<1>2. batch[c] \subseteq Message BY DEF Placed, TypeOK
<1>3. \A m \in batch[c] : attempts[m] \in 0 .. MaxRetries BY InOneBatch
<1>4. \A m \in Message : attempts[m] \in 0 .. MaxRetries + 1 BY DEF Placed, TypeOK
<1>5. attempts' \in [Message -> 0 .. MaxRetries + 1] BY <1>1, <1>3, <1>4, QueueAssumption
<1>6. /\ \A m \in batch[c] : attempts'[m] = attempts[m] + 1
      /\ \A m \in Message \ batch[c] : attempts'[m] = attempts[m]
  BY <1>1, <1>2
<1>7. waiting' = waiting \cup {m \in batch[c] : attempts[m] # MaxRetries} BY <1>1
<1> QED BY <1>1, <1>5, <1>6, <1>7

LEMMA RetryPlaced ==
  ASSUME Placed, NEW c \in Consumer, RetryBatch(c),
         alerts' \in [Message -> Nat]
  PROVE  Placed'
<1>1. /\ dead' = dead \cup {m \in batch[c] : attempts[m] = MaxRetries}
      /\ waiting' = waiting \cup {m \in batch[c] : attempts[m] # MaxRetries}
      /\ attempts' \in [Message -> 0 .. MaxRetries + 1]
      /\ \A m \in batch[c] : attempts'[m] = attempts[m] + 1
      /\ \A m \in Message \ batch[c] : attempts'[m] = attempts[m]
      /\ batch' = [batch EXCEPT ![c] = {}]
      /\ handled' = [handled EXCEPT ![c] = {}]
      /\ UNCHANGED acked
  BY RetryFacts
<1>2. TypeOK' BY <1>1 DEF Placed, TypeOK
<1>3. /\ InBatches' = InBatches \ batch[c]
      /\ \A d, e \in Consumer : d # e => batch'[d] \cap batch'[e] = {}
      /\ HandledOK'
  BY <1>1, BatchEnds
<1>4. batch[c] \subseteq InBatches BY DEF InBatches
<1>5. NothingDropped'
  <2>1. /\ waiting' \cap (InBatches' \cup acked' \cup dead') = {}
        /\ InBatches' \cap (acked' \cup dead') = {}
        /\ acked' \cap dead' = {}
    BY <1>1, <1>3, <1>4 DEF Placed, NothingDropped
  <2>2. Sent' = Sent BY <1>1, <1>3, <1>4 DEF Sent
  <2>3. ASSUME NEW m \in Message, attempts'[m] > 0 PROVE m \in Sent'
    <3>1. CASE m \in batch[c] BY <3>1, <1>4, <2>2 DEF Sent
    <3>2. CASE m \notin batch[c]
      BY <3>2, <2>2, <2>3, <1>1 DEF Placed, NothingDropped
    <3> QED BY <3>1, <3>2
  <2> QED BY <2>1, <2>3, <1>3 DEF NothingDropped
<1>6. DeadUsedRetries'
  <2> SUFFICES ASSUME NEW m \in Message
               PROVE  m \in dead' <=> attempts'[m] = MaxRetries + 1
    BY DEF DeadUsedRetries
  <2>1. m \in dead <=> attempts[m] = MaxRetries + 1 BY DEF Placed, DeadUsedRetries
  <2>2. CASE m \in batch[c]
    <3>1. m \notin dead /\ attempts[m] \in 0 .. MaxRetries BY <2>2, InOneBatch
    <3>2. attempts'[m] = attempts[m] + 1 BY <2>2, <1>1
    <3> QED BY <2>2, <3>1, <3>2, <1>1, QueueAssumption
  <2>3. CASE m \notin batch[c] BY <2>1, <2>3, <1>1
  <2> QED BY <2>2, <2>3
<1> QED BY <1>2, <1>3, <1>5, <1>6 DEF Placed

LEMMA NextPlaced == Placed /\ [Next]_queueVars => Placed'
<1> SUFFICES ASSUME Placed, [Next]_queueVars PROVE Placed' OBVIOUS
<1>1. ASSUME NEW m \in Message, Send(m) PROVE Placed' BY <1>1, SendPlaced
<1>2. ASSUME NEW c \in Consumer, Deliver(c) PROVE Placed' BY <1>2, DeliverPlaced
<1>3. ASSUME NEW c \in Consumer, NEW m \in Message, Handle(c, m) PROVE Placed'
  BY <1>3, HandlePlaced
<1>4. ASSUME NEW c \in Consumer, NEW m \in Message, HandlerFails(c, m) PROVE Placed'
  <2>1. RetryBatch(c) BY <1>4 DEF HandlerFails
  <2>2. alerts' \in [Message -> Nat] BY <1>4 DEF HandlerFails, Placed, TypeOK
  <2> QED BY <2>1, <2>2, RetryPlaced
<1>5. ASSUME NEW c \in Consumer, Crash(c) PROVE Placed'
  <2>1. RetryBatch(c) BY <1>5 DEF Crash
  <2>2. alerts' \in [Message -> Nat] BY <1>5 DEF Crash, Placed, TypeOK
  <2> QED BY <2>1, <2>2, RetryPlaced
<1>6. ASSUME NEW c \in Consumer, Acknowledge(c) PROVE Placed' BY <1>6, AcknowledgePlaced
<1>7. CASE UNCHANGED queueVars
  BY <1>7 DEF queueVars, Placed, TypeOK, NothingDropped, InBatches, Sent, DeadUsedRetries,
              HandledOK
<1> QED
  BY <1>1, <1>2, <1>3, <1>4, <1>5, <1>6, <1>7 DEF Next, Work, Consume, AllSettled

LEMMA PlacedAlways == Spec => []Placed
BY InitPlaced, NextPlaced, PTL DEF Spec

\* The queue's state keeps its type: in particular no message is delivered
\* more than MaxRetries + 1 times.
THEOREM QueueTypeCorrect == Spec => []TypeOK
<1>1. Placed => TypeOK BY DEF Placed
<1> QED BY <1>1, PlacedAlways, PTL

\* No message is ever dropped, or in two places (queueHandler's batches are
\* acknowledged or retried whole).
THEOREM QueueDropsNothing == Spec => []NothingDropped
<1>1. Placed => NothingDropped BY DEF Placed
<1> QED BY <1>1, PlacedAlways, PTL

\* The dead letter queue holds the messages that used up their retries, and
\* no others (settings.maxRetries).
THEOREM DeadWereRetried == Spec => []DeadUsedRetries
<1>1. Placed => DeadUsedRetries BY DEF Placed
<1> QED BY <1>1, PlacedAlways, PTL

-----------------------------------------------------------------------------
\* A message that no invocation has handled and none has acknowledged was
\* alerted at most once for each failed batch.
LEMMA UnhandledBound ==
  ASSUME Placed, Alerted, NEW c \in Consumer, NEW m \in batch[c], m \notin handled[c]
  PROVE  alerts[m] <= attempts[m]
<1>1. /\ m \in Message /\ m \notin acked /\ attempts[m] \in 0 .. MaxRetries
      /\ \A d \in Consumer : d # c => m \notin handled[d]
  BY InOneBatch
<1>2. ~(m \in acked \/ \E d \in Consumer : m \in handled[d]) BY <1>1
<1>3. alerts[m] \in Nat BY <1>1 DEF Placed, TypeOK
<1>4. alerts[m] <= attempts[m] + 0 BY <1>1, <1>2 DEF Alerted, AlertsBounded
<1> QED BY <1>1, <1>3, <1>4, QueueAssumption

LEMMA InitAlerted == Init => Alerted
BY DEF Init, Alerted, AckedWasAlerted, HandledWasAlerted, AlertsBounded

LEMMA HandleAlerted ==
  ASSUME Placed, Alerted, NEW c \in Consumer, NEW m \in Message, Handle(c, m)
  PROVE  Alerted'
<1>1. /\ m \in batch[c] /\ m \notin handled[c]
      /\ handled' = [handled EXCEPT ![c] = @ \cup {m}]
      /\ UNCHANGED <<batch, acked, attempts>>
  BY DEF Handle
<1>2. \A d \in Consumer : handled'[d] = IF d = c THEN handled[c] \cup {m} ELSE handled[d]
  BY <1>1 DEF Placed, TypeOK
<1>3. /\ \A n \in Message : alerts[n] \in Nat /\ attempts[n] \in Nat
      /\ \A n \in Message : alerts'[n] = IF n = m /\ m \notin Unhandled
                                         THEN alerts[n] + 1 ELSE alerts[n]
  BY DEF Placed, TypeOK, Handle
<1>4. acked \subseteq Message /\ \A d \in Consumer : handled[d] \subseteq Message
  BY DEF Placed, TypeOK
<1>5. AckedWasAlerted' BY <1>1, <1>3, <1>4 DEF Alerted, AckedWasAlerted
<1>6. HandledWasAlerted' BY <1>2, <1>3, <1>4 DEF Alerted, HandledWasAlerted
<1>7. AlertsBounded'
  <2> SUFFICES ASSUME NEW n \in Message
               PROVE  alerts'[n] <= attempts'[n] +
                        (IF n \in acked' \/ \E d \in Consumer : n \in handled'[d] THEN 1 ELSE 0)
    BY DEF AlertsBounded
  <2>1. CASE n = m
    <3>1. alerts[m] <= attempts[m] BY <1>1, UnhandledBound
    <3>2. m \in handled'[c] BY <1>2
    <3> QED BY <2>1, <3>1, <3>2, <1>1, <1>3
  <2>2. CASE n # m
    <3>1. (\E d \in Consumer : n \in handled'[d]) <=> (\E d \in Consumer : n \in handled[d])
      BY <2>2, <1>2
    <3>2. alerts[n] <= attempts[n] +
            (IF n \in acked \/ \E d \in Consumer : n \in handled[d] THEN 1 ELSE 0)
      BY DEF Alerted, AlertsBounded
    <3> QED BY <2>2, <3>1, <3>2, <1>1, <1>3
  <2> QED BY <2>1, <2>2
<1> QED BY <1>5, <1>6, <1>7 DEF Alerted

\* A failed batch, with or without one more alert for the message m that
\* failed in it.
LEMMA RetryAlerted ==
  ASSUME Placed, Alerted, NEW c \in Consumer, RetryBatch(c),
         \/ UNCHANGED alerts
         \/ \E m \in batch[c] \ handled[c] : alerts' = [alerts EXCEPT ![m] = @ + 1]
  PROVE  Alerted'
<1>1. /\ attempts' \in [Message -> 0 .. MaxRetries + 1]
      /\ \A n \in batch[c] : attempts'[n] = attempts[n] + 1
      /\ \A n \in Message \ batch[c] : attempts'[n] = attempts[n]
      /\ batch' = [batch EXCEPT ![c] = {}]
      /\ handled' = [handled EXCEPT ![c] = {}]
      /\ UNCHANGED acked
  BY RetryFacts
<1>2. \A d \in Consumer : handled'[d] = IF d = c THEN {} ELSE handled[d]
  BY <1>1, BatchEnds
<1>3. /\ acked \subseteq Message
      /\ \A d \in Consumer : handled[d] \subseteq Message /\ handled[d] \subseteq batch[d]
      /\ batch[c] \subseteq Message
      /\ \A n \in Message : alerts[n] \in Nat /\ attempts[n] \in Nat
  BY DEF Placed, TypeOK, HandledOK
<1>4. \A n \in Message :
        \/ alerts'[n] = alerts[n]
        \/ n \in batch[c] \ handled[c] /\ alerts'[n] = alerts[n] + 1
  BY <1>3 DEF Placed, TypeOK
<1>5. AckedWasAlerted' BY <1>1, <1>3, <1>4 DEF Alerted, AckedWasAlerted
<1>6. HandledWasAlerted' BY <1>2, <1>3, <1>4 DEF Alerted, HandledWasAlerted
<1>7. AlertsBounded'
  <2> SUFFICES ASSUME NEW n \in Message
               PROVE  alerts'[n] <= attempts'[n] +
                        (IF n \in acked' \/ \E d \in Consumer : n \in handled'[d] THEN 1 ELSE 0)
    BY DEF AlertsBounded
  <2>1. alerts[n] <= attempts[n] +
          (IF n \in acked \/ \E d \in Consumer : n \in handled[d] THEN 1 ELSE 0)
    BY DEF Alerted, AlertsBounded
  <2>2. CASE n \in batch[c]
    <3>1. alerts'[n] <= attempts[n] + 1
      <4>1. CASE n \in handled[c] BY <4>1, <2>1, <1>3, <1>4
      <4>2. CASE n \notin handled[c]
        <5>1. alerts[n] <= attempts[n] BY <2>2, <4>2, UnhandledBound
        <5> QED BY <5>1, <1>3, <1>4
      <4> QED BY <4>1, <4>2
    <3>2. attempts'[n] = attempts[n] + 1 BY <2>2, <1>1
    <3>3. alerts'[n] \in Nat BY <1>3, <1>4
    <3> QED BY <3>1, <3>2, <3>3, <1>3
  <2>3. CASE n \notin batch[c]
    <3>1. attempts'[n] = attempts[n] /\ alerts'[n] = alerts[n] BY <2>3, <1>1, <1>4
    <3>2. (\E d \in Consumer : n \in handled'[d]) <=> (\E d \in Consumer : n \in handled[d])
      BY <2>3, <1>2, <1>3
    <3> QED BY <2>1, <3>1, <3>2, <1>1
  <2> QED BY <2>2, <2>3
<1> QED BY <1>5, <1>6, <1>7 DEF Alerted

LEMMA AcknowledgeAlerted ==
  ASSUME Placed, Alerted, NEW c \in Consumer, Acknowledge(c)
  PROVE  Alerted'
<1>1. /\ handled[c] = batch[c] /\ acked' = acked \cup batch[c]
      /\ batch' = [batch EXCEPT ![c] = {}]
      /\ handled' = [handled EXCEPT ![c] = {}]
      /\ UNCHANGED <<attempts, alerts>>
  BY DEF Acknowledge
<1>2. \A d \in Consumer : handled'[d] = IF d = c THEN {} ELSE handled[d]
  BY <1>1, BatchEnds
<1>3. AckedWasAlerted' BY <1>1 DEF Alerted, AckedWasAlerted, HandledWasAlerted
<1>4. HandledWasAlerted' BY <1>1, <1>2 DEF Alerted, HandledWasAlerted
<1>5. AlertsBounded'
  <2> SUFFICES ASSUME NEW n \in Message
               PROVE  alerts'[n] <= attempts'[n] +
                        (IF n \in acked' \/ \E d \in Consumer : n \in handled'[d] THEN 1 ELSE 0)
    BY DEF AlertsBounded
  <2>1. (n \in acked' \/ \E d \in Consumer : n \in handled'[d])
          <=> (n \in acked \/ \E d \in Consumer : n \in handled[d])
    BY <1>1, <1>2
  <2> QED BY <2>1, <1>1 DEF Alerted, AlertsBounded
<1> QED BY <1>3, <1>4, <1>5 DEF Alerted

LEMMA DeliverAlerted == ASSUME Placed, Alerted, NEW c \in Consumer, Deliver(c) PROVE Alerted'
<1>1. /\ batch[c] = {} /\ handled' = [handled EXCEPT ![c] = {}]
      /\ UNCHANGED <<acked, attempts, alerts>>
  BY DEF Deliver
<1>2. handled[c] = {} /\ handled' = handled BY <1>1 DEF Placed, TypeOK, HandledOK
<1> QED BY <1>1, <1>2 DEF Alerted, AckedWasAlerted, HandledWasAlerted, AlertsBounded

LEMMA NextAlerted == Placed /\ Alerted /\ [Next]_queueVars => Alerted'
<1> SUFFICES ASSUME Placed, Alerted, [Next]_queueVars PROVE Alerted' OBVIOUS
<1>1. ASSUME UNCHANGED <<acked, handled, attempts, alerts>> PROVE Alerted'
  BY <1>1 DEF Alerted, AckedWasAlerted, HandledWasAlerted, AlertsBounded
<1>2. ASSUME NEW m \in Message, Send(m) PROVE Alerted' BY <1>1, <1>2 DEF Send
<1>3. ASSUME NEW c \in Consumer, Deliver(c) PROVE Alerted' BY <1>3, DeliverAlerted
<1>4. ASSUME NEW c \in Consumer, NEW m \in Message, Handle(c, m) PROVE Alerted'
  BY <1>4, HandleAlerted
<1>5. ASSUME NEW c \in Consumer, NEW m \in Message, HandlerFails(c, m) PROVE Alerted'
  <2>1. RetryBatch(c) /\ m \in batch[c] \ handled[c] BY <1>5 DEF HandlerFails
  <2>2. \/ UNCHANGED alerts
        \/ \E n \in batch[c] \ handled[c] : alerts' = [alerts EXCEPT ![n] = @ + 1]
    BY <1>5, <2>1 DEF HandlerFails
  <2> QED BY <2>1, <2>2, RetryAlerted
<1>6. ASSUME NEW c \in Consumer, Crash(c) PROVE Alerted' BY <1>6, RetryAlerted DEF Crash
<1>7. ASSUME NEW c \in Consumer, Acknowledge(c) PROVE Alerted' BY <1>7, AcknowledgeAlerted
<1>8. CASE UNCHANGED queueVars BY <1>1, <1>8 DEF queueVars
<1> QED
  BY <1>2, <1>3, <1>4, <1>5, <1>6, <1>7, <1>8 DEF Next, Work, Consume, AllSettled

LEMMA AlertedAlways == Spec => []Alerted
BY InitAlerted, NextAlerted, PlacedAlways, PTL DEF Spec

\* An acknowledged guestbook-sign job has alerted the owner, whatever failed
\* on the way (processMessage, sendAlert).
THEOREM AcknowledgedWereAlerted == Spec => []AckedWasAlerted
<1>1. Alerted => AckedWasAlerted BY DEF Alerted
<1> QED BY <1>1, AlertedAlways, PTL

\* At-least-once delivery repeats an alert at most once per failed batch.
THEOREM AlertsStayBounded == Spec => []AlertsBounded
<1>1. Alerted => AlertsBounded BY DEF Alerted
<1> QED BY <1>1, AlertedAlways, PTL

\* Acknowledged and dead-lettered messages stay so: neither is retried.
THEOREM SettledForGood == Spec => SettledStays
<1>1. Placed /\ [Next]_queueVars => acked \subseteq acked' /\ dead \subseteq dead'
  <2> SUFFICES ASSUME Placed, [Next]_queueVars
               PROVE  acked \subseteq acked' /\ dead \subseteq dead'
    OBVIOUS
  <2>1. ASSUME NEW c \in Consumer, RetryBatch(c)
        PROVE  acked \subseteq acked' /\ dead \subseteq dead'
    BY <2>1, RetryFacts
  <2> QED BY <2>1 DEF Next, Work, Consume, AllSettled, Send, Deliver, Handle, HandlerFails,
                      Crash, Acknowledge, queueVars
<1> QED BY <1>1, PlacedAlways, PTL DEF Spec, SettledStays

-----------------------------------------------------------------------------
(* The queue implements module Courier.  Every step changes the fate of a  *)
(* set of messages in one way, and alerts of one message at most.          *)

\* What a producer sees when batches are handed out or handled.
LEMMA FateKept ==
  ASSUME acked' = acked, dead' = dead,
         waiting' \cup InBatches' = waiting \cup InBatches
  PROVE  [m \in Message |-> Fate(m)]' = [m \in Message |-> Fate(m)]
<1>1. \A m \in Message : Fate(m)' = Fate(m) BY DEF Fate
<1> QED BY <1>1

\* An alert of a message in a batch is one the courier may give.
LEMMA AlertCarried ==
  ASSUME Placed, Alerted, NEW c \in Consumer, NEW m \in batch[c],
         m \notin handled[c], m \notin Unhandled,
         alerts' = [alerts EXCEPT ![m] = @ + 1]
  PROVE  Carrier!Alert(m)
<1>1. m \in Message /\ attempts[m] \in 0 .. MaxRetries BY InOneBatch
<1>2. alerts[m] <= attempts[m] BY UnhandledBound
<1>3. alerts[m] \in Nat BY <1>1 DEF Placed, TypeOK
<1>4. alerts[m] < MaxRetries + 1 BY <1>1, <1>2, <1>3, QueueAssumption
<1>5. m \notin acked /\ m \notin dead /\ m \in InBatches
  BY DEF Placed, NothingDropped, InBatches
<1>6. Fate(m) = "carried" BY <1>5 DEF Fate
<1> QED BY <1>1, <1>4, <1>6 DEF Carrier!Alert, Carrier!Carried

LEMMA SendCarries == ASSUME Placed, NEW m \in Message, Send(m) PROVE Carrier!Accept(m)
<1>1. /\ m \notin Sent /\ waiting' = waiting \cup {m} /\ InBatches' = InBatches
      /\ UNCHANGED <<acked, dead, alerts>>
  BY DEF Send, InBatches
<1>2. Fate(m) = "unsent" /\ Fate(m)' = "carried" BY <1>1 DEF Fate, Sent
<1>3. \A n \in Message \ {m} : Fate(n)' = Fate(n) BY <1>1 DEF Fate
<1>4. [n \in Message |-> Fate(n)]' = [[n \in Message |-> Fate(n)] EXCEPT ![m] = "carried"]
  BY <1>2, <1>3
<1> QED BY <1>1, <1>2, <1>4 DEF Carrier!Accept

LEMMA DeliverCarries ==
  ASSUME Placed, NEW c \in Consumer, Deliver(c)
  PROVE  [m \in Message |-> Fate(m)]' = [m \in Message |-> Fate(m)] /\ alerts' = alerts
<1>1. PICK b \in SUBSET waiting : /\ batch' = [batch EXCEPT ![c] = b]
                                  /\ waiting' = waiting \ b
  BY DEF Deliver
<1>2. \A d \in Consumer : batch'[d] = IF d = c THEN b ELSE batch[d]
  BY <1>1 DEF Placed, TypeOK
<1>3. batch[c] = {} BY DEF Deliver
<1>4. InBatches' = InBatches \cup b
  <2>1. ASSUME NEW m \in InBatches' PROVE m \in InBatches \cup b
    BY <2>1, <1>2 DEF InBatches
  <2>2. ASSUME NEW m \in InBatches PROVE m \in InBatches'
    <3>1. PICK d \in Consumer : m \in batch[d] BY <2>2 DEF InBatches
    <3>2. m \in batch'[d] BY <3>1, <1>2, <1>3
    <3> QED BY <3>2 DEF InBatches
  <2>3. ASSUME NEW m \in b PROVE m \in InBatches'
    <3>1. m \in batch'[c] BY <2>3, <1>2
    <3> QED BY <3>1 DEF InBatches
  <2> QED BY <2>1, <2>2, <2>3
<1>5. waiting' \cup InBatches' = waiting \cup InBatches BY <1>1, <1>4
<1> QED BY <1>5, FateKept DEF Deliver

LEMMA HandleCarries ==
  ASSUME Placed, Alerted, NEW c \in Consumer, NEW m \in Message, Handle(c, m)
  PROVE  \/ [n \in Message |-> Fate(n)]' = [n \in Message |-> Fate(n)] /\ alerts' = alerts
         \/ Carrier!GiveUp({})
<1>1. InBatches' = InBatches BY DEF Handle, InBatches
<1>2. [n \in Message |-> Fate(n)]' = [n \in Message |-> Fate(n)]
  BY <1>1, FateKept DEF Handle
<1>3. CASE m \in Unhandled BY <1>2, <1>3 DEF Handle
<1>4. CASE m \notin Unhandled
  <2>1. Carrier!Alert(m) BY <1>4, AlertCarried DEF Handle
  <2>2. [n \in Message |-> Fate(n)]'
          = [n \in Message |-> IF n \in {} THEN "dead" ELSE [k \in Message |-> Fate(k)][n]]
    BY <1>2
  <2> QED BY <2>1, <2>2 DEF Carrier!GiveUp
<1> QED BY <1>3, <1>4

LEMMA AcknowledgeCarries ==
  ASSUME Placed, Alerted, NEW c \in Consumer, Acknowledge(c)
  PROVE  Carrier!Deliver(batch[c]) /\ batch[c] \in SUBSET Message
<1>1. /\ acked' = acked \cup batch[c] /\ handled[c] = batch[c]
      /\ UNCHANGED <<waiting, dead, alerts>>
      /\ InBatches' = InBatches \ batch[c]
  BY BatchEnds DEF Acknowledge
<1>2. /\ batch[c] \subseteq Message /\ batch[c] \subseteq InBatches
      /\ batch[c] \cap (waiting \cup acked \cup dead) = {}
  BY DEF Placed, TypeOK, NothingDropped, InBatches
<1>3. \A m \in batch[c] : Fate(m) = "carried" BY <1>2 DEF Fate
<1>4. ASSUME NEW m \in Message
      PROVE  Fate(m)' = IF m \in batch[c] THEN "delivered" ELSE Fate(m)
  <2>1. CASE m \in batch[c]
    <3>1. /\ m \in acked' /\ m \notin dead'
          /\ m \notin waiting' \cup InBatches'
      BY <1>1, <1>2, <2>1
    <3> QED BY <3>1, <2>1 DEF Fate
  <2>2. CASE m \notin batch[c]
    <3>1. /\ m \in acked' <=> m \in acked
          /\ m \in dead' <=> m \in dead
          /\ m \in waiting' \cup InBatches' <=> m \in waiting \cup InBatches
      BY <1>1, <2>2
    <3> QED BY <3>1, <2>2 DEF Fate
  <2> QED BY <2>1, <2>2
<1>5. \A m \in batch[c] \ Unhandled : alerts[m] > 0 BY <1>1 DEF Alerted, HandledWasAlerted
<1> QED BY <1>1, <1>2, <1>3, <1>4, <1>5 DEF Carrier!Deliver, Carrier!Carried

LEMMA RetryCarries ==
  ASSUME Placed, NEW c \in Consumer, RetryBatch(c),
         alerts' = alerts \/ \E m \in Message : Carrier!Alert(m)
  PROVE  \E lost \in SUBSET Message : Carrier!GiveUp(lost)
<1> DEFINE lost == {m \in batch[c] : attempts[m] = MaxRetries}
<1>1. /\ dead' = dead \cup lost
      /\ waiting' = waiting \cup {m \in batch[c] : attempts[m] # MaxRetries}
      /\ UNCHANGED acked
      /\ InBatches' = InBatches \ batch[c]
  BY RetryFacts, BatchEnds
<1>2. /\ lost \subseteq Message /\ batch[c] \subseteq InBatches
      /\ batch[c] \cap (waiting \cup acked \cup dead) = {}
  BY DEF Placed, TypeOK, NothingDropped, InBatches
<1>3. \A m \in lost : Fate(m) = "carried" BY <1>2 DEF Fate
<1>4. ASSUME NEW m \in Message
      PROVE  Fate(m)' = IF m \in lost THEN "dead" ELSE Fate(m)
  <2>1. CASE m \in lost
    <3>1. /\ m \in dead' /\ m \notin acked'
          /\ m \notin waiting' \cup InBatches'
      BY <1>1, <1>2, <2>1
    <3> HIDE DEF lost
    <3> QED BY <3>1, <2>1 DEF Fate
  <2>2. CASE m \in batch[c] \ lost
    <3>1. m \in waiting' /\ m \notin acked' /\ m \notin dead' BY <1>1, <1>2, <2>2
    <3>2. m \in InBatches /\ m \notin acked /\ m \notin dead BY <1>2, <2>2
    <3> HIDE DEF lost
    <3> QED BY <3>1, <3>2, <2>2 DEF Fate
  <2>3. CASE m \notin batch[c]
    <3>1. /\ m \in acked' <=> m \in acked
          /\ m \in dead' <=> m \in dead
          /\ m \in waiting' \cup InBatches' <=> m \in waiting \cup InBatches
      BY <1>1, <2>3
    <3>2. m \notin lost BY <2>3
    <3> HIDE DEF lost
    <3> QED BY <3>1, <3>2 DEF Fate
  <2> QED BY <2>1, <2>2, <2>3
<1>5. Carrier!GiveUp(lost) BY <1>2, <1>3, <1>4 DEF Carrier!GiveUp, Carrier!Carried
<1> QED BY <1>2, <1>5

\* Batches, retries and concurrent invocations keep the courier's promise:
\* every message of every producer is alerted before it is delivered, and
\* at most once per delivery (queueHandler, settings.maxRetries).
THEOREM QueueIsACourier == Spec => CarriesOut
<1>1. Init => Carrier!Init
  <2> SUFFICES ASSUME Init PROVE Carrier!Init OBVIOUS
  <2>1. InBatches = {} BY DEF Init, InBatches
  <2>2. \A m \in Message : Fate(m) = "unsent" BY <2>1 DEF Init, Fate
  <2> QED BY <2>2 DEF Init, Carrier!Init
<1>2. Placed /\ Alerted /\ [Next]_queueVars => [Carrier!Next]_(Carrier!courierVars)
  <2> SUFFICES ASSUME Placed, Alerted, [Next]_queueVars
               PROVE  [Carrier!Next]_(Carrier!courierVars)
    OBVIOUS
  <2> USE DEF Carrier!Next, Carrier!courierVars
  <2>1. ASSUME NEW m \in Message, Send(m) PROVE Carrier!Next BY <2>1, SendCarries
  <2>2. ASSUME NEW c \in Consumer, Deliver(c) PROVE UNCHANGED Carrier!courierVars
    BY <2>2, DeliverCarries
  <2>3. ASSUME NEW c \in Consumer, NEW m \in Message, Handle(c, m)
        PROVE  Carrier!Next \/ UNCHANGED Carrier!courierVars
    BY <2>3, HandleCarries
  <2>4. ASSUME NEW c \in Consumer, NEW m \in Message, HandlerFails(c, m) PROVE Carrier!Next
    <3>1. RetryBatch(c) BY <2>4 DEF HandlerFails
    <3>2. alerts' = alerts \/ \E n \in Message : Carrier!Alert(n)
      BY <2>4, AlertCarried DEF HandlerFails
    <3> QED BY <3>1, <3>2, RetryCarries
  <2>5. ASSUME NEW c \in Consumer, Crash(c) PROVE Carrier!Next
    BY <2>5, RetryCarries DEF Crash
  <2>6. ASSUME NEW c \in Consumer, Acknowledge(c) PROVE Carrier!Next
    BY <2>6, AcknowledgeCarries
  <2>7. CASE UNCHANGED queueVars
    <3>1. waiting' \cup InBatches' = waiting \cup InBatches
      BY <2>7 DEF queueVars, InBatches
    <3> QED BY <2>7, <3>1, FateKept DEF queueVars
  <2> QED
    BY <2>1, <2>2, <2>3, <2>4, <2>5, <2>6, <2>7 DEF Next, Work, Consume, AllSettled
<1> QED BY <1>1, <1>2, PlacedAlways, AlertedAlways, PTL
        DEF Spec, CarriesOut, Carrier!Promise

=============================================================================
