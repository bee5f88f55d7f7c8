----------------------------- MODULE WorkQueue -----------------------------
(***************************************************************************)
(* The tom work queue and its consumer, apps/api/src/queue/consumer.ts.    *)
(* queueHandler goes through a batch message by message and throws at the  *)
(* first that fails, so Cloudflare Queues takes the batch as a whole: all  *)
(* its messages are acknowledged, or all are retried, the ones already     *)
(* handled included.  A message that has used up its retries moves to the  *)
(* dead letter queue.  The queue itself is Cloudflare's; it is modelled    *)
(* with the settings infra/apps/api.run.ts gives it.  It promises no       *)
(* order, so a batch is a set and its messages are handled in any order.   *)
(***************************************************************************)
EXTENDS Naturals, FiniteSets

CONSTANTS
  Message,    \* the jobs producers send, each once
  Unhandled,  \* those of a kind the consumer only logs: publish-post, render-og
  Refused,    \* those that never go through: an undecodable body, or a text
              \* whose Markdown Telegram does not accept
  Consumer,   \* concurrent invocations of queueHandler
  BatchSize,  \* settings.batchSize
  MaxRetries  \* settings.maxRetries

ASSUME QueueAssumption ==
  /\ Unhandled \subseteq Message
  /\ Refused \subseteq Message \ Unhandled
  /\ BatchSize \in Nat \ {0}
  /\ MaxRetries \in Nat

VARIABLES
  waiting,   \* messages in the queue
  batch,     \* the batch each invocation was given; {} when it has none
  handled,   \* the messages of it that processMessage has returned from
  acked,     \* messages the queue has done with
  dead,      \* messages in the dead letter queue
  attempts,  \* batches a message was in that failed
  alerts     \* alerts the site owner got for it

queueVars == <<waiting, batch, handled, acked, dead, attempts, alerts>>

InBatches == UNION {batch[c] : c \in Consumer}
Sent == waiting \cup InBatches \cup acked \cup dead

TypeOK ==
  /\ waiting \subseteq Message
  /\ batch \in [Consumer -> SUBSET Message]
  /\ handled \in [Consumer -> SUBSET Message]
  /\ acked \subseteq Message
  /\ dead \subseteq Message
  /\ attempts \in [Message -> 0 .. MaxRetries + 1]
  /\ alerts \in [Message -> Nat]

Init ==
  /\ waiting = {}
  /\ batch = [c \in Consumer |-> {}]
  /\ handled = [c \in Consumer |-> {}]
  /\ acked = {}
  /\ dead = {}
  /\ attempts = [m \in Message |-> 0]
  /\ alerts = [m \in Message |-> 0]

-----------------------------------------------------------------------------
\* queue.send, by any worker that binds WORK_QUEUE.
Send(m) ==
  /\ m \notin Sent
  /\ waiting' = waiting \cup {m}
  /\ UNCHANGED <<batch, handled, acked, dead, attempts, alerts>>

\* Cloudflare starts an invocation with up to batchSize waiting messages.
Deliver(c) ==
  /\ batch[c] = {}
  /\ \E b \in SUBSET waiting :
       /\ b # {} /\ Cardinality(b) <= BatchSize
       /\ batch' = [batch EXCEPT ![c] = b]
       /\ waiting' = waiting \ b
  /\ handled' = [handled EXCEPT ![c] = {}]
  /\ UNCHANGED <<acked, dead, attempts, alerts>>

\* Faulty variant: a text over Telegram's limit goes out as two alerts.
HandleInParts(c, m) ==
  /\ m \in batch[c] \ (handled[c] \cup Refused)
  /\ handled' = [handled EXCEPT ![c] = @ \cup {m}]
  /\ alerts' = IF m \in Unhandled THEN alerts ELSE [alerts EXCEPT ![m] = @ + 2]
  /\ UNCHANGED <<waiting, batch, acked, dead, attempts>>

\* processMessage returns: an alert was sent, or the kind is only logged.
Handle(c, m) ==
  /\ m \in batch[c] \ handled[c]
  /\ m \notin Refused
  /\ handled' = [handled EXCEPT ![c] = @ \cup {m}]
  /\ alerts' = IF m \in Unhandled THEN alerts ELSE [alerts EXCEPT ![m] = @ + 1]
  /\ UNCHANGED <<waiting, batch, acked, dead, attempts>>

\* What becomes of a failed batch: dying goes to the dead letter queue,
\* returning to the queue, and counted has used up one more delivery.
Settle(c, dying, returning, counted) ==
  /\ dead' = dead \cup dying
  /\ waiting' = waiting \cup returning
  /\ attempts' = [m \in Message |-> IF m \in counted THEN attempts[m] + 1 ELSE attempts[m]]
  /\ batch' = [batch EXCEPT ![c] = {}]
  /\ handled' = [handled EXCEPT ![c] = {}]
  /\ UNCHANGED acked

\* Faulty variant: a message is delivered once more than its retries allow.
RetryOnceMore(c) ==
  LET last == {m \in batch[c] : attempts[m] > MaxRetries}
  IN Settle(c, last, batch[c] \ last, batch[c])

\* Faulty variant: what was handled of a failed batch is not retried.
RetryUnhandled(c) ==
  LET last == {m \in batch[c] : attempts[m] = MaxRetries}
  IN Settle(c, last \ handled[c], batch[c] \ (last \cup handled[c]), batch[c])

\* Faulty variant: a batch is sent anew instead of retried.
Resend(c) == Settle(c, {}, batch[c], {})

\* Every message of a failed batch has one retry less.
RetryBatch(c) ==
  LET last == {m \in batch[c] : attempts[m] = MaxRetries}
  IN Settle(c, last, batch[c] \ last, batch[c])

\* Decoding or sendAlert fails, and with it queueHandler: Telegram answers an
\* error or cannot be reached.  When only its answer was lost, the alert is out.
HandlerFails(c, m) ==
  /\ m \in batch[c] \ handled[c]
  /\ m \notin Unhandled
  /\ RetryBatch(c)
  /\ \/ UNCHANGED alerts
     \/ m \notin Refused /\ alerts' = [alerts EXCEPT ![m] = @ + 1]

\* The secrets cannot be read, the invocation dies, or its end is not seen.
Crash(c) ==
  /\ batch[c] # {}
  /\ RetryBatch(c)
  /\ UNCHANGED alerts

\* queueHandler resolves: the batch is acknowledged.
Acknowledge(c) ==
  /\ batch[c] # {} /\ handled[c] = batch[c]
  /\ acked' = acked \cup batch[c]
  /\ batch' = [batch EXCEPT ![c] = {}]
  /\ handled' = [handled EXCEPT ![c] = {}]
  /\ UNCHANGED <<waiting, dead, attempts, alerts>>

Consume(c) == \/ \E m \in Message : Handle(c, m) \/ HandlerFails(c, m)
              \/ Crash(c)
              \/ Acknowledge(c)

Work == \E c \in Consumer : Deliver(c) \/ Consume(c)

AllSettled == Message = acked \cup dead /\ UNCHANGED queueVars

Next == (\E m \in Message : Send(m)) \/ Work \/ AllSettled

\* Cloudflare delivers waiting messages (maxWaitTimeMs) and an invocation
\* comes to an end.  Nothing obliges a producer to send.
Fairness == /\ WF_queueVars(\E c \in Consumer : Deliver(c))
            /\ \A c \in Consumer : WF_queueVars(Consume(c))

Spec == Init /\ [][Next]_queueVars /\ Fairness

-----------------------------------------------------------------------------
\* A message is never dropped and never in two places: failed batches go
\* back to the queue or to the dead letter queue, whole.
NothingDropped ==
  /\ waiting \cap (InBatches \cup acked \cup dead) = {}
  /\ InBatches \cap (acked \cup dead) = {}
  /\ acked \cap dead = {}
  /\ \A c, d \in Consumer : c # d => batch[c] \cap batch[d] = {}
  /\ \A m \in Message : attempts[m] > 0 => m \in Sent

\* An acknowledged guestbook-sign job has alerted the owner.
AckedWasAlerted == \A m \in acked \ Unhandled : alerts[m] > 0

\* Redelivery repeats an alert at most once for each batch that failed.
AlertsBounded ==
  \A m \in Message :
    alerts[m] <= attempts[m] + (IF m \in acked \/ \E c \in Consumer : m \in handled[c]
                                THEN 1 ELSE 0)

\* Only messages that used up their retries are in the dead letter queue.
DeadUsedRetries == \A m \in Message : m \in dead <=> attempts[m] = MaxRetries + 1

\* Where a producer sees a message.
Fate(m) == CASE m \in acked -> "delivered"
             [] m \in dead -> "dead"
             [] m \in waiting \cup InBatches -> "carried"
             [] OTHER -> "unsent"

Carrier == INSTANCE Courier WITH
  Silent <- Unhandled,
  MostAlerts <- MaxRetries + 1,
  fate <- [m \in Message |-> Fate(m)]

\* The queue and its consumer keep the promise of module Courier: whatever
\* is batched, retried or handled twice, a job is alerted before it counts
\* as delivered, never more than once per delivery, and settles for good.
CarriesOut == Carrier!Promise

\* What is acknowledged or dead-lettered stays so.
SettledStays == [][acked \subseteq acked' /\ dead \subseteq dead']_queueVars

\* Every message that is sent is acknowledged or dead-lettered in the end.
EveryMessageSettles == \A m \in Message : m \in Sent ~> m \in acked \cup dead

-----------------------------------------------------------------------------
(* Why it keeps those promises.                                            *)

\* An invocation handles what it was given.
HandledOK == \A c \in Consumer : handled[c] \subseteq batch[c]

\* A message is in one place, and its attempts say whether it is dead.
Placed == TypeOK /\ NothingDropped /\ DeadUsedRetries /\ HandledOK

\* What an invocation has handled, and what is acknowledged, was alerted.
HandledWasAlerted == \A c \in Consumer : \A m \in handled[c] \ Unhandled : alerts[m] > 0

Alerted == AckedWasAlerted /\ HandledWasAlerted /\ AlertsBounded

=============================================================================
