-------------------------- MODULE GuestbookProofs --------------------------
(***************************************************************************)
(* What module Guestbook promises, for any visitors, accounts, requests in *)
(* flight and consumer invocations.  GuestInv is inductive: RequestOK says *)
(* what a request may rely on at the call it awaits, BrowsersOK where the  *)
(* sessions in cookies and in grants come from, and JobsOK that the queue  *)
(* carries each signature's job once.                                      *)
(***************************************************************************)
EXTENDS Guestbook, TLAPS

Initiating == {"openSession", "answerInitiate"}
Returning  == {"findSession", "exchange", "dropSession", "answerCallback"}
Recorded   == {"enqueue", "answerSign"}

RequestOK(r) ==
  /\ pc[r] = "idle" => token[r] = None /\ account[r] = None /\ answered[r] = {}
  /\ pc[r] # "idle" => browser[r] \in Browser
  /\ pc[r] \in Initiating => account[r] = None
  /\ pc[r] \in Returning => code[r] \in grants
  /\ pc[r] \in Returning \ {"findSession"} => token[r] # None
  /\ token[r] # None => pc[r] \in Returning \cup Ended /\ pc[token[r]] = "ok"
  /\ pc[r] = "answerCallback" => token[r] \notin sessions
  /\ pc[r] = "ok" /\ token[r] # None => token[r] \notin sessions
  /\ pc[r] \in Recorded => r \in entries
  /\ r \in entries => pc[r] \in Recorded \cup {"ok", "failed"}
  /\ pc[r] = "ok" /\ account[r] # None /\ token[r] = None => r \in entries
  /\ answered[r] \subseteq entries
  /\ pc[r] = "insertEntry" \/ r \in entries => \A f \in answered[r] : account[f] # account[r]

\* Cookies and grants name sessions whose initiate request was answered.
BrowsersOK ==
  /\ \A b \in Browser : sessionCookie[b] # None => pc[sessionCookie[b]] = "ok"
  /\ \A g \in grants : pc[g.app] = "ok"

\* A job is in one batch or waits, and has a retry left, or is dead.
JobsOK ==
  /\ Queue!TypeOK
  /\ \A m \in Request : attempts[m] = MaxRetries + 1 => m \in dead
  /\ waiting \cap dead = {}
  /\ \A c \in Consumer : batch[c] \cap (waiting \cup dead) = {}
  /\ \A c, d \in Consumer : c # d => batch[c] \cap batch[d] = {}

GuestInv ==
  /\ TypeOK
  /\ \A r \in Request : RequestOK(r)
  /\ BrowsersOK
  /\ JobsOK
  /\ AlertedIsSigned

-----------------------------------------------------------------------------
(* The queue.                                                              *)

LEMMA InitJobs == Init => JobsOK /\ AlertedIsSigned
<1> SUFFICES ASSUME Init PROVE JobsOK /\ AlertedIsSigned OBVIOUS
<1> USE DEF Init, Queue!Init
<1>1. Queue!TypeOK BY GuestbookAssumption DEF Queue!TypeOK
<1>2. JobsOK BY <1>1, GuestbookAssumption DEF JobsOK
<1>3. AlertedIsSigned BY DEF AlertedIsSigned, Queue!Sent, Queue!InBatches
<1> QED BY <1>2, <1>3

LEMMA SendKeepsJobs ==
  ASSUME JobsOK, NEW r \in Request, Queue!Send(r)
  PROVE  JobsOK' /\ Queue!Sent' = Queue!Sent \cup {r}
<1>1. /\ r \notin Queue!Sent /\ waiting' = waiting \cup {r}
      /\ batch' = batch /\ handled' = handled /\ acked' = acked
      /\ dead' = dead /\ attempts' = attempts /\ alerts' = alerts
  BY DEF Queue!Send
<1>2. r \notin dead /\ \A c \in Consumer : r \notin batch[c]
  BY <1>1 DEF Queue!Sent, Queue!InBatches
<1>3. Queue!TypeOK' BY <1>1 DEF JobsOK, Queue!TypeOK
<1>4. JobsOK' BY <1>1, <1>2, <1>3 DEF JobsOK
<1>5. Queue!Sent' = Queue!Sent \cup {r} BY <1>1 DEF Queue!Sent, Queue!InBatches
<1> QED BY <1>4, <1>5

LEMMA DeliverKeepsJobs ==
  ASSUME JobsOK, NEW c \in Consumer, Queue!Deliver(c)
  PROVE  JobsOK' /\ Queue!Sent' \subseteq Queue!Sent
<1>1. PICK b \in SUBSET waiting : /\ batch' = [batch EXCEPT ![c] = b]
                                  /\ waiting' = waiting \ b
  BY DEF Queue!Deliver
<1>2. /\ handled' = [handled EXCEPT ![c] = {}] /\ acked' = acked
      /\ dead' = dead /\ attempts' = attempts /\ alerts' = alerts
  BY DEF Queue!Deliver
<1>3. Queue!TypeOK' BY <1>1, <1>2 DEF JobsOK, Queue!TypeOK
<1>4. \A d \in Consumer : batch'[d] = IF d = c THEN b ELSE batch[d]
  BY <1>1 DEF JobsOK, Queue!TypeOK
<1>5. JobsOK' BY <1>1, <1>2, <1>3, <1>4 DEF JobsOK
<1>6. Queue!Sent' \subseteq Queue!Sent BY <1>1, <1>2, <1>4 DEF Queue!Sent, Queue!InBatches
<1> QED BY <1>5, <1>6

LEMMA HandleKeepsJobs ==
  ASSUME JobsOK, NEW c \in Consumer, NEW m \in Request, Queue!Handle(c, m)
  PROVE  JobsOK' /\ Queue!Sent' \subseteq Queue!Sent
<1>1. /\ handled' = [handled EXCEPT ![c] = @ \cup {m}]
      /\ waiting' = waiting /\ batch' = batch /\ acked' = acked
      /\ dead' = dead /\ attempts' = attempts
  BY DEF Queue!Handle
<1>2. alerts' \in [Request -> Nat] BY DEF Queue!Handle, JobsOK, Queue!TypeOK
<1>3. Queue!TypeOK' BY <1>1, <1>2 DEF JobsOK, Queue!TypeOK
<1>4. JobsOK' BY <1>1, <1>3 DEF JobsOK
<1>5. Queue!Sent' = Queue!Sent BY <1>1 DEF Queue!Sent, Queue!InBatches
<1> QED BY <1>4, <1>5

LEMMA RetryKeepsJobs ==
  ASSUME JobsOK, NEW c \in Consumer, Queue!RetryBatch(c), alerts' \in [Request -> Nat]
  PROVE  JobsOK' /\ Queue!Sent' \subseteq Queue!Sent
<1> DEFINE last == {m \in batch[c] : attempts[m] = MaxRetries}
<1>1. /\ dead' = dead \cup last
      /\ waiting' = waiting \cup (batch[c] \ last)
      /\ attempts' = [m \in Request |-> IF m \in batch[c] THEN attempts[m] + 1 ELSE attempts[m]]
      /\ batch' = [batch EXCEPT ![c] = {}]
      /\ handled' = [handled EXCEPT ![c] = {}]
      /\ acked' = acked
  BY DEF Queue!RetryBatch, Queue!Settle
<1>2. \A d \in Consumer : batch'[d] = IF d = c THEN {} ELSE batch[d]
  BY <1>1 DEF JobsOK, Queue!TypeOK
<1>3. batch[c] \subseteq Request BY DEF JobsOK, Queue!TypeOK
<1>4. \A m \in Request : attempts[m] \in 0 .. MaxRetries + 1 BY DEF JobsOK, Queue!TypeOK
<1>5. \A m \in batch[c] : attempts[m] \in 0 .. MaxRetries
  BY <1>3, <1>4, GuestbookAssumption DEF JobsOK
<1>6. attempts' \in [Request -> 0 .. MaxRetries + 1]
  BY <1>1, <1>4, <1>5, GuestbookAssumption
<1>7. Queue!TypeOK' BY <1>1, <1>3, <1>6 DEF JobsOK, Queue!TypeOK
<1>8. \A m \in Request : attempts'[m] = MaxRetries + 1 => m \in dead'
  <2> SUFFICES ASSUME NEW m \in Request, attempts'[m] = MaxRetries + 1 PROVE m \in dead'
    OBVIOUS
  <2>1. CASE m \in batch[c]
    <3>1. attempts'[m] = attempts[m] + 1 BY <2>1, <1>1
    <3>2. attempts[m] = MaxRetries BY <2>1, <3>1, <1>5, GuestbookAssumption
    <3> QED BY <2>1, <3>2, <1>1
  <2>2. CASE m \notin batch[c] BY <2>2, <1>1 DEF JobsOK
  <2> QED BY <2>1, <2>2
<1>9. JobsOK' BY <1>1, <1>2, <1>7, <1>8 DEF JobsOK
<1>10. Queue!Sent' \subseteq Queue!Sent
  <2>1. Queue!InBatches' \subseteq Queue!InBatches BY <1>2 DEF Queue!InBatches
  <2>2. batch[c] \subseteq Queue!InBatches BY DEF Queue!InBatches
  <2> QED BY <2>1, <2>2, <1>1 DEF Queue!Sent
<1> QED BY <1>9, <1>10

LEMMA AcknowledgeKeepsJobs ==
  ASSUME JobsOK, NEW c \in Consumer, Queue!Acknowledge(c)
  PROVE  JobsOK' /\ Queue!Sent' \subseteq Queue!Sent
<1>1. /\ acked' = acked \cup batch[c]
      /\ batch' = [batch EXCEPT ![c] = {}]
      /\ handled' = [handled EXCEPT ![c] = {}]
      /\ waiting' = waiting /\ dead' = dead /\ attempts' = attempts /\ alerts' = alerts
  BY DEF Queue!Acknowledge
<1>2. \A d \in Consumer : batch'[d] = IF d = c THEN {} ELSE batch[d]
  BY <1>1 DEF JobsOK, Queue!TypeOK
<1>3. Queue!TypeOK' BY <1>1 DEF JobsOK, Queue!TypeOK
<1>4. JobsOK' BY <1>1, <1>2, <1>3 DEF JobsOK
<1>5. Queue!InBatches' \subseteq Queue!InBatches BY <1>2 DEF Queue!InBatches
<1>6. batch[c] \subseteq Queue!InBatches BY DEF Queue!InBatches
<1>7. Queue!Sent' \subseteq Queue!Sent BY <1>1, <1>5, <1>6 DEF Queue!Sent
<1> QED BY <1>4, <1>7

\* The consumer takes no job from the queue and adds none to it.
LEMMA WorkKeepsJobs ==
  ASSUME JobsOK, Queue!Work
  PROVE  JobsOK' /\ Queue!Sent' \subseteq Queue!Sent
<1>1. PICK c \in Consumer : Queue!Deliver(c) \/ Queue!Consume(c) BY DEF Queue!Work
<1>2. CASE Queue!Deliver(c) BY <1>2, DeliverKeepsJobs
<1>3. ASSUME NEW m \in Request, Queue!Handle(c, m)
      PROVE  JobsOK' /\ Queue!Sent' \subseteq Queue!Sent
  BY <1>3, HandleKeepsJobs
<1>4. ASSUME NEW m \in Request, Queue!HandlerFails(c, m)
      PROVE  JobsOK' /\ Queue!Sent' \subseteq Queue!Sent
  <2>1. alerts' \in [Request -> Nat] BY <1>4 DEF Queue!HandlerFails, JobsOK, Queue!TypeOK
  <2>2. Queue!RetryBatch(c) BY <1>4 DEF Queue!HandlerFails
  <2> QED BY <2>1, <2>2, RetryKeepsJobs
<1>5. CASE Queue!Crash(c)
  <2>1. alerts' \in [Request -> Nat] BY <1>5 DEF Queue!Crash, JobsOK, Queue!TypeOK
  <2> QED BY <1>5, <2>1, RetryKeepsJobs DEF Queue!Crash
<1>6. CASE Queue!Acknowledge(c) BY <1>6, AcknowledgeKeepsJobs
<1> QED BY <1>1, <1>2, <1>3, <1>4, <1>5, <1>6 DEF Queue!Consume

-----------------------------------------------------------------------------
(* The requests.                                                           *)

\* What a step of request r leaves alone.
Footprint(r) ==
  /\ pc[r] # "ok"
  /\ \A q \in Request \ {r} : /\ pc'[q] = pc[q] /\ browser'[q] = browser[q]
                              /\ token'[q] = token[q] /\ code'[q] = code[q]
                              /\ account'[q] = account[q] /\ answered'[q] = answered[q]
  /\ r \in entries => account'[r] = account[r]
  /\ grants' = grants
  /\ sessions' \subseteq sessions \cup {r}
  /\ entries \subseteq entries' /\ entries' \subseteq entries \cup {r}

LEMMA OthersKeep ==
  ASSUME GuestInv, NEW r \in Request, Footprint(r)
  PROVE  /\ \A q \in Request \ {r} : RequestOK(q)'
         /\ \A g \in grants' : pc'[g.app] = "ok"
<1>1. ASSUME NEW g \in grants' PROVE pc'[g.app] = "ok"
  <2>1. g \in grants /\ pc[g.app] = "ok" BY DEF Footprint, GuestInv, BrowsersOK
  <2>2. g.app \in Request /\ g.app # r BY <2>1 DEF Footprint, GuestInv, TypeOK, Code
  <2> QED BY <2>1, <2>2 DEF Footprint
<1>2. ASSUME NEW q \in Request \ {r} PROVE RequestOK(q)'
  <2> USE DEF Footprint
  <2>1. RequestOK(q) BY DEF GuestInv
  <2>2. /\ pc'[q] = pc[q] /\ browser'[q] = browser[q] /\ token'[q] = token[q]
        /\ code'[q] = code[q] /\ account'[q] = account[q] /\ answered'[q] = answered[q]
        /\ q \in entries' <=> q \in entries
    OBVIOUS
  <2>3. token[q] # None => token[q] \in Request /\ token[q] # r
    BY <2>1 DEF RequestOK, GuestInv, TypeOK
  <2>4. token[q] # None => pc'[token[q]] = pc[token[q]] BY <2>3
  <2>5. token[q] # None /\ token[q] \notin sessions => token[q] \notin sessions' BY <2>3
  <2>6. \A f \in answered[q] : f \in entries /\ f \in Request
    BY <2>1 DEF RequestOK, GuestInv, TypeOK
  <2>7. \A f \in answered[q] : account'[f] = account[f] BY <2>6
  <2>8. answered'[q] \subseteq entries' \/ ~ answered[q] \subseteq entries BY <2>2
  <2> QED BY <2>1, <2>2, <2>3, <2>4, <2>5, <2>6, <2>7, <2>8
          DEF RequestOK, Initiating, Returning, Recorded, Ended
<1> QED BY <1>1, <1>2

\* A step that leaves the queue alone.
LEMMA JobsUntouched == ASSUME JobsOK, UNCHANGED jobs PROVE JobsOK' /\ Queue!Sent' = Queue!Sent
<1>1. /\ waiting' = waiting /\ batch' = batch /\ handled' = handled /\ acked' = acked
      /\ dead' = dead /\ attempts' = attempts /\ alerts' = alerts
  BY DEF jobs
<1>2. JobsOK' BY <1>1 DEF JobsOK, Queue!TypeOK
<1>3. Queue!Sent' = Queue!Sent BY <1>1 DEF Queue!Sent, Queue!InBatches
<1> QED BY <1>2, <1>3

\* What is left to show of a step of request r: its own part.
LEMMA StepKeeps ==
  ASSUME GuestInv, NEW r \in Request, Footprint(r),
         RequestOK(r)',
         \A b \in Browser : \/ sessionCookie'[b] \in {sessionCookie[b], None}
                            \/ sessionCookie'[b] = r /\ pc'[r] = "ok",
         TypeOK', JobsOK', Queue!Sent' \subseteq Queue!Sent \cup (entries' \cap {r})
  PROVE  GuestInv'
<1>1. \A q \in Request : RequestOK(q)' BY OthersKeep
<1>2. ASSUME NEW b \in Browser, sessionCookie'[b] # None PROVE pc'[sessionCookie'[b]] = "ok"
  <2>1. CASE sessionCookie'[b] = r /\ pc'[r] = "ok" BY <2>1
  <2>2. CASE sessionCookie'[b] = sessionCookie[b]
    <3>1. pc[sessionCookie[b]] = "ok" /\ sessionCookie[b] \in Request
      BY <1>2, <2>2 DEF GuestInv, BrowsersOK, TypeOK
    <3> QED BY <2>2, <3>1 DEF Footprint
  <2> QED BY <1>2, <2>1, <2>2
<1>3. BrowsersOK' BY <1>2, OthersKeep DEF BrowsersOK
<1>4. AlertedIsSigned' BY DEF AlertedIsSigned, GuestInv, Footprint
<1> QED BY <1>1, <1>3, <1>4 DEF GuestInv

LEMMA InitInv == Init => GuestInv
<1> SUFFICES ASSUME Init PROVE GuestInv OBVIOUS
<1>1. JobsOK /\ AlertedIsSigned BY InitJobs
<1>2. TypeOK BY <1>1 DEF Init, TypeOK, JobsOK
<1>3. ASSUME NEW r \in Request PROVE RequestOK(r)
  BY DEF Init, RequestOK, Initiating, Returning, Recorded
<1>4. BrowsersOK BY DEF Init, BrowsersOK
<1> QED BY <1>1, <1>2, <1>3, <1>4 DEF GuestInv

LEMMA InitiateKeeps ==
  ASSUME GuestInv, NEW r \in Request, NEW b \in Browser, Initiate(r, b)
  PROVE  GuestInv'
<1>1. /\ pc[r] = "idle"
      /\ pc' = [pc EXCEPT ![r] = "openSession"]
      /\ browser' = [browser EXCEPT ![r] = b]
      /\ sessionCookie' = sessionCookie /\ userCookie' = userCookie
      /\ token' = token /\ code' = code /\ account' = account /\ answered' = answered
      /\ sessions' = sessions /\ expired' = expired /\ grants' = grants /\ used' = used
      /\ entries' = entries /\ UNCHANGED jobs
  BY DEF Initiate, Arrive, Step, Goto, Quiet, cookies, oauth
<1>2. JobsOK' /\ Queue!Sent' = Queue!Sent BY <1>1, JobsUntouched DEF GuestInv
<1>3. TypeOK' BY <1>1, <1>2 DEF GuestInv, TypeOK, Stages, JobsOK
<1>4. Footprint(r) BY <1>1 DEF Footprint, GuestInv, TypeOK
<1>5. pc'[r] = "openSession" /\ browser'[r] = b BY <1>1 DEF GuestInv, TypeOK
<1>6. RequestOK(r) BY DEF GuestInv
<1>7. RequestOK(r)' BY <1>1, <1>5, <1>6 DEF RequestOK, Initiating, Returning, Recorded, Ended
<1> QED BY <1>1, <1>2, <1>3, <1>4, <1>7, StepKeeps

LEMMA OpenSessionKeeps ==
  ASSUME GuestInv, NEW r \in Request, OpenSession(r)
  PROVE  GuestInv'
<1>1. PICK to \in {"answerInitiate", "failed"} : pc[r] = "openSession" /\ pc' = [pc EXCEPT ![r] = to]
  BY DEF OpenSession, Step, Goto
<1>2. /\ sessions' = sessions \cup {r}
      /\ browser' = browser /\ sessionCookie' = sessionCookie /\ userCookie' = userCookie
      /\ token' = token /\ code' = code /\ account' = account /\ answered' = answered
      /\ expired' = expired /\ grants' = grants /\ used' = used
      /\ entries' = entries /\ UNCHANGED jobs
  BY DEF OpenSession, cookies, carried, jobs
<1>3. JobsOK' /\ Queue!Sent' = Queue!Sent BY <1>2, JobsUntouched DEF GuestInv
<1>4. TypeOK' BY <1>1, <1>2, <1>3 DEF GuestInv, TypeOK, Stages, Ended, JobsOK
<1>5. Footprint(r) BY <1>1, <1>2 DEF Footprint, GuestInv, TypeOK
<1>6. pc'[r] = to BY <1>1 DEF GuestInv, TypeOK
<1>7. RequestOK(r) BY DEF GuestInv
<1>8. RequestOK(r)' BY <1>1, <1>2, <1>6, <1>7 DEF RequestOK, Initiating, Returning, Recorded, Ended
<1> QED BY <1>2, <1>3, <1>4, <1>5, <1>8, StepKeeps

LEMMA AnswerInitiateKeeps ==
  ASSUME GuestInv, NEW r \in Request, AnswerInitiate(r)
  PROVE  GuestInv'
<1>1. /\ pc[r] = "answerInitiate"
      /\ pc' = [pc EXCEPT ![r] = "ok"]
      /\ sessionCookie' = [sessionCookie EXCEPT ![browser[r]] = r]
      /\ browser' = browser /\ userCookie' = userCookie
      /\ token' = token /\ code' = code /\ account' = account /\ answered' = answered
      /\ sessions' = sessions /\ expired' = expired /\ grants' = grants /\ used' = used
      /\ entries' = entries /\ UNCHANGED jobs
  BY DEF AnswerInitiate, Step, Goto, Quiet, carried, oauth
<1>2. JobsOK' /\ Queue!Sent' = Queue!Sent BY <1>1, JobsUntouched DEF GuestInv
<1>3. TypeOK' BY <1>1, <1>2 DEF GuestInv, TypeOK, Ended, JobsOK
<1>4. Footprint(r) BY <1>1 DEF Footprint, GuestInv, TypeOK
<1>5. pc'[r] = "ok" BY <1>1 DEF GuestInv, TypeOK
<1>6. RequestOK(r) BY DEF GuestInv
<1>7. RequestOK(r)' BY <1>1, <1>5, <1>6 DEF RequestOK, Initiating, Returning, Recorded, Ended
<1>8. \A b \in Browser : sessionCookie'[b] \in {sessionCookie[b], r} BY <1>1 DEF GuestInv, TypeOK
<1> QED BY <1>2, <1>3, <1>4, <1>5, <1>7, <1>8, StepKeeps

LEMMA CallbackKeeps ==
  ASSUME GuestInv, NEW r \in Request, NEW g \in grants, Callback(r, g)
  PROVE  GuestInv'
<1> DEFINE b == browser[g.app]
<1>1. /\ pc[r] = "idle"
      /\ pc' = [pc EXCEPT ![r] = "findSession"]
      /\ browser' = [browser EXCEPT ![r] = b]
      /\ token' = [token EXCEPT ![r] = sessionCookie[b]]
      /\ code' = [code EXCEPT ![r] = g]
      /\ sessionCookie' = sessionCookie /\ userCookie' = userCookie
      /\ account' = account /\ answered' = answered
      /\ sessions' = sessions /\ expired' = expired /\ grants' = grants /\ used' = used
      /\ entries' = entries /\ UNCHANGED jobs
  BY DEF Callback, Arrive, Step, Goto, Quiet, cookies, oauth
<1>2. /\ g \in Code /\ g.app \in Request
      /\ b \in Browser
      /\ sessionCookie[b] \in Request \cup {None}
      /\ sessionCookie[b] # None => pc[sessionCookie[b]] = "ok"
  <2>1. g \in Code /\ g.app \in Request BY DEF GuestInv, TypeOK, Code
  <2>2. pc[g.app] = "ok" BY DEF GuestInv, BrowsersOK
  <2>3. b \in Browser BY <2>1, <2>2 DEF GuestInv, RequestOK
  <2> QED BY <2>1, <2>3 DEF GuestInv, TypeOK, BrowsersOK
<1> HIDE DEF b
<1>3. JobsOK' /\ Queue!Sent' = Queue!Sent BY <1>1, JobsUntouched DEF GuestInv
<1>4. TypeOK' BY <1>1, <1>2, <1>3 DEF GuestInv, TypeOK, Stages, JobsOK
<1>5. Footprint(r) BY <1>1 DEF Footprint, GuestInv, TypeOK
<1>6. /\ pc'[r] = "findSession" /\ browser'[r] = b /\ code'[r] = g
      /\ token'[r] = sessionCookie[b]
      /\ token'[r] # None => pc'[token'[r]] = "ok"
  BY <1>1, <1>2 DEF GuestInv, TypeOK
<1>7. RequestOK(r) BY DEF GuestInv
<1>8. RequestOK(r)' BY <1>1, <1>2, <1>6, <1>7 DEF RequestOK, Initiating, Returning, Recorded, Ended
<1> QED BY <1>1, <1>3, <1>4, <1>5, <1>8, StepKeeps

\* A request that only moves on, or dies.
LEMMA MoveKeeps ==
  ASSUME GuestInv, NEW r \in Request, NEW to \in Stages \cup Ended,
         pc[r] \in Stages, pc' = [pc EXCEPT ![r] = to],
         UNCHANGED <<cookies, carried>>, Quiet,
         RequestOK(r)'
  PROVE  GuestInv'
<1>1. /\ browser' = browser /\ sessionCookie' = sessionCookie /\ userCookie' = userCookie
      /\ token' = token /\ code' = code /\ account' = account /\ answered' = answered
      /\ sessions' = sessions /\ expired' = expired /\ grants' = grants /\ used' = used
      /\ entries' = entries /\ UNCHANGED jobs
  BY DEF Quiet, cookies, carried, oauth
<1>2. JobsOK' /\ Queue!Sent' = Queue!Sent BY <1>1, JobsUntouched DEF GuestInv
<1>3. TypeOK' BY <1>1, <1>2 DEF GuestInv, TypeOK, JobsOK
<1>4. Footprint(r) BY <1>1 DEF Footprint, GuestInv, TypeOK, Stages
<1> QED BY <1>1, <1>2, <1>3, <1>4, StepKeeps

LEMMA FindSessionKeeps ==
  ASSUME GuestInv, NEW r \in Request, FindSession(r)
  PROVE  GuestInv'
<1>1. PICK to \in {"exchange", "rejected"} :
        /\ pc[r] = "findSession" /\ pc' = [pc EXCEPT ![r] = to]
        /\ to = "exchange" => token[r] \in sessions
  BY DEF FindSession, Step, Goto
<1>2. UNCHANGED <<cookies, carried>> /\ Quiet BY DEF FindSession
<1>3. /\ browser' = browser /\ token' = token /\ code' = code /\ account' = account
      /\ answered' = answered /\ sessions' = sessions /\ grants' = grants /\ entries' = entries
  BY <1>2 DEF Quiet, carried, oauth
<1>4. pc'[r] = to BY <1>1 DEF GuestInv, TypeOK
<1>5. token[r] # None => token[r] # r /\ pc'[token[r]] = pc[token[r]]
  BY <1>1 DEF GuestInv, RequestOK, TypeOK
<1>6. to = "exchange" => token[r] # None BY <1>1, GuestbookAssumption DEF GuestInv, TypeOK
<1>7. RequestOK(r) BY DEF GuestInv
<1>8. RequestOK(r)'
  BY <1>1, <1>3, <1>4, <1>5, <1>6, <1>7
     DEF RequestOK, Initiating, Returning, Recorded, Ended
<1> QED BY <1>1, <1>2, <1>8, MoveKeeps DEF Stages, Ended

LEMMA ExchangeKeeps ==
  ASSUME GuestInv, NEW r \in Request, Exchange(r)
  PROVE  GuestInv'
<1>1. pc[r] = "exchange" BY DEF Exchange, Step
<1>2. RequestOK(r) BY DEF GuestInv
<1>3. /\ code[r] \in grants /\ code[r].account \in Account
      /\ token[r] \in Request /\ token[r] # r /\ pc[token[r]] = "ok" /\ r \notin entries
  BY <1>1, <1>2 DEF RequestOK, Returning, Recorded, GuestInv, TypeOK, Code
<1>4. CASE /\ Step(r, "exchange", "dropSession")
           /\ used' = used \cup {code[r]}
           /\ account' = [account EXCEPT ![r] = code[r].account]
           /\ UNCHANGED <<cookies, browser, token, code, answered, sessions, expired, grants,
                          entries, jobs>>
  <2>1. /\ pc' = [pc EXCEPT ![r] = "dropSession"]
        /\ account' = [account EXCEPT ![r] = code[r].account]
        /\ used' = used \cup {code[r]}
        /\ browser' = browser /\ sessionCookie' = sessionCookie /\ userCookie' = userCookie
        /\ token' = token /\ code' = code /\ answered' = answered
        /\ sessions' = sessions /\ expired' = expired /\ grants' = grants
        /\ entries' = entries /\ UNCHANGED jobs
    BY <1>4 DEF Step, Goto, cookies, jobs
  <2>2. JobsOK' /\ Queue!Sent' = Queue!Sent BY <2>1, JobsUntouched DEF GuestInv
  <2>3. TypeOK' BY <1>3, <2>1, <2>2 DEF GuestInv, TypeOK, Stages, JobsOK
  <2>4. Footprint(r) BY <1>1, <1>3, <2>1 DEF Footprint, GuestInv, TypeOK
  <2>5. pc'[r] = "dropSession" /\ pc'[token[r]] = "ok" BY <1>3, <2>1 DEF GuestInv, TypeOK
  <2>6. RequestOK(r)'
    BY <1>1, <1>2, <1>3, <2>1, <2>5 DEF RequestOK, Initiating, Returning, Recorded, Ended
  <2> QED BY <2>1, <2>2, <2>3, <2>4, <2>6, StepKeeps
<1>5. CASE Step(r, "exchange", "rejected") /\ UNCHANGED <<cookies, carried>> /\ Quiet
  <2>1. /\ pc' = [pc EXCEPT ![r] = "rejected"]
        /\ browser' = browser /\ token' = token /\ code' = code /\ account' = account
        /\ answered' = answered /\ sessions' = sessions /\ grants' = grants
        /\ entries' = entries
    BY <1>5 DEF Step, Goto, Quiet, carried, oauth
  <2>2. pc'[r] = "rejected" /\ pc'[token[r]] = "ok" BY <1>3, <2>1 DEF GuestInv, TypeOK
  <2>3. RequestOK(r)'
    BY <1>1, <1>2, <1>3, <2>1, <2>2 DEF RequestOK, Initiating, Returning, Recorded, Ended
  <2> QED BY <1>1, <1>5, <2>1, <2>3, MoveKeeps DEF Stages, Ended
<1> QED BY <1>4, <1>5 DEF Exchange

LEMMA DropSessionKeeps ==
  ASSUME GuestInv, NEW r \in Request, DropSession(r)
  PROVE  GuestInv'
<1>1. /\ pc[r] = "dropSession"
      /\ pc' = [pc EXCEPT ![r] = "answerCallback"]
      /\ sessions' = sessions \ {token[r]}
      /\ browser' = browser /\ sessionCookie' = sessionCookie /\ userCookie' = userCookie
      /\ token' = token /\ code' = code /\ account' = account /\ answered' = answered
      /\ expired' = expired /\ grants' = grants /\ used' = used
      /\ entries' = entries /\ UNCHANGED jobs
  BY DEF DropSession, Step, Goto, cookies, carried, jobs
<1>2. JobsOK' /\ Queue!Sent' = Queue!Sent BY <1>1, JobsUntouched DEF GuestInv
<1>3. TypeOK' BY <1>1, <1>2 DEF GuestInv, TypeOK, Stages, JobsOK
<1>4. Footprint(r) BY <1>1 DEF Footprint, GuestInv, TypeOK
<1>5. RequestOK(r) BY DEF GuestInv
<1>6. token[r] # None => token[r] # r /\ pc'[token[r]] = pc[token[r]]
  BY <1>1, <1>5 DEF GuestInv, RequestOK, TypeOK
<1>7. pc'[r] = "answerCallback" BY <1>1 DEF GuestInv, TypeOK
<1>8. RequestOK(r)'
  BY <1>1, <1>5, <1>6, <1>7 DEF RequestOK, Initiating, Returning, Recorded, Ended
<1> QED BY <1>1, <1>2, <1>3, <1>4, <1>8, StepKeeps

LEMMA AnswerCallbackKeeps ==
  ASSUME GuestInv, NEW r \in Request, AnswerCallback(r)
  PROVE  GuestInv'
<1>1. /\ pc[r] = "answerCallback"
      /\ pc' = [pc EXCEPT ![r] = "ok"]
      /\ sessionCookie' = [sessionCookie EXCEPT ![browser[r]] = None]
      /\ userCookie' = [userCookie EXCEPT ![browser[r]] = account[r]]
      /\ browser' = browser
      /\ token' = token /\ code' = code /\ account' = account /\ answered' = answered
      /\ sessions' = sessions /\ expired' = expired /\ grants' = grants /\ used' = used
      /\ entries' = entries /\ UNCHANGED jobs
  BY DEF AnswerCallback, Step, Goto, Quiet, carried, oauth
<1>2. JobsOK' /\ Queue!Sent' = Queue!Sent BY <1>1, JobsUntouched DEF GuestInv
<1>3. TypeOK' BY <1>1, <1>2 DEF GuestInv, TypeOK, Ended, JobsOK
<1>4. Footprint(r) BY <1>1 DEF Footprint, GuestInv, TypeOK
<1>5. RequestOK(r) BY DEF GuestInv
<1>6. token[r] # r /\ pc'[token[r]] = pc[token[r]]
  BY <1>1, <1>5 DEF GuestInv, RequestOK, Returning, TypeOK
<1>7. pc'[r] = "ok" BY <1>1 DEF GuestInv, TypeOK
<1>8. RequestOK(r)'
  BY <1>1, <1>5, <1>6, <1>7 DEF RequestOK, Initiating, Returning, Recorded, Ended
<1>9. \A b \in Browser : sessionCookie'[b] \in {sessionCookie[b], None}
  BY <1>1 DEF GuestInv, TypeOK
<1> QED BY <1>2, <1>3, <1>4, <1>8, <1>9, StepKeeps

LEMMA LogoutKeeps ==
  ASSUME GuestInv, NEW r \in Request, NEW b \in Browser, Logout(r, b)
  PROVE  GuestInv'
<1>1. /\ pc[r] = "idle"
      /\ pc' = [pc EXCEPT ![r] = "ok"]
      /\ browser' = [browser EXCEPT ![r] = b]
      /\ sessionCookie' = [sessionCookie EXCEPT ![b] = None]
      /\ userCookie' = [userCookie EXCEPT ![b] = None]
      /\ token' = token /\ code' = code /\ account' = account /\ answered' = answered
      /\ sessions' = sessions /\ expired' = expired /\ grants' = grants /\ used' = used
      /\ entries' = entries /\ UNCHANGED jobs
  BY DEF Logout, Arrive, Step, Goto, Quiet, oauth
<1>2. JobsOK' /\ Queue!Sent' = Queue!Sent BY <1>1, JobsUntouched DEF GuestInv
<1>3. TypeOK' BY <1>1, <1>2 DEF GuestInv, TypeOK, Ended, JobsOK
<1>4. Footprint(r) BY <1>1 DEF Footprint, GuestInv, TypeOK
<1>5. pc'[r] = "ok" /\ browser'[r] = b BY <1>1 DEF GuestInv, TypeOK
<1>6. RequestOK(r) BY DEF GuestInv
<1>7. RequestOK(r)' BY <1>1, <1>5, <1>6 DEF RequestOK, Initiating, Returning, Recorded, Ended
<1>8. \A d \in Browser : sessionCookie'[d] \in {sessionCookie[d], None}
  BY <1>1 DEF GuestInv, TypeOK
<1> QED BY <1>2, <1>3, <1>4, <1>7, <1>8, StepKeeps

LEMMA SignKeeps ==
  ASSUME GuestInv, NEW r \in Request, NEW b \in Browser, Sign(r, b)
  PROVE  GuestInv'
<1>1. PICK to \in {"checkSigned", "rejected"} :
        /\ pc[r] = "idle"
        /\ pc' = [pc EXCEPT ![r] = to]
        /\ browser' = [browser EXCEPT ![r] = b]
  BY DEF Sign, Arrive, Step, Goto
<1>2. /\ account' = [account EXCEPT ![r] = userCookie[b]]
      /\ answered' = [answered EXCEPT ![r] = {e \in entries : pc[e] = "ok"}]
      /\ sessionCookie' = sessionCookie /\ userCookie' = userCookie
      /\ token' = token /\ code' = code
      /\ sessions' = sessions /\ expired' = expired /\ grants' = grants /\ used' = used
      /\ entries' = entries /\ UNCHANGED jobs
  BY DEF Sign, Quiet, cookies, oauth
<1>3. JobsOK' /\ Queue!Sent' = Queue!Sent BY <1>2, JobsUntouched DEF GuestInv
<1>4. TypeOK' BY <1>1, <1>2, <1>3 DEF GuestInv, TypeOK, Stages, Ended, JobsOK
<1>5. RequestOK(r) BY DEF GuestInv
<1>6. r \notin entries /\ token[r] = None BY <1>1, <1>5 DEF RequestOK, Recorded
<1>7. Footprint(r) BY <1>1, <1>2, <1>6 DEF Footprint, GuestInv, TypeOK
<1>8. /\ pc'[r] = to /\ browser'[r] = b
      /\ answered'[r] = {e \in entries : pc[e] = "ok"}
  BY <1>1, <1>2 DEF GuestInv, TypeOK
<1>9. RequestOK(r)'
  BY <1>1, <1>2, <1>5, <1>6, <1>8 DEF RequestOK, Initiating, Returning, Recorded, Ended
<1> QED BY <1>2, <1>3, <1>4, <1>7, <1>9, StepKeeps

LEMMA CheckSignedKeeps ==
  ASSUME GuestInv, NEW r \in Request, CheckSigned(r)
  PROVE  GuestInv'
<1>1. PICK to \in {"insertEntry", "rejected"} :
        /\ pc[r] = "checkSigned" /\ pc' = [pc EXCEPT ![r] = to]
        /\ to = "insertEntry" => EntriesOf(account[r]) = {}
  BY DEF CheckSigned, Step, Goto
<1>2. UNCHANGED <<cookies, carried>> /\ Quiet BY DEF CheckSigned
<1>3. /\ browser' = browser /\ token' = token /\ code' = code /\ account' = account
      /\ answered' = answered /\ sessions' = sessions /\ grants' = grants /\ entries' = entries
  BY <1>2 DEF Quiet, carried, oauth
<1>4. RequestOK(r) BY DEF GuestInv
<1>5. token[r] = None /\ answered[r] \subseteq entries /\ r \notin entries
  BY <1>1, <1>4 DEF RequestOK, Returning, Recorded, Ended
<1>6. to = "insertEntry" => \A f \in answered[r] : account[f] # account[r]
  BY <1>1, <1>5 DEF EntriesOf
<1>7. pc'[r] = to BY <1>1 DEF GuestInv, TypeOK
<1>8. RequestOK(r)'
  BY <1>1, <1>3, <1>4, <1>5, <1>6, <1>7
     DEF RequestOK, Initiating, Returning, Recorded, Ended
<1> QED BY <1>1, <1>2, <1>8, MoveKeeps DEF Stages, Ended

LEMMA InsertEntryKeeps ==
  ASSUME GuestInv, NEW r \in Request, InsertEntry(r)
  PROVE  GuestInv'
<1>1. /\ pc[r] = "insertEntry"
      /\ pc' = [pc EXCEPT ![r] = "enqueue"]
      /\ entries' = entries \cup {r}
      /\ browser' = browser /\ sessionCookie' = sessionCookie /\ userCookie' = userCookie
      /\ token' = token /\ code' = code /\ account' = account /\ answered' = answered
      /\ sessions' = sessions /\ expired' = expired /\ grants' = grants /\ used' = used
      /\ UNCHANGED jobs
  BY DEF InsertEntry, Step, Goto, cookies, carried, oauth, jobs
<1>2. JobsOK' /\ Queue!Sent' = Queue!Sent BY <1>1, JobsUntouched DEF GuestInv
<1>3. TypeOK' BY <1>1, <1>2 DEF GuestInv, TypeOK, Stages, JobsOK
<1>4. Footprint(r) BY <1>1 DEF Footprint, GuestInv, TypeOK
<1>5. pc'[r] = "enqueue" BY <1>1 DEF GuestInv, TypeOK
<1>6. RequestOK(r) BY DEF GuestInv
<1>7. RequestOK(r)' BY <1>1, <1>5, <1>6 DEF RequestOK, Initiating, Returning, Recorded, Ended
<1> QED BY <1>1, <1>2, <1>3, <1>4, <1>7, StepKeeps

LEMMA EnqueueKeeps ==
  ASSUME GuestInv, NEW r \in Request, Enqueue(r)
  PROVE  GuestInv'
<1>1. /\ pc[r] = "enqueue"
      /\ pc' = [pc EXCEPT ![r] = "answerSign"]
      /\ browser' = browser /\ sessionCookie' = sessionCookie /\ userCookie' = userCookie
      /\ token' = token /\ code' = code /\ account' = account /\ answered' = answered
      /\ sessions' = sessions /\ expired' = expired /\ grants' = grants /\ used' = used
      /\ entries' = entries
  BY DEF Enqueue, Step, Goto, cookies, carried, oauth
<1>2. RequestOK(r) BY DEF GuestInv
<1>3. r \in entries' BY <1>1, <1>2 DEF RequestOK, Recorded
<1>4. JobsOK' /\ Queue!Sent' \subseteq Queue!Sent \cup {r}
  BY JobsUntouched, SendKeepsJobs DEF Enqueue, GuestInv
<1>5. TypeOK' BY <1>1, <1>4 DEF GuestInv, TypeOK, Stages, JobsOK
<1>6. Footprint(r) BY <1>1 DEF Footprint, GuestInv, TypeOK
<1>7. pc'[r] = "answerSign" BY <1>1 DEF GuestInv, TypeOK
<1>8. RequestOK(r)' BY <1>1, <1>2, <1>7 DEF RequestOK, Initiating, Returning, Recorded, Ended
<1> QED BY <1>1, <1>3, <1>4, <1>5, <1>6, <1>8, StepKeeps

LEMMA AnswerSignKeeps ==
  ASSUME GuestInv, NEW r \in Request, AnswerSign(r)
  PROVE  GuestInv'
<1>1. pc[r] = "answerSign" /\ pc' = [pc EXCEPT ![r] = "ok"] BY DEF AnswerSign, Step, Goto
<1>2. UNCHANGED <<cookies, carried>> /\ Quiet BY DEF AnswerSign
<1>3. /\ browser' = browser /\ token' = token /\ code' = code /\ account' = account
      /\ answered' = answered /\ sessions' = sessions /\ grants' = grants /\ entries' = entries
  BY <1>2 DEF Quiet, carried, oauth
<1>4. pc'[r] = "ok" BY <1>1 DEF GuestInv, TypeOK
<1>5. RequestOK(r) BY DEF GuestInv
<1>6. RequestOK(r)'
  BY <1>1, <1>3, <1>4, <1>5 DEF RequestOK, Initiating, Returning, Recorded, Ended
<1> QED BY <1>1, <1>2, <1>6, MoveKeeps DEF Stages, Ended

LEMMA FailKeeps ==
  ASSUME GuestInv, NEW r \in Request, Fail(r)
  PROVE  GuestInv'
<1>1. pc[r] \in Stages /\ pc' = [pc EXCEPT ![r] = "failed"] BY DEF Fail, Goto
<1>2. UNCHANGED <<cookies, carried>> /\ Quiet BY DEF Fail
<1>3. /\ browser' = browser /\ token' = token /\ code' = code /\ account' = account
      /\ answered' = answered /\ sessions' = sessions /\ grants' = grants /\ entries' = entries
  BY <1>2 DEF Quiet, carried, oauth
<1>4. pc'[r] = "failed" BY <1>1 DEF GuestInv, TypeOK
<1>5. RequestOK(r) BY DEF GuestInv
<1>6. token[r] # None => token[r] # r /\ pc'[token[r]] = pc[token[r]]
  BY <1>1, <1>5 DEF GuestInv, RequestOK, TypeOK, Stages
<1>7. RequestOK(r)'
  BY <1>1, <1>3, <1>4, <1>5, <1>6
     DEF RequestOK, Initiating, Returning, Recorded, Stages, Ended
<1> QED BY <1>1, <1>2, <1>7, MoveKeeps DEF Ended

\* The environment and the consumer move no request.
LEMMA AroundKeeps ==
  ASSUME GuestInv, Environment \/ Drain
  PROVE  GuestInv'
<1>1. CASE \E r \in Request, a \in Account : Authorize(r, a)
  <2>1. PICK r \in Request, a \in Account : Authorize(r, a) BY <1>1
  <2>2. /\ pc[r] = "ok" /\ grants' = grants \cup {[app |-> r, account |-> a]}
        /\ pc' = pc /\ browser' = browser /\ sessionCookie' = sessionCookie
        /\ userCookie' = userCookie /\ token' = token /\ code' = code /\ account' = account
        /\ answered' = answered /\ sessions' = sessions /\ expired' = expired
        /\ used' = used /\ entries' = entries /\ UNCHANGED jobs
    BY <2>1 DEF Authorize, cookies, carried, jobs
  <2>3. JobsOK' /\ Queue!Sent' = Queue!Sent BY <2>2, JobsUntouched DEF GuestInv
  <2>4. TypeOK' BY <2>2, <2>3 DEF GuestInv, TypeOK, Code, JobsOK
  <2>5. ASSUME NEW q \in Request PROVE RequestOK(q)'
    <3>1. RequestOK(q) BY DEF GuestInv
    <3> QED BY <2>2, <3>1 DEF RequestOK, Initiating, Returning, Recorded, Ended
  <2>6. BrowsersOK' BY <2>2 DEF GuestInv, BrowsersOK
  <2>7. AlertedIsSigned' BY <2>2, <2>3 DEF GuestInv, AlertedIsSigned
  <2> QED BY <2>3, <2>4, <2>5, <2>6, <2>7 DEF GuestInv
<1>2. CASE \E t \in Request : Expire(t)
  <2>1. PICK t \in Request : Expire(t) BY <1>2
  <2>2. /\ expired' = expired \cup {t}
        /\ pc' = pc /\ browser' = browser /\ sessionCookie' = sessionCookie
        /\ userCookie' = userCookie /\ token' = token /\ code' = code /\ account' = account
        /\ answered' = answered /\ sessions' = sessions /\ grants' = grants
        /\ used' = used /\ entries' = entries /\ UNCHANGED jobs
    BY <2>1 DEF Expire, cookies, carried, jobs
  <2>3. JobsOK' /\ Queue!Sent' = Queue!Sent BY <2>2, JobsUntouched DEF GuestInv
  <2>4. TypeOK' BY <2>2, <2>3 DEF GuestInv, TypeOK, JobsOK
  <2>5. (\A q \in Request : RequestOK(q))' /\ BrowsersOK'
    BY <2>2 DEF GuestInv, RequestOK, BrowsersOK, Initiating, Returning, Recorded, Ended
  <2>6. AlertedIsSigned' BY <2>2, <2>3 DEF GuestInv, AlertedIsSigned
  <2> QED BY <2>3, <2>4, <2>5, <2>6 DEF GuestInv
<1>3. CASE \E b \in Browser : ExpireCookie(b)
  <2>1. PICK b \in Browser : ExpireCookie(b) BY <1>3
  <2>2. /\ sessionCookie' = [sessionCookie EXCEPT ![b] = None]
        /\ pc' = pc /\ browser' = browser /\ userCookie' = userCookie
        /\ token' = token /\ code' = code /\ account' = account
        /\ answered' = answered /\ sessions' = sessions /\ expired' = expired
        /\ grants' = grants /\ used' = used /\ entries' = entries /\ UNCHANGED jobs
    BY <2>1 DEF ExpireCookie, carried, Quiet, oauth
  <2>3. JobsOK' /\ Queue!Sent' = Queue!Sent BY <2>2, JobsUntouched DEF GuestInv
  <2>4. TypeOK' BY <2>2, <2>3 DEF GuestInv, TypeOK, JobsOK
  <2>5. (\A q \in Request : RequestOK(q))'
    BY <2>2 DEF GuestInv, RequestOK, Initiating, Returning, Recorded, Ended
  <2>6. \A d \in Browser : sessionCookie'[d] \in {sessionCookie[d], None}
    BY <2>2 DEF GuestInv, TypeOK
  <2>7. BrowsersOK' BY <2>2, <2>6 DEF GuestInv, BrowsersOK
  <2>8. AlertedIsSigned' BY <2>2, <2>3 DEF GuestInv, AlertedIsSigned
  <2> QED BY <2>3, <2>4, <2>5, <2>7, <2>8 DEF GuestInv
<1>4. CASE Drain
  <2>1. /\ pc' = pc /\ browser' = browser /\ sessionCookie' = sessionCookie
        /\ userCookie' = userCookie /\ token' = token /\ code' = code /\ account' = account
        /\ answered' = answered /\ sessions' = sessions /\ expired' = expired
        /\ grants' = grants /\ used' = used /\ entries' = entries
    BY <1>4 DEF Drain, local, cookies, carried, oauth
  <2>2. JobsOK' /\ Queue!Sent' \subseteq Queue!Sent BY <1>4, WorkKeepsJobs DEF Drain, GuestInv
  <2>3. TypeOK' BY <2>1, <2>2 DEF GuestInv, TypeOK, JobsOK
  <2>4. (\A q \in Request : RequestOK(q))' /\ BrowsersOK'
    BY <2>1 DEF GuestInv, RequestOK, BrowsersOK, Initiating, Returning, Recorded, Ended
  <2>5. AlertedIsSigned' BY <2>1, <2>2 DEF GuestInv, AlertedIsSigned
  <2> QED BY <2>2, <2>3, <2>4, <2>5 DEF GuestInv
<1> QED BY <1>1, <1>2, <1>3, <1>4 DEF Environment

LEMMA NextInv == GuestInv /\ [Next]_vars => GuestInv'
<1> SUFFICES ASSUME GuestInv, [Next]_vars PROVE GuestInv' OBVIOUS
<1>1. ASSUME NEW r \in Request, Arrivals(r) PROVE GuestInv'
  BY <1>1, InitiateKeeps, SignKeeps, LogoutKeeps, CallbackKeeps DEF Arrivals
<1>2. ASSUME NEW r \in Request, Serve(r) PROVE GuestInv'
  BY <1>2, OpenSessionKeeps, AnswerInitiateKeeps, FindSessionKeeps, ExchangeKeeps,
     DropSessionKeeps, AnswerCallbackKeeps, CheckSignedKeeps, InsertEntryKeeps, EnqueueKeeps,
     AnswerSignKeeps, FailKeeps DEF Serve
<1>3. CASE Environment \/ Drain BY <1>3, AroundKeeps
<1>4. CASE UNCHANGED vars
  <2>1. /\ pc' = pc /\ browser' = browser /\ sessionCookie' = sessionCookie
        /\ userCookie' = userCookie /\ token' = token /\ code' = code /\ account' = account
        /\ answered' = answered /\ sessions' = sessions /\ expired' = expired
        /\ grants' = grants /\ used' = used /\ entries' = entries /\ UNCHANGED jobs
    BY <1>4 DEF vars, local, cookies, carried, oauth
  <2>2. JobsOK' /\ Queue!Sent' = Queue!Sent BY <2>1, JobsUntouched DEF GuestInv
  <2>3. TypeOK' BY <2>1, <2>2 DEF GuestInv, TypeOK, JobsOK
  <2>4. (\A q \in Request : RequestOK(q))' /\ BrowsersOK'
    BY <2>1 DEF GuestInv, RequestOK, BrowsersOK, Initiating, Returning, Recorded, Ended
  <2>5. AlertedIsSigned' BY <2>1, <2>2 DEF GuestInv, AlertedIsSigned
  <2> QED BY <2>2, <2>3, <2>4, <2>5 DEF GuestInv
<1> QED BY <1>1, <1>2, <1>3, <1>4 DEF Next

LEMMA GuestInvAlways == Spec => []GuestInv
BY InitInv, NextInv, PTL DEF Spec

-----------------------------------------------------------------------------
\* The guestbook's state keeps its type: in particular a code is only ever
\* spent that an instance granted, and no job is delivered more often than
\* the queue retries (handleOAuthCallback, queueHandler).
THEOREM GuestbookTypeCorrect == Spec => []TypeOK
<1>1. GuestInv => TypeOK BY DEF GuestInv
<1> QED BY <1>1, GuestInvAlways, PTL

\* However many requests are in flight, no account gets an entry after one
\* of it was acknowledged (hasUserSigned before createGuestbookEntry).
THEOREM LaterSignsAreRefused == Spec => []LaterSignsRefused
<1>1. GuestInv => LaterSignsRefused
  <2> SUFFICES ASSUME GuestInv, NEW e \in entries, NEW f \in answered[e]
               PROVE  account[f] # account[e]
    BY DEF LaterSignsRefused
  <2>1. RequestOK(e) BY DEF GuestInv, TypeOK
  <2> QED BY <2>1 DEF RequestOK
<1> QED BY <1>1, GuestInvAlways, PTL

\* The owner hears only of signatures that are in the table, whatever the
\* queue retries or repeats (notifyGuestbookSign after the insert).
THEOREM AlertsAreSigned == Spec => []AlertedIsSigned
<1>1. GuestInv => AlertedIsSigned BY DEF GuestInv
<1> QED BY <1>1, GuestInvAlways, PTL

\* A sign-in that succeeded leaves no session behind, even when several
\* callbacks and initiates of one browser overlap (deleteOAuthSession).
THEOREM SignInsSpendSessions == Spec => []SessionsAreSpent
<1>1. GuestInv => SessionsAreSpent BY DEF GuestInv, RequestOK, SessionsAreSpent
<1> QED BY <1>1, GuestInvAlways, PTL

\* An acknowledged signing is in the table and a refused one is not, whatever
\* became of its job (signGuestbook).
THEOREM AnswersMatchRows == Spec => []AnswerMatchesRow
<1>1. GuestInv => AnswerMatchesRow
  BY DEF GuestInv, RequestOK, Recorded, AnswerMatchesRow
<1> QED BY <1>1, GuestInvAlways, PTL

=============================================================================
