----------------------------- MODULE Guestbook -----------------------------
(***************************************************************************)
(* The guestbook of the adapter, apps/adapter/src/guestbook: the sign-in   *)
(* of a visitor through their Fediverse instance, the signing, and the job *)
(* each signature puts on the work queue (notifyGuestbookSign), whose      *)
(* consumer is module WorkQueue.  One action per awaited call.  Requests   *)
(* run concurrently; cookies are read when a request arrives and set when  *)
(* its answer does, and any request may die between two calls.             *)
(*                                                                         *)
(* Abstractions.  A request gives its name to the OAuth session and to the *)
(* entry it creates.  An account is a user@instance; the instance grants   *)
(* authorization codes for the app a session registered, each good for one *)
(* exchange.                                                               *)
(***************************************************************************)
EXTENDS Naturals, FiniteSets

CONSTANTS
  Request,     \* HTTP requests, each serving one route once
  Browser,     \* visitors
  Account,     \* Fediverse accounts
  Owns,        \* the accounts each visitor can sign in to
  Consumer,    \* invocations of the queue consumer
  BatchSize,   \* as in WorkQueue
  MaxRetries,  \* as in WorkQueue
  None         \* no cookie

ASSUME GuestbookAssumption ==
  /\ Owns \in [Browser -> SUBSET Account]
  /\ None \notin Request \cup Account \cup Browser
  /\ BatchSize \in Nat \ {0}
  /\ MaxRetries \in Nat

VARIABLES
  pc,             \* the call a request awaits next, or how it ended
  browser,        \* the browser it came from
  token,          \* the guestbook_session cookie it carried
  code,           \* the authorization code it carried
  account,        \* the account it works for
  sessionCookie,  \* guestbook_session of each browser
  userCookie,     \* guestbook_user of each browser
  sessions,       \* table oauth_sessions
  expired,        \* sessions whose expires_at has passed
  entries,        \* table guestbook_entries
  grants,         \* authorization codes issued by the instances
  used,           \* and those exchanged for a token
  answered,       \* history: signatures acknowledged before a request arrived
  waiting, batch, handled, acked, dead, attempts, alerts

Queue == INSTANCE WorkQueue WITH Message <- Request, Unhandled <- {}, Refused <- {}

cookies == <<sessionCookie, userCookie>>
carried == <<browser, token, code, account, answered>>
oauth   == <<sessions, expired, grants, used>>
jobs    == <<waiting, batch, handled, acked, dead, attempts, alerts>>
local   == <<pc, cookies, carried, oauth, entries>>
vars    == <<local, jobs>>

Ended  == {"ok", "rejected", "failed"}
Stages == {"openSession", "answerInitiate",
           "findSession", "exchange", "dropSession", "answerCallback",
           "checkSigned", "insertEntry", "enqueue", "answerSign"}

Code == [app : Request, account : Account]

TypeOK ==
  /\ pc \in [Request -> Stages \cup Ended \cup {"idle"}]
  /\ browser \in [Request -> Browser \cup {None}]
  /\ token \in [Request -> Request \cup {None}]
  /\ code \in [Request -> Code \cup {None}]
  /\ account \in [Request -> Account \cup {None}]
  /\ sessionCookie \in [Browser -> Request \cup {None}]
  /\ userCookie \in [Browser -> Account \cup {None}]
  /\ sessions \subseteq Request
  /\ expired \subseteq Request
  /\ entries \subseteq Request
  /\ grants \subseteq Code
  /\ used \subseteq grants
  /\ answered \in [Request -> SUBSET Request]
  /\ Queue!TypeOK

\* Sign-ins of earlier days are over, but their user cookies may remain.
Init ==
  /\ pc = [r \in Request |-> "idle"]
  /\ browser = [r \in Request |-> None]
  /\ token = [r \in Request |-> None]
  /\ code = [r \in Request |-> None]
  /\ account = [r \in Request |-> None]
  /\ sessionCookie = [b \in Browser |-> None]
  /\ userCookie \in [Browser -> Account \cup {None}]
  /\ \A b \in Browser : userCookie[b] \in Owns[b] \cup {None}
  /\ sessions = {} /\ expired = {} /\ entries = {} /\ grants = {} /\ used = {}
  /\ answered = [r \in Request |-> {}]
  /\ Queue!Init

Goto(r, stage) == pc' = [pc EXCEPT ![r] = stage]
Step(r, from, to) == pc[r] = from /\ Goto(r, to)

\* A request reaches its route.
Arrive(r, b, stage) ==
  /\ Step(r, "idle", stage)
  /\ browser' = [browser EXCEPT ![r] = b]

Quiet == UNCHANGED <<oauth, entries, jobs>>

\* Any call may fail, and any request may die between two of them.
Fail(r) ==
  /\ pc[r] \in Stages
  /\ Goto(r, "failed")
  /\ UNCHANGED <<cookies, carried>> /\ Quiet

-----------------------------------------------------------------------------
(* POST /guestbook/auth/initiate.                                          *)

Initiate(r, b) ==
  /\ Arrive(r, b, "openSession")
  /\ UNCHANGED <<cookies, token, code, account, answered>> /\ Quiet

\* registerApp, then createOAuthSession.  The session is stored before the
\* authorization URL is looked at, so an instance that gave none leaves the
\* row behind a failed request.
OpenSession(r) ==
  /\ \E to \in {"answerInitiate", "failed"} : Step(r, "openSession", to)
  /\ sessions' = sessions \cup {r}
  /\ UNCHANGED <<cookies, carried, expired, grants, used, entries, jobs>>

AnswerInitiate(r) ==
  /\ Step(r, "answerInitiate", "ok")
  /\ sessionCookie' = [sessionCookie EXCEPT ![browser[r]] = r]
  /\ UNCHANGED <<userCookie, carried>> /\ Quiet

\* The visitor approves the app at the instance, with an account of theirs.
Authorize(r, a) ==
  LET g == [app |-> r, account |-> a]
  IN /\ r \in sessions /\ pc[r] = "ok"
     /\ a \in Owns[browser[r]]
     /\ g \notin grants
     /\ grants' = grants \cup {g}
     /\ UNCHANGED <<pc, cookies, carried, sessions, expired, used, entries, jobs>>

-----------------------------------------------------------------------------
(* GET /guestbook/callback.                                                *)

\* The instance sends the browser that approved back with the code.  The
\* session comes from the cookie, which a later initiate may have replaced.
Callback(r, g) ==
  /\ Arrive(r, browser[g.app], "findSession")
  /\ token' = [token EXCEPT ![r] = sessionCookie[browser[g.app]]]
  /\ code' = [code EXCEPT ![r] = g]
  /\ UNCHANGED <<cookies, account, answered>> /\ Quiet

FindSession(r) ==
  /\ Step(r, "findSession", IF token[r] \in sessions \ expired THEN "exchange" ELSE "rejected")
  /\ UNCHANGED <<cookies, carried>> /\ Quiet

\* fetchAccessToken with the session's client, then verifyAccountCredentials.
\* The instance honours a code once, and only for the client it was issued to.
Exchange(r) ==
  \/ /\ Step(r, "exchange", "dropSession")
     /\ code[r].app = token[r] /\ code[r] \notin used
     /\ used' = used \cup {code[r]}
     /\ account' = [account EXCEPT ![r] = code[r].account]
     /\ UNCHANGED <<cookies, browser, token, code, answered, sessions, expired, grants, entries,
                    jobs>>
  \/ /\ Step(r, "exchange", "rejected")
     /\ code[r].app # token[r] \/ code[r] \in used
     /\ UNCHANGED <<cookies, carried>> /\ Quiet

\* Faulty variant: the session is deleted by its state, which no row has.
DropNoSession(r) ==
  /\ Step(r, "dropSession", "answerCallback")
  /\ UNCHANGED <<cookies, carried>> /\ Quiet

DropSession(r) ==
  /\ Step(r, "dropSession", "answerCallback")
  /\ sessions' = sessions \ {token[r]}
  /\ UNCHANGED <<cookies, carried, expired, grants, used, entries, jobs>>

\* Faulty variant: the session token goes into the user cookie.
AnswerWithToken(r) ==
  /\ Step(r, "answerCallback", "ok")
  /\ sessionCookie' = [sessionCookie EXCEPT ![browser[r]] = None]
  /\ userCookie' = [userCookie EXCEPT ![browser[r]] = token[r]]
  /\ UNCHANGED carried /\ Quiet

AnswerCallback(r) ==
  /\ Step(r, "answerCallback", "ok")
  /\ sessionCookie' = [sessionCookie EXCEPT ![browser[r]] = None]
  /\ userCookie' = [userCookie EXCEPT ![browser[r]] = account[r]]
  /\ UNCHANGED carried /\ Quiet

\* Fifteen minutes pass, for the row and for the cookie.
Expire(t) ==
  /\ t \in sessions \ expired
  /\ expired' = expired \cup {t}
  /\ UNCHANGED <<pc, cookies, carried, sessions, grants, used, entries, jobs>>

ExpireCookie(b) ==
  /\ sessionCookie[b] # None
  /\ sessionCookie' = [sessionCookie EXCEPT ![b] = None]
  /\ UNCHANGED <<pc, userCookie, carried>> /\ Quiet

\* POST /guestbook/logout: the answer removes both cookies.
Logout(r, b) ==
  /\ Arrive(r, b, "ok")
  /\ sessionCookie' = [sessionCookie EXCEPT ![b] = None]
  /\ userCookie' = [userCookie EXCEPT ![b] = None]
  /\ UNCHANGED <<token, code, account, answered>> /\ Quiet

-----------------------------------------------------------------------------
(* POST /guestbook/sign, and notifyGuestbookSign.                          *)

\* Without a user, or with profanity, the request ends at once.
Sign(r, b) ==
  /\ \/ userCookie[b] # None /\ Arrive(r, b, "checkSigned")
     \/ Arrive(r, b, "rejected")
  /\ account' = [account EXCEPT ![r] = userCookie[b]]
  /\ answered' = [answered EXCEPT ![r] = {e \in entries : pc[e] = "ok"}]
  /\ UNCHANGED <<cookies, token, code>> /\ Quiet

\* Faulty variant: the bare username is looked for; rows hold user@instance.
EntriesOfBareName(a) == {}

\* hasUserSigned.
EntriesOf(a) == {e \in entries : account[e] = a}

CheckSigned(r) ==
  /\ Step(r, "checkSigned", IF EntriesOf(account[r]) = {} THEN "insertEntry" ELSE "rejected")
  /\ UNCHANGED <<cookies, carried>> /\ Quiet

\* Faulty variant: the job is queued first, and the insert may fail.
NotifyThenInsert(r) ==
  /\ \/ Step(r, "insertEntry", "answerSign") /\ entries' = entries \cup {r}
     \/ Step(r, "insertEntry", "failed") /\ UNCHANGED entries
  /\ Queue!Send(r)
  /\ UNCHANGED <<cookies, carried, oauth>>

InsertEntry(r) ==
  /\ Step(r, "insertEntry", "enqueue")
  /\ entries' = entries \cup {r}
  /\ UNCHANGED <<cookies, carried, oauth, jobs>>

\* Faulty variant: a send that fails fails the request.
EnqueueOrReject(r) ==
  /\ \/ Step(r, "enqueue", "answerSign") /\ Queue!Send(r)
     \/ Step(r, "enqueue", "rejected") /\ UNCHANGED jobs
  /\ UNCHANGED <<cookies, carried, oauth, entries>>

\* A send that fails is logged, and the signature stands.
Enqueue(r) ==
  /\ Step(r, "enqueue", "answerSign")
  /\ UNCHANGED <<cookies, carried, oauth, entries>>
  /\ Queue!Send(r) \/ UNCHANGED jobs

AnswerSign(r) ==
  /\ Step(r, "answerSign", "ok")
  /\ UNCHANGED <<cookies, carried>> /\ Quiet

-----------------------------------------------------------------------------
Arrivals(r) ==
  \/ \E b \in Browser : Initiate(r, b) \/ Sign(r, b) \/ Logout(r, b)
  \/ \E g \in grants : Callback(r, g)

Serve(r) ==
  \/ OpenSession(r) \/ AnswerInitiate(r)
  \/ FindSession(r) \/ Exchange(r) \/ DropSession(r) \/ AnswerCallback(r)
  \/ CheckSigned(r) \/ InsertEntry(r) \/ Enqueue(r) \/ AnswerSign(r)
  \/ Fail(r)

Environment ==
  \/ \E r \in Request, a \in Account : Authorize(r, a)
  \/ \E t \in Request : Expire(t)
  \/ \E b \in Browser : ExpireCookie(b)

Drain == Queue!Work /\ UNCHANGED local

Next == \/ \E r \in Request : Arrivals(r) \/ Serve(r)
        \/ Environment
        \/ Drain

Spec == Init /\ [][Next]_vars

-----------------------------------------------------------------------------
\* Once a signature has been acknowledged, no later request adds another
\* for the account: only signatures in flight together can (signGuestbook).
LaterSignsRefused ==
  \A e \in entries : \A f \in answered[e] : account[f] # account[e]

\* An alert is about a signature that is in the table (notifyGuestbookSign).
AlertedIsSigned == Queue!Sent \subseteq entries

\* A sign-in that set the user cookie leaves no session to be used again.
SessionsAreSpent == \A r \in Request : pc[r] = "ok" /\ token[r] # None => token[r] \notin sessions

\* A signature stands or falls with its row, whatever happens to its job: an
\* acknowledged signing is in the table, a refused one is not.
AnswerMatchesRow ==
  \A r \in Request : /\ pc[r] = "ok" /\ account[r] # None /\ token[r] = None => r \in entries
                     /\ pc[r] = "rejected" => r \notin entries

\* signGuestbook: "You have already signed the guestbook".
OneEntryPerAccount == \A e, f \in entries : account[e] = account[f] => e = f

=============================================================================
