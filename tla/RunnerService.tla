--------------------------- MODULE RunnerService ----------------------------
(***************************************************************************)
(* The ephemeral GitHub runners, infra/runner/src/index.ts and the image's *)
(* run-actions-runner.sh.  POST /runners mints a registration token,       *)
(* starts the runner in a sandbox of its own and answers once the runner   *)
(* listens for jobs; if anything fails the sandbox is destroyed.  The      *)
(* runner takes one job; when its script ends, a trap calls DELETE         *)
(* /runners/<id> back, a few times if need be, and the sandbox is          *)
(* destroyed.  Every request awaits the isolate's secrets (SecretMemo).    *)
(* A sandbox is kept alive until it is destroyed, so one nobody destroys   *)
(* holds one of the few instances for good.                                *)
(***************************************************************************)
EXTENDS Naturals, Sequences, FiniteSets

CONSTANTS
  Post,          \* POST requests; each has a sandbox id of its own
  Secret,        \* the secrets a request awaits
  MaxInstances,  \* maxInstances of the container
  Attempts,      \* of the callback: curl's first try and its --retry
  MaxReads,      \* bound: reads of a secret
  MaxCrashes     \* bound: isolates that die

ASSUME RunnerAssumption ==
  /\ MaxInstances \in Nat \ {0} /\ Attempts \in Nat \ {0}
  /\ MaxReads \in Nat \ {0} /\ MaxCrashes \in Nat

VARIABLES
  reads, memo, joined,  \* the secrets, see SecretMemo
  pc,      \* where startRunner is for each POST, then its outcome
  box,     \* the sandbox of each POST
  logged,  \* sandboxes whose runner has logged "Listening for Jobs"
  clean,   \* where the handler of the sandbox's DELETE is
  tries,   \* DELETEs its trap has sent
  kept,    \* history: sandboxes that a failed start failed to destroy
  crashes

memoVars == <<reads, memo, joined>>
postVars == <<pc, kept>>
boxVars == <<box, logged>>
cleanVars == <<clean, tries>>
vars == <<memoVars, postVars, boxVars, cleanVars, crashes>>

Memo == INSTANCE SecretMemo WITH Caller <- {"post", "delete"} \X Post

Active == {"secrets", "token", "starting", "watching", "destroying"}
Alive == {"empty", "booting", "listening", "job", "exited", "silent"}

TypeOK ==
  /\ Memo!MemoTypeOK
  /\ pc \in [Post -> Active \cup {"idle", "accepted", "refused", "dead"}]
  /\ box \in [Post -> Alive \cup {"none", "asked", "gone"}]
  /\ clean \in [Post -> {"idle", "secrets", "destroying"}]
  /\ tries \in [Post -> 0 .. Attempts]
  /\ logged \subseteq Post /\ kept \subseteq Post
  /\ crashes \in 0 .. MaxCrashes
  /\ Cardinality({r \in Post : box[r] \in Alive}) <= MaxInstances

Init ==
  /\ Memo!MemoInit
  /\ pc = [r \in Post |-> "idle"]
  /\ box = [r \in Post |-> "none"]
  /\ clean = [r \in Post |-> "idle"]
  /\ tries = [r \in Post |-> 0]
  /\ logged = {} /\ kept = {} /\ crashes = 0

Pc(r, next) == pc' = [pc EXCEPT ![r] = next]
Box(r, next) == box' = [box EXCEPT ![r] = next]
Clean(r, next) == clean' = [clean EXCEPT ![r] = next]

(* ---------------------------- POST /runners --------------------------- *)

Arrive(r) ==
  /\ pc[r] = "idle" /\ Pc(r, "secrets")
  /\ Memo!Join(<<"post", r>>)
  /\ UNCHANGED <<kept, boxVars, cleanVars, crashes>>

\* The secrets are there, and the caller is who may start a runner; or not.
Authorized(r) ==
  /\ pc[r] = "secrets"
  /\ \/ Memo!HasSecrets(<<"post", r>>) /\ Pc(r, "token")
     \/ Memo!HasSecrets(<<"post", r>>) /\ Pc(r, "refused")
     \/ Memo!ReadFailed(<<"post", r>>) /\ Pc(r, "refused")
  /\ Memo!Leave(<<"post", r>>)
  /\ UNCHANGED <<kept, boxVars, cleanVars, crashes>>

\* createRegistrationToken; with the token, startProcess is called.
Registered(r) ==
  /\ pc[r] = "token"
  /\ \/ Pc(r, "starting") /\ Box(r, "asked")
     \/ Pc(r, "refused") /\ UNCHANGED box
  /\ UNCHANGED <<memoVars, kept, logged, cleanVars, crashes>>

Started(r) ==
  /\ pc[r] = "starting" /\ box[r] \notin {"asked", "empty"}
  /\ Pc(r, "watching")
  /\ UNCHANGED <<memoVars, kept, boxVars, cleanVars, crashes>>

\* waitForLog sees what the process has logged.
Ready(r) ==
  /\ pc[r] = "watching" /\ r \in logged
  /\ Pc(r, "accepted")
  /\ UNCHANGED <<memoVars, kept, boxVars, cleanVars, crashes>>

\* Faulty variant of StartFails: a failed startProcess is not caught.
StartFailsOutside(r) ==
  /\ \/ pc[r] = "starting" /\ Pc(r, "refused")
     \/ pc[r] = "watching" /\ Pc(r, "destroying")
  /\ UNCHANGED <<memoVars, kept, boxVars, cleanVars, crashes>>

\* startProcess fails, after any part of its work; waitForLog fails, or the
\* 120 seconds it waits are over.
StartFails(r) ==
  /\ pc[r] \in {"starting", "watching"}
  /\ Pc(r, "destroying")
  /\ UNCHANGED <<memoVars, kept, boxVars, cleanVars, crashes>>

\* sandbox.destroy; its own failure is dropped and the first one answered.
StartUndone(r) ==
  /\ pc[r] = "destroying" /\ Pc(r, "refused")
  /\ \/ Box(r, "gone") /\ UNCHANGED kept
     \/ kept' = kept \cup {r} /\ UNCHANGED box
  /\ UNCHANGED <<memoVars, logged, cleanVars, crashes>>

\* The client hangs up and its request is cancelled.
HangUp(r) ==
  /\ pc[r] \in Active
  /\ Pc(r, "dead") /\ Memo!Leave(<<"post", r>>)
  /\ UNCHANGED <<kept, boxVars, cleanVars, crashes>>

PostStep(r) == Authorized(r) \/ Registered(r) \/ Started(r) \/ Ready(r)
               \/ StartFails(r) \/ StartUndone(r)

(* ------------------------ The sandbox (external) ---------------------- *)

\* startProcess brings an instance up, if one is free, then the process; it
\* goes on when the request that called it is over.
InstanceStarts(r) ==
  /\ box[r] = "asked"
  /\ Cardinality({q \in Post : box[q] \in Alive}) < MaxInstances
  /\ Box(r, "empty")
  /\ UNCHANGED <<memoVars, postVars, logged, cleanVars, crashes>>

ProcessStarts(r) ==
  /\ box[r] = "empty" /\ Box(r, "booting")
  /\ UNCHANGED <<memoVars, postVars, logged, cleanVars, crashes>>

Listens(r) ==
  /\ box[r] = "booting" /\ Box(r, "listening")
  /\ logged' = logged \cup {r}
  /\ UNCHANGED <<memoVars, postVars, cleanVars, crashes>>

TakesJob(r) ==
  /\ box[r] = "listening" /\ Box(r, "job")
  /\ UNCHANGED <<memoVars, postVars, logged, cleanVars, crashes>>

\* GitHub takes the runner off, or it fails while it waits.
Quits(r) ==
  /\ box[r] = "listening" /\ Box(r, "exited")
  /\ UNCHANGED <<memoVars, postVars, logged, cleanVars, crashes>>

(* ----------------------- run-actions-runner.sh ------------------------ *)

\* Faulty variant of Exits: the script is replaced by run.sh, trap and all.
ExitsWithoutTrap(r) ==
  /\ box[r] \in {"booting", "job"} /\ Box(r, "empty")
  /\ UNCHANGED <<memoVars, postVars, logged, cleanVars, crashes>>

\* Docker is unavailable, config.sh fails, or the one job is done.
Exits(r) ==
  /\ box[r] \in {"booting", "job"} /\ Box(r, "exited")
  /\ UNCHANGED <<memoVars, postVars, logged, cleanVars, crashes>>

\* Faulty variant of CallsBack: a try too many.
OneMoreTry(r) ==
  /\ box[r] = "exited" /\ clean[r] = "idle" /\ tries[r] <= Attempts
  /\ tries' = [tries EXCEPT ![r] = @ + 1]
  /\ Clean(r, "secrets") /\ Memo!Join(<<"delete", r>>)
  /\ UNCHANGED <<postVars, boxVars, crashes>>

\* cleanup: one more DELETE while there are tries left.
CallsBack(r) ==
  /\ box[r] = "exited" /\ clean[r] = "idle" /\ tries[r] < Attempts
  /\ tries' = [tries EXCEPT ![r] = @ + 1]
  /\ Clean(r, "secrets") /\ Memo!Join(<<"delete", r>>)
  /\ UNCHANGED <<postVars, boxVars, crashes>>

GivesUp(r) ==
  /\ box[r] = "exited" /\ clean[r] = "idle" /\ tries[r] = Attempts
  /\ Box(r, "silent")
  /\ UNCHANGED <<memoVars, postVars, logged, cleanVars, crashes>>

(* ------------------------ DELETE /runners/<id> ------------------------ *)

CleanupAuthorized(r) ==
  /\ clean[r] = "secrets" /\ Memo!HasSecrets(<<"delete", r>>)
  /\ Clean(r, "destroying") /\ Memo!Leave(<<"delete", r>>)
  /\ UNCHANGED <<postVars, boxVars, tries, crashes>>

\* destroyRunner
CleanupDone(r) ==
  /\ clean[r] = "destroying"
  /\ Clean(r, "idle") /\ Box(r, "gone")
  /\ UNCHANGED <<memoVars, postVars, logged, tries, crashes>>

\* The secrets cannot be read, destroy fails, or curl's --max-time is over.
CleanupFails(r) ==
  /\ clean[r] # "idle"
  /\ Clean(r, "idle") /\ Memo!Leave(<<"delete", r>>)
  /\ UNCHANGED <<postVars, boxVars, tries, crashes>>

BoxStep(r) == Exits(r) \/ CallsBack(r) \/ GivesUp(r)
CleanupStep(r) == CleanupAuthorized(r) \/ CleanupDone(r) \/ CleanupFails(r)

(* ----------------------------- The isolate ---------------------------- *)

SecretRead == \E s \in Secret, i \in 1 .. MaxReads :
                Memo!ReadSucceeds(s, i) \/ Memo!ReadFails(s, i)

IsolateDies ==
  /\ crashes < MaxCrashes /\ crashes' = crashes + 1
  /\ Memo!Forget
  /\ pc' = [r \in Post |-> IF pc[r] \in Active THEN "dead" ELSE pc[r]]
  /\ clean' = [r \in Post |-> "idle"]
  /\ UNCHANGED <<kept, boxVars, tries>>

Reading == SecretRead /\ UNCHANGED <<postVars, boxVars, cleanVars, crashes>>

Next ==
  \/ Reading \/ IsolateDies
  \/ \E r \in Post :
       \/ Arrive(r) \/ PostStep(r) \/ HangUp(r)
       \/ InstanceStarts(r) \/ ProcessStarts(r) \/ Listens(r) \/ TakesJob(r) \/ Quits(r)
       \/ BoxStep(r) \/ CleanupStep(r)

\* Calls between services answer or fail, a runner that has booted or has a
\* job comes to an end, and its trap runs.  Nothing makes a job arrive.
Spec == /\ Init /\ [][Next]_vars
        /\ WF_vars(Reading)
        /\ \A r \in Post : /\ WF_vars(PostStep(r))
                          /\ WF_vars(BoxStep(r))
                          /\ WF_vars(CleanupStep(r))

(* ----------------------------- Properties ----------------------------- *)

SharedRead == Memo!OneReadForAll

\* A start that is answered with an error has left no instance behind, and a
\* sandbox with nothing in it still has the request that will deal with it,
\* except where destroying it failed or the request died.  A start answered
\* with 202 did bring a runner to GitHub.  (startRunner, the comment at
\* index.ts:214)
NothingLeftBehind ==
  \A r \in Post :
    /\ pc[r] = "refused" => box[r] \in {"none", "gone"} \/ r \in kept
    /\ box[r] = "empty" => pc[r] \in Active \cup {"dead"} \/ r \in kept
    /\ pc[r] = "accepted" => r \in logged

\* The instances that stay taken for good: the callback was not heard in any
\* of its tries, or nothing ever ran in the sandbox and the request that had
\* asked for it died or failed to destroy it.
Stuck(r) ==
  \/ box[r] = "silent"
  \/ box[r] = "empty" /\ (pc[r] = "dead" \/ r \in kept)

\* An instance is given back in the end, or waits for a job, or is one of
\* those.  (the EXIT trap and its retries, destroyRunner)
InstancesEnd ==
  \A r \in Post :
    box[r] \in Alive ~> (box[r] \in {"gone", "listening"} \/ Stuck(r))

=============================================================================
