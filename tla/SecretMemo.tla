----------------------------- MODULE SecretMemo -----------------------------
(***************************************************************************)
(* The secrets of an isolate, packages/utils/src/config.ts: every request  *)
(* of every worker first awaits readCloudflareEnv, which reads two secrets *)
(* of the Secrets Store together, each through a map that keeps the        *)
(* promise of the read.  The requests of an isolate share one read; a read *)
(* that fails is taken out of the map before anyone who awaited it goes    *)
(* on, since that reaction was attached first.                             *)
(***************************************************************************)
EXTENDS Naturals, Sequences

CONSTANTS
  Caller,   \* requests that may await the secrets
  Secret,   \* the bindings: TOM_SECRETS and AXIOM_TOKEN
  MaxReads  \* bound: reads of a binding

VARIABLES
  reads,  \* the reads of each binding so far, by outcome
  memo,   \* the read the map holds; 0: none
  joined  \* the reads a caller awaits; 0: none

NotJoined == [s \in Secret |-> 0]

MemoTypeOK ==
  \A s \in Secret :
    /\ \A i \in DOMAIN reads[s] : reads[s][i] \in {"pending", "ok", "failed", "lost"}
    /\ memo[s] \in 0 .. Len(reads[s])
    /\ \A c \in Caller : joined[c][s] \in 0 .. Len(reads[s])

MemoInit ==
  /\ reads = [s \in Secret |-> <<>>]
  /\ memo = NotJoined
  /\ joined = [c \in Caller |-> NotJoined]

\* readCloudflareEnv up to its await: the read in the map, or a new one.
Join(c) ==
  LET fresh == {s \in Secret : memo[s] = 0} IN
  /\ reads' = [s \in Secret |-> IF s \in fresh THEN Append(reads[s], "pending") ELSE reads[s]]
  /\ memo' = [s \in Secret |-> IF s \in fresh THEN Len(reads'[s]) ELSE memo[s]]
  /\ joined' = [joined EXCEPT ![c] = memo']

\* Promise.all: both secrets are there, or the first failure is thrown.
HasSecrets(c) == \A s \in Secret : joined[c][s] # 0 /\ reads[s][joined[c][s]] = "ok"
ReadFailed(c) == \E s \in Secret : joined[c][s] # 0 /\ reads[s][joined[c][s]] = "failed"

Leave(c) == joined' = [joined EXCEPT ![c] = NotJoined] /\ UNCHANGED <<reads, memo>>

Pending(s) == {i \in DOMAIN reads[s] : reads[s][i] = "pending"}
Room == \A s \in Secret : Len(reads[s]) < MaxReads

ReadEnds(s, i, outcome) ==
  /\ i \in Pending(s)
  /\ reads' = [reads EXCEPT ![s][i] = outcome]
  /\ UNCHANGED joined

ReadSucceeds(s, i) == ReadEnds(s, i, "ok") /\ UNCHANGED memo

\* Faulty variant of ReadFails: the failed promise stays in the map.
FailureKept(s, i) == Room /\ ReadEnds(s, i, "failed") /\ UNCHANGED memo

\* A binding that throws, or a bundle that does not decode.
ReadFails(s, i) ==
  /\ Room
  /\ ReadEnds(s, i, "failed")
  /\ memo' = [memo EXCEPT ![s] = IF @ = i THEN 0 ELSE @]

\* The isolate goes, and what it remembered.
Forget ==
  /\ Room
  /\ reads' = [s \in Secret |-> [i \in DOMAIN reads[s] |->
                 IF reads[s][i] = "pending" THEN "lost" ELSE reads[s][i]]]
  /\ memo' = NotJoined
  /\ joined' = [c \in Caller |-> NotJoined]

\* The requests of an isolate cost one read of a secret between them, and a
\* failed read is not replayed to a request that comes after it: what is in
\* flight is what the map holds, and what the map holds has not failed.
\* (readTomSecrets, resolveSecretValue; the comment at config.ts:81)
OneReadForAll ==
  \A s \in Secret :
    /\ Pending(s) \subseteq {memo[s]}
    /\ memo[s] # 0 => reads[s][memo[s]] \in {"pending", "ok"}

=============================================================================
