------------------------ MODULE RunnerServiceProofs ------------------------
(***************************************************************************)
(* Theorems about RunnerService, for any POST requests, secrets, instances *)
(* and tries: its type, SharedRead and NothingLeftBehind.  The secrets are *)
(* a layer of their own (MemoInv); the sandboxes are the other (BoxInv),   *)
(* and neither needs the other.                                            *)
(***************************************************************************)
EXTENDS RunnerService, SequenceTheorems, FiniteSetTheorems, TLAPS

Caller == {"post", "delete"} \X Post
Outcome == {"pending", "ok", "failed", "lost"}

\* What the map holds of one secret, m, agrees with its reads, q.
ReadsAgree(q, m) ==
  /\ m \in 0 .. Len(q)
  /\ \A i \in 1 .. Len(q) : q[i] = "pending" => i = m
  /\ m # 0 => q[m] \in {"pending", "ok"}

MemoInv ==
  /\ reads \in [Secret -> Seq(Outcome)]
  /\ memo \in [Secret -> Nat]
  /\ joined \in [Caller -> [Secret -> Nat]]
  /\ \A s \in Secret : /\ ReadsAgree(reads[s], memo[s])
                       /\ \A c \in Caller : joined[c][s] <= Len(reads[s])

LEMMA MemoGivesType == MemoInv => Memo!MemoTypeOK /\ SharedRead
<1> SUFFICES ASSUME MemoInv PROVE Memo!MemoTypeOK /\ SharedRead OBVIOUS
<1>1. ASSUME NEW s \in Secret
      PROVE  /\ \A i \in DOMAIN reads[s] : reads[s][i] \in Outcome
             /\ memo[s] \in 0 .. Len(reads[s])
             /\ \A c \in Caller : joined[c][s] \in 0 .. Len(reads[s])
             /\ Memo!Pending(s) \subseteq {memo[s]}
             /\ memo[s] # 0 => reads[s][memo[s]] \in {"pending", "ok"}
  <2>1. reads[s] \in Seq(Outcome) BY DEF MemoInv
  <2>2. /\ Len(reads[s]) \in Nat
        /\ reads[s] \in [1 .. Len(reads[s]) -> Outcome]
        /\ DOMAIN reads[s] = 1 .. Len(reads[s])
    BY <2>1, LenProperties
  <2>3. ReadsAgree(reads[s], memo[s]) BY DEF MemoInv
  <2>4. \A c \in Caller : joined[c][s] \in Nat /\ joined[c][s] <= Len(reads[s])
    BY DEF MemoInv
  <2> QED BY <2>2, <2>3, <2>4 DEF ReadsAgree, Memo!Pending
<1> QED BY <1>1 DEF Memo!MemoTypeOK, SharedRead, Memo!OneReadForAll, Outcome, Caller

LEMMA JoinKeeps == ASSUME MemoInv, NEW c \in Caller, Memo!Join(c) PROVE MemoInv'
<1>1. ASSUME NEW s \in Secret
      PROVE  /\ reads'[s] \in Seq(Outcome) /\ Len(reads'[s]) >= Len(reads[s])
             /\ memo'[s] \in Nat /\ ReadsAgree(reads'[s], memo'[s])
  <2>1. reads[s] \in Seq(Outcome) /\ Len(reads[s]) \in Nat /\ ReadsAgree(reads[s], memo[s])
    BY LenProperties DEF MemoInv
  <2>2. CASE memo[s] = 0
    <3>1. reads'[s] = Append(reads[s], "pending") BY <2>2 DEF Memo!Join
    <3>2. memo'[s] = Len(reads'[s]) BY <2>2 DEF Memo!Join
    <3>3. /\ reads'[s] \in Seq(Outcome) /\ Len(reads'[s]) = Len(reads[s]) + 1
          /\ \A i \in 1 .. Len(reads[s]) : reads'[s][i] = reads[s][i]
          /\ reads'[s][Len(reads[s]) + 1] = "pending"
      BY <2>1, <3>1, AppendProperties DEF Outcome
    <3>4. \A i \in 1 .. Len(reads[s]) : reads[s][i] # "pending"
      BY <2>1, <2>2 DEF ReadsAgree
    <3> QED BY <2>1, <3>2, <3>3, <3>4 DEF ReadsAgree
  <2>3. CASE memo[s] # 0
    <3>1. reads'[s] = reads[s] /\ memo'[s] = memo[s] BY <2>3 DEF Memo!Join
    <3> QED BY <2>1, <3>1 DEF ReadsAgree
  <2> QED BY <2>2, <2>3
<1>2. reads' \in [Secret -> Seq(Outcome)]
  <2>1. DOMAIN reads' = Secret /\ reads' = [s \in Secret |-> reads'[s]] BY DEF Memo!Join
  <2> QED BY <2>1, <1>1
<1>3. memo' \in [Secret -> Nat]
  <2>1. memo' = [s \in Secret |-> memo'[s]] BY DEF Memo!Join
  <2> QED BY <2>1, <1>1
<1>4. joined' = [joined EXCEPT ![c] = memo'] BY DEF Memo!Join
<1>5. joined' \in [Caller -> [Secret -> Nat]] BY <1>3, <1>4 DEF MemoInv
<1>6. ASSUME NEW s \in Secret, NEW d \in Caller PROVE joined'[d][s] <= Len(reads'[s])
  <2>1. Len(reads[s]) \in Nat /\ Len(reads'[s]) \in Nat /\ Len(reads'[s]) >= Len(reads[s])
    BY <1>1, LenProperties DEF MemoInv
  <2>2. CASE d = c
    <3>1. joined'[d][s] = memo'[s] BY <1>4, <2>2 DEF MemoInv
    <3> QED BY <1>1, <3>1 DEF ReadsAgree
  <2>3. CASE d # c
    <3>1. joined'[d][s] = joined[d][s] BY <1>4, <2>3 DEF MemoInv
    <3>2. joined[d][s] \in Nat /\ joined[d][s] <= Len(reads[s]) BY DEF MemoInv
    <3> QED BY <2>1, <3>1, <3>2
  <2> QED BY <2>2, <2>3
<1> QED BY <1>1, <1>2, <1>3, <1>5, <1>6 DEF MemoInv

LEMMA LeaveKeeps == ASSUME MemoInv, NEW c \in Caller, Memo!Leave(c) PROVE MemoInv'
<1>1. joined' = [joined EXCEPT ![c] = [s \in Secret |-> 0]] /\ reads' = reads /\ memo' = memo
  BY DEF Memo!Leave, Memo!NotJoined
<1>2. joined' \in [Caller -> [Secret -> Nat]] BY <1>1 DEF MemoInv
<1>3. ASSUME NEW s \in Secret, NEW d \in Caller PROVE joined'[d][s] <= Len(reads'[s])
  <2>1. Len(reads[s]) \in Nat BY LenProperties DEF MemoInv
  <2>2. joined'[d][s] = IF d = c THEN 0 ELSE joined[d][s] BY <1>1 DEF MemoInv
  <2>3. joined[d][s] \in Nat /\ joined[d][s] <= Len(reads[s]) BY DEF MemoInv
  <2> QED BY <1>1, <2>1, <2>2, <2>3
<1> QED BY <1>1, <1>2, <1>3 DEF MemoInv

\* A read that ends: its outcome is there, the others are as they were.
LEMMA EndedRead ==
  ASSUME MemoInv, NEW s \in Secret, NEW i, NEW outcome \in Outcome,
         Memo!ReadEnds(s, i, outcome)
  PROVE  /\ reads' \in [Secret -> Seq(Outcome)]
         /\ \A t \in Secret \ {s} : reads'[t] = reads[t]
         /\ \A t \in Secret : Len(reads'[t]) = Len(reads[t])
         /\ i \in 1 .. Len(reads[s]) /\ i = memo[s]
         /\ \A j \in 1 .. Len(reads[s]) : reads'[s][j] = IF j = i THEN outcome ELSE reads[s][j]
         /\ joined' = joined
<1>1. reads[s] \in Seq(Outcome) /\ ReadsAgree(reads[s], memo[s]) BY DEF MemoInv
<1>2. DOMAIN reads[s] = 1 .. Len(reads[s]) /\ Len(reads[s]) \in Nat BY <1>1, LenProperties
<1>3. i \in 1 .. Len(reads[s]) /\ i = memo[s]
  BY <1>1, <1>2 DEF Memo!ReadEnds, Memo!Pending, ReadsAgree
<1>4. reads' = [reads EXCEPT ![s] = [reads[s] EXCEPT ![i] = outcome]] BY DEF Memo!ReadEnds
<1>5. reads'[s] = [reads[s] EXCEPT ![i] = outcome] BY <1>4 DEF MemoInv
<1>6. \A t \in Secret \ {s} : reads'[t] = reads[t] BY <1>4 DEF MemoInv
<1>7. /\ reads'[s] \in Seq(Outcome) /\ Len(reads'[s]) = Len(reads[s])
      /\ \A j \in 1 .. Len(reads[s]) : reads'[s][j] = IF j = i THEN outcome ELSE reads[s][j]
  BY <1>1, <1>3, <1>5, ExceptSeq
<1>8. reads' \in [Secret -> Seq(Outcome)] BY <1>4, <1>5, <1>7 DEF MemoInv
<1> QED BY <1>3, <1>6, <1>7, <1>8 DEF Memo!ReadEnds

LEMMA ReadSucceedsKeeps ==
  ASSUME MemoInv, NEW s \in Secret, NEW i, Memo!ReadSucceeds(s, i)
  PROVE  MemoInv'
<1>1. Memo!ReadEnds(s, i, "ok") /\ memo' = memo BY DEF Memo!ReadSucceeds
<1>2. /\ reads' \in [Secret -> Seq(Outcome)]
      /\ \A t \in Secret \ {s} : reads'[t] = reads[t]
      /\ \A t \in Secret : Len(reads'[t]) = Len(reads[t])
      /\ i \in 1 .. Len(reads[s]) /\ i = memo[s]
      /\ \A j \in 1 .. Len(reads[s]) : reads'[s][j] = IF j = i THEN "ok" ELSE reads[s][j]
      /\ joined' = joined
  BY <1>1, EndedRead DEF Outcome
<1>3. ASSUME NEW t \in Secret PROVE ReadsAgree(reads'[t], memo'[t])
  <2>1. ReadsAgree(reads[t], memo[t]) BY DEF MemoInv
  <2>2. CASE t = s BY <1>1, <1>2, <2>1, <2>2 DEF ReadsAgree
  <2>3. CASE t # s BY <1>1, <1>2, <2>1, <2>3
  <2> QED BY <2>2, <2>3
<1> QED BY <1>1, <1>2, <1>3 DEF MemoInv

LEMMA ReadFailsKeeps ==
  ASSUME MemoInv, NEW s \in Secret, NEW i, Memo!ReadFails(s, i)
  PROVE  MemoInv'
<1>1. /\ Memo!ReadEnds(s, i, "failed")
      /\ memo' = [memo EXCEPT ![s] = IF @ = i THEN 0 ELSE @]
  BY DEF Memo!ReadFails
<1>2. /\ reads' \in [Secret -> Seq(Outcome)]
      /\ \A t \in Secret \ {s} : reads'[t] = reads[t]
      /\ \A t \in Secret : Len(reads'[t]) = Len(reads[t])
      /\ i \in 1 .. Len(reads[s]) /\ i = memo[s]
      /\ \A j \in 1 .. Len(reads[s]) : reads'[s][j] = IF j = i THEN "failed" ELSE reads[s][j]
      /\ joined' = joined
  BY <1>1, EndedRead DEF Outcome
<1>3. memo' \in [Secret -> Nat] /\ memo'[s] = 0 /\ \A t \in Secret \ {s} : memo'[t] = memo[t]
  BY <1>1, <1>2 DEF MemoInv
<1>4. ASSUME NEW t \in Secret PROVE ReadsAgree(reads'[t], memo'[t])
  <2>1. ReadsAgree(reads[t], memo[t]) BY DEF MemoInv
  <2>2. CASE t = s
    <3>1. Len(reads[s]) \in Nat BY LenProperties DEF MemoInv
    <3> QED BY <1>2, <1>3, <2>1, <2>2, <3>1 DEF ReadsAgree
  <2>3. CASE t # s BY <1>2, <1>3, <2>1, <2>3
  <2> QED BY <2>2, <2>3
<1> QED BY <1>2, <1>3, <1>4 DEF MemoInv

LEMMA ForgetKeeps == ASSUME MemoInv, Memo!Forget PROVE MemoInv'
<1> DEFINE lost(s, i) == IF reads[s][i] = "pending" THEN "lost" ELSE reads[s][i]
<1>1. /\ reads' = [s \in Secret |-> [i \in DOMAIN reads[s] |-> lost(s, i)]]
      /\ memo' = [s \in Secret |-> 0]
      /\ joined' = [c \in Caller |-> [s \in Secret |-> 0]]
  BY DEF Memo!Forget, Memo!NotJoined, Caller
<1>2. ASSUME NEW s \in Secret
      PROVE  /\ reads'[s] \in Seq(Outcome) /\ Len(reads'[s]) \in Nat
             /\ \A i \in 1 .. Len(reads'[s]) : reads'[s][i] # "pending"
  <2>1. /\ Len(reads[s]) \in Nat /\ DOMAIN reads[s] = 1 .. Len(reads[s])
        /\ \A i \in 1 .. Len(reads[s]) : reads[s][i] \in Outcome
    BY LenProperties, ElementOfSeq DEF MemoInv
  <2>2. \A i \in 1 .. Len(reads[s]) : lost(s, i) \in Outcome \ {"pending"}
    BY <2>1 DEF Outcome
  <2>3. reads'[s] = [i \in 1 .. Len(reads[s]) |-> lost(s, i)] BY <1>1, <2>1
  <2> HIDE DEF lost
  <2>4. reads'[s] \in Seq(Outcome) BY <2>1, <2>2, <2>3, IsASeq
  <2>5. Len(reads'[s]) = Len(reads[s]) BY <2>1, <2>3, <2>4
  <2> QED BY <2>1, <2>2, <2>3, <2>4, <2>5
<1>3. reads' \in [Secret -> Seq(Outcome)] BY <1>1, <1>2
<1> QED BY <1>1, <1>2, <1>3 DEF MemoInv, ReadsAgree

-----------------------------------------------------------------------------
(* The sandboxes.                                                          *)

Typed ==
  /\ pc \in [Post -> Active \cup {"idle", "accepted", "refused", "dead"}]
  /\ box \in [Post -> Alive \cup {"none", "asked", "gone"}]
  /\ clean \in [Post -> {"idle", "secrets", "destroying"}]
  /\ tries \in [Post -> 0 .. Attempts]
  /\ logged \subseteq Post /\ kept \subseteq Post
  /\ crashes \in 0 .. MaxCrashes

\* What must be known of one sandbox for NothingLeftBehind to be inductive:
\* nothing happens to it before its request asks for it, and a runner that
\* has logged is past its start.
Accounted(r) ==
  /\ pc[r] \in {"idle", "secrets", "token"} => box[r] = "none" /\ clean[r] = "idle"
  /\ r \in logged => box[r] \in {"listening", "job", "exited", "silent", "gone"}
  /\ pc[r] = "refused" => box[r] \in {"none", "gone"} \/ r \in kept
  /\ box[r] = "empty" => pc[r] \in Active \cup {"dead"} \/ r \in kept
  /\ pc[r] = "accepted" => r \in logged

AliveBoxes == {r \in Post : box[r] \in Alive}
WithinLimit == IsFiniteSet(AliveBoxes) /\ Cardinality(AliveBoxes) <= MaxInstances

BoxInv == Typed /\ WithinLimit /\ \A r \in Post : Accounted(r)

\* A step that concerns one sandbox and leaves it accounted for.
Concerns(r) ==
  /\ Typed'
  /\ \A q \in Post \ {r} : /\ pc'[q] = pc[q] /\ box'[q] = box[q] /\ clean'[q] = clean[q]
                           /\ q \in logged' <=> q \in logged
                           /\ q \in kept' <=> q \in kept
  /\ Accounted(r)'

LEMMA FewerAlive ==
  ASSUME BoxInv, AliveBoxes' \subseteq AliveBoxes
  PROVE  WithinLimit'
<1>1. IsFiniteSet(AliveBoxes') /\ Cardinality(AliveBoxes') <= Cardinality(AliveBoxes)
  BY FS_Subset DEF BoxInv, WithinLimit
<1>2. Cardinality(AliveBoxes) \in Nat /\ Cardinality(AliveBoxes') \in Nat
  BY <1>1, FS_CardinalityType DEF BoxInv, WithinLimit
<1> QED BY <1>1, <1>2, RunnerAssumption DEF BoxInv, WithinLimit

LEMMA ConcernsAccounts ==
  ASSUME BoxInv, NEW r \in Post, Concerns(r)
  PROVE  Typed' /\ \A q \in Post : Accounted(q)'
<1>1. ASSUME NEW q \in Post \ {r} PROVE Accounted(q)'
  BY <1>1 DEF BoxInv, Accounted, Concerns
<1> QED BY <1>1 DEF Concerns

LEMMA ConcernsKeeps ==
  ASSUME BoxInv, NEW r \in Post, Concerns(r), box'[r] \in Alive => box[r] \in Alive
  PROVE  BoxInv'
<1>1. AliveBoxes' \subseteq AliveBoxes BY DEF Concerns, AliveBoxes
<1> QED BY <1>1, FewerAlive, ConcernsAccounts DEF BoxInv

LEMMA PostKeeps ==
  ASSUME BoxInv, NEW r \in Post, Arrive(r) \/ PostStep(r) \/ HangUp(r)
  PROVE  BoxInv'
<1> USE DEF BoxInv, Typed, Accounted, Concerns, Active, Alive, Pc, Box, boxVars, cleanVars
<1>1. CASE Arrive(r)
  <2>1. Concerns(r) BY <1>1 DEF Arrive
  <2> QED BY <1>1, <2>1, ConcernsKeeps DEF Arrive
<1>2. CASE Authorized(r)
  <2>1. Concerns(r) BY <1>2 DEF Authorized
  <2> QED BY <1>2, <2>1, ConcernsKeeps DEF Authorized
<1>3. CASE Registered(r)
  <2>1. Concerns(r) BY <1>3 DEF Registered
  <2> QED BY <1>3, <2>1, ConcernsKeeps DEF Registered
<1>4. CASE Started(r)
  <2>1. Concerns(r) BY <1>4 DEF Started
  <2> QED BY <1>4, <2>1, ConcernsKeeps DEF Started
<1>5. CASE Ready(r)
  <2>1. Concerns(r) BY <1>5 DEF Ready
  <2> QED BY <1>5, <2>1, ConcernsKeeps DEF Ready
<1>6. CASE StartFails(r)
  <2>1. Concerns(r) BY <1>6 DEF StartFails
  <2> QED BY <1>6, <2>1, ConcernsKeeps DEF StartFails
<1>7. CASE StartUndone(r)
  <2>1. Concerns(r) BY <1>7 DEF StartUndone
  <2>2. box'[r] \in {box[r], "gone"} BY <1>7 DEF StartUndone
  <2> QED BY <2>1, <2>2, ConcernsKeeps
<1>8. CASE HangUp(r)
  <2>1. Concerns(r) BY <1>8 DEF HangUp
  <2> QED BY <1>8, <2>1, ConcernsKeeps DEF HangUp
<1> QED BY <1>1, <1>2, <1>3, <1>4, <1>5, <1>6, <1>7, <1>8 DEF PostStep

LEMMA InstanceStartsKeeps ==
  ASSUME BoxInv, NEW r \in Post, InstanceStarts(r)
  PROVE  BoxInv'
<1>1. Concerns(r)
  BY DEF InstanceStarts, BoxInv, Typed, Accounted, Concerns, Active, Alive, Box,
         postVars, cleanVars
<1>2. AliveBoxes' = AliveBoxes \cup {r}
  BY DEF InstanceStarts, BoxInv, Typed, AliveBoxes, Alive, Box
<1>3. IsFiniteSet(AliveBoxes) /\ Cardinality(AliveBoxes) \in Nat
  BY FS_CardinalityType DEF BoxInv, WithinLimit
<1>4. Cardinality(AliveBoxes) < MaxInstances BY DEF InstanceStarts, AliveBoxes
<1>5. /\ IsFiniteSet(AliveBoxes \cup {r})
      /\ Cardinality(AliveBoxes \cup {r}) \in {Cardinality(AliveBoxes), Cardinality(AliveBoxes) + 1}
  BY <1>3, FS_AddElement
<1>6. WithinLimit' BY <1>2, <1>3, <1>4, <1>5, RunnerAssumption DEF WithinLimit
<1> QED BY <1>1, <1>6, ConcernsAccounts DEF BoxInv

LEMMA SandboxKeeps ==
  ASSUME BoxInv, NEW r \in Post,
         ProcessStarts(r) \/ Listens(r) \/ TakesJob(r) \/ Quits(r) \/ BoxStep(r)
  PROVE  BoxInv'
<1> USE DEF BoxInv, Typed, Accounted, Concerns, Active, Alive, Box, Clean, postVars,
            boxVars, cleanVars
<1>1. CASE ProcessStarts(r)
  <2>1. Concerns(r) BY <1>1 DEF ProcessStarts
  <2> QED BY <1>1, <2>1, ConcernsKeeps DEF ProcessStarts
<1>2. CASE Listens(r)
  <2>1. Concerns(r) BY <1>2 DEF Listens
  <2> QED BY <1>2, <2>1, ConcernsKeeps DEF Listens
<1>3. CASE TakesJob(r)
  <2>1. Concerns(r) BY <1>3 DEF TakesJob
  <2> QED BY <1>3, <2>1, ConcernsKeeps DEF TakesJob
<1>4. CASE Quits(r)
  <2>1. Concerns(r) BY <1>4 DEF Quits
  <2> QED BY <1>4, <2>1, ConcernsKeeps DEF Quits
<1>5. CASE Exits(r)
  <2>1. Concerns(r) BY <1>5 DEF Exits
  <2> QED BY <1>5, <2>1, ConcernsKeeps DEF Exits
<1>6. CASE CallsBack(r)
  <2>1. Concerns(r) BY <1>6, RunnerAssumption DEF CallsBack
  <2> QED BY <1>6, <2>1, ConcernsKeeps DEF CallsBack
<1>7. CASE GivesUp(r)
  <2>1. Concerns(r) BY <1>7 DEF GivesUp
  <2> QED BY <1>7, <2>1, ConcernsKeeps DEF GivesUp
<1> QED BY <1>1, <1>2, <1>3, <1>4, <1>5, <1>6, <1>7 DEF BoxStep

LEMMA CleanupKeeps ==
  ASSUME BoxInv, NEW r \in Post, CleanupStep(r)
  PROVE  BoxInv'
<1> USE DEF BoxInv, Typed, Accounted, Concerns, Active, Alive, Box, Clean, postVars, boxVars
<1>1. CASE CleanupAuthorized(r)
  <2>1. Concerns(r) BY <1>1 DEF CleanupAuthorized
  <2> QED BY <1>1, <2>1, ConcernsKeeps DEF CleanupAuthorized
<1>2. CASE CleanupDone(r)
  <2>1. Concerns(r) BY <1>2 DEF CleanupDone
  <2> QED BY <1>2, <2>1, ConcernsKeeps DEF CleanupDone
<1>3. CASE CleanupFails(r)
  <2>1. Concerns(r) BY <1>3 DEF CleanupFails
  <2> QED BY <1>3, <2>1, ConcernsKeeps DEF CleanupFails
<1> QED BY <1>1, <1>2, <1>3 DEF CleanupStep

LEMMA IsolateDiesKeeps == ASSUME BoxInv, IsolateDies PROVE BoxInv'
<1>1. AliveBoxes' \subseteq AliveBoxes BY DEF IsolateDies, boxVars, AliveBoxes
<1>2. Typed'
  BY RunnerAssumption DEF IsolateDies, boxVars, BoxInv, Typed, Active
<1>3. ASSUME NEW r \in Post PROVE Accounted(r)'
  BY <1>3 DEF IsolateDies, boxVars, BoxInv, Typed, Accounted, Active
<1> QED BY <1>1, <1>2, <1>3, FewerAlive DEF BoxInv

-----------------------------------------------------------------------------
LEMMA InitialState == Init => MemoInv /\ BoxInv
<1> SUFFICES ASSUME Init PROVE MemoInv /\ BoxInv OBVIOUS
<1>1. MemoInv
  <2>1. <<>> \in Seq(Outcome) /\ Len(<<>>) = 0 BY EmptySeq
  <2>2. /\ reads = [s \in Secret |-> <<>>] /\ memo = [s \in Secret |-> 0]
        /\ joined = [c \in Caller |-> [s \in Secret |-> 0]]
    BY DEF Init, Memo!MemoInit, Memo!NotJoined, Caller
  <2> QED BY <2>1, <2>2 DEF MemoInv, ReadsAgree
<1>2. AliveBoxes = {} BY DEF Init, AliveBoxes, Alive
<1>3. WithinLimit BY <1>2, FS_EmptySet, RunnerAssumption DEF WithinLimit
<1>4. Typed BY RunnerAssumption DEF Init, Typed
<1>5. \A r \in Post : Accounted(r) BY DEF Init, Accounted
<1> QED BY <1>1, <1>3, <1>4, <1>5 DEF BoxInv

LEMMA MemoStep == MemoInv /\ [Next]_vars => MemoInv'
<1> SUFFICES ASSUME MemoInv, [Next]_vars PROVE MemoInv' OBVIOUS
<1>1. CASE UNCHANGED memoVars BY <1>1 DEF memoVars, MemoInv
<1>2. CASE SecretRead
  <2>1. PICK s \in Secret, i \in 1 .. MaxReads : Memo!ReadSucceeds(s, i) \/ Memo!ReadFails(s, i)
    BY <1>2 DEF SecretRead
  <2> QED BY <2>1, ReadSucceedsKeeps, ReadFailsKeeps
<1>3. CASE \E c \in Caller : Memo!Join(c) \/ Memo!Leave(c) BY <1>3, JoinKeeps, LeaveKeeps
<1>4. CASE Memo!Forget BY <1>4, ForgetKeeps
<1>5. ASSUME NEW r \in Post PROVE <<"post", r>> \in Caller /\ <<"delete", r>> \in Caller
  BY DEF Caller
<1>6. ASSUME NEW r \in Post, Arrive(r) \/ PostStep(r) \/ HangUp(r)
      PROVE  UNCHANGED memoVars \/ \E c \in Caller : Memo!Join(c) \/ Memo!Leave(c)
  BY <1>5, <1>6 DEF Arrive, PostStep, Authorized, Registered, Started, Ready, StartFails,
                    StartUndone, HangUp
<1>7. ASSUME NEW r \in Post, InstanceStarts(r) \/ ProcessStarts(r) \/ Listens(r)
                             \/ TakesJob(r) \/ Quits(r)
      PROVE  UNCHANGED memoVars
  BY <1>7 DEF InstanceStarts, ProcessStarts, Listens, TakesJob, Quits
<1>8. ASSUME NEW r \in Post, BoxStep(r) \/ CleanupStep(r)
      PROVE  UNCHANGED memoVars \/ \E c \in Caller : Memo!Join(c) \/ Memo!Leave(c)
  BY <1>5, <1>8 DEF BoxStep, Exits, CallsBack, GivesUp, CleanupStep, CleanupAuthorized,
                    CleanupDone, CleanupFails
<1> QED BY <1>1, <1>2, <1>3, <1>4, <1>6, <1>7, <1>8 DEF Next, Reading, IsolateDies, vars

LEMMA BoxNext == BoxInv /\ [Next]_vars => BoxInv'
<1> SUFFICES ASSUME BoxInv, [Next]_vars PROVE BoxInv' OBVIOUS
<1>1. CASE UNCHANGED <<postVars, boxVars, cleanVars, crashes>>
  <2>1. AliveBoxes' = AliveBoxes BY <1>1 DEF boxVars, AliveBoxes
  <2>2. WithinLimit' BY <2>1 DEF BoxInv, WithinLimit
  <2>3. Typed' BY <1>1 DEF BoxInv, Typed, postVars, boxVars, cleanVars
  <2>4. \A r \in Post : Accounted(r)'
    BY <1>1 DEF BoxInv, Accounted, postVars, boxVars, cleanVars
  <2> QED BY <2>2, <2>3, <2>4 DEF BoxInv
<1> QED
  BY <1>1, PostKeeps, InstanceStartsKeeps, SandboxKeeps, CleanupKeeps, IsolateDiesKeeps
  DEF Next, Reading, vars

LEMMA MemoAlways == Spec => []MemoInv
BY InitialState, MemoStep, PTL DEF Spec

LEMMA BoxAlways == Spec => []BoxInv
BY InitialState, BoxNext, PTL DEF Spec

\* The requests of an isolate share the reads of its secrets, and none is
\* handed a read that had failed before it came (readTomSecrets,
\* resolveSecretValue).
THEOREM SecretsAreShared == Spec => []SharedRead
BY MemoAlways, MemoGivesType, PTL

\* A refused start has left no instance behind, and an empty one has a
\* request that answers for it, but for the destroys that failed
\* (startRunner).
THEOREM StartsAreUndone == Spec => []NothingLeftBehind
<1>1. BoxInv => NothingLeftBehind BY DEF BoxInv, Accounted, NothingLeftBehind
<1> QED BY <1>1, BoxAlways, PTL

\* Every variable keeps its type, and no more instances than the container
\* allows are ever up (maxInstances).
THEOREM RunnerTypeCorrect == Spec => []TypeOK
<1>1. MemoInv /\ BoxInv => TypeOK
  <2> SUFFICES ASSUME MemoInv, BoxInv PROVE TypeOK OBVIOUS
  <2>1. Memo!MemoTypeOK BY MemoGivesType
  <2> QED BY <2>1 DEF TypeOK, BoxInv, Typed, WithinLimit, AliveBoxes
<1> QED BY <1>1, MemoAlways, BoxAlways, PTL

=============================================================================
