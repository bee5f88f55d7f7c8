------------------------- MODULE ArenaContentProofs -------------------------
(***************************************************************************)
(* What module ArenaContent promises, for any lists, edits, page size and  *)
(* concurrency.  The first part is about its operators: what a run of      *)
(* pages holds, and what decoding and searching make of it.  They recurse  *)
(* over sequences, so it starts with an induction, which comes from the    *)
(* well-foundedness of finite sets.                                        *)
(***************************************************************************)
EXTENDS ArenaContent, SequenceTheorems, FiniteSetTheorems, TLAPS

-----------------------------------------------------------------------------
(* Induction.                                                              *)

LEMMA Least ==
  ASSUME NEW T, T \subseteq Nat, T # {}
  PROVE  \E x \in T : \A y \in T : x <= y
<1> DEFINE Below(n) == 0 .. n - 1
           U == {Below(n) : n \in T}
<1>1. U \subseteq FiniteSubsetsOf(Nat)
  <2> SUFFICES ASSUME NEW n \in T PROVE Below(n) \in FiniteSubsetsOf(Nat) OBVIOUS
  <2>1. IsFiniteSet(Below(n)) BY FS_Interval
  <2>2. Below(n) \subseteq Nat OBVIOUS
  <2> QED BY <2>1, <2>2 DEF FiniteSubsetsOf
<1>2. PICK u \in U : \A w \in U : <<w, u>> \notin StrictSubsetOrdering(Nat)
  <2>1. U # {} OBVIOUS
  <2> HIDE DEF U
  <2> QED BY <1>1, <2>1, WFMin, FS_StrictSubsetOrderingWellFounded
<1>3. PICK x \in T : u = Below(x) OBVIOUS
<1>4. ASSUME NEW y \in T, y < x PROVE FALSE
  <2>1. Below(y) \subseteq Below(x) /\ y \in Below(x) /\ y \notin Below(y) BY <1>4
  <2>2. Below(y) \in SUBSET Nat /\ Below(x) \in SUBSET Nat OBVIOUS
  <2>3. <<Below(y), u>> \in StrictSubsetOrdering(Nat)
    <3> HIDE DEF Below
    <3> QED BY <1>3, <2>1, <2>2 DEF StrictSubsetOrdering
  <2> QED BY <1>2, <2>3
<1>5. \A y \in T : x <= y BY <1>4
<1> QED BY <1>5

\* The set of the numbers that have a property takes the place of the property.
LEMMA CountUp ==
  ASSUME NEW S, 0 \in S, \A n \in Nat : n \in S => n + 1 \in S
  PROVE  Nat \subseteq S
<1> SUFFICES ASSUME Nat \ S # {} PROVE FALSE OBVIOUS
<1>1. PICK x \in Nat \ S : \A y \in Nat \ S : x <= y BY Least
<1>2. x # 0 /\ x - 1 \in Nat /\ x - 1 \in S BY <1>1
<1> QED BY <1>2

-----------------------------------------------------------------------------
(* A run of parts, joined in their order.                                  *)

Run(F, k) == FlattenSeq([i \in 1 .. k |-> F[i]])

Joins(f, F, n) == \A i \in 1 .. n : f[i] = IF i = 1 THEN F[i] ELSE f[i - 1] \o F[i]

LEMMA JoinExists ==
  ASSUME NEW T, NEW n \in Nat, NEW F \in [1 .. n -> Seq(T)]
  PROVE  \E f \in [1 .. n -> Seq(T)] : Joins(f, F, n)
<1> DEFINE S == {m \in Nat : m <= n => \E f \in [1 .. m -> Seq(T)] : Joins(f, F, m)}
<1>1. 0 \in S
  <2> DEFINE f == [i \in 1 .. 0 |-> <<>>]
  <2>1. f \in [1 .. 0 -> Seq(T)] /\ Joins(f, F, 0) BY DEF Joins
  <2> QED BY <2>1
<1>2. ASSUME NEW m \in Nat, m \in S PROVE m + 1 \in S
  <2> SUFFICES ASSUME m + 1 <= n PROVE \E f \in [1 .. m + 1 -> Seq(T)] : Joins(f, F, m + 1)
    OBVIOUS
  <2>1. F[m + 1] \in Seq(T) OBVIOUS
  <2>2. PICK g \in [1 .. m -> Seq(T)] : Joins(g, F, m) BY <1>2
  <2> DEFINE last == IF m = 0 THEN F[m + 1] ELSE g[m] \o F[m + 1]
             f == [i \in 1 .. m + 1 |-> IF i = m + 1 THEN last ELSE g[i]]
  <2>3. last \in Seq(T)
    <3>1. CASE m = 0 BY <2>1, <3>1
    <3>2. CASE m > 0
      <4>1. g[m] \in Seq(T) BY <3>2
      <4> QED BY <2>1, <3>2, <4>1, ConcatProperties
    <3> QED BY <3>1, <3>2
  <2>4. f[m + 1] = last /\ \A i \in 1 .. m : f[i] = g[i]
    <3> HIDE DEF last
    <3> QED OBVIOUS
  <2>5. f \in [1 .. m + 1 -> Seq(T)]
    <3> HIDE DEF last
    <3> QED BY <2>3
  <2>6. Joins(f, F, m + 1)
    <3> SUFFICES ASSUME NEW i \in 1 .. m + 1 PROVE f[i] = IF i = 1 THEN F[i] ELSE f[i - 1] \o F[i]
      BY DEF Joins
    <3> HIDE DEF f
    <3>1. CASE i = m + 1
      <4>1. CASE m = 0 BY <2>4, <3>1, <4>1
      <4>2. CASE m > 0
        <5>1. f[m] = g[m] BY <2>4, <4>2
        <5> QED BY <2>4, <3>1, <4>2, <5>1
      <4> QED BY <4>1, <4>2
    <3>2. CASE i \in 1 .. m
      <4>1. f[i] = g[i] /\ (i # 1 => f[i - 1] = g[i - 1]) BY <2>4, <3>2
      <4> QED BY <2>2, <3>2, <4>1 DEF Joins
    <3> QED BY <3>1, <3>2
  <2> QED BY <2>5, <2>6
<1>3. Nat \subseteq S
  <2> HIDE DEF S
  <2> QED BY <1>1, <1>2, CountUp
<1> QED BY <1>3

LEMMA JoinUnique ==
  ASSUME NEW n \in Nat, NEW F, NEW f, NEW g, Joins(f, F, n), Joins(g, F, n)
  PROVE  \A i \in 1 .. n : f[i] = g[i]
<1> DEFINE S == {m \in Nat : m \in 1 .. n => f[m] = g[m]}
<1>1. 0 \in S OBVIOUS
<1>2. ASSUME NEW m \in Nat, m \in S PROVE m + 1 \in S
  <2> SUFFICES ASSUME m + 1 \in 1 .. n PROVE f[m + 1] = g[m + 1] OBVIOUS
  <2>1. /\ f[m + 1] = IF m + 1 = 1 THEN F[m + 1] ELSE f[m + 1 - 1] \o F[m + 1]
        /\ g[m + 1] = IF m + 1 = 1 THEN F[m + 1] ELSE g[m + 1 - 1] \o F[m + 1]
    BY DEF Joins
  <2>2. m # 0 => f[m] = g[m] BY <1>2
  <2>3. m + 1 - 1 = m /\ (m + 1 = 1 <=> m = 0) OBVIOUS
  <2> QED BY <2>1, <2>2, <2>3
<1>3. Nat \subseteq S
  <2> HIDE DEF S
  <2> QED BY <1>1, <1>2, CountUp
<1> QED BY <1>3

LEMMA RunIsJoin ==
  ASSUME NEW T, NEW n \in Nat, NEW F \in [1 .. n -> Seq(T)], NEW f \in [1 .. n -> Seq(T)],
         Joins(f, F, n), NEW k \in 1 .. n
  PROVE  Run(F, k) = f[k]
<1> DEFINE A == [i \in 1 .. k |-> F[i]]
           D(h, m) == h = [i \in 1 .. m |-> IF i = 1 THEN A[i] ELSE h[i - 1] \o A[i]]
           fl == CHOOSE h : D(h, Len(A))
           g == [i \in 1 .. k |-> f[i]]
<1>1. Len(A) = k
  <2>1. DOMAIN A = 1 .. k /\ k \in Nat OBVIOUS
  <2>2. A \in Seq(Seq(T)) OBVIOUS
  <2> HIDE DEF A
  <2> QED BY <2>1, <2>2, LenProperties
<1>2. FlattenSeq(A) = fl[Len(A)]
  <2>1. Len(A) # 0 BY <1>1
  <2> HIDE DEF A, g
  <2> QED BY <2>1 DEF FlattenSeq
<1>3. \A i \in 1 .. k : A[i] = F[i] OBVIOUS
<1>4. \A i \in 1 .. k : f[i] = IF i = 1 THEN A[i] ELSE f[i - 1] \o A[i]
  <2> SUFFICES ASSUME NEW i \in 1 .. k
               PROVE  f[i] = IF i = 1 THEN A[i] ELSE f[i - 1] \o A[i] OBVIOUS
  <2> HIDE DEF A
  <2>1. i \in 1 .. n OBVIOUS
  <2>2. f[i] = IF i = 1 THEN F[i] ELSE f[i - 1] \o F[i] BY <2>1 DEF Joins
  <2>3. A[i] = F[i] BY <1>3
  <2> QED BY <2>2, <2>3
<1>5. D(g, k)
  <2>1. \A i \in 1 .. k : g[i] = f[i] /\ (i # 1 => g[i - 1] = f[i - 1]) OBVIOUS
  <2> DEFINE h == [i \in 1 .. k |-> IF i = 1 THEN A[i] ELSE g[i - 1] \o A[i]]
  <2>2. DOMAIN g = 1 .. k /\ DOMAIN h = 1 .. k OBVIOUS
  <2>3. ASSUME NEW i \in 1 .. k PROVE g[i] = h[i]
    <3>1. h[i] = IF i = 1 THEN A[i] ELSE g[i - 1] \o A[i]
      <4> HIDE DEF A, g
      <4> QED OBVIOUS
    <3> HIDE DEF A, g, h
    <3> QED BY <1>4, <2>1, <3>1
  <2>4. g = [i \in 1 .. k |-> g[i]] /\ h = [i \in 1 .. k |-> h[i]] OBVIOUS
  <2>5. g = h
    <3> HIDE DEF g, h
    <3> QED BY <2>2, <2>3, <2>4
  <2> QED BY <2>5
<1>6. D(fl, Len(A))
  <2> HIDE DEF A, g
  <2> QED BY <1>1, <1>5
<1>7. Joins(fl, F, k)
  <2>1. fl = [i \in 1 .. k |-> IF i = 1 THEN A[i] ELSE fl[i - 1] \o A[i]]
    <3> HIDE DEF fl, A
    <3> QED BY <1>1, <1>6
  <2> SUFFICES ASSUME NEW i \in 1 .. k
               PROVE  fl[i] = IF i = 1 THEN F[i] ELSE fl[i - 1] \o F[i] BY DEF Joins
  <2> HIDE DEF fl, A
  <2> DEFINE h == [j \in 1 .. k |-> IF j = 1 THEN A[j] ELSE fl[j - 1] \o A[j]]
  <2>2. fl[i] = h[i] BY <2>1
  <2>3. h[i] = IF i = 1 THEN A[i] ELSE fl[i - 1] \o A[i] OBVIOUS
  <2> HIDE DEF h
  <2> QED BY <1>3, <2>2, <2>3
<1>8. Joins(f, F, k)
  <2> SUFFICES ASSUME NEW i \in 1 .. k
               PROVE  f[i] = IF i = 1 THEN F[i] ELSE f[i - 1] \o F[i] BY DEF Joins
  <2>1. i \in 1 .. n OBVIOUS
  <2> QED BY <2>1 DEF Joins
<1>9. fl[k] = f[k]
  <2> HIDE DEF fl
  <2>1. k \in Nat /\ k \in 1 .. k OBVIOUS
  <2> QED BY <1>7, <1>8, <2>1, JoinUnique
<1>10. Run(F, k) = FlattenSeq(A) BY DEF Run
<1> HIDE DEF fl, A
<1> QED BY <1>1, <1>2, <1>9, <1>10

\* A run grows by its next part.
LEMMA RunGrows ==
  ASSUME NEW T, NEW n \in Nat, NEW F \in [1 .. n -> Seq(T)]
  PROVE  /\ Run(F, 0) = <<>>
         /\ \A k \in 0 .. n : Run(F, k) \in Seq(T)
         /\ \A k \in 0 .. n - 1 : Run(F, k + 1) = Run(F, k) \o F[k + 1]
<1>1. PICK f \in [1 .. n -> Seq(T)] : Joins(f, F, n) BY JoinExists
<1>2. \A k \in 1 .. n : Run(F, k) = f[k] BY <1>1, RunIsJoin
<1>3. Run(F, 0) = <<>>
  <2>1. [i \in 1 .. 0 |-> F[i]] = <<>> OBVIOUS
  <2>2. Len(<<>>) = 0 BY EmptySeq
  <2> QED BY <2>1, <2>2 DEF Run, FlattenSeq
<1>4. ASSUME NEW k \in 0 .. n PROVE Run(F, k) \in Seq(T)
  <2>1. CASE k = 0
    <3>1. Run(F, k) = <<>> BY <1>3, <2>1
    <3> QED BY <3>1, EmptySeq
  <2>2. CASE k \in 1 .. n
    <3>1. f[k] \in Seq(T) BY <2>2
    <3> QED BY <1>2, <2>2, <3>1
  <2> QED BY <2>1, <2>2
<1>5. ASSUME NEW k \in 0 .. n - 1 PROVE Run(F, k + 1) = Run(F, k) \o F[k + 1]
  <2>1. k + 1 \in 1 .. n /\ k + 1 - 1 = k OBVIOUS
  <2>2. Run(F, k + 1) = f[k + 1] BY <1>2, <2>1
  <2>3. f[k + 1] = IF k + 1 = 1 THEN F[k + 1] ELSE f[k + 1 - 1] \o F[k + 1]
    <3> DEFINE m == k + 1
    <3>1. m \in 1 .. n BY <2>1
    <3> HIDE DEF m
    <3>2. f[m] = IF m = 1 THEN F[m] ELSE f[m - 1] \o F[m] BY <1>1, <3>1 DEF Joins
    <3> QED BY <3>2 DEF m
  <2>4. CASE k = 0
    <3>1. F[k + 1] \in Seq(T) BY <2>1
    <3>2. Run(F, k) = <<>> BY <1>3, <2>4
    <3>3. Run(F, k + 1) = F[k + 1] BY <2>2, <2>3, <2>4
    <3> HIDE DEF Run
    <3> QED BY <3>1, <3>2, <3>3, ConcatEmptySeq
  <2>5. CASE k \in 1 .. n
    <3>1. Run(F, k) = f[k] BY <1>2, <2>5
    <3>2. k + 1 # 1 BY <2>5
    <3>3. f[k + 1] = f[k + 1 - 1] \o F[k + 1] BY <2>3, <3>2
    <3>4. f[k + 1 - 1] = f[k] BY <2>1
    <3> QED BY <2>2, <3>1, <3>3, <3>4
  <2> QED BY <2>4, <2>5
<1> QED BY <1>3, <1>4, <1>5

-----------------------------------------------------------------------------
(* Decoding.                                                               *)

\* What holds of the empty sequence and of every one it grows into holds of all.
LEMMA GrowUp ==
  ASSUME NEW T, NEW S, <<>> \in S, \A s \in Seq(T), e \in T : s \in S => Append(s, e) \in S
  PROVE  Seq(T) \subseteq S
<1> DEFINE N == {n \in Nat : \A s \in Seq(T) : Len(s) = n => s \in S}
<1>1. 0 \in N
  <2> SUFFICES ASSUME NEW s \in Seq(T), Len(s) = 0 PROVE s \in S OBVIOUS
  <2>1. s = <<>> BY EmptySeq
  <2> QED BY <2>1
<1>2. ASSUME NEW n \in Nat, n \in N PROVE n + 1 \in N
  <2> SUFFICES ASSUME NEW s \in Seq(T), Len(s) = n + 1 PROVE s \in S OBVIOUS
  <2>1. s # <<>> BY EmptySeq
  <2>2. PICK r \in Seq(T), e \in T : s = Append(r, e) BY <2>1, SequenceEmptyOrAppend
  <2>3. Len(r) = n
    <3>1. Len(s) = Len(r) + 1 BY <2>2, AppendProperties
    <3>2. Len(r) \in Nat BY LenProperties
    <3> QED BY <3>1, <3>2
  <2> QED BY <1>2, <2>2, <2>3
<1>3. Nat \subseteq N
  <2> HIDE DEF N
  <2> QED BY <1>1, <1>2, CountUp
<1>4. ASSUME NEW s \in Seq(T) PROVE s \in S
  <2>1. Len(s) \in Nat BY LenProperties
  <2> QED BY <1>3, <2>1
<1> QED BY <1>4

Kept(e) == IF e \in Stray THEN <<>> ELSE <<e>>

LEMMA KeptType ==
  ASSUME NEW T, NEW e \in T
  PROVE  Kept(e) \in Seq(T) /\ ToSet(Kept(e)) = {e} \ Stray
<1>1. <<>> \in Seq(T) /\ <<e>> \in Seq(T) /\ Len(<<>>) = 0 /\ Len(<<e>>) = 1 OBVIOUS
<1>2. DOMAIN <<>> = {} /\ DOMAIN <<e>> = {1} /\ <<e>>[1] = e OBVIOUS
<1>3. ToSet(<<>>) = {} /\ ToSet(<<e>>) = {e} BY <1>2 DEF ToSet
<1> QED BY <1>1, <1>3 DEF Kept

LEMMA DecodedEmpty == Decoded(<<>>) = <<>>
<1>1. Len(<<>>) = 0 BY EmptySeq
<1>2. [i \in 1 .. 0 |-> IF <<>>[i] \in Stray THEN <<>> ELSE << <<>>[i] >>] = <<>> OBVIOUS
<1> QED BY <1>1, <1>2 DEF Decoded, FlattenSeq

LEMMA DecodedAppend ==
  ASSUME NEW T, NEW s \in Seq(T), NEW e \in T
  PROVE  Decoded(s) \in Seq(T) /\ Decoded(Append(s, e)) = Decoded(s) \o Kept(e)
<1> DEFINE t == Append(s, e)
           n == Len(s)
           F == [i \in 1 .. n + 1 |-> Kept(t[i])]
<1>1. n \in Nat BY LenProperties
<1>2. t \in Seq(T) /\ Len(t) = n + 1 /\ t[n + 1] = e /\ \A i \in 1 .. n : t[i] = s[i]
  BY AppendProperties
<1>3. F \in [1 .. n + 1 -> Seq(T)]
  <2> SUFFICES ASSUME NEW i \in 1 .. n + 1 PROVE Kept(t[i]) \in Seq(T) OBVIOUS
  <2>1. t[i] \in T
    <3> HIDE DEF t, n
    <3> QED BY <1>2, ElementOfSeq
  <2> HIDE DEF t
  <2> QED BY <2>1, KeptType
<1>4. Decoded(t) = Run(F, n + 1)
  <2>1. [i \in 1 .. n + 1 |-> F[i]] = [i \in 1 .. n + 1 |-> Kept(t[i])] OBVIOUS
  <2>2. Decoded(t) = FlattenSeq([i \in 1 .. n + 1 |-> Kept(t[i])])
    <3> HIDE DEF t
    <3> QED BY <1>2 DEF Decoded, Kept
  <2> HIDE DEF t, F, n
  <2> QED BY <2>1, <2>2 DEF Run
<1>5. Decoded(s) = Run(F, n)
  <2>1. [i \in 1 .. n |-> F[i]] = [i \in 1 .. n |-> Kept(s[i])]
    <3>1. \A i \in 1 .. n : F[i] = Kept(s[i])
      <4> HIDE DEF t
      <4> QED BY <1>1, <1>2
    <3> HIDE DEF F
    <3> QED BY <3>1
  <2>2. Decoded(s) = FlattenSeq([i \in 1 .. n |-> Kept(s[i])]) BY DEF Decoded, Kept
  <2> HIDE DEF t, F, n
  <2> QED BY <2>1, <2>2 DEF Run
<1>6. F[n + 1] = Kept(e)
  <2> HIDE DEF t
  <2> QED BY <1>1, <1>2
<1>7. Run(F, n) \in Seq(T) /\ Run(F, n + 1) = Run(F, n) \o F[n + 1]
  <2>1. n + 1 \in Nat /\ n \in 0 .. n + 1 /\ n \in 0 .. (n + 1) - 1 BY <1>1
  <2> HIDE DEF F, n, Run
  <2> QED BY <1>3, <2>1, RunGrows
<1> HIDE DEF F, n, t, Run
<1>8. Decoded(t) = Decoded(s) \o Kept(e) BY <1>4, <1>5, <1>6, <1>7
<1> QED BY <1>5, <1>7, <1>8 DEF t

LEMMA ConcatSet ==
  ASSUME NEW T, NEW s \in Seq(T), NEW t \in Seq(T)
  PROVE  ToSet(s \o t) = ToSet(s) \cup ToSet(t)
<1>1. ToSet(s) = Range(s) /\ ToSet(t) = Range(t) /\ ToSet(s \o t) = Range(s \o t)
  BY DEF ToSet, Range
<1> QED BY <1>1, RangeConcatenation

\* Concatenation as a name of the provers' own, for the steps that only regroup.
Joined(s, t) == s \o t

LEMMA Regroup ==
  ASSUME NEW T, NEW s \in Seq(T), NEW t \in Seq(T), NEW u \in Seq(T)
  PROVE  Joined(Joined(s, t), u) = Joined(s, Joined(t, u))
BY ONLY ConcatAssociative DEF Joined

LEMMA JoinedSet ==
  ASSUME NEW T, NEW s \in Seq(T), NEW t \in Seq(T)
  PROVE  ToSet(Joined(s, t)) = ToSet(s) \cup ToSet(t)
BY ConcatSet DEF Joined

LEMMA AppendSet ==
  ASSUME NEW T, NEW s \in Seq(T), NEW e \in T
  PROVE  ToSet(Append(s, e)) = ToSet(s) \cup {e}
<1>1. Append(s, e) = s \o <<e>> BY AppendIsConcat
<1>2. <<e>> \in Seq(T) /\ DOMAIN <<e>> = {1} /\ <<e>>[1] = e OBVIOUS
<1>3. ToSet(<<e>>) = {e} BY <1>2 DEF ToSet
<1>4. ToSet(s \o <<e>>) = ToSet(s) \cup ToSet(<<e>>)
  <2> DEFINE t == <<e>>
  <2>1. t \in Seq(T) BY <1>2
  <2> HIDE DEF t
  <2>2. ToSet(s \o t) = ToSet(s) \cup ToSet(t) BY <2>1, ConcatSet
  <2> QED BY <2>2 DEF t
<1> QED BY <1>1, <1>3, <1>4

\* Decoding keeps the items that are no strays, and nothing else.
LEMMA DecodedKeeps ==
  ASSUME NEW T, NEW s \in Seq(T)
  PROVE  Decoded(s) \in Seq(T) /\ ToSet(Decoded(s)) = ToSet(s) \ Stray
<1> DEFINE S == {r \in Seq(T) : Decoded(r) \in Seq(T) /\ ToSet(Decoded(r)) = ToSet(r) \ Stray}
<1>1. <<>> \in S
  <2>1. <<>> \in Seq(T) BY EmptySeq
  <2>2. ToSet(<<>>) = {}
    <3>1. DOMAIN <<>> = {} OBVIOUS
    <3> QED BY <3>1 DEF ToSet
  <2> QED BY <2>1, <2>2, DecodedEmpty
<1>2. ASSUME NEW r \in Seq(T), NEW e \in T, r \in S PROVE Append(r, e) \in S
  <2>1. Append(r, e) \in Seq(T) BY AppendProperties
  <2>2. Decoded(r) \in Seq(T) /\ Decoded(Append(r, e)) = Decoded(r) \o Kept(e) BY DecodedAppend
  <2>3. Kept(e) \in Seq(T) /\ ToSet(Kept(e)) = {e} \ Stray BY KeptType
  <2>4. Decoded(Append(r, e)) \in Seq(T) BY <2>2, <2>3, ConcatProperties
  <2>5. ToSet(Decoded(Append(r, e))) = ToSet(Decoded(r)) \cup ToSet(Kept(e)) BY <2>2, <2>3, ConcatSet
  <2>6. ToSet(Append(r, e)) = ToSet(r) \cup {e} BY AppendSet
  <2> QED BY <1>2, <2>1, <2>3, <2>4, <2>5, <2>6
<1>3. Seq(T) \subseteq S
  <2> HIDE DEF S
  <2> QED BY <1>1, <1>2, GrowUp
<1> QED BY <1>3

\* Decoding a list is decoding its parts.
LEMMA DecodedConcat ==
  ASSUME NEW T, NEW s \in Seq(T), NEW t \in Seq(T)
  PROVE  Decoded(s \o t) = Decoded(s) \o Decoded(t)
<1> DEFINE S == {r \in Seq(T) : Decoded(s \o r) = Decoded(s) \o Decoded(r)}
<1>s. Decoded(s) \in Seq(T) BY DecodedKeeps
<1>1. <<>> \in S
  <2>1. <<>> \in Seq(T) BY EmptySeq
  <2>2. s \o <<>> = s /\ Decoded(s) \o <<>> = Decoded(s) BY <1>s, ConcatEmptySeq
  <2> QED BY <2>1, <2>2, DecodedEmpty
<1>2. ASSUME NEW r \in Seq(T), NEW e \in T, r \in S PROVE Append(r, e) \in S
  <2>1. Append(r, e) \in Seq(T) /\ <<e>> \in Seq(T) BY AppendProperties
  <2>2. s \o r \in Seq(T) BY ConcatProperties
  <2>3. s \o Append(r, e) = Append(s \o r, e)
    <3>1. Append(r, e) = r \o <<e>> /\ Append(s \o r, e) = (s \o r) \o <<e>>
      BY <2>2, AppendIsConcat
    <3> QED BY <2>1, <3>1, ConcatAssociative
  <2>4. Decoded(Append(s \o r, e)) = Decoded(s \o r) \o Kept(e) BY <2>2, DecodedAppend
  <2>5. Decoded(r) \in Seq(T) /\ Decoded(Append(r, e)) = Decoded(r) \o Kept(e) BY DecodedAppend
  <2>6. Kept(e) \in Seq(T) BY KeptType
  <2>7. (Decoded(s) \o Decoded(r)) \o Kept(e) = Decoded(s) \o (Decoded(r) \o Kept(e))
    <3> DEFINE d == Decoded(s)
               c == Decoded(r)
               k == Kept(e)
    <3>1. d \in Seq(T) /\ c \in Seq(T) /\ k \in Seq(T) BY <1>s, <2>5, <2>6
    <3> HIDE DEF S, d, c, k
    <3>2. Joined(Joined(d, c), k) = Joined(d, Joined(c, k)) BY <3>1, Regroup
    <3> QED BY <3>2 DEF d, c, k, Joined
  <2>8. Decoded(s \o r) = Decoded(s) \o Decoded(r) BY <1>2
  <2>9. Decoded(s \o Append(r, e)) = Decoded(s) \o Decoded(Append(r, e))
    BY <2>3, <2>4, <2>5, <2>7, <2>8
  <2> QED BY <2>1, <2>9
<1>3. Seq(T) \subseteq S
  <2> HIDE DEF S
  <2> QED BY <1>1, <1>2, GrowUp
<1> QED BY <1>3

-----------------------------------------------------------------------------
(* Searching.                                                              *)

Hits(s) == {i \in 1 .. Len(s) : s[i] \in Wanted}

LEMMA LeastHit ==
  ASSUME NEW T, NEW s \in Seq(T), Hits(s) # {}
  PROVE  /\ Min(Hits(s)) \in Hits(s) /\ \A i \in Hits(s) : Min(Hits(s)) <= i
         /\ FirstWanted(s) = s[Min(Hits(s))] /\ FirstWanted(s) \in Wanted
<1>1. Hits(s) \subseteq Nat
  <2>1. Len(s) \in Nat BY LenProperties
  <2> QED BY <2>1 DEF Hits
<1>2. \E x \in Hits(s) : \A y \in Hits(s) : x <= y BY <1>1, Least
<1>3. Min(Hits(s)) \in Hits(s) /\ \A i \in Hits(s) : Min(Hits(s)) <= i
  BY <1>2 DEF Min
<1>4. FirstWanted(s) = s[Min(Hits(s))] BY DEF FirstWanted, Hits
<1>5. s[Min(Hits(s))] \in Wanted
  <2> DEFINE m == Min(Hits(s))
  <2>1. m \in Hits(s) BY <1>3
  <2> HIDE DEF m
  <2>2. s[m] \in Wanted BY <2>1 DEF Hits
  <2> QED BY <2>2 DEF m
<1> QED BY <1>3, <1>4, <1>5

\* A search fails on a list that holds nothing wanted, and only on such a list.
LEMMA SearchFinds ==
  ASSUME NEW T, NEW s \in Seq(T)
  PROVE  /\ (FirstWanted(s) = None) <=> (Hits(s) = {})
         /\ (FirstWanted(s) = None) <=> (ToSet(s) \cap Wanted = {})
         /\ FirstWanted(s) \in (Wanted \cap ToSet(s)) \cup {None}
<1>1. None \notin Wanted BY ArenaAssumption
<1>2. Hits(s) = {} => FirstWanted(s) = None BY DEF FirstWanted, Hits
<1>3. Hits(s) # {} => FirstWanted(s) \in Wanted BY LeastHit
<1>4. DOMAIN s = 1 .. Len(s) BY LenProperties
<1>5. (ToSet(s) \cap Wanted = {}) <=> (Hits(s) = {}) BY <1>4 DEF ToSet, Hits
<1>6. Hits(s) # {} => FirstWanted(s) \in ToSet(s)
  <2> SUFFICES ASSUME Hits(s) # {} PROVE FirstWanted(s) \in ToSet(s) OBVIOUS
  <2>1. PICK i \in Hits(s) : FirstWanted(s) = s[i] BY LeastHit
  <2> QED BY <1>4, <2>1 DEF Hits, ToSet
<1> QED BY <1>1, <1>2, <1>3, <1>5, <1>6

\* The first part that holds something wanted decides.
LEMMA SearchConcat ==
  ASSUME NEW T, NEW s \in Seq(T), NEW t \in Seq(T)
  PROVE  FirstWanted(s \o t) = IF FirstWanted(s) # None THEN FirstWanted(s) ELSE FirstWanted(t)
<1> DEFINE u == s \o t
           a == Len(s)
           b == Len(t)
<1>1. /\ u \in Seq(T) /\ Len(u) = a + b /\ a \in Nat /\ b \in Nat
      /\ \A i \in 1 .. a : u[i] = s[i]
      /\ \A i \in 1 .. b : u[a + i] = t[i]
  <2>1. u \in Seq(T) /\ Len(u) = a + b BY ConcatProperties
  <2>2. a \in Nat /\ b \in Nat BY LenProperties
  <2>3. \A i \in 1 .. a + b : u[i] = IF i <= a THEN s[i] ELSE t[i - a] BY ConcatProperties
  <2> HIDE DEF u, a, b
  <2>4. ASSUME NEW i \in 1 .. a PROVE u[i] = s[i]
    <3>1. i \in 1 .. a + b /\ i <= a BY <2>2
    <3> QED BY <2>3, <3>1
  <2>5. ASSUME NEW i \in 1 .. b PROVE u[a + i] = t[i]
    <3>1. a + i \in 1 .. a + b /\ ~ (a + i <= a) /\ (a + i) - a = i BY <2>2
    <3> QED BY <2>3, <3>1
  <2> QED BY <2>1, <2>2, <2>4, <2>5
<1> HIDE DEF u, a, b
<1>2. Hits(s) = {i \in 1 .. a : s[i] \in Wanted} /\ Hits(t) = {i \in 1 .. b : t[i] \in Wanted}
  BY DEF Hits, a, b
<1>3. Hits(u) = {i \in 1 .. a + b : u[i] \in Wanted} BY <1>1 DEF Hits
<1>4. CASE Hits(s) # {}
  <2>1. PICK m \in Hits(s) : FirstWanted(s) = s[m] /\ \A i \in Hits(s) : m <= i BY <1>4, LeastHit
  <2>2. m \in 1 .. a /\ m \in Hits(u) BY <1>1, <1>2, <1>3, <2>1
  <2>3. PICK n \in Hits(u) : FirstWanted(u) = u[n] /\ \A i \in Hits(u) : n <= i
    BY <1>1, <2>2, LeastHit
  <2>4. n <= m /\ n \in 1 .. a BY <1>1, <1>3, <2>2, <2>3
  <2>5. n \in Hits(s) BY <1>1, <1>2, <1>3, <2>3, <2>4
  <2>6. n = m BY <2>1, <2>2, <2>4, <2>5
  <2>7. u[m] = s[m] BY <1>1, <2>2
  <2>8. FirstWanted(s) # None BY <1>4, SearchFinds
  <2>9. FirstWanted(u) = FirstWanted(s) BY <2>1, <2>3, <2>6, <2>7
  <2> QED BY <2>8, <2>9 DEF u
<1>5. CASE Hits(s) = {} /\ Hits(t) # {}
  <2>1. PICK m \in Hits(t) : FirstWanted(t) = t[m] /\ \A i \in Hits(t) : m <= i BY <1>5, LeastHit
  <2>2. m \in 1 .. b /\ u[a + m] = t[m] BY <1>1, <1>2, <2>1
  <2>3. a + m \in Hits(u)
    <3>1. a + m \in 1 .. a + b BY <1>1, <2>2
    <3>2. t[m] \in Wanted BY <1>2, <2>1
    <3> QED BY <1>3, <2>2, <3>1, <3>2
  <2>4. PICK n \in Hits(u) : FirstWanted(u) = u[n] /\ \A i \in Hits(u) : n <= i
    BY <1>1, <2>3, LeastHit
  <2>5. n <= a + m /\ n \in 1 .. a + b /\ u[n] \in Wanted BY <1>3, <2>3, <2>4
  <2>6. n \notin 1 .. a BY <1>1, <1>2, <1>5, <2>5
  <2>7. PICK k \in 1 .. b : n = a + k
    <3>1. n - a \in 1 .. b /\ n = a + (n - a) BY <1>1, <2>5, <2>6
    <3> QED BY <3>1
  <2>8. u[n] = t[k] BY <1>1, <2>7
  <2>9. k \in Hits(t) BY <1>2, <2>5, <2>8
  <2>10. k = m BY <1>1, <2>1, <2>2, <2>5, <2>7, <2>9
  <2>11. FirstWanted(s) = None BY <1>5, SearchFinds
  <2>12. FirstWanted(u) = FirstWanted(t) BY <2>1, <2>4, <2>8, <2>10
  <2> QED BY <2>11, <2>12 DEF u
<1>6. CASE Hits(s) = {} /\ Hits(t) = {}
  <2>1. ASSUME NEW i \in Hits(u) PROVE FALSE
    <3>1. i \in 1 .. a + b /\ u[i] \in Wanted BY <1>3, <2>1
    <3>2. CASE i \in 1 .. a BY <1>1, <1>2, <1>6, <3>1, <3>2
    <3>3. CASE i \notin 1 .. a
      <4>1. i - a \in 1 .. b /\ i = a + (i - a) BY <1>1, <3>1, <3>3
      <4>2. PICK k \in 1 .. b : i = a + k BY <4>1
      <4>3. u[i] = t[k] BY <1>1, <4>2
      <4> QED BY <1>2, <1>6, <3>1, <4>3
    <3> QED BY <3>2, <3>3
  <2>2. FirstWanted(u) = None
    <3>1. Hits(u) = {} BY <2>1
    <3> QED BY <1>1, <3>1, SearchFinds
  <2>3. FirstWanted(s) = None /\ FirstWanted(t) = None BY <1>6, SearchFinds
  <2> QED BY <2>2, <2>3 DEF u
<1> QED BY <1>4, <1>5, <1>6

\* A run of parts holds what its parts hold, and a search of it fails when it
\* fails on every part.
LEMMA RunHolds ==
  ASSUME NEW T, NEW n \in Nat, NEW F \in [1 .. n -> Seq(T)]
  PROVE  /\ Run(F, n) \in Seq(T)
         /\ \A x \in ToSet(Run(F, n)) : \E i \in 1 .. n : x \in ToSet(F[i])
         /\ (FirstWanted(Run(F, n)) = None) <=> \A i \in 1 .. n : FirstWanted(F[i]) = None
<1> DEFINE In(m) == \A x \in ToSet(Run(F, m)) : \E i \in 1 .. m : x \in ToSet(F[i])
           Out(m) == (FirstWanted(Run(F, m)) = None)
                       <=> \A i \in 1 .. m : FirstWanted(F[i]) = None
           S == {m \in Nat : m <= n => In(m) /\ Out(m)}
<1>1. 0 \in S
  <2>1. Run(F, 0) = <<>> /\ <<>> \in Seq(T) BY RunGrows, EmptySeq
  <2>2. ToSet(<<>>) = {}
    <3>1. DOMAIN <<>> = {} OBVIOUS
    <3> QED BY <3>1 DEF ToSet
  <2>3. FirstWanted(<<>>) = None BY <2>1, <2>2, SearchFinds
  <2> HIDE DEF Run
  <2>4. In(0) BY <2>1, <2>2
  <2>5. Out(0) BY <2>1, <2>3
  <2> QED BY <2>4, <2>5
<1>2. ASSUME NEW m \in Nat, m \in S PROVE m + 1 \in S
  <2> SUFFICES ASSUME m + 1 <= n PROVE In(m + 1) /\ Out(m + 1) OBVIOUS
  <2>1. m \in 0 .. n /\ m \in 0 .. n - 1 /\ m + 1 \in 1 .. n OBVIOUS
  <2>2. Run(F, m) \in Seq(T) /\ Run(F, m + 1) = Run(F, m) \o F[m + 1] BY <2>1, RunGrows
  <2>3. F[m + 1] \in Seq(T) BY <2>1
  <2>4. In(m) /\ Out(m) BY <1>2
  <2> HIDE DEF Run
  <2>5. In(m + 1)
    <3> DEFINE d == Run(F, m)
               e == F[m + 1]
    <3>1. ToSet(Run(F, m + 1)) = ToSet(Run(F, m)) \cup ToSet(F[m + 1])
      <4>1. d \in Seq(T) /\ e \in Seq(T) /\ Run(F, m + 1) = Joined(d, e) BY <2>2, <2>3 DEF Joined
      <4> HIDE DEF S, In, Out, d, e
      <4>2. ToSet(Joined(d, e)) = ToSet(d) \cup ToSet(e) BY <4>1, JoinedSet
      <4> QED BY <4>1, <4>2 DEF d, e
    <3>2. m + 1 \in 1 .. m + 1 /\ 1 .. m \subseteq 1 .. m + 1 OBVIOUS
    <3> QED BY <2>4, <3>1, <3>2
  <2>6. Out(m + 1)
    <3>1. FirstWanted(Run(F, m + 1)) = IF FirstWanted(Run(F, m)) # None
                                       THEN FirstWanted(Run(F, m)) ELSE FirstWanted(F[m + 1])
      <4> DEFINE d == Run(F, m)
                 e == F[m + 1]
      <4>1. d \in Seq(T) /\ e \in Seq(T) /\ Run(F, m + 1) = d \o e BY <2>2, <2>3
      <4> HIDE DEF S, In, Out, d, e
      <4>2. FirstWanted(d \o e) = IF FirstWanted(d) # None THEN FirstWanted(d) ELSE FirstWanted(e)
        BY <4>1, SearchConcat
      <4> QED BY <4>1, <4>2 DEF d, e
    <3>2. 1 .. m + 1 = (1 .. m) \cup {m + 1} OBVIOUS
    <3>3. (FirstWanted(Run(F, m + 1)) = None)
             <=> FirstWanted(Run(F, m)) = None /\ FirstWanted(F[m + 1]) = None
      BY <3>1
    <3> QED BY <2>4, <3>2, <3>3
  <2> QED BY <2>5, <2>6
<1>3. Nat \subseteq S
  <2> HIDE DEF S
  <2> QED BY <1>1, <1>2, CountUp
<1>4. Run(F, n) \in Seq(T)
  <2>1. n \in 0 .. n OBVIOUS
  <2> QED BY <2>1, RunGrows
<1> HIDE DEF Run
<1>5. In(n) /\ Out(n) BY <1>3
<1> QED BY <1>4, <1>5

-----------------------------------------------------------------------------
(* Pages.                                                                  *)

LEMMA LesserOf ==
  ASSUME NEW a \in Nat, NEW b \in Nat
  PROVE  Min({a, b}) = IF a <= b THEN a ELSE b
<1> DEFINE S == {a, b}
           m == IF a <= b THEN a ELSE b
<1>1. m \in S /\ \A y \in S : m <= y OBVIOUS
<1>2. Min(S) \in S /\ \A y \in S : Min(S) <= y
  <2> HIDE DEF S, m
  <2> QED BY <1>1 DEF Min
<1>3. ASSUME NEW x \in {a, b}, x <= a, x <= b PROVE x = m
  <2>1. x \in Nat /\ (x = a \/ x = b) OBVIOUS
  <2>2. CASE x = a BY <1>3, <2>2
  <2>3. CASE x = b BY <1>3, <2>3
  <2> QED BY <2>1, <2>2, <2>3
<1> HIDE DEF m
<1> QED BY <1>2, <1>3 DEF S

LEMMA Quotient ==
  ASSUME NEW a \in Nat, NEW d \in Nat \ {0}
  PROVE  a \div d \in Nat /\ (a \div d) * d <= a /\ a < (a \div d) * d + d
  OBVIOUS

\* The items of the first n pages.
Cut(items, n) == Min({n * Per, Len(items)})
Upto(items, n) == SubSeq(items, 1, Cut(items, n))

LEMMA CutAt ==
  ASSUME NEW T, NEW items \in Seq(T), NEW n \in Nat
  PROVE  /\ n * Per \in Nat /\ Per \in Nat \ {0} /\ (n + 1) * Per = n * Per + Per
         /\ Len(items) \in Nat
         /\ Cut(items, n) = IF n * Per <= Len(items) THEN n * Per ELSE Len(items)
<1>1. Per \in Nat \ {0} BY ArenaAssumption
<1>2. n * Per \in Nat /\ (n + 1) * Per = n * Per + Per BY <1>1
<1>3. Len(items) \in Nat BY LenProperties
<1> QED BY <1>1, <1>2, <1>3, LesserOf DEF Cut

LEMMA SubSeqOf ==
  ASSUME NEW T, NEW items \in Seq(T), NEW i \in Nat \ {0}, NEW j \in Nat, j <= Len(items)
  PROVE  SubSeq(items, i, j) \in Seq(T) /\ ToSet(SubSeq(items, i, j)) \subseteq ToSet(items)
<1>1. Len(items) \in Nat /\ DOMAIN items = 1 .. Len(items) BY LenProperties
<1>2. \A k \in i .. j : k \in DOMAIN items BY <1>1
<1>3. \A k \in i .. j : items[k] \in ToSet(items) BY <1>2 DEF ToSet
<1>4. \A k \in i .. j : items[k] \in T BY <1>1, <1>2, ElementOfSeq
<1>5. SubSeq(items, i, j) \in Seq(T) BY <1>4, SubSeqProperties
<1>6. SubSeq(items, i, j) \in Seq(ToSet(items)) BY <1>3, SubSeqProperties
<1>7. ASSUME NEW q \in Seq(ToSet(items)) PROVE ToSet(q) \subseteq ToSet(items)
  <2>1. DOMAIN q = 1 .. Len(q) BY LenProperties
  <2> QED BY <2>1, ElementOfSeq DEF ToSet
<1> QED BY <1>5, <1>6, <1>7

LEMMA PageOf ==
  ASSUME NEW T, NEW items \in Seq(T), NEW n \in Nat
  PROVE  /\ Page(items, n + 1) = SubSeq(items, n * Per + 1, Cut(items, n + 1))
         /\ Page(items, n + 1) \in Seq(T) /\ ToSet(Page(items, n + 1)) \subseteq ToSet(items)
         /\ Upto(items, n) \in Seq(T) /\ ToSet(Upto(items, n)) \subseteq ToSet(items)
<1>1. (n + 1) - 1 = n /\ n + 1 \in Nat OBVIOUS
<1>2. Page(items, n + 1) = SubSeq(items, n * Per + 1, Cut(items, n + 1)) BY <1>1 DEF Page, Cut
<1>3. n * Per \in Nat /\ Len(items) \in Nat BY CutAt
<1>4. Cut(items, n + 1) \in Nat /\ Cut(items, n + 1) <= Len(items)
  <2>1. (n + 1) * Per \in Nat BY <1>1, CutAt
  <2>2. Cut(items, n + 1) = IF (n + 1) * Per <= Len(items) THEN (n + 1) * Per ELSE Len(items)
    BY <1>1, CutAt
  <2> QED BY <1>3, <2>1, <2>2
<1>5. Cut(items, n) \in Nat /\ Cut(items, n) <= Len(items)
  <2>1. Cut(items, n) = IF n * Per <= Len(items) THEN n * Per ELSE Len(items) BY CutAt
  <2> QED BY <1>3, <2>1
<1>6. n * Per + 1 \in Nat \ {0} BY <1>3
<1>7. Page(items, n + 1) \in Seq(T) /\ ToSet(Page(items, n + 1)) \subseteq ToSet(items)
  BY <1>2, <1>4, <1>6, SubSeqOf
<1>8. Upto(items, n) \in Seq(T) /\ ToSet(Upto(items, n)) \subseteq ToSet(items)
  BY <1>5, SubSeqOf DEF Upto
<1> QED BY <1>2, <1>7, <1>8

\* Each page goes on where the pages before it end ...
LEMMA PagesJoin ==
  ASSUME NEW T, NEW items \in Seq(T), NEW n \in Nat
  PROVE  Upto(items, n + 1) = Upto(items, n) \o Page(items, n + 1)
<1> DEFINE p == n * Per
           c == Cut(items, n + 1)
<1>1. p \in Nat /\ Per \in Nat \ {0} /\ (n + 1) * Per = p + Per /\ Len(items) \in Nat BY CutAt
<1>2. Cut(items, n) = IF p <= Len(items) THEN p ELSE Len(items) BY CutAt
<1>3. c = IF p + Per <= Len(items) THEN p + Per ELSE Len(items)
  <2>1. n + 1 \in Nat OBVIOUS
  <2>2. c = IF (n + 1) * Per <= Len(items) THEN (n + 1) * Per ELSE Len(items) BY <2>1, CutAt
  <2> QED BY <1>1, <2>2
<1>4. Page(items, n + 1) = SubSeq(items, p + 1, c) BY PageOf
<1> HIDE DEF p, c
<1>5. CASE p < Len(items)
  <2>1. 1 \in 1 .. Len(items) + 1 /\ p \in 1 - 1 .. Len(items) /\ c \in p .. Len(items)
    BY <1>1, <1>3, <1>5
  <2>2. SubSeq(items, 1, p) \o SubSeq(items, p + 1, c) = SubSeq(items, 1, c)
    BY <2>1, ConcatAdjacentSubSeq
  <2>3. Cut(items, n) = p BY <1>1, <1>2, <1>5
  <2> QED BY <1>4, <2>2, <2>3 DEF Upto, c
<1>6. CASE p >= Len(items)
  <2>1. c = Len(items) /\ Cut(items, n) = Len(items) BY <1>1, <1>2, <1>3, <1>6
  <2>2. c \in Int /\ p + 1 \in Int /\ c < p + 1 BY <1>1, <1>6, <2>1
  <2>3. Page(items, n + 1) = <<>> BY <1>4, <2>2, SubSeqEmpty
  <2>4. Upto(items, n + 1) = Upto(items, n) BY <2>1 DEF Upto, c
  <2>5. Upto(items, n) \in Seq(T) BY PageOf
  <2>6. Upto(items, n) \o <<>> = Upto(items, n) BY <2>5, ConcatEmptySeq
  <2> QED BY <2>3, <2>4, <2>6
<1> QED BY <1>1, <1>5, <1>6

\* ... from the start of the list ...
LEMMA PagesStart ==
  ASSUME NEW T, NEW items \in Seq(T)
  PROVE  Upto(items, 0) = <<>>
<1>1. 0 * Per = 0 BY ArenaAssumption
<1>2. Len(items) \in Nat BY LenProperties
<1>3. Cut(items, 0) = 0
  <2>1. Cut(items, 0) = IF 0 * Per <= Len(items) THEN 0 * Per ELSE Len(items) BY CutAt
  <2> QED BY <1>1, <1>2, <2>1
<1> QED BY <1>3, SubSeqEmpty DEF Upto

\* ... to its end.
LEMMA PagesEnd ==
  ASSUME NEW T, NEW items \in Seq(T), NEW n \in Nat, PageCount(items) <= n
  PROVE  Upto(items, n) = items
<1> DEFINE k == Len(items)
           c == PageCount(items)
<1>1. k \in Nat /\ Per \in Nat \ {0} /\ n * Per \in Nat BY CutAt
<1>2. c \in Nat /\ (k + Per) - 1 < c * Per + Per
  <2>1. (k + Per) - 1 \in Nat BY <1>1
  <2>2. c = ((k + Per) - 1) \div Per
    <3>1. (Len(items) + Per) - 1 = Len(items) + Per - 1 BY <1>1
    <3> QED BY <3>1 DEF PageCount
  <2> DEFINE a == (k + Per) - 1
  <2>3. a \in Nat /\ c = a \div Per BY <2>1, <2>2
  <2> HIDE DEF c, k, a
  <2>4. a \div Per \in Nat /\ a < (a \div Per) * Per + Per BY <1>1, <2>3, Quotient
  <2> QED BY <2>3, <2>4 DEF a
<1>3. c * Per <= n * Per
  <2> HIDE DEF c, k
  <2> QED BY <1>1, <1>2 DEF c
<1>4. k <= n * Per
  <2>1. c * Per \in Nat BY <1>1, <1>2
  <2> HIDE DEF c, k
  <2> QED BY <1>1, <1>2, <1>3, <2>1
<1>5. Cut(items, n) = k
  <2>1. Cut(items, n) = IF n * Per <= k THEN n * Per ELSE k BY CutAt
  <2> HIDE DEF k
  <2> QED BY <1>1, <1>4, <2>1
<1> QED BY <1>5, SubSeqFull DEF Upto

PageAfter(items, n, i) == Decoded(Page(items, n + i))

\* Decoded page by page, a run of pages is the decoded list's.
LEMMA PagesDecode ==
  ASSUME NEW T, NEW items \in Seq(T), NEW first \in Nat, NEW n \in Nat,
         NEW F \in [1 .. n -> Seq(T)], \A i \in 1 .. n : F[i] = PageAfter(items, first, i),
         NEW last \in Nat, last = first + n
  PROVE  Decoded(Upto(items, last)) = Joined(Decoded(Upto(items, first)), Run(F, n))
<1> DEFINE D(m) == Decoded(Upto(items, first + m))
           S == {m \in Nat : m <= n => D(m) = D(0) \o Run(F, m)}
<1>r. \A k \in 0 .. n : Run(F, k) \in Seq(T) BY RunGrows
<1>s. \A k \in 0 .. n - 1 : Run(F, k + 1) = Joined(Run(F, k), F[k + 1]) BY RunGrows DEF Joined
<1>d. \A m \in Nat : D(m) \in Seq(T)
  <2> SUFFICES ASSUME NEW m \in Nat PROVE D(m) \in Seq(T) OBVIOUS
  <2>1. first + m \in Nat OBVIOUS
  <2> QED BY <2>1, PageOf, DecodedKeeps
<1>1. 0 \in S
  <2>1. Run(F, 0) = <<>> BY RunGrows
  <2> HIDE DEF Run, D
  <2>2. D(0) \o <<>> = D(0) BY <1>d, ConcatEmptySeq
  <2> QED BY <2>1, <2>2
<1>2. ASSUME NEW m \in Nat, m \in S PROVE m + 1 \in S
  <2> SUFFICES ASSUME m + 1 <= n PROVE D(m + 1) = D(0) \o Run(F, m + 1) OBVIOUS
  <2>1. m \in 0 .. n /\ m \in 0 .. n - 1 /\ m + 1 \in 1 .. n OBVIOUS
  <2>2. Run(F, m) \in Seq(T) BY ONLY <2>1, <1>r
  <2>a. Run(F, m + 1) = Joined(Run(F, m), F[m + 1]) BY ONLY <2>1, <1>s
  <2>3. D(m) = D(0) \o Run(F, m) BY <1>2, <2>1
  <2>4. first + (m + 1) = (first + m) + 1 /\ first + m \in Nat OBVIOUS
  <2>5. D(m + 1) = D(m) \o F[m + 1]
    <3> DEFINE u == Upto(items, first + m)
               p == Page(items, (first + m) + 1)
    <3>1. u \in Seq(T) /\ p \in Seq(T) BY <2>4, PageOf
    <3>2. Upto(items, (first + m) + 1) = u \o p BY <2>4, PagesJoin
    <3>3. F[m + 1] = Decoded(p) BY <2>1, <2>4 DEF PageAfter
    <3>4. D(m + 1) = Decoded(Upto(items, (first + m) + 1)) BY <2>4
    <3>5. D(m) = Decoded(u) OBVIOUS
    <3> HIDE DEF u, p, D, Run, S
    <3>6. Decoded(u \o p) = Decoded(u) \o Decoded(p) BY <3>1, DecodedConcat
    <3> QED BY <3>2, <3>3, <3>4, <3>5, <3>6
  <2>6. F[m + 1] \in Seq(T) BY <2>1
  <2>7. D(0) \in Seq(T) BY <1>d
  <2> DEFINE a == D(0)
             b == Run(F, m)
             c == F[m + 1]
  <2>8. a \in Seq(T) /\ b \in Seq(T) /\ c \in Seq(T) BY <2>2, <2>6, <2>7
  <2>9. D(m + 1) = (a \o b) \o c /\ Run(F, m + 1) = Joined(b, c) BY <2>a, <2>3, <2>5
  <2> HIDE DEF S, D, Run, a, b, c
  <2>10. Joined(Joined(a, b), c) = Joined(a, Joined(b, c)) BY <2>8, Regroup
  <2> QED BY <2>9, <2>10 DEF a, Joined
<1>3. Nat \subseteq S
  <2> HIDE DEF S
  <2> QED BY <1>1, <1>2, CountUp
<1>4. D(n) = D(0) \o Run(F, n)
  <2> HIDE DEF D, Run
  <2> QED BY <1>3
<1>5. first + 0 = first OBVIOUS
<1> HIDE DEF Run
<1> QED BY <1>4, <1>5 DEF Joined

\* Pages without a match leave the list up to their end without one ...
LEMMA PagesMiss ==
  ASSUME NEW T, NEW items \in Seq(T), NEW n \in Nat,
         \A p \in 1 .. n : FirstWanted(Decoded(Page(items, p))) = None
  PROVE  FirstWanted(Decoded(Upto(items, n))) = None
<1> DEFINE F == [i \in 1 .. n |-> Decoded(Page(items, i))]
<1>1. F \in [1 .. n -> Seq(T)]
  <2> SUFFICES ASSUME NEW i \in 1 .. n PROVE Decoded(Page(items, i)) \in Seq(T) OBVIOUS
  <2>1. i - 1 \in Nat /\ (i - 1) + 1 = i OBVIOUS
  <2>2. Page(items, (i - 1) + 1) \in Seq(T) BY <2>1, PageOf
  <2> QED BY <2>1, <2>2, DecodedKeeps
<1>2. \A i \in 1 .. n : F[i] = PageAfter(items, 0, i) BY DEF PageAfter
<1>3. \A i \in 1 .. n : FirstWanted(F[i]) = None OBVIOUS
<1> HIDE DEF F
<1>4. FirstWanted(Run(F, n)) = None /\ Run(F, n) \in Seq(T) BY <1>1, <1>3, RunHolds
<1>8. 0 + n = n OBVIOUS
<1>5. Decoded(Upto(items, n)) = Joined(Decoded(Upto(items, 0)), Run(F, n))
  BY <1>1, <1>2, <1>8, PagesDecode
<1>6. Decoded(Upto(items, 0)) = <<>> BY PagesStart, DecodedEmpty
<1> HIDE DEF Run
<1>7. <<>> \o Run(F, n) = Run(F, n) BY <1>4, ConcatEmptySeq
<1> QED BY <1>4, <1>5, <1>6, <1>7 DEF Joined

\* ... and a match in the first pages is the list's.
LEMMA PagesMatch ==
  ASSUME NEW T, NEW items \in Seq(T), NEW n \in Nat, FirstWanted(Decoded(Upto(items, n))) # None
  PROVE  FirstWanted(Decoded(items)) = FirstWanted(Decoded(Upto(items, n)))
<1> DEFINE k == Cut(items, n)
           u == Upto(items, n)
           r == SubSeq(items, k + 1, Len(items))
<1>1. k \in Nat /\ k <= Len(items) /\ Len(items) \in Nat
  <2>1. n * Per \in Nat /\ Len(items) \in Nat
        /\ k = IF n * Per <= Len(items) THEN n * Per ELSE Len(items) BY CutAt
  <2> HIDE DEF k
  <2> QED BY <2>1
<1>2. u \in Seq(T) BY PageOf
<1>3. r \in Seq(T)
  <2> HIDE DEF k
  <2> QED BY <1>1, SubSeqOf
<1>4. u \o r = items
  <2>1. u = SubSeq(items, 1, k) BY DEF Upto
  <2>2. 1 \in 1 .. Len(items) + 1 /\ k \in 1 - 1 .. Len(items) /\ Len(items) \in k .. Len(items)
    <3> HIDE DEF k
    <3> QED BY <1>1
  <2> HIDE DEF k
  <2>3. SubSeq(items, 1, k) \o SubSeq(items, k + 1, Len(items)) = SubSeq(items, 1, Len(items))
    BY <2>2, ConcatAdjacentSubSeq
  <2> QED BY <2>1, <2>3, SubSeqFull
<1> HIDE DEF u, r
<1>5. Decoded(items) = Decoded(u) \o Decoded(r) BY <1>2, <1>3, <1>4, DecodedConcat
<1> DEFINE a == Decoded(u)
           b == Decoded(r)
<1>6. a \in Seq(T) /\ b \in Seq(T) BY <1>2, <1>3, DecodedKeeps
<1>7. FirstWanted(a) # None BY DEF u
<1> HIDE DEF a, b
<1>8. FirstWanted(a \o b) = FirstWanted(a) BY <1>6, <1>7, SearchConcat
<1> QED BY <1>5, <1>8 DEF a, b, u

-----------------------------------------------------------------------------
(* What a run of pages shows, in whichever states they were read.          *)

LEMMA ItemsOf ==
  ASSUME NEW T, NEW l, NEW p \in Nat \ {0}, NEW seen, states[l][seen[l][p]] \in Seq(T)
  PROVE  /\ Items(l, p, seen) \in Seq(T)
         /\ ToSet(Items(l, p, seen)) \subseteq ToSet(states[l][seen[l][p]]) \ Stray
<1> DEFINE items == states[l][seen[l][p]]
<1>1. items \in Seq(T) /\ Items(l, p, seen) = Decoded(Page(items, p)) BY DEF Items
<1> HIDE DEF items
<1>2. p - 1 \in Nat /\ (p - 1) + 1 = p OBVIOUS
<1>3. Page(items, (p - 1) + 1) \in Seq(T) /\ ToSet(Page(items, (p - 1) + 1)) \subseteq ToSet(items)
  BY <1>1, <1>2, PageOf
<1>4. Page(items, p) \in Seq(T) /\ ToSet(Page(items, p)) \subseteq ToSet(items) BY <1>2, <1>3
<1>5. /\ Decoded(Page(items, p)) \in Seq(T)
      /\ ToSet(Decoded(Page(items, p))) = ToSet(Page(items, p)) \ Stray
  BY <1>4, DecodedKeeps
<1> QED BY <1>1, <1>4, <1>5 DEF items

LEMMA RunOfPages ==
  ASSUME NEW T, NEW l, NEW first \in Nat \ {0}, NEW last \in Nat, first <= last, NEW seen,
         \A p \in first .. last : states[l][seen[l][p]] \in Seq(T)
  PROVE  LET R == InPageOrder(l, first, last, seen) IN
         /\ R \in Seq(T)
         /\ \A x \in ToSet(R) : \E p \in first .. last : x \in ToSet(states[l][seen[l][p]]) \ Stray
         /\ (FirstWanted(R) = None)
              <=> \A p \in first .. last : FirstWanted(Items(l, p, seen)) = None
<1> DEFINE n == last + 1 - first
           F == [i \in 1 .. n |-> Items(l, first + i - 1, seen)]
           R == InPageOrder(l, first, last, seen)
<1>1. n \in Nat /\ \A i \in 1 .. n : first + i - 1 \in first .. last OBVIOUS
<1>2. \A p \in first .. last : Items(l, p, seen) \in Seq(T)
                             /\ ToSet(Items(l, p, seen)) \subseteq ToSet(states[l][seen[l][p]]) \ Stray
  <2> SUFFICES ASSUME NEW p \in first .. last
               PROVE  /\ Items(l, p, seen) \in Seq(T)
                      /\ ToSet(Items(l, p, seen)) \subseteq ToSet(states[l][seen[l][p]]) \ Stray
    OBVIOUS
  <2>1. p \in Nat \ {0} OBVIOUS
  <2>2. states[l][seen[l][p]] \in Seq(T) OBVIOUS
  <2> QED BY <2>1, <2>2, ItemsOf
<1>3. F \in [1 .. n -> Seq(T)]
  <2> HIDE DEF n
  <2> QED BY <1>1, <1>2
<1>4. \A i \in 1 .. n : F[i] = Items(l, first + i - 1, seen) OBVIOUS
<1>5. R = Run(F, n)
  <2>1. [i \in 1 .. n |-> F[i]] = F OBVIOUS
  <2> HIDE DEF n
  <2> QED BY <2>1 DEF Run, InPageOrder, n
<1> HIDE DEF F, R, n
<1>6. /\ Run(F, n) \in Seq(T)
      /\ \A x \in ToSet(Run(F, n)) : \E i \in 1 .. n : x \in ToSet(F[i])
      /\ (FirstWanted(Run(F, n)) = None) <=> \A i \in 1 .. n : FirstWanted(F[i]) = None
  BY <1>1, <1>3, RunHolds
<1>7. ASSUME NEW x \in ToSet(R)
      PROVE  \E p \in first .. last : x \in ToSet(states[l][seen[l][p]]) \ Stray
  <2>1. PICK i \in 1 .. n : x \in ToSet(F[i]) BY <1>5, <1>6
  <2>2. PICK p \in first .. last : p = first + i - 1 BY <1>1
  <2>3. x \in ToSet(Items(l, p, seen)) BY <1>4, <2>1, <2>2
  <2> QED BY <1>2, <2>3
<1>8. (\A i \in 1 .. n : FirstWanted(F[i]) = None)
        <=> \A p \in first .. last : FirstWanted(Items(l, p, seen)) = None
  <2>1. ASSUME NEW p \in first .. last PROVE \E i \in 1 .. n : p = first + i - 1
    <3>1. p + 1 - first \in 1 .. n /\ p = first + (p + 1 - first) - 1 BY DEF n
    <3> QED BY <3>1
  <2>2. ASSUME \A i \in 1 .. n : FirstWanted(F[i]) = None, NEW p \in first .. last
        PROVE  FirstWanted(Items(l, p, seen)) = None
    <3>1. PICK i \in 1 .. n : p = first + i - 1 BY <2>1
    <3>2. F[i] = Items(l, p, seen) BY <1>4, <3>1
    <3> QED BY <2>2, <3>2
  <2>3. ASSUME \A p \in first .. last : FirstWanted(Items(l, p, seen)) = None, NEW i \in 1 .. n
        PROVE  FirstWanted(F[i]) = None
    <3>1. PICK p \in first .. last : p = first + i - 1 BY <1>1
    <3>2. F[i] = Items(l, p, seen) BY <1>4, <3>1
    <3> QED BY <2>3, <3>2
  <2> QED BY <2>2, <2>3
<1> QED BY <1>5, <1>6, <1>7, <1>8 DEF R

Shows(l, first, last, seen, items) == \A p \in first .. last : states[l][seen[l][p]] = items

LEMMA RunOfState ==
  ASSUME NEW T, NEW l, NEW before \in Nat, NEW first \in Nat, first = before + 1,
         NEW last \in Nat, first <= last, NEW seen,
         NEW items \in Seq(T), Shows(l, first, last, seen, items)
  PROVE  Decoded(Upto(items, last))
           = Joined(Decoded(Upto(items, before)), InPageOrder(l, first, last, seen))
<1> DEFINE n == last + 1 - first
           F == [i \in 1 .. n |-> Items(l, first + i - 1, seen)]
<1>1. n \in Nat /\ \A i \in 1 .. n : first + i - 1 \in first .. last /\ first + i - 1 \in Nat \ {0}
  OBVIOUS
<1>2. \A p \in first .. last : /\ states[l][seen[l][p]] = items
                              /\ Items(l, p, seen) = Decoded(Page(items, p))
  BY DEF Items, Shows
<1>3. F \in [1 .. n -> Seq(T)]
  <2> SUFFICES ASSUME NEW i \in 1 .. n PROVE Items(l, first + i - 1, seen) \in Seq(T) OBVIOUS
  <2> DEFINE p == first + i - 1
  <2>1. p \in first .. last /\ p \in Nat \ {0} BY <1>1
  <2> HIDE DEF p, n, F
  <2>2. states[l][seen[l][p]] \in Seq(T) BY <1>2, <2>1
  <2>3. Items(l, p, seen) \in Seq(T) BY <2>1, <2>2, ItemsOf
  <2> QED BY <2>3 DEF p
<1>4. \A i \in 1 .. n : F[i] = PageAfter(items, before, i)
  <2> SUFFICES ASSUME NEW i \in 1 .. n PROVE F[i] = Decoded(Page(items, before + i)) BY DEF PageAfter
  <2>1. before + i = first + i - 1 /\ first + i - 1 \in first .. last BY <1>1
  <2>2. F[i] = Items(l, first + i - 1, seen) OBVIOUS
  <2> HIDE DEF F, n
  <2> QED BY <1>2, <2>1, <2>2
<1>5. InPageOrder(l, first, last, seen) = Run(F, n)
  <2>1. [i \in 1 .. n |-> F[i]] = F OBVIOUS
  <2> HIDE DEF n
  <2> QED BY <2>1 DEF Run, InPageOrder, n
<1>6. n \in Nat /\ last = before + n OBVIOUS
<1> HIDE DEF F, n
<1>8. Decoded(Upto(items, last)) = Joined(Decoded(Upto(items, before)), Run(F, n))
  <2>1. items \in Seq(T) /\ before \in Nat /\ last \in Nat OBVIOUS
  <2> QED BY ONLY <1>3, <1>4, <1>6, <2>1, PagesDecode
<1> QED BY <1>5, <1>8

\* The pages up to n have been read and hold no match.
Misses(n, seen) ==
  \A p \in 1 .. n : seen["index"][p] # 0 /\ FirstWanted(Items("index", p, seen)) = None

\* A match in a run of pages, none in the pages before it, all of one state:
\* it is the state's first.
LEMMA MatchIsFirst ==
  ASSUME NEW T, NEW before \in Nat, NEW first \in Nat, first = before + 1,
         NEW last \in Nat, first <= last, NEW seen,
         NEW items \in Seq(T), Shows("index", 1, last, seen, items), Misses(before, seen),
         FirstWanted(InPageOrder("index", first, last, seen)) # None
  PROVE  FirstWanted(Decoded(items)) = FirstWanted(InPageOrder("index", first, last, seen))
<1> DEFINE R == InPageOrder("index", first, last, seen)
           U == Decoded(Upto(items, before))
<1>1. \A p \in first .. last : states["index"][seen["index"][p]] = items
  <2>1. \A p \in first .. last : p \in 1 .. last OBVIOUS
  <2> QED BY <2>1 DEF Shows
<1>2. \A p \in first .. last : states["index"][seen["index"][p]] \in Seq(T) BY <1>1
<1>4. first \in Nat \ {0} /\ \A p \in 1 .. before : p \in 1 .. last OBVIOUS
<1>3. R \in Seq(T) BY <1>2, <1>4, RunOfPages
<1>5. \A p \in 1 .. before : FirstWanted(Decoded(Page(items, p))) = None BY <1>4 DEF Items, Shows, Misses
<1>6. FirstWanted(U) = None BY <1>4, <1>5, PagesMiss
<1>7. U \in Seq(T) BY <1>4, PageOf, DecodedKeeps
<1>8. Decoded(Upto(items, last)) = U \o R
  <2>1. Shows("index", first, last, seen, items) BY <1>1 DEF Shows
  <2>2. Decoded(Upto(items, last))
          = Joined(Decoded(Upto(items, before)), InPageOrder("index", first, last, seen))
    <3> HIDE DEF R, U
    <3> QED BY <2>1, RunOfState
  <2> QED BY <2>2 DEF Joined
<1>9. FirstWanted(R) # None OBVIOUS
<1> HIDE DEF R, U
<1>10. FirstWanted(U \o R) = FirstWanted(R) BY <1>3, <1>6, <1>7, SearchConcat
<1>11. FirstWanted(Decoded(Upto(items, last))) # None BY <1>8, <1>9, <1>10
<1>12. FirstWanted(Decoded(items)) = FirstWanted(Decoded(Upto(items, last))) BY <1>11, PagesMatch
<1> QED BY <1>8, <1>10, <1>12 DEF R

\* No match in any page of a state: the state has none.
LEMMA MissIsNone ==
  ASSUME NEW T, NEW last \in Nat, NEW seen, NEW items \in Seq(T), PageCount(items) <= last,
         Shows("index", 1, last, seen, items), Misses(last, seen)
  PROVE  FirstWanted(Decoded(items)) = None
<1>1. \A p \in 1 .. last : FirstWanted(Decoded(Page(items, p))) = None BY DEF Items, Shows, Misses
<1>2. FirstWanted(Decoded(Upto(items, last))) = None BY <1>1, PagesMiss
<1>3. Upto(items, last) = items BY PagesEnd
<1> QED BY <1>2, <1>3

\* Every page of a state, in order, is the state.
LEMMA AllPages ==
  ASSUME NEW T, NEW l, NEW last \in Nat \ {0}, NEW seen, NEW items \in Seq(T),
         PageCount(items) <= last, Shows(l, 1, last, seen, items)
  PROVE  InPageOrder(l, 1, last, seen) = Decoded(items)
<1> DEFINE R == InPageOrder(l, 1, last, seen)
<1>1. 1 \in Nat \ {0} /\ 1 \in Nat /\ 1 <= last /\ last \in Nat /\ 0 \in Nat /\ 1 = 0 + 1 OBVIOUS
<1>2. R \in Seq(T)
  <2>1. \A p \in 1 .. last : states[l][seen[l][p]] \in Seq(T) BY DEF Shows
  <2> QED BY <1>1, <2>1, RunOfPages
<1>3. Decoded(Upto(items, last)) = Decoded(Upto(items, 0)) \o R
  <2>0. PICK z \in Nat, o \in Nat : z = 0 /\ o = 1 OBVIOUS
  <2>1. o = z + 1 /\ o <= last /\ last \in Nat /\ items \in Seq(T) BY <2>0
  <2>2. Shows(l, o, last, seen, items) BY <2>0 DEF Shows
  <2> HIDE DEF R
  <2>3. Decoded(Upto(items, last)) = Joined(Decoded(Upto(items, z)), InPageOrder(l, o, last, seen))
    <3>1. z \in Nat /\ o \in Nat OBVIOUS
    <3> QED BY ONLY <2>1, <2>2, <3>1, RunOfState
  <2> QED BY <2>0, <2>3 DEF R, Joined
<1>4. Decoded(Upto(items, 0)) = <<>> BY PagesStart, DecodedEmpty
<1>5. Upto(items, last) = items BY PagesEnd
<1> HIDE DEF R
<1>6. <<>> \o R = R BY <1>2, ConcatEmptySeq
<1> QED BY <1>1, <1>3, <1>4, <1>5, <1>6 DEF R

\* The first page alone.
LEMMA OnePage ==
  ASSUME NEW T, NEW l, NEW seen, states[l][seen[l][1]] \in Seq(T)
  PROVE  InPageOrder(l, 1, 1, seen) = Items(l, 1, seen)
<1> DEFINE F == [i \in 1 .. 1 |-> Items(l, 1, seen)]
<1>1. 1 \in Nat \ {0} /\ 1 \in Nat /\ 0 \in 0 .. 1 - 1 /\ 0 + 1 = 1 OBVIOUS
<1>2. Items(l, 1, seen) \in Seq(T) BY <1>1, ItemsOf
<1>3. F \in [1 .. 1 -> Seq(T)] BY <1>2
<1>4. InPageOrder(l, 1, 1, seen) = Run(F, 1)
  <2>1. [i \in 1 .. 1 + 1 - 1 |-> Items(l, 1 + i - 1, seen)] = [i \in 1 .. 1 |-> F[i]]
    <3>1. 1 + 1 - 1 = 1 /\ \A i \in 1 .. 1 : 1 + i - 1 = 1 OBVIOUS
    <3> QED BY <3>1
  <2> QED BY <2>1 DEF Run, InPageOrder
<1>5. F[1] = Items(l, 1, seen) OBVIOUS
<1> HIDE DEF F
<1>6. Run(F, 0) = <<>> /\ Run(F, 0 + 1) = Run(F, 0) \o F[0 + 1] BY <1>1, <1>3, RunGrows
<1>7. <<>> \o F[1] = F[1] BY <1>2, <1>5, ConcatEmptySeq
<1> HIDE DEF Run
<1> QED BY <1>1, <1>4, <1>5, <1>6, <1>7

-----------------------------------------------------------------------------
(* Pages and batches of pages are numbered within bounds.                  *)

LEMMA QuotientGrows ==
  ASSUME NEW a \in Nat, NEW b \in Nat, a <= b, NEW d \in Nat \ {0}
  PROVE  a \div d <= b \div d
<1> DEFINE q == a \div d
           r == b \div d
<1>1. q \in Nat /\ q * d <= a BY Quotient
<1>2. r \in Nat /\ b < r * d + d BY Quotient
<1> HIDE DEF q, r
<1>3. ASSUME r + 1 <= q PROVE FALSE
  <2>1. (r + 1) * d <= q * d BY <1>1, <1>2, <1>3
  <2>2. (r + 1) * d = r * d + d /\ r * d \in Nat /\ q * d \in Nat BY <1>1, <1>2
  <2> QED BY <1>1, <1>2, <2>1, <2>2
<1> QED BY <1>1, <1>2, <1>3 DEF q, r

LEMMA QuotientIs ==
  ASSUME NEW a \in Nat, NEW d \in Nat \ {0}, NEW k \in Nat, k * d <= a, a < k * d + d
  PROVE  a \div d = k
<1> DEFINE q == a \div d
<1>1. q \in Nat /\ q * d <= a /\ a < q * d + d BY Quotient
<1> HIDE DEF q
<1>2. ASSUME k + 1 <= q PROVE FALSE
  <2>1. (k + 1) * d <= q * d BY <1>1, <1>2
  <2>2. (k + 1) * d = k * d + d /\ k * d \in Nat /\ q * d \in Nat BY <1>1
  <2> QED BY <1>1, <2>1, <2>2
<1>3. ASSUME q + 1 <= k PROVE FALSE
  <2>1. (q + 1) * d <= k * d BY <1>1, <1>3
  <2>2. (q + 1) * d = q * d + d /\ k * d \in Nat /\ q * d \in Nat BY <1>1
  <2> QED BY <1>1, <2>1, <2>2
<1> QED BY <1>1, <1>2, <1>3 DEF q

MaxPage == (MaxLength + Per - 1) \div Per

LEMMA PagesBounded ==
  /\ MaxPage \in Nat \ {0} /\ PageNo = 1 .. MaxPage
  /\ \A T : \A items \in Seq(T) :
       Len(items) <= MaxLength => PageCount(items) \in Nat /\ PageCount(items) <= MaxPage
<1>1. Per \in Nat \ {0} /\ MaxLength \in Nat \ {0} BY ArenaAssumption
<1>2. MaxLength + Per - 1 \in Nat /\ Per <= MaxLength + Per - 1 BY <1>1
<1>3. MaxPage \in Nat BY <1>1, <1>2, Quotient DEF MaxPage
<1>4. MaxPage # 0
  <2>1. Per \div Per <= MaxPage BY <1>1, <1>2, QuotientGrows DEF MaxPage
  <2>2. 1 \in Nat /\ Per \in Nat /\ 1 * Per <= Per /\ Per < 1 * Per + Per BY <1>1
  <2>3. Per \div Per = 1 BY <1>1, <2>2, QuotientIs
  <2> QED BY <1>3, <2>1, <2>3
<1>5. ASSUME NEW T, NEW items \in Seq(T), Len(items) <= MaxLength
      PROVE  PageCount(items) \in Nat /\ PageCount(items) <= MaxPage
  <2>1. Len(items) \in Nat BY LenProperties
  <2> DEFINE a == Len(items) + Per - 1
             b == MaxLength + Per - 1
  <2>2. a \in Nat /\ b \in Nat /\ a <= b BY <1>1, <1>5, <2>1
  <2> HIDE DEF a, b
  <2>3. a \div Per \in Nat /\ a \div Per <= b \div Per BY <1>1, <2>2, Quotient, QuotientGrows
  <2> QED BY <2>3 DEF a, b, PageCount, MaxPage
<1> QED BY <1>3, <1>4, <1>5 DEF PageNo, MaxPage

LEMMA BatchGrows ==
  ASSUME NEW p \in Nat \ {0}, NEW q \in Nat \ {0}
  PROVE  /\ Batch(p) \in Nat /\ Batch(q) \in Nat
         /\ p <= q => Batch(p) <= Batch(q)
<1>1. Concurrency \in Nat \ {0} BY ArenaAssumption
<1>2. ASSUME NEW n \in Nat \ {0} PROVE Batch(n) \in Nat /\ (n # 1 => Batch(n) >= 1)
  <2>1. CASE n = 1 BY <2>1 DEF Batch
  <2>2. CASE n # 1
    <3>1. n - 2 \in Nat BY <2>2
    <3>2. (n - 2) \div Concurrency \in Nat BY <1>1, <3>1, Quotient
    <3> QED BY <2>2, <3>2 DEF Batch
  <2> QED BY <2>1, <2>2
<1>3. ASSUME p <= q, p # 1 PROVE Batch(p) <= Batch(q)
  <2>1. p - 2 \in Nat /\ q - 2 \in Nat /\ p - 2 <= q - 2 /\ q # 1 BY <1>3
  <2>2. (p - 2) \div Concurrency <= (q - 2) \div Concurrency BY <1>1, <2>1, QuotientGrows
  <2>3. (p - 2) \div Concurrency \in Nat /\ (q - 2) \div Concurrency \in Nat
    BY <1>1, <2>1, Quotient
  <2> QED BY <1>3, <2>1, <2>2, <2>3 DEF Batch
<1>4. ASSUME p = 1 PROVE Batch(p) <= Batch(q)
  <2>1. Batch(p) = 0 BY <1>4 DEF Batch
  <2> QED BY <1>2, <2>1
<1> QED BY <1>2, <1>3, <1>4

LEMMA OneBatch ==
  ASSUME NEW k \in Nat, NEW p \in Nat,
         2 + k * Concurrency <= p, p <= 2 + k * Concurrency + Concurrency - 1
  PROVE  Batch(p) = 1 + k
<1>1. Concurrency \in Nat \ {0} /\ k * Concurrency \in Nat BY ArenaAssumption
<1>2. p - 2 \in Nat /\ k * Concurrency <= p - 2 /\ p - 2 < k * Concurrency + Concurrency /\ p # 1
  BY <1>1
<1>3. (p - 2) \div Concurrency = k BY <1>1, <1>2, QuotientIs
<1> QED BY <1>2, <1>3 DEF Batch

-----------------------------------------------------------------------------
(* The inductive invariant: what has been read where getEntry is.          *)

Item == Channel \cup Block

Shape ==
  /\ states \in [List -> Seq(Seq(Item))]
  /\ read \in [List -> [PageNo -> Nat]]

FirstOK == pc = "first" => \A l \in List, p \in PageNo : read[l][p] = 0

\* A batch starts on a batch's boundary; what is before it was searched in vain
\* and what is behind it has not been read.
BatchOK ==
  pc = "batch" =>
    /\ 2 <= from /\ from <= TotalPages("index", read)
    /\ \E k \in Nat : from = 2 + k * Concurrency
    /\ Misses(from - 1, read)
    /\ \A p \in PageNo : p > LastOfBatch => read["index"][p] = 0

RestOK ==
  /\ pc \in {"batch", "blocks"} => \A l \in Wanted, p \in PageNo : read[l][p] = 0
  /\ pc = "rest" => /\ read[entry][1] # 0 /\ TotalPages(entry, read) > 1
                    /\ \A p \in PageNo : p > TotalPages(entry, read) => read[entry][p] = 0

IInv ==
  /\ TypeOK /\ Shape /\ FirstOK /\ BatchOK /\ RestOK
  /\ FoundIsFirst /\ BlocksWhole /\ ReadsStopAtMatch

-----------------------------------------------------------------------------
(* What follows from pages read, for any record of reads.                  *)

Seen(seen) ==
  /\ seen \in [List -> [PageNo -> Nat]]
  /\ \A l \in List, p \in PageNo : seen[l][p] \in 0 .. Len(states[l])

Shown(l, seen) == {seen[l][p] : p \in {p \in PageNo : seen[l][p] # 0}}

\* c is what the one state shown holds first.
FirstIs(seen, c) ==
  \A v \in Shown("index", seen) :
    Shown("index", seen) = {v} => c = FirstWanted(Decoded(states["index"][v]))

WholeIn(l, seen, items) ==
  /\ \A v \in Shown(l, seen) : Shown(l, seen) = {v} => items = Decoded(states[l][v])
  /\ ToSet(items) \subseteq UNION {ToSet(states[l][v]) : v \in Shown(l, seen)}

Stops(seen) ==
  \A p \in PageNo, q \in PageNo :
    seen["index"][q] # 0 /\ Batch(p) < Batch(q) =>
      seen["index"][p] # 0 /\ FirstWanted(Items("index", p, seen)) = None

LEMMA Lists ==
  /\ "index" \in List /\ Wanted \subseteq List /\ "index" \notin Wanted
  /\ Listable("index") = Channel /\ \A l \in Wanted : Listable(l) = Block
  /\ \A l \in List : Listable(l) \subseteq Item
BY ArenaAssumption DEF List, Listable, Item

LEMMA SeenNow ==
  ASSUME TypeOK, Shape
  PROVE  Seen(read)
BY DEF TypeOK, Shape, Seen

LEMMA StateOf ==
  ASSUME TypeOK, Shape, NEW seen, Seen(seen), NEW l \in List, NEW p \in PageNo, seen[l][p] # 0
  PROVE  /\ seen[l][p] \in 1 .. Len(states[l])
         /\ states[l][seen[l][p]] \in Seq(Listable(l)) /\ states[l][seen[l][p]] \in Seq(Item)
         /\ Len(states[l][seen[l][p]]) <= MaxLength
         /\ PageCount(states[l][seen[l][p]]) \in Nat
         /\ PageCount(states[l][seen[l][p]]) <= MaxPage
<1>1. Len(states[l]) \in Nat
  <2>1. states[l] \in Seq(Seq(Item)) BY DEF Shape
  <2> QED BY <2>1, LenProperties
<1>2. seen[l][p] \in 1 .. Len(states[l]) BY <1>1 DEF Seen
<1> DEFINE items == states[l][seen[l][p]]
<1>3. items \in Seq(Listable(l)) /\ Len(items) <= MaxLength BY <1>2 DEF TypeOK
<1>4. items \in Seq(Item)
  <2>1. Listable(l) \subseteq Item BY Lists
  <2> HIDE DEF items
  <2> QED BY <1>3, <2>1, SeqMonotonic
<1> HIDE DEF items
<1>5. PageCount(items) \in Nat /\ PageCount(items) <= MaxPage BY <1>3, <1>4, PagesBounded
<1> QED BY <1>2, <1>3, <1>4, <1>5 DEF items

\* The pages before the batch were searched in vain, those behind it not read.
LEMMA StopsThere ==
  ASSUME NEW seen, NEW before \in Nat, NEW last \in Nat,
         \A p \in PageNo : p > last => seen["index"][p] = 0,
         Misses(before, seen),
         \/ before = 0 /\ last = 1
         \/ \E k \in Nat : /\ before + 1 = 2 + k * Concurrency
                          /\ last <= 2 + k * Concurrency + Concurrency - 1
  PROVE  Stops(seen)
<1> SUFFICES ASSUME NEW p \in PageNo, NEW q \in PageNo,
                    seen["index"][q] # 0, Batch(p) < Batch(q), p \notin 1 .. before
             PROVE  FALSE
  BY DEF Stops, Misses
<1>1. p \in Nat \ {0} /\ q \in Nat \ {0} /\ PageNo = 1 .. MaxPage /\ MaxPage \in Nat BY PagesBounded
<1>2. p < q
  <2>1. CASE q <= p
    <3>1. Batch(q) <= Batch(p) /\ Batch(p) \in Nat /\ Batch(q) \in Nat BY <1>1, <2>1, BatchGrows
    <3> QED BY <3>1
  <2> QED BY <1>1, <2>1
<1>3. before + 1 <= p /\ q <= last BY <1>1
<1>4. CASE before = 0 /\ last = 1 BY <1>1, <1>2, <1>3, <1>4
<1>5. CASE \E k \in Nat : /\ before + 1 = 2 + k * Concurrency
                          /\ last <= 2 + k * Concurrency + Concurrency - 1
  <2>1. PICK k \in Nat : /\ before + 1 = 2 + k * Concurrency
                         /\ last <= 2 + k * Concurrency + Concurrency - 1
    BY <1>5
  <2>2. k * Concurrency \in Nat /\ Concurrency \in Nat BY ArenaAssumption
  <2>3. /\ 2 + k * Concurrency <= p /\ p <= 2 + k * Concurrency + Concurrency - 1
        /\ 2 + k * Concurrency <= q /\ q <= 2 + k * Concurrency + Concurrency - 1
    BY <1>1, <1>2, <1>3, <2>1, <2>2
  <2>4. Batch(p) = 1 + k /\ Batch(q) = 1 + k BY <1>1, <2>3, OneBatch
  <2> QED BY <2>4
<1> QED BY <1>4, <1>5

\* A run of index pages searched after pages without a match.
LEMMA SearchIsFirst ==
  ASSUME TypeOK, Shape, NEW seen, Seen(seen), NEW before \in Nat, NEW first \in Nat,
         first = before + 1, NEW last \in PageNo, first <= last,
         Misses(before, seen), \A p \in first .. last : seen["index"][p] # 0,
         NEW hit, hit = FirstWanted(InPageOrder("index", first, last, seen))
  PROVE  /\ hit # None => hit \in Wanted /\ FirstIs(seen, hit)
         /\ hit = None => Misses(last, seen)
         /\ hit = None /\ TotalPages("index", seen) <= last => FirstIs(seen, None)
<1>n. last \in Nat \ {0} /\ 1 .. last \subseteq PageNo BY PagesBounded
<1>i. "index" \in List BY Lists
<1>1. \A p \in 1 .. last : seen["index"][p] # 0
  <2>1. \A p \in 1 .. last : p \in 1 .. before \/ p \in first .. last BY <1>n
  <2> QED BY <2>1 DEF Misses
<1>2. \A p \in 1 .. last : states["index"][seen["index"][p]] \in Seq(Item)
  BY <1>1, <1>i, <1>n, StateOf
<1>3. first \in Nat \ {0} /\ last \in Nat /\ \A p \in first .. last : p \in 1 .. last BY <1>n
<1>4. /\ InPageOrder("index", first, last, seen) \in Seq(Item)
      /\ hit = None <=> \A p \in first .. last : FirstWanted(Items("index", p, seen)) = None
  <2>1. \A p \in first .. last : states["index"][seen["index"][p]] \in Seq(Item) BY <1>2, <1>3
  <2> DEFINE R == InPageOrder("index", first, last, seen)
  <2>2. /\ R \in Seq(Item)
        /\ (FirstWanted(R) = None)
             <=> \A p \in first .. last : FirstWanted(Items("index", p, seen)) = None
    <3>1. first \in Nat \ {0} /\ last \in Nat /\ first <= last BY <1>3
    <3> HIDE DEF R
    <3> QED BY ONLY <3>1, <2>1, RunOfPages DEF R
  <2> QED BY <2>2
<1>5. hit \in Wanted \cup {None} BY <1>4, SearchFinds
<1>6. hit = None => Misses(last, seen)
  <2> SUFFICES ASSUME hit = None, NEW p \in 1 .. last
               PROVE  FirstWanted(Items("index", p, seen)) = None
    BY <1>1 DEF Misses
  <2>1. p \in 1 .. before \/ p \in first .. last BY <1>n
  <2> QED BY <1>4, <2>1 DEF Misses
<1>7. ASSUME NEW v \in Shown("index", seen), Shown("index", seen) = {v}
      PROVE  /\ states["index"][v] \in Seq(Item)
             /\ \A p \in 1 .. last : states["index"][seen["index"][p]] = states["index"][v]
  <2>1. \A p \in 1 .. last : seen["index"][p] \in Shown("index", seen)
    BY <1>1, <1>n DEF Shown
  <2>2. \A p \in 1 .. last : seen["index"][p] = v BY <1>7, <2>1
  <2>3. 1 \in 1 .. last BY <1>n
  <2> QED BY <1>2, <2>2, <2>3
<1>8. hit # None => FirstIs(seen, hit)
  <2> SUFFICES ASSUME hit # None, NEW v \in Shown("index", seen), Shown("index", seen) = {v}
               PROVE  hit = FirstWanted(Decoded(states["index"][v]))
    BY DEF FirstIs
  <2> DEFINE items == states["index"][v]
  <2>1. items \in Seq(Item) /\ \A p \in 1 .. last : states["index"][seen["index"][p]] = items BY <1>7
  <2> HIDE DEF items
  <2>2. Shows("index", 1, last, seen, items) BY <2>1 DEF Shows
  <2>3. FirstWanted(Decoded(items)) = FirstWanted(InPageOrder("index", first, last, seen))
    <3>1. /\ before \in Nat /\ first \in Nat /\ first = before + 1 /\ last \in Nat /\ first <= last
          /\ FirstWanted(InPageOrder("index", first, last, seen)) # None
          /\ items \in Seq(Item) /\ Misses(before, seen)
      BY <1>n, <2>1
    <3> QED BY ONLY <2>2, <3>1, MatchIsFirst
  <2> QED BY <2>3 DEF items
<1>9. hit = None /\ TotalPages("index", seen) <= last => FirstIs(seen, None)
  <2> SUFFICES ASSUME hit = None, TotalPages("index", seen) <= last,
                      NEW v \in Shown("index", seen), Shown("index", seen) = {v}
               PROVE  FirstWanted(Decoded(states["index"][v])) = None
    BY DEF FirstIs
  <2> DEFINE items == states["index"][v]
  <2>1. items \in Seq(Item) /\ \A p \in 1 .. last : states["index"][seen["index"][p]] = items BY <1>7
  <2>2. PageCount(items) <= last
    <3>1. 1 \in 1 .. last BY <1>n
    <3>2. states["index"][seen["index"][1]] = items BY <2>1, <3>1
    <3> QED BY <3>2 DEF TotalPages
  <2> HIDE DEF items
  <2>3. Shows("index", 1, last, seen, items) /\ Misses(last, seen) BY <1>6, <2>1 DEF Shows
  <2>4. FirstWanted(Decoded(items)) = None
    <3>1. last \in Nat /\ items \in Seq(Item) BY <1>n, <2>1
    <3> QED BY ONLY <2>2, <2>3, <3>1, MissIsNone
  <2> QED BY <2>4 DEF items
<1> QED BY <1>5, <1>6, <1>8, <1>9

\* A channel's pages, all of them, make the answer.
LEMMA AnswerIsWhole ==
  ASSUME TypeOK, Shape, NEW seen, Seen(seen), NEW l \in Wanted, NEW last \in PageNo,
         TotalPages(l, seen) <= last, \A p \in 1 .. last : seen[l][p] # 0
  PROVE  /\ WholeIn(l, seen, InPageOrder(l, 1, last, seen))
         /\ ToSet(InPageOrder(l, 1, last, seen)) \subseteq Block \ Stray
<1> DEFINE R == InPageOrder(l, 1, last, seen)
<1>n. last \in Nat \ {0} /\ last \in Nat /\ 1 .. last \subseteq PageNo /\ 1 \in 1 .. last
      /\ 1 \in Nat \ {0} /\ 1 <= last
  BY PagesBounded
<1>i. l \in List /\ Listable(l) = Block BY Lists
<1>1. \A p \in 1 .. last : /\ states[l][seen[l][p]] \in Seq(Block)
                          /\ seen[l][p] \in Shown(l, seen)
  BY <1>i, <1>n, StateOf DEF Shown
<1>2. \A x \in ToSet(R) : \E p \in 1 .. last : x \in ToSet(states[l][seen[l][p]]) \ Stray
  BY <1>1, <1>n, RunOfPages
<1> HIDE DEF R
<1>3. ToSet(R) \subseteq UNION {ToSet(states[l][v]) : v \in Shown(l, seen)} BY <1>1, <1>2
<1>4. ToSet(R) \subseteq Block \ Stray
  <2> SUFFICES ASSUME NEW x \in ToSet(R) PROVE x \in Block \ Stray OBVIOUS
  <2>1. PICK p \in 1 .. last : x \in ToSet(states[l][seen[l][p]]) \ Stray BY <1>2
  <2> DEFINE items == states[l][seen[l][p]]
  <2>2. items \in Seq(Block) BY <1>1
  <2>3. x \in ToSet(items) BY <2>1
  <2> HIDE DEF items
  <2>4. DOMAIN items = 1 .. Len(items) BY <2>2, LenProperties
  <2>5. x \in Block BY <2>2, <2>3, <2>4, ElementOfSeq DEF ToSet
  <2> QED BY <2>1, <2>5
<1>5. ASSUME NEW v \in Shown(l, seen), Shown(l, seen) = {v}
      PROVE  R = Decoded(states[l][v])
  <2> DEFINE items == states[l][v]
  <2>1. \A p \in 1 .. last : seen[l][p] = v BY <1>1, <1>5
  <2>2. Shows(l, 1, last, seen, items) BY <2>1 DEF Shows
  <2>3. items \in Seq(Block) BY <1>1, <1>n, <2>1
  <2>4. PageCount(items) <= last BY <1>n, <2>2 DEF TotalPages, Shows
  <2> HIDE DEF items
  <2>5. InPageOrder(l, 1, last, seen) = Decoded(items)
    <3>1. last \in Nat \ {0} BY <1>n
    <3> QED BY ONLY <3>1, <2>2, <2>3, <2>4, AllPages
  <2> QED BY <2>5 DEF items, R
<1> QED BY <1>3, <1>4, <1>5 DEF WholeIn, R

-----------------------------------------------------------------------------
(* The steps of a request.                                                 *)

LEMMA AfterRead ==
  ASSUME TypeOK, Shape, NEW l \in List, NEW n \in PageNo, Reads(l, n)
  PROVE  /\ Seen(read') /\ read'[l][n] # 0
         /\ \A k \in List, p \in PageNo : k # l \/ p # n => read'[k][p] = read[k][p]
<1>1. PICK v \in DOMAIN states[l] : read' = [read EXCEPT ![l][n] = v] BY DEF Reads
<1>2. states[l] \in Seq(Seq(Item)) BY DEF Shape
<1>3. v \in 1 .. Len(states[l]) /\ Len(states[l]) \in Nat BY <1>1, <1>2, LenProperties
<1>4. read \in [List -> [PageNo -> Nat]] /\ read' \in [List -> [PageNo -> Nat]]
  BY <1>1, <1>3 DEF Shape
<1>5. read'[l][n] = v /\ \A k \in List, p \in PageNo : k # l \/ p # n => read'[k][p] = read[k][p]
  BY <1>1, <1>4
<1>6. \A k \in List, p \in PageNo : read[k][p] \in 0 .. Len(states[k]) BY DEF TypeOK
<1>7. \A k \in List, p \in PageNo : read'[k][p] \in 0 .. Len(states[k])
  <2> SUFFICES ASSUME NEW k \in List, NEW p \in PageNo PROVE read'[k][p] \in 0 .. Len(states[k])
    OBVIOUS
  <2>1. CASE k = l /\ p = n BY <1>3, <1>5, <2>1
  <2>2. CASE k # l \/ p # n BY <1>5, <1>6, <2>2
  <2> QED BY <2>1, <2>2
<1> QED BY <1>3, <1>4, <1>5, <1>7 DEF Seen

LEMMA ReadTypes ==
  ASSUME TypeOK, Shape, UNCHANGED <<states, edits, tries>>, Seen(read'),
         pc' \in {"first", "batch", "blocks", "rest"} \cup Ended, from' \in PageNo,
         entry' \in Wanted \cup {None},
         (entry' = None) = (pc' \in {"first", "batch", "missing"}),
         ToSet(blocks') \subseteq Block \ Stray
  PROVE  TypeOK' /\ Shape'
<1>1. states' = states /\ edits' = edits /\ tries' = tries OBVIOUS
<1>2. Shape' BY <1>1 DEF Shape, Seen
<1>3. /\ edits' \in 0 .. MaxEdits /\ tries' \in 0 .. Retries
      /\ \A l \in List : /\ Len(states'[l]) \in 1 .. edits' + 1
                         /\ \A v \in 1 .. Len(states'[l]) :
                              /\ states'[l][v] \in Seq(Listable(l))
                              /\ Len(states'[l][v]) <= MaxLength
  BY <1>1 DEF TypeOK
<1>4. \A l \in List, p \in PageNo : read'[l][p] \in 0 .. Len(states'[l]) BY <1>1 DEF Seen
<1> QED BY <1>2, <1>3, <1>4 DEF TypeOK

LEMMA Carried ==
  ASSUME states' = states
  PROVE  /\ FirstIs(read', entry') => FoundIsFirst'
         /\ Stops(read') => ReadsStopAtMatch'
         /\ WholeIn(entry', read', blocks') => BlocksWhole'
<1>1. ASSUME FirstIs(read', entry') PROVE FoundIsFirst'
  BY <1>1 DEF FirstIs, Shown, FoundIsFirst, Versions, SeenPages
<1>2. ASSUME Stops(read') PROVE ReadsStopAtMatch'
  BY <1>2 DEF Stops, ReadsStopAtMatch, SeenPages, Items
<1>3. ASSUME WholeIn(entry', read', blocks') PROVE BlocksWhole'
  BY <1>3 DEF WholeIn, Shown, BlocksWhole, Versions, SeenPages
<1> QED BY <1>1, <1>2, <1>3

\* A read of a channel changes nothing about the index.
LEMMA IndexAsBefore ==
  ASSUME NEW seen, \A p \in PageNo : seen["index"][p] = read["index"][p],
         ReadsStopAtMatch, pc \in {"blocks", "rest", "found", "missing"} => FoundIsFirst
  PROVE  /\ Stops(seen)
         /\ pc \in {"blocks", "rest", "found", "missing"} => FirstIs(seen, entry)
<1>1. Stops(seen) BY DEF Stops, ReadsStopAtMatch, SeenPages, Items
<1>2. Shown("index", seen) = Versions("index") BY DEF Shown, Versions, SeenPages
<1>3. ASSUME pc \in {"blocks", "rest", "found", "missing"} PROVE FirstIs(seen, entry)
  BY <1>2, <1>3 DEF FirstIs, FoundIsFirst
<1> QED BY <1>1, <1>3

LEMMA LastPage ==
  ASSUME NEW a \in Nat \ {0}, NEW t \in Nat, a <= t
  PROVE  LET m == Min({a + Concurrency - 1, t}) IN
         m \in Nat /\ a <= m /\ m <= t /\ m <= a + Concurrency - 1
         /\ (m < t => m = a + Concurrency - 1)
<1>1. Concurrency \in Nat \ {0} BY ArenaAssumption
<1> DEFINE b == a + Concurrency - 1
           m == Min({b, t})
<1>2. b \in Nat /\ a <= b BY <1>1
<1> HIDE DEF b
<1>3. m = IF b <= t THEN b ELSE t BY <1>2, LesserOf
<1> HIDE DEF m
<1> QED BY <1>2, <1>3 DEF b, m

LEMMA BatchAgain ==
  ASSUME states' = states, 2 <= from', from' <= TotalPages("index", read'),
         \E k \in Nat : from' = 2 + k * Concurrency, Misses(from' - 1, read'),
         \A p \in PageNo :
           p > Min({from' + Concurrency - 1, TotalPages("index", read')}) => read'["index"][p] = 0
  PROVE  BatchOK'
<1>1. TotalPages("index", read)' = TotalPages("index", read') BY DEF TotalPages
<1>2. Misses(from - 1, read)' BY DEF Misses, Items
<1>3. LastOfBatch' = Min({from' + Concurrency - 1, TotalPages("index", read')})
  BY <1>1 DEF LastOfBatch
<1> QED BY <1>1, <1>2, <1>3 DEF BatchOK

LEMMA FirstIndexKeeps ==
  ASSUME IInv, FirstIndexPage
  PROVE  IInv'
<1>0. TypeOK /\ Shape BY DEF IInv
<1>s. states' = states /\ edits' = edits /\ tries' = tries /\ blocks' = blocks /\ pc = "first"
  BY DEF FirstIndexPage
<1>n. /\ 1 \in PageNo /\ PageNo = 1 .. MaxPage /\ MaxPage \in Nat \ {0}
      /\ "index" \in List /\ Wanted \subseteq List /\ "index" \notin Wanted
  BY PagesBounded, Lists
<1>1. Reads("index", 1) BY DEF FirstIndexPage
<1>2. /\ Seen(read') /\ read'["index"][1] # 0
      /\ \A k \in List, p \in PageNo : k # "index" \/ p # 1 => read'[k][p] = read[k][p]
  BY <1>0, <1>1, <1>n, AfterRead
<1>3. \A k \in List, p \in PageNo : k # "index" \/ p # 1 => read'[k][p] = 0
  BY <1>2, <1>s DEF IInv, FirstOK
<1>4. entry = None /\ from \in PageNo /\ ToSet(blocks) \subseteq Block \ Stray
  BY <1>0, <1>s DEF TypeOK
<1> DEFINE t == TotalPages("index", read')
           hit == FirstWanted(Items("index", 1, read'))
<1>5. t \in Nat /\ t <= MaxPage /\ states["index"][read'["index"][1]] \in Seq(Item)
  BY <1>0, <1>2, <1>n, StateOf DEF TotalPages
<1>z. PICK z \in Nat, o \in Nat : z = 0 /\ o = 1 OBVIOUS
<1>6. Stops(read')
  <2>1. \A p \in PageNo : p > o => read'["index"][p] = 0 BY <1>3, <1>n, <1>z
  <2>2. Misses(z, read') BY <1>z DEF Misses
  <2> QED BY <1>z, <2>1, <2>2, StopsThere
<1>7. hit = FirstWanted(InPageOrder("index", 1, 1, read')) BY <1>5, OnePage
<1>8. /\ hit # None => hit \in Wanted /\ FirstIs(read', hit)
      /\ hit = None => Misses(o, read')
      /\ hit = None /\ t <= o => FirstIs(read', None)
  <2>1. o = z + 1 /\ o \in PageNo /\ o <= o BY <1>z, <1>n
  <2>2. Misses(z, read') BY <1>z DEF Misses
  <2>3. \A p \in o .. o : read'["index"][p] # 0 BY <1>2, <1>z
  <2>4. hit = FirstWanted(InPageOrder("index", o, o, read')) BY <1>7, <1>z
  <2>5. z \in Nat /\ o \in Nat OBVIOUS
  <2> HIDE DEF hit
  <2>6. t = TotalPages("index", read') OBVIOUS
  <2> HIDE DEF t
  <2> QED BY ONLY <1>0, <1>2, <2>1, <2>2, <2>3, <2>4, <2>5, <2>6, SearchIsFirst
<1>9. \/ hit # None /\ Matched(hit)
      \/ hit = None /\ t > 1 /\ SearchOn(2)
      \/ hit = None /\ t <= 1 /\ Missed
  BY DEF FirstIndexPage
<1>w. \A l \in Wanted, p \in PageNo : read'[l][p] = 0 BY <1>3, <1>n
<1>10. CASE hit # None /\ Matched(hit)
  <2>1. entry' = hit /\ pc' = "blocks" /\ from' = from BY <1>10 DEF Matched
  <2>2. hit \in Wanted /\ FirstIs(read', entry') BY <1>8, <1>10, <2>1
  <2>3. TypeOK' /\ Shape'
    <3>1. hit \in Wanted \cup {None} /\ hit # None BY <1>10, <2>2
    <3> HIDE DEF hit
    <3> QED BY <1>0, <1>2, <1>4, <1>s, <2>1, <3>1, ReadTypes
  <2>4. FoundIsFirst' /\ ReadsStopAtMatch' BY <1>6, <1>s, <2>2, Carried
  <2>5. FirstOK' /\ BatchOK' /\ BlocksWhole' BY <2>1 DEF FirstOK, BatchOK, BlocksWhole
  <2>6. RestOK' BY <1>w, <2>1 DEF RestOK
  <2> QED BY <2>3, <2>4, <2>5, <2>6 DEF IInv
<1>11. CASE hit = None /\ t > 1 /\ SearchOn(2)
  <2>1. entry' = None /\ pc' = "batch" /\ from' = 2 BY <1>4, <1>11 DEF SearchOn
  <2>2. 2 \in PageNo BY <1>5, <1>11, <1>n
  <2>3. TypeOK' /\ Shape' BY <1>0, <1>2, <1>4, <1>s, <2>1, <2>2, ReadTypes
  <2>4. FoundIsFirst' BY <2>1 DEF FoundIsFirst
  <2>5. ReadsStopAtMatch' BY <1>6, <1>s, Carried
  <2>6. FirstOK' /\ BlocksWhole' BY <2>1 DEF FirstOK, BlocksWhole
  <2>7. RestOK' BY <1>w, <2>1 DEF RestOK
  <2>8. BatchOK'
    <3>1. 2 <= from' /\ from' <= TotalPages("index", read') BY <1>5, <1>11, <2>1
    <3>2. \E k \in Nat : from' = 2 + k * Concurrency
      <4>1. from' = 2 + 0 * Concurrency BY <2>1, ArenaAssumption
      <4> QED BY <4>1
    <3>3. Misses(from' - 1, read')
      <4>1. from' - 1 = o BY <2>1, <1>z
      <4> QED BY <1>8, <1>11, <4>1
    <3>4. ASSUME NEW p \in PageNo,
                 p > Min({from' + Concurrency - 1, TotalPages("index", read')})
          PROVE  read'["index"][p] = 0
      <4> DEFINE m == Min({2 + Concurrency - 1, t})
      <4>1. 2 \in Nat \ {0} /\ 2 <= t BY <1>5, <1>11
      <4>2. m \in Nat /\ 2 <= m
        <5> HIDE DEF t
        <5> QED BY <1>5, <4>1, LastPage
      <4>3. p > m BY <2>1, <3>4
      <4> HIDE DEF m
      <4>4. p # 1 BY <1>n, <4>2, <4>3
      <4> QED BY <1>3, <1>n, <4>4
    <3> QED BY <1>s, <3>1, <3>2, <3>3, <3>4, BatchAgain
  <2> QED BY <2>3, <2>4, <2>5, <2>6, <2>7, <2>8 DEF IInv
<1>12. CASE hit = None /\ t <= 1 /\ Missed
  <2>1. entry' = None /\ pc' = "missing" /\ from' = from BY <1>4, <1>12 DEF Missed
  <2>2. TypeOK' /\ Shape' BY <1>0, <1>2, <1>4, <1>s, <2>1, ReadTypes DEF Ended
  <2>3. FirstIs(read', entry') BY <1>8, <1>12, <1>z, <2>1
  <2>4. FoundIsFirst' /\ ReadsStopAtMatch' BY <1>6, <1>s, <2>3, Carried
  <2>5. FirstOK' /\ BatchOK' /\ BlocksWhole' /\ RestOK'
    BY <2>1 DEF FirstOK, BatchOK, BlocksWhole, RestOK
  <2> QED BY <2>2, <2>4, <2>5 DEF IInv
<1> QED BY <1>9, <1>10, <1>11, <1>12

LEMMA IndexKeeps ==
  ASSUME IInv, NEW n \in PageNo, IndexPage(n)
  PROVE  IInv'
<1>0. TypeOK /\ Shape BY DEF IInv
<1>s. states' = states /\ edits' = edits /\ tries' = tries /\ blocks' = blocks /\ pc = "batch"
  BY DEF IndexPage
<1>n. /\ 1 \in PageNo /\ PageNo = 1 .. MaxPage /\ MaxPage \in Nat \ {0}
      /\ "index" \in List /\ Wanted \subseteq List /\ "index" \notin Wanted
  BY PagesBounded, Lists
<1>b. /\ 2 <= from /\ from <= TotalPages("index", read)
      /\ Misses(from - 1, read)
      /\ \A p \in PageNo : p > LastOfBatch => read["index"][p] = 0
  BY <1>s DEF IInv, BatchOK
<1>k. PICK k \in Nat : from = 2 + k * Concurrency BY <1>s DEF IInv, BatchOK
<1>4. entry = None /\ from \in PageNo /\ ToSet(blocks) \subseteq Block \ Stray
  BY <1>0, <1>s DEF TypeOK
<1> DEFINE t == TotalPages("index", read')
           last == LastOfBatch
           before == from - 1
           hit == FirstWanted(InPageOrder("index", from, last, read'))
<1>1. Reads("index", n) /\ n \in from .. last BY DEF IndexPage
<1>2. /\ Seen(read') /\ read'["index"][n] # 0
      /\ \A j \in List, p \in PageNo : j # "index" \/ p # n => read'[j][p] = read[j][p]
  BY <1>0, <1>1, <1>n, AfterRead
<1>f. from \in Nat \ {0} /\ before \in Nat /\ from = before + 1 BY <1>4, <1>n
<1>3. n # 1 /\ 1 \in 1 .. before /\ 1 .. before \subseteq PageNo \ {n} BY <1>1, <1>4, <1>b, <1>n
<1>5. read'["index"][1] = read["index"][1] /\ read["index"][1] # 0 BY <1>2, <1>3, <1>b, <1>n DEF Misses
<1>6. t = TotalPages("index", read) BY <1>5 DEF TotalPages
<1>7. t \in Nat /\ t <= MaxPage BY <1>0, <1>2, <1>5, <1>n, StateOf DEF TotalPages
<1>8. last = Min({from + Concurrency - 1, t}) BY <1>6 DEF LastOfBatch
<1>9. /\ last \in Nat /\ from <= last /\ last <= t /\ last <= from + Concurrency - 1
      /\ (last < t => last = from + Concurrency - 1)
  <2>1. from <= t BY <1>6, <1>b
  <2> HIDE DEF t, last
  <2> QED BY <1>7, <1>8, <1>f, <2>1, LastPage
<1>10. last \in PageNo
  <2> HIDE DEF t, last
  <2> QED BY <1>7, <1>9, <1>f, <1>n
<1>11. Misses(before, read')
  <2> SUFFICES ASSUME NEW p \in 1 .. before
               PROVE  read'["index"][p] # 0 /\ FirstWanted(Items("index", p, read')) = None
    BY DEF Misses
  <2>1. read'["index"][p] = read["index"][p] BY <1>2, <1>3, <1>n
  <2> QED BY <1>b, <2>1 DEF Misses, Items
<1>12. \A p \in PageNo : p > last => read'["index"][p] = 0
  <2> SUFFICES ASSUME NEW p \in PageNo, p > last PROVE read'["index"][p] = 0 OBVIOUS
  <2>1. p # n BY <1>1, <1>9, <1>f, <1>n
  <2> QED BY <1>2, <1>b, <1>n, <2>1
<1>w. \A l \in Wanted, p \in PageNo : read'[l][p] = 0
  <2>1. \A l \in Wanted, p \in PageNo : read[l][p] = 0 BY <1>s DEF IInv, RestOK
  <2> QED BY <1>2, <1>n, <2>1
<1> HIDE DEF t, last, before
<1>13. Stops(read')
  <2>1. before + 1 = 2 + k * Concurrency /\ last <= 2 + k * Concurrency + Concurrency - 1
    BY <1>9, <1>f, <1>k
  <2> QED BY <1>9, <1>11, <1>12, <1>f, <2>1, StopsThere
<1>14. IF \E m \in from .. last : read'["index"][m] = 0
       THEN UNCHANGED <<pc, from, entry>>
       ELSE \/ hit # None /\ Matched(hit)
            \/ hit = None /\ last < t /\ SearchOn(last + 1)
            \/ hit = None /\ last = t /\ Missed
  BY <1>6 DEF IndexPage, last
<1>15. CASE \E m \in from .. last : read'["index"][m] = 0
  <2>1. pc' = "batch" /\ from' = from /\ entry' = None BY <1>4, <1>14, <1>15, <1>s
  <2>2. TypeOK' /\ Shape' BY <1>0, <1>2, <1>4, <1>s, <2>1, ReadTypes
  <2>3. ReadsStopAtMatch' BY <1>13, <1>s, Carried
  <2>4. FirstOK' /\ BlocksWhole' /\ FoundIsFirst' BY <2>1 DEF FirstOK, BlocksWhole, FoundIsFirst
  <2>5. RestOK' BY <1>w, <2>1 DEF RestOK
  <2>6. BatchOK'
    <3>1. 2 <= from' /\ from' <= TotalPages("index", read') BY <1>6, <1>b, <2>1 DEF t
    <3>2. \E j \in Nat : from' = 2 + j * Concurrency BY <1>k, <2>1
    <3>3. Misses(from' - 1, read') BY <1>11, <2>1 DEF before
    <3>4. Min({from' + Concurrency - 1, TotalPages("index", read')}) = last BY <1>8, <2>1 DEF t
    <3> QED BY <1>12, <1>s, <3>1, <3>2, <3>3, <3>4, BatchAgain
  <2> QED BY <2>2, <2>3, <2>4, <2>5, <2>6 DEF IInv
<1>16. CASE \A m \in from .. last : read'["index"][m] # 0
  <2>1. /\ hit # None => hit \in Wanted /\ FirstIs(read', hit)
        /\ hit = None => Misses(last, read')
        /\ hit = None /\ t <= last => FirstIs(read', None)
    <3>1. hit = FirstWanted(InPageOrder("index", from, last, read')) OBVIOUS
    <3>2. t = TotalPages("index", read') BY DEF t
    <3>3. from \in Nat /\ from <= last BY <1>9, <1>f
    <3> HIDE DEF hit
    <3> QED BY ONLY <1>0, <1>2, <1>10, <1>11, <1>16, <1>f, <3>1, <3>2, <3>3, SearchIsFirst
  <2>2. \/ hit # None /\ Matched(hit)
        \/ hit = None /\ last < t /\ SearchOn(last + 1)
        \/ hit = None /\ last = t /\ Missed
    BY <1>14, <1>16
  <2> HIDE DEF hit
  <2>3. CASE hit # None /\ Matched(hit)
    <3>1. entry' = hit /\ pc' = "blocks" /\ from' = from BY <2>3 DEF Matched
    <3>2. hit \in Wanted /\ FirstIs(read', entry') BY <2>1, <2>3, <3>1
    <3>3. TypeOK' /\ Shape' BY <1>0, <1>2, <1>4, <1>s, <2>3, <3>1, <3>2, ReadTypes
    <3>4. FoundIsFirst' /\ ReadsStopAtMatch' BY <1>13, <1>s, <3>2, Carried
    <3>5. FirstOK' /\ BatchOK' /\ BlocksWhole' BY <3>1 DEF FirstOK, BatchOK, BlocksWhole
    <3>6. RestOK' BY <1>w, <3>1 DEF RestOK
    <3> QED BY <3>3, <3>4, <3>5, <3>6 DEF IInv
  <2>4. CASE hit = None /\ last < t /\ SearchOn(last + 1)
    <3>1. entry' = None /\ pc' = "batch" /\ from' = last + 1 BY <1>4, <2>4 DEF SearchOn
    <3>2. last + 1 \in PageNo /\ last + 1 <= t BY <1>7, <1>9, <1>n, <2>4
    <3>3. TypeOK' /\ Shape' BY <1>0, <1>2, <1>4, <1>s, <3>1, <3>2, ReadTypes
    <3>4. ReadsStopAtMatch' BY <1>13, <1>s, Carried
    <3>5. FirstOK' /\ BlocksWhole' /\ FoundIsFirst' BY <3>1 DEF FirstOK, BlocksWhole, FoundIsFirst
    <3>6. RestOK' BY <1>w, <3>1 DEF RestOK
    <3>7. BatchOK'
      <4>1. 2 <= from' /\ from' <= TotalPages("index", read')
        BY <1>9, <1>b, <1>f, <3>1, <3>2 DEF t
      <4>2. \E j \in Nat : from' = 2 + j * Concurrency
        <5>1. last + 1 = from + Concurrency /\ Concurrency \in Nat BY <1>9, <1>f, <2>4, ArenaAssumption
        <5>2. (k + 1) * Concurrency = k * Concurrency + Concurrency /\ k * Concurrency \in Nat
          BY <5>1
        <5>3. from' = 2 + (k + 1) * Concurrency BY <1>k, <3>1, <5>1, <5>2
        <5> QED BY <5>3
      <4>3. Misses(from' - 1, read')
        <5>1. from' - 1 = last BY <1>9, <3>1
        <5> QED BY <2>1, <2>4, <5>1
      <4>4. ASSUME NEW p \in PageNo,
                   p > Min({from' + Concurrency - 1, TotalPages("index", read')})
            PROVE  read'["index"][p] = 0
        <5> DEFINE a == last + 1
                   m == Min({a + Concurrency - 1, t})
        <5>1. a \in Nat \ {0} /\ a <= t BY <1>9, <3>2
        <5>2. p > m BY <3>1, <4>4 DEF t
        <5>3. m \in Nat /\ a <= m
          <6> HIDE DEF a
          <6> QED BY <1>7, <5>1, LastPage
        <5> HIDE DEF m
        <5>4. p > last BY <1>9, <1>n, <5>2, <5>3
        <5> QED BY <1>12, <5>4
      <4> QED BY <1>s, <4>1, <4>2, <4>3, <4>4, BatchAgain
    <3> QED BY <3>3, <3>4, <3>5, <3>6, <3>7 DEF IInv
  <2>5. CASE hit = None /\ last = t /\ Missed
    <3>1. entry' = None /\ pc' = "missing" /\ from' = from BY <1>4, <2>5 DEF Missed
    <3>2. TypeOK' /\ Shape' BY <1>0, <1>2, <1>4, <1>s, <3>1, ReadTypes DEF Ended
    <3>3. FirstIs(read', entry') BY <1>7, <1>9, <2>1, <2>5, <3>1
    <3>4. FoundIsFirst' /\ ReadsStopAtMatch' BY <1>13, <1>s, <3>3, Carried
    <3>5. FirstOK' /\ BatchOK' /\ BlocksWhole' /\ RestOK'
      BY <3>1 DEF FirstOK, BatchOK, BlocksWhole, RestOK
    <3> QED BY <3>2, <3>4, <3>5 DEF IInv
  <2> QED BY <2>2, <2>3, <2>4, <2>5
<1> QED BY <1>15, <1>16

\* What reading a page of the channel found leaves as it was.
LEMMA BlockRead ==
  ASSUME IInv, pc \in {"blocks", "rest"}, NEW n \in PageNo, Reads(entry, n), states' = states,
         entry' = entry
  PROVE  /\ entry \in Wanted /\ from \in PageNo /\ ToSet(blocks) \subseteq Block \ Stray
         /\ Seen(read') /\ read'[entry][n] # 0
         /\ \A p \in PageNo : p # n => read'[entry][p] = read[entry][p]
         /\ (pc' \in {"rest", "found"} => FoundIsFirst') /\ ReadsStopAtMatch'
<1>0. TypeOK /\ Shape BY DEF IInv
<1>n. None \notin Wanted /\ Wanted \subseteq List /\ "index" \in List /\ "index" \notin Wanted
  BY Lists, ArenaAssumption
<1>1. entry \in Wanted /\ from \in PageNo /\ ToSet(blocks) \subseteq Block \ Stray BY <1>0 DEF TypeOK
<1>2. /\ Seen(read') /\ read'[entry][n] # 0
      /\ \A k \in List, p \in PageNo : k # entry \/ p # n => read'[k][p] = read[k][p]
  BY <1>0, <1>1, <1>n, AfterRead
<1>3. \A p \in PageNo : read'["index"][p] = read["index"][p] BY <1>1, <1>2, <1>n
<1>4. Stops(read') /\ FirstIs(read', entry) BY <1>3, IndexAsBefore DEF IInv
<1>5. FoundIsFirst' /\ ReadsStopAtMatch' BY <1>4, Carried
<1> QED BY <1>1, <1>2, <1>5, <1>n

LEMMA AnswerKeeps ==
  ASSUME TypeOK, Shape, Seen(read'), UNCHANGED <<states, edits, tries, from, entry>>,
         entry \in Wanted, from \in PageNo, NEW last \in PageNo, Answer(last),
         TotalPages(entry, read') <= last, \A p \in 1 .. last : read'[entry][p] # 0,
         FoundIsFirst', ReadsStopAtMatch'
  PROVE  IInv'
<1>1. pc' = "found" /\ blocks' = InPageOrder(entry, 1, last, read') BY DEF Answer
<1>2. /\ WholeIn(entry, read', blocks') /\ ToSet(blocks') \subseteq Block \ Stray
  BY <1>1, AnswerIsWhole
<1>3. BlocksWhole' BY <1>2, Carried
<1>4. entry' \in Wanted /\ entry' # None BY ArenaAssumption
<1>5. TypeOK' /\ Shape' BY <1>1, <1>2, <1>4, ReadTypes DEF Ended
<1>6. FirstOK' /\ BatchOK' /\ RestOK' BY <1>1 DEF FirstOK, BatchOK, RestOK
<1> QED BY <1>3, <1>5, <1>6 DEF IInv

LEMMA FirstBlockKeeps ==
  ASSUME IInv, FirstBlockPage
  PROVE  IInv'
<1>0. TypeOK /\ Shape BY DEF IInv
<1>s. /\ states' = states /\ edits' = edits /\ tries' = tries /\ from' = from /\ entry' = entry
      /\ pc = "blocks" /\ Reads(entry, 1)
  BY DEF FirstBlockPage
<1>n. 1 \in PageNo /\ PageNo = 1 .. MaxPage /\ MaxPage \in Nat \ {0} /\ Wanted \subseteq List
  BY PagesBounded, Lists
<1>1. /\ entry \in Wanted /\ from \in PageNo /\ ToSet(blocks) \subseteq Block \ Stray
      /\ Seen(read') /\ read'[entry][1] # 0
      /\ \A p \in PageNo : p # 1 => read'[entry][p] = read[entry][p]
      /\ (pc' \in {"rest", "found"} => FoundIsFirst') /\ ReadsStopAtMatch'
  BY <1>n, <1>s, BlockRead
<1>2. TotalPages(entry, read') \in Nat
  BY <1>0, <1>1, <1>n, StateOf DEF TotalPages
<1>3. CASE TotalPages(entry, read') <= 1
  <2>1. Answer(1) BY <1>3 DEF FirstBlockPage
  <2>2. \A p \in 1 .. 1 : read'[entry][p] # 0 BY <1>1
  <2>3. pc' = "found" BY <2>1 DEF Answer
  <2>4. UNCHANGED <<states, edits, tries, from, entry>> BY <1>s
  <2> QED BY <1>0, <1>1, <1>3, <1>n, <2>1, <2>2, <2>3, <2>4, AnswerKeeps
<1>4. CASE ~ (TotalPages(entry, read') <= 1)
  <2>1. pc' = "rest" /\ blocks' = blocks BY <1>4 DEF FirstBlockPage
  <2>2. entry' \in Wanted /\ entry' # None BY <1>1, <1>s, ArenaAssumption
  <2>3. TypeOK' /\ Shape' BY <1>0, <1>1, <1>s, <2>1, <2>2, ReadTypes
  <2>4. FirstOK' /\ BatchOK' /\ BlocksWhole' BY <2>1 DEF FirstOK, BatchOK, BlocksWhole
  <2>5. TotalPages(entry, read') > 1 BY <1>2, <1>4
  <2>6. \A p \in PageNo : p # 1 => read'[entry][p] = 0
    <3>1. \A p \in PageNo : read[entry][p] = 0 BY <1>1, <1>s DEF IInv, RestOK
    <3> QED BY <1>1, <3>1
  <2>7. TotalPages(entry, read)' = TotalPages(entry, read') BY <1>s DEF TotalPages
  <2>8. RestOK' BY <1>1, <1>n, <1>s, <1>2, <2>1, <2>5, <2>6, <2>7 DEF RestOK
  <2> QED BY <1>1, <2>1, <2>3, <2>4, <2>8 DEF IInv
<1> QED BY <1>3, <1>4

LEMMA BlockKeeps ==
  ASSUME IInv, NEW n \in PageNo, BlockPage(n)
  PROVE  IInv'
<1> DEFINE t == TotalPages(entry, read)
           unread == {m \in 2 .. t : read[entry][m] = 0}
<1>0. TypeOK /\ Shape BY DEF IInv
<1>s. /\ states' = states /\ edits' = edits /\ tries' = tries /\ from' = from /\ entry' = entry
      /\ pc = "rest" /\ Reads(entry, n) /\ n \in unread
      /\ IF unread = {n} THEN Answer(t) ELSE UNCHANGED <<pc, blocks>>
  BY DEF BlockPage
<1>n. 1 \in PageNo /\ PageNo = 1 .. MaxPage /\ MaxPage \in Nat \ {0} /\ Wanted \subseteq List
  BY PagesBounded, Lists
<1>1. /\ entry \in Wanted /\ from \in PageNo /\ ToSet(blocks) \subseteq Block \ Stray
      /\ Seen(read') /\ read'[entry][n] # 0
      /\ \A p \in PageNo : p # n => read'[entry][p] = read[entry][p]
      /\ (pc' \in {"rest", "found"} => FoundIsFirst') /\ ReadsStopAtMatch'
  BY <1>s, BlockRead
<1>2. /\ read[entry][1] # 0 /\ t > 1
      /\ \A p \in PageNo : p > t => read[entry][p] = 0
  BY <1>s DEF IInv, RestOK
<1>3. n # 1 /\ n <= t /\ read'[entry][1] = read[entry][1] BY <1>1, <1>n, <1>s
<1>4. TotalPages(entry, read') = t /\ t \in Nat /\ t <= MaxPage
  <2>1. TotalPages(entry, read') = t BY <1>3 DEF TotalPages
  <2>2. entry \in List /\ Seen(read) BY <1>0, <1>1, <1>n, SeenNow
  <2>3. t \in Nat /\ t <= MaxPage BY <1>0, <1>2, <1>n, <2>2, StateOf DEF TotalPages
  <2> QED BY <2>1, <2>3
<1> HIDE DEF t
<1>5. CASE unread = {n}
  <2>1. Answer(t) BY <1>5, <1>s
  <2>2. t \in PageNo /\ 1 .. t \subseteq PageNo BY <1>2, <1>4, <1>n
  <2>3. ASSUME NEW p \in 1 .. t PROVE read'[entry][p] # 0
    <3>1. CASE p = n BY <1>1, <3>1
    <3>2. CASE p = 1 BY <1>2, <1>3, <3>2
    <3>3. CASE p # n /\ p # 1
      <4>1. p \in 2 .. t /\ p \in PageNo BY <1>4, <2>2, <3>3
      <4>2. read[entry][p] # 0 BY <1>5, <3>3, <4>1
      <4> QED BY <1>1, <3>3, <4>1, <4>2
    <3> QED BY <3>1, <3>2, <3>3
  <2>4. pc' = "found" /\ TotalPages(entry, read') <= t BY <1>4, <2>1 DEF Answer
  <2>5. UNCHANGED <<states, edits, tries, from, entry>> BY <1>s
  <2> QED BY <1>0, <1>1, <2>1, <2>2, <2>3, <2>4, <2>5, AnswerKeeps
<1>6. CASE unread # {n}
  <2>1. pc' = "rest" /\ blocks' = blocks BY <1>6, <1>s
  <2>2. entry' \in Wanted /\ entry' # None BY <1>1, <1>s, ArenaAssumption
  <2>3. TypeOK' /\ Shape' BY <1>0, <1>1, <1>s, <2>1, <2>2, ReadTypes
  <2>4. FirstOK' /\ BatchOK' /\ BlocksWhole' BY <2>1 DEF FirstOK, BatchOK, BlocksWhole
  <2>5. \A p \in PageNo : p > t => read'[entry][p] = 0
    <3> SUFFICES ASSUME NEW p \in PageNo, p > t PROVE read'[entry][p] = 0 OBVIOUS
    <3>1. p # n BY <1>3, <1>4, <1>n
    <3> QED BY <1>1, <1>2, <3>1
  <2>6. TotalPages(entry, read)' = t BY <1>4, <1>s DEF TotalPages
  <2>7. RestOK' BY <1>2, <1>3, <1>s, <2>1, <2>5, <2>6 DEF RestOK
  <2> QED BY <1>1, <2>1, <2>3, <2>4, <2>7 DEF IInv
<1> QED BY <1>5, <1>6

\* A retry forgets every page; a request that failed keeps what it has.
LEMMA FailKeeps ==
  ASSUME IInv, ReadFails
  PROVE  IInv'
<1>0. TypeOK /\ Shape BY DEF IInv
<1>s. states' = states /\ edits' = edits /\ blocks' = blocks BY DEF ReadFails
<1>n. 1 \in PageNo BY PagesBounded
<1>1. CASE tries < Retries /\ RetryWith(tries + 1)
  <2>1. pc' = "first" /\ read' = Unread /\ from' = 1 /\ entry' = None /\ tries' = tries + 1
    BY <1>1 DEF RetryWith
  <2>2. tries' \in 0 .. Retries BY <1>0, <1>1, <2>1, ArenaAssumption DEF TypeOK
  <2>3. \A l \in List, p \in PageNo : read'[l][p] = 0 BY <2>1 DEF Unread
  <2>4. read' \in [List -> [PageNo -> Nat]] BY <2>1 DEF Unread
  <2>5. Shape' BY <1>0, <1>s, <2>4 DEF Shape
  <2>6. \A l \in List, p \in PageNo : read'[l][p] \in 0 .. Len(states'[l])
    <3> SUFFICES ASSUME NEW l \in List PROVE 0 \in 0 .. Len(states'[l]) BY <2>3
    <3>1. states'[l] \in Seq(Seq(Item)) BY <2>5 DEF Shape
    <3>2. Len(states'[l]) \in Nat BY <3>1, LenProperties
    <3> QED BY <3>2
  <2>7. TypeOK' BY <1>0, <1>n, <1>s, <2>1, <2>2, <2>6 DEF TypeOK
  <2>8. "index" \in List BY Lists
  <2>9. ReadsStopAtMatch' BY <2>3, <2>8 DEF ReadsStopAtMatch, SeenPages
  <2>10. BatchOK' /\ RestOK' /\ FoundIsFirst' /\ BlocksWhole'
    BY <2>1 DEF BatchOK, RestOK, FoundIsFirst, BlocksWhole
  <2>11. FirstOK' BY <2>3 DEF FirstOK
  <2> QED BY <2>5, <2>7, <2>9, <2>10, <2>11 DEF IInv
<1>2. CASE pc' = "failed" /\ UNCHANGED <<tries, read, from, entry>>
  <2>1. pc' = "failed" /\ tries' = tries /\ read' = read /\ from' = from /\ entry' = entry BY <1>2
  <2>2. Shape' BY <1>0, <1>s, <2>1 DEF Shape
  <2>3. TypeOK' BY <1>0, <1>s, <2>1 DEF TypeOK, Ended
  <2>4. Stops(read') BY <2>1, IndexAsBefore DEF IInv
  <2>5. ReadsStopAtMatch' BY <1>s, <2>4, Carried
  <2>6. FirstOK' /\ BatchOK' /\ RestOK' /\ FoundIsFirst' /\ BlocksWhole'
    BY <2>1 DEF FirstOK, BatchOK, RestOK, FoundIsFirst, BlocksWhole
  <2> QED BY <2>2, <2>3, <2>5, <2>6 DEF IInv
<1> QED BY <1>1, <1>2 DEF ReadFails

-----------------------------------------------------------------------------
(* The owner adds a state and takes none away.                             *)

LEMMA Inserted ==
  ASSUME NEW T, NEW s \in Seq(T), NEW e \in T, NEW i \in 1 .. Len(s) + 1
  PROVE  InsertAt(s, i, e) \in Seq(T) /\ Len(InsertAt(s, i, e)) = Len(s) + 1
<1> DEFINE a == SubSeq(s, 1, i - 1)
           b == <<e>>
           c == SubSeq(s, i, Len(s))
<1>1. Len(s) \in Nat /\ DOMAIN s = 1 .. Len(s) /\ i \in Nat \ {0} /\ i - 1 \in Nat BY LenProperties
<1>2. \A k \in 1 .. Len(s) : s[k] \in T BY ElementOfSeq
<1>3. a \in Seq(T) /\ Len(a) = i - 1
  <2>1. 1 \in Int /\ i - 1 \in Int /\ \A k \in 1 .. i - 1 : s[k] \in T BY <1>1, <1>2
  <2>2. a \in Seq(T) /\ Len(a) = IF 1 <= i - 1 THEN (i - 1) - 1 + 1 ELSE 0
    BY <2>1, SubSeqProperties
  <2> HIDE DEF a
  <2> QED BY <1>1, <2>2
<1>4. c \in Seq(T) /\ Len(c) = Len(s) + 1 - i
  <2>1. i \in Int /\ Len(s) \in Int /\ \A k \in i .. Len(s) : s[k] \in T BY <1>1, <1>2
  <2>2. c \in Seq(T) /\ Len(c) = IF i <= Len(s) THEN Len(s) - i + 1 ELSE 0
    BY <2>1, SubSeqProperties
  <2> HIDE DEF c
  <2> QED BY <1>1, <2>2
<1>5. b \in Seq(T) /\ Len(b) = 1 OBVIOUS
<1>6. InsertAt(s, i, e) = a \o b \o c BY DEF InsertAt
<1> HIDE DEF a, b, c
<1>7. a \o b \in Seq(T) /\ Len(a \o b) = i
  <2>1. a \o b \in Seq(T) /\ Len(a \o b) = Len(a) + Len(b) BY <1>3, <1>5, ConcatProperties
  <2>2. (i - 1) + 1 = i BY <1>1
  <2> QED BY <1>3, <1>5, <2>1, <2>2
<1>8. (a \o b) \o c \in Seq(T) /\ Len((a \o b) \o c) = Len(a \o b) + Len(c)
  BY <1>4, <1>7, ConcatProperties
<1> QED BY <1>1, <1>4, <1>6, <1>7, <1>8

LEMMA Removed ==
  ASSUME NEW T, NEW s \in Seq(T), NEW i \in 1 .. Len(s)
  PROVE  RemoveAt(s, i) \in Seq(T) /\ Len(RemoveAt(s, i)) = Len(s) - 1
<1> DEFINE a == SubSeq(s, 1, i - 1)
           c == SubSeq(s, i + 1, Len(s))
<1>1. Len(s) \in Nat /\ DOMAIN s = 1 .. Len(s) /\ i \in Nat \ {0} /\ i - 1 \in Nat BY LenProperties
<1>2. \A k \in 1 .. Len(s) : s[k] \in T BY ElementOfSeq
<1>3. a \in Seq(T) /\ Len(a) = i - 1
  <2>1. 1 \in Int /\ i - 1 \in Int /\ \A k \in 1 .. i - 1 : s[k] \in T BY <1>1, <1>2
  <2>2. a \in Seq(T) /\ Len(a) = IF 1 <= i - 1 THEN (i - 1) - 1 + 1 ELSE 0
    BY <2>1, SubSeqProperties
  <2> HIDE DEF a
  <2> QED BY <1>1, <2>2
<1>4. c \in Seq(T) /\ Len(c) = Len(s) - i
  <2>1. i + 1 \in Int /\ Len(s) \in Int /\ \A k \in i + 1 .. Len(s) : s[k] \in T BY <1>1, <1>2
  <2>2. c \in Seq(T) /\ Len(c) = IF i + 1 <= Len(s) THEN Len(s) - (i + 1) + 1 ELSE 0
    BY <2>1, SubSeqProperties
  <2> DEFINE n == Len(s)
  <2>3. n \in Nat /\ i \in 1 .. n /\ Len(c) = IF i + 1 <= n THEN n - (i + 1) + 1 ELSE 0 BY <1>1, <2>2
  <2> HIDE DEF c, n
  <2>4. Len(c) = n - i BY <2>3
  <2> QED BY <2>2, <2>4 DEF n
<1>6. RemoveAt(s, i) = a \o c BY DEF RemoveAt
<1> HIDE DEF a, c
<1>7. a \o c \in Seq(T) /\ Len(a \o c) = Len(a) + Len(c) BY <1>3, <1>4, ConcatProperties
<1> QED BY <1>1, <1>3, <1>4, <1>6, <1>7

LEMMA OwnerAppends ==
  ASSUME TypeOK, Shape, Owner
  PROVE  \E l \in List : \E items \in Seq(Listable(l)) :
           Len(items) <= MaxLength /\ Becomes(l, items)
<1>1. PICK l \in List, i \in 1 .. MaxLength :
        Disconnect(l, i) \/ \E item \in Listable(l) : Connect(l, item, i)
  BY DEF Owner
<1> DEFINE now == Last(states[l])
<1>2. now \in Seq(Listable(l)) /\ Len(now) <= MaxLength
  <2>1. Len(states[l]) \in 1 .. edits + 1 /\ edits \in Nat BY ArenaAssumption DEF TypeOK
  <2>2. Len(states[l]) \in 1 .. Len(states[l]) BY <2>1
  <2> QED BY <2>2 DEF TypeOK, Last
<1> HIDE DEF now
<1>3. CASE Disconnect(l, i)
  <2>1. i \in DOMAIN now /\ Becomes(l, RemoveAt(now, i)) BY <1>3 DEF Disconnect, now
  <2>2. i \in 1 .. Len(now) /\ Len(now) \in Nat BY <1>2, <2>1, LenProperties
  <2>3. RemoveAt(now, i) \in Seq(Listable(l)) /\ Len(RemoveAt(now, i)) = Len(now) - 1
    BY <1>2, <2>2, Removed
  <2>4. MaxLength \in Nat BY ArenaAssumption
  <2>5. Len(RemoveAt(now, i)) <= MaxLength BY <1>2, <2>2, <2>3, <2>4
  <2> QED BY <2>1, <2>3, <2>5
<1>4. CASE \E item \in Listable(l) : Connect(l, item, i)
  <2>1. PICK item \in Listable(l) : Connect(l, item, i) BY <1>4
  <2>2. Len(now) < MaxLength /\ i \in 1 .. Len(now) + 1 /\ Becomes(l, InsertAt(now, i, item))
    BY <2>1 DEF Connect, now
  <2>3. InsertAt(now, i, item) \in Seq(Listable(l)) /\ Len(InsertAt(now, i, item)) = Len(now) + 1
    BY <1>2, <2>2, Inserted
  <2>4. Len(now) \in Nat /\ MaxLength \in Nat BY <1>2, LenProperties, ArenaAssumption
  <2>5. Len(InsertAt(now, i, item)) <= MaxLength BY <2>2, <2>3, <2>4
  <2> QED BY <2>2, <2>3, <2>5
<1> QED BY <1>1, <1>3, <1>4

LEMMA OwnerKeeps ==
  ASSUME IInv, Owner
  PROVE  IInv'
<1>0. TypeOK /\ Shape BY DEF IInv
<1>1. PICK l \in List : \E items \in Seq(Listable(l)) : Len(items) <= MaxLength /\ Becomes(l, items)
  BY <1>0, OwnerAppends
<1>2. PICK items \in Seq(Listable(l)) : Len(items) <= MaxLength /\ Becomes(l, items) BY <1>1
<1>s. /\ pc' = pc /\ tries' = tries /\ read' = read /\ from' = from /\ entry' = entry
      /\ blocks' = blocks /\ edits' = edits + 1 /\ edits < MaxEdits
      /\ states' = [states EXCEPT ![l] = Append(@, items)]
  BY <1>2 DEF Becomes, requestVars
<1>t. states \in [List -> Seq(Seq(Item))] /\ items \in Seq(Item)
  <2>1. Listable(l) \subseteq Item BY Lists
  <2> QED BY <1>0, <2>1, SeqMonotonic DEF Shape
<1>3. /\ states'[l] = Append(states[l], items) /\ \A k \in List : k # l => states'[k] = states[k]
      /\ DOMAIN states' = List
  BY <1>s, <1>t
<1>4. states[l] \in Seq(Seq(Item)) BY <1>t
<1>5. /\ states'[l] \in Seq(Seq(Item)) /\ Len(states'[l]) = Len(states[l]) + 1
      /\ \A v \in 1 .. Len(states[l]) : states'[l][v] = states[l][v]
      /\ states'[l][Len(states[l]) + 1] = items
  BY <1>3, <1>4, <1>t, AppendProperties
<1>6. \A k \in List : Len(states[k]) \in Nat
  <2> SUFFICES ASSUME NEW k \in List PROVE Len(states[k]) \in Nat OBVIOUS
  <2>1. states[k] \in Seq(Seq(Item)) BY <1>t
  <2> QED BY <2>1, LenProperties
<1>7. \A k \in List : /\ Len(states'[k]) \in {Len(states[k]), Len(states[k]) + 1}
                     /\ \A v \in 1 .. Len(states[k]) : states'[k][v] = states[k][v]
  BY <1>3, <1>5
<1>8. Shape'
  <2>1. states' \in [List -> Seq(Seq(Item))] BY <1>s, <1>t, <1>3, <1>5
  <2> QED BY <1>0, <1>s, <2>1 DEF Shape
<1>9. TypeOK'
  <2>1. edits' \in 0 .. MaxEdits BY <1>0, <1>s, ArenaAssumption DEF TypeOK
  <2>2. ASSUME NEW k \in List
        PROVE  /\ Len(states'[k]) \in 1 .. edits' + 1
               /\ \A v \in 1 .. Len(states'[k]) :
                    states'[k][v] \in Seq(Listable(k)) /\ Len(states'[k][v]) <= MaxLength
               /\ \A p \in PageNo : read'[k][p] \in 0 .. Len(states'[k])
    <3>1. /\ Len(states[k]) \in 1 .. edits + 1 /\ edits \in Nat
          /\ \A v \in 1 .. Len(states[k]) :
               states[k][v] \in Seq(Listable(k)) /\ Len(states[k][v]) <= MaxLength
          /\ \A p \in PageNo : read[k][p] \in 0 .. Len(states[k])
      <4>1. edits \in 0 .. MaxEdits /\ MaxEdits \in Nat BY <1>0, ArenaAssumption DEF TypeOK
      <4>2. edits \in Nat BY <4>1
      <4> QED BY <1>0, <4>2 DEF TypeOK
    <3>2. Len(states'[k]) \in 1 .. edits' + 1 BY <1>7, <1>s, <3>1
    <3>3. ASSUME NEW v \in 1 .. Len(states'[k])
          PROVE  states'[k][v] \in Seq(Listable(k)) /\ Len(states'[k][v]) <= MaxLength
      <4>1. CASE v \in 1 .. Len(states[k]) BY <1>7, <3>1, <4>1
      <4>2. CASE v \notin 1 .. Len(states[k])
        <5>1. k = l BY <1>3, <4>2
        <5>2. v = Len(states[l]) + 1 BY <1>5, <1>6, <4>2, <5>1
        <5>3. states'[k][v] = items BY <1>5, <5>1, <5>2
        <5> QED BY <1>2, <5>1, <5>3
      <4> QED BY <4>1, <4>2
    <3>4. \A p \in PageNo : read'[k][p] \in 0 .. Len(states'[k]) BY <1>7, <1>6, <1>s, <3>1
    <3> QED BY <3>2, <3>3, <3>4
  <2> QED BY <1>0, <1>s, <2>1, <2>2 DEF TypeOK
<1>10. ASSUME NEW k \in List, NEW p \in PageNo, read[k][p] # 0
       PROVE  states'[k][read'[k][p]] = states[k][read[k][p]]
  <2>1. read[k][p] \in 1 .. Len(states[k]) BY <1>0, <1>10, SeenNow, StateOf
  <2> QED BY <1>7, <1>s, <2>1
<1>n. /\ 1 \in PageNo /\ PageNo = 1 .. MaxPage /\ MaxPage \in Nat \ {0}
      /\ "index" \in List /\ Wanted \subseteq List
  BY PagesBounded, Lists
<1>11. /\ \A p \in PageNo : read["index"][p] # 0 => Items("index", p, read)' = Items("index", p, read)
       /\ \A k \in List : read[k][1] # 0 => TotalPages(k, read)' = TotalPages(k, read)
  BY <1>10, <1>n, <1>s DEF Items, TotalPages
<1>12. FirstOK' BY <1>s DEF IInv, FirstOK
<1>13. BatchOK'
  <2> SUFFICES ASSUME pc = "batch" PROVE BatchOK' BY <1>s DEF BatchOK
  <2>1. /\ 2 <= from /\ from <= TotalPages("index", read)
        /\ \E k \in Nat : from = 2 + k * Concurrency
        /\ Misses(from - 1, read)
        /\ \A p \in PageNo : p > LastOfBatch => read["index"][p] = 0
    BY DEF IInv, BatchOK
  <2>2. from \in PageNo BY <1>0 DEF TypeOK
  <2>3. 1 \in 1 .. from - 1 /\ 1 .. from - 1 \subseteq PageNo BY <1>n, <2>1, <2>2
  <2>4. TotalPages("index", read)' = TotalPages("index", read) BY <1>11, <1>n, <2>1, <2>3 DEF Misses
  <2>5. Misses(from - 1, read)'
    <3>1. \A p \in 1 .. from - 1 :
            read["index"][p] # 0 /\ Items("index", p, read)' = Items("index", p, read)
      BY <1>11, <2>1, <2>3 DEF Misses
    <3> QED BY <1>s, <2>1, <3>1 DEF Misses
  <2>6. LastOfBatch' = LastOfBatch BY <1>s, <2>4 DEF LastOfBatch
  <2> QED BY <1>s, <2>1, <2>4, <2>5, <2>6 DEF BatchOK
<1>14. RestOK'
  <2>1. ASSUME pc = "rest" PROVE entry \in Wanted
    <3>1. entry \in Wanted \cup {None} /\ entry # None BY <1>0, <2>1 DEF TypeOK
    <3> QED BY <3>1
  <2>2. ASSUME pc = "rest"
        PROVE  /\ read'[entry'][1] # 0 /\ TotalPages(entry, read)' > 1
               /\ \A p \in PageNo : p > TotalPages(entry, read)' => read'[entry'][p] = 0
    <3>1. /\ read[entry][1] # 0 /\ TotalPages(entry, read) > 1
          /\ \A p \in PageNo : p > TotalPages(entry, read) => read[entry][p] = 0
      BY <2>2 DEF IInv, RestOK
    <3>2. states'[entry][read'[entry][1]] = states[entry][read[entry][1]]
      BY <1>10, <1>n, <2>1, <2>2, <3>1
    <3>3. TotalPages(entry, read)' = TotalPages(entry, read) BY <1>s, <3>2 DEF TotalPages
    <3> QED BY <1>s, <3>1, <3>3
  <2> QED BY <1>s, <2>2 DEF IInv, RestOK
<1>15. ASSUME NEW k \in List
       PROVE  Versions(k)' = Versions(k) /\ \A v \in Versions(k) : states'[k][v] = states[k][v]
  <2>1. SeenPages(k)' = SeenPages(k) /\ Versions(k)' = Versions(k) BY <1>s DEF SeenPages, Versions
  <2>2. \A p \in SeenPages(k) : states'[k][read[k][p]] = states[k][read[k][p]]
    BY <1>10, <1>s DEF SeenPages
  <2> QED BY <2>1, <2>2 DEF Versions
<1>16. FoundIsFirst'
  <2> SUFFICES ASSUME pc \in {"blocks", "rest", "found", "missing"} PROVE FoundIsFirst'
    BY <1>s DEF FoundIsFirst
  <2>1. \A v \in Versions("index") :
          Versions("index") = {v} => entry = FirstWanted(Decoded(states["index"][v]))
    BY DEF IInv, FoundIsFirst
  <2>2. \A v \in Versions("index") :
          Versions("index") = {v} => entry' = FirstWanted(Decoded(states'["index"][v]))
    BY <1>15, <1>n, <1>s, <2>1
  <2> QED BY <1>15, <1>n, <2>2 DEF FoundIsFirst
<1>17. BlocksWhole'
  <2> SUFFICES ASSUME pc = "found" PROVE BlocksWhole' BY <1>s DEF BlocksWhole
  <2>1. entry \in List
    <3>1. entry \in Wanted \cup {None} /\ entry # None BY <1>0 DEF TypeOK
    <3> QED BY <1>n, <3>1
  <2>2. /\ \A v \in Versions(entry) : Versions(entry) = {v} => blocks = Decoded(states[entry][v])
        /\ ToSet(blocks) \subseteq UNION {ToSet(states[entry][v]) : v \in Versions(entry)}
    BY DEF IInv, BlocksWhole
  <2>3. Versions(entry)' = Versions(entry)
        /\ \A v \in Versions(entry) : states'[entry][v] = states[entry][v]
    <3>1. SeenPages(entry)' = SeenPages(entry) /\ Versions(entry)' = Versions(entry)
      BY <1>s DEF SeenPages, Versions
    <3> QED BY <1>15, <2>1, <3>1
  <2>4. {ToSet(states'[entry][v]) : v \in Versions(entry)} = {ToSet(states[entry][v]) : v \in Versions(entry)}
    BY <2>3
  <2>5. /\ \A v \in Versions(entry) : Versions(entry) = {v} => blocks' = Decoded(states'[entry'][v])
        /\ ToSet(blocks') \subseteq UNION {ToSet(states'[entry'][v]) : v \in Versions(entry)}
    BY <1>s, <2>2, <2>3, <2>4
  <2> QED BY <2>3, <2>5 DEF BlocksWhole
<1>18. ReadsStopAtMatch'
  <2>1. SeenPages("index")' = SeenPages("index") BY <1>s DEF SeenPages
  <2>2. \A p \in PageNo : read["index"][p] # 0 => Items("index", p, read)' = Items("index", p, read)
    BY <1>11
  <2>3. ASSUME NEW q \in SeenPages("index"), NEW p \in PageNo, Batch(p) < Batch(q)
        PROVE  read'["index"][p] # 0 /\ FirstWanted(Items("index", p, read)') = None
    <3>1. read["index"][p] # 0 /\ FirstWanted(Items("index", p, read)) = None
      BY <2>3 DEF IInv, ReadsStopAtMatch
    <3> QED BY <1>s, <2>2, <3>1
  <2> QED BY <2>1, <2>3 DEF ReadsStopAtMatch
<1> QED BY <1>8, <1>9, <1>12, <1>13, <1>14, <1>16, <1>17, <1>18 DEF IInv

-----------------------------------------------------------------------------
(* The theorems.                                                           *)

LEMMA InitHolds == Init => IInv
<1> SUFFICES ASSUME Init PROVE IInv OBVIOUS
<1>1. PICK lists \in Start : states = [l \in List |-> <<lists[l]>>] BY DEF Init
<1>s. edits = 0 /\ pc = "first" /\ tries = 0 /\ read = Unread /\ from = 1 /\ entry = None /\ blocks = <<>>
  BY DEF Init
<1>2. \A l \in List : /\ lists[l] \in Seq(Listable(l)) /\ Len(lists[l]) <= MaxLength
                     /\ states[l] = <<lists[l]>>
  BY <1>1, ArenaAssumption
<1>3. \A l \in List, p \in PageNo : read[l][p] = 0 BY <1>s DEF Unread
<1>4. \A l \in List : Len(states[l]) = 1 /\ states[l][1] = lists[l]
  <2> SUFFICES ASSUME NEW l \in List PROVE Len(states[l]) = 1 /\ states[l][1] = lists[l] OBVIOUS
  <2> DEFINE x == lists[l]
  <2>1. states[l] = <<x>> BY <1>2
  <2> HIDE DEF x
  <2>2. Len(<<x>>) = 1 /\ <<x>>[1] = x OBVIOUS
  <2>3. Len(states[l]) = 1 /\ states[l][1] = x BY <2>1, <2>2
  <2> QED BY <2>3 DEF x
<1>5. Shape
  <2>1. \A l \in List : <<lists[l]>> \in Seq(Seq(Item))
    <3> SUFFICES ASSUME NEW l \in List PROVE <<lists[l]>> \in Seq(Seq(Item)) OBVIOUS
    <3> DEFINE x == lists[l]
    <3>1. x \in Seq(Listable(l)) /\ Listable(l) \subseteq Item BY <1>2, Lists
    <3> HIDE DEF x
    <3>2. x \in Seq(Item) BY <3>1, SeqMonotonic
    <3> QED BY <3>2 DEF x
  <2>2. states \in [List -> Seq(Seq(Item))] BY <1>1, <2>1
  <2>3. read \in [List -> [PageNo -> Nat]] BY <1>s DEF Unread
  <2> QED BY <2>2, <2>3 DEF Shape
<1>6. TypeOK
  <2>1. \A l \in List : /\ Len(states[l]) \in 1 .. edits + 1
                       /\ \A v \in 1 .. Len(states[l]) :
                            states[l][v] \in Seq(Listable(l)) /\ Len(states[l][v]) <= MaxLength
    <3> SUFFICES ASSUME NEW l \in List
                 PROVE  /\ Len(states[l]) \in 1 .. edits + 1
                        /\ \A v \in 1 .. Len(states[l]) :
                             states[l][v] \in Seq(Listable(l)) /\ Len(states[l][v]) <= MaxLength
      OBVIOUS
    <3>1. Len(states[l]) \in 1 .. edits + 1 BY <1>4, <1>s
    <3>2. \A v \in 1 .. Len(states[l]) : v = 1
      <4>1. Len(states[l]) = 1 BY <1>4
      <4>2. \A v \in 1 .. 1 : v = 1 OBVIOUS
      <4> QED BY <4>1, <4>2
    <3> QED BY <1>2, <1>4, <3>1, <3>2
  <2>2. \A l \in List, p \in PageNo : read[l][p] \in 0 .. Len(states[l]) BY <1>3, <1>4
  <2>3. 1 \in PageNo BY PagesBounded
  <2>4. ToSet(blocks) = {}
    <3>1. DOMAIN <<>> = {} OBVIOUS
    <3> QED BY <1>s, <3>1 DEF ToSet
  <2>5. edits \in 0 .. MaxEdits /\ tries \in 0 .. Retries BY <1>s, ArenaAssumption
  <2> QED BY <1>s, <2>1, <2>2, <2>3, <2>4, <2>5 DEF TypeOK
<1>7. FirstOK /\ BatchOK /\ RestOK /\ FoundIsFirst /\ BlocksWhole
  BY <1>3, <1>s DEF FirstOK, BatchOK, RestOK, FoundIsFirst, BlocksWhole
<1>8. ReadsStopAtMatch
  <2>1. "index" \in List BY Lists
  <2> QED BY <1>3, <2>1 DEF ReadsStopAtMatch, SeenPages
<1> QED BY <1>5, <1>6, <1>7, <1>8 DEF IInv

LEMMA StepHolds == IInv /\ [Next]_vars => IInv'
<1> SUFFICES ASSUME IInv, [Next]_vars PROVE IInv' OBVIOUS
<1>1. CASE Owner BY <1>1, OwnerKeeps
<1>2. CASE FirstIndexPage BY <1>2, FirstIndexKeeps
<1>3. CASE FirstBlockPage BY <1>3, FirstBlockKeeps
<1>4. CASE ReadFails BY <1>4, FailKeeps
<1>5. ASSUME NEW n \in PageNo, IndexPage(n) PROVE IInv' BY <1>5, IndexKeeps
<1>6. ASSUME NEW n \in PageNo, BlockPage(n) PROVE IInv' BY <1>6, BlockKeeps
<1>7. CASE UNCHANGED vars
  <2>1. /\ states' = states /\ edits' = edits /\ pc' = pc /\ tries' = tries /\ read' = read
        /\ from' = from /\ entry' = entry /\ blocks' = blocks
    BY <1>7 DEF vars, requestVars
  <2>2. TypeOK' /\ Shape' BY <2>1 DEF IInv, TypeOK, Shape
  <2>3. FirstOK' /\ RestOK' BY <2>1 DEF IInv, FirstOK, RestOK, TotalPages
  <2>4. BatchOK' BY <2>1 DEF IInv, BatchOK, Misses, TotalPages, LastOfBatch, Items
  <2>5. FoundIsFirst'
    <3>1. Versions("index")' = Versions("index") BY <2>1 DEF Versions, SeenPages
    <3>2. FoundIsFirst BY DEF IInv
    <3> QED BY ONLY <2>1, <3>1, <3>2, Zenon DEF FoundIsFirst
  <2>7. BlocksWhole'
    <3>1. Versions(entry)' = Versions(entry) BY <2>1 DEF Versions, SeenPages
    <3>2. BlocksWhole BY DEF IInv
    <3> QED BY ONLY <2>1, <3>1, <3>2, SMT DEF BlocksWhole
  <2>6. ReadsStopAtMatch' BY <2>1 DEF IInv, ReadsStopAtMatch, SeenPages, Items
  <2> QED BY <2>2, <2>3, <2>4, <2>5, <2>7, <2>6 DEF IInv
<1> QED BY <1>1, <1>2, <1>3, <1>4, <1>5, <1>6, <1>7 DEF Next, GetEntry

LEMMA Invariant == Spec => []IInv
BY InitHolds, StepHolds, PTL DEF Spec

\* A request's record stays well formed: no page is read in a state its list
\* has not had, and whatever is answered is a block that decodes.
THEOREM ArenaTypeCorrect == Spec => []TypeOK
<1>1. IInv => TypeOK BY DEF IInv
<1> QED BY <1>1, Invariant, PTL

\* For lists, page sizes and batches of any size: a lookup whose pages all show
\* one state of the index answers what that state lists first, in whatever
\* order the pages came.  (findIndexEntry, findIndexBatches)
THEOREM LookupsFindTheFirst == Spec => []FoundIsFirst
<1>1. IInv => FoundIsFirst BY DEF IInv
<1> QED BY <1>1, Invariant, PTL

\* For channels of any size: an answer put together from pages of one state is
\* that state's blocks, and never holds a block that no page showed.  (allBlocks)
THEOREM AnswersAreWhole == Spec => []BlocksWhole
<1>1. IInv => BlocksWhole BY DEF IInv
<1> QED BY <1>1, Invariant, PTL

\* For any batch size: a page of the index is read only when every page of the
\* batches before its own was read and shows no match.  (findIndexBatches)
THEOREM SearchesStopAtMatch == Spec => []ReadsStopAtMatch
<1>1. IInv => ReadsStopAtMatch BY DEF IInv
<1> QED BY <1>1, Invariant, PTL
=============================================================================
