-------------------------- MODULE AppendFenceProofs --------------------------
(***************************************************************************)
(* The append fence, for every set of turns: one holder, no stranded       *)
(* fence, no turn that waits twice, and no turn that is overtaken.         *)
(***************************************************************************)
EXTENDS AppendFence, SequenceTheorems, TLAPS

\* Taking the turn at position i out of the queue moves those behind it up by one
\* (waiting.splice in durability.ts).
LEMMA RemoveAtFacts ==
  ASSUME NEW S, NEW s \in Seq(S), NEW i \in 1 .. Len(s)
  PROVE  /\ SubSeq(s, 1, i - 1) \o SubSeq(s, i + 1, Len(s)) \in Seq(S)
         /\ Len(SubSeq(s, 1, i - 1) \o SubSeq(s, i + 1, Len(s))) = Len(s) - 1
         /\ \A k \in 1 .. Len(s) - 1 :
              (SubSeq(s, 1, i - 1) \o SubSeq(s, i + 1, Len(s)))[k] =
                IF k < i THEN s[k] ELSE s[k + 1]
<1> DEFINE before == SubSeq(s, 1, i - 1)
           behind == SubSeq(s, i + 1, Len(s))
           q == before \o behind
<1>1. /\ before \in Seq(S)
      /\ Len(before) = i - 1
      /\ \A k \in 1 .. i - 1 : before[k] = s[k]
  BY SubSeqProperties
<1>2. /\ behind \in Seq(S)
      /\ Len(behind) = Len(s) - i
      /\ \A k \in 1 .. Len(s) - i : behind[k] = s[i + k]
  BY SubSeqProperties
<1> HIDE DEF before, behind
<1>3. /\ q \in Seq(S)
      /\ Len(q) = Len(before) + Len(behind)
      /\ \A k \in 1 .. Len(before) + Len(behind) :
           q[k] = IF k <= Len(before) THEN before[k] ELSE behind[k - Len(before)]
  BY <1>1, <1>2, ConcatProperties, Zenon
<1>4. Len(s) \in Nat
  BY LenProperties
<1> HIDE DEF q
<1>5. ASSUME NEW k \in 1 .. Len(s) - 1
      PROVE  q[k] = IF k < i THEN s[k] ELSE s[k + 1]
  <2>1. q[k] = IF k <= i - 1 THEN before[k] ELSE behind[k - (i - 1)]
    BY <1>1, <1>2, <1>3, <1>4
  <2>2. CASE k < i
    BY <1>1, <2>1, <2>2, <1>4
  <2>3. CASE k >= i
    <3>1. k - (i - 1) \in 1 .. Len(s) - i /\ i + (k - (i - 1)) = k + 1
      BY <2>3, <1>4
    <3> QED
      BY <1>2, <2>1, <2>3, <3>1, <1>4
  <2> QED
    BY <2>2, <2>3, <1>4
<1>6. q \in Seq(S) /\ Len(q) = Len(s) - 1
  BY <1>1, <1>2, <1>3, <1>4
<1> QED
  BY <1>5, <1>6, Zenon DEF q, before, behind

\* The inductive invariant: the fence's safety properties need each other, and the
\* order of the queue is only meaningful while nobody stands in it twice.
FenceInv == TypeOK /\ MutualExclusion /\ NoStrandedFence /\ OneTurnEach

LEMMA FenceInit == Init => FenceInv
<1> SUFFICES ASSUME Init PROVE FenceInv
  OBVIOUS
<1>1. waiting \in Seq(Turn) /\ DOMAIN waiting = {}
  BY DEF Init
<1> QED
  BY <1>1 DEF Init, FenceInv, TypeOK, MutualExclusion, NoStrandedFence, OneTurnEach

LEMMA HoldKeeps ==
  ASSUME FenceInv, NEW t \in Turn, Hold(t)
  PROVE  FenceInv'
<1> USE DEF FenceInv, TypeOK, MutualExclusion, NoStrandedFence, OneTurnEach, Hold, Queued
<1>1. CASE held
  <2>1. waiting' = Append(waiting, t) /\ UNCHANGED <<held, granted>>
    BY <1>1
  <2>2. /\ waiting' \in Seq(Turn)
        /\ Len(waiting') = Len(waiting) + 1
        /\ waiting'[Len(waiting) + 1] = t
        /\ \A k \in 1 .. Len(waiting) : waiting'[k] = waiting[k]
    BY <2>1, AppendProperties
  <2>3. OneTurnEach'
    BY <2>1, <2>2
  <2> QED
    BY <1>1, <2>1, <2>2, <2>3
<1>2. CASE ~held
  BY <1>2
<1> QED
  BY <1>1, <1>2

LEMMA ReleaseKeeps ==
  ASSUME FenceInv, NEW t \in Turn, Release(t)
  PROVE  FenceInv'
<1> USE DEF FenceInv, TypeOK, MutualExclusion, NoStrandedFence, OneTurnEach, Release, Queued
<1>1. CASE waiting = <<>>
  BY <1>1
<1>2. CASE waiting # <<>>
  <2>1. /\ Head(waiting) = waiting[1]
        /\ Head(waiting) \in Turn
        /\ waiting' \in Seq(Turn)
        /\ Len(waiting') = Len(waiting) - 1
        /\ \A k \in 1 .. Len(waiting') : waiting'[k] = waiting[k + 1]
    BY <1>2, HeadTailProperties
  <2>2. granted' = {waiting[1]}
    BY <1>2, <2>1
  <2>3. Len(waiting) \in Nat /\ Len(waiting) # 0 /\ held
    BY <1>2, EmptySeq
  <2>4. DOMAIN waiting = 1 .. Len(waiting) /\ DOMAIN waiting' = 1 .. Len(waiting')
    BY <2>1, LenProperties
  <2>5. ASSUME NEW i \in DOMAIN waiting', NEW j \in DOMAIN waiting'
        PROVE  /\ waiting'[i] = waiting'[j] => i = j
               /\ waiting'[i] \notin granted'
    <3>1. i + 1 \in DOMAIN waiting /\ j + 1 \in DOMAIN waiting /\ 1 \in DOMAIN waiting
      BY <2>1, <2>3, <2>4
    <3>2. waiting'[i] = waiting[i + 1] /\ waiting'[j] = waiting[j + 1]
      BY <2>1, <2>4
    <3>3. waiting[i + 1] = waiting[j + 1] => i + 1 = j + 1
      BY <3>1
    <3>4. waiting[i + 1] = waiting[1] => i + 1 = 1
      BY <3>1
    <3> QED
      BY <2>2, <2>4, <2>1, <3>2, <3>3, <3>4
  <2>6. OneTurnEach'
    BY <2>5
  <2> QED
    BY <1>2, <2>1, <2>2, <2>3, <2>6
<1> QED
  BY <1>1, <1>2

LEMMA WithdrawKeeps ==
  ASSUME FenceInv, NEW t \in Turn, Withdraw(t)
  PROVE  FenceInv'
<1> USE DEF FenceInv, TypeOK, MutualExclusion, NoStrandedFence, OneTurnEach
<1>1. PICK i \in 1 .. Len(waiting) :
        /\ waiting' = SubSeq(waiting, 1, i - 1) \o SubSeq(waiting, i + 1, Len(waiting))
        /\ UNCHANGED <<held, granted>>
  <2>1. DOMAIN waiting = 1 .. Len(waiting)
    BY LenProperties
  <2> QED
    BY <2>1, Zenon DEF Withdraw
<1>2. /\ waiting' \in Seq(Turn)
      /\ Len(waiting') = Len(waiting) - 1
      /\ \A k \in 1 .. Len(waiting) - 1 :
           waiting'[k] = IF k < i THEN waiting[k] ELSE waiting[k + 1]
  <2>1. waiting \in Seq(Turn)
    OBVIOUS
  <2> HIDE DEF FenceInv, TypeOK, MutualExclusion, NoStrandedFence, OneTurnEach
  <2> QED
    BY <1>1, <2>1, RemoveAtFacts, Zenon
<1>3. waiting # <<>>
  BY EmptySeq
<1>4. DOMAIN waiting = 1 .. Len(waiting) /\ DOMAIN waiting' = 1 .. Len(waiting) - 1
  BY <1>2, LenProperties
<1>5. ASSUME NEW j \in 1 .. Len(waiting) - 1
      PROVE  LET k == IF j < i THEN j ELSE j + 1
             IN  k \in DOMAIN waiting /\ waiting'[j] = waiting[k]
  BY <1>2, <1>4
<1>6. ASSUME NEW j \in DOMAIN waiting', NEW k \in DOMAIN waiting'
      PROVE  /\ waiting'[j] = waiting'[k] => j = k
             /\ waiting'[j] \notin granted'
  <2>1. PICK m \in DOMAIN waiting : waiting'[j] = waiting[m] /\ m = IF j < i THEN j ELSE j + 1
    BY <1>4, <1>5
  <2>2. PICK n \in DOMAIN waiting : waiting'[k] = waiting[n] /\ n = IF k < i THEN k ELSE k + 1
    BY <1>4, <1>5
  <2>3. waiting[m] = waiting[n] => m = n
    BY DEF OneTurnEach
  <2>4. m = n => j = k
    BY <1>2, <1>4, <2>1, <2>2
  <2>5. waiting[m] \notin granted'
    BY <1>1
  <2> QED
    BY <2>1, <2>2, <2>3, <2>4, <2>5
<1>7. OneTurnEach'
  BY <1>6
<1> QED
  BY <1>1, <1>2, <1>3, <1>7

THEOREM FenceInvariant == Spec => []FenceInv
<1>1. FenceInv /\ [Next]_fenceVars => FenceInv'
  <2> SUFFICES ASSUME FenceInv, [Next]_fenceVars
               PROVE  FenceInv'
    OBVIOUS
  <2>1. ASSUME NEW t \in Turn, Hold(t) PROVE FenceInv'
    BY <2>1, HoldKeeps
  <2>2. ASSUME NEW t \in Turn, Release(t) PROVE FenceInv'
    BY <2>2, ReleaseKeeps
  <2>3. ASSUME NEW t \in Turn, Withdraw(t) PROVE FenceInv'
    BY <2>3, WithdrawKeeps
  <2>4. CASE UNCHANGED fenceVars
    BY <2>4 DEF FenceInv, TypeOK, MutualExclusion, NoStrandedFence, OneTurnEach, fenceVars
  <2> QED
    BY <2>1, <2>2, <2>3, <2>4 DEF Next
<1> QED
  BY <1>1, FenceInit, PTL DEF Spec

\* Two appends are never granted the fence at once, however turns are taken,
\* withdrawn and given back.
THEOREM FenceMutualExclusion == Spec => []MutualExclusion
<1>1. FenceInv => MutualExclusion
  BY DEF FenceInv
<1> QED
  BY <1>1, FenceInvariant, PTL

\* A cancelled holder or waiter never leaves a held fence without an owner, nor a
\* waiter behind a free one.
THEOREM FenceNeverStranded == Spec => []NoStrandedFence
<1>1. FenceInv => NoStrandedFence
  BY DEF FenceInv
<1> QED
  BY <1>1, FenceInvariant, PTL

LEMMA HoldKeepsOrder ==
  ASSUME FenceInv, NEW t \in Turn, Hold(t)
  PROVE  KeepsOrder
<1>1. waiting \in Seq(Turn) /\ DOMAIN waiting = 1 .. Len(waiting) /\ Len(waiting) \in Nat
  BY LenProperties DEF FenceInv, TypeOK
<1>2. CASE held
  <2>1. waiting' = Append(waiting, t) /\ granted' = granted
    BY <1>2 DEF Hold
  <2>2. /\ Len(waiting') = Len(waiting) + 1
        /\ DOMAIN waiting' = 1 .. Len(waiting) + 1
        /\ \A k \in 1 .. Len(waiting) : waiting'[k] = waiting[k]
    BY <1>1, <2>1, AppendProperties, LenProperties
  <2>3. \A k \in DOMAIN waiting : k \in DOMAIN waiting' /\ waiting'[k] = waiting[k]
    BY <1>1, <2>2
  <2> QED
    BY <2>1, <2>3 DEF KeepsOrder
<1>3. CASE ~held
  <2>1. waiting = <<>> /\ waiting' = waiting
    BY <1>3 DEF Hold, FenceInv, NoStrandedFence
  <2>2. DOMAIN waiting = {}
    BY <2>1
  <2> QED
    BY <2>1, <2>2 DEF KeepsOrder
<1> QED
  BY <1>2, <1>3

LEMMA ReleaseKeepsOrder ==
  ASSUME FenceInv, NEW t \in Turn, Release(t)
  PROVE  KeepsOrder
<1>1. waiting \in Seq(Turn) /\ DOMAIN waiting = 1 .. Len(waiting) /\ Len(waiting) \in Nat
  BY LenProperties DEF FenceInv, TypeOK
<1>2. CASE waiting = <<>>
  <2>1. DOMAIN waiting = {} /\ granted' \subseteq granted
    BY <1>2 DEF Release
  <2> QED
    BY <2>1 DEF KeepsOrder
<1>3. CASE waiting # <<>>
  <2>1. waiting' = Tail(waiting) /\ granted' = (granted \ {t}) \cup {Head(waiting)}
    BY <1>3 DEF Release
  <2>2. /\ Head(waiting) = waiting[1]
        /\ waiting' \in Seq(Turn)
        /\ Len(waiting') = Len(waiting) - 1
        /\ \A k \in 1 .. Len(waiting') : waiting'[k] = waiting[k + 1]
    BY <1>1, <1>3, <2>1, HeadTailProperties
  <2>3. DOMAIN waiting' = 1 .. Len(waiting) - 1
    BY <2>2, LenProperties
  <2>4. waiting[1] \notin Queued'
    <3>1. SUFFICES ASSUME NEW k \in DOMAIN waiting', waiting'[k] = waiting[1] PROVE FALSE
      BY DEF Queued
    <3>2. k + 1 \in DOMAIN waiting /\ 1 \in DOMAIN waiting /\ waiting[k + 1] = waiting[1]
      BY <1>1, <2>2, <2>3, <3>1
    <3>3. k + 1 = 1
      BY <3>2 DEF FenceInv, OneTurnEach
    <3> QED
      BY <2>3, <3>3
  <2>5. ASSUME NEW i \in DOMAIN waiting, waiting[i] \in Queued'
        PROVE  i - 1 \in DOMAIN waiting' /\ waiting'[i - 1] = waiting[i]
    <3>1. i # 1
      BY <2>4, <2>5
    <3> QED
      BY <1>1, <2>2, <2>3, <3>1
  <2>6. ASSUME NEW i \in DOMAIN waiting, NEW j \in DOMAIN waiting,
               i < j, waiting[i] \in Queued', waiting[j] \in Queued'
        PROVE  \E k, l \in DOMAIN waiting' :
                 k < l /\ waiting'[k] = waiting[i] /\ waiting'[l] = waiting[j]
    <3>1. i - 1 < j - 1
      BY <1>1, <2>6
    <3>2. /\ i - 1 \in DOMAIN waiting' /\ waiting'[i - 1] = waiting[i]
          /\ j - 1 \in DOMAIN waiting' /\ waiting'[j - 1] = waiting[j]
      BY <2>5, <2>6
    <3> QED
      BY <3>1, <3>2
  <2> QED
    BY <2>1, <2>6 DEF KeepsOrder
<1> QED
  BY <1>2, <1>3

LEMMA WithdrawKeepsOrder ==
  ASSUME FenceInv, NEW t \in Turn, Withdraw(t)
  PROVE  KeepsOrder
<1>1. waiting \in Seq(Turn) /\ DOMAIN waiting = 1 .. Len(waiting) /\ Len(waiting) \in Nat
  BY LenProperties DEF FenceInv, TypeOK
<1>2. PICK n \in 1 .. Len(waiting) :
        /\ waiting' = SubSeq(waiting, 1, n - 1) \o SubSeq(waiting, n + 1, Len(waiting))
        /\ UNCHANGED <<held, granted>>
  BY <1>1, Zenon DEF Withdraw
<1>3. /\ waiting' \in Seq(Turn)
      /\ Len(waiting') = Len(waiting) - 1
      /\ \A k \in 1 .. Len(waiting) - 1 :
           waiting'[k] = IF k < n THEN waiting[k] ELSE waiting[k + 1]
  BY <1>1, <1>2, RemoveAtFacts, Zenon
<1>4. DOMAIN waiting' = 1 .. Len(waiting) - 1
  BY <1>1, <1>3, LenProperties
<1>5. waiting[n] \notin Queued'
  <2>1. SUFFICES ASSUME NEW k \in DOMAIN waiting', waiting'[k] = waiting[n] PROVE FALSE
    BY DEF Queued
  <2> DEFINE m == IF k < n THEN k ELSE k + 1
  <2>2. m \in DOMAIN waiting /\ m # n /\ waiting[m] = waiting'[k] /\ n \in DOMAIN waiting
    BY <1>1, <1>3, <1>4
  <2> HIDE DEF m
  <2> QED
    BY <2>1, <2>2 DEF FenceInv, OneTurnEach
<1> DEFINE new(k) == IF k < n THEN k ELSE k - 1
<1>6. ASSUME NEW i \in DOMAIN waiting, waiting[i] \in Queued'
      PROVE  i # n /\ new(i) \in DOMAIN waiting' /\ waiting'[new(i)] = waiting[i]
  <2>1. i # n
    BY <1>5, <1>6
  <2> QED
    BY <1>1, <1>3, <1>4, <2>1
<1>7. ASSUME NEW i \in DOMAIN waiting, NEW j \in DOMAIN waiting,
             i < j, waiting[i] \in Queued', waiting[j] \in Queued'
      PROVE  \E k, l \in DOMAIN waiting' :
               k < l /\ waiting'[k] = waiting[i] /\ waiting'[l] = waiting[j]
  <2>1. /\ i # n /\ new(i) \in DOMAIN waiting' /\ waiting'[new(i)] = waiting[i]
        /\ j # n /\ new(j) \in DOMAIN waiting' /\ waiting'[new(j)] = waiting[j]
    BY <1>6, <1>7
  <2>2. new(i) < new(j)
    BY <1>1, <1>7, <2>1
  <2> HIDE DEF new
  <2> QED
    BY <2>1, <2>2
<1> QED
  BY <1>2, <1>7 DEF KeepsOrder

\* No append overtakes another that asked before it and is still waiting.
THEOREM FenceFirstComeFirstServed == Spec => FirstComeFirstServed
<1>1. FenceInv /\ [Next]_fenceVars => [KeepsOrder]_fenceVars
  BY HoldKeepsOrder, ReleaseKeepsOrder, WithdrawKeepsOrder DEF Next
<1> QED
  BY <1>1, FenceInvariant, PTL DEF Spec, FirstComeFirstServed
==============================================================================
