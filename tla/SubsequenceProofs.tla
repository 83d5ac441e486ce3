-------------------------- MODULE SubsequenceProofs --------------------------
(***************************************************************************)
(* What reading the records of one kind out of a history returns.  The     *)
(* induction is by minimal counterexample: the library's induction         *)
(* theorems take an operator, which the provers cannot instantiate.        *)
(***************************************************************************)
EXTENDS Subsequence, SequenceTheorems, WellFoundedInduction, TLAPS

\* A set of natural numbers that is not empty has a least element.
LEMMA LeastElement ==
  ASSUME NEW T, T \subseteq Nat, T # {}
  PROVE  \E n \in T : \A m \in T : n <= m
<1> DEFINE Less == {p \in Nat \X Nat : p[1] < p[2]}
<1>1. OpToRel(<, Nat) = Less
  BY DEF OpToRel
<1>2. IsWellFoundedOn(Less, Nat)
  BY <1>1, NatLessThanWellFounded
<1>3. ASSUME NEW m \in Nat, NEW n \in Nat, m < n PROVE <<m, n>> \in Less
  <2>1. <<m, n>> \in Nat \X Nat /\ <<m, n>>[1] = m /\ <<m, n>>[2] = n
    OBVIOUS
  <2> QED
    BY <1>3, <2>1, Zenon
<1> HIDE DEF Less
<1>4. PICK n \in T : \A m \in T : <<m, n>> \notin Less
  BY <1>2, WFMin
<1>5. \A m \in T : ~(m < n)
  BY <1>3, <1>4
<1> QED
  BY <1>5

\* f counts out the picked elements of the first k of s.
Picks(f, s, S, k) ==
  f = [n \in 0 .. k |->
         IF n = 0 THEN <<>>
         ELSE IF s[n] \in S THEN Append(f[n - 1], s[n])
         ELSE f[n - 1]]

LEMMA PicksExist ==
  ASSUME NEW s, NEW S, NEW k \in Nat
  PROVE  \E f : Picks(f, s, S, k)
<1> DEFINE Bad == {n \in Nat : ~ \E f : Picks(f, s, S, n)}
<1> SUFFICES ASSUME Bad # {} PROVE FALSE
  OBVIOUS
<1>1. PICK n \in Bad : \A m \in Bad : n <= m
  BY LeastElement
<1>2. n # 0
  <2>1. Picks([j \in 0 .. 0 |-> <<>>], s, S, 0)
    BY DEF Picks
  <2> QED
    BY <2>1
<1>3. n - 1 \in Nat /\ n - 1 \notin Bad
  BY <1>1, <1>2
<1>4. PICK f : Picks(f, s, S, n - 1)
  BY <1>3
<1> DEFINE g == [j \in 0 .. n |->
                   IF j < n THEN f[j]
                   ELSE IF s[n] \in S THEN Append(f[n - 1], s[n])
                   ELSE f[n - 1]]
<1>5. Picks(g, s, S, n)
  <2>1. ASSUME NEW j \in 0 .. n
        PROVE  g[j] = IF j = 0 THEN <<>>
                      ELSE IF s[j] \in S THEN Append(g[j - 1], s[j])
                      ELSE g[j - 1]
    <3>1. CASE j = 0
      BY <3>1, <1>2, <1>3, <1>4 DEF Picks
    <3>2. CASE j = n
      BY <3>2, <1>2, <1>3
    <3>3. CASE j # 0 /\ j # n
      <4>1. g[j] = f[j] /\ g[j - 1] = f[j - 1] /\ j \in 0 .. (n - 1)
        BY <3>3, <1>3
      <4> QED
        BY <4>1, <3>3, <1>4 DEF Picks
    <3> QED
      BY <3>1, <3>2, <3>3
  <2> QED
    BY <2>1 DEF Picks
<1> QED
  BY <1>1, <1>5

LEMMA PickedIsCounted ==
  ASSUME NEW s, NEW S, Len(s) \in Nat
  PROVE  \E f : Picks(f, s, S, Len(s)) /\ Picked(s, S) = f[Len(s)]
<1> DEFINE F == CHOOSE f : Picks(f, s, S, Len(s))
<1>1. Picks(F, s, S, Len(s))
  BY PicksExist
<1>2. Picked(s, S) = F[Len(s)]
  BY DEF Picked, Picks
<1> QED
  BY <1>1, <1>2

\* Two counts over histories that agree so far agree so far.
LEMMA PicksAgree ==
  ASSUME NEW s, NEW t, NEW S, NEW k \in Nat, NEW l \in Nat, NEW f, NEW g,
         Picks(f, s, S, k), Picks(g, t, S, l),
         NEW n \in Nat, n <= k, n <= l, \A i \in 1 .. n : s[i] = t[i]
  PROVE  f[n] = g[n]
<1> DEFINE Bad == {m \in 0 .. n : f[m] # g[m]}
<1> SUFFICES ASSUME Bad # {} PROVE FALSE
  OBVIOUS
<1>1. PICK m \in Bad : \A j \in Bad : m <= j
  <2>1. Bad \subseteq Nat
    OBVIOUS
  <2> HIDE DEF Bad
  <2> QED
    BY <2>1, LeastElement
<1>2. m # 0
  BY <1>1 DEF Picks
<1>3. m - 1 \in 0 .. n /\ m - 1 \notin Bad
  BY <1>1, <1>2
<1>4. f[m - 1] = g[m - 1] /\ s[m] = t[m] /\ m \in 0 .. k /\ m \in 0 .. l
  BY <1>1, <1>2, <1>3
<1>5. f[m] = IF s[m] \in S THEN Append(f[m - 1], s[m]) ELSE f[m - 1]
  BY <1>2, <1>4 DEF Picks
<1>6. g[m] = IF t[m] \in S THEN Append(g[m - 1], t[m]) ELSE g[m - 1]
  BY <1>2, <1>4 DEF Picks
<1> QED
  BY <1>1, <1>4, <1>5, <1>6

\* Of an empty history nothing is picked.
LEMMA PickedEmpty ==
  ASSUME NEW S
  PROVE  Picked(<<>>, S) = <<>>
<1>1. Len(<<>>) = 0
  OBVIOUS
<1>2. PICK f : Picks(f, <<>>, S, 0) /\ Picked(<<>>, S) = f[0]
  BY <1>1, PickedIsCounted
<1> QED
  BY <1>2 DEF Picks

\* A record appended to the history is picked last, or not at all.
LEMMA PickedAppend ==
  ASSUME NEW T, NEW s \in Seq(T), NEW e \in T, NEW S
  PROVE  Picked(Append(s, e), S) =
           IF e \in S THEN Append(Picked(s, S), e) ELSE Picked(s, S)
<1> DEFINE t == Append(s, e)
<1>1. /\ Len(s) \in Nat /\ Len(t) = Len(s) + 1
      /\ t[Len(s) + 1] = e /\ \A i \in 1 .. Len(s) : t[i] = s[i]
  BY AppendProperties, LenProperties
<1> HIDE DEF t
<1>2. PICK f : Picks(f, s, S, Len(s)) /\ Picked(s, S) = f[Len(s)]
  BY <1>1, PickedIsCounted
<1>3. PICK g : Picks(g, t, S, Len(t)) /\ Picked(t, S) = g[Len(t)]
  BY <1>1, PickedIsCounted
<1>4. f[Len(s)] = g[Len(s)]
  <2>1. PICK n \in Nat : n = Len(s)
    BY <1>1
  <2>2. Picks(f, s, S, n) /\ Picks(g, t, S, n + 1)
    BY <1>1, <1>2, <1>3, <2>1
  <2>3. n <= n /\ n <= n + 1 /\ n + 1 \in Nat /\ \A i \in 1 .. n : s[i] = t[i]
    BY <1>1, <2>1
  <2>4. f[n] = g[n]
    BY <2>2, <2>3, PicksAgree
  <2> QED
    BY <2>1, <2>4
<1>5. g[Len(t)] = IF t[Len(t)] \in S THEN Append(g[Len(t) - 1], t[Len(t)])
                  ELSE g[Len(t) - 1]
  <2>1. Len(t) \in 0 .. Len(t) /\ Len(t) # 0
    BY <1>1
  <2> QED
    BY <1>3, <2>1 DEF Picks
<1>6. Len(t) - 1 = Len(s)
  BY <1>1
<1> QED
  BY <1>1, <1>2, <1>3, <1>4, <1>5, <1>6 DEF t

\* What is picked are records of the history that lie in S.
LEMMA PickedType ==
  ASSUME NEW T, NEW s \in Seq(T), NEW S
  PROVE  Picked(s, S) \in Seq(T \cap S)
<1>1. Len(s) \in Nat /\ \A i \in 1 .. Len(s) : s[i] \in T
  BY ElementOfSeq, LenProperties
<1>2. PICK f : Picks(f, s, S, Len(s)) /\ Picked(s, S) = f[Len(s)]
  BY <1>1, PickedIsCounted
<1> DEFINE Bad == {n \in 0 .. Len(s) : f[n] \notin Seq(T \cap S)}
<1> SUFFICES ASSUME Bad # {} PROVE FALSE
  BY <1>1, <1>2
<1>3. PICK n \in Bad : \A m \in Bad : n <= m
  <2>1. Bad \subseteq Nat
    BY <1>1
  <2> HIDE DEF Bad
  <2> QED
    BY <2>1, LeastElement
<1>4. n # 0
  BY <1>1, <1>2, <1>3 DEF Picks
<1>5. f[n - 1] \in Seq(T \cap S) /\ n \in 1 .. Len(s)
  BY <1>1, <1>3, <1>4
<1>6. f[n] = IF s[n] \in S THEN Append(f[n - 1], s[n]) ELSE f[n - 1]
  BY <1>2, <1>4, <1>5 DEF Picks
<1>7. s[n] \in S => Append(f[n - 1], s[n]) \in Seq(T \cap S)
  BY <1>1, <1>5, AppendProperties
<1> QED
  BY <1>3, <1>5, <1>6, <1>7

\* Something is picked from a history that holds something to pick.
LEMMA PickedNotEmpty ==
  ASSUME NEW T, NEW s \in Seq(T), NEW S, NEW i \in 1 .. Len(s), s[i] \in S
  PROVE  Picked(s, S) # <<>>
<1>1. Len(s) \in Nat
  BY LenProperties
<1>2. PICK f : Picks(f, s, S, Len(s)) /\ Picked(s, S) = f[Len(s)]
  BY <1>1, PickedIsCounted
<1>3. ASSUME NEW n \in 0 .. Len(s), n # 0
      PROVE  f[n] = IF s[n] \in S THEN Append(f[n - 1], s[n]) ELSE f[n - 1]
  BY <1>1, <1>2, <1>3 DEF Picks
<1>4. ASSUME NEW n \in 0 .. Len(s) PROVE f[n] \in Seq(T)
  <2> DEFINE Bad == {m \in 0 .. Len(s) : f[m] \notin Seq(T)}
  <2> SUFFICES ASSUME Bad # {} PROVE FALSE
    BY <1>4
  <2>1. PICK m \in Bad : \A j \in Bad : m <= j
    <3>1. Bad \subseteq Nat
      BY <1>1
    <3> HIDE DEF Bad
    <3> QED
      BY <3>1, LeastElement
  <2>2. m # 0
    BY <1>1, <1>2, <2>1 DEF Picks
  <2>3. f[m - 1] \in Seq(T) /\ m \in 1 .. Len(s) /\ s[m] \in T
    BY <1>1, <2>1, <2>2, ElementOfSeq
  <2>4. f[m] = IF s[m] \in S THEN Append(f[m - 1], s[m]) ELSE f[m - 1]
    BY <1>3, <2>1, <2>2
  <2>5. Append(f[m - 1], s[m]) \in Seq(T)
    BY <2>3, AppendProperties
  <2> QED
    BY <2>1, <2>3, <2>4, <2>5
<1> DEFINE Bad == {m \in i .. Len(s) : f[m] = <<>>}
<1> SUFFICES ASSUME Bad # {} PROVE FALSE
  BY <1>1, <1>2
<1>5. PICK m \in Bad : \A j \in Bad : m <= j
  <2>1. Bad \subseteq Nat
    BY <1>1
  <2> HIDE DEF Bad
  <2> QED
    BY <2>1, LeastElement
<1>6. m \in 1 .. Len(s) /\ m - 1 \in 0 .. Len(s) /\ f[m] = <<>> /\ s[m] \in T
  BY <1>1, <1>5, ElementOfSeq
<1>7. f[m - 1] \in Seq(T)
  BY <1>4, <1>6
<1>8. s[m] \notin S /\ f[m - 1] = <<>>
  <2>0. m \in 0 .. Len(s) /\ m # 0
    BY <1>1, <1>6
  <2>1. f[m] = IF s[m] \in S THEN Append(f[m - 1], s[m]) ELSE f[m - 1]
    BY <1>3, <2>0
  <2>2. Append(f[m - 1], s[m]) # <<>>
    BY <1>6, <1>7, AppendProperties
  <2> QED
    BY <1>6, <2>1, <2>2
<1>9. m # i
  BY <1>8
<1> QED
  BY <1>1, <1>5, <1>8, <1>9

------------------------------------------------------------------------------
(* A history that is split at a point, and grows at its end.               *)

LEMMA HeadOfAppend ==
  ASSUME NEW T, NEW s \in Seq(T), NEW e \in T, NEW n \in 0 .. Len(s)
  PROVE  SubSeq(Append(s, e), 1, n) = SubSeq(s, 1, n)
<1>1. Len(s) \in Nat /\ Append(s, e) \in Seq(T) /\ Len(Append(s, e)) = Len(s) + 1
  BY AppendProperties, LenProperties
<1>2. \A i \in 1 .. Len(s) : Append(s, e)[i] = s[i]
  BY AppendProperties
<1>3. /\ SubSeq(s, 1, n) \in Seq(T) /\ Len(SubSeq(s, 1, n)) = n
      /\ \A i \in 1 .. n : SubSeq(s, 1, n)[i] = s[i]
  BY <1>1, SubSeqProperties
<1>4. /\ SubSeq(Append(s, e), 1, n) \in Seq(T) /\ Len(SubSeq(Append(s, e), 1, n)) = n
      /\ \A i \in 1 .. n : SubSeq(Append(s, e), 1, n)[i] = Append(s, e)[i]
  BY <1>1, SubSeqProperties
<1> QED
  BY <1>1, <1>2, <1>3, <1>4, SeqEqual

LEMMA TailOfAppend ==
  ASSUME NEW T, NEW s \in Seq(T), NEW e \in T, NEW n \in 0 .. Len(s)
  PROVE  SubSeq(Append(s, e), n + 1, Len(Append(s, e))) =
           Append(SubSeq(s, n + 1, Len(s)), e)
<1> DEFINE t == Append(s, e)
<1>1. PICK k \in Nat : k = Len(s)
  BY LenProperties
<1>2. t \in Seq(T) /\ Len(t) = k + 1 /\ n \in 0 .. k /\ t[k + 1] = e
      /\ \A i \in 1 .. k : s[i] \in T /\ t[i] = s[i]
  BY <1>1, AppendProperties, ElementOfSeq
<1> HIDE DEF t
<1>3. SubSeq(t, n + 1, k + 1) = SubSeq(t, n + 1, k) \o <<t[k + 1]>>
  <2>1. n + 1 \in 1 .. Len(t) /\ k + 1 \in n + 1 .. Len(t) /\ (k + 1) - 1 = k
    BY <1>2
  <2> QED
    BY <1>2, <2>1, SubSeqRecursiveSecond
<1>4. \A i \in n + 1 .. k : i \in 1 .. k
  BY <1>2
<1>5. /\ SubSeq(s, n + 1, k) \in Seq(T) /\ SubSeq(t, n + 1, k) \in Seq(T)
      /\ Len(SubSeq(s, n + 1, k)) = Len(SubSeq(t, n + 1, k))
      /\ \A i \in 1 .. k - (n + 1) + 1 :
           SubSeq(s, n + 1, k)[i] = s[n + 1 + i - 1] /\ SubSeq(t, n + 1, k)[i] = t[n + 1 + i - 1]
      /\ Len(SubSeq(s, n + 1, k)) = IF n + 1 <= k THEN k - (n + 1) + 1 ELSE 0
  BY <1>2, <1>4, SubSeqProperties
<1>6. ASSUME NEW i \in 1 .. Len(SubSeq(s, n + 1, k))
      PROVE  SubSeq(s, n + 1, k)[i] = SubSeq(t, n + 1, k)[i]
  <2>1. i \in 1 .. k - (n + 1) + 1 /\ n + 1 + i - 1 \in 1 .. k
    BY <1>2, <1>5
  <2> QED
    BY <1>2, <1>5, <2>1
<1>7. SubSeq(t, n + 1, k) = SubSeq(s, n + 1, k)
  BY <1>5, <1>6, SeqEqual
<1>8. Append(SubSeq(s, n + 1, k), e) = SubSeq(s, n + 1, k) \o <<e>>
  BY <1>5, AppendIsConcat
<1> QED
  BY <1>1, <1>2, <1>3, <1>7, <1>8 DEF t

LEMMA ConcatOfAppend ==
  ASSUME NEW T, NEW s \in Seq(T), NEW t \in Seq(T), NEW e \in T
  PROVE  s \o Append(t, e) = Append(s \o t, e)
<1>1. <<e>> \in Seq(T)
  OBVIOUS
<1>2. Append(t, e) = t \o <<e>> /\ s \o t \in Seq(T)
  BY AppendIsConcat, ConcatProperties
<1>3. Append(s \o t, e) = (s \o t) \o <<e>>
  BY <1>2, AppendIsConcat
<1> QED
  BY <1>1, <1>2, <1>3, ConcatAssociative

LEMMA OneMore ==
  ASSUME NEW T, NEW s \in Seq(T), NEW n \in Nat, n < Len(s)
  PROVE  SubSeq(s, 1, n + 1) = Append(SubSeq(s, 1, n), s[n + 1])
<1> DEFINE u == SubSeq(s, 1, n)
           v == SubSeq(s, 1, n + 1)
<1>1. Len(s) \in Nat /\ s[n + 1] \in T
  BY ElementOfSeq, LenProperties
<1>2. u \in Seq(T) /\ Len(u) = n /\ \A i \in 1 .. n : u[i] = s[i]
  BY <1>1, SubSeqProperties
<1>3. v \in Seq(T) /\ Len(v) = n + 1 /\ \A i \in 1 .. (n + 1) : v[i] = s[i]
  BY <1>1, SubSeqProperties
<1> HIDE DEF u, v
<1>4. /\ Append(u, s[n + 1]) \in Seq(T) /\ Len(Append(u, s[n + 1])) = n + 1
      /\ \A i \in 1 .. n : Append(u, s[n + 1])[i] = u[i]
      /\ Append(u, s[n + 1])[n + 1] = s[n + 1]
  BY <1>1, <1>2, AppendProperties
<1>5. \A i \in 1 .. (n + 1) : v[i] = Append(u, s[n + 1])[i]
  BY <1>2, <1>3, <1>4
<1>6. v = Append(u, s[n + 1])
  BY <1>3, <1>4, <1>5, SeqEqual
<1> QED
  BY <1>6 DEF u, v

\* All of a history, and nothing of it.
LEMMA WholeAndNone ==
  ASSUME NEW T, NEW s \in Seq(T)
  PROVE  /\ SubSeq(s, 1, Len(s)) = s
         /\ SubSeq(s, Len(s) + 1, Len(s)) = <<>>
         /\ SubSeq(s, 1, 0) = <<>>
         /\ s \o <<>> = s
<1>1. Len(s) \in Nat
  BY LenProperties
<1>2. /\ SubSeq(s, 1, Len(s)) \in Seq(T) /\ Len(SubSeq(s, 1, Len(s))) = Len(s)
      /\ \A i \in 1 .. Len(s) : SubSeq(s, 1, Len(s))[i] = s[i]
  BY <1>1, SubSeqProperties
<1>3. SubSeq(s, 1, Len(s)) = s
  BY <1>1, <1>2, SeqEqual
<1>4. SubSeq(s, Len(s) + 1, Len(s)) = <<>> /\ SubSeq(s, 1, 0) = <<>>
  BY <1>1, SubSeqEmpty
<1>5. s \o <<>> = s
  BY ConcatEmptySeq
<1> QED
  BY <1>3, <1>4, <1>5
==============================================================================
