---------------------------- MODULE SequenceFacts ----------------------------
(***************************************************************************)
(* What taking, pushing and popping do to the elements of a sequence,      *)
(* induction up to a number with the least and the largest number of a     *)
(* set, and functions defined by recursion on a number: the lemmas about   *)
(* data that ModuleGraphProofs, DriverProofs, LoweringProofs,              *)
(* EscapeProofs, NamesProofs, CallsProofs and PassesProofs rest on.        *)
(***************************************************************************)
EXTENDS Integers, SequencesExt, FiniteSetsExt, TLAPS, SequenceTheorems, FiniteSetTheorems, WellFoundedInduction

\* Induction up to a number, for what is said of the numbers in a set.
LEMMA UpTo ==
  ASSUME NEW n \in Nat, NEW B \in SUBSET (0 .. n), 0 \in B,
         \A i \in 0 .. n - 1 : i \in B => i + 1 \in B
  PROVE  B = 0 .. n
<1> DEFINE R == StrictSubsetOrdering(0 .. n)
           T == {0 .. i : i \in (0 .. n) \ B}
<1> SUFFICES ASSUME (0 .. n) \ B # {} PROVE FALSE
  OBVIOUS
<1>1. IsFiniteSet(0 .. n)
  BY FS_Interval
<1>2. T \subseteq FiniteSubsetsOf(0 .. n)
  <2> SUFFICES ASSUME NEW i \in (0 .. n) \ B PROVE 0 .. i \in FiniteSubsetsOf(0 .. n)
    OBVIOUS
  <2>1. 0 .. i \in SUBSET (0 .. n)
    OBVIOUS
  <2> QED BY <1>1, <2>1, FS_Interval DEF FiniteSubsetsOf
<1>3. T # {}
  OBVIOUS
<1>4. IsWellFoundedOn(R, FiniteSubsetsOf(0 .. n))
  BY FS_StrictSubsetOrderingWellFounded
<1> HIDE DEF R, T
<1>5. PICK x \in T : \A y \in T : <<y, x>> \notin R
  BY <1>2, <1>3, <1>4, WFMin
<1> USE DEF R, T
<1>6. PICK i \in (0 .. n) \ B : x = 0 .. i
  OBVIOUS
<1>7. i - 1 \in (0 .. n) \ B
  OBVIOUS
<1>8. 0 .. i - 1 \in T
  BY <1>7
<1>9. <<0 .. i - 1, x>> \in R
  <2>1. 0 .. i - 1 \in SUBSET (0 .. n) /\ x \in SUBSET (0 .. n)
    BY <1>6
  <2>2. 0 .. i - 1 \subseteq x /\ 0 .. i - 1 # x
    <3>1. i \in x /\ i \notin 0 .. i - 1
      BY <1>6
    <3> QED BY <1>6, <3>1
  <2> QED BY <2>1, <2>2 DEF StrictSubsetOrdering
<1> QED BY <1>5, <1>8, <1>9

\* A set of numbers that is not empty has a least one.
LEMMA LeastNumber ==
  ASSUME NEW S \in SUBSET Nat, S # {}
  PROVE  Min(S) \in S /\ \A x \in S : Min(S) <= x
<1>1. PICK m \in S : TRUE
  OBVIOUS
<1>2. m \in Nat
  OBVIOUS
<1> DEFINE B == {i \in 0 .. m : \A j \in 0 .. i : j \notin S}
<1>3. \E x \in S : \A y \in S : x <= y
  <2> SUFFICES ASSUME ~ \E x \in S : \A y \in S : x <= y PROVE FALSE
    OBVIOUS
  <2>1. B \in SUBSET (0 .. m)
    OBVIOUS
  <2>2. 0 \in B
    BY <1>2
  <2>3. ASSUME NEW i \in 0 .. m - 1, i \in B PROVE i + 1 \in B
    <3>1. \A j \in 0 .. i : j \notin S
      BY <2>3
    <3>2. \A y \in S : i + 1 <= y
      BY <1>2, <3>1
    <3>3. i + 1 \notin S
      BY <3>2
    <3>4. \A j \in 0 .. i + 1 : j \in 0 .. i \/ j = i + 1
      BY <1>2
    <3> QED BY <1>2, <3>1, <3>3, <3>4
  <2> HIDE DEF B
  <2>4. B = 0 .. m
    BY <1>2, <2>1, <2>2, <2>3, UpTo
  <2>5. m \in B
    BY <1>2, <2>4
  <2> QED BY <1>1, <1>2, <2>5 DEF B
<1> QED BY <1>3, Zenon DEF Min

\* The elements of a sequence are elements of its set.
LEMMA ElementsType ==
  ASSUME NEW S, NEW s \in Seq(S)
  PROVE  /\ ToSet(s) \in SUBSET S
         /\ Len(s) \in Nat /\ DOMAIN s = 1 .. Len(s)
         /\ \A i \in 1 .. Len(s) : s[i] \in S /\ s[i] \in ToSet(s)
         /\ \A x \in ToSet(s) : \E i \in 1 .. Len(s) : s[i] = x
BY DEF ToSet

\* Taking the first element (VecDeque::pop_front).
LEMMA TailElements ==
  ASSUME NEW S, NEW s \in Seq(S), s # <<>>
  PROVE  /\ Head(s) \in S /\ Tail(s) \in Seq(S)
         /\ ToSet(s) = {Head(s)} \cup ToSet(Tail(s))
         /\ IsInjective(s) => IsInjective(Tail(s)) /\ Head(s) \notin ToSet(Tail(s))
<1>1. /\ Head(s) \in S /\ Tail(s) \in Seq(S) /\ Len(Tail(s)) = Len(s) - 1
      /\ \A i \in 1 .. Len(Tail(s)) : Tail(s)[i] = s[i + 1]
  BY HeadTailProperties
<1>2. Head(s) = s[1] /\ Len(s) \in Nat \ {0}
  BY EmptySeq
<1> DEFINE n == Len(s)  t == Tail(s)
<1>3. /\ n \in Nat \ {0} /\ DOMAIN s = 1 .. n /\ DOMAIN t = 1 .. n - 1
      /\ \A i \in 1 .. n - 1 : t[i] = s[i + 1]
  BY <1>1, <1>2
<1> HIDE DEF n, t
<1>4. ToSet(s) = {s[1]} \cup ToSet(t)
  <2>1. ASSUME NEW i \in 1 .. n PROVE s[i] \in {s[1]} \cup ToSet(t)
    <3>1. CASE i = 1
      BY <3>1
    <3>2. CASE i # 1
      <4>1. i - 1 \in 1 .. n - 1 /\ t[i - 1] = s[(i - 1) + 1] /\ (i - 1) + 1 = i
        BY <1>3, <3>2
      <4> QED BY <1>3, <4>1 DEF ToSet
    <3> QED BY <3>1, <3>2
  <2>2. ASSUME NEW i \in 1 .. n - 1 PROVE t[i] \in ToSet(s)
    BY <1>3 DEF ToSet
  <2>3. s[1] \in ToSet(s)
    BY <1>3 DEF ToSet
  <2> QED BY <1>3, <2>1, <2>2, <2>3 DEF ToSet
<1>5. IsInjective(s) => IsInjective(t) /\ s[1] \notin ToSet(t)
  <2> HAVE IsInjective(s)
  <2>1. \A i, j \in 1 .. n : s[i] = s[j] => i = j
    BY <1>3 DEF IsInjective
  <2>2. \A i \in 1 .. n - 1 : i + 1 \in 1 .. n /\ i + 1 # 1
    BY <1>3
  <2>3. \A i, j \in 1 .. n - 1 : t[i] = t[j] => i + 1 = j + 1
    BY <1>3, <2>1, <2>2
  <2>4. \A i \in 1 .. n - 1 : t[i] # s[1]
    BY <1>3, <2>1, <2>2
  <2> QED BY <1>3, <2>3, <2>4 DEF IsInjective, ToSet
<1> QED BY <1>1, <1>2, <1>4, <1>5 DEF t

\* Adding an element at the end (Vec::push).
LEMMA AppendElements ==
  ASSUME NEW S, NEW s \in Seq(S), NEW e \in S
  PROVE  /\ Append(s, e) \in Seq(S) /\ Append(s, e) # <<>>
         /\ Len(Append(s, e)) = Len(s) + 1 /\ Last(Append(s, e)) = e
         /\ DOMAIN Append(s, e) = 1 .. Len(s) + 1
         /\ \A i \in 1 .. Len(s) : Append(s, e)[i] = s[i]
         /\ Append(s, e)[Len(s) + 1] = e
         /\ ToSet(Append(s, e)) = ToSet(s) \cup {e}
         /\ IsInjective(s) /\ e \notin ToSet(s) => IsInjective(Append(s, e))
<1> DEFINE n == Len(s)  t == Append(s, e)
<1>1. /\ n \in Nat /\ DOMAIN s = 1 .. n /\ t \in Seq(S) /\ t # <<>> /\ Len(t) = n + 1
      /\ DOMAIN t = 1 .. n + 1 /\ \A i \in 1 .. n : t[i] = s[i]
      /\ t[n + 1] = e
  BY AppendProperties
<1> HIDE DEF n, t
<1>2. ToSet(t) = ToSet(s) \cup {e}
  BY <1>1 DEF ToSet
<1>3. IsInjective(s) /\ e \notin ToSet(s) => IsInjective(t)
  BY <1>1 DEF IsInjective, ToSet
<1> QED BY <1>1, <1>2, <1>3 DEF n, t, Last

\* Two sequences behind each other.
LEMMA ConcatElements ==
  ASSUME NEW S, NEW s \in Seq(S), NEW t \in Seq(S)
  PROVE  s \o t \in Seq(S) /\ ToSet(s \o t) = ToSet(s) \cup ToSet(t)
<1> DEFINE u == s \o t  m == Len(s)  n == Len(t)
<1>1. /\ m \in Nat /\ n \in Nat /\ DOMAIN s = 1 .. m /\ DOMAIN t = 1 .. n
      /\ u \in Seq(S) /\ DOMAIN u = 1 .. m + n
      /\ \A i \in 1 .. m + n : u[i] = IF i <= m THEN s[i] ELSE t[i - m]
  BY ConcatProperties
<1> HIDE DEF u, m, n
<1>2. \A i \in 1 .. m + n : i <= m \/ i - m \in 1 .. n
  BY <1>1
<1>3. \A i \in 1 .. n : i + m \in 1 .. m + n /\ ~(i + m <= m) /\ (i + m) - m = i
  BY <1>1
<1>4. ToSet(s) \cup ToSet(t) \subseteq ToSet(u)
  <2>1. ASSUME NEW i \in 1 .. m PROVE s[i] \in ToSet(u)
    <3>1. i \in 1 .. m + n /\ i <= m
      BY <1>1
    <3> QED BY <1>1, <3>1 DEF ToSet
  <2>2. ASSUME NEW i \in 1 .. n PROVE t[i] \in ToSet(u)
    <3>1. u[i + m] = t[i]
      BY <1>1, <1>3
    <3> QED BY <1>1, <1>3, <3>1 DEF ToSet
  <2> QED BY <1>1, <2>1, <2>2 DEF ToSet
<1>5. ToSet(u) \subseteq ToSet(s) \cup ToSet(t)
  <2>1. ASSUME NEW i \in 1 .. m + n PROVE u[i] \in ToSet(s) \cup ToSet(t)
    <3>1. CASE i <= m
      <4>1. u[i] = s[i] /\ i \in 1 .. m
        BY <1>1, <3>1
      <4> QED BY <1>1, <4>1 DEF ToSet
    <3>2. CASE ~(i <= m)
      <4>1. u[i] = t[i - m] /\ i - m \in 1 .. n
        BY <1>1, <3>2
      <4> QED BY <1>1, <4>1 DEF ToSet
    <3> QED BY <3>1, <3>2
  <2> QED BY <1>1, <2>1 DEF ToSet
<1> QED BY <1>1, <1>4, <1>5 DEF u

\* The stack without its top, and its top (Vec::pop).
LEMMA FrontElements ==
  ASSUME NEW S, NEW s \in Seq(S), s # <<>>
  PROVE  /\ Front(s) \in Seq(S) /\ Len(Front(s)) = Len(s) - 1
         /\ DOMAIN Front(s) = 1 .. Len(s) - 1
         /\ \A i \in 1 .. Len(s) - 1 : Front(s)[i] = s[i]
         /\ Len(s) \in 1 .. Len(s) /\ Last(s) = s[Len(s)] /\ Last(s) \in S
<1> DEFINE n == Len(s)
<1>1. n \in Nat \ {0} /\ DOMAIN s = 1 .. n /\ \A i \in 1 .. n : s[i] \in S
  BY EmptySeq
<1>2. /\ SubSeq(s, 1, n - 1) \in Seq(S)
      /\ Len(SubSeq(s, 1, n - 1)) = n - 1
      /\ \A i \in 1 .. n - 1 : SubSeq(s, 1, n - 1)[i] = s[i]
  <2> DEFINE m == n - 1
  <2>1. m \in Nat /\ m \in Int /\ 1 \in Int /\ \A i \in 1 .. m : s[i] \in S
    BY <1>1
  <2> HIDE DEF m
  <2>2. /\ SubSeq(s, 1, m) \in Seq(S)
        /\ Len(SubSeq(s, 1, m)) = IF 1 <= m THEN m - 1 + 1 ELSE 0
        /\ \A i \in 1 .. m - 1 + 1 : SubSeq(s, 1, m)[i] = s[1 + i - 1]
    BY <2>1, SubSeqProperties
  <2>3. Len(SubSeq(s, 1, m)) = m /\ \A i \in 1 .. m : SubSeq(s, 1, m)[i] = s[i]
    BY <2>1, <2>2
  <2> QED BY <2>2, <2>3 DEF m
<1>3. DOMAIN SubSeq(s, 1, n - 1) = 1 .. n - 1
  BY <1>2
<1> QED BY <1>1, <1>2, <1>3 DEF Front, Last

\* Of a single part nothing is made but the part.
LEMMA FlattenOne ==
  ASSUME NEW x
  PROVE  FlattenSeq([i \in 1 .. 1 |-> x]) = x
<1> DEFINE s == [i \in 1 .. 1 |-> x]
           R(f) == f = [i \in 1 .. 1 |-> IF i = 1 THEN s[i] ELSE f[i - 1] \o s[i]]
           f0 == CHOOSE f : R(f)
<1>1. Len(s) = 1 /\ s[1] = x
  OBVIOUS
<1>2. R([i \in 1 .. 1 |-> x])
  OBVIOUS
<1>3. R(f0)
  BY <1>2
<1>4. f0[1] = x
  <2>1. f0 = [i \in 1 .. 1 |-> IF i = 1 THEN s[i] ELSE f0[i - 1] \o s[i]]
    BY <1>3
  <2> HIDE DEF f0
  <2> QED BY <1>1, <2>1
<1>5. FlattenSeq(s) = f0[Len(s)]
  BY <1>1 DEF FlattenSeq
<1> QED BY <1>1, <1>4, <1>5
\* F starts with v, and step[i] makes its i-th value of the one before.
Recurses(F, n, V, v, step) ==
  F \in [0 .. n -> V] /\ F[0] = v /\ \A i \in 1 .. n : F[i] = step[i][F[i - 1]]

\* A recursive function over 0 .. n has values.
LEMMA Recursion ==
  ASSUME NEW n \in Nat, NEW V, NEW v \in V, NEW step \in [1 .. n -> [V -> V]]
  PROVE  \E F : Recurses(F, n, V, v, step)
<1> DEFINE Upto(k, F) == F \in [0 .. k -> V] /\ F[0] = v
                         /\ \A i \in 1 .. k : F[i] = step[i][F[i - 1]]
           B == {k \in 0 .. n : \E F : Upto(k, F)}
<1>1. 0 \in B
  <2>1. Upto(0, [i \in 0 .. 0 |-> v])
    OBVIOUS
  <2> HIDE DEF Upto
  <2> QED BY <2>1
<1>2. ASSUME NEW k \in 0 .. n - 1, k \in B PROVE k + 1 \in B
  <2>1. PICK F : Upto(k, F)
    BY <1>2
  <2>2. k \in Nat /\ k + 1 \in 1 .. n /\ k + 1 \in 0 .. n /\ (k + 1) - 1 = k /\ k \in 0 .. k
        /\ k + 1 # 0 /\ 0 \in 0 .. k
    OBVIOUS
  <2>3. F \in [0 .. k -> V] /\ F[0] = v /\ \A i \in 1 .. k : F[i] = step[i][F[i - 1]]
    BY <2>1
  <2> HIDE DEF Upto
  <2> DEFINE next == step[k + 1][F[k]]
             G == [i \in 0 .. k + 1 |-> IF i = k + 1 THEN next ELSE F[i]]
  <2>4. next \in V
    <3>1. F[k] \in V /\ step[k + 1] \in [V -> V]
      BY <2>2, <2>3
    <3> QED BY <3>1
  <2> HIDE DEF next
  <2>5. G \in [0 .. k + 1 -> V]
    <3>1. \A i \in 0 .. k + 1 : i = k + 1 \/ i \in 0 .. k
      BY <2>2
    <3> QED BY <2>3, <2>4, <3>1
  <2>6. G[0] = v /\ G[k + 1] = next /\ \A i \in 0 .. k : G[i] = F[i]
    BY <2>2, <2>3
  <2> HIDE DEF G
  <2>7. ASSUME NEW i \in 1 .. k + 1 PROVE G[i] = step[i][G[i - 1]]
    <3>1. CASE i = k + 1
      BY <2>2, <2>6, <3>1 DEF next
    <3>2. CASE i # k + 1
      <4>1. i \in 1 .. k /\ i \in 0 .. k /\ i - 1 \in 0 .. k
        BY <2>2, <3>2
      <4> QED BY <2>3, <2>6, <4>1
    <3> QED BY <3>1, <3>2
  <2>8. Upto(k + 1, G)
    BY <2>5, <2>6, <2>7 DEF Upto
  <2> QED BY <2>2, <2>8
<1>3. B \in SUBSET (0 .. n)
  OBVIOUS
<1>4. n \in B
  <2> HIDE DEF B
  <2>1. B = 0 .. n
    BY <1>1, <1>2, <1>3, UpTo
  <2> QED BY <2>1
<1> QED BY <1>4 DEF Recurses

\* What such a recursion yields stays where its steps stay.
LEMMA RecursionStays ==
  ASSUME NEW n \in Nat, NEW S, NEW H, H[0] \in S,
         \A i \in 1 .. n : H[i - 1] \in S => H[i] \in S
  PROVE  \A i \in 0 .. n : H[i] \in S
<1> DEFINE B == {i \in 0 .. n : H[i] \in S}
<1>1. 0 \in B /\ B \in SUBSET (0 .. n)
  OBVIOUS
<1>2. \A i \in 0 .. n - 1 : i \in B => i + 1 \in B
  <2> TAKE i \in 0 .. n - 1
  <2>1. i + 1 \in 1 .. n /\ i + 1 - 1 = i /\ i + 1 \in 0 .. n /\ i \in 0 .. n
    OBVIOUS
  <2>2. H[i] \in S => H[i + 1] \in S
    BY <2>1
  <2> QED BY <2>1, <2>2
<1> HIDE DEF B
<1>3. B = 0 .. n
  BY <1>1, <1>2, UpTo
<1> QED BY <1>3 DEF B

\* F does so as long as its values are in V.
Unfolds(F, n, V, v, step) ==
  F[0] = v /\ \A i \in 1..n : F[i - 1] \in V => F[i] = step[i][F[i - 1]]

\* A recursion has one solution.
LEMMA RecursionOnce ==
  ASSUME NEW n \in Nat, NEW V, NEW v \in V, NEW step \in [1..n -> [V -> V]],
         NEW H, Recurses(H, n, V, v, step), NEW F, Unfolds(F, n, V, v, step)
  PROVE  F[n] = H[n]
<1> DEFINE B == {i \in 0..n : F[i] = H[i]}
<1>0. F[0] = v /\ \A i \in 1..n : F[i - 1] \in V => F[i] = step[i][F[i - 1]]
  BY DEF Unfolds
<1>1. H \in [0..n -> V] /\ H[0] = v /\ \A i \in 1..n : H[i] = step[i][H[i - 1]]
  BY DEF Recurses
<1>2. 0 \in B /\ B \in SUBSET (0..n)
  BY <1>0, <1>1
<1>3. \A i \in 0..n - 1 : i \in B => i + 1 \in B
  <2> SUFFICES ASSUME NEW i \in 0..n - 1, i \in B PROVE i + 1 \in B
    OBVIOUS
  <2>1. i + 1 \in 1..n /\ i + 1 - 1 = i /\ i + 1 \in 0..n /\ i \in 0..n
    OBVIOUS
  <2>2. F[i] = H[i] /\ H[i] \in V
    BY <1>1, <2>1
  <2>3. F[i + 1] = step[i + 1][F[i]] /\ H[i + 1] = step[i + 1][H[i]]
    BY <1>0, <1>1, <2>1, <2>2
  <2> QED BY <2>1, <2>2, <2>3
<1> HIDE DEF B
<1>4. B = 0..n
  BY <1>2, <1>3, UpTo
<1> QED BY <1>4 DEF B

\* A chain of subsets of U, each made of the one before.
Chain(H, n, U, G) ==
  /\ H \in [0 .. n -> SUBSET U] /\ G \in [SUBSET U -> SUBSET U]
  /\ \A i \in 1 .. n : H[i] = G[H[i - 1]]
  /\ \A i \in 0 .. n : H[i] \subseteq G[H[i]]

\* A chain of subsets of a finite set, each made of the one before, has stopped
\* growing when it has as many steps as the set has elements.
LEMMA ChainStops ==
  ASSUME NEW U, IsFiniteSet(U), NEW n \in Nat, Cardinality(U) <= n,
         NEW H, NEW G, Chain(H, n, U, G)
  PROVE  G[H[n]] = H[n]
<1>0. /\ H \in [0 .. n -> SUBSET U] /\ G \in [SUBSET U -> SUBSET U]
      /\ \A i \in 1 .. n : H[i] = G[H[i - 1]]
      /\ \A i \in 0 .. n : H[i] \subseteq G[H[i]]
  BY DEF Chain
<1> DEFINE B == {i \in 0 .. n : G[H[i]] = H[i] \/ Cardinality(H[i]) >= i}
<1>1. \A T \in SUBSET U : IsFiniteSet(T) /\ Cardinality(T) \in Nat /\ Cardinality(T) <= Cardinality(U)
                          /\ (Cardinality(T) = Cardinality(U) => T = U)
  BY FS_Subset, FS_CardinalityType
<1>2. Cardinality(U) \in Nat
  BY FS_CardinalityType
<1>3. 0 \in B /\ B \in SUBSET (0 .. n)
  <2>1. Cardinality(H[0]) >= 0
    BY <1>0, <1>1
  <2> QED BY <2>1
<1>4. ASSUME NEW i \in 0 .. n - 1, i \in B PROVE i + 1 \in B
  <2>1. i + 1 \in 1 .. n /\ i + 1 - 1 = i /\ i + 1 \in 0 .. n /\ i \in 0 .. n
    OBVIOUS
  <2>2. H[i + 1] = G[H[i]] /\ H[i] \subseteq H[i + 1]
    BY <1>0, <2>1
  <2>3. CASE G[H[i]] = H[i]
    BY <2>1, <2>2, <2>3
  <2>4. CASE G[H[i]] # H[i] /\ Cardinality(H[i]) >= i
    <3>1. H[i] # H[i + 1] /\ H[i] \in SUBSET U /\ H[i + 1] \in SUBSET U
      BY <1>0, <2>1, <2>2, <2>4
    <3>2. Cardinality(H[i]) <= Cardinality(H[i + 1]) /\ Cardinality(H[i]) # Cardinality(H[i + 1])
      <4> DEFINE A == H[i]  C == H[i + 1]
      <4>1. IsFiniteSet(C) /\ A \in SUBSET C /\ A # C
        BY <1>1, <2>2, <3>1
      <4> HIDE DEF A, C
      <4>2. Cardinality(A) <= Cardinality(C) /\ (Cardinality(C) = Cardinality(A) => C = A)
        BY <4>1, FS_Subset
      <4>3. Cardinality(A) <= Cardinality(C) /\ Cardinality(A) # Cardinality(C)
        BY <4>1, <4>2
      <4> QED BY <4>3 DEF A, C
    <3>3. Cardinality(H[i]) \in Nat /\ Cardinality(H[i + 1]) \in Nat
      BY <1>1, <3>1
    <3>4. \A a, b \in Nat : a >= i /\ a <= b /\ a # b => b >= i + 1
      OBVIOUS
    <3>5. Cardinality(H[i + 1]) >= i + 1
      BY <2>4, <3>2, <3>3, <3>4
    <3> QED BY <2>1, <3>5
  <2> QED BY <1>4, <2>3, <2>4
<1> HIDE DEF B
<1>5. B = 0 .. n
  BY <1>3, <1>4, UpTo
<1>6. CASE Cardinality(H[n]) >= n
  <2>1. H[n] \in SUBSET U /\ G[H[n]] \in SUBSET U /\ H[n] \subseteq G[H[n]]
    BY <1>0
  <2>2. Cardinality(H[n]) \in Nat /\ Cardinality(H[n]) <= Cardinality(U)
    BY <1>1, <2>1
  <2>3. \A a, b \in Nat : a >= n /\ a <= b /\ b <= n => a = b
    OBVIOUS
  <2>4. Cardinality(H[n]) = Cardinality(U)
    BY <1>2, <1>6, <2>2, <2>3
  <2>5. H[n] = U
    BY <1>1, <2>1, <2>4
  <2> QED BY <2>1, <2>5
<1>7. n \in B
  BY <1>5
<1> QED BY <1>6, <1>7 DEF B

\* The stack without its top (Vec::pop), whatever the stack holds.
LEMMA FrontType ==
  ASSUME NEW S, NEW s \in Seq(S)
  PROVE  /\ Front(s) \in Seq(S)
         /\ s # <<>> => Len(Front(s)) = Len(s) - 1
         /\ \A i \in 1 .. (Len(s) - 1) : Front(s)[i] = s[i]
<1>1. Len(s) \in Nat /\ \A i \in 1 .. (Len(s) - 1) : s[i] \in S
  OBVIOUS
<1>2. /\ Front(s) \in Seq(S)
      /\ Len(Front(s)) = IF 1 <= Len(s) - 1 THEN Len(s) - 1 - 1 + 1 ELSE 0
      /\ \A i \in 1 .. (Len(s) - 1) - 1 + 1 : Front(s)[i] = s[1 + i - 1]
  <2> DEFINE n == Len(s) - 1
  <2>1. n \in Int /\ \A i \in 1 .. n : s[i] \in S
    BY <1>1
  <2> HIDE DEF n
  <2>2. /\ SubSeq(s, 1, n) \in Seq(S)
        /\ Len(SubSeq(s, 1, n)) = IF 1 <= n THEN n - 1 + 1 ELSE 0
        /\ \A i \in 1 .. n - 1 + 1 : SubSeq(s, 1, n)[i] = s[1 + i - 1]
    BY <2>1, SubSeqProperties
  <2> QED BY <2>2 DEF Front, n
<1>3. s # <<>> => Len(s) >= 1
  BY EmptySeq, <1>1
<1>4. \A i \in 1 .. (Len(s) - 1) : Front(s)[i] = s[i]
  BY <1>1, <1>2
<1>5. s # <<>> => Len(Front(s)) = Len(s) - 1
  <2> HAVE s # <<>>
  <2> DEFINE n == Len(s)  m == Len(Front(s))
  <2>1. n \in Nat /\ n >= 1 /\ m = IF 1 <= n - 1 THEN n - 1 - 1 + 1 ELSE 0
    BY <1>1, <1>2, <1>3
  <2> HIDE DEF n, m
  <2>2. m = n - 1
    BY <2>1
  <2> QED BY <2>2 DEF n, m
<1> QED BY <1>2, <1>4, <1>5

\* Vec::last of a stack that is not empty.
LEMMA LastType ==
  ASSUME NEW S, NEW s \in Seq(S), s # <<>>
  PROVE  Last(s) \in S /\ Len(s) \in 1 .. Len(s) /\ Len(s) >= 1
BY EmptySeq, LenProperties DEF Last

\* Assigning to one element of a vector.
LEMMA ExceptType ==
  ASSUME NEW S, NEW s \in Seq(S), NEW i, NEW e, i \in DOMAIN s => e \in S
  PROVE  /\ [s EXCEPT ![i] = e] \in Seq(S)
         /\ Len([s EXCEPT ![i] = e]) = Len(s)
         /\ \A j \in DOMAIN s : [s EXCEPT ![i] = e][j] = IF j = i THEN e ELSE s[j]
<1>1. s \in [1 .. Len(s) -> S] /\ Len(s) \in Nat /\ DOMAIN s = 1 .. Len(s)
  BY LenProperties
<1>2. CASE i \in DOMAIN s
  BY <1>1, <1>2, ExceptSeq
<1>3. CASE i \notin DOMAIN s
  <2>1. [s EXCEPT ![i] = e] = s
    BY <1>1, <1>3
  <2> QED BY <2>1, <1>3
<1> QED BY <1>2, <1>3

\* Popping the last element and pushing it again (lower_ret) changes nothing.
LEMMA Rejoined ==
  ASSUME NEW S, NEW s \in Seq(S), s # <<>>
  PROVE  Append(Front(s), Last(s)) = s
<1> DEFINE n == Len(s)  t == Front(s)  e == Last(s)  u == Append(t, e)
<1>1. /\ t \in Seq(S) /\ Len(t) = n - 1 /\ \A i \in 1 .. n - 1 : t[i] = s[i]
      /\ n \in 1 .. n /\ e = s[n] /\ e \in S
  BY FrontElements
<1>2. n \in Nat /\ n >= 1 /\ (n - 1) + 1 = n /\ \A i \in 1 .. n : i \in 1 .. n - 1 \/ i = n
  BY <1>1, LenProperties
<1> HIDE DEF t, e
<1>3. /\ u \in Seq(S) /\ Len(u) = n /\ \A i \in 1 .. n - 1 : u[i] = t[i]
      /\ u[n] = e
  BY <1>1, <1>2, AppendElements
<1> HIDE DEF u
<1>4. \A i \in 1 .. n : u[i] = s[i]
  BY <1>1, <1>2, <1>3
<1>5. u = s
  BY <1>3, <1>4, SeqEqual
<1> QED BY <1>5 DEF u, t, e

\* The largest of some numbers (Max).
LEMMA LargestOf ==
  ASSUME NEW n \in Nat, NEW S \in SUBSET (1 .. n), S # {}
  PROVE  Max(S) \in S /\ \A x \in S : x <= Max(S)
<1> DEFINE P(k) == S \cap (1 .. k) # {} => \E m \in S \cap (1 .. k) : \A x \in S \cap (1 .. k) : x <= m
           B == {k \in 0 .. n : P(k)}
<1>1. P(0)
  OBVIOUS
<1>2. ASSUME NEW k \in 0 .. n - 1, P(k) PROVE P(k + 1)
  <2>1. k + 1 \in 1 .. k + 1 /\ 1 .. k + 1 = (1 .. k) \cup {k + 1}
        /\ \A x \in 1 .. k : x <= k + 1
    OBVIOUS
  <2>2. CASE k + 1 \in S
    <3>1. \A x \in S \cap (1 .. k + 1) : x <= k + 1
      BY <2>1
    <3> QED BY <2>1, <2>2, <3>1
  <2>3. CASE k + 1 \notin S
    <3>1. S \cap (1 .. k + 1) = S \cap (1 .. k)
      BY <2>1, <2>3
    <3> QED BY <1>2, <3>1
  <2> QED BY <2>2, <2>3
<1> HIDE DEF P
<1>3. B = 0 .. n
  <2>1. 0 \in B /\ B \in SUBSET (0 .. n) /\ \A k \in 0 .. n - 1 : k \in B => k + 1 \in B
    BY <1>1, <1>2
  <2> HIDE DEF B
  <2> QED BY <2>1, UpTo
<1>4. \E m \in S : \A x \in S : x <= m
  <2> HIDE DEF B
  <2>1. n \in 0 .. n /\ S \cap (1 .. n) = S
    <3>1. n \in 0 .. n
      OBVIOUS
    <3>2. S \cap (1 .. n) = S
      OBVIOUS
    <3> QED BY <3>1, <3>2
  <2>2. P(n)
    BY <1>3, <2>1 DEF B
  <2> QED BY <2>1, <2>2 DEF P
<1>5. \E m \in S : \A x \in S : m >= x
  <2>1. \A x \in S : x \in Nat
    OBVIOUS
  <2> QED BY <1>4, <2>1
<1>6. Max(S) \in S /\ \A x \in S : Max(S) >= x
  BY <1>5 DEF Max
<1> QED BY <1>6

-----------------------------------------------------------------------------
(* What is in a sequence once, and what is in one of its parts.            *)

OnceIn(s, e) == \E i \in DOMAIN s : s[i] = e /\ \A j \in DOMAIN s : s[j] = e => j = i
Absent(ss, x) == \A k \in DOMAIN ss : x \notin ToSet(ss[k])
OneIn(ss, x) ==
  \E k \in DOMAIN ss : OnceIn(ss[k], x) /\ \A j \in DOMAIN ss : j # k => x \notin ToSet(ss[j])

\* An element of one of two sequences is where it was when they are joined.
LEMMA OnceConcat ==
  ASSUME NEW S, NEW s \in Seq(S), NEW t \in Seq(S), NEW e
  PROVE  /\ OnceIn(s, e) /\ e \notin ToSet(t) => OnceIn(s \o t, e)
         /\ e \notin ToSet(s) /\ OnceIn(t, e) => OnceIn(s \o t, e)
<1> DEFINE u == s \o t  m == Len(s)  n == Len(t)
<1>1. /\ m \in Nat /\ n \in Nat /\ DOMAIN s = 1 .. m /\ DOMAIN t = 1 .. n
      /\ DOMAIN u = 1 .. m + n
      /\ \A i \in 1 .. m + n : u[i] = IF i <= m THEN s[i] ELSE t[i - m]
  BY ConcatProperties
<1> HIDE DEF u, m, n
<1>2. ASSUME NEW j \in 1 .. m + n
      PROVE  \/ j \in 1 .. m /\ u[j] = s[j]
             \/ j - m \in 1 .. n /\ u[j] = t[j - m]
  BY <1>1
<1>3. ASSUME OnceIn(s, e), e \notin ToSet(t) PROVE OnceIn(u, e)
  <2>1. PICK i \in 1 .. m : s[i] = e /\ \A j \in 1 .. m : s[j] = e => j = i
    BY <1>1, <1>3 DEF OnceIn
  <2>2. i \in 1 .. m + n /\ u[i] = e
    BY <1>1, <2>1
  <2>3. \A j \in 1 .. n : t[j] # e
    BY <1>1, <1>3 DEF ToSet
  <2>4. ASSUME NEW j \in 1 .. m + n, u[j] = e PROVE j = i
    BY <1>2, <2>1, <2>3, <2>4
  <2> QED BY <1>1, <2>2, <2>4 DEF OnceIn
<1>4. ASSUME e \notin ToSet(s), OnceIn(t, e) PROVE OnceIn(u, e)
  <2>1. PICK i \in 1 .. n : t[i] = e /\ \A j \in 1 .. n : t[j] = e => j = i
    BY <1>1, <1>4 DEF OnceIn
  <2>2. i + m \in 1 .. m + n /\ ~(i + m <= m) /\ (i + m) - m = i
    BY <1>1
  <2>3. u[i + m] = e
    BY <1>1, <2>1, <2>2
  <2>4. \A j \in 1 .. m : s[j] # e
    BY <1>1, <1>4 DEF ToSet
  <2>5. ASSUME NEW j \in 1 .. m + n, u[j] = e PROVE j = i + m
    <3>1. j - m \in 1 .. n /\ t[j - m] = e
      BY <1>2, <2>4, <2>5
    <3>2. j - m = i
      BY <2>1, <3>1
    <3> QED BY <1>1, <3>2
  <2> QED BY <1>1, <2>2, <2>3, <2>5 DEF OnceIn
<1> QED BY <1>3, <1>4 DEF u

\* One element.
LEMMA OnceSingle ==
  ASSUME NEW e
  PROVE  OnceIn(<<e>>, e) /\ ToSet(<<e>>) = {e}
<1> DEFINE s == <<e>>
<1>1. DOMAIN s = {1} /\ s[1] = e
  OBVIOUS
<1> HIDE DEF s
<1>2. OnceIn(s, e)
  BY <1>1 DEF OnceIn
<1>3. ToSet(s) = {e}
  BY <1>1 DEF ToSet
<1> QED BY <1>2, <1>3 DEF s

\* Reading backwards loses nothing.
LEMMA OnceReversed ==
  ASSUME NEW S, NEW s \in Seq(S)
  PROVE  /\ Reverse(s) \in Seq(S) /\ ToSet(Reverse(s)) = ToSet(s)
         /\ \A e : OnceIn(s, e) => OnceIn(Reverse(s), e)
<1> DEFINE n == Len(s)  r == Reverse(s)
<1>1. n \in Nat /\ DOMAIN s = 1 .. n /\ \A i \in 1 .. n : s[i] \in S
  OBVIOUS
<1>2. r = [i \in 1 .. n |-> s[(n - i) + 1]]
  BY DEF Reverse
<1> HIDE DEF n
<1>3. \A i \in 1 .. n : (n - i) + 1 \in 1 .. n /\ (n - ((n - i) + 1)) + 1 = i
  BY <1>1
<1>4. DOMAIN r = 1 .. n /\ \A i \in 1 .. n : r[i] = s[(n - i) + 1]
  BY <1>2
<1>5. r \in Seq(S)
  BY <1>1, <1>2, <1>3
<1> HIDE DEF r
<1>6. \A i \in 1 .. n : s[i] = r[(n - i) + 1]
  BY <1>3, <1>4
<1>7. ToSet(r) = ToSet(s)
  <2>1. \A i \in 1 .. n : r[i] \in ToSet(s)
    BY <1>1, <1>3, <1>4 DEF ToSet
  <2>2. \A i \in 1 .. n : s[i] \in ToSet(r)
    BY <1>3, <1>4, <1>6 DEF ToSet
  <2>3. ToSet(r) = {r[i] : i \in 1 .. n} /\ ToSet(s) = {s[i] : i \in 1 .. n}
    BY <1>1, <1>4 DEF ToSet
  <2> QED BY <2>1, <2>2, <2>3
<1>8. ASSUME NEW e, OnceIn(s, e) PROVE OnceIn(r, e)
  <2>1. PICK i \in 1 .. n : s[i] = e /\ \A j \in 1 .. n : s[j] = e => j = i
    BY <1>1, <1>8 DEF OnceIn
  <2>2. (n - i) + 1 \in 1 .. n /\ r[(n - i) + 1] = e
    BY <1>3, <1>6, <2>1
  <2>3. ASSUME NEW j \in 1 .. n, r[j] = e PROVE j = (n - i) + 1
    <3>1. (n - j) + 1 = i
      BY <1>3, <1>4, <2>1, <2>3
    <3> QED BY <1>1, <3>1
  <2> QED BY <1>4, <2>2, <2>3 DEF OnceIn
<1> QED BY <1>5, <1>7, <1>8 DEF r

\* What an open stack of scopes holds is still there after a scope was opened, after
\* something was added to the innermost one, and, but for that one, after it was left.
LEMMA ScopeOpened ==
  ASSUME NEW ss \in Seq(Seq(Nat)), NEW x
  PROVE  /\ Append(ss, <<>>) \in Seq(Seq(Nat))
         /\ Absent(ss, x) => Absent(Append(ss, <<>>), x)
         /\ OneIn(ss, x) => OneIn(Append(ss, <<>>), x)
<1> DEFINE none == <<>>  t == Append(ss, none)  n == Len(ss)
<1>1. none \in Seq(Nat) /\ ToSet(none) = {}
  BY DEF ToSet
<1> HIDE DEF none
<1>2. /\ t \in Seq(Seq(Nat)) /\ DOMAIN t = 1 .. n + 1 /\ t[n + 1] = none
      /\ \A i \in 1 .. n : t[i] = ss[i]
  BY <1>1, AppendElements
<1>3. n \in Nat /\ DOMAIN ss = 1 .. n /\ \A i \in 1 .. n + 1 : i \in 1 .. n \/ i = n + 1
  OBVIOUS
<1>4. \A i \in 1 .. n : i \in 1 .. n + 1
  BY <1>3
<1> HIDE DEF t, n
<1>5. Absent(ss, x) => Absent(t, x)
  BY <1>1, <1>2, <1>3 DEF Absent
<1>6. OneIn(ss, x) => OneIn(t, x)
  <2> SUFFICES ASSUME OneIn(ss, x) PROVE OneIn(t, x)
    OBVIOUS
  <2>1. PICK k \in 1 .. n : OnceIn(ss[k], x) /\ \A j \in 1 .. n : j # k => x \notin ToSet(ss[j])
    BY <1>3 DEF OneIn
  <2>2. \A j \in 1 .. n + 1 : j # k => x \notin ToSet(t[j])
    BY <1>1, <1>2, <1>3, <2>1
  <2>3. OnceIn(t[k], x) /\ k \in 1 .. n + 1
    BY <1>2, <1>4, <2>1
  <2> QED BY <1>2, <2>2, <2>3 DEF OneIn
<1> QED BY <1>2, <1>5, <1>6 DEF t, none
==============================================================================
