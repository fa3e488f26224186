------------------------- MODULE SubsequencesProofs -------------------------
(***************************************************************************)
(* What Kept returns for every list.  The theorems of the library that     *)
(* prove by induction take the induction's predicate as an operator; here  *)
(* it is the set of the rounds for which something holds, so that plain    *)
(* well-foundedness of the natural numbers is enough.                      *)
(***************************************************************************)
EXTENDS Subsequences, Integers, WellFoundedInduction, TLAPS

\* A set of natural numbers that is not empty has a least element.
LEMMA LeastNumber ==
  ASSUME NEW T, T \subseteq Nat, T # {}
  PROVE  \E m \in T : \A k \in T : m <= k
  <1> DEFINE less == OpToRel(<, Nat)
  <1>1. IsWellFoundedOn(less, Nat)
    BY NatLessThanWellFounded
  <1> HIDE DEF less
  <1>2. PICK m \in T : \A k \in T : ~(<<k, m>> \in less)
    BY <1>1, WFMin
  <1>3. \A k \in T : <<k, m>> \in less <=> k < m
    BY DEF less, OpToRel
  <1>4. ASSUME NEW k \in T PROVE m <= k
    <2>1. k \in Nat /\ m \in Nat /\ ~(k < m)
      BY <1>2, <1>3
    <2> QED BY <2>1
  <1> QED BY <1>4

\* Induction over the rounds of a loop: T is the set of those after which something holds.
LEMMA IntervalInduction ==
  ASSUME NEW N \in Nat, NEW T, 0 \in T, \A n \in 1..N : n - 1 \in T => n \in T
  PROVE  0..N \subseteq T
  <1> DEFINE rest == (0..N) \ T
  <1>1. SUFFICES ASSUME rest # {} PROVE FALSE
    OBVIOUS
  <1>2. rest \subseteq Nat
    OBVIOUS
  <1>3. PICK n \in rest : \A m \in rest : n <= m
    BY <1>1, <1>2, LeastNumber
  <1>4. n \in 1..N /\ n - 1 \in 0..N /\ ~(n <= n - 1)
    BY <1>3
  <1> QED BY <1>3, <1>4

\* The recursive function of Kept exists: the list after each round is that of the round
\* before, with the item appended if it is kept.
LEMMA KeptRounds ==
  ASSUME NEW s, Len(s) \in Nat, NEW keep
  PROVE  \E k : /\ k[0] = <<>>
                /\ \A n \in 1..Len(s) :
                     k[n] = IF s[n] \in keep THEN Append(k[n - 1], s[n]) ELSE k[n - 1]
                /\ Kept(s, keep) = k[Len(s)]
  <1> DEFINE Round(k, n) == IF n = 0 THEN <<>>
                            ELSE IF s[n] \in keep THEN Append(k[n - 1], s[n]) ELSE k[n - 1]
             T == {m \in 0..Len(s) : \E k : k = [n \in 0..m |-> Round(k, n)]}
  <1>1. 0 \in T
    <2> DEFINE k0 == [n \in 0..0 |-> <<>>]
    <2>1. k0 = [n \in 0..0 |-> Round(k0, n)]
      OBVIOUS
    <2> HIDE DEF k0, Round
    <2> QED BY <2>1
  <1>2. ASSUME NEW m \in 1..Len(s), m - 1 \in T PROVE m \in T
    <2>1. PICK k : k = [n \in 0..(m - 1) |-> Round(k, n)]
      BY <1>2
    <2> DEFINE l == [n \in 0..m |-> IF n = m THEN Round(k, m) ELSE k[n]]
    <2>2. ASSUME NEW n \in 0..m PROVE l[n] = Round(l, n)
      <3>1. n # 0 => l[n - 1] = k[n - 1]
        OBVIOUS
      <3>2. n # m => l[n] = k[n] /\ k[n] = Round(k, n)
        <4> SUFFICES ASSUME n # m PROVE l[n] = k[n] /\ k[n] = Round(k, n)
          OBVIOUS
        <4>1. n \in 0..(m - 1)
          OBVIOUS
        <4> HIDE DEF Round
        <4>2. k[n] = Round(k, n)
          BY <4>1, <2>1
        <4> QED BY <4>2
      <3>3. n = m => l[n] = Round(k, n)
        OBVIOUS
      <3>4. Round(l, n) = Round(k, n)
        <4> HIDE DEF l
        <4> QED BY <3>1
      <3> HIDE DEF l, Round
      <3> QED BY <3>2, <3>3, <3>4
    <2>3. l = [n \in 0..m |-> Round(l, n)]
      <3> HIDE DEF Round
      <3>1. \A n \in 0..m : l[n] = Round(l, n)
        BY <2>2
      <3>2. l = [n \in 0..m |-> l[n]]
        OBVIOUS
      <3> HIDE DEF l
      <3> QED BY <3>1, <3>2
    <2>4. m \in 0..Len(s)
      OBVIOUS
    <2> HIDE DEF l, Round
    <2> QED BY <2>3, <2>4
  <1>3. Len(s) \in T
    <2> HIDE DEF T
    <2>1. 0..Len(s) \subseteq T
      BY <1>1, <1>2, IntervalInduction
    <2> QED BY <2>1
  <1> DEFINE kept == CHOOSE k : k = [n \in 0..Len(s) |-> Round(k, n)]
  <1>4. kept = [n \in 0..Len(s) |-> Round(kept, n)]
    <2>1. \E k : k = [n \in 0..Len(s) |-> Round(k, n)]
      BY <1>3
    <2> HIDE DEF Round
    <2> QED BY <2>1
  <1>5. Kept(s, keep) = kept[Len(s)]
    BY DEF Kept
  <1> HIDE DEF kept
  <1>6. kept[0] = <<>>
    BY <1>4
  <1>7. ASSUME NEW n \in 1..Len(s)
        PROVE  kept[n] = IF s[n] \in keep THEN Append(kept[n - 1], s[n]) ELSE kept[n - 1]
    <2>1. n \in 0..Len(s) /\ n # 0
      OBVIOUS
    <2> QED BY <1>4, <2>1
  <1> QED BY <1>5, <1>6, <1>7

\* filterFolders and the loops like it lose no item that they keep, keep no other, and
\* leave each at most as often, and in the order, in which it was: the places of the items
\* in the list they come from increase.
THEOREM KeptIsSubsequence ==
  ASSUME NEW T, NEW s \in Seq(T), NEW keep
  PROVE  /\ Kept(s, keep) \in Seq(T \cap keep)
         /\ \A j \in 1..Len(s) : s[j] \in keep =>
              \E i \in 1..Len(Kept(s, keep)) : Kept(s, keep)[i] = s[j]
         /\ \E at \in [1..Len(Kept(s, keep)) -> 1..Len(s)] :
              /\ \A i \in 1..Len(Kept(s, keep)) : Kept(s, keep)[i] = s[at[i]]
              /\ \A i, j \in 1..Len(Kept(s, keep)) : i < j => at[i] < at[j]
  <1>1. Len(s) \in Nat /\ \A n \in 1..Len(s) : s[n] \in T
    OBVIOUS
  <1>2. PICK k : /\ k[0] = <<>>
                 /\ \A n \in 1..Len(s) :
                      k[n] = IF s[n] \in keep THEN Append(k[n - 1], s[n]) ELSE k[n - 1]
                 /\ Kept(s, keep) = k[Len(s)]
    BY <1>1, KeptRounds
  <1> DEFINE Embeds(l, n, at) ==
               /\ \A i \in 1..Len(l) : l[i] = s[at[i]]
               /\ \A i, j \in 1..Len(l) : i < j => at[i] < at[j]
             Good(n) ==
               /\ k[n] \in Seq(T \cap keep)
               /\ \A j \in 1..n : s[j] \in keep => \E i \in 1..Len(k[n]) : k[n][i] = s[j]
               /\ \E at \in [1..Len(k[n]) -> 1..n] : Embeds(k[n], n, at)
             R == {n \in 0..Len(s) : Good(n)}
  <1>3. 0 \in R
    <2>1. <<>> \in Seq(T \cap keep) /\ Len(<<>>) = 0 /\ 1..0 = {}
      OBVIOUS
    <2>2. \E at \in [1..0 -> 1..0] : Embeds(<<>>, 0, at)
      <3>1. [i \in 1..0 |-> i] \in [1..0 -> 1..0]
        OBVIOUS
      <3> QED BY <3>1, <2>1
    <2>3. Good(0)
      BY <2>1, <2>2, <1>2
    <2> QED BY <2>3, <1>1
  <1>4. ASSUME NEW n \in 1..Len(s), n - 1 \in R PROVE n \in R
    <2> DEFINE l == k[n - 1]
    <2>1. n - 1 \in Nat /\ n \in Nat /\ n # 0 /\ n \in 0..Len(s) /\ Good(n - 1) /\ s[n] \in T
      BY <1>1, <1>4
    <2>2. /\ l \in Seq(T \cap keep)
          /\ \A j \in 1..(n - 1) : s[j] \in keep => \E i \in 1..Len(l) : l[i] = s[j]
      BY <2>1
    <2>3. PICK at \in [1..Len(l) -> 1..(n - 1)] : Embeds(l, n - 1, at)
      BY <2>1
    <2>4. k[n] = IF s[n] \in keep THEN Append(l, s[n]) ELSE l
      BY <1>2
    <2>5. Len(l) \in Nat /\ 1..(n - 1) \subseteq 1..n
      BY <2>1, <2>2
    <2> HIDE DEF l
    <2>6. CASE s[n] \notin keep
      <3>1. k[n] = l
        BY <2>4, <2>6
      <3>2. at \in [1..Len(l) -> 1..n]
        BY <2>3, <2>5
      <3>3. ASSUME NEW j \in 1..n, s[j] \in keep PROVE \E i \in 1..Len(l) : l[i] = s[j]
        <4>1. j \in 1..(n - 1)
          BY <2>6, <3>3, <2>1
        <4> QED BY <4>1, <2>2, <3>3
      <3>4. Good(n)
        BY <3>1, <3>2, <3>3, <2>2, <2>3
      <3> QED BY <3>4, <2>1
    <2>7. CASE s[n] \in keep
      <3> DEFINE m == Append(l, s[n])
                 to == [i \in 1..Len(m) |-> IF i = Len(m) THEN n ELSE at[i]]
      <3>1. k[n] = m
        BY <2>4, <2>7
      <3>2. /\ m \in Seq(T \cap keep) /\ Len(m) = Len(l) + 1
            /\ m[Len(l) + 1] = s[n] /\ \A i \in 1..Len(l) : m[i] = l[i]
        BY <2>1, <2>2, <2>7
      <3> HIDE DEF m
      <3>3. \A i \in 1..Len(m) : i = Len(m) \/ i \in 1..Len(l)
        BY <3>2, <2>5
      <3>4. to \in [1..Len(m) -> 1..n]
        BY <3>2, <3>3, <2>1, <2>3, <2>5
      <3>5. \A i \in 1..Len(m) : m[i] = s[to[i]]
        BY <3>2, <3>3, <2>3
      <3>6. ASSUME NEW i \in 1..Len(m), NEW j \in 1..Len(m), i < j PROVE to[i] < to[j]
        <4>1. i \in 1..Len(l) /\ to[i] = at[i] /\ at[i] \in 1..(n - 1)
          BY <3>2, <3>3, <3>6, <2>3, <2>5
        <4>2. CASE j = Len(m)
          BY <4>1, <4>2, <2>1
        <4>3. CASE j # Len(m)
          BY <4>1, <4>3, <3>3, <3>6, <2>3
        <4> QED BY <4>2, <4>3
      <3>7. ASSUME NEW j \in 1..n, s[j] \in keep PROVE \E i \in 1..Len(m) : m[i] = s[j]
        <4>1. CASE j = n
          <5>1. Len(l) + 1 \in 1..Len(m)
            BY <3>2, <2>5
          <5> QED BY <4>1, <5>1, <3>2
        <4>2. CASE j # n
          <5>1. j \in 1..(n - 1)
            BY <4>2, <2>1
          <5>2. PICK i \in 1..Len(l) : l[i] = s[j]
            BY <5>1, <2>2, <3>7
          <5>3. i \in 1..Len(m) /\ m[i] = s[j]
            BY <5>2, <3>2, <2>5
          <5> QED BY <5>3
        <4> QED BY <4>1, <4>2
      <3>8. Good(n)
        <4> HIDE DEF to
        <4> QED BY <3>1, <3>2, <3>4, <3>5, <3>6, <3>7
      <3> QED BY <3>8, <2>1
    <2> QED BY <2>6, <2>7
  <1>5. Good(Len(s))
    <2> HIDE DEF Good
    <2>1. 0..Len(s) \subseteq R
      <3> HIDE DEF R
      <3> QED BY <1>1, <1>3, <1>4, IntervalInduction
    <2> QED BY <2>1, <1>1
  <1> QED BY <1>2, <1>5
=============================================================================
