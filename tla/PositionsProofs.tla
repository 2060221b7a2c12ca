--------------------------- MODULE PositionsProofs ---------------------------
(***************************************************************************)
(* Facts about lists that the other proofs need: what a filter keeps of    *)
(* one (Positions), and what is true after each step along one.            *)
(***************************************************************************)
EXTENDS Positions, FiniteSetTheorems, SequenceTheorems, WellFoundedInduction, TLAPS

-----------------------------------------------------------------------------
(* What a filter keeps                                                     *)

\* Positions are numbers; a set of positions of a sequence is finite.
LEMMA PositionsFinite ==
  ASSUME NEW T, NEW s \in Seq(T), NEW P \in SUBSET DOMAIN s
  PROVE  P \subseteq Nat /\ P \subseteq 1..Len(s) /\ IsFiniteSet(P)
<1>1. DOMAIN s = 1..Len(s) /\ Len(s) \in Nat
  BY LenProperties
<1>2. IsFiniteSet(1..Len(s))
  BY <1>1, FS_Interval
<1>3. IsFiniteSet(P)
  BY <1>1, <1>2, FS_Subset
<1>4. QED
  BY <1>1, <1>3

\* The rank of a position counts it and the positions before it.
LEMMA RankGrows ==
  ASSUME NEW P \in SUBSET Nat, IsFiniteSet(P), NEW i \in P, NEW j \in P
  PROVE  /\ Rank(P, i) \in 1..Cardinality(P)
         /\ i < j => Rank(P, i) < Rank(P, j)
<1> DEFINE upTo(k) == {x \in P : x <= k}
<1>1. \A k \in P : IsFiniteSet(upTo(k)) /\ Cardinality(upTo(k)) \in Nat
                     /\ Cardinality(upTo(k)) <= Cardinality(P)
  <2>1. \A k \in P : upTo(k) \in SUBSET P
    OBVIOUS
  <2>2. QED
    BY <2>1, FS_Subset, FS_CardinalityType
<1>2. Cardinality(upTo(i)) # 0
  <2>1. i \in upTo(i)
    OBVIOUS
  <2>2. QED
    BY <1>1, <2>1, FS_EmptySet
<1>3. ASSUME i < j
      PROVE  Cardinality(upTo(i)) < Cardinality(upTo(j))
  <2>1. upTo(i) \in SUBSET upTo(j) /\ j \in upTo(j) /\ j \notin upTo(i)
    <3>1. i \in Nat /\ j \in Nat /\ \A x \in P : x \in Nat
      OBVIOUS
    <3>2. \A x \in P : x <= i => x <= j
      BY <1>3, <3>1
    <3>3. ~(j <= i) /\ j <= j
      BY <1>3, <3>1
    <3>4. QED
      BY <3>2, <3>3
  <2>2. Cardinality(upTo(i)) <= Cardinality(upTo(j))
        /\ (Cardinality(upTo(i)) = Cardinality(upTo(j)) => upTo(i) = upTo(j))
    BY <1>1, <2>1, FS_Subset
  <2>3. upTo(i) # upTo(j)
    BY <2>1
  <2> HIDE DEF upTo
  <2>4. QED
    BY <1>1, <2>2, <2>3
<1>4. Cardinality(P) \in Nat
  BY FS_CardinalityType
<1>5. Rank(P, i) = Cardinality(upTo(i)) /\ Rank(P, j) = Cardinality(upTo(j))
  BY DEF Rank
<1> HIDE DEF upTo
<1>6. QED
  BY <1>1, <1>2, <1>3, <1>4, <1>5

\* Every rank is that of a position: the j-th position is there.
LEMMA NthIs ==
  ASSUME NEW P \in SUBSET Nat, IsFiniteSet(P), NEW j \in 1..Cardinality(P)
  PROVE  Nth(P, j) \in P /\ Rank(P, Nth(P, j)) = j
<1> DEFINE N == 1..Cardinality(P)
           f == [i \in P |-> Rank(P, i)]
<1>1. Cardinality(P) \in Nat
  BY FS_CardinalityType
<1>2. IsFiniteSet(N) /\ Cardinality(N) = Cardinality(P)
  BY <1>1, FS_Interval
<1>3. f \in [P -> N]
  BY RankGrows
<1>4. \A i, k \in P : f[i] = f[k] => i = k
  <2>1. \A i, k \in P : i < k => Rank(P, i) < Rank(P, k)
    BY RankGrows
  <2>2. \A i, k \in P : i = k \/ i < k \/ k < i
    OBVIOUS
  <2>3. \A i \in P : Rank(P, i) \in Nat
    BY <1>1, RankGrows
  <2>4. \A i, k \in P : Rank(P, i) = Rank(P, k) => i = k
    BY <2>1, <2>2, <2>3
  <2>5. QED
    BY <2>4
<1>5. f \in Injection(P, N)
  BY <1>3, <1>4 DEF Injection, IsInjective
<1>6. f \in Surjection(P, N)
  BY <1>2, <1>5, FS_Injection
<1>7. \E i \in P : Rank(P, i) = j
  BY <1>6 DEF Surjection
<1>8. QED
  BY <1>7 DEF Nth

\* What KeptAt returns is a sequence of elements of s from P, ...
LEMMA KeptIsSeq ==
  ASSUME NEW T, NEW s \in Seq(T), NEW P \in SUBSET DOMAIN s
  PROVE  /\ KeptAt(s, P) \in Seq(T)
         /\ DOMAIN KeptAt(s, P) = 1..Cardinality(P)
         /\ Len(KeptAt(s, P)) = Cardinality(P)
         /\ Cardinality(P) \in Nat
         /\ \A j \in DOMAIN KeptAt(s, P) : Nth(P, j) \in P /\ KeptAt(s, P)[j] = s[Nth(P, j)]
<1>1. P \subseteq Nat /\ IsFiniteSet(P)
  BY PositionsFinite
<1>2. Cardinality(P) \in Nat
  BY <1>1, FS_CardinalityType
<1>3. \A j \in 1..Cardinality(P) : Nth(P, j) \in P
  BY <1>1, NthIs
<1>4. \A i \in P : s[i] \in T
  BY ElementOfSeq, LenProperties
<1>5. /\ DOMAIN KeptAt(s, P) = 1..Cardinality(P)
      /\ \A j \in 1..Cardinality(P) : KeptAt(s, P)[j] = s[Nth(P, j)]
  BY DEF KeptAt
<1>6. KeptAt(s, P) = [j \in 1..Cardinality(P) |-> s[Nth(P, j)]]
  BY DEF KeptAt
<1>7. KeptAt(s, P) \in Seq(T)
  BY <1>2, <1>3, <1>4, <1>6, IsASeq
<1>8. QED
  BY <1>2, <1>3, <1>5, <1>7, LenProperties

\* ... every element of s at a position in P is there, ...
LEMMA KeptHasAll ==
  ASSUME NEW T, NEW s \in Seq(T), NEW P \in SUBSET DOMAIN s, NEW i \in P
  PROVE  \E j \in DOMAIN KeptAt(s, P) : KeptAt(s, P)[j] = s[i]
<1>1. P \subseteq Nat /\ IsFiniteSet(P)
  BY PositionsFinite
<1>2. Rank(P, i) \in 1..Cardinality(P)
  BY <1>1, RankGrows
<1>3. Nth(P, Rank(P, i)) \in P /\ Rank(P, Nth(P, Rank(P, i))) = Rank(P, i)
  BY <1>1, <1>2, NthIs
<1>4. Nth(P, Rank(P, i)) = i
  <2> DEFINE k == Nth(P, Rank(P, i))
  <2>1. k \in Nat /\ i \in Nat
    BY <1>1, <1>3
  <2>2. Rank(P, k) \in Nat /\ Rank(P, i) \in Nat /\ Rank(P, k) = Rank(P, i)
    BY <1>2, <1>3
  <2>3. ~(k < i) /\ ~(i < k)
    <3>1. k < i => Rank(P, k) < Rank(P, i)
      BY <1>1, <1>3, RankGrows
    <3>2. i < k => Rank(P, i) < Rank(P, k)
      BY <1>1, <1>3, RankGrows
    <3> HIDE DEF k
    <3>3. QED
      BY <2>2, <3>1, <3>2
  <2> HIDE DEF k
  <2>4. k = i
    BY <2>1, <2>3
  <2>5. QED
    BY <2>4 DEF k
<1>5. QED
  BY <1>2, <1>4, KeptIsSeq

\* ... and they keep their order.
LEMMA KeptInOrder ==
  ASSUME NEW T, NEW s \in Seq(T), NEW P \in SUBSET DOMAIN s,
         NEW i \in DOMAIN KeptAt(s, P), NEW j \in DOMAIN KeptAt(s, P), i < j
  PROVE  Nth(P, i) < Nth(P, j)
<1>1. P \subseteq Nat /\ IsFiniteSet(P)
  BY PositionsFinite
<1>2. i \in 1..Cardinality(P) /\ j \in 1..Cardinality(P) /\ Cardinality(P) \in Nat
  BY KeptIsSeq
<1>3. /\ Nth(P, i) \in P /\ Rank(P, Nth(P, i)) = i
      /\ Nth(P, j) \in P /\ Rank(P, Nth(P, j)) = j
  BY <1>1, <1>2, NthIs
<1>4. Nth(P, j) < Nth(P, i) => Rank(P, Nth(P, j)) < Rank(P, Nth(P, i))
  BY <1>1, <1>3, RankGrows
<1>5. Nth(P, i) # Nth(P, j)
  BY <1>2, <1>3
<1>6. QED
  BY <1>1, <1>2, <1>3, <1>4, <1>5

\* An element is added: a set of old positions keeps what it kept, ...
LEMMA KeptOfOld ==
  ASSUME NEW T, NEW s \in Seq(T), NEW e \in T, NEW P \in SUBSET DOMAIN s
  PROVE  KeptAt(Append(s, e), P) = KeptAt(s, P)
<1>1. DOMAIN s = 1..Len(s) /\ \A i \in 1..Len(s) : Append(s, e)[i] = s[i]
  BY LenProperties, AppendProperties
<1>2. \A j \in 1..Cardinality(P) : Nth(P, j) \in P
  BY PositionsFinite, NthIs
<1>3. QED
  BY <1>1, <1>2 DEF KeptAt

\* ... and with the new position, the new element at its end.
LEMMA KeptWithNew ==
  ASSUME NEW T, NEW s \in Seq(T), NEW e \in T, NEW P \in SUBSET DOMAIN s
  PROVE  KeptAt(Append(s, e), P \cup {Len(s) + 1}) = Append(KeptAt(s, P), e)
<1> DEFINE n == Len(s) + 1
           Q == P \cup {n}
           all == Append(s, e)
           c == Cardinality(P)
<1>1. /\ Len(s) \in Nat /\ DOMAIN s = 1..Len(s) /\ P \subseteq Nat /\ P \subseteq 1..Len(s)
      /\ IsFiniteSet(P) /\ c \in Nat
  BY LenProperties, PositionsFinite, FS_CardinalityType
<1>2. n \notin P /\ n \in Nat
  BY <1>1
<1>3. IsFiniteSet(Q) /\ Cardinality(Q) = c + 1 /\ Q \subseteq Nat
  BY <1>1, <1>2, FS_AddElement
<1>4. /\ all \in Seq(T) /\ Len(all) = n /\ DOMAIN all = 1..n
      /\ \A i \in 1..Len(s) : all[i] = s[i]
      /\ all[n] = e
  BY AppendProperties, LenProperties
<1>5. Q \in SUBSET DOMAIN all
  BY <1>1, <1>4
<1>6. \A i \in P : Rank(Q, i) = Rank(P, i)
  <2>1. \A i \in P : {k \in Q : k <= i} = {k \in P : k <= i}
    BY <1>1, <1>2
  <2>2. QED
    BY <2>1 DEF Rank
<1>7. Rank(Q, n) = c + 1
  <2>1. {k \in Q : k <= n} = Q
    BY <1>1, <1>2
  <2>2. QED
    BY <1>3, <2>1 DEF Rank
<1> HIDE DEF Q, c, n, all
\* Positions of one rank are one position.
<1>8. \A i, k \in Q : Rank(Q, i) = Rank(Q, k) => i = k
  <2>1. \A i, k \in Q : i < k => Rank(Q, i) < Rank(Q, k)
    BY <1>3, RankGrows
  <2>2. \A i \in Q : Rank(Q, i) \in Nat
    BY <1>1, <1>3, RankGrows
  <2>3. \A i, k \in Q : i = k \/ i < k \/ k < i
    BY <1>3
  <2>4. QED
    BY <2>1, <2>2, <2>3
<1>9. ASSUME NEW j \in 1..c
      PROVE  Nth(Q, j) = Nth(P, j) /\ Nth(P, j) \in P
  <2>1. Nth(P, j) \in P /\ Rank(P, Nth(P, j)) = j
    BY <1>1, NthIs DEF c
  <2>2. Nth(Q, j) \in Q /\ Rank(Q, Nth(Q, j)) = j
    BY <1>1, <1>3, NthIs
  <2>3. Nth(P, j) \in Q
    BY <2>1 DEF Q
  <2>4. QED
    BY <1>6, <1>8, <2>1, <2>2, <2>3
<1>10. Nth(Q, c + 1) = n
  <2>1. Nth(Q, c + 1) \in Q /\ Rank(Q, Nth(Q, c + 1)) = c + 1
    BY <1>1, <1>3, NthIs
  <2>2. n \in Q
    BY DEF Q
  <2>3. QED
    BY <1>7, <1>8, <2>1, <2>2
<1>11. /\ KeptAt(s, P) \in Seq(T) /\ Len(KeptAt(s, P)) = c
       /\ \A j \in 1..c : KeptAt(s, P)[j] = s[Nth(P, j)]
  BY KeptIsSeq DEF c
<1>12. /\ KeptAt(all, Q) \in Seq(T) /\ Len(KeptAt(all, Q)) = c + 1
       /\ \A j \in 1..(c + 1) : KeptAt(all, Q)[j] = all[Nth(Q, j)]
  BY <1>3, <1>4, <1>5, KeptIsSeq
<1>13. /\ Append(KeptAt(s, P), e) \in Seq(T) /\ Len(Append(KeptAt(s, P), e)) = c + 1
       /\ \A j \in 1..c : Append(KeptAt(s, P), e)[j] = KeptAt(s, P)[j]
       /\ Append(KeptAt(s, P), e)[c + 1] = e
  BY <1>11, AppendProperties
<1>14. \A j \in 1..(c + 1) : KeptAt(all, Q)[j] = Append(KeptAt(s, P), e)[j]
  <2>1. ASSUME NEW j \in 1..c
        PROVE  KeptAt(all, Q)[j] = Append(KeptAt(s, P), e)[j]
    <3>1. KeptAt(all, Q)[j] = all[Nth(P, j)]
      BY <1>1, <1>9, <1>12
    <3>2. Nth(P, j) \in 1..Len(s)
      BY <1>1, <1>9
    <3>3. QED
      BY <1>4, <1>11, <1>13, <3>1, <3>2
  <2>2. KeptAt(all, Q)[c + 1] = Append(KeptAt(s, P), e)[c + 1]
    BY <1>1, <1>4, <1>10, <1>12, <1>13
  <2>3. \A j \in 1..(c + 1) : j \in 1..c \/ j = c + 1
    BY <1>1
  <2>4. QED
    BY <2>1, <2>2, <2>3
<1>15. KeptAt(all, Q) = Append(KeptAt(s, P), e)
  BY <1>12, <1>13, <1>14, SeqEqual
<1>16. QED
  BY <1>15 DEF all, Q, n

\* A finite set of numbers with a member has a greatest one.
LEMMA LastOfSet ==
  ASSUME NEW S \in SUBSET Nat, IsFiniteSet(S), NEW z \in S
  PROVE  \E m \in S : \A x \in S : m >= x
<1>1. Cardinality(S) \in Nat /\ Cardinality(S) # 0
  BY FS_CardinalityType, FS_EmptySet
<1>2. Cardinality(S) \in 1..Cardinality(S)
  BY <1>1
<1>3. Nth(S, Cardinality(S)) \in S /\ Rank(S, Nth(S, Cardinality(S))) = Cardinality(S)
  BY <1>2, NthIs
<1>4. PICK m \in S : Rank(S, m) = Cardinality(S)
  BY <1>3
<1>5. \A x \in S : m < x => Rank(S, m) < Rank(S, x)
  BY RankGrows
<1>6. \A x \in S : Rank(S, x) \in 1..Cardinality(S)
  BY RankGrows
<1>7. \A x \in S : ~(m < x)
  BY <1>1, <1>4, <1>5, <1>6
<1>8. QED
  BY <1>7

-----------------------------------------------------------------------------
(* Steps along a list                                                      *)

\* A set of numbers that is not empty has a least one.
LEMMA LeastNumber ==
    ASSUME NEW S \in SUBSET Nat, S # {}
    PROVE  \E i \in S : \A k \in S : i <= k
<1>1. PICK x \in S : \A y \in S : ~(y < x)
  <2>1. \E x \in S : \A y \in S : <<y, x>> \notin OpToRel(<, Nat)
    BY NatLessThanWellFounded, WFMin
  <2> QED
    BY <2>1 DEF OpToRel
<1> QED
  BY <1>1

\* Induction up to N, for a set of numbers.
LEMMA UpToAll ==
  ASSUME NEW N \in Nat, NEW G,
         0 \in G, \A n \in 1..N : n - 1 \in G => n \in G
  PROVE  \A n \in 0..N : n \in G
<1> DEFINE Bad == {n \in 0..N : n \notin G}
<1>1. SUFFICES ASSUME Bad # {}
               PROVE  FALSE
  OBVIOUS
<1>2. PICK m \in Bad : \A k \in Bad : m <= k
  <2>1. Bad \in SUBSET Nat
    OBVIOUS
  <2> HIDE DEF Bad
  <2>2. QED
    BY <1>1, <2>1, LeastNumber
<1>3. m # 0 /\ m \in 1..N /\ m - 1 \in 0..N /\ ~(m <= m - 1)
  BY <1>2
<1>4. m - 1 \in G
  BY <1>2, <1>3
<1>5. QED
  BY <1>2, <1>3, <1>4

\* f goes from base through N steps of R.
IsChain(f, base, R, N) == f[0] = base /\ \A n \in 1..N : <<n, f[n - 1], f[n]>> \in R

\* Where every step can be taken, the steps can be taken one after another.
LEMMA ChainExists ==
  ASSUME NEW N \in Nat, NEW S, NEW base \in S, NEW R,
         \A n \in 1..N, x \in S : \E y \in S : <<n, x, y>> \in R
  PROVE  \E f \in [0..N -> S] : IsChain(f, base, R, N)
<1> DEFINE G == {m \in 0..N : \E f \in [0..m -> S] : IsChain(f, base, R, m)}
<1>1. 0 \in G
  <2>1. [n \in 0..0 |-> base] \in [0..0 -> S] /\ IsChain([n \in 0..0 |-> base], base, R, 0)
    BY DEF IsChain
  <2>2. 0 \in 0..N
    OBVIOUS
  <2>3. QED
    BY <2>1, <2>2
<1>2. ASSUME NEW m \in 1..N, m - 1 \in G
      PROVE  m \in G
  <2>1. PICK f \in [0..(m - 1) -> S] : IsChain(f, base, R, m - 1)
    BY <1>2
  <2>2. /\ m - 1 \in 0..(m - 1) /\ m \in 0..m /\ 0 \in 0..m /\ m # 0
        /\ \A n \in 0..m : n # m => n \in 0..(m - 1)
        /\ \A n \in 1..m : n - 1 \in 0..m /\ n - 1 # m /\ n \in 0..m
        /\ \A n \in 1..m : n # m => n \in 1..(m - 1)
    OBVIOUS
  <2>3. PICK y \in S : <<m, f[m - 1], y>> \in R
    BY <2>2
  <2> DEFINE g == [n \in 0..m |-> IF n = m THEN y ELSE f[n]]
  <2>4. g \in [0..m -> S]
    BY <2>2
  <2>5. g[0] = base
    BY <2>1, <2>2 DEF IsChain
  <2>6. ASSUME NEW n \in 1..m
        PROVE  <<n, g[n - 1], g[n]>> \in R
    <3>1. g[n - 1] = f[n - 1]
      BY <2>2
    <3>2. CASE n = m
      BY <2>2, <2>3, <3>1, <3>2
    <3>3. CASE n # m
      <4>1. g[n] = f[n] /\ n \in 1..(m - 1)
        BY <2>2, <3>3
      <4>2. QED
        BY <2>1, <3>1, <4>1 DEF IsChain
    <3>4. QED
      BY <3>2, <3>3
  <2>7. IsChain(g, base, R, m)
    BY <2>5, <2>6 DEF IsChain
  <2>8. m \in 0..N
    OBVIOUS
  <2>9. QED
    BY <2>4, <2>7, <2>8
<1>3. N \in G
  <2> HIDE DEF G
  <2>1. \A n \in 0..N : n \in G
    BY <1>1, <1>2, UpToAll
  <2>2. QED
    BY <2>1
<1>4. QED
  BY <1>3
==============================================================================
