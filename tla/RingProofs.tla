----------------------------- MODULE RingProofs -----------------------------
(***************************************************************************)
(* Lemmas about the operators of Ring, for every number of slots, every    *)
(* set of pointers and every entry: what add_entry does to the walk over   *)
(* the entries, to the running sizes and to the log, and that it keeps a   *)
(* ring good.                                                              *)
(***************************************************************************)
EXTENDS Ring, SequencesExt, SequenceTheorems, WellFoundedInduction, TLAPS

(***************************************************************************)
(* Induction for a set instead of a predicate, and the least number of a   *)
(* set, both from the fact that < is well-founded on Nat.                  *)
(***************************************************************************)
LEMMA LeastElement ==
    ASSUME NEW T \in SUBSET Nat, T # {}
    PROVE  \E x \in T : \A y \in T : x <= y
<1> DEFINE R == OpToRel(<, Nat)
<1>1. IsWellFoundedOn(R, Nat)
  BY NatLessThanWellFounded
<1>2. \A x, y \in Nat : x < y => <<x, y>> \in R
  BY DEF OpToRel
<1> HIDE DEF R
<1>3. PICK x \in T : \A y \in T : ~ (<<y, x>> \in R)
  BY <1>1, WFMin
<1>4. ASSUME NEW y \in T
      PROVE  x <= y
  <2>1. x \in Nat /\ y \in Nat /\ ~ (y < x)
    BY <1>2, <1>3
  <2>q. QED BY <2>1
<1>q. QED
  BY <1>4

LEMMA SetInduction ==
    ASSUME NEW T \in SUBSET Nat, 0 \in T, \A n \in T : n + 1 \in T
    PROVE  T = Nat
<1> SUFFICES ASSUME Nat \ T # {} PROVE FALSE
  OBVIOUS
<1>1. PICK x \in Nat \ T : \A y \in Nat \ T : x <= y
  BY LeastElement
<1>2. x # 0 /\ x - 1 \in Nat
  BY <1>1
<1>3. x - 1 \in T
  BY <1>1, <1>2
<1>q. QED
  BY <1>1, <1>3

LEMMA IntervalInduction ==
    ASSUME NEW n \in Nat, NEW T \in SUBSET (1 .. n), 1 \in T,
           \A m \in 1 .. n - 1 : m \in T => m + 1 \in T
    PROVE  T = 1 .. n
<1> DEFINE U == {m \in Nat : m + 1 <= n => m + 1 \in T}
<1>1. 0 \in U
  OBVIOUS
<1>2. ASSUME NEW m \in U PROVE m + 1 \in U
  <2>1. m \in Nat
    OBVIOUS
  <2>2. CASE (m + 1) + 1 <= n
    <3>1. m + 1 \in 1 .. n - 1 /\ m + 1 \in T
      BY <2>1, <2>2
    <3>q. QED BY <2>1, <3>1
  <2>3. CASE ~((m + 1) + 1 <= n)
    BY <2>1, <2>3
  <2>q. QED BY <2>2, <2>3
<1>3. U = Nat
  BY <1>1, <1>2, SetInduction
<1>4. ASSUME NEW i \in 1 .. n PROVE i \in T
  <2>1. i - 1 \in Nat /\ (i - 1) + 1 = i /\ (i - 1) + 1 <= n
    OBVIOUS
  <2>2. \A m \in Nat : m + 1 <= n => m + 1 \in T
    BY <1>3
  <2>q. QED BY <2>1, <2>2
<1>q. QED BY <1>4

-----------------------------------------------------------------------------
(***************************************************************************)
(* Partial sums.  The recursive definition has a solution, every solution  *)
(* is the same, and the sums never decrease.                               *)
(***************************************************************************)
IsSums(S, s, n) ==
    /\ S \in [0 .. n -> Nat]
    /\ S[0] = 0
    /\ \A i \in 0 .. n - 1 : S[i + 1] = S[i] + s[i]

LEMMA SumsExist ==
    ASSUME NEW n \in Nat, NEW s \in [0 .. n - 1 -> Nat]
    PROVE  \E S : IsSums(S, s, n)
<1> DEFINE Has(m) == \E S \in [0 .. m -> Nat] :
                        S[0] = 0 /\ \A i \in 0 .. m - 1 : S[i + 1] = S[i] + s[i]
           T == {m \in Nat : m <= n => Has(m)}
<1>1. 0 \in T
  <2> DEFINE S == [i \in 0 .. 0 |-> 0]
  <2>1. S \in [0 .. 0 -> Nat] /\ S[0] = 0 /\ \A i \in 0 .. 0 - 1 : S[i + 1] = S[i] + s[i]
    OBVIOUS
  <2>q. QED BY <2>1
<1>2. ASSUME NEW m \in T, m + 1 <= n
      PROVE  Has(m + 1)
  <2>1. m \in Nat /\ Has(m)
    BY <1>2
  <2>2. PICK S \in [0 .. m -> Nat] : S[0] = 0 /\ \A i \in 0 .. m - 1 : S[i + 1] = S[i] + s[i]
    BY <2>1
  <2> DEFINE U == [i \in 0 .. m + 1 |-> IF i = m + 1 THEN S[m] + s[m] ELSE S[i]]
  <2>3. s[m] \in Nat /\ S[m] \in Nat
    BY <1>2, <2>1, <2>2
  <2>4. U \in [0 .. m + 1 -> Nat] /\ U[0] = 0
    BY <2>1, <2>2, <2>3
  <2>5. ASSUME NEW i \in 0 .. (m + 1) - 1
        PROVE  U[i + 1] = U[i] + s[i]
    <3>1. CASE i = m
      BY <2>1, <3>1
    <3>2. CASE i # m
      <4>1. i \in 0 .. m - 1 /\ i + 1 # m + 1 /\ i # m + 1 /\ i \in 0 .. m + 1 /\ i + 1 \in 0 .. m + 1
        BY <2>1, <3>2
      <4>q. QED BY <2>2, <4>1
    <3>q. QED BY <3>1, <3>2
  <2> HIDE DEF U
  <2>q. QED BY <2>4, <2>5
<1> HIDE DEF Has
<1>3. T = Nat
  <2>1. \A m \in T : m + 1 \in T
    BY <1>2
  <2>q. QED BY <1>1, <2>1, SetInduction
<1>4. Has(n)
  BY <1>3
<1>q. QED
  BY <1>4 DEF Has, IsSums

LEMMA SumsAreSums ==
    ASSUME NEW n \in Nat, NEW s \in [0 .. n - 1 -> Nat]
    PROVE  IsSums(Sums(s, n), s, n)
<1> DEFINE F(S) == [i \in 0 .. n |-> IF i = 0 THEN 0 ELSE S[i - 1] + s[i - 1]]
<1>1. PICK S : IsSums(S, s, n)
  BY SumsExist
<1>2. S = F(S)
  <2>1. S = [i \in 0 .. n |-> S[i]]
    BY <1>1 DEF IsSums
  <2>2. ASSUME NEW i \in 0 .. n
        PROVE  S[i] = IF i = 0 THEN 0 ELSE S[i - 1] + s[i - 1]
    <3>1. CASE i = 0
      BY <1>1, <3>1 DEF IsSums
    <3>2. CASE i # 0
      <4>1. i - 1 \in 0 .. n - 1 /\ (i - 1) + 1 = i
        BY <3>2
      <4>q. QED BY <1>1, <3>2, <4>1 DEF IsSums
    <3>q. QED BY <3>1, <3>2
  <2>q. QED BY <2>1, <2>2
<1>3. Sums(s, n) = F(Sums(s, n))
  BY <1>2, Zenon DEF Sums
<1> DEFINE G == Sums(s, n)
           T == {i \in Nat : i <= n => G[i] \in Nat}
<1>4. \A i \in 0 .. n : G[i] = IF i = 0 THEN 0 ELSE G[i - 1] + s[i - 1]
  BY <1>3
<1> HIDE DEF G
<1>5. G[0] = 0
  BY <1>4
<1>6. ASSUME NEW i \in 0 .. n - 1
      PROVE  G[i + 1] = G[i] + s[i]
  <2>1. i + 1 \in 0 .. n /\ i + 1 # 0 /\ (i + 1) - 1 = i
    OBVIOUS
  <2>2. G[i + 1] = IF i + 1 = 0 THEN 0 ELSE G[(i + 1) - 1] + s[(i + 1) - 1]
    BY <1>4, <2>1
  <2>q. QED BY <2>1, <2>2
<1>7. T = Nat
  <2>1. 0 \in T
    BY <1>5
  <2>2. ASSUME NEW i \in T, i + 1 <= n
        PROVE  G[i + 1] \in Nat
    <3>1. i \in 0 .. n - 1 /\ G[i] \in Nat /\ s[i] \in Nat
      BY <2>2
    <3>q. QED BY <1>6, <3>1
  <2>3. \A i \in T : i + 1 \in T
    BY <2>2
  <2>q. QED BY <2>1, <2>3, SetInduction
<1>8. \A i \in 0 .. n : G[i] \in Nat
  BY <1>7
<1>9. G = [i \in 0 .. n |-> G[i]]
  BY <1>3 DEF G
<1>q. QED
  BY <1>5, <1>6, <1>8, <1>9 DEF IsSums, G

LEMMA SumsUnique ==
    ASSUME NEW n \in Nat, NEW s \in [0 .. n - 1 -> Nat],
           NEW S, IsSums(S, s, n), NEW j \in 0 .. n
    PROVE  Sums(s, n)[j] = S[j]
<1> DEFINE G == Sums(s, n)
           T == {i \in Nat : i <= n => G[i] = S[i]}
<1>1. IsSums(G, s, n)
  BY SumsAreSums
<1> HIDE DEF G
<1>2. 0 \in T
  BY <1>1 DEF IsSums
<1>3. ASSUME NEW i \in T, i + 1 <= n
      PROVE  G[i + 1] = S[i + 1]
  <2>1. i \in 0 .. n - 1 /\ G[i] = S[i]
    BY <1>3
  <2>q. QED BY <1>1, <2>1 DEF IsSums
<1>4. T = Nat
  <2>1. \A i \in T : i + 1 \in T
    BY <1>3
  <2>q. QED BY <1>2, <2>1, SetInduction
<1>q. QED
  BY <1>4 DEF G

LEMMA SumsMonotone ==
    ASSUME NEW n \in Nat, NEW s \in [0 .. n - 1 -> Nat],
           NEW S, IsSums(S, s, n), NEW i \in 0 .. n, NEW j \in 0 .. n, i <= j
    PROVE  S[i] <= S[j]
<1> DEFINE T == {k \in Nat : i + k <= n => S[i] <= S[i + k]}
<1>1. 0 \in T
  BY DEF IsSums
<1>2. ASSUME NEW k \in T, i + (k + 1) <= n
      PROVE  S[i] <= S[i + (k + 1)]
  <2>1. /\ i + k \in 0 .. n - 1 /\ i + k \in 0 .. n /\ (i + k) + 1 = i + (k + 1)
        /\ S[i] <= S[i + k]
    BY <1>2
  <2>2. S[(i + k) + 1] = S[i + k] + s[i + k] /\ s[i + k] \in Nat /\ S[i] \in Nat /\ S[i + k] \in Nat
    BY <2>1 DEF IsSums
  <2>q. QED BY <2>1, <2>2
<1>3. T = Nat
  <2>1. \A k \in T : k + 1 \in T
    BY <1>2
  <2>q. QED BY <1>1, <2>1, SetInduction
<1>4. j - i \in T
  <2>1. j - i \in Nat
    OBVIOUS
  <2>q. QED BY <1>3, <2>1
<1>5. i + (j - i) = j
  OBVIOUS
<1>q. QED
  BY <1>4, <1>5

-----------------------------------------------------------------------------
(***************************************************************************)
(* Sequences laid end to end.  FlattenSeq of the community modules is      *)
(* defined by recursion as well: the definition has a solution, its length *)
(* is the sum of the lengths, and an element of the j-th sequence is found *)
(* behind all the sequences in front of it.                                *)
(***************************************************************************)
Lengths(seqs) == [j \in 0 .. Len(seqs) - 1 |-> Len(seqs[j + 1])]

LEMMA LengthsType ==
    ASSUME NEW S, NEW seqs \in Seq(Seq(S))
    PROVE  /\ Len(seqs) \in Nat
           /\ Lengths(seqs) \in [0 .. Len(seqs) - 1 -> Nat]
           /\ \A j \in 0 .. Len(seqs) - 1 :
                 /\ seqs[j + 1] \in Seq(S)
                 /\ Lengths(seqs)[j] = Len(seqs[j + 1])
<1>1. Len(seqs) \in Nat
  OBVIOUS
<1>2. ASSUME NEW j \in 0 .. Len(seqs) - 1
      PROVE  seqs[j + 1] \in Seq(S) /\ Len(seqs[j + 1]) \in Nat
  <2>1. j + 1 \in 1 .. Len(seqs)
    BY <1>1
  <2>2. seqs[j + 1] \in Seq(S)
    BY <2>1
  <2>q. QED BY <2>2
<1>q. QED
  BY <1>1, <1>2 DEF Lengths

LEMMA FlatteningExists ==
    ASSUME NEW S, NEW seqs \in Seq(Seq(S)), seqs # << >>
    PROVE  \E F : F = [i \in 1 .. Len(seqs) |->
                          IF i = 1 THEN seqs[i] ELSE F[i - 1] \o seqs[i]]
<1> DEFINE n == Len(seqs)
           Upto(F, m) == /\ F \in [1 .. m -> Seq(S)]
                         /\ F[1] = seqs[1]
                         /\ \A i \in 1 .. m - 1 : F[i + 1] = F[i] \o seqs[i + 1]
           T == {m \in 1 .. n : \E F : Upto(F, m)}
<1>1. n \in Nat /\ n > 0 /\ \A i \in 1 .. n : seqs[i] \in Seq(S)
  OBVIOUS
<1> HIDE DEF n
<1>2. 1 \in T
  <2> DEFINE F == [i \in 1 .. 1 |-> seqs[1]]
  <2>1. seqs[1] \in Seq(S)
    BY <1>1
  <2>2. Upto(F, 1) /\ 1 \in 1 .. n
    BY <1>1, <2>1
  <2> HIDE DEF Upto
  <2>q. QED BY <2>2
<1>3. ASSUME NEW m \in 1 .. n - 1, m \in T
      PROVE  m + 1 \in T
  <2>1. PICK F : Upto(F, m)
    BY <1>3
  <2> DEFINE x == F[m] \o seqs[m + 1]
             U == [i \in 1 .. m + 1 |-> IF i = m + 1 THEN x ELSE F[i]]
  <2>2. x \in Seq(S)
    <3>1. F[m] \in Seq(S) /\ seqs[m + 1] \in Seq(S)
      BY <1>1, <2>1
    <3>q. QED BY <3>1, ConcatProperties
  <2> HIDE DEF x
  <2>3. U \in [1 .. m + 1 -> Seq(S)] /\ U[1] = seqs[1]
    BY <2>1, <2>2
  <2>4. ASSUME NEW i \in 1 .. m
        PROVE  U[i + 1] = U[i] \o seqs[i + 1]
    <3>1. CASE i = m
      <4>1. U[i + 1] = x /\ U[i] = F[m]
        BY <3>1
      <4>q. QED BY <3>1, <4>1 DEF x
    <3>2. CASE i # m
      <4>1. i \in 1 .. m - 1 /\ U[i] = F[i] /\ U[i + 1] = F[i + 1]
        BY <3>2
      <4>q. QED BY <2>1, <4>1
    <3>q. QED BY <3>1, <3>2
  <2> HIDE DEF U
  <2>5. m + 1 \in 1 .. n /\ (m + 1) - 1 = m
    BY <1>1
  <2>6. Upto(U, m + 1)
    BY <2>3, <2>4, <2>5
  <2>q. QED BY <2>5, <2>6
<1>4. T = 1 .. n
  <2>1. T \in SUBSET (1 .. n)
    OBVIOUS
  <2> HIDE DEF T
  <2>q. QED BY <1>1, <1>2, <1>3, <2>1, IntervalInduction
<1>5. n \in 1 .. n
  BY <1>1
<1>6. PICK F \in [1 .. n -> Seq(S)] :
         F[1] = seqs[1] /\ \A i \in 1 .. n - 1 : F[i + 1] = F[i] \o seqs[i + 1]
  BY <1>4, <1>5
<1>7. F = [i \in 1 .. n |-> IF i = 1 THEN seqs[i] ELSE F[i - 1] \o seqs[i]]
  <2>1. ASSUME NEW i \in 1 .. n
        PROVE  F[i] = IF i = 1 THEN seqs[i] ELSE F[i - 1] \o seqs[i]
    <3>1. CASE i = 1
      BY <1>6, <3>1
    <3>2. CASE i # 1
      <4>1. i - 1 \in 1 .. n - 1 /\ (i - 1) + 1 = i
        BY <1>1, <3>2
      <4>q. QED BY <1>6, <3>2, <4>1
    <3>q. QED BY <3>1, <3>2
  <2>2. F = [i \in 1 .. n |-> F[i]]
    OBVIOUS
  <2>q. QED BY <2>1, <2>2
<1>q. QED
  BY <1>7 DEF n

LEMMA FlattenUnfolds ==
    ASSUME NEW S, NEW seqs \in Seq(Seq(S)), seqs # << >>
    PROVE  \E F : /\ FlattenSeq(seqs) = F[Len(seqs)]
                  /\ F[1] = seqs[1]
                  /\ \A i \in 1 .. Len(seqs) - 1 : F[i + 1] = F[i] \o seqs[i + 1]
<1> DEFINE n == Len(seqs)
           R(F) == [i \in 1 .. n |-> IF i = 1 THEN seqs[i] ELSE F[i - 1] \o seqs[i]]
           G == CHOOSE F : F = R(F)
<1>1. n \in Nat /\ n # 0
  OBVIOUS
<1>2. G = R(G)
  BY FlatteningExists
<1>3. FlattenSeq(seqs) = G[n]
  BY <1>1, Zenon DEF FlattenSeq
<1> HIDE DEF G, n
<1>4. G[1] = seqs[1]
  BY <1>1, <1>2
<1>5. ASSUME NEW i \in 1 .. n - 1
      PROVE  G[i + 1] = G[i] \o seqs[i + 1]
  <2>1. i + 1 \in 1 .. n /\ i + 1 # 1 /\ (i + 1) - 1 = i
    BY <1>1
  <2>2. G[i + 1] = IF i + 1 = 1 THEN seqs[i + 1] ELSE G[(i + 1) - 1] \o seqs[i + 1]
    BY <1>2, <2>1
  <2>q. QED BY <2>1, <2>2
<1>q. QED
  BY <1>3, <1>4, <1>5 DEF n

LEMMA FlattenSeqIs ==
    ASSUME NEW S, NEW seqs \in Seq(Seq(S)), NEW P, IsSums(P, Lengths(seqs), Len(seqs))
    PROVE  /\ FlattenSeq(seqs) \in Seq(S)
           /\ Len(FlattenSeq(seqs)) = P[Len(seqs)]
           /\ \A j \in 0 .. Len(seqs) - 1 : \A o \in 1 .. Len(seqs[j + 1]) :
                 FlattenSeq(seqs)[P[j] + o] = seqs[j + 1][o]
<1> DEFINE n == Len(seqs)
<1>1. /\ n \in Nat
      /\ \A j \in 0 .. n - 1 : seqs[j + 1] \in Seq(S) /\ Len(seqs[j + 1]) \in Nat
      /\ P \in [0 .. n -> Nat] /\ P[0] = 0
      /\ \A j \in 0 .. n - 1 : P[j + 1] = P[j] + Len(seqs[j + 1])
  BY LengthsType DEF IsSums
<1>2. \A i, j \in 0 .. n : i <= j => P[i] <= P[j]
  BY LengthsType, SumsMonotone
<1>3. CASE seqs = << >>
  <2>1. FlattenSeq(seqs) = << >>
    BY <1>3 DEF FlattenSeq
  <2>q. QED BY <1>1, <1>3, <2>1
<1>4. CASE seqs # << >>
  <2>1. PICK F : /\ FlattenSeq(seqs) = F[n]
                 /\ F[1] = seqs[1]
                 /\ \A i \in 1 .. n - 1 : F[i + 1] = F[i] \o seqs[i + 1]
    BY <1>4, FlattenUnfolds
  <2> DEFINE Is(i) == /\ F[i] \in Seq(S)
                      /\ Len(F[i]) = P[i]
                      /\ \A j \in 0 .. i - 1 : \A o \in 1 .. Len(seqs[j + 1]) :
                            F[i][P[j] + o] = seqs[j + 1][o]
             T == {m \in 1 .. n : Is(m)}
  <2>2. n > 0
    BY <1>4
  <2> HIDE DEF n
  <2>3. Is(1)
    <3>1. 0 \in 0 .. n - 1 /\ 0 + 1 = 1 /\ seqs[1] \in Seq(S)
      BY <1>1, <2>2
    <3>2. P[1] = Len(seqs[1])
      BY <1>1, <3>1
    <3>3. ASSUME NEW j \in 0 .. 1 - 1, NEW o \in 1 .. Len(seqs[j + 1])
          PROVE  F[1][P[j] + o] = seqs[j + 1][o]
      BY <1>1, <2>1
    <3>q. QED BY <2>1, <3>1, <3>2, <3>3
  <2>4. ASSUME NEW k \in 1 .. n - 1, Is(k)
        PROVE  Is(k + 1)
    <3>1. k \in 0 .. n - 1 /\ k \in 0 .. n
      BY <1>1
    <3>2. F[k + 1] = F[k] \o seqs[k + 1] /\ P[k + 1] = P[k] + Len(seqs[k + 1])
      BY <1>1, <2>1, <3>1
    <3>3. F[k] \in Seq(S) /\ Len(F[k]) = P[k] /\ seqs[k + 1] \in Seq(S)
      BY <1>1, <2>4, <3>1
    <3>4. /\ F[k + 1] \in Seq(S) /\ Len(F[k + 1]) = P[k + 1]
          /\ \A i \in 1 .. P[k] : F[k + 1][i] = F[k][i]
          /\ \A i \in 1 .. Len(seqs[k + 1]) : F[k + 1][P[k] + i] = seqs[k + 1][i]
      <4> DEFINE l == F[k]
                 r == seqs[k + 1]
      <4>1. l \in Seq(S) /\ r \in Seq(S)
        BY <3>3
      <4> HIDE DEF l, r
      <4>2. /\ l \o r \in Seq(S) /\ Len(l \o r) = Len(l) + Len(r)
            /\ \A i \in 1 .. Len(l) : (l \o r)[i] = l[i]
            /\ \A i \in 1 .. Len(r) : (l \o r)[Len(l) + i] = r[i]
        BY <4>1
      <4>q. QED BY <3>2, <3>3, <4>2 DEF l, r
    <3>5. ASSUME NEW j \in 0 .. k, NEW o \in 1 .. Len(seqs[j + 1])
          PROVE  F[k + 1][P[j] + o] = seqs[j + 1][o]
      <4>1. P[j] \in Nat /\ Len(seqs[j + 1]) \in Nat /\ j \in 0 .. n - 1 /\ P[j + 1] = P[j] + Len(seqs[j + 1])
        BY <1>1, <3>1
      <4>2. CASE j = k
        BY <3>4, <4>2
      <4>3. CASE j # k
        <5>1. j \in 0 .. k - 1 /\ j + 1 \in 0 .. n /\ j + 1 <= k
          BY <1>1, <3>1, <4>3
        <5>2. P[j + 1] <= P[k] /\ P[k] \in Nat
          BY <1>1, <1>2, <3>1, <5>1
        <5>3. P[j] + o \in 1 .. P[k]
          BY <4>1, <5>2
        <5>4. F[k][P[j] + o] = seqs[j + 1][o]
          BY <2>4, <5>1
        <5>q. QED BY <3>4, <5>3, <5>4
      <4>q. QED BY <4>2, <4>3
    <3>6. (k + 1) - 1 = k
      BY <3>1
    <3>q. QED BY <3>4, <3>5, <3>6
  <2> HIDE DEF Is
  <2>5. T = 1 .. n
    <3>1. T \in SUBSET (1 .. n) /\ 1 \in T /\ \A m \in 1 .. n - 1 : m \in T => m + 1 \in T
      BY <1>1, <2>2, <2>3, <2>4
    <3> HIDE DEF T
    <3>q. QED BY <1>1, <3>1, IntervalInduction
  <2>6. Is(n)
    <3>1. n \in 1 .. n
      BY <1>1, <2>2
    <3>q. QED BY <2>5, <3>1
  <2>q. QED BY <2>1, <2>6 DEF Is, n
<1>q. QED
  BY <1>3, <1>4

\* Every place in the concatenation belongs to one of the sequences.
LEMMA SumsCover ==
    ASSUME NEW n \in Nat, NEW P \in [0 .. n -> Nat], P[0] = 0, NEW i \in 1 .. P[n]
    PROVE  \E j \in 0 .. n - 1 : P[j] < i /\ i <= P[j + 1]
<1> DEFINE reach == {j \in 0 .. n : i <= P[j]}
<1>1. n \in reach /\ reach \in SUBSET Nat
  OBVIOUS
<1>2. PICK m \in reach : \A j \in reach : m <= j
  BY <1>1, LeastElement
<1>3. m # 0
  BY <1>2
<1>4. m - 1 \in 0 .. n - 1 /\ (m - 1) + 1 = m /\ m - 1 \in 0 .. n
  BY <1>2, <1>3
<1>5. m - 1 \notin reach
  BY <1>2, <1>4
<1>6. P[m - 1] < i
  BY <1>4, <1>5
<1>q. QED BY <1>2, <1>4, <1>6

\* A sequence with the right elements at the right places is the concatenation.
LEMMA FlattenSeqOnly ==
    ASSUME NEW S, NEW seqs \in Seq(Seq(S)), NEW P, IsSums(P, Lengths(seqs), Len(seqs)),
           NEW s \in Seq(S), Len(s) = P[Len(seqs)],
           \A j \in 0 .. Len(seqs) - 1 : \A o \in 1 .. Len(seqs[j + 1]) :
              s[P[j] + o] = seqs[j + 1][o]
    PROVE  FlattenSeq(seqs) = s
<1> DEFINE n == Len(seqs)
           r == FlattenSeq(seqs)
<1>1. /\ n \in Nat /\ P \in [0 .. n -> Nat] /\ P[0] = 0
      /\ \A j \in 0 .. n - 1 : Len(seqs[j + 1]) \in Nat /\ P[j + 1] = P[j] + Len(seqs[j + 1])
  BY LengthsType DEF IsSums
<1>2. r \in Seq(S)
  BY FlattenSeqIs
<1>3. Len(r) = P[n]
  BY FlattenSeqIs
<1>4. \A j \in 0 .. n - 1 : \A o \in 1 .. Len(seqs[j + 1]) : r[P[j] + o] = seqs[j + 1][o]
  BY FlattenSeqIs
<1>5. \A j \in 0 .. n - 1 : \A o \in 1 .. Len(seqs[j + 1]) : s[P[j] + o] = seqs[j + 1][o]
  OBVIOUS
<1>6. Len(s) = P[n]
  OBVIOUS
<1> HIDE DEF n, r
<1>7. ASSUME NEW i \in 1 .. P[n] PROVE r[i] = s[i]
  <2>1. PICK j \in 0 .. n - 1 : P[j] < i /\ i <= P[j + 1]
    BY <1>1, SumsCover
  <2>2. P[j] \in Nat /\ Len(seqs[j + 1]) \in Nat /\ P[j + 1] = P[j] + Len(seqs[j + 1])
    BY <1>1, <2>1
  <2>3. i - P[j] \in 1 .. Len(seqs[j + 1]) /\ P[j] + (i - P[j]) = i
    BY <2>1, <2>2
  <2>4. r[P[j] + (i - P[j])] = seqs[j + 1][i - P[j]] /\ s[P[j] + (i - P[j])] = seqs[j + 1][i - P[j]]
    BY <1>4, <1>5, <2>3
  <2>q. QED BY <2>3, <2>4
<1>8. r = s
  BY <1>2, <1>3, <1>6, <1>7, SeqEqual
<1>q. QED BY <1>8 DEF r

LEMMA FlattenAppend ==
    ASSUME NEW S, NEW l \in Seq(Seq(S)), NEW x \in Seq(S)
    PROVE  /\ FlattenSeq(Append(l, x)) = FlattenSeq(l) \o x
           /\ FlattenSeq(l) \in Seq(S)
<1> DEFINE n == Len(l)
           m == Append(l, x)
           P == Sums(Lengths(l), n)
           Q == [j \in 0 .. n + 1 |-> IF j <= n THEN P[j] ELSE P[n] + Len(x)]
           r == FlattenSeq(l)
           s == r \o x
<1>1. /\ n \in Nat /\ IsSums(P, Lengths(l), n)
      /\ \A j \in 0 .. n - 1 : l[j + 1] \in Seq(S) /\ Lengths(l)[j] = Len(l[j + 1])
  BY LengthsType, SumsAreSums
<1>2. /\ m \in Seq(Seq(S)) /\ Len(m) = n + 1 /\ m[n + 1] = x
      /\ \A j \in 1 .. n : m[j] = l[j]
  OBVIOUS
<1>3. Len(x) \in Nat
  OBVIOUS
<1> HIDE DEF P, m
<1>4. r \in Seq(S)
  BY <1>1, FlattenSeqIs
<1>5. Len(r) = P[n]
  BY <1>1, FlattenSeqIs
<1>6. \A j \in 0 .. n - 1 : \A o \in 1 .. Len(l[j + 1]) : r[P[j] + o] = l[j + 1][o]
  BY <1>1, FlattenSeqIs
<1>7. /\ P \in [0 .. n -> Nat] /\ P[0] = 0
      /\ \A j \in 0 .. n - 1 : Len(l[j + 1]) \in Nat /\ P[j + 1] = P[j] + Len(l[j + 1])
  <2>1. \A j \in 0 .. n - 1 : Len(l[j + 1]) \in Nat
    BY <1>1
  <2>q. QED BY <1>1, <2>1 DEF IsSums
<1>8. \A i, j \in 0 .. n : i <= j => P[i] <= P[j]
  BY <1>1, LengthsType, SumsMonotone
<1> HIDE DEF n, r
<1>9. /\ s \in Seq(S) /\ Len(s) = P[n] + Len(x)
      /\ \A i \in 1 .. P[n] : s[i] = r[i]
      /\ \A i \in 1 .. Len(x) : s[P[n] + i] = x[i]
  <2>1. /\ s \in Seq(S) /\ Len(s) = Len(r) + Len(x)
        /\ \A i \in 1 .. Len(r) : s[i] = r[i]
        /\ \A i \in 1 .. Len(x) : s[Len(r) + i] = x[i]
    BY <1>4
  <2>q. QED BY <1>5, <2>1
<1> HIDE DEF s
<1>10. ASSUME NEW j \in 0 .. n
       PROVE  /\ Lengths(m)[j] = Len(m[j + 1])
              /\ Q[j + 1] = Q[j] + Len(m[j + 1])
              /\ \A o \in 1 .. Len(m[j + 1]) : s[Q[j] + o] = m[j + 1][o]
  <2>1. Lengths(m)[j] = Len(m[j + 1])
    <3>1. j \in 0 .. Len(m) - 1
      BY <1>1, <1>2
    <3>q. QED BY <3>1 DEF Lengths
  <2>2. CASE j = n
    <3>1. m[j + 1] = x /\ Q[j] = P[n] /\ Q[j + 1] = P[n] + Len(x)
      BY <1>1, <1>2, <2>2
    <3> HIDE DEF Q
    <3>q. QED BY <1>9, <2>1, <3>1
  <2>3. CASE j # n
    <3>1. j \in 0 .. n - 1 /\ j + 1 \in 1 .. n /\ j + 1 \in 0 .. n /\ n \in 0 .. n /\ j + 1 <= n
      BY <1>1, <2>3
    <3>2. m[j + 1] = l[j + 1] /\ Q[j] = P[j] /\ Q[j + 1] = P[j + 1]
      BY <1>1, <1>2, <3>1
    <3> HIDE DEF Q
    <3>3. /\ P[j + 1] = P[j] + Len(l[j + 1]) /\ P[j] \in Nat /\ Len(l[j + 1]) \in Nat
          /\ P[j + 1] <= P[n] /\ P[n] \in Nat
      BY <1>7, <1>8, <3>1
    <3>4. ASSUME NEW o \in 1 .. Len(l[j + 1]) PROVE s[P[j] + o] = l[j + 1][o]
      <4>1. P[j] + o \in 1 .. P[n]
        BY <3>3
      <4>q. QED BY <1>6, <1>9, <3>1, <4>1
    <3>q. QED BY <2>1, <3>2, <3>3, <3>4
  <2>q. QED BY <2>2, <2>3
<1>11. IsSums(Q, Lengths(m), Len(m)) /\ Q[Len(m)] = P[n] + Len(x)
  <2>1. Q \in [0 .. n + 1 -> Nat] /\ Q[0] = 0 /\ Q[n + 1] = P[n] + Len(x)
    BY <1>1, <1>3, <1>7
  <2>2. (n + 1) - 1 = n
    BY <1>1
  <2> HIDE DEF Q
  <2>q. QED BY <1>2, <1>10, <2>1, <2>2 DEF IsSums
<1>12. FlattenSeq(m) = s
  <2>1. Len(m) - 1 = n
    BY <1>1, <1>2
  <2> HIDE DEF Q
  <2>2. \A j \in 0 .. Len(m) - 1 : \A o \in 1 .. Len(m[j + 1]) : s[Q[j] + o] = m[j + 1][o]
    BY <1>10, <2>1
  <2>3. s \in Seq(S) /\ m \in Seq(Seq(S)) /\ Len(s) = Q[Len(m)] /\ IsSums(Q, Lengths(m), Len(m))
    BY <1>2, <1>9, <1>11
  <2>q. QED BY <2>2, <2>3, FlattenSeqOnly
<1>q. QED BY <1>4, <1>12 DEF m, r, s

LEMMA FlattenTail ==
    ASSUME NEW S, NEW l \in Seq(Seq(S)), l # << >>
    PROVE  /\ FlattenSeq(l) = l[1] \o FlattenSeq(Tail(l))
           /\ l[1] \in Seq(S) /\ Tail(l) \in Seq(Seq(S))
           /\ FlattenSeq(Tail(l)) \in Seq(S)
<1> DEFINE n == Len(l)
           t == Tail(l)
           c == n - 1
           P == Sums(Lengths(t), Len(t))
           Q == [j \in 0 .. n |-> IF j = 0 THEN 0 ELSE Len(l[1]) + P[j - 1]]
           r == FlattenSeq(t)
           s == l[1] \o r
<1>1. /\ n \in Nat /\ n > 0 /\ t \in Seq(Seq(S)) /\ Len(t) = c
      /\ \A j \in 1 .. c : t[j] = l[j + 1]
      /\ \A j \in 1 .. n : l[j] \in Seq(S)
  OBVIOUS
<1>2. l[1] \in Seq(S) /\ Len(l[1]) \in Nat /\ c \in Nat /\ n = c + 1
  <2>1. l[1] \in Seq(S)
    BY <1>1
  <2>q. QED BY <1>1, <2>1
<1> HIDE DEF t, n, c
<1>3. IsSums(P, Lengths(t), Len(t))
  BY <1>1, LengthsType, SumsAreSums
<1> HIDE DEF P
<1>4. r \in Seq(S)
  BY <1>1, <1>3, FlattenSeqIs
<1>5. Len(r) = P[c]
  BY <1>1, <1>3, FlattenSeqIs
<1>6. \A j \in 0 .. c - 1 : \A o \in 1 .. Len(t[j + 1]) : r[P[j] + o] = t[j + 1][o]
  <2>1. \A j \in 0 .. Len(t) - 1 : \A o \in 1 .. Len(t[j + 1]) : r[P[j] + o] = t[j + 1][o]
    <3>1. t \in Seq(Seq(S))
      BY <1>1
    <3>q. QED BY <1>3, <3>1, FlattenSeqIs
  <2>q. QED BY <1>1, <2>1
<1>7. /\ P \in [0 .. c -> Nat] /\ P[0] = 0
      /\ \A j \in 0 .. c - 1 : Len(t[j + 1]) \in Nat /\ P[j + 1] = P[j] + Len(t[j + 1])
  <2>1. \A j \in 0 .. c - 1 : Lengths(t)[j] = Len(t[j + 1]) /\ Lengths(t)[j] \in Nat
    BY <1>1, LengthsType
  <2>q. QED BY <1>1, <1>3, <2>1 DEF IsSums
<1>8. \A i, j \in 0 .. c : i <= j => P[i] <= P[j]
  BY <1>1, <1>2, <1>3, LengthsType, SumsMonotone
<1> HIDE DEF r
<1>9. /\ s \in Seq(S) /\ Len(s) = Len(l[1]) + P[c]
      /\ \A i \in 1 .. Len(l[1]) : s[i] = l[1][i]
      /\ \A i \in 1 .. P[c] : s[Len(l[1]) + i] = r[i]
  <2> DEFINE h == l[1]
  <2>1. h \in Seq(S)
    BY <1>2
  <2> HIDE DEF h
  <2>2. /\ h \o r \in Seq(S) /\ Len(h \o r) = Len(h) + Len(r)
        /\ \A i \in 1 .. Len(h) : (h \o r)[i] = h[i]
        /\ \A i \in 1 .. Len(r) : (h \o r)[Len(h) + i] = r[i]
    BY <1>4, <2>1
  <2>q. QED BY <1>5, <2>2 DEF h
<1> HIDE DEF s
<1>10. ASSUME NEW j \in 0 .. c
       PROVE  /\ Lengths(l)[j] = Len(l[j + 1])
              /\ Q[j + 1] = Q[j] + Len(l[j + 1])
              /\ \A o \in 1 .. Len(l[j + 1]) : s[Q[j] + o] = l[j + 1][o]
  <2>1. Lengths(l)[j] = Len(l[j + 1])
    BY <1>2 DEF Lengths, n
  <2>2. CASE j = 0
    <3>1. Q[j] = 0 /\ Q[j + 1] = Len(l[1]) + P[0] /\ l[j + 1] = l[1]
      BY <1>1, <2>2
    <3> HIDE DEF Q
    <3>q. QED BY <1>2, <1>7, <1>9, <2>1, <3>1
  <2>3. CASE j # 0
    <3> DEFINE i == j - 1
    <3>1. /\ i \in 0 .. c - 1 /\ i + 1 = j /\ j \in 1 .. c /\ j \in 0 .. c
          /\ i \in 0 .. c /\ c \in 0 .. c /\ j <= c
      BY <1>2, <2>3
    <3>2. t[i + 1] = l[j + 1] /\ Q[j] = Len(l[1]) + P[i] /\ Q[j + 1] = Len(l[1]) + P[j]
      <4>1. t[i + 1] = l[j + 1]
        BY <1>1, <3>1
      <4>2. j \in 0 .. n /\ j + 1 \in 0 .. n /\ j + 1 # 0 /\ (j + 1) - 1 = j
        BY <1>2, <3>1
      <4>q. QED BY <2>3, <4>1, <4>2
    <3> HIDE DEF Q, i
    <3>3. /\ P[j] = P[i] + Len(l[j + 1]) /\ P[i] \in Nat /\ Len(l[j + 1]) \in Nat
          /\ P[j] <= P[c] /\ P[c] \in Nat /\ P[j] \in Nat
      BY <1>7, <1>8, <3>1, <3>2
    <3>4. ASSUME NEW o \in 1 .. Len(l[j + 1]) PROVE s[Q[j] + o] = l[j + 1][o]
      <4>1. P[i] + o \in 1 .. P[c] /\ Q[j] + o = Len(l[1]) + (P[i] + o)
        <5>1. Len(l[1]) \in Nat /\ Q[j] = Len(l[1]) + P[i]
          BY <1>2, <3>2
        <5>2. P[i] \in Nat /\ P[c] \in Nat /\ Len(l[j + 1]) \in Nat /\ P[i] + Len(l[j + 1]) <= P[c]
          BY <3>3
        <5>q. QED BY <5>1, <5>2
      <4>2. s[Q[j] + o] = r[P[i] + o]
        BY <1>9, <4>1
      <4>3. r[P[i] + o] = t[i + 1][o]
        BY <1>6, <3>1, <3>2
      <4>q. QED BY <3>2, <4>2, <4>3
    <3>5. Q[j + 1] = Q[j] + Len(l[j + 1])
      BY <1>2, <3>2, <3>3
    <3>q. QED BY <2>1, <3>4, <3>5
  <2>q. QED BY <2>2, <2>3
<1>11. IsSums(Q, Lengths(l), Len(l)) /\ Q[Len(l)] = Len(l[1]) + P[c]
  <2>1. Q \in [0 .. n -> Nat]
    <3>1. \A j \in 0 .. n : j # 0 => P[j - 1] \in Nat
      BY <1>2, <1>7
    <3>q. QED BY <1>2, <1>7, <3>1
  <2>2. Q[0] = 0 /\ Q[n] = Len(l[1]) + P[c]
    BY <1>1, <1>2
  <2> HIDE DEF Q
  <2>q. QED BY <1>2, <1>10, <2>1, <2>2 DEF IsSums, n
<1>12. FlattenSeq(l) = s
  <2> HIDE DEF Q
  <2>1. \A j \in 0 .. Len(l) - 1 : \A o \in 1 .. Len(l[j + 1]) : s[Q[j] + o] = l[j + 1][o]
    BY <1>2, <1>10 DEF n
  <2>2. s \in Seq(S) /\ Len(s) = Q[Len(l)] /\ IsSums(Q, Lengths(l), Len(l))
    BY <1>9, <1>11
  <2>q. QED BY <2>1, <2>2, FlattenSeqOnly
<1>q. QED BY <1>1, <1>2, <1>4, <1>12 DEF t, r, s

\* The n elements of s behind the m-th.
LEMMA SliceIs ==
    ASSUME NEW S, NEW s \in Seq(S), NEW m \in Nat, NEW n \in Nat, m + n <= Len(s)
    PROVE  /\ SubSeq(s, m + 1, m + n) \in Seq(S)
           /\ Len(SubSeq(s, m + 1, m + n)) = n
           /\ \A i \in 1 .. n : SubSeq(s, m + 1, m + n)[i] = s[m + i]
<1>1. m + 1 \in Int /\ m + n \in Int /\ (m + n) - (m + 1) + 1 = n /\ Len(s) \in Nat
  OBVIOUS
<1>2. \A i \in m + 1 .. m + n : s[i] \in S
  BY <1>1
<1>3. \A i \in 1 .. n : (m + 1) + i - 1 = m + i
  OBVIOUS
<1>4. m + 1 <= m + n <=> n # 0
  OBVIOUS
<1> DEFINE r == SubSeq(s, m + 1, m + n)
<1>5. /\ r \in Seq(S)
      /\ Len(r) = IF m + 1 <= m + n THEN (m + n) - (m + 1) + 1 ELSE 0
      /\ \A i \in 1 .. (m + n) - (m + 1) + 1 : r[i] = s[(m + 1) + i - 1]
  BY <1>1, <1>2, SubSeqProperties
<1> HIDE DEF r
<1>q. QED BY <1>1, <1>3, <1>4, <1>5 DEF r

\* Two slices, the second of which begins where the first one ends.
LEMMA SlicesJoin ==
    ASSUME NEW S, NEW s \in Seq(S), NEW m \in Nat, NEW k \in Nat, NEW n \in Nat,
           m + k + n <= Len(s)
    PROVE  SubSeq(s, m + 1, m + k) \o SubSeq(s, m + k + 1, m + k + n)
             = SubSeq(s, m + 1, m + (k + n))
<1> DEFINE u == SubSeq(s, m + 1, m + k)
           v == SubSeq(s, m + k + 1, m + k + n)
           w == SubSeq(s, m + 1, m + (k + n))
<1>0. Len(s) \in Nat /\ m + k \in Nat /\ k + n \in Nat /\ m + k <= Len(s) /\ m + (k + n) <= Len(s)
  OBVIOUS
<1>1. u \in Seq(S) /\ Len(u) = k
  BY <1>0, SliceIs
<1>2. \A i \in 1 .. k : u[i] = s[m + i]
  BY <1>0, SliceIs
<1>3. v \in Seq(S) /\ Len(v) = n
  BY <1>0, SliceIs
<1>4. \A i \in 1 .. n : v[i] = s[m + k + i]
  BY <1>0, SliceIs
<1>5. w \in Seq(S) /\ Len(w) = k + n
  BY <1>0, SliceIs
<1>6. \A i \in 1 .. k + n : w[i] = s[m + i]
  BY <1>0, SliceIs
<1> HIDE DEF u, v, w
<1>7. u \o v \in Seq(S) /\ Len(u \o v) = k + n
  BY <1>1, <1>3
<1>8. ASSUME NEW i \in 1 .. k + n PROVE (u \o v)[i] = w[i]
  <2>1. (u \o v)[i] = IF i <= k THEN u[i] ELSE v[i - k]
    BY <1>1, <1>3
  <2>2. CASE i <= k
    BY <1>2, <1>6, <2>1, <2>2
  <2>3. CASE ~(i <= k)
    <3>1. i - k \in 1 .. n /\ m + k + (i - k) = m + i
      BY <2>3
    <3>q. QED BY <1>4, <1>6, <2>1, <2>3, <3>1
  <2>q. QED BY <2>2, <2>3
<1>9. u \o v = w
  BY <1>5, <1>7, <1>8, SeqEqual
<1>q. QED BY <1>9 DEF u, v, w

LEMMA EmptySlice ==
    ASSUME NEW S, NEW s \in Seq(S), NEW m \in Nat, m <= Len(s)
    PROVE  SubSeq(s, m + 1, m) = << >>
<1> DEFINE r == SubSeq(s, m + 1, m)
<1>1. m + 0 = m /\ m + 0 <= Len(s)
  OBVIOUS
<1>2. SubSeq(s, m + 1, m + 0) \in Seq(S) /\ Len(SubSeq(s, m + 1, m + 0)) = 0
  BY <1>1, SliceIs
<1>3. r \in Seq(S) /\ Len(r) = 0
  BY <1>1, <1>2
<1> HIDE DEF r
<1>4. r = << >>
  BY <1>3
<1>q. QED BY <1>4 DEF r

-----------------------------------------------------------------------------
(***************************************************************************)
(* Arithmetic of the index that wraps at MaxOps.                           *)
(***************************************************************************)
LEMMA Wraps ==
    ASSUME NEW x \in Nat, x < 2 * MaxOps
    PROVE  x % MaxOps = IF x < MaxOps THEN x ELSE x - MaxOps
  BY MaxOpsAssumption, SMT

LEMMA AdvanceWraps ==
    ASSUME NEW i \in Slots
    PROVE  /\ Advance(i) \in Slots
           /\ Advance(i) = IF i + 1 = MaxOps THEN 0 ELSE i + 1
<1>1. i \in Nat /\ i < MaxOps /\ MaxOps \in Nat /\ MaxOps > 0
  BY MaxOpsAssumption DEF Slots
<1>2. (i + 1) % MaxOps = IF i + 1 < MaxOps THEN i + 1 ELSE i + 1 - MaxOps
  BY <1>1, Wraps
<1>q. QED
  BY <1>1, <1>2 DEF Slots, Advance

LEMMA OffsetWraps ==
    ASSUME NEW o \in Slots, NEW j \in 0 .. MaxOps
    PROVE  /\ (o + j) % MaxOps \in Slots
           /\ (o + j) % MaxOps = IF o + j < MaxOps THEN o + j ELSE o + j - MaxOps
<1> DEFINE x == o + j
<1>1. o \in Nat /\ o < MaxOps /\ MaxOps \in Nat /\ MaxOps > 0 /\ j \in Nat /\ j <= MaxOps
  BY MaxOpsAssumption DEF Slots
<1>2. x \in Nat /\ x < 2 * MaxOps
  BY <1>1
<1> HIDE DEF x
<1>3. x % MaxOps = IF x < MaxOps THEN x ELSE x - MaxOps
  BY <1>2, Wraps
<1>4. x % MaxOps \in Slots
  BY <1>1, <1>2, <1>3 DEF Slots
<1>q. QED
  BY <1>1, <1>3, <1>4 DEF x

LEMMA SlotOfWraps ==
    ASSUME NEW b, b.out_offs \in Slots, NEW j \in 0 .. MaxOps
    PROVE  /\ SlotOf(b, j) \in Slots
           /\ SlotOf(b, j) = IF b.out_offs + j < MaxOps THEN b.out_offs + j
                             ELSE b.out_offs + j - MaxOps
  BY OffsetWraps DEF SlotOf

-----------------------------------------------------------------------------
(***************************************************************************)
(* The number of entries and the walk over them, before and after an add.  *)
(***************************************************************************)
Good(b) == b \in Buffers /\ RingIsWellFormed(b) /\ BufLenIsTotalOf(b)

LEMMA Fields ==
    ASSUME NEW b \in Buffers
    PROVE  /\ b.entry \in [Slots -> AnyEntry]
           /\ b.overflow_entry \in AnyEntry
           /\ b.buf_len \in Nat
           /\ b.in_offs \in Slots
           /\ b.out_offs \in Slots
           /\ b.full \in BOOLEAN
  BY DEF Buffers

LEMMA CountInRange ==
    ASSUME NEW b \in Buffers, RingIsWellFormed(b)
    PROVE  /\ Count(b) \in 0 .. MaxOps
           /\ b.full => Count(b) = MaxOps
           /\ ~b.full => Count(b) = b.in_offs /\ Count(b) < MaxOps
  BY Fields, MaxOpsAssumption DEF RingIsWellFormed, Count, Slots

LEMMA AddFields ==
    ASSUME NEW b, NEW e
    PROVE  /\ AddEntry(b, e).entry = [b.entry EXCEPT ![b.in_offs] = e]
           /\ AddEntry(b, e).overflow_entry = b.entry[b.in_offs]
           /\ AddEntry(b, e).buf_len =
                b.buf_len + e.size - (IF b.full THEN b.entry[b.in_offs].size ELSE 0)
           /\ AddEntry(b, e).in_offs = Advance(b.in_offs)
           /\ AddEntry(b, e).out_offs = IF b.full THEN Advance(b.in_offs) ELSE b.out_offs
           /\ AddEntry(b, e).full \in BOOLEAN
           /\ AddEntry(b, e).full <=> b.full \/ Advance(b.in_offs) = b.out_offs
  BY DEF AddEntry, LengthAfter, OutAfter, FullAfter

LEMMA AddKeepsShape ==
    ASSUME NEW b \in Buffers, RingIsWellFormed(b), NEW e \in Entries
    PROVE  RingIsWellFormed(AddEntry(b, e))
<1> DEFINE c == AddEntry(b, e)
<1>1. b.in_offs \in Slots /\ b.full \in BOOLEAN /\ b.entry \in [Slots -> AnyEntry] /\ b.out_offs \in Slots
  BY Fields
<1>2. e.buffptr # NULL
  BY NullAssumption DEF Entries
<1>3. /\ Advance(b.in_offs) \in Slots
      /\ Advance(b.in_offs) = IF b.in_offs + 1 = MaxOps THEN 0 ELSE b.in_offs + 1
  BY <1>1, AdvanceWraps
<1>4. /\ c.entry = [b.entry EXCEPT ![b.in_offs] = e]
      /\ c.in_offs = Advance(b.in_offs)
      /\ c.out_offs = IF b.full THEN Advance(b.in_offs) ELSE b.out_offs
      /\ c.full <=> b.full \/ Advance(b.in_offs) = b.out_offs
  BY AddFields
<1> HIDE DEF c
<1>5. c.full => c.in_offs = c.out_offs
  BY <1>4
<1>6. ~c.full => c.out_offs = 0
  BY <1>1, <1>4 DEF RingIsWellFormed
<1>7. ASSUME NEW i \in Slots
      PROVE  IF c.full \/ i < c.in_offs THEN c.entry[i].buffptr # NULL
                                        ELSE c.entry[i] = NullEntry
  <2>0. c.full \/ i < c.in_offs <=> b.full \/ i < b.in_offs \/ i = b.in_offs
    <3>1. b.in_offs \in Nat /\ i \in Nat /\ i < MaxOps /\ MaxOps \in Nat
      BY <1>1, MaxOpsAssumption DEF Slots
    <3>2. CASE b.full
      BY <1>4, <3>2
    <3>3. CASE ~b.full
      <4>1. c.full <=> b.in_offs + 1 = MaxOps
        BY <1>1, <1>3, <1>4, <3>1, <3>3 DEF RingIsWellFormed
      <4>2. ~c.full => c.in_offs = b.in_offs + 1
        BY <1>3, <1>4, <4>1
      <4>q. QED BY <3>1, <3>3, <4>1, <4>2
    <3>q. QED BY <1>1, <3>2, <3>3
  <2>1. CASE i = b.in_offs
    BY <1>1, <1>2, <1>4, <2>0, <2>1
  <2>2. CASE i # b.in_offs
    <3>1. c.entry[i] = b.entry[i]
      BY <1>1, <1>4, <2>2
    <3>q. QED
      BY <2>0, <2>2, <3>1 DEF RingIsWellFormed
  <2>q. QED BY <2>1, <2>2
<1>q. QED
  BY <1>5, <1>6, <1>7 DEF RingIsWellFormed, c

-----------------------------------------------------------------------------
(***************************************************************************)
(* How an add moves the walk: a ring that is not full gets one entry more  *)
(* at the end, a full one also loses its first.                            *)
(***************************************************************************)
LEMMA AddWhenNotFull ==
    ASSUME NEW b \in Buffers, RingIsWellFormed(b), NEW e \in Entries, ~b.full
    PROVE  /\ Count(AddEntry(b, e)) = Count(b) + 1
           /\ \A j \in 0 .. Count(b) - 1 : Nth(AddEntry(b, e), j) = Nth(b, j)
           /\ Nth(AddEntry(b, e), Count(b)) = e
<1> DEFINE c == AddEntry(b, e)
<1>1. b.in_offs \in Slots /\ b.full \in BOOLEAN /\ b.entry \in [Slots -> AnyEntry] /\ b.out_offs = 0
  BY Fields DEF RingIsWellFormed
<1>2. MaxOps \in Nat /\ b.in_offs \in Nat /\ b.in_offs < MaxOps
  BY <1>1, MaxOpsAssumption DEF Slots
<1>3. Count(b) = b.in_offs
  BY CountInRange
<1>4. Advance(b.in_offs) = IF b.in_offs + 1 = MaxOps THEN 0 ELSE b.in_offs + 1
  BY <1>1, AdvanceWraps
<1>5. /\ c.entry = [b.entry EXCEPT ![b.in_offs] = e]
      /\ c.in_offs = Advance(b.in_offs)
      /\ c.out_offs = 0
      /\ c.full <=> Advance(b.in_offs) = 0
  BY <1>1, AddFields
<1> HIDE DEF c
<1>6. Count(c) = b.in_offs + 1
  BY <1>1, <1>2, <1>4, <1>5 DEF Count
<1>7. ASSUME NEW j \in 0 .. b.in_offs
      PROVE  SlotOf(b, j) = j /\ SlotOf(c, j) = j
  <2>1. j \in Nat /\ j < MaxOps /\ j < 2 * MaxOps /\ 0 + j = j
    BY <1>2
  <2>2. j % MaxOps = j
    BY <2>1, Wraps
  <2>q. QED BY <1>1, <1>5, <2>1, <2>2 DEF SlotOf
<1>8. ASSUME NEW j \in 0 .. b.in_offs - 1
      PROVE  Nth(c, j) = Nth(b, j)
  <2>1. j \in 0 .. b.in_offs /\ j \in Slots /\ j # b.in_offs
    BY <1>2 DEF Slots
  <2>2. c.entry[j] = b.entry[j]
    BY <1>1, <1>5, <2>1
  <2>q. QED BY <1>7, <2>1, <2>2 DEF Nth
<1>9. Nth(c, b.in_offs) = e
  <2>1. c.entry[b.in_offs] = e
    BY <1>1, <1>5
  <2>2. b.in_offs \in 0 .. b.in_offs
    BY <1>2
  <2>q. QED BY <1>7, <2>1, <2>2 DEF Nth
<1>q. QED
  BY <1>3, <1>6, <1>8, <1>9 DEF c

LEMMA AddWhenFull ==
    ASSUME NEW b \in Buffers, RingIsWellFormed(b), NEW e \in Entries, b.full
    PROVE  /\ Count(AddEntry(b, e)) = MaxOps
           /\ \A j \in 0 .. MaxOps - 2 : Nth(AddEntry(b, e), j) = Nth(b, j + 1)
           /\ Nth(AddEntry(b, e), MaxOps - 1) = e
           /\ Nth(b, 0) = b.entry[b.in_offs]
<1> DEFINE c == AddEntry(b, e)
           o == b.out_offs
<1>1. b.in_offs \in Slots /\ b.full \in BOOLEAN /\ b.entry \in [Slots -> AnyEntry] /\ b.in_offs = o
  BY Fields DEF RingIsWellFormed
<1>2. MaxOps \in Nat /\ MaxOps > 0 /\ o \in Nat /\ o < MaxOps
  BY <1>1, MaxOpsAssumption DEF Slots
<1>3. Advance(o) \in Slots /\ Advance(o) = IF o + 1 = MaxOps THEN 0 ELSE o + 1
  BY <1>1, AdvanceWraps
<1>4. /\ c.entry = [b.entry EXCEPT ![o] = e]
      /\ c.out_offs = Advance(o)
      /\ c.full
  BY <1>1, AddFields
<1>5. ASSUME NEW j \in 0 .. MaxOps
      PROVE  SlotOf(b, j) \in Slots /\ SlotOf(b, j) = IF o + j < MaxOps THEN o + j ELSE o + j - MaxOps
  BY <1>1, SlotOfWraps
<1> HIDE DEF c
<1>6. ASSUME NEW j \in 0 .. MaxOps
      PROVE  SlotOf(c, j) = IF c.out_offs + j < MaxOps THEN c.out_offs + j ELSE c.out_offs + j - MaxOps
  BY <1>3, <1>4, SlotOfWraps
<1> HIDE DEF o
<1>7. ASSUME NEW j \in 0 .. MaxOps - 2
      PROVE  Nth(c, j) = Nth(b, j + 1)
  <2>1. j \in 0 .. MaxOps /\ j + 1 \in 0 .. MaxOps
    BY <1>2
  <2>2. SlotOf(c, j) = IF c.out_offs + j < MaxOps THEN c.out_offs + j ELSE c.out_offs + j - MaxOps
    BY <1>6, <2>1
  <2>3. SlotOf(b, j + 1) \in Slots /\ SlotOf(b, j + 1) = IF o + (j + 1) < MaxOps THEN o + (j + 1) ELSE o + (j + 1) - MaxOps
    BY <1>5, <2>1
  <2>4. SlotOf(c, j) = SlotOf(b, j + 1) /\ SlotOf(b, j + 1) # o
    BY <1>2, <1>3, <1>4, <2>2, <2>3
  <2>5. c.entry[SlotOf(b, j + 1)] = b.entry[SlotOf(b, j + 1)]
    BY <1>1, <1>4, <2>3, <2>4
  <2>q. QED BY <2>4, <2>5 DEF Nth
<1>8. Nth(c, MaxOps - 1) = e
  <2>1. MaxOps - 1 \in 0 .. MaxOps
    BY <1>2
  <2>2. SlotOf(c, MaxOps - 1) = o
    BY <1>2, <1>3, <1>4, <1>6, <2>1
  <2>3. c.entry[o] = e
    BY <1>1, <1>4
  <2>q. QED BY <2>2, <2>3 DEF Nth
<1>9. Nth(b, 0) = b.entry[b.in_offs]
  <2>1. 0 \in 0 .. MaxOps
    BY <1>2
  <2>2. SlotOf(b, 0) = o
    BY <1>2, <1>5, <2>1
  <2>q. QED BY <1>1, <2>2 DEF Nth
<1>10. Count(c) = MaxOps
  BY <1>4 DEF Count
<1>q. QED
  BY <1>7, <1>8, <1>9, <1>10 DEF c

-----------------------------------------------------------------------------
(***************************************************************************)
(* buf_len stays the total of the sizes.  The running sizes of the new     *)
(* walk are the old ones with one more at the end, when the ring was full  *)
(* after the first was taken off all of them.                              *)
(***************************************************************************)
LEMMA AnyEntrySize ==
    ASSUME NEW x \in AnyEntry
    PROVE  x.size \in Nat
  BY DEF AnyEntry

LEMMA NthType ==
    ASSUME NEW b \in Buffers, NEW j \in 0 .. MaxOps
    PROVE  /\ Nth(b, j) \in AnyEntry
           /\ Nth(b, j).size \in Nat
<1>1. b.entry \in [Slots -> AnyEntry] /\ b.out_offs \in Slots
  BY Fields
<1>2. SlotOf(b, j) \in Slots
  BY <1>1, SlotOfWraps
<1>3. Nth(b, j) \in AnyEntry
  BY <1>1, <1>2 DEF Nth
<1>q. QED
  BY <1>3, AnyEntrySize

LEMMA AddLength ==
    ASSUME NEW b \in Buffers, NEW e \in Entries
    PROVE  /\ e.size \in Nat
           /\ b.buf_len \in Nat
           /\ b.entry[b.in_offs].size \in Nat
           /\ ~b.full => AddEntry(b, e).buf_len = b.buf_len + e.size
           /\ b.full => AddEntry(b, e).buf_len = b.buf_len + e.size - b.entry[b.in_offs].size
<1>1. b.entry \in [Slots -> AnyEntry] /\ b.in_offs \in Slots /\ b.buf_len \in Nat
  BY Fields
<1>2. e.size \in Nat
  BY DEF Entries
<1>4. b.entry[b.in_offs].size \in Nat
  BY <1>1, AnyEntrySize
<1>q. QED
  BY <1>1, <1>2, <1>4 DEF AddEntry, LengthAfter, OutAfter, FullAfter

(***************************************************************************)
(* Running(b) are the partial sums of the sizes along the walk, and the    *)
(* only function that adds them up.                                        *)
(***************************************************************************)
IsRunning(P, b) ==
    /\ P \in [0 .. Count(b) -> Nat]
    /\ P[0] = 0
    /\ \A j \in 0 .. Count(b) - 1 : P[j + 1] = P[j] + Nth(b, j).size

LEMMA RunningSums ==
    ASSUME NEW b \in Buffers, RingIsWellFormed(b)
    PROVE  /\ IsRunning(Running(b), b)
           /\ \A P : IsRunning(P, b) => \A j \in 0 .. Count(b) : Running(b)[j] = P[j]
           /\ \A i, j \in 0 .. Count(b) : i <= j => Running(b)[i] <= Running(b)[j]
<1> DEFINE n == Count(b)
           s == [j \in 0 .. n - 1 |-> Nth(b, j).size]
<1>1. n \in Nat /\ n <= MaxOps /\ MaxOps \in Nat
  BY CountInRange, MaxOpsAssumption
<1>2. s \in [0 .. n - 1 -> Nat]
  <2>1. \A j \in 0 .. n - 1 : j \in 0 .. MaxOps
    BY <1>1
  <2>q. QED BY <2>1, NthType
<1>3. Running(b) = Sums(s, n)
  BY DEF Running
<1>4. \A P : IsRunning(P, b) <=> IsSums(P, s, n)
  BY DEF IsRunning, IsSums
<1> HIDE DEF n, s
<1>5. IsSums(Running(b), s, n)
  BY <1>1, <1>2, <1>3, SumsAreSums
<1>6. ASSUME NEW P, IsRunning(P, b), NEW j \in 0 .. n
      PROVE  Running(b)[j] = P[j]
  BY <1>1, <1>2, <1>3, <1>4, <1>6, SumsUnique
<1>7. ASSUME NEW i \in 0 .. n, NEW j \in 0 .. n, i <= j
      PROVE  Running(b)[i] <= Running(b)[j]
  BY <1>1, <1>2, <1>5, <1>7, SumsMonotone
<1>q. QED
  BY <1>4, <1>5, <1>6, <1>7 DEF n

LEMMA AddKeepsTotal ==
    ASSUME NEW b \in Buffers, RingIsWellFormed(b), BufLenIsTotalOf(b), NEW e \in Entries
    PROVE  \E Q : /\ IsRunning(Q, AddEntry(b, e))
                  /\ Q[Count(AddEntry(b, e))] = AddEntry(b, e).buf_len
<1> DEFINE c == AddEntry(b, e)
           n == Count(b)
           len == b.buf_len
           P == Running(b)
<1>1. IsRunning(P, b) /\ P[n] = len /\ (\A i, j \in 0 .. n : i <= j => P[i] <= P[j])
  BY RunningSums DEF BufLenIsTotalOf
<1>2. e.size \in Nat /\ len \in Nat /\ n \in 0 .. MaxOps /\ MaxOps \in Nat /\ MaxOps > 0 /\ b.full \in BOOLEAN
  BY Fields, CountInRange, AddLength, MaxOpsAssumption
<1>3. CASE ~b.full
  <2> DEFINE Q == [j \in 0 .. n + 1 |-> IF j <= n THEN P[j] ELSE len + e.size]
  <2>1. /\ Count(c) = n + 1
        /\ \A j \in 0 .. n - 1 : Nth(c, j) = Nth(b, j)
        /\ Nth(c, n) = e
    BY <1>3, AddWhenNotFull
  <2>2. c.buf_len = len + e.size
    BY <1>3, AddLength
  <2>3. /\ P \in [0 .. n -> Nat]
        /\ P[0] = 0
        /\ \A j \in 0 .. n - 1 : P[j + 1] = P[j] + Nth(b, j).size
        /\ P[n] = len
    BY <1>1 DEF IsRunning
  <2> HIDE DEF c, n, len, P
  <2>4. Q \in [0 .. n + 1 -> Nat] /\ Q[n + 1] = c.buf_len /\ Q[0] = 0
    BY <1>2, <2>2, <2>3
  <2>5. ASSUME NEW j \in 0 .. n
        PROVE  Q[j + 1] = Q[j] + Nth(c, j).size
    <3>1. CASE j = n
      BY <1>2, <2>1, <2>3, <3>1
    <3>2. CASE j < n
      <4>1. j \in 0 .. n - 1 /\ j + 1 \in 0 .. n + 1 /\ j \in 0 .. n + 1 /\ j + 1 <= n /\ j <= n
        BY <1>2, <3>2
      <4>q. QED BY <2>1, <2>3, <4>1
    <3>q. QED BY <1>2, <3>1, <3>2
  <2> HIDE DEF Q
  <2>6. Count(c) - 1 = n
    BY <1>2, <2>1
  <2>7. IsRunning(Q, c)
    BY <2>1, <2>4, <2>5, <2>6 DEF IsRunning
  <2>q. QED BY <2>1, <2>4, <2>7 DEF c
<1>4. CASE b.full
  <2> DEFINE Q == [j \in 0 .. MaxOps |-> IF j < MaxOps THEN P[j + 1] - P[1]
                                         ELSE P[MaxOps] - P[1] + e.size]
  <2>1. /\ Count(c) = MaxOps
        /\ \A j \in 0 .. MaxOps - 2 : Nth(c, j) = Nth(b, j + 1)
        /\ Nth(c, MaxOps - 1) = e
        /\ Nth(b, 0) = b.entry[b.in_offs]
    BY <1>4, AddWhenFull
  <2>2. n = MaxOps
    BY <1>4, CountInRange
  <2>3. c.buf_len = len + e.size - Nth(b, 0).size
    BY <1>4, <2>1, AddLength
  <2>4. \A j \in 0 .. MaxOps - 1 : Nth(b, j).size \in Nat
    BY <1>2, NthType
  <2>5. /\ P[0] = 0
        /\ \A i, j \in 0 .. MaxOps : i <= j => P[i] <= P[j]
        /\ \A j \in 0 .. MaxOps - 1 : P[j + 1] = P[j] + Nth(b, j).size
        /\ P \in [0 .. MaxOps -> Nat]
        /\ P[MaxOps] = len
    BY <1>1, <2>2 DEF IsRunning
  <2> HIDE DEF c, n, len, P
  <2>6. P[1] = Nth(b, 0).size /\ P[1] \in Nat /\ P[1] <= len
    <3>1. 0 \in 0 .. MaxOps - 1 /\ 1 \in 0 .. MaxOps /\ 0 + 1 = 1 /\ MaxOps \in 0 .. MaxOps /\ 1 <= MaxOps
      BY <1>2
    <3>q. QED BY <1>2, <2>4, <2>5, <3>1
  <2>7. c.buf_len = len - P[1] + e.size
    BY <1>2, <2>3, <2>6
  <2>8. ASSUME NEW j \in 0 .. MaxOps
        PROVE  Q[j] \in Nat
    <3>1. CASE j = MaxOps
      BY <1>2, <2>5, <2>6, <3>1
    <3>2. CASE j < MaxOps
      <4>1. j + 1 \in 0 .. MaxOps /\ 1 \in 0 .. MaxOps /\ 1 <= j + 1
        BY <1>2, <3>2
      <4>2. P[1] <= P[j + 1] /\ P[j + 1] \in Nat
        BY <2>5, <4>1
      <4>q. QED BY <1>2, <2>6, <3>2, <4>2
    <3>q. QED BY <1>2, <3>1, <3>2
  <2>9. Q[MaxOps] = c.buf_len
    BY <1>2, <2>5, <2>7
  <2>10. ASSUME NEW j \in 0 .. MaxOps - 1
         PROVE  Q[j + 1] = Q[j] + Nth(c, j).size
    <3>1. CASE j = MaxOps - 1
      <4>1. j + 1 = MaxOps /\ j < MaxOps /\ j \in 0 .. MaxOps /\ MaxOps \in 0 .. MaxOps
        BY <1>2, <3>1
      <4>2. Q[MaxOps] = P[MaxOps] - P[1] + e.size /\ Q[j] = P[MaxOps] - P[1]
        BY <4>1
      <4>3. P[MaxOps] \in Nat
        BY <1>2, <2>5
      <4>q. QED BY <1>2, <2>1, <2>6, <3>1, <4>1, <4>2, <4>3
    <3>2. CASE j < MaxOps - 1
      <4>1. j \in 0 .. MaxOps - 2 /\ j + 1 \in 0 .. MaxOps - 1 /\ (j + 1) + 1 \in 0 .. MaxOps /\ j + 1 < MaxOps /\ j < MaxOps
        BY <1>2, <3>2
      <4>2. P[(j + 1) + 1] = P[j + 1] + Nth(b, j + 1).size /\ Nth(b, j + 1).size \in Nat
        BY <2>4, <2>5, <4>1
      <4>3. P[j + 1] \in Nat /\ Nth(c, j) = Nth(b, j + 1)
        BY <1>2, <2>1, <2>5, <4>1
      <4>4. Q[j + 1] = P[(j + 1) + 1] - P[1] /\ Q[j] = P[j + 1] - P[1]
        BY <1>2, <4>1
      <4>q. QED BY <2>6, <4>2, <4>3, <4>4
    <3>q. QED BY <1>2, <3>1, <3>2
  <2>11. Q[0] = 0
    BY <1>2, <2>6
  <2>12. Q \in [0 .. MaxOps -> Nat]
    BY <2>8
  <2> HIDE DEF Q
  <2>13. IsRunning(Q, c)
    BY <2>1, <2>10, <2>11, <2>12 DEF IsRunning
  <2>q. QED BY <2>1, <2>9, <2>13 DEF c
<1>q. QED
  BY <1>2, <1>3, <1>4

-----------------------------------------------------------------------------
(***************************************************************************)
(* The inductive invariant.                                                *)
(***************************************************************************)
LEMMA EmptyIsGood == Good(EmptyBuffer)
<1>1. NullEntry \in AnyEntry
  BY DEF NullEntry, AnyEntry
<1>2. 0 \in Slots /\ MaxOps > 0
  BY MaxOpsAssumption DEF Slots
<1>3. EmptyBuffer \in Buffers
  BY <1>1, <1>2 DEF EmptyBuffer, Buffers
<1>4. RingIsWellFormed(EmptyBuffer)
  BY MaxOpsAssumption DEF EmptyBuffer, RingIsWellFormed, Slots
<1>5. Count(EmptyBuffer) = 0 /\ EmptyBuffer.buf_len = 0
  BY DEF Count, EmptyBuffer
<1>6. BufLenIsTotalOf(EmptyBuffer)
  BY <1>3, <1>4, <1>5, RunningSums DEF BufLenIsTotalOf, IsRunning
<1>q. QED
  BY <1>3, <1>4, <1>6 DEF Good

LEMMA AddKeepsGood ==
    ASSUME NEW b, Good(b), NEW e \in Entries
    PROVE  Good(AddEntry(b, e))
<1> DEFINE c == AddEntry(b, e)
<1>1. b \in Buffers /\ RingIsWellFormed(b) /\ BufLenIsTotalOf(b)
  BY DEF Good
<1>2. RingIsWellFormed(c)
  BY <1>1, AddKeepsShape
<1>3. PICK Q : IsRunning(Q, c) /\ Q[Count(c)] = c.buf_len
  BY <1>1, AddKeepsTotal
<1>4. Count(c) \in Nat
  <2>1. ~b.full => Count(c) = Count(b) + 1
    BY <1>1, AddWhenNotFull
  <2>2. b.full => Count(c) = MaxOps
    BY <1>1, AddWhenFull
  <2>q. QED BY <1>1, <2>1, <2>2, CountInRange, Fields, MaxOpsAssumption
<1>5. c.buf_len \in Nat
  BY <1>3, <1>4 DEF IsRunning
<1>6. c \in Buffers
  <2>1. e \in AnyEntry
    BY DEF Entries, AnyEntry
  <2>2. /\ b.entry \in [Slots -> AnyEntry]
        /\ b.in_offs \in Slots
        /\ b.out_offs \in Slots
        /\ b.full \in BOOLEAN
    BY <1>1, Fields
  <2>3. Advance(b.in_offs) \in Slots
    BY <2>2, AdvanceWraps
  <2>4. [b.entry EXCEPT ![b.in_offs] = e] \in [Slots -> AnyEntry] /\ b.entry[b.in_offs] \in AnyEntry
    BY <2>1, <2>2
  <2>5. (b.full \/ Advance(b.in_offs) = b.out_offs) \in BOOLEAN
    OBVIOUS
  <2>6. b.buf_len + e.size - (IF b.full THEN b.entry[b.in_offs].size ELSE 0) \in Nat
    BY <1>5 DEF AddEntry, LengthAfter, OutAfter, FullAfter
  <2>q. QED
    BY <2>2, <2>3, <2>4, <2>5, <2>6 DEF AddEntry, LengthAfter, OutAfter, FullAfter, Buffers
<1> HIDE DEF c
<1>7. BufLenIsTotalOf(c)
  <2>1. Running(c)[Count(c)] = Q[Count(c)]
    BY <1>2, <1>3, <1>4, <1>6, RunningSums
  <2>q. QED BY <1>3, <2>1 DEF BufLenIsTotalOf
<1>q. QED
  BY <1>2, <1>6, <1>7 DEF Good, c

-----------------------------------------------------------------------------
(***************************************************************************)
(* Refinement.  LogOf is a sequence of entries, empty at first, and an add *)
(* to the ring is a push on the log.                                       *)
(***************************************************************************)
LEMMA LogOfType ==
    ASSUME NEW b \in Buffers, RingIsWellFormed(b)
    PROVE  LogOf(b) \in Seq(AnyEntry) /\ Len(LogOf(b)) = Count(b)
<1>1. Count(b) \in 0 .. MaxOps /\ MaxOps \in Nat
  BY CountInRange, MaxOpsAssumption
<1>2. \A j \in 1 .. Count(b) : Nth(b, j - 1) \in AnyEntry
  <2> SUFFICES ASSUME NEW j \in 1 .. Count(b)
               PROVE  Nth(b, j - 1) \in AnyEntry
    OBVIOUS
  <2>1. j - 1 \in 0 .. MaxOps
    BY <1>1
  <2>q. QED BY <2>1, NthType
<1>3. LogOf(b) \in [1 .. Count(b) -> AnyEntry]
  BY <1>2 DEF LogOf
<1>q. QED
  BY <1>1, <1>3

Pushed(l, e) == IF Len(l) < MaxOps THEN Append(l, e) ELSE Append(Tail(l), e)

LEMMA AddPushes ==
    ASSUME NEW b, Good(b), NEW e \in Entries
    PROVE  LogOf(AddEntry(b, e)) = Pushed(LogOf(b), e)
<1> DEFINE c == AddEntry(b, e)
           l == LogOf(b)
           m == LogOf(c)
<1>1. b \in Buffers /\ RingIsWellFormed(b) /\ b.full \in BOOLEAN
  BY Fields DEF Good
<1>2. c \in Buffers /\ RingIsWellFormed(c)
  BY AddKeepsGood DEF Good
<1>3. l \in Seq(AnyEntry) /\ Len(l) = Count(b) /\ m \in Seq(AnyEntry) /\ Len(m) = Count(c)
  BY <1>1, <1>2, LogOfType
<1>4. Count(b) \in 0 .. MaxOps /\ MaxOps \in Nat /\ MaxOps > 0
  BY <1>1, CountInRange, MaxOpsAssumption
<1>5. e \in AnyEntry
  BY DEF Entries, AnyEntry
<1>6. \A j \in 1 .. Count(b) : l[j] = Nth(b, j - 1)
  BY DEF LogOf
<1>7. \A j \in 1 .. Count(c) : m[j] = Nth(c, j - 1)
  BY DEF LogOf
<1>8. CASE ~b.full
  <2>1. /\ Count(c) = Count(b) + 1
        /\ \A j \in 0 .. Count(b) - 1 : Nth(c, j) = Nth(b, j)
        /\ Nth(c, Count(b)) = e
        /\ Count(b) < MaxOps
    BY <1>1, <1>8, AddWhenNotFull, CountInRange
  <2> HIDE DEF c, l, m
  <2>2. /\ Append(l, e) \in Seq(AnyEntry)
        /\ Len(Append(l, e)) = Count(b) + 1
        /\ \A j \in 1 .. Count(b) : Append(l, e)[j] = l[j]
        /\ Append(l, e)[Count(b) + 1] = e
    BY <1>3, <1>4, <1>5
  <2>3. \A j \in 1 .. Count(c) : m[j] = Append(l, e)[j]
    <3> SUFFICES ASSUME NEW j \in 1 .. Count(c)
                 PROVE  m[j] = Append(l, e)[j]
      OBVIOUS
    <3>1. CASE j = Count(b) + 1
      <4>1. j - 1 = Count(b)
        BY <1>4, <3>1
      <4>q. QED BY <1>7, <2>1, <2>2, <3>1, <4>1
    <3>2. CASE j # Count(b) + 1
      <4>1. j \in 1 .. Count(b) /\ j - 1 \in 0 .. Count(b) - 1
        BY <1>4, <2>1, <3>2
      <4>q. QED BY <1>6, <1>7, <2>1, <2>2, <4>1
    <3>q. QED BY <3>1, <3>2
  <2>4. m = Append(l, e)
    BY <1>3, <2>1, <2>2, <2>3, SeqEqual
  <2>5. Pushed(l, e) = Append(l, e)
    BY <1>3, <2>1 DEF Pushed
  <2>q. QED BY <2>4, <2>5 DEF c, l, m
<1>9. CASE b.full
  <2>1. /\ Count(c) = MaxOps
        /\ \A j \in 0 .. MaxOps - 2 : Nth(c, j) = Nth(b, j + 1)
        /\ Nth(c, MaxOps - 1) = e
        /\ Count(b) = MaxOps
    BY <1>1, <1>9, AddWhenFull, CountInRange
  <2> HIDE DEF c, l, m
  <2>2. /\ Tail(l) \in Seq(AnyEntry)
        /\ Len(Tail(l)) = MaxOps - 1
        /\ \A j \in 1 .. MaxOps - 1 : Tail(l)[j] = l[j + 1]
    BY <1>3, <1>4, <2>1
  <2>3. /\ Append(Tail(l), e) \in Seq(AnyEntry)
        /\ Len(Append(Tail(l), e)) = MaxOps
        /\ \A j \in 1 .. MaxOps - 1 : Append(Tail(l), e)[j] = Tail(l)[j]
        /\ Append(Tail(l), e)[MaxOps] = e
    BY <1>4, <1>5, <2>2
  <2>4. \A j \in 1 .. Count(c) : m[j] = Append(Tail(l), e)[j]
    <3> SUFFICES ASSUME NEW j \in 1 .. MaxOps
                 PROVE  m[j] = Append(Tail(l), e)[j]
      BY <2>1
    <3>0. m[j] = Nth(c, j - 1)
      BY <1>7, <2>1
    <3>1. CASE j = MaxOps
      BY <2>1, <2>3, <3>0, <3>1
    <3>2. CASE j # MaxOps
      <4>1. j \in 1 .. MaxOps - 1 /\ j - 1 \in 0 .. MaxOps - 2 /\ j + 1 \in 1 .. Count(b)
            /\ (j - 1) + 1 = j /\ (j + 1) - 1 = j
        BY <1>4, <2>1, <3>2
      <4>2. Nth(c, j - 1) = Nth(b, j)
        BY <2>1, <4>1
      <4>3. l[j + 1] = Nth(b, j)
        BY <1>6, <4>1
      <4>q. QED BY <2>2, <2>3, <3>0, <4>1, <4>2, <4>3
    <3>q. QED BY <3>1, <3>2
  <2>5. m = Append(Tail(l), e)
    BY <1>3, <2>1, <2>3, <2>4, SeqEqual
  <2>6. Pushed(l, e) = Append(Tail(l), e)
    BY <1>3, <1>4, <2>1 DEF Pushed
  <2>q. QED BY <2>5, <2>6 DEF c, l, m
<1>q. QED
  BY <1>1, <1>8, <1>9

-----------------------------------------------------------------------------
(***************************************************************************)
(* One step of the walk: the next index is the slot of the next entry, and *)
(* it is in_offs exactly behind the last one.                              *)
(***************************************************************************)
LEMMA WalkStep ==
    ASSUME NEW b \in Buffers, RingIsWellFormed(b), NEW k \in 0 .. Count(b) - 1
    PROVE  /\ SlotOf(b, k) \in Slots
           /\ Advance(SlotOf(b, k)) = SlotOf(b, k + 1)
           /\ SlotOf(b, k + 1) = b.in_offs <=> k + 1 = Count(b)
           /\ b.entry[SlotOf(b, k)].buffptr # NULL
<1> DEFINE o == b.out_offs
<1>1. /\ o \in Slots /\ b.in_offs \in Slots /\ b.full \in BOOLEAN
      /\ MaxOps \in Nat /\ MaxOps > 0
  BY Fields, MaxOpsAssumption
<1>2. /\ Count(b) \in 0 .. MaxOps
      /\ b.full => Count(b) = MaxOps
      /\ ~b.full => Count(b) = b.in_offs
  BY CountInRange
<1>3. k \in 0 .. MaxOps /\ k + 1 \in 0 .. MaxOps /\ k < MaxOps
  BY <1>1, <1>2
<1>4. SlotOf(b, k) \in Slots /\ SlotOf(b, k) = IF o + k < MaxOps THEN o + k ELSE o + k - MaxOps
  BY <1>1, <1>3, SlotOfWraps
<1>5. /\ SlotOf(b, k + 1) \in Slots
      /\ SlotOf(b, k + 1) = IF o + (k + 1) < MaxOps THEN o + (k + 1) ELSE o + (k + 1) - MaxOps
  BY <1>1, <1>3, SlotOfWraps
<1>6. /\ Advance(SlotOf(b, k)) = IF SlotOf(b, k) + 1 = MaxOps THEN 0 ELSE SlotOf(b, k) + 1
  BY <1>4, AdvanceWraps
<1>7. b.full => b.in_offs = o
  BY DEF RingIsWellFormed
<1>8. ~b.full => o = 0
  BY DEF RingIsWellFormed
<1>9. o \in Nat /\ o < MaxOps /\ b.in_offs \in Nat /\ b.in_offs < MaxOps /\ k \in Nat
  BY <1>1, <1>3 DEF Slots
<1> HIDE DEF o
<1>10. Advance(SlotOf(b, k)) = SlotOf(b, k + 1)
  BY <1>1, <1>3, <1>4, <1>5, <1>6, <1>9
<1>11. SlotOf(b, k + 1) = b.in_offs <=> k + 1 = Count(b)
  <2>1. CASE b.full
    BY <1>1, <1>2, <1>3, <1>5, <1>7, <1>9, <2>1
  <2>2. CASE ~b.full
    BY <1>1, <1>2, <1>3, <1>5, <1>8, <1>9, <2>2
  <2>q. QED BY <1>1, <2>1, <2>2
<1>12. b.full \/ SlotOf(b, k) < b.in_offs
  <2>1. CASE ~b.full
    BY <1>1, <1>2, <1>3, <1>4, <1>8, <1>9, <2>1
  <2>q. QED BY <1>1, <2>1
<1>13. b.entry[SlotOf(b, k)].buffptr # NULL
  BY <1>4, <1>12 DEF RingIsWellFormed
<1>q. QED
  BY <1>4, <1>10, <1>11, <1>13

(***************************************************************************)
(* What FindEntry finds: a byte of an occupied slot.                       *)
(***************************************************************************)
LEMMA FindEntryHits ==
    ASSUME NEW b \in Buffers, RingIsWellFormed(b), NEW pos \in Nat,
           FindEntry(b, pos) # NotFound
    PROVE  /\ FindEntry(b, pos).slot \in Slots
           /\ b.entry[FindEntry(b, pos).slot].buffptr # NULL
           /\ FindEntry(b, pos).offset \in Nat
           /\ FindEntry(b, pos).offset < b.entry[FindEntry(b, pos).slot].size
<1> DEFINE P == Running(b)
           hits == {j \in 0 .. Count(b) - 1 : pos + 1 <= P[j + 1]}
           m == Min(hits)
<1>1. /\ Count(b) \in 0 .. MaxOps /\ MaxOps \in Nat
      /\ P \in [0 .. Count(b) -> Nat] /\ P[0] = 0
      /\ \A j \in 0 .. Count(b) - 1 : P[j + 1] = P[j] + Nth(b, j).size
  BY CountInRange, RunningSums, MaxOpsAssumption DEF IsRunning
<1>2. hits # {} /\ FindEntry(b, pos) = [slot |-> SlotOf(b, m), offset |-> pos - P[m]]
  BY DEF FindEntry
<1>3. m \in hits /\ \A j \in hits : m <= j
  <2>1. hits \in SUBSET Nat
    BY <1>1
  <2>2. \E x \in hits : \A j \in hits : x <= j
    BY <1>2, <2>1, LeastElement
  <2>q. QED BY <2>2 DEF Min
<1> HIDE DEF m
<1>4. m \in 0 .. Count(b) - 1 /\ m \in 0 .. MaxOps /\ pos + 1 <= P[m + 1]
  BY <1>1, <1>3
<1>5. Nth(b, m).size \in Nat /\ P[m] \in Nat /\ P[m + 1] = P[m] + Nth(b, m).size
  BY <1>1, <1>4, NthType
<1>6. P[m] <= pos
  <2>1. CASE m = 0
    BY <1>1, <2>1
  <2>2. CASE m > 0
    <3>1. m - 1 \in 0 .. Count(b) - 1 /\ m - 1 \notin hits /\ (m - 1) + 1 = m
      BY <1>1, <1>3, <1>4, <2>2
    <3>q. QED BY <1>5, <3>1
  <2>q. QED BY <1>1, <1>4, <2>1, <2>2
<1>7. SlotOf(b, m) \in Slots /\ b.entry[SlotOf(b, m)].buffptr # NULL
  BY <1>4, WalkStep
<1>8. b.entry[SlotOf(b, m)].size = Nth(b, m).size
  BY DEF Nth
<1>9. /\ FindEntry(b, pos).slot = SlotOf(b, m)
      /\ FindEntry(b, pos).offset = pos - P[m]
  BY <1>2
<1>10. pos - P[m] \in Nat /\ pos - P[m] < Nth(b, m).size
  BY <1>4, <1>5, <1>6
<1>q. QED
  BY <1>7, <1>8, <1>9, <1>10

(***************************************************************************)
(* The byte at pos is in the k-th entry exactly if the entries in front of *)
(* it are not longer than pos and with it they are; the bytes that are in  *)
(* some entry are those below the total.                                   *)
(***************************************************************************)
LEMMA FindEntryIs ==
    ASSUME NEW b \in Buffers, RingIsWellFormed(b), NEW pos \in Nat,
           NEW k \in 0 .. Count(b) - 1, Running(b)[k] <= pos, pos < Running(b)[k + 1]
    PROVE  FindEntry(b, pos) = [slot |-> SlotOf(b, k), offset |-> pos - Running(b)[k]]
<1> DEFINE n == Count(b)
           P == Running(b)
           hits == {j \in 0 .. n - 1 : pos + 1 <= P[j + 1]}
<1>1. /\ n \in Nat /\ P \in [0 .. n -> Nat]
      /\ \A i, j \in 0 .. n : i <= j => P[i] <= P[j]
  BY CountInRange, RunningSums, MaxOpsAssumption DEF IsRunning
<1>2. FindEntry(b, pos) = IF hits = {} THEN NotFound
                          ELSE [slot |-> SlotOf(b, Min(hits)), offset |-> pos - P[Min(hits)]]
  BY DEF FindEntry
<1>3. k \in 0 .. n - 1 /\ P[k] <= pos /\ pos < P[k + 1]
  OBVIOUS
<1> HIDE DEF n, P
<1>4. k \in hits
  <2>1. P[k + 1] \in Nat
    BY <1>1, <1>3
  <2>q. QED BY <1>3, <2>1
<1>5. ASSUME NEW j \in hits PROVE k <= j
  <2>1. CASE j < k
    <3>1. j + 1 \in 0 .. n /\ k \in 0 .. n /\ j + 1 <= k /\ pos + 1 <= P[j + 1]
      BY <1>1, <1>3, <2>1
    <3>2. P[j + 1] <= P[k] /\ P[k] \in Nat /\ P[j + 1] \in Nat
      BY <1>1, <3>1
    <3>q. QED BY <1>3, <3>1, <3>2
  <2>q. QED BY <1>1, <1>3, <2>1
<1>6. Min(hits) = k
  <2>1. Min(hits) \in hits /\ \A y \in hits : Min(hits) <= y
    BY <1>4, <1>5 DEF Min
  <2>2. Min(hits) <= k /\ k <= Min(hits) /\ Min(hits) \in Int /\ k \in Int
    BY <1>1, <1>4, <1>5, <2>1
  <2>q. QED BY <2>2
<1>q. QED
  BY <1>2, <1>4, <1>6 DEF P

LEMMA FindEntryIsNothing ==
    ASSUME NEW b \in Buffers, RingIsWellFormed(b), NEW pos \in Nat,
           Running(b)[Count(b)] <= pos
    PROVE  FindEntry(b, pos) = NotFound
<1> DEFINE n == Count(b)
           P == Running(b)
           hits == {j \in 0 .. n - 1 : pos + 1 <= P[j + 1]}
<1>1. /\ n \in Nat /\ P \in [0 .. n -> Nat]
      /\ \A i, j \in 0 .. n : i <= j => P[i] <= P[j]
  BY CountInRange, RunningSums, MaxOpsAssumption DEF IsRunning
<1>2. P[n] <= pos
  OBVIOUS
<1>3. hits = {} => FindEntry(b, pos) = NotFound
  BY DEF FindEntry
<1> HIDE DEF n, P
<1>4. ASSUME NEW j \in hits PROVE FALSE
  <2>1. j + 1 \in 0 .. n /\ n \in 0 .. n /\ j + 1 <= n /\ pos + 1 <= P[j + 1]
    BY <1>1
  <2>2. P[j + 1] <= P[n] /\ P[n] \in Nat /\ P[j + 1] \in Nat
    BY <1>1, <2>1
  <2>q. QED BY <1>2, <2>1, <2>2
<1>q. QED
  BY <1>3, <1>4

LEMMA EveryByteIsInAnEntry ==
    ASSUME NEW b \in Buffers, RingIsWellFormed(b), NEW pos \in Nat,
           pos < Running(b)[Count(b)]
    PROVE  \E k \in 0 .. Count(b) - 1 : Running(b)[k] <= pos /\ pos < Running(b)[k + 1]
<1> DEFINE n == Count(b)
           P == Running(b)
           above == {j \in 0 .. n : pos < P[j]}
<1>1. /\ n \in Nat /\ P \in [0 .. n -> Nat] /\ P[0] = 0 /\ pos < P[n]
  BY CountInRange, RunningSums, MaxOpsAssumption DEF IsRunning
<1> HIDE DEF n, P
<1>2. n \in above /\ above \in SUBSET Nat
  BY <1>1
<1>3. PICK m \in above : \A j \in above : m <= j
  BY <1>2, LeastElement
<1>4. m # 0
  BY <1>1
<1>5. m - 1 \in 0 .. n - 1 /\ (m - 1) + 1 = m /\ m - 1 \in 0 .. n
  BY <1>1, <1>4
<1>6. ~ (pos < P[m - 1])
  <2>1. m - 1 \notin above
    BY <1>3, <1>5
  <2>q. QED BY <1>5, <2>1
<1>7. P[m - 1] <= pos
  BY <1>1, <1>5, <1>6
<1>q. QED
  BY <1>5, <1>7 DEF n, P
=============================================================================
