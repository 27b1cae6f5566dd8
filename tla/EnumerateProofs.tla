-------------------------- MODULE EnumerateProofs --------------------------
(***************************************************************************)
(* Lemmas the proofs about sequences share.  A recursive definition is a   *)
(* CHOOSE: that there is a function to choose, and what it is, is shown by *)
(* induction, stated for a set of numbers since a lemma cannot be given a  *)
(* predicate.                                                              *)
(***************************************************************************)
EXTENDS Enumerate, FiniteSetTheorems, SequenceTheorems, WellFoundedInduction, TLAPS

\* Induction.
LEMMA Inductive ==
  ASSUME NEW T, 0 \in T, \A n \in Nat : n \in T => n + 1 \in T
  PROVE  Nat \subseteq T
  <1> DEFINE R == OpToRel(<, Nat)
             U == Nat \ T
  <1>1. IsWellFoundedOn(R, Nat)
    BY NatLessThanWellFounded, Zenon
  <1>2. \A x, y \in Nat : x < y => <<x, y>> \in R
    BY DEF OpToRel
  <1> HIDE DEF R
  <1>3. CASE U # {}
    <2> HIDE DEF U
    <2>1. U \subseteq Nat
      BY DEF U
    <2>2. PICK x \in U : \A y \in U : ~ (<<y, x>> \in R)
      BY <1>1, <1>3, <2>1, WFMin
    <2>3. x \in Nat /\ x \notin T
      BY DEF U
    <2>4. x # 0 /\ x - 1 \in Nat
      BY <2>3
    <2>5. x - 1 \in U /\ x - 1 < x
      BY <2>3, <2>4 DEF U
    <2> QED
      BY <1>2, <2>1, <2>2, <2>5
  <1> QED
    BY <1>3

\* Some number of a sequence is the greatest.
LEMMA HasGreatest ==
  ASSUME NEW n \in Nat, n >= 1, NEW f \in [1..n -> Nat]
  PROVE  \E m \in 1..n : \A i \in 1..n : f[i] <= f[m]
  <1> DEFINE T == {k \in Nat : k >= 1 /\ k <= n =>
                                   \E m \in 1..k : \A i \in 1..k : f[i] <= f[m]}
  <1>1. 0 \in T
    OBVIOUS
  <1>2. ASSUME NEW k \in Nat, k \in T PROVE k + 1 \in T
    <2> SUFFICES ASSUME k + 1 <= n
                 PROVE  \E m \in 1..(k + 1) : \A i \in 1..(k + 1) : f[i] <= f[m]
      OBVIOUS
    <2>1. CASE k = 0
      <3>1. \A i \in 1..(k + 1) : f[i] <= f[1]
        BY <2>1
      <3> QED
        BY <2>1, <3>1
    <2>2. CASE k >= 1
      <3>1. PICK m \in 1..k : \A i \in 1..k : f[i] <= f[m]
        BY <1>2, <2>2
      <3>2. \A i \in 1..(k + 1) : i \in 1..k \/ i = k + 1
        OBVIOUS
      <3>3. \A i \in 1..(k + 1) : f[i] \in Nat
        OBVIOUS
      <3>4. CASE f[k + 1] <= f[m]
        <4>1. \A i \in 1..(k + 1) : f[i] <= f[m]
          BY <3>1, <3>2, <3>4
        <4>2. m \in 1..(k + 1)
          BY <3>1
        <4> QED
          BY <4>1, <4>2
      <3>5. CASE f[m] <= f[k + 1]
        <4>1. \A i \in 1..(k + 1) : f[i] <= f[k + 1]
          BY <3>1, <3>2, <3>3, <3>5
        <4>2. k + 1 \in 1..(k + 1)
          BY <2>2
        <4> QED
          BY <4>1, <4>2
      <3> QED
        BY <3>3, <3>4, <3>5
    <2> QED
      BY <2>1, <2>2
  <1>3. n \in T
    <2> HIDE DEF T
    <2> QED
      BY <1>1, <1>2, Inductive
  <1> QED
    BY <1>3

\* The greatest of the numbers up to n, and of a set that goes no further.
LEMMA MaxIs ==
  ASSUME NEW n \in Nat, NEW T \in SUBSET (1..(n + 1)), n + 1 \in T
  PROVE  Max(T) = n + 1 /\ T \ {n + 1} \in SUBSET (1..n)
  <1> DEFINE IsMax(x) == \A y \in T : x >= y
  <1>1. \A x \in T : x \in Int /\ x <= n + 1
    OBVIOUS
  <1>2. IsMax(n + 1)
    BY <1>1
  <1>3. Max(T) = CHOOSE x \in T : IsMax(x)
    BY DEF Max
  <1>4. Max(T) \in T /\ IsMax(Max(T))
    BY <1>2, <1>3
  <1>5. Max(T) = n + 1
    <2>1. Max(T) \in Int /\ Max(T) <= n + 1 /\ Max(T) >= n + 1
      BY <1>1, <1>4
    <2> QED
      BY <2>1
  <1>6. T \ {n + 1} \in SUBSET (1..n)
    OBVIOUS
  <1> QED
    BY <1>5, <1>6

\* The greatest member of a set of numbers is in it.
LEMMA MaxIn == ASSUME NEW n \in Nat, NEW S \in SUBSET (1..n), S # {} PROVE Max(S) \in S
  <1> DEFINE T == {k \in Nat : \A U \in SUBSET (1..k) : U # {} => Max(U) \in U}
  <1>1. 0 \in T
    <2>1. \A U \in SUBSET (1..0) : U = {}
      OBVIOUS
    <2> QED
      BY <2>1
  <1>2. ASSUME NEW k \in Nat, k \in T PROVE k + 1 \in T
    <2>1. ASSUME NEW U \in SUBSET (1..(k + 1)), U # {} PROVE Max(U) \in U
      <3>1. CASE k + 1 \in U
        BY <3>1, MaxIs
      <3>2. CASE k + 1 \notin U
        <4>1. U \in SUBSET (1..k)
          BY <3>2
        <4> QED
          BY <1>2, <2>1, <4>1
      <3> QED
        BY <3>1, <3>2
    <2> QED
      BY <2>1
  <1>3. n \in T
    <2> HIDE DEF T
    <2> QED
      BY <1>1, <1>2, Inductive
  <1> QED
    BY <1>3

\* The numbers up to k, as the next one of them is taken away.
LEMMA Prefix ==
  ASSUME NEW n \in Nat, NEW k \in 1..n
  PROVE  /\ 1..k \in SUBSET (1..n) /\ 1..k # {} /\ Max(1..k) = k
         /\ (1..k) \ {k} = 1..(k - 1)
  <1>1. k - 1 \in Nat /\ (k - 1) + 1 = k /\ k \in 1..k
    OBVIOUS
  <1>2. Max(1..k) = k
    BY <1>1, MaxIs
  <1>3. (1..k) \ {k} = 1..(k - 1)
    OBVIOUS
  <1> QED
    BY <1>1, <1>2, <1>3

\* A fold over the numbers up to n has a function to choose, for any step.
Folds(it, B, base, G, n) ==
    /\ it \in [SUBSET (1..n) -> B]
    /\ \A T \in SUBSET (1..n) :
           it[T] = IF T = {} THEN base ELSE G[<<it[T \ {Max(T)}], Max(T)>>]

\* There is such a function.
LEMMA FoldExists ==
  ASSUME NEW N \in Nat, NEW B, NEW base \in B, NEW G \in [B \X (1..N) -> B]
  PROVE  \E it : Folds(it, B, base, G, N)
  <1> DEFINE T == {n \in Nat : n <= N => \E it : Folds(it, B, base, G, n)}
  <1>1. 0 \in T
    <2> DEFINE it == [S \in SUBSET (1..0) |-> base]
    <2>1. \A S \in SUBSET (1..0) : S = {}
      OBVIOUS
    <2>2. Folds(it, B, base, G, 0)
      BY <2>1 DEF Folds
    <2> QED
      BY <2>2
  <1>2. ASSUME NEW n \in Nat, n \in T PROVE n + 1 \in T
    <2> SUFFICES ASSUME n + 1 <= N PROVE \E it : Folds(it, B, base, G, n + 1)
      OBVIOUS
    <2>1. PICK old : Folds(old, B, base, G, n)
      BY <1>2
    <2> DEFINE it == [S \in SUBSET (1..(n + 1)) |->
                        IF n + 1 \in S THEN G[<<old[S \ {n + 1}], n + 1>>] ELSE old[S]]
    <2>2. ASSUME NEW S \in SUBSET (1..(n + 1)), n + 1 \in S
          PROVE  /\ Max(S) = n + 1 /\ S \ {n + 1} \in SUBSET (1..n)
                 /\ S \ {n + 1} \in SUBSET (1..(n + 1)) /\ n + 1 \notin S \ {n + 1}
                 /\ old[S \ {n + 1}] \in B
      BY <2>1, <2>2, MaxIs DEF Folds
    <2>3. ASSUME NEW S \in SUBSET (1..(n + 1)), n + 1 \notin S
          PROVE  S \in SUBSET (1..n) /\ old[S] \in B
      <3>1. S \in SUBSET (1..n)
        BY <2>3
      <3> QED
        BY <2>1, <3>1 DEF Folds
    <2>4. it \in [SUBSET (1..(n + 1)) -> B]
      <3>1. ASSUME NEW S \in SUBSET (1..(n + 1)), n + 1 \in S
            PROVE  G[<<old[S \ {n + 1}], n + 1>>] \in B
        <4>1. n + 1 \in 1..N /\ old[S \ {n + 1}] \in B
          BY <2>2, <3>1
        <4> QED
          BY <4>1
      <3> QED
        BY <2>3, <3>1
    <2>5. ASSUME NEW S \in SUBSET (1..(n + 1))
          PROVE  it[S] = IF S = {} THEN base ELSE G[<<it[S \ {Max(S)}], Max(S)>>]
      <3>1. CASE n + 1 \in S
        <4>1. it[S \ {n + 1}] = old[S \ {n + 1}]
          BY <2>2, <3>1
        <4> QED
          BY <2>2, <3>1, <4>1
      <3>2. CASE n + 1 \notin S
        <4>1. it[S] = old[S] /\ S \in SUBSET (1..n)
          BY <2>3, <3>2
        <4>2. old[S] = IF S = {} THEN base ELSE G[<<old[S \ {Max(S)}], Max(S)>>]
          BY <2>1, <4>1 DEF Folds
        <4>3. it[S \ {Max(S)}] = old[S \ {Max(S)}]
          BY <3>2
        <4> QED
          BY <4>1, <4>2, <4>3
      <3> QED
        BY <3>1, <3>2
    <2>6. Folds(it, B, base, G, n + 1)
      <3> HIDE DEF it
      <3> QED
        BY <2>4, <2>5 DEF Folds
    <2> QED
      BY <2>6
  <1>3. N \in T
    <2> HIDE DEF T
    <2> QED
      BY <1>1, <1>2, Inductive
  <1> QED
    BY <1>3

\* What InOrder chooses, one number after the other.
LEMMA InOrderUnfolds ==
  ASSUME NEW K, NEW n \in Nat
  PROVE  \E it : /\ InOrder(K, n) = it[n] /\ it[0] = <<>>
                  /\ \A k \in 1..n : it[k] = IF k \in K THEN Append(it[k - 1], k) ELSE it[k - 1]
  <1> DEFINE seq == [i \in 1..n |-> i]
             Rec(it) == [s \in SUBSET (DOMAIN seq) |->
                           IF s = {} THEN <<>>
                           ELSE IF seq[Max(s)] \in K
                                THEN Append(it[s \ {Max(s)}], seq[Max(s)])
                                ELSE it[s \ {Max(s)}]]
             it == CHOOSE f : f = Rec(f)
  <1>1. InOrder(K, n) = it[DOMAIN seq]
    BY DEF InOrder, FoldLeft, MapThenFoldSet
  <1>2. DOMAIN seq = 1..n /\ \A k \in 1..n : seq[k] = k
    OBVIOUS
  <1>3. \E f : f = Rec(f)
    <2> DEFINE B == Seq(Nat)
               G == [x \in B \X (1..n) |-> IF x[2] \in K THEN Append(x[1], x[2]) ELSE x[1]]
    <2>1. <<>> \in B /\ G \in [B \X (1..n) -> B]
      OBVIOUS
    <2>2. \A b \in B, k \in 1..n : G[<<b, k>>] = IF k \in K THEN Append(b, k) ELSE b
      OBVIOUS
    <2> HIDE DEF B, G
    <2>3. PICK f : Folds(f, B, <<>>, G, n)
      BY <2>1, FoldExists
    <2>4. ASSUME NEW S \in SUBSET (1..n)
          PROVE  f[S] = IF S = {} THEN <<>>
                        ELSE IF Max(S) \in K THEN Append(f[S \ {Max(S)}], Max(S))
                             ELSE f[S \ {Max(S)}]
      <3>1. CASE S = {}
        BY <2>3, <3>1 DEF Folds
      <3>2. CASE S # {}
        <4>1. Max(S) \in 1..n /\ S \ {Max(S)} \in SUBSET (1..n)
          BY <3>2, MaxIn
        <4>2. f[S \ {Max(S)}] \in B /\ f[S] = G[<<f[S \ {Max(S)}], Max(S)>>]
          BY <2>3, <3>2, <4>1 DEF Folds
        <4> QED
          BY <2>2, <3>2, <4>1, <4>2
      <3> QED
        BY <3>1, <3>2
    <2>5. f = [S \in SUBSET (1..n) |-> f[S]]
      BY <2>3 DEF Folds
    <2>6. \A S \in SUBSET (1..n) : S # {} => seq[Max(S)] = Max(S)
      BY <1>2, MaxIn
    <2>7. f = Rec(f)
      BY <1>2, <2>4, <2>5, <2>6
    <2> QED
      BY <2>7
  <1>4. it = Rec(it)
    <2> HIDE DEF Rec
    <2> QED
      BY <1>3
  <1> HIDE DEF it
  <1> DEFINE at == [k \in 0..n |-> it[1..k]]
  <1>5. at[0] = <<>>
    <2>1. 1..0 = {} /\ {} \in SUBSET (DOMAIN seq)
      OBVIOUS
    <2> QED
      BY <1>4, <2>1
  <1>6. ASSUME NEW k \in 1..n
        PROVE  at[k] = IF k \in K THEN Append(at[k - 1], k) ELSE at[k - 1]
    <2>1. /\ 1..k \in SUBSET (DOMAIN seq) /\ 1..k # {} /\ Max(1..k) = k /\ seq[k] = k
          /\ (1..k) \ {k} = 1..(k - 1)
      BY <1>2, Prefix
    <2>2. it[1..k] = IF k \in K THEN Append(it[1..(k - 1)], k) ELSE it[1..(k - 1)]
      <3>1. it[1..k] = IF seq[Max(1..k)] \in K
                       THEN Append(it[(1..k) \ {Max(1..k)}], seq[Max(1..k)])
                       ELSE it[(1..k) \ {Max(1..k)}]
        <4> HIDE DEF seq
        <4> QED
          BY <1>4, <2>1
      <3> QED
        BY <2>1, <3>1
    <2>3. at[k] = it[1..k] /\ at[k - 1] = it[1..(k - 1)]
      OBVIOUS
    <2> QED
      BY <2>2, <2>3
  <1>7. InOrder(K, n) = at[n]
    BY <1>1, <1>2
  <1> HIDE DEF at
  <1> QED
    BY <1>5, <1>6, <1>7

\* What is found up to 0, and up to the next number.
LEMMA InOrderSteps ==
  ASSUME NEW K, NEW n \in Nat
  PROVE  /\ InOrder(K, 0) = <<>>
         /\ InOrder(K, n + 1) = IF n + 1 \in K THEN Append(InOrder(K, n), n + 1)
                                ELSE InOrder(K, n)
  <1>1. PICK old : /\ InOrder(K, n) = old[n] /\ old[0] = <<>>
                   /\ \A k \in 1..n :
                        old[k] = IF k \in K THEN Append(old[k - 1], k) ELSE old[k - 1]
    BY InOrderUnfolds
  <1>2. PICK new : /\ InOrder(K, n + 1) = new[n + 1] /\ new[0] = <<>>
                   /\ \A k \in 1..(n + 1) :
                        new[k] = IF k \in K THEN Append(new[k - 1], k) ELSE new[k - 1]
    BY InOrderUnfolds
  <1>3. InOrder(K, 0) = <<>>
    BY InOrderUnfolds
  <1>4. old[n] = new[n]
    <2> DEFINE T == {k \in Nat : k <= n => old[k] = new[k]}
    <2>1. 0 \in T
      BY <1>1, <1>2
    <2>2. ASSUME NEW k \in Nat, k \in T PROVE k + 1 \in T
      <3>1. CASE k + 1 <= n
        <4>1. k + 1 \in 1..n /\ k + 1 \in 1..(n + 1) /\ (k + 1) - 1 = k /\ old[k] = new[k]
          BY <2>2, <3>1
        <4>2. old[k + 1] = IF k + 1 \in K THEN Append(old[k], k + 1) ELSE old[k]
          BY <1>1, <4>1
        <4>3. new[k + 1] = IF k + 1 \in K THEN Append(new[k], k + 1) ELSE new[k]
          BY <1>2, <4>1
        <4> QED
          BY <4>1, <4>2, <4>3
      <3> QED
        BY <3>1
    <2>3. n \in T
      <3> HIDE DEF T
      <3> QED
        BY <2>1, <2>2, Inductive
    <2> QED
      BY <2>3
  <1>5. n + 1 \in 1..(n + 1) /\ (n + 1) - 1 = n
    OBVIOUS
  <1> QED
    BY <1>1, <1>2, <1>3, <1>4, <1>5

\* InOrder finds every number of K up to n, once, and the lesser one first.
Ordered(K, n) ==
    /\ InOrder(K, n) \in Seq(1..n)
    /\ \A i, j \in DOMAIN InOrder(K, n) : i < j => InOrder(K, n)[i] < InOrder(K, n)[j]
    /\ \A i \in DOMAIN InOrder(K, n) : InOrder(K, n)[i] \in K
    /\ \A k \in 1..n : k \in K => \E i \in DOMAIN InOrder(K, n) : InOrder(K, n)[i] = k

\* By induction over n.
LEMMA InOrderIs ==
  ASSUME NEW K, NEW n \in Nat
  PROVE  Ordered(K, n)
  <1> DEFINE T == {m \in Nat : Ordered(K, m)}
  <1>1. 0 \in T
    <2>1. InOrder(K, 0) = <<>> /\ 1..0 = {}
      BY InOrderSteps
    <2>2. <<>> \in Seq(1..0) /\ DOMAIN <<>> = {}
      OBVIOUS
    <2>3. Ordered(K, 0)
      BY <2>1, <2>2, Zenon DEF Ordered
    <2> QED
      BY <2>3
  <1>2. ASSUME NEW m \in Nat, m \in T PROVE m + 1 \in T
    <2> DEFINE old == InOrder(K, m)
               new == InOrder(K, m + 1)
    <2>1. new = IF m + 1 \in K THEN Append(old, m + 1) ELSE old
      BY InOrderSteps
    <2>2. /\ old \in Seq(1..m)
          /\ \A i, j \in DOMAIN old : i < j => old[i] < old[j]
          /\ \A i \in DOMAIN old : old[i] \in K
          /\ \A k \in 1..m : k \in K => \E i \in DOMAIN old : old[i] = k
      BY <1>2 DEF Ordered
    <2> HIDE DEF old, new
    <2>3. old \in Seq(1..(m + 1)) /\ \A i \in DOMAIN old : old[i] \in 1..m
      BY <2>2
    <2>4. CASE m + 1 \in K
      <3>1. new = Append(old, m + 1)
        BY <2>1, <2>4
      <3>2. /\ new \in Seq(1..(m + 1)) /\ DOMAIN new = 1..(Len(old) + 1)
            /\ DOMAIN old = 1..Len(old) /\ Len(old) \in Nat
            /\ new[Len(old) + 1] = m + 1 /\ \A i \in DOMAIN old : new[i] = old[i]
        BY <2>3, <3>1
      <3>3. ASSUME NEW i \in DOMAIN new, NEW j \in DOMAIN new, i < j PROVE new[i] < new[j]
        <4>1. i \in DOMAIN old /\ new[i] = old[i] /\ old[i] \in 1..m
          BY <2>3, <3>2, <3>3
        <4>2. CASE j \in DOMAIN old
          BY <2>2, <3>2, <3>3, <4>1, <4>2
        <4>3. CASE j \notin DOMAIN old
          <5>1. new[j] = m + 1
            BY <3>2, <4>3
          <5> QED
            BY <4>1, <5>1
        <4> QED
          BY <4>2, <4>3
      <3>4. ASSUME NEW i \in DOMAIN new PROVE new[i] \in K
        <4>1. i \in DOMAIN old \/ i = Len(old) + 1
          BY <3>2
        <4> QED
          BY <2>2, <2>4, <3>2, <4>1
      <3>5. ASSUME NEW k \in 1..(m + 1), k \in K PROVE \E i \in DOMAIN new : new[i] = k
        <4>1. CASE k = m + 1
          BY <3>2, <4>1
        <4>2. CASE k # m + 1
          <5>1. k \in 1..m
            BY <4>2
          <5>2. PICK i \in DOMAIN old : old[i] = k
            BY <2>2, <3>5, <5>1
          <5> QED
            BY <3>2, <5>2
        <4> QED
          BY <4>1, <4>2
      <3>6. Ordered(K, m + 1)
        BY <3>2, <3>3, <3>4, <3>5 DEF Ordered, new
      <3> QED
        BY <3>6
    <2>5. CASE m + 1 \notin K
      <3>1. new = old
        BY <2>1, <2>5
      <3>2. \A k \in 1..(m + 1) : k \in K => k \in 1..m
        BY <2>5
      <3>3. /\ new \in Seq(1..(m + 1))
            /\ \A i, j \in DOMAIN new : i < j => new[i] < new[j]
            /\ \A i \in DOMAIN new : new[i] \in K
            /\ \A k \in 1..(m + 1) : k \in K => \E i \in DOMAIN new : new[i] = k
        BY <2>2, <2>3, <3>1, <3>2
      <3>4. Ordered(K, m + 1)
        BY <3>3 DEF Ordered, new
      <3> QED
        BY <3>4
    <2> QED
      BY <2>4, <2>5
  <1>3. n \in T
    <2> HIDE DEF T
    <2> QED
      BY <1>1, <1>2, Inductive
  <1> QED
    BY <1>3

\* What Total chooses, one term after the other.
LEMMA TotalUnfolds ==
  ASSUME NEW s \in Seq(Nat)
  PROVE  \E it : /\ Total(s) = it[Len(s)] /\ it[0] = 0
                  /\ \A k \in 1..Len(s) : it[k] = it[k - 1] + s[k]
  <1> DEFINE n == Len(s)
             Rec(it) == [S \in SUBSET (DOMAIN s) |->
                           IF S = {} THEN 0 ELSE it[S \ {Max(S)}] + s[Max(S)]]
             it == CHOOSE f : f = Rec(f)
  <1>1. Total(s) = it[DOMAIN s]
    BY DEF Total, FoldLeft, MapThenFoldSet
  <1>2. n \in Nat /\ DOMAIN s = 1..n /\ \A k \in 1..n : s[k] \in Nat
    OBVIOUS
  <1> HIDE DEF n
  <1>3. \E f : f = Rec(f)
    <2> DEFINE G == [x \in Nat \X (1..n) |-> x[1] + s[x[2]]]
    <2>1. G \in [Nat \X (1..n) -> Nat]
      BY <1>2
    <2>2. \A b \in Nat, k \in 1..n : G[<<b, k>>] = b + s[k]
      OBVIOUS
    <2> HIDE DEF G
    <2>3. PICK f : Folds(f, Nat, 0, G, n)
      BY <1>2, <2>1, FoldExists
    <2>4. ASSUME NEW S \in SUBSET (1..n)
          PROVE  f[S] = IF S = {} THEN 0 ELSE f[S \ {Max(S)}] + s[Max(S)]
      <3>1. CASE S = {}
        BY <2>3, <3>1 DEF Folds
      <3>2. CASE S # {}
        <4>1. Max(S) \in 1..n /\ S \ {Max(S)} \in SUBSET (1..n)
          BY <1>2, <3>2, MaxIn
        <4>2. f[S \ {Max(S)}] \in Nat /\ f[S] = G[<<f[S \ {Max(S)}], Max(S)>>]
          BY <2>3, <3>2, <4>1 DEF Folds
        <4> QED
          BY <2>2, <3>2, <4>1, <4>2
      <3> QED
        BY <3>1, <3>2
    <2>5. f = [S \in SUBSET (1..n) |-> f[S]]
      BY <2>3 DEF Folds
    <2>6. f = Rec(f)
      BY <1>2, <2>4, <2>5
    <2> QED
      BY <2>6
  <1>4. it = Rec(it)
    <2> HIDE DEF Rec
    <2> QED
      BY <1>3
  <1> HIDE DEF it
  <1> DEFINE at == [k \in 0..n |-> it[1..k]]
  <1>5. at[0] = 0
    <2>1. 1..0 = {} /\ {} \in SUBSET (DOMAIN s)
      OBVIOUS
    <2> QED
      BY <1>2, <1>4, <2>1
  <1>6. ASSUME NEW k \in 1..n
        PROVE  at[k] = at[k - 1] + s[k]
    <2>1. /\ 1..k \in SUBSET (DOMAIN s) /\ 1..k # {} /\ Max(1..k) = k
          /\ (1..k) \ {k} = 1..(k - 1)
      BY <1>2, Prefix
    <2>2. it[1..k] = it[1..(k - 1)] + s[k]
      BY <1>4, <2>1
    <2>3. at[k] = it[1..k] /\ at[k - 1] = it[1..(k - 1)]
      BY <1>2
    <2> QED
      BY <2>2, <2>3
  <1>7. Total(s) = at[n]
    BY <1>1, <1>2
  <1> HIDE DEF at
  <1> QED
    BY <1>5, <1>6, <1>7 DEF n

\* Greater terms have a greater sum.
LEMMA TotalGrows ==
  ASSUME NEW s \in Seq(Nat), NEW t \in Seq(Nat), Len(s) = Len(t),
         \A i \in 1..Len(s) : s[i] <= t[i]
  PROVE  Total(s) \in Nat /\ Total(t) \in Nat /\ Total(s) <= Total(t)
  <1> DEFINE n == Len(s)
  <1>1. PICK a : /\ Total(s) = a[n] /\ a[0] = 0
                 /\ \A k \in 1..n : a[k] = a[k - 1] + s[k]
    BY TotalUnfolds, SMTT(30)
  <1>2. PICK b : /\ Total(t) = b[n] /\ b[0] = 0
                 /\ \A k \in 1..n : b[k] = b[k - 1] + t[k]
    BY TotalUnfolds, SMTT(30)
  <1>3. n \in Nat /\ \A k \in 1..n : s[k] \in Nat /\ t[k] \in Nat /\ s[k] <= t[k]
    OBVIOUS
  <1> HIDE DEF n
  <1> DEFINE T == {k \in Nat : k <= n => a[k] \in Nat /\ b[k] \in Nat /\ a[k] <= b[k]}
  <1>4. 0 \in T
    BY <1>1, <1>2
  <1>5. ASSUME NEW k \in Nat, k \in T PROVE k + 1 \in T
    <2>1. ASSUME k + 1 <= n
          PROVE  a[k + 1] \in Nat /\ b[k + 1] \in Nat /\ a[k + 1] <= b[k + 1]
      <3>1. k + 1 \in 1..n /\ (k + 1) - 1 = k /\ a[k] \in Nat /\ b[k] \in Nat /\ a[k] <= b[k]
        BY <1>3, <1>5, <2>1
      <3>2. a[k + 1] = a[k] + s[k + 1] /\ b[k + 1] = b[k] + t[k + 1]
        BY <1>1, <1>2, <3>1
      <3>3. s[k + 1] \in Nat /\ t[k + 1] \in Nat /\ s[k + 1] <= t[k + 1]
        BY <1>3, <3>1
      <3> QED
        BY <3>1, <3>2, <3>3, SMTT(30)
    <2> QED
      BY <2>1
  <1>6. n \in T
    <2> HIDE DEF T
    <2> QED
      BY <1>3, <1>4, <1>5, Inductive
  <1> QED
    BY <1>1, <1>2, <1>3, <1>6

\* Two stretches of a sequence, one behind the other.
LEMMA Joined ==
  ASSUME NEW Elem, NEW s \in Seq(Elem), NEW a \in 0..Len(s), NEW b \in 0..Len(s), a <= b
  PROVE  SubSeq(s, 1, a) \o SubSeq(s, a + 1, b) = SubSeq(s, 1, b)
  <1> DEFINE u == SubSeq(s, 1, a)
             v == SubSeq(s, a + 1, b)
             w == SubSeq(s, 1, b)
  <1>1. Len(s) \in Nat /\ a \in Nat /\ b \in Nat
    OBVIOUS
  <1>2. u \in Seq(Elem) /\ Len(u) = a /\ \A i \in 1..a : u[i] = s[i]
    BY <1>1
  <1>3. v \in Seq(Elem) /\ Len(v) = b - a /\ \A i \in 1..(b - a) : v[i] = s[a + i]
    BY <1>1
  <1>4. w \in Seq(Elem) /\ Len(w) = b /\ \A i \in 1..b : w[i] = s[i]
    BY <1>1
  <1> HIDE DEF u, v, w
  <1>5. /\ u \o v \in Seq(Elem) /\ Len(u \o v) = Len(u) + Len(v)
        /\ \A i \in 1..(Len(u) + Len(v)) :
             (u \o v)[i] = IF i <= Len(u) THEN u[i] ELSE v[i - Len(u)]
    <2>1. u \in Seq(Elem) /\ v \in Seq(Elem)
      BY <1>2, <1>3
    <2> QED
      BY <2>1, ConcatProperties
  <1>6. Len(u) + Len(v) = b
    BY <1>1, <1>2, <1>3
  <1>7. ASSUME NEW i \in 1..b PROVE (u \o v)[i] = w[i]
    <2>1. (u \o v)[i] = IF i <= a THEN u[i] ELSE v[i - a]
      BY <1>2, <1>5, <1>6
    <2>2. CASE i <= a
      BY <1>1, <1>2, <1>4, <2>1, <2>2
    <2>3. CASE i > a
      <3>1. i - a \in 1..(b - a) /\ a + (i - a) = i /\ ~(i <= a)
        BY <1>1, <2>3
      <3> QED
        BY <1>3, <1>4, <2>1, <3>1
    <2>4. i <= a \/ i > a
      BY <1>1
    <2> QED
      BY <2>2, <2>3, <2>4, Zenon
  <1>8. u \o v = w
    <2>1. w \in Seq(Elem) /\ Len(u \o v) = Len(w) /\ \A i \in 1..Len(u \o v) : (u \o v)[i] = w[i]
      BY <1>4, <1>5, <1>6, <1>7
    <2> QED
      BY <1>5, <2>1, SeqEqual, Zenon
  <1> QED
    BY <1>8 DEF u, v, w

\* A sequence of sequences is flattened into s when at[i] is where the i-th
\* of them ends in it.
LEMMA Flattens ==
  ASSUME NEW Elem, NEW s \in Seq(Elem), NEW n \in Nat \ {0},
         NEW at \in [0..n -> 0..Len(s)], at[0] = 0,
         \A i \in 1..n : at[i - 1] <= at[i]
  PROVE  FlattenSeq([i \in 1..n |-> SubSeq(s, at[i - 1] + 1, at[i])]) = SubSeq(s, 1, at[n])
  <1> DEFINE parts == [i \in 1..n |-> SubSeq(s, at[i - 1] + 1, at[i])]
             Rec(f) == [i \in 1..Len(parts) |->
                          IF i = 1 THEN parts[i] ELSE f[i - 1] \o parts[i]]
             it == CHOOSE f : f = Rec(f)
             whole == [i \in 1..n |-> SubSeq(s, 1, at[i])]
  <1>1. parts \in Seq(Seq(Elem)) /\ Len(parts) = n
    OBVIOUS
  <1>2. FlattenSeq(parts) = it[n]
    <2> HIDE DEF parts
    <2>1. Len(parts) # 0
      BY <1>1
    <2>2. FlattenSeq(parts) = it[Len(parts)]
      BY <2>1 DEF FlattenSeq
    <2> QED
      BY <1>1, <2>2
  <1>3. whole = Rec(whole)
    <2>1. ASSUME NEW i \in 1..n
          PROVE  whole[i] = IF i = 1 THEN parts[i] ELSE whole[i - 1] \o parts[i]
      <3>1. at[i - 1] \in 0..Len(s) /\ at[i] \in 0..Len(s) /\ at[i - 1] <= at[i]
        OBVIOUS
      <3>2. whole[i] = SubSeq(s, 1, at[i]) /\ parts[i] = SubSeq(s, at[i - 1] + 1, at[i])
        OBVIOUS
      <3>3. CASE i = 1
        <4>1. at[i - 1] + 1 = 1
          BY <3>3
        <4> QED
          BY <3>2, <3>3, <4>1
      <3>4. CASE i # 1
        <4>1. whole[i - 1] = SubSeq(s, 1, at[i - 1])
            <5>1. i - 1 \in 1..n
              BY <3>4
            <5> QED
              BY <5>1
        <4>2. SubSeq(s, 1, at[i - 1]) \o SubSeq(s, at[i - 1] + 1, at[i]) = SubSeq(s, 1, at[i])
          BY <3>1, Joined
        <4> QED
          BY <3>2, <3>4, <4>1, <4>2
      <3> QED
        BY <3>3, <3>4
    <2>2. whole = [i \in 1..n |-> whole[i]]
      OBVIOUS
    <2> HIDE DEF parts, whole
    <2> QED
      BY <1>1, <2>1, <2>2
  <1>4. it = Rec(it)
    <2> HIDE DEF Rec
    <2> QED
      BY <1>3
  <1> HIDE DEF it
  <1>5. ASSUME NEW i \in 1..n
        PROVE  /\ whole[i] = IF i = 1 THEN parts[i] ELSE whole[i - 1] \o parts[i]
               /\ it[i] = IF i = 1 THEN parts[i] ELSE it[i - 1] \o parts[i]
    <2> HIDE DEF parts, whole
    <2> QED
      BY <1>1, <1>3, <1>4
  <1> HIDE DEF parts, Rec
  <1>6. it[n] = whole[n]
    <2> HIDE DEF whole
    <2> DEFINE T == {k \in Nat : k < n => it[k + 1] = whole[k + 1]}
    <2>1. 0 \in T
      BY <1>5
    <2>2. ASSUME NEW k \in Nat, k \in T PROVE k + 1 \in T
      <3>1. ASSUME k + 1 < n PROVE it[(k + 1) + 1] = whole[(k + 1) + 1]
        <4>1. /\ (k + 1) + 1 \in 1..n /\ (k + 1) + 1 # 1 /\ ((k + 1) + 1) - 1 = k + 1
              /\ it[k + 1] = whole[k + 1]
          BY <2>2, <3>1
        <4>2. /\ whole[(k + 1) + 1] = whole[k + 1] \o parts[(k + 1) + 1]
              /\ it[(k + 1) + 1] = it[k + 1] \o parts[(k + 1) + 1]
          BY <1>5, <4>1
        <4> QED
          BY <4>1, <4>2
      <3> QED
        BY <3>1
    <2>3. n - 1 \in T
      <3>1. n - 1 \in Nat
        OBVIOUS
      <3> HIDE DEF T
      <3> QED
        BY <2>1, <2>2, <3>1, Inductive
    <2> QED
      BY <2>3
  <1>7. whole[n] = SubSeq(s, 1, at[n])
    OBVIOUS
  <1>8. FlattenSeq(parts) = SubSeq(s, 1, at[n])
    BY <1>2, <1>6, <1>7
  <1> QED
    BY <1>8 DEF parts

\* Only the numbers up to n count.
LEMMA InOrderSame ==
  ASSUME NEW K, NEW L, NEW n \in Nat, \A k \in 1..n : k \in K <=> k \in L
  PROVE  InOrder(K, n) = InOrder(L, n)
  <1> DEFINE T == {m \in Nat : m <= n => InOrder(K, m) = InOrder(L, m)}
  <1>1. 0 \in T
    BY InOrderSteps
  <1>2. ASSUME NEW m \in Nat, m \in T PROVE m + 1 \in T
    <2>1. CASE m + 1 <= n
      <3>1. InOrder(K, m) = InOrder(L, m) /\ m + 1 \in 1..n
        BY <1>2, <2>1
      <3>2. /\ InOrder(K, m + 1) = IF m + 1 \in K THEN Append(InOrder(K, m), m + 1)
                                   ELSE InOrder(K, m)
            /\ InOrder(L, m + 1) = IF m + 1 \in L THEN Append(InOrder(L, m), m + 1)
                                   ELSE InOrder(L, m)
        BY InOrderSteps
      <3>3. m + 1 \in K <=> m + 1 \in L
        BY <3>1
      <3> QED
        BY <3>1, <3>2, <3>3
    <2> QED
      BY <2>1
  <1>3. n \in T
    <2> HIDE DEF T
    <2> QED
      BY <1>1, <1>2, Inductive
  <1> QED
    BY <1>3

\* A set of numbers is put in order in one way.
Increasing(s) == s \in Seq(Nat) /\ \A i, j \in DOMAIN s : i < j => s[i] < s[j]
\* Every member of one sequence is in the other.
Within(s, t) == \A i \in DOMAIN s : \E j \in DOMAIN t : t[j] = s[i]

\* Where one of the two has a next member, so has the other, and it is no greater.
LEMMA NoFewer ==
  ASSUME NEW s, NEW t, Increasing(s), Increasing(t), Within(s, t), Within(t, s),
         NEW m \in Nat,
         \A i \in 1..m : (i \in DOMAIN s => i \in DOMAIN t /\ s[i] = t[i]),
         m + 1 \in DOMAIN s
  PROVE  m + 1 \in DOMAIN t /\ t[m + 1] <= s[m + 1]
  <1>1. /\ DOMAIN s = 1..Len(s) /\ DOMAIN t = 1..Len(t) /\ Len(s) \in Nat /\ Len(t) \in Nat
        /\ \A i \in DOMAIN s : s[i] \in Nat
        /\ \A i \in DOMAIN t : t[i] \in Nat
    BY DEF Increasing
  <1>2. PICK j \in DOMAIN t : t[j] = s[m + 1]
    BY DEF Within
  <1>3. CASE j <= m
    <2>1. j \in 1..m /\ j \in DOMAIN s /\ j < m + 1
      BY <1>1, <1>3
    <2>2. s[j] = t[j] /\ s[j] < s[m + 1]
      BY <2>1 DEF Increasing
    <2> QED
      BY <1>1, <1>2, <2>1, <2>2
  <1>4. CASE j = m + 1
    BY <1>1, <1>2, <1>4
  <1>5. CASE j > m + 1
    <2>1. m + 1 \in DOMAIN t
      BY <1>1, <1>5
    <2>2. t[m + 1] < t[j]
      BY <1>5, <2>1 DEF Increasing
    <2> QED
      BY <1>1, <1>2, <2>1, <2>2
  <1> QED
    BY <1>1, <1>3, <1>4, <1>5

\* By induction over the places.
LEMMA OneOrder ==
  ASSUME NEW s, NEW t, Increasing(s), Increasing(t), Within(s, t), Within(t, s)
  PROVE  s = t
  <1>1. /\ DOMAIN s = 1..Len(s) /\ DOMAIN t = 1..Len(t) /\ Len(s) \in Nat /\ Len(t) \in Nat
        /\ \A i \in DOMAIN s : s[i] \in Nat
        /\ \A i \in DOMAIN t : t[i] \in Nat
    BY DEF Increasing
  <1> DEFINE T == {m \in Nat : \A i \in 1..m : /\ i \in DOMAIN s <=> i \in DOMAIN t
                                               /\ i \in DOMAIN s => s[i] = t[i]}
  <1>2. 0 \in T
    <2>1. 1..0 = {}
      OBVIOUS
    <2> QED
      BY <2>1
  <1>3. ASSUME NEW m \in Nat, m \in T PROVE m + 1 \in T
    <2>1. \A i \in 1..m : /\ i \in DOMAIN s <=> i \in DOMAIN t
                          /\ i \in DOMAIN s => s[i] = t[i]
      BY <1>3
    <2>2. m + 1 \in DOMAIN s => m + 1 \in DOMAIN t /\ t[m + 1] <= s[m + 1]
      BY <2>1, NoFewer
    <2>3. m + 1 \in DOMAIN t => m + 1 \in DOMAIN s /\ s[m + 1] <= t[m + 1]
      BY <2>1, NoFewer
    <2>4. m + 1 \in DOMAIN s => s[m + 1] = t[m + 1]
      BY <1>1, <2>2, <2>3
    <2>5. \A i \in 1..(m + 1) : i \in 1..m \/ i = m + 1
      OBVIOUS
    <2> HIDE DEF T
    <2>6. \A i \in 1..(m + 1) : /\ i \in DOMAIN s <=> i \in DOMAIN t
                                /\ i \in DOMAIN s => s[i] = t[i]
      BY <2>1, <2>2, <2>3, <2>4, <2>5
    <2> QED
      BY <2>6 DEF T
  <1>4. Len(s) \in T /\ Len(t) \in T
    <2> HIDE DEF T
    <2> QED
      BY <1>1, <1>2, <1>3, Inductive
  <1>5. /\ \A i \in 1..Len(s) : i \in DOMAIN t /\ s[i] = t[i]
        /\ \A i \in 1..Len(t) : i \in DOMAIN s
    BY <1>1, <1>4
  <1>6. Len(s) = Len(t)
    <2>1. Len(s) <= Len(t)
      BY <1>1, <1>5
    <2>2. Len(t) <= Len(s)
      BY <1>1, <1>5
    <2>3. Len(s) \in Nat /\ Len(t) \in Nat
      BY <1>1
    <2> QED
      BY <2>1, <2>2, <2>3
  <1>7. s \in Seq(Nat) /\ t \in Seq(Nat)
    BY DEF Increasing
  <1> QED
    BY <1>5, <1>6, <1>7, SeqEqual

\* A sequence that is longer by one.
OfLength(f, n) == f = [k \in 1..n |-> f[k]]

\* Append adds its element behind the others.
LEMMA AppendIs ==
  ASSUME NEW n \in Nat, NEW f, OfLength(f, n), NEW x
  PROVE  /\ Append(f, x) = [k \in 1..(n + 1) |-> IF k = n + 1 THEN x ELSE f[k]]
         /\ Len(f) = n /\ Len(Append(f, x)) = n + 1
  <1> DEFINE S == {f[k] : k \in 1..n} \cup {x}
  <1> USE DEF OfLength
  <1>1. f \in Seq(S) /\ x \in S
    OBVIOUS
  <1>2. Len(f) = n
    OBVIOUS
  <1> HIDE DEF S
  <1> QED
    BY <1>1, <1>2

\* What FlattenSeq chooses, one sequence after the other.
LEMMA FlattenUnfolds ==
  ASSUME NEW parts, NEW n \in Nat, n # 0, Len(parts) = n
  PROVE  \E it : /\ FlattenSeq(parts) = it[n]
                 /\ \A i \in 1..n :
                      it[i] = IF i = 1 THEN parts[i] ELSE it[i - 1] \o parts[i]
  <1> DEFINE Rec(m, f) == [i \in 1..m |-> IF i = 1 THEN parts[i] ELSE f[i - 1] \o parts[i]]
             it == CHOOSE f : f = Rec(n, f)
             T == {m \in Nat : \E f : f = Rec(m, f)}
  <1>1. FlattenSeq(parts) = it[n]
    BY DEF FlattenSeq
  <1>2. 0 \in T
    <2> DEFINE f == [i \in 1..0 |-> 0]
    <2>1. f = Rec(0, f)
      <3>1. 1..0 = {}
        OBVIOUS
      <3> QED
        BY <3>1
    <2> QED
      BY <2>1
  <1>3. ASSUME NEW m \in Nat, m \in T PROVE m + 1 \in T
    <2>1. PICK f : f = Rec(m, f)
      BY <1>3
    <2> DEFINE g == [i \in 1..(m + 1) |->
                       IF i = m + 1 THEN IF i = 1 THEN parts[i] ELSE f[i - 1] \o parts[i]
                       ELSE f[i]]
    <2>2. ASSUME NEW i \in 1..(m + 1)
          PROVE  g[i] = IF i = 1 THEN parts[i] ELSE g[i - 1] \o parts[i]
      <3>1. CASE i = m + 1
        <4>1. i # 1 => i - 1 \in 1..m /\ i - 1 # m + 1 /\ i - 1 \in 1..(m + 1)
          BY <3>1
        <4>2. i # 1 => g[i - 1] = f[i - 1]
          BY <4>1
        <4> QED
          BY <3>1, <4>2
      <3>2. CASE i # m + 1
        <4>1. i \in 1..m
          BY <3>2
        <4>2. f[i] = IF i = 1 THEN parts[i] ELSE f[i - 1] \o parts[i]
          BY <2>1, <4>1
        <4>3. i # 1 => i - 1 \in 1..(m + 1) /\ i - 1 # m + 1
          BY <4>1
        <4>4. i # 1 => g[i - 1] = f[i - 1]
          BY <4>3
        <4> QED
          BY <3>2, <4>2, <4>4
      <3> QED
        BY <3>1, <3>2
    <2>3. g = [i \in 1..(m + 1) |-> g[i]]
      OBVIOUS
    <2> HIDE DEF g
    <2>4. g = Rec(m + 1, g)
      BY <2>2, <2>3
    <2>5. m + 1 \in Nat
      OBVIOUS
    <2> HIDE DEF Rec
    <2> QED
      BY <2>4, <2>5, Zenon
  <1>4. n \in T
    <2> HIDE DEF T
    <2> QED
      BY <1>2, <1>3, Inductive
  <1>5. it = Rec(n, it)
    <2>1. \E f : f = Rec(n, f)
      BY <1>4
    <2> HIDE DEF Rec
    <2> QED
      BY <2>1
  <1> HIDE DEF it
  <1>6. \A i \in 1..n : it[i] = IF i = 1 THEN parts[i] ELSE it[i - 1] \o parts[i]
    BY <1>5
  <1> QED
    BY <1>1, <1>6

\* What is flattened of a sequence that is longer by one.
LEMMA FlattenAppend ==
  ASSUME NEW n \in Nat, NEW f, OfLength(f, n), NEW x
  PROVE  /\ n = 0 => FlattenSeq(f) = <<>> /\ FlattenSeq(Append(f, x)) = x
         /\ n # 0 => FlattenSeq(Append(f, x)) = FlattenSeq(f) \o x
  <1> DEFINE g == Append(f, x)
  <1>1. /\ Len(f) = n /\ Len(g) = n + 1 /\ g[n + 1] = x
        /\ \A k \in 1..n : g[k] = f[k]
    <2>1. g = [k \in 1..(n + 1) |-> IF k = n + 1 THEN x ELSE f[k]] /\ Len(f) = n /\ Len(g) = n + 1
      BY AppendIs
    <2>2. n + 1 \in 1..(n + 1) /\ \A k \in 1..n : k \in 1..(n + 1) /\ k # n + 1
      OBVIOUS
    <2> HIDE DEF g
    <2> QED
      BY <2>1, <2>2
  <1> HIDE DEF g
  <1>2. PICK new : /\ FlattenSeq(g) = new[n + 1]
                   /\ \A i \in 1..(n + 1) :
                        new[i] = IF i = 1 THEN g[i] ELSE new[i - 1] \o g[i]
    <2>1. n + 1 \in Nat /\ n + 1 # 0 /\ Len(g) = n + 1
      BY <1>1
    <2> QED
      BY <2>1, FlattenUnfolds
  <1>3. CASE n = 0
    <2>1. FlattenSeq(g) = x
      <3>1. 1 \in 1..(n + 1) /\ n + 1 = 1
        BY <1>3
      <3>2. new[1] = g[1]
        BY <1>2, <3>1
      <3> QED
        BY <1>1, <1>2, <3>1, <3>2
    <2>2. FlattenSeq(f) = <<>>
      <3>1. f = <<>>
        BY <1>3 DEF OfLength
      <3>2. Len(f) = 0
        BY <1>1, <1>3
      <3> QED
        BY <3>1, <3>2 DEF FlattenSeq
    <2> QED
      BY <1>3, <2>1, <2>2 DEF g
  <1>4. CASE n # 0
    <2>1. PICK old : /\ FlattenSeq(f) = old[n]
                     /\ \A i \in 1..n :
                          old[i] = IF i = 1 THEN f[i] ELSE old[i - 1] \o f[i]
      BY <1>1, <1>4, FlattenUnfolds
    <2> DEFINE T == {k \in Nat : k < n => old[k + 1] = new[k + 1]}
    <2>2. 0 \in T
      <3>1. 1 \in 1..n /\ 1 \in 1..(n + 1) /\ 0 + 1 = 1
        BY <1>4
      <3>2. old[1] = f[1] /\ new[1] = g[1] /\ g[1] = f[1]
        BY <1>1, <1>2, <2>1, <3>1
      <3> QED
        BY <3>1, <3>2
    <2>3. ASSUME NEW k \in Nat, k \in T PROVE k + 1 \in T
      <3>1. CASE k + 1 < n
        <4>1. /\ (k + 1) + 1 \in 1..n /\ (k + 1) + 1 # 1 /\ ((k + 1) + 1) - 1 = k + 1
              /\ (k + 1) + 1 \in 1..(n + 1) /\ old[k + 1] = new[k + 1]
          BY <2>3, <3>1
        <4>2. old[(k + 1) + 1] = old[k + 1] \o f[(k + 1) + 1]
          BY <2>1, <4>1
        <4>3. new[(k + 1) + 1] = new[k + 1] \o g[(k + 1) + 1]
          BY <1>2, <4>1
        <4>4. f[(k + 1) + 1] = g[(k + 1) + 1]
          BY <1>1, <4>1
        <4>5. old[(k + 1) + 1] = new[(k + 1) + 1]
          BY <4>1, <4>2, <4>3, <4>4
        <4> QED
          BY <4>5
      <3> QED
        BY <3>1
    <2>4. n - 1 \in T
      <3>1. n - 1 \in Nat
        BY <1>4
      <3> HIDE DEF T
      <3> QED
        BY <2>2, <2>3, <3>1, Inductive
    <2>5. old[n] = new[n]
      <3>1. n - 1 < n /\ (n - 1) + 1 = n
        OBVIOUS
      <3> QED
        BY <2>4, <3>1
    <2>6. new[n + 1] = new[n] \o x
      <3>1. n + 1 \in 1..(n + 1) /\ n + 1 # 1 /\ (n + 1) - 1 = n
        BY <1>4
      <3> QED
        BY <1>1, <1>2, <3>1
    <2> QED
      BY <1>2, <1>4, <2>1, <2>5, <2>6 DEF g
  <1> QED
    BY <1>3, <1>4
=============================================================================
