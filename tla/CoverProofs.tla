---------------------------- MODULE CoverProofs -----------------------------
(***************************************************************************)
(* The formula of cover.cpp is right for every cache line size, batch and  *)
(* offset, not only for the ones cover() tries.                            *)
(***************************************************************************)
EXTENDS Cover, IndexArith, FiniteSetTheorems, TLAPS

(* Division is monotone.                                                   *)
LEMMA DivMonotone ==
    ASSUME NEW n \in Nat \ {0}, NEW a \in Nat, NEW b \in Nat, a <= b
    PROVE  a \div n <= b \div n
<1>1. PICK d \in Nat, r \in 0 .. n - 1 : d = a \div n /\ a = n * d + r
  BY DivMod
<1>2. PICK e \in Nat, t \in 0 .. n - 1 : e = b \div n /\ b = n * e + t
  BY DivMod
<1>3. SUFFICES ASSUME d - e >= 1
               PROVE  FALSE
  BY <1>1, <1>2
<1>4. n * (d - e) >= n
  BY <1>3, MultipleAtLeast
<1>5. n * (d - e) = n * d - n * e /\ n * d \in Nat /\ n * e \in Nat
  OBVIOUS
<1> QED BY <1>1, <1>2, <1>4, <1>5

(* n more is one line more.                                                *)
LEMMA DivNext ==
    ASSUME NEW n \in Nat \ {0}, NEW a \in Nat
    PROVE  (a + n) \div n = (a \div n) + 1
<1>1. PICK d \in Nat, r \in 0 .. n - 1 : d = a \div n /\ a = n * d + r
  BY DivMod
<1>2. a + n \in Nat
  OBVIOUS
<1>3. PICK e \in Nat, t \in 0 .. n - 1 : e = (a + n) \div n /\ a + n = n * e + t
  BY <1>2, DivMod
<1>4. n * (d + 1) + r = n * e + t
  <2>1. n * (d + 1) = n * d + n /\ n * d \in Nat /\ n * e \in Nat
    OBVIOUS
  <2> QED BY <1>1, <1>3, <2>1
<1>5. d + 1 = e
  <2>1. d + 1 \in Int /\ e \in Int
    OBVIOUS
  <2> QED BY <1>4, <2>1, DivModUnique
<1> QED BY <1>1, <1>3, <1>5

(* A batch that starts in the first line covers the lines up to that of    *)
(* its last slot, and covered_cachelines counts them all.                  *)
LEMMA CoveredLines ==
    ASSUME NEW K \in Nat \ {0}, NEW M \in Nat, NEW b \in 1 .. K * M, NEW ofs \in 0 .. K - 1
    PROVE  covered_cachelines(ofs, b, K * M, K) = ((ofs + b - 1) \div K) + 1
<1> DEFINE e == ofs + b - 1
           n == e \div K
           C(k) == \E s \in K * k .. K * k + K - 1 : ofs <= s /\ s < ofs + b
<1>1. K * M \in Nat /\ b \in Nat /\ ofs \in Nat /\ e \in Nat
  OBVIOUS
<1>2. n \in Nat /\ K * n <= e
  <2>1. e % K \in 0 .. K - 1 /\ e \div K \in Nat /\ e = K * (e \div K) + (e % K)
    BY <1>1, DivMod
  <2> QED BY <1>1, <2>1
<1>3. ofs \div K = 0
  <2>1. PICK d \in Nat, r \in 0 .. K - 1 : d = ofs \div K /\ ofs = K * d + r
    BY <1>1, DivMod
  <2>2. K * d + r = K * 0 + ofs
    BY <2>1
  <2>3. d \in Int /\ 0 \in Int
    OBVIOUS
  <2> QED BY <2>1, <2>2, <2>3, DivModUnique
<1>4. (K * M) \div K = M
  <2>1. PICK d \in Nat, r \in 0 .. K - 1 : d = (K * M) \div K /\ K * M = K * d + r
    BY <1>1, DivMod
  <2>2. K * d + r = K * M + 0
    BY <2>1
  <2>3. d \in Int /\ M \in Int /\ 0 \in 0 .. K - 1
    OBVIOUS
  <2> QED BY <2>1, <2>2, <2>3, DivModUnique
<1>5. n <= M
  <2>1. e < K * (M + 1)
    <3>1. K * (M + 1) = K * M + K
      OBVIOUS
    <3> QED BY <1>1, <3>1
  <2>2. M + 1 \in Nat
    OBVIOUS
  <2>3. n < M + 1
    BY <1>1, <2>1, <2>2, DivBelow
  <2> QED BY <1>2, <2>3
<1>6. ASSUME NEW k \in 0 .. M
      PROVE  C(k) <=> k <= n
  <2>1. ASSUME C(k)
        PROVE  k <= n
    <3>1. PICK s \in K * k .. K * k + K - 1 : ofs <= s /\ s < ofs + b
      BY <2>1
    <3>2. K * k \in Nat
      OBVIOUS
    <3>3. K * k < K * (n + 1)
      <4>1. e % K \in 0 .. K - 1 /\ e = K * n + (e % K)
        BY <1>1, DivMod
      <4>2. K * (n + 1) = K * n + K /\ K * n \in Nat
        BY <1>2
      <4> QED BY <1>1, <3>1, <3>2, <4>1, <4>2
    <3>4. (K * k) \div K < n + 1
      BY <1>2, <3>2, <3>3, DivBelow
    <3>5. SUFFICES ASSUME k - n >= 1
                   PROVE  FALSE
      BY <1>2
    <3>6. K * (k - n) >= K
      BY <1>2, <3>5, MultipleAtLeast
    <3>7. K * (k - n) = K * k - K * n /\ K * (n + 1) = K * n + K /\ K * n \in Nat
      BY <1>2
    <3> QED BY <3>2, <3>3, <3>6, <3>7
  <2>2. ASSUME k <= n
        PROVE  C(k)
    <3>1. CASE k = 0
      <4>1. ofs \in K * k .. K * k + K - 1
        BY <3>1
      <4> QED BY <1>1, <4>1
    <3>2. CASE k >= 1
      <4>1. K * k >= K
        BY <3>2, MultipleAtLeast
      <4>2. K * k <= K * n
        <5>1. CASE k = n
          BY <5>1
        <5>2. CASE n - k >= 1
          <6>1. K * (n - k) >= K
            BY <1>2, <5>2, MultipleAtLeast
          <6>2. K * (n - k) = K * n - K * k /\ K * n \in Nat /\ K * k \in Nat
            BY <1>2
          <6> QED BY <6>1, <6>2
        <5> QED BY <1>2, <2>2, <5>1, <5>2
      <4>3. K * k \in Nat /\ K * n \in Nat
        BY <1>2
      <4>4. K * k \in K * k .. K * k + K - 1 /\ ofs <= K * k /\ K * k < ofs + b
        BY <1>1, <1>2, <4>1, <4>2, <4>3
      <4> QED BY <4>4
    <3> QED BY <3>1, <3>2
  <2> QED BY <2>1, <2>2
<1>7. {k \in 0 .. M : C(k)} = 0 .. n
  <2>1. \A k \in 0 .. M : C(k) <=> k <= n
    BY <1>6
  <2> HIDE DEF C
  <2> QED BY <1>2, <1>5, <2>1
<1>8. covered_cachelines(ofs, b, K * M, K) = Cardinality(0 .. n)
  <2>1. covered_cachelines(ofs, b, K * M, K)
          = Cardinality({k \in (ofs \div K) .. ((K * M) \div K) : C(k)})
    BY DEF covered_cachelines, Covered
  <2> HIDE DEF C
  <2>2. {k \in (ofs \div K) .. ((K * M) \div K) : C(k)} = {k \in 0 .. M : C(k)}
    BY <1>3, <1>4
  <2> QED BY <1>7, <2>1, <2>2
<1>9. Cardinality(0 .. n) = n + 1
  <2>1. 0 \in Int /\ n \in Int /\ ~(0 > n)
    BY <1>2
  <2> HIDE DEF n
  <2>2. Cardinality(0 .. n) = IF 0 > n THEN 0 ELSE n - 0 + 1
    BY <2>1, FS_Interval
  <2> QED BY <2>1, <2>2
<1> QED BY <1>8, <1>9

(* cover() never prints "Wrong formula": for every line size, batch and    *)
(* offset the prediction is exact or one line too many.                    *)
THEOREM CoverFormula ==
    ASSUME NEW K \in Nat \ {0}, NEW M \in Nat
    PROVE  cover(K * M, K)
<1> SUFFICES ASSUME NEW b \in 1 .. K * M, NEW ofs \in 0 .. K - 1
             PROVE  predict(b, K) - covered_cachelines(ofs, b, K * M, K) \in 0 .. 1
  BY DEF cover
<1> DEFINE e == ofs + b - 1
           p == (b - 1) + (K - 1)
<1>1. K * M \in Nat /\ e \in Nat /\ p \in Nat /\ b - 1 \in Nat /\ b - 1 + K \in Nat
  OBVIOUS
<1>2. e \div K \in Nat /\ p \div K \in Nat /\ (b - 1) \div K \in Nat
  BY <1>1, DivMod
<1>3. e \div K <= p \div K
  <2>1. e <= p
    BY <1>1
  <2> QED BY <1>1, <2>1, DivMonotone
<1>4. p \div K <= (e \div K) + 1
  <2>1. p <= b - 1 + K
    BY <1>1
  <2>2. p \div K <= (b - 1 + K) \div K
    BY <1>1, <2>1, DivMonotone
  <2>3. (b - 1 + K) \div K = ((b - 1) \div K) + 1
    BY <1>1, DivNext
  <2>4. (b - 1) \div K <= e \div K
    <3>1. b - 1 <= e
      BY <1>1
    <3> QED BY <1>1, <3>1, DivMonotone
  <2>5. (b - 1 + K) \div K \in Nat
    BY <1>1, DivMod
  <2> QED BY <1>2, <2>2, <2>3, <2>4, <2>5
<1>5. covered_cachelines(ofs, b, K * M, K) = (e \div K) + 1
  BY CoveredLines
<1>6. predict(b, K) = 1 + (p \div K)
  BY DEF predict
<1> QED BY <1>2, <1>3, <1>4, <1>5, <1>6

=============================================================================
