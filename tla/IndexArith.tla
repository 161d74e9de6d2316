----------------------------- MODULE IndexArith -----------------------------
(***************************************************************************)
(* Arithmetic of ring indices and cache lines: quotients and remainders by *)
(* a positive number.                                                      *)
(***************************************************************************)
EXTENDS Integers, TLAPS

(* Quotient and remainder.                                                 *)
LEMMA DivMod ==
    ASSUME NEW a \in Nat, NEW n \in Nat \ {0}
    PROVE  a % n \in 0 .. n - 1 /\ a \div n \in Nat /\ a = n * (a \div n) + (a % n)
OBVIOUS

(* A positive multiple of n is at least n.                                 *)
LEMMA MultipleAtLeast ==
    ASSUME NEW n \in Nat \ {0}, NEW x \in Int, x >= 1
    PROVE  n * x >= n
OBVIOUS

(* Quotient and remainder are unique.                                      *)
LEMMA DivModUnique ==
    ASSUME NEW n \in Nat \ {0}, NEW x \in Int, NEW y \in Int,
           NEW r \in 0 .. n - 1, NEW t \in 0 .. n - 1,
           n * x + r = n * y + t
    PROVE  r = t /\ x = y
<1>1. n * (x - y) = t - r
  OBVIOUS
<1>2. n * (y - x) = r - t
  OBVIOUS
<1>3. ~(x - y >= 1)
  BY <1>1, MultipleAtLeast
<1>4. ~(y - x >= 1)
  BY <1>2, MultipleAtLeast
<1>5. x = y
  BY <1>3, <1>4
<1> QED BY <1>1, <1>5

(* Counters less than n apart have different remainders: two entries of    *)
(* the ring, or of the pool, never share a slot.                           *)
LEMMA ModInjective ==
    ASSUME NEW n \in Nat \ {0}, NEW a \in Nat, NEW b \in Nat, a < b, b - a < n
    PROVE  a % n # b % n
<1> SUFFICES ASSUME a % n = b % n
             PROVE  FALSE
  OBVIOUS
<1>1. b - a = n * ((b \div n) - (a \div n))
  BY DivMod
<1>2. (b \div n) - (a \div n) \in Int
  BY DivMod
<1>3. CASE (b \div n) - (a \div n) >= 1
  BY <1>1, <1>2, <1>3, MultipleAtLeast
<1>4. CASE (b \div n) - (a \div n) <= 0
  BY <1>1, <1>2, <1>4
<1> QED BY <1>2, <1>3, <1>4

(* Incrementing an index modulo n follows incrementing the counter.        *)
LEMMA ModSucc ==
    ASSUME NEW n \in Nat \ {0}, NEW a \in Nat
    PROVE  ((a % n) + 1) % n = (a + 1) % n
<1>1. a % n \in 0 .. n - 1 /\ \E x \in Nat : a = n * x + (a % n)
  BY DivMod
<1>2. PICK r \in 0 .. n - 1, x \in Nat : r = a % n /\ a = n * x + r
  BY <1>1
<1>3. (r + 1) % n \in 0 .. n - 1 /\ \E y \in Nat : r + 1 = n * y + ((r + 1) % n)
  <2>1. (r + 1) \in Nat
    OBVIOUS
  <2>2. /\ (r + 1) % n \in 0 .. n - 1
        /\ (r + 1) \div n \in Nat
        /\ (r + 1) = n * ((r + 1) \div n) + ((r + 1) % n)
    BY <2>1, DivMod, Zenon
  <2> QED BY <2>2, Zenon
<1>4. (a + 1) % n \in 0 .. n - 1 /\ \E z \in Nat : a + 1 = n * z + ((a + 1) % n)
  <2>1. (a + 1) \in Nat
    OBVIOUS
  <2>2. /\ (a + 1) % n \in 0 .. n - 1
        /\ (a + 1) \div n \in Nat
        /\ (a + 1) = n * ((a + 1) \div n) + ((a + 1) % n)
    BY <2>1, DivMod, Zenon
  <2> QED BY <2>2, Zenon
<1>5. PICK y \in Nat, t \in 0 .. n - 1 : t = (r + 1) % n /\ r + 1 = n * y + t
  BY <1>3
<1>6. PICK z \in Nat, u \in 0 .. n - 1 : u = (a + 1) % n /\ a + 1 = n * z + u
  BY <1>4
<1>7. n * (x + y) + t = n * z + u
  BY <1>2, <1>5, <1>6
<1>8. t = u
  BY <1>7, DivModUnique
<1> QED BY <1>2, <1>5, <1>6, <1>8

(* A counter n ahead has the same remainder: the ring is full.             *)
LEMMA ModPeriod ==
    ASSUME NEW n \in Nat \ {0}, NEW a \in Nat
    PROVE  (a + n) % n = a % n
<1>1. a % n \in 0 .. n - 1 /\ \E x \in Nat : a = n * x + (a % n)
  BY DivMod
<1>2. PICK r \in 0 .. n - 1, x \in Nat : r = a % n /\ a = n * x + r
  BY <1>1
<1>3. (a + n) % n \in 0 .. n - 1 /\ \E z \in Nat : a + n = n * z + ((a + n) % n)
  <2>1. (a + n) \in Nat
    OBVIOUS
  <2>2. /\ (a + n) % n \in 0 .. n - 1
        /\ (a + n) \div n \in Nat
        /\ (a + n) = n * ((a + n) \div n) + ((a + n) % n)
    BY <2>1, DivMod, Zenon
  <2> QED BY <2>2, Zenon
<1>4. PICK z \in Nat, u \in 0 .. n - 1 : u = (a + n) % n /\ a + n = n * z + u
  BY <1>3
<1>5. n * (x + 1) + r = n * z + u
  BY <1>2, <1>4
<1>6. r = u
  BY <1>5, DivModUnique
<1> QED BY <1>2, <1>4, <1>6

(* The remainder of any integer is the number below n that differs from it *)
(* by a multiple of n.                                                     *)
LEMMA ModUnique ==
    ASSUME NEW n \in Nat \ {0}, NEW a \in Int, NEW k \in Int, NEW r \in 0 .. n - 1,
           a = n * k + r
    PROVE  a % n = r
<1>1. a % n \in 0 .. n - 1 /\ a \div n \in Int /\ a = n * (a \div n) + (a % n)
  OBVIOUS
<1>2. PICK t \in 0 .. n - 1, x \in Int : t = a % n /\ a = n * x + t
  BY <1>1
<1>3. n * x + t = n * k + r
  BY <1>2
<1>4. t = r
  BY <1>3, DivModUnique
<1> QED BY <1>2, <1>4

(* Adding to an index modulo n follows adding to the counter.              *)
LEMMA ModAdd ==
    ASSUME NEW n \in Nat \ {0}, NEW a \in Nat, NEW d \in Nat
    PROVE  ((a % n) + d) % n = (a + d) % n
<1>1. PICK r \in 0 .. n - 1, x \in Nat : r = a % n /\ a = n * x + r
  BY DivMod
<1>2. a + d \in Nat
  OBVIOUS
<1>3. PICK t \in 0 .. n - 1, y \in Nat : t = (a + d) % n /\ a + d = n * y + t
  BY <1>2, DivMod
<1>4. r + d = n * (y - x) + t
  BY <1>1, <1>3
<1>5. r + d \in Int /\ y - x \in Int
  OBVIOUS
<1>6. (r + d) % n = t
  BY <1>4, <1>5, ModUnique, Zenon
<1> QED BY <1>1, <1>3, <1>6

(* The distance of two counters less than n apart is that of their         *)
(* indices modulo n.                                                       *)
LEMMA ModDistance ==
    ASSUME NEW n \in Nat \ {0}, NEW a \in Nat, NEW b \in Nat, a <= b, b - a < n
    PROVE  ((b % n) - (a % n)) % n = b - a
<1>1. PICK r \in 0 .. n - 1, x \in Nat : r = a % n /\ a = n * x + r
  BY DivMod
<1>2. PICK t \in 0 .. n - 1, y \in Nat : t = b % n /\ b = n * y + t
  BY DivMod
<1>3. t - r = n * (x - y) + (b - a)
  BY <1>1, <1>2
<1>4. (t - r) % n = b - a
  BY <1>3, ModUnique
<1> QED BY <1>1, <1>2, <1>4

(* A number below k lines of n slots lies in one of them.                  *)
LEMMA DivBelow ==
    ASSUME NEW n \in Nat \ {0}, NEW k \in Nat, NEW a \in Nat, a < n * k
    PROVE  a \div n < k
<1>1. PICK d \in Nat, r \in 0 .. n - 1 : d = a \div n /\ a = n * d + r
  BY DivMod
<1>2. SUFFICES ASSUME d >= k
               PROVE  FALSE
  BY <1>1
<1>3. CASE d = k
  BY <1>1, <1>3
<1>4. CASE d >= k + 1
  <2>1. n * (d - k) >= n
    BY <1>1, <1>4, MultipleAtLeast
  <2>2. n * (d - k) = n * d - n * k
    BY <1>1
  <2>3. n * k \in Nat /\ n * d \in Nat
    BY <1>1
  <2> QED BY <1>1, <2>1, <2>2, <2>3
<1> QED BY <1>1, <1>2, <1>3, <1>4

(* A slot of one of k lines of n slots is below n * k.                     *)
LEMMA SlotBelow ==
    ASSUME NEW n \in Nat \ {0}, NEW k \in Nat, NEW d \in 0 .. k - 1, NEW r \in 0 .. n - 1
    PROVE  n * d + r \in 0 .. n * k - 1
<1>1. n * (k - d) >= n
  BY MultipleAtLeast
<1>2. n * (k - d) = n * k - n * d
  OBVIOUS
<1>3. n * d \in Nat /\ n * k \in Nat
  OBVIOUS
<1> QED BY <1>1, <1>2, <1>3

=============================================================================
