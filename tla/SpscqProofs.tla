---------------------------- MODULE SpscqProofs -----------------------------
(***************************************************************************)
(* Proofs, for every ring length, slot map and number of packets, that the *)
(* queue and the packet pool of spscq lose, repeat and corrupt nothing.    *)
(***************************************************************************)
EXTENDS Spscq, IndexArith, TLAPS

-----------------------------------------------------------------------------
(* The same facts for the ring and for the pool.                           *)

(* qslotmap_init, shuffled or not, gives each ring index a slot of its     *)
(* own: lines are permuted, then the slots within each line.               *)
THEOREM SlotMapPermutes ==
    /\ Smap \in [0 .. QLen - 1 -> 0 .. QLen - 1]
    /\ \A i, j \in 0 .. QLen - 1 : Smap[i] = Smap[j] => i = j
<1>1. CASE ~Shuffle
  BY <1>1, SpscqAssumption DEF qslotmap_init
<1>2. CASE Shuffle
  <2> DEFINE K == LineSlots
             I == 0 .. QLen - 1
             D == 0 .. Lines - 1
             R == 0 .. K - 1
  <2>1. K \in Nat \ {0} /\ Lines \in Nat /\ QLen = K * Lines
    BY SpscqAssumption DEF QLen
  <2>2. PICK v \in Shuffles(D), u \in [D -> Shuffles(R)] :
          Smap = [i \in I |-> K * v[i \div K] + u[i \div K][i % K]]
    BY <1>2, SpscqAssumption, Zenon DEF qslotmap_init
  <2>3. /\ v \in [D -> D] /\ \A x, y \in D : v[x] = v[y] => x = y
        /\ \A d \in D : u[d] \in [R -> R] /\ \A x, y \in R : u[d][x] = u[d][y] => x = y
    BY <2>2 DEF Shuffles
  <2>4. ASSUME NEW i \in I
        PROVE  i \div K \in D /\ i % K \in R /\ i = K * (i \div K) + (i % K)
    <3>1. i \in Nat /\ i < K * Lines
      BY <2>1
    <3>2. i % K \in R /\ i \div K \in Nat /\ i = K * (i \div K) + (i % K)
      BY <2>1, <3>1, DivMod, Zenon
    <3>3. i \div K < Lines
      BY <2>1, <3>1, DivBelow, Zenon
    <3> QED BY <2>1, <3>2, <3>3
  <2>5. ASSUME NEW i \in I
        PROVE  /\ Smap[i] = K * v[i \div K] + u[i \div K][i % K]
               /\ v[i \div K] \in D /\ u[i \div K][i % K] \in R
               /\ Smap[i] \in I
    <3>1. Smap[i] = K * v[i \div K] + u[i \div K][i % K]
      BY <2>2
    <3>2. v[i \div K] \in D /\ u[i \div K][i % K] \in R
      <4>1. i \div K \in D /\ i % K \in R
        BY <2>4
      <4>2. u[i \div K] \in [R -> R]
        BY <2>3, <4>1
      <4> HIDE DEF D, R
      <4> QED BY <2>3, <4>1, <4>2, Zenon
    <3>3. Smap[i] \in 0 .. K * Lines - 1
      BY <2>1, <3>1, <3>2, SlotBelow, Zenon
    <3> QED BY <2>1, <3>1, <3>2, <3>3
  <2>6. Smap \in [I -> I]
    BY <2>2, <2>5
  <2>7. ASSUME NEW i \in I, NEW j \in I, Smap[i] = Smap[j]
        PROVE  i = j
    <3>1. v[i \div K] \in Int /\ v[j \div K] \in Int
      <4>1. v[i \div K] \in D /\ v[j \div K] \in D
        BY <2>5, Zenon
      <4>2. \A d \in D : d \in Int
        OBVIOUS
      <4> QED BY <4>1, <4>2, Zenon
    <3>2. u[i \div K][i % K] = u[j \div K][j % K] /\ v[i \div K] = v[j \div K]
      <4>1. /\ u[i \div K][i % K] \in R /\ u[j \div K][j % K] \in R
            /\ K * v[i \div K] + u[i \div K][i % K] = K * v[j \div K] + u[j \div K][j % K]
        BY <2>5, <2>7, Zenon
      <4>2. \A x, y \in Int, r, t \in R : K * x + r = K * y + t => r = t /\ x = y
        BY <2>1, DivModUnique, Zenon
      <4> QED BY <3>1, <4>1, <4>2
    <3>3. /\ i \div K \in D /\ i % K \in R /\ i = K * (i \div K) + (i % K)
          /\ j \div K \in D /\ j % K \in R /\ j = K * (j \div K) + (j % K)
      BY <2>4, Zenon
    <3>4. i \div K = j \div K
      BY <2>3, <3>2, <3>3, Zenon
    <3>5. i % K = j % K
      BY <2>3, <3>2, <3>3, <3>4, Zenon
    <3> QED BY <3>3, <3>4, <3>5, Zenon
  <2> QED BY <2>6, <2>7, Zenon
<1> QED BY <1>1, <1>2

(* Both sizes are positive.                                                *)
LEMMA Sizes == QLen \in Nat \ {0} /\ PoolSize \in Nat \ {0} /\ QLen >= 2 /\ PoolSize = 2 * QLen
BY SpscqAssumption DEF PoolSize

(* Remainders are indices of the ring and of the pool.                     *)
LEMMA IndexType ==
    ASSUME NEW j \in Nat
    PROVE  IndexOf(j) \in Index /\ Slot(j) \in Index /\ MbufAt(j) \in Mbuf
<1>1. j % QLen \in Index
  BY Sizes, DivMod, Zenon DEF Index
<1>2. j % PoolSize \in Mbuf
  BY Sizes, DivMod, Zenon DEF Mbuf
<1>3. \A i \in Index : Smap[i] \in Index
  BY SlotMapPermutes DEF Index
<1> QED BY <1>1, <1>2, <1>3, Zenon DEF MbufAt, IndexOf, Slot

(* Two packets in the ring are in different slots.                         *)
LEMMA SlotsDiffer ==
    ASSUME NEW i \in Nat, NEW j \in Nat, i < j, j - i < QLen
    PROVE  Slot(i) # Slot(j) /\ IndexOf(i) # IndexOf(j)
<1>1. IndexOf(i) # IndexOf(j)
  BY Sizes, ModInjective, Zenon DEF IndexOf
<1>2. \A k, l \in Index : Smap[k] = Smap[l] => k = l
  BY SlotMapPermutes DEF Index
<1> QED BY <1>1, <1>2, IndexType, Zenon DEF Slot

(* Two of the last PoolSize packets are in different places of the pool.   *)
LEMMA MbufsDiffer ==
    ASSUME NEW i \in Nat, NEW j \in Nat, i < j, j - i < PoolSize
    PROVE  MbufAt(i) # MbufAt(j)
BY Sizes, ModInjective, Zenon DEF MbufAt

(* Advancing an index follows advancing its counter.                       *)
LEMMA NextIndexOf ==
    ASSUME NEW a \in Nat
    PROVE  NextIndex(IndexOf(a)) = IndexOf(a + 1)
BY Sizes, ModSucc, Zenon DEF NextIndex, IndexOf

(* The ring is full when the counters are QLen - 1 apart.                  *)
LEMMA FullAt ==
    ASSUME NEW a \in Nat, NEW b \in Nat, b - a = QLen - 1
    PROVE  NextIndex(IndexOf(b)) = IndexOf(a)
<1>1. b + 1 = a + QLen
  BY Sizes
<1>2. IndexOf(a + QLen) = IndexOf(a)
  BY Sizes, ModPeriod, Zenon DEF IndexOf
<1> QED BY <1>1, <1>2, NextIndexOf, Zenon

-----------------------------------------------------------------------------
(* The invariant.                                                          *)

IInv == TypeOK /\ RingInv /\ PacketsIntact

(* It holds initially: nothing published, nothing taken.                   *)
LEMMA IInvInit == Init => IInv
<1> SUFFICES ASSUME Init
             PROVE  IInv
  OBVIOUS
<1>1. 0 \in Index /\ 0 \in Mbuf /\ IndexOf(0) = 0
  <2>1. 0 % QLen \in 0 .. QLen - 1 /\ 0 = QLen * (0 \div QLen) + (0 % QLen) /\ 0 \div QLen \in Nat
    BY DivMod, SpscqAssumption
  <2> QED BY <2>1, SpscqAssumption DEF Index, Mbuf, PoolSize, IndexOf
<1>2. TypeOK
  BY <1>1 DEF Init, TypeOK
<1>3. RingInv /\ PacketsIntact
  BY <1>1, Sizes DEF Init, RingInv, Published, Taken, PacketsIntact
<1> QED BY <1>2, <1>3 DEF IInv

(* The counters are natural numbers.                                       *)
LEMMA CounterType == IInv => Published \in Nat /\ Taken \in Nat /\ Len(seen) \in Nat
BY DEF IInv, TypeOK, RingInv, Published, Taken

(* mbuf_get rewrites a place of the pool that is more than a whole ring    *)
(* and both threads' hands old.                                            *)
LEMMA IInvGet ==
    ASSUME IInv, mbuf_get
    PROVE  IInv'
<1> USE DEF IInv
<1>1. pool_idx \in Nat /\ Published = pool_idx
  BY DEF TypeOK, Published, mbuf_get
<1>2. Taken' = Taken /\ Taken \in Nat
  BY CounterType DEF mbuf_get, consVars, Taken
<1>3. CASE stop
  <2>1. UNCHANGED <<stop, q, write, read, pool, pool_idx, p_m, c_pc, c_m, seen, joined>> /\ p_pc' = "done"
    BY <1>3 DEF mbuf_get, consVars
  <2>2. Published' = Published
    BY <1>1, <2>1 DEF Published
  <2>3. TypeOK' /\ PacketsIntact'
    BY <2>1 DEF TypeOK, PacketsIntact
  <2>4. RingInv'
    BY <1>1, <1>2, <2>1, <2>2 DEF RingInv, mbuf_get
  <2> QED BY <2>3, <2>4
<1>4. CASE ~stop
  <2>1. /\ p_m' = MbufAt(pool_idx)
        /\ pool' = [pool EXCEPT ![MbufAt(pool_idx)] = pool_idx]
        /\ pool_idx' = pool_idx + 1
        /\ p_pc' = "full"
        /\ UNCHANGED <<stop, q, write, read, c_pc, c_m, seen, joined>>
    BY <1>4 DEF mbuf_get, consVars
  <2>2. Published' = Published
    BY <1>1, <2>1 DEF Published
  <2>3. TypeOK' /\ PacketsIntact'
    <3>1. MbufAt(pool_idx) \in Mbuf
      BY <1>1, IndexType
    <3>2. pool' \in [Mbuf -> Nat]
      BY <1>1, <2>1 DEF TypeOK
    <3> QED BY <1>1, <2>1, <3>1, <3>2 DEF TypeOK, PacketsIntact
  <2>4. \A j \in 0 .. pool_idx' - 1 : j >= pool_idx' - PoolSize => pool'[MbufAt(j)] = j
    <3> SUFFICES ASSUME NEW j \in 0 .. pool_idx, j >= pool_idx + 1 - PoolSize
                 PROVE  pool'[MbufAt(j)] = j
      BY <1>1, <2>1, Sizes
    <3>1. MbufAt(j) \in Mbuf /\ MbufAt(pool_idx) \in Mbuf
      BY <1>1, IndexType
    <3>2. CASE j = pool_idx
      BY <2>1, <3>1, <3>2 DEF TypeOK
    <3>3. CASE j < pool_idx
      <4>1. MbufAt(j) # MbufAt(pool_idx)
        BY <1>1, <3>3, MbufsDiffer, Sizes
      <4>2. pool[MbufAt(j)] = j
        BY <1>1, <3>3, Sizes DEF RingInv
      <4> QED BY <2>1, <3>1, <4>1, <4>2 DEF TypeOK
    <3> QED BY <1>1, <3>2, <3>3
  <2>5. RingInv'
    BY <1>1, <1>2, <2>1, <2>2, <2>4 DEF RingInv, mbuf_get
  <2> QED BY <2>3, <2>5
<1> QED BY <1>3, <1>4

(* The full test: it passes only when the counters are less than QLen - 1  *)
(* apart, and stays true whatever the consumer does next.                  *)
LEMMA IInvWriteCheck ==
    ASSUME IInv, lq_write_check
    PROVE  IInv'
<1> USE DEF IInv
<1>1. /\ p_pc = "full" /\ p_pc' = "store" /\ NextIndex(write) # read
      /\ UNCHANGED <<stop, q, write, read, pool, pool_idx, p_m, c_pc, c_m, seen, joined>>
  BY DEF lq_write_check, consVars
<1>2. Published' = Published /\ Taken' = Taken
  BY <1>1 DEF Published, Taken
<1>3. TypeOK' /\ PacketsIntact'
  BY <1>1 DEF TypeOK, PacketsIntact
<1>4. Published - Taken # QLen - 1
  BY <1>1, FullAt, CounterType DEF RingInv
<1>5. Published - Taken <= QLen - 2
  BY <1>1, <1>4, CounterType, Sizes DEF RingInv
<1>6. RingInv'
  BY <1>1, <1>2, <1>5 DEF RingInv
<1> QED BY <1>3, <1>6

(* The slot stored to is none of those the ring occupies.                  *)
LEMMA IInvStore ==
    ASSUME IInv, lq_write_store
    PROVE  IInv'
<1> USE DEF IInv
<1>1. /\ p_pc = "store" /\ p_pc' = "publish"
      /\ q' = [q EXCEPT ![Smap[write]] = p_m]
      /\ UNCHANGED <<stop, write, read, pool, pool_idx, p_m, c_pc, c_m, seen, joined>>
  BY DEF lq_write_store, consVars
<1>2. Published' = Published /\ Taken' = Taken
  BY <1>1 DEF Published, Taken
<1>3. Smap[write] = Slot(Published) /\ Slot(Published) \in Index
  BY IndexType, CounterType DEF RingInv, Slot
<1>4. TypeOK' /\ PacketsIntact'
  BY <1>1, <1>3 DEF TypeOK, PacketsIntact
<1>5. q'[Slot(Published)] = p_m
  BY <1>1, <1>3 DEF TypeOK
<1>6. \A j \in Taken .. Published - 1 : q'[Slot(j)] = MbufAt(j)
  <2> SUFFICES ASSUME NEW j \in Taken .. Published - 1
               PROVE  q'[Slot(j)] = MbufAt(j)
    OBVIOUS
  <2>1. j \in Nat /\ j < Published /\ Published - j < QLen
    BY <1>1, CounterType, Sizes DEF RingInv
  <2>2. Slot(j) # Slot(Published) /\ Slot(j) \in Index
    BY <2>1, SlotsDiffer, IndexType, CounterType
  <2>3. q[Slot(j)] = MbufAt(j)
    BY DEF RingInv
  <2> QED BY <1>1, <1>3, <2>2, <2>3 DEF TypeOK
<1>7. RingInv'
  BY <1>1, <1>2, <1>5, <1>6 DEF RingInv
<1> QED BY <1>4, <1>7

(* Publishing adds the stored packet to the ring.                          *)
LEMMA IInvPublish ==
    ASSUME IInv, lq_write_publish
    PROVE  IInv'
<1> USE DEF IInv
<1>1. /\ p_pc = "publish" /\ p_pc' = "get"
      /\ write' = NextIndex(write)
      /\ UNCHANGED <<stop, q, read, pool, pool_idx, p_m, c_pc, c_m, seen, joined>>
  BY DEF lq_write_publish, consVars
<1>2. Published' = Published + 1 /\ Taken' = Taken
  BY <1>1 DEF Published, Taken, TypeOK
<1>3. write' = IndexOf(Published + 1) /\ write' \in Index
  <2>1. write' = IndexOf(Published + 1)
    BY <1>1, NextIndexOf, CounterType DEF RingInv
  <2>2. Published + 1 \in Nat
    BY CounterType
  <2> QED BY <2>1, <2>2, IndexType
<1>4. TypeOK' /\ PacketsIntact'
  BY <1>1, <1>3 DEF TypeOK, PacketsIntact
<1>5. \A j \in Taken .. Published : q[Slot(j)] = MbufAt(j)
  <2> SUFFICES ASSUME NEW j \in Taken .. Published
               PROVE  q[Slot(j)] = MbufAt(j)
    OBVIOUS
  <2>1. CASE j = Published
    BY <1>1, <2>1 DEF RingInv
  <2>2. CASE j # Published
    BY <2>2, CounterType DEF RingInv
  <2> QED BY <2>1, <2>2
<1>6. RingInv'
  BY <1>1, <1>2, <1>3, <1>5, CounterType, Sizes DEF RingInv
<1> QED BY <1>4, <1>6

(* The empty test: it passes only when a packet is in the ring, and stays  *)
(* true whatever the producer does next.                                   *)
LEMMA IInvReadCheck ==
    ASSUME IInv, lq_read_check
    PROVE  IInv'
<1> USE DEF IInv
<1>1. /\ c_pc = "empty"
      /\ c_pc' = IF read = write THEN "check" ELSE "load"
      /\ UNCHANGED <<stop, q, write, read, pool, pool_idx, p_pc, p_m, c_m, seen, joined>>
  BY DEF lq_read_check, prodVars
<1>2. Published' = Published /\ Taken' = Taken
  BY <1>1 DEF Published, Taken
<1>3. TypeOK' /\ PacketsIntact'
  BY <1>1 DEF TypeOK, PacketsIntact
<1>4. read # write => Taken < Published
  BY CounterType DEF RingInv
<1>5. RingInv'
  BY <1>1, <1>2, <1>4 DEF RingInv
<1> QED BY <1>3, <1>5

(* The slot loaded holds the oldest packet in the ring.                    *)
LEMMA IInvLoad ==
    ASSUME IInv, lq_read_load
    PROVE  IInv'
<1> USE DEF IInv
<1>1. /\ c_pc = "load" /\ c_pc' = "advance"
      /\ c_m' = q[Smap[read]]
      /\ UNCHANGED <<stop, q, write, read, pool, pool_idx, p_pc, p_m, seen, joined>>
  BY DEF lq_read_load, prodVars
<1>2. Published' = Published /\ Taken' = Taken
  BY <1>1 DEF Published, Taken
<1>3. Smap[read] = Slot(Taken) /\ Slot(Taken) \in Index
  BY IndexType, CounterType DEF RingInv, Slot
<1>4. c_m' = MbufAt(Taken) /\ c_m' \in Mbuf
  BY <1>1, <1>3, CounterType DEF RingInv, TypeOK
<1>5. TypeOK' /\ PacketsIntact'
  BY <1>1, <1>4 DEF TypeOK, PacketsIntact
<1>6. RingInv'
  BY <1>1, <1>2, <1>4 DEF RingInv
<1> QED BY <1>5, <1>6

(* Advancing read hands the slot back to the producer, and takes the       *)
(* packet out of the ring into the consumer's hands.                       *)
LEMMA IInvAdvance ==
    ASSUME IInv, lq_read_advance
    PROVE  IInv'
<1> USE DEF IInv
<1>1. /\ c_pc = "advance" /\ c_pc' = "put"
      /\ read' = NextIndex(read)
      /\ UNCHANGED <<stop, q, write, pool, pool_idx, p_pc, p_m, c_m, seen, joined>>
  BY DEF lq_read_advance, prodVars
<1>2. Published' = Published /\ Taken' = Taken + 1
  BY <1>1 DEF Published, Taken
<1>3. read' = IndexOf(Taken + 1) /\ read' \in Index
  <2>1. read' = IndexOf(Taken + 1)
    BY <1>1, NextIndexOf, CounterType DEF RingInv
  <2>2. Taken + 1 \in Nat
    BY CounterType
  <2> QED BY <2>1, <2>2, IndexType
<1>4. TypeOK' /\ PacketsIntact'
  BY <1>1, <1>3 DEF TypeOK, PacketsIntact
<1>5. c_m = MbufAt(Taken) /\ Taken < Published
  BY <1>1 DEF RingInv
<1>6. RingInv'
  <2>1. Published \in Nat /\ Taken \in Nat /\ (Taken + 1) - 1 = Taken
    BY CounterType
  <2>2. /\ 0 <= Published' /\ Taken' <= Published'
        /\ Published' - Taken' <= IF p_pc' \in {"store", "publish"} THEN QLen - 2 ELSE QLen - 1
    BY <1>1, <1>2, <1>5, <2>1, Sizes DEF RingInv
  <2>3. write' = IndexOf(Published') /\ read' = IndexOf(Taken')
    BY <1>1, <1>2, <1>3 DEF RingInv
  <2>4. \A j \in Taken' .. Published' - 1 : q'[Slot(j)] = MbufAt(j)
    BY <1>1, <1>2, <2>1 DEF RingInv
  <2>5. \A j \in 0 .. pool_idx' - 1 : j >= pool_idx' - PoolSize => pool'[MbufAt(j)] = j
    BY <1>1 DEF RingInv
  <2>6. /\ p_pc' \in {"full", "store", "publish"} => p_m' = MbufAt(Published')
        /\ p_pc' = "publish" => q'[Slot(Published')] = p_m'
    BY <1>1, <1>2 DEF RingInv
  <2>7. c_pc' = "put" /\ c_m' = MbufAt(Taken' - 1)
    BY <1>1, <1>2, <1>5, <2>1
  <2> QED BY <2>2, <2>3, <2>4, <2>5, <2>6, <2>7 DEF RingInv
<1> QED BY <1>4, <1>6

(* The packet in the consumer's hands still has its number: the producer   *)
(* is at most a ring and one packet ahead, which is less than the pool.    *)
LEMMA IInvPut ==
    ASSUME IInv, mbuf_put
    PROVE  IInv'
<1> USE DEF IInv
<1>1. /\ c_pc = "put" /\ c_pc' = "check"
      /\ seen' = Append(seen, pool[c_m])
      /\ UNCHANGED <<stop, q, write, read, pool, pool_idx, p_pc, p_m, c_m, joined>>
  BY DEF mbuf_put, prodVars
<1>2. Taken = Len(seen) + 1 /\ Len(seen) \in Nat
  BY <1>1, CounterType DEF Taken
<1>3. Len(seen) \in 0 .. pool_idx - 1 /\ Len(seen) >= pool_idx - PoolSize
  BY <1>2, Sizes DEF RingInv, Published, TypeOK
<1>4. pool[c_m] = Len(seen)
  <2>1. c_m = MbufAt(Len(seen))
    BY <1>1, <1>2 DEF RingInv
  <2> QED BY <2>1, <1>3 DEF RingInv
<1>5. seen' \in Seq(Nat) /\ Len(seen') = Len(seen) + 1 /\ PacketsIntact'
  BY <1>1, <1>2, <1>4 DEF TypeOK, PacketsIntact
<1>6. TypeOK'
  BY <1>1, <1>5 DEF TypeOK
<1>7. Published' = Published /\ Taken' = Taken
  BY <1>1, <1>2, <1>5 DEF Published, Taken
<1>8. RingInv'
  BY <1>1, <1>7 DEF RingInv
<1> QED BY <1>5, <1>6, <1>8

(* The remaining steps touch neither the ring nor the pool.                *)
LEMMA IInvOther ==
    ASSUME IInv, sigint_handler \/ consumer_check \/ join \/ UNCHANGED vars
    PROVE  IInv'
<1> USE DEF IInv
<1>1. /\ UNCHANGED <<q, write, read, pool, pool_idx, p_pc, p_m, c_m, seen>>
      /\ stop' \in BOOLEAN /\ joined' \in BOOLEAN
      /\ \/ c_pc' = c_pc
         \/ c_pc = "check" /\ c_pc' \in {"empty", "done"}
  BY DEF sigint_handler, consumer_check, join, vars, prodVars, consVars, TypeOK
<1>2. Published' = Published /\ Taken' = Taken
  BY <1>1 DEF Published, Taken
<1>3. TypeOK' /\ PacketsIntact'
  BY <1>1 DEF TypeOK, PacketsIntact
<1>4. RingInv'
  BY <1>1, <1>2 DEF RingInv
<1> QED BY <1>3, <1>4

-----------------------------------------------------------------------------
(* The theorems.                                                           *)

(* Indices, ring, pool and program counters agree in every reachable       *)
(* state, for every ring length, slot map and number of packets.           *)
THEOREM IInvariant == Spec => []IInv
<1>1. Init => IInv
  BY IInvInit
<1>2. IInv /\ [Next]_vars => IInv'
  <2> SUFFICES ASSUME IInv, [Next]_vars
               PROVE  IInv'
    OBVIOUS
  <2>1. CASE mbuf_get
    BY <2>1, IInvGet
  <2>2. CASE lq_write_check
    BY <2>2, IInvWriteCheck
  <2>3. CASE lq_write_store
    BY <2>3, IInvStore
  <2>4. CASE lq_write_publish
    BY <2>4, IInvPublish
  <2>5. CASE lq_read_check
    BY <2>5, IInvReadCheck
  <2>6. CASE lq_read_load
    BY <2>6, IInvLoad
  <2>7. CASE lq_read_advance
    BY <2>7, IInvAdvance
  <2>8. CASE mbuf_put
    BY <2>8, IInvPut
  <2>9. CASE sigint_handler \/ consumer_check \/ join \/ UNCHANGED vars
    BY <2>9, IInvOther
  <2> QED BY <2>1, <2>2, <2>3, <2>4, <2>5, <2>6, <2>7, <2>8, <2>9, Zenon
          DEF Next, Producer, Consumer
<1> QED BY <1>1, <1>2, PTL DEF Spec

(* Every variable of the queue keeps its type; in particular the indices   *)
(* stay inside the ring and the packets inside the pool.                   *)
THEOREM TypeCorrect == Spec => []TypeOK
BY IInvariant, PTL DEF IInv

(* mbuf_put sees the packets 0, 1, 2, ... : lq_write and lq_read lose,     *)
(* repeat and reorder none, and mbuf_get never rewrites one too early.     *)
THEOREM PacketsCorrect == Spec => []PacketsIntact
BY IInvariant, PTL DEF IInv

(* mbuf_get never hands out a packet that the ring or the consumer holds.  *)
THEOREM PoolCorrect == Spec => []PoolSlotFree
<1>1. IInv => PoolSlotFree
  <2> SUFFICES ASSUME IInv, p_pc \in {"full", "store"}
               PROVE  /\ \A j \in Taken .. Published - 1 : q[Slot(j)] # p_m
                      /\ c_pc \in {"advance", "put"} => c_m # p_m
    BY DEF PoolSlotFree
  <2> USE DEF IInv
  <2>1. /\ Published \in Nat /\ Taken \in Nat /\ p_m = MbufAt(Published)
        /\ Taken <= Published /\ Published - Taken <= QLen - 1
    BY CounterType, Sizes DEF RingInv
  <2>2. \A j \in Nat : j < Published /\ Published - j < PoolSize => MbufAt(j) # p_m
    BY <2>1, MbufsDiffer
  <2>3. \A j \in Taken .. Published - 1 : q[Slot(j)] # p_m
    <3> SUFFICES ASSUME NEW j \in Taken .. Published - 1
                 PROVE  q[Slot(j)] # p_m
      OBVIOUS
    <3>1. q[Slot(j)] = MbufAt(j)
      BY DEF RingInv
    <3> QED BY <2>1, <2>2, <3>1, Sizes
  <2>4. ASSUME c_pc = "advance" PROVE c_m # p_m
    <3>1. c_m = MbufAt(Taken) /\ Taken < Published
      BY <2>4 DEF RingInv
    <3> QED BY <2>1, <2>2, <3>1, Sizes
  <2>5. ASSUME c_pc = "put" PROVE c_m # p_m
    <3>1. c_m = MbufAt(Taken - 1) /\ Taken - 1 \in Nat
      BY <2>5, CounterType DEF RingInv, Taken
    <3> QED BY <2>1, <2>2, <3>1, Sizes
  <2> QED BY <2>3, <2>4, <2>5
<1> QED BY <1>1, IInvariant, PTL

(* The inductive invariant of ring, pool and threads itself.               *)
THEOREM RingCorrect == Spec => []RingInv
BY IInvariant, PTL DEF IInv

-----------------------------------------------------------------------------
(* The refinement.  In terms of the counters the ring holds the packets    *)
(* Taken .. Published - 1 and the packets below Taken have left it.        *)

RingOf(a, b) == [k \in 1 .. b - a |-> a + k - 1]
OutOf(a)     == [i \in 1 .. a |-> i - 1]
Out          == IF c_pc = "put" THEN Append(seen, pool[c_m]) ELSE seen

(* Sequences that are of this form.                                        *)
LEMMA IsRingOf ==
    ASSUME NEW a \in Nat, NEW b \in Nat, a <= b, NEW s \in Seq(Nat), Len(s) = b - a,
           \A k \in 1 .. b - a : s[k] = a + k - 1
    PROVE  s = RingOf(a, b)
BY DEF RingOf

LEMMA IsOutOf ==
    ASSUME NEW a \in Nat, NEW s \in Seq(Nat), Len(s) = a,
           \A i \in 1 .. a : s[i] = i - 1
    PROVE  s = OutOf(a)
BY DEF OutOf

(* What the refinement mapping computes from indices, slots and pool.      *)
LEMMA MappedState == IInv => Ring = RingOf(Taken, Published) /\ Out = OutOf(Taken)
<1> SUFFICES ASSUME IInv
             PROVE  Ring = RingOf(Taken, Published) /\ Out = OutOf(Taken)
  OBVIOUS
<1> USE DEF IInv
<1>1. /\ Published \in Nat /\ Taken \in Nat /\ Len(seen) \in Nat
      /\ Taken <= Published /\ Published - Taken < QLen
      /\ pool_idx \in Nat /\ pool_idx - 1 <= Published /\ Published <= pool_idx
  BY CounterType, Sizes DEF RingInv, TypeOK, Published
<1>2. (write - read) % QLen = Published - Taken
  BY <1>1, Sizes, ModDistance DEF RingInv, IndexOf
<1>3. ASSUME NEW j \in Taken - 1 .. Published - 1, j >= 0
      PROVE  pool[MbufAt(j)] = j
  <2>1. j \in 0 .. pool_idx - 1 /\ j >= pool_idx - PoolSize
    BY <1>1, <1>3, Sizes
  <2> QED BY <2>1 DEF RingInv
<1>4. ASSUME NEW k \in 1 .. Published - Taken
      PROVE  pool[q[Smap[(read + k - 1) % QLen]]] = Taken + k - 1
  <2> DEFINE d == k - 1
             j == Taken + d
  <2>1. d \in Nat /\ j \in Taken .. Published - 1 /\ read + k - 1 = (Taken % QLen) + d
    BY <1>1, Sizes, IndexType DEF RingInv, IndexOf, Index
  <2>2. ((Taken % QLen) + d) % QLen = (Taken + d) % QLen
    <3> HIDE DEF d
    <3> QED BY <1>1, <2>1, Sizes, ModAdd, Zenon
  <2>3. Smap[(read + k - 1) % QLen] = Slot(j)
    BY <2>1, <2>2, Zenon DEF Slot, IndexOf
  <2>4. q[Slot(j)] = MbufAt(j)
    BY <2>1 DEF RingInv
  <2>5. pool[MbufAt(j)] = j
    BY <1>1, <1>3, <2>1
  <2> QED BY <2>3, <2>4, <2>5
<1>5. Ring = RingOf(Taken, Published)
  BY <1>2, <1>4, Zenon DEF Ring, RingOf
<1>6. seen = OutOf(Len(seen))
  BY <1>1 DEF OutOf, TypeOK, PacketsIntact
<1>7. CASE c_pc = "put"
  <2>1. Taken = Len(seen) + 1 /\ c_m = MbufAt(Len(seen))
    BY <1>1, <1>7 DEF RingInv, Taken
  <2>2. pool[c_m] = Len(seen)
    BY <1>1, <1>3, <2>1
  <2>3. Append(seen, Len(seen)) = OutOf(Len(seen) + 1)
    <3>1. seen \in Seq(Nat) /\ \A i \in 1 .. Len(seen) : seen[i] = i - 1
      BY DEF TypeOK, PacketsIntact
    <3>2. /\ Append(seen, Len(seen)) \in Seq(Nat)
          /\ Len(Append(seen, Len(seen))) = Len(seen) + 1
          /\ \A i \in 1 .. Len(seen) + 1 : Append(seen, Len(seen))[i] = i - 1
      BY <1>1, <3>1
    <3> DEFINE t == Append(seen, Len(seen))
               n == Len(seen) + 1
    <3>3. n \in Nat /\ t \in Seq(Nat) /\ Len(t) = n /\ \A i \in 1 .. n : t[i] = i - 1
      BY <1>1, <3>2
    <3> HIDE DEF t, n
    <3>4. t = OutOf(n)
      BY <3>3, IsOutOf
    <3> QED BY <3>4 DEF t, n
  <2> QED BY <1>5, <1>7, <2>1, <2>2, <2>3 DEF Out
<1>8. CASE c_pc # "put"
  BY <1>5, <1>6, <1>8 DEF Out, Taken
<1> QED BY <1>7, <1>8

(* The bound on packets taken from the pool.                               *)
LEMMA PoolBound == Spec => [](pool_idx <= MaxPkts)
<1>1. Init => pool_idx <= MaxPkts
  BY SpscqAssumption DEF Init
<1>2. IInv /\ pool_idx <= MaxPkts /\ [Next]_vars => (pool_idx <= MaxPkts)'
  <2> SUFFICES ASSUME IInv, pool_idx <= MaxPkts, [Next]_vars
               PROVE  (pool_idx <= MaxPkts)'
    OBVIOUS
  <2>1. CASE mbuf_get
    BY <2>1, SpscqAssumption DEF mbuf_get, IInv, TypeOK
  <2>2. CASE ~mbuf_get
    BY <2>2 DEF Next, Producer, Consumer, sigint_handler, lq_write_check, lq_write_store,
                lq_write_publish, lq_read_check, lq_read_load, lq_read_advance, mbuf_put,
                consumer_check, join, prodVars, vars
  <2> QED BY <2>1, <2>2
<1> QED BY <1>1, <1>2, IInvariant, PTL DEF Spec

(* Only publishing and advancing read move the counters, each by one.      *)
LEMMA CountersMove ==
    ASSUME IInv, [Next]_vars
    PROVE  \/ Published' = Published /\ Taken' = Taken
           \/ lq_write_publish /\ Published' = Published + 1 /\ Taken' = Taken
           \/ lq_read_advance /\ Published' = Published /\ Taken' = Taken + 1
<1> USE DEF IInv
<1>1. pool_idx \in Nat /\ Len(seen) \in Nat
  BY DEF TypeOK
<1>2. CASE mbuf_get
  BY <1>1, <1>2 DEF mbuf_get, consVars, Published, Taken
<1>3. CASE lq_write_check \/ lq_write_store
  BY <1>3 DEF lq_write_check, lq_write_store, consVars, Published, Taken
<1>4. CASE lq_write_publish
  BY <1>1, <1>4 DEF lq_write_publish, consVars, Published, Taken
<1>5. CASE lq_read_check \/ lq_read_load \/ consumer_check
  BY <1>5 DEF lq_read_check, lq_read_load, consumer_check, prodVars, Published, Taken
<1>6. CASE lq_read_advance
  BY <1>1, <1>6 DEF lq_read_advance, prodVars, Published, Taken
<1>7. CASE mbuf_put
  <2>1. Len(seen') = Len(seen) + 1
    BY <1>7, IInvPut DEF mbuf_put, TypeOK
  <2> QED BY <1>7, <2>1 DEF mbuf_put, prodVars, Published, Taken
<1>8. CASE sigint_handler \/ join \/ UNCHANGED vars
  BY <1>8 DEF sigint_handler, join, vars, prodVars, consVars, Published, Taken
<1> QED BY <1>2, <1>3, <1>4, <1>5, <1>6, <1>7, <1>8, Zenon DEF Next, Producer, Consumer

(* A packet that enters the ring goes to its end.                          *)
LEMMA RingOfPut ==
    ASSUME NEW a \in Nat, NEW b \in Nat, a <= b
    PROVE  RingOf(a, b + 1) = Append(RingOf(a, b), b) /\ Len(RingOf(a, b)) = b - a
<1>1. RingOf(a, b) \in Seq(Nat) /\ Len(RingOf(a, b)) = b - a
  BY DEF RingOf
<1>2. \A k \in 1 .. b - a : RingOf(a, b)[k] = a + k - 1
  BY DEF RingOf
<1>3. /\ Append(RingOf(a, b), b) \in Seq(Nat)
      /\ Len(Append(RingOf(a, b), b)) = b - a + 1
      /\ \A k \in 1 .. b - a + 1 : Append(RingOf(a, b), b)[k] = a + k - 1
  BY <1>1, <1>2
<1>4. b + 1 \in Nat /\ a <= b + 1 /\ (b + 1) - a = b - a + 1
  OBVIOUS
<1> DEFINE s == Append(RingOf(a, b), b)
<1>5. /\ s \in Seq(Nat) /\ Len(s) = (b + 1) - a
      /\ \A k \in 1 .. (b + 1) - a : s[k] = a + k - 1
  BY <1>3, <1>4
<1> HIDE DEF s
<1>6. s = RingOf(a, b + 1)
  BY <1>4, <1>5, IsRingOf
<1> QED BY <1>1, <1>6 DEF s

(* One that leaves it was its head, and joins those that have left.        *)
LEMMA RingOfTake ==
    ASSUME NEW a \in Nat, NEW b \in Nat, a < b
    PROVE  /\ RingOf(a, b) # << >>
           /\ OutOf(a + 1) = Append(OutOf(a), Head(RingOf(a, b)))
           /\ RingOf(a + 1, b) = Tail(RingOf(a, b))
<1>1. RingOf(a, b) \in Seq(Nat) /\ Len(RingOf(a, b)) = b - a
  BY DEF RingOf
<1>2. \A k \in 1 .. b - a : RingOf(a, b)[k] = a + k - 1
  BY DEF RingOf
<1>3. RingOf(a, b) # << >> /\ Head(RingOf(a, b)) = a
  BY <1>1, <1>2
<1>4. RingOf(a + 1, b) = Tail(RingOf(a, b))
  <2>1. /\ Tail(RingOf(a, b)) \in Seq(Nat) /\ Len(Tail(RingOf(a, b))) = b - (a + 1)
        /\ \A k \in 1 .. b - (a + 1) : Tail(RingOf(a, b))[k] = (a + 1) + k - 1
    BY <1>1, <1>2, <1>3
  <2> DEFINE s == Tail(RingOf(a, b))
             n == a + 1
  <2>2. /\ n \in Nat /\ n <= b /\ s \in Seq(Nat) /\ Len(s) = b - n
        /\ \A k \in 1 .. b - n : s[k] = n + k - 1
    BY <2>1
  <2> HIDE DEF s, n
  <2>3. s = RingOf(n, b)
    BY <2>2, IsRingOf
  <2> QED BY <2>3 DEF s, n
<1>5. OutOf(a + 1) = Append(OutOf(a), a)
  <2>1. OutOf(a) \in Seq(Nat) /\ Len(OutOf(a)) = a /\ \A i \in 1 .. a : OutOf(a)[i] = i - 1
    BY DEF OutOf
  <2>2. /\ Append(OutOf(a), a) \in Seq(Nat) /\ Len(Append(OutOf(a), a)) = a + 1
        /\ \A i \in 1 .. a + 1 : Append(OutOf(a), a)[i] = i - 1
    BY <2>1
  <2> DEFINE s == Append(OutOf(a), a)
             n == a + 1
  <2>3. n \in Nat /\ s \in Seq(Nat) /\ Len(s) = n /\ \A i \in 1 .. n : s[i] = i - 1
    BY <2>2
  <2> HIDE DEF s, n
  <2>4. s = OutOf(n)
    BY <2>3, IsOutOf
  <2> QED BY <2>4 DEF s, n
<1> QED BY <1>3, <1>4, <1>5

(* lq_write and lq_read implement a bounded FIFO channel, for every ring   *)
(* length, slot map and number of packets: publishing write is Put,        *)
(* advancing read is Take, and every other step leaves the channel alone.  *)
THEOREM FifoCorrect == Spec => ImplementsFifo
<1>1. Init => Channel!Init
  <2> SUFFICES ASSUME Init PROVE Channel!Init OBVIOUS
  <2>1. IInv /\ Published = 0 /\ Taken = 0
    BY IInvInit DEF Init, Published, Taken
  <2>2. Ring = RingOf(0, 0) /\ Out = OutOf(0)
    BY <2>1, MappedState
  <2>3. RingOf(0, 0) = << >> /\ OutOf(0) = << >>
    BY DEF RingOf, OutOf
  <2> QED BY <2>2, <2>3 DEF Channel!Init, Out
<1>2. IInv /\ IInv' /\ (pool_idx <= MaxPkts) /\ [Next]_vars => [Channel!Next]_<<Ring, Out>>
  <2> SUFFICES ASSUME IInv, IInv', pool_idx <= MaxPkts, [Next]_vars
               PROVE  [Channel!Next]_<<Ring, Out>>
    OBVIOUS
  <2> DEFINE a == Taken
             b == Published
  <2>1. /\ a \in Nat /\ b \in Nat /\ a <= b
        /\ Ring = RingOf(a, b) /\ Out = OutOf(a)
    BY MappedState, CounterType DEF IInv, RingInv
  <2>2. Ring' = RingOf(a', b') /\ Out' = OutOf(a')
    <3>1. (IInv => Ring = RingOf(Taken, Published) /\ Out = OutOf(Taken))'
      BY MappedState, PTL
    <3> QED BY <3>1
  <2>3. CASE b' = b /\ a' = a
    BY <2>1, <2>2, <2>3
  <2>4. CASE lq_write_publish /\ b' = b + 1 /\ a' = a
    <3>1. b - a <= QLen - 2 /\ b \in 0 .. MaxPkts
      BY <2>1, <2>4, SpscqAssumption, Sizes DEF lq_write_publish, IInv, RingInv, Published, TypeOK
    <3>2. Ring' = Append(Ring, b) /\ Len(Ring) = b - a /\ Out' = Out
      BY <2>1, <2>2, <2>4, RingOfPut
    <3>3. Len(Ring) < QLen - 1
      BY <2>1, <3>1, <3>2, Sizes
    <3> QED BY <3>1, <3>2, <3>3 DEF Channel!Next, Channel!Put, Out
  <2>5. CASE lq_read_advance /\ b' = b /\ a' = a + 1
    <3>1. a < b
      BY <2>5 DEF lq_read_advance, IInv, RingInv
    <3>2. Ring # << >> /\ Out' = Append(Out, Head(Ring)) /\ Ring' = Tail(Ring)
      BY <2>1, <2>2, <2>5, <3>1, RingOfTake
    <3> QED BY <3>2 DEF Channel!Next, Channel!Take, Out
  <2> QED BY <2>3, <2>4, <2>5, CountersMove
<1> QED BY <1>1, <1>2, IInvariant, PoolBound, PTL DEF Spec, ImplementsFifo, Channel!Spec, Out

=============================================================================
