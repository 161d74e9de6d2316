------------------------------- MODULE Spscq --------------------------------
(***************************************************************************)
(* The benchmark of guestend/simplified-spscq: Lamport's lock-free queue   *)
(* (spscq.h: lq_write, lq_read) between a producer and a consumer thread   *)
(* (spscq.cpp), packets from a pool that is reused round robin without     *)
(* ever being freed, and a SIGINT handler that asks both threads to stop.  *)
(* Each access to memory the other thread reads or writes is one action;   *)
(* on x86 stores become visible in program order.                          *)
(***************************************************************************)
EXTENDS Integers, Sequences

CONSTANTS
    LineSlots, \* slots of the ring in a cache line (8)
    Lines,     \* cache lines of the ring (32)
    Shuffle,   \* deceive_hw_data_prefetcher
    Smap,      \* SMAP: the slot each ring index uses
    MaxPkts    \* bound: packets the producer may take from the pool

(* qlen, a power of two no smaller than a cache line.                      *)
QLen == LineSlots * Lines

(* std::shuffle: any permutation.                                          *)
Shuffles(S) == {f \in [S -> S] : \A x, y \in S : f[x] = f[y] => x = y}

(* What qslotmap_init may leave in smap: the identity, or the cache lines  *)
(* in an order v and the slots of line d in an order u[d].                 *)
qslotmap_init(smap) ==
    IF ~Shuffle
    THEN smap = [i \in 0 .. QLen - 1 |-> i]
    ELSE \E v \in Shuffles(0 .. Lines - 1),
            u \in [0 .. Lines - 1 -> Shuffles(0 .. LineSlots - 1)] :
              smap = [i \in 0 .. QLen - 1 |-> LineSlots * v[i \div LineSlots]
                                              + u[i \div LineSlots][i % LineSlots]]

ASSUME SpscqAssumption ==
    /\ LineSlots \in Nat \ {0} /\ Lines \in Nat
    /\ QLen \in Nat /\ QLen >= 2
    /\ Shuffle \in BOOLEAN
    /\ qslotmap_init(Smap)
    /\ MaxPkts \in Nat

VARIABLES
    stop,      \* set by the SIGINT handler
    q,         \* the ring: pool slots
    write,     \* next index to fill
    read,      \* next index to empty
    pool,      \* pool[i]: the len field of packet i
    pool_idx,  \* packets taken from the pool so far
    p_pc,      \* producer: "get", "full", "store", "publish", "done"
    p_m,       \* the packet the producer holds
    c_pc,      \* consumer: "empty", "load", "advance", "put", "check", "done"
    c_m,       \* the packet the consumer holds
    seen,      \* history: the len of each packet given to mbuf_put
    joined     \* main has returned from both pthread_join calls

prodVars == <<q, write, pool, pool_idx, p_pc, p_m>>
consVars == <<read, c_pc, c_m, seen>>
vars     == <<stop, q, write, read, pool, pool_idx, p_pc, p_m, c_pc, c_m, seen, joined>>

PoolSize == 2 * QLen
Index    == 0 .. QLen - 1
Mbuf     == 0 .. PoolSize - 1

(* Faulty variants: the write and read indices are not masked; the pool is *)
(* only as large as the ring.                                              *)
NextIndex_Unmasked(i) == i + 1
MbufAt_SmallPool(n)   == n % QLen

(* (i + 1) & qmask and pool_idx & pool_mask, for power-of-two sizes.       *)
NextIndex(i) == (i + 1) % QLen
MbufAt(n)    == n % PoolSize

(* Where the n-th packet passes through the ring.                          *)
IndexOf(n) == n % QLen
Slot(n)    == Smap[IndexOf(n)]

TypeOK ==
    /\ stop \in BOOLEAN
    /\ q \in [Index -> Mbuf]
    /\ write \in Index
    /\ read \in Index
    /\ pool \in [Mbuf -> Nat]
    /\ pool_idx \in Nat
    /\ p_pc \in {"get", "full", "store", "publish", "done"}
    /\ p_m \in Mbuf
    /\ c_pc \in {"empty", "load", "advance", "put", "check", "done"}
    /\ c_m \in Mbuf
    /\ seen \in Seq(Nat)
    /\ joined \in BOOLEAN

Init ==
    /\ stop = FALSE
    /\ q = [i \in Index |-> 0]
    /\ write = 0
    /\ read = 0
    /\ pool = [i \in Mbuf |-> 0]
    /\ pool_idx = 0
    /\ p_pc = "get"
    /\ p_m = 0
    /\ c_pc = "empty"
    /\ c_m = 0
    /\ seen = << >>
    /\ joined = FALSE

-----------------------------------------------------------------------------
sigint_handler ==
    /\ ~stop
    /\ stop' = TRUE
    /\ UNCHANGED <<prodVars, consVars, joined>>

(* while (!stop) { m = mbuf_get(); ...                                     *)
mbuf_get ==
    /\ p_pc = "get"
    /\ IF stop
         THEN /\ p_pc' = "done"
              /\ UNCHANGED <<pool, pool_idx, p_m>>
         ELSE /\ pool_idx < MaxPkts
              /\ p_m' = MbufAt(pool_idx)
              /\ pool' = [pool EXCEPT ![MbufAt(pool_idx)] = pool_idx]
              /\ pool_idx' = pool_idx + 1
              /\ p_pc' = "full"
    /\ UNCHANGED <<stop, q, write, consVars, joined>>

(* Faulty variant: no test for a full ring.                                *)
lq_write_check_Skipped ==
    /\ p_pc = "full"
    /\ p_pc' = "store"
    /\ UNCHANGED <<stop, q, write, pool, pool_idx, p_m, consVars, joined>>

(* lq_write: while the ring is full it returns -1 and is called again; the *)
(* retry loop does not look at stop.                                       *)
lq_write_check ==
    /\ p_pc = "full"
    /\ NextIndex(write) # read
    /\ p_pc' = "store"
    /\ UNCHANGED <<stop, q, write, pool, pool_idx, p_m, consVars, joined>>

(* Faulty variant: the slot map is used on the reading side only.          *)
lq_write_store_Unmapped ==
    /\ p_pc = "store"
    /\ q' = [q EXCEPT ![write] = p_m]
    /\ p_pc' = "publish"
    /\ UNCHANGED <<stop, write, pool, pool_idx, p_m, consVars, joined>>

lq_write_store ==
    /\ p_pc = "store"
    /\ q' = [q EXCEPT ![Smap[write]] = p_m]
    /\ p_pc' = "publish"
    /\ UNCHANGED <<stop, write, pool, pool_idx, p_m, consVars, joined>>

lq_write_publish ==
    /\ p_pc = "publish"
    /\ write' = NextIndex(write)
    /\ p_pc' = "get"
    /\ UNCHANGED <<stop, q, pool, pool_idx, p_m, consVars, joined>>

Producer == mbuf_get \/ lq_write_check \/ lq_write_store \/ lq_write_publish

(* lq_read: an empty ring is polled again unless stop is set.              *)
lq_read_check ==
    /\ c_pc = "empty"
    /\ c_pc' = IF read = write THEN "check" ELSE "load"
    /\ UNCHANGED <<stop, prodVars, read, c_m, seen, joined>>

lq_read_load ==
    /\ c_pc = "load"
    /\ c_m' = q[Smap[read]]
    /\ c_pc' = "advance"
    /\ UNCHANGED <<stop, prodVars, read, seen, joined>>

lq_read_advance ==
    /\ c_pc = "advance"
    /\ read' = NextIndex(read)
    /\ c_pc' = "put"
    /\ UNCHANGED <<stop, prodVars, c_m, seen, joined>>

(* ++pkt_cnt; mbuf_put reads m->len.                                       *)
mbuf_put ==
    /\ c_pc = "put"
    /\ seen' = Append(seen, pool[c_m])
    /\ c_pc' = "check"
    /\ UNCHANGED <<stop, prodVars, read, c_m, joined>>

(* Faulty variant: the consumer polls an empty ring whatever stop says.    *)
consumer_check_NoStop ==
    /\ c_pc = "check"
    /\ c_pc' = "empty"
    /\ UNCHANGED <<stop, prodVars, read, c_m, seen, joined>>

consumer_check ==
    /\ c_pc = "check"
    /\ c_pc' = IF stop THEN "done" ELSE "empty"
    /\ UNCHANGED <<stop, prodVars, read, c_m, seen, joined>>

Consumer == lq_read_check \/ lq_read_load \/ lq_read_advance \/ mbuf_put \/ consumer_check

(* main: join both threads.                                                *)
join ==
    /\ ~joined /\ p_pc = "done" /\ c_pc = "done"
    /\ joined' = TRUE
    /\ UNCHANGED <<stop, prodVars, consVars>>

Next == sigint_handler \/ Producer \/ Consumer \/ join

(* Both threads and main are scheduled for ever, and `timeout' delivers    *)
(* SIGINT.                                                                 *)
Fairness == WF_vars(sigint_handler) /\ WF_vars(Producer) /\ WF_vars(Consumer) /\ WF_vars(join)

Spec == Init /\ [][Next]_vars /\ Fairness

-----------------------------------------------------------------------------
(* Properties.                                                             *)

(* Packets published in the ring and packets taken out of it, ever.        *)
Published == IF p_pc \in {"full", "store", "publish"} THEN pool_idx - 1 ELSE pool_idx
Taken     == IF c_pc = "put" THEN Len(seen) + 1 ELSE Len(seen)

(* The consumer gives mbuf_put every packet exactly once, in the order the *)
(* producer numbered them, and with the number the producer wrote: no      *)
(* packet is lost, repeated, reordered, or overwritten by the reuse of the *)
(* pool while it is still in use.                                          *)
PacketsIntact == \A i \in 1 .. Len(seen) : seen[i] = i - 1

(* The pool slot the producer has just rewritten is neither in the ring    *)
(* nor in the consumer's hands: twice the ring is enough slots (main:      *)
(* pool_mask).                                                             *)
PoolSlotFree ==
    p_pc \in {"full", "store"} =>
        /\ \A j \in Taken .. Published - 1 : q[Slot(j)] # p_m
        /\ c_pc \in {"advance", "put"} => c_m # p_m

(* The inductive invariant behind both.  Indices are the counters modulo   *)
(* the ring; the ring holds the packets taken from the pool and not yet    *)
(* read, in order; the last PoolSize packets still carry their number; and *)
(* each thread's pc bounds how far the other may have come.                *)
RingInv ==
    /\ 0 <= Published /\ Taken <= Published
    /\ Published - Taken <= IF p_pc \in {"store", "publish"} THEN QLen - 2 ELSE QLen - 1
    /\ write = IndexOf(Published)
    /\ read = IndexOf(Taken)
    /\ \A j \in Taken .. Published - 1 : q[Slot(j)] = MbufAt(j)
    /\ \A j \in 0 .. pool_idx - 1 : j >= pool_idx - PoolSize => pool[MbufAt(j)] = j
    /\ p_pc \in {"full", "store", "publish"} => p_m = MbufAt(Published)
    /\ p_pc = "publish" => q[Slot(Published)] = p_m
    /\ c_pc \in {"load", "advance"} => Taken < Published
    /\ c_pc = "advance" => c_m = MbufAt(Taken)
    /\ c_pc = "put" => c_m = MbufAt(Taken - 1)

(* The ring as a sequence of packet numbers, oldest first.                 *)
Ring == [k \in 1 .. (write - read) % QLen |-> pool[q[Smap[(read + k - 1) % QLen]]]]

Channel == INSTANCE FifoChannel WITH
    Capacity <- QLen - 1,
    Value    <- 0 .. MaxPkts,
    chan     <- Ring,
    out      <- IF c_pc = "put" THEN Append(seen, pool[c_m]) ELSE seen

(* lq_write and lq_read implement a bounded FIFO channel of QLen - 1       *)
(* packets: a packet enters when write is published, leaves when read is   *)
(* advanced.                                                               *)
ImplementsFifo == Channel!Spec

(* The SIGINT handler ends the consumer thread.                            *)
ConsumerStops == stop ~> (c_pc = "done")

(* run as `timeout --signal=SIGINT <duration> ./spscq', "duration in       *)
(* seconds of each test" (affinity_test.py:10): the signal ends the        *)
(* program, that is, main's joins return.                                  *)
Terminates == stop ~> joined

=============================================================================
