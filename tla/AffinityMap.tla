---------------------------- MODULE AffinityMap -----------------------------
(***************************************************************************)
(* How a guest sched_setaffinity reaches the host: the injected kprobe     *)
(* program (guestend/bytecode.c) appends the mask to a BPF array map, and  *)
(* the daemon's child (guestend/daemon.c) polls the map and forwards each  *)
(* entry to the device with an ioctl of the driver.                        *)
(*                                                                         *)
(* Entry 0 of the map is the number of entries in use.  The probe runs     *)
(* with preemption disabled on the CPU of the caller, so in a guest with   *)
(* one CPU nothing else runs until it returns; on several CPUs probes      *)
(* interleave with each other and with the child at every map access.      *)
(* Values are 64-bit words: a mask is the number whose bits it sets, which *)
(* matters because the code forwards numbers that are not masks.           *)
(***************************************************************************)
EXTENDS Naturals, Sequences, FiniteSets

CONSTANTS
    Cpus,       \* guest CPUs
    MaxEntries, \* MAX_ENTRIES of the map and MAX_CPU of the daemon (both 64)
    Requests,   \* masks guest programs ask for: 0 when they name no CPU below 64
    IntValues,  \* number of values of the int the ioctl copies (2^32)
    MaxCalls    \* bound: calls of sched_setaffinity

ASSUME MapAssumption ==
    /\ Cpus # {} /\ IsFiniteSet(Cpus)
    /\ MaxEntries \in Nat /\ MaxEntries >= 2
    /\ Requests \subseteq Nat
    /\ IntValues \in Nat \ {0}
    /\ MaxCalls \in Nat

VARIABLES
    map,        \* cpuindex_mask_maps
    k_pc,       \* per CPU: "out" of the probe, "add", "index", "update"
    k_mask,     \* per CPU: cpu_set
    k_index,    \* per CPU: index
    calls,      \* history: the masks asked for
    c_pc,       \* child: "poll", "look", "ioctl", "clear", "reset"
    c_i,        \* loop variable i
    c_value,    \* value
    forwarded   \* history: <<i, value>> of each ioctl

probeVars == <<k_pc, k_mask, k_index, calls>>
childVars == <<c_pc, c_i, c_value, forwarded>>
vars      == <<map, k_pc, k_mask, k_index, calls, c_pc, c_i, c_value, forwarded>>

Entries == 0 .. MaxEntries - 1

TypeOK ==
    /\ map \in [Entries -> Nat]
    /\ k_pc \in [Cpus -> {"out", "add", "index", "update"}]
    /\ k_mask \in [Cpus -> Nat]
    /\ k_index \in [Cpus -> Nat]
    /\ calls \in Seq(Requests)
    /\ c_pc \in {"poll", "look", "ioctl", "clear", "reset"}
    /\ c_i \in 0 .. MaxEntries
    /\ c_value \in Nat
    /\ forwarded \in Seq((1 .. MaxEntries) \X Nat)

Init ==
    /\ map = [i \in Entries |-> 0]
    /\ k_pc = [c \in Cpus |-> "out"]
    /\ k_mask = [c \in Cpus |-> 0]
    /\ k_index = [c \in Cpus |-> 0]
    /\ calls = << >>
    /\ c_pc = "poll"
    /\ c_i = 0
    /\ c_value = 0
    /\ forwarded = << >>

(* bpf_map_update_elem: an index outside the array is refused.             *)
Updated(i, v) == IF i \in Entries THEN [map EXCEPT ![i] = v] ELSE map

(* bpf_map_lookup_elem from user space: outside the array the caller's     *)
(* variable keeps its value.                                               *)
Lookup(i, old) == IF i \in Entries THEN map[i] ELSE old

-----------------------------------------------------------------------------
(* bpf_prog1 on CPU c: the check for a full map, the atomic increment, the *)
(* second read of the counter, the store.                                  *)

bpf_prog1_enter(c, m) ==
    /\ k_pc[c] = "out" /\ Len(calls) < MaxCalls
    /\ calls' = Append(calls, m)
    /\ k_mask' = [k_mask EXCEPT ![c] = m]
    /\ k_pc' = [k_pc EXCEPT ![c] = IF map[0] = MaxEntries - 1 THEN "out" ELSE "add"]
    /\ UNCHANGED <<map, k_index, childVars>>

bpf_prog1_add(c) ==
    /\ k_pc[c] = "add"
    /\ map' = [map EXCEPT ![0] = @ + 1]
    /\ k_pc' = [k_pc EXCEPT ![c] = "index"]
    /\ UNCHANGED <<k_mask, k_index, calls, childVars>>

bpf_prog1_index(c) ==
    /\ k_pc[c] = "index"
    /\ k_index' = [k_index EXCEPT ![c] = map[0]]
    /\ k_pc' = [k_pc EXCEPT ![c] = "update"]
    /\ UNCHANGED <<map, k_mask, calls, childVars>>

(* Faulty variants: fills the map from its end; stores the index instead   *)
(* of the mask.                                                            *)
bpf_prog1_update_FromEnd(c) ==
    /\ k_pc[c] = "update"
    /\ map' = Updated(MaxEntries - k_index[c], k_mask[c])
    /\ k_pc' = [k_pc EXCEPT ![c] = "out"]
    /\ UNCHANGED <<k_mask, k_index, calls, childVars>>

bpf_prog1_update_Index(c) ==
    /\ k_pc[c] = "update"
    /\ map' = Updated(k_index[c], k_index[c])
    /\ k_pc' = [k_pc EXCEPT ![c] = "out"]
    /\ UNCHANGED <<k_mask, k_index, calls, childVars>>

bpf_prog1_update(c) ==
    /\ k_pc[c] = "update"
    /\ map' = Updated(k_index[c], k_mask[c])
    /\ k_pc' = [k_pc EXCEPT ![c] = "out"]
    /\ UNCHANGED <<k_mask, k_index, calls, childVars>>

Probe(c) ==
    \/ \E m \in Requests : bpf_prog1_enter(c, m)
    \/ bpf_prog1_add(c) \/ bpf_prog1_index(c) \/ bpf_prog1_update(c)

-----------------------------------------------------------------------------
(* The child's poll loop.  It needs a CPU that is not inside the probe.    *)

CpuFree == \E c \in Cpus : k_pc[c] = "out"

(* nanosleep, then look at the count; when it is 0 the child sleeps again, *)
(* otherwise the scan starts at i = MAX_CPU.                               *)
poll ==
    /\ c_pc = "poll" /\ map[0] # 0
    /\ c_value' = map[0]
    /\ c_i' = MaxEntries
    /\ c_pc' = "look"
    /\ UNCHANGED <<map, probeVars, forwarded>>

(* Faulty variants: the scan stays at an empty entry; it runs down to      *)
(* entry 0.                                                                *)
look_Stays ==
    /\ c_pc = "look"
    /\ c_value' = Lookup(c_i, c_value)
    /\ c_pc' = IF c_value' # 0 THEN "ioctl" ELSE "look"
    /\ UNCHANGED <<map, probeVars, c_i, forwarded>>

look_ToZero ==
    /\ c_pc = "look"
    /\ c_value' = Lookup(c_i, c_value)
    /\ IF c_value' # 0
         THEN c_pc' = "ioctl" /\ UNCHANGED c_i
         ELSE /\ c_i' = c_i - 1
              /\ c_pc' = IF c_i = 0 THEN "reset" ELSE "look"
    /\ UNCHANGED <<map, probeVars, forwarded>>

look ==
    /\ c_pc = "look"
    /\ c_value' = Lookup(c_i, c_value)
    /\ IF c_value' # 0
         THEN c_pc' = "ioctl" /\ UNCHANGED c_i
         ELSE /\ c_i' = c_i - 1
              /\ c_pc' = IF c_i = 1 THEN "reset" ELSE "look"
    /\ UNCHANGED <<map, probeVars, forwarded>>

(* ioctl(IOCTL_SCHED_SETAFFINITY): the driver copies sizeof(int) of value. *)
ioctl ==
    /\ c_pc = "ioctl"
    /\ forwarded' = Append(forwarded, <<c_i, c_value % IntValues>>)
    /\ c_value' = 0
    /\ c_pc' = "clear"
    /\ UNCHANGED <<map, probeVars, c_i>>

(* Faulty variants: the scan ends at the first entry it forwards; a        *)
(* forwarded entry is not cleared.                                         *)
clear_Breaks ==
    /\ c_pc = "clear"
    /\ map' = Updated(c_i, c_value)
    /\ c_i' = c_i - 1
    /\ c_pc' = IF c_i = 1 \/ c_i < MaxEntries THEN "reset" ELSE "look"
    /\ UNCHANGED <<probeVars, c_value, forwarded>>

clear_Nothing ==
    /\ c_pc = "clear"
    /\ c_i' = c_i - 1
    /\ c_pc' = IF c_i = 1 THEN "reset" ELSE "look"
    /\ UNCHANGED <<map, probeVars, c_value, forwarded>>

clear ==
    /\ c_pc = "clear"
    /\ map' = Updated(c_i, c_value)
    /\ c_i' = c_i - 1
    /\ c_pc' = IF c_i = 1 THEN "reset" ELSE "look"
    /\ UNCHANGED <<probeVars, c_value, forwarded>>

reset ==
    /\ c_pc = "reset"
    /\ map' = [map EXCEPT ![0] = c_value]
    /\ c_pc' = "poll"
    /\ UNCHANGED <<probeVars, c_i, c_value, forwarded>>

Child == CpuFree /\ (poll \/ look \/ ioctl \/ clear \/ reset)

Next == (\E c \in Cpus : Probe(c)) \/ Child

(* The child is scheduled for ever and a probe that has started returns;   *)
(* nothing obliges a guest program to call sched_setaffinity.              *)
Fairness ==
    /\ WF_vars(Child)
    /\ \A c \in Cpus : WF_vars(bpf_prog1_add(c) \/ bpf_prog1_index(c) \/ bpf_prog1_update(c))

Spec == Init /\ [][Next]_vars /\ Fairness

-----------------------------------------------------------------------------
(* Properties.                                                             *)

Asked(m) == \E n \in DOMAIN calls : calls[n] = m

(* Entries 1 .. 63 only ever hold masks some guest program asked for,      *)
(* whatever probes and scan interleave (bpf_prog1, the child's loop).      *)
EntriesAreRequests == \A i \in Entries \ {0} : map[i] # 0 => Asked(map[i])

(* The calls with a mask, and the forwarded entries, that the ioctl turns  *)
(* into v.  An empty mask is counted and stored, and looks like a free     *)
(* entry to the scan: nobody forwards it.                                  *)
Wants(m, v) == m # 0 /\ m % IntValues = v
CallsOf(v) == {n \in DOMAIN calls : Wants(calls[n], v)}
SentOf(v)  == {n \in DOMAIN forwarded : forwarded[n][1] < MaxEntries /\ forwarded[n][2] = v}

(* A call of sched_setaffinity is forwarded to the host at most once, and  *)
(* one with an empty mask never: the scan clears each entry it forwards    *)
(* (daemon.c:292-295).                                                     *)
ForwardedAtMostOnce ==
    \A v \in {m % IntValues : m \in Requests} : Cardinality(SentOf(v)) <= Cardinality(CallsOf(v))

(* However the probes leave the count, the child eventually empties it, so *)
(* a full map does not refuse requests for ever.                           *)
CountCleared == []<>(map[0] = 0)

=============================================================================
