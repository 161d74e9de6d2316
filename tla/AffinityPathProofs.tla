------------------------- MODULE AffinityPathProofs -------------------------
(***************************************************************************)
(* What the map and the host's vCPU threads hold, for any number of CPUs,  *)
(* entries and calls and any masks, however probes, scan and RESET         *)
(* interleave.                                                             *)
(***************************************************************************)
EXTENDS AffinityPath, FiniteSetTheorems, TLAPS

(* Where the scan is, what its variable value holds after an ioctl, and    *)
(* that a probe under way carries a mask some program asked for.           *)
ScanInv ==
    /\ c_pc \in {"look", "ioctl", "clear"} => c_i \in 1 .. MaxEntries
    /\ c_pc \in {"clear", "reset"} => c_value = 0

ProbeInv == \A c \in Cpus : k_pc[c] # "out" => Asked(k_mask[c])

(* The inductive invariant.                                                *)
PathInv == PathTypeOK /\ ScanInv /\ ProbeInv /\ EntriesAreRequests

-----------------------------------------------------------------------------
(* Where the requests for v are that the host has not been told of: in the *)
(* map, unless the scan has read the entry and is about to clear it; in    *)
(* the child's variable value; in a probe under way.                       *)
InMap(v) ==
    {i \in Entries \ {0} : /\ map[i] # 0 /\ map[i] % IntValues = v
                           /\ ~(c_pc \in {"ioctl", "clear"} /\ c_i = i)}
InChild(v) == c_pc = "ioctl" /\ c_i < MaxEntries /\ c_value % IntValues = v
InProbe(v) == {c \in Cpus : k_pc[c] # "out" /\ Wants(k_mask[c], v)}

One(b) == IF b THEN 1 ELSE 0

Known(v) ==
    Cardinality(SentOf(v)) + Cardinality(InMap(v)) + One(InChild(v)) + Cardinality(InProbe(v))

(* Every interleaving: no call is anywhere twice.                          *)
CountInv == \A v \in Nat : Known(v) <= Cardinality(CallsOf(v))

(* Without races a probe always stores into an entry that is zero, and the *)
(* scan leaves only zeros behind.                                          *)
NoRaceInv ==
    ~overlap =>
        /\ \A c, d \in Cpus : k_pc[c] # "out" /\ k_pc[d] # "out" => c = d
        /\ Probing => c_pc = "poll"
        /\ c_pc = "poll" => map[0] < MaxEntries /\ \A i \in Entries : i > map[0] => map[i] = 0
        /\ c_pc # "poll" => \A i \in Entries \ {0} : i > c_i => map[i] = 0
        /\ c_pc = "reset" => c_i = 0
        /\ \A c \in Cpus :
             /\ k_pc[c] = "add" => map[0] < MaxEntries - 1
             /\ k_pc[c] \in {"index", "update"} => map[0] > 0 /\ map[map[0]] = 0
             /\ k_pc[c] = "update" => k_index[c] = map[0]

(* So that each accepted call is somewhere, exactly once.                  *)
NoLossInv == ~overlap => \A v \in Nat : Known(v) = Cardinality(AcceptedOf(v))

(* And the map lists them in the order they came: m[1 .. k] are the k      *)
(* requests up to number last.                                             *)
Listed(m, k, last) == k <= last /\ \A i \in 1 .. k : m[i] = accepted[last - k + i]

OrderInv ==
    ~overlap =>
        /\ c_pc = "poll" /\ ~Probing => Listed(map, map[0], Len(accepted))
        /\ \A c \in Cpus : k_pc[c] # "out" =>
             /\ Len(accepted) > 0 /\ accepted[Len(accepted)] = k_mask[c]
             /\ Listed(map, IF k_pc[c] = "add" THEN map[0] ELSE map[0] - 1, Len(accepted) - 1)
        /\ c_pc # "poll" \/ Quiet =>
             /\ Listed(scan, scan[0], Len(accepted)) /\ scan[0] < MaxEntries
             /\ \A i \in Entries : i > scan[0] => scan[i] = 0

(* The entries of the scanned map the child has dealt with, and that they  *)
(* decide the affinity, the lowest first; the others are still in the map. *)
Passed ==
    {i \in Entries \ {0} : \/ c_pc \in {"poll", "reset"}
                           \/ i > c_i
                           \/ c_pc = "clear" /\ i = c_i}

LowestInv ==
    \A v \in VCpus : (\E i \in Passed : EntryPins(i, v) # {}) =>
        \E i \in Passed : /\ EntryPins(i, v) # {} /\ affinity[v] = EntryPins(i, v)
                          /\ \A j \in Passed : EntryPins(j, v) # {} => i <= j

ScannedInv ==
    \/ scan = NoEntries
    \/ c_pc = "poll"
    \/ /\ \A i \in Entries \ {0} : i < c_i \/ (c_pc = "look" /\ i = c_i) => map[i] = scan[i]
       /\ c_pc = "ioctl" /\ c_i \in Entries => c_value = scan[c_i]

-----------------------------------------------------------------------------
(* Map accesses keep the type of the map and of what is read from it.      *)
LEMMA UpdatedType ==
    ASSUME map \in [Entries -> Nat], NEW i \in Nat, NEW v \in Nat
    PROVE  /\ Updated(i, v) \in [Entries -> Nat]
           /\ \A j \in Entries : Updated(i, v)[j] = IF j = i THEN v ELSE map[j]
BY DEF Updated, Entries

LEMMA LookupType ==
    ASSUME map \in [Entries -> Nat], NEW i \in Nat, NEW old \in Nat
    PROVE  Lookup(i, old) \in Nat
BY DEF Lookup, Entries

(* sched_setaffinity gives a thread online CPUs only.                      *)
LEMMA PinType ==
    ASSUME NEW aff \in [VCpus -> SUBSET PCpus], NEW vs, NEW mask
    PROVE  Pin(aff, vs, mask) \in [VCpus -> SUBSET PCpus]
BY DEF Pin

(* What was asked for stays asked for.                                     *)
LEMMA AskedAppend ==
    ASSUME calls \in Seq(Requests), NEW m \in Requests, calls' = Append(calls, m)
    PROVE  /\ calls' \in Seq(Requests)
           /\ Asked(m)'
           /\ \A x : Asked(x) => Asked(x)'
<1>1. /\ Len(calls') = Len(calls) + 1
      /\ DOMAIN calls' = 1 .. Len(calls) + 1
      /\ calls' \in Seq(Requests)
      /\ calls'[Len(calls) + 1] = m
      /\ \A n \in 1 .. Len(calls) : calls'[n] = calls[n]
  OBVIOUS
<1>2. Len(calls) \in Nat /\ DOMAIN calls = 1 .. Len(calls)
  OBVIOUS
<1>3. Asked(m)'
  BY <1>1, <1>2 DEF Asked
<1>4. ASSUME NEW x, Asked(x) PROVE Asked(x)'
  BY <1>1, <1>2, <1>4 DEF Asked
<1> QED BY <1>1, <1>3, <1>4

LEMMA AskedSame == calls' = calls => \A x : Asked(x)' <=> Asked(x)
BY DEF Asked

-----------------------------------------------------------------------------
LEMMA PathInitInv == PathInit => PathInv
<1> SUFFICES ASSUME PathInit PROVE PathInv OBVIOUS
<1> USE DEF PathInit, Init, NoEntries
<1>1. TypeOK
  BY MapAssumption DEF TypeOK, Entries
<1>2. PathTypeOK
  <2>1. affinity \in [VCpus -> SUBSET PCpus] /\ accepted \in Seq(Requests) /\ scan \in [Entries -> Nat]
    OBVIOUS
  <2>2. overlap \in BOOLEAN
    BY Zenon
  <2> QED BY <1>1, <2>1, <2>2 DEF PathTypeOK
<1>3. ScanInv /\ ProbeInv /\ EntriesAreRequests
  BY DEF ScanInv, ProbeInv, EntriesAreRequests
<1> QED BY <1>2, <1>3 DEF PathInv

(* Each action of bpf_prog1.                                               *)
LEMMA EnterInv ==
    ASSUME PathInv, NEW c \in Cpus, NEW m \in Requests, bpf_prog1_enter(c, m)
    PROVE  TypeOK' /\ ScanInv' /\ ProbeInv' /\ EntriesAreRequests' /\ k_mask'[c] = m
<1> USE DEF PathInv, PathTypeOK
<1>1. calls' \in Seq(Requests) /\ Asked(m)' /\ \A x : Asked(x) => Asked(x)'
  BY AskedAppend DEF TypeOK, bpf_prog1_enter
<1>2. UNCHANGED <<map, k_index, c_pc, c_i, c_value, forwarded>>
  BY DEF bpf_prog1_enter, childVars
<1>3. k_mask' = [k_mask EXCEPT ![c] = m] /\ m \in Nat
  BY MapAssumption DEF bpf_prog1_enter
<1>4. k_pc' \in [Cpus -> {"out", "add", "index", "update"}]
      /\ \A d \in Cpus : d # c => k_pc'[d] = k_pc[d]
  BY DEF bpf_prog1_enter, TypeOK
<1>5. TypeOK'
  BY <1>1, <1>2, <1>3, <1>4 DEF TypeOK
<1>6. ScanInv'
  BY <1>2 DEF ScanInv
<1>7. ProbeInv'
  BY <1>1, <1>3, <1>4 DEF ProbeInv, TypeOK
<1>8. EntriesAreRequests'
  BY <1>1, <1>2 DEF EntriesAreRequests
<1> QED BY <1>3, <1>5, <1>6, <1>7, <1>8 DEF TypeOK

LEMMA AddInv ==
    ASSUME PathInv, NEW c \in Cpus, bpf_prog1_add(c)
    PROVE  TypeOK' /\ ScanInv' /\ ProbeInv' /\ EntriesAreRequests'
<1> USE DEF PathInv, PathTypeOK
<1>1. UNCHANGED <<k_mask, k_index, calls, c_pc, c_i, c_value, forwarded>>
  BY DEF bpf_prog1_add, childVars
<1>2. /\ map' \in [Entries -> Nat]
      /\ \A j \in Entries \ {0} : map'[j] = map[j]
  <2>1. 0 \in Entries /\ map \in [Entries -> Nat]
    BY MapAssumption DEF TypeOK, Entries
  <2>2. map' = [map EXCEPT ![0] = @ + 1]
    BY DEF bpf_prog1_add
  <2> QED BY <2>1, <2>2
<1>3. k_pc' \in [Cpus -> {"out", "add", "index", "update"}]
      /\ k_pc[c] # "out" /\ \A d \in Cpus : d # c => k_pc'[d] = k_pc[d]
  BY DEF bpf_prog1_add, TypeOK
<1>4. TypeOK'
  BY <1>1, <1>2, <1>3 DEF TypeOK
<1>5. ScanInv'
  BY <1>1 DEF ScanInv
<1>6. ProbeInv'
  BY <1>1, <1>3, AskedSame DEF ProbeInv
<1>7. EntriesAreRequests'
  BY <1>1, <1>2, AskedSame DEF EntriesAreRequests
<1> QED BY <1>4, <1>5, <1>6, <1>7

LEMMA IndexInv ==
    ASSUME PathInv, NEW c \in Cpus, bpf_prog1_index(c)
    PROVE  TypeOK' /\ ScanInv' /\ ProbeInv' /\ EntriesAreRequests'
<1> USE DEF PathInv, PathTypeOK
<1>1. UNCHANGED <<map, k_mask, calls, c_pc, c_i, c_value, forwarded>>
  BY DEF bpf_prog1_index, childVars
<1>2. map[0] \in Nat
  BY MapAssumption DEF TypeOK, Entries
<1>3. /\ k_index' \in [Cpus -> Nat]
      /\ k_pc' \in [Cpus -> {"out", "add", "index", "update"}]
      /\ k_pc[c] # "out" /\ \A d \in Cpus : d # c => k_pc'[d] = k_pc[d]
  BY <1>2 DEF bpf_prog1_index, TypeOK
<1>4. TypeOK'
  BY <1>1, <1>3 DEF TypeOK
<1>5. ScanInv'
  BY <1>1 DEF ScanInv
<1>6. ProbeInv'
  BY <1>1, <1>3, AskedSame DEF ProbeInv
<1>7. EntriesAreRequests'
  BY <1>1, AskedSame DEF EntriesAreRequests
<1> QED BY <1>4, <1>5, <1>6, <1>7

LEMMA UpdateInv ==
    ASSUME PathInv, NEW c \in Cpus, bpf_prog1_update(c)
    PROVE  TypeOK' /\ ScanInv' /\ ProbeInv' /\ EntriesAreRequests'
<1> USE DEF PathInv, PathTypeOK
<1>1. UNCHANGED <<k_mask, k_index, calls, c_pc, c_i, c_value, forwarded>>
  BY DEF bpf_prog1_update, childVars
<1>2. /\ map' \in [Entries -> Nat]
      /\ \A j \in Entries : map'[j] = IF j = k_index[c] THEN k_mask[c] ELSE map[j]
  <2>1. map \in [Entries -> Nat] /\ k_index[c] \in Nat /\ k_mask[c] \in Nat
    BY DEF TypeOK
  <2>2. map' = Updated(k_index[c], k_mask[c])
    BY DEF bpf_prog1_update
  <2> DEFINE i == k_index[c]
             v == k_mask[c]
  <2>3. /\ Updated(i, v) \in [Entries -> Nat]
        /\ \A j \in Entries : Updated(i, v)[j] = IF j = i THEN v ELSE map[j]
    <3> HIDE DEF i, v, PathInv
    <3>1. i \in Nat /\ v \in Nat
      BY <2>1 DEF i, v
    <3> QED BY <2>1, <3>1, UpdatedType
  <2> QED BY <2>2, <2>3
<1>3. /\ k_pc' \in [Cpus -> {"out", "add", "index", "update"}]
      /\ k_pc[c] # "out" /\ k_pc'[c] = "out" /\ \A d \in Cpus : d # c => k_pc'[d] = k_pc[d]
  BY DEF bpf_prog1_update, TypeOK
<1>4. TypeOK'
  BY <1>1, <1>2, <1>3 DEF TypeOK
<1>5. ScanInv'
  BY <1>1 DEF ScanInv
<1>6. ProbeInv'
  BY <1>1, <1>3, AskedSame DEF ProbeInv
<1>7. Asked(k_mask[c])
  BY <1>3 DEF ProbeInv
<1>8. EntriesAreRequests'
  BY <1>1, <1>2, <1>7, AskedSame DEF EntriesAreRequests
<1> QED BY <1>4, <1>5, <1>6, <1>8

(* The child: a step leaves the probes alone and writes only zeros.        *)
LEMMA ChildInv ==
    ASSUME PathInv, poll \/ look \/ ioctl \/ clear \/ reset
    PROVE  TypeOK' /\ ScanInv' /\ ProbeInv' /\ EntriesAreRequests'
<1> USE DEF PathInv, PathTypeOK
<1>1. UNCHANGED <<k_pc, k_mask, k_index, calls>>
  BY DEF poll, look, ioctl, clear, reset, probeVars
<1>2. 0 \in Entries /\ MaxEntries \in Nat /\ MaxEntries >= 2 /\ IntValues \in Nat \ {0}
  BY MapAssumption DEF Entries
<1>3. /\ map' \in [Entries -> Nat]
      /\ \A j \in Entries \ {0} : map'[j] \in {0, map[j]}
  <2>1. CASE poll \/ look \/ ioctl
    BY <2>1 DEF poll, look, ioctl, TypeOK
  <2>2. CASE clear
    <3>1. c_i \in Nat /\ c_value = 0
      BY <2>2, <1>2 DEF clear, ScanInv
    <3>2. map \in [Entries -> Nat] /\ map' = Updated(c_i, 0)
      BY <2>2, <3>1 DEF clear, TypeOK
    <3>3. /\ map' \in [Entries -> Nat]
          /\ \A j \in Entries : map'[j] = IF j = c_i THEN 0 ELSE map[j]
      BY <3>1, <3>2, UpdatedType
    <3> QED BY <3>3
  <2>3. CASE reset
    <3>1. c_value = 0
      BY <2>3 DEF reset, ScanInv
    <3> QED BY <3>1, <2>3, <1>2 DEF reset, TypeOK
  <2> QED BY <2>1, <2>2, <2>3
<1>4. /\ c_pc' \in {"poll", "look", "ioctl", "clear", "reset"}
      /\ c_i' \in 0 .. MaxEntries
      /\ c_value' \in Nat
      /\ forwarded' \in Seq((1 .. MaxEntries) \X Nat)
      /\ ScanInv'
  <2>1. CASE poll
    BY <2>1, <1>2 DEF poll, TypeOK, ScanInv
  <2>2. CASE look
    <3>1. c_i \in 1 .. MaxEntries
      BY <2>2 DEF look, ScanInv
    <3>2. c_value' \in Nat
      BY <2>2, <3>1, <1>2, LookupType DEF look, TypeOK
    <3> QED BY <2>2, <3>1, <3>2, <1>2 DEF look, TypeOK, ScanInv
  <2>3. CASE ioctl
    <3>1. c_i \in 1 .. MaxEntries
      BY <2>3 DEF ioctl, ScanInv
    <3>2. c_value % IntValues \in Nat
      BY <1>2 DEF TypeOK
    <3>3. forwarded' \in Seq((1 .. MaxEntries) \X Nat)
      BY <2>3, <3>1, <3>2 DEF ioctl, TypeOK
    <3> QED BY <2>3, <3>1, <3>3, <1>2 DEF ioctl, TypeOK, ScanInv
  <2>4. CASE clear
    <3>1. c_i \in 1 .. MaxEntries /\ c_value = 0
      BY <2>4 DEF clear, ScanInv
    <3> QED BY <2>4, <3>1, <1>2 DEF clear, TypeOK, ScanInv
  <2>5. CASE reset
    BY <2>5, <1>2 DEF reset, TypeOK, ScanInv
  <2> QED BY <2>1, <2>2, <2>3, <2>4, <2>5
<1>5. TypeOK'
  BY <1>1, <1>3, <1>4 DEF TypeOK
<1>6. ProbeInv'
  BY <1>1, AskedSame DEF ProbeInv
<1>7. EntriesAreRequests'
  BY <1>1, <1>3, AskedSame DEF EntriesAreRequests
<1> QED BY <1>4, <1>5, <1>6, <1>7

-----------------------------------------------------------------------------
(* A step of the whole path.                                               *)
LEMMA PathNextInv == PathInv /\ [PathNext]_allVars => PathInv'
<1> SUFFICES ASSUME PathInv, [PathNext]_allVars PROVE PathInv' OBVIOUS
<1> USE DEF PathInv
<1>0. NoEntries \in [Entries -> Nat]
  BY DEF NoEntries
<1>1. ASSUME NEW c \in Cpus, GuestProbe(c) PROVE PathInv'
  <2>1. /\ TypeOK' /\ ScanInv' /\ ProbeInv' /\ EntriesAreRequests'
        /\ k_pc[c] = "out" => k_mask'[c] \in Requests
    <3>1. ASSUME NEW m \in Requests, bpf_prog1_enter(c, m)
          PROVE TypeOK' /\ ScanInv' /\ ProbeInv' /\ EntriesAreRequests' /\ k_mask'[c] = m
      BY <3>1, EnterInv
    <3>2. CASE bpf_prog1_add(c) \/ bpf_prog1_index(c) \/ bpf_prog1_update(c)
      <4>1. k_pc[c] # "out"
        BY <3>2 DEF bpf_prog1_add, bpf_prog1_index, bpf_prog1_update
      <4> QED BY <4>1, <3>2, AddInv, IndexInv, UpdateInv
    <3> QED BY <1>1, <3>1, <3>2 DEF GuestProbe, Probe
  <2>2. accepted' \in Seq(Requests)
    BY <1>1, <2>1 DEF GuestProbe, PathTypeOK
  <2>3. scan' \in [Entries -> Nat] /\ overlap' \in BOOLEAN /\ affinity' = affinity
    BY <1>0, <1>1 DEF GuestProbe, PathTypeOK
  <2> QED BY <2>1, <2>2, <2>3 DEF PathTypeOK
<1>2. CASE child_poll
  <2>1. TypeOK' /\ ScanInv' /\ ProbeInv' /\ EntriesAreRequests'
    BY <1>2, ChildInv DEF child_poll
  <2>2. scan' \in [Entries -> Nat] /\ overlap' \in BOOLEAN
    BY <1>0, <1>2 DEF child_poll, PathTypeOK, TypeOK
  <2> QED BY <1>2, <2>1, <2>2 DEF child_poll, PathTypeOK
<1>3. CASE child_ioctl
  <2>1. TypeOK' /\ ScanInv' /\ ProbeInv' /\ EntriesAreRequests'
    BY <1>3, ChildInv DEF child_ioctl
  <2>2. affinity' \in [VCpus -> SUBSET PCpus]
    BY <1>3, PinType DEF child_ioctl, SetAffinity, PathTypeOK
  <2> QED BY <1>3, <2>1, <2>2 DEF child_ioctl, PathTypeOK
<1>4. CASE child_scan
  <2>1. TypeOK' /\ ScanInv' /\ ProbeInv' /\ EntriesAreRequests'
    BY <1>4, ChildInv DEF child_scan
  <2> QED BY <1>4, <2>1 DEF child_scan, pathVars, PathTypeOK
<1>5. CASE host_reset
  <2>1. UNCHANGED vars
    BY <1>5 DEF host_reset
  <2>2. TypeOK' /\ ScanInv' /\ ProbeInv' /\ EntriesAreRequests'
    BY <2>1, AskedSame DEF vars, PathTypeOK, TypeOK, ScanInv, ProbeInv, EntriesAreRequests
  <2>3. affinity' \in [VCpus -> SUBSET PCpus]
    BY <1>5, PinType DEF host_reset, PathTypeOK
  <2> QED BY <1>0, <1>5, <2>2, <2>3 DEF host_reset, PathTypeOK
<1>6. CASE UNCHANGED allVars
  <2>1. UNCHANGED vars /\ UNCHANGED pathVars
    BY <1>6 DEF allVars
  <2>2. TypeOK' /\ ScanInv' /\ ProbeInv' /\ EntriesAreRequests'
    BY <2>1, AskedSame DEF vars, PathTypeOK, TypeOK, ScanInv, ProbeInv, EntriesAreRequests
  <2> QED BY <2>1, <2>2 DEF pathVars, PathTypeOK
<1> QED BY <1>1, <1>2, <1>3, <1>4, <1>5, <1>6 DEF PathNext

(* The invariant holds throughout.                                         *)
THEOREM PathInvariant == PathSpec => []PathInv
BY PathInitInv, PathNextInv, PTL DEF PathSpec

(* Map, scan and vCPU threads keep their types: the scan never leaves the  *)
(* indices 0 .. 64, and a thread is only ever given online CPUs.           *)
THEOREM PathTypeCorrect == PathSpec => []PathTypeOK
<1>1. PathInv => PathTypeOK
  BY DEF PathInv
<1> QED BY <1>1, PathInvariant, PTL

(* Entries of the map only ever hold masks some program asked for, on any  *)
(* number of CPUs.                                                         *)
THEOREM EntriesCorrect == PathSpec => []EntriesAreRequests
<1>1. PathInv => EntriesAreRequests
  BY DEF PathInv
<1> QED BY <1>1, PathInvariant, PTL

-----------------------------------------------------------------------------
(* The lowest entry wins.                                                  *)

(* An empty entry says nothing about any vCPU.                             *)
LEMMA ZeroMask == CpuSet(0) = {}
<1>1. 2 ^ 0 = 1
  OBVIOUS
<1>2. (0 \div 1) % 2 = 0
  OBVIOUS
<1>3. ASSUME NEW i \in 0 .. 0, (0 \div 2 ^ i) % 2 = 1 PROVE FALSE
  <2>1. i = 0
    OBVIOUS
  <2>2. (0 \div 2 ^ 0) % 2 = 1
    BY <1>3, <2>1, Zenon
  <2>3. (0 \div 1) % 2 = 1
    BY <1>1, <2>2, Zenon
  <2> QED BY <1>2, <2>3
<1> QED BY <1>3, Zenon DEF CpuSet

LEMMA ZeroPins ==
    ASSUME NEW i, scan[i] = 0, NEW v
    PROVE  EntryPins(i, v) = {}
<1>1. 0 % IntValues = 0
  BY MapAssumption
<1>2. CpuSet(scan[i] % IntValues) = {}
  BY <1>1, ZeroMask, Zenon
<1> QED BY <1>2 DEF EntryPins, MaskPins

LEMMA NoEntriesPins == scan = NoEntries => \A i \in Entries, v \in VCpus : EntryPins(i, v) = {}
BY ZeroPins DEF NoEntries

LEMMA PinsSame == scan' = scan => \A i, v : EntryPins(i, v)' = EntryPins(i, v)
BY DEF EntryPins, MaskPins

(* Coming past empty entries changes nothing.                              *)
LEMMA LowestSame ==
    ASSUME LowestInv, UNCHANGED <<scan, affinity>>, Passed \subseteq Passed',
           \A i \in Passed' \ Passed : scan[i] = 0
    PROVE  LowestInv'
<1> SUFFICES ASSUME NEW v \in VCpus, NEW k \in Passed', EntryPins(k, v)' # {}
             PROVE  \E i \in Passed' :
                       /\ EntryPins(i, v)' # {} /\ affinity'[v] = EntryPins(i, v)'
                       /\ \A j \in Passed' : EntryPins(j, v)' # {} => i <= j
  BY DEF LowestInv
<1>1. \A i : EntryPins(i, v)' = EntryPins(i, v)
  BY PinsSame
<1>2. \A i \in Passed' : EntryPins(i, v) # {} => i \in Passed
  BY ZeroPins
<1>3. PICK i \in Passed : /\ EntryPins(i, v) # {} /\ affinity[v] = EntryPins(i, v)
                          /\ \A j \in Passed : EntryPins(j, v) # {} => i <= j
  BY <1>1, <1>2 DEF LowestInv
<1> QED BY <1>1, <1>2, <1>3

LEMMA LowestEmpty == (scan = NoEntries => LowestInv) /\ (Passed = {} => LowestInv)
BY NoEntriesPins DEF LowestInv, Passed

(* The ioctl for an entry: it is the lowest one the child has come to.     *)
LEMMA LowestIoctl ==
    ASSUME PathInv, LowestInv, ScannedInv, child_ioctl
    PROVE  LowestInv' /\ ScannedInv'
<1> USE DEF PathInv, PathTypeOK
<1>1. /\ UNCHANGED <<map, scan, c_i>> /\ c_pc = "ioctl" /\ c_pc' = "clear"
      /\ affinity' = SetAffinity(affinity, CpuSet(c_value % IntValues))
      /\ c_i \in 1 .. MaxEntries
  BY DEF child_ioctl, ioctl, ScanInv
<1>2. ScannedInv'
  <2>1. NoEntries' = NoEntries
    BY DEF NoEntries, Entries
  <2> QED BY <1>1, <2>1 DEF ScannedInv
<1>3. CASE scan = NoEntries
  <2>1. (scan = NoEntries => LowestInv)'
    BY LowestEmpty, PTL
  <2> QED BY <1>1, <1>2, <1>3, <2>1 DEF NoEntries, Entries
<1>4. CASE scan # NoEntries /\ c_i = MaxEntries
  <2>1. Passed' = {}
    BY <1>1, <1>4, MapAssumption DEF Passed, Entries
  <2>2. (Passed = {} => LowestInv)'
    BY LowestEmpty, PTL
  <2> QED BY <1>2, <2>1, <2>2
<1>5. CASE scan # NoEntries /\ c_i # MaxEntries
  <2> DEFINE mask == CpuSet(c_value % IntValues)
  <2>1. c_i \in Entries \ {0} /\ c_value = scan[c_i]
    BY <1>1, <1>5, MapAssumption DEF ScannedInv, Entries
  <2>2. Passed' = Passed \cup {c_i} /\ \A i \in Passed : c_i <= i
    BY <1>1, <2>1, MapAssumption DEF Passed, Entries
  <2>3. ASSUME NEW v \in VCpus
        PROVE  affinity'[v] = IF EntryPins(c_i, v) # {} THEN EntryPins(c_i, v) ELSE affinity[v]
    <3>1. EntryPins(c_i, v) = IF v \in mask THEN mask \cap PCpus ELSE {}
      BY <2>1 DEF EntryPins, MaskPins
    <3>2. affinity'[v] = IF v \in mask /\ mask \cap PCpus # {} THEN mask \cap PCpus ELSE affinity[v]
      BY <1>1 DEF SetAffinity, Pin
    <3> HIDE DEF mask
    <3> QED BY <3>1, <3>2
  <2> SUFFICES ASSUME NEW v \in VCpus, NEW k \in Passed', EntryPins(k, v)' # {}
               PROVE  \E i \in Passed' :
                         /\ EntryPins(i, v)' # {} /\ affinity'[v] = EntryPins(i, v)'
                         /\ \A j \in Passed' : EntryPins(j, v)' # {} => i <= j
    BY <1>2 DEF LowestInv
  <2>4. \A i : EntryPins(i, v)' = EntryPins(i, v)
    BY <1>1, PinsSame
  <2>5. CASE EntryPins(c_i, v) # {}
    BY <2>1, <2>2, <2>3, <2>4, <2>5 DEF Entries
  <2>6. CASE EntryPins(c_i, v) = {}
    <3>1. PICK i \in Passed : /\ EntryPins(i, v) # {} /\ affinity[v] = EntryPins(i, v)
                              /\ \A j \in Passed : EntryPins(j, v) # {} => i <= j
      BY <2>2, <2>4, <2>6 DEF LowestInv
    <3> QED BY <2>2, <2>3, <2>4, <2>6, <3>1
  <2> QED BY <2>5, <2>6
<1> QED BY <1>3, <1>4, <1>5

(* Reading, clearing and resetting.                                        *)
LEMMA LowestScan ==
    ASSUME PathInv, LowestInv, ScannedInv, child_scan
    PROVE  LowestInv' /\ ScannedInv'
<1> USE DEF PathInv, PathTypeOK
<1>1. UNCHANGED <<scan, affinity>> /\ NoEntries' = NoEntries
  BY DEF child_scan, pathVars, NoEntries, Entries
<1>2. CASE look
  <2>1. /\ UNCHANGED map /\ c_pc = "look" /\ c_i \in 1 .. MaxEntries
        /\ c_value' = Lookup(c_i, c_value)
        /\ IF c_value' # 0
             THEN c_pc' = "ioctl" /\ c_i' = c_i
             ELSE c_i' = c_i - 1 /\ c_pc' = IF c_i = 1 THEN "reset" ELSE "look"
    BY <1>2 DEF look, ScanInv
  <2>2. c_i \in Entries => c_value' = map[c_i]
    BY <2>1 DEF Lookup
  <2>3. scan # NoEntries =>
          /\ c_i \in Entries => c_value' = scan[c_i]
          /\ \A i \in Entries \ {0} : i <= c_i => map[i] = scan[i]
    BY <2>1, <2>2, MapAssumption DEF ScannedInv, Entries
  <2>4. ScannedInv'
    BY <1>1, <2>1, <2>3, MapAssumption DEF ScannedInv, Entries
  <2>5. Passed' = IF c_value' # 0 THEN Passed ELSE Passed \cup ({c_i} \cap Entries)
    BY <2>1, MapAssumption DEF Passed, Entries
  <2>6. \A i \in Passed' \ Passed : scan[i] = 0
    BY <2>3, <2>5 DEF NoEntries
  <2>7. LowestInv'
    BY <1>1, <2>5, <2>6, LowestSame
  <2> QED BY <2>4, <2>7
<1>3. CASE clear
  <2>1. /\ c_pc = "clear" /\ c_i \in 1 .. MaxEntries /\ c_value = 0
        /\ map' = Updated(c_i, c_value) /\ c_i' = c_i - 1
        /\ c_pc' = IF c_i = 1 THEN "reset" ELSE "look"
    BY <1>3 DEF clear, ScanInv
  <2>2. \A i \in Entries : i < c_i => map'[i] = map[i]
    BY <2>1, MapAssumption DEF Updated, TypeOK, Entries
  <2>3. ScannedInv'
    <3>1. CASE scan = NoEntries
      BY <1>1, <3>1 DEF ScannedInv
    <3>2. CASE scan # NoEntries
      <4>1. \A i \in Entries \ {0} : i < c_i => map[i] = scan[i]
        BY <2>1, <3>2 DEF ScannedInv
      <4>2. ASSUME NEW i \in Entries \ {0}, i < c_i' \/ (c_pc' = "look" /\ i = c_i')
            PROVE  map'[i] = scan'[i]
        <5>1. i < c_i
          BY <2>1, <4>2, MapAssumption DEF Entries
        <5> QED BY <1>1, <2>2, <4>1, <5>1
      <4>3. c_pc' # "ioctl"
        BY <2>1
      <4> QED BY <4>2, <4>3 DEF ScannedInv, Entries
    <3> QED BY <3>1, <3>2
  <2>4. Passed' = Passed
    BY <2>1, MapAssumption DEF Passed, Entries
  <2> QED BY <1>1, <2>3, <2>4, LowestSame
<1>4. CASE reset
  <2>1. c_pc = "reset" /\ c_pc' = "poll" /\ c_i' = c_i
    BY <1>4 DEF reset
  <2>2. Passed' = Passed
    BY <2>1 DEF Passed
  <2>3. ScannedInv'
    BY <2>1 DEF ScannedInv
  <2> QED BY <1>1, <2>2, <2>3, LowestSame
<1> QED BY <1>2, <1>3, <1>4 DEF child_scan

LEMMA LowestNext ==
    PathInv /\ LowestInv /\ ScannedInv /\ [PathNext]_allVars => LowestInv' /\ ScannedInv'
<1> SUFFICES ASSUME PathInv, LowestInv, ScannedInv, [PathNext]_allVars
             PROVE  LowestInv' /\ ScannedInv'
  OBVIOUS
<1>1. (scan = NoEntries => LowestInv)' /\ (Passed = {} => LowestInv)'
  BY LowestEmpty, PTL
<1>2. NoEntries' = NoEntries
  BY DEF NoEntries, Entries
<1>3. ASSUME NEW c \in Cpus, GuestProbe(c) PROVE LowestInv' /\ ScannedInv'
  <2>1. UNCHANGED <<affinity, c_pc, c_i, c_value>> /\ scan' = IF c_pc = "poll" THEN scan ELSE NoEntries
    BY <1>3 DEF GuestProbe, Probe, bpf_prog1_enter, bpf_prog1_add, bpf_prog1_index,
                bpf_prog1_update, childVars
  <2>2. CASE c_pc = "poll"
    <3>1. Passed' = Passed
      BY <2>1 DEF Passed
    <3> QED BY <2>1, <2>2, <3>1, LowestSame DEF ScannedInv
  <2>3. CASE c_pc # "poll"
    BY <1>1, <1>2, <2>1, <2>3 DEF ScannedInv
  <2> QED BY <2>2, <2>3
<1>4. CASE child_poll
  <2>1. map' = map /\ c_i' = MaxEntries /\ c_pc' = "look" /\ scan' \in {NoEntries, map}
    BY <1>4 DEF child_poll, poll
  <2>2. Passed' = {}
    BY <2>1, MapAssumption DEF Passed, Entries
  <2>3. ScannedInv'
    BY <1>2, <2>1 DEF ScannedInv
  <2> QED BY <1>1, <2>2, <2>3
<1>5. CASE child_ioctl
  BY <1>5, LowestIoctl
<1>6. CASE child_scan
  BY <1>6, LowestScan
<1>7. CASE host_reset
  BY <1>1, <1>2, <1>7 DEF host_reset, ScannedInv
<1>8. CASE UNCHANGED allVars
  <2>1. UNCHANGED <<map, c_pc, c_i, c_value, scan, affinity>>
    BY <1>8 DEF allVars, vars, pathVars
  <2>2. Passed' = Passed
    BY <2>1 DEF Passed
  <2>3. ScannedInv'
    BY <1>2, <2>1 DEF ScannedInv
  <2> QED BY <2>1, <2>2, <2>3, LowestSame
<1> QED BY <1>3, <1>4, <1>5, <1>6, <1>7, <1>8 DEF PathNext

(* Of the entries a scan of the child finds the lowest decides where a     *)
(* vCPU runs, for any number of entries, CPUs and vCPUs, any masks and any *)
(* races, and a request that the int of the ioctl cuts off decides nothing *)
(* (the child's scan and hucdev_bufmmio_write).                            *)
THEOREM LowestCorrect == PathSpec => []LowestEntryWins
<1>1. PathInit => LowestInv /\ ScannedInv
  BY LowestEmpty DEF PathInit, ScannedInv
<1>2. LowestInv => LowestEntryWins
  <2> SUFFICES ASSUME LowestInv, c_pc = "poll", NEW v \in VCpus,
                      NEW k \in Entries \ {0}, EntryPins(k, v) # {}
               PROVE  affinity[v] = EntryPins(Min({i \in Entries \ {0} : EntryPins(i, v) # {}}), v)
    BY DEF LowestEntryWins
  <2> DEFINE by == {i \in Entries \ {0} : EntryPins(i, v) # {}}
  <2>1. Passed = Entries \ {0}
    BY DEF Passed
  <2>2. PICK i \in by : affinity[v] = EntryPins(i, v) /\ \A j \in by : i <= j
    BY <2>1 DEF LowestInv
  <2>3. by \subseteq Int
    BY DEF Entries
  <2> HIDE DEF by
  <2>4. Min(by) = i
    <3>1. \A x \in by : (\A y \in by : x <= y) => x = i
      BY <2>2, <2>3
    <3> QED BY <2>2, <3>1 DEF Min
  <2> QED BY <2>2, <2>4 DEF by
<1> QED BY <1>1, <1>2, PathInvariant, LowestNext, PTL DEF PathSpec

-----------------------------------------------------------------------------
(* Counting requests.                                                      *)

(* Two sets that differ at most in x.                                      *)
LEMMA Flip ==
    ASSUME NEW A, NEW B, IsFiniteSet(A), NEW x, A \ {x} = B \ {x}
    PROVE  /\ IsFiniteSet(B)
           /\ Cardinality(A) \in Nat /\ Cardinality(B) \in Nat
           /\ Cardinality(B) = Cardinality(A) + One(x \in B) - One(x \in A)
<1>1. IsFiniteSet(A \ {x}) /\ Cardinality(A \ {x}) = Cardinality(A) - One(x \in A)
  BY FS_RemoveElement, FS_CardinalityType DEF One
<1>2. IsFiniteSet((B \ {x}) \cup {x}) /\ B \subseteq (B \ {x}) \cup {x}
  BY <1>1, FS_AddElement
<1>3. IsFiniteSet(B)
  BY <1>2, FS_Subset
<1>4. Cardinality(B \ {x}) = Cardinality(B) - One(x \in B)
  BY <1>3, FS_RemoveElement, FS_CardinalityType DEF One
<1>5. Cardinality(A) \in Nat /\ Cardinality(B) \in Nat /\ One(x \in A) \in Nat /\ One(x \in B) \in Nat
  BY <1>3, FS_CardinalityType DEF One
<1>6. Cardinality(A \ {x}) = Cardinality(B \ {x})
  BY Zenon
<1>7. Cardinality(A) - One(x \in A) = Cardinality(B) - One(x \in B)
  BY <1>1, <1>4, <1>6, Zenon
<1> HIDE DEF One
<1> QED BY <1>3, <1>5, <1>7

(* All the sets counted are finite.                                        *)
LEMMA CountsFinite ==
    ASSUME PathTypeOK, NEW v
    PROVE  /\ IsFiniteSet(SentOf(v)) /\ IsFiniteSet(CallsOf(v)) /\ IsFiniteSet(AcceptedOf(v))
           /\ IsFiniteSet(InMap(v)) /\ IsFiniteSet(InProbe(v))
           /\ Cardinality(SentOf(v)) \in Nat /\ Cardinality(CallsOf(v)) \in Nat
           /\ Cardinality(AcceptedOf(v)) \in Nat
           /\ Cardinality(InMap(v)) \in Nat /\ Cardinality(InProbe(v)) \in Nat
<1>1. Len(forwarded) \in Nat /\ Len(calls) \in Nat /\ Len(accepted) \in Nat
  BY DEF PathTypeOK, TypeOK
<1>2. /\ SentOf(v) \subseteq 1 .. Len(forwarded)
      /\ CallsOf(v) \subseteq 1 .. Len(calls)
      /\ AcceptedOf(v) \subseteq 1 .. Len(accepted)
  BY DEF PathTypeOK, TypeOK, SentOf, CallsOf, AcceptedOf
<1>3. /\ IsFiniteSet(1 .. Len(forwarded)) /\ IsFiniteSet(1 .. Len(calls))
      /\ IsFiniteSet(1 .. Len(accepted)) /\ IsFiniteSet(0 .. MaxEntries - 1)
  BY <1>1, MapAssumption, FS_Interval
<1>4. InMap(v) \subseteq 0 .. MaxEntries - 1 /\ InProbe(v) \subseteq Cpus
  BY DEF InMap, InProbe, Entries
<1>5. /\ IsFiniteSet(SentOf(v)) /\ IsFiniteSet(CallsOf(v)) /\ IsFiniteSet(AcceptedOf(v))
      /\ IsFiniteSet(InMap(v)) /\ IsFiniteSet(InProbe(v))
  BY <1>2, <1>3, <1>4, FS_Subset, MapAssumption
<1> QED BY <1>5, FS_CardinalityType

LEMMA KnownNat ==
    ASSUME PathTypeOK, NEW v
    PROVE  Known(v) \in Nat /\ One(InChild(v)) \in Nat
BY CountsFinite DEF Known, One

KnownTyped == \A v \in Nat : Known(v) \in Nat

LEMMA KnownAllNat == PathTypeOK => KnownTyped
BY KnownNat DEF KnownTyped

(* A probe that starts adds one call, and carries it if there is room.     *)
LEMMA CountEnter ==
    ASSUME PathInv, NEW c \in Cpus, NEW m \in Requests, bpf_prog1_enter(c, m), NEW v \in Nat
    PROVE  /\ Known(v)' = Known(v) + One(k_pc'[c] = "add" /\ Wants(m, v))
           /\ Cardinality(CallsOf(v)') = Cardinality(CallsOf(v)) + One(Wants(m, v))
           /\ k_pc'[c] \in {"out", "add"} /\ k_pc[c] = "out"
<1> USE DEF PathInv
<1>1. /\ UNCHANGED <<map, c_pc, c_i, c_value, forwarded>>
      /\ k_pc[c] = "out"
      /\ k_mask' = [k_mask EXCEPT ![c] = m]
      /\ calls' = Append(calls, m)
      /\ k_pc' = [k_pc EXCEPT ![c] = IF map[0] = MaxEntries - 1 THEN "out" ELSE "add"]
  BY DEF bpf_prog1_enter, childVars
<1>2. SentOf(v)' = SentOf(v) /\ InMap(v)' = InMap(v) /\ InChild(v)' = InChild(v)
  BY <1>1 DEF SentOf, InMap, InChild
<1>3. /\ c \notin InProbe(v) /\ InProbe(v)' \ {c} = InProbe(v) \ {c}
      /\ c \in InProbe(v)' <=> k_pc'[c] = "add" /\ Wants(m, v)
      /\ k_pc'[c] \in {"out", "add"}
  BY <1>1 DEF InProbe, PathTypeOK, TypeOK
<1>4. LET n == Len(calls) + 1
      IN  /\ n \notin CallsOf(v) /\ CallsOf(v)' \ {n} = CallsOf(v) \ {n}
          /\ n \in CallsOf(v)' <=> Wants(m, v)
  <2>1. calls \in Seq(Requests) /\ Len(calls) \in Nat
    BY DEF PathTypeOK, TypeOK
  <2>2. /\ DOMAIN calls = 1 .. Len(calls) /\ DOMAIN calls' = 1 .. Len(calls) + 1
        /\ calls'[Len(calls) + 1] = m /\ \A i \in 1 .. Len(calls) : calls'[i] = calls[i]
    BY <1>1, <2>1
  <2> QED BY <2>1, <2>2 DEF CallsOf
<1>5. /\ Cardinality(InProbe(v)') = Cardinality(InProbe(v)) + One(k_pc'[c] = "add" /\ Wants(m, v))
      /\ Cardinality(CallsOf(v)') = Cardinality(CallsOf(v)) + One(Wants(m, v))
  <2> DEFINE P  == InProbe(v)
             Q  == InProbe(v)'
             C  == CallsOf(v)
             D  == CallsOf(v)'
             n  == Len(calls) + 1
  <2>1. IsFiniteSet(P) /\ IsFiniteSet(C)
    BY CountsFinite
  <2>2. c \notin P /\ P \ {c} = Q \ {c} /\ n \notin C /\ C \ {n} = D \ {n}
    BY <1>3, <1>4
  <2>3. (c \in Q <=> k_pc'[c] = "add" /\ Wants(m, v)) /\ (n \in D <=> Wants(m, v))
    BY <1>3, <1>4
  <2> HIDE DEF P, Q, C, D, n
  <2>4. /\ Cardinality(Q) = Cardinality(P) + One(c \in Q) - One(c \in P)
        /\ Cardinality(D) = Cardinality(C) + One(n \in D) - One(n \in C)
        /\ Cardinality(P) \in Nat /\ Cardinality(C) \in Nat
    BY <2>1, <2>2, Flip
  <2>5. /\ Cardinality(Q) = Cardinality(P) + One(k_pc'[c] = "add" /\ Wants(m, v))
        /\ Cardinality(D) = Cardinality(C) + One(Wants(m, v))
    BY <2>2, <2>3, <2>4 DEF One
  <2> QED BY <2>5 DEF P, Q, C, D
<1>6. /\ Cardinality(SentOf(v)) \in Nat /\ Cardinality(InMap(v)) \in Nat
      /\ Cardinality(InProbe(v)) \in Nat /\ One(InChild(v)) \in Nat
  BY CountsFinite, KnownNat
<1>7. One(InChild(v))' = One(InChild(v))
  BY <1>2 DEF One
<1>8. One(k_pc'[c] = "add" /\ Wants(m, v)) \in Nat
  BY DEF One
<1> QED BY <1>1, <1>2, <1>3, <1>5, <1>6, <1>7, <1>8 DEF Known

LEMMA CountAddIndex ==
    ASSUME PathInv, NEW c \in Cpus, bpf_prog1_add(c) \/ bpf_prog1_index(c), NEW v \in Nat
    PROVE  Known(v)' = Known(v) /\ CallsOf(v)' = CallsOf(v)
<1> USE DEF PathInv
<1>1. UNCHANGED <<k_mask, calls, c_pc, c_i, c_value, forwarded>>
  BY DEF bpf_prog1_add, bpf_prog1_index, childVars
<1>2. \A i \in Entries \ {0} : map'[i] = map[i]
  BY MapAssumption DEF bpf_prog1_add, bpf_prog1_index, PathTypeOK, TypeOK, Entries
<1>3. \A d \in Cpus : k_pc'[d] # "out" <=> k_pc[d] # "out"
  BY DEF bpf_prog1_add, bpf_prog1_index, PathTypeOK, TypeOK
<1>4. SentOf(v)' = SentOf(v) /\ CallsOf(v)' = CallsOf(v)
  BY <1>1 DEF SentOf, CallsOf
<1>5. InMap(v)' = InMap(v)
  BY <1>1, <1>2 DEF InMap, Entries
<1>6. InProbe(v)' = InProbe(v)
  BY <1>1, <1>3 DEF InProbe
<1>7. One(InChild(v))' = One(InChild(v))
  BY <1>1 DEF InChild, One
<1> QED BY <1>4, <1>5, <1>6, <1>7, Zenon DEF Known

(* A probe that stores its mask: the request moves into the map, over one  *)
(* that is lost if the entry was in use, and is itself lost if the scan is *)
(* about to clear the entry or if the index is no entry.                   *)
LEMMA CountUpdate ==
    ASSUME PathInv, NEW c \in Cpus, bpf_prog1_update(c), NEW v \in Nat
    PROVE  /\ Known(v)' <= Known(v) /\ CallsOf(v)' = CallsOf(v)
           /\ k_index[c] \in Entries \ {0} /\ map[k_index[c]] = 0 /\ c_pc = "poll" =>
                Known(v)' = Known(v)
<1> USE DEF PathInv, PathTypeOK
<1> DEFINE x == k_index[c]
           m == k_mask[c]
<1>1. UNCHANGED <<k_mask, calls, c_pc, c_i, c_value, forwarded>> /\ k_pc[c] = "update"
      /\ k_pc' = [k_pc EXCEPT ![c] = "out"] /\ map' = Updated(x, m)
  BY DEF bpf_prog1_update, childVars
<1>2. x \in Nat /\ m \in Nat
  BY DEF TypeOK
<1>3. \A i \in Entries : map'[i] = IF i = x THEN m ELSE map[i]
  <2>1. map \in [Entries -> Nat]
    BY DEF TypeOK
  <2>2. \A i \in Entries : Updated(x, m)[i] = IF i = x THEN m ELSE map[i]
    <3> HIDE DEF x, m, PathInv
    <3> QED BY <1>2, <2>1, UpdatedType
  <2> QED BY <1>1, <2>2, Zenon
<1>4. SentOf(v)' = SentOf(v) /\ CallsOf(v)' = CallsOf(v) /\ One(InChild(v))' = One(InChild(v))
  BY <1>1 DEF SentOf, CallsOf, InChild, One
<1>5. /\ InProbe(v) \ {c} = InProbe(v)' \ {c} /\ c \notin InProbe(v)'
      /\ c \in InProbe(v) <=> Wants(m, v)
  BY <1>1 DEF InProbe, TypeOK
<1>6. /\ InMap(v) \ {x} = InMap(v)' \ {x}
      /\ x \in InMap(v)' => Wants(m, v)
      /\ x \in Entries \ {0} /\ map[x] = 0 /\ c_pc = "poll" =>
           x \notin InMap(v) /\ (x \in InMap(v)' <=> Wants(m, v))
  BY <1>1, <1>2, <1>3 DEF InMap, Entries, Wants
<1>7. /\ IsFiniteSet(InProbe(v)) /\ IsFiniteSet(InMap(v))
      /\ Cardinality(SentOf(v)) \in Nat /\ One(InChild(v)) \in Nat
  BY CountsFinite, KnownNat
<1> DEFINE P == InProbe(v)
           Q == InProbe(v)'
           M == InMap(v)
           N == InMap(v)'
<1>8. IsFiniteSet(P) /\ IsFiniteSet(M) /\ P \ {c} = Q \ {c} /\ M \ {x} = N \ {x}
  BY <1>5, <1>6, <1>7
<1>9. /\ Cardinality(Q) = Cardinality(P) + One(c \in Q) - One(c \in P)
      /\ Cardinality(N) = Cardinality(M) + One(x \in N) - One(x \in M)
      /\ Cardinality(P) \in Nat /\ Cardinality(M) \in Nat
      /\ Cardinality(Q) \in Nat /\ Cardinality(N) \in Nat
  <2> HIDE DEF P, Q, M, N, x
  <2> QED BY <1>8, Flip
<1>10. /\ One(c \in Q) = 0 /\ One(c \in P) = One(Wants(m, v))
       /\ One(x \in N) <= One(Wants(m, v)) /\ One(x \in M) \in {0, 1}
       /\ x \in Entries \ {0} /\ map[x] = 0 /\ c_pc = "poll" =>
            One(x \in M) = 0 /\ One(x \in N) = One(Wants(m, v))
       /\ One(x \in N) \in Nat /\ One(Wants(m, v)) \in Nat
  <2> HIDE DEF x, m
  <2> QED BY <1>5, <1>6 DEF One
<1>11. /\ Known(v) = Cardinality(SentOf(v)) + Cardinality(M) + One(InChild(v)) + Cardinality(P)
       /\ Known(v)' = Cardinality(SentOf(v)) + Cardinality(N) + One(InChild(v)) + Cardinality(Q)
  BY <1>4, Zenon DEF Known
<1>12. /\ Known(v)' <= Known(v)
       /\ x \in Entries \ {0} /\ map[x] = 0 /\ c_pc = "poll" => Known(v)' = Known(v)
  <2> DEFINE s == Cardinality(SentOf(v))
             k == One(InChild(v))
             o == One(Wants(m, v))
             in == One(x \in N)
             out == One(x \in M)
  <2>1. /\ Known(v) = s + Cardinality(M) + k + Cardinality(P)
        /\ Known(v)' = s + Cardinality(N) + k + Cardinality(Q)
        /\ Cardinality(N) = Cardinality(M) + in - out
        /\ Cardinality(Q) = Cardinality(P) - o
    BY <1>9, <1>10, <1>11
  <2>2. /\ s \in Nat /\ k \in Nat /\ o \in Nat /\ in \in Nat /\ out \in Nat /\ in <= o
        /\ Cardinality(M) \in Nat /\ Cardinality(P) \in Nat
        /\ x \in Entries \ {0} /\ map[x] = 0 /\ c_pc = "poll" => out = 0 /\ in = o
    BY <1>7, <1>9, <1>10
  <2> DEFINE a == Cardinality(M)
             p == Cardinality(P)
             big == Known(v)
             new == Known(v)'
  <2>3. big = s + a + k + p /\ new = s + (a + in - out) + k + (p - o)
    BY <2>1, Zenon
  <2>4. /\ s \in Nat /\ k \in Nat /\ o \in Nat /\ in \in Nat /\ out \in Nat /\ in <= o
        /\ a \in Nat /\ p \in Nat
    BY <2>2
  <2>5. new = big + in - out - o
    <3> HIDE DEF big, new, s, a, k, p, in, out, o
    <3> QED BY <2>3, <2>4
  <2>6. big \in Int
    <3> HIDE DEF big, new, s, a, k, p, in, out, o
    <3> QED BY <2>3, <2>4
  <2>7. new <= big /\ (out = 0 /\ in = o => new = big)
    <3> HIDE DEF big, new, s, a, k, p, in, out, o
    <3> QED BY <2>4, <2>5, <2>6
  <2> QED BY <2>2, <2>7, Zenon
<1> QED BY <1>4, <1>12

(* The child moves requests from the map to its variable and on to the     *)
(* host, and loses none.                                                   *)
LEMMA CountChild ==
    ASSUME PathInv, poll \/ look \/ ioctl \/ clear \/ reset, NEW v \in Nat
    PROVE  Known(v)' = Known(v) /\ CallsOf(v)' = CallsOf(v)
<1> USE DEF PathInv, PathTypeOK
<1>1. UNCHANGED <<k_pc, k_mask, k_index, calls>>
  BY DEF poll, look, ioctl, clear, reset, probeVars
<1>2. CallsOf(v)' = CallsOf(v) /\ InProbe(v)' = InProbe(v)
  BY <1>1 DEF CallsOf, InProbe
<1>3. /\ IsFiniteSet(InMap(v)) /\ IsFiniteSet(SentOf(v)) /\ One(InChild(v)) \in Nat
      /\ Cardinality(InProbe(v)) \in Nat
      /\ Cardinality(InMap(v)) \in Nat /\ Cardinality(SentOf(v)) \in Nat
  BY CountsFinite, KnownNat
<1>4. SUFFICES Cardinality(SentOf(v)') + Cardinality(InMap(v)') + One(InChild(v))'
                 = Cardinality(SentOf(v)) + Cardinality(InMap(v)) + One(InChild(v))
  BY <1>2, Zenon DEF Known
<1>5. CASE poll \/ reset
  <2>1. /\ forwarded' = forwarded /\ c_pc \notin {"ioctl", "clear"} /\ c_pc' \notin {"ioctl", "clear"}
        /\ \A i \in Entries \ {0} : map'[i] = map[i]
    BY <1>5, MapAssumption DEF poll, reset, TypeOK, Entries
  <2>2. SentOf(v)' = SentOf(v) /\ InMap(v)' = InMap(v) /\ One(InChild(v))' = One(InChild(v))
    BY <2>1 DEF SentOf, InMap, InChild, One, Entries
  <2> QED BY <2>2, Zenon
<1>6. CASE look
  <2>1. /\ UNCHANGED <<map, forwarded>> /\ c_pc = "look" /\ c_i \in 1 .. MaxEntries
        /\ c_value' = Lookup(c_i, c_value)
        /\ IF c_value' # 0 THEN c_pc' = "ioctl" /\ c_i' = c_i ELSE c_pc' \in {"look", "reset"}
    BY <1>6 DEF look, ScanInv
  <2>2. SentOf(v)' = SentOf(v) /\ One(InChild(v)) = 0
    BY <2>1 DEF SentOf, InChild, One
  <2>3. CASE c_value' = 0
    <3>1. InMap(v)' = InMap(v) /\ One(InChild(v))' = 0
      BY <2>1, <2>3 DEF InMap, InChild, One, Entries
    <3> QED BY <2>2, <3>1, Zenon
  <2>4. CASE c_value' # 0 /\ c_i = MaxEntries
    <3>1. InMap(v)' = InMap(v) /\ One(InChild(v))' = 0
      BY <2>1, <2>4, MapAssumption DEF InMap, InChild, One, Entries
    <3> QED BY <2>2, <3>1, Zenon
  <2>5. CASE c_value' # 0 /\ c_i # MaxEntries
    <3>1. c_i \in Entries \ {0} /\ c_value' = map[c_i] /\ c_i < MaxEntries
      BY <2>1, <2>5, MapAssumption DEF Lookup, Entries
    <3> DEFINE M == InMap(v)
               N == InMap(v)'
    <3>2. /\ IsFiniteSet(M) /\ M \ {c_i} = N \ {c_i} /\ c_i \notin N
          /\ c_i \in M <=> InChild(v)'
      BY <1>3, <2>1, <2>5, <3>1 DEF InMap, InChild, Entries
    <3>3. /\ Cardinality(N) = Cardinality(M) + One(c_i \in N) - One(c_i \in M)
          /\ Cardinality(M) \in Nat
      <4> DEFINE y == c_i
      <4>1. IsFiniteSet(M) /\ M \ {y} = N \ {y}
        BY <3>2
      <4> HIDE DEF M, N, y
      <4>2. /\ Cardinality(N) = Cardinality(M) + One(y \in N) - One(y \in M)
            /\ Cardinality(M) \in Nat
        BY <4>1, Flip
      <4> QED BY <4>2 DEF y
    <3>4. One(c_i \in N) = 0 /\ One(c_i \in M) = One(InChild(v))' /\ One(InChild(v))' \in Nat
      BY <3>2 DEF One
    <3>5. Cardinality(SentOf(v)') = Cardinality(SentOf(v))
      BY <2>2, Zenon
    <3> HIDE DEF M, N
    <3>6. Cardinality(SentOf(v)') + Cardinality(N) + One(InChild(v))'
                 = Cardinality(SentOf(v)) + Cardinality(M) + One(InChild(v))
      BY <1>3, <2>2, <3>3, <3>4, <3>5
    <3> QED BY <3>6 DEF M, N
  <2> QED BY <2>3, <2>4, <2>5
<1>7. CASE ioctl
  <2> DEFINE e == <<c_i, c_value % IntValues>>
             n == Len(forwarded) + 1
             S == SentOf(v)
             T == SentOf(v)'
  <2>1. /\ UNCHANGED <<map, c_i>> /\ c_pc = "ioctl" /\ c_pc' = "clear" /\ c_i \in 1 .. MaxEntries
        /\ forwarded' = Append(forwarded, e)
    BY <1>7 DEF ioctl, ScanInv
  <2>2. InMap(v)' = InMap(v) /\ One(InChild(v))' = 0
    BY <2>1 DEF InMap, InChild, One, Entries
  <2>3. /\ IsFiniteSet(S) /\ S \ {n} = T \ {n} /\ n \notin S
        /\ n \in T <=> InChild(v)
    <3>1. Len(forwarded) \in Nat /\ forwarded \in Seq((1 .. MaxEntries) \X Nat)
      BY DEF TypeOK
    <3>2. /\ DOMAIN forwarded = 1 .. Len(forwarded)
          /\ DOMAIN forwarded' = 1 .. Len(forwarded) + 1
          /\ forwarded'[n] = e
          /\ \A i \in 1 .. Len(forwarded) : forwarded'[i] = forwarded[i]
      <4> HIDE DEF e
      <4> QED BY <2>1, <3>1
    <3>3. e[1] = c_i /\ e[2] = c_value % IntValues
      OBVIOUS
    <3> HIDE DEF e
    <3>4. S = {i \in 1 .. Len(forwarded) : forwarded[i][1] < MaxEntries /\ forwarded[i][2] = v}
      BY <3>2 DEF SentOf
    <3>5. T = {i \in 1 .. Len(forwarded) + 1 : forwarded'[i][1] < MaxEntries /\ forwarded'[i][2] = v}
      BY <3>2 DEF SentOf
    <3>6. n \notin S /\ S \ {n} = T \ {n}
      BY <3>1, <3>2, <3>4, <3>5
    <3>7. n \in T <=> InChild(v)
      BY <2>1, <3>1, <3>2, <3>3, <3>5 DEF InChild
    <3> QED BY <1>3, <3>6, <3>7
  <2>4. /\ Cardinality(T) = Cardinality(S) + One(n \in T) - One(n \in S)
        /\ Cardinality(S) \in Nat
    <3> HIDE DEF S, T, n
    <3> QED BY <2>3, Flip
  <2>5. One(n \in T) = One(InChild(v)) /\ One(n \in S) = 0
    <3> HIDE DEF n
    <3> QED BY <2>3 DEF One
  <2>6. Cardinality(InMap(v)') = Cardinality(InMap(v))
    BY <2>2, Zenon
  <2> HIDE DEF S, T, n
  <2>7. Cardinality(T) + Cardinality(InMap(v)') + One(InChild(v))'
                 = Cardinality(S) + Cardinality(InMap(v)) + One(InChild(v))
    BY <1>3, <2>2, <2>4, <2>5, <2>6
  <2> QED BY <2>7 DEF S, T
<1>8. CASE clear
  <2>1. /\ forwarded' = forwarded /\ c_pc = "clear" /\ c_pc' \in {"look", "reset"}
        /\ c_i \in 1 .. MaxEntries /\ c_value = 0 /\ map' = Updated(c_i, 0)
    BY <1>8 DEF clear, ScanInv
  <2>2. map \in [Entries -> Nat] /\ c_i \in Nat
    BY <2>1, MapAssumption DEF TypeOK
  <2>3. \A i \in Entries : map'[i] = IF i = c_i THEN 0 ELSE map[i]
    <3>1. \A i \in Entries : Updated(c_i, 0)[i] = IF i = c_i THEN 0 ELSE map[i]
      BY <2>2, UpdatedType
    <3> QED BY <2>1, <3>1
  <2>4. SentOf(v)' = SentOf(v) /\ InMap(v)' = InMap(v) /\ One(InChild(v))' = One(InChild(v))
    <3>1. SentOf(v)' = SentOf(v)
      BY <2>1 DEF SentOf
    <3>2. InMap(v)' = InMap(v)
      BY <2>1, <2>3 DEF InMap
    <3>3. ~InChild(v) /\ ~InChild(v)'
      BY <2>1 DEF InChild
    <3> QED BY <3>1, <3>2, <3>3 DEF One
  <2> QED BY <2>4, Zenon
<1> QED BY <1>5, <1>6, <1>7, <1>8

LEMMA CountSame ==
    ASSUME UNCHANGED vars, NEW v
    PROVE  Known(v)' = Known(v) /\ CallsOf(v)' = CallsOf(v)
<1>1. SentOf(v)' = SentOf(v) /\ CallsOf(v)' = CallsOf(v) /\ One(InChild(v))' = One(InChild(v))
  BY DEF vars, SentOf, CallsOf, InChild, One
<1>2. InMap(v)' = InMap(v) /\ InProbe(v)' = InProbe(v)
  BY DEF vars, InMap, InProbe, Entries
<1> QED BY <1>1, <1>2, Zenon DEF Known

(* The steps of the path that are not steps of a probe.                    *)
LEMMA OtherSteps ==
    ASSUME child_poll \/ child_ioctl \/ child_scan \/ host_reset \/ UNCHANGED allVars
    PROVE  (poll \/ look \/ ioctl \/ clear \/ reset) \/ UNCHANGED vars
BY DEF child_poll, child_ioctl, child_scan, host_reset, allVars

(* No call is anywhere twice, whatever happens.                            *)
LEMMA CountNext == PathInv /\ CountInv /\ [PathNext]_allVars => CountInv'
<1> SUFFICES ASSUME PathInv, CountInv, [PathNext]_allVars, NEW v \in Nat
             PROVE  Known(v)' <= Cardinality(CallsOf(v)')
  BY DEF CountInv
<1>1. Known(v) <= Cardinality(CallsOf(v)) /\ Known(v) \in Nat /\ Cardinality(CallsOf(v)) \in Nat
  BY CountsFinite, KnownNat DEF CountInv, PathInv
<1>2. ASSUME NEW c \in Cpus, GuestProbe(c) PROVE Known(v)' <= Cardinality(CallsOf(v)')
  <2>1. ASSUME NEW m \in Requests, bpf_prog1_enter(c, m) PROVE Known(v)' <= Cardinality(CallsOf(v)')
    <3>1. /\ Known(v)' = Known(v) + One(k_pc'[c] = "add" /\ Wants(m, v))
          /\ Cardinality(CallsOf(v)') = Cardinality(CallsOf(v)) + One(Wants(m, v))
      BY <2>1, CountEnter
    <3>2. /\ One(k_pc'[c] = "add" /\ Wants(m, v)) <= One(Wants(m, v))
          /\ One(k_pc'[c] = "add" /\ Wants(m, v)) \in Nat
          /\ One(Wants(m, v)) \in Nat
      BY DEF One
    <3> QED BY <1>1, <3>1, <3>2
  <2>2. CASE bpf_prog1_add(c) \/ bpf_prog1_index(c)
    <3>1. Known(v)' = Known(v) /\ CallsOf(v)' = CallsOf(v)
      BY <2>2, CountAddIndex
    <3> QED BY <1>1, <3>1, Zenon
  <2>3. CASE bpf_prog1_update(c)
    <3>1. Known(v)' <= Known(v) /\ CallsOf(v)' = CallsOf(v)
      BY <2>3, CountUpdate
    <3>2. (PathTypeOK => KnownTyped)'
      BY KnownAllNat, PTL
    <3>3. Cardinality(CallsOf(v)') = Cardinality(CallsOf(v))
      BY <3>1, Zenon
    <3>4. PathTypeOK'
      BY PathNextInv DEF PathInv
    <3> QED BY <1>1, <3>1, <3>2, <3>3, <3>4 DEF KnownTyped
  <2> QED BY <1>2, <2>1, <2>2, <2>3 DEF GuestProbe, Probe
<1>3. CASE child_poll \/ child_ioctl \/ child_scan \/ host_reset \/ UNCHANGED allVars
  <2>1. Known(v)' = Known(v) /\ CallsOf(v)' = CallsOf(v)
    BY <1>3, OtherSteps, CountChild, CountSame
  <2> QED BY <1>1, <2>1, Zenon
<1> QED BY <1>2, <1>3 DEF PathNext

LEMMA NoneKnown ==
    ASSUME Init, NEW v
    PROVE  Known(v) = 0 /\ Cardinality(CallsOf(v)) = 0
<1>1. InMap(v) = {} /\ InProbe(v) = {} /\ SentOf(v) = {} /\ CallsOf(v) = {} /\ ~InChild(v)
  BY DEF Init, InMap, InProbe, SentOf, CallsOf, InChild
<1>2. Cardinality({}) = 0
  BY FS_EmptySet
<1>3. One(InChild(v)) = 0
  BY <1>1 DEF One
<1>4. Known(v) = 0 + 0 + 0 + 0 /\ Cardinality(CallsOf(v)) = 0
  BY <1>1, <1>2, <1>3, Zenon DEF Known
<1> QED BY <1>4

(* A call of sched_setaffinity reaches the host at most once, on any       *)
(* number of CPUs and however probes and scan interleave: no mask is       *)
(* forwarded more often than it was asked for (bpf_prog1, the child).      *)
THEOREM AtMostOnce == PathSpec => []ForwardedAtMostOnce
<1>1. PathInit => CountInv
  <2> SUFFICES ASSUME PathInit, NEW v \in Nat PROVE Known(v) <= Cardinality(CallsOf(v))
    BY DEF CountInv
  <2>1. Known(v) = 0 /\ Cardinality(CallsOf(v)) = 0
    BY NoneKnown DEF PathInit
  <2> QED BY <2>1
<1>2. PathInv /\ CountInv => ForwardedAtMostOnce
  <2> SUFFICES ASSUME PathInv, CountInv, NEW m \in Requests
               PROVE  Cardinality(SentOf(m % IntValues)) <= Cardinality(CallsOf(m % IntValues))
    BY DEF ForwardedAtMostOnce
  <2> DEFINE v == m % IntValues
  <2>1. v \in Nat
    BY MapAssumption
  <2> HIDE DEF v
  <2>2. Known(v) <= Cardinality(CallsOf(v))
    BY <2>1 DEF CountInv
  <2>3. /\ Cardinality(SentOf(v)) \in Nat /\ Cardinality(CallsOf(v)) \in Nat
        /\ Cardinality(InMap(v)) \in Nat /\ Cardinality(InProbe(v)) \in Nat
        /\ One(InChild(v)) \in Nat
    BY CountsFinite, KnownNat DEF PathInv
  <2>4. Cardinality(SentOf(v)) <= Cardinality(CallsOf(v))
    BY <2>2, <2>3 DEF Known
  <2> QED BY <2>4 DEF v
<1> QED BY <1>1, <1>2, PathInvariant, CountNext, PTL DEF PathSpec

-----------------------------------------------------------------------------
(* Without races nothing is lost.                                          *)

(* A step of a probe on CPU c while the child sleeps and no other probe    *)
(* runs.                                                                   *)
LEMMA NoRaceProbe ==
    ASSUME PathInv, NoRaceInv, NEW c \in Cpus, GuestProbe(c), ~overlap'
    PROVE  NoRaceInv'
<1> USE DEF PathInv, PathTypeOK
<1>1. /\ ~overlap /\ c_pc = "poll" /\ \A d \in Cpus : d # c => k_pc[d] = "out"
  BY DEF GuestProbe
<1>2. map \in [Entries -> Nat] /\ MaxEntries \in Nat /\ MaxEntries >= 2 /\ 0 \in Entries
  BY MapAssumption DEF TypeOK, Entries
<1>3. /\ map[0] < MaxEntries /\ \A i \in Entries : i > map[0] => map[i] = 0
      /\ k_pc[c] = "add" => map[0] < MaxEntries - 1
      /\ k_pc[c] \in {"index", "update"} => map[0] > 0 /\ map[map[0]] = 0
      /\ k_pc[c] = "update" => k_index[c] = map[0]
  BY <1>1 DEF NoRaceInv
<1>4. SUFFICES /\ c_pc' = "poll" /\ \A d \in Cpus : d # c => k_pc'[d] = "out"
               /\ map'[0] < MaxEntries /\ \A i \in Entries : i > map'[0] => map'[i] = 0
               /\ k_pc'[c] = "add" => map'[0] < MaxEntries - 1
               /\ k_pc'[c] \in {"index", "update"} => map'[0] > 0 /\ map'[map'[0]] = 0
               /\ k_pc'[c] = "update" => k_index'[c] = map'[0]
  BY <1>4 DEF NoRaceInv, Entries
<1>5. ASSUME NEW m \in Requests, bpf_prog1_enter(c, m)
      PROVE  /\ UNCHANGED <<map, k_index, c_pc>>
             /\ k_pc' = [k_pc EXCEPT ![c] = IF map[0] = MaxEntries - 1 THEN "out" ELSE "add"]
  BY <1>5 DEF bpf_prog1_enter, childVars
<1>6. CASE \E m \in Requests : bpf_prog1_enter(c, m)
  BY <1>1, <1>2, <1>3, <1>5, <1>6 DEF TypeOK
<1>7. CASE bpf_prog1_add(c)
  <2>1. /\ c_pc' = c_pc /\ k_pc[c] = "add" /\ k_pc' = [k_pc EXCEPT ![c] = "index"]
        /\ map' = [map EXCEPT ![0] = map[0] + 1]
    BY <1>7 DEF bpf_prog1_add, childVars
  <2>2. map[0] \in Nat /\ map[0] < MaxEntries - 1
    BY <1>2, <1>3, <2>1
  <2>3. map[0] + 1 \in Entries \ {0}
    BY <1>2, <2>2 DEF Entries
  <2>4. map'[0] = map[0] + 1 /\ \A i \in Entries \ {0} : map'[i] = map[i]
    BY <1>2, <2>1
  <2>5. map'[map[0] + 1] = 0 /\ \A i \in Entries : i > map[0] + 1 => map'[i] = 0
    BY <1>2, <1>3, <2>2, <2>3, <2>4 DEF Entries
  <2> QED BY <1>1, <1>2, <2>1, <2>2, <2>4, <2>5 DEF TypeOK
<1>8. CASE bpf_prog1_index(c)
  BY <1>1, <1>2, <1>3, <1>8 DEF bpf_prog1_index, childVars, TypeOK
<1>9. CASE bpf_prog1_update(c)
  <2>1. /\ c_pc' = c_pc /\ k_pc[c] = "update" /\ k_pc' = [k_pc EXCEPT ![c] = "out"]
        /\ map' = Updated(k_index[c], k_mask[c])
    BY <1>9 DEF bpf_prog1_update, childVars
  <2>2. k_index[c] = map[0] /\ map[0] > 0 /\ map[0] \in Entries
    <3>1. map[0] \in Nat /\ map[0] < MaxEntries
      BY <1>2, <1>3
    <3>2. map[0] \in Entries
      <4> DEFINE e == map[0]
      <4>1. e \in Nat /\ e < MaxEntries
        BY <3>1
      <4> HIDE DEF e
      <4>2. e \in Entries
        BY <1>2, <4>1 DEF Entries
      <4> QED BY <4>2 DEF e
    <3> QED BY <1>3, <2>1, <3>2
  <2>3. map' = [map EXCEPT ![k_index[c]] = k_mask[c]]
    BY <2>1, <2>2 DEF Updated
  <2>4. map'[0] = map[0] /\ \A i \in Entries : i > map[0] => map'[i] = map[i]
    BY <1>2, <2>2, <2>3 DEF Entries
  <2> QED BY <1>1, <1>2, <1>3, <2>1, <2>4 DEF TypeOK
<1> QED BY <1>6, <1>7, <1>8, <1>9 DEF GuestProbe, Probe

(* A step of the child while no probe runs.                                *)
LEMMA NoRaceChild ==
    ASSUME PathInv, NoRaceInv, child_poll \/ child_ioctl \/ child_scan, ~overlap'
    PROVE  NoRaceInv'
<1> USE DEF PathInv, PathTypeOK
<1>1. ~overlap /\ (child_poll => ~Probing)
  BY DEF child_poll, child_ioctl, child_scan, pathVars
<1>2. child_ioctl \/ child_scan => c_pc # "poll"
  BY DEF child_ioctl, child_scan, ioctl, look, clear, reset
<1>3. ~Probing
  BY <1>1, <1>2 DEF NoRaceInv
<1>4. /\ \A c \in Cpus : k_pc[c] = "out"
      /\ k_pc' = k_pc
  BY <1>3 DEF Probing, child_poll, child_ioctl, child_scan, poll, ioctl, look, clear, reset, probeVars
<1>5. map \in [Entries -> Nat] /\ MaxEntries \in Nat /\ MaxEntries >= 2 /\ 0 \in Entries
  BY MapAssumption DEF TypeOK, Entries
<1>6. c_pc # "poll" => \A i \in Entries \ {0} : i > c_i => map[i] = 0
  BY <1>1 DEF NoRaceInv
<1>7. SUFFICES /\ c_pc' = "poll" => map'[0] < MaxEntries /\ \A i \in Entries : i > map'[0] => map'[i] = 0
               /\ c_pc' # "poll" => \A i \in Entries \ {0} : i > c_i' => map'[i] = 0
               /\ c_pc' = "reset" => c_i' = 0
  BY <1>4, <1>7 DEF NoRaceInv, Probing, Entries
<1>8. CASE child_poll
  <2>1. c_pc' = "look" /\ c_i' = MaxEntries
    BY <1>8 DEF child_poll, poll
  <2> QED BY <1>5, <2>1 DEF Entries
<1>9. CASE child_ioctl
  <2>1. c_pc = "ioctl" /\ c_pc' = "clear" /\ UNCHANGED <<map, c_i>>
    BY <1>9 DEF child_ioctl, ioctl
  <2> QED BY <1>6, <2>1
<1>10. CASE look
  <2>1. /\ c_pc = "look" /\ c_i \in 1 .. MaxEntries /\ map' = map
        /\ c_value' = Lookup(c_i, c_value)
        /\ IF c_value' # 0 THEN c_pc' = "ioctl" /\ c_i' = c_i
           ELSE c_i' = c_i - 1 /\ c_pc' = IF c_i = 1 THEN "reset" ELSE "look"
    BY <1>10 DEF look, ScanInv
  <2>2. c_value' = 0 => \A i \in Entries \ {0} : i > c_i - 1 => map[i] = 0
    BY <1>5, <1>6, <2>1 DEF Lookup, Entries
  <2> QED BY <1>6, <2>1, <2>2
<1>11. CASE clear
  <2>1. /\ c_pc = "clear" /\ c_i \in 1 .. MaxEntries /\ c_i \in Nat /\ map' = Updated(c_i, 0)
        /\ c_i' = c_i - 1 /\ c_pc' = IF c_i = 1 THEN "reset" ELSE "look"
    BY <1>11, <1>5 DEF clear, ScanInv
  <2>2. \A i \in Entries : map'[i] = IF i = c_i THEN 0 ELSE map[i]
    BY <1>5, <2>1, UpdatedType
  <2>3. \A i \in Entries \ {0} : i > c_i - 1 => map'[i] = 0
    BY <1>5, <1>6, <2>1, <2>2 DEF Entries
  <2> QED BY <2>1, <2>3
<1>12. CASE reset
  <2>1. c_pc = "reset" /\ c_pc' = "poll" /\ c_value = 0 /\ c_i = 0 /\ map' = [map EXCEPT ![0] = 0]
    BY <1>1, <1>12 DEF reset, ScanInv, NoRaceInv
  <2> QED BY <1>5, <1>6, <2>1 DEF Entries
<1> QED BY <1>8, <1>9, <1>10, <1>11, <1>12 DEF child_scan

LEMMA NoRaceNext == PathInv /\ NoRaceInv /\ [PathNext]_allVars => NoRaceInv'
<1> SUFFICES ASSUME PathInv, NoRaceInv, [PathNext]_allVars, ~overlap' PROVE NoRaceInv'
  BY DEF NoRaceInv
<1>1. CASE host_reset \/ UNCHANGED allVars
  <2>1. UNCHANGED <<map, k_pc, k_index, c_pc, c_i, overlap>>
    BY <1>1 DEF host_reset, allVars, vars, pathVars
  <2> QED BY <2>1 DEF NoRaceInv, Probing, Entries
<1> QED BY <1>1, NoRaceProbe, NoRaceChild DEF PathNext

LEMMA NoRaceInit == PathInit => NoRaceInv
BY MapAssumption DEF PathInit, Init, NoRaceInv, Probing, Entries

(* What the probe accepts.                                                 *)
LEMMA AcceptedAppend ==
    ASSUME PathInv, NEW m \in Requests, accepted' = Append(accepted, m), NEW v \in Nat
    PROVE  Cardinality(AcceptedOf(v)') = Cardinality(AcceptedOf(v)) + One(Wants(m, v))
<1> DEFINE A == AcceptedOf(v)
           B == AcceptedOf(v)'
           n == Len(accepted) + 1
<1>1. accepted \in Seq(Requests) /\ Len(accepted) \in Nat
  BY DEF PathInv, PathTypeOK
<1>2. /\ DOMAIN accepted = 1 .. Len(accepted) /\ DOMAIN accepted' = 1 .. Len(accepted) + 1
      /\ accepted'[Len(accepted) + 1] = m
      /\ \A i \in 1 .. Len(accepted) : accepted'[i] = accepted[i]
  BY <1>1
<1>3. n \notin A /\ A \ {n} = B \ {n} /\ (n \in B <=> Wants(m, v))
  BY <1>1, <1>2 DEF AcceptedOf
<1>4. IsFiniteSet(A)
  BY CountsFinite DEF PathInv
<1> HIDE DEF A, B, n
<1>5. /\ Cardinality(B) = Cardinality(A) + One(n \in B) - One(n \in A)
      /\ Cardinality(A) \in Nat
  BY <1>3, <1>4, Flip
<1>6. Cardinality(B) = Cardinality(A) + One(Wants(m, v))
  BY <1>3, <1>5 DEF One
<1> QED BY <1>6 DEF A, B

LEMMA NoLossNext ==
    PathInv /\ NoRaceInv /\ NoLossInv /\ [PathNext]_allVars => NoLossInv'
<1> SUFFICES ASSUME PathInv, NoRaceInv, NoLossInv, [PathNext]_allVars, ~overlap', NEW v \in Nat
             PROVE  Known(v)' = Cardinality(AcceptedOf(v)')
  BY DEF NoLossInv
<1>1. ~overlap
  BY DEF PathNext, GuestProbe, child_poll, child_ioctl, child_scan, host_reset, pathVars, allVars
<1>2. Known(v) = Cardinality(AcceptedOf(v)) /\ Known(v) \in Nat
  BY <1>1, KnownNat DEF NoLossInv, PathInv
<1>3. ASSUME NEW c \in Cpus, GuestProbe(c) PROVE Known(v)' = Cardinality(AcceptedOf(v)')
  <2>1. accepted' = IF k_pc[c] = "out" /\ k_pc'[c] = "add" THEN Append(accepted, k_mask'[c]) ELSE accepted
    BY <1>3 DEF GuestProbe
  <2>2. accepted' = accepted => Cardinality(AcceptedOf(v)') = Cardinality(AcceptedOf(v))
    BY Zenon DEF AcceptedOf
  <2>3. ASSUME NEW m \in Requests, bpf_prog1_enter(c, m) PROVE Known(v)' = Cardinality(AcceptedOf(v)')
    <3>1. /\ Known(v)' = Known(v) + One(k_pc'[c] = "add" /\ Wants(m, v))
          /\ k_pc'[c] \in {"out", "add"} /\ k_pc[c] = "out"
      BY <2>3, CountEnter
    <3>2. k_mask'[c] = m
      BY <2>3 DEF bpf_prog1_enter, PathInv, PathTypeOK, TypeOK
    <3>3. CASE k_pc'[c] = "add"
      <4>1. Cardinality(AcceptedOf(v)') = Cardinality(AcceptedOf(v)) + One(Wants(m, v))
        BY <2>1, <3>1, <3>2, <3>3, AcceptedAppend
      <4>2. One(k_pc'[c] = "add" /\ Wants(m, v)) = One(Wants(m, v))
        BY <3>3 DEF One
      <4> QED BY <1>2, <3>1, <4>1, <4>2
    <3>4. CASE k_pc'[c] = "out"
      <4>1. One(k_pc'[c] = "add" /\ Wants(m, v)) = 0
        BY <3>4 DEF One
      <4>2. accepted' = accepted
        BY <2>1, <3>4
      <4> QED BY <1>2, <2>2, <3>1, <4>1, <4>2
    <3> QED BY <3>1, <3>3, <3>4
  <2>4. CASE bpf_prog1_add(c) \/ bpf_prog1_index(c)
    <3>1. Known(v)' = Known(v)
      BY <2>4, CountAddIndex
    <3>2. accepted' = accepted
      BY <2>1, <2>4 DEF bpf_prog1_add, bpf_prog1_index
    <3> QED BY <1>2, <2>2, <3>1, <3>2, Zenon
  <2>5. CASE bpf_prog1_update(c)
    <3>1. k_pc[c] = "update" /\ c_pc = "poll"
      BY <1>3, <2>5 DEF bpf_prog1_update, GuestProbe
    <3>2. k_index[c] = map[0] /\ map[0] > 0 /\ map[0] < MaxEntries /\ map[map[0]] = 0
      BY <1>1, <3>1 DEF NoRaceInv
    <3>3. map[0] \in Nat
      BY MapAssumption DEF PathInv, PathTypeOK, TypeOK, Entries
    <3>4. k_index[c] \in Entries \ {0} /\ map[k_index[c]] = 0
      BY <3>2, <3>3, MapAssumption DEF Entries
    <3>5. Known(v)' = Known(v)
      BY <2>5, <3>1, <3>4, CountUpdate
    <3>6. accepted' = accepted
      BY <2>1, <3>1
    <3> QED BY <1>2, <2>2, <3>5, <3>6, Zenon
  <2> QED BY <1>3, <2>3, <2>4, <2>5 DEF GuestProbe, Probe
<1>4. CASE child_poll \/ child_ioctl \/ child_scan \/ host_reset \/ UNCHANGED allVars
  <2>1. Known(v)' = Known(v)
    BY <1>4, OtherSteps, CountChild, CountSame
  <2>2. accepted' = accepted
    BY <1>4 DEF child_poll, child_ioctl, child_scan, host_reset, allVars, pathVars
  <2>3. AcceptedOf(v)' = AcceptedOf(v)
    BY <2>2 DEF AcceptedOf
  <2> QED BY <1>2, <2>1, <2>3, Zenon
<1> QED BY <1>3, <1>4 DEF PathNext

(* As long as no probe runs during a scan or during another probe, each    *)
(* call that found room in the map has been forwarded exactly once         *)
(* whenever the count is back to 0 and everyone is at rest, for any        *)
(* numbers of CPUs and entries (bpf_prog1 against the child's loop).       *)
THEOREM NoLossWithoutRaces == PathSpec => []LostOnlyByRaces
<1>1. PathInit => NoRaceInv /\ NoLossInv
  <2> SUFFICES ASSUME PathInit PROVE NoRaceInv /\ NoLossInv
    OBVIOUS
  <2>1. NoRaceInv
    BY NoRaceInit
  <2>2. ASSUME NEW v \in Nat PROVE Known(v) = Cardinality(AcceptedOf(v))
    <3>1. Known(v) = 0
      BY NoneKnown DEF PathInit
    <3>2. AcceptedOf(v) = {}
      BY DEF PathInit, AcceptedOf
    <3> QED BY <3>1, <3>2, FS_EmptySet, Zenon
  <2> QED BY <2>1, <2>2 DEF NoLossInv
<1>2. PathInv /\ NoRaceInv /\ NoLossInv => LostOnlyByRaces
  <2> SUFFICES ASSUME PathInv, NoRaceInv, NoLossInv, Quiet, ~overlap PROVE LostOnlyByRaces
    BY DEF LostOnlyByRaces
  <2>1. \A i \in Entries : map[i] = 0
    BY MapAssumption DEF Quiet, NoRaceInv, Entries
  <2>2. ASSUME NEW v \in Nat PROVE Cardinality(SentOf(v)) = Cardinality(AcceptedOf(v))
    <3>1. InMap(v) = {} /\ InProbe(v) = {} /\ ~InChild(v)
      BY <2>1 DEF InMap, InProbe, InChild, Quiet, Probing
    <3>2. Cardinality(InMap(v)) = 0 /\ Cardinality(InProbe(v)) = 0 /\ One(InChild(v)) = 0
      <4>1. Cardinality({}) = 0
        BY FS_EmptySet
      <4>2. One(InChild(v)) = 0
        BY <3>1 DEF One
      <4> QED BY <3>1, <4>1, <4>2, Zenon
    <3>3. Cardinality(SentOf(v)) \in Nat
      BY CountsFinite DEF PathInv
    <3>4. Known(v) = Cardinality(AcceptedOf(v))
      BY DEF NoLossInv
    <3> QED BY <3>2, <3>3, <3>4 DEF Known
  <2>3. ASSUME NEW m \in Requests PROVE m % IntValues \in Nat
    BY MapAssumption
  <2> QED BY <2>1, <2>2, <2>3 DEF LostOnlyByRaces
<1> QED BY <1>1, <1>2, PathInvariant, NoRaceNext, NoLossNext, PTL DEF PathSpec

-----------------------------------------------------------------------------
(* Without races the oldest request wins.                                  *)

(* The map lists requests whatever is appended after them.                 *)
LEMMA ListedSame ==
    ASSUME NEW m, NEW n, NEW k \in Int, NEW last \in Int, Listed(m, k, last),
           \A i \in 1 .. k : n[i] = m[i],
           \A i \in 1 .. last : accepted'[i] = accepted[i]
    PROVE  k <= last /\ \A i \in 1 .. k : n[i] = accepted'[last - k + i]
<1>1. ASSUME NEW i \in 1 .. k PROVE n[i] = accepted'[last - k + i]
  <2>1. last - k + i \in 1 .. last /\ m[i] = accepted[last - k + i]
    BY <1>1 DEF Listed
  <2> QED BY <1>1, <2>1
<1> QED BY <1>1 DEF Listed

(* A step of a probe.                                                      *)
LEMMA OrderProbe ==
    ASSUME PathInv, NoRaceInv, OrderInv, NEW c \in Cpus, GuestProbe(c), ~overlap'
    PROVE  OrderInv'
<1> USE DEF PathInv, PathTypeOK
<1>1. /\ ~overlap /\ c_pc = "poll" /\ \A d \in Cpus : d # c => k_pc[d] = "out"
      /\ scan' = scan /\ c_pc' = "poll"
  BY DEF GuestProbe, Probe, bpf_prog1_enter, bpf_prog1_add, bpf_prog1_index, bpf_prog1_update,
         childVars
<1>2. /\ map \in [Entries -> Nat] /\ 0 \in Entries /\ map[0] \in Nat
      /\ accepted \in Seq(Requests) /\ Len(accepted) \in Nat
      /\ k_pc \in [Cpus -> {"out", "add", "index", "update"}] /\ k_mask \in [Cpus -> Nat]
  BY MapAssumption DEF TypeOK, Entries
<1> DEFINE L == Len(accepted)
           e == map[0]
<1>3. CASE \E m \in Requests : bpf_prog1_enter(c, m)
  <2>1. PICK m \in Requests : bpf_prog1_enter(c, m)
    BY <1>3
  <2>2. /\ UNCHANGED <<map, c_pc>> /\ k_pc[c] = "out" /\ k_mask' = [k_mask EXCEPT ![c] = m]
        /\ k_pc' = [k_pc EXCEPT ![c] = IF map[0] = MaxEntries - 1 THEN "out" ELSE "add"]
    BY <2>1 DEF bpf_prog1_enter, childVars
  <2>3. ~Probing /\ Listed(map, e, L)
    BY <1>1, <2>2 DEF OrderInv, Probing
  <2>4. CASE map[0] = MaxEntries - 1
    <3>1. k_pc' = k_pc /\ accepted' = accepted
      BY <1>2, <2>2, <2>4 DEF GuestProbe
    <3>2. Quiet' = Quiet /\ Probing' = Probing
      BY <2>2, <3>1 DEF Quiet, Probing
    <3>3. k_pc'[c] = "out" /\ \A d \in Cpus : k_pc'[d] = "out"
      BY <1>1, <2>2, <3>1
    <3> QED BY <1>1, <2>2, <3>1, <3>2, <3>3 DEF OrderInv, Listed
  <2>5. CASE map[0] # MaxEntries - 1
    <3>1. /\ k_pc' = [k_pc EXCEPT ![c] = "add"] /\ k_pc'[c] = "add" /\ k_mask'[c] = m
          /\ accepted' = Append(accepted, m)
      BY <1>2, <2>2, <2>5 DEF GuestProbe
    <3>2. /\ Len(accepted') = L + 1 /\ accepted'[L + 1] = m
          /\ \A i \in 1 .. L : accepted'[i] = accepted[i]
      BY <1>2, <3>1
    <3>3. e <= L /\ \A i \in 1 .. e : map[i] = accepted'[L - e + i]
      <4> HIDE DEF L, e, PathInv
      <4>1. e \in Int /\ L \in Int
        BY <1>2 DEF L, e
      <4> QED BY <2>3, <3>2, <4>1, ListedSame
    <3>4. Probing' /\ ~Quiet'
      BY <3>1 DEF Probing, Quiet
    <3>5. \A d \in Cpus : k_pc'[d] # "out" => d = c
      BY <1>1, <1>2, <3>1
    <3>6. L + 1 > 0 /\ (L + 1) - 1 = L
      BY <1>2
    <3>7. Listed(map, IF k_pc[c] = "add" THEN map[0] ELSE map[0] - 1, Len(accepted) - 1)'
      <4>1. (IF k_pc'[c] = "add" THEN map'[0] ELSE map'[0] - 1) = e /\ Len(accepted') - 1 = L
        BY <2>2, <3>1, <3>2, <3>6
      <4> HIDE DEF L, e, PathInv
      <4> QED BY <2>2, <3>3, <4>1 DEF Listed
    <3> QED BY <1>1, <3>1, <3>2, <3>4, <3>5, <3>6, <3>7 DEF OrderInv
  <2> QED BY <2>4, <2>5
<1>4. CASE bpf_prog1_add(c) \/ bpf_prog1_index(c)
  <2>1. /\ k_pc[c] # "out" /\ k_pc'[c] \in {"index", "update"} /\ k_mask' = k_mask
        /\ \A d \in Cpus : d # c => k_pc'[d] = "out"
        /\ map'[0] = IF k_pc[c] = "add" THEN map[0] + 1 ELSE map[0]
        /\ \A i \in Entries \ {0} : map'[i] = map[i]
    BY <1>1, <1>2, <1>4 DEF bpf_prog1_add, bpf_prog1_index
  <2>2. accepted' = accepted
    BY <2>1 DEF GuestProbe
  <2> DEFINE k == IF k_pc[c] = "add" THEN map[0] ELSE map[0] - 1
  <2>3. L > 0 /\ accepted[L] = k_mask[c] /\ Listed(map, k, L - 1)
    BY <1>1, <2>1 DEF OrderInv
  <2>4. k \in Int /\ map'[0] - 1 = k /\ map[0] < MaxEntries /\ k < MaxEntries
    <3>1. map[0] < MaxEntries
      BY <1>1 DEF NoRaceInv
    <3>2. k_pc[c] \in {"add", "index"}
      BY <1>4 DEF bpf_prog1_add, bpf_prog1_index
    <3>3. k_pc[c] = "add" => map'[0] = map[0] + 1 /\ k = map[0]
      BY <2>1
    <3>4. k_pc[c] # "add" => map'[0] = map[0] /\ k = map[0] - 1
      BY <2>1
    <3> QED BY <1>2, <3>1, <3>3, <3>4, MapAssumption
  <2>5. \A i \in 1 .. k : map'[i] = map[i]
    <3> HIDE DEF k
    <3> QED BY <2>1, <2>4, MapAssumption DEF Entries
  <2>6. Listed(map, IF k_pc[c] = "add" THEN map[0] ELSE map[0] - 1, Len(accepted) - 1)'
    <3> HIDE DEF k
    <3>1. k <= L - 1 /\ \A i \in 1 .. k : map'[i] = accepted[(L - 1) - k + i]
      BY <2>3, <2>5 DEF Listed
    <3> QED BY <2>1, <2>2, <2>4, <3>1 DEF Listed
  <2>7. Probing' /\ ~Quiet'
    BY <2>1 DEF Probing, Quiet
  <2> QED BY <1>1, <2>1, <2>2, <2>3, <2>6, <2>7 DEF OrderInv
<1>5. CASE bpf_prog1_update(c)
  <2>1. /\ k_pc[c] = "update" /\ map' = Updated(k_index[c], k_mask[c])
        /\ \A d \in Cpus : k_pc'[d] = "out"
    BY <1>1, <1>2, <1>5 DEF bpf_prog1_update
  <2>2. accepted' = accepted
    BY <2>1 DEF GuestProbe
  <2>3. /\ L > 0 /\ accepted[L] = k_mask[c] /\ Listed(map, e - 1, L - 1)
        /\ e > 0 /\ e < MaxEntries /\ k_index[c] = e
    BY <1>1, <2>1 DEF OrderInv, NoRaceInv
  <2>4. e \in Nat /\ k_mask[c] \in Nat /\ L \in Nat
    BY <1>2
  <2>5. \A i \in Entries : map'[i] = IF i = e THEN k_mask[c] ELSE map[i]
    <3> DEFINE w == k_mask[c]
    <3>1. map' = Updated(e, w) /\ w \in Nat
      BY <2>1, <2>3, <2>4
    <3> HIDE DEF e, w, PathInv
    <3>2. \A i \in Entries : Updated(e, w)[i] = IF i = e THEN w ELSE map[i]
      BY <1>2, <2>4, <3>1, UpdatedType
    <3> QED BY <3>1, <3>2, Zenon DEF w
  <2>6. map'[0] = e
    BY <1>2, <2>3, <2>5
  <2>7. e <= L /\ \A i \in 1 .. e : map'[i] = accepted[L - e + i]
    <3>1. ASSUME NEW i \in 1 .. e PROVE i \in Entries
      <4> HIDE DEF e
      <4> QED BY <2>3, <2>4, <3>1, MapAssumption DEF Entries
    <3>2. map'[e] = accepted[L]
      <4>1. e \in Entries
        BY <2>3, <2>4, MapAssumption DEF Entries
      <4> QED BY <2>3, <2>5, <4>1
    <3>3. e - 1 <= L - 1 /\ \A i \in 1 .. e - 1 : map[i] = accepted[(L - 1) - (e - 1) + i]
      BY <2>3 DEF Listed
    <3>4. \A i \in 1 .. e : i # e => map'[i] = map[i]
      BY <2>5, <3>1
    <3> HIDE DEF e, L, PathInv
    <3> QED BY <2>4, <3>2, <3>3, <3>4
  <2>8. Listed(map, map[0], Len(accepted))'
    BY <2>2, <2>6, <2>7 DEF Listed
  <2>9. ~Quiet'
    BY <2>3, <2>6 DEF Quiet
  <2> QED BY <1>1, <2>1, <2>8, <2>9 DEF OrderInv
<1> QED BY <1>3, <1>4, <1>5 DEF GuestProbe, Probe

(* A step of the child.                                                    *)
LEMMA OrderChild ==
    ASSUME PathInv, NoRaceInv, OrderInv, child_poll \/ child_ioctl \/ child_scan, ~overlap'
    PROVE  OrderInv'
<1> USE DEF PathInv, PathTypeOK
<1>1. ~overlap /\ (child_poll => ~Probing)
  BY DEF child_poll, child_ioctl, child_scan, pathVars
<1>2. child_ioctl \/ child_scan => c_pc # "poll"
  BY DEF child_ioctl, child_scan, ioctl, look, clear, reset
<1>3. ~Probing
  BY <1>1, <1>2 DEF NoRaceInv
<1>4. (\A c \in Cpus : k_pc'[c] = "out") /\ accepted' = accepted
  BY <1>3 DEF Probing, child_poll, child_ioctl, child_scan, poll, ioctl, look, clear, reset,
              probeVars, pathVars
<1>5. Len(accepted) \in Nat /\ map \in [Entries -> Nat] /\ 0 \in Entries
  BY MapAssumption DEF TypeOK, Entries
<1>6. CASE child_poll
  <2>1. scan' = map /\ c_pc = "poll" /\ c_pc' = "look"
    BY <1>3, <1>6 DEF child_poll, poll
  <2>2. /\ Listed(map, map[0], Len(accepted)) /\ map[0] < MaxEntries
        /\ \A i \in Entries : i > map[0] => map[i] = 0
    BY <1>1, <1>3, <2>1 DEF OrderInv, NoRaceInv
  <2> QED BY <1>4, <2>1, <2>2 DEF OrderInv, Listed, Entries
<1>7. CASE child_ioctl \/ child_scan
  <2>1. scan' = scan /\ c_pc # "poll"
    BY <1>2, <1>7 DEF child_ioctl, child_scan, pathVars
  <2>2. /\ Listed(scan, scan[0], Len(accepted)) /\ scan[0] < MaxEntries
        /\ \A i \in Entries : i > scan[0] => scan[i] = 0
    BY <1>1, <2>1 DEF OrderInv
  <2>3. /\ Listed(scan, scan[0], Len(accepted))' /\ scan'[0] < MaxEntries
        /\ \A i \in Entries : i > scan'[0] => scan'[i] = 0
    BY <1>4, <2>1, <2>2 DEF Listed
  <2>4. c_pc' = "poll" => map'[0] = 0
    BY <1>5, <1>7, <2>1 DEF child_ioctl, child_scan, ioctl, look, clear, reset, ScanInv
  <2>5. c_pc' = "poll" => Listed(map, map[0], Len(accepted))'
    BY <1>4, <1>5, <2>4 DEF Listed
  <2> QED BY <1>4, <2>3, <2>5 DEF OrderInv, Entries
<1> QED BY <1>6, <1>7

LEMMA OrderNext == PathInv /\ NoRaceInv /\ OrderInv /\ [PathNext]_allVars => OrderInv'
<1> SUFFICES ASSUME PathInv, NoRaceInv, OrderInv, [PathNext]_allVars, ~overlap' PROVE OrderInv'
  BY DEF OrderInv
<1>1. CASE host_reset \/ UNCHANGED allVars
  <2>1. /\ UNCHANGED <<map, k_pc, k_mask, c_pc, accepted, overlap>>
        /\ scan' = scan \/ scan' = NoEntries
    BY <1>1 DEF host_reset, allVars, vars, pathVars
  <2>2. Quiet' = Quiet /\ Probing' = Probing
    BY <2>1 DEF Quiet, Probing
  <2>3. CASE scan' = scan
    BY <2>1, <2>2, <2>3 DEF OrderInv, Listed, Entries
  <2>4. CASE scan' = NoEntries
    <3>1. Len(accepted) \in Nat /\ 0 \in Entries
      BY MapAssumption DEF PathInv, PathTypeOK, Entries
    <3>2. scan'[0] = 0 /\ \A i \in Entries : scan'[i] = 0
      BY <2>4, <3>1 DEF NoEntries
    <3>3. Listed(scan, scan[0], Len(accepted))' /\ scan'[0] < MaxEntries
      BY <2>1, <3>1, <3>2, MapAssumption DEF Listed
    <3> QED BY <2>1, <2>2, <3>2, <3>3 DEF OrderInv, Listed, Entries
  <2> QED BY <2>1, <2>3, <2>4
<1> QED BY <1>1, OrderProbe, OrderChild DEF PathNext

(* Of the calls that wait for one poll of the child the oldest decides     *)
(* where a vCPU runs, for any numbers of CPUs, entries and calls and any   *)
(* masks, as long as no probe overlaps a scan or another probe: then the   *)
(* map lists the calls in the order they came and the scan applies them    *)
(* backwards (bpf_prog1, the child's scan).                                *)
THEOREM OldestCorrect == PathSpec => []OldestRequestWins
<1>1. PathInit => OrderInv
  <2> SUFFICES ASSUME PathInit PROVE OrderInv
    OBVIOUS
  <2>1. 0 \in Entries /\ MaxEntries > 0
    BY MapAssumption DEF Entries
  <2>2. /\ map[0] = 0 /\ scan[0] = 0 /\ accepted = << >> /\ \A c \in Cpus : k_pc[c] = "out"
        /\ \A i \in Entries : scan[i] = 0
    BY <2>1 DEF PathInit, Init, NoEntries
  <2>3. Len(accepted) = 0
    BY <2>2
  <2> QED BY <2>1, <2>2, <2>3 DEF OrderInv, Listed
<1>2. PathInv /\ OrderInv /\ LowestInv => OldestRequestWins
  <2> SUFFICES ASSUME PathInv, OrderInv, LowestInv, Quiet, ~overlap, NEW v \in VCpus,
                      NEW a \in Batch, MaskPins(accepted[a], v) # {}
               PROVE  affinity[v] =
                        MaskPins(accepted[Min({n \in Batch : MaskPins(accepted[n], v) # {}})], v)
    BY DEF OldestRequestWins
  <2> DEFINE L == Len(accepted)
             k == scan[0]
             by == {n \in Batch : MaskPins(accepted[n], v) # {}}
  <2>1. L \in Nat /\ k \in Nat /\ Batch = L - k + 1 .. L
    BY MapAssumption DEF PathInv, PathTypeOK, Entries, Batch
  <2>2. /\ k <= L /\ k < MaxEntries /\ \A i \in 1 .. k : scan[i] = accepted[L - k + i]
        /\ \A i \in Entries : i > k => scan[i] = 0
    BY DEF OrderInv, Listed
  <2>3. Passed = Entries \ {0}
    BY DEF Passed, Quiet
  <2>4. ASSUME NEW n \in by
        PROVE  /\ n - (L - k) \in Passed /\ EntryPins(n - (L - k), v) = MaskPins(accepted[n], v)
    <3>1. n \in L - k + 1 .. L
      BY <2>1
    <3>2. n - (L - k) \in 1 .. k /\ L - k + (n - (L - k)) = n
      <4> HIDE DEF L, k, by
      <4> QED BY <2>1, <2>2, <3>1
    <3>3. scan[n - (L - k)] = accepted[n]
      <4> HIDE DEF L, k, by
      <4> QED BY <2>2, <3>2
    <3>4. n - (L - k) \in Entries \ {0}
      <4> HIDE DEF L, k, by
      <4> QED BY <2>1, <2>2, <3>2, MapAssumption DEF Entries
    <3> QED BY <2>3, <3>3, <3>4 DEF EntryPins
  <2>5. a \in by
    OBVIOUS
  <2>6. PICK i \in Passed : /\ EntryPins(i, v) # {} /\ affinity[v] = EntryPins(i, v)
                            /\ \A j \in Passed : EntryPins(j, v) # {} => i <= j
    BY <2>4, <2>5 DEF LowestInv
  <2> DEFINE b == L - k + i
  <2>7. i \in 1 .. k
    <3>1. i \in Entries \ {0} /\ scan[i] # 0
      BY <2>3, <2>6, ZeroPins
    <3> HIDE DEF k
    <3> QED BY <2>1, <2>2, <3>1, MapAssumption DEF Entries
  <2>8. b \in by /\ EntryPins(i, v) = MaskPins(accepted[b], v)
    <3>1. scan[i] = accepted[b]
      BY <2>2, <2>7
    <3>2. b \in L - k + 1 .. L
      <4> HIDE DEF L, k
      <4> QED BY <2>1, <2>2, <2>7
    <3>3. EntryPins(i, v) = MaskPins(accepted[b], v)
      BY <3>1, Zenon DEF EntryPins
    <3> HIDE DEF b, L, k
    <3> QED BY <2>1, <2>6, <3>2, <3>3
  <2>9. \A n \in by : b <= n
    <3> SUFFICES ASSUME NEW n \in by PROVE b <= n
      OBVIOUS
    <3>1. i <= n - (L - k)
      BY <2>4, <2>6
    <3>2. n \in Int
      BY <2>1
    <3> HIDE DEF L, k, by
    <3> QED BY <2>1, <2>7, <3>1, <3>2
  <2>10. by \subseteq Int
    BY <2>1
  <2> HIDE DEF by, b
  <2>11. Min(by) = b
    <3>1. \A x \in by : (\A y \in by : x <= y) => x = b
      BY <2>8, <2>9, <2>10
    <3> QED BY <2>8, <2>9, <3>1 DEF Min
  <2> QED BY <2>6, <2>8, <2>11 DEF by
<1>3. PathInit => NoRaceInv /\ LowestInv /\ ScannedInv
  BY NoRaceInit, LowestEmpty DEF PathInit, ScannedInv
<1> QED BY <1>1, <1>2, <1>3, PathInvariant, NoRaceNext, LowestNext, OrderNext, PTL DEF PathSpec

=============================================================================
