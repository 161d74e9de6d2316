---------------------------- MODULE AffinityPath ----------------------------
(***************************************************************************)
(* The whole way of a guest's sched_setaffinity: the programs that call    *)
(* it, the probe and the forwarding child of AffinityMap, and what the     *)
(* device does with each forwarded value: the vCPU threads it pins, which  *)
(* a RESET of the host undoes at any time.                                 *)
(***************************************************************************)
EXTENDS AffinityMap, VcpuPin, FiniteSetsExt

VARIABLES
    affinity,  \* host CPUs each vCPU thread may run on
    accepted,  \* history: the masks of the calls the probe did not turn away
    scan,      \* history: the map when the last scan of the child began; all
               \* zero once a probe or a RESET has come between
    overlap    \* history: whether a probe has ever met a scan or another probe

pathVars == <<affinity, accepted, scan, overlap>>
allVars  == <<vars, pathVars>>

NoEntries == [i \in Entries |-> 0]

PathTypeOK ==
    /\ TypeOK
    /\ affinity \in [VCpus -> SUBSET PCpus]
    /\ accepted \in Seq(Requests)
    /\ scan \in [Entries -> Nat]
    /\ overlap \in BOOLEAN

PathInit ==
    /\ Init
    /\ affinity = [v \in VCpus |-> PCpus]
    /\ accepted = << >>
    /\ scan = NoEntries
    /\ overlap = FALSE

(* A cpu_set_t as a number, and the CPUs of a number.                      *)
CpuMask(cpus) == MapThenSumSet(LAMBDA i : 2 ^ i, cpus)
CpuSet(n)     == {i \in 0 .. n : (n \div 2 ^ i) % 2 = 1}

-----------------------------------------------------------------------------
(* The masks the guest programs ask for: runon of spscq's threads pins to  *)
(* one CPU, or to all of them when i < 0; the test programs pin to their   *)
(* target or to CPUs 1, 2 and 3.                                           *)

runon(i) == CpuMask(IF i >= 0 THEN {i} ELSE VCpus)

setaffinity_thread_self(cpu) == CpuMask({cpu})

setaffinity_allno0_thread_self == CpuMask({1, 2, 3})

-----------------------------------------------------------------------------

Probing == \E c \in Cpus : k_pc[c] # "out"

(* A step of bpf_prog1 on CPU c.                                           *)
GuestProbe(c) ==
    /\ Probe(c)
    /\ accepted' = IF k_pc[c] = "out" /\ k_pc'[c] = "add" THEN Append(accepted, k_mask'[c])
                   ELSE accepted
    /\ scan' = IF c_pc = "poll" THEN scan ELSE NoEntries
    /\ overlap' = (overlap \/ c_pc # "poll" \/ \E d \in Cpus \ {c} : k_pc[d] # "out")
    /\ UNCHANGED affinity

child_poll ==
    /\ CpuFree /\ poll
    /\ scan' = IF Probing THEN NoEntries ELSE map
    /\ overlap' = (overlap \/ Probing)
    /\ UNCHANGED <<affinity, accepted>>

(* Faulty variant: the device gives each vCPU only its own CPU of the mask *)
(* (what its message "Bind vCPU to pCPU" says).                            *)
child_ioctl_Remaps ==
    /\ CpuFree /\ ioctl
    /\ affinity' = [v \in VCpus |-> IF v \in CpuSet(c_value % IntValues) /\ v \in PCpus THEN {v}
                                    ELSE affinity[v]]
    /\ UNCHANGED <<accepted, scan, overlap>>

(* The driver writes the value to word 3 of the device.                    *)
child_ioctl ==
    /\ CpuFree /\ ioctl
    /\ affinity' = SetAffinity(affinity, CpuSet(c_value % IntValues))
    /\ UNCHANGED <<accepted, scan, overlap>>

child_scan ==
    /\ CpuFree /\ (look \/ clear \/ reset)
    /\ UNCHANGED pathVars

(* reset.c on the host: handle_acceptfd on a RESET.                        *)
host_reset ==
    /\ affinity' = Pin(affinity, VCpus, ResetMask)
    /\ scan' = NoEntries
    /\ UNCHANGED <<vars, accepted, overlap>>

PathNext ==
    \/ \E c \in Cpus : GuestProbe(c)
    \/ child_poll
    \/ child_ioctl
    \/ child_scan
    \/ host_reset

PathFairness ==
    /\ WF_allVars(child_poll \/ child_ioctl \/ child_scan)
    /\ \A c \in Cpus : WF_allVars(GuestProbe(c) /\ k_pc[c] # "out")

PathSpec == PathInit /\ [][PathNext]_allVars /\ PathFairness

-----------------------------------------------------------------------------
(* Properties.                                                             *)

(* The host CPUs a request pins vCPU v to, empty when it does not name v,  *)
(* and what entry i of the scanned map pins it to.                         *)
MaskPins(m, v) ==
    LET mask == CpuSet(m % IntValues) IN IF v \in mask THEN mask \cap PCpus ELSE {}

EntryPins(i, v) == MaskPins(scan[i], v)

(* daemon.c:270 scans from the highest entry to the lowest: of the entries *)
(* that were in the map when the scan began the LOWEST decides where a     *)
(* vCPU runs, also when one of them was stranded by an earlier scan, and   *)
(* whatever number the scan forwarded before it.                           *)
LowestEntryWins ==
    c_pc = "poll" => \A v \in VCpus :
        LET by == {i \in Entries \ {0} : EntryPins(i, v) # {}}
        IN  by # {} => affinity[v] = EntryPins(Min(by), v)

Quiet == c_pc = "poll" /\ map[0] = 0 /\ ~Probing

(* The requests the last scan found, as positions in accepted.             *)
Batch == Len(accepted) - scan[0] + 1 .. Len(accepted)

(* Without races the lowest entry is the oldest request: of several calls  *)
(* that wait for one poll the OLDEST decides where a vCPU runs, and the    *)
(* later ones are overridden (bpf_prog1 appends, daemon.c:270 scans down). *)
OldestRequestWins ==
    Quiet /\ ~overlap => \A v \in VCpus :
        LET by == {n \in Batch : MaskPins(accepted[n], v) # {}}
        IN  by # {} => affinity[v] = MaskPins(accepted[Min(by)], v)

AcceptedOf(v) == {n \in DOMAIN accepted : Wants(accepted[n], v)}

(* Requests are lost or stranded in the map only by races: as long as no   *)
(* probe runs during a scan or during another probe, each call that found  *)
(* room and names a CPU has been forwarded to the host, exactly once, when *)
(* the count is back to 0, and no entry is left (bpf_prog1 against the     *)
(* child's loop).                                                          *)
LostOnlyByRaces ==
    Quiet /\ ~overlap =>
        /\ \A i \in Entries : map[i] = 0
        /\ \A v \in {m % IntValues : m \in Requests} :
             Cardinality(SentOf(v)) = Cardinality(AcceptedOf(v))

(* daemon.c:290 "set the cpu mask from the value read in the bpf map": a   *)
(* vCPU thread the guest has not asked for, or asked for with other CPUs,  *)
(* is never pinned: it runs everywhere, or on what some call gave it.      *)
HostPinsAsAsked ==
    \A v \in VCpus :
        \/ affinity[v] = PCpus
        \/ \E m \in Requests : /\ Asked(m)
                               /\ v \in CpuSet(m % IntValues)
                               /\ affinity[v] = CpuSet(m % IntValues) \cap PCpus

=============================================================================
