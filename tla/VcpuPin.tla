------------------------------ MODULE VcpuPin -------------------------------
(***************************************************************************)
(* The affinity of the vCPU threads of QEMU and sched_setaffinity(2) on    *)
(* them, shared by the device (HucDevice) and by the path of a guest's     *)
(* request to it (AffinityPath).                                           *)
(***************************************************************************)
EXTENDS Integers

CONSTANTS
    NVcpu,  \* vCPUs of the guest, qemu_get_cpu(0 .. NVcpu-1)
    PCpus   \* numbers of the online host CPUs

ASSUME PinAssumption == NVcpu \in Nat \ {0} /\ PCpus \subseteq Nat /\ PCpus # {}

VCpus == 0 .. NVcpu - 1

(* 0xFFFFFFFF as a 64-bit mask, what RESET asks for.                       *)
ResetMask == 0 .. 31

(* The threads of the vCPUs vs get the mask: offline CPUs are dropped from *)
(* it, a mask with no online CPU is EINVAL, which the callers only print.  *)
Pin(aff, vs, mask) ==
    [v \in VCpus |-> IF v \in vs /\ mask \cap PCpus # {} THEN mask \cap PCpus ELSE aff[v]]

(* hucdev_bufmmio_write, word 3: every vCPU whose own number is in the     *)
(* mask gets the whole mask.                                               *)
SetAffinity(aff, mask) == Pin(aff, mask, mask)

=============================================================================
