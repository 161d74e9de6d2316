--------------------------- MODULE MCAffinityPath ---------------------------
(* Instances of AffinityPath for TLC.                                      *)
EXTENDS AffinityPath

GuestCpus  == VCpus
OneCpu     == {0}
HostCpus   == {0, 1}

(* A request for all CPUs, one for CPU 1 that reaches past the integer the *)
(* ioctl copies, and an empty mask.                                        *)
MCRequests == {runon(-1), setaffinity_allno0_thread_self, CpuMask({})}
OneRequest == {setaffinity_thread_self(1)}

=============================================================================
