----------------------------- MODULE PciDriver ------------------------------
(***************************************************************************)
(* The life of the two guest drivers, driver/huc-driver.c and              *)
(* driver/testdemo-drv.c: insmod, probe, remove and rmmod, with programs   *)
(* that open the device node and interrupts that arrive meanwhile.         *)
(*                                                                         *)
(* probe and remove are sequences of kernel calls, each one step here.     *)
(* Every step that acquires something may fail; what the code then does is *)
(* in `Ignored' and `probe'.  The kernel around them is external: it calls *)
(* remove for rmmod only while no file is open (fops.owner), for an unbind *)
(* or unplug at any time, and releases devm resources after remove.        *)
(***************************************************************************)
EXTENDS Naturals, Sequences, FiniteSets

CONSTANTS
    Drivers,    \* subset of {"huc", "testdemo"}
    Users,      \* processes that use the device node
    NMajors,    \* character device majors the kernel can hand out
    MaxProbes,  \* bound: probes of the device
    MaxFaults   \* bound: steps of probe that fail

ASSUME PciAssumption ==
    /\ Drivers \subseteq {"huc", "testdemo"} /\ Drivers # {}
    /\ IsFiniteSet(Users)
    /\ NMajors \in Nat \ {0}
    /\ MaxProbes \in Nat /\ MaxFaults \in Nat

VARIABLES
    driver,    \* which of the two drivers this is
    mod,       \* the module: "out", "in", "going" (rmmod has begun)
    pc,        \* the device: "unbound", "probe", "bound", "remove", "devres"
    step,      \* next step of probe or remove
    held,      \* what the driver has acquired and not released
    majors,    \* majors in use
    bufmmio,   \* "null", "mapped", "stale" (iounmap was called, pointer kept)
    good,      \* the last probe returned 0
    file,      \* per user: "closed", "open", or "read", "io" inside a file operation
    flag,      \* data for huc_read is ready
    probes,    \* history: probes begun
    faults,    \* history: steps of probe that failed
    extra,     \* history: what remove released without holding it
    oops,      \* history: who touched bufmmio while it was not mapped
    untimely   \* history: "early": opened before probe succeeded, "forced": unbound
               \* with a file open, "late": interrupted after iounmap

lifeVars == <<mod, pc, step, good, probes>>
resVars  == <<held, majors, bufmmio, faults, extra>>
useVars  == <<file, flag, oops, untimely>>
vars     == <<driver, mod, pc, step, held, majors, bufmmio, good, file, flag, probes,
              faults, extra, oops, untimely>>

(* Faulty variant: the interrupt is requested before the buffer is mapped. *)
ProbeSteps_IrqFirst ==
    IF driver = "huc"
      THEN <<"chrdev", "cdev", "class", "node", "enable", "region", "irq", "iomap">>
      ELSE <<"chrdev", "cdev", "class", "node", "enable", "region", "iomap">>

(* What probe acquires, in order.                                          *)
ProbeSteps ==
    <<"chrdev", "cdev", "class", "node", "enable", "region", "iomap">>
        \o IF driver = "huc" THEN <<"irq">> ELSE << >>

(* Faulty variant: huc keeps its region of device numbers.                 *)
RemoveSteps_KeepsRegion ==
    IF driver = "huc"
      THEN <<"node", "class", "cdev", "region", "iomap">>
      ELSE <<"node", "class", "cdev", "iomap", "region">>

(* What remove releases, in order.  The final unregister_chrdev of both    *)
(* drivers asks for a region of 256 minors, finds none and releases        *)
(* nothing; huc has called unregister_chrdev_region before, testdemo not.  *)
RemoveSteps ==
    IF driver = "huc"
      THEN <<"node", "class", "cdev", "chrdev", "region", "iomap">>
      ELSE <<"node", "class", "cdev", "iomap", "region">>

Resource == {"driver", "chrdev", "cdev", "class", "node", "enable", "region", "iomap", "irq"}

(* Steps of probe whose result the code does not look at.                  *)
Ignored == {"chrdev", "cdev", "node"}

TypeOK ==
    /\ driver \in Drivers
    /\ mod \in {"out", "in", "going"}
    /\ pc \in {"unbound", "probe", "bound", "remove", "devres"}
    /\ step \in 1 .. 9
    /\ held \subseteq Resource
    /\ majors \in 0 .. NMajors
    /\ bufmmio \in {"null", "mapped", "stale"}
    /\ good \in BOOLEAN
    /\ file \in [Users -> {"closed", "open", "read", "io"}]
    /\ flag \in BOOLEAN
    /\ probes \in 0 .. MaxProbes
    /\ faults \subseteq Resource
    /\ extra \subseteq Resource
    /\ oops \subseteq {"file", "irq"}
    /\ untimely \subseteq {"early", "forced", "late"}
    /\ bufmmio = "mapped" <=> "iomap" \in held
    /\ pc # "unbound" => mod # "out"

Init ==
    /\ driver \in Drivers
    /\ mod = "out" /\ pc = "unbound" /\ step = 1
    /\ held = {} /\ majors = 0 /\ bufmmio = "null" /\ good = FALSE
    /\ file = [u \in Users |-> "closed"]
    /\ flag = FALSE
    /\ probes = 0 /\ faults = {} /\ extra = {} /\ oops = {} /\ untimely = {}

-----------------------------------------------------------------------------
(* Loading and binding.                                                    *)

(* huc_init: pci_register_driver finds the device and probes it.  A fresh  *)
(* module has fresh variables.                                             *)
insmod ==
    /\ mod = "out" /\ probes < MaxProbes
    /\ mod' = "in" /\ pc' = "probe" /\ step' = 1 /\ good' = FALSE
    /\ probes' = probes + 1
    /\ held' = held \cup {"driver"}
    /\ bufmmio' = "null" /\ flag' = FALSE
    /\ UNCHANGED <<driver, majors, faults, extra, file, oops, untimely>>

(* pci_register_driver fails: init returns 1, which the kernel takes for   *)
(* success, and the module stays loaded without a driver.                  *)
insmod_fail ==
    /\ mod = "out" /\ probes < MaxProbes /\ Cardinality(faults) < MaxFaults
    /\ mod' = "in"
    /\ probes' = probes + 1
    /\ faults' = faults \cup {"driver"}
    /\ bufmmio' = "null" /\ flag' = FALSE
    /\ UNCHANGED <<driver, pc, step, good, held, majors, extra, file, oops, untimely>>

bind ==
    /\ mod = "in" /\ pc = "unbound" /\ "driver" \in held /\ probes < MaxProbes
    /\ pc' = "probe" /\ step' = 1 /\ good' = FALSE
    /\ probes' = probes + 1
    /\ UNCHANGED <<driver, mod, resVars, useVars>>

Acquire(r) ==
    /\ held' = held \cup {r}
    /\ majors' = IF r = "chrdev" THEN majors + 1 ELSE majors
    /\ bufmmio' = IF r = "iomap" THEN "mapped" ELSE bufmmio

(* A step of probe succeeds; after the last one probe returns 0.           *)
probe_ok ==
    /\ pc = "probe"
    /\ LET r == ProbeSteps[step]
       IN  /\ r = "chrdev" => majors < NMajors
           /\ Acquire(r)
    /\ step' = IF step = Len(ProbeSteps) THEN 1 ELSE step + 1
    /\ pc' = IF step = Len(ProbeSteps) THEN "bound" ELSE "probe"
    /\ good' = (step = Len(ProbeSteps))
    /\ UNCHANGED <<driver, mod, probes, faults, extra, useVars>>

(* Faulty variant: a step after device_create fails with a negative value, *)
(* so that remove never runs, and still nothing is undone.                 *)
probe_fail_Negative ==
    /\ pc = "probe"
    /\ LET r == ProbeSteps[step]
       IN  /\ \/ Cardinality(faults) < MaxFaults
              \/ r = "chrdev" /\ majors = NMajors
           /\ faults' = faults \cup {r}
           /\ bufmmio' = IF r = "iomap" THEN "null" ELSE bufmmio
           /\ step' = IF r \in Ignored THEN step + 1 ELSE 1
           /\ pc' = IF r \in Ignored THEN "probe" ELSE "unbound"
    /\ good' = FALSE
    /\ UNCHANGED <<driver, mod, probes, held, majors, extra, useVars>>

(* A step fails.  Ignored: probe goes on.  class_create: -EINVAL, the      *)
(* device stays unbound and nothing is undone.  Any other: probe returns   *)
(* 1, which the PCI core takes for success, and nothing is undone.         *)
probe_fail ==
    /\ pc = "probe"
    /\ LET r == ProbeSteps[step]
       IN  /\ \/ Cardinality(faults) < MaxFaults
              \/ r = "chrdev" /\ majors = NMajors
           /\ faults' = faults \cup {r}
           /\ bufmmio' = IF r = "iomap" THEN "null" ELSE bufmmio
           /\ step' = IF r \in Ignored THEN step + 1 ELSE 1
           /\ pc' = CASE r \in Ignored -> "probe"
                      [] r = "class"   -> "unbound"
                      [] OTHER         -> "bound"
    /\ good' = FALSE
    /\ UNCHANGED <<driver, mod, probes, held, majors, extra, useVars>>

-----------------------------------------------------------------------------
(* Unbinding and unloading.                                                *)

Closed == \A u \in Users : file[u] = "closed"

(* rmmod: refused while a file is open; from here on open() fails.         *)
rmmod ==
    /\ mod = "in" /\ pc \in {"bound", "unbound"} /\ Closed
    /\ mod' = "going"
    /\ pc' = IF pc = "bound" THEN "remove" ELSE pc
    /\ step' = 1
    /\ UNCHANGED <<driver, good, probes, resVars, useVars>>

(* sysfs unbind, or device_del in the QEMU monitor.                        *)
unbind ==
    /\ mod = "in" /\ pc = "bound"
    /\ pc' = "remove" /\ step' = 1
    /\ untimely' = IF Closed THEN untimely ELSE untimely \cup {"forced"}
    /\ UNCHANGED <<driver, mod, good, probes, resVars, file, flag, oops>>

(* Faulty variant: a region that was never allocated is given back.        *)
remove_Unbalanced ==
    /\ pc = "remove"
    /\ LET r == RemoveSteps[step]
       IN  /\ held' = held \ {r}
           /\ extra' = IF r \in held THEN extra ELSE extra \cup {r}
           /\ majors' = IF r = "chrdev" THEN majors - 1 ELSE majors
           /\ bufmmio' = IF r = "iomap" THEN "stale" ELSE bufmmio
    /\ step' = IF step = Len(RemoveSteps) THEN 1 ELSE step + 1
    /\ pc' = IF step = Len(RemoveSteps) THEN "devres" ELSE "remove"
    /\ UNCHANGED <<driver, mod, good, probes, faults, useVars>>

(* A step of remove.  It does not know which steps of probe succeeded.     *)
remove ==
    /\ pc = "remove"
    /\ LET r == RemoveSteps[step]
       IN  /\ held' = held \ {r}
           /\ extra' = IF r \in held THEN extra ELSE extra \cup {r}
           /\ majors' = IF r = "chrdev" /\ r \in held THEN majors - 1 ELSE majors
           /\ bufmmio' = IF r = "iomap" THEN "stale" ELSE bufmmio
    /\ step' = IF step = Len(RemoveSteps) THEN 1 ELSE step + 1
    /\ pc' = IF step = Len(RemoveSteps) THEN "devres" ELSE "remove"
    /\ UNCHANGED <<driver, mod, good, probes, faults, useVars>>

(* The kernel releases the interrupt of devm_request_irq.                  *)
devres_release ==
    /\ pc = "devres"
    /\ held' = held \ {"irq"}
    /\ pc' = "unbound"
    /\ UNCHANGED <<driver, mod, step, good, probes, majors, bufmmio, faults, extra, useVars>>

(* huc_exit: pci_unregister_driver, whether or not it was registered.      *)
unload ==
    /\ mod = "going" /\ pc = "unbound"
    /\ mod' = "out"
    /\ held' = held \ {"driver"}
    /\ extra' = IF "driver" \in held THEN extra ELSE extra \cup {"driver"}
    /\ UNCHANGED <<driver, pc, step, good, probes, majors, bufmmio, faults, useVars>>

-----------------------------------------------------------------------------
(* Users and interrupts.                                                   *)

Touch(who) == oops' = IF bufmmio = "mapped" THEN oops ELSE oops \cup {who}

(* The node exists from device_create on.                                  *)
open(u) ==
    /\ file[u] = "closed" /\ {"cdev", "node"} \subseteq held /\ mod = "in"
    /\ untimely' = IF pc = "bound" /\ good THEN untimely ELSE untimely \cup {"early"}
    /\ file' = [file EXCEPT ![u] = "open"]
    /\ UNCHANGED <<driver, lifeVars, resVars, flag, oops>>

(* huc_read sleeps before it touches the device; huc_ioctl, testdemo_read  *)
(* and testdemo_write go straight to it.                                   *)
call(u) ==
    /\ file[u] = "open"
    /\ file' = [file EXCEPT ![u] = IF driver = "huc" /\ ~flag THEN "read" ELSE "io"]
    /\ UNCHANGED <<driver, lifeVars, resVars, flag, oops, untimely>>

huc_ioctl(u) ==
    /\ file[u] = "open" /\ driver = "huc"
    /\ file' = [file EXCEPT ![u] = "io"]
    /\ UNCHANGED <<driver, lifeVars, resVars, flag, oops, untimely>>

huc_read_wakes(u) ==
    /\ file[u] = "read" /\ flag
    /\ file' = [file EXCEPT ![u] = "io"]
    /\ UNCHANGED <<driver, lifeVars, resVars, flag, oops, untimely>>

(* The access itself; huc_read clears flag with the last payload word.     *)
access(u) ==
    /\ file[u] = "io"
    /\ Touch("file")
    /\ flag' \in {flag, FALSE}
    /\ file' = [file EXCEPT ![u] = "open"]
    /\ UNCHANGED <<driver, lifeVars, resVars, untimely>>

close(u) ==
    /\ file[u] = "open"
    /\ file' = [file EXCEPT ![u] = "closed"]
    /\ UNCHANGED <<driver, lifeVars, resVars, flag, oops, untimely>>

(* The line is shared: the handler runs for every device on it, and reads  *)
(* the status whoever interrupted.                                         *)
irq_handler ==
    /\ "irq" \in held
    /\ Touch("irq")
    /\ flag' \in {flag, TRUE}
    /\ untimely' = IF pc \in {"remove", "devres"} /\ bufmmio = "stale"
                     THEN untimely \cup {"late"} ELSE untimely
    /\ UNCHANGED <<driver, lifeVars, resVars, file>>

Use(u) == open(u) \/ call(u) \/ huc_ioctl(u) \/ huc_read_wakes(u) \/ access(u) \/ close(u)

Kernel == insmod \/ insmod_fail \/ bind \/ rmmod \/ unbind \/ devres_release \/ unload

Next ==
    \/ Kernel
    \/ probe_ok \/ probe_fail \/ remove
    \/ irq_handler
    \/ \E u \in Users : Use(u)

Spec == Init /\ [][Next]_vars

-----------------------------------------------------------------------------
(* Properties.                                                             *)

(* bufmmio is used only while it is mapped.  No file operation breaks      *)
(* this as long as the node is opened only once probe has succeeded and    *)
(* the device is not taken away under an open file: fops.owner keeps rmmod *)
(* out, and remove destroys the node before the mapping.  The interrupt    *)
(* handler breaks it only between iounmap in remove and the release of the *)
(* devm interrupt: never during probe, which maps the buffer before it     *)
(* requests the interrupt, never while bound, and never after a probe that *)
(* failed (huc_probe, huc_pci_remove, and the same of testdemo).           *)
AccessMapped ==
    /\ "file" \in oops => {"early", "forced"} \cap untimely # {}
    /\ "irq" \in oops => "late" \in untimely

(* Whatever step of probe fails, unloading the module leaves neither a     *)
(* node, a cdev, a class, a mapping nor an interrupt that refers to its    *)
(* memory; the one exception is a failed class_create.                     *)
UnloadsClean ==
    mod = "out" /\ "class" \notin faults => held \subseteq {"chrdev", "enable"}

(* huc_pci_remove gives back the major number, so that loading the driver  *)
(* again and again never runs out of them; remove releases nothing probe   *)
(* did not acquire unless a step of probe failed.                          *)
HucMajorsBalanced ==
    /\ driver = "huc" /\ "class" \notin faults => majors = (IF "chrdev" \in held THEN 1 ELSE 0)
    /\ faults = {} => extra = {}

=============================================================================
