-------------------------- MODULE PciDriverProofs ---------------------------
(***************************************************************************)
(* The life of the two drivers for any number of users, probes, faults and *)
(* majors: what they touch is mapped, and what they leave behind.          *)
(***************************************************************************)
EXTENDS PciDriver, TLAPS

(* Where probe and remove are.                                             *)
StepInv ==
    /\ pc = "probe" => step \in 1 .. Len(ProbeSteps)
    /\ pc = "remove" => step \in 1 .. Len(RemoveSteps)
    /\ mod = "out" => pc = "unbound" /\ "driver" \notin held

(* The mapping: there is none before the step of probe that makes it, nor  *)
(* after remove, and there is one once probe has come past that step.      *)
MapInv ==
    /\ pc \in {"unbound", "devres"} => "iomap" \notin held
    /\ pc = "probe" => ("iomap" \in held <=> step = 8)
    /\ pc = "bound" /\ good => "iomap" \in held

(* The interrupt is held only from the end of probe to the release of the  *)
(* devm resources, and over a mapping unless remove has just unmapped it.  *)
IrqInv ==
    "irq" \in held =>
        /\ pc \in {"bound", "remove", "devres"}
        /\ "iomap" \in held \/ (pc # "bound" /\ bufmmio = "stale")

(* What remove has released.                                               *)
ReleasedInv ==
    /\ pc = "remove" => \A i \in 1 .. step - 1 : RemoveSteps[i] \notin held
    /\ pc = "devres" => \A i \in 1 .. Len(RemoveSteps) : RemoveSteps[i] \notin held
    /\ pc = "unbound" /\ "class" \notin faults =>
         /\ held \subseteq {"driver", "chrdev", "enable"}
         /\ driver = "huc" => "chrdev" \notin held

(* What is held as long as no step has failed.                             *)
AcquiredInv ==
    faults = {} =>
        /\ mod # "out" => "driver" \in held
        /\ pc = "probe" => \A i \in 1 .. step - 1 : ProbeSteps[i] \in held
        /\ pc = "bound" => \A i \in 1 .. Len(ProbeSteps) : ProbeSteps[i] \in held
        /\ pc = "remove" => \A i \in step .. Len(RemoveSteps) : RemoveSteps[i] \in held

(* Majors: one for a region that is held, and for huc no other.            *)
MajorInv ==
    /\ "chrdev" \in held => majors >= 1
    /\ driver = "huc" /\ "class" \notin faults /\ pc = "probe" /\ step = 1 => "chrdev" \notin held

(* Files are open only while a successfully probed device is bound, unless *)
(* one was opened too early or the device was taken away.                  *)
FileInv ==
    {"early", "forced"} \cap untimely = {} =>
        \A u \in Users : file[u] # "closed" => pc = "bound" /\ good

ResInv  == StepInv /\ MapInv /\ IrqInv /\ ReleasedInv /\ AcquiredInv /\ MajorInv
LifeInv == TypeOK /\ ResInv /\ FileInv /\ AccessMapped /\ HucMajorsBalanced

-----------------------------------------------------------------------------
(* The steps of probe and remove, spelled out.                             *)
LEMMA HucSteps ==
    driver = "huc" =>
        /\ Len(ProbeSteps) = 8 /\ Len(RemoveSteps) = 6
        /\ ProbeSteps[1] = "chrdev" /\ ProbeSteps[2] = "cdev" /\ ProbeSteps[3] = "class"
        /\ ProbeSteps[4] = "node" /\ ProbeSteps[5] = "enable" /\ ProbeSteps[6] = "region"
        /\ ProbeSteps[7] = "iomap" /\ ProbeSteps[8] = "irq"
        /\ RemoveSteps[1] = "node" /\ RemoveSteps[2] = "class" /\ RemoveSteps[3] = "cdev"
        /\ RemoveSteps[4] = "chrdev" /\ RemoveSteps[5] = "region" /\ RemoveSteps[6] = "iomap"
BY DEF ProbeSteps, RemoveSteps

LEMMA TestdemoSteps ==
    driver = "testdemo" =>
        /\ Len(ProbeSteps) = 7 /\ Len(RemoveSteps) = 5
        /\ ProbeSteps[1] = "chrdev" /\ ProbeSteps[2] = "cdev" /\ ProbeSteps[3] = "class"
        /\ ProbeSteps[4] = "node" /\ ProbeSteps[5] = "enable" /\ ProbeSteps[6] = "region"
        /\ ProbeSteps[7] = "iomap"
        /\ RemoveSteps[1] = "node" /\ RemoveSteps[2] = "class" /\ RemoveSteps[3] = "cdev"
        /\ RemoveSteps[4] = "iomap" /\ RemoveSteps[5] = "region"
BY DEF ProbeSteps, RemoveSteps

(* Which step of probe acquires what.                                      *)
LEMMA ProbeStepKind ==
    ASSUME driver = "huc" \/ driver = "testdemo", NEW i, i \in 1 .. Len(ProbeSteps)
    PROVE  /\ i = 1 <=> ProbeSteps[i] = "chrdev"
           /\ i = 3 <=> ProbeSteps[i] = "class"
           /\ i = 7 <=> ProbeSteps[i] = "iomap"
           /\ i = 8 <=> ProbeSteps[i] = "irq"
           /\ ProbeSteps[i] \in Ignored => i \in 1 .. 4
           /\ ProbeSteps[i] \in Resource \ {"driver"}
<1>1. ASSUME NEW k \in 1 .. 7 PROVE k \in {1, 2, 3, 4, 5, 6, 7}
  OBVIOUS
<1>2. ASSUME NEW k \in 1 .. 8 PROVE k \in {1, 2, 3, 4, 5, 6, 7, 8}
  OBVIOUS
<1>3. \/ (i = 1 /\ ProbeSteps[i] = "chrdev") \/ (i = 2 /\ ProbeSteps[i] = "cdev")
      \/ (i = 3 /\ ProbeSteps[i] = "class") \/ (i = 4 /\ ProbeSteps[i] = "node")
      \/ (i = 5 /\ ProbeSteps[i] = "enable") \/ (i = 6 /\ ProbeSteps[i] = "region")
      \/ (i = 7 /\ ProbeSteps[i] = "iomap") \/ (i = 8 /\ ProbeSteps[i] = "irq")
  <2>1. CASE driver = "huc"
    <3>1. i \in {1, 2, 3, 4, 5, 6, 7, 8}
      BY <2>1, <1>2, HucSteps, Zenon
    <3> QED BY <2>1, <3>1, HucSteps, Zenon
  <2>2. CASE driver = "testdemo"
    <3>1. i \in {1, 2, 3, 4, 5, 6, 7}
      BY <2>2, <1>1, TestdemoSteps, Zenon
    <3> QED BY <2>2, <3>1, TestdemoSteps, Zenon
  <2> QED BY <2>1, <2>2, Zenon
<1> DEFINE r == ProbeSteps[i]
<1> HIDE DEF r
<1>4. \/ (i = 1 /\ r = "chrdev") \/ (i = 2 /\ r = "cdev") \/ (i = 3 /\ r = "class")
      \/ (i = 4 /\ r = "node") \/ (i = 5 /\ r = "enable") \/ (i = 6 /\ r = "region")
      \/ (i = 7 /\ r = "iomap") \/ (i = 8 /\ r = "irq")
  BY <1>3, Zenon DEF r
<1>5. /\ i = 1 <=> r = "chrdev"
      /\ i = 3 <=> r = "class"
      /\ i = 7 <=> r = "iomap"
      /\ i = 8 <=> r = "irq"
      /\ r \in Ignored => i \in 1 .. 4
      /\ r \in Resource \ {"driver"}
  BY <1>4 DEF Resource, Ignored
<1> QED BY <1>5, Zenon DEF r

(* Which step of remove releases what.                                     *)
LEMMA RemoveStepKind ==
    ASSUME driver = "huc" \/ driver = "testdemo", NEW i, i \in 1 .. Len(RemoveSteps)
    PROVE  /\ RemoveSteps[i] = "chrdev" <=> driver = "huc" /\ i = 4
           /\ RemoveSteps[i] = "iomap" <=> i = IF driver = "huc" THEN 6 ELSE 4
           /\ RemoveSteps[i] \in Resource \ {"driver", "enable", "irq"}
           /\ \A j \in 1 .. Len(RemoveSteps) : RemoveSteps[j] = RemoveSteps[i] => j = i
<1>1. CASE driver = "huc"
  <2>1. ASSUME NEW k \in 1 .. 6 PROVE k \in {1, 2, 3, 4, 5, 6}
    OBVIOUS
  <2>2. ASSUME NEW k \in 1 .. 6
        PROVE  \/ (k = 1 /\ RemoveSteps[k] = "node") \/ (k = 2 /\ RemoveSteps[k] = "class")
               \/ (k = 3 /\ RemoveSteps[k] = "cdev") \/ (k = 4 /\ RemoveSteps[k] = "chrdev")
               \/ (k = 5 /\ RemoveSteps[k] = "region") \/ (k = 6 /\ RemoveSteps[k] = "iomap")
    BY <1>1, <2>1, HucSteps, Zenon
  <2>3. /\ RemoveSteps[i] = "chrdev" <=> i = 4
        /\ RemoveSteps[i] = "iomap" <=> i = 6
        /\ RemoveSteps[i] \in Resource \ {"driver", "enable", "irq"}
        /\ \A j \in 1 .. 6 : RemoveSteps[j] = RemoveSteps[i] => j = i
    <3> DEFINE S(k) == RemoveSteps[k]
    <3>1. i \in 1 .. 6
      BY <1>1, HucSteps, Zenon
    <3>2. \A k \in 1 .. 6 : \/ (k = 1 /\ S(k) = "node") \/ (k = 2 /\ S(k) = "class")
                             \/ (k = 3 /\ S(k) = "cdev") \/ (k = 4 /\ S(k) = "chrdev")
                             \/ (k = 5 /\ S(k) = "region") \/ (k = 6 /\ S(k) = "iomap")
      BY <2>2, Zenon
    <3> HIDE DEF S
    <3>3. /\ S(i) = "chrdev" <=> i = 4
          /\ S(i) = "iomap" <=> i = 6
          /\ S(i) \in Resource \ {"driver", "enable", "irq"}
          /\ \A j \in 1 .. 6 : S(j) = S(i) => j = i
      BY <3>1, <3>2 DEF Resource
    <3> QED BY <3>3, Zenon DEF S
  <2> QED BY <1>1, <2>3, HucSteps, Zenon
<1>2. CASE driver = "testdemo"
  <2>1. ASSUME NEW k \in 1 .. 5 PROVE k \in {1, 2, 3, 4, 5}
    OBVIOUS
  <2>2. ASSUME NEW k \in 1 .. 5
        PROVE  \/ (k = 1 /\ RemoveSteps[k] = "node") \/ (k = 2 /\ RemoveSteps[k] = "class")
               \/ (k = 3 /\ RemoveSteps[k] = "cdev") \/ (k = 4 /\ RemoveSteps[k] = "iomap")
               \/ (k = 5 /\ RemoveSteps[k] = "region")
    BY <1>2, <2>1, TestdemoSteps, Zenon
  <2>3. /\ RemoveSteps[i] # "chrdev"
        /\ RemoveSteps[i] = "iomap" <=> i = 4
        /\ RemoveSteps[i] \in Resource \ {"driver", "enable", "irq"}
        /\ \A j \in 1 .. 5 : RemoveSteps[j] = RemoveSteps[i] => j = i
    <3> DEFINE S(k) == RemoveSteps[k]
    <3>1. i \in 1 .. 5
      BY <1>2, TestdemoSteps, Zenon
    <3>2. \A k \in 1 .. 5 : \/ (k = 1 /\ S(k) = "node") \/ (k = 2 /\ S(k) = "class")
                             \/ (k = 3 /\ S(k) = "cdev") \/ (k = 4 /\ S(k) = "iomap")
                             \/ (k = 5 /\ S(k) = "region")
      BY <2>2, Zenon
    <3> HIDE DEF S
    <3>3. /\ S(i) # "chrdev"
          /\ S(i) = "iomap" <=> i = 4
          /\ S(i) \in Resource \ {"driver", "enable", "irq"}
          /\ \A j \in 1 .. 5 : S(j) = S(i) => j = i
      BY <3>1, <3>2 DEF Resource
    <3> QED BY <3>3, Zenon DEF S
  <2>4. driver # "huc"
    BY <1>2
  <2> QED BY <1>2, <2>3, <2>4, TestdemoSteps, Zenon
<1> QED BY <1>1, <1>2, Zenon

(* Whatever remove releases, probe acquires.                               *)
LEMMA RemoveUndoesProbe ==
    ASSUME driver = "huc" \/ driver = "testdemo", NEW i, i \in 1 .. Len(RemoveSteps)
    PROVE  \E j \in 1 .. Len(ProbeSteps) : RemoveSteps[i] = ProbeSteps[j]
<1>1. CASE driver = "huc"
  <2>1. /\ 1 \in 1 .. 8 /\ 2 \in 1 .. 8 /\ 3 \in 1 .. 8 /\ 4 \in 1 .. 8
        /\ 6 \in 1 .. 8 /\ 7 \in 1 .. 8
        /\ \A k \in 1 .. 6 : k \in {1, 2, 3, 4, 5, 6}
    OBVIOUS
  <2>2. i \in {1, 2, 3, 4, 5, 6}
    BY <1>1, <2>1, HucSteps, Zenon
  <2> QED BY <1>1, <2>1, <2>2, HucSteps, Zenon
<1>2. CASE driver = "testdemo"
  <2>1. /\ 1 \in 1 .. 7 /\ 2 \in 1 .. 7 /\ 3 \in 1 .. 7 /\ 4 \in 1 .. 7
        /\ 6 \in 1 .. 7 /\ 7 \in 1 .. 7
        /\ \A k \in 1 .. 5 : k \in {1, 2, 3, 4, 5}
    OBVIOUS
  <2>2. i \in {1, 2, 3, 4, 5}
    BY <1>2, <2>1, TestdemoSteps, Zenon
  <2> QED BY <1>2, <2>1, <2>2, TestdemoSteps, Zenon
<1> QED BY <1>1, <1>2, Zenon

LEMMA DriverCases == TypeOK => driver = "huc" \/ driver = "testdemo"
BY PciAssumption DEF TypeOK

(* The lists of steps depend on the driver alone.                          *)
LEMMA SameSteps ==
    driver' = driver => UNCHANGED <<ProbeSteps, RemoveSteps>>
BY DEF ProbeSteps, RemoveSteps

-----------------------------------------------------------------------------
LEMMA LifeInit == Init => LifeInv
<1> SUFFICES ASSUME Init PROVE LifeInv OBVIOUS
<1> USE DEF Init
<1>1. good \in BOOLEAN /\ flag \in BOOLEAN
  BY Zenon
<1>2. TypeOK
  BY <1>1, PciAssumption DEF TypeOK, Resource
<1>3. ResInv
  BY DEF ResInv, StepInv, MapInv, IrqInv, ReleasedInv, AcquiredInv, MajorInv
<1>4. FileInv /\ AccessMapped /\ HucMajorsBalanced
  BY DEF FileInv, AccessMapped, HucMajorsBalanced
<1> QED BY <1>2, <1>3, <1>4 DEF LifeInv

(* Users and interrupts change neither the life of the device nor what the *)
(* driver holds.                                                           *)
LEMMA UseKeepsResources ==
    ASSUME ResInv, HucMajorsBalanced, UNCHANGED <<driver, lifeVars, resVars>>
    PROVE  ResInv' /\ HucMajorsBalanced'
<1>1. UNCHANGED <<mod, pc, step, good, held, majors, bufmmio, faults, extra, ProbeSteps, RemoveSteps>>
  BY SameSteps DEF lifeVars, resVars
<1> QED BY <1>1 DEF ResInv, StepInv, MapInv, IrqInv, ReleasedInv, AcquiredInv, MajorInv,
                    HucMajorsBalanced

(* open: a file opened while a probed device is bound, or one that is      *)
(* remembered as early.                                                    *)
LEMMA LifeOpen ==
    ASSUME LifeInv, NEW u \in Users, open(u)
    PROVE  LifeInv'
<1> USE DEF LifeInv
<1>1. UNCHANGED <<driver, mod, pc, step, good, probes, held, majors, bufmmio, faults, extra, flag, oops>>
  BY DEF open, lifeVars, resVars
<1>2. /\ file' \in [Users -> {"closed", "open", "read", "io"}]
      /\ \A x \in Users : x # u => file'[x] = file[x]
      /\ untimely \subseteq untimely' /\ untimely' \subseteq {"early", "forced", "late"}
  BY DEF open, TypeOK
<1>3. TypeOK'
  BY <1>1, <1>2 DEF TypeOK
<1>4. ResInv' /\ HucMajorsBalanced'
  BY UseKeepsResources DEF open
<1>5. FileInv'
  BY <1>1, <1>2 DEF open, FileInv
<1>6. AccessMapped'
  BY <1>1, <1>2 DEF AccessMapped
<1> QED BY <1>3, <1>4, <1>5, <1>6

(* The other steps of a user act on a file that is open, and the one that  *)
(* touches the device does so while it is mapped.                          *)
LEMMA LifeFile ==
    ASSUME LifeInv, NEW u \in Users,
           call(u) \/ huc_ioctl(u) \/ huc_read_wakes(u) \/ access(u) \/ close(u)
    PROVE  LifeInv'
<1> USE DEF LifeInv
<1>1. UNCHANGED <<driver, mod, pc, step, good, probes, held, majors, bufmmio, faults, extra, untimely>>
  BY DEF call, huc_ioctl, huc_read_wakes, access, close, lifeVars, resVars
<1>2. /\ file' \in [Users -> {"closed", "open", "read", "io"}]
      /\ file[u] # "closed"
      /\ \A x \in Users : x # u => file'[x] = file[x]
  BY DEF call, huc_ioctl, huc_read_wakes, access, close, TypeOK
<1>3. flag' \in BOOLEAN
  BY DEF call, huc_ioctl, huc_read_wakes, access, close, TypeOK
<1>4. oops' = oops \/ (oops' = oops \cup {"file"} /\ bufmmio # "mapped")
  BY DEF call, huc_ioctl, huc_read_wakes, access, close, Touch
<1>5. TypeOK'
  BY <1>1, <1>2, <1>3, <1>4 DEF TypeOK
<1>6. ResInv' /\ HucMajorsBalanced'
  <2>1. UNCHANGED <<driver, lifeVars, resVars>>
    BY <1>1 DEF lifeVars, resVars
  <2> QED BY <2>1, UseKeepsResources
<1>7. FileInv'
  BY <1>1, <1>2 DEF FileInv
<1>8. AccessMapped'
  BY <1>1, <1>2, <1>4 DEF AccessMapped, FileInv, ResInv, MapInv, TypeOK
<1> QED BY <1>5, <1>6, <1>7, <1>8

(* The handler runs over a mapping, or between iounmap and devres.         *)
LEMMA LifeIrq ==
    ASSUME LifeInv, irq_handler
    PROVE  LifeInv'
<1> USE DEF LifeInv
<1>1. UNCHANGED <<driver, mod, pc, step, good, probes, held, majors, bufmmio, faults, extra, file>>
  BY DEF irq_handler, lifeVars, resVars
<1>2. flag' \in BOOLEAN
  BY DEF irq_handler, TypeOK
<1>3. untimely \subseteq untimely' /\ untimely' \subseteq untimely \cup {"late"}
  BY DEF irq_handler
<1>4. oops' = oops \/ (oops' = oops \cup {"irq"} /\ bufmmio # "mapped")
  BY DEF irq_handler, Touch
<1>5. TypeOK'
  BY <1>1, <1>2, <1>3, <1>4 DEF TypeOK
<1>6. ResInv' /\ HucMajorsBalanced'
  BY UseKeepsResources DEF irq_handler
<1>7. FileInv'
  BY <1>1, <1>3 DEF FileInv
<1>8. bufmmio # "mapped" => "late" \in untimely'
  BY DEF irq_handler, ResInv, IrqInv, TypeOK
<1>9. AccessMapped'
  BY <1>1, <1>3, <1>4, <1>8 DEF AccessMapped
<1> QED BY <1>5, <1>6, <1>7, <1>9

-----------------------------------------------------------------------------
(* A step of the kernel or of the driver that leaves the users alone: the  *)
(* file invariants only need that a bound, probed device stays so while a  *)
(* file is open.                                                           *)
LEMMA FilesKept ==
    ASSUME FileInv, AccessMapped, UNCHANGED <<file, oops, untimely>>,
           ~(pc = "bound" /\ good) \/ Closed \/ UNCHANGED <<pc, good>>
    PROVE  FileInv' /\ AccessMapped'
BY DEF FileInv, AccessMapped, Closed

LEMMA LifeLoad ==
    ASSUME LifeInv, insmod \/ insmod_fail \/ bind
    PROVE  LifeInv'
<1> USE DEF LifeInv
<1>1. /\ UNCHANGED <<driver, majors, extra, file, oops, untimely>>
      /\ pc = "unbound" /\ "iomap" \notin held
  BY DEF insmod, insmod_fail, bind, resVars, useVars, ResInv, StepInv, MapInv
<1>2. FileInv' /\ AccessMapped'
  BY <1>1, FilesKept
<1>3. /\ mod' = "in" /\ probes' = probes + 1 /\ probes < MaxProbes
      /\ bufmmio' \in {"null", bufmmio}
      /\ held' \in {held, held \cup {"driver"}}
      /\ faults' \in {faults, faults \cup {"driver"}}
      /\ pc' \in {"unbound", "probe"}
  BY <1>1 DEF insmod, insmod_fail, bind, resVars, useVars
<1>4. good' \in BOOLEAN /\ flag' \in BOOLEAN
  BY DEF insmod, insmod_fail, bind, resVars, useVars, TypeOK
<1>5. pc' = "probe" => step' = 1 /\ faults' = faults
  BY <1>1 DEF insmod, insmod_fail, bind, resVars
<1>6. step' \in 1 .. 9
  BY DEF insmod, insmod_fail, bind, TypeOK
<1>7. TypeOK'
  BY <1>1, <1>3, <1>4, <1>6, PciAssumption DEF TypeOK, Resource
<1>8. 1 \in 1 .. Len(ProbeSteps) /\ UNCHANGED <<ProbeSteps, RemoveSteps>>
  <2>1. driver = "huc" \/ driver = "testdemo"
    BY DriverCases
  <2>2. Len(ProbeSteps) \in {7, 8}
    BY <2>1, HucSteps, TestdemoSteps
  <2> QED BY <1>1, <2>2, SameSteps
<1>9. "driver" \in held' \/ faults' # {}
  BY <1>1 DEF insmod, insmod_fail, bind, resVars
<1>10. StepInv' /\ MapInv'
  BY <1>1, <1>3, <1>5, <1>8 DEF StepInv, MapInv
<1>11. IrqInv'
  BY <1>1, <1>3 DEF ResInv, IrqInv
<1>12. ReleasedInv'
  BY <1>1, <1>3 DEF ResInv, ReleasedInv
<1>13. AcquiredInv'
  BY <1>1, <1>3, <1>5, <1>9 DEF AcquiredInv
<1>14. MajorInv'
  BY <1>1, <1>3 DEF ResInv, MajorInv, ReleasedInv
<1>15. HucMajorsBalanced'
  BY <1>1, <1>3 DEF HucMajorsBalanced
<1> QED BY <1>2, <1>7, <1>10, <1>11, <1>12, <1>13, <1>14, <1>15 DEF ResInv

(* A step of probe that succeeds.                                          *)
LEMMA LifeProbeOk ==
    ASSUME LifeInv, probe_ok
    PROVE  LifeInv'
<1> USE DEF LifeInv
<1> DEFINE r == ProbeSteps[step]
           n == Len(ProbeSteps)
<1>1. /\ UNCHANGED <<driver, mod, probes, faults, extra, file, flag, oops, untimely>>
      /\ UNCHANGED <<ProbeSteps, RemoveSteps>>
      /\ pc = "probe" /\ step \in 1 .. n
  BY SameSteps DEF probe_ok, useVars, ResInv, StepInv
<1>2. FileInv' /\ AccessMapped'
  BY <1>1, FilesKept
<1>3. /\ held' = held \cup {r}
      /\ majors' = IF r = "chrdev" THEN majors + 1 ELSE majors
      /\ r = "chrdev" => majors < NMajors
      /\ bufmmio' = IF r = "iomap" THEN "mapped" ELSE bufmmio
      /\ step' = IF step = n THEN 1 ELSE step + 1
      /\ pc' = IF step = n THEN "bound" ELSE "probe"
  BY DEF probe_ok, Acquire
<1>4. good' \in BOOLEAN /\ (good' => step = n)
  BY DEF probe_ok
<1>5. \/ driver = "huc" /\ n = 8
      \/ driver = "testdemo" /\ n = 7
  BY DriverCases, HucSteps, TestdemoSteps
<1>6. /\ step = 1 <=> r = "chrdev"
      /\ step = 7 <=> r = "iomap"
      /\ step = 8 <=> r = "irq"
      /\ r \in Resource \ {"driver"}
  BY <1>1, DriverCases, ProbeStepKind
<1> HIDE DEF r, n
<1>7. TypeOK'
  BY <1>1, <1>3, <1>4, <1>5, <1>6, PciAssumption DEF TypeOK
<1>8. StepInv'
  BY <1>1, <1>3, <1>5, <1>6 DEF ResInv, StepInv, n
<1>9. MapInv'
  BY <1>1, <1>3, <1>4, <1>5, <1>6 DEF ResInv, MapInv
<1>10. IrqInv'
  BY <1>1, <1>3, <1>5, <1>6 DEF ResInv, IrqInv, MapInv
<1>11. ReleasedInv'
  BY <1>1, <1>3 DEF ReleasedInv
<1>12. AcquiredInv'
  <2> SUFFICES ASSUME faults = {}
               PROVE  /\ "driver" \in held'
                      /\ \A i \in 1 .. step : ProbeSteps[i] \in held'
    BY <1>1, <1>3, <1>5 DEF AcquiredInv, n
  <2>1. "driver" \in held /\ \A i \in 1 .. step - 1 : ProbeSteps[i] \in held
    BY <1>1 DEF ResInv, AcquiredInv, TypeOK
  <2> QED BY <1>1, <1>3, <1>5, <2>1 DEF r
<1>13. MajorInv'
  BY <1>1, <1>3, <1>5, <1>6 DEF ResInv, MajorInv, TypeOK
<1>14. HucMajorsBalanced'
  BY <1>1, <1>3, <1>6 DEF HucMajorsBalanced, ResInv, MajorInv
<1> QED BY <1>2, <1>7, <1>8, <1>9, <1>10, <1>11, <1>12, <1>13, <1>14 DEF ResInv

(* A step of probe that fails: nothing is undone.                          *)
LEMMA LifeProbeFail ==
    ASSUME LifeInv, probe_fail
    PROVE  LifeInv'
<1> USE DEF LifeInv
<1> DEFINE r == ProbeSteps[step]
           n == Len(ProbeSteps)
<1>1. /\ UNCHANGED <<driver, mod, probes, held, majors, extra, file, flag, oops, untimely>>
      /\ UNCHANGED <<ProbeSteps, RemoveSteps>>
      /\ pc = "probe" /\ step \in 1 .. n
  BY SameSteps DEF probe_fail, useVars, ResInv, StepInv
<1>2. FileInv' /\ AccessMapped'
  BY <1>1, FilesKept
<1>3. /\ faults' = faults \cup {r}
      /\ bufmmio' = IF r = "iomap" THEN "null" ELSE bufmmio
      /\ step' = IF r \in Ignored THEN step + 1 ELSE 1
      /\ r \in Ignored => pc' = "probe"
      /\ r \notin Ignored => pc' = IF r = "class" THEN "unbound" ELSE "bound"
  BY DEF probe_fail, Ignored
<1>4. good' \in BOOLEAN /\ ~good'
  BY DEF probe_fail
<1>5. \/ driver = "huc" /\ n = 8
      \/ driver = "testdemo" /\ n = 7
  BY DriverCases, HucSteps, TestdemoSteps
<1>6. /\ r = "iomap" => step = 7
      /\ r \in Ignored => step \in 1 .. 4
      /\ r = "class" => step = 3
      /\ r \in Resource \ {"driver"}
  BY <1>1, DriverCases, ProbeStepKind
<1> HIDE DEF r, n
<1>7. "iomap" \in held => step = 8
  BY <1>1 DEF ResInv, MapInv
<1>8. TypeOK'
  <2>1. step' \in 1 .. 9
    BY <1>3, <1>6
  <2>2. pc' \in {"unbound", "probe", "bound"}
    BY <1>3
  <2>3. faults' \subseteq Resource /\ bufmmio' \in {"null", "mapped", "stale"}
    BY <1>3, <1>6 DEF TypeOK
  <2>4. UNCHANGED <<driver, mod, probes, held, majors, extra, file, flag, oops, untimely>>
    BY <1>1
  <2>5. TypeOK
    OBVIOUS
  <2>6. bufmmio' = "mapped" <=> "iomap" \in held'
    BY <1>1, <1>3, <1>6, <1>7 DEF TypeOK
  <2>7. mod' # "out"
    BY <1>1 DEF TypeOK
  <2> QED BY <1>4, <2>1, <2>2, <2>3, <2>4, <2>5, <2>6, <2>7 DEF TypeOK
<1>9. StepInv'
  <2>1. pc' = "probe" => step' \in 1 .. n
    BY <1>3, <1>5, <1>6
  <2>2. pc' # "remove"
    BY <1>3
  <2>3. Len(ProbeSteps)' = n
    BY <1>1 DEF n
  <2>4. mod' # "out"
    BY <1>1 DEF ResInv, StepInv
  <2> QED BY <2>1, <2>2, <2>3, <2>4 DEF StepInv
<1>10. MapInv'
  BY <1>1, <1>3, <1>4, <1>5, <1>6 DEF ResInv, MapInv
<1>11. IrqInv'
  BY <1>1 DEF ResInv, IrqInv
<1>12. ReleasedInv'
  BY <1>1, <1>3 DEF ReleasedInv
<1>13. AcquiredInv'
  BY <1>3 DEF AcquiredInv
<1>14. MajorInv'
  BY <1>1, <1>3, <1>5 DEF ResInv, MajorInv
<1>15. HucMajorsBalanced'
  BY <1>1, <1>3 DEF HucMajorsBalanced
<1> QED BY <1>2, <1>8, <1>9, <1>10, <1>11, <1>12, <1>13, <1>14, <1>15 DEF ResInv

(* remove is called for a bound device, and by rmmod only while no file is *)
(* open.                                                                   *)
LEMMA LifeUnbind ==
    ASSUME LifeInv, rmmod \/ unbind
    PROVE  LifeInv'
<1> USE DEF LifeInv
<1>1. /\ UNCHANGED <<driver, good, probes, file, flag, oops>>
      /\ UNCHANGED <<held, majors, bufmmio, faults, extra, ProbeSteps, RemoveSteps>>
      /\ mod = "in" /\ mod' \in {"in", "going"} /\ step' = 1
      /\ \/ pc = "bound" /\ pc' = "remove"
         \/ pc = "unbound" /\ pc' = "unbound"
  BY SameSteps DEF rmmod, unbind, resVars, useVars
<1>2. untimely \subseteq untimely' /\ untimely' \subseteq untimely \cup {"forced"}
  BY DEF rmmod, unbind, useVars
<1>3. TypeOK'
  BY <1>1, <1>2 DEF TypeOK
<1>4. FileInv'
  <2>1. Closed \/ "forced" \in untimely'
    BY DEF rmmod, unbind
  <2> QED BY <1>1, <2>1 DEF FileInv, Closed
<1>5. AccessMapped'
  BY <1>1, <1>2 DEF AccessMapped
<1>6. Len(RemoveSteps) \in {5, 6}
  BY DriverCases, HucSteps, TestdemoSteps
<1>7. StepInv' /\ MapInv' /\ IrqInv' /\ MajorInv'
  BY <1>1, <1>6 DEF ResInv, StepInv, MapInv, IrqInv, MajorInv
<1>8. ReleasedInv'
  BY <1>1 DEF ResInv, ReleasedInv
<1>9. AcquiredInv'
  <2>1. ASSUME faults = {}, pc = "bound", NEW i \in 1 .. Len(RemoveSteps)
        PROVE  RemoveSteps[i] \in held
    <3>1. PICK j \in 1 .. Len(ProbeSteps) : RemoveSteps[i] = ProbeSteps[j]
      BY DriverCases, RemoveUndoesProbe
    <3> QED BY <2>1, <3>1 DEF ResInv, AcquiredInv
  <2> QED BY <1>1, <2>1 DEF ResInv, AcquiredInv
<1>10. HucMajorsBalanced'
  BY <1>1 DEF HucMajorsBalanced
<1> QED BY <1>3, <1>4, <1>5, <1>7, <1>8, <1>9, <1>10 DEF ResInv

(* A step of remove.                                                       *)
LEMMA LifeRemove ==
    ASSUME LifeInv, remove
    PROVE  LifeInv'
<1> USE DEF LifeInv
<1> DEFINE r == RemoveSteps[step]
           n == Len(RemoveSteps)
<1>1. /\ UNCHANGED <<driver, mod, good, probes, faults, file, flag, oops, untimely>>
      /\ UNCHANGED <<ProbeSteps, RemoveSteps>>
      /\ pc = "remove" /\ step \in 1 .. n
  BY SameSteps DEF remove, useVars, ResInv, StepInv
<1>2. FileInv' /\ AccessMapped'
  BY <1>1, FilesKept
<1>3. /\ held' = held \ {r}
      /\ extra' = IF r \in held THEN extra ELSE extra \cup {r}
      /\ majors' = IF r = "chrdev" /\ r \in held THEN majors - 1 ELSE majors
      /\ bufmmio' = IF r = "iomap" THEN "stale" ELSE bufmmio
      /\ step' = IF step = n THEN 1 ELSE step + 1
      /\ pc' = IF step = n THEN "devres" ELSE "remove"
  BY DEF remove
<1>4. n \in {5, 6}
  BY DriverCases, HucSteps, TestdemoSteps
<1>5. /\ r \in Resource \ {"driver", "enable", "irq"}
      /\ \A j \in 1 .. n : RemoveSteps[j] = r => j = step
  BY <1>1, DriverCases, RemoveStepKind
<1>6. \A i \in 1 .. step - 1 : RemoveSteps[i] \notin held
  BY <1>1 DEF ResInv, ReleasedInv
<1>7. \A i \in 1 .. step : RemoveSteps[i] \notin held'
  BY <1>1, <1>3, <1>4, <1>6
<1>8. step = n => "iomap" \notin held'
  <2>1. PICK i \in 1 .. n : RemoveSteps[i] = "iomap"
    <3>1. (driver = "huc" /\ n = 6) \/ (driver = "testdemo" /\ n = 5)
      BY DriverCases, HucSteps, TestdemoSteps
    <3>2. 6 \in 1 .. 6 /\ 4 \in 1 .. 5
      OBVIOUS
    <3> QED BY <3>1, <3>2, HucSteps, TestdemoSteps, Zenon
  <2> QED BY <1>7, <2>1
<1> HIDE DEF r, n
<1>9. TypeOK'
  BY <1>1, <1>3, <1>4, <1>5, PciAssumption DEF TypeOK, ResInv, MajorInv
<1>10. StepInv'
  BY <1>1, <1>3, <1>4 DEF ResInv, StepInv, n
<1>11. MapInv'
  BY <1>1, <1>3, <1>8 DEF ResInv, MapInv
<1>12. IrqInv'
  BY <1>1, <1>3 DEF ResInv, IrqInv
<1>13. ReleasedInv'
  BY <1>1, <1>3, <1>4, <1>7 DEF ReleasedInv, n
<1>14. faults = {} => r \in held
  BY <1>1, <1>4 DEF ResInv, AcquiredInv, r, n
<1>15. AcquiredInv'
  <2>1. ASSUME faults = {}, step # n, NEW i \in step + 1 .. n
        PROVE  RemoveSteps[i] \in held'
    <3>1. i \in step .. n /\ i \in 1 .. n /\ i # step
      BY <1>1, <1>4
    <3> QED BY <1>1, <1>3, <1>5, <2>1, <3>1 DEF ResInv, AcquiredInv, n
  <2> QED BY <1>1, <1>3, <1>5, <2>1 DEF ResInv, AcquiredInv, n
<1>16. MajorInv'
  BY <1>1, <1>3 DEF ResInv, MajorInv
<1>17. HucMajorsBalanced'
  BY <1>1, <1>3, <1>14 DEF HucMajorsBalanced
<1> QED BY <1>2, <1>9, <1>10, <1>11, <1>12, <1>13, <1>15, <1>16, <1>17 DEF ResInv

(* After remove the kernel releases the interrupt; all that is left is     *)
(* what remove never releases.                                             *)
LEMMA LifeDevres ==
    ASSUME LifeInv, devres_release
    PROVE  LifeInv'
<1> USE DEF LifeInv
<1>1. /\ UNCHANGED <<driver, mod, step, good, probes, majors, bufmmio, faults, extra>>
      /\ UNCHANGED <<file, flag, oops, untimely, ProbeSteps, RemoveSteps>>
      /\ pc = "devres" /\ pc' = "unbound" /\ held' = held \ {"irq"}
  BY SameSteps DEF devres_release, useVars
<1>2. FileInv' /\ AccessMapped'
  BY <1>1, FilesKept
<1>3. TypeOK'
  BY <1>1 DEF TypeOK, ResInv, StepInv
<1>4. /\ {"node", "class", "cdev", "region", "iomap"} \cap held = {}
      /\ driver = "huc" => "chrdev" \notin held
  <2>1. \A i \in 1 .. Len(RemoveSteps) : RemoveSteps[i] \notin held
    BY <1>1 DEF ResInv, ReleasedInv
  <2>2. ASSUME driver = "huc"
        PROVE  /\ "node" \notin held /\ "class" \notin held /\ "cdev" \notin held
               /\ "chrdev" \notin held /\ "region" \notin held /\ "iomap" \notin held
    <3>1. 1 \in 1 .. 6 /\ 2 \in 1 .. 6 /\ 3 \in 1 .. 6 /\ 4 \in 1 .. 6 /\ 5 \in 1 .. 6 /\ 6 \in 1 .. 6
      OBVIOUS
    <3> QED BY <2>1, <2>2, <3>1, HucSteps, Zenon
  <2>3. ASSUME driver = "testdemo"
        PROVE  /\ "node" \notin held /\ "class" \notin held /\ "cdev" \notin held
               /\ "region" \notin held /\ "iomap" \notin held
    <3>1. 1 \in 1 .. 5 /\ 2 \in 1 .. 5 /\ 3 \in 1 .. 5 /\ 4 \in 1 .. 5 /\ 5 \in 1 .. 5
      OBVIOUS
    <3> QED BY <2>1, <2>3, <3>1, TestdemoSteps, Zenon
  <2> QED BY <2>2, <2>3, DriverCases
<1>5. StepInv' /\ MapInv' /\ IrqInv' /\ MajorInv'
  BY <1>1, <1>4 DEF ResInv, StepInv, MapInv, IrqInv, MajorInv
<1>6. ReleasedInv'
  BY <1>1, <1>4 DEF ReleasedInv, TypeOK, Resource
<1>7. AcquiredInv'
  BY <1>1 DEF ResInv, AcquiredInv
<1>8. HucMajorsBalanced'
  BY <1>1 DEF HucMajorsBalanced
<1> QED BY <1>2, <1>3, <1>5, <1>6, <1>7, <1>8 DEF ResInv

LEMMA LifeUnload ==
    ASSUME LifeInv, unload
    PROVE  LifeInv'
<1> USE DEF LifeInv
<1>1. /\ UNCHANGED <<driver, pc, step, good, probes, majors, bufmmio, faults>>
      /\ UNCHANGED <<file, flag, oops, untimely, ProbeSteps, RemoveSteps>>
      /\ mod = "going" /\ mod' = "out" /\ pc = "unbound" /\ held' = held \ {"driver"}
  BY SameSteps DEF unload, useVars
<1>2. extra' = IF "driver" \in held THEN extra ELSE extra \cup {"driver"}
  BY DEF unload
<1>3. FileInv' /\ AccessMapped'
  BY <1>1, FilesKept
<1>4. TypeOK'
  BY <1>1, <1>2 DEF TypeOK, Resource
<1>5. StepInv' /\ MapInv' /\ IrqInv' /\ MajorInv'
  BY <1>1 DEF ResInv, StepInv, MapInv, IrqInv, MajorInv
<1>6. ReleasedInv' /\ AcquiredInv'
  BY <1>1 DEF ResInv, ReleasedInv, AcquiredInv
<1>7. HucMajorsBalanced'
  BY <1>1, <1>2 DEF HucMajorsBalanced, ResInv, AcquiredInv
<1> QED BY <1>3, <1>4, <1>5, <1>6, <1>7 DEF ResInv

-----------------------------------------------------------------------------
LEMMA LifeStep == LifeInv /\ [Next]_vars => LifeInv'
<1> SUFFICES ASSUME LifeInv, [Next]_vars PROVE LifeInv' OBVIOUS
<1>1. CASE insmod \/ insmod_fail \/ bind
  BY <1>1, LifeLoad
<1>2. CASE rmmod \/ unbind
  BY <1>2, LifeUnbind
<1>3. CASE probe_ok \/ probe_fail
  BY <1>3, LifeProbeOk, LifeProbeFail
<1>4. CASE remove
  BY <1>4, LifeRemove
<1>5. CASE devres_release \/ unload
  BY <1>5, LifeDevres, LifeUnload
<1>6. CASE irq_handler
  BY <1>6, LifeIrq
<1>7. ASSUME NEW u \in Users, Use(u) PROVE LifeInv'
  BY <1>7, LifeOpen, LifeFile DEF Use
<1>8. CASE UNCHANGED vars
  <2>1. /\ UNCHANGED <<driver, mod, pc, step, good, probes, held, majors, bufmmio, faults, extra>>
        /\ UNCHANGED <<file, flag, oops, untimely>>
    BY <1>8 DEF vars
  <2>2. ResInv' /\ HucMajorsBalanced'
    BY <2>1, UseKeepsResources DEF LifeInv, lifeVars, resVars
  <2>3. FileInv' /\ AccessMapped'
    BY <2>1, FilesKept DEF LifeInv
  <2>4. TypeOK'
    BY <2>1 DEF LifeInv, TypeOK
  <2> QED BY <2>2, <2>3, <2>4 DEF LifeInv
<1> QED BY <1>1, <1>2, <1>3, <1>4, <1>5, <1>6, <1>7, <1>8 DEF Next, Kernel

(* The inductive invariant holds in every state of both drivers' lives:    *)
(* probes, removes, users and interrupts in any order.                     *)
THEOREM LifeInvariant == Spec => []LifeInv
BY LifeInit, LifeStep, PTL DEF Spec

(* Every variable keeps its type, and bufmmio is mapped exactly while the  *)
(* driver holds the mapping, through every probe and remove of both        *)
(* drivers, whichever steps fail.                                          *)
THEOREM TypeCorrect == Spec => []TypeOK
<1>1. LifeInv => TypeOK
  BY DEF LifeInv
<1> QED BY <1>1, LifeInvariant, PTL

(* The file operations and the interrupt handler touch bufmmio only while  *)
(* it is mapped, except in the three situations `untimely' names: opened   *)
(* before probe succeeded, unbound with a file open, and an interrupt      *)
(* between iounmap in remove and the release of the devm interrupt.        *)
THEOREM AccessMappedAlways == Spec => []AccessMapped
<1>1. LifeInv => AccessMapped
  BY DEF LifeInv
<1> QED BY <1>1, LifeInvariant, PTL

(* Whatever steps of probe fail, other than class_create, rmmod leaves     *)
(* nothing but a region of device numbers and an enabled device behind.    *)
THEOREM UnloadsCleanAlways == Spec => []UnloadsClean
<1>1. LifeInv => UnloadsClean
  BY DEF LifeInv, ResInv, StepInv, ReleasedInv, UnloadsClean
<1> QED BY <1>1, LifeInvariant, PTL

(* huc_pci_remove gives back every major number its probe took, and        *)
(* remove releases only what probe acquired unless a step of probe failed. *)
THEOREM MajorsBalanced == Spec => []HucMajorsBalanced
<1>1. LifeInv => HucMajorsBalanced
  BY DEF LifeInv
<1> QED BY <1>1, LifeInvariant, PTL

=============================================================================
