# huc: a verification project

huc lets a host program inject an eBPF program into a guest through a virtual
PCI device, and lets the guest's `sched_setaffinity` calls reach the host, where
the device applies them to the vCPU threads. This directory holds TLA+ models
of it, the TLC configurations that check them and TLAPS proofs.

## The system

```
 host clients --TCP--> hucdev (QEMU) --INTx, BAR1--> huc-driver --read()--> daemon
 injectByteCode        main loop, big lock            irq_handler           recv, save,
 reset, pinonsame      buf, irq_status, affinity      huc_read              fork, kill
                            ^                                                  |
                            |  BAR1 word 3                                     v
                            +------- ioctl <------- child <--BPF map--- bytecode.c probe
```

| component | state it keeps | operations | what is hard about it |
|---|---|---|---|
| host clients (`hostend/*.c`) | a connection, the message being sent | connect, send header, send payload, close | two sends per message, death in between, no answer to wait for |
| device (`qemu-patch/hucdev.c`) | `listen_fd`, `connect_fd`, which is watched, `buf`, `irq_status`, the INTx line, the vCPU threads' affinity | `huc_realize`, `hucdev_uninit`, `handle_listenfd`, `handle_acceptfd`, BAR1 and BAR0 accesses, doorbell | a recv and a send that block with the lock held, one buffer for all messages, raises against acknowledgements, descriptors, a handler that outlives the device |
| driver (`guestend/driver/huc-driver.c`) | `flag`, `payload_left` | `irq_handler`, `huc_read`, `huc_ioctl` | no lock between handler and reader; acknowledgement after wake-up; a shared interrupt line |
| drivers, life cycle (`huc-driver.c`, `testdemo-drv.c`) | what probe has acquired, `bufmmio`, open files | init, probe, remove, exit, open, close | a failed probe undoes nothing and may count as success; the node is there before the mapping and the interrupt after it |
| daemon, receiving (`guestend/daemon.c`) | header, payload, words left | `recv_bytecode`, main's switch | reads one word per call while the device may store the next message |
| daemon, loading (`guestend/daemon.c`) | `/tmp/bytecode`, `child_pid`, children | `save_bytecode`, fork, kill, `load_bpf_file` | unchecked failures, children never waited for, a file shared with a child |
| probe and map (`guestend/bytecode.c`, child loop of `daemon.c`) | the BPF array, the count in entry 0; on the host the vCPU threads | `bpf_prog1`, poll, scan, ioctl, clear, reset | check, add, re-read and store are separate accesses on several CPUs, against a descending scan |
| spscq (`guestend/simplified-spscq`) | ring, `write`, `read`, pool, `stop` | `lq_write`, `lq_read`, `mbuf_get`, `mbuf_put`, `qslotmap_init`, SIGINT, join | lock-free ring, packets reused without being freed, termination |
| cover (`simplified-spscq/cover.cpp`) | none | `cover`, `roll` | a closed formula against a count |

What makes each correct: the device serves every message once and in order,
keeps line and status consistent, undoes a pin and never goes deaf; the
injection path delivers each program whole, once, in order and eventually; a
driver touches the device only while it is mapped and leaves nothing behind;
the loader has one child running the latest program; each affinity request is
forwarded once and pins the vCPUs it names; spscq is a FIFO whose pool reuse is
safe, and it stops.

## Modules

| module | models | remarks |
|---|---|---|
| `HucMsg` | `huc_msg.h`, `bpf_injection_msg.h` | A message is its header word and its payload words; a word knows which message it is of and its position, so mixtures can be told. Lengths are in bytes; `payload_len` keeps its width: `PayloadLen` is the size modulo the window. `WordsOf` rounds up to the words that hold it. |
| `HucHost` | host clients, TCP | One script of messages per client. A stream is reliable and ordered; connections wait in the listen queue. |
| `VcpuPin` | vCPU threads | `sched_setaffinity` is external: offline CPUs are dropped, an empty mask is refused. |
| `HucDevice` | `hucdev.c` | Handlers are atomic (big lock) except `handle_acceptfd`, two actions around its second `recv`, and a doorbell whose `send` blocks; no guest access runs during either. `life` is the device from realize to unplug. The uninitialised CPU set of PIN_ON_SAME is any set. After an unplug under a connection (`dangling`) nothing further is modelled. |
| `HucDriver` | `huc-driver.c` | Each device access and each access of `flag` is an action. With `SharedLine` the handler may run at any time. |
| `PciDriver` | both drivers: init, probe, remove, exit | One step per kernel call, in the order of the code; any may fail. The kernel is external: rmmod waits for open files, unbind does not, devm resources go after remove. |
| `HucInjection` | composition, `recv_bytecode`, main's loop | EXTENDS message, host, device and driver; `pace` is how long the host waits between messages. |
| `InjectionService` | abstract | Submit, Deliver: whole, once, in order, eventually. |
| `DaemonLoader` | main's case PROGRAM_INJECTION | Programs are numbers; the file is the program it holds, or 0 while it holds no whole one. `faults` is a history of failures. |
| `AffinityMap` | `bytecode.c`, child loop, `huc_ioctl` | Map accesses one by one; masks are numbers because the code forwards numbers that are no masks; `IntValues` is the range of the int the ioctl copies. |
| `AffinityPath` | composition of the map with the host's vCPU threads | EXTENDS `AffinityMap` and `VcpuPin`: each forwarded value is applied by the device, and RESET comes at any time. The masks are those of `runon` and the affinity test programs. |
| `Spscq` | `spscq.h`, `spscq.cpp` | Shared accesses one by one in program order (x86 stores); the slot map is what `qslotmap_init` may draw. |
| `Cover` | `cover.cpp` | Pure functions; `cover` and `roll` are the program's two checks. |
| `FifoChannel` | abstract | A bounded FIFO. |
| `IndexArith` | | Lemmas on quotients and remainders for `SpscqProofs` and `CoverProofs`. |
| `*Proofs` | | Theorems about the module they extend; `HucInjectionProofs` builds on `HucDeviceProofs`. |
| `MC*` | | Instances for TLC. |

Variables keep the names of the code where it has one (`connect_fd`,
`irq_status`, `flag`, `payload_left`, `child_pid`, `pool_idx`, `stop`); program
counters are `dev_pc`, `rd_pc`, `irq_pc`, `d_pc`, `p_pc`, `c_pc`, `k_pc`, `pc`.
Variables marked *history* in the modules record what happened and guard
nothing, except `calls`, whose length bounds `AffinityMap`, `probes` and `faults`,
which bound `PciDriver`, and `got` and `signalled`, which `pace` uses to let the
host wait.
PROJECT.json maps each definition to the lines it translates. Definitions called
"faulty variant" are mistakes that the property named beside them in
PROJECT.json must notice; no specification uses them.

## Runs

Passing:

| run | instance | what it shows |
|---|---|---|
| `dev_safety` | three clients for two descriptors; deaths, partial receives, a taken port, an unplug at any time, guest writes to both BARs up to the abort of QEMU, the doorbell | `DevTypeInv`; `IrqLineMatchesStatus`; `SocketInv` (a client is in one place, `connect_fd`, the watched fd and a blocked recv or send agree); `DeafOnlyWithoutFds`; `QueuedAccepted` (a completed connection is accepted or reset, unless descriptors ran out or QEMU aborted) |
| `dev_service` | three clients, nothing fails, the guest rings the doorbell | `ServedInOrder` (once, in order, connections not mixed), `PinUndone`, `SignalsWholeMessage`, `AllHandled`, `DoorbellSendsWhole`, `DoorbellReturns` |
| `inj_paced` | three clients, other devices on the interrupt line; the host waits until the daemon has the previous message (`consumed`) or also for the interrupt handler (`quiet`) | in both: `DeliveredIntact`, `DriverFollowsDaemon`, `SameCount`, `OverrunBelowWord`, `IrqDrains`, `TypeOK`; when quiet: `ImplementsService`, with liveness |
| `spscq_fifo` | ring of 2 lines of 4 slots, pool of 16, 20 packets, shuffled slot map, SIGINT at any time | `PacketsIntact`, `PoolSlotFree`, `RingInv` (the inductive invariant of the proof), `ImplementsFifo`, `ConsumerStops`, `TypeOK`; its module also evaluates `CoverRight` and `RollRight` |
| `map_pin` | 2 guest and 2 host CPUs, 3 entries, 3 calls, an empty mask and one that does not fit the int, RESET at any time | `EntriesAreRequests`, `ForwardedAtMostOnce`, `LowestEntryWins` in every interleaving, `OldestRequestWins` and `LostOnlyByRaces` as long as nothing overlaps, `CountCleared`, `PathTypeOK` |
| `loader` | 4 programs, 3 process table entries, any save, fork or load may fail | `OneChild` until a fork fails, `RunsLatest` until a save or a fork fails, `LatestRuns` until anything fails, `CurrentRunsFile` always, `TypeOK` |
| `driver_life` | both drivers, 2 users, 2 majors, 3 probes, 2 failing steps | `AccessMapped` (with the only circumstances in which it fails), `UnloadsClean`, `HucMajorsBalanced`, `TypeOK` |

Expected violations, each a disagreement between the code and a comment or
document, quoted in PROJECT.json:

| run | property | what happens |
|---|---|---|
| `inj_overlap` | `DeliveredIntact` | The next message overwrites the buffer while the daemon reads: it dispatches a mixture. |
| `inj_lost_irq` | `EventuallyDelivered` | A message signalled between wake-up and acknowledgement has its interrupt cleared with the first; nobody reads it. |
| `inj_empty` | `DriverFollowsDaemon` | An empty file leaves `flag` at 1: the next header read is taken for payload, and the empty program is dispatched twice. |
| `map_count_as_mask` | `HostPinsAsAsked` | The scan starts one past the map; the lookup fails, the count is forwarded as a mask, and the host pins a vCPU nobody asked for. |
| `spscq_stop` | `Terminates` | The consumer leaves first; the producer spins on a full ring. |

The passing runs state under which conditions the promises do hold. Beyond
those conditions the same modules show, by changing a constant or a property:

* `ShortRecv = TRUE` breaks `SignalsWholeMessage` (hucdev.c:420, the length
  received is not looked at);
* more connections than `MaxFds` make the device deaf (hucdev.c:404 unwatches
  and does not close), which `dev_safety` reaches: without its second disjunct
  `QueuedAccepted` fails. A taken port leaves the device deaf from the start
  (hucdev.c:573);
* an unplug with a client connected leaves a handler (hucdev.c:591, `dangling`);
* a guest write to BAR0 words 4 to 22 aborts QEMU (hucdev.c:177): the assertion
  admits the four registers that have a name, while the comment at
  hucdev.c:93-97 counts 23. `dev_safety` reaches it too;
* port 9999 in reset.c breaks `AllHandled` (hucdev.c:572 listens on 8888);
* host CPU 32 breaks `PinUndone` (hucdev.c:469, a 32-bit mask);
* a payload that reaches the end of the 64 KiB window breaks `DeliveredIntact`
  (hucdev.c:208);
* a mask stored behind the scan stays in the map when the count is reset
  (daemon.c:299): `LostOnlyByRaces` without `~overlap` fails, and so does
  `OldestRequestWins`, since a newer call then takes a lower entry than the
  stranded one and decides;
* when a load fails nobody runs the program, and the previous child has been
  killed (daemon.c:229, 246): `LatestRuns` without `faults # {}` fails;
* `AccessMapped` without "early" fails for a program that opens the node
  during probe or after a failed one, without "forced" for an unbind under an open
  file, without "late" for an interrupt after iounmap;
* after a failed `class_create` the cdev outlives the module (huc-driver.c:211,
  testdemo-drv.c:113); testdemo never gives its major back (testdemo-drv.c:183).

### Bounds

* Messages have 0 to 7 bytes, so 0 to 2 payload words, the last whole or
  partial: one word is the affinity message's count, two are needed to see a
  mixture. `Window` is 6 or 8 words instead of 16384, enough that these fit.
* Two messages are enough for any overlap the device can produce, since it has one
  buffer; the third client adds a message that raises no interrupt and one of
  the other interrupt value.
* `SndBuf` is 3 words in `dev_service`, less than two replies, and 1 in
  `dev_safety`, so that a doorbell blocks.
* In `dev_safety` `MaxFds` is 2 for three clients, so that accept fails; one
  interrupt bit, one affinity mask and one stored buffer word stand for the values
  a guest may write, and `IoIndexes` has the named registers (0 is stored
  like 1), both ends of the words that abort and both ends of those beyond.
* spscq: a ring of 8 holds 7, so full, partly full and empty all occur; 20
  packets go round ring and pool more than once.
* `pool_idx` is a natural number here and 32 bits in the code: its wrap is
  invisible through the pool mask, because the pool size divides 2^32.
* cover: `CoverRight` has the program's own bounds (256 slots, lines of 8);
  `RollRight` a ring of 256 and batches up to 9 instead of 4096 and 64.
* map: 3 entries (count and two masks), so two probes fill it; three calls
  let one arrive after a scan has begun. `IntValues` is 4; one of the masks
  is larger and one is empty, which takes an entry and is never forwarded.
* drivers: two majors and three probes, so that testdemo runs out of majors; two
  failing steps, so that an ignored failure and a fatal one occur together.
* loader: four programs are more than the process table has room for.
* Deadlock is not checked: clients finish, and the program may then wait for ever.

### Fairness

Weak fairness only: QEMU's main loop polls its descriptors, a send to a client
that is gone fails, the kernel schedules interrupt handler, reader, daemon, child and threads, and client programs run
to their end. No fairness is assumed of calls to `sched_setaffinity`, of new
messages at the daemon, or of failures and deaths. `sigint_handler` is fair
because `timeout --signal=SIGINT` delivers it. Weak fairness of `Producer` says
nothing about a full ring: the retry is then a stutter. `PciDriver` states safety only.

`pace` is an assumption about the host's user, not something the code
enforces; hostend/test/test.py sleeps between the programs it runs.
`inj_overlap` and `inj_lost_irq` are what happens without it.

## Proofs

Every theorem holds for all values of the constants that satisfy the named
ASSUMEs of the modules, which every run evaluates for its module, and the
hypotheses in the theorem itself. Each inductive invariant was first checked by
TLC on the instance of the run that checks the property.

`HucDeviceProofs`, for any clients, scripts, ports, descriptor limit, CPUs and
guest writes:

* `LineFollowsStatus` is inductive by itself. `DevTypeCorrect` and
  `SocketCorrect` need each other: that a handler receives from a real stream
  needs the socket state, and that the queue holds no client twice needs the
  types. Their conjunction `DevIInv` is the inductive invariant. `DeafCorrect`
  uses it for the range of `fds`. All of it with the abort of QEMU
  (hucdev.c:177) among the steps.
* `ServedInOrderCorrect`. What is dispatched depends on where the device takes a
  header to be, so the invariant is about the words on their way: `View(c)` is
  the header already in the buffer followed by c's stream, which the first recv
  leaves alone. Every header in it begins a message whose payload is all there
  and is followed by the next header, except that a header may be the last word
  while its payload is still to come (`Laid`); the messages dispatched are those
  no longer in the view (`Starts`, `Served`). Clients may die and the device may
  be unplugged at any time. It needs messages that can be told apart, or "once"
  means nothing, and `ShortRecv = FALSE`: after a payload cut short the device
  takes payload for a header.
* `SignalsWholeCorrect` and `DoorbellCorrect` (`BufWhole`: between two messages
  the buffer holds a whole one) also need payloads below 64 KiB and clients that
  live, and the doorbell a guest that stores nothing in the message area.
* `PinUndoneCorrect`, for scripts in which a RESET follows each PIN_ON_SAME, as
  in pinonsame.c, and host CPUs that fit the mask of RESET: a vCPU is pinned only
  while the client's next message is that RESET (`PinnedInv`).

`HucInjectionProofs`, for any clients and scripts, on a shared interrupt line:

* At any pace `TypeCorrect` and `OverrunBounded`; the invariant `CountedInv`
  says that what recv_bytecode has and what it expects add up to the payload.
* For a host that waits at least until its last message has been consumed
  (`PacedHost`), with payloads that are not empty and end before the window
  does (`ReadableMessages`, for messages that raise an interrupt), received
  whole: `DeliveredIntactCorrect`, `DriverFollowsCorrect`, `SameCountCorrect`, and
  `DeliveryCorrect`, the refinement of `InjectionService` without its fairness. The
  three hypotheses are those whose absence `inj_overlap`, `inj_empty` and the list
  above show to matter. `PacedInv` has these parts. `FlightInv`: at most one message is under way or
  signalled and not consumed. `Ready` and `Latest`: while one is outstanding the
  buffer holds it. `IrqInv`: as soon as `flag` is set no other interrupt is left
  that would set it (`Calm`), although the handler acknowledges after the
  wake-up, re-reads a status that is still pending, and runs for other devices'
  interrupts. `ReadInv`: where `huc_read` and `recv_bytecode` are
  together, and that what has been copied is what is in the buffer; `Ready`
  keeps the offset from wrapping. `TakenInOrder`: the daemon's messages are the
  signalled ones.

`PciDriverProofs`, for any users, majors, numbers of probes and failures:
`AccessMappedAlways`, `UnloadsCleanAlways`, `MajorsBalanced`, `TypeCorrect` from
`LifeInv`. It says at each step of probe and remove what is held and whether
`bufmmio` is mapped (`StepInv`, `MapInv`, `ReleasedInv`, and `AcquiredInv` as
long as nothing failed), when the interrupt is held (`IrqInv`), that a region is
held with one major (`MajorInv`), and that a file is open only on a bound
device unless something untimely happened (`FileInv`).

`AffinityPathProofs`, for any CPUs, masks, map size and number of calls:

* `EntriesCorrect` and `PathTypeCorrect`. `EntriesAreRequests` is not inductive: it
  needs that a probe under way carries a mask that was asked for, that the
  scan's index is inside the map when it clears, and that what it clears with
  is 0. `PathInv` adds these to `PathTypeOK`.
* `AtMostOnce` counts. For each value the calls forwarded, the entries of the map
  not yet read, the child's variable and the probes under way are together at
  most the calls made (`CountInv`), in every interleaving.
* `NoLossWithoutRaces`: without an overlap the same sum is exactly the calls
  accepted (`NoLossInv`), because then a probe stores only into an entry that
  is zero and the scan leaves only zeros behind (`NoRaceInv`).
* `LowestCorrect`: the entries a scan has passed decide the affinity, the lowest
  first (`LowestInv`), since the scan goes downwards and a later ioctl overrides.
  This holds with any races.
* `OldestCorrect`: without an overlap the calls accepted since the count was last
  reset are in the entries 1, 2, ... in their order (`OrderInv`), so the lowest
  entry is the oldest call. With an overlap it is not (see above).

`SpscqProofs`, for every ring length from 2, every result of `qslotmap_init` and
every number of packets:

* `SlotMapPermutes`: a line and a position within it determine the slot, so
  permuting lines and then each line's slots permutes the ring (`SlotBelow`,
  `DivBelow` of `IndexArith`).
* `PacketsIntact` is not inductive. `RingInv` adds two counters, packets
  published and packets taken, of which the indices are the remainders; that
  they are at most `QLen - 1` apart, and `QLen - 2` between the full test and the
  publication; what every occupied slot and every one of the last `PoolSize`
  pool places holds; and what each thread knows at its pc. The argument:
  counters less than n apart have different remainders (`ModInjective`), so the
  store hits no occupied slot and `mbuf_get` no packet still in use; and
  counters `QLen - 1` apart make the full test fail (`FullAt`). `RingCorrect`,
  `PacketsCorrect`, `PoolCorrect` and `TypeCorrect` follow.
* `FifoCorrect`: `Spscq` implements `FifoChannel`. The mapped ring is the interval
  from packets taken to packets published; storing `write` is Put, storing
  `read` is Take, and every other step stutters (`ModAdd`, `ModDistance`).

`DaemonLoaderProofs`, for any number of programs and processes and any failures:
the invariant adds that `child_pid` and the forked pid are different processes,
that only these two are alive until a fork fails, that the newest child loads
the file from fork to the next open, and that until a save or a fork fails the
file is the program received last. A failing load needs no exception but in
`LatestRuns`.

`CoverProofs`, for every line length K and every queue of whole lines: the lines a
batch touches are an interval of line numbers, so their count is a difference
of two quotients; `CoverFormula` compares that with the formula.

Only model-checked: everything that must eventually happen (`QueuedAccepted`, `AllHandled`,
`DoorbellReturns`, `IrqDrains`, the fairness of `ImplementsService`,
`ConsumerStops`, `CountCleared`, `LatestRuns`), since liveness under fairness is
out of the prover's reach, and `roll`, a sum over a set.

## Not modelled

* What a handler left behind by an unplug does with the freed device: undefined.
* Bytes of a partial last word that belong to an older message: the daemon
  drops them, since it saves `payload_len` bytes.
* A first recv that returns 1 to 3 of the 4 header bytes (hucdev.c:391-395 takes
  them for a header): the word is the unit of a stream, and each header is sent
  by one send of 4 bytes.
* Failures inside `recv_bytecode` (daemon.c:39-78): huc_read returns an error only
  when copy_to_user faults on the daemon's own buffer, lseek only gets the two
  offsets 16 and 20, and malloc at most 64 KiB.
* What clients do after QEMU has aborted.
* Signals interrupting a blocked read.
* The testdemo device (a RAM region, in a patch) and `rw-testdemo.c`; `newdev` and
  hucdev as patches (earlier versions); scripts and plotting; the time stamp
  code of `mlib.c`; rate limiting and statistics of spscq.
* Reads of BAR0 and of the status word change nothing and are left out, except as
  part of `irq_handler`.
* Log output, including `findPosition` and `isPowerOfTwo`, which only print.

## Plan

1. Done: device with both BARs and its life cycle, driver, both drivers' life
   cycle, injection path, loader, affinity path to the host's threads, spscq with
   its slot map, cover; a theorem for every safety property of the passing runs.
2. Next, proofs with weaker hypotheses where the code allows it: what
   `ServedInOrder` keeps when a payload arrives in pieces, and what the daemon
   still gets from a host that does not wait.
