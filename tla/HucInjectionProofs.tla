------------------------- MODULE HucInjectionProofs -------------------------
(***************************************************************************)
(* Proofs of the invariants of the injection path, for every set of        *)
(* clients and every script: types and the bound of recv_bytecode's        *)
(* overrun at any pace, and what the daemon receives from a host that      *)
(* waits until its previous message has been consumed.                     *)
(***************************************************************************)
EXTENDS HucInjection, HucDeviceProofs

-----------------------------------------------------------------------------
(* Any pace.                                                               *)

InjIInv == DevIInv /\ DrvTypeOK /\ DmnTypeOK /\ signalled \in Seq(Word)

(* What recv_bytecode has read and what it still expects are the payload.  *)
CountedInv ==
    /\ d_pc \in {"payload", "dispatch"} => d_left > -4 /\ 4 * Len(d_data) + d_left = HdrLen(d_hdr)
    /\ d_pc = "payload" => d_left > 0

(* A client's step is one of the device model's.                           *)
LEMMA PacedIsHost ==
    ASSUME NEW c \in Clients, PacedClient(c)
    PROVE  HostStep(c)
BY DEF PacedClient, HostStep, ClientStep

(* The acknowledgement of the interrupt handler.                           *)
LEMMA AckTypes ==
    ASSUME DevIInv, NEW bits, BufWriteLower(bits)
    PROVE  DevIInv'
<1>1. UNCHANGED <<hostVars, sockVars, dev_pc, buf, cpuVars, handled>>
  BY DEF BufWriteLower
<1>2. irq_status' \in SUBSET Nat
  BY DEF BufWriteLower, hucdev_lower_irq, DevIInv, DevTypeInv, DevTypeOK
<1>3. irq_line' \in BOOLEAN
  BY DEF BufWriteLower, hucdev_lower_irq, DevIInv, DevTypeInv, DevTypeOK
<1>4. DevTypeOK'
  BY <1>1, <1>2, <1>3 DEF sockVars, cpuVars, DevIInv, DevTypeInv, DevTypeOK
<1>5. HostTypeOK'
  BY <1>1 DEF hostVars, DevIInv, DevTypeInv, HostTypeOK
<1>6. SocketInv'
  BY <1>1 DEF hostVars, sockVars, DevIInv, SocketInv
<1> QED BY <1>4, <1>5, <1>6 DEF DevIInv, DevTypeInv

(* A step that leaves the host and the device alone.                       *)
LEMMA DevIInvKept ==
    ASSUME DevIInv, UNCHANGED <<hostVars, devVars>>
    PROVE  DevIInv'
BY DEF DevIInv, DevTypeInv, hostVars, devVars, HostTypeOK, DevTypeOK, SocketInv

(* A read of BAR1 at any offset yields a word.                             *)
LEMMA BufReadType ==
    ASSUME DevIInv, NEW i \in Nat
    PROVE  hucdev_bufmmio_read(i) \in Word
<1>1. i % Window \in 0 .. Window - 1
  BY WindowAssumption
<1>2. CASE i % Window < 4
  BY <1>2, BlankWordType DEF hucdev_bufmmio_read
<1>3. CASE ~(i % Window < 4)
  <2>1. i % Window \in Slots
    BY <1>1, <1>3, WindowAssumption DEF Slots
  <2> QED BY <1>3, <2>1 DEF hucdev_bufmmio_read, DevIInv, DevTypeInv, DevTypeOK
<1> QED BY <1>2, <1>3

(* FlagFor yields a value of the flag.                                     *)
LEMMA FlagForType ==
    ASSUME DrvTypeOK, NEW val
    PROVE  FlagFor(val) \in 0 .. 2
BY DEF FlagFor, DrvTypeOK

(* The types of the driver, whatever it does.                              *)
LEMMA DrvStepTypes ==
    ASSUME InjIInv, IrqStep \/ ReadStep
    PROVE  DevIInv' /\ DrvTypeOK'
<1> USE DEF InjIInv
<1>1. CASE irq_handler_read
  BY <1>1, DevIInvKept DEF irq_handler_read, DrvTypeOK, DevIInv, DevTypeInv, DevTypeOK
<1>2. CASE irq_handler_wake
  BY <1>2, DevIInvKept, FlagForType DEF irq_handler_wake, DrvTypeOK
<1>3. CASE irq_handler_ack
  BY <1>3, AckTypes DEF irq_handler_ack, DrvTypeOK
<1>4. CASE huc_read_wait
  BY <1>4, DevIInvKept DEF huc_read_wait, DrvTypeOK
<1>5. CASE huc_read_io
  BY <1>5, DevIInvKept, BufReadType DEF huc_read_io, DrvTypeOK
<1>6. CASE huc_read_test
  BY <1>6, DevIInvKept DEF huc_read_test, DrvTypeOK
<1>7. HdrLen(rd_word) \in Int
  BY HdrLenType, WindowAssumption DEF DrvTypeOK
<1>8. CASE huc_read_header
  BY <1>7, <1>8, DevIInvKept DEF huc_read_header, DrvTypeOK
<1>9. CASE huc_read_payload
  BY <1>9, DevIInvKept DEF huc_read_payload, DrvTypeOK
<1> QED BY <1>1, <1>2, <1>3, <1>4, <1>5, <1>6, <1>8, <1>9 DEF IrqStep, ReadStep

(* The types of the daemon's steps.                                        *)
LEMMA DaemonTypes ==
    ASSUME InjIInv, Daemon
    PROVE  InjIInv'
<1> USE DEF InjIInv, Daemon
<1>1. HdrLen(rd_word) \in Int
  BY HdrLenType, WindowAssumption DEF DrvTypeOK
<1>2. CASE recv_seek
  BY <1>2, DevIInvKept DEF recv_seek, DrvTypeOK, DmnTypeOK
<1>3. CASE recv_header
  <2>1. d_data' \in Seq(Word)
    BY <1>3 DEF recv_header
  <2> QED BY <1>1, <1>3, <2>1, DevIInvKept DEF recv_header, DrvTypeOK, DmnTypeOK
<1>4. CASE recv_payload
  <2>1. d_data' \in Seq(Word)
    BY <1>4 DEF recv_payload, DrvTypeOK, DmnTypeOK
  <2> QED BY <1>4, <2>1, DevIInvKept DEF recv_payload, DrvTypeOK, DmnTypeOK
<1>5. CASE dispatch
  <2>1. [hdr |-> d_hdr, data |-> d_data] \in Packet
    BY DEF Packet, DmnTypeOK
  <2>2. got' \in Seq(Packet)
    BY <1>5, <2>1 DEF dispatch, DmnTypeOK
  <2> QED BY <1>5, <2>2, DevIInvKept DEF dispatch, drvVars, DrvTypeOK, DmnTypeOK
<1> QED BY <1>2, <1>3, <1>4, <1>5 DEF DaemonStep

(* Types and socket state of the whole path are inductive.                 *)
LEMMA InjIInvStep == InjIInv /\ [Next]_allVars => InjIInv'
<1> SUFFICES ASSUME InjIInv, [Next]_allVars
             PROVE  InjIInv'
  OBVIOUS
<1>1. UNCHANGED drvVars => DrvTypeOK'
  BY DEF InjIInv, drvVars, DrvTypeOK
<1>2. UNCHANGED dmnVars => DmnTypeOK'
  BY DEF InjIInv, dmnVars, DmnTypeOK
<1>3. ASSUME NEW c \in Clients, PacedClient(c)
      PROVE  InjIInv'
  BY <1>1, <1>2, <1>3, PacedIsHost, DevIInvHost DEF PacedClient, InjIInv
<1>4. CASE Device
  <2>1. DevIInv'
    BY <1>4, DevIInvListen, DevIInvEof, DevIInvHeader, DevIInvPayload
       DEF Device, DeviceStep, InjIInv
  <2>2. buf[4] \in Word
    BY WindowAssumption DEF InjIInv, DevIInv, DevTypeInv, DevTypeOK, Slots
  <2>3. signalled' \in Seq(Word)
    BY <1>4, <2>2 DEF Device, InjIInv
  <2> QED BY <1>1, <1>2, <1>4, <2>1, <2>3 DEF Device, InjIInv
<1>5. CASE Irq \/ Read
  BY <1>2, <1>5, DrvStepTypes DEF Irq, Read, InjIInv
<1>6. CASE Daemon
  BY <1>6, DaemonTypes
<1>7. CASE UNCHANGED allVars
  BY <1>1, <1>2, <1>7, DevIInvKept DEF allVars, InjIInv
<1> QED BY <1>3, <1>4, <1>5, <1>6, <1>7 DEF Next

(* And hold at the start.                                                  *)
LEMMA InjIInvInit == Init => InjIInv
<1> SUFFICES ASSUME Init
             PROVE  InjIInv
  OBVIOUS
<1>1. DevIInv
  BY DevIInvInit DEF Init
<1>2. DrvTypeOK
  BY BlankWordType DEF Init, DrvInit, DrvTypeOK
<1>3. DmnTypeOK
  BY BlankWordType DEF Init, DmnInit, DmnTypeOK
<1>4. signalled \in Seq(Word)
  BY DEF Init
<1> QED BY <1>1, <1>2, <1>3, <1>4 DEF InjIInv

(* At any pace.                                                            *)
LEMMA InjIInvariant == Spec => []InjIInv
BY InjIInvInit, InjIInvStep, PTL DEF Spec

(* Every variable of the injection path keeps its type, whatever the pace  *)
(* of the host and however the payload arrives: what huc_read takes from   *)
(* the device at any offset is a word of a message or of a register.       *)
THEOREM TypeCorrect == Spec => []TypeOK
<1>1. InjIInv => TypeOK
  BY DEF InjIInv, DevIInv, TypeOK
<1> QED BY <1>1, InjIInvariant, PTL

(* The count of recv_bytecode.                                             *)
LEMMA CountedStep == InjIInv /\ CountedInv /\ [Next]_allVars => CountedInv'
<1> SUFFICES ASSUME InjIInv, CountedInv, [Next]_allVars
             PROVE  CountedInv'
  OBVIOUS
<1>1. CASE UNCHANGED dmnVars
  BY <1>1 DEF CountedInv, dmnVars
<1>2. CASE recv_seek
  BY <1>2 DEF recv_seek, CountedInv
<1>3. CASE recv_header
  <2>1. HdrLen(rd_word) \in Nat
    BY HdrLenType, WindowAssumption DEF InjIInv, DrvTypeOK
  <2>2. d_hdr' = rd_word /\ d_left' = HdrLen(rd_word) /\ Len(d_data') = 0
    BY <1>3 DEF recv_header
  <2>3. d_pc' = "payload" => d_left' > 0
    BY <1>3 DEF recv_header
  <2> QED BY <2>1, <2>2, <2>3 DEF CountedInv
<1>4. CASE recv_payload
  <2>1. /\ d_data' = Append(d_data, rd_word) /\ d_data \in Seq(Word) /\ d_left \in Int
        /\ d_pc = "payload" /\ d_left' = d_left - 4 /\ d_hdr' = d_hdr
        /\ d_pc' = "payload" => d_left' > 0
    BY <1>4 DEF recv_payload, InjIInv, DmnTypeOK
  <2>2. Len(d_data') = Len(d_data) + 1 /\ Len(d_data) \in Nat
    BY <2>1
  <2>3. HdrLen(d_hdr) \in Nat
    BY HdrLenType, WindowAssumption DEF InjIInv, DmnTypeOK
  <2> QED BY <2>1, <2>2, <2>3 DEF CountedInv
<1>5. CASE dispatch
  BY <1>5 DEF dispatch, CountedInv
<1> QED
  BY <1>1, <1>2, <1>3, <1>4, <1>5
     DEF Next, PacedClient, Device, Irq, Read, Daemon, DaemonStep, allVars

(* The count holds at any pace.                                            *)
LEMMA CountedInvariant == Spec => []CountedInv
<1>1. Init => CountedInv
  BY DEF Init, DmnInit, CountedInv
<1> QED BY <1>1, CountedStep, InjIInvariant, PTL DEF Spec

(* At any pace of the host and for any length in a header: recv_bytecode   *)
(* stores past malloc(payload_len) by less than a word.                    *)
THEOREM OverrunBounded == Spec => []OverrunBelowWord
<1>1. InjIInv /\ CountedInv => OverrunBelowWord
  <2> SUFFICES ASSUME InjIInv, CountedInv, d_pc \in {"payload", "dispatch"}
               PROVE  4 * Len(d_data) < HdrLen(d_hdr) + 4
    BY DEF OverrunBelowWord
  <2>1. Len(d_data) \in Nat /\ d_left \in Int /\ HdrLen(d_hdr) \in Nat
    BY HdrLenType, WindowAssumption DEF InjIInv, DmnTypeOK
  <2> QED BY <2>1 DEF CountedInv
<1> QED BY <1>1, InjIInvariant, CountedInvariant, PTL

-----------------------------------------------------------------------------
(* A host that waits for its last message to be consumed.                  *)

PacedHost == Paces \subseteq {"consumed", "quiet"}

(* A message that raises an interrupt has a payload, and the guest can     *)
(* read all of it through the window.                                      *)
ReadableMessages ==
    \A c \in Clients : \A i \in 1 .. Len(Script[c]) :
      IrqBits(Script[c][i].type) # {} => Script[c][i].size \in 1 .. 4 * (Window - 5)

(* A message that was signalled and that the daemon has not dispatched.    *)
Outstanding == Len(signalled) = Len(got) + 1

(* v is message j of c.                                                    *)
IsMessage(c, v, j) == Len(v) = 1 + PW(c, j) /\ \A x \in 1 .. Len(v) : v[x] = Wd(c, j, x - 1)

(* What is on its way from c: nothing, a header without its payload, or    *)
(* one message.                                                            *)
InFlight(c) ==
    \/ View(c) = << >> /\ (cpc[c] = "payload" => PW(c, cmsg[c]) = 0)
    \/ cpc[c] = "payload" /\ Len(View(c)) = 1 /\ View(c)[1] = Wd(c, cmsg[c], 0)
    \/ cpc[c] # "payload" /\ \E j \in 1 .. Len(Script[c]) : IsMessage(c, View(c), j)

Flying(c) == View(c) # << >> \/ cpc[c] = "payload"

FlightInv ==
    /\ \A c \in Clients : InFlight(c)
    /\ \A c, d \in Clients : Flying(c) /\ Flying(d) => c = d
    /\ \A c \in Clients : Flying(c) => Len(signalled) = Len(got)
    /\ Len(signalled) = Len(got) \/ Outstanding

(* The buffer holds a message, as the daemon should receive it.            *)
Ready ==
    /\ buf[4].pos = 0 /\ HdrLen(buf[4]) = buf[4].msg.size
    /\ buf[4].msg.size \in 1 .. 4 * (Window - 5)
    /\ \A k \in 1 .. WordsOf(buf[4].msg.size) : buf[4 + k] = Sent(buf[4]).data[k]

(* It is the message signalled last.                                       *)
Latest == signalled[Len(signalled)] = buf[4]

(* What the daemon has dispatched is what was signalled, in order.         *)
TakenInOrder == \A i \in 1 .. Len(got) : got[i] = Sent(signalled[i])

(* No interrupt is left that would set flag.                               *)
Calm ==
    /\ 0 \in irq_status => irq_pc = "ack" /\ 0 \in irq_val
    /\ irq_pc = "wake" => 0 \notin irq_val

(* Only a message whose interrupt is still to come finds it otherwise.     *)
IrqInv ==
    /\ irq_status \subseteq {0, 1} /\ irq_val \subseteq {0, 1}
    /\ Calm \/ (Outstanding /\ flag = 0 /\ d_pc \in {"idle", "header"})

(* What the daemon has read is what is in the buffer.                      *)
Copied ==
    /\ d_hdr = buf[4]
    /\ \A k \in 1 .. Len(d_data) : d_data[k] = buf[4 + k]

(* Where driver and daemon are with the outstanding message.               *)
ReadInv ==
    \/ d_pc = "idle" /\ rd_pc = "none" /\ flag \in {0, 2}
    \/ /\ d_pc = "header" /\ rd_off = 4
       /\ \/ rd_pc = "wait" /\ flag \in {0, 2}
          \/ rd_pc = "io" /\ flag = 2
          \/ rd_pc \in {"test", "header"} /\ flag = 2 /\ rd_word = buf[4]
          \/ rd_pc = "ret" /\ flag = 1 /\ rd_word = buf[4] /\ payload_left = HdrLen(buf[4])
    \/ /\ d_pc = "payload" /\ Copied /\ rd_off = 5 + Len(d_data)
       /\ \/ rd_pc \in {"wait", "io"} /\ flag = 1 /\ payload_left = d_left
          \/ rd_pc \in {"test", "payload"} /\ flag = 1 /\ payload_left = d_left /\ rd_word = buf[rd_off]
          \/ /\ rd_pc = "ret" /\ payload_left = d_left - 4 /\ rd_word = buf[rd_off]
             /\ flag = IF payload_left <= 0 THEN 0 ELSE 1
    \/ d_pc = "dispatch" /\ Copied /\ rd_pc = "none" /\ flag = 0 /\ d_left <= 0

WokenInv == flag # 0 \/ d_pc \in {"payload", "dispatch"} => Outstanding

(* Everything but what is under way.                                       *)
ReceiveInv ==
    /\ Outstanding => Ready /\ Latest
    /\ IrqInv
    /\ ReadInv
    /\ WokenInv
    /\ DeliveredIntact /\ TakenInOrder

PacedInv == FlightInv /\ ReceiveInv

(* A step that sends nothing and dispatches nothing.                       *)
LEMMA FlightKept ==
    ASSUME FlightInv, UNCHANGED <<signalled, got>>,
           \A c \in Clients : /\ View(c)' = View(c)
                              /\ cpc'[c] = "payload" <=> cpc[c] = "payload"
                              /\ cmsg'[c] = cmsg[c]
    PROVE  FlightInv'
<1>1. \A c \in Clients : InFlight(c)' /\ (Flying(c)' <=> Flying(c))
  BY DEF FlightInv, InFlight, Flying
<1> QED BY <1>1 DEF FlightInv, Outstanding

(* The views, when neither a stream nor a handler waiting for a payload    *)
(* changes.                                                                *)
LEMMA ViewsKept ==
    ASSUME UNCHANGED <<stream, cpc, cmsg>>, dev_pc # "payload", dev_pc' # "payload"
    PROVE  \A c \in Clients : /\ View(c)' = View(c)
                              /\ cpc'[c] = "payload" <=> cpc[c] = "payload"
                              /\ cmsg'[c] = cmsg[c]
BY DEF View, InProgress

(* A step outside the driver, the daemon and the buffer.                   *)
LEMMA ReceiveKept ==
    ASSUME ReceiveInv, UNCHANGED <<buf, irq_status, drvVars, dmnVars, signalled>>
    PROVE  ReceiveInv'
<1>1. Outstanding' <=> Outstanding
  BY DEF Outstanding, dmnVars
<1>2. (Outstanding => Ready /\ Latest)'
  BY <1>1 DEF ReceiveInv, Ready, Latest
<1>3. IrqInv' /\ WokenInv'
  BY <1>1 DEF ReceiveInv, IrqInv, Calm, WokenInv, drvVars, dmnVars
<1>4. ReadInv'
  BY DEF ReceiveInv, ReadInv, Copied, drvVars, dmnVars
<1>5. DeliveredIntact' /\ TakenInOrder'
  BY DEF ReceiveInv, DeliveredIntact, TakenInOrder, dmnVars
<1> QED BY <1>2, <1>3, <1>4, <1>5 DEF ReceiveInv

(* Driver and daemon wait for a message.                                   *)
Resting ==
    /\ flag = 0
    /\ \/ d_pc = "idle" /\ rd_pc = "none"
       \/ d_pc = "header" /\ rd_pc = "wait" /\ rd_off = 4

(* They do while no message is outstanding.                                *)
LEMMA RestingWhen ==
    ASSUME ReceiveInv, ~Outstanding
    PROVE  Resting
BY DEF ReceiveInv, WokenInv, ReadInv, Resting

(* Waiting for a message they have nothing of the buffer.                  *)
LEMMA RestingReads == Resting => ReadInv /\ WokenInv
BY DEF Resting, ReadInv, WokenInv

(* A client at any pace but "none" sends a header when all is consumed.    *)
LEMMA PacedSends ==
    ASSUME PacedHost, InjIInv, MaySend
    PROVE  Consumed
BY DEF PacedHost, InjIInv, DmnTypeOK, MaySend, Quiet

(* A header sent is all that is under way.                                 *)
LEMMA FlightHeader ==
    ASSUME PacedHost, InjIInv, FlightInv, NEW c \in Clients, PacedClient(c), SendHeader(c), MaySend
    PROVE  FlightInv'
<1>1. HostStep(c) /\ DevIInv /\ Consumed
  BY PacedIsHost, PacedSends DEF InjIInv
<1>2. \A d \in Clients : View(d) = << >> /\ cpc[d] # "payload"
  BY <1>1 DEF Consumed, View, InProgress
<1>3. \A d \in Clients \ {c} : View(d)' = << >> /\ cpc'[d] # "payload"
  BY <1>1, <1>2, ViewOther
<1>4. cpc'[c] = "payload" /\ cmsg' = cmsg
  BY <1>1 DEF SendHeader, DevIInv, DevTypeInv, HostTypeOK
<1>5. View(c)' = Append(<< >>, Wd(c, cmsg[c], 0))
  BY <1>1, <1>2, ViewHeader
<1>6. Len(View(c)') = 1 /\ View(c)'[1] = Wd(c, cmsg'[c], 0)
  BY <1>4, <1>5
<1>7. \A d \in Clients : InFlight(d)'
  BY <1>3, <1>4, <1>6 DEF InFlight
<1>8. signalled' = signalled /\ got' = got /\ Len(signalled) = Len(got)
  BY <1>1 DEF PacedClient, dmnVars, Consumed
<1>9. \A d \in Clients : Flying(d)' => d = c
  BY <1>3 DEF Flying
<1> QED BY <1>7, <1>8, <1>9 DEF FlightInv

(* A payload sent completes the message whose header is under way.         *)
LEMMA FlightPayload ==
    ASSUME InjIInv, FlightInv, NEW c \in Clients, PacedClient(c), SendPayload(c)
    PROVE  FlightInv'
<1>1. HostStep(c) /\ DevIInv
  BY PacedIsHost DEF InjIInv
<1>2. PICK m : m = cmsg[c]
  OBVIOUS
<1>3. cpc[c] = "payload" /\ cpc'[c] # "payload" /\ m \in 1 .. Len(Script[c])
  BY <1>1, <1>2 DEF SendPayload, DevIInv, DevTypeInv, HostTypeOK
<1> DEFINE v == View(c)
           w == View(c)'
<1>4. /\ v \in Seq(Word) /\ w \in Seq(Word) /\ Len(w) = Len(v) + PW(c, m)
      /\ \A x \in 1 .. Len(v) : w[x] = v[x]
      /\ \A x \in 1 .. PW(c, m) : w[Len(v) + x] = Wd(c, m, x)
  BY <1>1, <1>2, ViewPayload
<1>5. PW(c, m) \in Nat
  BY <1>3, PWType
<1>6. \/ v = << >> /\ PW(c, m) = 0
      \/ Len(v) = 1 /\ v[1] = Wd(c, m, 0)
  BY <1>2, <1>3 DEF FlightInv, InFlight
<1>7. InFlight(c)'
  <2>1. CASE v = << >> /\ PW(c, m) = 0
    <3> HIDE DEF v, w
    <3>1. Len(w) = 0
      BY <1>4, <2>1
    <3>2. w = << >>
      BY <1>4, <3>1, EmptySeq
    <3> QED BY <1>3, <3>2 DEF InFlight, w
  <2>2. CASE Len(v) = 1 /\ v[1] = Wd(c, m, 0)
    <3> HIDE DEF v, w
    <3>1. ASSUME NEW x \in 1 .. Len(w)
          PROVE  w[x] = Wd(c, m, x - 1)
      <4>1. CASE x = 1
        BY <1>4, <2>2, <4>1
      <4>2. CASE x # 1
        <5>1. x - 1 \in 1 .. PW(c, m) /\ Len(v) + (x - 1) = x
          BY <1>4, <1>5, <2>2, <4>2
        <5> QED BY <1>4, <5>1
      <4> QED BY <4>1, <4>2
    <3>2. IsMessage(c, w, m)
      BY <1>4, <2>2, <3>1 DEF IsMessage
    <3> QED BY <1>3, <3>2 DEF InFlight, w
  <2> QED BY <1>6, <2>1, <2>2
<1>8. \A d \in Clients \ {c} : View(d)' = View(d) /\ cpc'[d] = cpc[d] /\ cmsg'[d] = cmsg[d]
  BY <1>1, ViewOther
<1>9. \A d \in Clients \ {c} : InFlight(d)' /\ (Flying(d)' <=> Flying(d))
  BY <1>8 DEF FlightInv, InFlight, Flying
<1>10. signalled' = signalled /\ got' = got
  BY DEF PacedClient, dmnVars
<1>11. Flying(c)
  BY <1>3 DEF Flying
<1>12. \A d \in Clients : Flying(d)' => d = c
  BY <1>9, <1>11 DEF FlightInv
<1> QED BY <1>7, <1>9, <1>10, <1>11, <1>12 DEF FlightInv, Outstanding

(* A client's step.                                                        *)
LEMMA PacedClientStep ==
    ASSUME PacedHost, InjIInv, PacedInv, NEW c \in Clients, PacedClient(c)
    PROVE  PacedInv'
<1>1. HostStep(c) /\ DevIInv
  BY PacedIsHost DEF InjIInv
<1>2. ReceiveInv'
  BY ReceiveKept DEF PacedInv, PacedClient, devVars
<1>3. CASE SendHeader(c) /\ MaySend
  BY <1>2, <1>3, FlightHeader DEF PacedInv
<1>4. CASE SendPayload(c)
  BY <1>2, <1>4, FlightPayload DEF PacedInv
<1>5. CASE Connect(c, life = "up") \/ Close(c)
  <2>1. \A d \in Clients : (cpc'[d] = "payload" <=> cpc[d] = "payload") /\ cmsg'[d] = cmsg[d]
    BY <1>1, <1>5 DEF Connect, Close, DevIInv, DevTypeInv, HostTypeOK
  <2>2. \A d \in Clients : View(d)' = View(d)
    BY <1>5 DEF Connect, Close, PacedClient, devVars, View, InProgress
  <2>3. UNCHANGED <<signalled, got>>
    BY DEF PacedClient, dmnVars
  <2> QED BY <1>2, <2>1, <2>2, <2>3, FlightKept DEF PacedInv
<1> QED BY <1>3, <1>4, <1>5 DEF PacedClient

(* The first recv: a header is under way, so no message is outstanding and *)
(* nobody looks at the buffer.                                             *)
LEMMA PacedFirstRecv ==
    ASSUME InjIInv, PacedInv, handle_acceptfd_header,
           UNCHANGED <<drvVars, dmnVars, signalled>>
    PROVE  PacedInv'
<1>1. PICK c : c = connect_fd
  OBVIOUS
<1>2. c \in Clients /\ dev_pc = "idle" /\ stream[c] # << >>
  BY <1>1 DEF handle_acceptfd_header, InjIInv, DevIInv, DevTypeInv, DevTypeOK, SocketInv
<1>3. Flying(c)
  BY <1>2 DEF Flying, View, InProgress
<1>4. got \in Seq(Packet)
  BY DEF InjIInv, DmnTypeOK
<1>5. Len(signalled) = Len(got) /\ ~Outstanding
  BY <1>2, <1>3, <1>4 DEF PacedInv, FlightInv, Outstanding
<1>6. UNCHANGED <<got, cpc, cmsg, irq_status>>
  BY DEF handle_acceptfd_header, dmnVars, irqVars
<1>7. FlightInv'
  BY <1>6, ViewFirstRecv, FlightKept DEF InjIInv, PacedInv
<1>8. ~Outstanding'
  BY <1>5, <1>6 DEF Outstanding
<1>9. Resting'
  BY <1>5, RestingWhen DEF PacedInv, Resting, drvVars, dmnVars
<1>10. (Resting => ReadInv /\ WokenInv)'
  BY RestingReads, PTL
<1>11. IrqInv' /\ DeliveredIntact' /\ TakenInOrder'
  BY <1>5, <1>6 DEF PacedInv, ReceiveInv, IrqInv, Calm, DeliveredIntact, TakenInOrder, drvVars
<1> QED BY <1>7, <1>8, <1>9, <1>10, <1>11 DEF PacedInv, ReceiveInv

(* What the second recv finds: a message of the client it is connected to, *)
(* of which it takes all.                                                  *)
LEMMA PacedRecv ==
    ASSUME InjIInv, FlightInv, ShortRecv = FALSE, NEW c \in Clients, InProgress(c),
           NEW k \in PayloadCounts(c)
    PROVE  \E j \in 1 .. Len(Script[c]) :
             /\ buf[4] = Wd(c, j, 0) /\ k = PW(c, j) /\ Len(stream[c]) = PW(c, j)
             /\ \A x \in 1 .. PW(c, j) : stream[c][x] = Wd(c, j, x)
             /\ cpc[c] = "payload" => PW(c, j) = 0 /\ cmsg[c] = j
<1> DEFINE s == stream[c]
           b == buf[4]
           v == View(c)
<1>1. s \in Seq(Word) /\ b \in Word /\ v = <<b>> \o s
  BY WindowAssumption DEF InjIInv, DevIInv, DevTypeInv, HostTypeOK, DevTypeOK, Slots, View
<1> HIDE DEF s, b, v
<1>2. Len(v) = Len(s) + 1 /\ Len(s) \in Nat /\ v[1] = b /\ v # << >>
  BY <1>1
<1>3. \A x \in 1 .. Len(s) : v[x + 1] = s[x]
  BY <1>1
<1>4. CASE cpc[c] = "payload" /\ Len(v) = 1 /\ v[1] = Wd(c, cmsg[c], 0)
  <2>1. cmsg[c] \in 1 .. Len(Script[c])
    BY <1>4 DEF InjIInv, DevIInv, DevTypeInv, HostTypeOK
  <2>2. b = Wd(c, cmsg[c], 0) /\ Len(s) = 0
    <3>1. b = Wd(c, cmsg[c], 0)
      <4>1. v[1] = b
        BY <1>2
      <4>2. v[1] = Wd(c, cmsg[c], 0)
        BY <1>4
      <4> QED BY <4>1, <4>2
    <3>2. Len(s) = 0
      <4>1. Len(v) = Len(s) + 1 /\ Len(s) \in Nat
        BY <1>2
      <4>2. Len(v) = 1
        BY <1>4
      <4>3. \A n \in Nat : n + 1 = 1 => n = 0
        OBVIOUS
      <4> QED BY <4>1, <4>2, <4>3, Zenon
    <3> QED BY <3>1, <3>2
  <2>3. s = << >> /\ ~Eof(c)
    BY <1>1, <1>4, <2>2, EmptySeq DEF Eof
  <2>4. WordsOf(HdrLen(b)) = PW(c, cmsg[c])
    BY <2>2 DEF HdrLen, Wd, PW
  <2>5. k = 0 /\ PW(c, cmsg[c]) = 0
    BY <2>3, <2>4 DEF PayloadCounts, RecvCounts, s, b
  <2> QED BY <1>4, <2>1, <2>2, <2>5 DEF s, b
<1>5. CASE cpc[c] # "payload" /\ \E j \in 1 .. Len(Script[c]) : IsMessage(c, v, j)
  <2>1. PICK j \in 1 .. Len(Script[c]) : IsMessage(c, v, j)
    BY <1>5
  <2>2. PW(c, j) \in Nat
    BY PWType
  <2>3. Len(v) = 1 + PW(c, j) /\ \A x \in 1 .. Len(v) : v[x] = Wd(c, j, x - 1)
    BY <2>1 DEF IsMessage
  <2>4. Len(s) = PW(c, j)
    BY <1>2, <2>2, <2>3
  <2>5. b = Wd(c, j, 0)
    BY <1>2, <2>2, <2>3
  <2>6. \A x \in 1 .. PW(c, j) : s[x] = Wd(c, j, x)
    <3> TAKE x \in 1 .. PW(c, j)
    <3>1. x + 1 \in 1 .. Len(v) /\ (x + 1) - 1 = x /\ x \in 1 .. Len(s)
      BY <2>2, <2>3, <2>4
    <3>2. v[x + 1] = Wd(c, j, (x + 1) - 1)
      BY <2>3, <3>1
    <3> QED BY <1>3, <3>1, <3>2
  <2>7. WordsOf(HdrLen(b)) = PW(c, j)
    BY <2>5 DEF HdrLen, Wd, PW
  <2>8. k \in RecvCounts(s, PW(c, j), Eof(c))
    BY <2>7 DEF PayloadCounts, s, b
  <2>9. k = PW(c, j)
    <3>1. CASE PW(c, j) = 0
      BY <2>8, <3>1 DEF RecvCounts
    <3>2. CASE PW(c, j) # 0
      <4>1. s # << >>
        BY <1>2, <2>4, <3>2, EmptySeq
      <4> QED BY <1>2, <2>2, <2>4, <2>8, <3>2, <4>1 DEF RecvCounts
    <3> QED BY <3>1, <3>2
  <2> QED BY <1>5, <2>4, <2>5, <2>6, <2>9 DEF s, b
<1>6. InFlight(c)
  BY DEF FlightInv
<1> QED BY <1>2, <1>4, <1>5, <1>6 DEF InFlight, v

(* The buffer after a message that fits it has been received.              *)
LEMMA ReadyReceived ==
    ASSUME NEW c \in Clients, NEW j \in 1 .. Len(Script[c]), NEW s, buf[4] = Wd(c, j, 0),
           \A x \in 1 .. PW(c, j) : s[x] = Wd(c, j, x),
           Script[c][j].size \in 1 .. 4 * (Window - 5),
           buf' = Received(s, PW(c, j), Script[c][j].type)
    PROVE  Ready' /\ buf'[4] = buf[4]
<1> DEFINE m == Script[c][j]
           p == PW(c, j)
           b == [i \in Slots |-> IF i \in 5 .. 4 + p THEN s[i - 4] ELSE buf[i]]
           n == IF m.type = PROGRAM_INJECTION_AFFINITY THEN NVcpu ELSE 0
<1>1. m.size \in Nat /\ m.size < 4 * Window /\ m.size >= 1 /\ PayloadLen(m) = m.size
  <2> DEFINE z == m.size
  <2>1. z \in Nat /\ z < 4 * Window /\ z >= 1
    BY WindowAssumption
  <2> HIDE DEF z
  <2>2. z % (4 * Window) = z
    BY <2>1, WindowAssumption
  <2> QED BY <2>1, <2>2 DEF z, PayloadLen
<1>2. p = WordsOf(m.size)
  BY <1>1 DEF PW
<1>3. p \in 1 .. Window - 5
  <2> DEFINE z == m.size
  <2>1. z \in 1 .. 4 * (Window - 5)
    OBVIOUS
  <2> HIDE DEF z
  <2>2. WordsOf(z) \in 1 .. Window - 5
    BY <2>1, WindowAssumption DEF WordsOf
  <2> QED BY <1>2, <2>2 DEF z
<1> HIDE DEF p
<1>4. 4 \in Slots /\ 5 \in Slots /\ \A x \in 1 .. p : 4 + x \in Slots
  BY <1>3, WindowAssumption DEF Slots
<1>5. b[4] = Wd(c, j, 0)
  BY <1>4
<1>6. \A x \in 1 .. p : b[4 + x] = Wd(c, j, x)
  <2> TAKE x \in 1 .. p
  <2>1. 4 + x \in 5 .. 4 + p /\ (4 + x) - 4 = x /\ 4 + x \in Slots
    BY <1>3, <1>4, WindowAssumption
  <2>2. s[x] = Wd(c, j, x)
    BY DEF p
  <2> QED BY <2>1, <2>2
<1>7. buf' = IF m.type = PROGRAM_INJECTION_AFFINITY THEN [b EXCEPT ![5].n = NVcpu] ELSE b
  BY DEF Received, p
<1>8. buf'[4] = Wd(c, j, 0)
  BY <1>4, <1>5, <1>7
<1>9. \A x \in 1 .. p : buf'[4 + x] = [msg |-> m, pos |-> x, n |-> IF x = 1 THEN n ELSE 0]
  <2> TAKE x \in 1 .. p
  <2>1. b[4 + x] = [msg |-> m, pos |-> x, n |-> 0] /\ 4 + x \in Slots
    BY <1>4, <1>6 DEF Wd
  <2>2. CASE m.type # PROGRAM_INJECTION_AFFINITY
    BY <1>7, <2>1, <2>2
  <2>3. CASE m.type = PROGRAM_INJECTION_AFFINITY /\ x # 1
    <3>1. 4 + x # 5
      BY <1>3, <2>3
    <3>2. buf'[4 + x] = b[4 + x]
      BY <1>7, <2>1, <2>3, <3>1
    <3> QED BY <2>1, <2>3, <3>2
  <2>4. CASE m.type = PROGRAM_INJECTION_AFFINITY /\ x = 1
    <3>1. buf'[5] = [b[5] EXCEPT !.n = NVcpu]
      BY <1>4, <1>7, <2>4
    <3>2. b[5] = [msg |-> m, pos |-> 1, n |-> 0]
      BY <2>1, <2>4
    <3>3. buf'[5] = [msg |-> m, pos |-> 1, n |-> NVcpu]
      <4>1. [[msg |-> m, pos |-> 1, n |-> 0] EXCEPT !.n = NVcpu] = [msg |-> m, pos |-> 1, n |-> NVcpu]
        OBVIOUS
      <4> QED BY <3>1, <3>2, <4>1, Zenon
    <3> QED BY <2>4, <3>3
  <2> QED BY <2>2, <2>3, <2>4
<1>10. buf'[4].pos = 0 /\ buf'[4].msg = m
  BY <1>8 DEF Wd
<1>11. HdrLen(buf'[4]) = m.size
  BY <1>1, <1>10 DEF HdrLen
<1>12. \A x \in 1 .. p : Sent(buf'[4]).data[x] = [msg |-> m, pos |-> x, n |-> IF x = 1 THEN n ELSE 0]
  BY <1>2, <1>10 DEF Sent
<1>13. buf'[4] = buf[4]
  BY <1>8
<1>14. HdrLen(buf'[4]) = buf'[4].msg.size /\ buf'[4].msg.size \in 1 .. 4 * (Window - 5)
  BY <1>10, <1>11
<1>15. \A x \in 1 .. WordsOf(buf'[4].msg.size) : buf'[4 + x] = Sent(buf'[4]).data[x]
  BY <1>2, <1>9, <1>10, <1>12
<1> QED BY <1>10, <1>13, <1>14, <1>15 DEF Ready

(* The second recv and the dispatch: the message is the only one under way *)
(* and becomes the outstanding one if it raises an interrupt.              *)
LEMMA PacedDispatch ==
    ASSUME ReadableMessages, ShortRecv = FALSE, InjIInv, PacedInv, handle_acceptfd_payload,
           UNCHANGED <<drvVars, dmnVars>>,
           signalled' = IF IrqBits(HdrType(buf[4])) # {} THEN Append(signalled, buf[4]) ELSE signalled
    PROVE  PacedInv'
<1>1. PICK c : c = connect_fd
  OBVIOUS
<1>2. c \in Clients /\ InProgress(c) /\ DevIInv /\ ~InProgress(c)'
  BY <1>1 DEF handle_acceptfd_payload, InProgress, InjIInv, DevIInv, DevTypeInv, DevTypeOK, SocketInv
<1> DEFINE s == stream[c]
<1>3. PICK k \in PayloadCounts(c) :
        /\ stream' = [stream EXCEPT ![c] = SubSeq(s, k + 1, Len(s))]
        /\ buf' = Received(s, k, HdrType(buf[4]))
        /\ irq_status' = irq_status \cup IrqBits(HdrType(buf[4]))
  BY <1>1 DEF handle_acceptfd_payload, PayloadCounts, hucdev_raise_irq
<1>4. PICK j \in 1 .. Len(Script[c]) :
        /\ buf[4] = Wd(c, j, 0) /\ k = PW(c, j) /\ Len(s) = PW(c, j)
        /\ \A x \in 1 .. PW(c, j) : s[x] = Wd(c, j, x)
        /\ cpc[c] = "payload" => PW(c, j) = 0 /\ cmsg[c] = j
  BY <1>2, <1>3, PacedRecv DEF PacedInv
<1> DEFINE t == Script[c][j].type
<1>5. HdrType(buf[4]) = t
  BY <1>4 DEF HdrType, Wd
<1>6. PW(c, j) \in Nat /\ s \in Seq(Word)
  BY <1>2, PWType DEF DevIInv, DevTypeInv, HostTypeOK
<1>7. View(c)' = << >>
  <2>1. stream'[c] = SubSeq(s, k + 1, Len(s))
    BY <1>2, <1>3 DEF DevIInv, DevTypeInv, HostTypeOK
  <2>2. SubSeq(s, k + 1, Len(s)) = << >>
    BY <1>4, <1>6
  <2> QED BY <1>2, <2>1, <2>2 DEF View
<1>8. Flying(c)
  <2>1. buf[4] \in Word
    BY WindowAssumption DEF InjIInv, DevIInv, DevTypeInv, DevTypeOK, Slots
  <2>2. <<buf[4]>> \o s # << >>
    BY <1>6, <2>1
  <2> QED BY <1>2, <2>2 DEF Flying, View
<1>9. got \in Seq(Packet) /\ Len(got) \in Nat
  BY DEF InjIInv, DmnTypeOK
<1>10. Len(signalled) = Len(got) /\ ~Outstanding
  BY <1>2, <1>8, <1>9 DEF PacedInv, FlightInv, Outstanding
<1>11. UNCHANGED <<cpc, cmsg, connect_fd, got>>
  BY DEF handle_acceptfd_payload, sockVars, dmnVars
<1>12. \A d \in Clients \ {c} : View(d)' = << >> /\ cpc'[d] # "payload"
  <2> TAKE d \in Clients \ {c}
  <2>1. ~Flying(d)
    BY <1>2, <1>8 DEF PacedInv, FlightInv
  <2>2. stream'[d] = stream[d]
    BY <1>3 DEF InjIInv, DevIInv, DevTypeInv, HostTypeOK
  <2>3. View(d)' = View(d)
    BY <1>1, <1>11, <2>2 DEF View, InProgress
  <2> QED BY <1>11, <2>1, <2>3 DEF Flying
<1>13. \A d \in Clients : InFlight(d)'
  BY <1>4, <1>7, <1>11, <1>12 DEF InFlight
<1>14. \A d \in Clients : Flying(d)' => d = c
  BY <1>12 DEF Flying
<1>15. signalled \in Seq(Word) /\ buf[4] \in Word
  BY WindowAssumption DEF InjIInv, DevIInv, DevTypeInv, DevTypeOK, Slots
<1>16. Resting
  BY <1>10, RestingWhen DEF PacedInv
<1>17. Resting'
  BY <1>16 DEF Resting, drvVars, dmnVars
<1>18. (Resting => ReadInv /\ WokenInv)'
  BY RestingReads, PTL
<1>19. DeliveredIntact' /\ TakenInOrder'
  <2>1. \A i \in 1 .. Len(got) : signalled'[i] = signalled[i]
    BY <1>10, <1>15
  <2> QED BY <1>11, <2>1 DEF PacedInv, ReceiveInv, DeliveredIntact, TakenInOrder
<1>20. irq_status' \subseteq {0, 1} /\ irq_val' \subseteq {0, 1}
  BY <1>3 DEF PacedInv, ReceiveInv, IrqInv, IrqBits, drvVars
<1>21. CASE IrqBits(t) = {}
  <2>1. Len(signalled') = Len(got') /\ ~Outstanding'
    BY <1>5, <1>9, <1>10, <1>11, <1>21 DEF Outstanding
  <2>2. FlightInv'
    BY <1>13, <1>14, <2>1 DEF FlightInv
  <2>3. Calm'
    BY <1>3, <1>5, <1>10, <1>21 DEF PacedInv, ReceiveInv, IrqInv, Calm, drvVars
  <2> QED BY <1>17, <1>18, <1>19, <1>20, <2>1, <2>2, <2>3 DEF PacedInv, ReceiveInv, IrqInv
<1>22. CASE IrqBits(t) # {}
  <2>1. Outstanding' /\ signalled'[Len(signalled')] = buf[4]
    BY <1>5, <1>10, <1>11, <1>15, <1>22 DEF Outstanding
  <2>2. Script[c][j].size \in 1 .. 4 * (Window - 5)
    BY <1>2, <1>22 DEF ReadableMessages
  <2>3. Ready' /\ Latest'
    <3>1. Ready' /\ buf'[4] = buf[4]
      BY <1>2, <1>3, <1>4, <1>5, <2>2, ReadyReceived
    <3> QED BY <2>1, <3>1 DEF Latest
  <2>4. PW(c, j) # 0
    <3> DEFINE z == Script[c][j].size
    <3>1. z \in 1 .. 4 * (Window - 5)
      BY <2>2
    <3> HIDE DEF z
    <3>2. z % (4 * Window) = z
      BY <3>1, WindowAssumption
    <3>3. WordsOf(z) # 0
      BY <3>1, WindowAssumption DEF WordsOf
    <3> QED BY <3>2, <3>3 DEF z, PW, PayloadLen
  <2>5. \A d \in Clients : ~Flying(d)'
    BY <1>4, <1>7, <1>11, <1>12, <2>4 DEF Flying
  <2>6. FlightInv'
    BY <1>13, <2>1, <2>5 DEF FlightInv
  <2>7. IrqInv'
    BY <1>17, <1>20, <2>1 DEF IrqInv, Resting
  <2> QED BY <1>17, <1>18, <1>19, <2>3, <2>6, <2>7 DEF PacedInv, ReceiveInv
<1> QED BY <1>21, <1>22

(* Every step of the device.                                               *)
LEMMA PacedDevice ==
    ASSUME ReadableMessages, ShortRecv = FALSE, InjIInv, PacedInv, Device
    PROVE  PacedInv'
<1>1. UNCHANGED <<drvVars, dmnVars>>
  BY DEF Device
<1>2. CASE handle_listenfd
  <2>1. UNCHANGED <<stream, cpc, cmsg, dev_pc, signalled, got, buf, irq_status>> /\ dev_pc = "idle"
    BY <1>1, <1>2 DEF Device, handle_listenfd, dmnVars, irqVars
  <2> QED BY <1>1, <2>1, ViewsKept, FlightKept, ReceiveKept DEF PacedInv
<1>3. CASE handle_acceptfd_eof
  <2>1. UNCHANGED <<stream, cpc, cmsg, dev_pc, signalled, got, buf, irq_status>> /\ dev_pc = "idle"
    BY <1>1, <1>3 DEF Device, handle_acceptfd_eof, hostVars, dmnVars, irqVars
  <2> QED BY <1>1, <2>1, ViewsKept, FlightKept, ReceiveKept DEF PacedInv
<1>4. CASE handle_acceptfd_header
  <2>1. UNCHANGED signalled
    BY <1>4 DEF Device, handle_acceptfd_header
  <2> QED BY <1>1, <1>4, <2>1, PacedFirstRecv
<1>5. CASE handle_acceptfd_payload
  <2>1. signalled' = IF IrqBits(HdrType(buf[4])) # {} THEN Append(signalled, buf[4]) ELSE signalled
    BY <1>5 DEF Device, handle_acceptfd_payload
  <2> QED BY <1>1, <1>5, <2>1, PacedDispatch
<1> QED BY <1>2, <1>3, <1>4, <1>5 DEF Device, DeviceStep

(* A step of the guest leaves the host and what is under way alone.        *)
LEMMA GuestKept ==
    ASSUME FlightInv, UNCHANGED <<hostVars, connect_fd, dev_pc, buf, signalled, got>>
    PROVE  FlightInv' /\ (Outstanding' <=> Outstanding) /\ (Ready' <=> Ready) /\ (Latest' <=> Latest)
<1>1. \A c \in Clients : /\ View(c)' = View(c)
                         /\ cpc'[c] = "payload" <=> cpc[c] = "payload"
                         /\ cmsg'[c] = cmsg[c]
  BY DEF View, InProgress, hostVars
<1>2. FlightInv'
  BY <1>1, FlightKept
<1> QED BY <1>2 DEF Outstanding, Ready, Latest

(* The interrupt handler: it sets flag once for a message, while the       *)
(* daemon waits for the header.                                            *)
LEMMA PacedIrq ==
    ASSUME PacedInv, Irq
    PROVE  PacedInv'
<1>1. /\ UNCHANGED <<hostVars, connect_fd, dev_pc, buf, signalled, dmnVars>>
      /\ UNCHANGED <<payload_left, rd_pc, rd_off, rd_word>>
  BY DEF Irq, IrqStep, irq_handler_read, irq_handler_wake, irq_handler_ack, BufWriteLower,
         devVars, sockVars
<1>2. UNCHANGED <<got, signalled>>
  BY <1>1 DEF dmnVars
<1>3. FlightInv' /\ (Outstanding' <=> Outstanding) /\ (Ready' <=> Ready) /\ (Latest' <=> Latest)
  BY <1>1, <1>2, GuestKept DEF PacedInv
<1>4. (Outstanding => Ready /\ Latest)' /\ DeliveredIntact' /\ TakenInOrder'
  BY <1>2, <1>3 DEF PacedInv, ReceiveInv, DeliveredIntact, TakenInOrder
<1>5. irq_status \subseteq {0, 1} /\ irq_val \subseteq {0, 1}
  BY DEF PacedInv, ReceiveInv, IrqInv
<1>6. Calm \/ (Outstanding /\ flag = 0 /\ d_pc \in {"idle", "header"})
  BY DEF PacedInv, ReceiveInv, IrqInv
<1>7. UNCHANGED flag => ReadInv' /\ WokenInv'
  BY <1>1, <1>3 DEF PacedInv, ReceiveInv, ReadInv, WokenInv, Copied, dmnVars
<1>8. d_pc' = d_pc
  BY <1>1 DEF dmnVars
<1>9. CASE irq_handler_read
  <2>1. irq_val' = irq_status /\ irq_pc' = "wake" /\ UNCHANGED <<flag, irq_status>> /\ irq_pc = "idle"
    BY <1>9 DEF irq_handler_read, devVars
  <2>2. Calm => Calm'
    BY <2>1 DEF Calm
  <2>3. IrqInv'
    BY <1>3, <1>5, <1>6, <1>8, <2>1, <2>2 DEF IrqInv
  <2> QED BY <1>3, <1>4, <1>7, <2>1, <2>3 DEF PacedInv, ReceiveInv
<1>10. CASE irq_handler_wake
  <2>1. /\ irq_pc = "wake" /\ irq_pc' = "ack" /\ UNCHANGED <<irq_val, irq_status>>
        /\ flag' = FlagFor(irq_val)
    BY <1>10 DEF irq_handler_wake, devVars
  <2>2. CASE 0 \in irq_val
    <3>1. Outstanding /\ flag = 0 /\ d_pc \in {"idle", "header"}
      BY <1>6, <2>1, <2>2 DEF Calm
    <3>2. irq_val \in {{0}, {0, 1}}
      BY <1>5, <2>2
    <3>3. flag' = 2
      BY <2>1, <3>2 DEF FlagFor
    <3>4. Calm'
      BY <2>1, <2>2 DEF Calm
    <3>5. IrqInv'
      BY <1>5, <2>1, <3>4 DEF IrqInv
    <3>6. ReadInv'
      BY <1>1, <1>8, <3>1, <3>3 DEF PacedInv, ReceiveInv, ReadInv
    <3>7. WokenInv'
      BY <1>3, <3>1 DEF WokenInv
    <3> QED BY <1>3, <1>4, <3>5, <3>6, <3>7 DEF PacedInv, ReceiveInv
  <2>3. CASE 0 \notin irq_val
    <3>1. irq_val \notin {{0}, {0, 1}} /\ irq_val # {1, 2, 4}
      BY <1>5, <2>3
    <3>2. flag' = flag
      BY <2>1, <3>1 DEF FlagFor
    <3>3. Calm => Calm'
      BY <2>1, <2>3 DEF Calm
    <3>4. IrqInv'
      BY <1>3, <1>5, <1>6, <1>8, <2>1, <3>2, <3>3 DEF IrqInv
    <3> QED BY <1>3, <1>4, <1>7, <3>2, <3>4 DEF PacedInv, ReceiveInv
  <2> QED BY <2>2, <2>3
<1>11. CASE irq_handler_ack
  <2>1. /\ irq_pc = "ack" /\ irq_pc' = "idle" /\ UNCHANGED <<irq_val, flag>>
        /\ irq_status' = irq_status \ irq_val
    BY <1>11 DEF irq_handler_ack, BufWriteLower, hucdev_lower_irq
  <2>2. Calm => Calm'
    BY <2>1 DEF Calm
  <2>3. IrqInv'
    BY <1>3, <1>5, <1>6, <1>8, <2>1, <2>2 DEF IrqInv
  <2> QED BY <1>3, <1>4, <1>7, <2>1, <2>3 DEF PacedInv, ReceiveInv
<1> QED BY <1>9, <1>10, <1>11 DEF Irq, IrqStep

(* Past its wait huc_read serves the outstanding message, whose interrupt  *)
(* has been taken.                                                         *)
LEMMA ReadServes ==
    ASSUME ReceiveInv, ReadStep
    PROVE  Calm /\ Outstanding /\ Ready
<1>1. flag # 0 \/ d_pc = "payload"
  BY DEF ReceiveInv, ReadInv, ReadStep, huc_read_wait, huc_read_io, huc_read_test,
         huc_read_header, huc_read_payload
<1> QED BY <1>1 DEF ReceiveInv, IrqInv, WokenInv

(* The word huc_read takes from the device is the one it asks for: the     *)
(* offset never wraps.                                                     *)
LEMMA ReadWord ==
    ASSUME InjIInv, CountedInv, Ready,
           \/ rd_off = 4
           \/ d_pc = "payload" /\ Copied /\ rd_off = 5 + Len(d_data)
    PROVE  hucdev_bufmmio_read(rd_off) = buf[rd_off]
<1>1. rd_off \in 4 .. Window - 1
  <2>1. CASE rd_off = 4
    BY <2>1, WindowAssumption
  <2>2. CASE d_pc = "payload" /\ Copied /\ rd_off = 5 + Len(d_data)
    <3>1. d_hdr = buf[4] /\ d_left > 0 /\ 4 * Len(d_data) + d_left = HdrLen(d_hdr)
      BY <2>2 DEF Copied, CountedInv
    <3>2. Len(d_data) \in Nat /\ d_left \in Int
      BY DEF InjIInv, DmnTypeOK
    <3>3. HdrLen(d_hdr) \in 1 .. 4 * (Window - 5)
      BY <3>1 DEF Ready
    <3> QED BY <2>2, <3>1, <3>2, <3>3, WindowAssumption
  <2> QED BY <2>1, <2>2
<1>2. rd_off % Window = rd_off
  BY <1>1, WindowAssumption
<1> QED BY <1>1, <1>2 DEF hucdev_bufmmio_read

(* huc_read.                                                               *)
LEMMA PacedRead ==
    ASSUME InjIInv, CountedInv, PacedInv, Read
    PROVE  PacedInv'
<1>1. UNCHANGED <<hostVars, devVars, dmnVars, signalled, irq_pc, irq_val, rd_off>> /\ ReadStep
  BY DEF Read, ReadStep, huc_read_wait, huc_read_io, huc_read_test, huc_read_header,
         huc_read_payload
<1>2. UNCHANGED <<connect_fd, dev_pc, buf, irq_status>>
  BY <1>1 DEF devVars
<1>3. UNCHANGED <<d_pc, d_hdr, d_left, d_data, got>>
  BY <1>1 DEF dmnVars
<1>4. FlightInv' /\ (Outstanding' <=> Outstanding) /\ (Ready' <=> Ready) /\ (Latest' <=> Latest)
  BY <1>1, <1>2, <1>3, GuestKept DEF PacedInv
<1>5. Calm /\ Outstanding /\ Ready /\ ReadInv
  BY <1>1, ReadServes DEF PacedInv, ReceiveInv
<1>6. Calm' /\ IrqInv'
  BY <1>1, <1>2, <1>5 DEF PacedInv, ReceiveInv, IrqInv, Calm
<1>7. WokenInv' /\ DeliveredIntact' /\ TakenInOrder'
  BY <1>1, <1>3, <1>4, <1>5 DEF WokenInv, PacedInv, ReceiveInv, DeliveredIntact, TakenInOrder
<1>8. Copied' <=> Copied
  BY <1>2, <1>3 DEF Copied
<1>9. ReadInv'
  <2>1. CASE huc_read_wait
    BY <1>1, <1>2, <1>3, <1>5, <1>8, <2>1 DEF huc_read_wait, ReadInv
  <2>2. CASE huc_read_io
    <3>1. rd_word' = buf[rd_off]
      <4>1. rd_off = 4 \/ (d_pc = "payload" /\ Copied /\ rd_off = 5 + Len(d_data))
        BY <1>5, <2>2 DEF huc_read_io, ReadInv
      <4> QED BY <1>5, <2>2, <4>1, ReadWord DEF huc_read_io
    <3> QED BY <1>1, <1>2, <1>3, <1>5, <1>8, <2>2, <3>1 DEF huc_read_io, ReadInv
  <2>3. CASE huc_read_test
    BY <1>1, <1>2, <1>3, <1>5, <1>8, <2>3 DEF huc_read_test, ReadInv
  <2>4. CASE huc_read_header
    BY <1>1, <1>2, <1>3, <1>5, <1>8, <2>4 DEF huc_read_header, ReadInv
  <2>5. CASE huc_read_payload
    BY <1>1, <1>2, <1>3, <1>5, <1>8, <2>5 DEF huc_read_payload, ReadInv
  <2> QED BY <1>1, <2>1, <2>2, <2>3, <2>4, <2>5 DEF ReadStep
<1> QED BY <1>4, <1>5, <1>6, <1>7, <1>9 DEF PacedInv, ReceiveInv

(* Counting down by whole words ends at the number of words.               *)
LEMMA WordsCounted ==
    ASSUME NEW n \in Nat, NEW left \in Int, left > -4, left <= 0
    PROVE  WordsOf(4 * n + left) = n
BY DEF WordsOf

(* main takes the outstanding message.                                     *)
LEMMA PacedTaken ==
    ASSUME InjIInv, CountedInv, PacedInv, dispatch, UNCHANGED signalled
    PROVE  PacedInv'
<1>1. /\ d_pc = "dispatch" /\ d_pc' = "idle" /\ got' = Append(got, [hdr |-> d_hdr, data |-> d_data])
      /\ UNCHANGED <<hostVars, devVars, drvVars>>
  BY DEF dispatch
<1>2. Outstanding /\ Ready /\ Calm /\ Copied /\ rd_pc = "none" /\ flag = 0 /\ d_left <= 0
  BY <1>1 DEF PacedInv, ReceiveInv, WokenInv, IrqInv, ReadInv
<1>3. got \in Seq(Packet) /\ d_data \in Seq(Word) /\ d_left \in Int
  BY DEF InjIInv, DmnTypeOK
<1>4. Len(got) \in Nat /\ Len(got') = Len(got) + 1
  BY <1>1, <1>3
<1>5. Len(signalled') = Len(got')
  BY <1>2, <1>4 DEF Outstanding
<1>6. ~Outstanding'
  BY <1>4, <1>5 DEF Outstanding
<1>7. \A c \in Clients : ~Flying(c)
  BY <1>2, <1>4 DEF PacedInv, FlightInv, Outstanding
<1>8. \A c \in Clients : (Flying(c)' <=> Flying(c)) /\ (InFlight(c)' <=> InFlight(c))
  BY <1>1 DEF Flying, InFlight, View, InProgress, hostVars, devVars
<1>9. FlightInv'
  BY <1>5, <1>7, <1>8 DEF PacedInv, FlightInv
<1>10. IrqInv'
  BY <1>1, <1>2 DEF PacedInv, ReceiveInv, IrqInv, Calm, devVars, drvVars
<1>11. ReadInv' /\ WokenInv'
  BY <1>1, <1>2 DEF ReadInv, WokenInv, drvVars
<1>12. d_data = Sent(d_hdr).data
  <2>1. d_hdr = buf[4] /\ 4 * Len(d_data) + d_left = buf[4].msg.size /\ d_left > -4
    BY <1>1, <1>2 DEF CountedInv, Copied, Ready
  <2>2. Len(d_data) \in Nat
    BY <1>3
  <2>3. WordsOf(buf[4].msg.size) = Len(d_data)
    <3> HIDE DEF Sent
    <3>1. WordsOf(4 * Len(d_data) + d_left) = Len(d_data)
      BY <1>2, <1>3, <2>1, <2>2, WordsCounted
    <3> QED BY <2>1, <3>1
  <2>4. \A k \in 1 .. Len(d_data) : d_data[k] = Sent(d_hdr).data[k]
    BY <1>2, <2>1, <2>3 DEF Copied, Ready
  <2>5. Sent(d_hdr).data = [k \in 1 .. Len(d_data) |-> Sent(d_hdr).data[k]]
    BY <2>1, <2>3 DEF Sent
  <2>6. d_data = [k \in 1 .. Len(d_data) |-> d_data[k]]
    BY <1>3
  <2> QED BY <2>4, <2>5, <2>6
<1>13. DeliveredIntact' /\ TakenInOrder'
  <2>1. [hdr |-> d_hdr, data |-> d_data] = Sent(d_hdr)
    <3>1. Sent(d_hdr) = [hdr |-> d_hdr, data |-> Sent(d_hdr).data]
      BY DEF Sent
    <3> QED BY <1>12, <3>1
  <2>2. d_hdr.pos = 0
    BY <1>2 DEF Copied, Ready
  <2>3. Sent(d_hdr).hdr = d_hdr
    BY DEF Sent
  <2>4. ASSUME NEW i \in DOMAIN got'
        PROVE  /\ got'[i].hdr.pos = 0 /\ got'[i] = Sent(got'[i].hdr)
               /\ got'[i] = Sent(signalled[i])
    <3>1. CASE i \in DOMAIN got
      <4>1. got'[i] = got[i]
        BY <1>1, <1>3, <3>1
      <4> QED BY <1>3, <3>1, <4>1 DEF PacedInv, ReceiveInv, DeliveredIntact, TakenInOrder
    <3>2. CASE i \notin DOMAIN got
      <4>1. got'[i] = [hdr |-> d_hdr, data |-> d_data]
        BY <1>1, <1>3, <3>2
      <4>2. got'[i] = Sent(d_hdr)
        BY <2>1, <4>1
      <4>3. i = Len(signalled)
        BY <1>1, <1>2, <1>3, <3>2 DEF Outstanding
      <4>4. signalled[i] = d_hdr
        BY <1>2, <4>3 DEF PacedInv, ReceiveInv, Latest, Copied
      <4> QED BY <2>2, <2>3, <4>2, <4>4
    <3> QED BY <3>1, <3>2
  <2>5. DOMAIN got' = 1 .. Len(got')
    BY <1>1, <1>3
  <2> QED BY <2>4, <2>5 DEF DeliveredIntact, TakenInOrder
<1> QED BY <1>6, <1>9, <1>10, <1>11, <1>13 DEF PacedInv, ReceiveInv

(* recv_bytecode and main.                                                 *)
LEMMA PacedDaemon ==
    ASSUME InjIInv, CountedInv, PacedInv, Daemon
    PROVE  PacedInv'
<1>1. CASE dispatch
  BY <1>1, PacedTaken DEF Daemon
<1>2. CASE recv_seek \/ recv_header \/ recv_payload
  <2>1. UNCHANGED <<hostVars, devVars, flag, payload_left, irq_pc, irq_val, rd_word, got, signalled>>
    BY <1>2 DEF Daemon, recv_seek, recv_header, recv_payload
  <2>2. UNCHANGED <<connect_fd, dev_pc, buf, irq_status>>
    BY <2>1 DEF devVars
  <2>3. FlightInv' /\ (Outstanding' <=> Outstanding) /\ (Ready' <=> Ready) /\ (Latest' <=> Latest)
    BY <2>1, <2>2, GuestKept DEF PacedInv
  <2>4. (Outstanding => Ready /\ Latest)' /\ DeliveredIntact' /\ TakenInOrder'
    BY <2>1, <2>3 DEF PacedInv, ReceiveInv, DeliveredIntact, TakenInOrder
  <2>5. irq_status' \subseteq {0, 1} /\ irq_val' \subseteq {0, 1} /\ (Calm' <=> Calm)
    BY <2>1, <2>2 DEF PacedInv, ReceiveInv, IrqInv, Calm
  <2>6. CASE recv_seek
    <3>1. d_pc = "idle" /\ d_pc' = "header" /\ rd_pc' = "wait" /\ rd_off' = 4
      BY <2>6 DEF recv_seek
    <3>2. ReadInv'
      BY <2>1, <3>1 DEF PacedInv, ReceiveInv, ReadInv
    <3>3. WokenInv' /\ IrqInv'
      BY <2>1, <2>3, <2>5, <3>1 DEF PacedInv, ReceiveInv, WokenInv, IrqInv
    <3> QED BY <2>3, <2>4, <3>2, <3>3 DEF PacedInv, ReceiveInv
  <2>7. CASE recv_header
    <3>1. d_pc = "header" /\ rd_pc = "ret"
      BY <2>7 DEF recv_header
    <3>2. flag = 1 /\ rd_word = buf[4] /\ payload_left = HdrLen(buf[4])
      BY <3>1 DEF PacedInv, ReceiveInv, ReadInv
    <3>3. Outstanding /\ Ready /\ Calm
      BY <3>2 DEF PacedInv, ReceiveInv, WokenInv, IrqInv
    <3>4. HdrLen(buf[4]) > 0
      BY <3>3, WindowAssumption DEF Ready
    <3>5. /\ d_hdr' = buf[4] /\ d_left' = HdrLen(buf[4]) /\ d_data' = << >> /\ rd_off' = 5
          /\ d_pc' = "payload" /\ rd_pc' = "wait"
      BY <2>7, <3>2, <3>4 DEF recv_header
    <3>6. Copied' /\ Len(d_data') = 0
      BY <2>2, <3>5 DEF Copied
    <3>7. ReadInv'
      BY <2>1, <3>2, <3>5, <3>6 DEF ReadInv
    <3>8. WokenInv' /\ IrqInv'
      BY <2>3, <2>5, <3>3 DEF WokenInv, IrqInv
    <3> QED BY <2>3, <2>4, <3>7, <3>8 DEF PacedInv, ReceiveInv
  <2>8. CASE recv_payload
    <3>1. /\ d_pc = "payload" /\ rd_pc = "ret" /\ d_data' = Append(d_data, rd_word)
          /\ d_left' = d_left - 4 /\ rd_off' = rd_off + 1 /\ d_hdr' = d_hdr
      BY <2>8 DEF recv_payload
    <3>2. /\ Copied /\ rd_off = 5 + Len(d_data) /\ payload_left = d_left - 4 /\ rd_word = buf[rd_off]
          /\ flag = IF payload_left <= 0 THEN 0 ELSE 1
      BY <3>1 DEF PacedInv, ReceiveInv, ReadInv
    <3>3. Outstanding /\ Calm
      BY <3>1 DEF PacedInv, ReceiveInv, WokenInv, IrqInv
    <3>4. d_data \in Seq(Word) /\ rd_word \in Word /\ d_left \in Int
      BY DEF InjIInv, DmnTypeOK, DrvTypeOK
    <3>5. /\ Len(d_data) \in Nat /\ Len(d_data') = Len(d_data) + 1
          /\ \A k \in 1 .. Len(d_data) : d_data'[k] = d_data[k]
          /\ d_data'[Len(d_data) + 1] = rd_word
      BY <3>1, <3>4
    <3>6. Copied'
      <4>1. ASSUME NEW k \in 1 .. Len(d_data')
            PROVE  d_data'[k] = buf[4 + k]
        <5>1. CASE k \in 1 .. Len(d_data)
          BY <3>2, <3>5, <5>1 DEF Copied
        <5>2. CASE k \notin 1 .. Len(d_data)
          <6>1. k = Len(d_data) + 1 /\ 4 + k = rd_off
            BY <3>2, <3>5, <5>2
          <6> QED BY <3>2, <3>5, <6>1
        <5> QED BY <5>1, <5>2
      <4> QED BY <2>2, <3>1, <3>2, <4>1 DEF Copied
    <3>7. rd_off' = 5 + Len(d_data') /\ payload_left' = d_left' /\ d_left' \in Int
      BY <2>1, <3>1, <3>2, <3>4, <3>5
    <3>8. CASE d_left' > 0
      <4>1. d_pc' = "payload" /\ rd_pc' = "wait" /\ flag' = 1
        BY <2>1, <2>8, <3>1, <3>2, <3>7, <3>8 DEF recv_payload
      <4>2. ReadInv'
        BY <3>6, <3>7, <4>1 DEF ReadInv
      <4> QED BY <2>3, <2>4, <2>5, <3>3, <4>2 DEF PacedInv, ReceiveInv, WokenInv, IrqInv
    <3>9. CASE ~(d_left' > 0)
      <4>1. d_pc' = "dispatch" /\ rd_pc' = "none" /\ flag' = 0 /\ d_left' <= 0
        BY <2>1, <2>8, <3>1, <3>2, <3>7, <3>9 DEF recv_payload
      <4>2. ReadInv'
        BY <3>6, <4>1 DEF ReadInv
      <4> QED BY <2>3, <2>4, <2>5, <3>3, <4>2 DEF PacedInv, ReceiveInv, WokenInv, IrqInv
    <3> QED BY <3>8, <3>9
  <2> QED BY <1>2, <2>6, <2>7, <2>8
<1> QED BY <1>1, <1>2 DEF Daemon, DaemonStep

(* The invariant of a paced host is inductive.                             *)
LEMMA PacedStep ==
    ASSUME PacedHost, ReadableMessages, ShortRecv = FALSE
    PROVE  InjIInv /\ CountedInv /\ PacedInv /\ [Next]_allVars => PacedInv'
<1> SUFFICES ASSUME InjIInv, CountedInv, PacedInv, [Next]_allVars
             PROVE  PacedInv'
  OBVIOUS
<1>1. ASSUME NEW c \in Clients, PacedClient(c)
      PROVE  PacedInv'
  BY <1>1, PacedClientStep
<1>2. CASE Device
  BY <1>2, PacedDevice
<1>3. CASE Irq
  BY <1>3, PacedIrq
<1>4. CASE Read
  BY <1>4, PacedRead
<1>5. CASE Daemon
  BY <1>5, PacedDaemon
<1>6. CASE UNCHANGED allVars
  <2>1. UNCHANGED <<hostVars, connect_fd, dev_pc, buf, signalled, got, irq_status, drvVars, dmnVars>>
    BY <1>6 DEF allVars, devVars, dmnVars
  <2> QED BY <2>1, GuestKept, ReceiveKept DEF PacedInv
<1> QED BY <1>1, <1>2, <1>3, <1>4, <1>5, <1>6 DEF Next

(* It holds at the start.                                                  *)
LEMMA PacedInit == Init => PacedInv
<1> SUFFICES ASSUME Init
             PROVE  PacedInv
  OBVIOUS
<1>1. \A c \in Clients : View(c) = << >> /\ cpc[c] # "payload"
  BY DEF Init, HostInit, DevInit, View, InProgress
<1>2. Len(signalled) = 0 /\ Len(got) = 0
  BY DEF Init, DmnInit
<1>3. ~Outstanding /\ FlightInv
  BY <1>1, <1>2 DEF FlightInv, InFlight, Flying, Outstanding
<1>4. IrqInv /\ Resting
  BY DEF Init, DevInit, DrvInit, DmnInit, IrqInv, Calm, Resting
<1>5. DeliveredIntact /\ TakenInOrder
  BY DEF Init, DmnInit, DeliveredIntact, TakenInOrder
<1> QED BY <1>3, <1>4, <1>5, RestingReads DEF PacedInv, ReceiveInv

(* At every moment.                                                        *)
LEMMA PacedInvariant ==
    ASSUME PacedHost, ReadableMessages, ShortRecv = FALSE
    PROVE  Spec => []PacedInv
BY PacedInit, PacedStep, InjIInvariant, CountedInvariant, PTL DEF Spec

(* A host that waits for its last message to be consumed loses and mixes   *)
(* nothing: for any clients and scripts whose payloads the guest can read, *)
(* every program main dispatches is a file the host sent, whole, although  *)
(* handle_acceptfd, irq_handler and huc_read share the buffer and flag     *)
(* without a lock, and although a line may be shared with other devices.   *)
THEOREM DeliveredIntactCorrect ==
    ASSUME PacedHost, ReadableMessages, ShortRecv = FALSE
    PROVE  Spec => []DeliveredIntact
<1>1. PacedInv => DeliveredIntact
  BY DEF PacedInv, ReceiveInv
<1> QED BY <1>1, PacedInvariant, PTL

(* Under the same conditions huc_read takes for a header exactly the word  *)
(* recv_bytecode takes for one.                                            *)
THEOREM DriverFollowsCorrect ==
    ASSUME PacedHost, ReadableMessages, ShortRecv = FALSE
    PROVE  Spec => []DriverFollowsDaemon
<1>1. PacedInv => DriverFollowsDaemon
  BY DEF PacedInv, ReceiveInv, ReadInv, DriverFollowsDaemon
<1> QED BY <1>1, PacedInvariant, PTL

(* And payload_left of the driver is payload_left of the daemon.           *)
THEOREM SameCountCorrect ==
    ASSUME PacedHost, ReadableMessages, ShortRecv = FALSE
    PROVE  Spec => []SameCount
<1>1. PacedInv => SameCount
  BY DEF PacedInv, ReceiveInv, ReadInv, SameCount
<1> QED BY <1>1, PacedInvariant, PTL

(* The abstract service, at every pace: Service of HucInjection maps only  *)
(* the quiet one, because only there every message arrives in the end.     *)
Delivery == INSTANCE InjectionService WITH
    Packets <- Packets, submitted <- Submitted, delivered <- got

(* A message signalled is submitted.                                       *)
LEMMA SubmittedAppend ==
    ASSUME signalled \in Seq(Word), NEW w \in Word, signalled' = Append(signalled, w)
    PROVE  Submitted' = Append(Submitted, Sent(w))
<1> DEFINE n == Len(signalled)
<1>1. /\ n \in Nat /\ DOMAIN signalled = 1 .. n /\ DOMAIN signalled' = 1 .. n + 1
      /\ \A i \in 1 .. n : signalled'[i] = signalled[i]
      /\ signalled'[n + 1] = w
  OBVIOUS
<1> HIDE DEF n
<1>2. Submitted = [i \in 1 .. n |-> Sent(signalled[i])]
  BY <1>1 DEF Submitted
<1>3. Submitted' = [i \in 1 .. n + 1 |-> Sent(signalled'[i])]
  BY <1>1 DEF Submitted
<1> DEFINE s == [i \in 1 .. n |-> Sent(signalled[i])]
<1>4. Append(s, Sent(w)) = [i \in 1 .. n + 1 |-> IF i = n + 1 THEN Sent(w) ELSE s[i]]
  BY <1>1
<1>5. \A i \in 1 .. n + 1 : Sent(signalled'[i]) = IF i = n + 1 THEN Sent(w) ELSE s[i]
  BY <1>1
<1> QED BY <1>2, <1>3, <1>4, <1>5

(* Every step of a paced host's path is a Submit, a Deliver or neither.    *)
LEMMA DeliveryStep ==
    ASSUME ShortRecv = FALSE
    PROVE  InjIInv /\ PacedInv /\ PacedInv' /\ [Next]_allVars => [Delivery!Next]_<<Submitted, got>>
<1> SUFFICES ASSUME InjIInv, PacedInv, PacedInv', [Next]_allVars
             PROVE  [Delivery!Next]_<<Submitted, got>>
  OBVIOUS
<1>1. ASSUME UNCHANGED <<signalled, got>>
      PROVE  UNCHANGED <<Submitted, got>>
  BY <1>1 DEF Submitted
<1>2. CASE (\E c \in Clients : PacedClient(c)) \/ Irq \/ Read \/ UNCHANGED allVars
  BY <1>1, <1>2 DEF PacedClient, Irq, Read, allVars, dmnVars
<1>3. CASE Device
  <2>1. UNCHANGED got
    BY <1>3 DEF Device, dmnVars
  <2>2. CASE dev_pc = "payload" /\ IrqBits(HdrType(buf[4])) # {}
    <3>1. PICK c : c = connect_fd
      OBVIOUS
    <3>2. handle_acceptfd_payload
      BY <1>3, <2>2 DEF Device, DeviceStep, handle_listenfd, handle_acceptfd_eof, handle_acceptfd_header
    <3>3. c \in Clients /\ InProgress(c)
      BY <2>2, <3>1 DEF InProgress, InjIInv, DevIInv, DevTypeInv, DevTypeOK, SocketInv
    <3>4. PICK k \in PayloadCounts(c) : TRUE
      BY <3>1, <3>2 DEF handle_acceptfd_payload, PayloadCounts
    <3>5. PICK j \in 1 .. Len(Script[c]) : buf[4] = Wd(c, j, 0)
      BY <3>3, <3>4, PacedRecv DEF PacedInv
    <3>6. buf[4] = HeaderWord(Script[c][j])
      BY <3>5 DEF Wd, HeaderWord
    <3>7. Sent(buf[4]) \in Packets
      <4>1. j \in DOMAIN Script[c]
        BY <3>3, <3>5, HostAssumption
      <4> QED BY <3>3, <3>6, <4>1 DEF Packets
    <3>8. Submitted' = Append(Submitted, Sent(buf[4]))
      <4>1. signalled' = Append(signalled, buf[4]) /\ signalled \in Seq(Word)
        BY <1>3, <2>2 DEF Device, InjIInv
      <4>2. buf[4] \in Word
        BY WindowAssumption DEF InjIInv, DevIInv, DevTypeInv, DevTypeOK, Slots
      <4> QED BY <4>1, <4>2, SubmittedAppend
    <3> QED BY <2>1, <3>7, <3>8 DEF Delivery!Next, Delivery!Submit
  <2>3. CASE ~(dev_pc = "payload" /\ IrqBits(HdrType(buf[4])) # {})
    BY <1>1, <1>3, <2>1, <2>3 DEF Device
  <2> QED BY <2>2, <2>3
<1>4. CASE Daemon
  <2>1. UNCHANGED signalled
    BY <1>4 DEF Daemon
  <2>2. CASE dispatch
    <3> DEFINE p == [hdr |-> d_hdr, data |-> d_data]
    <3>1. d_pc = "dispatch" /\ got' = Append(got, p)
      BY <2>2 DEF dispatch
    <3>2. Outstanding
      BY <3>1 DEF PacedInv, ReceiveInv, WokenInv
    <3>3. got \in Seq(Packet) /\ signalled \in Seq(Word)
      BY DEF InjIInv, DmnTypeOK
    <3>4. /\ Len(got) \in Nat /\ Len(got') = Len(got) + 1 /\ got'[Len(got) + 1] = p
          /\ DOMAIN signalled = 1 .. Len(signalled) /\ Len(signalled) = Len(got) + 1
      <4> HIDE DEF p
      <4> QED BY <3>1, <3>2, <3>3 DEF Outstanding
    <3>5. p = Sent(signalled[Len(got) + 1])
      <4>1. TakenInOrder'
        BY DEF PacedInv, ReceiveInv
      <4>2. Len(got) + 1 \in 1 .. Len(got')
        BY <3>4
      <4> HIDE DEF p
      <4> QED BY <2>1, <3>4, <4>1, <4>2 DEF TakenInOrder
    <3> HIDE DEF p
    <3>6. Submitted[Len(got) + 1] = p /\ Len(Submitted) = Len(signalled)
      BY <3>4, <3>5 DEF Submitted
    <3>7. Len(got) < Len(Submitted)
      BY <3>4, <3>6
    <3> QED BY <2>1, <3>1, <3>6, <3>7 DEF Delivery!Next, Delivery!Deliver, Submitted
  <2>3. CASE recv_seek \/ recv_header \/ recv_payload
    BY <1>1, <2>1, <2>3 DEF recv_seek, recv_header, recv_payload
  <2> QED BY <1>4, <2>2, <2>3 DEF Daemon, DaemonStep
<1> QED BY <1>2, <1>3, <1>4 DEF Next

(* The path of a host that waits for its last message to be consumed       *)
(* refines the abstract service but for its liveness: what the device      *)
(* signals (handle_acceptfd) is delivered to main whole, once and in       *)
(* order, and nothing else is.                                             *)
THEOREM DeliveryCorrect ==
    ASSUME PacedHost, ReadableMessages, ShortRecv = FALSE
    PROVE  Spec => Delivery!InOrder
<1>1. Init => Delivery!Init
  BY DEF Init, DmnInit, Submitted, Delivery!Init
<1> QED BY <1>1, DeliveryStep, InjIInvariant, PacedInvariant, PTL DEF Spec, Delivery!InOrder

=============================================================================
