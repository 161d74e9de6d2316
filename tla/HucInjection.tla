---------------------------- MODULE HucInjection ----------------------------
(***************************************************************************)
(* The whole injection path: host clients, device, driver and the receive  *)
(* loop of guestend/daemon.c (recv_bytecode and the dispatch in main).     *)
(* What main does with a received program is the module DaemonLoader.      *)
(***************************************************************************)
EXTENDS HucDriver

CONSTANT
    Paces  \* when the host sends its next message: "none" at any time,
           \* "consumed" once the daemon has received the previous one,
           \* "quiet" once the interrupt handler has finished with it as well

ASSUME PaceAssumption == Paces \subseteq {"none", "consumed", "quiet"}

VARIABLES
    pace,     \* the pace of this behaviour, a member of Paces
    d_pc,     \* recv_bytecode: "idle", "header", "payload"; "dispatch" in main
    d_hdr,    \* mymsg.header
    d_left,   \* payload_left of recv_bytecode, in bytes
    d_data,   \* mymsg.payload, the words read so far
    got,      \* history: the messages main has dispatched
    signalled \* history: header words of the messages the device has signalled

dmnVars == <<d_pc, d_hdr, d_left, d_data, got, pace>>
allVars == <<hostVars, devVars, drvVars, dmnVars, signalled>>

Packet == [hdr : Word, data : Seq(Word)]

DmnTypeOK ==
    /\ pace \in Paces
    /\ d_pc \in {"idle", "header", "payload", "dispatch"}
    /\ d_hdr \in Word
    /\ d_left \in Int
    /\ d_data \in Seq(Word)
    /\ got \in Seq(Packet)

DmnInit ==
    /\ pace \in Paces
    /\ d_pc = "idle"
    /\ d_hdr = BlankWord
    /\ d_left = 0
    /\ d_data = << >>
    /\ got = << >>

-----------------------------------------------------------------------------
(* recv_bytecode: lseek(16), then read the header.                         *)
recv_seek ==
    /\ d_pc = "idle"
    /\ rd_off' = 4
    /\ rd_pc' = "wait"
    /\ d_pc' = "header"
    /\ UNCHANGED <<hostVars, devVars, flag, payload_left, irq_pc, irq_val, rd_word,
                   d_hdr, d_left, d_data, got, pace>>

(* Faulty variant: the second lseek is missing.                            *)
recv_header_NoSeek ==
    /\ d_pc = "header" /\ rd_pc = "ret"
    /\ d_hdr' = rd_word
    /\ d_left' = HdrLen(rd_word)
    /\ d_data' = << >>
    /\ IF d_left' > 0 THEN d_pc' = "payload" /\ rd_pc' = "wait"
                      ELSE d_pc' = "dispatch" /\ rd_pc' = "none"
    /\ UNCHANGED <<hostVars, devVars, flag, payload_left, irq_pc, irq_val, rd_off, rd_word, got, pace>>

(* The header has been read: lseek(20) and, if there is a payload, read    *)
(* its first word.                                                         *)
recv_header ==
    /\ d_pc = "header" /\ rd_pc = "ret"
    /\ d_hdr' = rd_word
    /\ d_left' = HdrLen(rd_word)
    /\ d_data' = << >>
    /\ rd_off' = 5
    /\ IF d_left' > 0 THEN d_pc' = "payload" /\ rd_pc' = "wait"
                      ELSE d_pc' = "dispatch" /\ rd_pc' = "none"
    /\ UNCHANGED <<hostVars, devVars, flag, payload_left, irq_pc, irq_val, rd_word, got, pace>>

(* Faulty variant: reads 8 bytes at a time.                                *)
recv_payload_EightBytes ==
    /\ d_pc = "payload" /\ rd_pc = "ret"
    /\ d_data' = d_data \o <<rd_word, BlankWord>>
    /\ d_left' = d_left - 8
    /\ rd_off' = rd_off + 1
    /\ IF d_left' > 0 THEN d_pc' = "payload" /\ rd_pc' = "wait"
                      ELSE d_pc' = "dispatch" /\ rd_pc' = "none"
    /\ UNCHANGED <<hostVars, devVars, flag, payload_left, irq_pc, irq_val, rd_word,
                   d_hdr, got, pace>>

(* A payload word has been read (the driver has advanced the offset).      *)
recv_payload ==
    /\ d_pc = "payload" /\ rd_pc = "ret"
    /\ d_data' = Append(d_data, rd_word)
    /\ d_left' = d_left - 4
    /\ rd_off' = rd_off + 1
    /\ IF d_left' > 0 THEN d_pc' = "payload" /\ rd_pc' = "wait"
                      ELSE d_pc' = "dispatch" /\ rd_pc' = "none"
    /\ UNCHANGED <<hostVars, devVars, flag, payload_left, irq_pc, irq_val, rd_word,
                   d_hdr, got, pace>>

(* main takes the message and calls recv_bytecode again.                   *)
dispatch ==
    /\ d_pc = "dispatch"
    /\ got' = Append(got, [hdr |-> d_hdr, data |-> d_data])
    /\ d_pc' = "idle"
    /\ UNCHANGED <<hostVars, devVars, drvVars, d_hdr, d_left, d_data, pace>>

DaemonStep == recv_seek \/ recv_header \/ recv_payload \/ dispatch

-----------------------------------------------------------------------------
Consumed ==
    /\ \A c \in Clients : stream[c] = << >> /\ cpc[c] # "payload"
    /\ dev_pc = "idle"
    /\ Len(got) = Len(signalled)

Quiet == Consumed /\ irq_status = {} /\ irq_pc = "idle" /\ flag = 0

MaySend == CASE pace = "none"     -> TRUE
             [] pace = "consumed" -> Consumed
             [] pace = "quiet"    -> Quiet

PacedClient(c) ==
    /\ dev_pc # "abort"
    /\ Connect(c, life = "up") \/ (SendHeader(c) /\ MaySend) \/ SendPayload(c) \/ Close(c)
    /\ UNCHANGED <<devVars, drvVars, dmnVars, signalled>>

(* A handler that dispatches a message with an interrupt signals it.       *)
Device ==
    /\ DeviceStep
    /\ signalled' = IF dev_pc = "payload" /\ IrqBits(HdrType(buf[4])) # {}
                    THEN Append(signalled, buf[4]) ELSE signalled
    /\ UNCHANGED <<drvVars, dmnVars>>

Irq    == IrqStep /\ UNCHANGED <<dmnVars, signalled>>
Read   == ReadStep /\ UNCHANGED <<dmnVars, signalled>>
Daemon == DaemonStep /\ UNCHANGED signalled

Init == HostInit /\ DevInit /\ DrvInit /\ DmnInit /\ signalled = << >>

Next ==
    \/ \E c \in Clients : PacedClient(c)
    \/ Device
    \/ Irq
    \/ Read
    \/ Daemon

(* The main loop, the interrupt handler and the daemon are scheduled for   *)
(* ever, and a client program runs to its end.                             *)
Spec ==
    /\ Init /\ [][Next]_allVars
    /\ \A c \in Clients : WF_allVars(PacedClient(c))
    /\ WF_allVars(Device)
    /\ WF_allVars(Irq)
    /\ WF_allVars(Read)
    /\ WF_allVars(Daemon)

-----------------------------------------------------------------------------
(* Properties.                                                             *)

TypeOK == DevTypeInv /\ DrvTypeOK /\ DmnTypeOK /\ signalled \in Seq(Word)

(* The packet the host sent whose header is w: the whole file, with the    *)
(* vCPU count the device adds to an affinity message.                      *)
Sent(w) ==
    [hdr  |-> w,
     data |-> [k \in 1 .. WordsOf(w.msg.size) |->
                 [msg |-> w.msg, pos |-> k,
                  n |-> IF k = 1 /\ w.msg.type = PROGRAM_INJECTION_AFFINITY THEN NVcpu ELSE 0]]]

Submitted == [i \in DOMAIN signalled |-> Sent(signalled[i])]

(* README.md "save the bytecode the host sent and load it": every program  *)
(* the daemon takes is exactly a file the host sent, never a mixture of    *)
(* two messages or a part of one (recv_bytecode against handle_acceptfd).  *)
DeliveredIntact == \A i \in DOMAIN got : got[i].hdr.pos = 0 /\ got[i] = Sent(got[i].hdr)

(* huc-driver.c:28 "flag = 1: read payload, flag = 2: read header": the    *)
(* driver takes the word at offset 16 for a header and every later word    *)
(* for payload, as the daemon does.                                        *)
DriverFollowsDaemon ==
    /\ rd_pc = "header" => d_pc = "header"
    /\ rd_pc = "payload" => d_pc = "payload"

(* Driver and daemon count the same payload: neither blocks waiting for    *)
(* words the other does not expect (payload_left of huc_read and of        *)
(* recv_bytecode).                                                         *)
SameCount == d_pc = "payload" /\ rd_pc \in {"wait", "io", "test", "payload"}
                => payload_left = d_left

(* recv_bytecode stores words into malloc(payload_len) (daemon.c:56, 73):  *)
(* when payload_len is no multiple of 4 the last word ends past the block, *)
(* by less than a word and never by more, although the count is a signed   *)
(* number that steps over 0.                                               *)
OverrunBelowWord ==
    d_pc \in {"payload", "dispatch"} => 4 * Len(d_data) < HdrLen(d_hdr) + 4

(* Every interrupt the device raises is acknowledged in the end: with      *)
(* finitely many messages the line goes low and stays low.                 *)
IrqDrains == <>[](~irq_line)

(* hucdev.c:429 "an interrupt is raised for the guest driver": the n-th    *)
(* message the device signals is eventually received by the daemon.        *)
EventuallyDelivered ==
    \A n \in 1 .. 3 : (Len(signalled) >= n) ~> (Len(got) >= n)

(* Every packet the clients send.                                          *)
Packets ==
    {Sent(HeaderWord(m)) : m \in UNION {{Script[c][i] : i \in DOMAIN Script[c]} : c \in Clients}}

Service == INSTANCE InjectionService WITH
    Packets   <- Packets,
    submitted <- IF pace = "quiet" THEN Submitted ELSE << >>,
    delivered <- IF pace = "quiet" THEN got ELSE << >>

(* A host that waits for quiet gets the service: what the device signals   *)
(* is delivered whole, once, in order and eventually.                      *)
ImplementsService == Service!Spec

=============================================================================
