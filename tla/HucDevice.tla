----------------------------- MODULE HucDevice ------------------------------
(***************************************************************************)
(* The QEMU device of qemu-patch/hucdev.c: a TCP server run by fd handlers *)
(* of the main loop, a message buffer and an interrupt status exposed to   *)
(* the guest through BAR1, and the affinity of the vCPU threads.           *)
(*                                                                         *)
(* Every handler runs under the big QEMU lock, so handlers are atomic with *)
(* respect to each other.  handle_acceptfd is the exception that matters:  *)
(* it blocks in a second recv, lock held, between the header and the       *)
(* payload.  It is two actions here, and dev_pc = "payload" excludes every *)
(* guest access to the device.                                             *)
(***************************************************************************)
EXTENDS HucHost, VcpuPin

CONSTANTS
    NoClient,   \* connect_fd = -1
    MaxFds,     \* descriptors QEMU may open for connections (RLIMIT_NOFILE)
    ShortRecv,  \* whether the payload may reach the device in several pieces
    SndBuf,     \* words the kernel buffers for a client that does not read
    PortTaken,  \* whether make_socket or listen may fail in huc_realize
    MayUnplug   \* whether the device may be unplugged from the running guest

ASSUME DeviceAssumption ==
    /\ NoClient \notin Clients
    /\ MaxFds \in Nat
    /\ ShortRecv \in BOOLEAN
    /\ SndBuf \in Nat
    /\ PortTaken \in BOOLEAN /\ MayUnplug \in BOOLEAN

VARIABLES
    connect_fd,  \* the accepted client, or NoClient
    watched,     \* which fd has a read handler: "listen", "connect" or "none"
    fds,         \* connection descriptors opened so far: none is ever closed
    life,        \* "up", "deaf" (realized without a listening socket), "gone"
                 \* (unplugged), "dangling" (unplugged, its handler still watched)
    replied,     \* words in the socket buffer towards each client
    dev_pc,      \* "idle"; "payload" while handle_acceptfd blocks in recv, "send"
                 \* while the doorbell blocks in send; "abort" when QEMU is dead
    buf,         \* the message area of hucdev->buf: the header is word 4
    irq_status,  \* hucdev->irq_status as the set of its bits
    irq_line,    \* level of the INTx pin
    affinity,    \* host CPUs each vCPU thread may run on
    ht,          \* hyperthreading_remapping
    handled      \* history: header words dispatched by handle_acceptfd

sockVars == <<connect_fd, watched, fds, life, replied>>
irqVars  == <<irq_status, irq_line>>
cpuVars  == <<affinity, ht>>
devVars  == <<connect_fd, watched, fds, life, replied, dev_pc, buf, irq_status, irq_line,
              affinity, ht, handled>>

Slots == 4 .. Window + 4   \* buf[4] is the header, the payload starts at buf[5]

(* The interrupt a message type raises, as bits: 1 and 3 are values of     *)
(* irq_status, not bit numbers.                                            *)
IrqBits(type) == IF type = PROGRAM_INJECTION THEN {0}
                 ELSE IF type = PROGRAM_INJECTION_AFFINITY THEN {0, 1}
                 ELSE {}

DevTypeOK ==
    /\ connect_fd \in Clients \cup {NoClient}
    /\ watched \in {"listen", "connect", "none"}
    /\ fds \in 0 .. MaxFds
    /\ life \in {"up", "deaf", "gone", "dangling"}
    /\ replied \in [Clients -> 0 .. SndBuf]
    /\ dev_pc \in {"idle", "payload", "send", "abort"}
    /\ buf \in [Slots -> Word]
    /\ irq_status \in SUBSET Nat
    /\ irq_line \in BOOLEAN
    /\ affinity \in [VCpus -> SUBSET PCpus]
    /\ ht \in BOOLEAN
    /\ handled \in Seq(Word)

(* The end of huc_realize: when the port is taken or listen fails it just  *)
(* returns, and the guest gets a device that nobody can reach.             *)
huc_realize ==
    \/ life = "up" /\ watched = "listen"
    \/ PortTaken /\ life = "deaf" /\ watched = "none"

DevInit ==
    /\ huc_realize
    /\ connect_fd = NoClient
    /\ fds = 0
    /\ replied = [c \in Clients |-> 0]
    /\ dev_pc = "idle"
    /\ buf = [i \in Slots |-> BlankWord]
    /\ irq_status = {}
    /\ irq_line = FALSE
    /\ affinity = [v \in VCpus |-> PCpus]
    /\ ht = FALSE
    /\ handled = << >>

-----------------------------------------------------------------------------
(* Interrupt status and line.                                              *)

hucdev_raise_irq(bits) ==
    /\ irq_status' = irq_status \cup bits
    /\ irq_line' = IF irq_status' # {} THEN TRUE ELSE irq_line

(* Faulty variants: leaves the line high; lowers it with bits pending.     *)
hucdev_lower_irq_Never(bits) ==
    /\ irq_status' = irq_status \ bits
    /\ irq_line' = irq_line

hucdev_lower_irq_Always(bits) ==
    /\ irq_status' = irq_status \ bits
    /\ irq_line' = FALSE

hucdev_lower_irq(bits) ==
    /\ irq_status' = irq_status \ bits
    /\ irq_line' = IF irq_status' = {} THEN FALSE ELSE irq_line

-----------------------------------------------------------------------------
(* The server side of the socket.                                          *)

(* accept() fails when QEMU is out of descriptors; its result is used      *)
(* unchecked and the listening socket is unwatched either way.             *)
handle_listenfd ==
    /\ watched = "listen" /\ dev_pc = "idle" /\ queue # << >>
    /\ IF fds < MaxFds
         THEN /\ connect_fd' = Head(queue)
              /\ queue' = Tail(queue)
              /\ fds' = fds + 1
              /\ watched' = "connect"
         ELSE /\ connect_fd' = NoClient
              /\ watched' = "none"
              /\ UNCHANGED <<queue, fds>>
    /\ UNCHANGED <<cpc, cmsg, stream, life, replied, dev_pc, buf, irqVars, cpuVars, handled>>

(* Faulty variants: connect_fd is not reset; the listening socket is not   *)
(* watched again.                                                          *)
handle_acceptfd_eof_KeepsFd ==
    /\ watched = "connect" /\ dev_pc = "idle" /\ Eof(connect_fd)
    /\ watched' = "listen"
    /\ UNCHANGED <<hostVars, connect_fd, fds, life, replied, dev_pc, buf, irqVars, cpuVars, handled>>

handle_acceptfd_eof_Deaf ==
    /\ watched = "connect" /\ dev_pc = "idle" /\ Eof(connect_fd)
    /\ connect_fd' = NoClient
    /\ watched' = "none"
    /\ UNCHANGED <<hostVars, fds, life, replied, dev_pc, buf, irqVars, cpuVars, handled>>

(* The first recv returns 0 or an error: back to listening, without close. *)
handle_acceptfd_eof ==
    /\ watched = "connect" /\ dev_pc = "idle" /\ Eof(connect_fd)
    /\ connect_fd' = NoClient
    /\ watched' = "listen"
    /\ UNCHANGED <<hostVars, fds, life, replied, dev_pc, buf, irqVars, cpuVars, handled>>

(* The first recv returns the header.                                      *)
handle_acceptfd_header ==
    /\ watched = "connect" /\ dev_pc = "idle" /\ stream[connect_fd] # << >>
    /\ buf' = [buf EXCEPT ![4] = Head(stream[connect_fd])]
    /\ stream' = [stream EXCEPT ![connect_fd] = Tail(@)]
    /\ dev_pc' = "payload"
    /\ UNCHANGED <<cpc, cmsg, queue, sockVars, irqVars, cpuVars, handled>>

(* Faulty variant: asks for one word less than the payload.                *)
RecvCounts_OneLess(s, len, eof) ==
    IF len <= 1 THEN {0}
    ELSE IF s = << >> THEN (IF eof THEN {0} ELSE {})
    ELSE {IF len - 1 < Len(s) THEN len - 1 ELSE Len(s)}

(* How many payload words the second recv may return: it waits for data or *)
(* end of file unless it asks for nothing, and returns at most what it     *)
(* asks for and what has arrived.                                          *)
RecvCounts(s, len, eof) ==
    IF len = 0 THEN {0}
    ELSE IF s = << >> THEN (IF eof THEN {0} ELSE {})
    ELSE LET most == IF len < Len(s) THEN len ELSE Len(s)
         IN  IF ShortRecv THEN 1 .. most ELSE {most}

(* Faulty variant: stores the payload one word too far.                    *)
Received_Shifted(s, k, type) ==
    [i \in Slots |-> IF i \in 6 .. 5 + k THEN s[i - 5] ELSE buf[i]]

(* buf after the second recv has stored the first k words of s, and the    *)
(* affinity handler its vCPU count in the first payload word.              *)
Received(s, k, type) ==
    LET b == [i \in Slots |-> IF i \in 5 .. 4 + k THEN s[i - 4] ELSE buf[i]]
    IN  IF type = PROGRAM_INJECTION_AFFINITY THEN [b EXCEPT ![5].n = NVcpu] ELSE b

(* Faulty variant: RESET is not handled.                                   *)
Affinities_NoReset(type) ==
    IF type = PIN_ON_SAME THEN {Pin(affinity, VCpus, {0})} ELSE {affinity}

(* The vCPU affinities a message type installs.  PIN_ON_SAME sets bit 0 of *)
(* a CPU set it has allocated and not cleared.                             *)
Affinities(type) ==
    CASE type = RESET       -> {Pin(affinity, VCpus, ResetMask)}
      [] type = PIN_ON_SAME -> {Pin(affinity, VCpus, {0} \cup junk) : junk \in SUBSET PCpus}
      [] OTHER              -> {affinity}

(* The second recv returns and the message is dispatched on its type.  The *)
(* number of words received is not looked at.                              *)
handle_acceptfd_payload ==
    /\ dev_pc = "payload"
    /\ LET s    == stream[connect_fd]
           type == HdrType(buf[4])
       IN  \E k \in RecvCounts(s, WordsOf(HdrLen(buf[4])), Eof(connect_fd)) :
             /\ stream' = [stream EXCEPT ![connect_fd] = SubSeq(s, k + 1, Len(s))]
             /\ buf' = Received(s, k, type)
             /\ hucdev_raise_irq(IrqBits(type))
             /\ affinity' \in Affinities(type)
             /\ ht' = IF type = HT_REMAPPING THEN ~ht ELSE ht
    /\ dev_pc' = "idle"
    /\ handled' = Append(handled, buf[4])
    /\ UNCHANGED <<cpc, cmsg, queue, sockVars>>

DeviceStep ==
    /\ life # "dangling"
    /\ \/ handle_listenfd
       \/ handle_acceptfd_eof
       \/ handle_acceptfd_header
       \/ handle_acceptfd_payload

InQueue(c) == \E i \in 1 .. Len(queue) : queue[i] = c

(* The listening socket is unwatched and closed, which resets the          *)
(* connections waiting for accept.  The handler of connect_fd stays, with  *)
(* a pointer to the device: what it does afterwards is undefined, and the  *)
(* model does not follow it.                                               *)
hucdev_uninit ==
    /\ MayUnplug /\ life \in {"up", "deaf"} /\ dev_pc = "idle"
    /\ watched' = IF watched = "listen" THEN "none" ELSE watched
    /\ life' = IF watched = "connect" THEN "dangling" ELSE "gone"
    /\ queue' = << >>
    /\ cpc' = [c \in Clients |-> IF InQueue(c) THEN "closed" ELSE cpc[c]]
    /\ UNCHANGED <<cmsg, stream, connect_fd, fds, replied, dev_pc, buf, irqVars, cpuVars, handled>>

-----------------------------------------------------------------------------
(* Guest accesses to BAR1.                                                 *)

(* hucdev_bufmmio_read of word i: the address is masked to the window, and *)
(* words 0 .. 3 are registers, whose value is no word of a message.        *)
hucdev_bufmmio_read(i) ==
    IF i % Window < 4 THEN BlankWord ELSE buf[i % Window]

BufWriteRaise(bits) ==
    /\ dev_pc = "idle"
    /\ hucdev_raise_irq(bits)
    /\ UNCHANGED <<hostVars, sockVars, dev_pc, buf, cpuVars, handled>>

BufWriteLower(bits) ==
    /\ dev_pc = "idle"
    /\ hucdev_lower_irq(bits)
    /\ UNCHANGED <<hostVars, sockVars, dev_pc, buf, cpuVars, handled>>

(* Word 3.                                                                 *)
BufWriteSetAffinity(mask) ==
    /\ dev_pc = "idle"
    /\ affinity' = SetAffinity(affinity, mask)
    /\ UNCHANGED <<hostVars, sockVars, dev_pc, buf, irqVars, ht, handled>>

BufWriteWord(i, w) ==
    /\ dev_pc = "idle"
    /\ buf' = [buf EXCEPT ![i] = w]
    /\ UNCHANGED <<hostVars, sockVars, dev_pc, irqVars, cpuVars, handled>>

Connected == connect_fd # NoClient /\ cpc[connect_fd] # "closed"

(* Faulty variant: does not wait for QEMU's lock.                          *)
BufWriteDoorbell_Unlocked ==
    /\ dev_pc \in {"idle", "payload"}
    /\ Connected /\ replied[connect_fd] + 1 + WordsOf(HdrLen(buf[4])) <= SndBuf
    /\ replied' = [replied EXCEPT ![connect_fd] = @ + 1 + WordsOf(HdrLen(buf[4]))]
    /\ UNCHANGED <<hostVars, connect_fd, watched, fds, life, dev_pc, buf, irqVars, cpuVars, handled>>

(* Word 2: the header in the buffer and payload_len bytes after it are     *)
(* sent to the client, if there is one.  The socket blocks, so the send    *)
(* waits, lock held, when the buffer of a client that does not read is     *)
(* full; no client reads.                                                  *)
BufWriteDoorbell ==
    /\ dev_pc = "idle" /\ Connected
    /\ LET n == replied[connect_fd] + 1 + WordsOf(HdrLen(buf[4]))
       IN  /\ replied' = [replied EXCEPT ![connect_fd] = IF n <= SndBuf THEN n ELSE SndBuf]
           /\ dev_pc' = IF n <= SndBuf THEN "idle" ELSE "send"
    /\ UNCHANGED <<hostVars, connect_fd, watched, fds, life, buf, irqVars, cpuVars, handled>>

(* Faulty variant: tries again.                                            *)
doorbell_epipe_Retry ==
    /\ dev_pc = "send" /\ ~Connected
    /\ UNCHANGED <<hostVars, sockVars, buf, irqVars, cpuVars, handled, dev_pc>>

(* The client is gone: send fails, which nobody looks at.                  *)
doorbell_epipe ==
    /\ dev_pc = "send" /\ ~Connected
    /\ dev_pc' = "idle"
    /\ UNCHANGED <<hostVars, sockVars, buf, irqVars, cpuVars, handled>>

-----------------------------------------------------------------------------
(* Guest accesses to BAR0, which the guest driver does not map.            *)

RegNames == 4    \* named registers
RegEnd   == 23   \* words of ioregs, HUCDEV_REG_END / 4

(* Beyond the registers a write is ignored, and registers 0 and 1 are      *)
(* stores nothing else looks at; the assertion admits the named ones only. *)
hucdev_io_write(i, bits) ==
    /\ dev_pc = "idle"
    /\ CASE i = 2 -> hucdev_raise_irq(bits) /\ UNCHANGED dev_pc
         [] i = 3 -> hucdev_lower_irq(bits) /\ UNCHANGED dev_pc
         [] OTHER -> /\ UNCHANGED irqVars
                     /\ dev_pc' = IF i < RegNames \/ i >= RegEnd THEN "idle" ELSE "abort"
    /\ UNCHANGED <<hostVars, sockVars, buf, cpuVars, handled>>

-----------------------------------------------------------------------------
(* The device with its clients and a guest that may write any register.    *)

CONSTANTS
    IrqVals,    \* values the guest writes to the raise and lower registers
    Masks,      \* masks the guest writes to the affinity register
    StoreSlots, \* buffer words the guest overwrites
    IoIndexes,  \* words of BAR0 the guest writes
    MayRing     \* whether the guest rings the doorbell

ASSUME GuestAssumption ==
    /\ IrqVals \subseteq SUBSET Nat
    /\ Masks \subseteq SUBSET Nat
    /\ StoreSlots \subseteq Slots
    /\ IoIndexes \subseteq 0 .. 63
    /\ MayRing \in BOOLEAN

GuestWrite ==
    \/ \E bits \in IrqVals : BufWriteRaise(bits) \/ BufWriteLower(bits)
    \/ \E mask \in Masks : BufWriteSetAffinity(mask)
    \/ \E i \in StoreSlots : BufWriteWord(i, BlankWord)
    \/ \E i \in IoIndexes, bits \in IrqVals : hucdev_io_write(i, bits)
    \/ MayRing /\ BufWriteDoorbell

GuestStep == life \in {"up", "deaf"} /\ GuestWrite

(* What clients do after QEMU has aborted is not followed.                 *)
HostStep(c) ==
    /\ dev_pc # "abort" /\ UNCHANGED devVars
    /\ ClientStep(c, life = "up") \/ Die(c)

DevNext ==
    \/ \E c \in Clients : HostStep(c)
    \/ DeviceStep
    \/ GuestStep
    \/ doorbell_epipe
    \/ hucdev_uninit

vars == <<hostVars, devVars>>

(* The main loop polls its fds for ever, a send that fails returns, and a  *)
(* client program that is not killed runs to its end.                      *)
DevFairness ==
    /\ WF_vars(DeviceStep)
    /\ WF_vars(doorbell_epipe)
    /\ \A c \in Clients : WF_vars(HostStep(c) /\ ClientStep(c, life = "up"))

DevStart == HostInit /\ DevInit

DevSpec == DevStart /\ [][DevNext]_vars /\ DevFairness

-----------------------------------------------------------------------------
(* Properties of the device.                                               *)

DevTypeInv == HostTypeOK /\ DevTypeOK

(* The INTx pin is high exactly while irq_status has a bit set, whatever   *)
(* the order of raises by messages and raises and acknowledgements by the  *)
(* guest: no interrupt is left unsignalled and none fires for ever         *)
(* (hucdev_raise_irq, hucdev_lower_irq).                                   *)
IrqLineMatchesStatus == irq_line <=> irq_status # {}

(* The socket state machine: connect_fd is watched exactly while it is a   *)
(* client, the device blocks in recv or send only on a connection, and a   *)
(* client is in one place: not connected, once in the accept queue, or     *)
(* accepted (handle_listenfd, handle_acceptfd).                            *)
SocketInv ==
    /\ watched = "connect" <=> connect_fd # NoClient
    /\ dev_pc \in {"payload", "send"} => watched = "connect"
    /\ \A i \in 1 .. Len(queue) : queue[i] # connect_fd
    /\ \A i, j \in 1 .. Len(queue) : queue[i] = queue[j] => i = j
    /\ \A c \in Clients : cpc[c] = "connect" =>
         c # connect_fd /\ \A i \in 1 .. Len(queue) : queue[i] # c

(* A device that came up stops watching its sockets only when QEMU is out  *)
(* of descriptors, whatever its clients do: until then every way out of a  *)
(* connection leads back to listening (handle_listenfd, handle_acceptfd).  *)
DeafOnlyWithoutFds == life = "up" /\ watched = "none" => fds = MaxFds

(* A connection the kernel has completed does not wait for ever: the       *)
(* device accepts it, or is unplugged and resets it, whatever the clients  *)
(* before it do (send in pieces, die between header and payload, leave a   *)
(* doorbell blocked) and whatever the guest writes.  It stays in the queue *)
(* only when QEMU is out of descriptors or has aborted (handle_listenfd,   *)
(* handle_acceptfd, hucdev_uninit).                                        *)
QueuedAccepted ==
    \A c \in Clients : InQueue(c) ~>
        (~InQueue(c) \/ (watched = "none" /\ fds = MaxFds) \/ dev_pc = "abort")

WholeMessage(b) ==
    /\ b[4].pos = 0
    /\ \A k \in 1 .. WordsOf(b[4].msg.size) : b[4 + k].msg = b[4].msg /\ b[4 + k].pos = k

(* When handle_acceptfd raises an interrupt, the buffer holds a whole      *)
(* message: a header and all the payload its sender had.                   *)
SignalsWholeMessage ==
    [][handled' # handled /\ IrqBits(HdrType(buf'[4])) # {} => WholeMessage(buf')]_vars

(* What the doorbell sends back is a whole message, never the header of    *)
(* one with the payload of another: it cannot be rung between the two recv *)
(* of handle_acceptfd (hucdev_bufmmio_write, word 2).                      *)
DoorbellSendsWhole == [][replied' # replied => WholeMessage(buf)]_vars

(* A doorbell that blocks QEMU, lock held, because no client reads what it *)
(* sends, returns in the end: every client closes its connection without   *)
(* waiting for the guest.                                                  *)
DoorbellReturns == (dev_pc = "send") ~> (dev_pc = "idle")

(* Messages are dispatched once each, in the order each client sent them,  *)
(* and the messages of one connection are never interleaved with those of  *)
(* another (handle_listenfd stops watching the listening socket): what is  *)
(* dispatched is a header, and just before the header of any message but   *)
(* the first of a client comes the header of the message before it.        *)
ServedInOrder ==
    /\ \A i \in DOMAIN handled : \E c \in Clients : \E j \in DOMAIN Script[c] :
         /\ handled[i] = HeaderWord(Script[c][j])
         /\ j > 1 => i > 1 /\ handled[i - 1] = HeaderWord(Script[c][j - 1])
    /\ \A i, k \in DOMAIN handled : handled[i] = handled[k] => i = k

(* Between connections no vCPU stays pinned: PIN_ON_SAME is always undone  *)
(* by the RESET that pinonsame sends on the same connection.               *)
PinUndone == watched = "listen" => \A v \in VCpus : affinity[v] = PCpus

(* The messages of c that have been dispatched.                            *)
HandledOf(c) == SelectSeq(handled, LAMBDA w : \E i \in DOMAIN Script[c] : Script[c][i] = w.msg)

(* Every message of every client is eventually dispatched by the device.   *)
AllHandled == \A c \in Clients : <>(Len(HandledOf(c)) = Len(Script[c]))

=============================================================================
