-------------------------- MODULE HucDeviceProofs ---------------------------
(***************************************************************************)
(* Proofs, for every set of clients, scripts and bounds, of the invariants *)
(* of the device.                                                          *)
(***************************************************************************)
EXTENDS HucDevice, SequenceTheorems, TLAPS

-----------------------------------------------------------------------------
(* The interrupt line.  Its invariant is inductive as it stands, because   *)
(* every action either leaves status and line alone or goes through        *)
(* hucdev_raise_irq or hucdev_lower_irq.                                   *)

(* hucdev_raise_irq keeps the line equal to "some bit is set".             *)
LEMMA RaiseKeepsLine ==
    ASSUME NEW bits, IrqLineMatchesStatus, irq_line \in BOOLEAN, hucdev_raise_irq(bits)
    PROVE  IrqLineMatchesStatus' /\ irq_line' \in BOOLEAN
BY DEF IrqLineMatchesStatus, hucdev_raise_irq

(* hucdev_lower_irq does too: it drops the line with the last bit only.    *)
LEMMA LowerKeepsLine ==
    ASSUME NEW bits, IrqLineMatchesStatus, irq_line \in BOOLEAN, hucdev_lower_irq(bits)
    PROVE  IrqLineMatchesStatus' /\ irq_line' \in BOOLEAN
BY DEF IrqLineMatchesStatus, hucdev_lower_irq

LineInv == IrqLineMatchesStatus /\ irq_line \in BOOLEAN

(* The INTx pin is high exactly while irq_status is not empty: raises by   *)
(* handle_acceptfd and by the guest, and acknowledgements by the guest, in *)
(* any order.                                                              *)
THEOREM LineFollowsStatus == DevSpec => []IrqLineMatchesStatus
<1>1. HostInit /\ DevInit => LineInv
  BY DEF DevInit, LineInv, IrqLineMatchesStatus
<1>2. LineInv /\ [DevNext]_vars => LineInv'
  <2> SUFFICES ASSUME LineInv, [DevNext]_vars
               PROVE  LineInv'
    OBVIOUS
  <2> USE DEF LineInv
  <2>1. ASSUME UNCHANGED irqVars
        PROVE  LineInv'
    BY <2>1 DEF irqVars, IrqLineMatchesStatus
  <2>2. ASSUME NEW c \in Clients, HostStep(c)
        PROVE  LineInv'
    BY <2>1, <2>2 DEF HostStep, devVars, irqVars
  <2>3. CASE handle_listenfd
    BY <2>1, <2>3 DEF handle_listenfd
  <2>4. CASE handle_acceptfd_eof
    BY <2>1, <2>4 DEF handle_acceptfd_eof
  <2>5. CASE handle_acceptfd_header
    BY <2>1, <2>5 DEF handle_acceptfd_header
  <2>6. CASE handle_acceptfd_payload
    BY <2>6, RaiseKeepsLine DEF handle_acceptfd_payload
  <2>7. CASE GuestStep
    <3>1. ASSUME NEW bits \in IrqVals, BufWriteRaise(bits)
          PROVE  LineInv'
      BY <3>1, RaiseKeepsLine DEF BufWriteRaise
    <3>2. ASSUME NEW bits \in IrqVals, BufWriteLower(bits)
          PROVE  LineInv'
      BY <3>2, LowerKeepsLine DEF BufWriteLower
    <3>3. ASSUME NEW mask \in Masks, BufWriteSetAffinity(mask)
          PROVE  LineInv'
      BY <3>3, <2>1 DEF BufWriteSetAffinity
    <3>4. ASSUME NEW i \in StoreSlots, BufWriteWord(i, BlankWord)
          PROVE  LineInv'
      BY <3>4, <2>1 DEF BufWriteWord
    <3>5. ASSUME NEW i \in IoIndexes, NEW bits \in IrqVals, hucdev_io_write(i, bits)
          PROVE  LineInv'
      <4>1. CASE i = 2
        BY <3>5, <4>1, RaiseKeepsLine DEF hucdev_io_write
      <4>2. CASE i = 3
        BY <3>5, <4>2, LowerKeepsLine DEF hucdev_io_write
      <4>3. CASE i # 2 /\ i # 3
        BY <3>5, <4>3, <2>1 DEF hucdev_io_write
      <4> QED BY <4>1, <4>2, <4>3
    <3>6. CASE BufWriteDoorbell
      BY <3>6, <2>1 DEF BufWriteDoorbell
    <3> QED BY <2>7, <3>1, <3>2, <3>3, <3>4, <3>5, <3>6 DEF GuestStep, GuestWrite
  <2>8. CASE doorbell_epipe
    BY <2>1, <2>8 DEF doorbell_epipe
  <2>9. CASE hucdev_uninit
    BY <2>1, <2>9 DEF hucdev_uninit
  <2>10. CASE UNCHANGED vars
    BY <2>1, <2>10 DEF vars, devVars, irqVars
  <2> QED
    BY <2>2, <2>3, <2>4, <2>5, <2>6, <2>7, <2>8, <2>9, <2>10 DEF DevNext, DeviceStep
<1> QED
  BY <1>1, <1>2, PTL DEF DevSpec, DevStart, LineInv

-----------------------------------------------------------------------------
(* Types and the socket state machine.  DevTypeInv and SocketInv are       *)
(* inductive together: recv is typed only because the device blocks on a   *)
(* live connection, and the queue has no duplicates only because a client  *)
(* that has not connected is nowhere else.                                 *)

DevIInv == DevTypeInv /\ SocketInv

(* What a client sends is a message.                                       *)
LEMMA ScriptMessage ==
    ASSUME NEW c \in Clients, NEW i \in 1 .. Len(Script[c])
    PROVE  Script[c][i] \in Message
BY HostAssumption

(* The header of a message is a word.                                      *)
LEMMA HeaderWordType ==
    ASSUME NEW m \in Message
    PROVE  HeaderWord(m) \in Word
BY DEF HeaderWord, Word

(* payload_len is a 16-bit number.                                         *)
LEMMA PayloadLenType ==
    ASSUME NEW m \in Message
    PROVE  PayloadLen(m) \in 0 .. 4 * Window - 1
BY WindowAssumption DEF PayloadLen, Message

(* Bytes take a whole number of words.                                     *)
LEMMA WordsOfType ==
    ASSUME NEW n \in Nat
    PROVE  WordsOf(n) \in Nat
BY DEF WordsOf

(* The payload of a message is a sequence of words.                        *)
LEMMA PayloadWordsType ==
    ASSUME NEW m \in Message
    PROVE  PayloadWords(m) \in Seq(Word)
<1>1. WordsOf(PayloadLen(m)) \in Nat
  BY PayloadLenType, WordsOfType, WindowAssumption
<1>2. \A k \in 1 .. WordsOf(PayloadLen(m)) : PayloadWord(m, k) \in Word
  BY <1>1 DEF PayloadWord, Word
<1> QED
  BY <1>1, <1>2, SeqDef DEF PayloadWords

(* Untouched memory holds words.                                           *)
LEMMA BlankWordType == BlankWord \in Word
BY WindowAssumption DEF BlankWord, Word, Message

(* What the second recv may return is a prefix of what has arrived.        *)
LEMMA RecvCountsType ==
    ASSUME NEW s \in Seq(Word), NEW len \in Nat, NEW eof,
           NEW k \in RecvCounts(s, len, eof)
    PROVE  k \in 0 .. Len(s)
BY DEF RecvCounts

(* Whatever word is read as a header, its length field is 16 bits.         *)
LEMMA HdrLenType ==
    ASSUME NEW w \in Word
    PROVE  HdrLen(w) \in 0 .. 4 * Window - 1
BY PayloadLenType, WindowAssumption DEF HdrLen, Word, Message

(* So is the number of words recv asks for.                                *)
LEMMA HdrWordsType ==
    ASSUME NEW w \in Word
    PROVE  WordsOf(HdrLen(w)) \in Nat
<1>1. HdrLen(w) \in Nat
  BY HdrLenType, WindowAssumption
<1> QED BY <1>1, WordsOfType

(* recv of at most payload_len words stays inside the buffer.              *)
LEMMA ReceivedType ==
    ASSUME buf \in [Slots -> Word], NEW s \in Seq(Word), NEW k \in 0 .. Len(s), NEW type
    PROVE  Received(s, k, type) \in [Slots -> Word]
<1> DEFINE b == [i \in Slots |-> IF i \in 5 .. 4 + k THEN s[i - 4] ELSE buf[i]]
<1>1. b \in [Slots -> Word]
  BY WindowAssumption DEF Slots
<1>2. 5 \in Slots
  BY WindowAssumption DEF Slots
<1>3. [b EXCEPT ![5].n = NVcpu] \in [Slots -> Word]
  <2>1. [b[5] EXCEPT !.n = NVcpu] \in Word
    BY <1>1, <1>2, PinAssumption DEF Word
  <2> QED BY <1>1, <1>2, <2>1
<1> QED BY <1>1, <1>3 DEF Received

(* sched_setaffinity leaves every vCPU a set of host CPUs.                 *)
LEMMA PinnedType ==
    ASSUME affinity \in [VCpus -> SUBSET PCpus], NEW vs, NEW mask
    PROVE  Pin(affinity, vs, mask) \in [VCpus -> SUBSET PCpus]
BY DEF Pin

(* So does every message type.                                             *)
LEMMA AffinitiesType ==
    ASSUME affinity \in [VCpus -> SUBSET PCpus], NEW type, NEW a \in Affinities(type)
    PROVE  a \in [VCpus -> SUBSET PCpus]
<1>1. CASE type = RESET
  BY <1>1, PinnedType DEF Affinities, RESET, PIN_ON_SAME
<1>2. CASE type = PIN_ON_SAME
  <2>1. PICK junk \in SUBSET PCpus : a = Pin(affinity, VCpus, {0} \cup junk)
    BY <1>2 DEF Affinities, RESET, PIN_ON_SAME
  <2> QED BY <2>1, PinnedType
<1>3. CASE type # RESET /\ type # PIN_ON_SAME
  BY <1>3 DEF Affinities
<1> QED BY <1>1, <1>2, <1>3

(* The invariant holds when the device is realized.                        *)
LEMMA DevIInvInit == HostInit /\ DevInit => DevIInv
<1> SUFFICES ASSUME HostInit, DevInit
             PROVE  DevIInv
  OBVIOUS
<1>1. HostTypeOK
  BY DEF HostInit, HostTypeOK, ClientPc
<1>2. DevTypeOK
  <2>1. buf \in [Slots -> Word] /\ affinity \in [VCpus -> SUBSET PCpus]
    BY BlankWordType DEF DevInit
  <2>2. irq_line \in BOOLEAN /\ ht \in BOOLEAN
    BY DEF DevInit
  <2>3. fds \in 0 .. MaxFds /\ irq_status \in SUBSET Nat /\ handled \in Seq(Word)
    BY DeviceAssumption DEF DevInit
  <2>4. replied \in [Clients -> 0 .. SndBuf]
    BY DeviceAssumption DEF DevInit
  <2> QED
    BY <2>1, <2>2, <2>3, <2>4 DEF DevInit, huc_realize, DevTypeOK
<1>3. SocketInv
  BY DeviceAssumption DEF HostInit, DevInit, huc_realize, SocketInv
<1> QED
  BY <1>1, <1>2, <1>3 DEF DevIInv, DevTypeInv

(* A client's step changes the types of the host state only, and the queue *)
(* only by a client that was not in it.                                    *)
LEMMA DevIInvHost ==
    ASSUME DevIInv, NEW c \in Clients, HostStep(c)
    PROVE  DevIInv'
<1> USE DEF DevIInv, DevTypeInv
<1>1. DevTypeOK'
  BY DEF HostStep, devVars, DevTypeOK
<1>2. CASE Connect(c, life = "up")
  <2>1. Script[c] # << >> => 1 \in 1 .. Len(Script[c])
    BY HostAssumption, EmptySeq
  <2>2. CASE life = "up" /\ Port[c] = ListenPort
    <3>1. /\ queue' = Append(queue, c)
          /\ cpc' = [cpc EXCEPT ![c] = IF Script[c] = << >> THEN "close" ELSE "header"]
          /\ UNCHANGED <<cmsg, stream>>
      BY <1>2, <2>2 DEF Connect
    <3>2. HostTypeOK'
      <4>1. cmsg[c] = 1
        BY <1>2 DEF Connect, HostTypeOK
      <4> QED BY <2>1, <3>1, <4>1 DEF HostTypeOK, ClientPc
    <3>3. /\ Len(queue') = Len(queue) + 1
          /\ \A i \in 1 .. Len(queue) : queue'[i] = queue[i]
          /\ queue'[Len(queue) + 1] = c
          /\ Len(queue) \in Nat
      BY <3>1 DEF HostTypeOK
    <3>4. cpc[c] = "connect" /\ cpc'[c] # "connect" /\ \A d \in Clients \ {c} : cpc'[d] = cpc[d]
      BY <3>1, <1>2 DEF Connect, HostTypeOK
    <3>5. UNCHANGED <<watched, connect_fd, dev_pc>>
      BY DEF HostStep, devVars
    <3>6. SocketInv'
      BY <3>3, <3>4, <3>5 DEF SocketInv
    <3> QED BY <1>1, <3>2, <3>6
  <2>3. CASE ~(life = "up" /\ Port[c] = ListenPort)
    BY <1>1, <1>2, <2>3 DEF Connect, HostStep, devVars, HostTypeOK, SocketInv, ClientPc
  <2> QED BY <2>2, <2>3
<1>3. CASE SendHeader(c)
  BY <1>1, <1>3, ScriptMessage, HeaderWordType
     DEF SendHeader, HostStep, devVars, HostTypeOK, SocketInv, ClientPc
<1>4. CASE SendPayload(c)
  <2>1. PayloadWords(Script[c][cmsg[c]]) \in Seq(Word)
    BY <1>4, ScriptMessage, PayloadWordsType DEF SendPayload, HostTypeOK
  <2>2. stream' \in [Clients -> Seq(Word)]
    BY <1>4, <2>1, ConcatProperties DEF SendPayload, HostTypeOK
  <2>3. Len(Script[c]) \in Nat
    BY HostAssumption
  <2>4. HostTypeOK'
    <3>1. CASE cmsg[c] < Len(Script[c])
      <4>1. /\ cmsg' = [cmsg EXCEPT ![c] = cmsg[c] + 1]
            /\ cpc' = [cpc EXCEPT ![c] = "header"]
            /\ queue' = queue
        BY <1>4, <3>1 DEF SendPayload
      <4> QED BY <2>2, <2>3, <3>1, <4>1 DEF HostTypeOK, ClientPc
    <3>2. CASE ~(cmsg[c] < Len(Script[c]))
      BY <1>4, <2>2, <3>2 DEF SendPayload, HostTypeOK, ClientPc
    <3> QED BY <3>1, <3>2
  <2>5. SocketInv'
    BY <1>4 DEF SendPayload, HostStep, devVars, SocketInv, HostTypeOK
  <2> QED BY <1>1, <2>4, <2>5
<1>5. CASE Close(c)
  BY <1>1, <1>5 DEF Close, HostStep, devVars, HostTypeOK, SocketInv, ClientPc
<1>6. CASE Die(c)
  BY <1>1, <1>6 DEF Die, HostStep, devVars, HostTypeOK, SocketInv, ClientPc
<1> QED
  BY <1>2, <1>3, <1>4, <1>5, <1>6 DEF HostStep, ClientStep

(* Accepting takes the head of the queue, which then is in it no more.     *)
LEMMA DevIInvListen ==
    ASSUME DevIInv, handle_listenfd
    PROVE  DevIInv'
<1> USE DEF DevIInv, DevTypeInv
<1>1. /\ Head(queue) \in Clients
      /\ Tail(queue) \in Seq(Clients)
      /\ Len(queue) \in Nat
      /\ Len(Tail(queue)) = Len(queue) - 1
      /\ \A i \in 1 .. Len(Tail(queue)) : Tail(queue)[i] = queue[i + 1]
      /\ Head(queue) = queue[1]
      /\ Len(queue) >= 1
  BY HeadTailProperties, EmptySeq DEF handle_listenfd, HostTypeOK
<1>2. UNCHANGED <<cpc, cmsg, stream, life, replied, dev_pc, buf, irq_status, irq_line, affinity, ht, handled>>
  BY DEF handle_listenfd, irqVars, cpuVars
<1>3. CASE fds < MaxFds
  <2>1. /\ connect_fd' = Head(queue) /\ queue' = Tail(queue)
        /\ fds' = fds + 1 /\ watched' = "connect"
    BY <1>3 DEF handle_listenfd
  <2>2. HostTypeOK' /\ DevTypeOK'
    <3>1. HostTypeOK'
      BY <1>1, <1>2, <2>1 DEF HostTypeOK
    <3>2. fds' \in 0 .. MaxFds
      BY <1>3, <2>1, DeviceAssumption DEF DevTypeOK
    <3>3. DevTypeOK'
      BY <1>1, <1>2, <2>1, <3>2 DEF DevTypeOK
    <3> QED BY <3>1, <3>3
  <2>3. SocketInv'
    BY <1>1, <1>2, <2>1, DeviceAssumption DEF handle_listenfd, SocketInv
  <2> QED BY <2>2, <2>3
<1>4. CASE ~(fds < MaxFds)
  <2>1. connect_fd' = NoClient /\ watched' = "none" /\ queue' = queue /\ fds' = fds
    BY <1>4 DEF handle_listenfd
  <2>2. HostTypeOK' /\ DevTypeOK'
    BY <1>2, <2>1 DEF HostTypeOK, DevTypeOK
  <2>3. SocketInv'
    BY <1>1, <1>2, <2>1, DeviceAssumption DEF handle_listenfd, SocketInv, HostTypeOK
  <2> QED BY <2>2, <2>3
<1> QED BY <1>3, <1>4

(* End of file: nobody is accepted, the listening socket is watched.       *)
LEMMA DevIInvEof ==
    ASSUME DevIInv, handle_acceptfd_eof
    PROVE  DevIInv'
<1>1. HostTypeOK' /\ DevTypeOK'
  BY DEF DevIInv, DevTypeInv, handle_acceptfd_eof, hostVars, irqVars, cpuVars, HostTypeOK, DevTypeOK
<1>2. SocketInv'
  <2>1. connect_fd' = NoClient /\ watched' = "listen" /\ dev_pc' = "idle"
    BY DEF handle_acceptfd_eof
  <2>2. UNCHANGED <<cpc, queue>>
    BY DEF handle_acceptfd_eof, hostVars
  <2>3. \A i \in 1 .. Len(queue) : queue[i] # NoClient
    BY DeviceAssumption DEF DevIInv, DevTypeInv, HostTypeOK
  <2>4. \A c \in Clients : c # NoClient
    BY DeviceAssumption
  <2> QED BY <2>1, <2>2, <2>3, <2>4 DEF DevIInv, SocketInv
<1> QED BY <1>1, <1>2 DEF DevIInv, DevTypeInv

(* The first recv.                                                         *)
LEMMA DevIInvHeader ==
    ASSUME DevIInv, handle_acceptfd_header
    PROVE  DevIInv'
<1> USE DEF DevIInv, DevTypeInv
<1>1. connect_fd \in Clients
  BY DEF handle_acceptfd_header, SocketInv, DevTypeOK
<1>2. Head(stream[connect_fd]) \in Word /\ Tail(stream[connect_fd]) \in Seq(Word)
  BY <1>1, HeadTailProperties DEF handle_acceptfd_header, HostTypeOK
<1>3. HostTypeOK' /\ DevTypeOK'
  BY <1>1, <1>2 DEF handle_acceptfd_header, sockVars, irqVars, cpuVars, HostTypeOK, DevTypeOK
<1>4. SocketInv'
  BY DEF handle_acceptfd_header, sockVars, SocketInv
<1> QED BY <1>3, <1>4

(* The second recv and the dispatch.                                       *)
LEMMA DevIInvPayload ==
    ASSUME DevIInv, handle_acceptfd_payload
    PROVE  DevIInv'
<1> USE DEF DevIInv, DevTypeInv
<1> DEFINE s    == stream[connect_fd]
           type == HdrType(buf[4])
<1>1. connect_fd \in Clients /\ s \in Seq(Word)
  BY DEF handle_acceptfd_payload, SocketInv, DevTypeOK, HostTypeOK
<1>2. 4 \in Slots /\ buf[4] \in Word
  BY WindowAssumption DEF DevTypeOK, Slots
<1>3. PICK k \in RecvCounts(s, WordsOf(HdrLen(buf[4])), Eof(connect_fd)) :
        /\ stream' = [stream EXCEPT ![connect_fd] = SubSeq(s, k + 1, Len(s))]
        /\ buf' = Received(s, k, type)
        /\ hucdev_raise_irq(IrqBits(type))
        /\ affinity' \in Affinities(type)
        /\ ht' = IF type = HT_REMAPPING THEN ~ht ELSE ht
  BY DEF handle_acceptfd_payload
<1>4. k \in 0 .. Len(s)
  BY <1>1, <1>2, HdrWordsType, RecvCountsType, WindowAssumption
<1>5. stream' \in [Clients -> Seq(Word)]
  <2>1. SubSeq(s, k + 1, Len(s)) \in Seq(Word)
    BY <1>1, <1>4, SubSeqProperties
  <2> QED BY <1>1, <1>3, <2>1 DEF HostTypeOK
<1>6. buf' \in [Slots -> Word]
  BY <1>1, <1>3, <1>4, ReceivedType DEF DevTypeOK
<1>7. irq_status' \in SUBSET Nat
  BY <1>3 DEF hucdev_raise_irq, IrqBits, DevTypeOK
<1>8. irq_line' \in BOOLEAN
  BY <1>3 DEF hucdev_raise_irq, DevTypeOK
<1>9. ht' \in BOOLEAN
  BY <1>3 DEF DevTypeOK
<1>10. affinity' \in [VCpus -> SUBSET PCpus]
  BY <1>3, AffinitiesType DEF DevTypeOK
<1>11. handled' \in Seq(Word)
  BY <1>2 DEF handle_acceptfd_payload, DevTypeOK
<1>12. UNCHANGED <<cpc, cmsg, queue, connect_fd, watched, fds, life, replied>> /\ dev_pc' = "idle"
  BY DEF handle_acceptfd_payload, sockVars
<1>13. HostTypeOK'
  BY <1>5, <1>12 DEF HostTypeOK
<1>14. DevTypeOK'
  BY <1>6, <1>7, <1>8, <1>9, <1>10, <1>11, <1>12 DEF DevTypeOK
<1>15. SocketInv'
  BY <1>12 DEF SocketInv
<1> QED BY <1>13, <1>14, <1>15

(* No register write changes who is connected or what is watched, and one  *)
(* that blocks in send does so on a connection.                            *)
LEMMA GuestKeepsSockets ==
    ASSUME GuestWrite, SocketInv
    PROVE  /\ UNCHANGED <<hostVars, connect_fd, watched, fds, life>>
           /\ dev_pc' \in {"payload", "send"} => watched = "connect"
<1>1. ASSUME NEW bits \in IrqVals, BufWriteRaise(bits) \/ BufWriteLower(bits)
      PROVE  UNCHANGED <<hostVars, connect_fd, watched, fds, life, dev_pc>>
  BY <1>1 DEF BufWriteRaise, BufWriteLower, sockVars
<1>2. ASSUME NEW mask \in Masks, BufWriteSetAffinity(mask)
      PROVE  UNCHANGED <<hostVars, connect_fd, watched, fds, life, dev_pc>>
  BY <1>2 DEF BufWriteSetAffinity, sockVars
<1>3. ASSUME NEW i \in StoreSlots, BufWriteWord(i, BlankWord)
      PROVE  UNCHANGED <<hostVars, connect_fd, watched, fds, life, dev_pc>>
  BY <1>3 DEF BufWriteWord, sockVars
<1>4. ASSUME NEW i \in IoIndexes, NEW bits \in IrqVals, hucdev_io_write(i, bits)
      PROVE  UNCHANGED <<hostVars, connect_fd, watched, fds, life>> /\ dev_pc' \in {"idle", "abort"}
  BY <1>4 DEF hucdev_io_write, sockVars
<1>5. CASE BufWriteDoorbell
  BY <1>5 DEF BufWriteDoorbell, Connected, SocketInv
<1>6. dev_pc \in {"payload", "send"} => watched = "connect"
  BY DEF SocketInv
<1> QED BY <1>1, <1>2, <1>3, <1>4, <1>5, <1>6 DEF GuestWrite

(* Register writes of the guest.                                           *)
LEMMA DevIInvGuest ==
    ASSUME DevIInv, GuestStep
    PROVE  DevIInv'
<1> USE DEF DevIInv, DevTypeInv
<1>1. HostTypeOK' /\ SocketInv'
  BY GuestKeepsSockets DEF GuestStep, hostVars, HostTypeOK, SocketInv
<1>2. ASSUME NEW bits \in IrqVals, BufWriteRaise(bits)
      PROVE  DevTypeOK'
  <2>1. irq_status' \in SUBSET Nat
    BY <1>2, GuestAssumption DEF BufWriteRaise, hucdev_raise_irq, DevTypeOK
  <2>2. irq_line' \in BOOLEAN
    BY <1>2 DEF BufWriteRaise, hucdev_raise_irq, DevTypeOK
  <2> QED BY <1>2, <2>1, <2>2 DEF BufWriteRaise, sockVars, cpuVars, DevTypeOK
<1>3. ASSUME NEW bits \in IrqVals, BufWriteLower(bits)
      PROVE  DevTypeOK'
  <2>1. irq_status' \in SUBSET Nat
    BY <1>3 DEF BufWriteLower, hucdev_lower_irq, DevTypeOK
  <2>2. irq_line' \in BOOLEAN
    BY <1>3 DEF BufWriteLower, hucdev_lower_irq, DevTypeOK
  <2> QED BY <1>3, <2>1, <2>2 DEF BufWriteLower, sockVars, cpuVars, DevTypeOK
<1>4. ASSUME NEW mask \in Masks, BufWriteSetAffinity(mask)
      PROVE  DevTypeOK'
  BY <1>4, PinnedType DEF BufWriteSetAffinity, SetAffinity, sockVars, irqVars, DevTypeOK
<1>5. ASSUME NEW i \in StoreSlots, BufWriteWord(i, BlankWord)
      PROVE  DevTypeOK'
  BY <1>5, BlankWordType DEF BufWriteWord, sockVars, irqVars, cpuVars, DevTypeOK
<1>6. ASSUME NEW i \in IoIndexes, NEW bits \in IrqVals, hucdev_io_write(i, bits)
      PROVE  DevTypeOK'
  <2>1. irq_status' \in SUBSET Nat
    BY <1>6, GuestAssumption
       DEF hucdev_io_write, hucdev_raise_irq, hucdev_lower_irq, irqVars, DevTypeOK
  <2>2. irq_line' \in BOOLEAN
    BY <1>6 DEF hucdev_io_write, hucdev_raise_irq, hucdev_lower_irq, irqVars, DevTypeOK
  <2>3. dev_pc' \in {"idle", "abort"}
    BY <1>6 DEF hucdev_io_write
  <2> QED BY <1>6, <2>1, <2>2, <2>3 DEF hucdev_io_write, sockVars, cpuVars, DevTypeOK
<1>7. CASE BufWriteDoorbell
  <2> DEFINE n == replied[connect_fd] + 1 + WordsOf(HdrLen(buf[4]))
  <2>1. connect_fd \in Clients /\ buf[4] \in Word
    BY <1>7, WindowAssumption DEF BufWriteDoorbell, Connected, DevTypeOK, Slots
  <2>2. replied[connect_fd] \in Nat /\ WordsOf(HdrLen(buf[4])) \in Nat
    BY <2>1, HdrWordsType, WindowAssumption, DeviceAssumption DEF DevTypeOK
  <2>3. (IF n <= SndBuf THEN n ELSE SndBuf) \in 0 .. SndBuf
    BY <2>2, DeviceAssumption
  <2>4. replied' \in [Clients -> 0 .. SndBuf]
    BY <1>7, <2>1, <2>3 DEF BufWriteDoorbell, DevTypeOK
  <2>5. dev_pc' \in {"idle", "send"}
    BY <1>7 DEF BufWriteDoorbell
  <2>6. DevTypeOK'
    BY <1>7, <2>4, <2>5 DEF BufWriteDoorbell, irqVars, cpuVars, DevTypeOK
  <2> QED BY <1>1, <2>6
<1> QED BY <1>1, <1>2, <1>3, <1>4, <1>5, <1>6, <1>7 DEF GuestStep, GuestWrite

(* A doorbell whose client has left.                                       *)
LEMMA DevIInvEpipe ==
    ASSUME DevIInv, doorbell_epipe
    PROVE  DevIInv'
BY DEF DevIInv, DevTypeInv, doorbell_epipe, hostVars, sockVars, irqVars, cpuVars,
       HostTypeOK, DevTypeOK, SocketInv

(* Unplugging empties the accept queue and touches no accepted client.     *)
LEMMA DevIInvUninit ==
    ASSUME DevIInv, hucdev_uninit
    PROVE  DevIInv'
<1> USE DEF DevIInv, DevTypeInv
<1>1. \A c \in Clients : cpc'[c] \in {cpc[c], "closed"}
  BY DEF hucdev_uninit, HostTypeOK
<1>2. HostTypeOK'
  <2>1. cpc' \in [Clients -> ClientPc]
    BY DEF hucdev_uninit, HostTypeOK, ClientPc
  <2>2. queue' = << >> /\ UNCHANGED <<cmsg, stream>>
    BY DEF hucdev_uninit
  <2> QED BY <1>1, <2>1, <2>2 DEF HostTypeOK
<1>3. DevTypeOK'
  BY DEF hucdev_uninit, irqVars, cpuVars, DevTypeOK
<1>4. SocketInv'
  <2>1. queue' = << >> /\ UNCHANGED <<connect_fd, dev_pc>>
    BY DEF hucdev_uninit
  <2>2. watched' = "connect" <=> watched = "connect"
    BY DEF hucdev_uninit, DevTypeOK
  <2> QED BY <1>1, <2>1, <2>2, DeviceAssumption DEF SocketInv, HostTypeOK
<1> QED BY <1>2, <1>3, <1>4

(* Types and socket state together are inductive: the types of the queue   *)
(* and of connect_fd need the socket state, and the converse.              *)
THEOREM DevIInvariant == DevSpec => []DevIInv
<1>1. DevIInv /\ [DevNext]_vars => DevIInv'
  <2> SUFFICES ASSUME DevIInv, [DevNext]_vars
               PROVE  DevIInv'
    OBVIOUS
  <2>1. CASE \E c \in Clients : HostStep(c)
    BY <2>1, DevIInvHost
  <2>2. CASE DeviceStep
    BY <2>2, DevIInvListen, DevIInvEof, DevIInvHeader, DevIInvPayload DEF DeviceStep
  <2>3. CASE GuestStep
    BY <2>3, DevIInvGuest
  <2>4. CASE doorbell_epipe
    BY <2>4, DevIInvEpipe
  <2>5. CASE hucdev_uninit
    BY <2>5, DevIInvUninit
  <2>6. CASE UNCHANGED vars
    BY <2>6 DEF vars, hostVars, devVars, DevIInv, DevTypeInv, HostTypeOK, DevTypeOK, SocketInv
  <2> QED BY <2>1, <2>2, <2>3, <2>4, <2>5, <2>6 DEF DevNext
<1> QED
  BY <1>1, DevIInvInit, PTL DEF DevSpec, DevStart

(* Every variable of the device and of its clients keeps its type; in      *)
(* particular recv never stores outside the message area of the buffer.    *)
THEOREM DevTypeCorrect == DevSpec => []DevTypeInv
BY DevIInvariant, PTL DEF DevIInv

(* The socket state machine of handle_listenfd and handle_acceptfd.        *)
THEOREM SocketCorrect == DevSpec => []SocketInv
BY DevIInvariant, PTL DEF DevIInv

(* For any clients the device stays deaf only after QEMU has used all its  *)
(* descriptors (handle_listenfd).                                          *)
THEOREM DeafCorrect == DevSpec => []DeafOnlyWithoutFds
<1>1. HostInit /\ DevInit => DeafOnlyWithoutFds
  BY DEF DevInit, huc_realize, DeafOnlyWithoutFds
<1>2. DevIInv /\ DeafOnlyWithoutFds /\ [DevNext]_vars => DeafOnlyWithoutFds'
  <2> SUFFICES ASSUME DevIInv, DeafOnlyWithoutFds, [DevNext]_vars
               PROVE  DeafOnlyWithoutFds'
    OBVIOUS
  <2> USE DEF DeafOnlyWithoutFds
  <2>1. ASSUME NEW c \in Clients, HostStep(c)
        PROVE  DeafOnlyWithoutFds'
    BY <2>1 DEF HostStep, devVars
  <2>2. CASE handle_listenfd
    BY <2>2, DeviceAssumption DEF handle_listenfd, DevIInv, DevTypeInv, DevTypeOK
  <2>3. CASE handle_acceptfd_eof
    BY <2>3 DEF handle_acceptfd_eof
  <2>4. CASE handle_acceptfd_header
    BY <2>4 DEF handle_acceptfd_header, sockVars
  <2>5. CASE handle_acceptfd_payload
    BY <2>5 DEF handle_acceptfd_payload, sockVars
  <2>6. CASE GuestStep
    BY <2>6, GuestKeepsSockets DEF GuestStep, DevIInv
  <2>7. CASE doorbell_epipe
    BY <2>7 DEF doorbell_epipe, sockVars
  <2>8. CASE hucdev_uninit
    BY <2>8 DEF hucdev_uninit
  <2>9. CASE UNCHANGED vars
    BY <2>9 DEF vars, devVars
  <2> QED BY <2>1, <2>2, <2>3, <2>4, <2>5, <2>6, <2>7, <2>8, <2>9, Zenon DEF DevNext, DeviceStep
<1> QED BY <1>1, <1>2, DevIInvariant, PTL DEF DevSpec, DevStart

-----------------------------------------------------------------------------
(* What is on its way from a client to the device.                         *)

(* Word p of message j of client c, and the number of its payload words.   *)
Wd(c, j, p) == [msg |-> Script[c][j], pos |-> p, n |-> 0]
PW(c, j)    == WordsOf(PayloadLen(Script[c][j]))

(* The words the device has yet to dispatch: a header already in the       *)
(* buffer, then what is in the stream.  The first recv leaves them alone.  *)
InProgress(c) == dev_pc = "payload" /\ connect_fd = c
View(c) == IF InProgress(c) THEN <<buf[4]>> \o stream[c] ELSE stream[c]

(* Client c has sent a header whose payload is still to come; the messages *)
(* it has sent completely, of which one without payload is its header.     *)
Pending(c) == cpc[c] = "payload" /\ PW(c, cmsg[c]) # 0
WholeSent(c) ==
    IF cpc[c] \in {"connect", "refused"} THEN 0
    ELSE IF cpc[c] = "header" \/ Pending(c) THEN cmsg[c] - 1
    ELSE IF cpc[c] = "payload" THEN cmsg[c] ELSE Len(Script[c])

(* Message j of c starts at v[i]: it is all there, followed by the header  *)
(* of the next message or last of the `sent' messages sent completely; or  *)
(* only its header has been sent.                                          *)
Complete(c, v, i, j, pend, sent) ==
    /\ i + PW(c, j) <= Len(v)
    /\ \A x \in i .. i + PW(c, j) : v[x] = Wd(c, j, x - i)
    /\ IF i + PW(c, j) < Len(v)
         THEN j + 1 \in 1 .. Len(Script[c]) /\ v[i + PW(c, j) + 1] = Wd(c, j + 1, 0)
         ELSE ~pend /\ sent = j

Begins(c, v, i, j, pend, sent) ==
    /\ j \in 1 .. Len(Script[c])
    /\ v[i] = Wd(c, j, 0)
    /\ \/ Complete(c, v, i, j, pend, sent)
       \/ pend /\ j = sent + 1 /\ i = Len(v)

(* Every header in v begins a message.                                     *)
Laid(c, v, pend, sent) ==
    \A i \in 1 .. Len(v) : v[i].pos = 0 => \E j \in Nat : Begins(c, v, i, j, pend, sent)

(* The first g messages of c are not in v.                                 *)
Starts(c, v, g, pend, sent) ==
    IF v = << >> THEN ~pend /\ sent = g
    ELSE g + 1 \in 1 .. Len(Script[c]) /\ v[1] = Wd(c, g + 1, 0)

(* They are the ones that have been dispatched, and while c is connected   *)
(* nothing has been dispatched after the last of them.                     *)
Done(c, j) == \E i \in 1 .. Len(handled) : handled[i] = Wd(c, j, 0)

Served(c, g) ==
    /\ \A j \in 1 .. Len(Script[c]) : Done(c, j) <=> j <= g
    /\ cpc[c] = "connect" \/ (\E i \in 1 .. Len(queue) : queue[i] = c) => g = 0
    /\ connect_fd = c /\ g > 0 => handled # << >> /\ handled[Len(handled)] = Wd(c, g, 0)

(* A client that died may have left a header without payload, or messages  *)
(* it never sent.                                                          *)
Accounts(c, pend, sent) ==
    cpc[c] # "closed" \/ ~MayDie => (pend <=> Pending(c)) /\ sent = WholeSent(c)

ClientInv(c) ==
    \E pend \in BOOLEAN, sent, g \in Nat :
      /\ Accounts(c, pend, sent)
      /\ Laid(c, View(c), pend, sent)
      /\ Starts(c, View(c), g, pend, sent)
      /\ Served(c, g)

(* A handler of an unplugged device does not run.                          *)
UpInv ==
    /\ watched # "none" => life \in {"up", "dangling"}
    /\ dev_pc = "payload" => life = "up"

StreamInv == life = "up" => \A c \in Clients : ClientInv(c)

OrderInv == UpInv /\ StreamInv /\ ServedInOrder

(* The buffer between two messages.                                        *)
BufWhole == dev_pc \in {"idle", "send"} => WholeMessage(buf)

(* A vCPU is pinned only after a PIN_ON_SAME of the connected client.      *)
PinnedInv ==
    \/ \A v \in VCpus : affinity[v] = PCpus
    \/ /\ connect_fd \in Clients /\ handled # << >>
       /\ \E j \in 1 .. Len(Script[connect_fd]) :
            /\ handled[Len(handled)] = Wd(connect_fd, j, 0)
            /\ Script[connect_fd][j].type = PIN_ON_SAME

(* A message has a whole number of payload words.                          *)
LEMMA PWType ==
    ASSUME NEW c \in Clients, NEW j \in 1 .. Len(Script[c])
    PROVE  PW(c, j) \in Nat
<1>1. PayloadLen(Script[c][j]) \in Nat
  BY ScriptMessage, PayloadLenType, WindowAssumption
<1> QED BY <1>1, WordsOfType DEF PW

(* A header sent after complete messages begins a message.                 *)
LEMMA LaidHeader ==
    ASSUME NEW c \in Clients, NEW v \in Seq(Word), NEW sent \in Nat,
           sent + 1 \in 1 .. Len(Script[c]), Laid(c, v, FALSE, sent),
           NEW pend, pend <=> PW(c, sent + 1) # 0
    PROVE  Laid(c, Append(v, Wd(c, sent + 1, 0)), pend, IF pend THEN sent ELSE sent + 1)
<1> DEFINE m == sent + 1
           w == Append(v, Wd(c, m, 0))
           t == IF pend THEN sent ELSE m
<1>1. /\ Len(v) \in Nat /\ Len(w) = Len(v) + 1
      /\ \A x \in 1 .. Len(v) : w[x] = v[x]
      /\ w[Len(v) + 1] = Wd(c, m, 0)
  OBVIOUS
<1>2. m \in Nat /\ PW(c, m) \in Nat
  BY PWType
<1> SUFFICES ASSUME NEW i \in 1 .. Len(w), w[i].pos = 0
             PROVE  \E j \in Nat : Begins(c, w, i, j, pend, t)
  BY DEF Laid
<1> HIDE DEF w, m, t
<1>3. CASE i = Len(v) + 1
  <2>1. CASE pend
    <3>1. Begins(c, w, i, m, pend, t)
      BY <1>1, <1>3, <2>1 DEF Begins, m, t
    <3> QED BY <3>1, <1>2
  <2>2. CASE ~pend
    <3>1. PW(c, m) = 0
      BY <2>2 DEF m
    <3>2. Complete(c, w, i, m, pend, t)
      BY <1>1, <1>2, <1>3, <2>2, <3>1 DEF Complete, t
    <3>3. Begins(c, w, i, m, pend, t)
      BY <1>1, <1>3, <3>2 DEF Begins, m
    <3> QED BY <3>3, <1>2
  <2> QED BY <2>1, <2>2
<1>4. CASE i \in 1 .. Len(v)
  <2>1. PICK j \in Nat : Begins(c, v, i, j, FALSE, sent)
    BY <1>1, <1>4 DEF Laid
  <2>2. j \in 1 .. Len(Script[c]) /\ PW(c, j) \in Nat
    BY <2>1, PWType DEF Begins
  <2>3. Complete(c, v, i, j, FALSE, sent)
    BY <2>1 DEF Begins
  <2> DEFINE e == i + PW(c, j)
  <2>4. e \in Nat /\ e <= Len(v) /\ \A x \in i .. e : v[x] = Wd(c, j, x - i)
    BY <2>2, <2>3 DEF Complete
  <2>5. \A x \in i .. e : w[x] = Wd(c, j, x - i)
    BY <1>1, <1>4, <2>4
  <2>6. j + 1 \in 1 .. Len(Script[c]) /\ w[e + 1] = Wd(c, j + 1, 0)
    <3>1. CASE e < Len(v)
      BY <1>1, <2>3, <2>4, <3>1 DEF Complete
    <3>2. CASE e = Len(v)
      BY <1>1, <2>3, <3>2 DEF Complete, m
    <3> QED BY <1>1, <2>4, <3>1, <3>2
  <2>7. Complete(c, w, i, j, pend, t)
    BY <1>1, <2>4, <2>5, <2>6 DEF Complete
  <2>8. Begins(c, w, i, j, pend, t)
    BY <1>1, <1>4, <2>1, <2>7 DEF Begins
  <2> QED BY <2>8
<1> QED BY <1>1, <1>3, <1>4

(* The payload completes the message whose header came last.               *)
LEMMA LaidPayload ==
    ASSUME NEW c \in Clients, NEW v \in Seq(Word), NEW sent \in Nat,
           sent + 1 \in 1 .. Len(Script[c]), Laid(c, v, TRUE, sent),
           NEW w \in Seq(Word), Len(w) = Len(v) + PW(c, sent + 1),
           \A x \in 1 .. Len(v) : w[x] = v[x],
           \A x \in 1 .. PW(c, sent + 1) : w[Len(v) + x] = Wd(c, sent + 1, x)
    PROVE  Laid(c, w, FALSE, sent + 1)
<1> DEFINE m == sent + 1
<1>1. Len(v) \in Nat /\ m \in Nat /\ PW(c, m) \in Nat
  BY PWType
<1> SUFFICES ASSUME NEW i \in 1 .. Len(w), w[i].pos = 0
             PROVE  \E j \in Nat : Begins(c, w, i, j, FALSE, m)
  BY DEF Laid
<1>2. i \in 1 .. Len(v)
  <2> SUFFICES ASSUME i > Len(v)
               PROVE  FALSE
    BY <1>1
  <2>1. i - Len(v) \in 1 .. PW(c, m) /\ Len(v) + (i - Len(v)) = i
    BY <1>1
  <2>2. w[i] = Wd(c, m, i - Len(v))
    BY <2>1
  <2>3. w[i].pos = i - Len(v)
    BY <2>2 DEF Wd
  <2> QED BY <2>1, <2>3
<1>3. PICK j \in Nat : Begins(c, v, i, j, TRUE, sent)
  BY <1>2 DEF Laid
<1>4. j \in 1 .. Len(Script[c]) /\ PW(c, j) \in Nat
  BY <1>3, PWType DEF Begins
<1> DEFINE e == i + PW(c, j)
<1> HIDE DEF m
<1>5. CASE Complete(c, v, i, j, TRUE, sent)
  <2>1. e \in Nat /\ e < Len(v)
    BY <1>1, <1>4, <1>5 DEF Complete
  <2>2. \A x \in i .. e : w[x] = Wd(c, j, x - i)
    <3> TAKE x \in i .. e
    <3>1. v[x] = Wd(c, j, x - i)
      BY <1>5 DEF Complete
    <3>2. x \in 1 .. Len(v)
      BY <1>1, <1>2, <1>4, <2>1
    <3> QED BY <3>1, <3>2
  <2>3. j + 1 \in 1 .. Len(Script[c]) /\ w[e + 1] = Wd(c, j + 1, 0)
    <3>1. j + 1 \in 1 .. Len(Script[c]) /\ v[e + 1] = Wd(c, j + 1, 0)
      BY <1>5, <2>1 DEF Complete
    <3>2. e + 1 \in 1 .. Len(v)
      BY <1>1, <2>1
    <3> QED BY <3>1, <3>2
  <2>4. e < Len(w)
    BY <1>1, <2>1 DEF m
  <2>5. Complete(c, w, i, j, FALSE, m)
    BY <2>1, <2>2, <2>3, <2>4 DEF Complete
  <2> QED BY <1>2, <1>3, <2>5 DEF Begins
<1>6. CASE j = m /\ i = Len(v)
  <2>1. e = Len(w)
    BY <1>6 DEF m
  <2>2. \A x \in i .. e : w[x] = Wd(c, j, x - i)
    <3> TAKE x \in i .. e
    <3>1. CASE x = i
      BY <1>1, <1>2, <1>3, <3>1 DEF Begins
    <3>2. CASE x # i
      <4>1. x - i \in 1 .. PW(c, m) /\ Len(v) + (x - i) = x
        BY <1>1, <1>4, <1>6, <3>2
      <4> QED BY <4>1, <1>6 DEF m
    <3> QED BY <3>1, <3>2
  <2>3. Complete(c, w, i, j, FALSE, m)
    BY <1>6, <2>1, <2>2 DEF Complete
  <2> QED BY <1>2, <1>3, <2>3 DEF Begins
<1> QED BY <1>3, <1>5, <1>6 DEF Begins, m

(* Dispatching the first message leaves the next one in front.             *)
LEMMA LaidDrop ==
    ASSUME NEW c \in Clients, NEW v \in Seq(Word), NEW sent \in Nat, NEW pend \in BOOLEAN,
           NEW g \in Nat, g + 1 \in 1 .. Len(Script[c]),
           Laid(c, v, pend, sent), Complete(c, v, 1, g + 1, pend, sent),
           NEW w \in Seq(Word), Len(w) = Len(v) - (PW(c, g + 1) + 1),
           \A x \in 1 .. Len(w) : w[x] = v[x + PW(c, g + 1) + 1]
    PROVE  Laid(c, w, pend, sent) /\ Starts(c, w, g + 1, pend, sent)
<1> DEFINE d == PW(c, g + 1) + 1
<1>1. Len(v) \in Nat /\ d \in Nat /\ d >= 1 /\ PW(c, g + 1) \in Nat
  BY PWType
<1>2. Len(w) \in Nat /\ Len(w) = Len(v) - d /\ \A x \in 1 .. Len(w) : w[x] = v[x + d]
  BY <1>1
<1>3. Starts(c, w, g + 1, pend, sent)
  <2>1. CASE w = << >>
    <3>1. ~(1 + PW(c, g + 1) < Len(v))
      BY <1>1, <1>2, <2>1
    <3> QED BY <2>1, <3>1 DEF Complete, Starts
  <2>2. CASE w # << >>
    <3>1. Len(w) >= 1
      BY <2>2, <1>2, EmptySeq
    <3>2. 1 + PW(c, g + 1) < Len(v)
      BY <1>1, <1>2, <3>1
    <3>3. (g + 1) + 1 \in 1 .. Len(Script[c]) /\ v[1 + PW(c, g + 1) + 1] = Wd(c, (g + 1) + 1, 0)
      BY <3>2 DEF Complete
    <3>4. w[1] = v[1 + d] /\ 1 + d = 1 + PW(c, g + 1) + 1
      BY <1>1, <1>2, <3>1
    <3> QED BY <2>2, <3>3, <3>4 DEF Starts
  <2> QED BY <2>1, <2>2
<1> HIDE DEF d
<1>4. ASSUME NEW i \in 1 .. Len(w), w[i].pos = 0
      PROVE  \E j \in Nat : Begins(c, w, i, j, pend, sent)
  <2>1. i + d \in 1 .. Len(v) /\ v[i + d].pos = 0
    BY <1>1, <1>2, <1>4
  <2>2. PICK j \in Nat : Begins(c, v, i + d, j, pend, sent)
    BY <2>1 DEF Laid
  <2>3. j \in 1 .. Len(Script[c]) /\ PW(c, j) \in Nat
    BY <2>2, PWType DEF Begins
  <2>4. CASE Complete(c, v, i + d, j, pend, sent)
    <3>1. (i + PW(c, j)) + d = (i + d) + PW(c, j) /\ i + PW(c, j) \in Nat
      BY <1>1, <2>3
    <3>2. i + PW(c, j) <= Len(w)
      BY <1>1, <1>2, <2>3, <2>4 DEF Complete
    <3>3. \A x \in i .. i + PW(c, j) : w[x] = Wd(c, j, x - i)
      <4> TAKE x \in i .. i + PW(c, j)
      <4>1. x + d \in i + d .. (i + d) + PW(c, j) /\ (x + d) - (i + d) = x - i /\ x \in 1 .. Len(w)
        BY <1>1, <1>2, <2>3, <3>2
      <4>2. v[x + d] = Wd(c, j, (x + d) - (i + d))
        BY <2>4, <4>1 DEF Complete
      <4> QED BY <1>2, <4>1, <4>2
    <3>4. CASE i + PW(c, j) < Len(w)
      <4>1. (i + d) + PW(c, j) < Len(v)
        BY <1>1, <1>2, <2>3, <3>4
      <4>2. j + 1 \in 1 .. Len(Script[c]) /\ v[(i + d) + PW(c, j) + 1] = Wd(c, j + 1, 0)
        BY <2>4, <4>1 DEF Complete
      <4>3. (i + PW(c, j) + 1) + d = (i + d) + PW(c, j) + 1
        BY <1>1, <2>3
      <4>4. i + PW(c, j) + 1 \in 1 .. Len(w)
        BY <1>2, <3>1, <3>4
      <4>5. w[i + PW(c, j) + 1] = Wd(c, j + 1, 0)
        BY <1>2, <4>2, <4>3, <4>4
      <4> QED BY <2>2, <2>3, <1>2, <3>2, <3>3, <3>4, <4>2, <4>5 DEF Begins, Complete
    <3>5. CASE ~(i + PW(c, j) < Len(w))
      <4>1. ~((i + d) + PW(c, j) < Len(v))
        BY <1>1, <1>2, <2>3, <3>5
      <4>2. ~pend /\ sent = j
        BY <2>4, <4>1 DEF Complete
      <4>3. Complete(c, w, i, j, pend, sent)
        BY <3>2, <3>3, <3>5, <4>2 DEF Complete
      <4> QED BY <2>2, <1>2, <4>3 DEF Begins
    <3> QED BY <3>4, <3>5
  <2>5. CASE pend /\ j = sent + 1 /\ i + d = Len(v)
    <3>1. i = Len(w)
      BY <1>1, <1>2, <2>5
    <3>2. Begins(c, w, i, j, pend, sent)
      BY <1>2, <2>2, <2>5, <3>1 DEF Begins
    <3> QED BY <3>2
  <2> QED BY <2>2, <2>4, <2>5 DEF Begins
<1> QED BY <1>3, <1>4 DEF Laid

(* No two messages of the clients are the same: their ids differ.          *)
DistinctMessages ==
    \A c, d \in Clients : \A i \in 1 .. Len(Script[c]), j \in 1 .. Len(Script[d]) :
      Script[c][i] = Script[d][j] => c = d /\ i = j

(* What has yet to be dispatched is a sequence of words.                   *)
LEMMA ViewType ==
    ASSUME DevIInv, NEW c \in Clients
    PROVE  View(c) \in Seq(Word)
<1>1. stream[c] \in Seq(Word)
  BY DEF DevIInv, DevTypeInv, HostTypeOK
<1>2. buf[4] \in Word
  BY WindowAssumption DEF DevIInv, DevTypeInv, DevTypeOK, Slots
<1>3. <<buf[4]>> \in Seq(Word)
  BY <1>2
<1>4. <<buf[4]>> \o stream[c] \in Seq(Word)
  BY <1>1, <1>3, ConcatProperties
<1> QED BY <1>1, <1>4 DEF View

(* A step that leaves alone what c has sent and what was dispatched.       *)
LEMMA ClientKept ==
    ASSUME NEW c \in Clients, ClientInv(c), View(c)' = View(c),
           cpc'[c] = cpc[c], cmsg'[c] = cmsg[c], handled' = handled,
           InQueue(c)' => InQueue(c), connect_fd' = c => connect_fd = c \/ InQueue(c)
    PROVE  ClientInv(c)'
<1>1. PICK pend \in BOOLEAN, sent \in Nat, g \in Nat :
        /\ Accounts(c, pend, sent)
        /\ Laid(c, View(c), pend, sent)
        /\ Starts(c, View(c), g, pend, sent)
        /\ Served(c, g)
  BY DEF ClientInv
<1>2. Accounts(c, pend, sent)'
  BY <1>1 DEF Accounts, Pending, WholeSent
<1>3. Laid(c, View(c)', pend, sent) /\ Starts(c, View(c)', g, pend, sent)
  BY <1>1
<1>4. Served(c, g)'
  <2>1. \A j \in 1 .. Len(Script[c]) : Done(c, j)' <=> j <= g
    BY <1>1 DEF Served, Done
  <2>2. cpc'[c] = "connect" \/ InQueue(c)' => g = 0
    BY <1>1 DEF Served, InQueue
  <2>3. connect_fd' = c /\ g > 0 => handled' # << >> /\ handled'[Len(handled')] = Wd(c, g, 0)
    BY <1>1 DEF Served, InQueue
  <2> QED BY <2>1, <2>2, <2>3 DEF Served, InQueue
<1> QED BY <1>2, <1>3, <1>4 DEF ClientInv

(* A client's step adds nothing to what another has sent.                  *)
LEMMA ViewOther ==
    ASSUME DevIInv, NEW c \in Clients, NEW d \in Clients, c # d, HostStep(d)
    PROVE  View(c)' = View(c) /\ cpc'[c] = cpc[c] /\ cmsg'[c] = cmsg[c]
<1>1. UNCHANGED <<dev_pc, connect_fd, buf>>
  BY DEF HostStep, devVars
<1>2. cpc'[c] = cpc[c] /\ cmsg'[c] = cmsg[c] /\ stream'[c] = stream[c]
  BY DEF HostStep, ClientStep, Connect, SendHeader, SendPayload, Close, Die,
         DevIInv, DevTypeInv, HostTypeOK
<1> QED BY <1>1, <1>2 DEF View, InProgress

(* Steps of another client.                                                *)
LEMMA ClientOther ==
    ASSUME DevIInv, NEW c \in Clients, NEW d \in Clients, c # d, HostStep(d), ClientInv(c)
    PROVE  ClientInv(c)'
<1>1. UNCHANGED <<connect_fd, handled>>
  BY DEF HostStep, devVars
<1>2. queue' = queue \/ queue' = Append(queue, d)
  BY DEF HostStep, ClientStep, Connect, SendHeader, SendPayload, Close, Die
<1>3. InQueue(c)' => InQueue(c)
  <2>1. CASE queue' = queue
    BY <2>1 DEF InQueue
  <2>2. CASE queue' = Append(queue, d)
    <3>1. queue \in Seq(Clients)
      BY DEF DevIInv, DevTypeInv, HostTypeOK
    <3>2. \A i \in 1 .. Len(queue') : queue'[i] = d \/ (i \in 1 .. Len(queue) /\ queue'[i] = queue[i])
      BY <2>2, <3>1
    <3> QED BY <3>2 DEF InQueue
  <2> QED BY <1>2, <2>1, <2>2
<1> QED BY <1>1, <1>3, ViewOther, ClientKept

(* What a client's own step leaves alone.                                  *)
LEMMA ServedHost ==
    ASSUME NEW c \in Clients, HostStep(c), NEW g \in Nat, Served(c, g), queue' = queue,
           cpc'[c] # "connect"
    PROVE  Served(c, g)'
BY DEF HostStep, devVars, Served, Done

(* Connecting puts into the queue a client of which nothing is dispatched. *)
LEMMA ClientConnect ==
    ASSUME DevIInv, NEW c \in Clients, HostStep(c), Connect(c, TRUE), ClientInv(c)
    PROVE  ClientInv(c)'
<1>1. PICK pend \in BOOLEAN, sent \in Nat, g \in Nat :
        /\ Accounts(c, pend, sent)
        /\ Laid(c, View(c), pend, sent)
        /\ Starts(c, View(c), g, pend, sent)
        /\ Served(c, g)
  BY DEF ClientInv
<1>2. cpc[c] = "connect" /\ cmsg[c] = 1 /\ cmsg'[c] = 1 /\ g = 0
  BY <1>1 DEF Connect, DevIInv, DevTypeInv, HostTypeOK, Served
<1>3. ~pend /\ sent = 0
  BY <1>1, <1>2 DEF Accounts, Pending, WholeSent
<1>4. /\ cpc'[c] \in {"header", "close", "refused"}
      /\ cpc'[c] = "close" => Len(Script[c]) = 0
  BY EmptySeq, HostAssumption DEF Connect, DevIInv, DevTypeInv, HostTypeOK
<1>5. Accounts(c, pend, sent)'
  BY <1>2, <1>3, <1>4 DEF Accounts, Pending, WholeSent
<1>6. View(c)' = View(c)
  BY DEF HostStep, devVars, Connect, View, InProgress
<1>7. Served(c, g)'
  BY <1>1, <1>2, <1>4 DEF HostStep, devVars, Served, Done
<1> QED BY <1>1, <1>5, <1>6, <1>7 DEF ClientInv

(* What c has sent and its view, when c sends a header.                    *)
LEMMA ViewHeader ==
    ASSUME DevIInv, NEW c \in Clients, HostStep(c), SendHeader(c)
    PROVE  View(c)' = Append(View(c), Wd(c, cmsg[c], 0))
<1> DEFINE h == Wd(c, cmsg[c], 0)
<1>1. cmsg[c] \in 1 .. Len(Script[c])
  BY DEF SendHeader, DevIInv, DevTypeInv, HostTypeOK
<1>2. stream[c] \in Seq(Word) /\ buf[4] \in Word /\ h \in Word
  <2>1. stream[c] \in Seq(Word)
    BY DEF DevIInv, DevTypeInv, HostTypeOK
  <2>2. buf[4] \in Word
    BY WindowAssumption DEF DevIInv, DevTypeInv, DevTypeOK, Slots
  <2>3. h = HeaderWord(Script[c][cmsg[c]])
    BY DEF HeaderWord, Wd
  <2>4. Script[c][cmsg[c]] \in Message
    BY <1>1, ScriptMessage
  <2>5. h \in Word
    BY <2>3, <2>4, HeaderWordType
  <2> QED BY <2>1, <2>2, <2>5
<1>3. stream'[c] = Append(stream[c], h)
  BY DEF SendHeader, DevIInv, DevTypeInv, HostTypeOK, HeaderWord, Wd
<1>4. UNCHANGED <<dev_pc, connect_fd, buf>>
  BY DEF HostStep, devVars
<1>5. <<buf[4]>> \o Append(stream[c], h) = Append(<<buf[4]>> \o stream[c], h)
  BY <1>2
<1> QED BY <1>3, <1>4, <1>5 DEF View, InProgress

(* The header goes to the end of the stream.                               *)
LEMMA ClientHeader ==
    ASSUME DevIInv, NEW c \in Clients, HostStep(c), SendHeader(c), ClientInv(c)
    PROVE  ClientInv(c)'
<1>1. PICK pend \in BOOLEAN, sent \in Nat, g \in Nat :
        /\ Accounts(c, pend, sent)
        /\ Laid(c, View(c), pend, sent)
        /\ Starts(c, View(c), g, pend, sent)
        /\ Served(c, g)
  BY DEF ClientInv
<1>2. /\ cpc[c] = "header" /\ cmsg[c] \in 1 .. Len(Script[c]) /\ cmsg'[c] = cmsg[c]
      /\ cpc'[c] = "payload" /\ queue' = queue
  BY DEF SendHeader, DevIInv, DevTypeInv, HostTypeOK
<1>3. pend = FALSE /\ sent = cmsg[c] - 1 /\ sent + 1 = cmsg[c]
  BY <1>1, <1>2 DEF Accounts, Pending, WholeSent
<1> DEFINE h == Wd(c, sent + 1, 0)
           p == PW(c, sent + 1) # 0
           t == IF p THEN sent ELSE sent + 1
<1>4. View(c)' = Append(View(c), h)
  BY <1>3, ViewHeader
<1>5. View(c) \in Seq(Word)
  BY ViewType
<1>6. Laid(c, View(c)', p, t)
  <2>1. sent + 1 \in 1 .. Len(Script[c])
    BY <1>2, <1>3
  <2>2. Laid(c, View(c), FALSE, sent)
    BY <1>1, <1>3
  <2> QED BY <1>4, <1>5, <2>1, <2>2, LaidHeader
<1>7. Starts(c, View(c)', g, p, t)
  <2>1. Len(View(c)') = Len(View(c)) + 1 /\ Len(View(c)) \in Nat /\ View(c)' # << >>
    BY <1>4, <1>5
  <2>2. CASE View(c) = << >>
    <3>1. g = sent /\ View(c)'[1] = h
      BY <1>1, <1>4, <2>2 DEF Starts
    <3> QED BY <1>2, <1>3, <2>1, <3>1 DEF Starts
  <2>3. CASE View(c) # << >>
    <3>1. View(c)'[1] = View(c)[1]
      BY <1>4, <1>5, <2>3, EmptySeq
    <3> QED BY <1>1, <2>1, <2>3, <3>1 DEF Starts
  <2> QED BY <2>2, <2>3
<1>8. Accounts(c, p, t)'
  BY <1>2, <1>3 DEF Accounts, Pending, WholeSent
<1>9. Served(c, g)'
  BY <1>1, <1>2, ServedHost
<1>10. p \in BOOLEAN /\ t \in Nat
  BY <1>3
<1> HIDE DEF p, t
<1> QED BY <1>6, <1>7, <1>8, <1>9, <1>10 DEF ClientInv

(* What c has sent, when c sends a payload.                                *)
LEMMA ViewPayload ==
    ASSUME DevIInv, NEW c \in Clients, HostStep(c), SendPayload(c), NEW m, m = cmsg[c]
    PROVE  /\ View(c) \in Seq(Word) /\ View(c)' \in Seq(Word)
           /\ Len(View(c)') = Len(View(c)) + PW(c, m)
           /\ \A x \in 1 .. Len(View(c)) : View(c)'[x] = View(c)[x]
           /\ \A x \in 1 .. PW(c, m) : View(c)'[Len(View(c)) + x] = Wd(c, m, x)
<1> DEFINE ws == PayloadWords(Script[c][m])
           v == View(c)
           w == View(c)'
<1>1. m \in 1 .. Len(Script[c])
  BY DEF SendPayload, DevIInv, DevTypeInv, HostTypeOK
<1>2. /\ ws \in Seq(Word) /\ Len(ws) = PW(c, m)
      /\ \A x \in 1 .. PW(c, m) : ws[x] = Wd(c, m, x)
  <2>1. ws \in Seq(Word) /\ PW(c, m) \in Nat
    BY <1>1, ScriptMessage, PayloadWordsType, PWType
  <2>2. DOMAIN ws = 1 .. PW(c, m) /\ \A x \in 1 .. PW(c, m) : ws[x] = Wd(c, m, x)
    BY DEF PayloadWords, PayloadWord, PW, Wd
  <2>3. Len(ws) = PW(c, m)
    BY <2>1, <2>2, LenProperties
  <2> QED BY <2>1, <2>2, <2>3
<1>3. stream[c] \in Seq(Word) /\ buf[4] \in Word
  BY WindowAssumption DEF DevIInv, DevTypeInv, HostTypeOK, DevTypeOK, Slots
<1>4. stream'[c] = stream[c] \o ws
  BY DEF SendPayload, DevIInv, DevTypeInv, HostTypeOK
<1>5. UNCHANGED <<dev_pc, connect_fd, buf>>
  BY DEF HostStep, devVars
<1> HIDE DEF ws
<1>6. <<buf[4]>> \o (stream[c] \o ws) = (<<buf[4]>> \o stream[c]) \o ws
  <2> DEFINE h == <<buf[4]>>
             s == stream[c]
  <2>1. h \in Seq(Word) /\ s \in Seq(Word) /\ ws \in Seq(Word)
    BY <1>2, <1>3
  <2> HIDE DEF h, s
  <2>2. (h \o s) \o ws = h \o (s \o ws)
    BY <2>1, ConcatAssociative
  <2> QED BY <2>2 DEF h, s
<1>7. w = v \o ws
  BY <1>4, <1>5, <1>6 DEF View, InProgress
<1>8. v \in Seq(Word)
  BY ViewType
<1> HIDE DEF v, w
<1>9. w \in Seq(Word) /\ Len(w) = Len(v) + Len(ws)
  BY <1>2, <1>7, <1>8, ConcatProperties
<1>10. \A x \in 1 .. Len(v) : w[x] = v[x]
  BY <1>2, <1>7, <1>8
<1>11. \A x \in 1 .. PW(c, m) : w[Len(v) + x] = ws[x]
  BY <1>2, <1>7, <1>8
<1> QED BY <1>2, <1>8, <1>9, <1>10, <1>11 DEF v, w

(* The payload completes the message, unless it is empty.                  *)
LEMMA ClientPayload ==
    ASSUME DevIInv, NEW c \in Clients, HostStep(c), SendPayload(c), ClientInv(c)
    PROVE  ClientInv(c)'
<1>1. PICK pend \in BOOLEAN, sent \in Nat, g \in Nat :
        /\ Accounts(c, pend, sent)
        /\ Laid(c, View(c), pend, sent)
        /\ Starts(c, View(c), g, pend, sent)
        /\ Served(c, g)
  BY DEF ClientInv
<1>0. PICK m : m = cmsg[c]
  OBVIOUS
<1>2. cpc[c] = "payload" /\ m \in 1 .. Len(Script[c]) /\ queue' = queue /\ Len(Script[c]) \in Nat
  BY <1>0, HostAssumption DEF SendPayload, DevIInv, DevTypeInv, HostTypeOK
<1>3. /\ m < Len(Script[c]) => cpc'[c] = "header" /\ cmsg'[c] = m + 1
      /\ ~(m < Len(Script[c])) => cpc'[c] = "close" /\ Len(Script[c]) = m
  BY <1>0, <1>2 DEF SendPayload, DevIInv, DevTypeInv, HostTypeOK
<1>4. cpc'[c] \in {"header", "close"} /\ ~Pending(c)' /\ WholeSent(c)' = m
  <2>1. CASE m < Len(Script[c])
    BY <1>2, <1>3, <2>1 DEF Pending, WholeSent
  <2>2. CASE ~(m < Len(Script[c]))
    BY <1>2, <1>3, <2>2 DEF Pending, WholeSent
  <2> QED BY <2>1, <2>2
<1>5. Accounts(c, FALSE, m)'
  BY <1>4 DEF Accounts
<1>6. Served(c, g)'
  BY <1>1, <1>2, <1>4, ServedHost
<1>7. PW(c, m) \in Nat /\ m \in Nat
  BY <1>2, PWType
<1> DEFINE v == View(c)
           w == View(c)'
<1>8. /\ v \in Seq(Word) /\ w \in Seq(Word) /\ Len(w) = Len(v) + PW(c, m)
      /\ \A x \in 1 .. Len(v) : w[x] = v[x]
      /\ \A x \in 1 .. PW(c, m) : w[Len(v) + x] = Wd(c, m, x)
  BY <1>0, ViewPayload
<1>9. CASE PW(c, m) = 0
  <2>1. pend = FALSE /\ sent = m
    BY <1>0, <1>1, <1>2, <1>9 DEF Accounts, Pending, WholeSent
  <2>2. w = v
    <3> HIDE DEF v, w
    <3> QED BY <1>8, <1>9, SeqEqual
  <2>3. Laid(c, w, FALSE, m) /\ Starts(c, w, g, FALSE, m)
    BY <1>1, <2>1, <2>2
  <2> QED BY <1>5, <1>6, <1>7, <2>3 DEF ClientInv
<1>10. CASE PW(c, m) # 0
  <2>1. pend = TRUE /\ sent = m - 1 /\ sent + 1 = m
    BY <1>0, <1>1, <1>2, <1>10 DEF Accounts, Pending, WholeSent
  <2>2. v # << >> /\ g + 1 \in 1 .. Len(Script[c]) /\ v[1] = Wd(c, g + 1, 0)
    BY <1>1, <2>1 DEF Starts
  <2>3. Laid(c, w, FALSE, m)
    <3> HIDE DEF v, w
    <3>1. Laid(c, v, TRUE, sent)
      BY <1>1, <2>1 DEF v
    <3>2. sent + 1 \in 1 .. Len(Script[c])
      BY <1>2, <2>1
    <3>3. Laid(c, w, FALSE, sent + 1)
      BY <1>8, <2>1, <3>1, <3>2, LaidPayload
    <3> QED BY <2>1, <3>3
  <2>4. Starts(c, w, g, FALSE, m)
    <3> HIDE DEF v, w
    <3>1. Len(v) \in Nat /\ Len(v) >= 1
      BY <1>8, <2>2, EmptySeq
    <3>2. w # << >> /\ w[1] = v[1]
      BY <1>7, <1>8, <3>1, EmptySeq
    <3> QED BY <2>2, <3>2 DEF Starts
  <2> QED BY <1>5, <1>6, <1>7, <2>3, <2>4 DEF ClientInv
<1> QED BY <1>9, <1>10

(* Closing, and dying, change what the client will send, not what it sent. *)
LEMMA ClientClose ==
    ASSUME DevIInv, NEW c \in Clients, HostStep(c), Close(c) \/ Die(c), ClientInv(c)
    PROVE  ClientInv(c)'
<1>1. PICK pend \in BOOLEAN, sent \in Nat, g \in Nat :
        /\ Accounts(c, pend, sent)
        /\ Laid(c, View(c), pend, sent)
        /\ Starts(c, View(c), g, pend, sent)
        /\ Served(c, g)
  BY DEF ClientInv
<1>2. cpc'[c] = "closed" /\ UNCHANGED <<cmsg, stream, queue>> /\ (MayDie \/ cpc[c] = "close")
  BY DEF Close, Die, DevIInv, DevTypeInv, HostTypeOK
<1>3. Accounts(c, pend, sent)'
  <2>1. CASE MayDie
    BY <1>2, <2>1 DEF Accounts
  <2>2. CASE cpc[c] = "close"
    BY <1>1, <1>2, <2>2 DEF Accounts, Pending, WholeSent
  <2> QED BY <1>2, <2>1, <2>2
<1>4. View(c)' = View(c)
  BY <1>2 DEF HostStep, devVars, View, InProgress
<1>5. Served(c, g)'
  BY <1>1, <1>2, ServedHost
<1> QED BY <1>1, <1>3, <1>4, <1>5 DEF ClientInv

(* Every step of a client, while the device listens.                       *)
LEMMA ClientSteps ==
    ASSUME DevIInv, life = "up", NEW c \in Clients, NEW d \in Clients, HostStep(d), ClientInv(c)
    PROVE  ClientInv(c)'
<1>1. CASE c # d
  BY <1>1, ClientOther
<1>2. CASE c = d
  <2>1. Connect(c, TRUE) \/ SendHeader(c) \/ SendPayload(c) \/ Close(c) \/ Die(c)
    BY <1>2 DEF HostStep, ClientStep
  <2> QED BY <1>2, <2>1, ClientConnect, ClientHeader, ClientPayload, ClientClose
<1> QED BY <1>1, <1>2

(* Accepting a client takes it out of the queue, and nothing of it has     *)
(* been dispatched.                                                        *)
LEMMA ClientListen ==
    ASSUME DevIInv, handle_listenfd, NEW c \in Clients, ClientInv(c)
    PROVE  ClientInv(c)'
<1>1. UNCHANGED <<cpc, cmsg, stream, dev_pc, buf, handled>> /\ dev_pc = "idle"
  BY DEF handle_listenfd
<1>2. View(c)' = View(c)
  BY <1>1 DEF View, InProgress
<1>3. /\ Head(queue) = queue[1] /\ Len(queue) \in Nat /\ Len(queue) >= 1
      /\ Len(Tail(queue)) = Len(queue) - 1
      /\ \A i \in 1 .. Len(Tail(queue)) : Tail(queue)[i] = queue[i + 1]
  BY HeadTailProperties, EmptySeq DEF handle_listenfd, DevIInv, DevTypeInv, HostTypeOK
<1>4. InQueue(c)' => InQueue(c)
  <2>1. CASE queue' = queue
    BY <2>1 DEF InQueue
  <2>2. CASE queue' = Tail(queue)
    BY <1>3, <2>2 DEF InQueue
  <2> QED BY <2>1, <2>2 DEF handle_listenfd
<1>5. connect_fd' = c => InQueue(c)
  <2>1. connect_fd' = queue[1] \/ connect_fd' = NoClient
    BY <1>3 DEF handle_listenfd
  <2> QED BY <1>3, <2>1, DeviceAssumption DEF InQueue
<1> QED BY <1>1, <1>2, <1>4, <1>5, ClientKept

(* The first recv moves a header from the stream to the buffer.            *)
LEMMA ViewFirstRecv ==
    ASSUME DevIInv, handle_acceptfd_header, NEW c \in Clients
    PROVE  View(c)' = View(c)
<1>1. connect_fd' = connect_fd
  BY DEF handle_acceptfd_header, sockVars
<1>2. connect_fd \in Clients /\ dev_pc = "idle" /\ dev_pc' = "payload"
  BY DEF handle_acceptfd_header, DevIInv, DevTypeInv, DevTypeOK, SocketInv
<1>3. CASE c # connect_fd
  <2>1. stream'[c] = stream[c]
    BY <1>3 DEF handle_acceptfd_header, DevIInv, DevTypeInv, HostTypeOK
  <2> QED BY <1>1, <1>3, <2>1 DEF View, InProgress
<1>4. CASE c = connect_fd
  <2> DEFINE s == stream[c]
  <2>1. s \in Seq(Word) /\ s # << >> /\ stream'[c] = Tail(s)
    BY <1>2, <1>4 DEF handle_acceptfd_header, DevIInv, DevTypeInv, HostTypeOK
  <2>2. buf'[4] = Head(s)
    BY <1>4, WindowAssumption DEF handle_acceptfd_header, DevIInv, DevTypeInv, DevTypeOK, Slots
  <2>3. View(c) = s /\ View(c)' = <<Head(s)>> \o Tail(s)
    BY <1>1, <1>2, <1>4, <2>1, <2>2 DEF View, InProgress
  <2> HIDE DEF s
  <2>4. <<Head(s)>> \o Tail(s) = s
    BY <2>1
  <2> QED BY <2>3, <2>4
<1> QED BY <1>3, <1>4

(* Nothing is dispatched by it.                                            *)
LEMMA ClientFirstRecv ==
    ASSUME DevIInv, handle_acceptfd_header, NEW c \in Clients, ClientInv(c)
    PROVE  ClientInv(c)'
<1>1. UNCHANGED <<cpc, cmsg, queue, connect_fd, handled>>
  BY DEF handle_acceptfd_header, sockVars
<1>2. InQueue(c)' => InQueue(c)
  BY <1>1 DEF InQueue
<1> QED BY <1>1, <1>2, ViewFirstRecv, ClientKept

(* While the device waits for the payload, the header in the buffer is     *)
(* that of the first message not yet dispatched, and unless its sender     *)
(* never sent it the payload follows.                                      *)
LEMMA InFront ==
    ASSUME DevIInv, DistinctMessages, NEW c \in Clients, InProgress(c),
           NEW pend \in BOOLEAN, NEW sent \in Nat, NEW g \in Nat,
           Laid(c, View(c), pend, sent), Starts(c, View(c), g, pend, sent)
    PROVE  /\ g + 1 \in 1 .. Len(Script[c])
           /\ buf[4] = Wd(c, g + 1, 0)
           /\ Len(View(c)) = Len(stream[c]) + 1
           /\ \A x \in 1 .. Len(stream[c]) : View(c)[x + 1] = stream[c][x]
           /\ \/ Complete(c, View(c), 1, g + 1, pend, sent)
              \/ pend /\ g = sent /\ stream[c] = << >>
<1> DEFINE s == stream[c]
           b == buf[4]
           v == View(c)
<1>1. s \in Seq(Word) /\ b \in Word /\ v = <<b>> \o s
  BY WindowAssumption DEF DevIInv, DevTypeInv, HostTypeOK, DevTypeOK, Slots, View
<1> HIDE DEF s, b, v
<1>2. Len(v) = Len(s) + 1 /\ Len(s) \in Nat /\ v[1] = b /\ v # << >>
  BY <1>1
<1>3. \A x \in 1 .. Len(s) : v[x + 1] = s[x]
  BY <1>1
<1>4. g + 1 \in 1 .. Len(Script[c]) /\ v[1] = Wd(c, g + 1, 0)
  BY <1>2 DEF Starts, v
<1>5. v[1].pos = 0
  BY <1>4 DEF Wd
<1>6. PICK j \in Nat : Begins(c, v, 1, j, pend, sent)
  BY <1>2, <1>5 DEF Laid, v
<1>7. j = g + 1
  <2>1. Wd(c, j, 0).msg = Wd(c, g + 1, 0).msg /\ j \in 1 .. Len(Script[c])
    BY <1>4, <1>6 DEF Begins
  <2>2. Script[c][j] = Script[c][g + 1]
    BY <2>1 DEF Wd
  <2> QED BY <1>4, <2>1, <2>2 DEF DistinctMessages
<1>8. \/ Complete(c, v, 1, g + 1, pend, sent)
      \/ pend /\ g = sent /\ s = << >>
  <2>1. CASE pend /\ j = sent + 1 /\ 1 = Len(v)
    <3>1. g = sent /\ Len(s) = 0
      BY <1>2, <1>7, <2>1
    <3> QED BY <1>1, <2>1, <3>1, EmptySeq
  <2> QED BY <1>6, <1>7, <2>1 DEF Begins
<1> QED BY <1>2, <1>3, <1>4, <1>8 DEF s, b, v

(* What the second recv may return for c.                                  *)
PayloadCounts(c) == RecvCounts(stream[c], WordsOf(HdrLen(buf[4])), Eof(c))

(* The second recv returns the whole payload, or the client has died.      *)
LEMMA RecvWhole ==
    ASSUME DevIInv, DistinctMessages, ShortRecv = FALSE, NEW c \in Clients, InProgress(c),
           NEW pend \in BOOLEAN, NEW sent \in Nat, NEW g \in Nat, Accounts(c, pend, sent),
           Laid(c, View(c), pend, sent), Starts(c, View(c), g, pend, sent),
           NEW k \in PayloadCounts(c)
    PROVE  \/ Complete(c, View(c), 1, g + 1, pend, sent) /\ k = PW(c, g + 1)
           \/ MayDie /\ cpc[c] = "closed" /\ stream[c] = << >> /\ k = 0
<1> DEFINE s == stream[c]
           p == PW(c, g + 1)
<1>1. /\ g + 1 \in 1 .. Len(Script[c])
      /\ buf[4] = Wd(c, g + 1, 0)
      /\ Len(View(c)) = Len(s) + 1
      /\ \/ Complete(c, View(c), 1, g + 1, pend, sent)
         \/ pend /\ g = sent /\ s = << >>
  BY InFront
<1>2. WordsOf(HdrLen(buf[4])) = p
  BY <1>1 DEF HdrLen, Wd, PW
<1>3. p \in Nat /\ s \in Seq(Word) /\ Len(s) \in Nat
  BY <1>1, PWType DEF DevIInv, DevTypeInv, HostTypeOK
<1>4. k \in RecvCounts(s, p, Eof(c))
  BY <1>2 DEF PayloadCounts
<1>5. CASE Complete(c, View(c), 1, g + 1, pend, sent)
  <2>1. p <= Len(s)
    BY <1>1, <1>3, <1>5 DEF Complete
  <2> HIDE DEF s, p
  <2>2. k = p
    <3>1. CASE p = 0
      BY <1>4, <3>1 DEF RecvCounts
    <3>2. CASE p # 0
      <4>1. s # << >>
        BY <1>3, <2>1, <3>2, EmptySeq
      <4> QED BY <1>3, <1>4, <2>1, <3>2, <4>1 DEF RecvCounts
    <3> QED BY <3>1, <3>2
  <2> QED BY <1>5, <2>2 DEF p
<1>6. CASE pend /\ g = sent /\ s = << >>
  <2>1. k = 0
    BY <1>3, <1>4, <1>6 DEF RecvCounts
  <2>2. ASSUME cpc[c] # "closed" \/ ~MayDie
        PROVE  FALSE
    <3>1. Pending(c) /\ sent = WholeSent(c)
      BY <1>6, <2>2 DEF Accounts
    <3>2. cpc[c] = "payload" /\ cmsg[c] \in Nat /\ g + 1 = cmsg[c]
      BY <1>6, <3>1 DEF Pending, WholeSent, DevIInv, DevTypeInv, HostTypeOK
    <3>3. p # 0
      BY <3>1, <3>2 DEF Pending
    <3>4. ~Eof(c)
      BY <3>2 DEF Eof
    <3> QED BY <1>4, <1>6, <3>3, <3>4 DEF RecvCounts
  <2>3. MayDie /\ cpc[c] = "closed"
    BY <2>2, HostAssumption
  <2> QED BY <1>6, <2>1, <2>3
<1> QED BY <1>1, <1>5, <1>6

(* What dispatching message g + 1 of c makes of the messages dispatched.   *)
LEMMA ServedDispatch ==
    ASSUME DevIInv, DistinctMessages, NEW c \in Clients, c = connect_fd, NEW g \in Nat,
           Served(c, g), g + 1 \in 1 .. Len(Script[c]),
           handled' = Append(handled, Wd(c, g + 1, 0)), UNCHANGED <<cpc, queue, connect_fd>>
    PROVE  Served(c, g + 1)'
<1> DEFINE w == Wd(c, g + 1, 0)
<1>1. handled \in Seq(Word) /\ Len(handled) \in Nat
  BY DEF DevIInv, DevTypeInv, DevTypeOK
<1>2. /\ Len(handled') = Len(handled) + 1
      /\ \A i \in 1 .. Len(handled) : handled'[i] = handled[i]
      /\ handled'[Len(handled) + 1] = w
      /\ handled' # << >>
  BY <1>1
<1>3. ASSUME NEW j \in 1 .. Len(Script[c])
      PROVE  Done(c, j)' <=> j <= g + 1
  <2>1. Done(c, j)' <=> Done(c, j) \/ w = Wd(c, j, 0)
    BY <1>1, <1>2 DEF Done
  <2>2. w = Wd(c, j, 0) <=> j = g + 1
    <3>1. ASSUME w = Wd(c, j, 0)
          PROVE  j = g + 1
      <4>1. w.msg = Wd(c, j, 0).msg
        BY <3>1
      <4>2. Script[c][g + 1] = Script[c][j]
        BY <4>1 DEF Wd
      <4> QED BY <4>2 DEF DistinctMessages
    <3> QED BY <3>1
  <2>3. Done(c, j) <=> j <= g
    BY DEF Served
  <2> QED BY <2>1, <2>2, <2>3
<1>4. cpc'[c] # "connect" /\ ~InQueue(c)'
  BY DEF InQueue, DevIInv, SocketInv
<1>5. handled'[Len(handled')] = w
  BY <1>2
<1> QED BY <1>2, <1>3, <1>4, <1>5 DEF Served, InQueue

(* The second recv of c's connection: the next message of c is in front.   *)
LEMMA ClientDispatch ==
    ASSUME DevIInv, DistinctMessages, ShortRecv = FALSE, handle_acceptfd_payload,
           NEW c \in Clients, c = connect_fd, ClientInv(c)
    PROVE  ClientInv(c)'
<1>1. PICK pend \in BOOLEAN, sent \in Nat, g \in Nat :
        /\ Accounts(c, pend, sent)
        /\ Laid(c, View(c), pend, sent)
        /\ Starts(c, View(c), g, pend, sent)
        /\ Served(c, g)
  BY DEF ClientInv
<1>2. InProgress(c) /\ ~InProgress(c)'
  BY DEF handle_acceptfd_payload, InProgress
<1> DEFINE s == stream[c]
           v == View(c)
           w == View(c)'
           p == PW(c, g + 1)
<1>3. /\ g + 1 \in 1 .. Len(Script[c])
      /\ buf[4] = Wd(c, g + 1, 0)
      /\ Len(v) = Len(s) + 1
      /\ \A x \in 1 .. Len(s) : v[x + 1] = s[x]
  BY <1>1, <1>2, InFront
<1>4. PICK k \in PayloadCounts(c) :
        stream' = [stream EXCEPT ![c] = SubSeq(s, k + 1, Len(s))]
  BY DEF handle_acceptfd_payload, PayloadCounts
<1>5. \/ Complete(c, v, 1, g + 1, pend, sent) /\ k = p
      \/ MayDie /\ cpc[c] = "closed" /\ s = << >> /\ k = 0
  BY <1>1, <1>2, <1>4, RecvWhole
<1>6. s \in Seq(Word) /\ Len(s) \in Nat /\ v \in Seq(Word) /\ p \in Nat
  BY <1>3, ViewType, PWType DEF DevIInv, DevTypeInv, HostTypeOK
<1>7. w = SubSeq(s, k + 1, Len(s))
  BY <1>2, <1>4 DEF View, DevIInv, DevTypeInv, HostTypeOK
<1>8. handled' = Append(handled, Wd(c, g + 1, 0)) /\ UNCHANGED <<cpc, cmsg, queue, connect_fd>>
  BY <1>3 DEF handle_acceptfd_payload, sockVars
<1>9. Served(c, g + 1)'
  BY <1>1, <1>3, <1>8, ServedDispatch
<1>10. CASE Complete(c, v, 1, g + 1, pend, sent) /\ k = p
  <2>1. p + 1 <= Len(v)
    BY <1>6, <1>10 DEF Complete
  <2> HIDE DEF s, v, w, p
  <2>2. /\ w \in Seq(Word) /\ Len(w) = Len(s) - p
        /\ \A x \in 1 .. Len(w) : w[x] = s[x + p]
    <3>1. p + 1 \in 1 .. Len(s) + 1
      BY <1>3, <1>6, <2>1
    <3>2. CASE p + 1 <= Len(s)
      BY <1>6, <1>7, <1>10, <3>1, <3>2
    <3>3. CASE p = Len(s)
      BY <1>6, <1>7, <1>10, <3>3
    <3>4. p + 1 <= Len(s) \/ p = Len(s)
      BY <1>6, <3>1
    <3> QED BY <3>2, <3>3, <3>4
  <2>3. Len(w) = Len(v) - (p + 1)
    BY <1>3, <1>6, <2>2
  <2>4. \A x \in 1 .. Len(w) : w[x] = v[x + p + 1]
    BY <1>3, <1>6, <2>2
  <2>5. Laid(c, w, pend, sent) /\ Starts(c, w, g + 1, pend, sent)
    BY <1>1, <1>3, <1>6, <1>10, <2>2, <2>3, <2>4, LaidDrop DEF p, v
  <2>6. Accounts(c, pend, sent)'
    BY <1>1, <1>8 DEF Accounts, Pending, WholeSent
  <2>7. g + 1 \in Nat
    OBVIOUS
  <2> QED BY <1>9, <2>5, <2>6, <2>7 DEF ClientInv, w
<1>11. CASE MayDie /\ cpc[c] = "closed" /\ s = << >> /\ k = 0
  <2> HIDE DEF s
  <2>1. w = << >>
    BY <1>7, <1>11
  <2>2. Laid(c, w, FALSE, g + 1) /\ Starts(c, w, g + 1, FALSE, g + 1)
    BY <2>1 DEF Laid, Starts
  <2>3. Accounts(c, FALSE, g + 1)'
    BY <1>8, <1>11 DEF Accounts
  <2>4. g + 1 \in Nat
    OBVIOUS
  <2> HIDE DEF w
  <2> QED BY <1>9, <2>2, <2>3, <2>4 DEF ClientInv, w
<1> QED BY <1>5, <1>10, <1>11

(* It leaves the messages of the other clients alone.                      *)
LEMMA ClientNotDispatched ==
    ASSUME DevIInv, DistinctMessages, ShortRecv = FALSE, handle_acceptfd_payload,
           connect_fd \in Clients, ClientInv(connect_fd),
           NEW d \in Clients, d # connect_fd, ClientInv(d)
    PROVE  ClientInv(d)'
<1>1. PICK pend \in BOOLEAN, sent \in Nat, g \in Nat :
        /\ Accounts(d, pend, sent)
        /\ Laid(d, View(d), pend, sent)
        /\ Starts(d, View(d), g, pend, sent)
        /\ Served(d, g)
  BY DEF ClientInv
<1>2. UNCHANGED <<cpc, cmsg, queue, connect_fd>> /\ stream'[d] = stream[d]
  BY DEF handle_acceptfd_payload, sockVars, DevIInv, DevTypeInv, HostTypeOK
<1>3. View(d)' = View(d)
  BY <1>2 DEF View, InProgress
<1>4. PICK c : c = connect_fd
  OBVIOUS
<1>5. PICK h \in Nat : h + 1 \in 1 .. Len(Script[c]) /\ buf[4] = Wd(c, h + 1, 0)
  <2>1. c \in Clients /\ ClientInv(c) /\ InProgress(c)
    BY <1>4 DEF handle_acceptfd_payload, InProgress
  <2> QED BY <2>1, InFront DEF ClientInv
<1>6. ASSUME NEW j \in 1 .. Len(Script[d])
      PROVE  Done(d, j)' <=> Done(d, j)
  <2>1. buf[4] # Wd(d, j, 0)
    <3> SUFFICES ASSUME Wd(c, h + 1, 0) = Wd(d, j, 0)
                 PROVE  FALSE
      BY <1>5
    <3>1. Wd(c, h + 1, 0).msg = Wd(d, j, 0).msg
      OBVIOUS
    <3>2. Script[c][h + 1] = Script[d][j]
      BY <3>1 DEF Wd
    <3> QED BY <1>4, <1>5, <3>2 DEF DistinctMessages
  <2>2. handled \in Seq(Word) /\ handled' = Append(handled, buf[4])
    BY DEF handle_acceptfd_payload, DevIInv, DevTypeInv, DevTypeOK
  <2>3. /\ Len(handled') = Len(handled) + 1 /\ Len(handled) \in Nat
        /\ \A i \in 1 .. Len(handled) : handled'[i] = handled[i]
        /\ handled'[Len(handled) + 1] = buf[4]
    BY <2>2
  <2> QED BY <2>1, <2>3 DEF Done
<1>7. Served(d, g)'
  BY <1>1, <1>2, <1>6 DEF Served
<1>8. Accounts(d, pend, sent)'
  BY <1>1, <1>2 DEF Accounts, Pending, WholeSent
<1> QED BY <1>1, <1>3, <1>7, <1>8 DEF ClientInv

(* Guest accesses and a failing send change no message under way: the      *)
(* device does not wait for a payload then.                                *)
LEMMA ClientAside ==
    ASSUME NEW c \in Clients, ClientInv(c), dev_pc # "payload", dev_pc' # "payload",
           UNCHANGED <<cpc, cmsg, stream, queue, handled>>,
           connect_fd' = c => connect_fd = c
    PROVE  ClientInv(c)'
<1>1. View(c)' = View(c)
  BY DEF View, InProgress
<1>2. InQueue(c)' => InQueue(c)
  BY DEF InQueue
<1> QED BY <1>1, <1>2, ClientKept

(* A guest access happens between two messages and leaves the sockets and  *)
(* the messages dispatched alone.                                          *)
LEMMA GuestAside ==
    ASSUME GuestWrite
    PROVE  /\ UNCHANGED <<cpc, cmsg, stream, queue, connect_fd, watched, life, handled>>
           /\ dev_pc = "idle" /\ dev_pc' \in {"idle", "send", "abort"}
<1>1. ASSUME NEW bits \in IrqVals, BufWriteRaise(bits) \/ BufWriteLower(bits)
      PROVE  /\ UNCHANGED <<cpc, cmsg, stream, queue, connect_fd, watched, life, handled, dev_pc>>
             /\ dev_pc = "idle"
  BY <1>1 DEF BufWriteRaise, BufWriteLower, hostVars, sockVars
<1>2. ASSUME NEW mask \in Masks, BufWriteSetAffinity(mask)
      PROVE  /\ UNCHANGED <<cpc, cmsg, stream, queue, connect_fd, watched, life, handled, dev_pc>>
             /\ dev_pc = "idle"
  BY <1>2 DEF BufWriteSetAffinity, hostVars, sockVars
<1>3. ASSUME NEW i \in StoreSlots, BufWriteWord(i, BlankWord)
      PROVE  /\ UNCHANGED <<cpc, cmsg, stream, queue, connect_fd, watched, life, handled, dev_pc>>
             /\ dev_pc = "idle"
  BY <1>3 DEF BufWriteWord, hostVars, sockVars
<1>4. ASSUME NEW i \in IoIndexes, NEW bits \in IrqVals, hucdev_io_write(i, bits)
      PROVE  /\ UNCHANGED <<cpc, cmsg, stream, queue, connect_fd, watched, life, handled>>
             /\ dev_pc = "idle" /\ dev_pc' \in {"idle", "abort"}
  BY <1>4 DEF hucdev_io_write, hostVars, sockVars
<1>5. CASE BufWriteDoorbell
  BY <1>5 DEF BufWriteDoorbell, hostVars
<1> QED BY <1>1, <1>2, <1>3, <1>4, <1>5 DEF GuestWrite

(* Nothing but a second recv dispatches.                                   *)
LEMMA OnlyPayloadHandles ==
    ASSUME [DevNext]_vars, ~handle_acceptfd_payload
    PROVE  handled' = handled
<1>1. CASE \E c \in Clients : HostStep(c)
  BY <1>1 DEF HostStep, devVars
<1>2. CASE DeviceStep
  BY <1>2 DEF DeviceStep, handle_listenfd, handle_acceptfd_eof, handle_acceptfd_header
<1>3. CASE GuestStep
  BY <1>3, GuestAside DEF GuestStep
<1>4. CASE doorbell_epipe
  BY <1>4 DEF doorbell_epipe
<1>5. CASE hucdev_uninit
  BY <1>5 DEF hucdev_uninit
<1>6. CASE UNCHANGED vars
  BY <1>6 DEF vars, devVars
<1> QED BY <1>1, <1>2, <1>3, <1>4, <1>5, <1>6 DEF DevNext

(* A device that is not up runs no handler.                                *)
LEMMA UpInvStep ==
    ASSUME DevIInv, UpInv, [DevNext]_vars
    PROVE  UpInv'
<1>1. ASSUME NEW c \in Clients, HostStep(c)
      PROVE  UpInv'
  BY <1>1 DEF HostStep, devVars, UpInv
<1>2. CASE DeviceStep
  BY <1>2 DEF DeviceStep, handle_listenfd, handle_acceptfd_eof, handle_acceptfd_header,
              handle_acceptfd_payload, sockVars, UpInv
<1>3. CASE GuestStep
  BY <1>3, GuestAside DEF GuestStep, UpInv
<1>4. CASE doorbell_epipe
  BY <1>4 DEF doorbell_epipe, sockVars, UpInv
<1>5. CASE hucdev_uninit
  BY <1>5 DEF hucdev_uninit, UpInv, DevIInv, DevTypeInv, DevTypeOK
<1>6. CASE UNCHANGED vars
  BY <1>6 DEF vars, devVars, UpInv
<1> QED BY <1>1, <1>2, <1>3, <1>4, <1>5, <1>6 DEF DevNext

(* Every step keeps what is known of each client's messages.               *)
LEMMA StreamInvStep ==
    ASSUME DevIInv, UpInv, StreamInv, DistinctMessages, ShortRecv = FALSE, [DevNext]_vars
    PROVE  StreamInv'
<1> SUFFICES ASSUME life' = "up", NEW c \in Clients
             PROVE  ClientInv(c)'
  BY DEF StreamInv
<1>1. life = "up"
  <2>1. CASE \E d \in Clients : HostStep(d)
    BY <2>1 DEF HostStep, devVars
  <2>2. CASE DeviceStep
    BY <2>2 DEF DeviceStep, handle_listenfd, handle_acceptfd_eof, handle_acceptfd_header,
                handle_acceptfd_payload, sockVars
  <2>3. CASE GuestStep
    BY <2>3, GuestAside DEF GuestStep
  <2>4. CASE doorbell_epipe
    BY <2>4 DEF doorbell_epipe, sockVars
  <2>5. CASE hucdev_uninit
    BY <2>5 DEF hucdev_uninit
  <2>6. CASE UNCHANGED vars
    BY <2>6 DEF vars, devVars
  <2> QED BY <2>1, <2>2, <2>3, <2>4, <2>5, <2>6 DEF DevNext
<1>2. ClientInv(c)
  BY <1>1 DEF StreamInv
<1>3. CASE \E d \in Clients : HostStep(d)
  BY <1>1, <1>2, <1>3, ClientSteps
<1>4. CASE handle_listenfd
  BY <1>2, <1>4, ClientListen
<1>5. CASE handle_acceptfd_eof
  <2>1. /\ UNCHANGED <<cpc, cmsg, stream, queue, handled>>
        /\ dev_pc = "idle" /\ dev_pc' = "idle" /\ connect_fd' # c
    BY <1>5, DeviceAssumption DEF handle_acceptfd_eof, hostVars
  <2> QED BY <1>2, <2>1, ClientAside
<1>6. CASE handle_acceptfd_header
  BY <1>2, <1>6, ClientFirstRecv
<1>7. CASE handle_acceptfd_payload
  <2>1. connect_fd \in Clients
    BY <1>7 DEF handle_acceptfd_payload, DevIInv, DevTypeInv, DevTypeOK, SocketInv
  <2>2. ClientInv(connect_fd)
    BY <1>1, <2>1 DEF StreamInv
  <2> QED BY <1>2, <1>7, <2>1, <2>2, ClientDispatch, ClientNotDispatched
<1>8. CASE GuestStep
  <2>1. /\ UNCHANGED <<cpc, cmsg, stream, queue, connect_fd, handled>>
        /\ dev_pc # "payload" /\ dev_pc' # "payload"
    BY <1>8, GuestAside DEF GuestStep
  <2> QED BY <1>2, <2>1, ClientAside
<1>9. CASE doorbell_epipe
  <2>1. /\ UNCHANGED <<cpc, cmsg, stream, queue, connect_fd, handled>>
        /\ dev_pc # "payload" /\ dev_pc' # "payload"
    BY <1>9 DEF doorbell_epipe, hostVars, sockVars
  <2> QED BY <1>2, <2>1, ClientAside
<1>10. CASE hucdev_uninit
  BY <1>10 DEF hucdev_uninit
<1>11. CASE UNCHANGED vars
  <2>1. UNCHANGED <<cpc, cmsg, stream, queue, connect_fd, handled, dev_pc, buf>>
    BY <1>11 DEF vars, hostVars, devVars
  <2>2. View(c)' = View(c) /\ (InQueue(c)' => InQueue(c))
    BY <2>1 DEF View, InProgress, InQueue
  <2> QED BY <1>2, <2>1, <2>2, ClientKept
<1> QED
  BY <1>3, <1>4, <1>5, <1>6, <1>7, <1>8, <1>9, <1>10, <1>11, Zenon DEF DevNext, DeviceStep

(* A dispatch appends the header of the message after the last one of the  *)
(* same connection.                                                        *)
LEMMA ServedInOrderStep ==
    ASSUME DevIInv, UpInv, StreamInv, ServedInOrder, DistinctMessages, [DevNext]_vars
    PROVE  ServedInOrder'
<1>1. CASE ~handle_acceptfd_payload
  BY <1>1, OnlyPayloadHandles DEF ServedInOrder
<1>2. CASE handle_acceptfd_payload
  <2>1. PICK c : c = connect_fd
    OBVIOUS
  <2>2. c \in Clients /\ InProgress(c) /\ ClientInv(c)
    BY <1>2, <2>1 DEF handle_acceptfd_payload, DevIInv, DevTypeInv, DevTypeOK, SocketInv,
                      InProgress, UpInv, StreamInv
  <2>3. PICK g \in Nat : /\ Served(c, g) /\ g + 1 \in 1 .. Len(Script[c])
                         /\ buf[4] = Wd(c, g + 1, 0)
    BY <2>2, InFront DEF ClientInv
  <2> DEFINE h == handled
             w == Wd(c, g + 1, 0)
  <2>4. h \in Seq(Word) /\ handled' = Append(h, w)
    BY <1>2, <2>3 DEF handle_acceptfd_payload, DevIInv, DevTypeInv, DevTypeOK
  <2>5. /\ Len(handled') = Len(h) + 1 /\ Len(h) \in Nat
        /\ \A i \in 1 .. Len(h) : handled'[i] = h[i]
        /\ handled'[Len(h) + 1] = w
        /\ DOMAIN h = 1 .. Len(h) /\ DOMAIN handled' = 1 .. Len(h) + 1
    BY <2>4
  <2>6. ASSUME NEW i \in DOMAIN handled'
        PROVE  \E d \in Clients : \E j \in DOMAIN Script[d] :
                 /\ handled'[i] = HeaderWord(Script[d][j])
                 /\ j > 1 => i > 1 /\ handled'[i - 1] = HeaderWord(Script[d][j - 1])
    <3>1. CASE i \in 1 .. Len(h)
      <4>1. PICK d \in Clients : \E j \in DOMAIN Script[d] :
              /\ h[i] = HeaderWord(Script[d][j])
              /\ j > 1 => i > 1 /\ h[i - 1] = HeaderWord(Script[d][j - 1])
        BY <2>5, <3>1 DEF ServedInOrder
      <4>2. handled'[i] = h[i] /\ (i > 1 => handled'[i - 1] = h[i - 1])
        BY <2>5, <3>1
      <4> QED BY <4>1, <4>2
    <3>2. CASE i = Len(h) + 1
      <4>1. DOMAIN Script[c] = 1 .. Len(Script[c])
        BY <2>2, HostAssumption
      <4>2. handled'[i] = HeaderWord(Script[c][g + 1])
        BY <2>5, <3>2 DEF Wd, HeaderWord
      <4>3. ASSUME g + 1 > 1
            PROVE  i > 1 /\ handled'[i - 1] = HeaderWord(Script[c][(g + 1) - 1])
        <5>1. h # << >> /\ h[Len(h)] = Wd(c, g, 0)
          BY <2>1, <2>3, <4>3 DEF Served
        <5>2. Len(h) >= 1
          BY <2>4, <2>5, <5>1, EmptySeq
        <5>3. i - 1 = Len(h) /\ (g + 1) - 1 = g
          BY <2>5, <3>2
        <5> QED BY <2>5, <3>2, <5>1, <5>2, <5>3 DEF Wd, HeaderWord
      <4> QED BY <2>2, <2>3, <4>1, <4>2, <4>3
    <3> QED BY <2>5, <3>1, <3>2
  <2>7. ASSUME NEW i \in DOMAIN handled', NEW k \in DOMAIN handled', handled'[i] = handled'[k]
        PROVE  i = k
    <3>1. \A x \in 1 .. Len(h) : h[x] # w
      BY <2>3 DEF Served, Done
    <3>2. \A x, y \in 1 .. Len(h) : h[x] = h[y] => x = y
      BY <2>5 DEF ServedInOrder
    <3> QED BY <2>5, <2>7, <3>1, <3>2
  <2> QED BY <2>6, <2>7 DEF ServedInOrder
<1> QED BY <1>1, <1>2

(* The messages under way and the order of dispatch, together.             *)
LEMMA OrderInvariant ==
    ASSUME DistinctMessages, ShortRecv = FALSE
    PROVE  DevSpec => []OrderInv
<1>1. DevStart => OrderInv
  <2> SUFFICES ASSUME HostInit, DevInit
               PROVE  OrderInv
    BY DEF DevStart
  <2>1. UpInv
    BY DEF DevInit, huc_realize, UpInv
  <2>2. ASSUME NEW c \in Clients
        PROVE  ClientInv(c)
    <3>1. View(c) = << >> /\ cpc[c] = "connect" /\ queue = << >> /\ handled = << >>
      BY <2>2 DEF HostInit, DevInit, View, InProgress
    <3>2. Accounts(c, FALSE, 0)
      BY <3>1 DEF Accounts, Pending, WholeSent
    <3>3. Laid(c, View(c), FALSE, 0) /\ Starts(c, View(c), 0, FALSE, 0)
      BY <3>1 DEF Laid, Starts
    <3>4. Len(Script[c]) \in Nat
      BY <2>2, HostAssumption
    <3>5. Served(c, 0)
      BY <3>1, <3>4 DEF Served, Done
    <3> QED BY <3>2, <3>3, <3>5 DEF ClientInv
  <2>3. ServedInOrder
    BY DEF DevInit, ServedInOrder
  <2> QED BY <2>1, <2>2, <2>3 DEF OrderInv, StreamInv
<1>2. DevIInv /\ OrderInv /\ [DevNext]_vars => OrderInv'
  BY UpInvStep, StreamInvStep, ServedInOrderStep DEF OrderInv
<1> QED BY <1>1, <1>2, DevIInvariant, PTL DEF DevSpec

(* For any clients, any number of messages of any size and any guest, and  *)
(* also when clients are killed or the device is unplugged: messages are   *)
(* dispatched once each, in the order each client sent them, and never     *)
(* interleaved with those of another.  It takes a recv that returns the    *)
(* whole payload (handle_acceptfd calls it once per payload).              *)
THEOREM ServedInOrderCorrect ==
    ASSUME DistinctMessages, ShortRecv = FALSE
    PROVE  DevSpec => []ServedInOrder
BY OrderInvariant, PTL DEF OrderInv

-----------------------------------------------------------------------------
(* Whole messages in the buffer.                                           *)

(* No payload is longer than its 16-bit length field can say.              *)
FittingMessages == \A c \in Clients : \A i \in 1 .. Len(Script[c]) : Script[c][i].size < 4 * Window

(* Then the payload is all of what its sender had, and fits the buffer.    *)
LEMMA PWFits ==
    ASSUME FittingMessages, NEW c \in Clients, NEW j \in 1 .. Len(Script[c])
    PROVE  PW(c, j) = WordsOf(Script[c][j].size) /\ PW(c, j) \in 0 .. Window
<1> DEFINE n == Script[c][j].size
<1>1. n \in Nat /\ n < 4 * Window
  BY ScriptMessage DEF FittingMessages, Message
<1> HIDE DEF n
<1>2. n % (4 * Window) = n
  BY <1>1, WindowAssumption
<1>3. WordsOf(n) \in 0 .. Window
  BY <1>1, WindowAssumption DEF WordsOf
<1>4. PW(c, j) = WordsOf(n)
  BY <1>2 DEF PW, PayloadLen, n
<1> QED BY <1>3, <1>4 DEF n

(* The second recv leaves a whole message in the buffer.                   *)
LEMMA DispatchesWhole ==
    ASSUME DevIInv, UpInv, StreamInv, DistinctMessages, FittingMessages,
           ShortRecv = FALSE, MayDie = FALSE, handle_acceptfd_payload
    PROVE  WholeMessage(buf')
<1>1. PICK c : c = connect_fd
  OBVIOUS
<1>2. c \in Clients /\ InProgress(c) /\ ClientInv(c)
  BY <1>1 DEF handle_acceptfd_payload, DevIInv, DevTypeInv, DevTypeOK, SocketInv,
              InProgress, UpInv, StreamInv
<1>3. PICK pend \in BOOLEAN, sent \in Nat, g \in Nat :
        /\ Accounts(c, pend, sent)
        /\ Laid(c, View(c), pend, sent)
        /\ Starts(c, View(c), g, pend, sent)
  BY <1>2 DEF ClientInv
<1> DEFINE s == stream[c]
           v == View(c)
           p == PW(c, g + 1)
           type == HdrType(buf[4])
<1>4. /\ g + 1 \in 1 .. Len(Script[c])
      /\ buf[4] = Wd(c, g + 1, 0)
      /\ Len(v) = Len(s) + 1
      /\ \A x \in 1 .. Len(s) : v[x + 1] = s[x]
  BY <1>2, <1>3, InFront
<1>5. PICK k \in PayloadCounts(c) : buf' = Received(s, k, type)
  BY <1>1 DEF handle_acceptfd_payload, PayloadCounts
<1>6. Complete(c, v, 1, g + 1, pend, sent) /\ k = p
  BY <1>2, <1>3, <1>5, RecvWhole
<1>7. p \in 0 .. Window /\ p = WordsOf(Script[c][g + 1].size)
  BY <1>2, <1>4, PWFits
<1>8. Len(s) \in Nat /\ p <= Len(s)
  BY <1>2, <1>4, <1>6, <1>7, WindowAssumption DEF Complete, DevIInv, DevTypeInv, HostTypeOK
<1>9. \A x \in 1 .. p : s[x] = Wd(c, g + 1, x)
  <2> TAKE x \in 1 .. p
  <2>1. x + 1 \in 1 .. 1 + p /\ (x + 1) - 1 = x /\ x \in 1 .. Len(s)
    BY <1>7, <1>8, WindowAssumption
  <2>2. v[x + 1] = Wd(c, g + 1, (x + 1) - 1)
    BY <1>6, <2>1 DEF Complete
  <2> QED BY <1>4, <2>1, <2>2
<1> HIDE DEF s, v, p, type
<1> DEFINE b == [i \in Slots |-> IF i \in 5 .. 4 + p THEN s[i - 4] ELSE buf[i]]
<1>10. 4 \in Slots /\ 5 \in Slots /\ \A x \in 1 .. p : 4 + x \in Slots
  BY <1>7, WindowAssumption DEF Slots
<1>11. b[4] = Wd(c, g + 1, 0)
  BY <1>4, <1>10
<1>12. \A x \in 1 .. p : b[4 + x] = Wd(c, g + 1, x)
  <2> TAKE x \in 1 .. p
  <2>1. 4 + x \in 5 .. 4 + p /\ (4 + x) - 4 = x /\ 4 + x \in Slots
    BY <1>7, <1>10, WindowAssumption
  <2> QED BY <1>9, <2>1
<1>13. buf' = b \/ buf' = [b EXCEPT ![5].n = NVcpu]
  BY <1>5, <1>6 DEF Received
<1> HIDE DEF b
<1>14. buf'[4] = b[4] /\ \A x \in 1 .. p : buf'[4 + x].msg = b[4 + x].msg /\ buf'[4 + x].pos = b[4 + x].pos
  <2>1. CASE buf' = b
    BY <2>1
  <2>2. CASE buf' = [b EXCEPT ![5].n = NVcpu]
    <3>1. buf'[4] = b[4]
      BY <2>2, <1>10 DEF b
    <3>2. ASSUME NEW x \in 1 .. p
          PROVE  buf'[4 + x].msg = b[4 + x].msg /\ buf'[4 + x].pos = b[4 + x].pos
      <4>1. CASE x = 1
        <5>1. buf'[5] = [b[5] EXCEPT !.n = NVcpu]
          BY <2>2, <1>10 DEF b
        <5>2. b[5] = [msg |-> Script[c][g + 1], pos |-> 1, n |-> 0]
          BY <1>12, <4>1 DEF Wd
        <5>3. buf'[5].msg = b[5].msg /\ buf'[5].pos = b[5].pos
          BY <5>1, <5>2
        <5> QED BY <4>1, <5>3
      <4>2. CASE x # 1
        <5>1. 4 + x # 5 /\ 4 + x \in Slots
          BY <1>7, <1>10, <4>2, WindowAssumption
        <5>2. buf'[4 + x] = b[4 + x]
          BY <2>2, <5>1 DEF b
        <5> QED BY <5>2
      <4> QED BY <4>1, <4>2
    <3> QED BY <3>1, <3>2
  <2> QED BY <1>13, <2>1, <2>2
<1>15. buf'[4].pos = 0 /\ buf'[4].msg = Script[c][g + 1]
  BY <1>11, <1>14 DEF Wd
<1>16. \A x \in 1 .. p : buf'[4 + x].msg = Script[c][g + 1] /\ buf'[4 + x].pos = x
  <2> TAKE x \in 1 .. p
  <2>1. b[4 + x] = Wd(c, g + 1, x)
    BY <1>12
  <2>2. b[4 + x].msg = Script[c][g + 1] /\ b[4 + x].pos = x
    BY <2>1 DEF Wd
  <2> QED BY <1>14, <2>2
<1> QED BY <1>7, <1>15, <1>16 DEF WholeMessage

(* For any clients that are not killed and any guest: when handle_acceptfd *)
(* raises an interrupt, the buffer holds the header of a message and all   *)
(* the payload its sender had, whatever else was under way.                *)
THEOREM SignalsWholeCorrect ==
    ASSUME DistinctMessages, FittingMessages, ShortRecv = FALSE, MayDie = FALSE
    PROVE  DevSpec => SignalsWholeMessage
<1>1. DevIInv /\ OrderInv /\ [DevNext]_vars =>
        [handled' # handled /\ IrqBits(HdrType(buf'[4])) # {} => WholeMessage(buf')]_vars
  BY DispatchesWhole, OnlyPayloadHandles DEF OrderInv
<1> QED BY <1>1, DevIInvariant, OrderInvariant, PTL DEF DevSpec, SignalsWholeMessage

(* If the guest does not store into the message area, the buffer holds a   *)
(* whole message whenever the device is not between the two recv.          *)
LEMMA BufWholeStep ==
    ASSUME DevIInv, UpInv, StreamInv, BufWhole, DistinctMessages, FittingMessages,
           ShortRecv = FALSE, MayDie = FALSE, StoreSlots = {}, [DevNext]_vars
    PROVE  BufWhole'
<1>1. CASE handle_acceptfd_payload
  BY <1>1, DispatchesWhole DEF BufWhole
<1>2. CASE handle_acceptfd_header
  BY <1>2 DEF handle_acceptfd_header, BufWhole
<1>3. ASSUME buf' = buf, dev_pc' \in {"idle", "send"} => dev_pc \in {"idle", "send"}
      PROVE  BufWhole'
  BY <1>3 DEF BufWhole
<1>4. ASSUME NEW c \in Clients, HostStep(c)
      PROVE  BufWhole'
  BY <1>3, <1>4 DEF HostStep, devVars
<1>5. CASE handle_listenfd
  BY <1>3, <1>5 DEF handle_listenfd
<1>6. CASE handle_acceptfd_eof
  BY <1>3, <1>6 DEF handle_acceptfd_eof
<1>7. CASE GuestStep
  <2>1. buf' = buf
    BY <1>7 DEF GuestStep, GuestWrite, BufWriteRaise, BufWriteLower, BufWriteSetAffinity,
                hucdev_io_write, BufWriteDoorbell
  <2> QED BY <1>3, <1>7, <2>1, GuestAside DEF GuestStep
<1>8. CASE doorbell_epipe
  BY <1>3, <1>8 DEF doorbell_epipe
<1>9. CASE hucdev_uninit
  BY <1>3, <1>9 DEF hucdev_uninit
<1>10. CASE UNCHANGED vars
  BY <1>3, <1>10 DEF vars, devVars
<1> QED
  BY <1>1, <1>2, <1>4, <1>5, <1>6, <1>7, <1>8, <1>9, <1>10, Zenon DEF DevNext, DeviceStep

(* For any clients that are not killed: what a doorbell sends back is a    *)
(* whole message, also when it is rung while a client is sending, because  *)
(* handle_acceptfd holds QEMU's lock from the first recv to the second.    *)
THEOREM DoorbellCorrect ==
    ASSUME DistinctMessages, FittingMessages, ShortRecv = FALSE, MayDie = FALSE, StoreSlots = {}
    PROVE  DevSpec => DoorbellSendsWhole
<1>1. DevStart => BufWhole
  <2> SUFFICES ASSUME DevInit
               PROVE  WholeMessage(buf)
    BY DEF DevStart, BufWhole
  <2>1. buf[4] = BlankWord
    BY WindowAssumption DEF DevInit, Slots
  <2>2. WordsOf(0) = 0
    BY DEF WordsOf
  <2> QED BY <2>1, <2>2 DEF WholeMessage, BlankWord
<1>2. DevIInv /\ OrderInv /\ BufWhole /\ [DevNext]_vars => BufWhole'
  BY BufWholeStep DEF OrderInv
<1>3. BufWhole /\ [DevNext]_vars => [replied' # replied => WholeMessage(buf)]_vars
  <2> SUFFICES ASSUME BufWhole, [DevNext]_vars, replied' # replied
               PROVE  WholeMessage(buf)
    OBVIOUS
  <2>1. dev_pc = "idle"
    <3>1. CASE \E c \in Clients : HostStep(c)
      BY <3>1 DEF HostStep, devVars
    <3>2. CASE DeviceStep
      BY <3>2 DEF DeviceStep, handle_listenfd, handle_acceptfd_eof, handle_acceptfd_header,
                  handle_acceptfd_payload, sockVars
    <3>3. CASE GuestStep
      BY <3>3, GuestAside DEF GuestStep
    <3>4. CASE doorbell_epipe
      BY <3>4 DEF doorbell_epipe, sockVars
    <3>5. CASE hucdev_uninit
      BY <3>5 DEF hucdev_uninit
    <3>6. CASE UNCHANGED vars
      BY <3>6 DEF vars, devVars
    <3> QED BY <3>1, <3>2, <3>3, <3>4, <3>5, <3>6 DEF DevNext
  <2> QED BY <2>1 DEF BufWhole
<1> QED
  BY <1>1, <1>2, <1>3, DevIInvariant, OrderInvariant, PTL DEF DevSpec, DoorbellSendsWhole

-----------------------------------------------------------------------------
(* Pinning.                                                                *)

(* PIN_ON_SAME is undone: a script sends RESET right after it, as          *)
(* pinonsame.c does, and RESET's mask has every online CPU of the host.    *)
PinsAreReset ==
    /\ \A c \in Clients : \A j \in 1 .. Len(Script[c]) : Script[c][j].type = PIN_ON_SAME =>
         j + 1 \in 1 .. Len(Script[c]) /\ Script[c][j + 1].type = RESET
    /\ PCpus \subseteq ResetMask

(* A PIN_ON_SAME that was the last message dispatched of a connection is   *)
(* the last of the g messages dispatched of that client.                   *)
LEMMA PinnedLast ==
    ASSUME DevIInv, DistinctMessages, NEW c \in Clients, c = connect_fd, NEW g \in Nat,
           g <= Len(Script[c]), Served(c, g), NEW j \in 1 .. Len(Script[c]), handled # << >>,
           handled[Len(handled)] = Wd(c, j, 0)
    PROVE  j = g
<1>1. handled \in Seq(Word) /\ Len(handled) \in Nat /\ Len(Script[c]) \in Nat
  BY HostAssumption DEF DevIInv, DevTypeInv, DevTypeOK
<1>2. Len(handled) \in 1 .. Len(handled)
  BY <1>1, EmptySeq
<1>3. Done(c, j)
  BY <1>2 DEF Done
<1>4. g >= 1 /\ g \in 1 .. Len(Script[c])
  BY <1>1, <1>3 DEF Served
<1>5. Wd(c, g, 0) = Wd(c, j, 0)
  BY <1>4 DEF Served
<1>6. Wd(c, g, 0).msg = Wd(c, j, 0).msg
  BY <1>5
<1>7. Script[c][g] = Script[c][j]
  BY <1>6 DEF Wd
<1> QED BY <1>4, <1>7 DEF DistinctMessages

(* A step that leaves the affinities, the connection and the messages      *)
(* dispatched alone.                                                       *)
LEMMA PinnedKept ==
    ASSUME PinnedInv, UNCHANGED <<affinity, connect_fd, handled>>
    PROVE  PinnedInv'
BY DEF PinnedInv

(* RESET unpins, PIN_ON_SAME pins, and after PIN_ON_SAME comes RESET.      *)
LEMMA PinnedDispatch ==
    ASSUME DevIInv, UpInv, StreamInv, PinnedInv, DistinctMessages, PinsAreReset,
           handle_acceptfd_payload
    PROVE  PinnedInv'
<1>1. PICK c : c = connect_fd
  OBVIOUS
<1>2. c \in Clients /\ InProgress(c) /\ ClientInv(c)
  BY <1>1 DEF handle_acceptfd_payload, DevIInv, DevTypeInv, DevTypeOK, SocketInv,
              InProgress, UpInv, StreamInv
<1>3. PICK g \in Nat : Served(c, g) /\ g + 1 \in 1 .. Len(Script[c]) /\ buf[4] = Wd(c, g + 1, 0)
  BY <1>2, InFront DEF ClientInv
<1> DEFINE type == Script[c][g + 1].type
<1>4. HdrType(buf[4]) = type
  BY <1>3 DEF HdrType, Wd
<1>5. connect_fd' = c /\ affinity' \in Affinities(type) /\ handled' = Append(handled, Wd(c, g + 1, 0))
  BY <1>1, <1>3, <1>4 DEF handle_acceptfd_payload, sockVars
<1>6. handled \in Seq(Word) /\ affinity \in [VCpus -> SUBSET PCpus]
  BY DEF DevIInv, DevTypeInv, DevTypeOK
<1> HIDE DEF type
<1>7. CASE type = RESET
  <2>1. affinity' = Pin(affinity, VCpus, ResetMask)
    BY <1>5, <1>7 DEF Affinities, RESET, PIN_ON_SAME
  <2>2. ResetMask \cap PCpus = PCpus /\ PCpus # {}
    BY PinAssumption DEF PinsAreReset
  <2>3. \A v \in VCpus : affinity'[v] = PCpus
    BY <2>1, <2>2 DEF Pin
  <2> QED BY <2>3 DEF PinnedInv
<1>8. CASE type = PIN_ON_SAME
  <2>1. handled' # << >> /\ handled'[Len(handled')] = Wd(c, g + 1, 0)
    BY <1>5, <1>6
  <2> QED BY <1>2, <1>3, <1>5, <1>8, <2>1 DEF PinnedInv, type
<1>9. CASE type # RESET /\ type # PIN_ON_SAME
  <2>1. affinity' = affinity
    BY <1>5, <1>9 DEF Affinities
  <2>2. \A v \in VCpus : affinity[v] = PCpus
    <3> SUFFICES ASSUME ~(\A v \in VCpus : affinity[v] = PCpus)
                 PROVE  FALSE
      OBVIOUS
    <3>1. PICK j \in 1 .. Len(Script[c]) :
            handled # << >> /\ handled[Len(handled)] = Wd(c, j, 0) /\ Script[c][j].type = PIN_ON_SAME
      BY <1>1 DEF PinnedInv
    <3>2. g <= Len(Script[c])
      BY <1>2, <1>3, HostAssumption
    <3>3. j = g
      BY <1>1, <1>2, <1>3, <3>1, <3>2, PinnedLast
    <3> QED BY <1>2, <1>9, <3>1, <3>3 DEF PinsAreReset, type
  <2> QED BY <2>1, <2>2 DEF PinnedInv
<1> QED BY <1>7, <1>8, <1>9

(* A connection ends after the last message of its script, which is no     *)
(* PIN_ON_SAME.                                                            *)
LEMMA PinnedEof ==
    ASSUME DevIInv, UpInv, StreamInv, PinnedInv, DistinctMessages, PinsAreReset,
           MayDie = FALSE, life # "dangling", handle_acceptfd_eof
    PROVE  PinnedInv'
<1>1. PICK c : c = connect_fd
  OBVIOUS
<1>2. /\ c \in Clients /\ ClientInv(c) /\ dev_pc = "idle"
      /\ stream[c] = << >> /\ cpc[c] = "closed" /\ affinity' = affinity
  BY <1>1 DEF handle_acceptfd_eof, Eof, cpuVars, DevIInv, DevTypeInv, DevTypeOK, SocketInv,
              UpInv, StreamInv
<1>3. PICK pend \in BOOLEAN, sent \in Nat, g \in Nat :
        Accounts(c, pend, sent) /\ Starts(c, View(c), g, pend, sent) /\ Served(c, g)
  BY <1>2 DEF ClientInv
<1>4. g = Len(Script[c])
  <2>1. View(c) = << >>
    BY <1>2 DEF View, InProgress
  <2>2. sent = g
    BY <1>3, <2>1 DEF Starts
  <2>3. sent = Len(Script[c])
    BY <1>2, <1>3 DEF Accounts, WholeSent, Pending
  <2> QED BY <2>2, <2>3
<1>5. \A v \in VCpus : affinity[v] = PCpus
  <2> SUFFICES ASSUME ~(\A v \in VCpus : affinity[v] = PCpus)
               PROVE  FALSE
    OBVIOUS
  <2>1. PICK j \in 1 .. Len(Script[c]) :
          handled # << >> /\ handled[Len(handled)] = Wd(c, j, 0) /\ Script[c][j].type = PIN_ON_SAME
    BY <1>1 DEF PinnedInv
  <2>2. j = g
    BY <1>1, <1>2, <1>3, <1>4, <2>1, PinnedLast
  <2>3. j + 1 \in 1 .. Len(Script[c])
    BY <1>2, <2>1 DEF PinsAreReset
  <2> QED BY <1>2, <1>4, <2>2, <2>3, HostAssumption
<1> QED BY <1>2, <1>5 DEF PinnedInv

(* For any clients that are not killed, while the guest does not pin: when *)
(* the device listens for the next connection every vCPU may run on every  *)
(* CPU again.                                                              *)
THEOREM PinUndoneCorrect ==
    ASSUME DistinctMessages, PinsAreReset, ShortRecv = FALSE, MayDie = FALSE, Masks = {}
    PROVE  DevSpec => []PinUndone
<1>1. DevStart => PinnedInv
  BY DEF DevStart, DevInit, PinnedInv
<1>2. DevIInv /\ OrderInv /\ PinnedInv /\ [DevNext]_vars => PinnedInv'
  <2> SUFFICES ASSUME DevIInv, UpInv, StreamInv, PinnedInv, [DevNext]_vars
               PROVE  PinnedInv'
    BY DEF OrderInv
  <2>1. ASSUME NEW c \in Clients, HostStep(c)
        PROVE  PinnedInv'
    BY <2>1, PinnedKept DEF HostStep, devVars
  <2>2. CASE handle_listenfd
    <3>1. connect_fd = NoClient /\ affinity' = affinity
      BY <2>2 DEF handle_listenfd, cpuVars, DevIInv, SocketInv
    <3> QED BY <3>1, DeviceAssumption DEF PinnedInv
  <2>3. CASE life # "dangling" /\ handle_acceptfd_eof
    BY <2>3, PinnedEof
  <2>4. CASE handle_acceptfd_header
    BY <2>4, PinnedKept DEF handle_acceptfd_header, sockVars, cpuVars
  <2>5. CASE handle_acceptfd_payload
    BY <2>5, PinnedDispatch
  <2>6. CASE GuestStep
    <3>1. affinity' = affinity
      BY <2>6 DEF GuestStep, GuestWrite, BufWriteRaise, BufWriteLower, BufWriteWord,
                  hucdev_io_write, BufWriteDoorbell, cpuVars
    <3> QED BY <2>6, <3>1, GuestAside, PinnedKept DEF GuestStep
  <2>7. CASE doorbell_epipe
    BY <2>7, PinnedKept DEF doorbell_epipe, sockVars, cpuVars
  <2>8. CASE hucdev_uninit
    BY <2>8, PinnedKept DEF hucdev_uninit, cpuVars
  <2>9. CASE UNCHANGED vars
    BY <2>9, PinnedKept DEF vars, devVars
  <2> QED BY <2>1, <2>2, <2>3, <2>4, <2>5, <2>6, <2>7, <2>8, <2>9, Zenon DEF DevNext, DeviceStep
<1>3. DevIInv /\ PinnedInv => PinUndone
  BY DeviceAssumption DEF DevIInv, SocketInv, PinnedInv, PinUndone
<1> QED BY <1>1, <1>2, <1>3, DevIInvariant, OrderInvariant, PTL DEF DevSpec

=============================================================================
