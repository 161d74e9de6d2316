------------------------------- MODULE HucMsg -------------------------------
(***************************************************************************)
(* The message exchanged between a host client, the QEMU device and the    *)
(* guest (huc_msg.h, bpf_injection_msg.h): a four-byte header {version,    *)
(* type, payload_len} followed by payload_len bytes of payload.  The unit  *)
(* of the model is the 32-bit word, which is the unit of the device buffer *)
(* and of every read the guest performs, so the header is one word; a      *)
(* payload whose length is no multiple of 4 ends in a word of which only   *)
(* the first bytes are its own.                                            *)
(***************************************************************************)
EXTENDS Integers, Sequences

CONSTANT
    Window  \* words reachable through HUCDEV_BUF_MASK and through the 16-bit
            \* payload_len field: both are 2^16 bytes, 16384 words

ASSUME WindowAssumption == Window \in Nat /\ Window >= 6

PROGRAM_INJECTION          == 1
PROGRAM_INJECTION_RESULT   == 2
PROGRAM_INJECTION_AFFINITY == 3
ERROR                      == 16
RESET                      == 17
PIN_ON_SAME                == 18
HT_REMAPPING               == 19

(***************************************************************************)
(* A message as its sender built it: `size' is the length in bytes of the  *)
(* file or payload, `as' is how a payload word reads when something takes  *)
(* it for a header (payload bytes are arbitrary).                          *)
(***************************************************************************)
Message == [id   : Nat,
            type : Nat,
            size : Nat,
            as   : [type : Nat, len : 0 .. 4 * Window - 1]]

(* header.payload_len = ftell(fp), a uint16_t.                             *)
PayloadLen(m) == m.size % (4 * Window)

(* Words that hold n bytes.                                                *)
WordsOf(n) == (n + 3) \div 4

(***************************************************************************)
(* A word is a position of a message: 0 is the header, k > 0 the k-th word *)
(* of the payload.  n is the vCPU count the device writes into the first   *)
(* payload word of an affinity message (0 in every other word).            *)
(***************************************************************************)
Word == [msg : Message, pos : Nat, n : Nat]

HeaderWord(m)     == [msg |-> m, pos |-> 0, n |-> 0]
PayloadWord(m, k) == [msg |-> m, pos |-> k, n |-> 0]
PayloadWords(m)   == [k \in 1 .. WordsOf(PayloadLen(m)) |-> PayloadWord(m, k)]

(* What a word says when it is read as a struct huc_msg_header.            *)
HdrType(w) == IF w.pos = 0 THEN w.msg.type ELSE w.msg.as.type
HdrLen(w)  == IF w.pos = 0 THEN PayloadLen(w.msg) ELSE w.msg.as.len

(* The contents of memory no message has been written to yet.              *)
BlankWord == [msg |-> [id |-> 0, type |-> 0, size |-> 0, as |-> [type |-> 0, len |-> 0]],
              pos |-> 0, n |-> 0]

=============================================================================
