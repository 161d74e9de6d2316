----------------------------- MODULE HucDriver ------------------------------
(***************************************************************************)
(* The guest driver guestend/driver/huc-driver.c: the interrupt handler    *)
(* and huc_read.  They run on different vCPUs without a lock and share     *)
(* `flag'; each access to the device and to `flag' is an action of its     *)
(* own.  A device access waits while QEMU's lock is held by a              *)
(* handle_acceptfd blocked in recv.                                        *)
(*                                                                         *)
(* huc_read is called with len = 4 and an aligned offset, so its early     *)
(* return for misaligned reads is never taken.                             *)
(***************************************************************************)
EXTENDS HucDevice

CONSTANT
    SharedLine  \* whether other devices interrupt on the same line (IRQF_SHARED)

ASSUME DriverAssumption == SharedLine \in BOOLEAN

VARIABLES
    flag,          \* 0: nothing to read, 1: read payload, 2: read header
    payload_left,  \* bytes of payload huc_read still expects
    irq_pc,        \* irq_handler: "idle", "wake" (status read), "ack"
    irq_val,       \* its local copy of irq_status
    rd_pc,         \* huc_read: "none", "wait", "io", "test", "header", "payload", "ret"
    rd_off,        \* word offset being read (*off / 4)
    rd_word        \* kbuf

drvVars == <<flag, payload_left, irq_pc, irq_val, rd_pc, rd_off, rd_word>>

DrvTypeOK ==
    /\ flag \in 0 .. 2
    /\ payload_left \in Int
    /\ irq_pc \in {"idle", "wake", "ack"}
    /\ irq_val \in SUBSET Nat
    /\ rd_pc \in {"none", "wait", "io", "test", "header", "payload", "ret"}
    /\ rd_off \in Nat
    /\ rd_word \in Word

DrvInit ==
    /\ flag = 0
    /\ payload_left = 0
    /\ irq_pc = "idle"
    /\ irq_val = {}
    /\ rd_pc = "none"
    /\ rd_off = 4
    /\ rd_word = BlankWord

-----------------------------------------------------------------------------
(* irq_handler.  The interrupt is level triggered and its line is masked   *)
(* while the handler runs.  It takes every interrupt of a shared line for  *)
(* its own: dev points to `major', with which it is compared.              *)

irq_handler_read ==
    /\ irq_pc = "idle" /\ (irq_line \/ SharedLine) /\ dev_pc = "idle"
    /\ irq_val' = irq_status
    /\ irq_pc' = "wake"
    /\ UNCHANGED <<hostVars, devVars, flag, payload_left, rd_pc, rd_off, rd_word>>

(* Faulty variants: the value itself becomes the flag; affinity messages   *)
(* wake nobody.                                                            *)
FlagFor_Value(val) == CASE val = {0} -> 2 [] val = {0, 1} -> 3 [] OTHER -> flag
FlagFor_InjectionOnly(val) == IF val = {0} THEN 2 ELSE flag

(* switch (irq_status): the values 1, 3 and 22; any other sets nothing.    *)
FlagFor(val) == IF val \in {{0}, {0, 1}} THEN 2
                ELSE IF val = {1, 2, 4} THEN 1
                ELSE flag

irq_handler_wake ==
    /\ irq_pc = "wake"
    /\ flag' = FlagFor(irq_val)
    /\ irq_pc' = "ack"
    /\ UNCHANGED <<hostVars, devVars, payload_left, irq_val, rd_pc, rd_off, rd_word>>

irq_handler_ack ==
    /\ irq_pc = "ack"
    /\ BufWriteLower(irq_val)
    /\ irq_pc' = "idle"
    /\ UNCHANGED <<flag, payload_left, irq_val, rd_pc, rd_off, rd_word>>

IrqStep == irq_handler_read \/ irq_handler_wake \/ irq_handler_ack

-----------------------------------------------------------------------------
(* huc_read, one word per call.  The caller sets rd_pc to "wait" and takes *)
(* rd_word back at "ret".                                                  *)

huc_read_wait ==
    /\ rd_pc = "wait" /\ flag >= 1
    /\ rd_pc' = "io"
    /\ UNCHANGED <<hostVars, devVars, flag, payload_left, irq_pc, irq_val, rd_off, rd_word>>

huc_read_io ==
    /\ rd_pc = "io" /\ dev_pc = "idle"
    /\ rd_word' = hucdev_bufmmio_read(rd_off)
    /\ rd_pc' = "test"
    /\ UNCHANGED <<hostVars, devVars, flag, payload_left, irq_pc, irq_val, rd_off>>

(* The compiler loads flag once for the two comparisons.                   *)
huc_read_test ==
    /\ rd_pc = "test"
    /\ rd_pc' = CASE flag = 2 -> "header" [] flag = 1 -> "payload" [] OTHER -> "ret"
    /\ UNCHANGED <<hostVars, devVars, flag, payload_left, irq_pc, irq_val, rd_off, rd_word>>

(* Faulty variant: the header is counted as payload.                       *)
huc_read_header_CountsHeader ==
    /\ rd_pc = "header"
    /\ payload_left' = HdrLen(rd_word) - 4
    /\ flag' = 1
    /\ rd_pc' = "ret"
    /\ UNCHANGED <<hostVars, devVars, irq_pc, irq_val, rd_off, rd_word>>

huc_read_header ==
    /\ rd_pc = "header"
    /\ payload_left' = HdrLen(rd_word)
    /\ flag' = 1
    /\ rd_pc' = "ret"
    /\ UNCHANGED <<hostVars, devVars, irq_pc, irq_val, rd_off, rd_word>>

(* Faulty variant: flag is not reset after the last word.                  *)
huc_read_payload_KeepsFlag ==
    /\ rd_pc = "payload"
    /\ payload_left' = payload_left - 4
    /\ rd_pc' = "ret"
    /\ UNCHANGED <<hostVars, devVars, flag, irq_pc, irq_val, rd_off, rd_word>>

huc_read_payload ==
    /\ rd_pc = "payload"
    /\ payload_left' = payload_left - 4
    /\ flag' = IF payload_left' <= 0 THEN 0 ELSE flag
    /\ rd_pc' = "ret"
    /\ UNCHANGED <<hostVars, devVars, irq_pc, irq_val, rd_off, rd_word>>

ReadStep == huc_read_wait \/ huc_read_io \/ huc_read_test \/ huc_read_header \/ huc_read_payload

=============================================================================
