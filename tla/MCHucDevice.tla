---------------------------- MODULE MCHucDevice -----------------------------
(* Instances of HucDevice for TLC.                                         *)
EXTENDS HucDevice

CONSTANTS inject, pin, reset, other

Msg(i, t, n) == [id |-> i, type |-> t, size |-> n,
                 as |-> [type |-> PROGRAM_INJECTION, len |-> 4]]

(* A file of 6 bytes from injectByteCode, pinonsame, reset, and a client of the remaining types.  *)
MCScript ==
    [c \in Clients |->
        CASE c = inject -> <<Msg(1, PROGRAM_INJECTION, 6)>>
          [] c = pin    -> <<Msg(2, PIN_ON_SAME, 4), Msg(3, RESET, 4)>>
          [] c = reset  -> <<Msg(4, RESET, 4)>>
          [] c = other  -> <<Msg(5, PROGRAM_INJECTION_AFFINITY, 4), Msg(6, HT_REMAPPING, 0)>>]

(* In the sources only injectByteCode.c uses the device's port; here every *)
(* client does, or it would be refused.                                    *)
DevicePort  == [c \in Clients |-> 8888]

FewPCpus    == {0, 1}
NoBits      == {}
MCIrqVals   == {{0}}
MCMasks     == {{0}}
MCStore     == {6}
NoStore     == {}

(* The named registers but the first, both ends of those without a name,   *)
(* and both ends of what lies beyond.                                      *)
MCIo        == {1, 2, 3, 4, 22, 23, 63}

=============================================================================
