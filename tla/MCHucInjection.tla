--------------------------- MODULE MCHucInjection ---------------------------
(* Instances of HucInjection for TLC.                                      *)
EXTENDS HucInjection

CONSTANTS one, two, three, empty

Msg(i, t, n) == [id |-> i, type |-> t, size |-> n,
                 as |-> [type |-> PROGRAM_INJECTION, len |-> 4]]

(* Two injections of different length, one no multiple of a word, and the  *)
(* other types in between; an empty file.                                  *)
MCScript ==
    [c \in Clients |->
        CASE c = one   -> <<Msg(1, PROGRAM_INJECTION, 7)>>
          [] c = two   -> <<Msg(2, RESET, 4), Msg(3, PROGRAM_INJECTION_AFFINITY, 4)>>
          [] c = three -> <<Msg(4, PROGRAM_INJECTION, 4)>>
          [] c = empty -> <<Msg(5, PROGRAM_INJECTION, 0)>>]

MCPort  == [c \in Clients |-> 8888]
MCPCpus == {0, 1}
None    == {}

=============================================================================
