-------------------------- MODULE InjectionService --------------------------
(***************************************************************************)
(* What the injection path promises: the messages the device signals to    *)
(* the guest reach the daemon whole, once each, in order, and each one is  *)
(* eventually received.                                                    *)
(***************************************************************************)
EXTENDS Naturals, Sequences

CONSTANT Packets  \* messages as the host sent them

VARIABLES
    submitted,  \* messages signalled to the guest, oldest first
    delivered   \* messages received by the daemon, oldest first

Init == submitted = << >> /\ delivered = << >>

Submit ==
    /\ \E p \in Packets : submitted' = Append(submitted, p)
    /\ UNCHANGED delivered

Deliver ==
    /\ Len(delivered) < Len(submitted)
    /\ delivered' = Append(delivered, submitted[Len(delivered) + 1])
    /\ UNCHANGED submitted

Next == Submit \/ Deliver

(* Whole, once and in order; and eventually.                               *)
InOrder == Init /\ [][Next]_<<submitted, delivered>>
Spec    == InOrder /\ WF_<<submitted, delivered>>(Deliver)

=============================================================================
