---------------------------- MODULE FifoChannel -----------------------------
(***************************************************************************)
(* What a single-producer single-consumer queue of Capacity entries        *)
(* promises: values leave in the order they entered, once each, and never  *)
(* more than Capacity are inside.                                          *)
(***************************************************************************)
EXTENDS Naturals, Sequences

CONSTANTS Capacity, Value

VARIABLES
    chan,  \* values inside, oldest first
    out    \* values taken out so far

Init == chan = << >> /\ out = << >>

Put ==
    /\ Len(chan) < Capacity
    /\ \E v \in Value : chan' = Append(chan, v)
    /\ UNCHANGED out

Take ==
    /\ chan # << >>
    /\ out' = Append(out, Head(chan))
    /\ chan' = Tail(chan)

Next == Put \/ Take

Spec == Init /\ [][Next]_<<chan, out>>

=============================================================================
