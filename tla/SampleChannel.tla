--------------------------- MODULE SampleChannel ---------------------------
(***************************************************************************)
(* What a stream promises the voice that plays it: an ordered channel of   *)
(* samples of bounded capacity.  Sample p of the channel is Frame(p); the  *)
(* voice hears every sample once, in order, and never one that has not     *)
(* been supplied; the producer never runs ahead by more than Capacity.     *)
(***************************************************************************)
EXTENDS Naturals, Sequences

CONSTANTS
    Capacity,   \* how far the producer may be ahead
    Frame(_)    \* the sample at a position

VARIABLES
    sent,       \* how many samples were supplied
    heard,      \* how many of them the voice has taken
    out         \* the samples of its last block
vars == <<sent, heard, out>>

Init == sent = 0 /\ heard = 0 /\ out = <<>>

Supply ==
    /\ \E n \in 1 .. Capacity : sent + n <= heard + Capacity /\ sent' = sent + n
    /\ UNCHANGED <<heard, out>>

\* A block that finds nothing hears nothing.
Take ==
    /\ \E n \in 0 .. sent - heard :
        /\ heard' = heard + n
        /\ out' = [k \in 1 .. n |-> Frame(heard + k - 1)]
    /\ UNCHANGED sent

Next == Supply \/ Take
Spec == Init /\ [][Next]_vars
=============================================================================
