----------------------------- MODULE TxDelivery -----------------------------
(***************************************************************************)
(* What the transmit side of a MAC promises its clients: packets go out    *)
(* whole, once each, and in the order in which they were accepted.         *)
(***************************************************************************)
EXTENDS Sequences

CONSTANTS Frames,       \* the packets clients send
          None          \* no packet is on the wire

VARIABLES
    pending,    \* packets accepted and not yet sent
    wire        \* the packet that is leaving

vars == <<pending, wire>>

Init == pending = <<>> /\ wire = None

Accept ==
    /\ \E f \in Frames : pending' = Append(pending, f)
    /\ UNCHANGED wire

Transmit ==
    /\ pending # <<>>
    /\ wire = None
    /\ wire' = Head(pending)
    /\ pending' = Tail(pending)

\* The packet has left.
Sent == wire # None /\ wire' = None /\ UNCHANGED pending

Next == Accept \/ Transmit \/ Sent

Spec == Init /\ [][Next]_vars
=============================================================================
