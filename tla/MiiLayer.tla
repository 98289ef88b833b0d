------------------------------ MODULE MiiLayer ------------------------------
(***************************************************************************)
(* What the MII layer promises its application (mii.h), without banks,     *)
(* interrupts and notifications: packets are handed out in the order in    *)
(* which they came, and the memory of a packet belongs to one side at a    *)
(* time.                                                                   *)
(***************************************************************************)
EXTENDS SequencesExt

VARIABLES
    waiting,    \* the packets received and not yet handed out
    owned,      \* the packets that the application owns
    sending     \* whether the layer owns a packet of the application

vars == <<waiting, owned, sending>>

Init == waiting = <<>> /\ owned = {} /\ sending = FALSE

\* A packet comes in, in memory that is no other packet's.
Arrive ==
    /\ waiting' # <<>>
    /\ waiting = Front(waiting')
    /\ Last(waiting') \notin owned \cup ToSet(waiting)
    /\ UNCHANGED <<owned, sending>>

\* get_incoming_packet, which owns the packet from then on.
GetIncomingPacket ==
    /\ waiting # <<>>
    /\ owned' = owned \cup {Head(waiting)}
    /\ waiting' = Tail(waiting)
    /\ UNCHANGED sending

ReleasePacket ==
    /\ \E p \in owned : owned' = owned \ {p}
    /\ UNCHANGED <<waiting, sending>>

\* send_packet does not block.
SendPacket ==
    /\ ~sending
    /\ sending' = TRUE
    /\ UNCHANGED <<waiting, owned>>

\* mii_packet_sent: the application can use its buffer again.
PacketSent ==
    /\ sending
    /\ sending' = FALSE
    /\ UNCHANGED <<waiting, owned>>

Next ==
    \/ Arrive \/ GetIncomingPacket \/ ReleasePacket
    \/ SendPacket \/ PacketSent

Spec == Init /\ [][Next]_vars
=============================================================================
