------------------------------- MODULE MiiMac -------------------------------
(***************************************************************************)
(* The standard MII MAC, mii_ethernet_mac.xc: one task that is the client  *)
(* of the MII layer and serves the clients of the MAC.  It holds one       *)
(* packet until every client that it is for has fetched it, and drops what *)
(* comes meanwhile.                                                        *)
(***************************************************************************)
EXTENDS MiiLite, FiniteSets

CONSTANTS
    Clients,
    Reported        \* bound: clients that may enable link status notification

ASSUME MiiMacAssumption == IsFiniteSet(Clients) /\ Reported \subseteq Clients

VARIABLES
    incoming_data,      \* the packet that the clients fetch
    incoming_tcount,    \* how many of them have yet to
    incoming_packet,    \* which
    status,             \* status_update_state of each client
    link_status,
    notified,           \* packet_ready, until the client calls get_packet
    out                 \* where the low level driver is with a packet to send

macVars == <<incoming_data, incoming_tcount, incoming_packet, status, link_status, notified>>
vars == <<liteVars, macVars, out>>

Lite == pc \in {"get", "wrap", "more", "notify", "got", "free", "advance", "restart"}

TypeOK ==
    /\ HeadersKept
    /\ \A bn \in Bank : wr_ptr[bn] > First(bn) /\ BankOf(wr_ptr[bn]) = bn
    /\ next_buffer \in {None, wr_ptr[0], wr_ptr[1]}
    /\ refill_bank_number \in Bank
    /\ packet_in_lld \in {wr_ptr[0], wr_ptr[1]}
    /\ read_bank \in Seq(Bank) /\ Len(read_bank) < RingSize
    /\ {notify_last, notify_seen} \subseteq {0, 1}
    /\ tokens \in Seq({0, 1})
    /\ Lite \/ pc \in {"select", "timestamp", "sent"}
    /\ incoming_data \in Nat \cup {None}
    /\ incoming_packet \subseteq Clients
    /\ incoming_tcount = Cardinality(incoming_packet)
    /\ status \in [Clients -> {"ignoring", "waiting", "pending"}]
    /\ link_status \in {"up", "down"}
    /\ notified \subseteq Clients
    /\ out \in {"idle", "given", "sending", "done"}

\* init_client_state and mii_lite_out_init
Init ==
    /\ LiteInit
    /\ incoming_data = None
    /\ incoming_tcount = 0
    /\ incoming_packet = {}
    /\ status = [c \in Clients |-> "ignoring"]
    /\ link_status = "down"
    /\ notified = {}
    /\ out = "idle"

----------------------------------------------------------------------------
(* mii_incoming_packet.                                                    *)

IncomingPacket ==
    /\ pc = "select"
    /\ tokens # <<>>
    /\ notify_seen' = Head(tokens)
    /\ tokens' = Tail(tokens)
    /\ pc' = "get"
    /\ UNCHANGED <<bankVars, read_ptr, nextVars, packet_in_lld, read_bank, notify_last,
                   arrived, data, base, macVars, out>>

\* release_packet
Release(a) ==
    /\ base' = a
    /\ pc' = IF a = None THEN "restart" ELSE "free"

\* Only one packet at a time: another is released at once.
DropIncoming ==
    /\ pc = "got"
    /\ incoming_data # None
    /\ Release(data)
    /\ data' = None
    /\ UNCHANGED <<bankVars, read_ptr, nextVars, packet_in_lld, read_bank, notifyVars,
                   arrived, macVars, out>>

NoIncoming ==
    /\ pc = "got"
    /\ incoming_data = None
    /\ data = None
    /\ pc' = "select"
    /\ UNCHANGED <<bankVars, read_ptr, nextVars, packet_in_lld, read_bank, notifyVars,
                   arrived, data, base, macVars, out>>

\* The packet is for the clients of wanted, by address and Ethertype; for
\* none, if its length is wrong.
SendToClients(wanted) ==
    /\ pc = "got"
    /\ incoming_data = None
    /\ data # None
    /\ incoming_packet' = incoming_packet \cup wanted
    /\ notified' = notified \cup wanted
    /\ incoming_tcount' = Cardinality(wanted)
    /\ IF wanted = {} THEN Release(data) /\ UNCHANGED incoming_data
       ELSE pc' = "select" /\ incoming_data' = data /\ UNCHANGED base
    /\ data' = None
    /\ UNCHANGED <<bankVars, read_ptr, nextVars, packet_in_lld, read_bank, notifyVars,
                   arrived, status, link_status, out>>

----------------------------------------------------------------------------
(* Calls of the clients.                                                   *)

\* The end of get_packet
ReleaseFetched(tcount) ==
    IF incoming_data # None /\ tcount = 0
    THEN Release(incoming_data) /\ incoming_data' = None
    ELSE UNCHANGED <<base, pc, incoming_data>>

GetStatus(c) ==
    /\ pc = "select"
    /\ status[c] = "pending"
    /\ status' = [status EXCEPT ![c] = "waiting"]
    /\ notified' = notified \ {c}
    /\ ReleaseFetched(incoming_tcount)
    /\ UNCHANGED <<bankVars, read_ptr, nextVars, packet_in_lld, read_bank, notifyVars,
                   arrived, data, incoming_tcount, incoming_packet, link_status, out>>

GetData(c) ==
    /\ pc = "select"
    /\ status[c] # "pending"
    /\ c \in incoming_packet
    /\ incoming_packet' = incoming_packet \ {c}
    /\ incoming_tcount' = incoming_tcount - 1
    /\ notified' = notified \ {c}
    /\ ReleaseFetched(incoming_tcount - 1)
    /\ UNCHANGED <<bankVars, read_ptr, nextVars, packet_in_lld, read_bank, notifyVars,
                   arrived, data, status, link_status, out>>

GetNoData(c) ==
    /\ pc = "select"
    /\ status[c] # "pending"
    /\ c \notin incoming_packet
    /\ notified' = notified \ {c}
    /\ ReleaseFetched(incoming_tcount)
    /\ UNCHANGED <<bankVars, read_ptr, nextVars, packet_in_lld, read_bank, notifyVars,
                   arrived, data, incoming_tcount, incoming_packet, status, link_status, out>>

\* Mutant: other notifications are forgotten.
SetLinkStateOnly ==
    /\ pc = "select"
    /\ link_status' \in {"up", "down"} \ {link_status}
    /\ status' = [c \in Clients |-> IF status[c] = "waiting" THEN "pending" ELSE status[c]]
    /\ notified' = {c \in Clients : status[c] = "waiting"}
    /\ UNCHANGED <<liteVars, incoming_data, incoming_tcount, incoming_packet, out>>

\* set_link_state, when the state changes
SetLinkState ==
    /\ pc = "select"
    /\ link_status' \in {"up", "down"} \ {link_status}
    /\ status' = [c \in Clients |-> IF status[c] = "waiting" THEN "pending" ELSE status[c]]
    /\ notified' = notified \cup {c \in Clients : status[c] = "waiting"}
    /\ UNCHANGED <<liteVars, incoming_data, incoming_tcount, incoming_packet, out>>

\* enable_link_status_notification and disable_link_status_notification
SetStatus(c) ==
    /\ pc = "select"
    /\ \E s \in {"waiting", "ignoring"} : status' = [status EXCEPT ![c] = s]
    /\ UNCHANGED <<liteVars, incoming_data, incoming_tcount, incoming_packet, link_status,
                   notified, out>>

----------------------------------------------------------------------------
(* _complete_send_packet: the task waits until the packet has gone out.    *)

SendPacket ==
    /\ pc = "select"
    /\ pc' = "timestamp"
    /\ out' = "given"
    /\ UNCHANGED <<bankVars, read_ptr, nextVars, packet_in_lld, read_bank, notifyVars,
                   arrived, data, base, macVars>>

\* The first words are on the wire: the driver returns the time.
Timestamp ==
    /\ pc = "timestamp"
    /\ out = "given"
    /\ pc' = "sent"
    /\ out' = "sending"
    /\ UNCHANGED <<bankVars, read_ptr, nextVars, packet_in_lld, read_bank, notifyVars,
                   arrived, data, base, macVars>>

\* The low level driver asks for the next packet.
RequestNext ==
    /\ out = "sending"
    /\ out' = "done"
    /\ UNCHANGED <<liteVars, macVars>>

\* mii_packet_sent
PacketSent ==
    /\ pc = "sent"
    /\ out = "done"
    /\ pc' = "select"
    /\ out' = "idle"
    /\ UNCHANGED <<bankVars, read_ptr, nextVars, packet_in_lld, read_bank, notifyVars,
                   arrived, data, base, macVars>>

----------------------------------------------------------------------------
GetPacket(c) == GetStatus(c) \/ GetData(c) \/ GetNoData(c)

Continues ==
    \/ (LiteStep /\ UNCHANGED <<macVars, out>>)
    \/ DropIncoming \/ NoIncoming \/ \E wanted \in SUBSET Clients : SendToClients(wanted)
    \/ Timestamp \/ PacketSent

Next ==
    \/ Interrupt /\ UNCHANGED <<macVars, out>>
    \/ IncomingPacket
    \/ Continues
    \/ \E c \in Clients : GetPacket(c)
    \/ \E c \in Reported : SetStatus(c)
    \/ SetLinkState
    \/ SendPacket
    \/ RequestNext

Spec == Init /\ [][Next]_vars

\* The task and the low level driver have cores of their own.  No call of a
\* client keeps the select from the channel for ever, and a client that has
\* been notified calls get_packet.
Fairness ==
    /\ WF_vars(Continues)
    /\ WF_vars(RequestNext)
    /\ SF_vars(IncomingPacket)
    /\ \A c \in Clients : SF_vars(c \in notified /\ GetPacket(c))

FairSpec == Spec /\ Fairness

----------------------------------------------------------------------------
(* Correctness.                                                            *)

InUse == {arrived[n] : n \in 1 .. Len(arrived)} \cup ({incoming_data, data} \ {None})
             \cup (IF pc = "free" THEN {base} ELSE {})

\* The buffers that the low level driver fills now and next are clear of
\* each other and of every packet that waits, is held or has not been freed.
BuffersClear ==
    LET filled == {packet_in_lld, next_buffer} \ {None}
    IN  /\ next_buffer # packet_in_lld
        /\ \A b \in filled, a \in InUse :
               BufferBytes(b) \cap PacketBytes(a, header[a - 4]) = {}

\* A packet that the task has been given is its own until it releases it.
PacketOwned ==
    \A a \in {data, incoming_data} \ {None} :
        /\ a - 4 \in DOMAIN header /\ header[a - 4] > 1
        /\ \A b \in {packet_in_lld, next_buffer} \ {None} :
               BufferBytes(b) \cap PacketBytes(a, header[a - 4]) = {}

Layer == INSTANCE MiiLayer WITH
    waiting <- arrived, owned <- {data, incoming_data} \ {None}, sending <- (out # "idle")

\* Packets come in the order in which they arrived, whatever bank they were
\* in and wherever its tail was left unused, and none arrives in the memory
\* of one that waits or that the task has and has not released.
ImplementsMiiLayer == Layer!Spec

\* While packets wait there is a notification in the channel, or the client
\* is about to look, or to notify itself.
WaitingNotified ==
    read_bank # <<>> => tokens # <<>> \/ pc \in {"get", "wrap", "more", "notify"}

\* A packet that a client has not been told of: a status report came first.
Hidden == incoming_packet \ notified

OnlyStatusHides ==
    [][\A c \in Hidden' \ Hidden : status[c] = "pending"]_vars

\* A receiver without a next buffer gets one, unless a client does not
\* fetch the packet because it was not told.
ReceiverRecovers == next_buffer = None ~> next_buffer # None \/ Hidden # {}

\* Packets that wait are taken, whatever the task does meanwhile.
PacketsTaken == read_bank # <<>> ~> pc = "wrap"
=============================================================================
