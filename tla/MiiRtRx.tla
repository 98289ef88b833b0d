------------------------------ MODULE MiiRtRx ------------------------------
(***************************************************************************)
(* Delivery of low priority packets by the real-time MII MAC               *)
(* (mii_ethernet_rt_mac.xc): the filter task adds received packets to a    *)
(* shared PacketQueue, and the server task hands each one to the clients   *)
(* that want it.                                                           *)
(*                                                                         *)
(* A client has no copy of a packet: its fifo holds indices of the shared  *)
(* queue, and the packet's tcount says how many more clients have to let   *)
(* go of the slot.  The server takes packets out in order with an index of *)
(* its own (myRd), ahead of the queue's rd, which waits for the oldest     *)
(* packet that some client still holds.                                    *)
(*                                                                         *)
(* The server is one loop; pc says which part of an iteration comes next.  *)
(* Its steps are cut where the filter can see the difference: between the  *)
(* reads and the two stores that free a slot.                              *)
(***************************************************************************)
EXTENDS PacketQueue, FiniteSets, FiniteSetsExt, Sequences

CONSTANTS
    Clients,           \* the receive clients
    FifoSize,          \* ETHERNET_RX_CLIENT_QUEUE_SIZE: slots of a client's fifo
    Etypes,            \* Ethertypes that occur
    MaxEtypeFilters,   \* ETHERNET_MAX_ETHERTYPE_FILTERS
    Tags,              \* what tells packets apart besides their addressing
    LinkStates,        \* link states the configuration clients report
    HasHpChannel,      \* whether c_rx_hp is connected
    MaxBacklog         \* bound: unprocessed packets the filter runs ahead of the server

ASSUME MiiRtRxAssumption ==
    /\ IsFiniteSet(Clients)
    /\ FifoSize \in Nat /\ FifoSize > 1
    /\ IsFiniteSet(Etypes)
    /\ MaxEtypeFilters \in Nat
    /\ "DOWN" \in LinkStates
    /\ HasHpChannel \in BOOLEAN
    /\ MaxBacklog \in 1 .. NumPointers

VARIABLES
    lp,         \* rx_packets_lp
    adding,     \* the filter is between the two stores of mii_add_packet
    myRd,       \* rd_index_lp: the next packet the server takes
    pc,         \* where the server is in its loop
    idx,        \* the slot the server is working on
    ret,        \* where the server goes on after freeing a slot
    todo,       \* clients that drop_lp_packets has still to visit
    fifo,       \* a client's fifo, rd_index and wr_index
    notified,   \* packet_ready() is raised and get_packet() has not cleared it
    status,     \* status_update_state
    etypes,     \* etype_filters: how many entries a client has for a type
    link        \* p_port_state->link_state

vars == <<lp, adding, myRd, pc, idx, ret, todo, fifo, notified, status, etypes, link>>

\* What the variables of the clients' configuration are.
configVars == <<status, etypes, link>>

\* tcount before handle_incoming_packet has written it.
NotRouted == -1

Packets == [dst : SUBSET Clients, etype : Etypes, tag : Tags,
            tcount : NotRouted .. Cardinality(Clients) - 1]

\* A pointer to a packet is not the null pointer.
ASSUME NullAssumption == Null \notin Packets

PcValues == {"select", "incoming", "route", "move", "freeRd", "freeSlot", "drop"}

TypeOK ==
    /\ lp \in QueueOf(Packets)
    /\ adding \in BOOLEAN
    /\ myRd \in Index
    /\ pc \in PcValues
    /\ idx \in Index
    /\ ret \in {"incoming", "move", "drop"}
    /\ todo \subseteq Clients
    /\ fifo \in [Clients -> Seq(Index)]
    /\ notified \in [Clients -> BOOLEAN]
    /\ status \in [Clients -> {"IGNORING", "WAITING", "PENDING"}]
    /\ etypes \in [Clients -> [Etypes -> Nat]]
    /\ link \in LinkStates

\* init_rx_client_state, init_server_port_state and the start of mii_ethernet_server
Init ==
    /\ lp = EmptyQueue
    /\ adding = FALSE
    /\ myRd = 0
    /\ pc = "select"
    /\ idx = 0
    /\ ret = "incoming"
    /\ todo = {}
    /\ fifo = [c \in Clients |-> <<>>]
    /\ notified = [c \in Clients |-> FALSE]
    /\ status = [c \in Clients |-> "WAITING"]
    /\ etypes = [c \in Clients |-> [t \in Etypes |-> 0]]
    /\ link = "DOWN"

----------------------------------------------------------------------------
(* The filter task.                                                        *)

Unrouted(i) == Used(lp, i) /\ lp.ptrs[i].tcount = NotRouted

\* Packets the server has not taken out yet.
Backlog == {i \in Index : Unrouted(i)}

\* mii_ethernet_filter: add a packet for the clients of its filter result,
\* unless the queue is full, when the packet is dropped.  The result may be 0.
FilterStore ==
    /\ ~adding
    /\ ~QueueFull(lp)
    /\ Cardinality(Backlog) < MaxBacklog
    /\ \E d \in SUBSET Clients, t \in Etypes, g \in Tags :
          lp' = StorePtr(lp, [dst |-> d, etype |-> t, tag |-> g, tcount |-> NotRouted])
    /\ adding' = TRUE
    /\ UNCHANGED <<myRd, pc, idx, ret, todo, fifo, notified, configVars>>

FilterAdvance ==
    /\ adding
    /\ lp' = AdvanceWr(lp)
    /\ adding' = FALSE
    /\ UNCHANGED <<myRd, pc, idx, ret, todo, fifo, notified, configVars>>

----------------------------------------------------------------------------
(* Freeing a slot: mii_free_index, called from three places.               *)

\* The filter makes its second store a few cycles after the first, and the
\* cores run in lockstep, while the server has read the pointer, filtered
\* it for every client and counted.  So the server does not move an index
\* off a slot whose addition is still under way.
StoreSettled(i) == ~(adding /\ lp.wr = i)

StartFree(i, back) == /\ pc' = "freeRd"
                      /\ idx' = i
                      /\ ret' = back

FreeMoveRd ==
    /\ pc = "freeRd"
    /\ StoreSettled(idx)
    /\ lp' = MoveRdOff(lp, idx)
    /\ pc' = "freeSlot"
    /\ UNCHANGED <<adding, myRd, idx, ret, todo, fifo, notified, configVars>>

FreeClearSlot ==
    /\ pc = "freeSlot"
    /\ lp' = ClearSlot(lp, idx)
    /\ pc' = IF ret = "drop" /\ todo = {} THEN "select" ELSE ret
    /\ idx' = 0
    /\ ret' = "incoming"
    /\ UNCHANGED <<adding, myRd, todo, fifo, notified, configVars>>

----------------------------------------------------------------------------
(* The select statement of mii_ethernet_server.                            *)

\* get_packet with a link status change to report.  The packets of the
\* fifo stay, and nothing announces them again.
GetStatus(c) ==
    /\ pc = "select"
    /\ notified[c]
    /\ status[c] = "PENDING"
    /\ status' = [status EXCEPT ![c] = "WAITING"]
    /\ notified' = [notified EXCEPT ![c] = FALSE]
    /\ pc' = "incoming"
    /\ UNCHANGED <<lp, adding, myRd, idx, ret, todo, fifo, etypes, link>>

\* Mutant: drop_lp_packets ignores the count and frees the slot.
ReleaseHeadAlways(c, back) ==
    /\ fifo' = [fifo EXCEPT ![c] = Tail(@)]
    /\ StartFree(Head(fifo[c]), back)
    /\ lp' = lp

\* Mutant: the last client's count is not noticed.
ReleaseHeadKeeps(c, back) ==
    LET i == Head(fifo[c])
    IN  /\ fifo' = [fifo EXCEPT ![c] = Tail(@)]
        /\ lp' = [lp EXCEPT !.ptrs[i].tcount = IF @ = 0 THEN 0 ELSE @ - 1]
        /\ pc' = IF back = "drop" /\ todo' = {} THEN "select" ELSE back
        /\ UNCHANGED <<idx, ret>>

\* Client c lets go of the oldest packet of its fifo: the slot is freed if
\* the count mii_get_and_dec_transmit_count returned was 0.
ReleaseHead(c, back) ==
    LET i == Head(fifo[c])
    IN  /\ fifo' = [fifo EXCEPT ![c] = Tail(@)]
        /\ IF lp.ptrs[i].tcount = 0
           THEN /\ StartFree(i, back)
                /\ lp' = lp
           ELSE /\ lp' = [lp EXCEPT !.ptrs[i].tcount = @ - 1]
                /\ pc' = IF back = "drop" /\ todo' = {} THEN "select" ELSE back
                /\ UNCHANGED <<idx, ret>>

\* Mutant: get_packet does not raise packet_ready() again.
GetDataSilent(c) ==
    /\ pc = "select"
    /\ notified[c]
    /\ status[c] # "PENDING"
    /\ fifo[c] # <<>>
    /\ todo' = todo
    /\ ReleaseHead(c, "incoming")
    /\ notified' = [notified EXCEPT ![c] = FALSE]
    /\ UNCHANGED <<adding, myRd, configVars>>

\* get_packet with a packet in the fifo; packet_ready() is raised again if
\* there are more.  (The fifo is read by the server alone, so it makes no
\* difference that the code advances it after it has freed the slot.)
GetData(c) ==
    /\ pc = "select"
    /\ notified[c]
    /\ status[c] # "PENDING"
    /\ fifo[c] # <<>>
    /\ todo' = todo
    /\ ReleaseHead(c, "incoming")
    /\ notified' = [notified EXCEPT ![c] = Tail(fifo[c]) # <<>>]
    /\ UNCHANGED <<adding, myRd, configVars>>

\* get_packet with nothing to get: drop_lp_packets emptied the fifo after
\* it had been announced, or the status report announced was switched off.
GetNoData(c) ==
    /\ pc = "select"
    /\ notified[c]
    /\ status[c] # "PENDING"
    /\ fifo[c] = <<>>
    /\ notified' = [notified EXCEPT ![c] = FALSE]
    /\ pc' = "incoming"
    /\ UNCHANGED <<lp, adding, myRd, idx, ret, todo, fifo, configVars>>

\* The calls below change only the configuration.
ConfigCall ==
    /\ pc = "select"
    /\ pc' = "incoming"
    /\ UNCHANGED <<lp, adding, myRd, idx, ret, todo, fifo>>

\* set_link_state with a new state, and update_client_state
SetLinkState(s) ==
    /\ ConfigCall
    /\ link # s
    /\ link' = s
    /\ status' = [c \in Clients |-> IF status[c] = "WAITING" THEN "PENDING" ELSE status[c]]
    /\ notified' = [c \in Clients |-> notified[c] \/ status[c] = "WAITING"]
    /\ UNCHANGED etypes

NumEtypeFilters(c) == MapThenSumSet(LAMBDA t : etypes[c][t], Etypes)

\* add_ethertype_filter; the caller stays within the documented maximum,
\* which the code asserts.
AddEtypeFilter(c, t) ==
    /\ ConfigCall
    /\ NumEtypeFilters(c) < MaxEtypeFilters
    /\ etypes' = [etypes EXCEPT ![c][t] = @ + 1]
    /\ UNCHANGED <<notified, status, link>>

\* del_ethertype_filter removes every entry for the type.
DelEtypeFilter(c, t) ==
    /\ ConfigCall
    /\ etypes[c][t] > 0
    /\ etypes' = [etypes EXCEPT ![c][t] = 0]
    /\ UNCHANGED <<notified, status, link>>

EnableLinkNotification(c) ==
    /\ ConfigCall
    /\ status[c] # "WAITING"
    /\ status' = [status EXCEPT ![c] = "WAITING"]
    /\ UNCHANGED <<notified, etypes, link>>

DisableLinkNotification(c) ==
    /\ ConfigCall
    /\ status[c] # "IGNORING"
    /\ status' = [status EXCEPT ![c] = "IGNORING"]
    /\ UNCHANGED <<notified, etypes, link>>

\* The default case, and the calls that change nothing modelled here.
SelectNothing ==
    /\ ConfigCall
    /\ UNCHANGED <<notified, configVars>>

----------------------------------------------------------------------------
(* The rest of an iteration: handle_incoming_packet and drop_lp_packets.   *)

\* Mutant: the Ethertype filters are not consulted.
WantsAnyEtype(c, p) == c \in p.dst

Wants(c, p) == /\ c \in p.dst
               /\ \/ \A t \in Etypes : etypes[c][t] = 0
                  \/ etypes[c][p.etype] > 0

\* Mutant: an off-by-one in the test for a full fifo.
HasSpaceByOne(c) == Len(fifo[c]) < FifoSize

\* One place of the ring is never used, to tell full from empty.
HasSpace(c) == Len(fifo[c]) < FifoSize - 1

\* Fewer than MII_RX_THRESHOLD_BYTES may be left in the memory pool only
\* if the low priority queue has an oldest packet.
MayDrop == HasHpChannel /\ NextBuf(lp) # Null

\* The end of handle_incoming_packet: low priority packets are dropped
\* when the memory pool, which is not modelled here, is nearly full.
EndIncoming ==
    \/ /\ pc' = "select"
       /\ todo' = todo
    \/ /\ MayDrop
       /\ Clients # {}
       /\ pc' = "drop"
       /\ todo' = Clients

TakeNone ==
    /\ pc = "incoming"
    /\ MyNextBuf(lp, myRd) = Null
    /\ EndIncoming
    /\ UNCHANGED <<lp, adding, myRd, idx, ret, fifo, notified, configVars>>

TakePacket ==
    /\ pc = "incoming"
    /\ MyNextBuf(lp, myRd) # Null
    /\ pc' = "route"
    /\ idx' = myRd
    /\ UNCHANGED <<lp, adding, myRd, ret, todo, fifo, notified, configVars>>

\* Mutant: tcount is the number of holders, not one less.
RouteCountsAll ==
    /\ pc = "route"
    /\ LET takers == {c \in Clients : Wants(c, lp.ptrs[idx]) /\ HasSpace(c)}
       IN  /\ fifo' = [c \in Clients |-> IF c \in takers THEN Append(fifo[c], idx) ELSE fifo[c]]
           /\ notified' = [c \in Clients |-> notified[c] \/ c \in takers]
           /\ IF takers = {}
              THEN /\ StartFree(idx, "move")
                   /\ lp' = lp
              ELSE /\ lp' = [lp EXCEPT !.ptrs[idx].tcount = Cardinality(takers)]
                   /\ pc' = "move"
                   /\ idx' = 0
                   /\ ret' = ret
    /\ UNCHANGED <<adding, myRd, todo, configVars>>

\* Put the index into the fifo of every client that wants the packet and
\* has space; a packet nobody takes is freed.
Route ==
    /\ pc = "route"
    /\ LET takers == {c \in Clients : Wants(c, lp.ptrs[idx]) /\ HasSpace(c)}
       IN  /\ fifo' = [c \in Clients |-> IF c \in takers THEN Append(fifo[c], idx) ELSE fifo[c]]
           /\ notified' = [c \in Clients |-> notified[c] \/ c \in takers]
           /\ IF takers = {}
              THEN /\ StartFree(idx, "move")
                   /\ lp' = lp
              ELSE /\ lp' = [lp EXCEPT !.ptrs[idx].tcount = Cardinality(takers) - 1]
                   /\ pc' = "move"
                   /\ idx' = 0
                   /\ ret' = ret
    /\ UNCHANGED <<adding, myRd, todo, configVars>>

MoveMyRd ==
    /\ pc = "move"
    /\ StoreSettled(myRd)
    /\ myRd' = MoveMyRdIndex(lp, myRd)
    /\ EndIncoming
    /\ UNCHANGED <<lp, adding, idx, ret, fifo, notified, configVars>>

\* drop_lp_packets drops the oldest packet of each client's fifo.  The
\* code visits the clients by number, here they come in any order.
DropHead(c) ==
    /\ pc = "drop"
    /\ c \in todo
    /\ fifo[c] # <<>>
    /\ todo' = todo \ {c}
    /\ ReleaseHead(c, "drop")
    /\ UNCHANGED <<adding, myRd, notified, configVars>>

DropNothing(c) ==
    /\ pc = "drop"
    /\ c \in todo
    /\ fifo[c] = <<>>
    /\ todo' = todo \ {c}
    /\ pc' = IF todo' = {} THEN "select" ELSE "drop"
    /\ UNCHANGED <<lp, adding, myRd, idx, ret, fifo, notified, configVars>>

----------------------------------------------------------------------------

Filter == FilterStore \/ FilterAdvance

GetPacket(c) == GetStatus(c) \/ GetData(c) \/ GetNoData(c)

Configure ==
    \/ \E s \in LinkStates : SetLinkState(s)
    \/ \E c \in Clients, t \in Etypes : AddEtypeFilter(c, t) \/ DelEtypeFilter(c, t)
    \/ \E c \in Clients : EnableLinkNotification(c) \/ DisableLinkNotification(c)

\* What the server does without a call from a client.
ServerStep ==
    \/ SelectNothing
    \/ TakeNone \/ TakePacket \/ Route \/ MoveMyRd
    \/ FreeMoveRd \/ FreeClearSlot
    \/ \E c \in Clients : DropHead(c) \/ DropNothing(c)

Next ==
    \/ Filter
    \/ Configure
    \/ ServerStep
    \/ \E c \in Clients : GetPacket(c)

Spec == Init /\ [][Next]_vars

\* Each task runs on a logical core of its own, which is never descheduled;
\* a client that is notified calls get_packet, and a call that is ready in
\* iteration after iteration is accepted in the end.
Fairness ==
    /\ WF_vars(FilterAdvance)
    /\ WF_vars(ServerStep)
    /\ \A c \in Clients : SF_vars(GetPacket(c))

FairSpec == Spec /\ Fairness

----------------------------------------------------------------------------
(* Correctness.                                                            *)

Holders(i) == {c \in Clients : \E k \in 1 .. Len(fifo[c]) : fifo[c][k] = i}

BeingFreed(i) == pc \in {"freeRd", "freeSlot"} /\ idx = i

\* A slot whose index is in a client's fifo holds a routed packet, and its
\* tcount is the number of holders less one: the last client to take or
\* drop a packet frees it, and no other does (mii_get_and_dec_transmit_count).
HeldSlotsCounted ==
    \A i \in Index : Holders(i) # {} =>
        /\ Used(lp, i)
        /\ lp.ptrs[i].tcount = Cardinality(Holders(i)) - 1

\* The server takes a packet out of the queue once: the index it works on
\* in handle_incoming_packet is not that of a packet it has handed out
\* before and a slow client still holds (mii_get_my_next_buf with a ring
\* that has wrapped round).
RoutedOnce ==
    pc = "route" => Unrouted(idx) /\ Holders(idx) = {}

\* No slot is lost: one that is in use waits to be processed, is held by a
\* client, or is being freed (free out of order, partial deliveries, drops).
NoSlotLost ==
    \A i \in Index : Used(lp, i) => Unrouted(i) \/ Holders(i) # {} \/ BeingFreed(i)

\* While packets are in use, rd is on one of them, and no packet in use
\* that the server has handed out lies before it: what mii_get_next_rdptr
\* publishes protects every packet behind it.  (Between the two stores of
\* mii_free_index rd has left the slot that is being cleared.)
RdOnOldest ==
    \A i \in Index : Used(lp, i) /\ ~BeingFreed(i) =>
        /\ Used(lp, lp.rd)
        /\ lp.rd # lp.wr => \/ Distance(lp.rd, i) < Distance(lp.rd, lp.wr)
                            \/ adding /\ i = lp.wr

\* Only a get_packet that reports a link status leaves a client with
\* packets in its fifo and no notification of them.
OnlyStatusHidesPackets ==
    [][\A c \in Clients :
          (fifo[c] # <<>> => notified[c]) /\ ~(fifo[c] # <<>> => notified[c])'
          => status[c] = "PENDING"]_vars

\* Every packet added to the queue is processed: routed to its clients or
\* dropped.
EveryPacketProcessed == \A i \in Index : Unrouted(i) ~> ~Unrouted(i)

\* A client that has packets waiting is told so (packet_ready, ethernet.h).
WaitingPacketsAnnounced == \A c \in Clients : fifo[c] # <<>> ~> notified[c]

----------------------------------------------------------------------------
(* What the queue, the indices and the counts add up to: RxDelivery, where *)
(* every client has a queue of packets of its own.                         *)

\* The server is done with the packet at myRd and has not moved on yet.
DoneWithMyRd == pc = "move" \/ (pc \in {"freeRd", "freeSlot"} /\ ret = "move")

\* The slot of the next packet to hand out.
NextToRoute == IF DoneWithMyRd THEN NextIndex(myRd) ELSE myRd

\* The slots with packets to hand out: as many as there are from there on.
Waiting == {i \in Index : Unrouted(i) /\ ~BeingFreed(i)}

Content(i) == [dst |-> lp.ptrs[i].dst, etype |-> lp.ptrs[i].etype, tag |-> lp.ptrs[i].tag]

pendingBar ==
    LET waiting == Slots(NextToRoute, Cardinality(Waiting))
    IN  [k \in DOMAIN waiting |-> Content(waiting[k])]

queueBar == [c \in Clients |-> [k \in DOMAIN fifo[c] |-> Content(fifo[c][k])]]

acceptsBar == [c \in Clients |->
    IF \A t \in Etypes : etypes[c][t] = 0 THEN Etypes ELSE {t \in Etypes : etypes[c][t] > 0}]

Abstract == INSTANCE RxDelivery WITH
    Capacity <- FifoSize - 1,
    pending <- pendingBar, queue <- queueBar, accepts <- acceptsBar

\* Packets reach every client that wants them in the order they arrived,
\* each at most once and with the content they arrived with, and a full or
\* slow client costs no other client a packet.
ImplementsRxDelivery == Abstract!Spec
=============================================================================
