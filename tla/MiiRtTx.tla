------------------------------ MODULE MiiRtTx ------------------------------
(***************************************************************************)
(* The low priority transmit path of the real-time MII MAC.  A client asks *)
(* for a buffer (_init_send_packet) and, once the server has reserved one  *)
(* for it in tx_mem_lp, hands over its packet (_complete_send_packet),     *)
(* which the server copies, commits and adds to tx_packets_lp.  The task   *)
(* mii_master_tx_pins sends the packets of the queue, frees them, and      *)
(* returns the time of those that asked for it through a queue of its own. *)
(*                                                                         *)
(* Reserving does not move wrptr: only the commit does.                    *)
(***************************************************************************)
EXTENDS PacketQueue, FiniteSets, Sequences

CONSTANTS
    Clients,                            \* the transmit clients
    PoolEnd, HeaderWords, MinUsage,     \* of the memory pool
    DummyPtr,
    FrameWords,     \* the lengths of packets, in words of data
    DataWords,      \* MII_PACKET_DATA_BYTES, in words
    Tags,           \* what tells the packets of a client apart
    PrioritizeRx,   \* what a send sets prioritize_rx to, 3
    MaxPrioritize,  \* bound: prioritize_rx, raised further by each get_packet
    TornRead        \* whether both stores of mii_free_index may fall between
                    \* the two loads of mii_get_rdptr

INSTANCE Mempool WITH NullPtr <- Null

ASSUME PoolAssumption == MempoolAssumption

\* Mutant: the ring of times has as many entries as there are clients.
TsEntriesShort == Cardinality(Clients)

\* The ring of times has an entry more than there are clients.
NumTsEntries == Cardinality(Clients) + 1

INSTANCE TsQueue WITH TsEntries <- NumTsEntries, TsIds <- Clients

NoClient == 0   \* timestamp_id of a packet whose time nobody wants

\* MIN_USAGE is 14 words, and the data of a mii_packet_t have 382.
ASSUME MiiRtTxAssumption ==
    /\ IsFiniteSet(Clients)
    /\ FrameWords # {} /\ FrameWords \subseteq Nat \ {0}
    /\ DataWords \in Nat /\ \A n \in FrameWords : n <= DataWords
    /\ MinUsage <= DataWords
    /\ NoClient \notin Clients
    /\ PrioritizeRx \in Nat /\ MaxPrioritize \in Nat /\ PrioritizeRx <= MaxPrioritize
    /\ TornRead \in BOOLEAN

VARIABLES
    q,          \* tx_packets_lp
    wrptr,      \* info->wrptr of tx_mem_lp
    mem,        \* the words of tx_mem_lp; a packet's header is its first word
    requested,  \* requested_send_buffer_size, in words of data, 0 for none
    sendBuffer, \* send_buffer
    hasTime,    \* has_outgoing_timestamp_info
    sending,    \* where each client is in send_packet or send_timed_packet
    pc,         \* where the server is in its loop
    rdIndex,    \* the rd_index that mii_get_rdptr has loaded
    prioritize, \* prioritize_rx
    txPc,       \* where tx_pins is in its loop
    txBuf,      \* the packet it is sending
    freeing,    \* the slot mii_free_index is about to clear
    times       \* ts_queue_lp: of each time, the client it is for

serverVars == <<wrptr, requested, sendBuffer, hasTime, pc, rdIndex, prioritize>>
txVars == <<txPc, txBuf, freeing>>
vars == <<q, mem, serverVars, sending, txVars, times>>

Data == [from : Clients, tag : Tags]
Header == [len : FrameWords, timed : Clients \cup {NoClient}]

TypeOK ==
    /\ q \in QueueOf(Word)
    /\ wrptr \in 0 .. LastSafe
    /\ mem \in [Word -> Header \cup Data \cup {Null}]
    /\ requested \in [Clients -> FrameWords \cup {0}]
    /\ sendBuffer \in [Clients -> Word \cup {Null}]
    /\ hasTime \in [Clients -> BOOLEAN]
    /\ sending \in [Clients -> {"idle", "sending", "timing"}]
    /\ pc \in {"select", "add", "post", "reserve"}
    /\ rdIndex \in Index
    /\ prioritize \in 0 .. MaxPrioritize
    /\ txPc \in {"next", "transmit", "freeRd", "freeSlot"}
    /\ txBuf \in Word \cup {Null}
    /\ freeing \in Index
    /\ times \in TsQueueType

\* init_tx_client_state, and the start of the server and of tx_pins
Init ==
    /\ q = EmptyQueue
    /\ wrptr = 0
    /\ mem = [w \in Word |-> Null]
    /\ requested = [c \in Clients |-> 0]
    /\ sendBuffer = [c \in Clients |-> Null]
    /\ hasTime = [c \in Clients |-> FALSE]
    /\ sending = [c \in Clients |-> "idle"]
    /\ pc = "select"
    /\ rdIndex = 0
    /\ prioritize = 0
    /\ txPc = "next"
    /\ txBuf = Null
    /\ freeing = 0
    /\ TsQueueInit(times)

----------------------------------------------------------------------------
(* The select statement of mii_ethernet_server, as far as transmission is  *)
(* concerned.                                                              *)

\* Mutant: prioritize_rx is not counted down.
DecNever(n) == n

\* What is left of prioritize_rx at the start of an iteration.
Dec(n) == IF n = 0 THEN 0 ELSE n - 1

\* The default case, and the calls that touch nothing modelled here.
SelectOther ==
    /\ pc = "select"
    /\ prioritize' = Dec(prioritize)
    /\ pc' = "post"
    /\ UNCHANGED <<q, mem, wrptr, requested, sendBuffer, hasTime, rdIndex, sending, txVars, times>>

\* get_packet gives the receive side one more turn before a send.
GetPacket ==
    /\ pc = "select"
    /\ Dec(prioritize) + 1 <= MaxPrioritize
    /\ prioritize' = Dec(prioritize) + 1
    /\ pc' = "post"
    /\ UNCHANGED <<q, mem, wrptr, requested, sendBuffer, hasTime, rdIndex, sending, txVars, times>>

\* _init_send_packet, the first call of send_packet and send_timed_packet
InitSend(c, n) ==
    /\ pc = "select"
    /\ sending[c] = "idle"
    /\ sending' = [sending EXCEPT ![c] = "sending"]
    /\ requested' = IF sendBuffer[c] = Null THEN [requested EXCEPT ![c] = n] ELSE requested
    /\ prioritize' = Dec(prioritize)
    /\ pc' = "post"
    /\ UNCHANGED <<q, mem, wrptr, sendBuffer, hasTime, rdIndex, txVars, times>>

\* The memory with packet h, of data d, written at s.
WithPacket(s, h, d) ==
    [w \in Word |->
        IF w = s THEN h
        ELSE IF w \in WordsOf(s, h.len) \ WordsOf(s, 0) THEN d ELSE mem[w]]

\* Mutant: the buffer is written and queued but not committed.
CompleteSendUncommitted(c, g, timed) ==
    /\ pc = "select"
    /\ sending[c] = "sending"
    /\ sendBuffer[c] # Null
    /\ Dec(prioritize) = 0
    /\ LET s == sendBuffer[c]
           n == requested[c]
       IN  /\ mem' = WithPacket(s, [len |-> n, timed |-> IF timed THEN c ELSE NoClient], [from |-> c, tag |-> g])
           /\ wrptr' = wrptr
           /\ q' = StorePtr(q, s)
    /\ sending' = [sending EXCEPT ![c] = IF timed THEN "timing" ELSE "idle"]
    /\ sendBuffer' = [sendBuffer EXCEPT ![c] = Null]
    /\ requested' = [requested EXCEPT ![c] = 0]
    /\ prioritize' = PrioritizeRx
    /\ pc' = "add"
    /\ UNCHANGED <<hasTime, rdIndex, txVars, times>>

\* _complete_send_packet: copy the packet, commit, and the first store of
\* mii_add_packet.  The client sends the n words it asked for; its packet
\* is g, and timed says whether it wants the time.
CompleteSend(c, g, timed) ==
    /\ pc = "select"
    /\ sending[c] = "sending"
    /\ sendBuffer[c] # Null
    /\ Dec(prioritize) = 0
    /\ LET s == sendBuffer[c]
           n == requested[c]
       IN  /\ mem' = WithPacket(s, [len |-> n, timed |-> IF timed THEN c ELSE NoClient], [from |-> c, tag |-> g])
           /\ wrptr' = Commit(WordAfter(s, HeaderWords + n))
           /\ q' = StorePtr(q, s)
    /\ sending' = [sending EXCEPT ![c] = IF timed THEN "timing" ELSE "idle"]
    /\ sendBuffer' = [sendBuffer EXCEPT ![c] = Null]
    /\ requested' = [requested EXCEPT ![c] = 0]
    /\ prioritize' = PrioritizeRx
    /\ pc' = "add"
    /\ UNCHANGED <<hasTime, rdIndex, txVars, times>>

\* The second store of mii_add_packet.
AddPacket ==
    /\ pc = "add"
    /\ q' = AdvanceWr(q)
    /\ pc' = "post"
    /\ UNCHANGED <<mem, wrptr, requested, sendBuffer, hasTime, rdIndex, prioritize, sending, txVars, times>>

\* _get_outgoing_timestamp, the last call of send_timed_packet
GetTime(c) ==
    /\ pc = "select"
    /\ sending[c] = "timing"
    /\ hasTime[c]
    /\ hasTime' = [hasTime EXCEPT ![c] = FALSE]
    /\ sending' = [sending EXCEPT ![c] = "idle"]
    /\ prioritize' = Dec(prioritize)
    /\ pc' = "post"
    /\ UNCHANGED <<q, mem, wrptr, requested, sendBuffer, rdIndex, txVars, times>>

----------------------------------------------------------------------------
(* The end of an iteration: reserve and handle_ts_queue.                   *)

\* Mutant: room is asked for the data alone.
GrantedDataOnly(c) ==
    /\ requested[c] # 0
    /\ ReservesAtLeast(wrptr, q.ptrs[rdIndex], requested[c])

\* A client that has asked for a buffer and has none gets the one at wrptr
\* if there is room for its packet and a whole mii_packet_t ahead of the
\* packet that mii_get_rdptr's second load finds.
Granted(c) ==
    /\ requested[c] # 0
    /\ ReservesAtLeast(wrptr, q.ptrs[rdIndex], requested[c] + HeaderWords + DataWords)

\* handle_ts_queue
HandleTimes ==
    /\ hasTime' = [c \in Clients |-> hasTime[c] \/ (TsFound(times) /\ c = TsOldest(times))]
    /\ times' = TsGet(times)

\* Mutant: buffers are reserved whether the queue has room or not.
LoadRdAlways ==
    /\ pc = "post"
    /\ rdIndex' = q.rd
    /\ pc' = "reserve"
    /\ UNCHANGED <<q, mem, wrptr, requested, sendBuffer, hasTime, prioritize, sending, txVars, times>>

\* The queue is not full, and stays so, since only this task adds to it;
\* and the first load of mii_get_rdptr.
LoadRd ==
    /\ pc = "post"
    /\ ~QueueFull(q)
    /\ rdIndex' = q.rd
    /\ pc' = "reserve"
    /\ UNCHANGED <<q, mem, wrptr, requested, sendBuffer, hasTime, prioritize, sending, txVars, times>>

\* The second load, and reserve.
ReserveBuffers ==
    /\ pc = "reserve"
    /\ sendBuffer' = [c \in Clients |->
           IF sendBuffer[c] = Null /\ Granted(c) THEN wrptr ELSE sendBuffer[c]]
    /\ HandleTimes
    /\ rdIndex' = 0
    /\ pc' = "select"
    /\ UNCHANGED <<q, mem, wrptr, requested, prioritize, sending, txVars>>

ReserveNone ==
    /\ pc = "post"
    /\ QueueFull(q)
    /\ HandleTimes
    /\ pc' = "select"
    /\ UNCHANGED <<q, mem, wrptr, requested, sendBuffer, rdIndex, prioritize, sending, txVars>>

Post == LoadRd \/ ReserveBuffers \/ ReserveNone

----------------------------------------------------------------------------
(* mii_master_tx_pins, without the high priority queue.                    *)

\* The packet at s, as it is read out of memory m.
PacketAt(m, s) == [len |-> m[s].len, timed |-> m[s].timed,
                   data |-> [k \in 1 .. m[s].len |-> m[WordAfter(s, HeaderWords + k - 1)]]]

NextPacket ==
    /\ txPc = "next"
    /\ NextBuf(q) # Null
    /\ txBuf' = NextBuf(q)
    /\ txPc' = "transmit"
    /\ UNCHANGED <<q, mem, serverVars, sending, times, freeing>>

\* mii_transmit_packet, and the time it took for the client that wants it.
\* (tcount is 0, so every packet is freed after it has been sent once.)
Transmit ==
    /\ txPc = "transmit"
    /\ times' = IF mem[txBuf].timed = NoClient THEN times ELSE TsAdd(times, mem[txBuf].timed)
    /\ txPc' = "freeRd"
    /\ UNCHANGED <<q, mem, serverVars, sending, txBuf, freeing>>

\* Mutant: rd_index stays where it is.
FreeRdStays ==
    /\ txPc = "freeRd"
    /\ ~(pc = "add" /\ q.wr = q.rd)
    /\ q' = q
    /\ txPc' = "freeSlot"
    /\ txBuf' = Null
    /\ freeing' = q.rd
    /\ UNCHANGED <<mem, serverVars, sending, times>>

\* The server's second store to add a packet is long made when the packet
\* has been sent.
FreeRd ==
    /\ txPc = "freeRd"
    /\ ~(pc = "add" /\ q.wr = q.rd)
    /\ q' = MoveRdOff(q, q.rd)
    /\ txPc' = "freeSlot"
    /\ txBuf' = Null
    /\ freeing' = q.rd
    /\ UNCHANGED <<mem, serverVars, sending, times>>

\* The slot rd has moved off.  Unless TornRead, the store does not overtake
\* a load of mii_get_rdptr from that slot whose index is there already: two
\* stores do not fall between two loads.
FreeSlot ==
    /\ txPc = "freeSlot"
    /\ TornRead \/ ~(pc = "reserve" /\ rdIndex = freeing)
    /\ q' = ClearSlot(q, freeing)
    /\ txPc' = "next"
    /\ freeing' = 0
    /\ UNCHANGED <<mem, serverVars, sending, times, txBuf>>

TxPins == NextPacket \/ Transmit \/ FreeRd \/ FreeSlot

ClientCall ==
    \E c \in Clients :
        \/ \E n \in FrameWords : InitSend(c, n)
        \/ \E g \in Tags, timed \in BOOLEAN : CompleteSend(c, g, timed)
        \/ GetTime(c)

Next == SelectOther \/ GetPacket \/ ClientCall \/ AddPacket \/ Post \/ TxPins

Spec == Init /\ [][Next]_vars

\* Server and tx_pins run on cores of their own.  The receive clients do
\* not have a packet to get in every iteration from some time on (a frame
\* takes longer than an iteration), and a call whose guard holds in
\* iteration after iteration is accepted in the end.
Fairness ==
    /\ WF_vars(SelectOther \/ AddPacket \/ Post)
    /\ SF_vars(SelectOther)
    /\ WF_vars(TxPins)
    /\ \A c \in Clients :
          /\ SF_vars(\E g \in Tags, timed \in BOOLEAN : CompleteSend(c, g, timed))
          /\ SF_vars(GetTime(c))

FairSpec == Spec /\ Fairness

----------------------------------------------------------------------------
(* Correctness.                                                            *)

\* A null pointer from mii_get_rdptr means that no slot is in use ("There are
\* no currenlty allocate packets so there is enough room", mii_buffering.c),
\* although rd_index and the slot are loaded one after the other while
\* tx_pins moves the one and clears the other.
NullMeansEmpty ==
    pc = "reserve" /\ q.ptrs[rdIndex] = Null =>
        \A i \in Index : Used(q, i) => txPc = "freeSlot" /\ i = freeing

\* The slots of packets that have been handed over and not yet sent.
Waiting ==
    {i \in Index : /\ Used(q, i)
                   /\ ~(txPc = "freeRd" /\ i = q.rd)
                   /\ ~(txPc = "freeSlot" /\ i = freeing)}

\* A buffer that has been reserved keeps clear of the packets that wait or
\* are being sent, whatever tx_pins has freed or the commits have wrapped.
ReservationsClear ==
    \A c \in Clients, i \in Waiting : sendBuffer[c] # Null =>
        LET s == q.ptrs[i]
        IN  WordsOf(s, mem[s].len) \cap WordsOf(sendBuffer[c], requested[c]) = {}

\* A buffer is only handed out while the queue has a slot for the packet,
\* so that mii_add_packet, which does not look, never overwrites one.
SlotForReservation ==
    \A c \in Clients : sendBuffer[c] # Null => ~QueueFull(q)

\* The client that gets a time is the one that waits for it, and the
\* packet it waits for has been sent.
TimeIsForWaiting ==
    \A c \in Clients :
        /\ hasTime[c] => sending[c] = "timing"
        /\ Cardinality({i \in TsWaiting(times) : times.fifo[i] = c})
               + Cardinality({i \in Waiting : mem[q.ptrs[i]].timed = c})
               + (IF hasTime[c] THEN 1 ELSE 0)
            = IF sending[c] = "timing" THEN 1 ELSE 0

\* Every call of send_packet and send_timed_packet returns (ethernet.h).
SendReturns == \A c \in Clients : sending[c] # "idle" ~> sending[c] = "idle"

Frames ==
    UNION {{[len |-> n, timed |-> t, data |-> [k \in 1 .. n |-> [from |-> c, tag |-> g]]] :
               n \in FrameWords, t \in {c, NoClient}, g \in Tags} : c \in Clients}

ASSUME NullAssumption == Null \notin Frames

\* The packets that wait, in the order of the ring from here on.
NextToSend == IF txPc = "freeRd" THEN NextIndex(q.rd) ELSE q.rd
Pending ==
    LET waiting == Slots(NextToSend, Cardinality(Waiting))
    IN  [k \in DOMAIN waiting |-> PacketAt(mem, q.ptrs[waiting[k]])]

Abstract == INSTANCE TxDelivery WITH
    None <- Null,
    wire <- IF txPc = "freeRd" THEN PacketAt(mem, txBuf) ELSE Null,
    pending <- Pending

\* The packets that the clients hand over go out whole, once each, in order.
ImplementsTxDelivery == Abstract!Spec
=============================================================================
