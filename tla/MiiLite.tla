------------------------------ MODULE MiiLite ------------------------------
(***************************************************************************)
(* The receive buffers of the standard MII layer, mii_lite_driver.xc.  The *)
(* interrupt handler, which runs to its end on the core of the client at   *)
(* any point of what the client does, takes a packet from the low level    *)
(* driver and gives it the next buffer; the client gets packets from the   *)
(* two banks in the order in which they came, and frees them.              *)
(*                                                                         *)
(* Addresses are bytes from the start of the buffer array.  Of the memory  *)
(* only the words that hold the length and state of a buffer are kept:     *)
(* what the driver writes over one is lost.                                *)
(***************************************************************************)
EXTENDS Integers, Sequences

CONSTANTS
    NumberWords,    \* number_words: the size of the buffer array
    MaxPacket,      \* MAXPACKET: 1530, room for a packet
    Lengths,        \* the lengths of packets, with their CRC
    RingSize,       \* 32: slots of read_bank
    MaxTokens       \* bound: notifications in the channel

Words(bytes) == 4 * ((bytes + 3) \div 4)
Bank == {0, 1}

First(bn) == IF bn = 0 THEN 0 ELSE 4 * ((2 * NumberWords) \div 4)
LastSafe(bn) == (IF bn = 0 THEN First(1) ELSE 4 * NumberWords) - MaxPacket

ASSUME MiiLiteAssumption ==
    /\ NumberWords \in Nat /\ MaxPacket \in Nat
    /\ LastSafe(0) > 0
    /\ \A l \in Lengths : l \in 64 .. MaxPacket
    /\ RingSize \in Nat /\ RingSize > 1
    /\ MaxTokens \in Nat \ {0}

\* "No buffer", -1, and the null pointer.
None == -1

VARIABLES
    header,             \* the words at the head of buffers
    free_ptr, wr_ptr, read_ptr,
    next_buffer, refill_bank_number,
    packet_in_lld,      \* the buffer that the low level driver fills
    read_bank,          \* the banks of the packets that wait, in their order
    notify_last, notify_seen,
    tokens,             \* the notifications in the channel
    arrived,            \* history: the packets that wait, in their order
    pc,                 \* where the client is
    data,               \* the packet that mii_lite_get_in_buffer returns
    base                \* the packet that mii_lite_free_in_buffer frees

bankVars == <<header, free_ptr, wr_ptr>>
nextVars == <<next_buffer, refill_bank_number>>
notifyVars == <<notify_last, notify_seen, tokens>>
liteVars == <<bankVars, read_ptr, nextVars, packet_in_lld, read_bank, notifyVars,
              arrived, pc, data, base>>

\* A buffer takes the words of the packet and its header.
RoundBytes(n_bytes) == Words(n_bytes) + 4

BankOf(address) == IF address < First(1) THEN 0 ELSE 1

\* mii_lite_buffer_init and mii_lite_install_handler
LiteInit ==
    /\ header = [a \in {First(0), First(1)} |-> 1]
    /\ free_ptr = [bn \in Bank |-> First(bn)]
    /\ read_ptr = [bn \in Bank |-> First(bn)]
    /\ wr_ptr = [bn \in Bank |-> First(bn) + 4]
    /\ next_buffer = First(1) + 4
    /\ refill_bank_number = 0
    /\ packet_in_lld = First(0) + 4
    /\ read_bank = <<>>
    /\ notify_last = 1
    /\ notify_seen = 1
    /\ tokens = <<>>
    /\ arrived = <<>>
    /\ pc = "select"
    /\ data = None
    /\ base = None

----------------------------------------------------------------------------
(* Memory.                                                                 *)

\* How far the low level driver writes for a packet of n_bytes at its
\* buffer: time stamp, data, and three words for the tail, its length and the CRC.
Written(n_bytes) == 4 * (n_bytes \div 4) + 16

\* Words h after a packet of n_bytes has been written to address a.
Overwrite(h, a, n_bytes) == [w \in DOMAIN h \ (a .. a + Written(n_bytes) - 1) |-> h[w]]

\* set: the word at addr becomes value.
SetWord(h, addr, value) == [w \in DOMAIN h \cup {addr} |-> IF w = addr THEN value ELSE h[w]]

\* Mutant: any room before the oldest packet will do.
RoomAny(bn, wr) == wr # free_ptr[bn]

\* Room for a packet at wr
Room(bn, wr) == wr > free_ptr[bn] \/ free_ptr[bn] - wr >= MaxPacket

\* Mutant: a bank without room gets no mark for its next packet.
NextPlaceUnmarked(bn, wr, h) ==
    IF wr <= LastSafe(bn)
    THEN [wr |-> wr, header |-> IF Room(bn, wr) THEN SetWord(h, wr - 4, 1) ELSE h,
          next |-> IF Room(bn, wr) THEN wr ELSE None]
    ELSE IF free_ptr[bn] = First(bn)
    THEN [wr |-> wr, header |-> h, next |-> None]
    ELSE LET head == First(bn) + 4
         IN  [wr |-> head, header |-> SetWord(SetWord(h, First(bn), 1), wr - 4, 0),
              next |-> IF Room(bn, head) THEN head ELSE None]

\* The last part of mii_commit_buffer and mii_lite_restart_buffer: where the
\* next packet of bank bn goes, which was to be wr.
NextPlace(bn, wr, h) ==
    IF wr <= LastSafe(bn)
    THEN [wr |-> wr, header |-> SetWord(h, wr - 4, 1), next |-> IF Room(bn, wr) THEN wr ELSE None]
    ELSE IF free_ptr[bn] = First(bn)
    THEN [wr |-> wr, header |-> SetWord(h, wr - 4, 1), next |-> None]
    ELSE LET head == First(bn) + 4
         IN  [wr |-> head, header |-> SetWord(SetWord(h, First(bn), 1), wr - 4, 0),
              next |-> IF Room(bn, head) THEN head ELSE None]

\* The effect of a place p of bank bn that NextPlace has found.
Continue(bn, p) ==
    /\ wr_ptr' = [wr_ptr EXCEPT ![bn] = p.wr]
    /\ header' = p.header
    /\ next_buffer' = p.next
    /\ refill_bank_number' = IF p.next = None THEN bn ELSE refill_bank_number

----------------------------------------------------------------------------
(* mii_interrupt_handler.                                                  *)

\* No buffer is free: the driver fills the one it has again.
Overrun(n_bytes) ==
    /\ next_buffer = None
    /\ header' = Overwrite(header, packet_in_lld, n_bytes)
    /\ UNCHANGED <<free_ptr, wr_ptr, read_ptr, nextVars, packet_in_lld, read_bank,
                   notifyVars, arrived, pc, data, base>>

\* Mutant: the client is not notified.
NotifyNever == UNCHANGED <<notify_last, tokens>>

\* mii_notify
Notify ==
    IF notify_last = notify_seen
    THEN /\ notify_last' = 1 - notify_last
         /\ tokens' = Append(tokens, notify_last')
    ELSE UNCHANGED <<notify_last, tokens>>

\* Mutant: the bank of the next packet is logged.
LogNext(a) == Append(read_bank, BankOf(next_buffer))

\* The bank of the packet at a is logged after those that wait.
Log(a) == Append(read_bank, BankOf(a))

\* A packet ends: the driver gets the next buffer, and the packet is committed ...
Commit(n_bytes) ==
    LET a == packet_in_lld
        bn == BankOf(a)
        h == Overwrite(header, a, n_bytes)
    IN  /\ next_buffer # None
        /\ Len(read_bank) < RingSize - 1
        /\ notify_last = notify_seen => Len(tokens) < MaxTokens
        /\ packet_in_lld' = next_buffer
        /\ read_bank' = Log(a)
        /\ arrived' = Append(arrived, a)
        /\ Notify
        /\ Continue(bn, NextPlace(bn, wr_ptr[bn] + RoundBytes(n_bytes),
                                  SetWord(h, wr_ptr[bn] - 4, n_bytes)))
        /\ UNCHANGED <<free_ptr, read_ptr, notify_seen, pc, data, base>>

\* ... or dropped, because read_bank is full ...
DropFull(n_bytes) ==
    /\ next_buffer # None
    /\ Len(read_bank) = RingSize - 1
    /\ header' = Overwrite(header, packet_in_lld, n_bytes)
    /\ packet_in_lld' = next_buffer
    /\ next_buffer' = None
    /\ refill_bank_number' = BankOf(packet_in_lld)
    /\ UNCHANGED <<free_ptr, wr_ptr, read_ptr, read_bank, notifyVars, arrived, pc, data, base>>

\* ... or rejected, because it is short or its CRC is wrong.
Reject(n_bytes) ==
    /\ next_buffer # None
    /\ header' = Overwrite(header, packet_in_lld, n_bytes)
    /\ packet_in_lld' = next_buffer
    /\ next_buffer' = packet_in_lld
    /\ UNCHANGED <<free_ptr, wr_ptr, refill_bank_number, read_ptr, read_bank, notifyVars,
                   arrived, pc, data, base>>

Interrupt == \E n \in Lengths : Overrun(n) \/ Commit(n) \/ DropFull(n) \/ Reject(n)

----------------------------------------------------------------------------
(* mii_lite_get_in_buffer, called at "get" and returned from at "got".     *)

GetNothing ==
    /\ pc = "get"
    /\ read_bank = <<>>
    /\ data' = None
    /\ pc' = "got"
    /\ UNCHANGED <<bankVars, read_ptr, nextVars, packet_in_lld, read_bank, notifyVars,
                   arrived, base>>

GetOldest ==
    /\ pc = "get"
    /\ read_bank # <<>>
    /\ LET bn == Head(read_bank)
           head == IF header[read_ptr[bn]] = 0 THEN First(bn) ELSE read_ptr[bn]
       IN  /\ header[head] # 1
           /\ data' = head + 4
           /\ read_ptr' = [read_ptr EXCEPT ![bn] = head + RoundBytes(header[head])]
    /\ read_bank' = Tail(read_bank)
    /\ arrived' = Tail(arrived)
    /\ pc' = "wrap"
    /\ UNCHANGED <<bankVars, nextVars, packet_in_lld, notifyVars, base>>

\* Past the packet may be the unused tail of the bank.
WrapRead ==
    /\ pc = "wrap"
    /\ LET bn == BankOf(data)
       IN  read_ptr' = IF header[read_ptr[bn]] = 0 THEN [read_ptr EXCEPT ![bn] = First(bn)]
                       ELSE read_ptr
    /\ pc' = "more"
    /\ UNCHANGED <<bankVars, nextVars, packet_in_lld, read_bank, notifyVars, arrived, data, base>>

\* Mutant: the client does not notify itself.
MoreNever ==
    /\ pc = "more"
    /\ pc' = "got"
    /\ UNCHANGED <<bankVars, read_ptr, nextVars, packet_in_lld, read_bank, notifyVars,
                   arrived, data, base>>

\* More packets wait: the client calls mii_notify, first its condition ...
More ==
    /\ pc = "more"
    /\ pc' = IF read_bank # <<>> /\ notify_last = notify_seen THEN "notify" ELSE "got"
    /\ UNCHANGED <<bankVars, read_ptr, nextVars, packet_in_lld, read_bank, notifyVars,
                   arrived, data, base>>

\* ... and then the rest.  If an interrupt has notified the client between
\* the two, it depends on the compiler which value is inverted: notify_last as
\* it is now, or as it was, when it was notify_seen.
NotifyMore ==
    /\ pc = "notify"
    /\ \E last \in {notify_last, notify_seen} :
           /\ notify_last' = 1 - last
           /\ tokens' = Append(tokens, 1 - last)
    /\ pc' = "got"
    /\ UNCHANGED <<bankVars, read_ptr, nextVars, packet_in_lld, read_bank, notify_seen,
                   arrived, data, base>>

----------------------------------------------------------------------------
(* mii_lite_free_in_buffer, called at "free", at "restart" for a null pointer. *)

Negate ==
    /\ pc = "free"
    /\ header' = [header EXCEPT ![base - 4] = -@]
    /\ pc' = "advance"
    /\ UNCHANGED <<free_ptr, wr_ptr, read_ptr, nextVars, packet_in_lld, read_bank, notifyVars,
                   arrived, data, base>>

\* One iteration: what free_ptr is on has been freed, or is the unused tail.
AdvanceFree ==
    /\ pc = "advance"
    /\ LET bn == BankOf(base)
           l == header[free_ptr[bn]]
       IN  \/ l > 0 /\ pc' = "restart" /\ UNCHANGED free_ptr
           \/ /\ l <= 0
              /\ free_ptr' = [free_ptr EXCEPT ![bn] = IF l = 0 THEN First(bn) ELSE @ + RoundBytes(-l)]
              /\ pc' = pc
    /\ UNCHANGED <<header, wr_ptr, read_ptr, nextVars, packet_in_lld, read_bank, notifyVars,
                   arrived, data, base>>

\* Mutant: nobody asks again whether there is room.
RestartNever ==
    /\ pc = "restart"
    /\ base' = None
    /\ pc' = "select"
    /\ UNCHANGED <<bankVars, nextVars, read_ptr, packet_in_lld, read_bank, notifyVars,
                   arrived, data>>

\* mii_lite_restart_buffer.  While there is no next buffer, an interrupt
\* changes nothing that it reads.
Restart ==
    /\ pc = "restart"
    /\ LET bn == refill_bank_number
       IN  IF next_buffer # None THEN UNCHANGED <<header, wr_ptr, nextVars>>
           ELSE Continue(bn, NextPlace(bn, wr_ptr[bn], header))
    /\ base' = None
    /\ pc' = "select"
    /\ UNCHANGED <<free_ptr, read_ptr, packet_in_lld, read_bank, notifyVars, arrived, data>>

LiteStep ==
    \/ GetNothing \/ GetOldest \/ WrapRead \/ More \/ NotifyMore
    \/ Negate \/ AdvanceFree \/ Restart

----------------------------------------------------------------------------
\* The bytes of the packet whose data is at address a, up to the next header.
PacketBytes(a, n_bytes) == a - 4 .. a + Words(n_bytes) - 1

\* The bytes that the driver may write to a buffer at address a.
BufferBytes(a) == UNION {a .. a + Written(l) - 1 : l \in Lengths}

\* A word that has been written over says nothing of a buffer.
HeadersKept ==
    \A bn \in Bank : {free_ptr[bn], read_ptr[bn], wr_ptr[bn] - 4} \subseteq DOMAIN header
=============================================================================
