------------------------------- MODULE RgmiiRx -------------------------------
(***************************************************************************)
(* The receive side of the RGMII MAC: buffers of one size go from a stack  *)
(* of free ones to the pins, with a frame to the buffer manager of those   *)
(* pins, which looks up the address of the frame, through a ring to the    *)
(* server, to the clients and back.  At 1 Gb/s there are two managers,     *)
(* whose pins receive frames in turn.  When the PHY reports another speed, *)
(* all tasks end and start again with the stack and the rings as new.      *)
(*                                                                         *)
(* Stack and rings are changed under a lock.  Free buffers are alike, so   *)
(* of the stack only what is on it is kept, and how often.  A ring has a   *)
(* slot for every buffer, so it is a sequence here.                        *)
(***************************************************************************)
EXTENDS Integers, Sequences, FiniteSets

CONSTANTS
    Buffers,        \* RGMII_MAC_BUFFER_COUNT_RX of them
    NoBuffer,
    Clients,        \* the low priority receive clients
    FifoSize,       \* ETHERNET_RX_CLIENT_QUEUE_SIZE
    Frames,         \* what tells frames apart
    Threshold,      \* RGMII_RX_BUFFERS_THRESHOLD
    HasHp,          \* whether c_rx_hp is connected
    RestartHeld     \* bound: the speed may change while clients have packets

Managers == {0, 1}

\* kind: whether the address filter lets the frame pass, and with what
\* priority.  dst: the clients that want it, by address and Ethertype.
FrameType == [kind : {"filtered", "lp", "hp"}, dst : SUBSET Clients]

ASSUME RgmiiRxAssumption ==
    /\ IsFiniteSet(Buffers) /\ Cardinality(Buffers) >= 4
    /\ NoBuffer \notin Buffers
    /\ IsFiniteSet(Clients)
    /\ FifoSize \in Nat /\ FifoSize > 1
    /\ Frames \subseteq FrameType
    /\ Threshold \in Nat
    /\ {HasHp, RestartHeld} \subseteq BOOLEAN

VARIABLES
    free,           \* free_buffers_rx: how often each buffer is on the stack
    used_lp,        \* used_buffers_rx_lp
    used_hp,        \* used_buffers_rx_hp
    packet,         \* what each buffer holds, nothing if it is free
    to_pins,        \* the buffers the pins of each manager have, the one they
                    \* write first
    to_manager,     \* the channel from them
    manager,        \* where each buffer manager is
    buffer,         \* the buffer it has received
    pc,             \* where the server is
    buf,            \* the high priority packet it sends
    dropping,       \* the clients it has yet to drop a packet of
    fifo            \* the packets that wait for each client

listVars == <<free, used_lp, used_hp, packet>>
pinVars == <<to_pins, to_manager>>
managerVars == <<manager, buffer>>
serverVars == <<pc, buf, dropping, fifo>>
vars == <<listVars, pinVars, managerVars, serverVars>>

Ring == Seq(Buffers)
Slot == Buffers \cup {NoBuffer}

\* A buffer with a frame.  Its tcount is set when it goes to clients.
Filled == [frame : Frames, tcount : {0} \cup 1 .. Cardinality(Clients) - 1]

TypeOK ==
    /\ free \in [Buffers -> Nat]
    /\ {used_lp, used_hp} \subseteq Ring
    /\ packet \in [Buffers -> Filled \cup {NoBuffer}]
    /\ {to_pins, to_manager} \subseteq [Managers -> Ring]
    /\ manager \in [Managers -> {"select", "file", "stopped"}]
    /\ buffer \in [Managers -> Slot]
    /\ pc \in {"select", "hp", "send", "incoming", "drop", "stopped"}
    /\ buf \in Slot
    /\ dropping \subseteq Clients
    /\ fifo \in [Clients -> Ring] /\ \A c \in Clients : Len(fifo[c]) < FifoSize

\* buffers_free_initialize, and the start of all tasks with n managers.  Each
\* gives its pins two buffers before it does anything else, and so before any
\* frame has arrived.
Start(n) ==
    LET first == CHOOSE s \in [1 .. 4 -> Buffers] : \A k, l \in 1 .. 4 : k # l => s[k] # s[l]
    IN  [free |-> [b \in Buffers |-> IF \E k \in 1 .. 2 * n : first[k] = b THEN 0 ELSE 1],
         to_pins |-> [m \in Managers |->
             IF m < n THEN <<first[2 * m + 1], first[2 * m + 2]>> ELSE <<>>],
         manager |-> [m \in Managers |-> IF m < n THEN "select" ELSE "stopped"]]

\* INITIAL_MODE, which a build may define, says how many managers there are.
Init ==
    /\ \E n \in {1, 2} :
           /\ free = Start(n).free
           /\ to_pins = Start(n).to_pins
           /\ manager = Start(n).manager
    /\ used_lp = <<>>
    /\ used_hp = <<>>
    /\ packet = [b \in Buffers |-> NoBuffer]
    /\ to_manager = [m \in Managers |-> <<>>]
    /\ buffer = [m \in Managers |-> NoBuffer]
    /\ pc = "select"
    /\ buf = NoBuffer
    /\ dropping = {}
    /\ fifo = [c \in Clients |-> <<>>]

----------------------------------------------------------------------------
(* The lists of buffers.                                                   *)

\* buffers_free_take
Top == IF \E b \in Buffers : free[b] > 0 THEN CHOOSE b \in Buffers : free[b] > 0 ELSE NoBuffer
Taken == [free EXCEPT ![Top] = @ - 1]

\* buffers_free_add.  What a free buffer holds is not read.
FreeAdd(b) ==
    /\ free' = [free EXCEPT ![b] = @ + 1]
    /\ packet' = [packet EXCEPT ![b] = NoBuffer]

----------------------------------------------------------------------------
(* The receive pins, rgmii_rx_lld and rgmii_10_100_master_rx_pins.         *)

\* A good frame.  The pins of two managers take turns; but a bad frame, which
\* changes nothing else, passes the turn on too, so either may be next.
Receive(m) ==
    /\ pc # "stopped"
    /\ to_pins[m] # <<>>
    /\ to_manager' = [to_manager EXCEPT ![m] = Append(@, Head(to_pins[m]))]
    /\ to_pins' = [to_pins EXCEPT ![m] = Tail(@)]
    /\ UNCHANGED <<listVars, managerVars, serverVars>>

----------------------------------------------------------------------------
(* rgmii_buffer_manager.                                                   *)

\* A frame is kept if there is another buffer for the pins ...
Keep(m) ==
    /\ manager[m] = "select"
    /\ to_manager[m] # <<>>
    /\ Top # NoBuffer
    /\ free' = Taken
    /\ to_pins' = [to_pins EXCEPT ![m] = Append(@, Top)]
    /\ to_manager' = [to_manager EXCEPT ![m] = Tail(@)]
    /\ buffer' = [buffer EXCEPT ![m] = Head(to_manager[m])]
    /\ manager' = [manager EXCEPT ![m] = "file"]
    /\ UNCHANGED <<used_lp, used_hp, packet, serverVars>>

\* ... and its buffer is used again if there is not.
Reuse(m) ==
    /\ manager[m] = "select"
    /\ to_manager[m] # <<>>
    /\ Top = NoBuffer
    /\ to_pins' = [to_pins EXCEPT ![m] = Append(@, Head(to_manager[m]))]
    /\ to_manager' = [to_manager EXCEPT ![m] = Tail(@)]
    /\ UNCHANGED <<listVars, managerVars, serverVars>>

\* What the frame is shows when its address is looked up.
File(m) ==
    /\ manager[m] = "file"
    /\ \E f \in Frames :
           LET b == buffer[m]
               Fill == packet' = [packet EXCEPT ![b] = [frame |-> f, tcount |-> 0]]
           IN  \/ f.kind = "filtered" /\ FreeAdd(b) /\ UNCHANGED <<used_lp, used_hp>>
               \/ f.kind = "hp" /\ Fill /\ used_hp' = Append(used_hp, b) /\ UNCHANGED <<free, used_lp>>
               \/ f.kind = "lp" /\ Fill /\ used_lp' = Append(used_lp, b) /\ UNCHANGED <<free, used_hp>>
    /\ buffer' = [buffer EXCEPT ![m] = NoBuffer]
    /\ manager' = [manager EXCEPT ![m] = "select"]
    /\ UNCHANGED <<pinVars, serverVars>>

\* c_speed_change
StopManager(m) ==
    /\ manager[m] = "select"
    /\ pc = "stopped"
    /\ manager' = [manager EXCEPT ![m] = "stopped"]
    /\ UNCHANGED <<listVars, pinVars, buffer, serverVars>>

Manager(m) == Keep(m) \/ Reuse(m) \/ File(m) \/ StopManager(m)

----------------------------------------------------------------------------
(* rgmii_ethernet_rx_server.                                               *)

\* The packets that wait for client c.
Held(c) == {fifo[c][k] : k \in DOMAIN fifo[c]}

\* Mutant: every client that has taken the packet frees it.
ReleaseAlways(b) == FreeAdd(b)

\* mii_get_and_dec_transmit_count, and the last one frees the buffer.
Release(b) ==
    IF packet[b].tcount = 0 THEN FreeAdd(b)
    ELSE packet' = [packet EXCEPT ![b].tcount = @ - 1] /\ UNCHANGED free

SelectNothing ==
    /\ pc = "select"
    /\ pc' = "hp"
    /\ UNCHANGED <<listVars, pinVars, managerVars, buf, dropping, fifo>>

GetPacket(c) ==
    /\ pc = "select"
    /\ fifo[c] # <<>>
    /\ Release(Head(fifo[c]))
    /\ fifo' = [fifo EXCEPT ![c] = Tail(@)]
    /\ pc' = "hp"
    /\ UNCHANGED <<used_lp, used_hp, pinVars, managerVars, buf, dropping>>

\* get_current_rgmii_mode reports another speed: notify_speed_change ends
\* the pins at once, the managers after what they are doing.
ChangeMode ==
    /\ pc = "select"
    /\ RestartHeld \/ \A c \in Clients : fifo[c] = <<>>
    /\ pc' = "stopped"
    /\ UNCHANGED <<listVars, pinVars, managerVars, buf, dropping, fifo>>

TakeHp ==
    /\ pc = "hp"
    /\ used_hp # <<>>
    /\ buf' = Head(used_hp)
    /\ used_hp' = Tail(used_hp)
    /\ pc' = "send"
    /\ UNCHANGED <<free, used_lp, packet, pinVars, managerVars, dropping, fifo>>

\* The client on c_rx_hp, if there is one, has taken the packet.
SendHp ==
    /\ pc = "send"
    /\ FreeAdd(buf)
    /\ buf' = NoBuffer
    /\ pc' = "hp"
    /\ UNCHANGED <<used_lp, used_hp, pinVars, managerVars, dropping, fifo>>

\* Mutant: one packet per iteration will do.
NoHpAny ==
    /\ pc = "hp"
    /\ pc' = "incoming"
    /\ UNCHANGED <<listVars, pinVars, managerVars, buf, dropping, fifo>>

NoHp ==
    /\ pc = "hp"
    /\ used_hp = <<>>
    /\ pc' = "incoming"
    /\ UNCHANGED <<listVars, pinVars, managerVars, buf, dropping, fifo>>

\* Mutant: the fifo of the client is filled to its last slot.
GetsFull(c, f) == c \in f.dst /\ Len(fifo[c]) < FifoSize

\* Mutant: the clients that want the packet are not looked at.
GetsAll(c, f) == Len(fifo[c]) < FifoSize - 1

Gets(c, f) == c \in f.dst /\ Len(fifo[c]) < FifoSize - 1

\* buffers_free_available
Available == Cardinality({b \in Buffers : free[b] > 0})

\* Mutant: packets are dropped while many buffers are free.
CheckThresholdMany ==
    IF HasHp /\ Available' > Threshold THEN pc' = "drop" /\ dropping' = Clients
    ELSE pc' = "select" /\ UNCHANGED dropping

\* The end of an iteration: packets are dropped if few buffers are free.  (What
\* a manager takes or adds between the two it may as well have before.)
CheckThreshold ==
    IF HasHp /\ Available' <= Threshold THEN pc' = "drop" /\ dropping' = Clients
    ELSE pc' = "select" /\ UNCHANGED dropping

\* handle_incoming_packet
HandleIncoming ==
    /\ pc = "incoming"
    /\ used_lp # <<>>
    /\ LET b == Head(used_lp)
           getting == {c \in Clients : Gets(c, packet[b].frame)}
       IN  /\ fifo' = [c \in Clients |-> IF c \in getting THEN Append(fifo[c], b) ELSE fifo[c]]
           /\ IF getting = {} THEN FreeAdd(b)
              ELSE /\ packet' = [packet EXCEPT ![b].tcount = Cardinality(getting) - 1]
                   /\ UNCHANGED free
    /\ used_lp' = Tail(used_lp)
    /\ CheckThreshold
    /\ UNCHANGED <<used_hp, pinVars, managerVars, buf>>

NoIncoming ==
    /\ pc = "incoming"
    /\ used_lp = <<>>
    /\ UNCHANGED <<listVars, pinVars, managerVars, buf, fifo>>
    /\ CheckThreshold

\* One iteration of drop_lp_packets, for one client after the other
DropHead ==
    /\ pc = "drop"
    /\ dropping # {}
    /\ LET c == CHOOSE d \in dropping : TRUE
       IN  /\ dropping' = dropping \ {c}
           /\ IF fifo[c] = <<>> THEN UNCHANGED <<free, packet, fifo>>
              ELSE Release(Head(fifo[c])) /\ fifo' = [fifo EXCEPT ![c] = Tail(@)]
    /\ UNCHANGED <<used_lp, used_hp, pinVars, managerVars, pc, buf>>

Dropped ==
    /\ pc = "drop"
    /\ dropping = {}
    /\ pc' = "select"
    /\ UNCHANGED <<listVars, pinVars, managerVars, buf, dropping, fifo>>

Server ==
    \/ SelectNothing \/ TakeHp \/ SendHp \/ NoHp \/ HandleIncoming \/ NoIncoming
    \/ DropHead \/ Dropped \/ \E c \in Clients : GetPacket(c)

\* The loop of rgmii_ethernet_mac: the channels have been emptied, the
\* lists are initialised, and the tasks start with one or two managers.
\* The state of the clients stays what it was.
Restart ==
    /\ pc = "stopped"
    /\ \A m \in Managers : manager[m] = "stopped"
    /\ \E n \in {1, 2} :
           /\ free' = Start(n).free
           /\ to_pins' = Start(n).to_pins
           /\ manager' = Start(n).manager
    /\ used_lp' = <<>>
    /\ used_hp' = <<>>
    /\ packet' = [b \in Buffers |-> IF \E c \in Clients : b \in Held(c) THEN packet[b] ELSE NoBuffer]
    /\ to_manager' = [m \in Managers |-> <<>>]
    /\ pc' = "select"
    /\ UNCHANGED <<buffer, buf, dropping, fifo>>

----------------------------------------------------------------------------
Next ==
    \/ \E m \in Managers : Receive(m) \/ Manager(m)
    \/ Server
    \/ ChangeMode
    \/ Restart

Spec == Init /\ [][Next]_vars

\* Every task has a core of its own.  Nothing is assumed of frames and of
\* the low priority clients; the high priority client reads its channel.
Fairness ==
    /\ WF_vars(Server)
    /\ WF_vars(Restart)
    /\ \A m \in Managers : WF_vars(Manager(m))

FairSpec == Spec /\ Fairness

----------------------------------------------------------------------------
(* Correctness.                                                            *)

Holders(b) == {c \in Clients : b \in Held(c)}

\* How often buffer b is in sequence s.
Times(b, s) == Cardinality({k \in DOMAIN s : s[k] = b})

\* In how many places buffer b is: free, with the pins or a manager, in a
\* ring, with the server, or with the clients.
Places(b) ==
    free[b] + Times(b, used_lp) + Times(b, used_hp)
        + Times(b, to_pins[0]) + Times(b, to_pins[1])
        + Times(b, to_manager[0]) + Times(b, to_manager[1])
        + Cardinality({m \in Managers : buffer[m] = b})
        + (IF buf = b THEN 1 ELSE 0) + (IF Holders(b) # {} THEN 1 ELSE 0)

\* A buffer is in one place, and its tcount counts the clients that have it.
\* The stack and the rings, which are not tested for full, have a place for
\* each.
BuffersAccounted ==
    \A b \in Buffers :
        /\ Places(b) = 1
        /\ Holders(b) # {} => packet[b].tcount = Cardinality(Holders(b)) - 1

\* Clients that do not fetch their packets cannot stop the receiver: with a
\* high priority channel, its buffers come back.
BuffersReturn == HasHp => (Top = NoBuffer ~> Top # NoBuffer)

\* A high priority packet in the ring is sent, whatever low priority packets
\* wait, unless a change of speed comes first.
HpSent == used_hp # <<>> ~> pc \in {"send", "stopped"}

Packet(b) == [dst |-> packet[b].frame.dst, etype |-> "any", tag |-> "any"]

Abstract == INSTANCE RxDelivery WITH
    Etypes <- {"any"}, Tags <- {"any"}, Capacity <- FifoSize - 1,
    pending <- [k \in DOMAIN used_lp |-> Packet(used_lp[k])],
    queue <- [c \in Clients |-> [k \in DOMAIN fifo[c] |-> Packet(fifo[c][k])]],
    accepts <- [c \in Clients |-> {"any"}]

\* A change of speed loses the packets that have not been distributed and
\* none that has.
LosesPending == Restart /\ UNCHANGED [c \in Clients |-> [k \in DOMAIN fifo[c] |-> Packet(fifo[c][k])]]

\* Low priority packets go to each client that wants them in the order in
\* which the managers filed them.
ImplementsRxDelivery == Abstract!Init /\ [][Abstract!Next \/ LosesPending]_(Abstract!vars)
=============================================================================
