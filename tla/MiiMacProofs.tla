---------------------------- MODULE MiiMacProofs ----------------------------
(***************************************************************************)
(* That a packet that waits is never forgotten, whatever the interrupt     *)
(* handler and the client do at once, and that only a report of the link   *)
(* status hides a packet from a client; for all sizes of the memory, of    *)
(* read_bank and of the channel, and all clients.                          *)
(*                                                                         *)
(* And, for packets of any lengths, that the low level driver never writes *)
(* over a packet that waits, is held or has not been freed, that packets   *)
(* are handed out in the order in which they came, and that the layer      *)
(* keeps what it promises: as long as the writer does not go round a bank  *)
(* a second time before free_ptr has, which it never does when MAXPACKET   *)
(* is room for two packets.                                                *)
(***************************************************************************)
EXTENDS MiiMac, SequenceTheorems, FiniteSetTheorems, TLAPS

----------------------------------------------------------------------------
(* The notifications.                                                      *)

\* The notifications: mii_notify adds the value that it inverts notify_last
\* to, and mii_incoming_packet leaves in notify_seen the value it takes.  So
\* the channel ends with notify_last, and when it is empty the client has
\* seen that.  Both sides compare the two to decide whether one is on its way.
LastIsNotified ==
    IF tokens = <<>> THEN notify_last = notify_seen
    ELSE tokens[Len(tokens)] = notify_last

\* The inductive invariant of the notifications.
NotifyInv ==
    /\ notify_last \in {0, 1} /\ notify_seen \in {0, 1}
    /\ tokens \in Seq({0, 1})
    /\ LastIsNotified
    /\ WaitingNotified

\* At first no packet waits, and nothing is in the channel.
LEMMA InitNotifyInv == Init => NotifyInv
BY DEF Init, LiteInit, NotifyInv, LastIsNotified, WaitingNotified

\* The last element is the last of the tail, if it has one.
LEMMA LastOfTail ==
    ASSUME NEW S, NEW s \in Seq(S), s # <<>>
    PROVE  IF Tail(s) = <<>> THEN Head(s) = s[Len(s)]
           ELSE Tail(s)[Len(Tail(s))] = s[Len(s)]
<1>1. Len(s) \in Nat \ {0} /\ Head(s) = s[1]
  BY EmptySeq
<1>2. PICK t : t = Tail(s)
  OBVIOUS
<1>3. t \in Seq(S) /\ Len(t) = Len(s) - 1 /\ \A i \in 1 .. Len(t) : t[i] = s[i + 1]
  BY <1>2, HeadTailProperties, Zenon
<1>4. CASE t = <<>>
  <2>1. Len(s) = 1
    BY <1>1, <1>3, <1>4
  <2> QED BY <1>1, <1>2, <1>4, <2>1, Zenon
<1>5. CASE t # <<>>
  <2>1. Len(t) \in Nat \ {0}
    BY <1>3, <1>5, EmptySeq
  <2>2. t[Len(t)] = s[Len(s)]
    BY <1>1, <1>3, <2>1
  <2> QED BY <1>2, <1>5, <2>2, Zenon
<1> QED BY <1>4, <1>5

\* A notification at the end of the channel.
LEMMA Notified ==
    ASSUME tokens \in Seq({0, 1}), NEW v \in {0, 1},
           notify_last' = v, tokens' = Append(tokens, v)
    PROVE  /\ notify_last' \in {0, 1} /\ tokens' \in Seq({0, 1}) /\ tokens' # <<>>
           /\ LastIsNotified'
BY DEF LastIsNotified

\* The interrupt handler, whose packet has a notification after it: the
\* one it sends, or one that it sees is on its way.
LEMMA InterruptNotifies ==
    ASSUME NotifyInv, Interrupt
    PROVE  NotifyInv'
<1>1. ASSUME NEW n \in Lengths, Commit(n) PROVE NotifyInv'
  <2>1. Notify /\ UNCHANGED <<notify_seen, pc>>
    BY <1>1 DEF Commit
  <2>2. CASE notify_last = notify_seen
    <3>1. /\ notify_last' = 1 - notify_last /\ 1 - notify_last \in {0, 1}
          /\ tokens' = Append(tokens, 1 - notify_last)
      BY <2>1, <2>2 DEF Notify, NotifyInv
    <3> QED BY <2>1, <3>1, Notified DEF NotifyInv, WaitingNotified
  <2>3. CASE notify_last # notify_seen
    <3>1. UNCHANGED <<notify_last, tokens>> /\ tokens # <<>>
      BY <2>1, <2>3 DEF Notify, NotifyInv, LastIsNotified
    <3> QED BY <2>1, <3>1 DEF NotifyInv, LastIsNotified, WaitingNotified
  <2> QED BY <2>2, <2>3
<1>2. ASSUME NEW n \in Lengths, Overrun(n) \/ DropFull(n) \/ Reject(n)
      PROVE  NotifyInv'
  BY <1>2 DEF Overrun, DropFull, Reject, notifyVars, NotifyInv, LastIsNotified, WaitingNotified
<1> QED BY <1>1, <1>2 DEF Interrupt

\* The client takes a notification: it is about to look for packets.
LEMMA IncomingTakes ==
    ASSUME NotifyInv, IncomingPacket
    PROVE  NotifyInv'
<1>1. tokens \in Seq({0, 1}) /\ tokens # <<>> /\ tokens' = Tail(tokens)
      /\ notify_seen' = Head(tokens)
  BY DEF IncomingPacket, NotifyInv
<1>2. UNCHANGED notify_last /\ pc' = "get"
  BY DEF IncomingPacket
<1>3. notify_seen' \in {0, 1} /\ tokens' \in Seq({0, 1})
  BY <1>1
<1>4. LastIsNotified'
  BY <1>1, <1>2, LastOfTail DEF NotifyInv, LastIsNotified
<1> QED BY <1>2, <1>3, <1>4 DEF NotifyInv, WaitingNotified

\* mii_lite_get_in_buffer: before it leaves packets behind it looks whether
\* a notification is on its way, and if none is, it sends one, whichever
\* value the compiler has it invert.
LEMMA LiteStepNotifies ==
    ASSUME NotifyInv, LiteStep
    PROVE  NotifyInv'
<1>1. CASE GetNothing
  BY <1>1 DEF GetNothing, notifyVars, NotifyInv, LastIsNotified, WaitingNotified
<1>2. CASE GetOldest \/ WrapRead
  BY <1>2 DEF GetOldest, WrapRead, notifyVars, NotifyInv, LastIsNotified, WaitingNotified
<1>3. CASE More
  <2>1. UNCHANGED <<read_bank, notify_last, notify_seen, tokens>>
    BY <1>3 DEF More, notifyVars
  <2>2. read_bank # <<>> /\ tokens = <<>> => pc' = "notify"
    BY <1>3 DEF More, NotifyInv, LastIsNotified
  <2> QED BY <2>1, <2>2 DEF NotifyInv, LastIsNotified, WaitingNotified
<1>4. CASE NotifyMore
  <2>1. PICK last \in {notify_last, notify_seen} :
            notify_last' = 1 - last /\ tokens' = Append(tokens, 1 - last)
    BY <1>4 DEF NotifyMore
  <2>2. 1 - last \in {0, 1}
    BY DEF NotifyInv
  <2> QED BY <1>4, <2>1, <2>2, Notified DEF NotifyMore, NotifyInv, WaitingNotified
<1>5. CASE Negate \/ AdvanceFree \/ Restart
  BY <1>5 DEF Negate, AdvanceFree, Restart, notifyVars, NotifyInv, LastIsNotified, WaitingNotified
<1> QED BY <1>1, <1>2, <1>3, <1>4, <1>5 DEF LiteStep

\* What the MAC does with packets and for its clients; it looks for packets
\* only on a notification.
LEMMA MacStepNotifies ==
    ASSUME NotifyInv,
           \/ DropIncoming \/ NoIncoming \/ \E wanted \in SUBSET Clients : SendToClients(wanted)
           \/ \E c \in Clients : GetPacket(c)
           \/ \E c \in Reported : SetStatus(c)
           \/ SetLinkState \/ SendPacket \/ Timestamp \/ RequestNext \/ PacketSent
    PROVE  NotifyInv'
<1>1. UNCHANGED <<read_bank, notify_last, notify_seen, tokens>>
  BY DEF DropIncoming, NoIncoming, SendToClients, GetPacket, GetStatus, GetData, GetNoData,
         SetStatus, SetLinkState, SendPacket, Timestamp, RequestNext, PacketSent,
         liteVars, notifyVars
<1>2. pc' = pc \/ pc \in {"got", "select", "timestamp", "sent"}
  BY DEF DropIncoming, NoIncoming, SendToClients, GetPacket, GetStatus, GetData, GetNoData,
         SetStatus, SetLinkState, SendPacket, Timestamp, RequestNext, PacketSent, liteVars
<1> QED BY <1>1, <1>2 DEF NotifyInv, LastIsNotified, WaitingNotified

\* The notifications are as NotifyInv says, whichever side does what when.
THEOREM Invariance == Spec => []NotifyInv
<1>1. NotifyInv /\ [Next]_vars => NotifyInv'
  <2> SUFFICES ASSUME NotifyInv, [Next]_vars PROVE NotifyInv'
    OBVIOUS
  <2>1. CASE UNCHANGED vars
    BY <2>1 DEF vars, liteVars, notifyVars, NotifyInv, LastIsNotified, WaitingNotified
  <2> QED BY <2>1, InterruptNotifies, IncomingTakes, LiteStepNotifies, MacStepNotifies
             DEF Next, Continues
<1> QED BY <1>1, InitNotifyInv, PTL DEF Spec

\* No packet waits in read_bank that the client does not hear of: mii_notify
\* is called from the interrupt handler and from mii_lite_get_in_buffer at
\* once, and leaves out a notification only when one is on its way.
THEOREM NoPacketForgotten == Spec => []WaitingNotified
<1>1. NotifyInv => WaitingNotified
  BY DEF NotifyInv
<1> QED BY <1>1, Invariance, PTL

\* A client stops being told of a packet that it has not fetched only when
\* get_packet of mii_ethernet_mac.xc returns a status report to it instead.
THEOREM StatusHides == Spec => OnlyStatusHides
<1>1. [Next]_vars => [\A c \in Hidden' \ Hidden : status[c] = "pending"]_vars
  <2> SUFFICES ASSUME Next, NEW c \in Hidden' \ Hidden PROVE status[c] = "pending"
    OBVIOUS
  <2>1. CASE UNCHANGED <<incoming_packet, notified>>
    BY <2>1 DEF Hidden
  <2>2. ASSUME NEW wanted \in SUBSET Clients, SendToClients(wanted) PROVE FALSE
    BY <2>2 DEF SendToClients, Hidden
  <2>3. ASSUME NEW d \in Clients, GetStatus(d) PROVE status[c] = "pending"
    BY <2>3 DEF GetStatus, Hidden
  <2>4. ASSUME NEW d \in Clients, GetData(d) \/ GetNoData(d) PROVE FALSE
    BY <2>4 DEF GetData, GetNoData, Hidden
  <2>5. CASE SetLinkState
    BY <2>5 DEF SetLinkState, Hidden
  <2> QED
    BY <2>1, <2>2, <2>3, <2>4, <2>5
       DEF Next, Continues, GetPacket, IncomingPacket, DropIncoming, NoIncoming, Timestamp,
           PacketSent, SetStatus, SendPacket, RequestNext, macVars
<1> QED BY <1>1, PTL DEF Spec, OnlyStatusHides


----------------------------------------------------------------------------
(* The memory of packets of any lengths.                                   *)

\* MAXPACKET is room for all that the driver writes of a packet, and a bank
\* has room for one.
BuffersFit ==
    /\ 0 < MaxPacket /\ \A l \in Lengths : Written(l) <= Words(MaxPacket)
    /\ First(0) + 4 <= LastSafe(0)

\* The writer does not go round a bank a second time before free_ptr has: a
\* packet that arrives below free_ptr does not end the bank.
NoSecondWrap ==
    \A n \in Lengths : Commit(n) =>
        LET bn == BankOf(packet_in_lld)
        IN  wr_ptr[bn] < free_ptr[bn] => wr_ptr[bn] < wr_ptr'[bn]

\* Where a bank ends.
End(bn) == LastSafe(bn) + MaxPacket

\* Where a head may be in bank bn: after a packet that begins in the last safe
\* place, at the latest.
Place(bn) ==
    {a \in Nat : /\ First(bn) <= a /\ a % 4 = 0
                 /\ a + 4 <= LastSafe(bn) \/ \E l \in Lengths : a + 4 <= LastSafe(bn) + RoundBytes(l)}

\* The bytes of a buffer whose head says v: a length, negated when the packet
\* has been freed.
Size(v) == RoundBytes(IF v < 0 THEN -v ELSE v)

\* What is written for a packet ends after its buffer, and in MAXPACKET.
LEMMA SizeIs ==
    ASSUME BuffersFit, NEW l \in Lengths
    PROVE  /\ l \in Int /\ 64 <= l /\ l <= MaxPacket /\ MaxPacket \in Nat
           /\ Size(l) = RoundBytes(l) /\ Size(-l) = RoundBytes(l)
           /\ RoundBytes(l) \in Nat /\ RoundBytes(l) % 4 = 0 /\ 8 < RoundBytes(l)
           /\ Words(l) = RoundBytes(l) - 4
           /\ Written(l) \in Nat /\ Written(l) % 4 = 0
           /\ RoundBytes(l) + 8 <= Written(l) /\ Written(l) <= Words(MaxPacket)
<1>1. l \in Int /\ 64 <= l /\ l <= MaxPacket /\ MaxPacket \in Nat
  BY MiiLiteAssumption
<1>2. PICK q, c \in Int : q = l \div 4 /\ c = l % 4
  BY <1>1
<1>3. l = 4 * q + c /\ 0 <= c /\ c < 4
  BY <1>1, <1>2
<1>4. (l + 3) \div 4 = IF c = 0 THEN q ELSE q + 1
  BY <1>2, <1>3
<1>5. /\ Written(l) = 4 * q + 16 /\ Words(l) = (IF c = 0 THEN 4 * q ELSE 4 * q + 4)
      /\ RoundBytes(l) = (IF c = 0 THEN 4 * q + 4 ELSE 4 * q + 8)
  BY <1>2, <1>4 DEF Written, RoundBytes, Words
<1>6. Written(l) <= Words(MaxPacket)
  BY DEF BuffersFit
<1>7. -(-l) = l /\ ~(l < 0) /\ -l < 0
  BY <1>1
<1> QED BY <1>1, <1>3, <1>5, <1>6, <1>7 DEF Size

\* The second bank begins where the first ends, on a word.
LEMMA BankIs ==
    ASSUME BuffersFit, NEW bn \in Bank
    PROVE  /\ First(bn) \in Nat /\ End(bn) \in Int /\ LastSafe(bn) = End(bn) - MaxPacket
           /\ First(bn) % 4 = 0 /\ End(bn) % 4 = 0
           /\ First(bn) + 4 <= LastSafe(bn)
           /\ First(0) = 0 /\ End(0) = First(1)
<1>1. NumberWords \in Nat /\ MaxPacket \in Nat
  BY MiiLiteAssumption
<1>2. PICK q \in Int : q = (2 * NumberWords) \div 4
  BY <1>1
<1>3. 0 <= q /\ 4 * q <= 2 * NumberWords
  BY <1>1, <1>2
<1>4. First(0) = 0 /\ First(1) = 4 * q
  BY <1>2 DEF First
<1>5. LastSafe(0) = 4 * q - MaxPacket /\ LastSafe(1) = 4 * NumberWords - MaxPacket
  BY <1>4 DEF LastSafe
<1>6. End(0) = 4 * q /\ End(1) = 4 * NumberWords
  BY <1>1, <1>2, <1>5 DEF End
<1>7. 4 <= 4 * q - MaxPacket
  BY <1>4, <1>5 DEF BuffersFit
<1>8. bn = 0 \/ bn = 1
  BY DEF Bank
<1> QED BY <1>1, <1>2, <1>3, <1>4, <1>5, <1>6, <1>7, <1>8

\* Room for MAXPACKET bytes between two words is room for as many words.
LEMMA WordsFit ==
    ASSUME NEW a \in Int, NEW b \in Int, a % 4 = 0, b % 4 = 0, b - a >= MaxPacket
    PROVE  b - a >= Words(MaxPacket)
<1>1. MaxPacket \in Nat
  BY MiiLiteAssumption
<1>2. PICK p \in Int : p = (MaxPacket + 3) \div 4
  BY <1>1
<1>3. Words(MaxPacket) = 4 * p /\ 4 * p <= MaxPacket + 3
  BY <1>1, <1>2 DEF Words
<1>4. PICK c, d \in Int : a = 4 * c /\ b = 4 * d
  <2>1. a = 4 * (a \div 4) /\ a \div 4 \in Int /\ b = 4 * (b \div 4) /\ b \div 4 \in Int
    OBVIOUS
  <2> QED BY <2>1
<1> QED BY <1>1, <1>3, <1>4

\* A head is on a word of its bank, and no packet is "no buffer".
LEMMA PlaceIs ==
    ASSUME BuffersFit, NEW bn \in Bank, NEW a \in Place(bn)
    PROVE  /\ a \in Nat /\ a % 4 = 0 /\ First(bn) <= a /\ a + 8 <= End(bn)
           /\ BankOf(a) = bn /\ BankOf(a + 4) = bn
           /\ a + 4 \in Nat /\ a + 4 # None /\ (a + 4) - 4 = a
<1>1. /\ a \in Nat /\ a % 4 = 0 /\ First(bn) <= a
      /\ a + 4 <= LastSafe(bn) \/ \E l \in Lengths : a + 4 <= LastSafe(bn) + RoundBytes(l)
  BY DEF Place
<1>2. a + 8 <= End(bn)
  <2>1. /\ End(bn) \in Int /\ End(bn) % 4 = 0 /\ LastSafe(bn) = End(bn) - MaxPacket /\ MaxPacket \in Nat
        /\ LastSafe(bn) \in Int
    BY BankIs, MiiLiteAssumption
  <2>2. Words(MaxPacket) <= MaxPacket + 3 /\ Words(MaxPacket) \in Int
    <3>1. PICK p \in Int : p = (MaxPacket + 3) \div 4
      BY <2>1
    <3> QED BY <2>1, <3>1 DEF Words
  <2>3. PICK c, d \in Int : a = 4 * c /\ End(bn) = 4 * d
    <3>1. a = 4 * (a \div 4) /\ a \div 4 \in Int /\ End(bn) = 4 * (End(bn) \div 4) /\ End(bn) \div 4 \in Int
      BY <1>1, <2>1
    <3> QED BY <3>1
  <2>4. CASE a + 4 <= LastSafe(bn)
    <3>1. 0 < MaxPacket
      BY DEF BuffersFit
    <3> QED BY <1>1, <2>1, <2>3, <2>4, <3>1
  <2>5. ASSUME NEW l \in Lengths, a + 4 <= LastSafe(bn) + RoundBytes(l) PROVE a + 8 <= End(bn)
    <3>1. RoundBytes(l) \in Nat /\ Written(l) \in Nat /\ RoundBytes(l) + 8 <= Written(l) /\ Written(l) <= Words(MaxPacket)
      BY SizeIs
    <3> QED BY <1>1, <2>1, <2>2, <2>5, <3>1
  <2> QED BY <1>1, <2>4, <2>5
<1>3. /\ First(0) = 0 /\ End(0) = First(1) /\ First(0) \in Nat /\ First(1) \in Nat
      /\ End(bn) \in Int /\ (bn = 0 \/ bn = 1)
  BY BankIs DEF Bank
<1>4. BankOf(a) = bn /\ BankOf(a + 4) = bn
  BY <1>1, <1>2, <1>3 DEF BankOf
<1> QED BY <1>1, <1>2, <1>4 DEF None

\* The first word of a bank is one.
LEMMA FirstIs ==
    ASSUME BuffersFit, NEW bn \in Bank
    PROVE  First(bn) \in Place(bn) /\ \A a \in Place(bn) : First(bn) <= a
BY BankIs DEF Place

\* After a packet that begins in a safe place there is room for a head.
LEMMA AfterIs ==
    ASSUME BuffersFit, NEW bn \in Bank, NEW a \in Place(bn), a + 4 <= LastSafe(bn), NEW l \in Lengths
    PROVE  a + RoundBytes(l) \in Place(bn) /\ a + 4 + Written(l) <= End(bn)
<1>1. /\ a \in Nat /\ a % 4 = 0 /\ First(bn) <= a /\ First(bn) \in Nat
      /\ End(bn) \in Int /\ End(bn) % 4 = 0 /\ LastSafe(bn) = End(bn) - MaxPacket
      /\ End(bn) - (a + 4) >= MaxPacket
      /\ MaxPacket \in Nat
  BY PlaceIs, BankIs, MiiLiteAssumption
<1>2. /\ RoundBytes(l) \in Nat /\ RoundBytes(l) % 4 = 0 /\ Written(l) \in Nat
      /\ RoundBytes(l) + 8 <= Written(l) /\ Written(l) <= Words(MaxPacket)
  BY SizeIs
<1>3. (a + 4) % 4 = 0 /\ (a + RoundBytes(l)) % 4 = 0
  BY <1>1, <1>2
<1>4. End(bn) - (a + 4) >= Words(MaxPacket)
  <2>1. PICK x \in Int, y \in Int : x = a + 4 /\ y = End(bn)
    BY <1>1
  <2>2. x % 4 = 0 /\ y % 4 = 0 /\ y - x >= MaxPacket
    BY <1>1, <1>3, <2>1
  <2>3. y - x >= Words(MaxPacket)
    BY <2>2, WordsFit
  <2> QED BY <2>1, <2>3
<1>5. Words(MaxPacket) \in Int
  BY <1>1 DEF Words
<1>6. (a + RoundBytes(l)) + 4 <= LastSafe(bn) + RoundBytes(l)
  <2>1. LastSafe(bn) \in Int /\ a \in Int /\ RoundBytes(l) \in Int
    BY <1>1, <1>2
  <2> QED BY <2>1
<1>7. a + RoundBytes(l) \in Place(bn)
  BY <1>1, <1>2, <1>3, <1>6 DEF Place
<1>8. End(bn) \in Int /\ a \in Int /\ Written(l) \in Int /\ Written(l) <= Words(MaxPacket)
  BY <1>1, <1>2
<1>9. a + 4 + Written(l) <= End(bn)
  BY <1>4, <1>5, <1>8
<1> QED BY <1>7, <1>9

\* A packet may be written after the head w, when free_ptr is at f.
Fill(bn, f, w) == w + 4 <= LastSafe(bn) /\ (f < w + 4 \/ f - (w + 4) >= MaxPacket)

\* All that is written for it ends before the next head in use.
LEMMA FillIs ==
    ASSUME BuffersFit, NEW bn \in Bank, NEW f \in Place(bn), NEW w \in Place(bn), Fill(bn, f, w),
           NEW l \in Lengths
    PROVE  f <= w \/ w + 4 + Written(l) <= f
<1>1. /\ f \in Nat /\ f % 4 = 0 /\ w \in Nat /\ w % 4 = 0
      /\ Written(l) \in Nat /\ Written(l) <= Words(MaxPacket) /\ MaxPacket \in Nat
  BY PlaceIs, SizeIs
<1>2. CASE f < w + 4
  BY <1>1, <1>2
<1>3. CASE f - (w + 4) >= MaxPacket
  <2>1. f - (w + 4) >= Words(MaxPacket)
    <3>1. (w + 4) % 4 = 0
      BY <1>1
    <3> QED BY <1>1, <1>3, <3>1, WordsFit
  <2>2. Words(MaxPacket) \in Int
    BY <1>1 DEF Words
  <2> QED BY <1>1, <2>1, <2>2
<1> QED BY <1>2, <1>3 DEF Fill

\* The next head in use is no further than it, or leaves MAXPACKET.
LEMMA FillLeaves ==
    ASSUME BuffersFit, NEW bn \in Bank, NEW f \in Place(bn), NEW w \in Place(bn), Fill(bn, f, w)
    PROVE  f <= w \/ f - (w + 4) >= MaxPacket
<1>1. f \in Nat /\ f % 4 = 0 /\ w \in Nat /\ w % 4 = 0
  BY PlaceIs
<1>2. f < w + 4 => f <= w
  BY <1>1
<1> QED BY <1>2 DEF Fill

----------------------------------------------------------------------------
(* The heads of buffers.                                                   *)

\* What the head of a packet that has been freed may say.
Freed == {-l : l \in Lengths}

\* The length of a packet, its negation and the two marks are told apart.
LEMMA LengthsApart ==
    ASSUME BuffersFit
    PROVE  /\ \A v \in Lengths : v \in Int /\ 1 < v
           /\ \A v \in Freed : v \in Int /\ v < 0
           /\ \A v \in Lengths \cup Freed : Size(v) \in Nat /\ 8 < Size(v)
           /\ \A v \in Lengths : -v \in Freed /\ Size(-v) = Size(v)
           /\ \A v \in Freed : -v \in Lengths /\ Size(v) = RoundBytes(-v)
<1>1. ASSUME NEW v \in Lengths
      PROVE  v \in Int /\ 1 < v /\ Size(v) \in Nat /\ 8 < Size(v) /\ -v \in Freed /\ Size(-v) = Size(v)
  BY SizeIs DEF Freed
<1>2. ASSUME NEW v \in Freed
      PROVE  v \in Int /\ v < 0 /\ Size(v) \in Nat /\ 8 < Size(v) /\ -v \in Lengths /\ Size(v) = RoundBytes(-v)
  <2>1. PICK l \in Lengths : v = -l
    BY DEF Freed
  <2>2. l \in Int /\ 64 <= l /\ Size(-l) = RoundBytes(l) /\ RoundBytes(l) \in Nat /\ 8 < RoundBytes(l)
    BY SizeIs
  <2>3. -v = l /\ v \in Int /\ v < 0
    BY <2>1, <2>2
  <2> QED BY <2>1, <2>2, <2>3
<1> QED BY <1>1, <1>2

\* What a head says is the same in h and g.
SameHead(h, g, a) == a \in DOMAIN h => a \in DOMAIN g /\ g[a] = h[a]

\* set writes one word.
LEMMA SetWordIs ==
    ASSUME NEW h, NEW a, NEW v
    PROVE  /\ a \in DOMAIN SetWord(h, a, v) /\ SetWord(h, a, v)[a] = v
           /\ \A x : x # a => SameHead(h, SetWord(h, a, v), x)
BY DEF SetWord, SameHead

\* Two changes that leave a head leave it together.
LEMMA SameHeads ==
    ASSUME NEW h, NEW g, NEW e, NEW a, SameHead(h, g, a), SameHead(g, e, a)
    PROVE  SameHead(h, e, a)
BY DEF SameHead

----------------------------------------------------------------------------
(* A bank.                                                                 *)

\* Going back round the bank from w, b comes after a: it is the older one.
Older(b, a, w) == IF a <= w THEN b < a \/ w < b ELSE w < b /\ b < a

\* The unused tail at a is the last head of those in use, C; the next is the
\* first of the bank.
TailAt(bn, C, w, a) == First(bn) \in C /\ w < a /\ \A b \in C : b <= a

\* The next head after that at a, which says v, is where its buffer ends.
PacketAt(bn, C, v, a) ==
    /\ a + 4 <= LastSafe(bn) /\ a + Size(v) \in C
    /\ \A b \in C : b <= a \/ a + Size(v) <= b

\* What the head at a says: that it is the unused tail, or the length of a
\* packet, negated only for one that has been read.
HeadIs(bn, h, C, r, w, a) ==
    \/ h[a] = 0 /\ TailAt(bn, C, w, a)
    \/ h[a] \in Lengths /\ PacketAt(bn, C, h[a], a)
    \/ h[a] \in Freed /\ Older(a, r, w) /\ PacketAt(bn, C, h[a], a)

\* Of bank bn, whose heads are h, those in use are at C: free_ptr is at f, the
\* oldest, read_ptr at r, and the next packet is to be put at w.  Once the
\* writer has gone round, w is not at the end of the bank.
Ring(bn, h, C, f, r, w) ==
    /\ C \subseteq Place(bn) /\ C \subseteq DOMAIN h
    /\ f \in C /\ r \in C /\ w \in C /\ h[w] = 1
    /\ w < f => w + 4 <= LastSafe(bn)
    /\ \A a \in C : ~Older(a, f, w)
    /\ \A a \in C : a # w => HeadIs(bn, h, C, r, w, a)

\* The packets that wait, and those that have been read and not been freed.
Unread(h, C, r, w) == {a \in C \ {w} : h[a] # 0 /\ ~Older(a, r, w)}
Held(h, C, r, w) == {a \in C : h[a] \in Lengths /\ Older(a, r, w)}

\* The oldest packet: free_ptr may have been left on the unused tail.
Oldest(bn, h, f) == IF h[f] = 0 THEN First(bn) ELSE f

\* The pointers of a bank are words of it.
LEMMA RingIs ==
    ASSUME BuffersFit, NEW bn \in Bank, NEW h, NEW C, NEW f, NEW r, NEW w, Ring(bn, h, C, f, r, w)
    PROVE  /\ First(bn) \in Int /\ LastSafe(bn) \in Int /\ First(bn) + 4 <= LastSafe(bn)
           /\ f \in C /\ r \in C /\ w \in C
           /\ \A a \in C : a \in Int /\ First(bn) <= a /\ a \in DOMAIN h /\ a \in Place(bn)
           /\ \A a \in C : h[a] \in Int
<1>1. First(bn) \in Int /\ LastSafe(bn) \in Int /\ First(bn) + 4 <= LastSafe(bn)
  BY BankIs, MiiLiteAssumption
<1>2. \A a \in C : a \in Int /\ First(bn) <= a /\ a \in DOMAIN h /\ a \in Place(bn)
  BY PlaceIs DEF Ring
<1>3. \A v \in Lengths \cup Freed : v \in Int
  BY LengthsApart
<1>4. \A a \in C : h[a] \in Int
  BY <1>3 DEF Ring, HeadIs
<1> QED BY <1>1, <1>2, <1>4 DEF Ring

\* The oldest packet is in use, or it is the one that is to be filled.
LEMMA OldestIs ==
    ASSUME BuffersFit, NEW bn \in Bank, NEW h, NEW C, NEW f, NEW r, NEW w, Ring(bn, h, C, f, r, w)
    PROVE  /\ Oldest(bn, h, f) \in C /\ h[Oldest(bn, h, f)] # 0
           /\ h[f] = 0 => w < f /\ \A b \in C : b # f => b <= w
<1>1. /\ First(bn) \in Int /\ f \in C /\ w \in C /\ h[w] = 1
      /\ \A a \in C : a \in Int /\ First(bn) <= a
  BY RingIs DEF Ring
<1>2. ASSUME NEW a \in C, h[a] = 0 PROVE TailAt(bn, C, w, a)
  <2>1. HeadIs(bn, h, C, r, w, a)
    BY <1>1, <1>2 DEF Ring
  <2>2. 0 \notin Lengths \cup Freed
    BY LengthsApart
  <2> QED BY <1>2, <2>1, <2>2 DEF HeadIs
<1>3. ASSUME h[f] = 0 PROVE w < f /\ First(bn) \in C /\ \A b \in C : b # f => b <= w
  <2>1. TailAt(bn, C, w, f)
    BY <1>1, <1>2, <1>3
  <2>2. \A b \in C : ~Older(b, f, w)
    BY DEF Ring
  <2> QED BY <1>1, <2>1, <2>2 DEF TailAt, Older
<1>4. h[First(bn)] # 0 \/ First(bn) \notin C
  <2>1. SUFFICES ASSUME First(bn) \in C, h[First(bn)] = 0 PROVE FALSE
    OBVIOUS
  <2>2. w < First(bn)
    BY <1>2, <2>1 DEF TailAt
  <2> QED BY <1>1, <2>2
<1> QED BY <1>1, <1>3, <1>4 DEF Oldest

\* Heads that are not in use may change.
LEMMA RingKept ==
    ASSUME BuffersFit, NEW bn \in Bank, NEW h, NEW g, NEW C, NEW f, NEW r, NEW w, Ring(bn, h, C, f, r, w),
           \A a \in C : SameHead(h, g, a)
    PROVE  /\ Ring(bn, g, C, f, r, w)
           /\ Held(g, C, r, w) = Held(h, C, r, w) /\ Unread(g, C, r, w) = Unread(h, C, r, w)
           /\ Oldest(bn, g, f) = Oldest(bn, h, f) /\ g[Oldest(bn, g, f)] = h[Oldest(bn, h, f)]
           /\ \A a \in C : g[a] = h[a]
<1>1. \A a \in C : a \in DOMAIN g /\ g[a] = h[a]
  BY DEF Ring, SameHead
<1>2. Ring(bn, g, C, f, r, w)
  BY <1>1 DEF Ring, HeadIs
<1>3. Held(g, C, r, w) = Held(h, C, r, w) /\ Unread(g, C, r, w) = Unread(h, C, r, w)
  BY <1>1 DEF Held, Unread
<1>4. Oldest(bn, g, f) = Oldest(bn, h, f) /\ Oldest(bn, h, f) \in C
  BY <1>1, OldestIs DEF Ring, Oldest
<1> QED BY <1>1, <1>2, <1>3, <1>4

\* Nothing of bank bn that waits or is held changes when its next packet goes
\* to v instead of w.
Moved(bn, h, g, C, D, f, r, w, v) ==
    /\ Ring(bn, g, D, f, r, v) /\ C \subseteq D
    /\ Held(g, D, r, v) = Held(h, C, r, w)
    /\ \A a, b \in Unread(h, C, r, w) : Older(a, b, w) => Older(a, b, v)

\* A packet has been put at w, and the next is to go to v.
Committed(bn, h, g, C, D, f, r, w, v) ==
    /\ Moved(bn, h, g, C, D, f, r, w, v)
    /\ Unread(g, D, r, v) = Unread(h, C, r, w) \cup {w}
    /\ \A a \in Unread(h, C, r, w) : Older(a, w, v)
    /\ Oldest(bn, g, f) = Oldest(bn, h, f)
    /\ g[Oldest(bn, h, f)] \in {h[Oldest(bn, h, f)]} \cup Lengths
    /\ g[r] = 0 <=> h[r] = 0

\* The next goes after it, at the end of the bank only if nothing is free
\* at its begin.
LEMMA CommitOn ==
    ASSUME BuffersFit, NEW bn \in Bank, NEW h, NEW g, NEW C, NEW f, NEW r, NEW w,
           Ring(bn, h, C, f, r, w), w + 4 <= LastSafe(bn),
           NEW n \in Lengths, NEW v, v = w + Size(n), v \in Place(bn),
           f <= w \/ v < f, w < f => v + 4 <= LastSafe(bn),
           w \in DOMAIN g, g[w] = n, v \in DOMAIN g, g[v] = 1,
           \A a \in C \ {w} : SameHead(h, g, a), NEW D, D = C \cup {v}
    PROVE  Committed(bn, h, g, C, D, f, r, w, v)
<1>1. /\ f \in C /\ r \in C /\ w \in C /\ \A a \in C : a \in Int
      /\ Size(n) \in Int /\ 0 < Size(n) /\ v \in Int /\ w < v
      /\ n # 0 /\ 1 \notin Lengths /\ n \notin Freed /\ h[w] = 1
  BY RingIs, LengthsApart DEF Ring
<1>2. \A a \in C : (a <= w \/ v < a) /\ ~Older(a, f, w)
  BY <1>1 DEF Ring, Older
<1>3. /\ \A a \in C : a \in Int /\ a # v /\ (a <= v <=> a <= w) /\ (a < v <=> a <= w) /\ (v < a <=> w < a)
      /\ v \notin C
  BY <1>1, <1>2
<1>4. \A a \in C \ {w} : a \in DOMAIN g /\ g[a] = h[a]
  BY DEF SameHead, Ring
<1>5. \A a, b \in C : Older(a, b, v) <=> Older(a, b, w)
  BY <1>1, <1>3 DEF Older
<1>6. ASSUME NEW a \in C \ {w} PROVE HeadIs(bn, g, D, r, v, a)
  <2>1. HeadIs(bn, h, C, r, w, a) /\ g[a] = h[a]
    BY <1>4 DEF Ring
  <2>2. CASE h[a] = 0 /\ TailAt(bn, C, w, a)
    <3>1. TailAt(bn, D, v, a)
      BY <1>1, <1>3, <2>2 DEF TailAt
    <3> QED BY <2>1, <2>2, <3>1 DEF HeadIs
  <2>3. ASSUME PacketAt(bn, C, h[a], a) PROVE PacketAt(bn, D, h[a], a)
    <3>1. v <= a \/ a + Size(h[a]) <= v
      <4>1. a + Size(h[a]) <= w \/ w <= a
        BY <1>1, <2>3 DEF PacketAt
      <4>2. a + Size(h[a]) \in Int
        BY <1>1, <2>3 DEF PacketAt
      <4> QED BY <1>1, <1>2, <1>3, <4>1, <4>2
    <3> QED BY <2>3, <3>1 DEF PacketAt
  <2> QED BY <1>1, <1>5, <2>1, <2>2, <2>3 DEF HeadIs
<1>7. HeadIs(bn, g, D, r, v, w)
  <2>1. \A b \in D : b <= w \/ w + Size(n) <= b
    BY <1>1, <1>3
  <2> QED BY <2>1 DEF HeadIs, PacketAt
<1>8. Ring(bn, g, D, f, r, v)
  <2>1. D \subseteq Place(bn) /\ D \subseteq DOMAIN g
    BY <1>4 DEF Ring
  <2>2. v < f => v + 4 <= LastSafe(bn)
    BY <1>1, <1>3
  <2>3. \A a \in D : ~Older(a, f, v)
    <3>1. ~Older(v, f, v)
      BY <1>1, <1>3 DEF Older
    <3> QED BY <1>1, <1>2, <1>5, <3>1
  <2> QED BY <1>1, <1>6, <1>7, <2>1, <2>2, <2>3 DEF Ring
<1>9. ~Older(w, r, w) /\ ~Older(v, r, v)
  BY <1>1, <1>3 DEF Older
<1>10. ~Older(w, r, v)
  BY <1>1, <1>5, <1>9
<1>11. Held(g, D, r, v) = Held(h, C, r, w)
  <2>1. Held(g, D, r, v) \subseteq Held(h, C, r, w)
    BY <1>1, <1>4, <1>5, <1>9, <1>10 DEF Held
  <2>2. Held(h, C, r, w) \subseteq Held(g, D, r, v)
    BY <1>1, <1>4, <1>5, <1>9, <1>10 DEF Held
  <2> QED BY <2>1, <2>2
<1>12. Unread(g, D, r, v) = Unread(h, C, r, w) \cup {w}
  <2>1. Unread(g, D, r, v) \subseteq Unread(h, C, r, w) \cup {w}
    BY <1>1, <1>3, <1>4, <1>5 DEF Unread
  <2>2. Unread(h, C, r, w) \subseteq Unread(g, D, r, v)
    BY <1>1, <1>3, <1>4, <1>5 DEF Unread
  <2>3. w \in Unread(g, D, r, v)
    BY <1>1, <1>3, <1>10 DEF Unread
  <2> QED BY <2>1, <2>2, <2>3
<1>13. \A a \in Unread(h, C, r, w) : Older(a, w, v)
  BY <1>1, <1>3 DEF Unread, Older
<1>14. \A a, b \in Unread(h, C, r, w) : Older(a, b, w) => Older(a, b, v)
  BY <1>5 DEF Unread
<1>15. (g[f] = 0 <=> h[f] = 0) /\ (g[r] = 0 <=> h[r] = 0)
  BY <1>1, <1>4
<1>16. Oldest(bn, g, f) = Oldest(bn, h, f) /\ Oldest(bn, h, f) \in C
  BY <1>15, OldestIs DEF Oldest
<1>17. g[Oldest(bn, h, f)] \in {h[Oldest(bn, h, f)]} \cup Lengths
  BY <1>4, <1>16
<1> QED BY <1>8, <1>11, <1>12, <1>13, <1>14, <1>15, <1>16, <1>17 DEF Committed, Moved

\* The rest of the bank is left, because packets have been freed at its begin.
LEMMA CommitRound ==
    ASSUME BuffersFit, NEW bn \in Bank, NEW h, NEW g, NEW C, NEW f, NEW r, NEW w,
           Ring(bn, h, C, f, r, w), w + 4 <= LastSafe(bn),
           NEW n \in Lengths, NEW x, x = w + Size(n), x \in Place(bn),
           f <= w, NEW v, v = First(bn), f # v,
           w \in DOMAIN g, g[w] = n, x \in DOMAIN g, g[x] = 0, v \in DOMAIN g, g[v] = 1,
           \A a \in C \ {w} : SameHead(h, g, a), NEW D, D = C \cup {x, v}
    PROVE  Committed(bn, h, g, C, D, f, r, w, v)
<1>1. /\ f \in C /\ r \in C /\ w \in C /\ \A a \in C : a \in Int /\ v <= a
      /\ Size(n) \in Int /\ 0 < Size(n) /\ v \in Int /\ x \in Int /\ w < x
      /\ n # 0 /\ 1 \notin Lengths /\ 0 \notin Lengths /\ n \notin Freed /\ h[w] = 1
      /\ v + 4 <= LastSafe(bn)
  BY RingIs, LengthsApart DEF Ring
<1>2. \A a \in C : ~Older(a, f, w) /\ a <= w /\ f <= a /\ v < a /\ a < x
  BY <1>1 DEF Ring, Older
<1>3. x \notin C /\ v \notin C /\ v < x
  BY <1>1, <1>2
<1>4. \A a \in C \ {w} : a \in DOMAIN g /\ g[a] = h[a]
  BY DEF SameHead, Ring
<1>5. \A a, b \in C : Older(a, b, v) <=> Older(a, b, w)
  BY <1>1, <1>2 DEF Older
<1>6. ASSUME NEW a \in C \ {w} PROVE HeadIs(bn, g, D, r, v, a)
  <2>1. HeadIs(bn, h, C, r, w, a) /\ g[a] = h[a]
    BY <1>4 DEF Ring
  <2>2. ~TailAt(bn, C, w, a)
    BY <1>1, <1>2 DEF TailAt
  <2>3. ASSUME PacketAt(bn, C, h[a], a) PROVE PacketAt(bn, D, h[a], a)
    <3>1. a + Size(h[a]) <= x /\ v <= a
      <4>1. a + Size(h[a]) \in C
        BY <2>3 DEF PacketAt
      <4> QED BY <1>1, <1>2, <4>1
    <3> QED BY <2>3, <3>1 DEF PacketAt
  <2> QED BY <1>1, <1>5, <2>1, <2>2, <2>3 DEF HeadIs
<1>7. HeadIs(bn, g, D, r, v, w)
  <2>1. \A b \in D : b <= w \/ w + Size(n) <= b
    BY <1>1, <1>2
  <2> QED BY <2>1 DEF HeadIs, PacketAt
<1>8. HeadIs(bn, g, D, r, v, x)
  <2>1. TailAt(bn, D, v, x)
    BY <1>1, <1>2, <1>3 DEF TailAt
  <2> QED BY <2>1 DEF HeadIs
<1>9. Ring(bn, g, D, f, r, v)
  <2>1. D \subseteq Place(bn) /\ D \subseteq DOMAIN g
    BY <1>4, FirstIs DEF Ring
  <2>2. \A a \in D : ~Older(a, f, v)
    BY <1>1, <1>2, <1>3 DEF Older
  <2> QED BY <1>1, <1>6, <1>7, <1>8, <2>1, <2>2 DEF Ring
<1>10. ~Older(w, r, w) /\ ~Older(w, r, v) /\ ~Older(v, r, v)
  BY <1>1, <1>2 DEF Older
<1>11. Held(g, D, r, v) = Held(h, C, r, w)
  <2>1. Held(g, D, r, v) \subseteq Held(h, C, r, w)
    BY <1>1, <1>4, <1>5, <1>10 DEF Held
  <2>2. Held(h, C, r, w) \subseteq Held(g, D, r, v)
    BY <1>1, <1>4, <1>5, <1>10 DEF Held
  <2> QED BY <2>1, <2>2
<1>12. Unread(g, D, r, v) = Unread(h, C, r, w) \cup {w}
  <2>1. Unread(g, D, r, v) \subseteq Unread(h, C, r, w) \cup {w}
    BY <1>1, <1>3, <1>4, <1>5 DEF Unread
  <2>2. Unread(h, C, r, w) \subseteq Unread(g, D, r, v)
    BY <1>1, <1>3, <1>4, <1>5 DEF Unread
  <2>3. w \in Unread(g, D, r, v)
    BY <1>1, <1>3, <1>10 DEF Unread
  <2> QED BY <2>1, <2>2, <2>3
<1>13. \A a \in Unread(h, C, r, w) : Older(a, w, v)
  BY <1>1, <1>2 DEF Unread, Older
<1>14. \A a, b \in Unread(h, C, r, w) : Older(a, b, w) => Older(a, b, v)
  BY <1>5 DEF Unread
<1>15. (g[f] = 0 <=> h[f] = 0) /\ (g[r] = 0 <=> h[r] = 0)
  BY <1>1, <1>4
<1>16. Oldest(bn, g, f) = Oldest(bn, h, f) /\ Oldest(bn, h, f) \in C
  BY <1>15, OldestIs DEF Oldest
<1>17. g[Oldest(bn, h, f)] \in {h[Oldest(bn, h, f)]} \cup Lengths
  BY <1>4, <1>16
<1> QED BY <1>9, <1>11, <1>12, <1>13, <1>14, <1>15, <1>16, <1>17 DEF Committed, Moved

\* mii_lite_restart_buffer goes on at the begin of the bank, which was full,
\* once something has been freed there.
LEMMA RestartRound ==
    ASSUME BuffersFit, NEW bn \in Bank, NEW h, NEW g, NEW C, NEW f, NEW r, NEW w,
           Ring(bn, h, C, f, r, w), w + 4 > LastSafe(bn), NEW v, v = First(bn), f # v,
           w \in DOMAIN g, g[w] = 0, v \in DOMAIN g, g[v] = 1,
           \A a \in C \ {w} : SameHead(h, g, a), NEW D, D = C \cup {v}
    PROVE  /\ Moved(bn, h, g, C, D, f, r, w, v)
           /\ Unread(g, D, r, v) = Unread(h, C, r, w)
           /\ \A a \in C : f <= a /\ a <= w
<1>1. /\ f \in C /\ r \in C /\ w \in C /\ \A a \in C : a \in Int /\ v <= a
      /\ v \in Int /\ 1 \notin Lengths /\ 0 \notin Lengths /\ h[w] = 1
      /\ LastSafe(bn) \in Int /\ v + 4 <= LastSafe(bn)
  BY RingIs, LengthsApart DEF Ring
<1>2. \A a \in C : a <= w /\ f <= a /\ v < a
  BY <1>1 DEF Ring, Older
<1>3. v \notin C
  BY <1>1, <1>2
<1>4. \A a \in C \ {w} : a \in DOMAIN g /\ g[a] = h[a]
  BY DEF SameHead, Ring
<1>5. \A a, b \in C : Older(a, b, v) <=> Older(a, b, w)
  BY <1>1, <1>2 DEF Older
<1>6. ASSUME NEW a \in C \ {w} PROVE HeadIs(bn, g, D, r, v, a)
  <2>1. HeadIs(bn, h, C, r, w, a) /\ g[a] = h[a]
    BY <1>4 DEF Ring
  <2>2. ~TailAt(bn, C, w, a)
    BY <1>1, <1>2 DEF TailAt
  <2>3. ASSUME PacketAt(bn, C, h[a], a) PROVE PacketAt(bn, D, h[a], a)
    <3>1. v <= a
      BY <1>1
    <3> QED BY <2>3, <3>1 DEF PacketAt
  <2> QED BY <1>1, <1>5, <2>1, <2>2, <2>3 DEF HeadIs
<1>7. HeadIs(bn, g, D, r, v, w)
  <2>1. TailAt(bn, D, v, w)
    BY <1>1, <1>2, <1>3 DEF TailAt
  <2> QED BY <2>1 DEF HeadIs
<1>8. Ring(bn, g, D, f, r, v)
  <2>1. D \subseteq Place(bn) /\ D \subseteq DOMAIN g
    BY <1>4, FirstIs DEF Ring
  <2>2. \A a \in D : ~Older(a, f, v)
    BY <1>1, <1>2, <1>3 DEF Older
  <2> QED BY <1>1, <1>6, <1>7, <2>1, <2>2 DEF Ring
<1>9. ~Older(w, r, w) /\ ~Older(v, r, v)
  BY <1>1, <1>2 DEF Older
<1>10. Held(g, D, r, v) = Held(h, C, r, w)
  <2>1. Held(g, D, r, v) \subseteq Held(h, C, r, w)
    BY <1>1, <1>4, <1>5, <1>9 DEF Held
  <2>2. Held(h, C, r, w) \subseteq Held(g, D, r, v)
    BY <1>1, <1>4, <1>5, <1>9 DEF Held
  <2> QED BY <2>1, <2>2
<1>11. Unread(g, D, r, v) = Unread(h, C, r, w)
  <2>1. Unread(g, D, r, v) \subseteq Unread(h, C, r, w)
    BY <1>1, <1>3, <1>4, <1>5 DEF Unread
  <2>2. Unread(h, C, r, w) \subseteq Unread(g, D, r, v)
    BY <1>1, <1>3, <1>4, <1>5 DEF Unread
  <2> QED BY <2>1, <2>2
<1>12. \A a, b \in Unread(h, C, r, w) : Older(a, b, w) => Older(a, b, v)
  BY <1>5 DEF Unread
<1> QED BY <1>2, <1>8, <1>10, <1>11, <1>12 DEF Moved

\* The packet that is read next is at read_ptr, or at the begin of the bank
\* if read_ptr is on the unused tail; read_ptr moves past it.
LEMMA NextToRead ==
    ASSUME BuffersFit, NEW bn \in Bank, NEW h, NEW C, NEW f, NEW r, NEW w, Ring(bn, h, C, f, r, w),
           Unread(h, C, r, w) # {}, NEW k, k = (IF h[r] = 0 THEN First(bn) ELSE r),
           NEW x, x = k + Size(h[k])
    PROVE  /\ k \in C /\ h[k] \in Lengths /\ k \in Unread(h, C, r, w) /\ k \notin Held(h, C, r, w)
           /\ \A a \in Unread(h, C, r, w) : a = k \/ Older(k, a, w)
           /\ Ring(bn, h, C, f, x, w)
           /\ Unread(h, C, x, w) = Unread(h, C, r, w) \ {k}
           /\ Held(h, C, x, w) = Held(h, C, r, w) \cup {k}
<1>1. /\ f \in C /\ r \in C /\ w \in C /\ \A a \in C : a \in Int /\ First(bn) <= a
      /\ First(bn) \in Int /\ h[w] = 1
      /\ 1 \notin Lengths \cup Freed /\ 0 \notin Lengths \cup Freed
      /\ \A a \in C : ~Older(a, f, w)
  BY RingIs, LengthsApart DEF Ring
<1>2. PICK u \in C : u # w /\ h[u] # 0 /\ ~Older(u, r, w)
  BY DEF Unread
<1>3. r # w
  BY <1>1, <1>2 DEF Older
<1>4. HeadIs(bn, h, C, r, w, r) /\ ~Older(r, r, w)
  BY <1>1, <1>3 DEF Ring, Older
<1>5. /\ k \in C /\ k # w /\ ~Older(k, r, w)
      /\ \A a \in C : h[a] # 0 /\ ~Older(a, r, w) => ~Older(a, k, w)
      /\ \A a \in C : Older(a, r, w) => Older(a, k, w)
  <2>1. CASE h[r] = 0
    <3>1. TailAt(bn, C, w, r)
      BY <1>1, <1>4, <2>1 DEF HeadIs
    <3>2. First(bn) \in C /\ w < r /\ \A a \in C : a <= r /\ (h[a] # 0 => a # r)
      BY <2>1, <3>1 DEF TailAt
    <3>3. First(bn) < w
      <4>1. u <= r /\ u # r
        BY <1>2, <3>2
      <4>2. u <= w
        BY <1>1, <1>2, <3>2, <4>1 DEF Older
      <4> QED BY <1>1, <1>2, <4>2
    <3> QED BY <1>1, <2>1, <3>2, <3>3 DEF Older
  <2>2. CASE h[r] # 0
    BY <1>1, <1>3, <1>4, <2>2
  <2> QED BY <2>1, <2>2
<1>6. HeadIs(bn, h, C, r, w, k) /\ h[k] # 0
  <2>1. HeadIs(bn, h, C, r, w, k)
    BY <1>5 DEF Ring
  <2>2. ASSUME h[k] = 0 PROVE FALSE
    <3>1. k = First(bn) /\ TailAt(bn, C, w, k)
      BY <1>1, <2>1, <2>2 DEF HeadIs
    <3> QED BY <1>1, <3>1 DEF TailAt
  <2> QED BY <2>1, <2>2
<1>7. h[k] \in Lengths /\ PacketAt(bn, C, h[k], k)
  BY <1>5, <1>6 DEF HeadIs
<1>8. /\ x \in C /\ k < x /\ \A b \in C : b <= k \/ x <= b
      /\ k \in Int /\ x \in Int
  <2>1. Size(h[k]) \in Int /\ 0 < Size(h[k])
    BY <1>7, LengthsApart
  <2> QED BY <1>1, <1>5, <1>7, <2>1 DEF PacketAt
<1>9. \A a \in C : Older(a, x, w) <=> Older(a, k, w) \/ a = k
  <2>1. x <= w <=> k <= w
    BY <1>1, <1>5, <1>8
  <2> QED BY <1>1, <1>8, <2>1 DEF Older
<1>10. \A a \in C : h[a] # 0 => (Older(a, k, w) <=> Older(a, r, w))
  BY <1>5
<1>11. Ring(bn, h, C, f, x, w)
  <2>1. ASSUME NEW a \in C, a # w PROVE HeadIs(bn, h, C, x, w, a)
    <3>1. HeadIs(bn, h, C, r, w, a)
      BY <2>1 DEF Ring
    <3>2. Older(a, r, w) => Older(a, x, w)
      BY <1>5, <1>9
    <3> QED BY <3>1, <3>2 DEF HeadIs
  <2> QED BY <1>8, <2>1 DEF Ring
<1>12. k \in Unread(h, C, r, w) /\ k \notin Held(h, C, r, w)
  BY <1>5, <1>6 DEF Unread, Held
<1>13. Unread(h, C, x, w) = Unread(h, C, r, w) \ {k}
  <2>1. \A a \in C : h[a] # 0 => (~Older(a, x, w) <=> ~Older(a, r, w) /\ a # k)
    BY <1>9, <1>10
  <2> QED BY <2>1 DEF Unread
<1>14. Held(h, C, x, w) = Held(h, C, r, w) \cup {k}
  <2>1. \A a \in C : h[a] \in Lengths => (Older(a, x, w) <=> Older(a, r, w) \/ a = k)
    BY <1>1, <1>9, <1>10
  <2> QED BY <1>5, <1>7, <2>1 DEF Held
<1>15. \A a \in Unread(h, C, r, w) : a = k \/ Older(k, a, w)
  <2>1. \A a \in C : ~Older(a, k, w) /\ a # w => a = k \/ Older(k, a, w)
    BY <1>1, <1>5, <1>8 DEF Older
  <2> QED BY <1>5, <2>1 DEF Unread
<1> QED BY <1>5, <1>7, <1>11, <1>12, <1>13, <1>14, <1>15

\* read_ptr goes from the unused tail to the begin of the bank.
LEMMA RingWrapped ==
    ASSUME BuffersFit, NEW bn \in Bank, NEW h, NEW C, NEW f, NEW r, NEW w, Ring(bn, h, C, f, r, w),
           h[r] = 0, NEW x, x = First(bn)
    PROVE  /\ Ring(bn, h, C, f, x, w) /\ h[x] # 0
           /\ Unread(h, C, x, w) = Unread(h, C, r, w) /\ Held(h, C, x, w) = Held(h, C, r, w)
<1>1. /\ r \in C /\ w \in C /\ \A a \in C : a \in Int /\ x <= a
      /\ x \in Int /\ h[w] = 1 /\ 0 \notin Lengths \cup Freed
  BY RingIs, LengthsApart DEF Ring
<1>2. ASSUME NEW a \in C, h[a] = 0 PROVE TailAt(bn, C, w, a)
  <2>1. HeadIs(bn, h, C, r, w, a)
    BY <1>1, <1>2 DEF Ring
  <2> QED BY <1>1, <1>2, <2>1 DEF HeadIs
<1>3. x \in C /\ w < r /\ \A a \in C : a <= r
  BY <1>1, <1>2 DEF TailAt
<1>4. h[x] # 0
  <2>1. SUFFICES ASSUME h[x] = 0 PROVE FALSE
    OBVIOUS
  <2>2. w < x
    BY <1>2, <1>3, <2>1 DEF TailAt
  <2> QED BY <1>1, <2>2
<1>5. \A a \in C : Older(a, r, w) => Older(a, x, w)
  BY <1>1, <1>3 DEF Older
<1>6. \A a \in C : h[a] # 0 => (Older(a, x, w) <=> Older(a, r, w))
  BY <1>1, <1>3 DEF Older
<1>7. Ring(bn, h, C, f, x, w)
  <2>1. ASSUME NEW a \in C, a # w PROVE HeadIs(bn, h, C, x, w, a)
    <3>1. HeadIs(bn, h, C, r, w, a)
      BY <2>1 DEF Ring
    <3> QED BY <1>5, <3>1 DEF HeadIs
  <2> QED BY <1>3, <2>1 DEF Ring
<1>8. Unread(h, C, x, w) = Unread(h, C, r, w)
  BY <1>6 DEF Unread
<1>9. Held(h, C, x, w) = Held(h, C, r, w)
  BY <1>1, <1>6 DEF Held
<1> QED BY <1>4, <1>7, <1>8, <1>9

\* A packet whose head is negated has been freed, and nothing else has.
LEMMA RingNegated ==
    ASSUME BuffersFit, NEW bn \in Bank, NEW h, NEW g, NEW C, NEW f, NEW r, NEW w, Ring(bn, h, C, f, r, w),
           NEW k \in Held(h, C, r, w), k \in DOMAIN g, g[k] = -h[k],
           \A a \in C \ {k} : SameHead(h, g, a)
    PROVE  /\ Ring(bn, g, C, f, r, w)
           /\ Unread(g, C, r, w) = Unread(h, C, r, w) /\ Held(g, C, r, w) = Held(h, C, r, w) \ {k}
           /\ \A a \in C : h[a] = 0 <=> g[a] = 0
<1>1. /\ k \in C /\ h[k] \in Lengths /\ Older(k, r, w)
      /\ g[k] \in Freed /\ g[k] \notin Lengths /\ h[k] # 0 /\ h[k] # 1 /\ g[k] # 0
      /\ Size(g[k]) = Size(h[k]) /\ h[k] \notin Freed
  BY LengthsApart DEF Held
<1>2. \A a \in C \ {k} : a \in DOMAIN g /\ g[a] = h[a]
  BY DEF Ring, SameHead
<1>3. k # w
  BY <1>1 DEF Ring
<1>4. ASSUME NEW a \in C, a # w PROVE HeadIs(bn, g, C, r, w, a)
  <2>1. HeadIs(bn, h, C, r, w, a)
    BY <1>4 DEF Ring
  <2>2. CASE a = k
    <3>1. PacketAt(bn, C, h[k], k)
      BY <1>1, <2>1, <2>2 DEF HeadIs
    <3>2. PacketAt(bn, C, g[k], k)
      BY <1>1, <3>1 DEF PacketAt
    <3> QED BY <1>1, <2>2, <3>2 DEF HeadIs
  <2>3. CASE a # k
    BY <1>2, <2>1, <2>3 DEF HeadIs
  <2> QED BY <2>2, <2>3
<1>5. Ring(bn, g, C, f, r, w)
  BY <1>1, <1>2, <1>3, <1>4 DEF Ring
<1>6. Unread(g, C, r, w) = Unread(h, C, r, w)
  BY <1>1, <1>2 DEF Unread
<1>7. Held(g, C, r, w) = Held(h, C, r, w) \ {k}
  BY <1>1, <1>2 DEF Held
<1>8. \A a \in C : h[a] = 0 <=> g[a] = 0
  BY <1>1, <1>2
<1> QED BY <1>5, <1>6, <1>7, <1>8

\* One iteration of the loop that moves free_ptr goes on to the next buffer,
\* past a packet that has been freed or past the unused tail.
LEMMA RingAdvanced ==
    ASSUME BuffersFit, NEW bn \in Bank, NEW h, NEW C, NEW f, NEW r, NEW w, Ring(bn, h, C, f, r, w),
           h[f] <= 0, h[r] # 0,
           NEW y, y = (IF h[f] = 0 THEN First(bn) ELSE f + RoundBytes(-h[f])),
           NEW D, D = C \ {f}
    PROVE  /\ Ring(bn, h, D, y, r, w)
           /\ h[f] = 0 \/ h[f] \in Freed
           /\ Unread(h, D, r, w) = Unread(h, C, r, w) /\ Held(h, D, r, w) = Held(h, C, r, w)
           /\ Fill(bn, f, w) => Fill(bn, y, w)
           /\ h[f] = 0 => h[y] # 0
<1>1. /\ f \in C /\ r \in C /\ w \in C /\ \A a \in C : a \in Int /\ First(bn) <= a /\ a \in Place(bn)
      /\ First(bn) \in Int /\ h[w] = 1 /\ LastSafe(bn) \in Int /\ MaxPacket \in Int
      /\ 1 \notin Lengths \cup Freed /\ 0 \notin Lengths \cup Freed
      /\ \A a \in C : ~Older(a, f, w)
  BY RingIs, LengthsApart, MiiLiteAssumption DEF Ring
<1>2. f # w /\ HeadIs(bn, h, C, r, w, f)
  BY <1>1 DEF Ring
<1>3. \A v \in Lengths : ~(v <= 0)
  BY LengthsApart
<1>4. \/ h[f] = 0 /\ TailAt(bn, C, w, f)
      \/ h[f] \in Freed /\ Older(f, r, w) /\ PacketAt(bn, C, h[f], f)
  BY <1>2, <1>3 DEF HeadIs
<1>5. f # r
  <2>1. ~Older(r, r, w)
    BY <1>1 DEF Older
  <2> QED BY <1>4, <2>1
<1>6. /\ y \in D /\ \A a \in D : ~Older(a, y, w)
      /\ w < y => w < f /\ f < y
      /\ h[f] = 0 => y <= w
      /\ h[f] # 0 => \A b \in C : b <= f \/ y <= b
  <2>1. CASE h[f] = 0 /\ TailAt(bn, C, w, f)
    <3>1. y = First(bn) /\ y \in C /\ w < f /\ \A a \in C : a <= f
      BY <2>1 DEF TailAt
    <3>2. y <= w /\ y # f
      BY <1>1, <3>1
    <3>3. \A a \in D : a <= w
      BY <1>1, <3>1 DEF Older
    <3> QED BY <1>1, <2>1, <3>1, <3>2, <3>3 DEF Older
  <2>2. CASE h[f] \in Freed /\ PacketAt(bn, C, h[f], f)
    <3>1. h[f] # 0 /\ y = f + Size(h[f]) /\ Size(h[f]) \in Int /\ 0 < Size(h[f])
      BY <1>1, <2>2, LengthsApart
    <3>2. y \in C /\ f < y /\ \A b \in C : b <= f \/ y <= b
      BY <1>1, <2>2, <3>1 DEF PacketAt
    <3>3. y \in D /\ (w < y => w < f)
      BY <1>1, <1>2, <3>2
    <3>4. ASSUME NEW a \in D PROVE ~Older(a, y, w)
      <4>1. a \in C /\ a # f /\ ~Older(a, f, w) /\ (a <= f \/ y <= a) /\ ~Older(w, f, w) /\ ~Older(y, f, w)
        BY <1>1, <3>2
      <4> QED BY <1>1, <3>2, <3>3, <4>1 DEF Older
    <3> QED BY <3>1, <3>2, <3>3, <3>4
  <2> QED BY <1>4, <2>1, <2>2
<1>7. Ring(bn, h, D, y, r, w)
  <2>1. ASSUME NEW a \in D, a # w PROVE HeadIs(bn, h, D, r, w, a)
    <3>1. HeadIs(bn, h, C, r, w, a) /\ a \in C /\ a # f
      BY <2>1 DEF Ring
    <3>2. ASSUME TailAt(bn, C, w, a) PROVE TailAt(bn, D, w, a)
      <4>1. First(bn) # f
        <5>1. SUFFICES ASSUME First(bn) = f PROVE FALSE
          OBVIOUS
        <5>2. f <= w
          BY <1>1, <5>1
        <5>3. w < a
          BY <3>2 DEF TailAt
        <5> QED BY <1>1, <3>1, <5>2, <5>3 DEF Older
      <4> QED BY <3>2, <4>1 DEF TailAt
    <3>3. ASSUME PacketAt(bn, C, h[a], a), Size(h[a]) \in Int, 0 < Size(h[a]) PROVE PacketAt(bn, D, h[a], a)
      <4>1. a + Size(h[a]) # f
        <5>1. SUFFICES ASSUME a + Size(h[a]) = f PROVE FALSE
          OBVIOUS
        <5>2. a < f /\ (w <= a \/ f <= w)
          BY <1>1, <3>1, <3>3, <5>1 DEF PacketAt
        <5>3. ~Older(a, f, w) /\ a \in Int /\ a # w
          BY <1>1, <2>1, <3>1
        <5> QED BY <1>1, <5>2, <5>3 DEF Older
      <4> QED BY <3>3, <4>1 DEF PacketAt
    <3>4. h[a] \in Lengths \cup Freed => Size(h[a]) \in Int /\ 0 < Size(h[a])
      BY LengthsApart
    <3> QED BY <3>1, <3>2, <3>3, <3>4 DEF HeadIs
  <2>2. w < y => w + 4 <= LastSafe(bn)
    BY <1>6 DEF Ring
  <2>3. r \in D /\ w \in D /\ D \subseteq C
    BY <1>1, <1>2, <1>5
  <2> QED BY <1>6, <2>1, <2>2, <2>3 DEF Ring
<1>8. Unread(h, D, r, w) = Unread(h, C, r, w) /\ Held(h, D, r, w) = Held(h, C, r, w)
  BY <1>3, <1>4 DEF Unread, Held
<1>9. Fill(bn, f, w) => Fill(bn, y, w)
  <2>1. SUFFICES ASSUME Fill(bn, f, w) PROVE Fill(bn, y, w)
    OBVIOUS
  <2>2. y \in Int /\ w \in Int /\ f \in Int
    BY <1>1, <1>6
  <2>3. f <= w \/ f - (w + 4) >= MaxPacket
    BY <1>1, <2>1, FillLeaves
  <2>4. CASE y <= w
    BY <2>1, <2>2, <2>4 DEF Fill
  <2>5. CASE w < y
    BY <1>1, <1>6, <2>1, <2>2, <2>3, <2>5 DEF Fill
  <2> QED BY <2>2, <2>4, <2>5
<1>10. h[f] = 0 => h[y] # 0
  <2>1. SUFFICES ASSUME h[f] = 0 PROVE h[y] # 0
    OBVIOUS
  <2>2. y = Oldest(bn, h, f)
    BY <2>1 DEF Oldest
  <2> QED BY <2>2, OldestIs
<1> QED BY <1>4, <1>7, <1>8, <1>9, <1>10

----------------------------------------------------------------------------
(* The inductive invariant.                                                *)

\* The packets that the client has: what it frees is its own until it has
\* negated the head.
Owned == ({data, incoming_data} \ {None}) \cup (IF pc = "free" THEN {base} ELSE {})

\* The client frees a packet of bank bn, or has read one and not looked
\* whether the bank ends after it.
Freeing(bn) == pc = "advance" /\ BankOf(base) = bn
Wrapping(bn) == pc = "wrap" /\ BankOf(data) = bn
\* ... and may move free_ptr or wr_ptr.
Advances == pc \in {"advance", "restart"}

\* The packets that the client has are those that have been read and not
\* negated.
OwnedAreHeld(bn, C, r, w) == \A a \in Place(bn) : a + 4 \in Owned <=> a \in Held(header, C, r, w)

\* wr_ptr stays at the end of a bank, and read_ptr on its unused tail, only
\* until the client is done with what it does.
EndsLeft(bn, f, r, w) ==
    /\ w + 4 > LastSafe(bn) /\ f # First(bn) => Advances
    /\ header[r] = 0 => f = r \/ Wrapping(bn)
    /\ Freeing(bn) => header[r] # 0

\* The oldest packet has not been freed, and is the one that the clients of
\* the MAC fetch, if that is in this bank.
OldestInv(bn, f, w) ==
    /\ Freeing(bn) \/ header[Oldest(bn, header, f)] \notin Freed
    /\ \A a \in Place(bn) : incoming_data = a + 4 =>
           a = Oldest(bn, header, f) /\ (w + 4 > LastSafe(bn) => f = First(bn))

\* The pointers of a bank.
Pointers(bn, f, r, w) == free_ptr[bn] = f /\ read_ptr[bn] = r /\ wr_ptr[bn] = w + 4

\* What holds of each bank; the packets that wait are at U.
BankInv(bn, C, U, f, r, w) ==
    /\ Ring(bn, header, C, f, r, w) /\ Pointers(bn, f, r, w) /\ U = Unread(header, C, r, w)
    /\ OwnedAreHeld(bn, C, r, w) /\ EndsLeft(bn, f, r, w) /\ OldestInv(bn, f, w)

\* The buffers that the driver fills now and next.
FillInv(f, w) ==
    \E bn \in Bank :
        /\ packet_in_lld = wr_ptr[bn] /\ Fill(bn, f[bn], w[bn])
        /\ \/ next_buffer = wr_ptr[1 - bn] /\ Fill(1 - bn, f[1 - bn], w[1 - bn])
           \/ next_buffer = None /\ refill_bank_number = 1 - bn

\* The packets that arrived and wait are ones that have not been read.
Listed(u) == \A i \in 1 .. Len(arrived) : \E a \in u[read_bank[i]] : arrived[i] = a + 4

\* Of two packets of one bank the older one comes first.
InOrder(u, w) ==
    \A i, j \in 1 .. Len(arrived) : i < j /\ read_bank[i] = read_bank[j] =>
        \A a, b \in u[read_bank[i]] :
            arrived[i] = a + 4 /\ arrived[j] = b + 4 => Older(a, b, w[read_bank[i]])

\* Every packet that has not been read is listed.
AllListed(u) ==
    \A bn \in Bank : \A a \in u[bn] :
        \E i \in 1 .. Len(arrived) : read_bank[i] = bn /\ arrived[i] = a + 4

\* What holds of the packets that wait.
WaitInv(u, w) == Len(arrived) = Len(read_bank) /\ Listed(u) /\ InOrder(u, w) /\ AllListed(u)

\* What the client is at.
ClientInv ==
    /\ pc \in {"select", "get", "timestamp", "sent", "free", "advance", "restart"} => data = None
    /\ pc \in {"wrap", "more", "notify"} => data # None
    /\ data # None => data # incoming_data
    /\ pc = "free" => base # incoming_data
    /\ \A p \in Owned \cup (IF pc = "advance" THEN {base} ELSE {}) :
           \E bn \in Bank : \E a \in Place(bn) : p = a + 4
    /\ incoming_data = None => incoming_packet = {}
    /\ incoming_packet \subseteq Clients /\ incoming_tcount = Cardinality(incoming_packet)
    /\ IF pc = "timestamp" THEN out = "given"
       ELSE IF pc = "sent" THEN out \in {"sending", "done"} ELSE out = "idle"

\* The types that the rest does not give.
TypeInv ==
    /\ free_ptr \in [Bank -> Nat] /\ read_ptr \in [Bank -> Nat] /\ wr_ptr \in [Bank -> Nat]
    /\ refill_bank_number \in Bank
    /\ read_bank \in Seq(Bank) /\ Len(read_bank) < RingSize
    /\ arrived \in Seq(Nat)
    /\ pc \in {"get", "wrap", "more", "notify", "got", "free", "advance", "restart", "select",
               "timestamp", "sent"}
    /\ status \in [Clients -> {"ignoring", "waiting", "pending"}]
    /\ link_status \in {"up", "down"} /\ notified \subseteq Clients

\* What holds of the memory: of each bank the heads in use are at c, the
\* packets that wait at u, and the pointers at f, r and w.
MemInv(c, u, f, r, w) ==
    /\ c \in [Bank -> SUBSET Nat] /\ u \in [Bank -> SUBSET Nat]
    /\ f \in [Bank -> Nat] /\ r \in [Bank -> Nat] /\ w \in [Bank -> Nat]
    /\ \A bn \in Bank : BankInv(bn, c[bn], u[bn], f[bn], r[bn], w[bn])
    /\ FillInv(f, w) /\ WaitInv(u, w) /\ ClientInv /\ TypeInv

\* The inductive invariant.
IInv == \E c, u, f, r, w : MemInv(c, u, f, r, w)

----------------------------------------------------------------------------
(* Initially.                                                              *)

\* At first all pointers are at the begin of their banks.
LEMMA InitMemInv ==
    ASSUME BuffersFit, Init,
           NEW z, z = [bn \in Bank |-> First(bn)], NEW c, c = [bn \in Bank |-> {First(bn)}],
           NEW u, u = [bn \in Bank |-> {}]
    PROVE  MemInv(c, u, z, z, z)
<1>1. \A bn \in Bank : /\ First(bn) \in Nat /\ LastSafe(bn) \in Int /\ First(bn) + 4 <= LastSafe(bn)
                       /\ First(bn) \in Place(bn) /\ (bn = 0 \/ bn = 1)
  <2> SUFFICES ASSUME NEW bn \in Bank
               PROVE  /\ First(bn) \in Nat /\ LastSafe(bn) \in Int /\ First(bn) + 4 <= LastSafe(bn)
                      /\ First(bn) \in Place(bn) /\ (bn = 0 \/ bn = 1)
    OBVIOUS
  <2>1. /\ First(bn) \in Nat /\ End(bn) \in Int /\ LastSafe(bn) = End(bn) - MaxPacket
        /\ First(bn) + 4 <= LastSafe(bn) /\ MaxPacket \in Nat
    BY BankIs, MiiLiteAssumption
  <2> QED BY <2>1, FirstIs DEF Bank
<1>2. /\ DOMAIN header = {First(0), First(1)}
      /\ \A a \in {First(0), First(1)} : header[a] = 1
      /\ \A bn \in Bank : /\ free_ptr[bn] = First(bn) /\ read_ptr[bn] = First(bn)
                          /\ wr_ptr[bn] = First(bn) + 4
      /\ next_buffer = First(1) + 4 /\ packet_in_lld = First(0) + 4
      /\ read_bank = <<>> /\ arrived = <<>>
      /\ pc = "select" /\ data = None /\ incoming_data = None
  BY DEF Init, LiteInit
<1>3. ASSUME NEW bn \in Bank, NEW a, a = First(bn) PROVE BankInv(bn, {a}, {}, a, a, a)
  <2>1. a \in DOMAIN header /\ header[a] = 1 /\ a \in Nat /\ a + 4 <= LastSafe(bn) /\ LastSafe(bn) \in Int
    BY <1>1, <1>2, <1>3
  <2>2. Ring(bn, header, {a}, a, a, a)
    BY <1>1, <1>3, <2>1 DEF Ring, Older
  <2>3. Pointers(bn, a, a, a)
    BY <1>2, <1>3 DEF Pointers
  <2>4. OwnedAreHeld(bn, {a}, a, a)
    <3>1. Owned = {}
      BY <1>2 DEF Owned
    <3>2. Held(header, {a}, a, a) = {}
      BY <2>1, LengthsApart DEF Held
    <3> QED BY <3>1, <3>2 DEF OwnedAreHeld
  <2>5. EndsLeft(bn, a, a, a)
    BY <1>2, <2>1 DEF EndsLeft, Freeing
  <2>6. OldestInv(bn, a, a)
    <3>1. header[Oldest(bn, header, a)] \notin Freed
      BY <2>1, LengthsApart DEF Oldest
    <3>2. \A b \in Place(bn) : None # b + 4
      BY PlaceIs
    <3> QED BY <1>2, <3>1, <3>2 DEF OldestInv
  <2>7. {} = Unread(header, {a}, a, a)
    BY DEF Unread
  <2> QED BY <2>2, <2>3, <2>4, <2>5, <2>6, <2>7 DEF BankInv
<1>4. FillInv(z, z)
  <2>1. Fill(0, z[0], z[0]) /\ Fill(1, z[1], z[1])
    BY <1>1 DEF Fill, Bank
  <2>2. packet_in_lld = wr_ptr[0] /\ next_buffer = wr_ptr[1 - 0]
    BY <1>2 DEF Bank
  <2> QED BY <2>1, <2>2 DEF FillInv, Bank
<1>5. WaitInv(u, z)
  BY <1>2 DEF WaitInv, Listed, InOrder, AllListed
<1>6. ClientInv
  <2>1. Owned = {} /\ incoming_packet = {} /\ incoming_tcount = 0 /\ out = "idle"
    BY <1>2 DEF Owned, Init
  <2> QED BY <1>2, <2>1, FS_EmptySet DEF ClientInv
<1>7. TypeInv
  <2>1. RingSize > 1 /\ RingSize \in Nat
    BY MiiLiteAssumption
  <2> QED BY <1>1, <1>2, <2>1 DEF TypeInv, Init, LiteInit, Bank
<1> QED BY <1>1, <1>3, <1>4, <1>5, <1>6, <1>7 DEF MemInv

----------------------------------------------------------------------------
(* The steps that leave a bank as it is.                                   *)

\* The step changes no head in use.
HeadsKept(C) == \A a \in C : SameHead(header, header', a)

\* The pointers of bank bn do not move.
PointersKept(bn) ==
    free_ptr'[bn] = free_ptr[bn] /\ read_ptr'[bn] = read_ptr[bn] /\ wr_ptr'[bn] = wr_ptr[bn]

\* The client has the same packets of bank bn.
OwnedKept(bn) == \A a \in Place(bn) : a + 4 \in Owned' <=> a + 4 \in Owned

\* The packet that the clients fetch does not come to be in bank bn.
IncomingKept(bn) == \A a \in Place(bn) : incoming_data' = a + 4 => incoming_data = a + 4

\* The client is where it was, as far as bank bn goes.
PcKept(bn, f, w) ==
    /\ Advances /\ w + 4 > LastSafe(bn) /\ f # First(bn) => Advances'
    /\ Freeing(bn)' <=> Freeing(bn)
    /\ Wrapping(bn) => Wrapping(bn)'

\* A bank of which nothing changes keeps its invariant.
LEMMA BankKept ==
    ASSUME BuffersFit, NEW bn \in Bank, NEW C, NEW U, NEW f, NEW r, NEW w, BankInv(bn, C, U, f, r, w),
           HeadsKept(C), PointersKept(bn), OwnedKept(bn), IncomingKept(bn), PcKept(bn, f, w)
    PROVE  BankInv(bn, C, U, f, r, w)'
<1>1. PICK h, g : h = header /\ g = header'
  OBVIOUS
<1>2. Ring(bn, h, C, f, r, w) /\ \A a \in C : SameHead(h, g, a)
  BY <1>1 DEF BankInv, HeadsKept
<1>3. /\ Ring(bn, g, C, f, r, w)
      /\ Held(g, C, r, w) = Held(h, C, r, w) /\ Unread(g, C, r, w) = Unread(h, C, r, w)
      /\ Oldest(bn, g, f) = Oldest(bn, h, f) /\ g[Oldest(bn, g, f)] = h[Oldest(bn, h, f)]
      /\ g[r] = h[r]
  BY <1>2, RingKept, RingIs
<1>4. OwnedAreHeld(bn, C, r, w)'
  BY <1>1, <1>3 DEF BankInv, OwnedAreHeld, OwnedKept
<1>5. Pointers(bn, f, r, w)'
  BY DEF BankInv, Pointers, PointersKept
<1>6. EndsLeft(bn, f, r, w)'
  BY <1>1, <1>3 DEF BankInv, EndsLeft, PcKept
<1>7. OldestInv(bn, f, w)'
  BY <1>1, <1>3 DEF BankInv, OldestInv, IncomingKept, PcKept
<1> QED BY <1>1, <1>3, <1>4, <1>5, <1>6, <1>7 DEF BankInv

\* All of it holds of a bank when nothing of it changes.
LEMMA NothingOfBank ==
    ASSUME NEW bn \in Bank, NEW C, NEW f, NEW w
    PROVE  /\ UNCHANGED header => HeadsKept(C)
           /\ UNCHANGED <<free_ptr, read_ptr, wr_ptr>> => PointersKept(bn)
           /\ Owned' = Owned => OwnedKept(bn)
           /\ UNCHANGED incoming_data => IncomingKept(bn)
           /\ UNCHANGED <<pc, base, data>> => PcKept(bn, f, w)
BY DEF HeadsKept, SameHead, PointersKept, OwnedKept, IncomingKept, PcKept, Advances, Freeing, Wrapping

----------------------------------------------------------------------------
(* The packets that wait.                                                  *)

\* They stay in their order when the pointers of a bank move and what has not
\* been read does not.
LEMMA WaitMoves ==
    ASSUME NEW u, NEW w, NEW v, WaitInv(u, w), TypeInv, UNCHANGED <<read_bank, arrived>>,
           \A bn \in Bank : \A a, b \in u[bn] : Older(a, b, w[bn]) => Older(a, b, v[bn])
    PROVE  WaitInv(u, v)'
<1>1. \A i \in 1 .. Len(arrived) : read_bank[i] \in Bank
  BY DEF WaitInv, TypeInv
<1>2. Len(arrived') = Len(arrived)
  OBVIOUS
<1> QED BY <1>1, <1>2 DEF WaitInv, Listed, InOrder, AllListed

\* What Append does, element by element.
LEMMA AppendIs ==
    ASSUME NEW S, NEW q \in Seq(S), NEW e \in S, NEW p, p = Append(q, e)
    PROVE  /\ p \in Seq(S) /\ Len(q) \in Nat /\ Len(p) = Len(q) + 1 /\ p[Len(q) + 1] = e
           /\ \A i \in 1 .. Len(q) : p[i] = q[i] /\ q[i] \in S
OBVIOUS

\* A packet arrives at k of bank bn; what waits is then at t, and the next
\* packets go to v.
ArrivesAt(bn, k, u, w, t, v) ==
    /\ k \in Place(bn) /\ k \notin u[bn] /\ \A bm \in Bank : u[bm] \subseteq Place(bm)
    /\ \A a, b \in u[bn] : Older(a, b, w[bn]) => Older(a, b, v[bn])
    /\ \A a \in u[bn] : Older(a, k, v[bn])
    /\ t[bn] = u[bn] \cup {k}
    /\ \A bm \in Bank : bm # bn => v[bm] = w[bm] /\ t[bm] = u[bm]
    /\ read_bank' = Append(read_bank, bn) /\ arrived' = Append(arrived, k + 4)

\* It is the last of those that wait.
LEMMA WaitArrives ==
    ASSUME BuffersFit, NEW u, NEW w, WaitInv(u, w), TypeInv, NEW bn \in Bank, NEW k, NEW t, NEW v,
           ArrivesAt(bn, k, u, w, t, v)
    PROVE  WaitInv(t, v)'
<1> USE DEF ArrivesAt
<1>1. PICK n : n = Len(arrived)
  OBVIOUS
<1>2. /\ n \in Nat /\ Len(read_bank) = n
      /\ Len(read_bank') = n + 1 /\ read_bank'[n + 1] = bn
      /\ Len(arrived') = n + 1 /\ arrived'[n + 1] = k + 4
      /\ \A i \in 1 .. n : /\ read_bank'[i] = read_bank[i] /\ read_bank[i] \in Bank
                           /\ arrived'[i] = arrived[i]
  <2>1. read_bank \in Seq(Bank) /\ arrived \in Seq(Nat) /\ Len(read_bank) = n /\ k + 4 \in Nat
    BY <1>1, PlaceIs DEF WaitInv, TypeInv
  <2>2. /\ Len(read_bank') = n + 1 /\ read_bank'[n + 1] = bn
        /\ \A i \in 1 .. n : read_bank'[i] = read_bank[i] /\ read_bank[i] \in Bank
    BY <2>1, AppendIs
  <2>3. n \in Nat /\ Len(arrived') = n + 1 /\ arrived'[n + 1] = k + 4 /\ \A i \in 1 .. n : arrived'[i] = arrived[i]
    BY <1>1, <2>1, AppendIs
  <2> QED BY <2>1, <2>2, <2>3
<1>3. \A i \in 1 .. n + 1 : i \in 1 .. n \/ i = n + 1
  BY <1>2
<1>4. \A i \in 1 .. n : i \in 1 .. n + 1 /\ i # n + 1
  BY <1>2
<1>5. \A bm \in Bank : \A a, b \in t[bm] : a + 4 = b + 4 => a = b
  <2>1. \A bm \in Bank : t[bm] \subseteq Place(bm)
    OBVIOUS
  <2> QED BY <2>1, PlaceIs
<1>6. Listed(t)'
  <2>1. SUFFICES ASSUME NEW i \in 1 .. n + 1 PROVE \E a \in t[read_bank'[i]] : arrived'[i] = a + 4
    BY <1>2 DEF Listed
  <2>2. CASE i = n + 1
    BY <1>2, <2>2
  <2>3. CASE i \in 1 .. n
    <3>1. \E a \in u[read_bank[i]] : arrived[i] = a + 4
      BY <1>1, <2>3 DEF WaitInv, Listed
    <3>2. u[read_bank[i]] \subseteq t[read_bank[i]]
      BY <1>2, <2>3
    <3> QED BY <1>2, <2>3, <3>1, <3>2
  <2> QED BY <1>3, <2>2, <2>3
<1>7. InOrder(t, v)'
  <2>1. SUFFICES ASSUME NEW i \in 1 .. n + 1, NEW j \in 1 .. n + 1, i < j, read_bank'[i] = read_bank'[j],
                        NEW a \in t[read_bank'[i]], NEW b \in t[read_bank'[i]],
                        arrived'[i] = a + 4, arrived'[j] = b + 4
                 PROVE  Older(a, b, v[read_bank'[i]])
    BY <1>2 DEF InOrder
  <2>2. i \in 1 .. n
    BY <1>2, <2>1
  <2>3. PICK c \in u[read_bank[i]] : arrived[i] = c + 4
    BY <1>1, <2>2 DEF WaitInv, Listed
  <2>4. a = c
    <3>1. read_bank'[i] = read_bank[i] /\ read_bank[i] \in Bank /\ arrived'[i] = arrived[i]
      BY <1>2, <2>2
    <3>2. c \in t[read_bank[i]]
      BY <3>1
    <3>3. a \in t[read_bank[i]] /\ a + 4 = c + 4
      BY <2>1, <2>3, <3>1
    <3> QED BY <1>5, <3>1, <3>2, <3>3
  <2>5. CASE j = n + 1
    <3>1. read_bank[i] = bn /\ read_bank'[i] = bn /\ b + 4 = k + 4
      BY <1>2, <2>1, <2>2, <2>5
    <3>2. b = k
      BY <1>5, <2>1, <3>1
    <3> QED BY <2>3, <2>4, <3>1, <3>2
  <2>6. CASE j \in 1 .. n
    <3>1. /\ read_bank[i] = read_bank[j] /\ read_bank'[i] = read_bank[i] /\ read_bank[i] \in Bank
          /\ arrived[i] = a + 4 /\ arrived[j] = b + 4
      BY <1>2, <2>1, <2>2, <2>6
    <3>2. PICK d \in u[read_bank[j]] : arrived[j] = d + 4
      BY <1>1, <2>6 DEF WaitInv, Listed
    <3>3. d \in t[read_bank[i]]
      BY <3>1, <3>2
    <3>4. b = d
      BY <1>5, <2>1, <3>1, <3>2, <3>3
    <3>5. Older(a, b, w[read_bank[i]])
      BY <1>1, <2>1, <2>2, <2>3, <2>4, <2>6, <3>1, <3>2, <3>4 DEF WaitInv, InOrder
    <3> QED BY <2>3, <2>4, <3>1, <3>2, <3>4, <3>5
  <2> QED BY <1>3, <2>5, <2>6
<1>8. AllListed(t)'
  <2>1. SUFFICES ASSUME NEW bm \in Bank, NEW a \in t[bm]
                 PROVE  \E i \in 1 .. n + 1 : read_bank'[i] = bm /\ arrived'[i] = a + 4
    BY <1>2 DEF AllListed
  <2>2. CASE bm = bn /\ a = k
    <3>1. n + 1 \in 1 .. n + 1
      BY <1>2
    <3> QED BY <1>2, <2>2, <3>1
  <2>3. CASE a \in u[bm]
    <3>1. PICK i \in 1 .. n : read_bank[i] = bm /\ arrived[i] = a + 4
      BY <1>1, <2>3 DEF WaitInv, AllListed
    <3> QED BY <1>2, <1>4, <3>1
  <2> QED BY <2>1, <2>2, <2>3
<1> QED BY <1>2, <1>6, <1>7, <1>8 DEF WaitInv

\* What Tail does, element by element.
LEMMA TailIs ==
    ASSUME NEW S, NEW q \in Seq(S), Len(q) > 0, NEW p, p = Tail(q)
    PROVE  /\ p \in Seq(S) /\ Len(p) \in Nat /\ Len(q) = Len(p) + 1
           /\ \A i \in 1 .. Len(p) : p[i] = q[i + 1]
BY HeadTailProperties, EmptySeq

\* The first packet that waits is the oldest of its bank.
LEMMA FirstWaits ==
    ASSUME BuffersFit, NEW u, NEW w, WaitInv(u, w), TypeInv, read_bank # <<>>, NEW bn, bn = read_bank[1],
           \A bm \in Bank : u[bm] \subseteq Place(bm), w[bn] \in Int,
           NEW k \in u[bn], \A a \in u[bn] : a = k \/ Older(k, a, w[bn])
    PROVE  arrived[1] = k + 4
<1>1. Len(arrived) \in Nat /\ Len(arrived) > 0 /\ 1 \in 1 .. Len(arrived) /\ bn \in Bank
  BY EmptySeq DEF WaitInv, TypeInv
<1>2. PICK i \in 1 .. Len(arrived) : read_bank[i] = bn /\ arrived[i] = k + 4
  BY <1>1 DEF WaitInv, AllListed
<1>3. PICK a \in u[bn] : arrived[1] = a + 4
  BY <1>1 DEF WaitInv, Listed
<1>4. 1 < i => Older(a, k, w[bn])
  BY <1>1, <1>2, <1>3 DEF WaitInv, InOrder
<1>5. a \in Int /\ k \in Int
  BY <1>1, PlaceIs
<1>6. 1 < i => a = k
  BY <1>4, <1>5 DEF Older
<1> QED BY <1>1, <1>2, <1>3, <1>6

\* The first packet is taken, which was at k of bank bn; what waits then is at t.
TakenFrom(bn, k, u, w, t) ==
    /\ read_bank # <<>> /\ bn = read_bank[1] /\ arrived[1] = k + 4
    /\ k \in u[bn] /\ w[bn] \in Int /\ \A bm \in Bank : u[bm] \subseteq Place(bm)
    /\ t[bn] = u[bn] \ {k} /\ \A bm \in Bank : bm # bn => t[bm] = u[bm]
    /\ read_bank' = Tail(read_bank) /\ arrived' = Tail(arrived)

\* The rest waits as before.
LEMMA WaitTaken ==
    ASSUME BuffersFit, NEW u, NEW w, WaitInv(u, w), TypeInv, NEW bn, NEW k, NEW t,
           TakenFrom(bn, k, u, w, t)
    PROVE  WaitInv(t, w)'
<1> USE DEF TakenFrom
<1>1. PICK n : n = Len(arrived')
  OBVIOUS
<1>2. /\ n \in Nat /\ Len(arrived) = n + 1 /\ Len(read_bank) = n + 1 /\ Len(read_bank') = n /\ bn \in Bank
      /\ 1 \in 1 .. n + 1
      /\ \A i \in 1 .. n : /\ read_bank'[i] = read_bank[i + 1] /\ arrived'[i] = arrived[i + 1]
                           /\ i + 1 \in 1 .. n + 1 /\ 1 < i + 1 /\ read_bank[i + 1] \in Bank
  <2>1. /\ read_bank \in Seq(Bank) /\ arrived \in Seq(Nat) /\ Len(arrived) = Len(read_bank)
        /\ Len(read_bank) > 0 /\ Len(arrived) > 0
    BY EmptySeq DEF WaitInv, TypeInv
  <2>2. /\ n \in Nat /\ Len(arrived) = n + 1 /\ \A i \in 1 .. n : arrived'[i] = arrived[i + 1]
    BY <1>1, <2>1, TailIs
  <2>3. /\ Len(read_bank') \in Nat /\ Len(read_bank) = Len(read_bank') + 1
        /\ \A i \in 1 .. Len(read_bank') : read_bank'[i] = read_bank[i + 1]
    BY <2>1, TailIs
  <2>4. Len(read_bank) = n + 1 /\ Len(read_bank') = n
    <3>1. PICK m : m = Len(read_bank')
      OBVIOUS
    <3>2. m \in Nat /\ n \in Nat /\ m + 1 = n + 1
      BY <2>1, <2>2, <2>3, <3>1
    <3>3. m = n
      BY <3>2
    <3> QED BY <2>3, <3>1, <3>3
  <2>5. \A i \in 1 .. n : i + 1 \in 1 .. n + 1 /\ 1 < i + 1
    BY <2>2
  <2>6. \A i \in 1 .. n + 1 : read_bank[i] \in Bank
    BY <2>1, <2>4
  <2>7. 1 \in 1 .. n + 1
    BY <2>2
  <2> QED BY <2>1, <2>2, <2>3, <2>4, <2>5, <2>6, <2>7
<1>3. \A bm \in Bank : \A a, b \in u[bm] : a + 4 = b + 4 => a = b
  BY PlaceIs
<1>4. \A bm \in Bank : t[bm] \subseteq u[bm]
  OBVIOUS
<1>5. ASSUME NEW i \in 1 .. n
      PROVE  \E a \in t[read_bank[i + 1]] : arrived[i + 1] = a + 4
  <2>1. PICK a \in u[read_bank[i + 1]] : arrived[i + 1] = a + 4
    BY <1>2 DEF WaitInv, Listed
  <2>2. read_bank[i + 1] = bn => a # k
    <3>1. SUFFICES ASSUME read_bank[i + 1] = bn, a = k PROVE FALSE
      OBVIOUS
    <3>2. Older(k, k, w[bn])
      BY <1>2, <2>1, <3>1 DEF WaitInv, InOrder
    <3>3. k \in Int
      BY <1>2, PlaceIs
    <3> QED BY <3>2, <3>3 DEF Older
  <2>3. a \in t[read_bank[i + 1]]
    BY <1>2, <2>1, <2>2
  <2> QED BY <2>1, <2>3
<1>6. Listed(t)'
  BY <1>1, <1>2, <1>5 DEF Listed
<1>7. InOrder(t, w)'
  <2>1. SUFFICES ASSUME NEW i \in 1 .. n, NEW j \in 1 .. n, i < j, read_bank'[i] = read_bank'[j],
                        NEW a \in t[read_bank'[i]], NEW b \in t[read_bank'[i]],
                        arrived'[i] = a + 4, arrived'[j] = b + 4
                 PROVE  Older(a, b, w[read_bank'[i]])
    BY <1>1 DEF InOrder
  <2>2. i + 1 < j + 1 /\ read_bank[i + 1] = read_bank[j + 1]
    BY <1>2, <2>1
  <2>3. a \in u[read_bank[i + 1]] /\ b \in u[read_bank[i + 1]] /\ arrived[i + 1] = a + 4 /\ arrived[j + 1] = b + 4
    BY <1>2, <1>4, <2>1
  <2>4. Older(a, b, w[read_bank[i + 1]])
    BY <1>2, <2>2, <2>3 DEF WaitInv, InOrder
  <2> QED BY <1>2, <2>4
<1>8. AllListed(t)'
  <2>1. SUFFICES ASSUME NEW bm \in Bank, NEW a \in t[bm]
                 PROVE  \E i \in 1 .. n : read_bank'[i] = bm /\ arrived'[i] = a + 4
    BY <1>1 DEF AllListed
  <2>2. PICK i \in 1 .. n + 1 : read_bank[i] = bm /\ arrived[i] = a + 4
    BY <1>2, <1>4, <2>1 DEF WaitInv, AllListed
  <2>3. i # 1
    <3>1. SUFFICES ASSUME i = 1 PROVE FALSE
      OBVIOUS
    <3>2. bm = bn /\ a + 4 = k + 4
      BY <2>2, <3>1
    <3>3. a = k
      BY <1>2, <1>3, <1>4, <2>1, <3>2
    <3> QED BY <2>1, <3>2, <3>3
  <2>4. i - 1 \in 1 .. n /\ (i - 1) + 1 = i
    BY <1>2, <2>3
  <2> QED BY <1>2, <2>2, <2>4
<1> QED BY <1>1, <1>2, <1>6, <1>7, <1>8 DEF WaitInv

----------------------------------------------------------------------------
(* The steps of the client that leave the memory as it is.                 *)

\* The step leaves the banks and the lists as they are.
MemoryKept ==
    UNCHANGED <<header, free_ptr, read_ptr, wr_ptr, next_buffer, refill_bank_number,
                packet_in_lld, read_bank, arrived>>

\* Neither frees a packet nor has just read one, and does not begin to free.
ElsewherePc == pc \notin {"advance", "restart", "wrap"} /\ pc' # "advance"

\* What moves a packet from hand to hand in the task keeps the invariant.
LEMMA MemKept ==
    ASSUME BuffersFit, NEW c, NEW u, NEW f, NEW r, NEW w, MemInv(c, u, f, r, w),
           MemoryKept, Owned' = Owned, incoming_data' \in {incoming_data, None},
           UNCHANGED <<pc, base, data>> \/ ElsewherePc, ClientInv', TypeInv'
    PROVE  MemInv(c, u, f, r, w)'
<1>1. ASSUME NEW bn \in Bank PROVE BankInv(bn, c[bn], u[bn], f[bn], r[bn], w[bn])'
  <2>1. BankInv(bn, c[bn], u[bn], f[bn], r[bn], w[bn])
    BY DEF MemInv
  <2>2. HeadsKept(c[bn]) /\ PointersKept(bn) /\ OwnedKept(bn)
    BY NothingOfBank DEF MemoryKept
  <2>3. IncomingKept(bn)
    BY PlaceIs DEF IncomingKept
  <2>4. PcKept(bn, f[bn], w[bn])
    <3>1. CASE UNCHANGED <<pc, base, data>>
      BY <3>1, NothingOfBank
    <3>2. CASE ElsewherePc
      BY <3>2 DEF PcKept, Advances, Freeing, Wrapping, ElsewherePc
    <3> QED BY <3>1, <3>2
  <2> QED BY <2>1, <2>2, <2>3, <2>4, BankKept
<1>2. FillInv(f, w)'
  BY DEF MemInv, FillInv, MemoryKept
<1>3. WaitInv(u, w)'
  BY DEF MemInv, WaitInv, Listed, InOrder, AllListed, MemoryKept
<1> QED BY <1>1, <1>2, <1>3 DEF MemInv

\* The client's steps in get and free that leave the memory as it is.
LEMMA LiteKeeps ==
    ASSUME BuffersFit, NEW c, NEW u, NEW f, NEW r, NEW w, MemInv(c, u, f, r, w), UNCHANGED <<macVars, out>>,
           GetNothing \/ More \/ NotifyMore
    PROVE  MemInv(c, u, f, r, w)'
<1>1. MemoryKept /\ ElsewherePc /\ UNCHANGED <<base, incoming_data, incoming_packet, incoming_tcount, out>>
  BY DEF GetNothing, More, NotifyMore, MemoryKept, ElsewherePc, bankVars, nextVars, macVars
<1>2. pc # "free" /\ pc' \in {"got", "notify"} /\ data' = data
  BY DEF GetNothing, More, NotifyMore, MemInv, ClientInv
<1>3. Owned' = Owned
  BY <1>1, <1>2 DEF Owned
<1>4. pc \in {"more", "notify"} \/ pc' = "got"
  BY DEF GetNothing, More, NotifyMore
<1>5. ClientInv'
  <2>1. ClientInv
    BY DEF MemInv
  <2>2. pc' = "notify" => data # None
    BY <1>2, <1>4, <2>1 DEF ClientInv
  <2>3. pc \in {"get", "more", "notify"}
    BY DEF GetNothing, More, NotifyMore
  <2> QED BY <1>1, <1>2, <1>3, <2>1, <2>2, <2>3 DEF ClientInv
<1>6. TypeInv'
  BY <1>1, <1>2 DEF MemInv, TypeInv, MemoryKept, macVars
<1> QED BY <1>1, <1>3, <1>5, <1>6, MemKept

\* What the task does with its select, and with a packet to send.
LEMMA SelectKeeps ==
    ASSUME BuffersFit, NEW c, NEW u, NEW f, NEW r, NEW w, MemInv(c, u, f, r, w),
           \/ IncomingPacket \/ NoIncoming \/ SetLinkState \/ \E m \in Reported : SetStatus(m)
           \/ SendPacket \/ Timestamp \/ RequestNext \/ PacketSent
    PROVE  MemInv(c, u, f, r, w)'
<1>1. /\ MemoryKept /\ UNCHANGED <<base, data, incoming_data, incoming_packet, incoming_tcount>>
      /\ pc' = pc \/ (ElsewherePc /\ pc # "free" /\ pc' \in {"get", "select", "timestamp", "sent"})
  BY DEF IncomingPacket, NoIncoming, SetLinkState, SetStatus, SendPacket, Timestamp, RequestNext,
         PacketSent, MemoryKept, ElsewherePc, liteVars, bankVars, nextVars, macVars
<1>2. Owned' = Owned
  BY <1>1 DEF Owned
<1>3. ClientInv'
  <2>1. ClientInv
    BY DEF MemInv
  <2>2. pc' # pc => data = None
    BY <2>1 DEF IncomingPacket, NoIncoming, SetLinkState, SetStatus, SendPacket, Timestamp,
         RequestNext, PacketSent, ClientInv, liteVars
  <2>3. IF pc' = "timestamp" THEN out' = "given"
        ELSE IF pc' = "sent" THEN out' \in {"sending", "done"} ELSE out' = "idle"
    <3>1. CASE IncomingPacket \/ NoIncoming \/ SetLinkState \/ \E m \in Reported : SetStatus(m)
      <4>1. out' = out /\ pc \notin {"timestamp", "sent"} /\ pc' \notin {"timestamp", "sent"}
        BY <3>1 DEF IncomingPacket, NoIncoming, SetLinkState, SetStatus, liteVars
      <4> QED BY <2>1, <4>1 DEF ClientInv
    <3>2. CASE SendPacket \/ Timestamp \/ PacketSent
      BY <3>2 DEF SendPacket, Timestamp, PacketSent
    <3>3. CASE RequestNext
      <4>1. pc' = pc /\ out = "sending" /\ out' = "done"
        BY <3>3 DEF RequestNext, liteVars
      <4> QED BY <2>1, <4>1 DEF ClientInv
    <3> QED BY <3>1, <3>2, <3>3
  <2>4. CASE pc' = pc
    BY <1>1, <1>2, <2>1, <2>3, <2>4 DEF ClientInv
  <2>5. CASE pc' # pc
    <3>1. pc' \notin {"wrap", "more", "notify", "free", "advance"} /\ pc # "advance"
      BY <1>1, <2>5 DEF ElsewherePc
    <3> QED BY <1>1, <1>2, <2>1, <2>2, <2>3, <2>5, <3>1 DEF ClientInv
  <2> QED BY <2>4, <2>5
<1>4. TypeInv'
  <2>1. TypeInv
    BY DEF MemInv
  <2>2. /\ status' \in [Clients -> {"ignoring", "waiting", "pending"}]
        /\ link_status' \in {"up", "down"} /\ notified' \subseteq Clients
    <3>1. CASE SetLinkState
      BY <2>1, <3>1 DEF SetLinkState, TypeInv
    <3>2. ASSUME NEW m \in Reported, SetStatus(m)
          PROVE  /\ status' \in [Clients -> {"ignoring", "waiting", "pending"}]
                 /\ link_status' \in {"up", "down"} /\ notified' \subseteq Clients
      BY <2>1, <3>2 DEF SetStatus, TypeInv
    <3>3. CASE UNCHANGED macVars
      BY <2>1, <3>3 DEF TypeInv, macVars
    <3> QED BY <3>1, <3>2, <3>3
       DEF IncomingPacket, NoIncoming, SendPacket, Timestamp, RequestNext, PacketSent
  <2> QED BY <1>1, <2>1, <2>2 DEF TypeInv, MemoryKept
<1> QED BY <1>1, <1>2, <1>3, <1>4, MemKept

\* get_packet
LEMMA GetKeeps ==
    ASSUME BuffersFit, NEW c, NEW u, NEW f, NEW r, NEW w, MemInv(c, u, f, r, w),
           NEW m \in Clients, GetPacket(m)
    PROVE  MemInv(c, u, f, r, w)'
<1>1. PICK n : /\ ReleaseFetched(n) /\ pc = "select" /\ incoming_tcount' = n
               /\ n = Cardinality(incoming_packet') /\ incoming_packet' \subseteq incoming_packet
               /\ notified' \subseteq notified /\ UNCHANGED <<data, out, link_status>>
               /\ status' \in [Clients -> {"ignoring", "waiting", "pending"}]
               /\ MemoryKept
  <2>1. /\ incoming_tcount = Cardinality(incoming_packet) /\ incoming_packet \subseteq Clients
        /\ status \in [Clients -> {"ignoring", "waiting", "pending"}]
    BY DEF MemInv, ClientInv, TypeInv
  <2>2. CASE GetStatus(m)
    BY <2>1, <2>2 DEF GetStatus, MemoryKept, bankVars, nextVars
  <2>3. CASE GetData(m)
    <3>1. IsFiniteSet(incoming_packet)
      BY <2>1, FS_Subset, MiiMacAssumption
    <3>2. Cardinality(incoming_packet \ {m}) = Cardinality(incoming_packet) - 1
      BY <2>3, <3>1, FS_RemoveElement DEF GetData
    <3> QED BY <2>1, <2>3, <3>2 DEF GetData, MemoryKept, bankVars, nextVars
  <2>4. CASE GetNoData(m)
    BY <2>1, <2>4 DEF GetNoData, MemoryKept, bankVars, nextVars
  <2> QED BY <2>2, <2>3, <2>4 DEF GetPacket
<1>2. ClientInv /\ TypeInv /\ data = None
  BY <1>1 DEF MemInv, ClientInv
<1>3. CASE incoming_data # None /\ n = 0
  <2>1. base' = incoming_data /\ pc' = "free" /\ incoming_data' = None
    BY <1>1, <1>3 DEF ReleaseFetched, Release
  <2>2. Owned' = Owned
    BY <1>1, <1>2, <1>3, <2>1 DEF Owned
  <2>3. incoming_packet' = {}
    <3>1. IsFiniteSet(incoming_packet')
      BY <1>1, <1>2, FS_Subset, MiiMacAssumption DEF ClientInv
    <3> QED BY <1>1, <1>3, <3>1, FS_EmptySet
  <2>4. ClientInv'
    BY <1>1, <1>2, <1>3, <2>1, <2>2, <2>3 DEF ClientInv
  <2>5. TypeInv'
    BY <1>1, <1>2, <2>1 DEF TypeInv, MemoryKept
  <2>6. ElsewherePc
    BY <1>1, <2>1 DEF ElsewherePc
  <2> QED BY <1>1, <2>1, <2>2, <2>4, <2>5, <2>6, MemKept
<1>4. CASE ~(incoming_data # None /\ n = 0)
  <2>1. UNCHANGED <<base, pc, incoming_data>>
    BY <1>1, <1>4 DEF ReleaseFetched
  <2>2. Owned' = Owned
    BY <1>1, <2>1 DEF Owned
  <2>3. ClientInv'
    BY <1>1, <1>2, <2>1, <2>2 DEF ClientInv
  <2>4. TypeInv'
    BY <1>1, <1>2, <2>1 DEF TypeInv, MemoryKept
  <2> QED BY <1>1, <2>1, <2>2, <2>3, <2>4, MemKept
<1> QED BY <1>3, <1>4

\* A packet that no client wants is released at once.
LEMMA DropKeeps ==
    ASSUME BuffersFit, NEW c, NEW u, NEW f, NEW r, NEW w, MemInv(c, u, f, r, w),
           pc = "got", Release(data), data' = None, UNCHANGED <<incoming_data, status, link_status, out>>,
           incoming_packet' \subseteq incoming_packet, incoming_tcount' = Cardinality(incoming_packet'),
           notified' \subseteq Clients, MemoryKept
    PROVE  MemInv(c, u, f, r, w)'
<1>1. ClientInv /\ TypeInv
  BY DEF MemInv
<1>2. base' = data /\ (data = None => pc' = "restart") /\ (data # None => pc' = "free")
  BY DEF Release
<1>3. Owned' = Owned
  BY <1>2 DEF Owned
<1>4. ClientInv'
  BY <1>1, <1>2, <1>3 DEF ClientInv
<1>5. TypeInv'
  BY <1>1, <1>2 DEF TypeInv, MemoryKept
<1>6. ElsewherePc
  BY <1>2 DEF ElsewherePc
<1> QED BY <1>3, <1>4, <1>5, <1>6, MemKept

\* The only packet that the client has, if it is not freeing one, is the oldest.
LEMMA OnlyIsOldest ==
    ASSUME BuffersFit, NEW bn \in Bank, NEW C, NEW U, NEW f, NEW r, NEW w, BankInv(bn, C, U, f, r, w),
           NEW k \in Place(bn), Owned = {k + 4}, pc = "got"
    PROVE  k = Oldest(bn, header, f) /\ (w + 4 > LastSafe(bn) => f = First(bn))
<1>1. w + 4 > LastSafe(bn) => f = First(bn)
  BY DEF BankInv, EndsLeft, Advances
<1>2. k \in C /\ header[k] \in Lengths /\ Older(k, r, w)
  BY DEF BankInv, OwnedAreHeld, Held
<1>3. PICK o : o = Oldest(bn, header, f)
  OBVIOUS
<1>4. /\ Ring(bn, header, C, f, r, w) /\ f \in C /\ r \in C /\ w \in C /\ First(bn) \in Int
      /\ \A a \in C : a \in Int /\ First(bn) <= a /\ a \in Place(bn) /\ ~Older(a, f, w)
  BY RingIs DEF BankInv, Ring
<1>5. /\ o \in C /\ header[o] # 0 /\ 0 \notin Lengths
      /\ header[f] = 0 => o = First(bn) /\ w < f /\ \A b \in C : b # f => b <= w
      /\ header[f] # 0 => o = f
  BY <1>3, <1>4, OldestIs, LengthsApart DEF Oldest
<1>6. Older(o, r, w) /\ o # w
  <2>1. CASE header[f] = 0
    <3>1. k # f
      BY <1>2, <1>5, <2>1
    <3>2. r # f
      BY <1>2, <1>4
    <3> QED BY <1>2, <1>4, <1>5, <2>1, <3>1, <3>2 DEF Older
  <2>2. CASE header[f] # 0
    BY <1>2, <1>4, <1>5, <2>2 DEF Older
  <2> QED BY <2>1, <2>2
<1>7. header[o] \notin Freed
  BY <1>3 DEF BankInv, OldestInv, Freeing
<1>8. header[o] \in Lengths
  BY <1>4, <1>5, <1>6, <1>7 DEF Ring, HeadIs
<1>9. o + 4 \in {k + 4}
  BY <1>4, <1>5, <1>6, <1>8 DEF BankInv, OwnedAreHeld, Held
<1>10. o = k
  BY <1>4, <1>5, <1>9, PlaceIs
<1> QED BY <1>1, <1>3, <1>10

\* The packet that the clients are told of is the oldest of its bank: it is
\* the only one that the client has.
LEMMA SendKeeps ==
    ASSUME BuffersFit, NEW c, NEW u, NEW f, NEW r, NEW w, MemInv(c, u, f, r, w),
           NEW wanted \in SUBSET Clients, SendToClients(wanted)
    PROVE  MemInv(c, u, f, r, w)'
<1>1. /\ pc = "got" /\ incoming_data = None /\ data # None /\ data' = None /\ MemoryKept
      /\ incoming_packet' = incoming_packet \cup wanted
      /\ incoming_tcount' = Cardinality(wanted) /\ notified' = notified \cup wanted
      /\ UNCHANGED <<status, link_status, out>>
  BY DEF SendToClients, MemoryKept, bankVars, nextVars
<1>2. ClientInv /\ TypeInv /\ incoming_packet' = wanted /\ notified' \subseteq Clients
  BY <1>1 DEF MemInv, ClientInv, TypeInv
<1>3. CASE wanted = {}
  <2>1. Release(data) /\ UNCHANGED incoming_data
    BY <1>3 DEF SendToClients
  <2> QED BY <1>1, <1>2, <1>3, <2>1, DropKeeps
<1>4. CASE wanted # {}
  <2>1. pc' = "select" /\ incoming_data' = data /\ UNCHANGED base
    BY <1>4 DEF SendToClients
  <2>2. Owned = {data} /\ Owned' = {data}
    BY <1>1, <2>1 DEF Owned
  <2>3. ASSUME NEW bn \in Bank PROVE BankInv(bn, c[bn], u[bn], f[bn], r[bn], w[bn])'
    <3>1. BankInv(bn, c[bn], u[bn], f[bn], r[bn], w[bn])
      BY DEF MemInv
    <3>2. Ring(bn, header, c[bn], f[bn], r[bn], w[bn])' /\ Pointers(bn, f[bn], r[bn], w[bn])'
          /\ u[bn] = Unread(header, c[bn], r[bn], w[bn])'
      BY <1>1, <3>1 DEF BankInv, Pointers, MemoryKept
    <3>3. OwnedAreHeld(bn, c[bn], r[bn], w[bn])'
      BY <1>1, <2>2, <3>1 DEF BankInv, OwnedAreHeld, MemoryKept
    <3>4. EndsLeft(bn, f[bn], r[bn], w[bn])'
      BY <1>1, <2>1, <3>1 DEF BankInv, EndsLeft, Advances, Freeing, Wrapping, MemoryKept
    <3>5. OldestInv(bn, f[bn], w[bn])'
      <4>1. header[Oldest(bn, header, f[bn])] \notin Freed
        BY <1>1, <3>1 DEF BankInv, OldestInv, Freeing
      <4>2. ASSUME NEW k \in Place(bn), data = k + 4
            PROVE  k = Oldest(bn, header, f[bn]) /\ (w[bn] + 4 > LastSafe(bn) => f[bn] = First(bn))
        BY <1>1, <2>2, <3>1, <4>2, OnlyIsOldest
      <4> QED BY <1>1, <2>1, <4>1, <4>2 DEF OldestInv, MemoryKept
    <3> QED BY <3>2, <3>3, <3>4, <3>5 DEF BankInv
  <2>4. FillInv(f, w)'
    BY <1>1 DEF MemInv, FillInv, MemoryKept
  <2>5. WaitInv(u, w)'
    BY <1>1 DEF MemInv, WaitInv, Listed, InOrder, AllListed, MemoryKept
  <2>6. ClientInv'
    BY <1>1, <1>2, <2>1, <2>2 DEF ClientInv
  <2>7. TypeInv'
    BY <1>1, <1>2, <2>1 DEF TypeInv, MemoryKept
  <2> QED BY <2>3, <2>4, <2>5, <2>6, <2>7 DEF MemInv
<1> QED BY <1>3, <1>4

\* All that the MAC does.
LEMMA MacKeeps ==
    ASSUME BuffersFit, NEW c, NEW u, NEW f, NEW r, NEW w, MemInv(c, u, f, r, w),
           \/ IncomingPacket \/ SetLinkState \/ \E m \in Reported : SetStatus(m)
           \/ SendPacket \/ Timestamp \/ RequestNext \/ PacketSent
           \/ DropIncoming \/ NoIncoming \/ \E wanted \in SUBSET Clients : SendToClients(wanted)
           \/ \E m \in Clients : GetPacket(m)
    PROVE  MemInv(c, u, f, r, w)'
<1>1. CASE DropIncoming
  <2>1. /\ pc = "got" /\ Release(data) /\ data' = None
        /\ UNCHANGED <<incoming_data, incoming_packet, incoming_tcount, notified, status, link_status, out>>
        /\ MemoryKept
    BY <1>1 DEF DropIncoming, MemoryKept, bankVars, nextVars, macVars
  <2>2. incoming_tcount = Cardinality(incoming_packet) /\ notified \subseteq Clients
    BY DEF MemInv, ClientInv, TypeInv
  <2> QED BY <2>1, <2>2, DropKeeps
<1> QED BY <1>1, SelectKeeps, SendKeeps, GetKeeps

----------------------------------------------------------------------------
(* mii_interrupt_handler.                                                  *)

\* What the invariant says of one bank.
LEMMA MemIs ==
    ASSUME BuffersFit, NEW c, NEW u, NEW f, NEW r, NEW w, MemInv(c, u, f, r, w), NEW bn \in Bank
    PROVE  /\ BankInv(bn, c[bn], u[bn], f[bn], r[bn], w[bn]) /\ Ring(bn, header, c[bn], f[bn], r[bn], w[bn])
           /\ free_ptr[bn] = f[bn] /\ read_ptr[bn] = r[bn] /\ wr_ptr[bn] = w[bn] + 4
           /\ f[bn] \in Place(bn) /\ r[bn] \in Place(bn) /\ w[bn] \in Place(bn)
           /\ u[bn] \subseteq c[bn] /\ c[bn] \subseteq Place(bn) /\ w[bn] \notin u[bn]
           /\ f[bn] \in Nat /\ r[bn] \in Nat /\ w[bn] \in Nat
           /\ 1 - bn \in Bank /\ 1 - (1 - bn) = bn /\ 1 - bn # bn
<1>1. BankInv(bn, c[bn], u[bn], f[bn], r[bn], w[bn])
  BY DEF MemInv
<1>2. /\ Ring(bn, header, c[bn], f[bn], r[bn], w[bn]) /\ Pointers(bn, f[bn], r[bn], w[bn])
      /\ u[bn] = Unread(header, c[bn], r[bn], w[bn])
  BY <1>1 DEF BankInv
<1>3. 1 - bn \in Bank /\ 1 - (1 - bn) = bn /\ 1 - bn # bn
  BY DEF Bank
<1>4. /\ f[bn] \in Place(bn) /\ r[bn] \in Place(bn) /\ w[bn] \in Place(bn) /\ c[bn] \subseteq Place(bn)
  BY <1>2 DEF Ring
<1>5. u[bn] \subseteq c[bn] /\ w[bn] \notin u[bn]
  BY <1>2 DEF Unread
<1> QED BY <1>1, <1>2, <1>3, <1>4, <1>5, PlaceIs DEF Pointers

\* The driver fills the next buffer of one bank, and then of the other.
LEMMA DriverIs ==
    ASSUME BuffersFit, NEW c, NEW u, NEW f, NEW r, NEW w, MemInv(c, u, f, r, w)
    PROVE  \E bn \in Bank :
               /\ packet_in_lld = w[bn] + 4 /\ packet_in_lld = wr_ptr[bn] /\ Fill(bn, f[bn], w[bn])
               /\ \/ next_buffer = wr_ptr[1 - bn] /\ Fill(1 - bn, f[1 - bn], w[1 - bn])
                  \/ next_buffer = None /\ refill_bank_number = 1 - bn
               /\ BankOf(packet_in_lld) = bn /\ 1 - bn \in Bank /\ 1 - (1 - bn) = bn
<1>1. PICK bn \in Bank :
        /\ packet_in_lld = wr_ptr[bn] /\ Fill(bn, f[bn], w[bn])
        /\ \/ next_buffer = wr_ptr[1 - bn] /\ Fill(1 - bn, f[1 - bn], w[1 - bn])
           \/ next_buffer = None /\ refill_bank_number = 1 - bn
  BY DEF MemInv, FillInv
<1>2. /\ wr_ptr[bn] = w[bn] + 4 /\ w[bn] \in Place(bn)
      /\ 1 - bn \in Bank /\ 1 - (1 - bn) = bn
  BY MemIs
<1>3. BankOf(w[bn] + 4) = bn
  BY <1>2, PlaceIs
<1> QED BY <1>1, <1>2, <1>3

\* Where the driver may write there is no head in use.
LEMMA WritesClear ==
    ASSUME BuffersFit, NEW c, NEW u, NEW f, NEW r, NEW w, MemInv(c, u, f, r, w),
           NEW bn \in Bank, Fill(bn, f[bn], w[bn]), NEW n \in Lengths,
           NEW bm \in Bank, NEW a \in c[bm]
    PROVE  a \notin w[bn] + 4 .. w[bn] + 4 + Written(n) - 1
<1>1. /\ f[bn] \in Place(bn) /\ w[bn] \in Place(bn) /\ a \in Place(bm)
      /\ f[bn] \in Nat /\ w[bn] \in Nat
  BY MemIs
<1>2. /\ a \in Nat /\ First(bm) <= a /\ a + 8 <= End(bm) /\ First(bn) <= w[bn]
      /\ First(0) = 0 /\ End(0) = First(1) /\ First(1) \in Nat /\ End(1) \in Int
  <2>1. 0 \in Bank /\ 1 \in Bank
    BY DEF Bank
  <2> QED BY <1>1, <2>1, PlaceIs, BankIs
<1>3. Written(n) \in Nat /\ w[bn] + 4 + Written(n) <= End(bn)
  BY <1>1, SizeIs, AfterIs DEF Fill
<1>4. CASE bm = bn
  <2>1. ~Older(a, f[bn], w[bn])
    BY <1>4, MemIs DEF Ring
  <2>2. f[bn] <= w[bn] \/ w[bn] + 4 + Written(n) <= f[bn]
    BY <1>1, FillIs
  <2> QED BY <1>1, <1>2, <1>3, <2>1, <2>2 DEF Older
<1>5. CASE bm # bn
  <2>1. (bn = 0 /\ bm = 1) \/ (bn = 1 /\ bm = 0)
    BY <1>5 DEF Bank
  <2> QED BY <1>1, <1>2, <1>3, <2>1
<1> QED BY <1>4, <1>5

\* An interrupt that commits no packet.
LEMMA RefillKeeps ==
    ASSUME BuffersFit, NEW c, NEW u, NEW f, NEW r, NEW w, MemInv(c, u, f, r, w), UNCHANGED <<macVars, out>>,
           NEW n \in Lengths, Overrun(n) \/ DropFull(n) \/ Reject(n)
    PROVE  MemInv(c, u, f, r, w)'
<1>1. PICK bn \in Bank :
        /\ packet_in_lld = w[bn] + 4 /\ packet_in_lld = wr_ptr[bn] /\ Fill(bn, f[bn], w[bn])
        /\ \/ next_buffer = wr_ptr[1 - bn] /\ Fill(1 - bn, f[1 - bn], w[1 - bn])
           \/ next_buffer = None /\ refill_bank_number = 1 - bn
        /\ BankOf(packet_in_lld) = bn /\ 1 - bn \in Bank /\ 1 - (1 - bn) = bn
  BY DriverIs
<1>3. /\ header' = Overwrite(header, packet_in_lld, n)
      /\ UNCHANGED <<free_ptr, wr_ptr, read_ptr, read_bank, arrived, pc, data, base,
                     incoming_data, incoming_packet, incoming_tcount, status, link_status, notified, out>>
  BY DEF Overrun, DropFull, Reject, macVars, notifyVars
<1>4. Owned' = Owned
  BY <1>3 DEF Owned
<1>5. ASSUME NEW bm \in Bank PROVE BankInv(bm, c[bm], u[bm], f[bm], r[bm], w[bm])'
  <2>1. HeadsKept(c[bm])
    BY <1>1, <1>3, WritesClear DEF HeadsKept, Overwrite, SameHead
  <2>2. PointersKept(bm) /\ OwnedKept(bm) /\ IncomingKept(bm) /\ PcKept(bm, f[bm], w[bm])
    BY <1>3, <1>4, NothingOfBank
  <2> QED BY <2>1, <2>2, BankKept DEF MemInv
<1>6. FillInv(f, w)' /\ refill_bank_number' \in Bank
  <2>1. refill_bank_number \in Bank
    BY DEF MemInv, TypeInv
  <2>2. CASE Overrun(n)
    BY <1>1, <1>3, <2>1, <2>2 DEF Overrun, FillInv, nextVars
  <2>3. ASSUME next_buffer # None PROVE next_buffer = wr_ptr[1 - bn] /\ Fill(1 - bn, f[1 - bn], w[1 - bn])
    BY <1>1, <2>3
  <2>4. CASE DropFull(n)
    <3>1. packet_in_lld' = wr_ptr[1 - bn] /\ next_buffer' = None /\ refill_bank_number' = bn
          /\ Fill(1 - bn, f[1 - bn], w[1 - bn])
      BY <1>1, <2>3, <2>4 DEF DropFull
    <3> QED BY <1>1, <1>3, <3>1 DEF FillInv
  <2>5. CASE Reject(n)
    <3>1. packet_in_lld' = wr_ptr[1 - bn] /\ next_buffer' = wr_ptr[bn]
          /\ Fill(1 - bn, f[1 - bn], w[1 - bn]) /\ UNCHANGED refill_bank_number
      BY <1>1, <2>3, <2>5 DEF Reject
    <3> QED BY <1>1, <1>3, <2>1, <3>1 DEF FillInv
  <2> QED BY <2>2, <2>4, <2>5
<1>7. WaitInv(u, w)'
  BY <1>3 DEF MemInv, WaitInv, Listed, InOrder, AllListed
<1>8. ClientInv'
  BY <1>3, <1>4 DEF MemInv, ClientInv
<1>9. TypeInv'
  BY <1>3, <1>6 DEF MemInv, TypeInv
<1> QED BY <1>5, <1>6, <1>7, <1>8, <1>9 DEF MemInv

\* Where NextPlace goes with the next packet of bank bn, whose head was to be
\* at j: to j or to the begin of the bank, v.
Goes(bn, h, f, j, v, p) ==
    /\ v \in Place(bn) /\ p.wr = v + 4
    /\ p.next = None \/ (p.next = p.wr /\ Fill(bn, f, v))
    /\ \/ v = j /\ (j + 4 > LastSafe(bn) => f = First(bn)) /\ p.header = SetWord(h, j, 1)
       \/ /\ v = First(bn) /\ j + 4 > LastSafe(bn) /\ f # First(bn)
          /\ p.header = SetWord(SetWord(h, First(bn), 1), j, 0)

\* NextPlace gives the driver only a buffer that it may fill, and leaves the
\* end of a bank only when something has been freed at its begin.
LEMMA NextPlaceGoes ==
    ASSUME BuffersFit, NEW bn \in Bank, NEW h, NEW f \in Place(bn), NEW j \in Place(bn),
           free_ptr[bn] = f, NEW wr, wr = j + 4
    PROVE  \E v : Goes(bn, h, f, j, v, NextPlace(bn, wr, h))
<1>1. /\ j \in Nat /\ f \in Nat /\ First(bn) \in Nat /\ LastSafe(bn) \in Int /\ MaxPacket \in Nat
      /\ First(bn) + 4 <= LastSafe(bn) /\ wr - 4 = j
  <2>1. End(bn) \in Int /\ LastSafe(bn) = End(bn) - MaxPacket /\ MaxPacket \in Nat
    BY BankIs, MiiLiteAssumption
  <2> QED BY <2>1, PlaceIs, BankIs
<1>2. \A v \in Nat : v + 4 <= LastSafe(bn) /\ Room(bn, v + 4) => Fill(bn, f, v)
  BY <1>1 DEF Room, Fill
<1>3. wr <= LastSafe(bn) <=> ~(j + 4 > LastSafe(bn))
  BY <1>1
<1>4. CASE wr <= LastSafe(bn)
  <2>1. NextPlace(bn, wr, h) = [wr |-> wr, header |-> SetWord(h, j, 1),
                                next |-> IF Room(bn, wr) THEN wr ELSE None]
    BY <1>1, <1>4 DEF NextPlace
  <2> QED BY <1>1, <1>2, <1>3, <1>4, <2>1 DEF Goes
<1>5. CASE ~(wr <= LastSafe(bn)) /\ f = First(bn)
  <2>1. NextPlace(bn, wr, h) = [wr |-> wr, header |-> SetWord(h, j, 1), next |-> None]
    BY <1>1, <1>5 DEF NextPlace
  <2> QED BY <1>5, <2>1 DEF Goes
<1>6. CASE ~(wr <= LastSafe(bn)) /\ f # First(bn)
  <2>1. NextPlace(bn, wr, h) = [wr |-> First(bn) + 4,
                                header |-> SetWord(SetWord(h, First(bn), 1), j, 0),
                                next |-> IF Room(bn, First(bn) + 4) THEN First(bn) + 4 ELSE None]
    BY <1>1, <1>6 DEF NextPlace
  <2> QED BY <1>1, <1>2, <1>3, <1>6, <2>1, FirstIs DEF Goes
<1> QED BY <1>4, <1>5, <1>6

\* The heads after mii_commit_buffer, of a packet at k, and NextPlace.
LEMMA CommitHeads ==
    ASSUME BuffersFit, NEW bn \in Bank, NEW k \in Place(bn), NEW n \in Lengths, NEW x, x = k + Size(n),
           NEW h, NEW e, NEW f, NEW v, NEW p,
           e = SetWord(Overwrite(h, k + 4, n), k, n), Goes(bn, e, f, x, v, p)
    PROVE  /\ k \in DOMAIN p.header /\ (v = x \/ k # First(bn) => p.header[k] = n)
           /\ x \in DOMAIN p.header /\ p.header[x] = IF v = x THEN 1 ELSE 0
           /\ v \in DOMAIN p.header /\ p.header[v] = 1
           /\ \A y : /\ y \notin k + 4 .. k + 4 + Written(n) - 1 /\ y # k
                     /\ y # x /\ y # v
                     => SameHead(h, p.header, y)
<1>1. PICK o, g : o = Overwrite(h, k + 4, n) /\ g = p.header
  OBVIOUS
<1>2. k \in Int /\ First(bn) \in Int /\ First(bn) <= k /\ k < x
  BY PlaceIs, BankIs, SizeIs
<1>3. \A y : y \notin k + 4 .. k + 4 + Written(n) - 1 => SameHead(h, o, y)
  BY <1>1 DEF Overwrite, SameHead
<1>4. k \in DOMAIN e /\ e[k] = n /\ \A y : y # k => SameHead(o, e, y)
  BY <1>1, SetWordIs
<1>5. \A y : y \notin k + 4 .. k + 4 + Written(n) - 1 /\ y # k => SameHead(h, e, y)
  BY <1>3, <1>4, SameHeads
<1>6. CASE v = x
  <2>1. g = SetWord(e, x, 1)
    BY <1>1, <1>2, <1>6 DEF Goes
  <2>2. x \in DOMAIN g /\ g[x] = 1 /\ \A y : y # x => SameHead(e, g, y)
    BY <2>1, SetWordIs
  <2>3. k \in DOMAIN g /\ g[k] = n
    BY <1>2, <1>4, <2>2 DEF SameHead
  <2>4. \A y : y \notin k + 4 .. k + 4 + Written(n) - 1 /\ y # k /\ y # x => SameHead(h, g, y)
    BY <1>5, <2>2, SameHeads
  <2> QED BY <1>1, <1>6, <2>2, <2>3, <2>4
<1>7. CASE v # x
  <2>1. PICK d : d = SetWord(e, v, 1)
    OBVIOUS
  <2>2. g = SetWord(d, x, 0) /\ v = First(bn)
    BY <1>1, <1>7, <2>1 DEF Goes
  <2>3. v \in DOMAIN d /\ d[v] = 1 /\ \A y : y # v => SameHead(e, d, y)
    BY <2>1, SetWordIs
  <2>4. x \in DOMAIN g /\ g[x] = 0 /\ \A y : y # x => SameHead(d, g, y)
    BY <2>2, SetWordIs
  <2>5. v \in DOMAIN g /\ g[v] = 1
    BY <1>7, <2>3, <2>4 DEF SameHead
  <2>6. k \in DOMAIN g /\ (k # First(bn) => g[k] = n)
    <3>1. CASE k = v
      BY <2>2, <2>5, <3>1
    <3>2. CASE k # v
      BY <1>2, <1>4, <2>3, <2>4, <3>2 DEF SameHead
    <3> QED BY <3>1, <3>2
  <2>7. \A y : y \notin k + 4 .. k + 4 + Written(n) - 1 /\ y # k /\ y # x /\ y # v => SameHead(h, g, y)
    <3>1. SUFFICES ASSUME NEW y, y \notin k + 4 .. k + 4 + Written(n) - 1, y # k, y # x, y # v
                   PROVE  SameHead(h, g, y)
      OBVIOUS
    <3>2. SameHead(h, e, y) /\ SameHead(e, d, y) /\ SameHead(d, g, y)
      BY <1>5, <2>3, <2>4, <3>1
    <3>3. SameHead(h, d, y)
      BY <3>2, SameHeads
    <3> QED BY <3>2, <3>3, SameHeads
  <2> QED BY <1>1, <1>7, <2>4, <2>5, <2>6, <2>7
<1> QED BY <1>6, <1>7

\* A commit puts a packet in its bank and changes nothing else of it.
LEMMA CommitBank ==
    ASSUME BuffersFit, NEW bn \in Bank, NEW h, NEW C, NEW f, NEW r, NEW k,
           Ring(bn, h, C, f, r, k), Fill(bn, f, k), NEW n \in Lengths, NEW x, x = k + Size(n),
           NEW e, NEW v, NEW p, e = SetWord(Overwrite(h, k + 4, n), k, n), Goes(bn, e, f, x, v, p),
           \A a \in C : a \notin k + 4 .. k + 4 + Written(n) - 1,
           k < f => k < v, NEW D, D = C \cup {x, v}
    PROVE  /\ Committed(bn, h, p.header, C, D, f, r, k, v)
           /\ v + 4 > LastSafe(bn) => f = First(bn)
<1>1. /\ f \in C /\ k \in C /\ f \in Place(bn) /\ k \in Place(bn) /\ k + 4 <= LastSafe(bn)
      /\ f \in Int /\ k \in Int /\ First(bn) \in Int /\ First(bn) <= f /\ First(bn) <= k
      /\ LastSafe(bn) \in Int /\ First(bn) + 4 <= LastSafe(bn)
  BY RingIs DEF Fill
<1>2. x \in Place(bn) /\ x \in Int /\ k < x /\ x < k + 4 + Written(n) /\ Written(n) \in Nat /\ k + 4 <= x
  BY <1>1, SizeIs, AfterIs
<1>3. x \notin C
  BY <1>1, <1>2
<1>4. f <= k \/ x < f
  BY <1>1, <1>2, FillIs
<1>5. PICK g : g = p.header
  OBVIOUS
<1>6. /\ k \in DOMAIN g /\ (v = x \/ k # First(bn) => g[k] = n)
      /\ x \in DOMAIN g /\ g[x] = IF v = x THEN 1 ELSE 0
      /\ v \in DOMAIN g /\ g[v] = 1
      /\ \A y \in C : y # k /\ y # v => SameHead(h, g, y)
  <2>1. /\ k \in DOMAIN g /\ (v = x \/ k # First(bn) => g[k] = n)
        /\ x \in DOMAIN g /\ g[x] = IF v = x THEN 1 ELSE 0
        /\ v \in DOMAIN g /\ g[v] = 1
        /\ \A y : /\ y \notin k + 4 .. k + 4 + Written(n) - 1 /\ y # k /\ y # x /\ y # v
                  => SameHead(h, g, y)
    BY <1>1, <1>5, CommitHeads
  <2> QED BY <1>3, <2>1
<1>7. CASE v = x
  <2>1. v + 4 > LastSafe(bn) => f = First(bn)
    BY <1>1, <1>2, <1>7 DEF Goes
  <2>2. k < f => v + 4 <= LastSafe(bn)
    BY <1>1, <1>2, <1>7, <2>1
  <2>3. Committed(bn, h, g, C, D, f, r, k, v)
    BY <1>1, <1>2, <1>3, <1>4, <1>6, <1>7, <2>2, CommitOn
  <2> QED BY <1>5, <2>1, <2>3
<1>8. CASE v # x
  <2>1. v = First(bn) /\ f # First(bn)
    BY <1>8 DEF Goes
  <2>2. f <= k /\ k # First(bn)
    BY <1>1, <2>1
  <2>3. \A a \in C : a # v
    <3>1. \A a \in C : ~Older(a, f, k) /\ a \in Int
      BY RingIs DEF Ring
    <3> QED BY <1>1, <2>1, <2>2, <3>1 DEF Older
  <2>4. Committed(bn, h, g, C, D, f, r, k, v)
    BY <1>1, <1>2, <1>3, <1>6, <1>8, <2>1, <2>2, <2>3, CommitRound
  <2> QED BY <1>1, <1>5, <2>1, <2>4
<1> QED BY <1>7, <1>8

\* The rest of what the client is at is the same when only the memory changes.
LEMMA ClientKept ==
    ASSUME ClientInv, UNCHANGED <<pc, data, base, macVars, out>>
    PROVE  ClientInv' /\ Owned' = Owned
BY DEF ClientInv, Owned, macVars

\* A bank in which a packet has been committed.
LEMMA CommitBankInv ==
    ASSUME BuffersFit, NEW bn \in Bank, NEW C, NEW D, NEW U, NEW f, NEW r, NEW k, NEW v,
           BankInv(bn, C, U, f, r, k), Committed(bn, header, header', C, D, f, r, k, v),
           v + 4 > LastSafe(bn) => f = First(bn),
           wr_ptr'[bn] = v + 4, UNCHANGED <<free_ptr, read_ptr, pc, data, base, incoming_data>>
    PROVE  BankInv(bn, D, U \cup {k}, f, r, v)'
<1>1. PICK h, g : h = header /\ g = header'
  OBVIOUS
<1>2. /\ Ring(bn, g, D, f, r, v) /\ Oldest(bn, g, f) = Oldest(bn, h, f)
      /\ Held(g, D, r, v) = Held(h, C, r, k)
      /\ Unread(g, D, r, v) = Unread(h, C, r, k) \cup {k}
      /\ g[Oldest(bn, h, f)] \in {h[Oldest(bn, h, f)]} \cup Lengths
      /\ g[r] = 0 <=> h[r] = 0
  BY <1>1 DEF Committed, Moved
<1>3. Pointers(bn, f, r, v)' /\ U \cup {k} = Unread(g, D, r, v)
  BY <1>1, <1>2 DEF BankInv, Pointers
<1>4. OwnedAreHeld(bn, D, r, v)'
  BY <1>1, <1>2 DEF BankInv, OwnedAreHeld, Owned
<1>5. EndsLeft(bn, f, r, v)'
  BY <1>1, <1>2 DEF BankInv, EndsLeft, Freeing, Wrapping, Advances
<1>6. OldestInv(bn, f, v)'
  <2>1. \A l \in Lengths : l \notin Freed
    BY LengthsApart
  <2> QED BY <1>1, <1>2, <2>1 DEF BankInv, OldestInv, Freeing
<1> QED BY <1>1, <1>2, <1>3, <1>4, <1>5, <1>6 DEF BankInv

\* mii_commit_buffer keeps the invariant, if the writer does not go round a
\* second time.
LEMMA CommitKeeps ==
    ASSUME BuffersFit, NEW c, NEW u, NEW f, NEW r, NEW w, MemInv(c, u, f, r, w), UNCHANGED <<macVars, out>>,
           NEW n \in Lengths, Commit(n), NoSecondWrap
    PROVE  \E d, t, x : MemInv(d, t, f, r, x)'
<1>1. next_buffer # None
  BY DEF Commit
<1>2. PICK bn \in Bank :
        /\ packet_in_lld = w[bn] + 4 /\ packet_in_lld = wr_ptr[bn] /\ Fill(bn, f[bn], w[bn])
        /\ next_buffer = wr_ptr[1 - bn] /\ Fill(1 - bn, f[1 - bn], w[1 - bn])
        /\ BankOf(packet_in_lld) = bn /\ 1 - bn \in Bank /\ 1 - (1 - bn) = bn
  BY <1>1, DriverIs
<1>3. PICK k : k = w[bn]
  OBVIOUS
<1>4. /\ BankInv(bn, c[bn], u[bn], f[bn], r[bn], k) /\ Ring(bn, header, c[bn], f[bn], r[bn], k)
      /\ f[bn] \in Place(bn) /\ k \in Place(bn) /\ k \in Nat /\ f[bn] \in Nat
      /\ free_ptr[bn] = f[bn] /\ wr_ptr[bn] = k + 4 /\ wr_ptr[bn] - 4 = k /\ 1 - bn # bn
  BY <1>3, MemIs, PlaceIs
<1>5. PICK x : x = k + Size(n)
  OBVIOUS
<1>6. x \in Place(bn) /\ x \in Nat /\ wr_ptr[bn] + RoundBytes(n) = x + 4
  <2>1. x \in Place(bn)
    BY <1>2, <1>3, <1>4, <1>5, SizeIs, AfterIs DEF Fill
  <2>2. (k + 4) + RoundBytes(n) = x + 4
    BY <1>4, <1>5, SizeIs
  <2> QED BY <1>4, <2>1, <2>2, PlaceIs
<1>7. PICK e : e = SetWord(Overwrite(header, k + 4, n), k, n)
  OBVIOUS
<1>8. PICK p : p = NextPlace(bn, wr_ptr[bn] + RoundBytes(n), e)
  OBVIOUS
<1>9. PICK v : Goes(bn, e, f[bn], x, v, p)
  BY <1>4, <1>6, <1>8, NextPlaceGoes
<1>10. /\ Continue(bn, p) /\ packet_in_lld' = next_buffer
       /\ read_bank' = Append(read_bank, bn) /\ arrived' = Append(arrived, k + 4)
       /\ Len(read_bank) < RingSize - 1
       /\ UNCHANGED <<free_ptr, read_ptr, pc, data, base>>
  BY <1>2, <1>3, <1>4, <1>7, <1>8 DEF Commit, Log
<1>11. /\ v \in Place(bn) /\ v \in Nat /\ p.wr = v + 4
       /\ p.next = None \/ (p.next = p.wr /\ Fill(bn, f[bn], v))
  BY <1>9, PlaceIs DEF Goes
<1>12. /\ wr_ptr' \in [Bank -> Nat] /\ wr_ptr'[bn] = v + 4
       /\ \A bm \in Bank : bm # bn => wr_ptr'[bm] = wr_ptr[bm]
  <2>1. wr_ptr' = [wr_ptr EXCEPT ![bn] = p.wr] /\ wr_ptr \in [Bank -> Nat]
    BY <1>10 DEF Continue, MemInv, TypeInv
  <2>2. p.wr \in Nat
    BY <1>11
  <2> QED BY <1>11, <2>1, <2>2
<1>13. k < f[bn] => k < v
  <2>1. wr_ptr[bn] < free_ptr[bn] => wr_ptr[bn] < wr_ptr'[bn]
    BY <1>2 DEF NoSecondWrap
  <2>2. k < f[bn] => k + 4 < f[bn]
    <3>1. f[bn] <= k \/ k + 4 + Written(n) <= f[bn]
      BY <1>2, <1>3, <1>4, FillIs
    <3>2. Written(n) \in Nat /\ 8 < Written(n)
      BY SizeIs
    <3> QED BY <1>4, <3>1, <3>2
  <2> QED BY <1>4, <1>11, <1>12, <2>1, <2>2
<1>14. PICK D : D = c[bn] \cup {x, v}
  OBVIOUS
<1>15. /\ Committed(bn, header, header', c[bn], D, f[bn], r[bn], k, v)
       /\ v + 4 > LastSafe(bn) => f[bn] = First(bn)
  <2>1. \A a \in c[bn] : a \notin k + 4 .. k + 4 + Written(n) - 1
    BY <1>2, <1>3, WritesClear
  <2>2. header' = p.header
    BY <1>10 DEF Continue
  <2>3. PICK h, C, q, o : h = header /\ C = c[bn] /\ q = f[bn] /\ o = r[bn]
    OBVIOUS
  <2>4. /\ Ring(bn, h, C, q, o, k) /\ Fill(bn, q, k) /\ e = SetWord(Overwrite(h, k + 4, n), k, n)
        /\ Goes(bn, e, q, x, v, p) /\ \A a \in C : a \notin k + 4 .. k + 4 + Written(n) - 1
        /\ k < q => k < v
        /\ D = C \cup {x, v}
    BY <1>2, <1>3, <1>4, <1>7, <1>9, <1>13, <1>14, <2>1, <2>3
  <2>5. Committed(bn, h, p.header, C, D, q, o, k, v) /\ (v + 4 > LastSafe(bn) => q = First(bn))
    BY <1>5, <2>4, CommitBank
  <2> QED BY <2>2, <2>3, <2>5
<1>16. PICK d, t, z : /\ d = [c EXCEPT ![bn] = D] /\ t = [u EXCEPT ![bn] = u[bn] \cup {k}]
                      /\ z = [w EXCEPT ![bn] = v]
  OBVIOUS
<1>17. /\ d \in [Bank -> SUBSET Nat] /\ t \in [Bank -> SUBSET Nat] /\ z \in [Bank -> Nat]
       /\ d[bn] = D /\ t[bn] = u[bn] \cup {k} /\ z[bn] = v
       /\ \A bm \in Bank : bm # bn => d[bm] = c[bm] /\ t[bm] = u[bm] /\ z[bm] = w[bm]
  <2>1. /\ c \in [Bank -> SUBSET Nat] /\ u \in [Bank -> SUBSET Nat] /\ w \in [Bank -> Nat]
        /\ D \in SUBSET Nat /\ u[bn] \cup {k} \in SUBSET Nat
    BY <1>4, <1>6, <1>11, <1>14 DEF MemInv
  <2> QED BY <1>11, <1>16, <2>1
<1>18. ClientInv' /\ Owned' = Owned
  BY <1>10, ClientKept DEF MemInv
<1>19. ASSUME NEW bm \in Bank PROVE BankInv(bm, d[bm], t[bm], f[bm], r[bm], z[bm])'
  <2>1. CASE bm = bn
    <3>1. BankInv(bn, D, u[bn] \cup {k}, f[bn], r[bn], v)'
      BY <1>4, <1>10, <1>12, <1>15, CommitBankInv DEF macVars
    <3> QED BY <1>17, <2>1, <3>1
  <2>2. CASE bm # bn
    <3>1. HeadsKept(c[bm])
      <4>1. header' = p.header
        BY <1>10 DEF Continue
      <4>2. SUFFICES ASSUME NEW a \in c[bm] PROVE SameHead(header, p.header, a)
        BY <4>1 DEF HeadsKept
      <4>3. a \notin k + 4 .. k + 4 + Written(n) - 1
        BY <1>2, <1>3, WritesClear
      <4>4. a # k /\ a # x /\ a # v
        <5>1. a \in Place(bm)
          BY MemIs
        <5> QED BY <1>4, <1>6, <1>11, <2>2, <5>1, PlaceIs
      <4> QED BY <1>4, <1>5, <1>7, <1>9, <4>3, <4>4, CommitHeads
    <3>2. PointersKept(bm)
      BY <1>10, <1>12, <2>2 DEF PointersKept
    <3>3. OwnedKept(bm) /\ IncomingKept(bm) /\ PcKept(bm, f[bm], w[bm])
      BY <1>10, <1>18, NothingOfBank DEF macVars
    <3>4. BankInv(bm, c[bm], u[bm], f[bm], r[bm], w[bm])'
      BY <3>1, <3>2, <3>3, MemIs, BankKept
    <3> QED BY <1>17, <2>2, <3>4
  <2> QED BY <2>1, <2>2
<1>20. FillInv(f, z)' /\ refill_bank_number' \in Bank
  <2>1. packet_in_lld' = wr_ptr'[1 - bn] /\ Fill(1 - bn, f[1 - bn], z[1 - bn])
    BY <1>2, <1>4, <1>10, <1>12, <1>17
  <2>2. CASE p.next = None
    BY <1>2, <1>10, <2>1, <2>2 DEF Continue, FillInv
  <2>3. CASE p.next # None
    <3>1. next_buffer' = wr_ptr'[bn] /\ Fill(bn, f[bn], z[bn]) /\ refill_bank_number' = refill_bank_number
      BY <1>10, <1>11, <1>12, <1>17, <2>3 DEF Continue
    <3> QED BY <1>2, <2>1, <3>1 DEF FillInv, MemInv, TypeInv
  <2> QED BY <2>2, <2>3
<1>21. WaitInv(t, z)'
  <2>1. WaitInv(u, w) /\ TypeInv
    BY DEF MemInv
  <2>2. k \notin u[bn] /\ \A bm \in Bank : u[bm] \subseteq Place(bm)
    BY <1>3, MemIs
  <2>3. /\ \A a, b \in u[bn] : Older(a, b, w[bn]) => Older(a, b, z[bn])
        /\ \A a \in u[bn] : Older(a, k, z[bn])
    BY <1>3, <1>4, <1>15, <1>17 DEF Committed, Moved, BankInv
  <2>4. ArrivesAt(bn, k, u, w, t, z)
    BY <1>4, <1>10, <1>17, <2>2, <2>3 DEF ArrivesAt
  <2> QED BY <2>1, <2>4, WaitArrives
<1>22. TypeInv'
  <2>1. RingSize \in Nat /\ k + 4 \in Nat
    BY <1>4, MiiLiteAssumption
  <2>2. read_bank' \in Seq(Bank) /\ Len(read_bank') = Len(read_bank) + 1 /\ Len(read_bank) \in Nat
    BY <1>10, AppendIs DEF MemInv, TypeInv
  <2>3. arrived' \in Seq(Nat)
    BY <1>10, <2>1, AppendIs DEF MemInv, TypeInv
  <2>4. TypeInv /\ Len(read_bank') < RingSize
    BY <1>10, <2>1, <2>2 DEF MemInv
  <2> QED BY <1>10, <1>12, <1>20, <2>2, <2>3, <2>4 DEF TypeInv, macVars
<1> QED BY <1>17, <1>18, <1>19, <1>20, <1>21, <1>22 DEF MemInv

----------------------------------------------------------------------------
(* mii_lite_get_in_buffer.                                                 *)

\* The packet that it takes, at k of bank bn: the oldest there that waits.
Takes(c, u, r, w, bn, k, x) ==
    /\ bn \in Bank /\ k = (IF header[r[bn]] = 0 THEN First(bn) ELSE r[bn])
    /\ Unread(header, c[bn], r[bn], w[bn]) # {} /\ x = k + Size(header[k])
    /\ k \in Place(bn) /\ x \in Nat /\ k \notin Held(header, c[bn], r[bn], w[bn])
    /\ k \in u[bn] /\ arrived[1] = k + 4 /\ bn = read_bank[1] /\ data' = k + 4
    /\ read_ptr' = [read_ptr EXCEPT ![bn] = x]

\* It is the first of those that arrived.
LEMMA OldestTaken ==
    ASSUME BuffersFit, NEW c, NEW u, NEW f, NEW r, NEW w, MemInv(c, u, f, r, w), GetOldest
    PROVE  \E bn, k, x : Takes(c, u, r, w, bn, k, x)
<1>1. WaitInv(u, w) /\ TypeInv /\ read_bank \in Seq(Bank) /\ read_bank # <<>>
  BY DEF MemInv, TypeInv, GetOldest
<1>2. /\ 1 \in 1 .. Len(arrived) /\ Head(read_bank) = read_bank[1] /\ read_bank[1] \in Bank
  BY <1>1, EmptySeq DEF WaitInv
<1>3. PICK bn \in Bank : bn = read_bank[1]
  BY <1>2
<1>4. u[bn] # {}
  BY <1>1, <1>2, <1>3 DEF WaitInv, Listed
<1>5. PICK h, C, o, q, y : h = header /\ C = c[bn] /\ o = f[bn] /\ q = r[bn] /\ y = w[bn]
  OBVIOUS
<1>6. u[bn] = Unread(h, C, q, y) /\ Ring(bn, h, C, o, q, y) /\ read_ptr[bn] = q
  BY <1>5, MemIs DEF BankInv
<1>7. PICK k, x : k = (IF h[q] = 0 THEN First(bn) ELSE q) /\ x = k + Size(h[k])
  OBVIOUS
<1>8. /\ k \in C /\ h[k] \in Lengths /\ k \in Unread(h, C, q, y) /\ k \notin Held(h, C, q, y)
      /\ \A a \in Unread(h, C, q, y) : a = k \/ Older(k, a, y)
      /\ Ring(bn, h, C, o, x, y)
  BY <1>4, <1>6, <1>7, NextToRead
<1>9. k \in Place(bn) /\ x \in Nat
  BY <1>8, PlaceIs DEF Ring
<1>10. arrived[1] = k + 4
  <2>1. \A bm \in Bank : u[bm] \subseteq Place(bm)
    BY MemIs
  <2>2. w[bn] \in Int
    BY MemIs
  <2>3. k \in u[bn] /\ \A a \in u[bn] : a = k \/ Older(k, a, w[bn])
    BY <1>5, <1>6, <1>8
  <2> QED BY <1>1, <1>3, <2>1, <2>2, <2>3, FirstWaits
<1>11. data' = k + 4 /\ read_ptr' = [read_ptr EXCEPT ![bn] = x]
  <2>1. RoundBytes(h[k]) = Size(h[k])
    BY <1>8, SizeIs
  <2> QED BY <1>2, <1>3, <1>5, <1>6, <1>7, <2>1 DEF GetOldest
<1>12. Takes(c, u, r, w, bn, k, x)
  BY <1>3, <1>4, <1>5, <1>6, <1>7, <1>8, <1>9, <1>10, <1>11 DEF Takes
<1> QED BY <1>12

\* Taking the oldest packet keeps the invariant.
LEMMA TakeKeeps ==
    ASSUME BuffersFit, NEW c, NEW u, NEW f, NEW r, NEW w, MemInv(c, u, f, r, w), UNCHANGED <<macVars, out>>,
           GetOldest
    PROVE  \E t, z : MemInv(c, t, f, z, w)'
<1>1. PICK bn, k, x : Takes(c, u, r, w, bn, k, x)
  BY OldestTaken
<1>2. /\ bn \in Bank /\ k \in Place(bn) /\ x \in Nat /\ k \in u[bn] /\ arrived[1] = k + 4
      /\ bn = read_bank[1] /\ data' = k + 4 /\ read_ptr' = [read_ptr EXCEPT ![bn] = x]
      /\ k \notin Held(header, c[bn], r[bn], w[bn])
  BY <1>1 DEF Takes
<1>3. /\ BankInv(bn, c[bn], u[bn], f[bn], r[bn], w[bn]) /\ Ring(bn, header, c[bn], f[bn], r[bn], w[bn])
      /\ u[bn] = Unread(header, c[bn], r[bn], w[bn])
  BY <1>2, MemIs DEF BankInv
<1>4. /\ Ring(bn, header, c[bn], f[bn], x, w[bn])
      /\ Unread(header, c[bn], x, w[bn]) = u[bn] \ {k}
      /\ Held(header, c[bn], x, w[bn]) = Held(header, c[bn], r[bn], w[bn]) \cup {k}
  <2>1. PICK h, C, o, q, y : h = header /\ C = c[bn] /\ o = f[bn] /\ q = r[bn] /\ y = w[bn]
    OBVIOUS
  <2>2. /\ Ring(bn, h, C, o, q, y) /\ Unread(h, C, q, y) # {}
        /\ k = (IF h[q] = 0 THEN First(bn) ELSE q) /\ x = k + Size(h[k])
    BY <1>1, <1>3, <2>1 DEF Takes
  <2>3. /\ Ring(bn, h, C, o, x, y) /\ Unread(h, C, x, y) = Unread(h, C, q, y) \ {k}
        /\ Held(h, C, x, y) = Held(h, C, q, y) \cup {k}
    BY <1>2, <2>2, NextToRead
  <2> QED BY <1>3, <2>1, <2>3
<1>5. /\ pc = "get" /\ pc' = "wrap" /\ read_bank' = Tail(read_bank) /\ arrived' = Tail(arrived)
      /\ read_bank # <<>>
      /\ UNCHANGED <<header, free_ptr, wr_ptr, next_buffer, refill_bank_number, packet_in_lld, base>>
      /\ UNCHANGED <<incoming_data, incoming_packet, incoming_tcount, status, link_status, notified, out>>
  BY DEF GetOldest, bankVars, nextVars, macVars
<1>6. ClientInv /\ TypeInv /\ WaitInv(u, w) /\ data = None
  BY <1>5 DEF MemInv, ClientInv
<1>7. /\ k + 4 \in Nat /\ k + 4 # None /\ BankOf(k + 4) = bn
      /\ \A bm \in Bank : \A a \in Place(bm) : a + 4 = k + 4 => bm = bn /\ a = k
  <2>1. k + 4 \in Nat /\ k + 4 # None /\ BankOf(k + 4) = bn /\ (k + 4) - 4 = k
    BY <1>2, PlaceIs
  <2>2. \A bm \in Bank : \A a \in Place(bm) : BankOf(a + 4) = bm /\ (a + 4) - 4 = a
    BY PlaceIs
  <2> QED BY <2>1, <2>2
<1>8. Owned' = Owned \cup {k + 4} /\ k + 4 \notin Owned
  <2>1. k + 4 \notin Owned
    BY <1>2, <1>3 DEF BankInv, OwnedAreHeld
  <2>2. Owned' = Owned \cup {k + 4}
    BY <1>2, <1>5, <1>6, <1>7 DEF Owned
  <2> QED BY <2>1, <2>2
<1>9. PICK t, z : t = [u EXCEPT ![bn] = u[bn] \ {k}] /\ z = [r EXCEPT ![bn] = x]
  OBVIOUS
<1>10. /\ t \in [Bank -> SUBSET Nat] /\ z \in [Bank -> Nat] /\ t[bn] = u[bn] \ {k} /\ z[bn] = x
       /\ \A bm \in Bank : bm # bn => t[bm] = u[bm] /\ z[bm] = r[bm]
  <2>1. u \in [Bank -> SUBSET Nat] /\ r \in [Bank -> Nat] /\ u[bn] \ {k} \in SUBSET Nat
    BY <1>2 DEF MemInv
  <2> QED BY <1>2, <1>9, <2>1
<1>11. /\ read_ptr' \in [Bank -> Nat] /\ read_ptr'[bn] = x
       /\ \A bm \in Bank : bm # bn => read_ptr'[bm] = read_ptr[bm]
  BY <1>2, <1>6 DEF TypeInv
<1>12. ASSUME NEW bm \in Bank PROVE BankInv(bm, c[bm], t[bm], f[bm], z[bm], w[bm])'
  <2>1. CASE bm = bn
    <3>1. Pointers(bn, f[bn], x, w[bn])'
      BY <1>3, <1>5, <1>11 DEF BankInv, Pointers
    <3>2. OwnedAreHeld(bn, c[bn], x, w[bn])'
      BY <1>2, <1>3, <1>4, <1>5, <1>7, <1>8 DEF BankInv, OwnedAreHeld
    <3>3. EndsLeft(bn, f[bn], x, w[bn])'
      BY <1>2, <1>3, <1>5, <1>7 DEF BankInv, EndsLeft, Advances, Freeing, Wrapping
    <3>4. OldestInv(bn, f[bn], w[bn])'
      BY <1>3, <1>5 DEF BankInv, OldestInv, Freeing
    <3> QED BY <1>4, <1>5, <1>10, <2>1, <3>1, <3>2, <3>3, <3>4 DEF BankInv
  <2>2. CASE bm # bn
    <3>1. HeadsKept(c[bm]) /\ IncomingKept(bm)
      BY <1>5, NothingOfBank
    <3>2. PointersKept(bm)
      BY <1>5, <1>11, <2>2 DEF PointersKept
    <3>3. OwnedKept(bm)
      BY <1>7, <1>8, <2>2 DEF OwnedKept
    <3>4. PcKept(bm, f[bm], w[bm])
      BY <1>5 DEF PcKept, Advances, Freeing, Wrapping
    <3>5. BankInv(bm, c[bm], u[bm], f[bm], r[bm], w[bm])'
      BY <3>1, <3>2, <3>3, <3>4, MemIs, BankKept
    <3> QED BY <1>10, <2>2, <3>5
  <2> QED BY <2>1, <2>2
<1>13. FillInv(f, w)'
  BY <1>5 DEF MemInv, FillInv
<1>14. WaitInv(t, w)'
  <2>1. w[bn] \in Int /\ \A bm \in Bank : u[bm] \subseteq Place(bm)
    BY <1>2, MemIs
  <2>2. TakenFrom(bn, k, u, w, t)
    BY <1>2, <1>5, <1>10, <2>1 DEF TakenFrom
  <2> QED BY <1>6, <2>2, WaitTaken
<1>15. ClientInv'
  <2>1. incoming_data # k + 4
    BY <1>7, <1>8 DEF Owned
  <2> QED BY <1>2, <1>5, <1>6, <1>7, <1>8, <2>1 DEF ClientInv
<1>16. TypeInv'
  <2>1. Len(read_bank) > 0 /\ Len(arrived) > 0 /\ read_bank \in Seq(Bank) /\ arrived \in Seq(Nat)
    BY <1>5, <1>6, EmptySeq DEF WaitInv, TypeInv
  <2>2. /\ read_bank' \in Seq(Bank) /\ Len(read_bank') \in Nat /\ Len(read_bank) = Len(read_bank') + 1
        /\ arrived' \in Seq(Nat)
    BY <1>5, <2>1, TailIs
  <2>3. Len(read_bank') < RingSize
    BY <1>6, <2>2, MiiLiteAssumption DEF TypeInv
  <2> QED BY <1>5, <1>6, <1>11, <2>2, <2>3 DEF TypeInv
<1> QED BY <1>10, <1>12, <1>13, <1>14, <1>15, <1>16 DEF MemInv

\* Past the packet may be the unused tail.
LEMMA WrapKeeps ==
    ASSUME BuffersFit, NEW c, NEW u, NEW f, NEW r, NEW w, MemInv(c, u, f, r, w), UNCHANGED <<macVars, out>>,
           WrapRead
    PROVE  \E z : MemInv(c, u, f, z, w)'
<1>1. PICK bn \in Bank : bn = BankOf(data)
  BY DEF BankOf, Bank
<1>2. /\ pc = "wrap" /\ pc' = "more"
      /\ read_ptr' = IF header[read_ptr[bn]] = 0 THEN [read_ptr EXCEPT ![bn] = First(bn)] ELSE read_ptr
      /\ UNCHANGED <<header, free_ptr, wr_ptr, next_buffer, refill_bank_number, packet_in_lld,
                     read_bank, arrived, data, base>>
      /\ UNCHANGED <<incoming_data, incoming_packet, incoming_tcount, status, link_status, notified, out>>
  BY <1>1 DEF WrapRead, bankVars, nextVars, macVars
<1>3. ClientInv /\ TypeInv /\ r \in [Bank -> Nat]
  BY DEF MemInv
<1>4. PICK y : y = IF header[r[bn]] = 0 THEN First(bn) ELSE r[bn]
  OBVIOUS
<1>5. /\ Ring(bn, header, c[bn], f[bn], y, w[bn]) /\ header[y] # 0
      /\ Unread(header, c[bn], y, w[bn]) = Unread(header, c[bn], r[bn], w[bn])
      /\ Held(header, c[bn], y, w[bn]) = Held(header, c[bn], r[bn], w[bn])
  <2>1. PICK h, C, o, q, p : h = header /\ C = c[bn] /\ o = f[bn] /\ q = r[bn] /\ p = w[bn]
    OBVIOUS
  <2>2. Ring(bn, h, C, o, q, p)
    BY <2>1, MemIs
  <2>3. h[q] = 0 => /\ Ring(bn, h, C, o, First(bn), p) /\ h[First(bn)] # 0
                    /\ Unread(h, C, First(bn), p) = Unread(h, C, q, p)
                    /\ Held(h, C, First(bn), p) = Held(h, C, q, p)
    BY <2>2, RingWrapped
  <2> QED BY <1>4, <2>1, <2>2, <2>3
<1>6. y \in Nat
  BY <1>4, BankIs, MemIs
<1>7. PICK z : z = [r EXCEPT ![bn] = y]
  OBVIOUS
<1>8. z \in [Bank -> Nat] /\ z[bn] = y /\ \A bm \in Bank : bm # bn => z[bm] = r[bm]
  BY <1>3, <1>6, <1>7
<1>9. /\ read_ptr' \in [Bank -> Nat] /\ read_ptr'[bn] = y
      /\ \A bm \in Bank : bm # bn => read_ptr'[bm] = read_ptr[bm]
  <2>1. read_ptr[bn] = r[bn] /\ read_ptr \in [Bank -> Nat] /\ First(bn) \in Nat
    BY <1>3, MemIs, BankIs DEF TypeInv
  <2> QED BY <1>2, <1>4, <2>1
<1>10. Owned' = Owned
  BY <1>2 DEF Owned
<1>11. ASSUME NEW bm \in Bank PROVE BankInv(bm, c[bm], u[bm], f[bm], z[bm], w[bm])'
  <2>1. BankInv(bm, c[bm], u[bm], f[bm], r[bm], w[bm])
    BY MemIs
  <2>2. CASE bm = bn
    <3>1. Pointers(bn, f[bn], y, w[bn])' /\ u[bn] = Unread(header, c[bn], y, w[bn])
      BY <1>2, <1>5, <1>9, <2>1, <2>2 DEF BankInv, Pointers
    <3>2. OwnedAreHeld(bn, c[bn], y, w[bn])'
      BY <1>2, <1>5, <1>10, <2>1, <2>2 DEF BankInv, OwnedAreHeld
    <3>3. EndsLeft(bn, f[bn], y, w[bn])'
      BY <1>2, <1>5, <2>1, <2>2 DEF BankInv, EndsLeft, Advances, Freeing
    <3>4. OldestInv(bn, f[bn], w[bn])'
      BY <1>2, <2>1, <2>2 DEF BankInv, OldestInv, Freeing
    <3> QED BY <1>2, <1>5, <1>8, <2>2, <3>1, <3>2, <3>3, <3>4 DEF BankInv
  <2>3. CASE bm # bn
    <3>1. HeadsKept(c[bm]) /\ IncomingKept(bm) /\ OwnedKept(bm)
      BY <1>2, <1>10, NothingOfBank
    <3>2. PointersKept(bm)
      BY <1>2, <1>9, <2>3 DEF PointersKept
    <3>3. PcKept(bm, f[bm], w[bm])
      BY <1>1, <1>2, <2>3 DEF PcKept, Advances, Freeing, Wrapping
    <3>4. BankInv(bm, c[bm], u[bm], f[bm], r[bm], w[bm])'
      BY <2>1, <3>1, <3>2, <3>3, BankKept
    <3> QED BY <1>8, <2>3, <3>4
  <2> QED BY <2>2, <2>3
<1>12. FillInv(f, w)' /\ WaitInv(u, w)'
  BY <1>2 DEF MemInv, FillInv, WaitInv, Listed, InOrder, AllListed
<1>13. ClientInv' /\ TypeInv'
  BY <1>2, <1>3, <1>9, <1>10 DEF ClientInv, TypeInv
<1> QED BY <1>8, <1>11, <1>12, <1>13 DEF MemInv

----------------------------------------------------------------------------
(* mii_lite_free_in_buffer.                                                *)

\* Freeing a packet keeps the invariant, of the other packets of its bank too.
LEMMA NegateKeeps ==
    ASSUME BuffersFit, NEW c, NEW u, NEW f, NEW r, NEW w, MemInv(c, u, f, r, w), UNCHANGED <<macVars, out>>,
           Negate
    PROVE  MemInv(c, u, f, r, w)'
<1>1. /\ pc = "free" /\ pc' = "advance" /\ header' = [header EXCEPT ![base - 4] = -@]
      /\ UNCHANGED <<free_ptr, wr_ptr, read_ptr, next_buffer, refill_bank_number, packet_in_lld,
                     read_bank, arrived, data, base>>
      /\ UNCHANGED <<incoming_data, incoming_packet, incoming_tcount, status, link_status, notified, out>>
  BY DEF Negate, nextVars, macVars
<1>2. ClientInv /\ TypeInv /\ data = None /\ base \in Owned
  BY <1>1 DEF MemInv, ClientInv, Owned
<1>3. PICK bn \in Bank : \E k \in Place(bn) : base = k + 4
  BY <1>2 DEF ClientInv
<1>4. PICK k \in Place(bn) : base = k + 4
  BY <1>3
<1>5. /\ k + 4 # None /\ BankOf(base) = bn /\ base - 4 = k
      /\ \A bm \in Bank : \A a \in Place(bm) : BankOf(a) = bm /\ (a + 4 = base => bm = bn /\ a = k)
  <2>1. \A bm \in Bank : \A a \in Place(bm) : BankOf(a) = bm /\ BankOf(a + 4) = bm /\ (a + 4) - 4 = a
    BY PlaceIs
  <2> QED BY <1>4, <2>1, PlaceIs
<1>6. PICK h, g : h = header /\ g = header'
  OBVIOUS
<1>7. /\ BankInv(bn, c[bn], u[bn], f[bn], r[bn], w[bn]) /\ Ring(bn, h, c[bn], f[bn], r[bn], w[bn])
      /\ k \in Held(h, c[bn], r[bn], w[bn]) /\ u[bn] = Unread(h, c[bn], r[bn], w[bn])
  BY <1>2, <1>4, <1>6, MemIs DEF BankInv, OwnedAreHeld
<1>8. k \in DOMAIN g /\ g[k] = -h[k] /\ \A a : a # k => SameHead(h, g, a)
  <2>1. k \in DOMAIN h
    BY <1>7 DEF Ring, Held
  <2> QED BY <1>1, <1>5, <1>6, <2>1 DEF SameHead
<1>9. Owned' = Owned \ {base}
  BY <1>1, <1>2, <1>4, <1>5 DEF Owned, ClientInv
<1>10. ASSUME NEW bm \in Bank PROVE BankInv(bm, c[bm], u[bm], f[bm], r[bm], w[bm])'
  <2>1. CASE bm = bn
    <3>1. /\ Ring(bn, g, c[bn], f[bn], r[bn], w[bn])
          /\ Unread(g, c[bn], r[bn], w[bn]) = Unread(h, c[bn], r[bn], w[bn])
          /\ Held(g, c[bn], r[bn], w[bn]) = Held(h, c[bn], r[bn], w[bn]) \ {k}
          /\ \A a \in c[bn] : h[a] = 0 <=> g[a] = 0
      <4>1. PICK C, o, q, y : C = c[bn] /\ o = f[bn] /\ q = r[bn] /\ y = w[bn]
        OBVIOUS
      <4>2. /\ Ring(bn, h, C, o, q, y) /\ k \in Held(h, C, q, y) /\ k \in DOMAIN g /\ g[k] = -h[k]
            /\ \A a \in C \ {k} : SameHead(h, g, a)
        BY <1>7, <1>8, <4>1
      <4>3. /\ Ring(bn, g, C, o, q, y) /\ Unread(g, C, q, y) = Unread(h, C, q, y)
            /\ Held(g, C, q, y) = Held(h, C, q, y) \ {k}
            /\ \A a \in C : h[a] = 0 <=> g[a] = 0
        BY <4>2, RingNegated
      <4> QED BY <4>1, <4>3
    <3>2. Pointers(bn, f[bn], r[bn], w[bn])'
      BY <1>1, <1>7 DEF BankInv, Pointers
    <3>3. OwnedAreHeld(bn, c[bn], r[bn], w[bn])'
      BY <1>4, <1>5, <1>6, <1>7, <1>9, <3>1 DEF BankInv, OwnedAreHeld
    <3>4. h[r[bn]] # 0
      <4>1. f[bn] # r[bn]
        BY <1>7 DEF Ring, Held
      <4> QED BY <1>1, <1>6, <1>7, <4>1 DEF BankInv, EndsLeft, Wrapping
    <3>5. f[bn] \in c[bn] /\ r[bn] \in c[bn]
      BY <1>7 DEF Ring
    <3>6. EndsLeft(bn, f[bn], r[bn], w[bn])'
      BY <1>1, <1>6, <3>1, <3>4, <3>5 DEF EndsLeft, Advances
    <3>7. OldestInv(bn, f[bn], w[bn])'
      <4>1. Freeing(bn)'
        BY <1>1, <1>5 DEF Freeing
      <4>2. Oldest(bn, g, f[bn]) = Oldest(bn, h, f[bn])
        BY <3>1, <3>5 DEF Oldest
      <4> QED BY <1>1, <1>6, <1>7, <4>1, <4>2 DEF BankInv, OldestInv
    <3> QED BY <1>6, <1>7, <2>1, <3>1, <3>2, <3>3, <3>6, <3>7 DEF BankInv
  <2>2. CASE bm # bn
    <3>1. HeadsKept(c[bm])
      <4>1. \A a \in c[bm] : a # k
        BY <1>5, <2>2, MemIs
      <4> QED BY <1>6, <1>8, <4>1 DEF HeadsKept
    <3>2. PointersKept(bm) /\ IncomingKept(bm)
      BY <1>1, NothingOfBank
    <3>3. OwnedKept(bm)
      BY <1>5, <1>9, <2>2 DEF OwnedKept
    <3>4. PcKept(bm, f[bm], w[bm])
      BY <1>1, <1>5, <2>2 DEF PcKept, Advances, Freeing, Wrapping
    <3> QED BY <3>1, <3>2, <3>3, <3>4, MemIs, BankKept
  <2> QED BY <2>1, <2>2
<1>11. FillInv(f, w)' /\ WaitInv(u, w)'
  BY <1>1 DEF MemInv, FillInv, WaitInv, Listed, InOrder, AllListed
<1>12. ClientInv' /\ TypeInv'
  BY <1>1, <1>2, <1>9 DEF ClientInv, TypeInv
<1> QED BY <1>10, <1>11, <1>12 DEF MemInv

\* free_ptr moves past what has been freed and no further.
LEMMA AdvanceKeeps ==
    ASSUME BuffersFit, NEW c, NEW u, NEW f, NEW r, NEW w, MemInv(c, u, f, r, w), UNCHANGED <<macVars, out>>,
           AdvanceFree
    PROVE  \E d, x : MemInv(d, u, x, r, w)'
<1>1. PICK bn \in Bank : bn = BankOf(base)
  BY DEF BankOf, Bank
<1>2. PICK o, l : o = f[bn] /\ l = header[o]
  OBVIOUS
<1>3. /\ BankInv(bn, c[bn], u[bn], o, r[bn], w[bn]) /\ Ring(bn, header, c[bn], o, r[bn], w[bn])
      /\ free_ptr[bn] = o /\ o \in Place(bn) /\ o \in Nat
      /\ u[bn] = Unread(header, c[bn], r[bn], w[bn])
  BY <1>2, MemIs DEF BankInv
<1>4. /\ pc = "advance" /\ pc' \in {"advance", "restart"}
      /\ \/ l > 0 /\ pc' = "restart" /\ UNCHANGED free_ptr
         \/ /\ l <= 0 /\ pc' = pc
            /\ free_ptr' = [free_ptr EXCEPT ![bn] = IF l = 0 THEN First(bn) ELSE @ + RoundBytes(-l)]
      /\ UNCHANGED <<header, wr_ptr, read_ptr, next_buffer, refill_bank_number, packet_in_lld,
                     read_bank, arrived, data, base>>
      /\ UNCHANGED <<incoming_data, incoming_packet, incoming_tcount, status, link_status, notified, out>>
  BY <1>1, <1>2, <1>3 DEF AdvanceFree, nextVars, macVars
<1>5. ClientInv /\ TypeInv /\ WaitInv(u, w) /\ FillInv(f, w)
  BY DEF MemInv
<1>6. Owned' = Owned
  BY <1>4 DEF Owned
<1>7. ClientInv' /\ WaitInv(u, w)'
  BY <1>4, <1>5, <1>6 DEF ClientInv, WaitInv, Listed, InOrder, AllListed
<1>8. Freeing(bn) /\ header[r[bn]] # 0 /\ l \in Int
  <2>1. Freeing(bn) /\ header[r[bn]] # 0
    BY <1>1, <1>3, <1>4 DEF Freeing, BankInv, EndsLeft
  <2>2. PICK h, C, q, y : h = header /\ C = c[bn] /\ q = r[bn] /\ y = w[bn]
    OBVIOUS
  <2>3. Ring(bn, h, C, o, q, y) /\ l = h[o]
    BY <1>2, <1>3, <2>2
  <2>4. l \in Int
    BY <2>3, RingIs
  <2> QED BY <2>1, <2>4
<1>9. ASSUME NEW bm \in Bank, bm # bn, free_ptr'[bm] = free_ptr[bm]
      PROVE  BankInv(bm, c[bm], u[bm], f[bm], r[bm], w[bm])'
  <2>1. HeadsKept(c[bm]) /\ IncomingKept(bm) /\ OwnedKept(bm)
    BY <1>4, <1>6, NothingOfBank
  <2>2. PointersKept(bm)
    BY <1>4, <1>9 DEF PointersKept
  <2>3. PcKept(bm, f[bm], w[bm])
    BY <1>1, <1>4, <1>9 DEF PcKept, Advances, Freeing, Wrapping
  <2> QED BY <2>1, <2>2, <2>3, MemIs, BankKept
<1>10. CASE l > 0
  <2>1. pc' = "restart" /\ UNCHANGED free_ptr
    BY <1>4, <1>8, <1>10
  <2>2. Pointers(bn, o, r[bn], w[bn])' /\ OwnedAreHeld(bn, c[bn], r[bn], w[bn])'
    BY <1>3, <1>4, <1>6, <2>1 DEF BankInv, Pointers, OwnedAreHeld
  <2>3. EndsLeft(bn, o, r[bn], w[bn])'
    BY <1>4, <1>8, <2>1 DEF EndsLeft, Advances, Freeing
  <2>4. l \notin Freed /\ Oldest(bn, header, o) = o
    BY <1>2, <1>10, LengthsApart DEF Oldest
  <2>5. OldestInv(bn, o, w[bn])'
    BY <1>2, <1>3, <1>4, <2>4 DEF BankInv, OldestInv
  <2>6. BankInv(bn, c[bn], u[bn], f[bn], r[bn], w[bn])'
    BY <1>2, <1>3, <1>4, <2>2, <2>3, <2>5 DEF BankInv
  <2>7. \A bm \in Bank : BankInv(bm, c[bm], u[bm], f[bm], r[bm], w[bm])'
    BY <1>9, <2>1, <2>6
  <2>8. FillInv(f, w)' /\ TypeInv'
    BY <1>4, <1>5, <2>1 DEF FillInv, TypeInv
  <2>9. MemInv(c, u, f, r, w)'
    BY <1>7, <2>7, <2>8 DEF MemInv
  <2> QED BY <2>9
<1>11. CASE ~(l > 0)
  <2>1. /\ l <= 0 /\ pc' = "advance"
        /\ free_ptr' = [free_ptr EXCEPT ![bn] = IF l = 0 THEN First(bn) ELSE @ + RoundBytes(-l)]
    BY <1>4, <1>11
  <2>2. PICK y, D : y = (IF l = 0 THEN First(bn) ELSE o + RoundBytes(-l)) /\ D = c[bn] \ {o}
    OBVIOUS
  <2>3. /\ Ring(bn, header, D, y, r[bn], w[bn]) /\ (l = 0 \/ l \in Freed)
        /\ Unread(header, D, r[bn], w[bn]) = u[bn]
        /\ Held(header, D, r[bn], w[bn]) = Held(header, c[bn], r[bn], w[bn])
        /\ Fill(bn, o, w[bn]) => Fill(bn, y, w[bn])
        /\ l = 0 => header[y] # 0
    <3>1. PICK h, C, q, p : h = header /\ C = c[bn] /\ q = r[bn] /\ p = w[bn]
      OBVIOUS
    <3>2. /\ Ring(bn, h, C, o, q, p) /\ h[o] <= 0 /\ h[q] # 0 /\ D = C \ {o}
          /\ y = (IF h[o] = 0 THEN First(bn) ELSE o + RoundBytes(-h[o]))
      BY <1>2, <1>3, <1>8, <2>1, <2>2, <3>1
    <3>3. /\ Ring(bn, h, D, y, q, p) /\ (h[o] = 0 \/ h[o] \in Freed)
          /\ Unread(h, D, q, p) = Unread(h, C, q, p) /\ Held(h, D, q, p) = Held(h, C, q, p)
          /\ Fill(bn, o, p) => Fill(bn, y, p)
          /\ h[o] = 0 => h[y] # 0
      BY <3>2, RingAdvanced
    <3> QED BY <1>2, <1>3, <3>1, <3>3
  <2>4. y \in Nat /\ D \in SUBSET Nat
    <3>1. y \in Place(bn) /\ D \subseteq Place(bn)
      BY <2>3 DEF Ring
    <3> QED BY <3>1, PlaceIs
  <2>5. /\ free_ptr' \in [Bank -> Nat] /\ free_ptr'[bn] = y
        /\ \A bm \in Bank : bm # bn => free_ptr'[bm] = free_ptr[bm]
    <3>1. free_ptr' = [free_ptr EXCEPT ![bn] = y] /\ free_ptr \in [Bank -> Nat]
      BY <1>3, <1>5, <2>1, <2>2 DEF TypeInv
    <3> QED BY <2>4, <3>1
  <2>6. PICK d, x : d = [c EXCEPT ![bn] = D] /\ x = [f EXCEPT ![bn] = y]
    OBVIOUS
  <2>7. /\ d \in [Bank -> SUBSET Nat] /\ x \in [Bank -> Nat] /\ d[bn] = D /\ x[bn] = y
        /\ \A bm \in Bank : bm # bn => d[bm] = c[bm] /\ x[bm] = f[bm]
    <3>1. c \in [Bank -> SUBSET Nat] /\ f \in [Bank -> Nat]
      BY DEF MemInv
    <3> QED BY <2>4, <2>6, <3>1
  <2>8. BankInv(bn, D, u[bn], y, r[bn], w[bn])'
    <3>1. Ring(bn, header, D, y, r[bn], w[bn])' /\ Pointers(bn, y, r[bn], w[bn])'
      BY <1>3, <1>4, <2>3, <2>5 DEF BankInv, Pointers
    <3>2. OwnedAreHeld(bn, D, r[bn], w[bn])'
      BY <1>3, <1>4, <1>6, <2>3 DEF BankInv, OwnedAreHeld
    <3>3. EndsLeft(bn, y, r[bn], w[bn])'
      BY <1>4, <1>8, <2>1 DEF EndsLeft, Advances
    <3>4. OldestInv(bn, y, w[bn])'
      <4>1. Freeing(bn)'
        BY <1>1, <1>4, <2>1 DEF Freeing
      <4>2. ASSUME NEW a \in Place(bn), incoming_data = a + 4
            PROVE  a = Oldest(bn, header, y) /\ y = First(bn)
        <5>1. a = Oldest(bn, header, o)
          BY <1>3, <4>2 DEF BankInv, OldestInv
        <5>2. a + 4 \in Owned
          BY <4>2, PlaceIs DEF Owned
        <5>3. header[a] \in Lengths
          BY <1>3, <5>2 DEF BankInv, OwnedAreHeld, Held
        <5>4. l = 0
          <6>1. SUFFICES ASSUME l # 0 PROVE FALSE
            OBVIOUS
          <6>2. a = o /\ l \in Lengths
            BY <1>2, <5>1, <5>3, <6>1 DEF Oldest
          <6> QED BY <1>8, <1>11, <6>2, LengthsApart
        <5>5. y = First(bn) /\ header[y] # 0 /\ a = First(bn)
          BY <1>2, <2>2, <2>3, <5>1, <5>4 DEF Oldest
        <5> QED BY <5>5 DEF Oldest
      <4> QED BY <1>4, <4>1, <4>2 DEF OldestInv
    <3>5. u[bn] = Unread(header', D, r[bn], w[bn])
      BY <1>4, <2>3
    <3> QED BY <1>4, <3>1, <3>2, <3>3, <3>4, <3>5 DEF BankInv
  <2>9. ASSUME NEW bm \in Bank PROVE BankInv(bm, d[bm], u[bm], x[bm], r[bm], w[bm])'
    <3>1. CASE bm = bn
      BY <2>7, <2>8, <3>1
    <3>2. CASE bm # bn
      <4>1. BankInv(bm, c[bm], u[bm], f[bm], r[bm], w[bm])'
        BY <1>9, <2>5, <3>2
      <4> QED BY <2>7, <3>2, <4>1
    <3> QED BY <3>1, <3>2
  <2>10. FillInv(x, w)'
    <3>1. \A bm \in Bank : Fill(bm, f[bm], w[bm]) => Fill(bm, x[bm], w[bm])
      BY <1>2, <2>3, <2>7
    <3>2. \A bm \in Bank : 1 - bm \in Bank
      BY DEF Bank
    <3> QED BY <1>4, <1>5, <3>1, <3>2 DEF FillInv
  <2>11. TypeInv'
    BY <1>4, <1>5, <2>5 DEF TypeInv
  <2>12. MemInv(d, u, x, r, w)'
    BY <1>7, <2>7, <2>9, <2>10, <2>11 DEF MemInv
  <2> QED BY <2>12
<1> QED BY <1>10, <1>11

----------------------------------------------------------------------------
(* mii_lite_restart_buffer.                                                *)

\* The heads after it has gone round from j.
LEMMA RoundHeads ==
    ASSUME NEW h, NEW v, NEW j, j # v, NEW g, g = SetWord(SetWord(h, v, 1), j, 0)
    PROVE  /\ j \in DOMAIN g /\ g[j] = 0 /\ v \in DOMAIN g /\ g[v] = 1
           /\ \A a : a # j /\ a # v => SameHead(h, g, a)
<1>1. PICK d : d = SetWord(h, v, 1)
  OBVIOUS
<1>2. v \in DOMAIN d /\ d[v] = 1 /\ \A a : a # v => SameHead(h, d, a)
  BY <1>1, SetWordIs
<1>3. j \in DOMAIN g /\ g[j] = 0 /\ \A a : a # j => SameHead(d, g, a)
  BY <1>1, SetWordIs
<1>4. v \in DOMAIN g /\ g[v] = 1
  BY <1>2, <1>3 DEF SameHead
<1>5. ASSUME NEW a, a # j, a # v PROVE SameHead(h, g, a)
  <2>1. SameHead(h, d, a) /\ SameHead(d, g, a)
    BY <1>2, <1>3, <1>5
  <2> QED BY <2>1, SameHeads
<1> QED BY <1>3, <1>4, <1>5

\* The bank that mii_lite_restart_buffer has gone round.
LEMMA RestartBankInv ==
    ASSUME BuffersFit, NEW bn \in Bank, NEW C, NEW U, NEW f, NEW r, NEW w, BankInv(bn, C, U, f, r, w),
           w + 4 > LastSafe(bn), NEW v, v = First(bn), f # v,
           w \in DOMAIN header', header'[w] = 0, v \in DOMAIN header', header'[v] = 1,
           \A a \in C \ {w} : SameHead(header, header', a), NEW D, D = C \cup {v},
           wr_ptr'[bn] = v + 4, UNCHANGED <<free_ptr, read_ptr, incoming_data>>,
           Owned' = Owned, Owned \subseteq {incoming_data}, pc = "restart", pc' = "select"
    PROVE  /\ BankInv(bn, D, U, f, r, v)'
           /\ \A a, b \in U : Older(a, b, w) => Older(a, b, v)
<1>1. PICK h, g : h = header /\ g = header'
  OBVIOUS
<1>2. /\ Ring(bn, h, C, f, r, w) /\ U = Unread(h, C, r, w)
      /\ w \in DOMAIN g /\ g[w] = 0 /\ v \in DOMAIN g /\ g[v] = 1
      /\ \A a \in C \ {w} : SameHead(h, g, a)
  BY <1>1 DEF BankInv
<1>3. /\ Moved(bn, h, g, C, D, f, r, w, v) /\ Unread(g, D, r, v) = Unread(h, C, r, w)
      /\ \A a \in C : f <= a /\ a <= w
  BY <1>2, RestartRound
<1>4. /\ f \in C /\ r \in C /\ w \in C /\ f \in Int /\ r \in Int /\ w \in Int
      /\ v \in Int /\ v + 4 <= LastSafe(bn) /\ LastSafe(bn) \in Int
      /\ f \in Place(bn) /\ f \in DOMAIN h /\ r \in DOMAIN h
  BY <1>2, RingIs
<1>5. Pointers(bn, f, r, v)' /\ OwnedAreHeld(bn, D, r, v)'
  BY <1>1, <1>3 DEF BankInv, Pointers, OwnedAreHeld, Moved
<1>6. \A a \in Place(bn) : incoming_data # a + 4 /\ a + 4 \notin Owned
  BY DEF BankInv, OldestInv
<1>7. ASSUME f # w PROVE h[f] \in Lengths /\ h[f] # 0 /\ ~Older(f, r, w)
  <2>1. HeadIs(bn, h, C, r, w, f)
    BY <1>2, <1>4, <1>7 DEF Ring
  <2>2. h[f] # 0
    BY <1>3, <1>4, <2>1, LengthsApart DEF HeadIs, TailAt
  <2>3. h[f] \notin Freed
    BY <1>1, <2>2 DEF BankInv, OldestInv, Freeing, Oldest
  <2>4. h[f] \in Lengths
    BY <2>1, <2>2, <2>3 DEF HeadIs
  <2>5. ~Older(f, r, w)
    BY <1>1, <1>4, <1>6, <2>4 DEF BankInv, OwnedAreHeld, Held
  <2> QED BY <2>2, <2>4, <2>5
<1>8. r = w => f = w
  BY <1>3, <1>4, <1>7 DEF Older
<1>9. EndsLeft(bn, f, r, v)'
  <2>1. g[r] = 0 => f = r
    <3>1. CASE r = w
      BY <1>8, <3>1
    <3>2. CASE r # w
      <4>1. g[r] = h[r]
        BY <1>2, <1>4, <3>2 DEF SameHead
      <4> QED BY <1>1, <4>1 DEF BankInv, EndsLeft, Wrapping
    <3> QED BY <3>1, <3>2
  <2> QED BY <1>1, <1>4, <2>1 DEF EndsLeft, Freeing
<1>10. OldestInv(bn, f, v)'
  <2>1. g[Oldest(bn, g, f)] \notin Freed
    <3>1. CASE f = w
      BY <1>2, <3>1, LengthsApart DEF Oldest
    <3>2. CASE f # w
      <4>1. g[f] = h[f]
        BY <1>2, <1>4, <3>2 DEF SameHead
      <4>2. \A l \in Lengths : l \notin Freed
        BY LengthsApart
      <4> QED BY <1>7, <3>2, <4>1, <4>2 DEF Oldest
    <3> QED BY <3>1, <3>2
  <2> QED BY <1>1, <1>6, <2>1 DEF OldestInv
<1> QED BY <1>1, <1>2, <1>3, <1>5, <1>9, <1>10 DEF BankInv, Moved

\* It keeps the invariant.
LEMMA RestartKeeps ==
    ASSUME BuffersFit, NEW c, NEW u, NEW f, NEW r, NEW w, MemInv(c, u, f, r, w), UNCHANGED <<macVars, out>>,
           Restart
    PROVE  \E d, x : MemInv(d, u, f, r, x)'
<1>1. /\ pc = "restart" /\ pc' = "select" /\ base' = None
      /\ UNCHANGED <<free_ptr, read_ptr, packet_in_lld, read_bank, arrived, data>>
      /\ UNCHANGED <<incoming_data, incoming_packet, incoming_tcount, status, link_status, notified, out>>
  BY DEF Restart, macVars
<1>2. ClientInv /\ TypeInv /\ WaitInv(u, w) /\ data = None /\ w \in [Bank -> Nat]
  BY <1>1 DEF MemInv, ClientInv
<1>3. Owned' = Owned /\ Owned \subseteq {incoming_data}
  BY <1>1, <1>2 DEF Owned
<1>4. ClientInv'
  BY <1>1, <1>2, <1>3 DEF ClientInv
<1>5. PICK bl \in Bank :
        /\ packet_in_lld = wr_ptr[bl] /\ Fill(bl, f[bl], w[bl])
        /\ \/ next_buffer = wr_ptr[1 - bl] /\ Fill(1 - bl, f[1 - bl], w[1 - bl])
           \/ next_buffer = None /\ refill_bank_number = 1 - bl
        /\ 1 - bl \in Bank /\ 1 - (1 - bl) = bl
  BY DriverIs
<1>6. ASSUME NEW bm \in Bank, HeadsKept(c[bm]), wr_ptr'[bm] = wr_ptr[bm],
             w[bm] + 4 > LastSafe(bm) => f[bm] = First(bm)
      PROVE  BankInv(bm, c[bm], u[bm], f[bm], r[bm], w[bm])'
  <2>1. IncomingKept(bm) /\ OwnedKept(bm)
    BY <1>1, <1>3, NothingOfBank
  <2>2. PointersKept(bm)
    BY <1>1, <1>6 DEF PointersKept
  <2>3. PcKept(bm, f[bm], w[bm])
    BY <1>1, <1>6 DEF PcKept, Freeing, Wrapping
  <2> QED BY <1>6, <2>1, <2>2, <2>3, MemIs, BankKept
<1>7. \A bm \in Bank : Fill(bm, f[bm], w[bm]) => ~(w[bm] + 4 > LastSafe(bm))
  <2>1. \A bm \in Bank : w[bm] \in Nat /\ LastSafe(bm) \in Int
    <3>1. \A bm \in Bank : End(bm) \in Int /\ LastSafe(bm) = End(bm) - MaxPacket
      BY BankIs
    <3> QED BY <3>1, MemIs, MiiLiteAssumption
  <2> QED BY <2>1 DEF Fill
<1>8. CASE next_buffer # None
  <2>1. UNCHANGED <<header, wr_ptr, next_buffer, refill_bank_number>>
    BY <1>8 DEF Restart, nextVars
  <2>2. \A bm \in Bank : Fill(bm, f[bm], w[bm])
    BY <1>5, <1>8 DEF Bank
  <2>3. \A bm \in Bank : BankInv(bm, c[bm], u[bm], f[bm], r[bm], w[bm])'
    BY <1>6, <1>7, <2>1, <2>2, NothingOfBank
  <2>4. FillInv(f, w)' /\ WaitInv(u, w)'
    BY <1>1, <2>1 DEF MemInv, FillInv, WaitInv, Listed, InOrder, AllListed
  <2>5. TypeInv'
    BY <1>1, <1>2, <2>1 DEF TypeInv
  <2>6. MemInv(c, u, f, r, w)'
    BY <1>4, <2>3, <2>4, <2>5 DEF MemInv
  <2> QED BY <2>6
<1>9. CASE next_buffer = None
  <2>1. PICK bn \in Bank : bn = refill_bank_number
    BY <1>2 DEF TypeInv
  <2>2. bn = 1 - bl /\ bl = 1 - bn /\ bl # bn /\ \A bm \in Bank : bm # bn => bm = bl
    <3>1. \A bm \in Bank : wr_ptr[bm] # None
      BY <1>2 DEF TypeInv, None
    <3>2. bn = 1 - bl
      BY <1>5, <1>9, <2>1, <3>1
    <3> QED BY <3>2 DEF Bank
  <2>3. PICK k, o : k = w[bn] /\ o = f[bn]
    OBVIOUS
  <2>4. /\ BankInv(bn, c[bn], u[bn], o, r[bn], k) /\ o \in Place(bn) /\ k \in Place(bn) /\ k \in Nat
        /\ free_ptr[bn] = o /\ wr_ptr[bn] = k + 4 /\ c[bn] \subseteq Place(bn)
    BY <2>3, MemIs
  <2>5. PICK p : p = NextPlace(bn, wr_ptr[bn], header)
    OBVIOUS
  <2>6. PICK v : Goes(bn, header, o, k, v, p)
    BY <2>4, <2>5, NextPlaceGoes
  <2>7. Continue(bn, p) /\ header' = p.header
    BY <1>9, <2>1, <2>5 DEF Restart, Continue
  <2>8. /\ v \in Place(bn) /\ v \in Nat /\ p.wr = v + 4
        /\ p.next = None \/ (p.next = p.wr /\ Fill(bn, o, v))
    BY <2>6, PlaceIs DEF Goes
  <2>9. PICK D : D = c[bn] \cup {v}
    OBVIOUS
  <2>10. PICK d, x : d = [c EXCEPT ![bn] = D] /\ x = [w EXCEPT ![bn] = v]
    OBVIOUS
  <2>11. /\ d \in [Bank -> SUBSET Nat] /\ x \in [Bank -> Nat] /\ d[bn] = D /\ x[bn] = v
         /\ d[bl] = c[bl] /\ x[bl] = w[bl]
    <3>1. c \in [Bank -> SUBSET Nat] /\ D \in SUBSET Nat
      BY <2>8, <2>9 DEF MemInv
    <3> QED BY <1>2, <2>2, <2>8, <2>10, <3>1
  <2>12. wr_ptr' \in [Bank -> Nat] /\ wr_ptr'[bn] = v + 4 /\ wr_ptr'[bl] = wr_ptr[bl]
    <3>1. wr_ptr' = [wr_ptr EXCEPT ![bn] = p.wr] /\ wr_ptr \in [Bank -> Nat]
      BY <1>2, <2>7 DEF Continue, TypeInv
    <3>2. p.wr \in Nat /\ p.wr = v + 4
      BY <2>8
    <3> QED BY <2>2, <3>1, <3>2
  <2>13. /\ \A a, b \in u[bn] : Older(a, b, k) => Older(a, b, v)
         /\ BankInv(bn, D, u[bn], o, r[bn], v)' /\ HeadsKept(c[bl])
    <3>1. CASE v = k /\ (k + 4 > LastSafe(bn) => o = First(bn)) /\ p.header = SetWord(header, k, 1)
      <4>1. \A a : SameHead(header, header', a)
        <5>1. header[k] = 1
          BY <2>4 DEF BankInv, Ring
        <5> QED BY <2>7, <3>1, <5>1, SetWordIs DEF SameHead
      <4>2. \A bm \in Bank : HeadsKept(c[bm])
        BY <4>1 DEF HeadsKept
      <4>3. BankInv(bn, c[bn], u[bn], f[bn], r[bn], w[bn])'
        BY <1>6, <2>3, <2>4, <2>12, <3>1, <4>2
      <4>4. D = c[bn]
        BY <2>4, <2>9, <3>1 DEF BankInv, Ring
      <4> QED BY <2>3, <3>1, <4>2, <4>3, <4>4
    <3>2. CASE /\ v = First(bn) /\ k + 4 > LastSafe(bn) /\ o # First(bn)
               /\ p.header = SetWord(SetWord(header, First(bn), 1), k, 0)
      <4>1. k # v
        <5>1. First(bn) + 4 <= LastSafe(bn) /\ LastSafe(bn) \in Int /\ First(bn) \in Int
          BY BankIs, MiiLiteAssumption
        <5> QED BY <3>2, <5>1
      <4>2. /\ k \in DOMAIN header' /\ header'[k] = 0 /\ v \in DOMAIN header' /\ header'[v] = 1
            /\ \A a : a # k /\ a # v => SameHead(header, header', a)
        BY <2>7, <3>2, <4>1, RoundHeads
      <4>3. \A a \in c[bn] \ {k} : SameHead(header, header', a)
        <5>1. v \notin c[bn]
          <6>1. PICK h, C, q : h = header /\ C = c[bn] /\ q = r[bn]
            OBVIOUS
          <6>2. Ring(bn, h, C, o, q, k)
            BY <2>4, <6>1 DEF BankInv
          <6>3. \A a \in C : a \in Int /\ First(bn) <= a /\ ~Older(a, o, k)
            BY <6>2, RingIs DEF Ring
          <6>4. o \in C /\ k \in C /\ (k < o => k + 4 <= LastSafe(bn)) /\ LastSafe(bn) \in Int
            BY <6>2, RingIs DEF Ring
          <6> QED BY <3>2, <6>1, <6>3, <6>4 DEF Older
        <5> QED BY <4>2, <5>1
      <4>4. BankInv(bn, D, u[bn], o, r[bn], v)' /\ \A a, b \in u[bn] : Older(a, b, k) => Older(a, b, v)
        BY <1>1, <1>3, <2>4, <2>9, <2>12, <3>2, <4>2, <4>3, RestartBankInv
      <4>5. HeadsKept(c[bl])
        <5>1. \A a \in c[bl] : a # k /\ a # v
          BY <2>2, <2>4, <2>8, MemIs, PlaceIs
        <5> QED BY <4>2, <5>1 DEF HeadsKept
      <4> QED BY <4>4, <4>5
    <3> QED BY <2>6, <3>1, <3>2 DEF Goes
  <2>14. ASSUME NEW bm \in Bank PROVE BankInv(bm, d[bm], u[bm], f[bm], r[bm], x[bm])'
    <3>1. BankInv(bl, c[bl], u[bl], f[bl], r[bl], w[bl])'
      BY <1>5, <1>6, <1>7, <2>12, <2>13
    <3>2. CASE bm = bn
      BY <2>3, <2>11, <2>13, <3>2
    <3>3. CASE bm = bl
      BY <2>11, <3>1, <3>3
    <3> QED BY <2>2, <3>2, <3>3
  <2>15. FillInv(f, x)' /\ refill_bank_number' \in Bank
    <3>1. packet_in_lld' = wr_ptr'[bl] /\ Fill(bl, f[bl], x[bl])
      BY <1>1, <1>5, <2>11, <2>12
    <3>2. CASE p.next = None
      BY <2>2, <2>7, <3>1, <3>2 DEF Continue, FillInv
    <3>3. CASE p.next # None
      <4>1. next_buffer' = wr_ptr'[1 - bl] /\ Fill(1 - bl, f[1 - bl], x[1 - bl]) /\ refill_bank_number' = bn
        BY <2>1, <2>2, <2>3, <2>7, <2>8, <2>11, <2>12, <3>3 DEF Continue
      <4> QED BY <3>1, <4>1 DEF FillInv
    <3> QED BY <3>2, <3>3
  <2>16. WaitInv(u, x)'
    <3>1. \A bm \in Bank : \A a, b \in u[bm] : Older(a, b, w[bm]) => Older(a, b, x[bm])
      BY <2>2, <2>3, <2>11, <2>13
    <3> QED BY <1>1, <1>2, <3>1, WaitMoves
  <2>17. TypeInv'
    BY <1>1, <1>2, <2>12, <2>15 DEF TypeInv
  <2>18. MemInv(d, u, f, r, x)'
    BY <1>4, <2>11, <2>14, <2>15, <2>16, <2>17 DEF MemInv
  <2> QED BY <2>18
<1> QED BY <1>8, <1>9

----------------------------------------------------------------------------
(* Every step.                                                             *)

\* Every step keeps the invariant, unless the writer goes round a second time.
LEMMA MemStep ==
    ASSUME BuffersFit, IInv, [Next]_vars, [NoSecondWrap]_vars
    PROVE  IInv'
<1>1. PICK c, u, f, r, w : MemInv(c, u, f, r, w)
  BY DEF IInv
<1>2. CASE UNCHANGED vars
  <2>1. UNCHANGED <<header, free_ptr, wr_ptr, read_ptr, next_buffer, refill_bank_number, packet_in_lld,
                    read_bank, arrived, pc, data, base, incoming_data, incoming_tcount,
                    incoming_packet, status, link_status, notified, out>>
    BY <1>2 DEF vars, liteVars, macVars, bankVars, nextVars
  <2>2. MemoryKept /\ Owned' = Owned
    BY <2>1 DEF MemoryKept, Owned
  <2>3. ClientInv' /\ TypeInv'
    BY <1>1, <2>1, <2>2 DEF MemInv, ClientInv, TypeInv
  <2>4. MemInv(c, u, f, r, w)'
    BY <1>1, <2>1, <2>2, <2>3, MemKept
  <2> QED BY <2>4 DEF IInv
<1>3. ASSUME NEW n \in Lengths, Overrun(n) \/ Commit(n) \/ DropFull(n) \/ Reject(n), UNCHANGED <<macVars, out>>
      PROVE  IInv'
  <2>1. CASE Commit(n)
    <3>1. NoSecondWrap
      <4>1. read_bank' # read_bank
        <5>1. read_bank \in Seq(Bank) /\ \E bn \in Bank : read_bank' = Append(read_bank, bn)
          BY <1>1, <2>1 DEF Commit, Log, BankOf, Bank, MemInv, TypeInv
        <5>2. Len(read_bank') = Len(read_bank) + 1 /\ Len(read_bank) \in Nat
          BY <5>1, AppendIs
        <5> QED BY <5>2
      <4> QED BY <4>1 DEF vars, liteVars
    <3>2. \E d, t, x : MemInv(d, t, f, r, x)'
      BY <1>1, <1>3, <2>1, <3>1, CommitKeeps
    <3> QED BY <3>2 DEF IInv
  <2>2. CASE Overrun(n) \/ DropFull(n) \/ Reject(n)
    <3>1. MemInv(c, u, f, r, w)'
      BY <1>1, <1>3, <2>2, RefillKeeps
    <3> QED BY <3>1 DEF IInv
  <2> QED BY <1>3, <2>1, <2>2
<1>4. CASE LiteStep /\ UNCHANGED <<macVars, out>>
  <2>1. CASE GetNothing \/ More \/ NotifyMore
    <3>1. MemInv(c, u, f, r, w)'
      BY <1>1, <1>4, <2>1, LiteKeeps
    <3> QED BY <3>1 DEF IInv
  <2>2. CASE GetOldest
    <3>1. \E t, x : MemInv(c, t, f, x, w)'
      BY <1>1, <1>4, <2>2, TakeKeeps
    <3> QED BY <3>1 DEF IInv
  <2>3. CASE WrapRead
    <3>1. \E x : MemInv(c, u, f, x, w)'
      BY <1>1, <1>4, <2>3, WrapKeeps
    <3> QED BY <3>1 DEF IInv
  <2>4. CASE Negate
    <3>1. MemInv(c, u, f, r, w)'
      BY <1>1, <1>4, <2>4, NegateKeeps
    <3> QED BY <3>1 DEF IInv
  <2>5. CASE AdvanceFree
    <3>1. \E d, x : MemInv(d, u, x, r, w)'
      BY <1>1, <1>4, <2>5, AdvanceKeeps
    <3> QED BY <3>1 DEF IInv
  <2>6. CASE Restart
    <3>1. \E d, x : MemInv(d, u, f, r, x)'
      BY <1>1, <1>4, <2>6, RestartKeeps
    <3> QED BY <3>1 DEF IInv
  <2> QED BY <1>4, <2>1, <2>2, <2>3, <2>4, <2>5, <2>6 DEF LiteStep
<1>5. CASE \/ IncomingPacket \/ SetLinkState \/ \E m \in Reported : SetStatus(m)
           \/ SendPacket \/ Timestamp \/ RequestNext \/ PacketSent
           \/ DropIncoming \/ NoIncoming \/ \E wanted \in SUBSET Clients : SendToClients(wanted)
           \/ \E m \in Clients : GetPacket(m)
  <2>1. MemInv(c, u, f, r, w)'
    BY <1>1, <1>5, MacKeeps
  <2> QED BY <2>1 DEF IInv
<1> QED BY <1>2, <1>3, <1>4, <1>5 DEF Next, Continues, Interrupt

\* The memory is as the invariant says, whatever the interrupt handler, the
\* client and the clients of the MAC do, and whatever the lengths of packets,
\* as long as the writer does not go round a second time.
THEOREM MemoryInvariance ==
    ASSUME BuffersFit
    PROVE  Spec /\ [][NoSecondWrap]_vars => []IInv
<1>1. Init => IInv
  <2>1. SUFFICES ASSUME Init PROVE IInv
    OBVIOUS
  <2>2. PICK z, c, u : /\ z = [bn \in Bank |-> First(bn)] /\ c = [bn \in Bank |-> {First(bn)}]
                       /\ u = [bn \in Bank |-> {}]
    OBVIOUS
  <2>3. MemInv(c, u, z, z, z)
    BY <2>1, <2>2, InitMemInv
  <2> QED BY <2>3 DEF IInv
<1>2. IInv /\ [Next]_vars /\ [NoSecondWrap]_vars => IInv'
  BY MemStep
<1> QED BY <1>1, <1>2, PTL DEF Spec

----------------------------------------------------------------------------
(* What the invariant gives.                                               *)

\* The types follow from the two invariants.
LEMMA TypeFollows ==
    ASSUME BuffersFit, IInv, NotifyInv
    PROVE  TypeOK
<1>1. PICK c, u, f, r, w : MemInv(c, u, f, r, w)
  BY DEF IInv
<1>2. ClientInv /\ TypeInv
  BY <1>1 DEF MemInv
<1>3. ASSUME NEW bn \in Bank
      PROVE  /\ {free_ptr[bn], read_ptr[bn], wr_ptr[bn] - 4} \subseteq DOMAIN header
             /\ wr_ptr[bn] > First(bn) /\ BankOf(wr_ptr[bn]) = bn
  <2>1. /\ Ring(bn, header, c[bn], f[bn], r[bn], w[bn]) /\ w[bn] \in Place(bn)
        /\ free_ptr[bn] = f[bn] /\ read_ptr[bn] = r[bn] /\ wr_ptr[bn] = w[bn] + 4
    BY <1>1, MemIs
  <2>2. /\ w[bn] \in Nat /\ First(bn) <= w[bn] /\ First(bn) \in Nat /\ BankOf(w[bn] + 4) = bn
        /\ (w[bn] + 4) - 4 = w[bn]
    BY <2>1, PlaceIs, BankIs
  <2>3. {f[bn], r[bn], w[bn]} \subseteq DOMAIN header
    BY <2>1 DEF Ring
  <2> QED BY <2>1, <2>2, <2>3
<1>4. next_buffer \in {None, wr_ptr[0], wr_ptr[1]} /\ packet_in_lld \in {wr_ptr[0], wr_ptr[1]}
  BY <1>1 DEF MemInv, FillInv, Bank
<1>5. incoming_data \in Nat \cup {None}
  <2>1. SUFFICES ASSUME incoming_data # None PROVE incoming_data \in Nat
    OBVIOUS
  <2>2. PICK bn \in Bank : \E a \in Place(bn) : incoming_data = a + 4
    BY <1>2, <2>1 DEF ClientInv, Owned
  <2> QED BY <2>2, PlaceIs
<1>6. Lite \/ pc \in {"select", "timestamp", "sent"}
  BY <1>2 DEF TypeInv, Lite
<1>7. out \in {"idle", "given", "sending", "done"}
  BY <1>2 DEF ClientInv
<1> QED BY <1>2, <1>3, <1>4, <1>5, <1>6, <1>7 DEF TypeOK, HeadersKept, TypeInv, ClientInv, NotifyInv

\* The packet at k of bank bn is whole, up to the next head.
Whole(bn, k, C, w) ==
    k \in C /\ k # w /\ header[k] \in Lengths /\ PacketAt(bn, C, header[k], k)

\* A packet that waits, is held or has not been freed is.
LEMMA InUseIs ==
    ASSUME BuffersFit, NEW c, NEW u, NEW f, NEW r, NEW w, MemInv(c, u, f, r, w), NEW a \in InUse
    PROVE  \E bn \in Bank : \E k \in Place(bn) : a = k + 4 /\ Whole(bn, k, c[bn], w[bn])
<1>1. InUse = {arrived[n] : n \in 1 .. Len(arrived)} \cup Owned
  BY DEF InUse, Owned
<1>2. ASSUME NEW bn \in Bank, NEW k, k \in u[bn] \/ k \in Held(header, c[bn], r[bn], w[bn])
      PROVE  Whole(bn, k, c[bn], w[bn])
  <2>1. PICK h, C, o, q, y : h = header /\ C = c[bn] /\ o = f[bn] /\ q = r[bn] /\ y = w[bn]
    OBVIOUS
  <2>2. Ring(bn, h, C, o, q, y) /\ (k \in Unread(h, C, q, y) \/ k \in Held(h, C, q, y))
    BY <1>2, <2>1, MemIs DEF BankInv
  <2>3. h[y] = 1 /\ 1 \notin Lengths /\ k \in C
    BY <2>2, LengthsApart DEF Ring, Unread, Held
  <2>4. k # y /\ h[k] # 0 /\ HeadIs(bn, h, C, q, y, k) /\ (h[k] \in Lengths \/ ~Older(k, q, y))
    <3>1. 0 \notin Lengths
      BY LengthsApart
    <3> QED BY <2>2, <2>3, <3>1 DEF Ring, Unread, Held
  <2>5. h[k] \in Lengths /\ PacketAt(bn, C, h[k], k)
    <3>1. h[k] \in Lengths
      BY <2>4 DEF HeadIs
    <3>2. h[k] \notin Freed
      BY <3>1, LengthsApart
    <3> QED BY <2>4, <3>1, <3>2 DEF HeadIs
  <2> QED BY <2>1, <2>3, <2>4, <2>5 DEF Whole
<1>3. CASE a \in {arrived[n] : n \in 1 .. Len(arrived)}
  <2>1. PICK n \in 1 .. Len(arrived) : a = arrived[n]
    BY <1>3
  <2>2. WaitInv(u, w) /\ TypeInv
    BY DEF MemInv
  <2>3. PICK bn \in Bank : bn = read_bank[n]
    BY <2>1, <2>2 DEF WaitInv, TypeInv
  <2>4. PICK k \in u[bn] : a = k + 4
    BY <2>1, <2>2, <2>3 DEF WaitInv, Listed
  <2>5. k \in Place(bn)
    BY <2>4, MemIs
  <2> QED BY <1>2, <2>4, <2>5
<1>4. CASE a \in Owned
  <2>1. PICK bn \in Bank : \E k \in Place(bn) : a = k + 4
    BY <1>4 DEF MemInv, ClientInv
  <2>2. PICK k \in Place(bn) : a = k + 4
    BY <2>1
  <2>3. k \in Held(header, c[bn], r[bn], w[bn])
    BY <1>4, <2>2, MemIs DEF BankInv, OwnedAreHeld
  <2> QED BY <1>2, <2>2, <2>3
<1> QED BY <1>1, <1>3, <1>4

\* What the driver may write of a packet of n bytes is clear of one in use.
LEMMA FillClear ==
    ASSUME BuffersFit, NEW c, NEW u, NEW f, NEW r, NEW w, MemInv(c, u, f, r, w),
           NEW bn \in Bank, Fill(bn, f[bn], w[bn]), NEW n \in Lengths,
           NEW bm \in Bank, NEW k \in Place(bm), Whole(bm, k, c[bm], w[bm])
    PROVE  w[bn] + 4 + Written(n) <= k \/ k + Size(header[k]) <= w[bn]
           \/ (bm # bn /\ k + Size(header[k]) <= w[bn] + 4)
<1>1. PICK y, o, l : y = w[bn] /\ o = f[bn] /\ l = header[k]
  OBVIOUS
<1>2. /\ y \in Place(bn) /\ o \in Place(bn) /\ y \in Nat /\ o \in Nat /\ Fill(bn, o, y)
      /\ k \in Nat /\ l \in Lengths /\ k + Size(l) \in c[bm] /\ c[bm] \subseteq Place(bm)
      /\ y \in c[bn] /\ k \in c[bm] /\ \A a \in c[bm] : a <= k \/ k + Size(l) <= a
  BY <1>1, MemIs, PlaceIs DEF Whole, PacketAt, Ring
<1>3. /\ Size(l) \in Nat /\ Written(n) \in Nat /\ (o <= y \/ y + 4 + Written(n) <= o)
      /\ y + 4 + Written(n) <= End(bn)
  <2>1. y + 4 <= LastSafe(bn)
    BY <1>2 DEF Fill
  <2> QED BY <1>2, <2>1, SizeIs, FillIs, AfterIs
<1>4. CASE bm = bn
  <2>1. k # y /\ ~Older(k, o, y)
    BY <1>1, <1>2, <1>4, MemIs DEF Whole, Ring
  <2>2. CASE k < y
    <3>1. y <= k \/ k + Size(l) <= y
      BY <1>2, <1>4
    <3> QED BY <1>1, <1>2, <1>3, <2>2, <3>1
  <2>3. CASE y < k
    <3>1. y < o /\ o <= k
      BY <1>2, <2>1, <2>3 DEF Older
    <3> QED BY <1>1, <1>2, <1>3, <3>1
  <2> QED BY <1>2, <2>1, <2>2, <2>3
<1>5. CASE bm # bn
  <2>1. /\ First(bn) <= y /\ First(bm) <= k /\ k + Size(l) + 8 <= End(bm)
        /\ First(bn) \in Nat /\ First(bm) \in Nat /\ End(bn) \in Int /\ End(bm) \in Int /\ End(0) = First(1)
    BY <1>2, PlaceIs, BankIs
  <2>2. (bn = 0 /\ bm = 1) \/ (bn = 1 /\ bm = 0)
    BY <1>5 DEF Bank
  <2>3. y + 4 + Written(n) <= k \/ k + Size(l) <= y + 4
    BY <1>2, <1>3, <2>1, <2>2
  <2> QED BY <1>1, <1>5, <2>3
<1> QED BY <1>4, <1>5

\* So the buffers of the driver are clear.
LEMMA ClearFollows ==
    ASSUME BuffersFit, IInv
    PROVE  BuffersClear
<1>1. PICK c, u, f, r, w : MemInv(c, u, f, r, w)
  BY DEF IInv
<1>2. PICK bn \in Bank :
        /\ packet_in_lld = w[bn] + 4 /\ Fill(bn, f[bn], w[bn])
        /\ \/ next_buffer = wr_ptr[1 - bn] /\ Fill(1 - bn, f[1 - bn], w[1 - bn])
           \/ next_buffer = None
        /\ 1 - bn \in Bank
  BY <1>1, DriverIs
<1>3. /\ wr_ptr[1 - bn] = w[1 - bn] + 4 /\ BankOf(wr_ptr[1 - bn]) = 1 - bn
      /\ BankOf(packet_in_lld) = bn /\ packet_in_lld # None /\ bn # 1 - bn
  BY <1>1, <1>2, MemIs, PlaceIs
<1>4. next_buffer # packet_in_lld
  BY <1>2, <1>3
<1>5. ASSUME NEW b \in {packet_in_lld, next_buffer} \ {None}, NEW a \in InUse
      PROVE  BufferBytes(b) \cap PacketBytes(a, header[a - 4]) = {}
  <2>1. PICK bl \in Bank : b = w[bl] + 4 /\ Fill(bl, f[bl], w[bl])
    BY <1>2, <1>3, <1>5
  <2>2. PICK bm \in Bank : \E k \in Place(bm) : a = k + 4 /\ Whole(bm, k, c[bm], w[bm])
    BY <1>1, <1>5, InUseIs
  <2>3. PICK k \in Place(bm) : a = k + 4 /\ Whole(bm, k, c[bm], w[bm])
    BY <2>2
  <2>4. PICK y, l : y = w[bl] /\ l = header[k]
    OBVIOUS
  <2>5. /\ a - 4 = k /\ k \in Nat /\ y \in Nat /\ l \in Lengths /\ Size(l) \in Nat
        /\ Words(l) = Size(l) - 4
    BY <1>1, <2>1, <2>3, <2>4, PlaceIs, MemIs, SizeIs DEF Whole
  <2>6. PacketBytes(a, header[a - 4]) = k .. k + Size(l) - 1
    BY <2>3, <2>4, <2>5 DEF PacketBytes
  <2>7. ASSUME NEW x \in BufferBytes(b) PROVE x \notin PacketBytes(a, header[a - 4])
    <3>1. PICK n \in Lengths : x \in b .. b + Written(n) - 1
      BY <2>7 DEF BufferBytes
    <3>2. w[bl] + 4 + Written(n) <= k \/ k + Size(header[k]) <= w[bl]
          \/ (bm # bl /\ k + Size(header[k]) <= w[bl] + 4)
      BY <1>1, <2>1, <2>3, FillClear
    <3>3. y + 4 + Written(n) <= k \/ k + Size(l) <= y + 4
      BY <2>4, <2>5, <3>2
    <3>4. x \in Int /\ y + 4 <= x /\ x <= y + 4 + Written(n) - 1 /\ Written(n) \in Nat
      BY <2>1, <2>4, <2>5, <3>1, SizeIs
    <3> QED BY <2>5, <2>6, <3>3, <3>4
  <2> QED BY <2>7
<1> QED BY <1>4, <1>5 DEF BuffersClear

\* A packet that the client has is whole.
LEMMA OwnedFollows ==
    ASSUME BuffersFit, IInv
    PROVE  PacketOwned
<1>1. PICK c, u, f, r, w : MemInv(c, u, f, r, w)
  BY DEF IInv
<1>2. BuffersClear
  BY ClearFollows
<1>3. ASSUME NEW a \in {data, incoming_data} \ {None}
      PROVE  a - 4 \in DOMAIN header /\ header[a - 4] > 1 /\ a \in InUse
  <2>1. a \in InUse
    BY <1>3 DEF InUse
  <2>2. PICK bn \in Bank : \E k \in Place(bn) : a = k + 4 /\ Whole(bn, k, c[bn], w[bn])
    BY <1>1, <2>1, InUseIs
  <2>3. PICK k \in Place(bn) : a = k + 4 /\ Whole(bn, k, c[bn], w[bn])
    BY <2>2
  <2>4. a - 4 = k /\ k \in DOMAIN header
    BY <1>1, <2>3, PlaceIs, MemIs DEF Whole, Ring
  <2>5. header[k] > 1
    BY <2>3, LengthsApart DEF Whole
  <2> QED BY <2>1, <2>4, <2>5
<1> QED BY <1>2, <1>3 DEF PacketOwned, BuffersClear

\* No pointer of a bank is ever at a word that has been written over, and
\* the driver only has buffers that the banks gave it.
THEOREM TypeCorrect ==
    ASSUME BuffersFit
    PROVE  Spec /\ [][NoSecondWrap]_vars => []TypeOK
<1>1. IInv /\ NotifyInv => TypeOK
  BY TypeFollows
<1> QED BY <1>1, MemoryInvariance, Invariance, PTL

\* Room of mii_lite_driver.xc leaves, at every point of the client and of the
\* interrupt handler, no byte of a packet that waits, is held or has not been
\* freed to be written over, nor its head.
THEOREM BuffersAreClear ==
    ASSUME BuffersFit
    PROVE  Spec /\ [][NoSecondWrap]_vars => []BuffersClear
<1>1. IInv => BuffersClear
  BY ClearFollows
<1> QED BY <1>1, MemoryInvariance, PTL

\* A packet that mii_lite_get_in_buffer has returned keeps its head and its
\* bytes until it is freed, if the writer does not go round a second time
\* before; when it does, they may be lost.
THEOREM PacketsStayOwned ==
    ASSUME BuffersFit
    PROVE  Spec /\ [][NoSecondWrap]_vars => []PacketOwned
<1>1. IInv => PacketOwned
  BY OwnedFollows
<1> QED BY <1>1, MemoryInvariance, PTL

----------------------------------------------------------------------------
(* What the MII layer promises.                                            *)

ownedBar == {data, incoming_data} \ {None}
sendingBar == out # "idle"

\* A step of the layer, or none that it sees.
LayerStep == Layer!Next \/ UNCHANGED Layer!vars

\* A step that moves no packet from one side to the other.
LEMMA LayerStutters ==
    ASSUME UNCHANGED <<arrived, out>>, ownedBar' = ownedBar
    PROVE  LayerStep
<1>1. UNCHANGED Layer!vars
  BY DEF Layer!vars, ownedBar
<1> QED BY <1>1 DEF LayerStep

\* A step that releases a packet.
LEMMA LayerReleases ==
    ASSUME UNCHANGED <<arrived, out>>, NEW p \in ownedBar, ownedBar' = ownedBar \ {p}
    PROVE  LayerStep
<1>1. Layer!ReleasePacket
  BY DEF Layer!ReleasePacket, ownedBar
<1> QED BY <1>1 DEF LayerStep, Layer!Next

\* mii_commit_buffer: the packet arrives in memory that is no other packet's.
LEMMA CommitIsArrive ==
    ASSUME BuffersFit, IInv, NEW n \in Lengths, Commit(n), UNCHANGED <<macVars, out>>
    PROVE  LayerStep
<1>1. PICK c, u, f, r, w : MemInv(c, u, f, r, w)
  BY DEF IInv
<1>2. PICK bn \in Bank : packet_in_lld = w[bn] + 4
  BY <1>1, DriverIs
<1>3. PICK k \in Place(bn) : k = w[bn]
  BY <1>1, MemIs
<1>4. arrived' = Append(arrived, packet_in_lld) /\ UNCHANGED <<data, incoming_data, out>>
  BY DEF Commit, macVars
<1>5. packet_in_lld \notin InUse
  <2>1. SUFFICES ASSUME packet_in_lld \in InUse PROVE FALSE
    OBVIOUS
  <2>2. PICK bm \in Bank : \E j \in Place(bm) : packet_in_lld = j + 4 /\ Whole(bm, j, c[bm], w[bm])
    BY <1>1, <2>1, InUseIs
  <2>3. PICK j \in Place(bm) : packet_in_lld = j + 4 /\ Whole(bm, j, c[bm], w[bm])
    BY <2>2
  <2>4. bm = bn /\ j = k
    BY <1>2, <1>3, <2>3, PlaceIs
  <2> QED BY <1>3, <2>3, <2>4 DEF Whole
<1>6. /\ arrived \in Seq(Nat) /\ packet_in_lld \in Nat
      /\ packet_in_lld \notin {arrived[i] : i \in 1 .. Len(arrived)} /\ packet_in_lld \notin ownedBar
  <2>1. packet_in_lld \in Nat
    BY <1>2, <1>3, PlaceIs
  <2> QED BY <1>1, <1>5, <2>1 DEF MemInv, TypeInv, InUse, ownedBar
<1>7. PICK q : q = arrived'
  OBVIOUS
<1>8. /\ q \in Seq(Nat) /\ Len(q) = Len(arrived) + 1 /\ q[Len(q)] = packet_in_lld /\ Len(arrived) \in Nat
      /\ \A i \in 1 .. Len(arrived) : q[i] = arrived[i]
  BY <1>4, <1>6, <1>7, AppendIs
<1>9. q # <<>> /\ SubSeq(q, 1, Len(q) - 1) = arrived
  <2>1. q # <<>>
    BY <1>8, EmptySeq
  <2>2. SubSeq(Append(arrived, packet_in_lld), 1, Len(arrived)) = arrived
    BY <1>6
  <2> QED BY <1>4, <1>7, <1>8, <2>1, <2>2
<1>10. DOMAIN arrived = 1 .. Len(arrived)
  BY <1>6
<1>11. Layer!Arrive
  <2>1. arrived = Layer!Front(q)
    BY <1>9 DEF Layer!Front
  <2>2. Layer!Last(q) = packet_in_lld
    BY <1>8 DEF Layer!Last
  <2>3. packet_in_lld \notin Layer!ToSet(arrived)
    BY <1>6, <1>10 DEF Layer!ToSet
  <2> QED BY <1>4, <1>6, <1>7, <1>9, <2>1, <2>2, <2>3 DEF Layer!Arrive, ownedBar
<1> QED BY <1>11 DEF LayerStep, Layer!Next

\* mii_lite_get_in_buffer returns the packet that has waited longest.
LEMMA GetIsGet ==
    ASSUME BuffersFit, IInv, GetOldest, UNCHANGED <<macVars, out>>
    PROVE  LayerStep
<1>1. PICK c, u, f, r, w : MemInv(c, u, f, r, w)
  BY DEF IInv
<1>2. PICK bn, k, x : Takes(c, u, r, w, bn, k, x)
  BY <1>1, OldestTaken
<1>3. arrived[1] = data' /\ data' # None
  BY <1>2, PlaceIs DEF Takes
<1>4. arrived \in Seq(Nat) /\ Len(arrived) > 0 /\ data = None
  <2>1. ClientInv /\ TypeInv /\ WaitInv(u, w) /\ pc = "get" /\ read_bank # <<>>
    BY <1>1 DEF MemInv, GetOldest
  <2> QED BY <2>1, EmptySeq DEF ClientInv, TypeInv, WaitInv
<1>5. arrived # <<>> /\ Head(arrived) = data'
  BY <1>3, <1>4, EmptySeq
<1>6. arrived' = Tail(arrived) /\ UNCHANGED <<incoming_data, out>>
  BY DEF GetOldest, macVars
<1>7. ownedBar' = ownedBar \cup {Head(arrived)}
  BY <1>3, <1>4, <1>5, <1>6 DEF ownedBar
<1>8. Layer!GetIncomingPacket
  BY <1>5, <1>6, <1>7 DEF Layer!GetIncomingPacket, ownedBar
<1> QED BY <1>8 DEF LayerStep, Layer!Next

\* The client's other steps in the driver.
LEMMA OthersStutter ==
    ASSUME IInv, LiteStep, ~GetOldest, UNCHANGED <<macVars, out>>
    PROVE  LayerStep
<1>1. data' = data
  <2>1. ClientInv
    BY DEF IInv, MemInv
  <2> QED BY <2>1 DEF LiteStep, GetNothing, WrapRead, More, NotifyMore, Negate, AdvanceFree, Restart, ClientInv
<1>2. arrived' = arrived /\ UNCHANGED <<incoming_data, out>>
  BY DEF LiteStep, GetNothing, WrapRead, More, NotifyMore, Negate, AdvanceFree, Restart, macVars
<1> QED BY <1>1, <1>2, LayerStutters DEF ownedBar

\* The packets that the task drops, gives to its clients or releases when
\* the last of them has fetched it.
LEMMA TaskReleases ==
    ASSUME IInv,
           \/ DropIncoming \/ NoIncoming \/ \E wanted \in SUBSET Clients : SendToClients(wanted)
           \/ \E c \in Clients : GetPacket(c)
    PROVE  LayerStep
<1>1. ClientInv
  BY DEF IInv, MemInv
<1>2. UNCHANGED <<arrived, out>>
  BY DEF DropIncoming, NoIncoming, SendToClients, GetPacket, GetStatus, GetData, GetNoData
<1>3. CASE DropIncoming
  <2>1. data' = None /\ incoming_data' = incoming_data /\ incoming_data # None
    BY <1>3 DEF DropIncoming, macVars
  <2>2. CASE data = None
    <3>1. ownedBar' = ownedBar
      BY <2>1, <2>2 DEF ownedBar
    <3> QED BY <1>2, <3>1, LayerStutters
  <2>3. CASE data # None
    <3>1. data \in ownedBar /\ ownedBar' = ownedBar \ {data}
      BY <1>1, <2>1, <2>3 DEF ownedBar, ClientInv
    <3> QED BY <1>2, <3>1, LayerReleases
  <2> QED BY <2>2, <2>3
<1>4. CASE NoIncoming
  <2>1. ownedBar' = ownedBar
    BY <1>4 DEF NoIncoming, macVars, ownedBar
  <2> QED BY <1>2, <2>1, LayerStutters
<1>5. ASSUME NEW wanted \in SUBSET Clients, SendToClients(wanted) PROVE LayerStep
  <2>1. data # None /\ incoming_data = None /\ data' = None
    BY <1>5 DEF SendToClients
  <2>2. CASE wanted = {}
    <3>1. data \in ownedBar /\ ownedBar' = ownedBar \ {data}
      BY <1>5, <2>1, <2>2 DEF SendToClients, ownedBar
    <3> QED BY <1>2, <3>1, LayerReleases
  <2>3. CASE wanted # {}
    <3>1. ownedBar' = ownedBar
      BY <1>5, <2>1, <2>3 DEF SendToClients, ownedBar
    <3> QED BY <1>2, <3>1, LayerStutters
  <2> QED BY <2>2, <2>3
<1>6. ASSUME NEW c \in Clients, GetPacket(c) PROVE LayerStep
  <2>1. PICK n : ReleaseFetched(n) /\ pc = "select" /\ data' = data
    BY <1>6 DEF GetPacket, GetStatus, GetData, GetNoData
  <2>2. data = None
    BY <1>1, <2>1 DEF ClientInv
  <2>3. CASE incoming_data # None /\ n = 0
    <3>1. incoming_data \in ownedBar /\ ownedBar' = ownedBar \ {incoming_data}
      BY <2>1, <2>2, <2>3 DEF ReleaseFetched, ownedBar
    <3> QED BY <1>2, <3>1, LayerReleases
  <2>4. CASE ~(incoming_data # None /\ n = 0)
    <3>1. ownedBar' = ownedBar
      BY <2>1, <2>4 DEF ReleaseFetched, ownedBar
    <3> QED BY <1>2, <3>1, LayerStutters
  <2> QED BY <2>3, <2>4
<1> QED BY <1>3, <1>4, <1>5, <1>6

\* The packet that is sent, and what the layer does not see.
LEMMA SendingIs ==
    ASSUME IInv,
           \/ IncomingPacket \/ SetLinkState \/ \E c \in Reported : SetStatus(c)
           \/ SendPacket \/ Timestamp \/ RequestNext \/ PacketSent
    PROVE  LayerStep
<1>1. UNCHANGED arrived /\ ownedBar' = ownedBar
  BY DEF IncomingPacket, SetLinkState, SetStatus, SendPacket, Timestamp, RequestNext, PacketSent,
         liteVars, macVars, ownedBar
<1>2. CASE SendPacket
  <2>1. out = "idle" /\ out' = "given"
    BY <1>2 DEF SendPacket, IInv, MemInv, ClientInv
  <2>2. ~sendingBar /\ sendingBar'
    BY <2>1 DEF sendingBar
  <2>3. Layer!SendPacket
    BY <1>1, <2>1 DEF Layer!SendPacket, ownedBar
  <2> QED BY <2>3 DEF LayerStep, Layer!Next
<1>3. CASE PacketSent
  <2>1. out = "done" /\ out' = "idle"
    BY <1>3 DEF PacketSent
  <2>2. Layer!PacketSent
    BY <1>1, <2>1 DEF Layer!PacketSent, ownedBar
  <2> QED BY <2>2 DEF LayerStep, Layer!Next
<1>4. CASE Timestamp \/ RequestNext
  <2>1. out # "idle" /\ out' # "idle"
    BY <1>4 DEF Timestamp, RequestNext
  <2>2. UNCHANGED Layer!vars
    BY <1>1, <2>1 DEF Layer!vars, ownedBar
  <2> QED BY <2>2 DEF LayerStep
<1>5. CASE IncomingPacket \/ SetLinkState \/ \E c \in Reported : SetStatus(c)
  <2>1. out' = out
    BY <1>5 DEF IncomingPacket, SetLinkState, SetStatus
  <2> QED BY <1>1, <2>1, LayerStutters
<1> QED BY <1>2, <1>3, <1>4, <1>5

\* Every step of the driver and the task is one of the layer.
LEMMA LayerSteps ==
    ASSUME BuffersFit, IInv, [Next]_vars
    PROVE  [Layer!Next]_(Layer!vars)
<1> SUFFICES LayerStep
  BY DEF LayerStep
<1>1. CASE UNCHANGED vars
  <2>1. UNCHANGED <<arrived, out>> /\ ownedBar' = ownedBar
    BY <1>1 DEF vars, liteVars, macVars, ownedBar
  <2> QED BY <2>1, LayerStutters
<1>2. ASSUME NEW n \in Lengths, Overrun(n) \/ Commit(n) \/ DropFull(n) \/ Reject(n), UNCHANGED <<macVars, out>>
      PROVE  LayerStep
  <2>1. CASE Commit(n)
    BY <1>2, <2>1, CommitIsArrive
  <2>2. CASE Overrun(n) \/ DropFull(n) \/ Reject(n)
    <3>1. UNCHANGED <<arrived, out>> /\ ownedBar' = ownedBar
      BY <1>2, <2>2 DEF Overrun, DropFull, Reject, macVars, ownedBar
    <3> QED BY <3>1, LayerStutters
  <2> QED BY <1>2, <2>1, <2>2
<1>3. CASE LiteStep /\ UNCHANGED <<macVars, out>>
  BY <1>3, GetIsGet, OthersStutter
<1>4. CASE \/ IncomingPacket \/ SetLinkState \/ \E c \in Reported : SetStatus(c)
           \/ SendPacket \/ Timestamp \/ RequestNext \/ PacketSent
  BY <1>4, SendingIs
<1>5. CASE \/ DropIncoming \/ NoIncoming \/ \E wanted \in SUBSET Clients : SendToClients(wanted)
           \/ \E c \in Clients : GetPacket(c)
  BY <1>5, TaskReleases
<1> QED BY <1>1, <1>2, <1>3, <1>4, <1>5 DEF Next, Continues, Interrupt

\* mii_lite_driver.xc and mii_ethernet_mac.xc keep what mii.h promises: packets
\* come in the order in which they arrived, whatever bank they were in, and the
\* memory of one is the client's from get_incoming_packet to release_packet.
THEOREM LayerKept ==
    ASSUME BuffersFit
    PROVE  Spec /\ [][NoSecondWrap]_vars => ImplementsMiiLayer
<1>1. Init => Layer!Init
  BY DEF Init, LiteInit, Layer!Init
<1>2. IInv /\ [Next]_vars => [Layer!Next]_(Layer!vars)
  BY LayerSteps
<1> QED BY <1>1, <1>2, MemoryInvariance, PTL DEF Spec, ImplementsMiiLayer, Layer!Spec

----------------------------------------------------------------------------
(* Packets that MAXPACKET is enough for.                                   *)

\* MAXPACKET is room for the buffers of any two packets.
ShortPackets ==
    \A l, m \in Lengths : RoundBytes(l) + RoundBytes(m) <= Words(MaxPacket) + 4

\* Then a packet that arrives below free_ptr does not end the bank, because
\* Room leaves MAXPACKET between them and free_ptr is at most one packet past
\* the last safe place.
LEMMA ShortStep ==
    ASSUME BuffersFit, ShortPackets, IInv
    PROVE  NoSecondWrap
<1>1. PICK c, u, f, r, w : MemInv(c, u, f, r, w)
  BY DEF IInv
<1>2. SUFFICES ASSUME NEW n \in Lengths, Commit(n), NEW bn \in Bank, bn = BankOf(packet_in_lld),
                      wr_ptr[bn] < free_ptr[bn]
               PROVE  wr_ptr[bn] < wr_ptr'[bn]
  BY DEF NoSecondWrap, BankOf, Bank
<1>3. packet_in_lld = w[bn] + 4 /\ Fill(bn, f[bn], w[bn])
  BY <1>1, <1>2, DriverIs
<1>4. PICK k, o : k = w[bn] /\ o = f[bn]
  OBVIOUS
<1>5. /\ k \in Place(bn) /\ o \in Place(bn) /\ free_ptr[bn] = o /\ wr_ptr[bn] = k + 4 /\ Fill(bn, o, k)
      /\ k \in Nat /\ o \in Nat /\ k % 4 = 0 /\ o % 4 = 0 /\ wr_ptr[bn] - 4 = k
  BY <1>1, <1>3, <1>4, MemIs, PlaceIs
<1>6. /\ RoundBytes(n) \in Nat /\ 8 < RoundBytes(n) /\ RoundBytes(n) + 8 <= Words(MaxPacket)
      /\ Words(MaxPacket) \in Int /\ LastSafe(bn) \in Int
  <2>1. /\ MaxPacket \in Nat /\ RoundBytes(n) \in Nat /\ 8 < RoundBytes(n)
        /\ Written(n) \in Nat /\ RoundBytes(n) + 8 <= Written(n) /\ Written(n) <= Words(MaxPacket)
    BY SizeIs
  <2>2. Words(MaxPacket) \in Int
    BY <2>1 DEF Words
  <2>3. LastSafe(bn) \in Int
    BY <2>1, BankIs
  <2> QED BY <2>1, <2>2, <2>3
<1>7. o - (k + 4) >= Words(MaxPacket)
  <2>1. o - (k + 4) >= MaxPacket
    BY <1>2, <1>5 DEF Fill
  <2>2. PICK a, b \in Int : a = k + 4 /\ b = o
    BY <1>5
  <2>3. a % 4 = 0 /\ b % 4 = 0 /\ b - a >= MaxPacket
    BY <1>5, <2>1, <2>2
  <2>4. b - a >= Words(MaxPacket)
    BY <2>3, WordsFit
  <2> QED BY <2>2, <2>4
<1>8. wr_ptr[bn] + RoundBytes(n) <= LastSafe(bn)
  <2>1. CASE o + 4 <= LastSafe(bn)
    BY <1>5, <1>6, <1>7, <2>1
  <2>2. ASSUME NEW l \in Lengths, o + 4 <= LastSafe(bn) + RoundBytes(l)
        PROVE  wr_ptr[bn] + RoundBytes(n) <= LastSafe(bn)
    <3>1. RoundBytes(l) \in Nat /\ RoundBytes(l) + RoundBytes(n) <= Words(MaxPacket) + 4
      BY SizeIs DEF ShortPackets
    <3> QED BY <1>5, <1>6, <1>7, <2>2, <3>1
  <2> QED BY <1>5, <2>1, <2>2 DEF Place
<1>9. wr_ptr'[bn] = wr_ptr[bn] + RoundBytes(n)
  <2>1. PICK h, p : /\ h = SetWord(Overwrite(header, packet_in_lld, n), wr_ptr[bn] - 4, n)
                    /\ p = NextPlace(bn, wr_ptr[bn] + RoundBytes(n), h)
    OBVIOUS
  <2>2. wr_ptr' = [wr_ptr EXCEPT ![bn] = p.wr] /\ wr_ptr \in [Bank -> Nat]
    BY <1>1, <1>2, <2>1 DEF Commit, Continue, MemInv, TypeInv
  <2>3. p.wr = wr_ptr[bn] + RoundBytes(n)
    BY <1>8, <2>1 DEF NextPlace
  <2> QED BY <2>2, <2>3
<1> QED BY <1>5, <1>6, <1>9

\* With packets of which two fit into MAXPACKET, up to 764 bytes for 1530, or
\* with a MAXPACKET that is room for two of the longest, the writer never goes
\* round a second time.
THEOREM NeverASecondWrap ==
    ASSUME BuffersFit, ShortPackets
    PROVE  Spec => [][NoSecondWrap]_vars
<1>1. Init => IInv
  <2>1. SUFFICES ASSUME Init PROVE IInv
    OBVIOUS
  <2>2. PICK z, c, u : /\ z = [bn \in Bank |-> First(bn)] /\ c = [bn \in Bank |-> {First(bn)}]
                       /\ u = [bn \in Bank |-> {}]
    OBVIOUS
  <2>3. MemInv(c, u, z, z, z)
    BY <2>1, <2>2, InitMemInv
  <2> QED BY <2>3 DEF IInv
<1>2. IInv => [NoSecondWrap]_vars
  BY ShortStep
<1>3. IInv /\ [Next]_vars => IInv'
  BY <1>2, MemStep
<1> QED BY <1>1, <1>2, <1>3, PTL DEF Spec

\* So nothing in use is written over, and the layer keeps what it promises,
\* whatever packets arrive and however long the client keeps them.
THEOREM ShortPacketsSafe ==
    ASSUME BuffersFit, ShortPackets
    PROVE  Spec => [](TypeOK /\ BuffersClear /\ PacketOwned) /\ ImplementsMiiLayer
BY NeverASecondWrap, TypeCorrect, BuffersAreClear, PacketsStayOwned, LayerKept, PTL
=============================================================================
