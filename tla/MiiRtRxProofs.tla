--------------------------- MODULE MiiRtRxProofs ---------------------------
(***************************************************************************)
(* The safety properties of MiiRtRx, for every size of the ring and of the *)
(* fifos and every set of clients, and that it implements RxDelivery.      *)
(* IInv (MiiRtRxInv) is inductive: below, a lemma for each action that     *)
(* touches the ring or the fifos, and one for all the others.              *)
(***************************************************************************)
EXTENDS MiiRtRxInv, PacketQueueProofs, SequenceMaps, SequenceTheorems

USE NumPointersAssumption DEF Index

\* The type of the queue and of its parts.
LEMMA QueueTyped ==
    ASSUME TypeOK
    PROVE  /\ lp.rd \in Index /\ lp.wr \in Index
           /\ lp.ptrs \in [Index -> Packets \cup {Null}]
           /\ lp = [rd |-> lp.rd, wr |-> lp.wr, ptrs |-> lp.ptrs]
           /\ \A i \in Index : Used(lp, i) =>
                 lp.ptrs[i] \in Packets /\ lp.ptrs[i].tcount \in Int
BY DEF TypeOK, QueueOf, Used, Packets, NotRouted

\* The number of clients is a natural number, as is that of any of them.
LEMMA ClientsFinite ==
    /\ Cardinality(Clients) \in Nat
    /\ \A S \in SUBSET Clients :
          /\ IsFiniteSet(S) /\ Cardinality(S) \in 0 .. Cardinality(Clients)
          /\ S # {} => Cardinality(S) > 0
<1>1. IsFiniteSet(Clients)
  BY MiiRtRxAssumption
<1>2. Cardinality(Clients) \in Nat
  BY <1>1, FS_CardinalityType
<1>3. ASSUME NEW S \in SUBSET Clients
      PROVE  /\ IsFiniteSet(S) /\ Cardinality(S) \in 0 .. Cardinality(Clients)
             /\ S # {} => Cardinality(S) > 0
  <2>1. IsFiniteSet(S) /\ Cardinality(S) <= Cardinality(Clients)
    BY <1>1, FS_Subset
  <2>2. Cardinality(S) \in Nat
    BY <2>1, FS_CardinalityType
  <2>3. S # {} => Cardinality(S) # 0
    BY <2>1, FS_EmptySet
  <2> QED BY <1>2, <2>1, <2>2, <2>3
<1> QED BY <1>2, <1>3

----------------------------------------------------------------------------
(* The start.                                                              *)

\* The tasks start with variables of their types (init_rx_client_state,
\* init_server_port_state).
LEMMA InitTyped == Init => TypeOK
<1> SUFFICES ASSUME Init PROVE TypeOK
  OBVIOUS
<1>1. lp \in QueueOf(Packets)
  BY DEF Init, EmptyQueue, QueueOf
<1>2. fifo \in [Clients -> Seq(Index)]
  BY DEF Init
<1>3. pc \in PcValues /\ ret \in {"incoming", "move", "drop"}
  BY DEF Init, PcValues
<1>4. myRd \in Index /\ idx \in Index
  BY DEF Init
<1>5. /\ notified \in [Clients -> BOOLEAN]
      /\ status \in [Clients -> {"IGNORING", "WAITING", "PENDING"}]
      /\ etypes \in [Clients -> [Etypes -> Nat]]
  BY DEF Init
<1>6. adding \in BOOLEAN /\ todo \subseteq Clients /\ link \in LinkStates
  BY MiiRtRxAssumption DEF Init
<1> QED BY <1>1, <1>2, <1>3, <1>4, <1>5, <1>6 DEF TypeOK

\* They start with an empty ring and empty fifos.
LEMMA InitInvariant == Init => IInv
<1> SUFFICES ASSUME Init PROVE IInv
  OBVIOUS
<1>1. TypeOK
  BY InitTyped
<1>2. lp.rd = 0 /\ lp.wr = 0 /\ \A i \in Index : ~Used(lp, i)
  BY DEF Init, EmptyQueue, Used
<1>3. \A i \in Index : Holders(i) = {}
  BY DEF Init, Holders
<1>4. RingShape(0, 0)
  BY <1>2, AheadDistance
     DEF Init, RingShape, NextToRoute, DoneWithMyRd, Ahead, Distance, Unrouted
<1>5. Ring
  BY <1>4 DEF Ring
<1>6. NoDuplicates
  BY DEF Init, NoDuplicates
<1> QED BY <1>1, <1>2, <1>3, <1>5, <1>6
        DEF Init, IInv, AddingUsed, HeldSlotsCounted, RoutedHeld, FreedUnheld, RoutingMyRd

----------------------------------------------------------------------------
(* Steps that leave the queue and the fifos as they are and neither start  *)
(* nor end the freeing of a slot: the calls, and the idle parts of the     *)
(* loop.                                                                   *)

Busy == pc \in {"freeRd", "freeSlot", "move"}

\* No conjunct of IInv but the last and the types can be disturbed by them.
LEMMA SlotsUnchanged ==
    ASSUME IInv, UNCHANGED <<lp, adding, myRd, fifo>>, ~Busy, ~Busy',
           TypeOK', RoutingMyRd'
    PROVE  IInv'
<1>1. PICK e \in 0 .. NumPointers, m \in 0 .. NumPointers : RingShape(e, m)
  BY DEF IInv, Ring
<1>2. RingShape(e, m)'
  BY <1>1 DEF RingShape, NextToRoute, DoneWithMyRd, Busy, Clearing, BeingFreed, Unrouted
<1>3. Ring'
  BY <1>2 DEF Ring
<1>4. AddingUsed' /\ NoDuplicates'
  BY DEF IInv, AddingUsed, NoDuplicates, Clearing, Busy
<1>5. HeldSlotsCounted' /\ RoutedHeld' /\ FreedUnheld'
  BY DEF IInv, HeldSlotsCounted, RoutedHeld, FreedUnheld, Holders, BeingFreed, Busy
<1> QED BY <1>3, <1>4, <1>5 DEF IInv

\* A call that changes the configuration, or nothing.
LEMMA ConfigStep ==
    ASSUME IInv, Configure \/ SelectNothing
    PROVE  IInv'
<1>1. ConfigCall
  BY DEF Configure, SelectNothing, SetLinkState, AddEtypeFilter, DelEtypeFilter,
         EnableLinkNotification, DisableLinkNotification
<1>2. /\ notified' \in [Clients -> BOOLEAN]
      /\ status' \in [Clients -> {"IGNORING", "WAITING", "PENDING"}]
      /\ etypes' \in [Clients -> [Etypes -> Nat]]
      /\ link' \in LinkStates
  <2>1. TypeOK
    BY DEF IInv
  <2>2. ASSUME NEW s \in LinkStates, SetLinkState(s) PROVE <1>2!:
    BY <2>1, <2>2 DEF TypeOK, SetLinkState
  <2>3. ASSUME NEW c \in Clients, NEW t \in Etypes, AddEtypeFilter(c, t) PROVE <1>2!:
    BY <2>1, <2>3 DEF TypeOK, AddEtypeFilter
  <2>4. ASSUME NEW c \in Clients, NEW t \in Etypes, DelEtypeFilter(c, t) PROVE <1>2!:
    BY <2>1, <2>4 DEF TypeOK, DelEtypeFilter
  <2>5. ASSUME NEW c \in Clients, EnableLinkNotification(c) PROVE <1>2!:
    BY <2>1, <2>5 DEF TypeOK, EnableLinkNotification
  <2>6. ASSUME NEW c \in Clients, DisableLinkNotification(c) PROVE <1>2!:
    BY <2>1, <2>6 DEF TypeOK, DisableLinkNotification
  <2>7. ASSUME SelectNothing PROVE <1>2!:
    BY <2>1, <2>7 DEF TypeOK, SelectNothing, configVars
  <2> QED BY <2>2, <2>3, <2>4, <2>5, <2>6, <2>7 DEF Configure
<1>3. TypeOK'
  BY <1>1, <1>2 DEF IInv, TypeOK, ConfigCall, PcValues
<1>4. UNCHANGED <<lp, adding, myRd, fifo>> /\ ~Busy /\ ~Busy' /\ RoutingMyRd'
  BY <1>1 DEF ConfigCall, Busy, RoutingMyRd
<1> QED BY <1>3, <1>4, SlotsUnchanged

\* get_packet without a packet to get.
LEMMA GetNothingStep ==
    ASSUME IInv, NEW c \in Clients, GetStatus(c) \/ GetNoData(c)
    PROVE  IInv'
<1>1. TypeOK'
  BY DEF IInv, TypeOK, PcValues, GetStatus, GetNoData, configVars
<1>2. UNCHANGED <<lp, adding, myRd, fifo>> /\ ~Busy /\ ~Busy' /\ RoutingMyRd'
  BY DEF GetStatus, GetNoData, Busy, RoutingMyRd
<1> QED BY <1>1, <1>2, SlotsUnchanged

\* handle_incoming_packet without a packet.
LEMMA TakeNoneStep ==
    ASSUME IInv, TakeNone
    PROVE  IInv'
<1>1. TypeOK'
  BY DEF IInv, TypeOK, PcValues, TakeNone, EndIncoming, configVars
<1>2. UNCHANGED <<lp, adding, myRd, fifo>> /\ ~Busy /\ ~Busy' /\ RoutingMyRd'
  BY DEF TakeNone, EndIncoming, Busy, RoutingMyRd
<1> QED BY <1>1, <1>2, SlotsUnchanged

\* drop_lp_packets at a client with an empty fifo.
LEMMA DropNothingStep ==
    ASSUME IInv, NEW c \in Clients, DropNothing(c)
    PROVE  IInv'
<1>1. TypeOK'
  BY DEF IInv, TypeOK, PcValues, DropNothing, configVars
<1>2. UNCHANGED <<lp, adding, myRd, fifo>> /\ ~Busy /\ ~Busy' /\ RoutingMyRd'
  BY DEF DropNothing, Busy, RoutingMyRd
<1> QED BY <1>1, <1>2, SlotsUnchanged

\* The slot at myRd that mii_get_my_next_buf returns has not been handed
\* out: with rd on wr it would return nothing.
LEMMA TakePacketStep ==
    ASSUME IInv, TakePacket
    PROVE  IInv'
<1>1. TypeOK'
  BY DEF IInv, TypeOK, PcValues, TakePacket, configVars
<1>2. Unrouted(myRd)
  <2>1. PICK e \in 0 .. NumPointers, m \in 0 .. NumPointers : RingShape(e, m)
    BY DEF IInv, Ring
  <2>2. lp.rd # lp.wr /\ Used(lp, myRd) /\ ~DoneWithMyRd /\ ~BeingFreed(myRd) /\ ~Clearing(myRd)
    BY DEF TakePacket, MyNextBuf, Used, DoneWithMyRd, BeingFreed, Clearing
  <2>3. lp.rd \in Index /\ lp.wr \in Index /\ myRd \in Index
    BY QueueTyped DEF IInv, TypeOK
  <2>4. myRd = Ahead(lp.rd, m)
    BY <2>1, <2>2 DEF RingShape, NextToRoute
  <2>5. m < e
    <3> SUFFICES ASSUME m = e PROVE FALSE
      BY <2>1 DEF RingShape
    <3>1. ~adding /\ myRd = lp.wr
      BY <2>1, <2>2, <2>4 DEF RingShape
    <3>2. Distance(lp.rd, myRd) = e
      BY <3>1, <2>2, <2>3, <2>4 DEF Ahead, Distance
    <3> QED BY <3>2, <2>1, <2>2, <2>3 DEF RingShape
  <2>6. Distance(lp.rd, myRd) = m
    BY <2>3, <2>4, <2>5, DistanceAhead
  <2> QED BY <2>1, <2>3, <2>5, <2>6 DEF RingShape
<1>3. UNCHANGED <<lp, adding, myRd, fifo>> /\ ~Busy /\ ~Busy' /\ RoutingMyRd'
  BY <1>2 DEF TakePacket, Busy, RoutingMyRd, Unrouted
<1> QED BY <1>1, <1>3, SlotsUnchanged

----------------------------------------------------------------------------
(* The filter.                                                             *)

\* The slot at wr is free, so the ring is not full and grows by a packet
\* that has not been handed out.
LEMMA FilterStoreStep ==
    ASSUME IInv, FilterStore
    PROVE  IInv'
<1>1. PICK p \in Packets : p.tcount = NotRouted /\ lp' = StorePtr(lp, p)
  <2>1. PICK d \in SUBSET Clients, t \in Etypes, g \in Tags :
           lp' = StorePtr(lp, [dst |-> d, etype |-> t, tag |-> g, tcount |-> NotRouted])
    BY DEF FilterStore
  <2>2. [dst |-> d, etype |-> t, tag |-> g, tcount |-> NotRouted] \in Packets
    BY ClientsFinite DEF Packets, NotRouted
  <2> QED BY <2>1, <2>2
<1>2. /\ lp.rd \in Index /\ lp.wr \in Index /\ ~Used(lp, lp.wr)
      /\ lp.ptrs \in [Index -> Packets \cup {Null}]
      /\ TypeOK
  BY QueueTyped DEF IInv, FilterStore, QueueFull
<1>3. /\ lp' \in QueueOf(Packets)
      /\ lp'.rd = lp.rd /\ lp'.wr = lp.wr
      /\ lp'.ptrs = [lp.ptrs EXCEPT ![lp.wr] = p]
  BY <1>1, <1>2, QueueTyped DEF StorePtr, QueueOf
<1>4. UNCHANGED <<myRd, pc, idx, ret, todo, fifo, notified, status, etypes, link>> /\ ~adding /\ adding'
  BY DEF FilterStore, configVars
<1>5. p # Null
  BY NullAssumption
<1>6. /\ \A i \in Index \ {lp.wr} : lp'.ptrs[i] = lp.ptrs[i]
      /\ lp'.ptrs[lp.wr] = p
  BY <1>2, <1>3
<1>7. /\ \A i \in Index \ {lp.wr} : Used(lp, i)' = Used(lp, i) /\ Unrouted(i)' = Unrouted(i)
      /\ Used(lp, lp.wr)' /\ Unrouted(lp.wr)'
  BY <1>1, <1>3, <1>5, <1>6 DEF Used, Unrouted
<1>8. \A i \in Index : BeingFreed(i)' = BeingFreed(i) /\ Clearing(i)' = Clearing(i)
  BY <1>4 DEF BeingFreed, Clearing
<1>9. ~BeingFreed(lp.wr) /\ Holders(lp.wr) = {}
  BY <1>2 DEF IInv, FreedUnheld, BeingFreed, HeldSlotsCounted
<1>10. \A i \in Index : Holders(i)' = Holders(i)
  BY <1>4 DEF Holders
<1>11. TypeOK'
  BY <1>2, <1>3, <1>4 DEF TypeOK
<1>12. Ring'
  <2>1. PICK e \in 0 .. NumPointers, m \in 0 .. NumPointers : RingShape(e, m)
    BY DEF IInv, Ring
  <2>2. lp.wr = Ahead(lp.rd, e)
    BY <2>1, <1>4 DEF RingShape
  <2>3. e < NumPointers
    <3> SUFFICES ASSUME e = NumPointers PROVE FALSE
      OBVIOUS
    <3>1. lp.wr = lp.rd
      BY <2>2, <1>2 DEF Ahead
    <3> QED BY <3>1, <2>1, <1>2 DEF RingShape
  <2>4. Distance(lp.rd, lp.wr) = e
    BY <2>2, <2>3, <1>2, DistanceAhead
  <2>5. \A i \in Index : Distance(lp.rd, i) = e => i = lp.wr
    BY <2>2, <1>2, AheadDistance
  <2>6. RingShape(e + 1, m)'
    <3>1. /\ m <= e + 1
          /\ adding' => e + 1 > 0 /\ lp'.wr = Ahead(lp'.rd, e) /\ m # e + 1
          /\ adding'
          /\ NextToRoute' = Ahead(lp'.rd, m)
      BY <2>1, <2>2, <1>3, <1>4 DEF RingShape, NextToRoute, DoneWithMyRd
    <3>2. Used(lp, lp.rd)' /\ ~Clearing(lp.rd)'
      <4>1. CASE e = 0
        <5>1. lp.rd = lp.wr
          BY <4>1, <2>2, <1>2 DEF Ahead
        <5>2. ~Clearing(lp.wr)
          BY <1>9 DEF BeingFreed, Clearing
        <5> QED BY <5>1, <5>2, <1>2, <1>3, <1>7, <1>8 DEF Clearing
      <4>2. CASE e # 0
        <5>1. Used(lp, lp.rd) /\ ~Clearing(lp.rd)
          BY <4>2, <2>1 DEF RingShape
        <5>2. lp.rd # lp.wr
          BY <5>1, <1>2
        <5> QED BY <5>1, <5>2, <1>2, <1>3, <1>7, <1>8 DEF Used, Clearing
      <4> QED BY <4>1, <4>2
    <3>3. ASSUME NEW i \in Index
          PROVE  LET k == Distance(lp.rd, i)
                 IN  /\ k >= e + 1 => ~Used(lp, i)' \/ Clearing(i)'
                     /\ m <= k /\ k < e + 1 => Unrouted(i)' /\ ~BeingFreed(i)'
                     /\ k < m /\ Unrouted(i)' => BeingFreed(i)'
      <4>1. Distance(lp.rd, i) \in 0 .. NumPointers - 1
        BY <1>2, AheadDistance
      <4>2. CASE i = lp.wr
        <5>1. Unrouted(i)' /\ ~BeingFreed(i)'
          BY <4>2, <1>1, <1>4, <1>5, <1>6, <1>9 DEF Unrouted, Used, BeingFreed
        <5>2. m <= e /\ Distance(lp.rd, i) = e
          BY <4>2, <2>1, <2>4 DEF RingShape
        <5> QED BY <5>1, <5>2
      <4>3. CASE i # lp.wr
        BY <4>1, <4>3, <2>1, <2>5, <1>7, <1>8 DEF RingShape
      <4> QED BY <4>2, <4>3
    <3> QED BY <3>1, <3>2, <3>3, <1>3 DEF RingShape
  <2>7. e + 1 \in 0 .. NumPointers
    BY <2>3
  <2> QED BY <2>6, <2>7 DEF Ring
<1>13. AddingUsed'
  BY <1>3, <1>4, <1>5, <1>6, <1>9 DEF AddingUsed, BeingFreed, Clearing, Used
<1>14. NoDuplicates'
  BY <1>4 DEF IInv, NoDuplicates
<1>15. HeldSlotsCounted' /\ RoutedHeld'
  BY <1>1, <1>3, <1>6, <1>7, <1>8, <1>9, <1>10 DEF IInv, HeldSlotsCounted, RoutedHeld, Used, Unrouted
<1>16. FreedUnheld' /\ RoutingMyRd'
  <2>1. idx \in Index
    BY <1>2 DEF TypeOK
  <2> QED BY <2>1, <1>2, <1>4, <1>7, <1>10 DEF IInv, FreedUnheld, RoutingMyRd, Unrouted
<1> QED BY <1>11, <1>12, <1>13, <1>14, <1>15, <1>16 DEF IInv

\* The second store of the addition moves wr past the packet.
LEMMA FilterAdvanceStep ==
    ASSUME IInv, FilterAdvance
    PROVE  IInv'
<1>1. /\ lp.rd \in Index /\ lp.wr \in Index /\ TypeOK
      /\ lp.ptrs \in [Index -> Packets \cup {Null}]
  BY QueueTyped DEF IInv
<1>2. NextIndex(lp.wr) \in Index
  BY <1>1, AheadIndex DEF NextIndex
<1>3. /\ lp' \in QueueOf(Packets)
      /\ lp'.rd = lp.rd /\ lp'.wr = NextIndex(lp.wr) /\ lp'.ptrs = lp.ptrs
  BY <1>1, <1>2, QueueTyped DEF FilterAdvance, AdvanceWr, QueueOf
<1>4. UNCHANGED <<myRd, pc, idx, ret, todo, fifo, notified, status, etypes, link>> /\ adding /\ ~adding'
  BY DEF FilterAdvance, configVars
<1>5. \A i \in Index : /\ Used(lp, i)' = Used(lp, i) /\ Unrouted(i)' = Unrouted(i)
                       /\ BeingFreed(i)' = BeingFreed(i) /\ Clearing(i)' = Clearing(i)
                       /\ Holders(i)' = Holders(i)
  BY <1>3, <1>4 DEF Used, Unrouted, BeingFreed, Clearing, Holders
<1>6. TypeOK'
  <2>1. adding' \in BOOLEAN
    BY DEF FilterAdvance
  <2> QED BY <2>1, <1>1, <1>3, <1>4 DEF TypeOK
<1>7. Ring'
  <2>1. PICK e \in 0 .. NumPointers, m \in 0 .. NumPointers : RingShape(e, m)
    BY DEF IInv, Ring
  <2>2. e > 0 /\ lp.wr = Ahead(lp.rd, e - 1)
    BY <2>1, <1>4 DEF RingShape
  <2>3. lp'.wr = Ahead(lp'.rd, e)
    BY <2>2, <1>1, <1>3 DEF Ahead, NextIndex
  <2>4. /\ NextToRoute' = NextToRoute
        /\ Used(lp, lp.rd)' = Used(lp, lp.rd) /\ Clearing(lp.rd)' = Clearing(lp.rd)
    BY <1>3, <1>4 DEF NextToRoute, DoneWithMyRd, Used, Clearing
  <2>5. RingShape(e, m)'
    BY <2>1, <2>3, <2>4, <1>3, <1>4, <1>5 DEF RingShape
  <2> QED BY <2>5 DEF Ring
<1>8. AddingUsed' /\ NoDuplicates'
  BY <1>4 DEF IInv, AddingUsed, NoDuplicates
<1>9. HeldSlotsCounted' /\ RoutedHeld'
  BY <1>3, <1>5 DEF IInv, HeldSlotsCounted, RoutedHeld, Used
<1>10. FreedUnheld' /\ RoutingMyRd'
  <2>1. idx \in Index
    BY <1>1 DEF TypeOK
  <2> QED BY <2>1, <1>4, <1>5 DEF IInv, FreedUnheld, RoutingMyRd
<1> QED BY <1>6, <1>7, <1>8, <1>9, <1>10 DEF IInv

----------------------------------------------------------------------------
(* Freeing a slot.                                                         *)

\* Only a packet that has been handed out is freed.
LEMMA FreedRouted ==
    ASSUME IInv, NEW e \in 0 .. NumPointers, NEW m \in 0 .. NumPointers, RingShape(e, m),
           BeingFreed(lp.rd), pc = "freeRd"
    PROVE  0 < m /\ m <= e
<1>1. lp.rd \in Index /\ Distance(lp.rd, lp.rd) = 0 /\ Used(lp, lp.rd) /\ ~Clearing(lp.rd)
  BY QueueTyped DEF IInv, FreedUnheld, BeingFreed, Clearing, Distance
<1>2. m <= e
  BY DEF RingShape
<1>3. e # 0
  BY <1>1 DEF RingShape
<1>4. m # 0
  BY <1>1, <1>3 DEF RingShape
<1> QED BY <1>2, <1>4

\* When the slot at rd is freed, the scan stops within the packets handed
\* out or at their end, and the ring shrinks by the slots it has passed.
LEMMA MoveRdShape ==
    ASSUME IInv, FreeMoveRd, idx = lp.rd,
           NEW e \in 0 .. NumPointers, NEW m \in 0 .. NumPointers, RingShape(e, m)
    PROVE  \E d \in 1 .. m : RingShape(e - d, m - d)'
<1>1. /\ lp.rd \in Index /\ lp.wr \in Index /\ TypeOK
      /\ lp.ptrs \in [Index -> Packets \cup {Null}]
      /\ pc = "freeRd" /\ pc' = "freeSlot" /\ StoreSettled(lp.rd)
      /\ UNCHANGED <<adding, myRd, idx, ret>>
  BY QueueTyped DEF IInv, FreeMoveRd
<1>2. 0 < m /\ m <= e
  BY <1>1, FreedRouted DEF BeingFreed
<1>3. PICK d \in 1 .. NumPointers :
         /\ MoveMyRdIndex(lp, lp.rd) = Ahead(lp.rd, d)
         /\ ScanStops(lp, Ahead(lp.rd, d))
         /\ \A n \in 1 .. d - 1 : ~ScanStops(lp, Ahead(lp.rd, n))
  BY <1>1, MoveMyRdIndexStops
<1> DEFINE r == Ahead(lp.rd, d)
<1>4. lp'.rd = r /\ lp'.wr = lp.wr /\ lp'.ptrs = lp.ptrs /\ r \in Index
  <2>1. lp' = [rd |-> r, wr |-> lp.wr, ptrs |-> lp.ptrs]
    BY <1>1, <1>3, QueueTyped DEF FreeMoveRd, MoveRdOff
  <2>2. r \in Index
    <3>1. d \in 0 .. NumPointers
      OBVIOUS
    <3> HIDE DEF Index
    <3> QED BY <3>1, <1>1, AheadIndex
  <2> QED BY <2>1, <2>2
<1>5. d <= m /\ (adding => d < e)
  <2>1. \A n \in 1 .. NumPointers : ScanStops(lp, Ahead(lp.rd, n)) => d <= n
    BY <1>3
  <2>2. CASE m < e
    <3>1. Ahead(lp.rd, m) \in Index /\ Distance(lp.rd, Ahead(lp.rd, m)) = m
      <4>1. m \in 0 .. NumPointers - 1
        BY <2>2
      <4>2. lp.rd \in Index
        BY <1>1
      <4> QED BY <4>1, <4>2 DEF Ahead, Distance
    <3>2. ScanStops(lp, Ahead(lp.rd, m))
      BY <3>1, <2>2 DEF RingShape, ScanStops, Unrouted
    <3> QED BY <3>2, <2>1, <1>2, <2>2
  <2>3. CASE m = e /\ ~adding
    <3>1. ScanStops(lp, Ahead(lp.rd, e))
      BY <2>3 DEF RingShape, ScanStops
    <3> QED BY <3>1, <2>1, <1>2, <2>3
  <2>4. CASE m = e /\ adding
    <3>1. ScanStops(lp, Ahead(lp.rd, e - 1)) /\ lp.wr = Ahead(lp.rd, e - 1)
      BY <2>4 DEF RingShape, ScanStops
    <3>2. e - 1 # 0
      BY <3>1, <1>1, <2>4 DEF StoreSettled, Ahead
    <3> QED BY <3>1, <3>2, <2>1, <1>2, <2>4
  <2> QED BY <1>2, <2>2, <2>3, <2>4
<1>6. \A i \in Index : /\ Distance(lp.rd, i) \in 0 .. NumPointers - 1
                       /\ Ahead(lp.rd, Distance(lp.rd, i)) = i
                       /\ Distance(r, i) = IF Distance(lp.rd, i) >= d
                                           THEN Distance(lp.rd, i) - d
                                           ELSE Distance(lp.rd, i) - d + NumPointers
  BY <1>1, AheadDistance, DistanceFurtherOn
<1>7. /\ \A i \in Index : /\ Used(lp, i)' = Used(lp, i) /\ Unrouted(i)' = Unrouted(i)
                          /\ BeingFreed(i)' = BeingFreed(i)
                          /\ Clearing(i)' = (i = lp.rd) /\ ~Clearing(i)
      /\ DoneWithMyRd' = DoneWithMyRd /\ NextToRoute' = NextToRoute
  BY <1>1, <1>4 DEF Used, Unrouted, BeingFreed, Clearing, DoneWithMyRd, NextToRoute
<1>8. \A n \in d .. NumPointers : Ahead(r, n - d) = Ahead(lp.rd, n)
  <2> SUFFICES ASSUME NEW n \in d .. NumPointers PROVE Ahead(r, n - d) = Ahead(lp.rd, n)
    OBVIOUS
  <2>1. n \in 0 .. NumPointers /\ d \in 0 .. NumPointers /\ d <= n /\ lp.rd \in Index
    BY <1>1
  <2> QED BY <2>1, AheadFurtherOn
<1>9. RingShape(e - d, m - d)'
  <2>1. m - d <= e - d /\ (m - d = e - d <=> m = e)
    BY <1>2
  <2>2. adding => e - d > 0 /\ lp.wr = Ahead(r, e - d - 1) /\ (m = e => DoneWithMyRd)
    <3>1. adding => e - 1 \in d .. NumPointers /\ e - d - 1 = (e - 1) - d
      BY <1>2, <1>5
    <3> HIDE DEF r
    <3> QED BY <3>1, <1>2, <1>5, <1>8 DEF RingShape
  <2>3. e \in d .. NumPointers /\ m \in d .. NumPointers
    BY <1>2, <1>5
  <2>4. (~adding => lp.wr = Ahead(r, e - d)) /\ NextToRoute = Ahead(r, m - d)
    <3> HIDE DEF r
    <3> QED BY <2>3, <1>8 DEF RingShape
  <2>5. ASSUME e - d > 0 PROVE Used(lp, r) /\ r # lp.rd
    <3>1. r # lp.rd
      BY <1>1, <1>2, <1>5, <2>5 DEF Ahead
    <3>2. CASE r = lp.wr
      <4>1. ~adding => FALSE
        BY <3>2, <1>1, <1>2, <1>5, <2>5 DEF RingShape, Ahead
      <4> QED BY <4>1, <3>1, <3>2 DEF IInv, AddingUsed
    <3> QED BY <3>1, <3>2, <1>3 DEF ScanStops
  <2>6. ASSUME NEW i \in Index
        PROVE  LET k == Distance(r, i)
               IN  /\ k >= e - d => ~Used(lp, i) \/ i = lp.rd
                   /\ m - d <= k /\ k < e - d => Unrouted(i) /\ ~BeingFreed(i)
                   /\ k < m - d /\ Unrouted(i) => BeingFreed(i)
    <3>1. CASE Distance(lp.rd, i) >= d
      BY <3>1, <1>2, <1>5, <1>6, <1>7 DEF RingShape
    <3>2. CASE Distance(lp.rd, i) < d
      <4>1. Distance(r, i) >= e - d
        BY <3>2, <1>2, <1>5, <1>6
      <4>2. CASE Distance(lp.rd, i) = 0
        <5>1. i = lp.rd
          <6>1. lp.rd \in Index
            BY <1>1
          <6>2. Ahead(lp.rd, 0) = lp.rd
            BY <6>1 DEF Ahead
          <6> QED BY <6>2, <4>2, <1>6
        <5> QED BY <5>1, <4>1, <1>2, <1>5, <1>6
      <4>3. CASE Distance(lp.rd, i) # 0
        <5>1. ~Used(lp, i)
          BY <4>3, <3>2, <1>3, <1>6 DEF ScanStops
        <5> QED BY <5>1, <4>1, <1>2, <1>5, <1>6
      <4> QED BY <4>2, <4>3
    <3> QED BY <3>1, <3>2, <1>6
  <2> HIDE DEF r
  <2>7. /\ (m - d <= e - d)'
        /\ (adding => e - d > 0 /\ lp.wr = Ahead(lp.rd, (e - d) - 1) /\ (m - d = e - d => DoneWithMyRd))'
        /\ (~adding => lp.wr = Ahead(lp.rd, e - d))'
        /\ (NextToRoute = Ahead(lp.rd, m - d))'
    BY <2>1, <2>2, <2>4, <1>1, <1>4, <1>7
  <2>8. (e - d > 0 => Used(lp, lp.rd) /\ ~Clearing(lp.rd))'
    BY <2>5, <1>1, <1>4 DEF Used, Clearing
  <2>9. \A i \in Index : LET k == Distance(lp'.rd, i)
                        IN  /\ k >= e - d => ~Used(lp, i)' \/ Clearing(i)'
                            /\ m - d <= k /\ k < e - d => Unrouted(i)' /\ ~BeingFreed(i)'
                            /\ k < m - d /\ Unrouted(i)' => BeingFreed(i)'
    BY <2>6, <1>4, <1>7
  <2> QED BY <2>7, <2>8, <2>9 DEF RingShape
<1> QED BY <1>5, <1>9

\* The first store of mii_free_index.
LEMMA FreeMoveRdStep ==
    ASSUME IInv, FreeMoveRd
    PROVE  IInv'
<1>1. /\ lp.rd \in Index /\ lp.wr \in Index /\ idx \in Index /\ TypeOK
      /\ lp.ptrs \in [Index -> Packets \cup {Null}]
      /\ pc = "freeRd" /\ pc' = "freeSlot" /\ StoreSettled(idx)
      /\ UNCHANGED <<adding, myRd, idx, ret, todo, fifo, notified, status, etypes, link>>
  BY QueueTyped DEF IInv, TypeOK, FreeMoveRd, configVars
<1>2. lp' \in QueueOf(Packets) /\ lp'.wr = lp.wr /\ lp'.ptrs = lp.ptrs
  <2>1. MoveMyRdIndex(lp, idx) \in Index
    BY <1>1, MoveMyRdIndexType
  <2> QED BY <2>1, <1>1, QueueTyped DEF FreeMoveRd, MoveRdOff, QueueOf
<1>3. \A i \in Index : /\ Used(lp, i)' = Used(lp, i) /\ Unrouted(i)' = Unrouted(i)
                       /\ BeingFreed(i)' = BeingFreed(i)
                       /\ Clearing(i)' = (i = idx) /\ ~Clearing(i)
                       /\ Holders(i)' = Holders(i)
  BY <1>1, <1>2 DEF Used, Unrouted, BeingFreed, Clearing, Holders
<1>4. TypeOK'
  BY <1>1, <1>2 DEF TypeOK, PcValues
<1>5. Ring'
  <2>1. PICK e \in 0 .. NumPointers, m \in 0 .. NumPointers : RingShape(e, m)
    BY DEF IInv, Ring
  <2>2. CASE idx = lp.rd
    <3>1. PICK d \in 1 .. m : RingShape(e - d, m - d)'
      BY <2>1, <2>2, MoveRdShape
    <3>2. m <= e
      BY <2>1 DEF RingShape
    <3>3. e - d \in 0 .. NumPointers /\ m - d \in 0 .. NumPointers
      BY <3>2
    <3> QED BY <3>1, <3>3 DEF Ring
  <2>3. CASE idx # lp.rd
    <3>1. lp' = lp
      BY <2>3 DEF FreeMoveRd, MoveRdOff
    <3>2. RingShape(e, m)'
      BY <2>1, <2>3, <3>1, <1>1, <1>3 DEF RingShape, NextToRoute, DoneWithMyRd
    <3> QED BY <3>2 DEF Ring
  <2> QED BY <2>2, <2>3
<1>6. AddingUsed'
  BY <1>1, <1>2 DEF IInv, AddingUsed, Clearing, StoreSettled, Used
<1>7. NoDuplicates' /\ HeldSlotsCounted' /\ RoutedHeld'
  BY <1>1, <1>2, <1>3 DEF IInv, NoDuplicates, HeldSlotsCounted, RoutedHeld, Used
<1>8. FreedUnheld' /\ RoutingMyRd'
  BY <1>1, <1>3 DEF IInv, FreedUnheld, RoutingMyRd
<1> QED BY <1>4, <1>5, <1>6, <1>7, <1>8 DEF IInv

\* The second store of mii_free_index: rd is no longer on the slot.
LEMMA FreeClearSlotStep ==
    ASSUME IInv, FreeClearSlot
    PROVE  IInv'
<1>1. /\ lp.rd \in Index /\ lp.wr \in Index /\ idx \in Index /\ TypeOK
      /\ lp.ptrs \in [Index -> Packets \cup {Null}]
      /\ pc = "freeSlot" /\ Clearing(idx) /\ Used(lp, idx) /\ Holders(idx) = {}
      /\ UNCHANGED <<adding, myRd, todo, fifo, notified, status, etypes, link>>
  BY QueueTyped DEF IInv, TypeOK, FreeClearSlot, configVars, Clearing, FreedUnheld
<1>2. /\ pc' \in {"select", "incoming", "move", "drop"} /\ (pc' = "move" <=> ret = "move")
      /\ idx' \in Index /\ ret' = "incoming"
  BY <1>1 DEF FreeClearSlot, TypeOK
<1>3. /\ lp' \in QueueOf(Packets) /\ lp'.rd = lp.rd /\ lp'.wr = lp.wr
      /\ lp'.ptrs = [lp.ptrs EXCEPT ![idx] = Null]
  BY <1>1, QueueTyped DEF FreeClearSlot, ClearSlot, QueueOf
<1>4. /\ \A i \in Index \ {idx} : lp'.ptrs[i] = lp.ptrs[i]
      /\ lp'.ptrs[idx] = Null
  BY <1>1, <1>3
<1>5. /\ \A i \in Index \ {idx} : Used(lp, i)' = Used(lp, i) /\ Unrouted(i)' = Unrouted(i)
      /\ \A i \in Index : /\ i = idx => ~Used(lp, i)' /\ ~Unrouted(i)'
                          /\ BeingFreed(i) <=> i = idx
                          /\ Clearing(i) <=> i = idx
                          /\ ~BeingFreed(i)' /\ ~Clearing(i)'
                          /\ Holders(i)' = Holders(i)
  BY <1>1, <1>2, <1>4 DEF Used, Unrouted, BeingFreed, Clearing, Holders
<1>6. TypeOK'
  BY <1>1, <1>2, <1>3 DEF TypeOK, PcValues
<1>7. Ring'
  <2>1. PICK e \in 0 .. NumPointers, m \in 0 .. NumPointers : RingShape(e, m)
    BY DEF IInv, Ring
  <2>2. NextToRoute' = NextToRoute /\ DoneWithMyRd' = DoneWithMyRd
    BY <1>1, <1>2 DEF NextToRoute, DoneWithMyRd
  <2>3. e > 0 => lp.rd # idx
    BY <2>1, <1>1 DEF RingShape, Clearing
  <2>4. (e > 0 => Used(lp, lp.rd) /\ ~Clearing(lp.rd))'
    BY <2>1, <2>3, <1>1, <1>2, <1>3, <1>4 DEF RingShape, Used, Clearing
  <2>5. ASSUME NEW i \in Index
        PROVE  LET k == Distance(lp.rd, i)
               IN  /\ k >= e => ~Used(lp, i)' \/ Clearing(i)'
                   /\ m <= k /\ k < e => Unrouted(i)' /\ ~BeingFreed(i)'
                   /\ k < m /\ Unrouted(i)' => BeingFreed(i)'
    BY <2>1, <1>5 DEF RingShape
  <2>6. RingShape(e, m)'
    BY <2>1, <2>2, <2>4, <2>5, <1>1, <1>3 DEF RingShape
  <2> QED BY <2>6 DEF Ring
<1>8. AddingUsed'
  BY <1>1, <1>2, <1>3, <1>4 DEF IInv, AddingUsed, Clearing, Used
<1>9. NoDuplicates'
  BY <1>1 DEF IInv, NoDuplicates
<1>10. HeldSlotsCounted' /\ RoutedHeld'
  BY <1>1, <1>4, <1>5 DEF IInv, HeldSlotsCounted, RoutedHeld, Used
<1>11. FreedUnheld' /\ RoutingMyRd'
  BY <1>2 DEF FreedUnheld, RoutingMyRd
<1> QED BY <1>6, <1>7, <1>8, <1>9, <1>10, <1>11 DEF IInv

----------------------------------------------------------------------------
(* The server's own index.                                                 *)

\* The next slot is in use or wr, so the scan takes a single step.
LEMMA MyRdMovesByOne ==
    ASSUME IInv, MoveMyRd
    PROVE  /\ myRd' = NextIndex(myRd)
           /\ \E e, m \in 0 .. NumPointers :
                 RingShape(e, m) /\ myRd' = Ahead(lp.rd, m) /\ ~(adding /\ m = e)
<1>1. lp.rd \in Index /\ lp.wr \in Index /\ myRd \in Index /\ pc = "move" /\ StoreSettled(myRd)
  BY QueueTyped DEF IInv, TypeOK, MoveMyRd
<1>2. PICK e \in 0 .. NumPointers, m \in 0 .. NumPointers : RingShape(e, m)
  BY DEF IInv, Ring
<1>3. NextIndex(myRd) = Ahead(lp.rd, m) /\ m <= e
  BY <1>1, <1>2 DEF RingShape, NextToRoute, DoneWithMyRd
<1>4. ~(adding /\ m = e)
  <2> SUFFICES ASSUME adding, m = e PROVE FALSE
    OBVIOUS
  <2>1. e > 0 /\ lp.wr = Ahead(lp.rd, e - 1)
    BY <1>2 DEF RingShape
  <2>2. myRd = lp.wr
    BY <2>1, <1>1, <1>3 DEF NextIndex, Ahead
  <2> QED BY <2>2, <1>1 DEF StoreSettled
<1>5. ScanStops(lp, Ahead(myRd, 1))
  <2>1. CASE m = e
    BY <2>1, <1>2, <1>3, <1>4 DEF RingShape, NextIndex, ScanStops
  <2>2. CASE m < e
    <3>1. Ahead(lp.rd, m) \in Index /\ Distance(lp.rd, Ahead(lp.rd, m)) = m
      BY <2>2, <1>1 DEF Ahead, Distance
    <3> QED BY <3>1, <2>2, <1>2, <1>3 DEF RingShape, NextIndex, ScanStops, Unrouted
  <2> QED BY <2>1, <2>2, <1>3
<1>6. PICK k \in 1 .. NumPointers :
         /\ MoveMyRdIndex(lp, myRd) = Ahead(myRd, k)
         /\ \A n \in 1 .. k - 1 : ~ScanStops(lp, Ahead(myRd, n))
  BY <1>1, MoveMyRdIndexStops
<1>7. k = 1
  BY <1>5, <1>6
<1>8. myRd' = NextIndex(myRd)
  BY <1>6, <1>7 DEF MoveMyRd, NextIndex
<1> QED BY <1>2, <1>3, <1>4, <1>8

LEMMA MoveMyRdStep ==
    ASSUME IInv, MoveMyRd
    PROVE  IInv'
<1>1. /\ lp.rd \in Index /\ lp.wr \in Index /\ myRd \in Index /\ TypeOK
      /\ pc = "move" /\ pc' \in {"select", "drop"}
      /\ UNCHANGED <<lp, adding, idx, ret, fifo, notified, status, etypes, link>>
  BY QueueTyped DEF IInv, TypeOK, MoveMyRd, EndIncoming, configVars
<1>2. todo' \subseteq Clients
  BY <1>1 DEF TypeOK, MoveMyRd, EndIncoming
<1>3. \A i \in Index : /\ Unrouted(i)' = Unrouted(i) /\ Holders(i)' = Holders(i)
                       /\ ~BeingFreed(i) /\ ~Clearing(i)
                       /\ ~BeingFreed(i)' /\ ~Clearing(i)'
  BY <1>1 DEF Unrouted, BeingFreed, Clearing, Holders
<1>4. PICK e \in 0 .. NumPointers, m \in 0 .. NumPointers :
         RingShape(e, m) /\ myRd' = Ahead(lp.rd, m) /\ ~(adding /\ m = e)
  BY MyRdMovesByOne
<1>5. myRd' \in Index
  BY <1>1, MyRdMovesByOne, NumPointersAssumption DEF NextIndex, Ahead
<1>6. TypeOK'
  BY <1>1, <1>2, <1>5 DEF TypeOK, PcValues
<1>7. Ring'
  <2>1. NextToRoute' = Ahead(lp.rd, m) /\ Clearing(lp.rd)' = Clearing(lp.rd)
    BY <1>1, <1>4 DEF NextToRoute, DoneWithMyRd, Clearing
  <2>2. RingShape(e, m)'
    BY <2>1, <1>1, <1>3, <1>4 DEF RingShape
  <2> QED BY <2>2 DEF Ring
<1>8. AddingUsed' /\ NoDuplicates'
  BY <1>1 DEF IInv, AddingUsed, NoDuplicates, Clearing
<1>9. HeldSlotsCounted' /\ RoutedHeld' /\ FreedUnheld' /\ RoutingMyRd'
  BY <1>1, <1>3 DEF IInv, HeldSlotsCounted, RoutedHeld, FreedUnheld, RoutingMyRd
<1> QED BY <1>6, <1>7, <1>8, <1>9 DEF IInv

----------------------------------------------------------------------------
(* Letting go of a packet.                                                 *)

\* What taking the head off a fifo does to the holders of the slots.
LEMMA HeadReleased ==
    ASSUME TypeOK, NoDuplicates, NEW c \in Clients, fifo[c] # <<>>,
           fifo' = [fifo EXCEPT ![c] = Tail(@)],
           NEW h, h = Head(fifo[c])
    PROVE  /\ h \in Index
           /\ fifo' \in [Clients -> Seq(Index)]
           /\ c \in Holders(h)
           /\ Holders(h)' = Holders(h) \ {c}
           /\ \A i \in Index \ {h} : Holders(i)' = Holders(i)
           /\ NoDuplicates'
<1>1. PICK f \in Seq(Index) : f = fifo[c]
  BY DEF TypeOK
<1>2. /\ Len(f) \in Nat /\ Len(f) > 0 /\ h = f[1] /\ h \in Index
      /\ Tail(f) \in Seq(Index) /\ Len(Tail(f)) = Len(f) - 1
      /\ \A k \in 1 .. Len(f) - 1 : Tail(f)[k] = f[k + 1]
  <2>1. f # <<>> /\ h = Head(f)
    BY <1>1
  <2>2. Len(f) \in Nat /\ Len(f) > 0
    BY <2>1
  <2>3. h = f[1] /\ h \in Index
    BY <2>1, <2>2
  <2>4. Tail(f) \in Seq(Index) /\ Len(Tail(f)) = Len(f) - 1
    BY <2>2
  <2>5. \A k \in 1 .. Len(f) - 1 : Tail(f)[k] = f[k + 1]
    BY <2>2
  <2> QED BY <2>2, <2>3, <2>4, <2>5
<1>3. /\ fifo' \in [Clients -> Seq(Index)]
      /\ fifo'[c] = Tail(f)
      /\ \A b \in Clients \ {c} : fifo'[b] = fifo[b]
  BY <1>1, <1>2 DEF TypeOK
<1>4. c \in Holders(h)
  BY <1>1, <1>2 DEF Holders
<1>5. \A k \in 1 .. Len(f) - 1 : f[k + 1] # h
  BY <1>1, <1>2 DEF NoDuplicates
<1>6. c \notin Holders(h)'
  <2>1. ASSUME NEW k \in 1 .. Len(fifo'[c]) PROVE fifo'[c][k] # h
    <3>1. k \in 1 .. Len(f) - 1 /\ fifo'[c][k] = f[k + 1]
      BY <2>1, <1>2, <1>3
    <3> QED BY <3>1, <1>5
  <2> QED BY <2>1 DEF Holders
<1>7. \A b \in Clients \ {c} : \A i \in Index : b \in Holders(i)' <=> b \in Holders(i)
  BY <1>3 DEF Holders
<1>8. ASSUME NEW i \in Index, i # h PROVE c \in Holders(i)' <=> c \in Holders(i)
  <2>1. ASSUME NEW k \in 1 .. Len(f), f[k] = i PROVE \E n \in 1 .. Len(f) - 1 : Tail(f)[n] = i
    <3>1. k # 1
      BY <2>1, <1>2, <1>8
    <3>2. k - 1 \in 1 .. Len(f) - 1 /\ Tail(f)[k - 1] = i
      BY <3>1, <2>1, <1>2
    <3> QED BY <3>2
  <2>2. ASSUME NEW n \in 1 .. Len(f) - 1, Tail(f)[n] = i PROVE \E k \in 1 .. Len(f) : f[k] = i
    <3>1. n + 1 \in 1 .. Len(f) /\ f[n + 1] = i
      BY <2>2, <1>2
    <3> QED BY <3>1
  <2> QED BY <2>1, <2>2, <1>1, <1>2, <1>3 DEF Holders
<1>9. Holders(h) \subseteq Clients /\ \A i \in Index : Holders(i)' \subseteq Clients
  BY DEF Holders
<1>10. Holders(h)' = Holders(h) \ {c}
  BY <1>2, <1>6, <1>7, <1>9
<1>11. \A i \in Index \ {h} : Holders(i)' = Holders(i)
  <2>1. ASSUME NEW i \in Index, i # h PROVE Holders(i)' = Holders(i)
    <3>1. Holders(i) \subseteq Clients /\ Holders(i)' \subseteq Clients
      BY DEF Holders
    <3>2. \A b \in Clients : b \in Holders(i)' <=> b \in Holders(i)
      BY <2>1, <1>7, <1>8
    <3> QED BY <3>1, <3>2
  <2> QED BY <2>1
<1>12. NoDuplicates'
  <2>1. ASSUME NEW j \in 1 .. Len(f) - 1, NEW k \in 1 .. Len(f) - 1, Tail(f)[j] = Tail(f)[k]
        PROVE  j = k
    BY <2>1, <1>1, <1>2 DEF NoDuplicates
  <2> QED BY <2>1, <1>2, <1>3 DEF NoDuplicates
<1> QED BY <1>2, <1>3, <1>4, <1>10, <1>11, <1>12

\* get_packet and drop_lp_packets count down, and the client that finds the
\* count at 0 is the last holder.
LEMMA ReleaseHeadStep ==
    ASSUME IInv, NEW c \in Clients, NEW back \in {"incoming", "drop"}, ReleaseHead(c, back),
           fifo[c] # <<>>, pc \in {"select", "drop"},
           UNCHANGED <<adding, myRd, status, etypes, link>>,
           todo' \subseteq Clients, notified' \in [Clients -> BOOLEAN]
    PROVE  IInv'
<1>0. PICK i \in Index : i = Head(fifo[c])
  BY DEF IInv, TypeOK
<1> DEFINE H == Holders(i)
<1>1. /\ TypeOK /\ lp.rd \in Index /\ lp.wr \in Index
      /\ lp.ptrs \in [Index -> Packets \cup {Null}]
  BY QueueTyped DEF IInv
<1>2. fifo' = [fifo EXCEPT ![c] = Tail(@)]
  BY DEF ReleaseHead
<1>3. /\ i \in Index /\ fifo' \in [Clients -> Seq(Index)] /\ c \in H
      /\ Holders(i)' = H \ {c}
      /\ \A j \in Index \ {i} : Holders(j)' = Holders(j)
      /\ NoDuplicates'
  BY <1>0, <1>1, <1>2, HeadReleased DEF IInv
<1>4. Used(lp, i) /\ lp.ptrs[i].tcount = Cardinality(H) - 1
  BY <1>3 DEF IInv, HeldSlotsCounted
<1>5. /\ Cardinality(H) \in 1 .. Cardinality(Clients) /\ IsFiniteSet(H)
      /\ Cardinality(H \ {c}) = Cardinality(H) - 1
      /\ Cardinality(H) = 1 => H \ {c} = {}
  <2>1. H \subseteq Clients
    BY DEF Holders
  <2>2. IsFiniteSet(H) /\ Cardinality(H) \in Nat /\ Cardinality(H) > 0
    BY <2>1, <1>3, ClientsFinite
  <2>3. Cardinality(H \ {c}) = Cardinality(H) - 1 /\ IsFiniteSet(H \ {c})
    BY <2>2, <1>3, FS_RemoveElement
  <2>4. Cardinality(H \ {c}) = 0 => H \ {c} = {}
    BY <2>3, FS_EmptySet
  <2> QED BY <2>1, <2>2, <2>3, <2>4, ClientsFinite
<1> HIDE DEF H
<1>6. PICK e \in 0 .. NumPointers, m \in 0 .. NumPointers : RingShape(e, m)
  BY DEF IInv, Ring
<1>7. /\ \A j \in Index : ~BeingFreed(j) /\ ~Clearing(j)
      /\ ~DoneWithMyRd /\ pc # "route"
  BY DEF BeingFreed, Clearing, DoneWithMyRd
<1>8. CASE lp.ptrs[i].tcount = 0
  <2>1. lp' = lp /\ pc' = "freeRd" /\ idx' = i /\ ret' = back
    BY <1>0, <1>8 DEF ReleaseHead, StartFree
  <2>2. /\ \A j \in Index : ~Clearing(j)' /\ Unrouted(j)' = Unrouted(j)
        /\ \A j \in Index : BeingFreed(j)' <=> j = i
        /\ ~DoneWithMyRd'
    BY <2>1 DEF Clearing, BeingFreed, Unrouted, DoneWithMyRd
  <2>3. ~Unrouted(i) /\ Holders(i)' = {}
    BY <1>3, <1>4, <1>5, <1>8 DEF Unrouted, NotRouted
  <2>4. TypeOK'
    BY <2>1, <1>1, <1>3 DEF TypeOK, PcValues
  <2>5. RingShape(e, m)'
    <3>1. NextToRoute' = NextToRoute
      BY <2>1 DEF NextToRoute, DoneWithMyRd
    <3>2. Clearing(lp.rd)' = Clearing(lp.rd)
      BY <2>1, <1>7, <1>1 DEF Clearing
    <3> QED BY <2>1, <2>2, <2>3, <3>1, <3>2, <1>6, <1>7 DEF RingShape
  <2>6. Ring'
    BY <2>5 DEF Ring
  <2>7. AddingUsed'
    BY <2>1 DEF IInv, AddingUsed, Clearing
  <2>8. HeldSlotsCounted'
    BY <2>1, <2>3, <1>3 DEF IInv, HeldSlotsCounted
  <2>9. RoutedHeld'
    <3>1. ASSUME NEW j \in Index, Used(lp, j)', lp'.ptrs[j].tcount # NotRouted, ~BeingFreed(j)'
          PROVE  Holders(j)' # {}
      <4>1. j # i
        BY <3>1, <2>2
      <4>2. Used(lp, j) /\ lp.ptrs[j].tcount # NotRouted
        BY <3>1, <2>1 DEF Used
      <4>3. Holders(j) # {}
        BY <4>2, <1>7 DEF IInv, RoutedHeld
      <4> QED BY <4>1, <4>3, <1>3
    <3> QED BY <3>1 DEF RoutedHeld
  <2>10. FreedUnheld' /\ RoutingMyRd'
    BY <2>1, <2>3, <1>4 DEF FreedUnheld, RoutingMyRd
  <2> QED BY <2>4, <2>6, <2>7, <2>8, <2>9, <2>10, <1>3 DEF IInv
<1>9. CASE lp.ptrs[i].tcount # 0
  <2> DEFINE p == [lp.ptrs[i] EXCEPT !.tcount = @ - 1]
  <2>1. /\ lp' = [lp EXCEPT !.ptrs[i].tcount = @ - 1]
        /\ pc' \in {"select", "incoming", "drop"} /\ UNCHANGED <<idx, ret>>
    BY <1>0, <1>9 DEF ReleaseHead
  <2>2. /\ lp.ptrs[i] \in Packets /\ lp.ptrs[i].tcount \in Int
        /\ lp.ptrs[i].tcount > 0 /\ lp.ptrs[i].tcount < Cardinality(Clients)
    BY <1>1, <1>3, <1>4, <1>5, <1>9, QueueTyped, ClientsFinite
  <2>3. p \in Packets /\ p.tcount = lp.ptrs[i].tcount - 1
    <3>1. lp.ptrs[i].tcount - 1 \in NotRouted .. Cardinality(Clients) - 1
      BY <2>2, ClientsFinite DEF NotRouted
    <3>2. ASSUME NEW x \in Packets, NEW n \in NotRouted .. Cardinality(Clients) - 1
          PROVE  [x EXCEPT !.tcount = n] \in Packets /\ [x EXCEPT !.tcount = n].tcount = n
      BY DEF Packets
    <3> QED BY <3>1, <3>2, <2>2
  <2>4. /\ lp' \in QueueOf(Packets) /\ lp'.rd = lp.rd /\ lp'.wr = lp.wr
        /\ lp'.ptrs = [lp.ptrs EXCEPT ![i] = p]
    <3>1. lp' = [rd |-> lp.rd, wr |-> lp.wr, ptrs |-> [lp.ptrs EXCEPT ![i] = p]]
      BY <2>1, <1>1, QueueTyped
    <3> HIDE DEF p
    <3> QED BY <3>1, <2>3, <1>1, <1>3 DEF QueueOf
  <2>5. p # Null
    BY <2>3, NullAssumption
  <2> HIDE DEF p
  <2>6. lp'.ptrs[i] = p /\ \A j \in Index \ {i} : lp'.ptrs[j] = lp.ptrs[j]
    BY <2>4, <1>1, <1>3
  <2>7. /\ \A j \in Index : Used(lp, j)' = Used(lp, j) /\ Unrouted(j)' = Unrouted(j)
        /\ \A j \in Index : ~BeingFreed(j)' /\ ~Clearing(j)'
        /\ ~DoneWithMyRd'
    <3>1. ASSUME NEW j \in Index PROVE Used(lp, j)' = Used(lp, j) /\ Unrouted(j)' = Unrouted(j)
      <4>1. CASE j = i
        BY <4>1, <2>2, <2>3, <2>5, <2>6, <1>4 DEF Used, Unrouted, NotRouted
      <4>2. CASE j # i
        BY <4>2, <2>6 DEF Used, Unrouted
      <4> QED BY <4>1, <4>2
    <3> QED BY <3>1, <2>1 DEF BeingFreed, Clearing, DoneWithMyRd
  <2>8. TypeOK'
    BY <2>1, <2>4, <1>1, <1>3 DEF TypeOK, PcValues
  <2>9. RingShape(e, m)'
    <3>1. NextToRoute' = NextToRoute
      BY <2>7, <1>7 DEF NextToRoute
    <3>2. (e > 0 => Used(lp, lp.rd) /\ ~Clearing(lp.rd))'
      BY <2>1, <2>4, <2>7, <1>1, <1>6 DEF RingShape, Clearing, Used
    <3> QED BY <2>4, <2>7, <3>1, <3>2, <1>6, <1>7 DEF RingShape
  <2>10. Ring'
    BY <2>9 DEF Ring
  <2>11. AddingUsed'
    BY <2>1, <2>4, <2>7, <1>1 DEF IInv, AddingUsed, Clearing, Used
  <2>12. HeldSlotsCounted'
    <3>1. Holders(i)' # {} => Used(lp, i)' /\ lp'.ptrs[i].tcount = Cardinality(Holders(i)') - 1
      BY <2>3, <2>6, <2>7, <1>3, <1>4, <1>5
    <3>2. \A j \in Index \ {i} : Holders(j)' # {} =>
             Used(lp, j)' /\ lp'.ptrs[j].tcount = Cardinality(Holders(j)') - 1
      BY <2>6, <2>7, <1>3 DEF IInv, HeldSlotsCounted
    <3> QED BY <3>1, <3>2 DEF HeldSlotsCounted
  <2>13. RoutedHeld'
    <3>1. Holders(i)' # {}
      <4>1. Cardinality(H \ {c}) # 0
        BY <2>2, <1>4, <1>5
      <4>2. H \ {c} # {}
        BY <4>1, FS_EmptySet
      <4> QED BY <4>2, <1>3
    <3> QED BY <3>1, <2>6, <2>7, <1>3, <1>7 DEF IInv, RoutedHeld
  <2>14. FreedUnheld' /\ RoutingMyRd'
    BY <2>1 DEF FreedUnheld, RoutingMyRd
  <2> QED BY <2>8, <2>10, <2>11, <2>12, <2>13, <2>14, <1>3 DEF IInv
<1> QED BY <1>8, <1>9

\* get_packet with a packet to get.
LEMMA GetDataStep ==
    ASSUME IInv, NEW c \in Clients, GetData(c)
    PROVE  IInv'
<1>1. todo' \subseteq Clients /\ notified' \in [Clients -> BOOLEAN]
  BY DEF IInv, TypeOK, GetData
<1> QED BY <1>1, ReleaseHeadStep DEF GetData, configVars

\* drop_lp_packets at a client with packets.
LEMMA DropHeadStep ==
    ASSUME IInv, NEW c \in Clients, DropHead(c)
    PROVE  IInv'
<1>1. todo' \subseteq Clients /\ notified' \in [Clients -> BOOLEAN]
  BY DEF IInv, TypeOK, DropHead
<1> QED BY <1>1, ReleaseHeadStep DEF DropHead, configVars

----------------------------------------------------------------------------
(* Handing out a packet.                                                   *)

\* What appending a slot that nobody holds does to the holders.
LEMMA TakersAppended ==
    ASSUME TypeOK, NoDuplicates, NEW h \in Index, Holders(h) = {}, NEW T \in SUBSET Clients,
           fifo' = [c \in Clients |-> IF c \in T THEN Append(fifo[c], h) ELSE fifo[c]]
    PROVE  /\ fifo' \in [Clients -> Seq(Index)]
           /\ Holders(h)' = T
           /\ \A i \in Index \ {h} : Holders(i)' = Holders(i)
           /\ NoDuplicates'
<1>1. /\ \A c \in Clients : fifo[c] \in Seq(Index) /\ Len(fifo[c]) \in Nat
      /\ \A c \in Clients \ T : fifo'[c] = fifo[c]
      /\ \A c \in T : fifo'[c] = Append(fifo[c], h)
  BY DEF TypeOK
<1>2. \A c \in T : /\ fifo'[c] \in Seq(Index)
                   /\ Len(fifo'[c]) = Len(fifo[c]) + 1
                   /\ fifo'[c][Len(fifo[c]) + 1] = h
                   /\ \A k \in 1 .. Len(fifo[c]) : fifo'[c][k] = fifo[c][k]
  <2> SUFFICES ASSUME NEW c \in T, NEW f \in Seq(Index), f = fifo[c]
               PROVE  /\ Append(f, h) \in Seq(Index)
                      /\ Len(Append(f, h)) = Len(f) + 1
                      /\ Append(f, h)[Len(f) + 1] = h
                      /\ \A k \in 1 .. Len(f) : Append(f, h)[k] = f[k]
    BY <1>1
  <2> QED OBVIOUS
<1>3. fifo' \in [Clients -> Seq(Index)]
  BY <1>1, <1>2
<1>4. \A c \in Clients : \A k \in 1 .. Len(fifo[c]) : fifo[c][k] # h
  BY DEF Holders
<1>5. ASSUME NEW c \in Clients, NEW i \in Index
      PROVE  c \in Holders(i)' <=> c \in Holders(i) \/ (c \in T /\ i = h)
  <2>1. CASE c \in T
    <3>1. (\E k \in 1 .. Len(fifo'[c]) : fifo'[c][k] = i)
            <=> (\E k \in 1 .. Len(fifo[c]) : fifo[c][k] = i) \/ i = h
      BY <2>1, <1>1, <1>2
    <3> QED BY <2>1, <3>1 DEF Holders
  <2>2. CASE c \notin T
    BY <2>2, <1>1 DEF Holders
  <2> QED BY <2>1, <2>2
<1>6. ASSUME NEW i \in Index
      PROVE  Holders(i)' = Holders(i) \cup (IF i = h THEN T ELSE {})
  <2>1. Holders(i)' \subseteq Clients /\ Holders(i) \subseteq Clients
    BY DEF Holders
  <2> QED BY <2>1, <1>5
<1>7. NoDuplicates'
  <2> SUFFICES ASSUME NEW c \in Clients,
                      NEW j \in 1 .. Len(fifo'[c]), NEW k \in 1 .. Len(fifo'[c]),
                      fifo'[c][j] = fifo'[c][k]
               PROVE  j = k
    BY DEF NoDuplicates
  <2>1. CASE c \notin T
    BY <2>1, <1>1 DEF NoDuplicates
  <2>2. CASE c \in T
    <3>1. CASE j \in 1 .. Len(fifo[c]) /\ k \in 1 .. Len(fifo[c])
      BY <2>2, <3>1, <1>2 DEF NoDuplicates
    <3>2. CASE ~(j \in 1 .. Len(fifo[c]) /\ k \in 1 .. Len(fifo[c]))
      <4> DEFINE n == Len(fifo[c])
      <4>1. n \in Nat /\ j \in 1 .. n + 1 /\ k \in 1 .. n + 1
        BY <2>2, <1>1, <1>2
      <4>2. fifo'[c][n + 1] = h /\ \A l \in 1 .. n : fifo'[c][l] # h
        BY <2>2, <1>2, <1>4
      <4> HIDE DEF n
      <4>3. ~(j \in 1 .. n /\ k \in 1 .. n)
        BY <3>2 DEF n
      <4>4. (j = n + 1 \/ j \in 1 .. n) /\ (k = n + 1 \/ k \in 1 .. n)
        BY <4>1
      <4> QED BY <4>2, <4>3, <4>4
    <3> QED BY <3>1, <3>2
  <2> QED BY <2>1, <2>2
<1> QED BY <1>3, <1>6, <1>7

\* One more packet has been handed out, or is freed at once.
LEMMA RouteStep ==
    ASSUME IInv, Route
    PROVE  IInv'
<1>0. PICK h \in Index : h = idx
  BY DEF IInv, TypeOK
<1>1. /\ TypeOK /\ lp.rd \in Index /\ lp.wr \in Index
      /\ lp.ptrs \in [Index -> Packets \cup {Null}]
      /\ pc = "route" /\ h = myRd /\ Unrouted(h)
  BY <1>0, QueueTyped DEF IInv, RoutingMyRd, Route
<1>2. Holders(h) = {}
  <2> SUFFICES ASSUME Holders(h) # {} PROVE FALSE
    OBVIOUS
  <2>1. lp.ptrs[h].tcount = Cardinality(Holders(h)) - 1
    BY DEF IInv, HeldSlotsCounted
  <2>2. Cardinality(Holders(h)) \in Nat /\ Cardinality(Holders(h)) > 0
    <3>1. Holders(h) \in SUBSET Clients
      BY DEF Holders
    <3> QED BY <3>1, ClientsFinite
  <2> QED BY <2>1, <2>2, <1>1 DEF Unrouted, NotRouted
<1>3. PICK T \in SUBSET Clients :
         /\ fifo' = [c \in Clients |-> IF c \in T THEN Append(fifo[c], h) ELSE fifo[c]]
         /\ notified' = [c \in Clients |-> notified[c] \/ c \in T]
         /\ IF T = {}
            THEN pc' = "freeRd" /\ idx' = h /\ ret' = "move" /\ lp' = lp
            ELSE /\ lp' = [lp EXCEPT !.ptrs[h].tcount = Cardinality(T) - 1]
                 /\ pc' = "move" /\ idx' = 0 /\ ret' = ret
         /\ UNCHANGED <<adding, myRd, todo, status, etypes, link>>
  <2> DEFINE U == {c \in Clients : Wants(c, lp.ptrs[h]) /\ HasSpace(c)}
  <2>1. /\ fifo' = [c \in Clients |-> IF c \in U THEN Append(fifo[c], h) ELSE fifo[c]]
        /\ notified' = [c \in Clients |-> notified[c] \/ c \in U]
        /\ IF U = {}
           THEN pc' = "freeRd" /\ idx' = h /\ ret' = "move" /\ lp' = lp
           ELSE /\ lp' = [lp EXCEPT !.ptrs[h].tcount = Cardinality(U) - 1]
                /\ pc' = "move" /\ idx' = 0 /\ ret' = ret
        /\ UNCHANGED <<adding, myRd, todo, status, etypes, link>>
    BY <1>0 DEF Route, StartFree, configVars
  <2>2. \E S \in SUBSET Clients : S = U
    OBVIOUS
  <2> HIDE DEF U
  <2> QED BY <2>1, <2>2
<1>4. /\ fifo' \in [Clients -> Seq(Index)] /\ NoDuplicates'
      /\ Holders(h)' = T
      /\ \A i \in Index \ {h} : Holders(i)' = Holders(i)
  BY <1>1, <1>2, <1>3, TakersAppended DEF IInv
<1>5. notified' \in [Clients -> BOOLEAN]
  BY <1>1, <1>3 DEF TypeOK
<1>6. Used(lp, h) /\ lp.ptrs[h] \in Packets
  BY <1>1, QueueTyped DEF Unrouted
<1>7. PICK e \in 0 .. NumPointers, m \in 0 .. NumPointers : RingShape(e, m)
  BY DEF IInv, Ring
<1>8. /\ \A i \in Index : ~BeingFreed(i) /\ ~Clearing(i)
      /\ ~DoneWithMyRd /\ h = Ahead(lp.rd, m)
  BY <1>1, <1>7 DEF BeingFreed, Clearing, DoneWithMyRd, RingShape, NextToRoute
<1>9. m < e /\ Distance(lp.rd, h) = m
  <2>1. m <= e
    BY <1>7 DEF RingShape
  <2>2. m # e
    <3> SUFFICES ASSUME m = e PROVE FALSE
      OBVIOUS
    <3>1. ~adding /\ h = lp.wr
      BY <1>7, <1>8 DEF RingShape
    <3>2. CASE e = NumPointers
      <4>1. Distance(lp.rd, h) = 0
        BY <3>2, <1>1, <1>8 DEF Ahead, Distance
      <4> QED BY <4>1, <3>2, <1>1, <1>7, <1>8 DEF RingShape
    <3>3. CASE e # NumPointers
      <4>1. Distance(lp.rd, h) = e
        BY <3>3, <1>1, <1>8 DEF Ahead, Distance
      <4> QED BY <4>1, <1>6, <1>7, <1>8 DEF RingShape
    <3> QED BY <3>2, <3>3
  <2> QED BY <2>1, <2>2, <1>1, <1>8 DEF Ahead, Distance
<1>10. \A i \in Index : Distance(lp.rd, i) = m => i = h
  BY <1>1, <1>8, AheadDistance
<1>11. /\ lp' \in QueueOf(Packets) /\ lp'.rd = lp.rd /\ lp'.wr = lp.wr
       /\ \A i \in Index \ {h} : lp'.ptrs[i] = lp.ptrs[i]
       /\ Used(lp, h)'
       /\ T # {} => lp'.ptrs[h].tcount = Cardinality(T) - 1 /\ Cardinality(T) > 0
  <2>1. CASE T = {}
    BY <2>1, <1>1, <1>3, <1>6 DEF Used, TypeOK
  <2>2. CASE T # {}
    <3> DEFINE p == [lp.ptrs[h] EXCEPT !.tcount = Cardinality(T) - 1]
    <3>1. Cardinality(T) \in 1 .. Cardinality(Clients)
      BY <2>2, ClientsFinite
    <3>2. p \in Packets /\ p.tcount = Cardinality(T) - 1
      BY <3>1, <1>6, ClientsFinite DEF Packets, NotRouted
    <3>3. p # Null
      BY <3>2, NullAssumption
    <3>4. lp' = [rd |-> lp.rd, wr |-> lp.wr, ptrs |-> [lp.ptrs EXCEPT ![h] = p]]
      BY <2>2, <1>1, <1>3, QueueTyped
    <3> HIDE DEF p
    <3>5. lp' \in QueueOf(Packets)
      BY <3>2, <3>4, <1>1 DEF QueueOf
    <3>6. lp'.ptrs[h] = p /\ \A i \in Index \ {h} : lp'.ptrs[i] = lp.ptrs[i]
      BY <3>4, <1>1
    <3> QED BY <3>1, <3>2, <3>3, <3>4, <3>5, <3>6 DEF Used
  <2> QED BY <2>1, <2>2
<1>12. /\ \A i \in Index : Used(lp, i)' = Used(lp, i) /\ ~Clearing(i)'
       /\ \A i \in Index \ {h} : Unrouted(i)' = Unrouted(i) /\ ~BeingFreed(i)'
       /\ T = {} <=> BeingFreed(h)'
       /\ T # {} => ~Unrouted(h)'
       /\ DoneWithMyRd'
  <2>1. \A i \in Index : Used(lp, i)' = Used(lp, i)
    BY <1>6, <1>11 DEF Used
  <2>2. T # {} => ~Unrouted(h)'
    <3>1. T # {} => Cardinality(T) \in Nat
      BY ClientsFinite
    <3> QED BY <3>1, <1>11 DEF Unrouted, NotRouted
  <2>3. \A i \in Index \ {h} : Unrouted(i)' = Unrouted(i)
    BY <2>1, <1>11 DEF Unrouted
  <2> QED BY <2>1, <2>2, <2>3, <1>3 DEF Clearing, BeingFreed, DoneWithMyRd
<1>13. TypeOK'
  BY <1>1, <1>3, <1>4, <1>5, <1>11 DEF TypeOK, PcValues
<1>14. Ring'
  <2>1. (NextToRoute = Ahead(lp.rd, m + 1))'
    <3>1. NextToRoute' = NextIndex(h)
      BY <1>1, <1>3, <1>12 DEF NextToRoute, NextIndex
    <3>2. NextIndex(h) = Ahead(lp.rd, m + 1)
      BY <1>1, <1>8, <1>9 DEF NextIndex, Ahead
    <3> QED BY <3>1, <3>2, <1>11
  <2>2. (e > 0 => Used(lp, lp.rd) /\ ~Clearing(lp.rd))'
    <3>1. ~Clearing(lp.rd)'
      BY <1>3 DEF Clearing
    <3> QED BY <3>1, <1>1, <1>7, <1>11, <1>12 DEF RingShape, Used
  <2>3. ASSUME NEW i \in Index
        PROVE  LET k == Distance(lp.rd, i)
               IN  /\ k >= e => ~Used(lp, i)' \/ Clearing(i)'
                   /\ m + 1 <= k /\ k < e => Unrouted(i)' /\ ~BeingFreed(i)'
                   /\ k < m + 1 /\ Unrouted(i)' => BeingFreed(i)'
    <3>1. Distance(lp.rd, i) \in 0 .. NumPointers - 1
      BY <1>1, AheadDistance
    <3>2. CASE i = h
      BY <3>2, <1>9, <1>12
    <3>3. CASE i # h
      BY <3>1, <3>3, <1>7, <1>8, <1>10, <1>12 DEF RingShape
    <3> QED BY <3>2, <3>3
  <2>4. RingShape(e, m + 1)'
    BY <2>1, <2>2, <2>3, <1>3, <1>7, <1>9, <1>11, <1>12 DEF RingShape
  <2>5. m + 1 \in 0 .. NumPointers
    BY <1>9
  <2> QED BY <2>4, <2>5 DEF Ring
<1>15. AddingUsed'
  BY <1>1, <1>3, <1>11, <1>12 DEF IInv, AddingUsed, Clearing, Used
<1>16. HeldSlotsCounted'
  <2>1. \A i \in Index \ {h} : Holders(i)' # {} =>
           Used(lp, i)' /\ lp'.ptrs[i].tcount = Cardinality(Holders(i)') - 1
    BY <1>4, <1>11, <1>12 DEF IInv, HeldSlotsCounted
  <2>2. Holders(h)' # {} => Used(lp, h)' /\ lp'.ptrs[h].tcount = Cardinality(Holders(h)') - 1
    BY <1>4, <1>11
  <2> QED BY <2>1, <2>2 DEF HeldSlotsCounted
<1>17. RoutedHeld'
  <2> SUFFICES ASSUME NEW i \in Index, Used(lp, i)', lp'.ptrs[i].tcount # NotRouted, ~BeingFreed(i)'
               PROVE  Holders(i)' # {}
    BY DEF RoutedHeld
  <2>1. CASE i = h
    BY <2>1, <1>4, <1>12
  <2>2. CASE i # h
    BY <2>2, <1>4, <1>8, <1>11, <1>12 DEF IInv, RoutedHeld
  <2> QED BY <2>1, <2>2
<1>18. FreedUnheld' /\ RoutingMyRd'
  BY <1>1, <1>3, <1>4, <1>11 DEF FreedUnheld, RoutingMyRd
<1> QED BY <1>4, <1>13, <1>14, <1>15, <1>16, <1>17, <1>18 DEF IInv

----------------------------------------------------------------------------
(* The theorems.                                                           *)

\* Every step of the filter, the server and the clients keeps IInv.
LEMMA NextInvariant == IInv /\ [Next]_vars => IInv'
<1> SUFFICES ASSUME IInv, [Next]_vars PROVE IInv'
  OBVIOUS
<1>1. CASE Filter
  BY <1>1, FilterStoreStep, FilterAdvanceStep DEF Filter
<1>2. CASE Configure
  BY <1>2, ConfigStep
<1>3. CASE ServerStep
  <2>1. CASE SelectNothing
    BY <2>1, ConfigStep
  <2>2. CASE TakeNone
    BY <2>2, TakeNoneStep
  <2>3. CASE TakePacket
    BY <2>3, TakePacketStep
  <2>4. CASE Route
    BY <2>4, RouteStep
  <2>5. CASE MoveMyRd
    BY <2>5, MoveMyRdStep
  <2>6. CASE FreeMoveRd
    BY <2>6, FreeMoveRdStep
  <2>7. CASE FreeClearSlot
    BY <2>7, FreeClearSlotStep
  <2>8. CASE \E c \in Clients : DropHead(c) \/ DropNothing(c)
    BY <2>8, DropHeadStep, DropNothingStep
  <2> QED BY <1>3, <2>1, <2>2, <2>3, <2>4, <2>5, <2>6, <2>7, <2>8 DEF ServerStep
<1>4. ASSUME NEW c \in Clients, GetPacket(c) PROVE IInv'
  BY <1>4, GetNothingStep, GetDataStep DEF GetPacket
<1>5. CASE UNCHANGED vars
  <2>1. UNCHANGED <<lp, adding, myRd, pc, idx, ret, todo, fifo, notified, status, etypes, link>>
    BY <1>5 DEF vars
  <2>2. TypeOK'
    BY <2>1 DEF IInv, TypeOK
  <2>3. Ring'
    <3>1. PICK e \in 0 .. NumPointers, m \in 0 .. NumPointers : RingShape(e, m)
      BY DEF IInv, Ring
    <3>2. RingShape(e, m)'
      BY <2>1, <3>1 DEF RingShape, NextToRoute, DoneWithMyRd, Unrouted, Used, BeingFreed, Clearing
    <3> QED BY <3>2 DEF Ring
  <2>4. AddingUsed' /\ NoDuplicates'
    BY <2>1 DEF IInv, AddingUsed, NoDuplicates, Clearing
  <2>5. HeldSlotsCounted' /\ RoutedHeld'
    BY <2>1 DEF IInv, HeldSlotsCounted, RoutedHeld, Holders, BeingFreed
  <2>6. FreedUnheld' /\ RoutingMyRd'
    BY <2>1 DEF IInv, FreedUnheld, RoutingMyRd, Holders, Unrouted
  <2> QED BY <2>2, <2>3, <2>4, <2>5, <2>6 DEF IInv
<1> QED BY <1>1, <1>2, <1>3, <1>4, <1>5 DEF Next

\* The shape of the ring of mii_buffering.c, the counts and the fifos of
\* mii_ethernet_rt_mac.xc go together in every reachable state.
THEOREM Invariance == Spec => []IInv
BY InitInvariant, NextInvariant, PTL DEF Spec

\* The variables of the real-time receive path keep their types: no index
\* leaves the ring and no transmit count falls below that of the last
\* holder (mii_get_and_dec_transmit_count).
THEOREM TypeCorrect == Spec => []TypeOK
<1>1. IInv => TypeOK
  BY DEF IInv
<1> QED BY <1>1, Invariance, PTL

\* A slot in a client's fifo holds a packet whose tcount is the number of
\* its holders less one (handle_incoming_packet, get_packet and
\* drop_lp_packets agree on who frees it).
THEOREM HeldSlotsAreCounted == Spec => []HeldSlotsCounted
<1>1. IInv => HeldSlotsCounted
  BY DEF IInv
<1> QED BY <1>1, Invariance, PTL

\* The server never hands out a packet a second time, however far a slow
\* client keeps rd behind (mii_get_my_next_buf, mii_move_my_rd_index).
THEOREM PacketsAreRoutedOnce == Spec => []RoutedOnce
<1>1. IInv => RoutedOnce
  <2> SUFFICES ASSUME IInv, pc = "route" PROVE Unrouted(idx) /\ Holders(idx) = {}
    BY DEF RoutedOnce
  <2>1. idx \in Index /\ Unrouted(idx)
    BY DEF IInv, TypeOK, RoutingMyRd
  <2>2. Holders(idx) # {} => Cardinality(Holders(idx)) \in Nat /\ Cardinality(Holders(idx)) > 0
    <3>1. Holders(idx) \in SUBSET Clients
      BY DEF Holders
    <3> QED BY <3>1, ClientsFinite
  <2> QED BY <2>1, <2>2 DEF IInv, HeldSlotsCounted, Unrouted, NotRouted
<1> QED BY <1>1, Invariance, PTL

\* No slot of the queue is lost: one in use waits, is held or is being
\* freed (mii_free_index out of order, packets nobody takes, drops).
THEOREM NoSlotIsLost == Spec => []NoSlotLost
<1>1. IInv => NoSlotLost
  BY DEF IInv, NoSlotLost, RoutedHeld, Unrouted
<1> QED BY <1>1, Invariance, PTL

\* rd is on the oldest packet in use, so that mii_get_next_rdptr publishes
\* a pointer that protects all the others.
THEOREM RdIsOnOldest == Spec => []RdOnOldest
<1>1. IInv => RdOnOldest
  <2> SUFFICES ASSUME IInv, NEW i \in Index, Used(lp, i), ~BeingFreed(i)
               PROVE  /\ Used(lp, lp.rd)
                      /\ lp.rd # lp.wr => \/ Distance(lp.rd, i) < Distance(lp.rd, lp.wr)
                                          \/ adding /\ i = lp.wr
    BY DEF RdOnOldest
  <2>1. lp.rd \in Index /\ lp.wr \in Index
    BY QueueTyped DEF IInv
  <2>2. PICK e \in 0 .. NumPointers, m \in 0 .. NumPointers : RingShape(e, m)
    BY DEF IInv, Ring
  <2>3. Distance(lp.rd, i) \in 0 .. NumPointers - 1 /\ Ahead(lp.rd, Distance(lp.rd, i)) = i
    BY <2>1, AheadDistance
  <2>4. Distance(lp.rd, i) < e
    BY <2>2, <2>3 DEF RingShape, BeingFreed, Clearing
  <2>5. Used(lp, lp.rd)
    BY <2>2, <2>3, <2>4 DEF RingShape
  <2>6. CASE ~adding /\ lp.rd # lp.wr
    <3>1. lp.wr = Ahead(lp.rd, e)
      BY <2>2, <2>6 DEF RingShape
    <3>2. Distance(lp.rd, lp.wr) = e
      BY <3>1, <2>1, <2>6 DEF Ahead, Distance
    <3> QED BY <3>2, <2>4, <2>5
  <2>7. CASE adding
    <3>1. e > 0 /\ lp.wr = Ahead(lp.rd, e - 1)
      BY <2>2, <2>7 DEF RingShape
    <3>2. Distance(lp.rd, lp.wr) = e - 1
      BY <3>1, <2>1, DistanceAhead
    <3>3. Distance(lp.rd, i) = e - 1 => i = lp.wr
      BY <3>1, <2>3
    <3> QED BY <3>2, <3>3, <2>3, <2>4, <2>5, <2>7
  <2> QED BY <2>5, <2>6, <2>7
<1> QED BY <1>1, Invariance, PTL

\* A step that leaves a client with packets and without a notification of
\* them is a get_packet of that client that reports a link status.
LEMMA HidingStep ==
    ASSUME TypeOK, [Next]_vars, NEW c \in Clients,
           fifo[c] # <<>> => notified[c], fifo'[c] # <<>>, ~notified'[c]
    PROVE  status[c] = "PENDING"
<1>1. CASE Filter \/ UNCHANGED vars
  BY <1>1 DEF Filter, FilterStore, FilterAdvance, vars
<1>2. CASE Configure
  <2>1. ASSUME NEW s \in LinkStates, SetLinkState(s) PROVE status[c] = "PENDING"
    BY <2>1 DEF SetLinkState, ConfigCall
  <2>2. CASE \E b \in Clients, t \in Etypes : AddEtypeFilter(b, t) \/ DelEtypeFilter(b, t)
    BY <2>2 DEF AddEtypeFilter, DelEtypeFilter, ConfigCall
  <2>3. CASE \E b \in Clients : EnableLinkNotification(b) \/ DisableLinkNotification(b)
    BY <2>3 DEF EnableLinkNotification, DisableLinkNotification, ConfigCall
  <2> QED BY <1>2, <2>1, <2>2, <2>3 DEF Configure
<1>3. CASE ServerStep
  <2>1. CASE SelectNothing \/ TakeNone \/ TakePacket \/ MoveMyRd \/ FreeMoveRd \/ FreeClearSlot
    BY <2>1 DEF SelectNothing, ConfigCall, TakeNone, TakePacket, MoveMyRd, FreeMoveRd, FreeClearSlot
  <2>2. CASE Route
    BY <2>2 DEF Route
  <2>3. ASSUME NEW b \in Clients, DropNothing(b) PROVE status[c] = "PENDING"
    BY <2>3 DEF DropNothing
  <2>4. ASSUME NEW b \in Clients, DropHead(b) PROVE status[c] = "PENDING"
    <3>1. notified' = notified /\ fifo[b] # <<>> /\ fifo' = [fifo EXCEPT ![b] = Tail(@)]
      BY <2>4 DEF DropHead, ReleaseHead
    <3> QED BY <3>1 DEF TypeOK
  <2> QED BY <1>3, <2>1, <2>2, <2>3, <2>4 DEF ServerStep
<1>4. ASSUME NEW b \in Clients, GetPacket(b) PROVE status[c] = "PENDING"
  <2>1. CASE GetStatus(b)
    BY <2>1 DEF GetStatus, TypeOK
  <2>2. CASE GetNoData(b)
    BY <2>2 DEF GetNoData, TypeOK
  <2>3. CASE GetData(b)
    <3>1. /\ fifo' = [fifo EXCEPT ![b] = Tail(@)]
          /\ notified' = [notified EXCEPT ![b] = Tail(fifo[b]) # <<>>]
      BY <2>3 DEF GetData, ReleaseHead
    <3> QED BY <3>1 DEF TypeOK
  <2> QED BY <1>4, <2>1, <2>2, <2>3 DEF GetPacket
<1> QED BY <1>1, <1>2, <1>3, <1>4 DEF Next

\* Nothing but the report of a link status takes the announcement of its
\* packets from a client (get_packet, handle_incoming_packet,
\* drop_lp_packets and update_client_state).
THEOREM OnlyStatusHides == Spec => OnlyStatusHidesPackets
<1> DEFINE Hides == \A c \in Clients :
              (fifo[c] # <<>> => notified[c]) /\ ~(fifo[c] # <<>> => notified[c])'
              => status[c] = "PENDING"
<1>1. TypeOK /\ [Next]_vars => [Hides]_vars
  BY HidingStep
<1> QED BY <1>1, TypeCorrect, PTL DEF Spec, OnlyStatusHidesPackets

HIDE NumPointersAssumption DEF Index

----------------------------------------------------------------------------
(* MiiRtRx hands out packets as RxDelivery says: the shared ring, the      *)
(* indices and the counts work as if every client had a queue of packets   *)
(* of its own.  First, the packets that wait to be handed out.             *)

\* They are in the slots from NextToRoute on, without holes.
LEMMA WaitingInOrder ==
    ASSUME IInv
    PROVE  /\ NextToRoute \in Index /\ IsFiniteSet(Waiting)
           /\ Cardinality(Waiting) \in 0 .. NumPointers
           /\ \A k \in 0 .. Cardinality(Waiting) - 1 : Ahead(NextToRoute, k) \in Waiting
           /\ \A i \in Waiting : Distance(NextToRoute, i) < Cardinality(Waiting)
<1>1. PICK e \in 0 .. NumPointers, m \in 0 .. NumPointers : RingShape(e, m)
  BY DEF IInv, Ring
<1>2. lp.rd \in Index /\ NextToRoute = Ahead(lp.rd, m) /\ m <= e
  BY <1>1, QueueTyped DEF IInv, RingShape
<1>3. \A i \in Index : i \in Waiting <=> m <= Distance(lp.rd, i) /\ Distance(lp.rd, i) < e
  <2> SUFFICES ASSUME NEW i \in Index
               PROVE  i \in Waiting <=> m <= Distance(lp.rd, i) /\ Distance(lp.rd, i) < e
    OBVIOUS
  <2>1. Distance(lp.rd, i) \in Nat
    BY <1>2, AheadDistance
  <2>2. Clearing(i) => BeingFreed(i)
    BY DEF Clearing, BeingFreed
  <2>3. Unrouted(i) => Used(lp, i)
    BY DEF Unrouted
  <2>4. LET k == Distance(lp.rd, i)
        IN  /\ k >= e => ~Used(lp, i) \/ Clearing(i)
            /\ m <= k /\ k < e => Unrouted(i) /\ ~BeingFreed(i)
            /\ k < m /\ Unrouted(i) => BeingFreed(i)
    BY <1>1 DEF RingShape
  <2> QED BY <2>1, <2>2, <2>3, <2>4 DEF Waiting
<1>4. Waiting \in SUBSET Index
  BY DEF Waiting
<1>5. NextToRoute \in Index
  BY <1>2, AheadIndex
<1> QED BY <1>2, <1>3, <1>4, <1>5, RunOfSlots, NumPointersAssumption

LEMMA WaitingInOrderNext ==
    IInv' => (/\ NextToRoute \in Index /\ IsFiniteSet(Waiting)
              /\ Cardinality(Waiting) \in 0 .. NumPointers
              /\ \A k \in 0 .. Cardinality(Waiting) - 1 : Ahead(NextToRoute, k) \in Waiting
              /\ \A i \in Waiting : Distance(NextToRoute, i) < Cardinality(Waiting))'
<1>1. IInv => /\ NextToRoute \in Index /\ IsFiniteSet(Waiting)
              /\ Cardinality(Waiting) \in 0 .. NumPointers
              /\ \A k \in 0 .. Cardinality(Waiting) - 1 : Ahead(NextToRoute, k) \in Waiting
              /\ \A i \in Waiting : Distance(NextToRoute, i) < Cardinality(Waiting)
  BY WaitingInOrder
<1> QED BY <1>1, PTL

----------------------------------------------------------------------------
(* The state of RxDelivery.                                                *)

\* What the slots hold.
Contents == [i \in Index |-> Content(i)]

WaitingSlots == Slots(NextToRoute, Cardinality(Waiting))

LEMMA AbsIs ==
    IInv => /\ pendingBar = Map(Contents, WaitingSlots)
            /\ queueBar = [c \in Clients |-> Map(Contents, fifo[c])]
<1> SUFFICES ASSUME IInv
             PROVE  /\ pendingBar = Map(Contents, WaitingSlots)
                    /\ queueBar = [c \in Clients |-> Map(Contents, fifo[c])]
  OBVIOUS
<1>1. ASSUME NEW s \in Seq(Index)
      PROVE  [k \in DOMAIN s |-> Content(s[k])] = Map(Contents, s)
  <2>1. \A k \in DOMAIN s : Contents[s[k]] = Content(s[k])
    BY DEF Contents
  <2> QED BY <2>1 DEF Map
<1>2. \A c \in Clients : fifo[c] \in Seq(Index)
  BY DEF IInv, TypeOK
<1>3. WaitingSlots \in Seq(Index)
  BY WaitingInOrder, SlotsAre DEF WaitingSlots
<1> QED BY <1>1, <1>2, <1>3 DEF pendingBar, queueBar, WaitingSlots

LEMMA AbsIsNext ==
    ASSUME IInv'
    PROVE  /\ pendingBar' = Map(Contents', WaitingSlots')
           /\ queueBar' = [c \in Clients |-> Map(Contents', fifo'[c])]
<1>1. IInv' => (/\ pendingBar = Map(Contents, WaitingSlots)
                /\ queueBar = [c \in Clients |-> Map(Contents, fifo[c])])'
  BY AbsIs, PTL
<1> QED BY <1>1 DEF Map

\* A step that changes no packet that a client has.
QueuesKept == \A i \in Index : Holders(i)' # {} => Contents'[i] = Contents[i]

LEMMA QueuesKeptAbs ==
    ASSUME IInv', QueuesKept
    PROVE  queueBar' = [c \in Clients |-> Map(Contents, fifo'[c])]
<1>1. \A c \in Clients : fifo'[c] \in Seq(Index)
  BY DEF IInv, TypeOK
<1>2. ASSUME NEW c \in Clients
      PROVE  Map(Contents', fifo'[c]) = Map(Contents, fifo'[c])
  <2>1. ASSUME NEW k \in 1 .. Len(fifo'[c])
        PROVE  Contents'[fifo'[c][k]] = Contents[fifo'[c][k]]
    <3>1. PICK i \in Index : i = fifo'[c][k]
      BY <1>1
    <3>2. c \in Holders(i)'
      BY <3>1 DEF Holders
    <3> QED BY <3>1, <3>2 DEF QueuesKept
  <2> QED BY <1>1, <2>1, MapSame
<1> QED BY <1>2, AbsIsNext

\* A step that leaves the packets that wait to be handed out.
PendingKept ==
    /\ NextToRoute' = NextToRoute /\ Waiting' = Waiting
    /\ \A i \in Waiting : Contents'[i] = Contents[i]

LEMMA PendingKeptAbs ==
    ASSUME IInv, IInv', PendingKept
    PROVE  pendingBar' = pendingBar
<1>1. WaitingSlots \in Seq(Index) /\ \A k \in 1 .. Len(WaitingSlots) : WaitingSlots[k] \in Waiting
  <2>1. PICK n \in 0 .. NumPointers : n = Cardinality(Waiting)
    BY WaitingInOrder
  <2>2. /\ WaitingSlots \in Seq(Index) /\ Len(WaitingSlots) = n
        /\ \A k \in 1 .. n : WaitingSlots[k] = Ahead(NextToRoute, k - 1)
    BY <2>1, WaitingInOrder, SlotsAre DEF WaitingSlots
  <2>3. \A k \in 1 .. n : k - 1 \in 0 .. n - 1
    BY NumPointersAssumption
  <2> QED BY <2>1, <2>2, <2>3, WaitingInOrder
<1>2. WaitingSlots' = WaitingSlots
  BY DEF PendingKept, WaitingSlots
<1>3. Map(Contents', WaitingSlots) = Map(Contents, WaitingSlots)
  BY <1>1, MapSame DEF PendingKept
<1> QED BY <1>2, <1>3, AbsIs, AbsIsNext

LEMMA Unseen ==
    ASSUME IInv, IInv', PendingKept, QueuesKept, UNCHANGED fifo
    PROVE  UNCHANGED <<pendingBar, queueBar>>
  BY PendingKeptAbs, QueuesKeptAbs, AbsIs

\* The steps of RxDelivery.
LEMMA AbsSteps ==
    /\ (/\ UNCHANGED <<queueBar, acceptsBar>>
        /\ \E p \in Abstract!Contents : pendingBar' = Append(pendingBar, p))
           => Abstract!Next
    /\ (/\ UNCHANGED <<pendingBar, acceptsBar>>
        /\ \E c \in Clients : queueBar[c] # <<>> /\ queueBar' = [queueBar EXCEPT ![c] = Tail(@)])
           => Abstract!Next
    /\ (/\ pendingBar # <<>>
        /\ pendingBar' = Tail(pendingBar)
        /\ queueBar' = [c \in Clients |->
               IF c \in Head(pendingBar).dst /\ Head(pendingBar).etype \in acceptsBar[c]
                   /\ Len(queueBar[c]) < FifoSize - 1
               THEN Append(queueBar[c], Head(pendingBar)) ELSE queueBar[c]]
        /\ UNCHANGED acceptsBar)
           => Abstract!Next
    /\ (/\ UNCHANGED <<pendingBar, queueBar>>
        /\ \E c \in Clients, ts \in SUBSET Etypes : acceptsBar' = [acceptsBar EXCEPT ![c] = ts])
           => Abstract!Next
    /\ UNCHANGED <<pendingBar, queueBar, acceptsBar>> => UNCHANGED Abstract!vars
<1>1. ASSUME UNCHANGED <<queueBar, acceptsBar>>,
             \E p \in Abstract!Contents : pendingBar' = Append(pendingBar, p)
      PROVE  Abstract!Next
  BY <1>1 DEF Abstract!Next, Abstract!Arrive
<1>2. ASSUME UNCHANGED <<pendingBar, acceptsBar>>, NEW c \in Clients, queueBar[c] # <<>>,
             queueBar' = [queueBar EXCEPT ![c] = Tail(@)]
      PROVE  Abstract!Next
  BY <1>2 DEF Abstract!Next, Abstract!Leave
<1>3. ASSUME pendingBar # <<>>, pendingBar' = Tail(pendingBar), UNCHANGED acceptsBar,
             queueBar' = [c \in Clients |->
                 IF c \in Head(pendingBar).dst /\ Head(pendingBar).etype \in acceptsBar[c]
                     /\ Len(queueBar[c]) < FifoSize - 1
                 THEN Append(queueBar[c], Head(pendingBar)) ELSE queueBar[c]]
      PROVE  Abstract!Next
  BY <1>3 DEF Abstract!Next, Abstract!Distribute
<1>4. ASSUME UNCHANGED <<pendingBar, queueBar>>, NEW c \in Clients, NEW ts \in SUBSET Etypes,
             acceptsBar' = [acceptsBar EXCEPT ![c] = ts]
      PROVE  Abstract!Next
  BY <1>4 DEF Abstract!Next, Abstract!SetAccepts
<1>5. UNCHANGED <<pendingBar, queueBar, acceptsBar>> => UNCHANGED Abstract!vars
  BY DEF Abstract!vars
<1> QED BY <1>1, <1>2, <1>3, <1>4, <1>5

LEMMA AcceptsSame ==
    etypes' = etypes => acceptsBar' = acceptsBar
  BY DEF acceptsBar

----------------------------------------------------------------------------
(* The steps.                                                              *)

LEMMA ContentsSame ==
    lp'.ptrs = lp.ptrs => Contents' = Contents /\ \A i \in Index : Unrouted(i)' = Unrouted(i)
  BY DEF Contents, Content, Unrouted, Used

\* The server does something else than to take a packet out.
LEMMA IdleStep ==
    ASSUME IInv, IInv', UNCHANGED <<lp, myRd, fifo>>, ~Busy, ~Busy'
    PROVE  UNCHANGED <<pendingBar, queueBar>>
<1>1. Contents' = Contents /\ \A i \in Index : Unrouted(i)' = Unrouted(i)
  BY ContentsSame
<1>2. NextToRoute' = NextToRoute
  BY DEF NextToRoute, DoneWithMyRd, Busy
<1>3. Waiting' = Waiting
  <2>1. \A i \in Index : ~BeingFreed(i) /\ ~BeingFreed(i)'
    BY DEF BeingFreed, Busy
  <2> QED BY <2>1, <1>1 DEF Waiting
<1> QED BY <1>1, <1>2, <1>3, Unseen DEF PendingKept, QueuesKept

LEMMA ConfigureRefines ==
    ASSUME IInv, IInv', Configure
    PROVE  Abstract!Next \/ UNCHANGED Abstract!vars
<1>1. UNCHANGED <<lp, myRd, fifo>> /\ ~Busy /\ ~Busy'
  BY DEF Configure, SetLinkState, AddEtypeFilter, DelEtypeFilter, EnableLinkNotification,
         DisableLinkNotification, ConfigCall, Busy
<1>2. UNCHANGED <<pendingBar, queueBar>>
  BY <1>1, IdleStep
<1>3. CASE etypes' = etypes
  BY <1>2, <1>3, AcceptsSame, AbsSteps
<1>4. ASSUME NEW c \in Clients, \A d \in Clients \ {c} : etypes'[d] = etypes[d]
      PROVE  Abstract!Next
  <2> DEFINE accepts(e) == IF \A t \in Etypes : e[t] = 0 THEN Etypes ELSE {t \in Etypes : e[t] > 0}
  <2>1. PICK ts \in SUBSET Etypes : ts = accepts(etypes'[c])
    OBVIOUS
  <2>2. acceptsBar = [d \in Clients |-> accepts(etypes[d])] /\ acceptsBar' = [d \in Clients |-> accepts(etypes'[d])]
    BY DEF acceptsBar
  <2> HIDE DEF accepts
  <2>3. acceptsBar' = [acceptsBar EXCEPT ![c] = ts]
    BY <2>1, <2>2, <1>4
  <2> QED BY <2>3, <1>2, AbsSteps
<1>5. \/ etypes' = etypes
      \/ \E c \in Clients : \A d \in Clients \ {c} : etypes'[d] = etypes[d]
  <2>1. etypes \in [Clients -> [Etypes -> Nat]]
    BY DEF IInv, TypeOK
  <2>2. ASSUME NEW c \in Clients, NEW t \in Etypes, AddEtypeFilter(c, t) \/ DelEtypeFilter(c, t)
        PROVE  \A d \in Clients \ {c} : etypes'[d] = etypes[d]
    BY <2>1, <2>2 DEF AddEtypeFilter, DelEtypeFilter
  <2>3. ASSUME \/ \E s \in LinkStates : SetLinkState(s)
               \/ \E c \in Clients : EnableLinkNotification(c) \/ DisableLinkNotification(c)
        PROVE  etypes' = etypes
    BY <2>3 DEF SetLinkState, EnableLinkNotification, DisableLinkNotification
  <2> QED BY <2>2, <2>3 DEF Configure
<1> QED BY <1>3, <1>4, <1>5

\* The first store of mii_add_packet makes the packet one that waits.
LEMMA FilterStoreRefines ==
    ASSUME IInv, FilterStore
    PROVE  Abstract!Next
<1>1. IInv'
  BY FilterStoreStep
<1>2. PICK d \in SUBSET Clients, t \in Etypes, g \in Tags :
          lp' = StorePtr(lp, [dst |-> d, etype |-> t, tag |-> g, tcount |-> NotRouted])
  BY DEF FilterStore
<1> DEFINE p == [dst |-> d, etype |-> t, tag |-> g, tcount |-> NotRouted]
           q == [dst |-> d, etype |-> t, tag |-> g]
<1>3. PICK x \in Index : x = lp.wr
  BY QueueTyped DEF IInv
<1>4. /\ lp'.ptrs = [lp.ptrs EXCEPT ![x] = p] /\ lp.ptrs \in [Index -> Packets \cup {Null}]
      /\ UNCHANGED <<myRd, pc, idx, ret, fifo, etypes>> /\ ~Used(lp, x)
  BY <1>2, <1>3, QueueTyped DEF IInv, FilterStore, StorePtr, QueueFull, configVars
<1>5. p \in Packets /\ p # Null /\ p.tcount = NotRouted
  BY ClientsFinite, NullAssumption DEF Packets, NotRouted
<1>6. lp'.ptrs[x] = p /\ \A i \in Index \ {x} : lp'.ptrs[i] = lp.ptrs[i]
  BY <1>4
<1>7. Contents'[x] = q /\ \A i \in Index \ {x} : Contents'[i] = Contents[i]
  BY <1>6 DEF Contents, Content
<1> HIDE DEF p
<1>8. /\ x \notin Waiting /\ Holders(x) = {} /\ ~BeingFreed(x)
      /\ Unrouted(x)' /\ \A i \in Index \ {x} : Unrouted(i)' = Unrouted(i)
  BY <1>4, <1>5, <1>6
     DEF Waiting, Unrouted, Used, IInv, HeldSlotsCounted, FreedUnheld, BeingFreed
<1>9. Waiting' = Waiting \cup {x}
  BY <1>4, <1>8 DEF Waiting, BeingFreed
<1>10. NextToRoute' = NextToRoute
  BY <1>4 DEF NextToRoute, DoneWithMyRd
<1>11. PICK n \in 0 .. NumPointers : n = Cardinality(Waiting)
  BY WaitingInOrder
<1>12. PICK s \in Index : s = NextToRoute
  BY WaitingInOrder
<1>13. Cardinality(Waiting') = n + 1 /\ n + 1 \in 0 .. NumPointers
  <2>1. Cardinality(Waiting') = n + 1
    BY <1>8, <1>9, <1>11, WaitingInOrder, FS_AddElement
  <2> QED BY <2>1, <1>1, WaitingInOrderNext
<1>14. Ahead(s, n) = x
  <2>1. Ahead(s, n) \in Waiting'
    <3>1. n \in 0 .. Cardinality(Waiting') - 1
      BY <1>13, NumPointersAssumption
    <3> QED BY <3>1, <1>1, <1>10, <1>12, WaitingInOrderNext
  <2>2. Ahead(s, n) \notin Waiting
    <3>1. n \in 0 .. NumPointers - 1
      BY <1>13, NumPointersAssumption
    <3>2. Distance(s, Ahead(s, n)) = n
      BY <3>1, DistanceAhead
    <3> QED BY <3>1, <3>2, <1>11, <1>12, WaitingInOrder
  <2> QED BY <2>1, <2>2, <1>9
<1>15. WaitingSlots = Slots(s, n) /\ WaitingSlots' = Append(Slots(s, n), x)
  <2>1. n \in 0 .. NumPointers - 1
    BY <1>13, NumPointersAssumption
  <2>2. Slots(s, n + 1) = Append(Slots(s, n), x)
    BY <2>1, <1>14, SlotsGrow
  <2> QED BY <2>2, <1>10, <1>11, <1>12, <1>13 DEF WaitingSlots
<1>16. /\ Slots(s, n) \in Seq(Index)
       /\ \A k \in 1 .. Len(Slots(s, n)) : Contents'[Slots(s, n)[k]] = Contents[Slots(s, n)[k]]
  <2>1. /\ Slots(s, n) \in Seq(Index) /\ Len(Slots(s, n)) = n
        /\ \A k \in 1 .. n : Slots(s, n)[k] = Ahead(s, k - 1)
    BY SlotsAre
  <2>2. \A k \in 1 .. n : Ahead(s, k - 1) \in Waiting
    <3>1. \A k \in 1 .. n : k - 1 \in 0 .. n - 1
      BY NumPointersAssumption
    <3> QED BY <3>1, <1>11, <1>12, WaitingInOrder
  <2>3. \A i \in Waiting : Contents'[i] = Contents[i]
    BY <1>7, <1>8 DEF Waiting
  <2> QED BY <2>1, <2>2, <2>3
<1>17. pendingBar' = Append(pendingBar, q)
  <2>1. Map(Contents', Slots(s, n)) = Map(Contents, Slots(s, n))
    BY <1>16, MapSame
  <2>2. Map(Contents', Append(Slots(s, n), x)) = Append(Map(Contents', Slots(s, n)), Contents'[x])
    BY <1>16, MapAppend
  <2> QED BY <2>1, <2>2, <1>1, <1>7, <1>15, AbsIs, AbsIsNext
<1>18. queueBar' = queueBar
  <2>1. \A i \in Index : Holders(i)' = Holders(i)
    BY <1>4 DEF Holders
  <2>2. QueuesKept
    BY <2>1, <1>7, <1>8 DEF QueuesKept
  <2> QED BY <2>2, <1>1, <1>4, AbsIs, QueuesKeptAbs
<1>19. q \in Abstract!Contents
  BY DEF Abstract!Contents
<1> QED BY <1>4, <1>17, <1>18, <1>19, AcceptsSame, AbsSteps

\* A client takes or loses the oldest packet of its fifo.
LEMMA ReleaseHeadRefines ==
    ASSUME IInv, IInv', NEW c \in Clients, NEW back \in {"incoming", "drop"}, ReleaseHead(c, back),
           fifo[c] # <<>>, pc \in {"select", "drop"}, UNCHANGED <<myRd, etypes>>
    PROVE  Abstract!Next
<1>1. /\ TypeOK /\ NoDuplicates /\ fifo \in [Clients -> Seq(Index)]
      /\ lp.ptrs \in [Index -> Packets \cup {Null}]
  BY QueueTyped DEF IInv, TypeOK
<1>2. fifo' = [fifo EXCEPT ![c] = Tail(@)]
  BY DEF ReleaseHead
<1>3. PICK h \in Index : h = Head(fifo[c]) /\ c \in Holders(h)
  BY <1>1, <1>2, HeadReleased
<1>4. /\ \/ pc' = "freeRd" /\ idx' = h /\ ret' = back /\ lp' = lp
         \/ /\ lp.ptrs[h].tcount # 0 /\ lp' = [lp EXCEPT !.ptrs[h].tcount = @ - 1]
            /\ pc' \in {"select", "incoming", "drop"}
  BY <1>3 DEF ReleaseHead, StartFree
<1>5. lp.ptrs[h] \in Packets /\ lp.ptrs[h].tcount \in Nat
  <2>1. Used(lp, h) /\ lp.ptrs[h].tcount = Cardinality(Holders(h)) - 1
    BY <1>3 DEF IInv, HeldSlotsCounted
  <2>2. Cardinality(Holders(h)) \in Nat /\ Cardinality(Holders(h)) > 0
    <3>1. Holders(h) \in SUBSET Clients /\ Holders(h) # {}
      BY <1>3 DEF Holders
    <3> QED BY <3>1, ClientsFinite
  <2> QED BY <2>1, <2>2, <1>1, QueueTyped
<1>6. /\ \A i \in Index : Contents'[i] = Contents[i]
      /\ \A i \in Index : (Unrouted(i)' <=> Unrouted(i))
      /\ ~Unrouted(h)
  <2>1. ~Unrouted(h)
    BY <1>5 DEF Unrouted, NotRouted
  <2>2. CASE lp' = lp
    BY <2>1, <2>2, ContentsSame
  <2>3. CASE lp.ptrs[h].tcount # 0 /\ lp' = [lp EXCEPT !.ptrs[h].tcount = @ - 1]
    <3> DEFINE q == [lp.ptrs[h] EXCEPT !.tcount = @ - 1]
    <3>1. /\ q.dst = lp.ptrs[h].dst /\ q.etype = lp.ptrs[h].etype /\ q.tag = lp.ptrs[h].tag
          /\ q.tcount # NotRouted
      BY <1>5, <2>3 DEF Packets, NotRouted
    <3>2. lp'.ptrs = [lp.ptrs EXCEPT ![h] = q]
      BY <2>3, <1>1, QueueTyped
    <3> HIDE DEF q
    <3>3. lp'.ptrs[h] = q /\ \A i \in Index \ {h} : lp'.ptrs[i] = lp.ptrs[i]
      BY <3>2, <1>1
    <3>4. ~Unrouted(h)' /\ \A i \in Index \ {h} : (Unrouted(i)' <=> Unrouted(i))
      BY <3>1, <3>3 DEF Unrouted, Used
    <3>5. \A i \in Index : Content(i)' = Content(i)
      BY <3>1, <3>3 DEF Content
    <3>6. \A i \in Index : Contents'[i] = Contents[i]
      BY <3>5 DEF Contents
    <3> QED BY <2>1, <3>4, <3>6
  <2> QED BY <2>1, <2>2, <2>3, <1>4
<1>7. PendingKept
  <2>1. NextToRoute' = NextToRoute
    BY <1>4 DEF NextToRoute, DoneWithMyRd
  <2>2. \A i \in Index : ~BeingFreed(i) /\ (BeingFreed(i)' => i = h)
    BY <1>4 DEF BeingFreed
  <2>3. Waiting' = Waiting
    BY <2>2, <1>6 DEF Waiting
  <2> QED BY <2>1, <2>3, <1>6 DEF PendingKept, Waiting
<1>8. QueuesKept
  BY <1>6 DEF QueuesKept
<1>9. /\ queueBar = [d \in Clients |-> Map(Contents, fifo[d])]
      /\ queueBar' = [d \in Clients |-> Map(Contents, fifo'[d])]
  BY <1>8, AbsIs, QueuesKeptAbs
<1>10. Map(Contents, fifo[c]) # <<>> /\ Map(Contents, Tail(fifo[c])) = Tail(Map(Contents, fifo[c]))
  BY <1>1, MapTail
<1>11. queueBar[c] # <<>> /\ queueBar' = [queueBar EXCEPT ![c] = Tail(@)]
  <2>1. fifo'[c] = Tail(fifo[c]) /\ \A d \in Clients \ {c} : fifo'[d] = fifo[d]
    BY <1>1, <1>2
  <2> QED BY <2>1, <1>9, <1>10
<1> QED BY <1>7, <1>11, PendingKeptAbs, AcceptsSame, AbsSteps

\* Freeing a slot, and moving the server's index, takes no packet out.
LEMMA FreeMoveRdRefines ==
    ASSUME IInv, FreeMoveRd
    PROVE  UNCHANGED <<pendingBar, queueBar, acceptsBar>>
<1>1. IInv'
  BY FreeMoveRdStep
<1>2. /\ pc = "freeRd" /\ pc' = "freeSlot" /\ lp'.ptrs = lp.ptrs
      /\ UNCHANGED <<myRd, idx, ret, fifo, etypes>>
  <2>1. lp = [rd |-> lp.rd, wr |-> lp.wr, ptrs |-> lp.ptrs]
    BY QueueTyped DEF IInv
  <2> QED BY <2>1 DEF FreeMoveRd, MoveRdOff, configVars
<1>3. Contents' = Contents /\ \A i \in Index : Unrouted(i)' = Unrouted(i)
  BY <1>2, ContentsSame
<1>4. NextToRoute' = NextToRoute /\ Waiting' = Waiting
  BY <1>2, <1>3 DEF NextToRoute, DoneWithMyRd, Waiting, BeingFreed
<1> QED BY <1>1, <1>2, <1>3, <1>4, Unseen, AcceptsSame DEF PendingKept, QueuesKept

LEMMA FreeClearSlotRefines ==
    ASSUME IInv, FreeClearSlot
    PROVE  UNCHANGED <<pendingBar, queueBar, acceptsBar>>
<1>1. IInv'
  BY FreeClearSlotStep
<1>2. PICK h \in Index : h = idx
  BY DEF IInv, TypeOK
<1>3. /\ pc = "freeSlot" /\ UNCHANGED <<myRd, fifo, etypes>>
      /\ pc' \in {"select", "incoming", "move", "drop"} /\ (pc' = "move" <=> ret = "move")
      /\ Holders(h) = {} /\ lp.ptrs \in [Index -> Packets \cup {Null}]
  BY <1>2, QueueTyped DEF IInv, TypeOK, FreeClearSlot, FreedUnheld, configVars
<1>4. lp'.ptrs = [lp.ptrs EXCEPT ![h] = Null]
  BY <1>2, QueueTyped DEF IInv, FreeClearSlot, ClearSlot
<1>5. lp'.ptrs[h] = Null /\ \A i \in Index \ {h} : lp'.ptrs[i] = lp.ptrs[i]
  BY <1>3, <1>4
<1>6. /\ \A i \in Index \ {h} : Contents'[i] = Contents[i] /\ Unrouted(i)' = Unrouted(i)
      /\ ~Unrouted(h)'
  BY <1>5 DEF Contents, Content, Unrouted, Used
<1>7. \A i \in Index : BeingFreed(i) = (i = h) /\ ~BeingFreed(i)'
  BY <1>2, <1>3 DEF BeingFreed
<1>8. Waiting' = Waiting /\ h \notin Waiting
  BY <1>6, <1>7 DEF Waiting
<1>9. NextToRoute' = NextToRoute
  BY <1>3 DEF NextToRoute, DoneWithMyRd
<1>10. PendingKept
  BY <1>6, <1>8, <1>9 DEF PendingKept, Waiting
<1>11. \A i \in Index : Holders(i)' = Holders(i)
  BY <1>3 DEF Holders
<1>12. QueuesKept
  BY <1>3, <1>6, <1>11 DEF QueuesKept
<1> QED BY <1>1, <1>3, <1>10, <1>12, Unseen, AcceptsSame

LEMMA MoveMyRdRefines ==
    ASSUME IInv, MoveMyRd
    PROVE  UNCHANGED <<pendingBar, queueBar, acceptsBar>>
<1>1. IInv'
  BY MoveMyRdStep
<1>2. /\ pc = "move" /\ pc' \in {"select", "drop"} /\ lp'.ptrs = lp.ptrs
      /\ UNCHANGED <<fifo, etypes>>
  BY DEF MoveMyRd, EndIncoming, configVars
<1>3. Contents' = Contents /\ \A i \in Index : Unrouted(i)' = Unrouted(i)
  BY <1>2, ContentsSame
<1>4. NextToRoute' = NextToRoute
  BY <1>2, MyRdMovesByOne DEF NextToRoute, DoneWithMyRd
<1>5. Waiting' = Waiting
  BY <1>2, <1>3 DEF Waiting, BeingFreed
<1> QED BY <1>1, <1>2, <1>3, <1>4, <1>5, Unseen, AcceptsSame DEF PendingKept, QueuesKept

\* handle_incoming_packet is where RxDelivery hands out a packet.
LEMMA RouteRefines ==
    ASSUME IInv, Route
    PROVE  Abstract!Next
<1>1. IInv' /\ TypeOK
  BY RouteStep DEF IInv
<1>2. PICK h \in Index : h = idx
  BY <1>1 DEF TypeOK
<1>3. pc = "route" /\ h = myRd /\ Unrouted(h) /\ lp.ptrs \in [Index -> Packets \cup {Null}]
  BY <1>1, <1>2, QueueTyped DEF IInv, RoutingMyRd, Route
<1>0. PICK T \in SUBSET Clients : T = {c \in Clients : Wants(c, lp.ptrs[h]) /\ HasSpace(c)}
  OBVIOUS
<1>4. /\ fifo' = [c \in Clients |-> IF c \in T THEN Append(fifo[c], h) ELSE fifo[c]]
      /\ \/ pc' = "freeRd" /\ idx' = h /\ ret' = "move" /\ lp' = lp
         \/ /\ lp' = [lp EXCEPT !.ptrs[h].tcount = Cardinality(T) - 1]
            /\ pc' = "move" /\ T # {}
      /\ UNCHANGED <<myRd, etypes>>
  BY <1>0, <1>2 DEF Route, StartFree, configVars
<1>5. lp.ptrs[h] \in Packets
  BY <1>1, <1>3, QueueTyped DEF Unrouted
<1>6. /\ \A i \in Index : Contents'[i] = Contents[i]
      /\ \A i \in Index \ {h} : Unrouted(i)' = Unrouted(i)
      /\ Unrouted(h)' => BeingFreed(h)'
  <2>1. CASE pc' = "freeRd" /\ idx' = h /\ lp' = lp
    BY <2>1, ContentsSame DEF BeingFreed
  <2>2. CASE lp' = [lp EXCEPT !.ptrs[h].tcount = Cardinality(T) - 1] /\ T # {}
    <3> DEFINE q == [lp.ptrs[h] EXCEPT !.tcount = Cardinality(T) - 1]
    <3>1. Cardinality(T) \in Nat /\ Cardinality(T) > 0
      BY <2>2, ClientsFinite
    <3>2. /\ q.dst = lp.ptrs[h].dst /\ q.etype = lp.ptrs[h].etype /\ q.tag = lp.ptrs[h].tag
          /\ q.tcount # NotRouted
      BY <1>5, <3>1 DEF Packets, NotRouted
    <3>3. lp'.ptrs = [lp.ptrs EXCEPT ![h] = q]
      BY <2>2, <1>1, QueueTyped
    <3> HIDE DEF q
    <3>4. lp'.ptrs[h] = q /\ \A i \in Index \ {h} : lp'.ptrs[i] = lp.ptrs[i]
      BY <3>3, <1>3
    <3>5. ~Unrouted(h)' /\ \A i \in Index \ {h} : Unrouted(i)' = Unrouted(i)
      BY <3>2, <3>4 DEF Unrouted, Used
    <3>6. \A i \in Index : Content(i)' = Content(i)
      BY <3>2, <3>4 DEF Content
    <3>7. \A i \in Index : Contents'[i] = Contents[i]
      BY <3>6 DEF Contents
    <3> QED BY <3>5, <3>7
  <2> QED BY <2>1, <2>2, <1>4
<1>7. /\ NextToRoute = h /\ NextToRoute' = NextIndex(h)
      /\ h \in Waiting /\ Waiting' = Waiting \ {h}
  <2>1. \A i \in Index : ~BeingFreed(i) /\ (BeingFreed(i)' => i = h)
    BY <1>3, <1>4 DEF BeingFreed
  <2>2. h \in Waiting /\ Waiting' = Waiting \ {h}
    BY <2>1, <1>3, <1>6 DEF Waiting
  <2> QED BY <2>2, <1>3, <1>4 DEF NextToRoute, DoneWithMyRd
<1>8. PICK n \in 0 .. NumPointers : n = Cardinality(Waiting)
  BY WaitingInOrder
<1>9. n \in 1 .. NumPointers /\ Cardinality(Waiting') = n - 1
  <2>1. Cardinality(Waiting') = n - 1
    BY <1>7, <1>8, WaitingInOrder, FS_RemoveElement
  <2>2. n - 1 \in Nat
    BY <2>1, <1>1, WaitingInOrderNext, NumPointersAssumption
  <2> QED BY <2>1, <2>2, NumPointersAssumption
<1>10. WaitingSlots # <<>> /\ Head(WaitingSlots) = h /\ WaitingSlots' = Tail(WaitingSlots)
  BY <1>7, <1>8, <1>9, SlotsShrink DEF WaitingSlots
<1>11. WaitingSlots \in Seq(Index)
  BY <1>7, <1>8, SlotsAre DEF WaitingSlots
<1>12. Contents' = Contents
  BY <1>6 DEF Contents
<1>13. pendingBar # <<>> /\ Head(pendingBar) = Contents[h] /\ pendingBar' = Tail(pendingBar)
  BY <1>1, <1>10, <1>11, <1>12, MapTail, AbsIs, AbsIsNext
<1>14. /\ fifo \in [Clients -> Seq(Index)]
       /\ queueBar = [c \in Clients |-> Map(Contents, fifo[c])]
       /\ queueBar' = [c \in Clients |-> Map(Contents, fifo'[c])]
  BY <1>1, <1>12, AbsIs, AbsIsNext DEF TypeOK
<1>15. ASSUME NEW c \in Clients
       PROVE  c \in T <=> /\ c \in Contents[h].dst /\ Contents[h].etype \in acceptsBar[c]
                          /\ Len(queueBar[c]) < FifoSize - 1
  <2>1. Len(queueBar[c]) = Len(fifo[c])
    BY <1>14, MapLength
  <2>2. Contents[h].dst = lp.ptrs[h].dst /\ Contents[h].etype = lp.ptrs[h].etype
    BY DEF Contents, Content
  <2>3. lp.ptrs[h].etype \in Etypes
    BY <1>5 DEF Packets
  <2>4. (\A t \in Etypes : etypes[c][t] = 0) \/ etypes[c][lp.ptrs[h].etype] > 0
            <=> lp.ptrs[h].etype \in acceptsBar[c]
    BY <2>3 DEF acceptsBar
  <2> QED BY <2>1, <2>2, <2>4, <1>0 DEF Wants, HasSpace
<1>16. queueBar' = [c \in Clients |->
           IF c \in Head(pendingBar).dst /\ Head(pendingBar).etype \in acceptsBar[c]
               /\ Len(queueBar[c]) < FifoSize - 1
           THEN Append(queueBar[c], Head(pendingBar)) ELSE queueBar[c]]
  <2>1. ASSUME NEW c \in Clients
        PROVE  Map(Contents, fifo'[c]) = IF c \in T THEN Append(queueBar[c], Contents[h]) ELSE queueBar[c]
    <3>1. CASE c \in T
      <4>1. fifo'[c] = Append(fifo[c], h)
        BY <3>1, <1>4
      <4>2. Map(Contents, Append(fifo[c], h)) = Append(Map(Contents, fifo[c]), Contents[h])
        BY <1>14, MapAppend
      <4> QED BY <3>1, <4>1, <4>2, <1>14
    <3>2. CASE c \notin T
      BY <3>2, <1>4, <1>14
    <3> QED BY <3>1, <3>2
  <2> QED BY <2>1, <1>13, <1>14, <1>15
<1> QED BY <1>4, <1>13, <1>16, AcceptsSame, AbsSteps

LEMMA NextRefines ==
    ASSUME IInv, [Next]_vars
    PROVE  Abstract!Next \/ UNCHANGED Abstract!vars
<1>1. IInv'
  BY NextInvariant
<1>2. CASE Filter
  <2>1. CASE FilterStore
    BY <2>1, FilterStoreRefines
  <2>2. CASE FilterAdvance
    <3>1. lp'.ptrs = lp.ptrs /\ UNCHANGED <<myRd, pc, idx, ret, fifo, etypes>>
      <4>1. lp = [rd |-> lp.rd, wr |-> lp.wr, ptrs |-> lp.ptrs]
        BY QueueTyped DEF IInv
      <4> QED BY <4>1, <2>2 DEF FilterAdvance, AdvanceWr, configVars
    <3>2. Contents' = Contents /\ \A i \in Index : Unrouted(i)' = Unrouted(i)
      BY <3>1, ContentsSame
    <3>3. NextToRoute' = NextToRoute /\ Waiting' = Waiting
      BY <3>1, <3>2 DEF NextToRoute, DoneWithMyRd, Waiting, BeingFreed
    <3>4. UNCHANGED <<pendingBar, queueBar>>
      BY <3>1, <3>2, <3>3, <1>1, Unseen DEF PendingKept, QueuesKept
    <3> QED BY <3>1, <3>4, AcceptsSame, AbsSteps
  <2> QED BY <1>2, <2>1, <2>2 DEF Filter
<1>3. CASE Configure
  BY <1>1, <1>3, ConfigureRefines
<1>4. ASSUME NEW c \in Clients, GetStatus(c) \/ GetNoData(c) \/ DropNothing(c)
      PROVE  UNCHANGED Abstract!vars
  <2>1. UNCHANGED <<lp, myRd, fifo, etypes>> /\ ~Busy /\ ~Busy'
    BY <1>4 DEF GetStatus, GetNoData, DropNothing, configVars, Busy
  <2> QED BY <2>1, <1>1, IdleStep, AcceptsSame, AbsSteps
<1>5. ASSUME NEW c \in Clients, GetData(c) \/ DropHead(c)
      PROVE  Abstract!Next
  BY <1>1, <1>5, ReleaseHeadRefines DEF GetData, DropHead, configVars
<1>6. CASE SelectNothing \/ TakeNone \/ TakePacket
  <2>1. UNCHANGED <<lp, myRd, fifo, etypes>> /\ ~Busy /\ ~Busy'
    BY <1>6 DEF SelectNothing, ConfigCall, TakeNone, TakePacket, EndIncoming, configVars, Busy
  <2> QED BY <2>1, <1>1, IdleStep, AcceptsSame, AbsSteps
<1>7. CASE FreeMoveRd \/ FreeClearSlot \/ MoveMyRd
  BY <1>7, FreeMoveRdRefines, FreeClearSlotRefines, MoveMyRdRefines, AbsSteps
<1>8. CASE Route
  BY <1>8, RouteRefines
<1>9. CASE UNCHANGED vars
  <2>1. UNCHANGED <<lp, myRd, pc, idx, ret, fifo, etypes>>
    BY <1>9 DEF vars
  <2>2. Contents' = Contents /\ \A i \in Index : Unrouted(i)' = Unrouted(i)
    BY <2>1, ContentsSame
  <2>3. NextToRoute' = NextToRoute /\ Waiting' = Waiting
    BY <2>1, <2>2 DEF NextToRoute, DoneWithMyRd, Waiting, BeingFreed
  <2>4. UNCHANGED <<pendingBar, queueBar>>
    BY <2>1, <2>2, <2>3, <1>1, Unseen DEF PendingKept, QueuesKept
  <2> QED BY <2>1, <2>4, AcceptsSame, AbsSteps
<1> QED BY <1>2, <1>3, <1>4, <1>5, <1>6, <1>7, <1>8, <1>9 DEF Next, ServerStep, GetPacket

\* Every client gets the packets it wants and has room for in the order in
\* which the filter added them, each once and as it was added, whatever the
\* other clients do with the shared slots.
THEOREM RefinesRxDelivery == Spec => ImplementsRxDelivery
<1>1. Init => Abstract!Init
  <2> SUFFICES ASSUME Init PROVE Abstract!Init
    OBVIOUS
  <2>1. \A i \in Index : ~Unrouted(i)
    BY DEF Init, EmptyQueue, Unrouted, Used
  <2>2. Waiting = {}
    BY <2>1 DEF Waiting
  <2>3. pendingBar = <<>>
    <3>1. Cardinality(Waiting) = 0
      BY <2>2, FS_EmptySet
    <3>2. DOMAIN Slots(NextToRoute, Cardinality(Waiting)) = {}
      BY <3>1 DEF Slots
    <3> QED BY <3>2 DEF pendingBar
  <2>4. queueBar = [c \in Clients |-> <<>>]
    BY DEF Init, queueBar
  <2>5. acceptsBar = [c \in Clients |-> Etypes]
    BY DEF Init, acceptsBar
  <2> QED BY <2>3, <2>4, <2>5 DEF Abstract!Init
<1>2. IInv /\ [Next]_vars => [Abstract!Next]_(Abstract!vars)
  BY NextRefines
<1> QED BY <1>1, <1>2, Invariance, PTL DEF Spec, ImplementsRxDelivery, Abstract!Spec
=============================================================================
