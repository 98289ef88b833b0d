----------------------------- MODULE MiiRxPool -----------------------------
(***************************************************************************)
(* The receive memory of the real-time MII MAC: mii_master_rx_pins writes  *)
(* a frame word by word as it arrives and cannot be held up, so all that   *)
(* protects the packets in the pool is the read pointer the server task    *)
(* publishes in memory after each of its iterations.  rx_pins reads it     *)
(* once per frame.                                                         *)
(*                                                                         *)
(* The packet queues are taken as PacketQueue and MiiRtRx show them to be: *)
(* packets in the order they were added, freed in any order, with the      *)
(* oldest of those still in use where rd is.                               *)
(***************************************************************************)
EXTENDS Mempool, FiniteSets, Sequences

CONSTANTS
    FrameWords,     \* the lengths of frames, in words of data
    MaxHeld,        \* bound: packets in the low priority queue
    MaxIncoming,    \* bound: a frame comes when fewer packets wait for the filter
    MaxLag          \* bound: frames that come between two publications of the server

ASSUME MiiRxPoolAssumption ==
    /\ FrameWords # {} /\ FrameWords \subseteq Nat \ {0}
    /\ \A n \in FrameWords : n + HeaderWords < PoolEnd
    /\ MaxHeld \in Nat /\ MaxIncoming \in Nat \ {0} /\ MaxLag \in Nat \ {0}

VARIABLES
    wrptr,      \* info->wrptr of rx_mem
    rdptr,      \* the shared read pointer
    rx,         \* the frame rx_pins is receiving, or Idle
    incoming,   \* incoming_packets
    lp,         \* packets in use in rx_packets_lp, oldest first
    hp,         \* the same of rx_packets_hp
    pc,         \* where the server is in its loop
    lag         \* frames received since the server last published

vars == <<wrptr, rdptr, rx, incoming, lp, hp, pc, lag>>

Packets == [start : Word, len : FrameWords]

\* No frame is being received.
Idle == [buf |-> NullPtr, dptr |-> 0, end |-> NullPtr, got |-> 0]

TypeOK ==
    /\ wrptr \in 0 .. LastSafe
    /\ rdptr \in Word \cup {NullPtr}
    /\ rx.buf \in Word \cup {NullPtr, DummyPtr}
    /\ rx.dptr \in Word \cup {DummyPtr}
    /\ rx.end \in Word \cup {NullPtr, DummyPtr}
    /\ rx.got \in Nat
    /\ \A q \in {incoming, lp, hp} : q \in Seq(Packets)
    /\ pc \in {"select", "drain", "publish"}
    /\ lag \in 0 .. MaxLag

Init ==
    /\ wrptr = 0
    /\ rdptr = NullPtr
    /\ rx = Idle
    /\ incoming = <<>>
    /\ lp = <<>>
    /\ hp = <<>>
    /\ pc = "select"
    /\ lag = 0

----------------------------------------------------------------------------
(* mii_master_rx_pins.                                                     *)

Receiving == rx.buf # NullPtr

\* Mutant: the frame is not stopped at the oldest packet.
RxStartUnguarded ==
    /\ ~Receiving
    /\ rx' = [buf |-> wrptr, dptr |-> WordAfter(wrptr, HeaderWords), end |-> NullPtr, got |-> 0]
    /\ UNCHANGED <<wrptr, rdptr, incoming, lp, hp, pc, lag>>

\* Read the shared pointer and reserve, as soon as the frame before is done
\* and long before there is another.  dptr starts on end_ptr if the packet
\* goes to the dummy buffer.
RxStart ==
    /\ ~Receiving
    /\ rx' = IF Reserve(wrptr, rdptr) = DummyPtr
             THEN [buf |-> DummyPtr, dptr |-> DummyPtr, end |-> DummyPtr, got |-> 0]
             ELSE [buf |-> wrptr, dptr |-> WordAfter(wrptr, HeaderWords), end |-> rdptr, got |-> 0]
    /\ UNCHANGED <<wrptr, rdptr, incoming, lp, hp, pc, lag>>

\* A word is stored unless dptr has reached end_ptr.  The first one may be
\* a while in coming.
RxWord ==
    /\ Receiving
    /\ rx.got = 0 => lag < MaxLag /\ Len(incoming) < MaxIncoming
    /\ rx.dptr # rx.end
    /\ \E n \in FrameWords : rx.got < n
    /\ rx' = [rx EXCEPT !.dptr = NextWord(@), !.got = @ + 1]
    /\ UNCHANGED <<wrptr, rdptr, incoming, lp, hp, pc, lag>>

\* Mutant: a frame that was stopped at end_ptr is kept all the same.
RxCommitFull ==
    /\ Receiving
    /\ rx.got \in FrameWords
    /\ wrptr' = Commit(rx.dptr)
    /\ incoming' = Append(incoming, [start |-> rx.buf, len |-> rx.got])
    /\ rx' = Idle
    /\ lag' = lag + 1
    /\ UNCHANGED <<rdptr, lp, hp, pc>>

\* The frame ends and is kept.
RxCommit ==
    /\ Receiving
    /\ rx.dptr # rx.end
    /\ rx.got \in FrameWords
    /\ wrptr' = Commit(rx.dptr)
    /\ incoming' = Append(incoming, [start |-> rx.buf, len |-> rx.got])
    /\ rx' = Idle
    /\ lag' = lag + 1
    /\ UNCHANGED <<rdptr, lp, hp, pc>>

\* The frame ends and is dropped: no room, or the error port was raised.
RxDrop ==
    /\ Receiving
    /\ rx' = Idle
    /\ UNCHANGED <<wrptr, rdptr, incoming, lp, hp, pc, lag>>

----------------------------------------------------------------------------
(* mii_ethernet_filter.                                                    *)

Filter ==
    /\ incoming # <<>>
    /\ incoming' = Tail(incoming)
    /\ \/ \* a bad length or CRC, or a full queue
          UNCHANGED <<lp, hp>>
       \/ /\ Len(lp) < MaxHeld
          /\ lp' = Append(lp, Head(incoming))
          /\ hp' = hp
       \/ /\ Len(hp) < MaxHeld
          /\ hp' = Append(hp, Head(incoming))
          /\ lp' = lp
    /\ UNCHANGED <<wrptr, rdptr, rx, pc, lag>>

----------------------------------------------------------------------------
(* mii_ethernet_server.                                                    *)

\* A slot of a low priority packet is freed: by get_packet at the start of
\* an iteration, for a packet nobody takes between the drain and the
\* publication, by drop_lp_packets after it.  Clients with packets of their
\* own do so in any order.
FreeLp(i) ==
    /\ pc # "drain"
    /\ i <= Len(lp)
    /\ lp' = SubSeq(lp, 1, i - 1) \o SubSeq(lp, i + 1, Len(lp))
    /\ UNCHANGED <<wrptr, rdptr, rx, incoming, hp, pc, lag>>

StartDrain ==
    /\ pc = "select"
    /\ pc' = "drain"
    /\ UNCHANGED <<wrptr, rdptr, rx, incoming, lp, hp, lag>>

\* handle_incoming_hp_packets outputs the oldest high priority packet, for
\* as long as the client takes, and frees it.
DrainHp ==
    /\ pc = "drain"
    /\ hp # <<>>
    /\ hp' = Tail(hp)
    /\ UNCHANGED <<wrptr, rdptr, rx, incoming, lp, pc, lag>>

StopDrain ==
    /\ pc = "drain"
    /\ hp = <<>>
    /\ pc' = "publish"
    /\ UNCHANGED <<wrptr, rdptr, rx, incoming, lp, hp, lag>>

\* mii_get_next_rdptr prefers a low priority packet, even to a high
\* priority one that is older: the drain has just emptied that queue, but
\* the filter may have added to it since.
NextRdptr(l, h) ==
    IF l # <<>> THEN Head(l).start ELSE IF h # <<>> THEN Head(h).start ELSE NullPtr

\* Mutant: the server publishes a read pointer only if there is a packet.
PublishPackets ==
    /\ pc = "publish"
    /\ rdptr' = IF lp = <<>> THEN rdptr ELSE NextRdptr(lp, hp)
    /\ pc' = "select"
    /\ lag' = 0
    /\ UNCHANGED <<wrptr, rx, incoming, lp, hp>>

Publish ==
    /\ pc = "publish"
    /\ rdptr' = NextRdptr(lp, hp)
    /\ pc' = "select"
    /\ lag' = 0
    /\ UNCHANGED <<wrptr, rx, incoming, lp, hp>>

RxPins == RxStart \/ RxWord \/ RxCommit \/ RxDrop
Loop == StartDrain \/ DrainHp \/ StopDrain \/ Publish
Next == RxPins \/ Filter \/ Loop \/ \E i \in 1 .. MaxHeld : FreeLp(i)

Spec == Init /\ [][Next]_vars

\* The filter and the server run on cores of their own, and clients take
\* their packets, oldest first: a call that is ready in iteration after
\* iteration is accepted in the end.
FairSpec == Spec /\ WF_vars(Filter) /\ WF_vars(Loop) /\ SF_vars(FreeLp(1))

----------------------------------------------------------------------------

\* The packets in the pool, in any of the queues.
Live == {incoming[i] : i \in DOMAIN incoming} \cup {lp[i] : i \in DOMAIN lp}
            \cup {hp[i] : i \in DOMAIN hp}

\* The words rx_pins has written of the frame it is receiving: the header,
\* which gets the time the frame began, and the data.
Written == IF rx.buf \in Word /\ rx.got > 0 THEN WordsOf(rx.buf, rx.got) ELSE {}

Overwriting == \E p \in Live : WordsOf(p.start, p.len) \cap Written # {}

\* "Prevent the overwriting of packets in the buffer": rx_pins writes to no
\* word of a packet that a queue still holds (mii_master.xc:233).
LivePacketsIntact == ~Overwriting

\* The packets in the pool do not overlap.
PacketsDisjoint ==
    \A p, q \in Live : p # q => WordsOf(p.start, p.len) \cap WordsOf(q.start, q.len) = {}

\* The words from wrptr up to the published read pointer.
Room == IF rdptr = NullPtr THEN PoolEnd
        ELSE IF rdptr > wrptr THEN rdptr - wrptr ELSE rdptr - wrptr + PoolEnd

\* A frame that ends on the oldest packet's first word is dropped as well.
Fits(n) == HeaderWords + n < Room

\* When no frame fits any more, so that every frame is dropped, that does
\* not last: the packets are filtered and freed and the server publishes a
\* pointer behind which there is room.
RoomReturns == (\A n \in FrameWords : ~Fits(n)) ~> \E n \in FrameWords : Fits(n)
=============================================================================
