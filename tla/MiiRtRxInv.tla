---------------------------- MODULE MiiRtRxInv ----------------------------
(***************************************************************************)
(* The inductive invariant of MiiRtRx.  What the properties say of single  *)
(* slots is true because of the shape of the whole ring: from rd on, first *)
(* come packets the server has handed out, with holes where slots have     *)
(* been freed out of order, then, without holes, those it has not.         *)
(***************************************************************************)
EXTENDS MiiRtRx

\* rd has moved off slot i, or the slot was not the oldest, and it is about
\* to be cleared.
Clearing(i) == pc = "freeSlot" /\ idx = i

\* The ring holds e slots from rd on, the first m of which have been
\* handed out.  A slot being added counts, and so does a hole.
RingShape(e, m) ==
    /\ m <= e
    /\ adding => e > 0 /\ lp.wr = Ahead(lp.rd, e - 1) /\ (m = e => DoneWithMyRd)
    /\ ~adding => lp.wr = Ahead(lp.rd, e)
    /\ NextToRoute = Ahead(lp.rd, m)
    /\ e > 0 => Used(lp, lp.rd) /\ ~Clearing(lp.rd)
    /\ \A i \in Index :
          LET k == Distance(lp.rd, i)
          IN  /\ k >= e => ~Used(lp, i) \/ Clearing(i)
              /\ m <= k /\ k < e => Unrouted(i) /\ ~BeingFreed(i)
              /\ k < m /\ Unrouted(i) => BeingFreed(i)

Ring == \E e, m \in 0 .. NumPointers : RingShape(e, m)

\* The slot of an addition under way holds a packet that nobody frees.
AddingUsed == adding => Used(lp, lp.wr) /\ ~Clearing(lp.wr)

\* No client has a packet twice.
NoDuplicates ==
    \A c \in Clients : \A j, k \in 1 .. Len(fifo[c]) : fifo[c][j] = fifo[c][k] => j = k

\* A packet that has been handed out is held by a client until it is freed.
RoutedHeld ==
    \A i \in Index : Used(lp, i) /\ lp.ptrs[i].tcount # NotRouted /\ ~BeingFreed(i) => Holders(i) # {}

\* A slot is freed when no client has it any more.
FreedUnheld ==
    pc \in {"freeRd", "freeSlot"} =>
        /\ Used(lp, idx)
        /\ Holders(idx) = {}
        /\ ret = "move" => idx = myRd

RoutingMyRd == pc = "route" => idx = myRd /\ Unrouted(idx)

IInv ==
    /\ TypeOK
    /\ Ring
    /\ AddingUsed
    /\ NoDuplicates
    /\ HeldSlotsCounted
    /\ RoutedHeld
    /\ FreedUnheld
    /\ RoutingMyRd
=============================================================================
