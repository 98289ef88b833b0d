----------------------------- MODULE RxDelivery -----------------------------
(***************************************************************************)
(* What the receive side of a MAC promises its clients, without the shared *)
(* packet queue: every client has a bounded queue of its own, packets go   *)
(* to each client that wants them in the order they arrived, and a client  *)
(* whose queue is full misses the packet while the others get it.          *)
(***************************************************************************)
EXTENDS Integers, Sequences

CONSTANTS Clients, Etypes, Tags,
          Capacity      \* packets that wait for one client

VARIABLES
    pending,    \* packets received and not yet distributed
    queue,      \* the packets that wait for each client
    accepts     \* the Ethertypes each client takes

vars == <<pending, queue, accepts>>

Contents == [dst : SUBSET Clients, etype : Etypes, tag : Tags]

Init ==
    /\ pending = <<>>
    /\ queue = [c \in Clients |-> <<>>]
    /\ accepts = [c \in Clients |-> Etypes]

Arrive ==
    /\ \E p \in Contents : pending' = Append(pending, p)
    /\ UNCHANGED <<queue, accepts>>

\* The oldest packet goes to every client it is for that has room.
Distribute ==
    /\ pending # <<>>
    /\ LET p == Head(pending)
           Gets(c) == c \in p.dst /\ p.etype \in accepts[c] /\ Len(queue[c]) < Capacity
       IN  queue' = [c \in Clients |-> IF Gets(c) THEN Append(queue[c], p) ELSE queue[c]]
    /\ pending' = Tail(pending)
    /\ UNCHANGED accepts

\* A client takes its oldest packet, or the MAC drops it.
Leave(c) ==
    /\ queue[c] # <<>>
    /\ queue' = [queue EXCEPT ![c] = Tail(@)]
    /\ UNCHANGED <<pending, accepts>>

SetAccepts(c) ==
    /\ \E ts \in SUBSET Etypes : accepts' = [accepts EXCEPT ![c] = ts]
    /\ UNCHANGED <<pending, queue>>

Next ==
    \/ Arrive
    \/ Distribute
    \/ \E c \in Clients : Leave(c) \/ SetAccepts(c)

Spec == Init /\ [][Next]_vars
=============================================================================
