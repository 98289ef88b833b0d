---------------------------- MODULE RgmiiRxProofs ----------------------------
(* That the RGMII receive side loses no buffer and hands out packets as    *)
(* RxDelivery says, for all numbers of buffers and clients and all frames, *)
(* as long as the speed only changes while no client has packets to fetch. *)
EXTENDS RgmiiRx, SequenceMaps, FiniteSetTheorems, TLAPS

\* No client has a buffer twice.
NoDuplicates ==
    \A c \in Clients : \A j, k \in 1 .. Len(fifo[c]) : fifo[c][j] = fifo[c][k] => j = k

\* What waits to be distributed or fetched has been filed.
WaitingFilled ==
    \A b \in Buffers : Times(b, used_lp) > 0 \/ Holders(b) # {} => packet[b] \in Filled

\* A manager and the server have a buffer in hand just where they use it.
InHand ==
    /\ \A m \in Managers : manager[m] = "file" <=> buffer[m] # NoBuffer
    /\ pc = "send" <=> buf # NoBuffer

NothingHeldAtRestart == pc = "stopped" => \A c \in Clients : fifo[c] = <<>>

IInv ==
    /\ TypeOK
    /\ BuffersAccounted
    /\ NoDuplicates
    /\ WaitingFilled
    /\ InHand
    /\ NothingHeldAtRestart

----------------------------------------------------------------------------
(* How often a buffer is in a sequence.                                    *)

LEMMA TimesType ==
    ASSUME NEW s \in Ring, NEW b \in Buffers
    PROVE  /\ IsFiniteSet({k \in DOMAIN s : s[k] = b})
           /\ Times(b, s) \in Nat
           /\ Times(b, s) = 0 <=> \A k \in 1 .. Len(s) : s[k] # b
<1> DEFINE S == {k \in DOMAIN s : s[k] = b}
<1>1. S \in SUBSET (1 .. Len(s)) /\ Len(s) \in Nat
  BY DEF Ring
<1>2. IsFiniteSet(S)
  BY <1>1, FS_Interval, FS_Subset
<1>3. Cardinality(S) \in Nat /\ (Cardinality(S) = 0 <=> S = {})
  BY <1>2, FS_CardinalityType, FS_EmptySet
<1>4. S = {} <=> \A k \in 1 .. Len(s) : s[k] # b
  BY DEF Ring
<1> QED BY <1>2, <1>3, <1>4 DEF Times

LEMMA TimesEmpty ==
    ASSUME NEW b \in Buffers
    PROVE  <<>> \in Ring /\ Times(b, <<>>) = 0
<1>1. <<>> \in Ring /\ Len(<<>>) = 0
  BY DEF Ring
<1>2. 1 .. 0 = {}
  OBVIOUS
<1> QED BY <1>1, <1>2, TimesType

LEMMA TimesAppend ==
    ASSUME NEW s \in Ring, NEW x \in Buffers
    PROVE  /\ Append(s, x) \in Ring
           /\ \A b \in Buffers : Times(b, Append(s, x)) = Times(b, s) + (IF b = x THEN 1 ELSE 0)
<1> DEFINE n == Len(s)
           t == Append(s, x)
<1>1. /\ t \in Ring /\ n \in Nat /\ DOMAIN s = 1 .. n /\ DOMAIN t = 1 .. n + 1
      /\ t[n + 1] = x /\ \A k \in 1 .. n : t[k] = s[k]
  BY DEF Ring
<1> HIDE DEF n, t
<1>2. ASSUME NEW b \in Buffers
      PROVE  Times(b, t) = Times(b, s) + (IF b = x THEN 1 ELSE 0)
  <2> DEFINE S == {k \in DOMAIN s : s[k] = b}
             T == {k \in DOMAIN t : t[k] = b}
  <2>1. IsFiniteSet(S) /\ Cardinality(S) \in Nat
    BY TimesType DEF Times
  <2>2. n + 1 \notin S
    BY <1>1
  <2>3. CASE b = x
    <3>1. T = S \cup {n + 1}
      <4>1. \A k : k \in T <=> k \in S \/ k = n + 1
        BY <1>1, <2>3
      <4> QED BY <4>1
    <3> HIDE DEF S, T
    <3>2. Cardinality(T) = Cardinality(S) + 1
      BY <3>1, <2>1, <2>2, FS_AddElement
    <3> QED BY <3>2, <2>3 DEF Times, S, T
  <2>4. CASE b # x
    <3>1. \A k : k \in T <=> k \in S
      BY <1>1, <2>4
    <3>2. T = S
      BY <3>1
    <3> HIDE DEF S, T
    <3>3. Cardinality(T) = Cardinality(S) + 0
      BY <3>2, <2>1
    <3> QED BY <3>3, <2>4 DEF Times, S, T
  <2> QED BY <2>3, <2>4
<1> QED BY <1>1, <1>2 DEF t

LEMMA TimesTail ==
    ASSUME NEW s \in Ring, s # <<>>
    PROVE  /\ Tail(s) \in Ring /\ Head(s) \in Buffers
           /\ Len(Tail(s)) = Len(s) - 1
           /\ \A b \in Buffers : Times(b, Tail(s)) = Times(b, s) - (IF b = Head(s) THEN 1 ELSE 0)
<1> DEFINE n == Len(s)
           t == Tail(s)
<1>1. /\ t \in Ring /\ n \in Nat \ {0} /\ DOMAIN s = 1 .. n /\ DOMAIN t = 1 .. n - 1
      /\ Len(t) = n - 1
      /\ Head(s) = s[1] /\ s[1] \in Buffers /\ \A k \in 1 .. n - 1 : t[k] = s[k + 1]
  BY DEF Ring
<1> HIDE DEF n, t
<1>2. ASSUME NEW b \in Buffers
      PROVE  Times(b, t) = Times(b, s) - (IF b = s[1] THEN 1 ELSE 0)
  <2> DEFINE S == {k \in DOMAIN s : s[k] = b}
             T == {k \in DOMAIN t : t[k] = b}
             g == [k \in T |-> k + 1]
  <2>1. IsFiniteSet(S) /\ IsFiniteSet(T)
    BY <1>1, TimesType
  <2>2. g \in Bijection(T, S \ {1})
    <3>1. \A k \in T : k \in Int /\ k + 1 \in S \ {1}
      BY <1>1
    <3>2. \A l \in S \ {1} : l \in Int /\ l - 1 \in T
      BY <1>1
    <3>3. g \in [T -> S \ {1}] /\ \A k \in T : g[k] = k + 1
      BY <3>1
    <3> HIDE DEF S, T, g
    <3>4. \A k, l \in T : g[k] = g[l] => k = l
      BY <3>1, <3>3
    <3>5. \A l \in S \ {1} : g[l - 1] = l
      BY <3>2, <3>3
    <3> QED BY <3>2, <3>3, <3>4, <3>5 DEF Bijection, Injection, IsInjective, Surjection
  <2>3. 1 \in S <=> b = s[1]
    BY <1>1
  <2> HIDE DEF S, T, g
  <2>4. Cardinality(S \ {1}) = Cardinality(T)
    BY <2>1, <2>2, FS_Bijection DEF ExistsBijection
  <2>5. Cardinality(S \ {1}) = IF 1 \in S THEN Cardinality(S) - 1 ELSE Cardinality(S)
    BY <2>1, FS_RemoveElement
  <2>6. Cardinality(S) \in Nat
    BY <2>1, FS_CardinalityType
  <2> QED BY <2>3, <2>4, <2>5, <2>6 DEF Times, S, T
<1> QED BY <1>1, <1>2 DEF t, n

----------------------------------------------------------------------------
(* Where buffers are.                                                      *)

LEMMA ManagersHave ==
    ASSUME NEW f \in [Managers -> Slot], NEW b \in Buffers
    PROVE  Cardinality({m \in Managers : f[m] = b}) =
               (IF f[0] = b THEN 1 ELSE 0) + (IF f[1] = b THEN 1 ELSE 0)
<1> DEFINE S == {m \in Managers : f[m] = b}
<1>1. CASE f[0] = b /\ f[1] = b
  <2>1. S = {0} \cup {1}
    BY <1>1 DEF Managers
  <2>2. Cardinality({0} \cup {1}) = 1 + 1
    <3>1. IsFiniteSet({0}) /\ Cardinality({0}) = 1 /\ 1 \notin {0}
      BY FS_Singleton
    <3> HIDE DEF S
    <3>2. Cardinality({0} \cup {1}) = IF 1 \in {0} THEN Cardinality({0}) ELSE Cardinality({0}) + 1
      BY <3>1, FS_AddElement
    <3> QED BY <3>1, <3>2
  <2> QED BY <2>1, <2>2, <1>1
<1>2. CASE f[0] = b /\ f[1] # b
  <2>1. S = {0}
    BY <1>2 DEF Managers
  <2> QED BY <2>1, <1>2, FS_Singleton
<1>3. CASE f[0] # b /\ f[1] = b
  <2>1. S = {1}
    BY <1>3 DEF Managers
  <2> QED BY <2>1, <1>3, FS_Singleton
<1>4. CASE f[0] # b /\ f[1] # b
  <2>1. S = {}
    BY <1>4 DEF Managers
  <2> QED BY <2>1, <1>4, FS_EmptySet
<1> QED BY <1>1, <1>2, <1>3, <1>4

\* How often a buffer is with a manager, with the server and at clients.
InManager(b, m) == IF buffer[m] = b THEN 1 ELSE 0
InServer(b) == IF buf = b THEN 1 ELSE 0
AtClients(b) == IF Holders(b) # {} THEN 1 ELSE 0

\* The places of a buffer, as numbers that can be added.
Total(b) ==
    free[b] + Times(b, used_lp) + Times(b, used_hp)
        + Times(b, to_pins[0]) + Times(b, to_pins[1])
        + Times(b, to_manager[0]) + Times(b, to_manager[1])
        + InManager(b, 0) + InManager(b, 1) + InServer(b) + AtClients(b)

Sum(b) ==
    /\ Places(b) = Total(b)
    /\ free[b] \in Nat
    /\ Times(b, used_lp) \in Nat /\ Times(b, used_hp) \in Nat
    /\ Times(b, to_pins[0]) \in Nat /\ Times(b, to_pins[1]) \in Nat
    /\ Times(b, to_manager[0]) \in Nat /\ Times(b, to_manager[1]) \in Nat
    /\ InManager(b, 0) \in {0, 1} /\ InManager(b, 1) \in {0, 1}
    /\ InServer(b) \in {0, 1} /\ AtClients(b) \in {0, 1}

LEMMA PlacesSum ==
    TypeOK => \A b \in Buffers : Sum(b)
<1> SUFFICES ASSUME TypeOK, NEW b \in Buffers PROVE Sum(b)
  OBVIOUS
<1> DEFINE M == Cardinality({m \in Managers : buffer[m] = b})
<1>1. /\ free[b] \in Nat
      /\ Times(b, used_lp) \in Nat /\ Times(b, used_hp) \in Nat
      /\ Times(b, to_pins[0]) \in Nat /\ Times(b, to_pins[1]) \in Nat
      /\ Times(b, to_manager[0]) \in Nat /\ Times(b, to_manager[1]) \in Nat
  BY TimesType DEF TypeOK, Managers
<1>2. /\ InManager(b, 0) \in {0, 1} /\ InManager(b, 1) \in {0, 1}
      /\ InServer(b) \in {0, 1} /\ AtClients(b) \in {0, 1}
  BY DEF InManager, InServer, AtClients
<1>3. M = InManager(b, 0) + InManager(b, 1)
  BY ManagersHave DEF TypeOK, InManager
<1>4. Places(b) = free[b] + Times(b, used_lp) + Times(b, used_hp)
                  + Times(b, to_pins[0]) + Times(b, to_pins[1])
                  + Times(b, to_manager[0]) + Times(b, to_manager[1])
                  + M + InServer(b) + AtClients(b)
  BY DEF Places, InServer, AtClients
<1> HIDE DEF M
<1> QED BY <1>1, <1>2, <1>3, <1>4 DEF Sum, Total

LEMMA PlacesSumNext ==
    TypeOK' => (\A b \in Buffers : Sum(b))'
  BY PlacesSum, PTL

LEMMA HoldersType ==
    ASSUME NEW b \in Buffers
    PROVE  /\ Holders(b) \in SUBSET Clients /\ IsFiniteSet(Holders(b))
           /\ Cardinality(Holders(b)) \in Nat /\ Cardinality(Holders(b)) <= Cardinality(Clients)
           /\ Cardinality(Holders(b)) = 0 <=> Holders(b) = {}
           /\ Cardinality(Clients) \in Nat
<1>1. Holders(b) \in SUBSET Clients
  BY DEF Holders
<1> QED BY <1>1, RgmiiRxAssumption, FS_Subset, FS_CardinalityType, FS_EmptySet

\* Who has a buffer, in terms of positions.
LEMMA HoldersAre ==
    ASSUME TypeOK, NEW b \in Buffers, NEW c \in Clients
    PROVE  c \in Holders(b) <=> \E k \in 1 .. Len(fifo[c]) : fifo[c][k] = b
<1>1. fifo[c] \in Seq(Buffers)
  BY DEF TypeOK, Ring
<1>2. DOMAIN fifo[c] = 1 .. Len(fifo[c])
  BY <1>1
<1> QED BY <1>2 DEF Holders, Held

\* buffers_free_take takes a buffer that is on the stack, unless it is empty.
LEMMA TopIsFree ==
    ASSUME TypeOK, Top # NoBuffer
    PROVE  Top \in Buffers /\ free[Top] > 0
<1>1. \E b \in Buffers : free[b] > 0
  BY DEF Top
<1>2. Top = CHOOSE b \in Buffers : free[b] > 0
  BY <1>1 DEF Top
<1> QED BY <1>1, <1>2

\* A buffer that is in one place is in no other.
LEMMA OnePlace ==
    ASSUME TypeOK, BuffersAccounted, NEW b \in Buffers
    PROVE  /\ free[b] > 0 \/ (\E m \in Managers : buffer[m] = b) \/ buf = b
                 => Times(b, used_lp) = 0 /\ Times(b, used_hp) = 0 /\ Holders(b) = {}
           /\ Times(b, used_lp) > 0 => Times(b, used_lp) = 1 /\ Holders(b) = {}
           /\ Holders(b) # {} => Times(b, used_lp) = 0
<1>1. Places(b) = 1
  BY DEF BuffersAccounted
<1>2. /\ free[b] > 0 \/ InManager(b, 0) = 1 \/ InManager(b, 1) = 1 \/ InServer(b) = 1
             => Times(b, used_lp) = 0 /\ Times(b, used_hp) = 0 /\ AtClients(b) = 0
      /\ Times(b, used_lp) > 0 => Times(b, used_lp) = 1 /\ AtClients(b) = 0
      /\ AtClients(b) = 1 => Times(b, used_lp) = 0
  BY <1>1, PlacesSum DEF Sum, Total
<1> QED BY <1>2 DEF InManager, InServer, AtClients, Managers

LEMMA HoldersAreNext ==
    TypeOK' => (\A b \in Buffers, c \in Clients :
                   c \in Holders(b) <=> \E k \in 1 .. Len(fifo[c]) : fifo[c][k] = b)'
<1>1. TypeOK => \A b \in Buffers, c \in Clients :
                   c \in Holders(b) <=> \E k \in 1 .. Len(fifo[c]) : fifo[c][k] = b
  BY HoldersAre
<1> QED BY <1>1, PTL

LEMMA SameHolders ==
    ASSUME fifo' = fifo
    PROVE  \A b \in Buffers : Holders(b)' = Holders(b) /\ AtClients(b)' = AtClients(b)
  BY DEF Holders, Held, AtClients

\* A step that moves buffers from one place to another, but leaves the
\* clients theirs.
LEMMA Rearranged ==
    ASSUME IInv, TypeOK', InHand', UNCHANGED fifo,
           \A b \in Buffers :
               /\ Total(b)' = Total(b)
               /\ Holders(b) # {} => packet'[b] = packet[b]
               /\ Times(b, used_lp)' > 0 => packet'[b] \in Filled,
           pc' = "stopped" => pc = "stopped" \/ \A c \in Clients : fifo[c] = <<>>
    PROVE  IInv'
<1>1. \A b \in Buffers : Holders(b)' = Holders(b)
  BY SameHolders
<1>2. BuffersAccounted'
  <2>1. \A b \in Buffers : Places(b)' = 1
    BY PlacesSum, PlacesSumNext DEF Sum, IInv, BuffersAccounted
  <2> QED BY <1>1, <2>1 DEF IInv, BuffersAccounted
<1>3. NoDuplicates' /\ NothingHeldAtRestart'
  BY DEF IInv, NoDuplicates, NothingHeldAtRestart
<1>4. WaitingFilled'
  BY <1>1 DEF IInv, WaitingFilled
<1> QED BY <1>2, <1>3, <1>4 DEF IInv

----------------------------------------------------------------------------
(* The pins and the managers.                                              *)

LEMMA ReceiveStep ==
    ASSUME IInv, NEW m \in Managers, Receive(m)
    PROVE  IInv'
<1>1. /\ to_pins[m] \in Ring /\ to_manager[m] \in Ring /\ to_pins[m] # <<>>
      /\ to_pins \in [Managers -> Ring] /\ to_manager \in [Managers -> Ring]
  BY DEF Receive, IInv, TypeOK
<1> DEFINE x == Head(to_pins[m])
<1>2. x \in Buffers /\ Tail(to_pins[m]) \in Ring /\ Append(to_manager[m], x) \in Ring
  BY <1>1, TimesTail, TimesAppend
<1>3. TypeOK'
  BY <1>2 DEF IInv, TypeOK, Receive, listVars, managerVars, serverVars
<1>4. ASSUME NEW b \in Buffers
      PROVE  Total(b)' = Total(b)
  <2>1. /\ Times(b, to_pins'[m]) = Times(b, to_pins[m]) - (IF b = x THEN 1 ELSE 0)
        /\ Times(b, to_manager'[m]) = Times(b, to_manager[m]) + (IF b = x THEN 1 ELSE 0)
        /\ \A n \in Managers \ {m} : to_pins'[n] = to_pins[n] /\ to_manager'[n] = to_manager[n]
    BY <1>1, <1>2, TimesTail, TimesAppend DEF Receive
  <2>2. /\ AtClients(b)' = AtClients(b) /\ InServer(b)' = InServer(b)
        /\ InManager(b, 0)' = InManager(b, 0) /\ InManager(b, 1)' = InManager(b, 1)
    BY SameHolders DEF Receive, managerVars, serverVars, InManager, InServer
  <2>3. UNCHANGED <<free, used_lp, used_hp>>
    BY DEF Receive, listVars
  <2>4. Sum(b)
    BY PlacesSum DEF IInv
  <2> HIDE DEF x
  <2>5. CASE m = 0
    BY <2>1, <2>2, <2>3, <2>4, <2>5 DEF Sum, Total, Managers
  <2>6. CASE m = 1
    BY <2>1, <2>2, <2>3, <2>4, <2>6 DEF Sum, Total, Managers
  <2> QED BY <2>5, <2>6 DEF Managers
<1>5. InHand'
  BY DEF IInv, InHand, Receive, managerVars, serverVars
<1> QED BY <1>3, <1>4, <1>5, Rearranged DEF IInv, WaitingFilled, NothingHeldAtRestart, Receive, listVars, serverVars

LEMMA KeepStep ==
    ASSUME IInv, NEW m \in Managers, Keep(m)
    PROVE  IInv'
<1> DEFINE x == Head(to_manager[m])
           y == Top
<1>1. /\ to_pins[m] \in Ring /\ to_manager[m] \in Ring /\ to_manager[m] # <<>>
      /\ to_pins \in [Managers -> Ring] /\ to_manager \in [Managers -> Ring]
      /\ free \in [Buffers -> Nat] /\ buffer \in [Managers -> Slot] /\ buffer[m] = NoBuffer
      /\ manager[m] = "select" /\ manager \in [Managers -> {"select", "file", "stopped"}]
  BY DEF Keep, IInv, TypeOK, InHand
<1>2. y \in Buffers /\ free[y] > 0
  BY TopIsFree DEF Keep, IInv
<1>3. /\ x \in Buffers /\ x # NoBuffer
      /\ Tail(to_manager[m]) \in Ring /\ Append(to_pins[m], y) \in Ring
  BY <1>1, <1>2, TimesTail, TimesAppend, RgmiiRxAssumption
<1>4. /\ free' = [free EXCEPT ![y] = @ - 1]
      /\ to_pins' = [to_pins EXCEPT ![m] = Append(@, y)]
      /\ to_manager' = [to_manager EXCEPT ![m] = Tail(@)]
      /\ buffer' = [buffer EXCEPT ![m] = x]
      /\ manager' = [manager EXCEPT ![m] = "file"]
      /\ UNCHANGED <<used_lp, used_hp, packet, pc, buf, dropping, fifo>>
  BY DEF Keep, Taken, serverVars
<1> HIDE DEF x, y
<1>5. TypeOK'
  <2>1. free' \in [Buffers -> Nat] /\ buffer' \in [Managers -> Slot]
    BY <1>1, <1>2, <1>3, <1>4 DEF Slot
  <2> QED BY <2>1, <1>1, <1>3, <1>4 DEF IInv, TypeOK, x
<1>6. ASSUME NEW b \in Buffers
      PROVE  Total(b)' = Total(b)
  <2> DEFINE dx == IF b = x THEN 1 ELSE 0
             dy == IF b = y THEN 1 ELSE 0
  <2>1. /\ Times(b, to_manager'[m]) = Times(b, to_manager[m]) - dx
        /\ Times(b, to_pins'[m]) = Times(b, to_pins[m]) + dy
        /\ \A n \in Managers \ {m} : to_pins'[n] = to_pins[n] /\ to_manager'[n] = to_manager[n]
    BY <1>1, <1>2, <1>4, TimesTail, TimesAppend DEF x
  <2>2. AtClients(b)' = AtClients(b) /\ InServer(b)' = InServer(b)
    BY <1>4, SameHolders DEF InServer
  <2>3. /\ InManager(b, 0)' = InManager(b, 0) + (IF m = 0 THEN dx ELSE 0)
        /\ InManager(b, 1)' = InManager(b, 1) + (IF m = 1 THEN dx ELSE 0)
    BY <1>1, <1>3, <1>4, RgmiiRxAssumption DEF InManager, Managers
  <2>4. free'[b] = free[b] - dy
    BY <1>1, <1>4
  <2>5. Sum(b) /\ dx \in {0, 1} /\ dy \in {0, 1}
    BY PlacesSum DEF IInv
  <2>8. UNCHANGED <<used_lp, used_hp>>
    BY <1>4
  <2> HIDE DEF dx, dy
  <2>6. CASE m = 0
    BY <2>1, <2>2, <2>3, <2>4, <2>5, <2>6, <2>8 DEF Sum, Total, Managers
  <2>7. CASE m = 1
    BY <2>1, <2>2, <2>3, <2>4, <2>5, <2>7, <2>8 DEF Sum, Total, Managers
  <2> QED BY <2>6, <2>7 DEF Managers
<1>7. InHand'
  BY <1>1, <1>3, <1>4 DEF IInv, InHand
<1> QED BY <1>4, <1>5, <1>6, <1>7, Rearranged DEF IInv, WaitingFilled

LEMMA ReuseStep ==
    ASSUME IInv, NEW m \in Managers, Reuse(m)
    PROVE  IInv'
<1> DEFINE x == Head(to_manager[m])
<1>1. /\ to_pins[m] \in Ring /\ to_manager[m] \in Ring /\ to_manager[m] # <<>>
      /\ to_pins \in [Managers -> Ring] /\ to_manager \in [Managers -> Ring]
  BY DEF Reuse, IInv, TypeOK
<1>2. x \in Buffers /\ Tail(to_manager[m]) \in Ring /\ Append(to_pins[m], x) \in Ring
  BY <1>1, TimesTail, TimesAppend
<1>3. TypeOK'
  BY <1>2 DEF IInv, TypeOK, Reuse, listVars, managerVars, serverVars
<1>4. ASSUME NEW b \in Buffers
      PROVE  Total(b)' = Total(b)
  <2>1. /\ Times(b, to_manager'[m]) = Times(b, to_manager[m]) - (IF b = x THEN 1 ELSE 0)
        /\ Times(b, to_pins'[m]) = Times(b, to_pins[m]) + (IF b = x THEN 1 ELSE 0)
        /\ \A n \in Managers \ {m} : to_pins'[n] = to_pins[n] /\ to_manager'[n] = to_manager[n]
    BY <1>1, <1>2, TimesTail, TimesAppend DEF Reuse
  <2>2. /\ AtClients(b)' = AtClients(b) /\ InServer(b)' = InServer(b)
        /\ InManager(b, 0)' = InManager(b, 0) /\ InManager(b, 1)' = InManager(b, 1)
    BY SameHolders DEF Reuse, managerVars, serverVars, InManager, InServer
  <2>3. UNCHANGED <<free, used_lp, used_hp>>
    BY DEF Reuse, listVars
  <2>4. Sum(b)
    BY PlacesSum DEF IInv
  <2> HIDE DEF x
  <2>5. CASE m = 0
    BY <2>1, <2>2, <2>3, <2>4, <2>5 DEF Sum, Total, Managers
  <2>6. CASE m = 1
    BY <2>1, <2>2, <2>3, <2>4, <2>6 DEF Sum, Total, Managers
  <2> QED BY <2>5, <2>6 DEF Managers
<1>5. InHand'
  BY DEF IInv, InHand, Reuse, managerVars, serverVars
<1> QED BY <1>3, <1>4, <1>5, Rearranged DEF IInv, WaitingFilled, Reuse, listVars, serverVars

\* A frame is filed: with nobody, or in the ring of its priority.
LEMMA FileStep ==
    ASSUME IInv, NEW m \in Managers, File(m)
    PROVE  IInv'
<1> DEFINE x == buffer[m]
<1>1. /\ x \in Buffers
      /\ free \in [Buffers -> Nat] /\ packet \in [Buffers -> Filled \cup {NoBuffer}]
      /\ used_lp \in Ring /\ used_hp \in Ring
      /\ buffer \in [Managers -> Slot] /\ manager \in [Managers -> {"select", "file", "stopped"}]
      /\ buffer' = [buffer EXCEPT ![m] = NoBuffer] /\ manager' = [manager EXCEPT ![m] = "select"]
      /\ UNCHANGED <<to_pins, to_manager, pc, buf, dropping, fifo>>
  BY DEF File, IInv, TypeOK, InHand, Slot, pinVars, serverVars
<1>2. PICK f \in Frames :
          LET Fill == packet' = [packet EXCEPT ![x] = [frame |-> f, tcount |-> 0]]
          IN  \/ FreeAdd(x) /\ UNCHANGED <<used_lp, used_hp>>
              \/ Fill /\ used_hp' = Append(used_hp, x) /\ UNCHANGED <<free, used_lp>>
              \/ Fill /\ used_lp' = Append(used_lp, x) /\ UNCHANGED <<free, used_hp>>
  BY DEF File
<1>3. [frame |-> f, tcount |-> 0] \in Filled
  BY DEF Filled
<1>4. /\ packet' \in [Buffers -> Filled \cup {NoBuffer}]
      /\ \A b \in Buffers \ {x} : packet'[b] = packet[b]
      /\ used_lp' # used_lp => packet'[x] \in Filled
  BY <1>1, <1>2, <1>3 DEF FreeAdd
<1> HIDE DEF x
<1>5. /\ free' \in [Buffers -> Nat] /\ used_lp' \in Ring /\ used_hp' \in Ring
      /\ \A b \in Buffers :
             /\ Times(b, used_lp)' >= Times(b, used_lp)
             /\ b # x => Times(b, used_lp)' = Times(b, used_lp)
             /\ free'[b] + Times(b, used_lp)' + Times(b, used_hp)' =
                    free[b] + Times(b, used_lp) + Times(b, used_hp) + (IF b = x THEN 1 ELSE 0)
  <2>1. \A b \in Buffers : free[b] \in Nat /\ Times(b, used_lp) \in Nat /\ Times(b, used_hp) \in Nat
    BY <1>1, TimesType
  <2>2. CASE FreeAdd(x) /\ UNCHANGED <<used_lp, used_hp>>
    BY <2>1, <2>2, <1>1 DEF FreeAdd
  <2>3. CASE used_hp' = Append(used_hp, x) /\ UNCHANGED <<free, used_lp>>
    <3>1. used_hp' \in Ring /\ \A b \in Buffers : Times(b, used_hp') = Times(b, used_hp) + (IF b = x THEN 1 ELSE 0)
      <4>1. used_hp \in Ring /\ x \in Buffers
        BY <1>1
      <4> QED BY <4>1, <2>3, TimesAppend
    <3>2. free' \in [Buffers -> Nat] /\ used_lp' \in Ring /\ used_hp' \in Ring
      BY <3>1, <2>3, <1>1
    <3>3. ASSUME NEW b \in Buffers
          PROVE  /\ Times(b, used_lp)' >= Times(b, used_lp)
                 /\ b # x => Times(b, used_lp)' = Times(b, used_lp)
                 /\ free'[b] + Times(b, used_lp)' + Times(b, used_hp)' =
                        free[b] + Times(b, used_lp) + Times(b, used_hp) + (IF b = x THEN 1 ELSE 0)
      BY <3>1, <2>1, <2>3
    <3> QED BY <3>2, <3>3
  <2>4. CASE used_lp' = Append(used_lp, x) /\ UNCHANGED <<free, used_hp>>
    <3>1. used_lp' \in Ring /\ \A b \in Buffers : Times(b, used_lp') = Times(b, used_lp) + (IF b = x THEN 1 ELSE 0)
      <4>1. used_lp \in Ring /\ x \in Buffers
        BY <1>1
      <4> QED BY <4>1, <2>4, TimesAppend
    <3>2. free' \in [Buffers -> Nat] /\ used_lp' \in Ring /\ used_hp' \in Ring
      BY <3>1, <2>4, <1>1
    <3>3. ASSUME NEW b \in Buffers
          PROVE  /\ Times(b, used_lp)' >= Times(b, used_lp)
                 /\ b # x => Times(b, used_lp)' = Times(b, used_lp)
                 /\ free'[b] + Times(b, used_lp)' + Times(b, used_hp)' =
                        free[b] + Times(b, used_lp) + Times(b, used_hp) + (IF b = x THEN 1 ELSE 0)
      BY <3>1, <2>1, <2>4
    <3> QED BY <3>2, <3>3
  <2> QED BY <2>2, <2>3, <2>4, <1>2
<1>6. TypeOK'
  <2>1. buffer' \in [Managers -> Slot]
    BY <1>1 DEF Slot
  <2> QED BY <2>1, <1>1, <1>4, <1>5 DEF IInv, TypeOK
<1>7. ASSUME NEW b \in Buffers
      PROVE  Total(b)' = Total(b)
  <2> DEFINE dx == IF b = x THEN 1 ELSE 0
  <2>1. AtClients(b)' = AtClients(b) /\ InServer(b)' = InServer(b)
    BY <1>1, SameHolders DEF InServer
  <2>2. /\ InManager(b, 0)' = InManager(b, 0) - (IF m = 0 THEN dx ELSE 0)
        /\ InManager(b, 1)' = InManager(b, 1) - (IF m = 1 THEN dx ELSE 0)
    BY <1>1, RgmiiRxAssumption DEF InManager, Managers, x
  <2>3. Sum(b) /\ Sum(b)' /\ dx \in {0, 1}
    BY <1>6, PlacesSum, PlacesSumNext DEF IInv
  <2>6. free'[b] + Times(b, used_lp)' + Times(b, used_hp)' =
            free[b] + Times(b, used_lp) + Times(b, used_hp) + dx
    BY <1>5
  <2>7. UNCHANGED <<to_pins, to_manager>>
    BY <1>1
  <2> HIDE DEF dx
  <2>4. CASE m = 0
    BY <2>1, <2>2, <2>3, <2>4, <2>6, <2>7 DEF Sum, Total, Managers
  <2>5. CASE m = 1
    BY <2>1, <2>2, <2>3, <2>5, <2>6, <2>7 DEF Sum, Total, Managers
  <2> QED BY <2>4, <2>5 DEF Managers
<1>8. ASSUME NEW b \in Buffers
      PROVE  /\ Holders(b) # {} => packet'[b] = packet[b]
             /\ Times(b, used_lp)' > 0 => packet'[b] \in Filled
  <2>1. b = x => Times(b, used_lp) = 0 /\ Holders(b) = {}
    BY OnePlace DEF IInv, x
  <2>2. CASE b # x
    BY <2>2, <1>4, <1>5 DEF IInv, WaitingFilled
  <2>3. CASE b = x
    <3>1. Times(b, used_lp)' > 0 => used_lp' # used_lp
      BY <2>1, <2>3
    <3> QED BY <3>1, <2>1, <2>3, <1>4
  <2> QED BY <2>2, <2>3
<1>9. InHand'
  BY <1>1 DEF IInv, InHand
<1> QED BY <1>1, <1>6, <1>7, <1>8, <1>9, Rearranged DEF IInv

LEMMA StopManagerStep ==
    ASSUME IInv, NEW m \in Managers, StopManager(m)
    PROVE  IInv'
<1>1. UNCHANGED <<free, used_lp, used_hp, packet, to_pins, to_manager, buffer, pc, buf, dropping, fifo>>
  BY DEF StopManager, listVars, pinVars, serverVars
<1>2. TypeOK' /\ InHand'
  BY <1>1 DEF StopManager, IInv, TypeOK, InHand
<1>3. \A b \in Buffers : Total(b)' = Total(b)
  BY <1>1, SameHolders DEF Total, InManager, InServer
<1> QED BY <1>1, <1>2, <1>3, Rearranged DEF IInv, WaitingFilled

----------------------------------------------------------------------------
(* The server, where it hands out and gets back no low priority packet.    *)

\* A step of the server from one place of its loop to another.
LEMMA ServerMoves ==
    ASSUME IInv, pc \notin {"send", "stopped"}, pc' \in {"select", "hp", "incoming", "drop", "stopped"},
           dropping' \subseteq Clients,
           UNCHANGED <<listVars, pinVars, managerVars, buf, fifo>>,
           pc' = "stopped" => \A c \in Clients : fifo[c] = <<>>
    PROVE  IInv'
<1>1. UNCHANGED <<free, used_lp, used_hp, packet, to_pins, to_manager, manager, buffer, buf, fifo>>
  BY DEF listVars, pinVars, managerVars
<1>2. TypeOK' /\ InHand'
  BY <1>1 DEF IInv, TypeOK, InHand
<1>3. \A b \in Buffers : Total(b)' = Total(b)
  BY <1>1, SameHolders DEF Total, InManager, InServer
<1> QED BY <1>1, <1>2, <1>3, Rearranged DEF IInv, WaitingFilled

LEMMA TakeHpStep ==
    ASSUME IInv, TakeHp
    PROVE  IInv'
<1> DEFINE x == Head(used_hp)
<1>1. /\ used_hp \in Ring /\ used_hp # <<>> /\ buf = NoBuffer /\ pc' = "send"
      /\ buf' = x /\ used_hp' = Tail(used_hp)
      /\ UNCHANGED <<free, used_lp, packet, to_pins, to_manager, manager, buffer, dropping, fifo>>
  BY DEF TakeHp, IInv, TypeOK, InHand, pinVars, managerVars
<1>2. x \in Buffers /\ x # NoBuffer /\ used_hp' \in Ring
  BY <1>1, TimesTail, RgmiiRxAssumption
<1>3. \A b \in Buffers : Times(b, used_hp') = Times(b, used_hp) - (IF b = x THEN 1 ELSE 0)
  BY <1>1, TimesTail
<1> HIDE DEF x
<1>4. TypeOK' /\ InHand'
  BY <1>1, <1>2 DEF IInv, TypeOK, InHand, Slot
<1>5. ASSUME NEW b \in Buffers
      PROVE  Total(b)' = Total(b)
  <2>1. /\ AtClients(b)' = AtClients(b)
        /\ InManager(b, 0)' = InManager(b, 0) /\ InManager(b, 1)' = InManager(b, 1)
        /\ InServer(b) = 0 /\ InServer(b)' = IF b = x THEN 1 ELSE 0
    BY <1>1, <1>2, SameHolders, RgmiiRxAssumption DEF InServer, InManager
  <2>2. Sum(b)
    BY PlacesSum DEF IInv
  <2>3. UNCHANGED <<free, used_lp, to_pins, to_manager>>
    BY <1>1
  <2> QED BY <2>1, <2>2, <2>3, <1>3 DEF Sum, Total
<1> QED BY <1>1, <1>4, <1>5, Rearranged DEF IInv, WaitingFilled

LEMMA SendHpStep ==
    ASSUME IInv, SendHp
    PROVE  IInv'
<1> DEFINE x == buf
<1>1. /\ x \in Buffers /\ x # NoBuffer /\ buf' = NoBuffer /\ pc' = "hp"
      /\ free' = [free EXCEPT ![x] = @ + 1] /\ packet' = [packet EXCEPT ![x] = NoBuffer]
      /\ free \in [Buffers -> Nat] /\ packet \in [Buffers -> Filled \cup {NoBuffer}]
      /\ UNCHANGED <<used_lp, used_hp, to_pins, to_manager, manager, buffer, dropping, fifo>>
  BY DEF SendHp, FreeAdd, IInv, TypeOK, InHand, Slot, pinVars, managerVars
<1>2. \A b \in Buffers : b = x => Times(b, used_lp) = 0 /\ Holders(b) = {}
  BY OnePlace DEF IInv
<1>3. \A b \in Buffers : InServer(b) = (IF b = x THEN 1 ELSE 0) /\ InServer(b)' = 0
  BY <1>1, RgmiiRxAssumption DEF InServer
<1> HIDE DEF x
<1>4. TypeOK' /\ InHand'
  BY <1>1 DEF IInv, TypeOK, InHand, Slot
<1>5. ASSUME NEW b \in Buffers
      PROVE  Total(b)' = Total(b)
  <2>1. /\ AtClients(b)' = AtClients(b)
        /\ InManager(b, 0)' = InManager(b, 0) /\ InManager(b, 1)' = InManager(b, 1)
    BY <1>1, SameHolders DEF InManager
  <2>2. Sum(b)
    BY PlacesSum DEF IInv
  <2>3. free'[b] = free[b] + (IF b = x THEN 1 ELSE 0)
    BY <1>1
  <2>4. UNCHANGED <<used_lp, used_hp, to_pins, to_manager>>
    BY <1>1
  <2> QED BY <2>1, <2>2, <2>3, <2>4, <1>3 DEF Sum, Total
<1>6. \A b \in Buffers : /\ Holders(b) # {} => packet'[b] = packet[b]
                         /\ Times(b, used_lp)' > 0 => packet'[b] \in Filled
  BY <1>1, <1>2 DEF IInv, WaitingFilled
<1> QED BY <1>1, <1>4, <1>5, <1>6, Rearranged

----------------------------------------------------------------------------
(* The start of the tasks.                                                 *)

LEMMA TimesTwo ==
    ASSUME NEW x \in Buffers, NEW y \in Buffers
    PROVE  /\ <<x, y>> \in Ring
           /\ \A b \in Buffers : Times(b, <<x, y>>) = (IF b = x THEN 1 ELSE 0) + (IF b = y THEN 1 ELSE 0)
<1> DEFINE e == <<>>
           s == Append(e, x)
           t == Append(s, y)
<1>1. e \in Ring /\ \A b \in Buffers : Times(b, e) = 0
  BY TimesEmpty
<1>2. t = <<x, y>>
  <2> DEFINE u == <<x, y>>
  <2>1. s \in Ring /\ Len(s) = 1 /\ s[1] = x
    BY DEF Ring
  <2>2. u \in Ring /\ Len(u) = 2 /\ u[1] = x /\ u[2] = y
    BY DEF Ring
  <2> HIDE DEF s, u
  <2>3. t \in Ring /\ Len(t) = 2 /\ t[1] = x /\ t[2] = y
    <3>1. t \in Ring /\ Len(t) = Len(s) + 1 /\ t[Len(s) + 1] = y /\ \A k \in 1 .. Len(s) : t[k] = s[k]
      BY <2>1, Appended DEF Ring
    <3>2. 1 \in 1 .. 1 /\ 1 + 1 = 2
      OBVIOUS
    <3> HIDE DEF t
    <3> QED BY <2>1, <3>1, <3>2
  <2> HIDE DEF t
  <2>4. \A k \in 1 .. 2 : k = 1 \/ k = 2
    OBVIOUS
  <2>5. t = u
    BY <2>2, <2>3, <2>4, SameSequence DEF Ring
  <2> QED BY <2>5 DEF u
<1> HIDE DEF e
<1>3. s \in Ring /\ \A b \in Buffers : Times(b, s) = 0 + (IF b = x THEN 1 ELSE 0)
  BY <1>1, TimesAppend
<1> HIDE DEF s
<1>4. t \in Ring /\ \A b \in Buffers : Times(b, t) = Times(b, s) + (IF b = y THEN 1 ELSE 0)
  BY <1>3, TimesAppend
<1> HIDE DEF t
<1> QED BY <1>2, <1>3, <1>4

\* The pins have two buffers per manager; the stack has the others.
LEMMA StartSpreads ==
    ASSUME NEW n \in {1, 2}
    PROVE  /\ Start(n).free \in [Buffers -> Nat]
           /\ Start(n).to_pins \in [Managers -> Ring]
           /\ Start(n).manager \in [Managers -> {"select", "stopped"}]
           /\ \A b \in Buffers :
                  Start(n).free[b] + Times(b, Start(n).to_pins[0]) + Times(b, Start(n).to_pins[1]) = 1
<1> DEFINE Four(s) == \A k, l \in 1 .. 4 : k # l => s[k] # s[l]
           first == CHOOSE s \in [1 .. 4 -> Buffers] : Four(s)
           fr == [b \in Buffers |-> IF \E k \in 1 .. 2 * n : first[k] = b THEN 0 ELSE 1]
           pins == [m \in Managers |-> IF m < n THEN <<first[2 * m + 1], first[2 * m + 2]>> ELSE <<>>]
           mgr == [m \in Managers |-> IF m < n THEN "select" ELSE "stopped"]
<1>1. \E s \in [1 .. 4 -> Buffers] : Four(s)
  <2> DEFINE N == Cardinality(Buffers)
  <2>1. N \in Nat /\ N >= 4 /\ Bijection(1 .. N, Buffers) # {}
    BY RgmiiRxAssumption, FS_CardinalityType DEF ExistsBijection
  <2> HIDE DEF N
  <2>2. PICK f \in [1 .. N -> Buffers] : \A k, l \in 1 .. N : f[k] = f[l] => k = l
    BY <2>1 DEF Bijection, Injection, IsInjective
  <2>3. \A k \in 1 .. 4 : k \in 1 .. N
    BY <2>1
  <2> DEFINE s == [k \in 1 .. 4 |-> f[k]]
  <2>4. s \in [1 .. 4 -> Buffers] /\ \A k \in 1 .. 4 : s[k] = f[k]
    BY <2>3
  <2> HIDE DEF s
  <2>5. Four(s)
    BY <2>2, <2>3, <2>4
  <2> QED BY <2>4, <2>5
<1>2. first \in [1 .. 4 -> Buffers] /\ Four(first)
  BY <1>1
<1>3. Start(n) = [free |-> fr, to_pins |-> pins, manager |-> mgr]
  BY DEF Start
<1> HIDE DEF first
<1>4. /\ first[1] \in Buffers /\ first[2] \in Buffers /\ first[3] \in Buffers /\ first[4] \in Buffers
      /\ first[1] # first[2] /\ first[1] # first[3] /\ first[1] # first[4]
      /\ first[2] # first[3] /\ first[2] # first[4] /\ first[3] # first[4]
  BY <1>2
<1> DEFINE p == <<first[1], first[2]>>
           q == <<first[3], first[4]>>
<1>5. pins[0] = p /\ pins[1] = IF n = 2 THEN q ELSE <<>>
  BY DEF Managers
<1>6. \A b \in Buffers : fr[b] = IF b = first[1] \/ b = first[2] \/ (n = 2 /\ (b = first[3] \/ b = first[4]))
                                 THEN 0 ELSE 1
  <2>1. CASE n = 1
    <3>1. \A k : k \in 1 .. 2 * n <=> k = 1 \/ k = 2
      BY <2>1
    <3> QED BY <3>1, <2>1
  <2>2. CASE n = 2
    <3>1. \A k : k \in 1 .. 2 * n <=> k = 1 \/ k = 2 \/ k = 3 \/ k = 4
      BY <2>2
    <3> QED BY <3>1, <2>2
  <2> QED BY <2>1, <2>2
<1>7. fr \in [Buffers -> Nat] /\ mgr \in [Managers -> {"select", "stopped"}]
  OBVIOUS
<1>8. pins[0] \in Ring /\ pins[1] \in Ring /\ pins \in [Managers -> Ring]
  <2>1. p \in Ring /\ q \in Ring /\ <<>> \in Ring
    BY <1>4, TimesTwo, TimesEmpty
  <2>2. pins[0] \in Ring /\ pins[1] \in Ring
    BY <2>1, <1>5
  <2>3. \A m \in Managers : pins[m] \in Ring
    BY <2>2 DEF Managers
  <2> QED BY <2>2, <2>3
<1>9. ASSUME NEW b \in Buffers
      PROVE  fr[b] + Times(b, pins[0]) + Times(b, pins[1]) = 1
  <2>1. /\ Times(b, p) = (IF b = first[1] THEN 1 ELSE 0) + (IF b = first[2] THEN 1 ELSE 0)
        /\ Times(b, q) = (IF b = first[3] THEN 1 ELSE 0) + (IF b = first[4] THEN 1 ELSE 0)
        /\ Times(b, <<>>) = 0
    BY <1>4, TimesTwo, TimesEmpty
  <2>2. Times(b, pins[0]) = Times(b, p) /\ Times(b, pins[1]) = IF n = 2 THEN Times(b, q) ELSE 0
    BY <1>5, <2>1
  <2> QED BY <2>1, <2>2, <1>4, <1>6
<1> HIDE DEF fr, pins, mgr
<1> QED BY <1>3, <1>7, <1>8, <1>9

\* Nobody has a buffer whose queue is empty.
LEMMA NoHolders ==
    ASSUME \A c \in Clients : fifo[c] = <<>>
    PROVE  \A b \in Buffers : Holders(b) = {} /\ AtClients(b) = 0
<1>1. \A c \in Clients : Held(c) = {}
  <2>1. DOMAIN <<>> = {}
    OBVIOUS
  <2> QED BY <2>1 DEF Held
<1> QED BY <1>1 DEF Holders, AtClients

\* The state after the tasks have started.
Started ==
    /\ \E n \in {1, 2} :
           /\ free = Start(n).free
           /\ to_pins = Start(n).to_pins
           /\ manager = Start(n).manager
    /\ used_lp = <<>> /\ used_hp = <<>>
    /\ to_manager = [m \in Managers |-> <<>>]
    /\ packet \in [Buffers -> Filled \cup {NoBuffer}]
    /\ pc = "select" /\ buf = NoBuffer /\ dropping \subseteq Clients
    /\ buffer = [m \in Managers |-> NoBuffer]
    /\ fifo = [c \in Clients |-> <<>>]

LEMMA StartedInv ==
    Started => IInv
<1> SUFFICES ASSUME Started PROVE IInv
  OBVIOUS
<1>1. PICK n \in {1, 2} : /\ free = Start(n).free
                          /\ to_pins = Start(n).to_pins
                          /\ manager = Start(n).manager
  BY DEF Started
<1>2. <<>> \in Ring
  BY DEF Ring
<1>3. TypeOK
  <2>1. /\ free \in [Buffers -> Nat] /\ to_pins \in [Managers -> Ring]
        /\ manager \in [Managers -> {"select", "file", "stopped"}]
    BY <1>1, StartSpreads
  <2>2. /\ fifo \in [Clients -> Ring] /\ to_manager \in [Managers -> Ring]
        /\ buffer \in [Managers -> Slot] /\ buf \in Slot
    BY <1>2 DEF Started, Slot
  <2>3. \A c \in Clients : Len(fifo[c]) < FifoSize
    BY RgmiiRxAssumption DEF Started
  <2> QED BY <2>1, <2>2, <2>3, <1>2 DEF Started, TypeOK
<1>4. \A b \in Buffers : Holders(b) = {} /\ AtClients(b) = 0
  BY NoHolders DEF Started
<1>5. ASSUME NEW b \in Buffers
      PROVE  Places(b) = 1
  <2>1. Times(b, used_lp) = 0 /\ Times(b, used_hp) = 0
    BY TimesEmpty DEF Started
  <2>2. Times(b, to_manager[0]) = 0 /\ Times(b, to_manager[1]) = 0
    BY TimesEmpty DEF Started, Managers
  <2>3. InManager(b, 0) = 0 /\ InManager(b, 1) = 0 /\ InServer(b) = 0
    BY RgmiiRxAssumption DEF Started, Managers, InManager, InServer
  <2>4. free[b] + Times(b, to_pins[0]) + Times(b, to_pins[1]) = 1
    BY <1>1, StartSpreads
  <2> QED BY <2>1, <2>2, <2>3, <2>4, <1>3, <1>4, PlacesSum DEF Sum, Total
<1>6. WaitingFilled
  BY <1>4, TimesEmpty DEF WaitingFilled, Started
<1>7. InHand
  <2>1. \A m \in Managers : manager[m] # "file" /\ buffer[m] = NoBuffer
    BY <1>1, StartSpreads DEF Started
  <2> QED BY <2>1 DEF Started, InHand
<1>8. NoDuplicates
  BY DEF NoDuplicates, Started
<1> QED BY <1>3, <1>4, <1>5, <1>6, <1>7, <1>8 DEF IInv, BuffersAccounted, NothingHeldAtRestart, Started

LEMMA InitInv ==
    Init => IInv
<1>1. Init => Started
  BY DEF Init, Started
<1> QED BY <1>1, StartedInv

LEMMA RestartStep ==
    ASSUME IInv, Restart
    PROVE  IInv'
<1>1. /\ pc = "stopped" /\ \A m \in Managers : manager[m] = "stopped"
      /\ buffer \in [Managers -> Slot] /\ fifo \in [Clients -> Ring]
      /\ packet \in [Buffers -> Filled \cup {NoBuffer}] /\ dropping \subseteq Clients
      /\ UNCHANGED <<buffer, buf, dropping, fifo>>
  BY DEF Restart, IInv, TypeOK
<1>2. /\ buffer = [m \in Managers |-> NoBuffer] /\ buf = NoBuffer
      /\ fifo = [c \in Clients |-> <<>>]
  <2>1. \A m \in Managers : buffer[m] = NoBuffer
    BY <1>1 DEF IInv, InHand
  <2>2. \A c \in Clients : fifo[c] = <<>>
    BY <1>1 DEF IInv, NothingHeldAtRestart
  <2> QED BY <2>1, <2>2, <1>1 DEF IInv, InHand
<1>3. packet' \in [Buffers -> Filled \cup {NoBuffer}]
  BY <1>1 DEF Restart
<1>4. Started'
  BY <1>1, <1>2, <1>3 DEF Restart, Started
<1>5. Started' => IInv'
  BY StartedInv, PTL
<1> QED BY <1>4, <1>5

----------------------------------------------------------------------------
(* Handing out low priority packets and getting them back.                 *)

LEMMA FromClients ==
    ASSUME NEW b \in Buffers, NEW d \in {0, 1}, Sum(b), InServer(b)' = InServer(b),
           InManager(b, 0)' = InManager(b, 0), InManager(b, 1)' = InManager(b, 1),
           UNCHANGED <<used_lp, used_hp, to_pins, to_manager>>,
           free'[b] = free[b] + d, AtClients(b)' = AtClients(b) - d
    PROVE  Total(b)' = Total(b)
  BY DEF Sum, Total

\* A step changes no frame of a packet that still waits after it.
FramesKept ==
    \A b \in Buffers :
        Times(b, used_lp)' > 0 \/ Holders(b)' # {} => packet'[b].frame = packet[b].frame

\* A buffer leaves the queue of a client, and the last client frees it.
LEMMA ReleaseStep ==
    ASSUME IInv, NEW c \in Clients, fifo[c] # <<>>, Release(Head(fifo[c])),
           fifo' = [fifo EXCEPT ![c] = Tail(@)],
           pc \in {"select", "drop"}, pc' \in {"hp", "drop"}, dropping' \subseteq Clients,
           UNCHANGED <<used_lp, used_hp, pinVars, managerVars, buf>>
    PROVE  IInv' /\ FramesKept
<1>0. PICK x \in Buffers : x = Head(fifo[c])
  BY TimesTail DEF IInv, TypeOK
<1>1. /\ fifo \in [Clients -> Ring] /\ fifo[c] \in Ring
      /\ free \in [Buffers -> Nat] /\ packet \in [Buffers -> Filled \cup {NoBuffer}]
      /\ UNCHANGED <<used_lp, used_hp, to_pins, to_manager, manager, buffer, buf>>
  BY DEF IInv, TypeOK, pinVars, managerVars
<1>2. /\ Tail(fifo[c]) \in Ring /\ Len(fifo[c]) \in Nat \ {0}
      /\ Len(Tail(fifo[c])) = Len(fifo[c]) - 1 /\ x = fifo[c][1]
      /\ \A k \in 1 .. Len(fifo[c]) - 1 : Tail(fifo[c])[k] = fifo[c][k + 1]
  <2> SUFFICES ASSUME NEW s \in Ring, s = fifo[c], s # <<>>
               PROVE  /\ Tail(s) \in Ring /\ Len(s) \in Nat \ {0}
                      /\ Len(Tail(s)) = Len(s) - 1 /\ Head(s) = s[1]
                      /\ \A k \in 1 .. Len(s) - 1 : Tail(s)[k] = s[k + 1]
    BY <1>0, <1>1
  <2> QED BY DEF Ring
<1>3. /\ fifo' \in [Clients -> Ring] /\ \A d \in Clients \ {c} : fifo'[d] = fifo[d]
      /\ fifo'[c] = Tail(fifo[c])
      /\ \A d \in Clients : Len(fifo'[d]) < FifoSize
  BY <1>1, <1>2, RgmiiRxAssumption DEF IInv, TypeOK
<1>4. c \in Holders(x) /\ Holders(x) # {}
  BY <1>1, <1>2, HoldersAre DEF IInv
<1>5. /\ packet[x] \in Filled /\ packet[x].tcount = Cardinality(Holders(x)) - 1
      /\ Cardinality(Holders(x)) \in Nat \ {0} /\ Cardinality(Holders(x)) <= Cardinality(Clients)
      /\ Cardinality(Clients) \in Nat
  BY <1>1, <1>4, HoldersType DEF IInv, WaitingFilled, BuffersAccounted
<1>6. /\ free' \in [Buffers -> Nat] /\ packet' \in [Buffers -> Filled \cup {NoBuffer}]
      /\ \A b \in Buffers \ {x} : packet'[b] = packet[b] /\ free'[b] = free[b]
      /\ packet[x].tcount = 0 => free'[x] = free[x] + 1
      /\ packet[x].tcount # 0 => /\ packet'[x] \in Filled /\ packet'[x].tcount = packet[x].tcount - 1
                                 /\ packet'[x].frame = packet[x].frame
                                 /\ free'[x] = free[x]
  <2>1. CASE packet[x].tcount = 0
    <3>1. free' = [free EXCEPT ![x] = @ + 1] /\ packet' = [packet EXCEPT ![x] = NoBuffer]
      BY <2>1, <1>0 DEF Release, FreeAdd
    <3> QED BY <3>1, <2>1, <1>1
  <2>2. CASE packet[x].tcount # 0
    <3> DEFINE p == [packet[x] EXCEPT !.tcount = @ - 1]
    <3>1. p \in Filled /\ p.tcount = packet[x].tcount - 1 /\ p.frame = packet[x].frame
      <4>1. packet[x].tcount - 1 \in {0} \cup 1 .. Cardinality(Clients) - 1
        BY <1>5, <2>2
      <4>2. ASSUME NEW y \in Filled, NEW t \in {0} \cup 1 .. Cardinality(Clients) - 1
            PROVE  LET z == [y EXCEPT !.tcount = t]
                   IN  z \in Filled /\ z.tcount = t /\ z.frame = y.frame
        BY DEF Filled
      <4> QED BY <4>1, <4>2, <1>5
    <3>2. packet' = [packet EXCEPT ![x] = p] /\ free' = free
      BY <2>2, <1>0 DEF Release
    <3> HIDE DEF p
    <3> QED BY <3>1, <3>2, <2>2, <1>1
  <2> QED BY <2>1, <2>2
<1>7. TypeOK'
  <2>1. pc' \in {"select", "hp", "send", "incoming", "drop", "stopped"}
    OBVIOUS
  <2> QED BY <2>1, <1>1, <1>3, <1>6 DEF IInv, TypeOK
<1>8. ASSUME NEW b \in Buffers
      PROVE  Holders(b)' = IF b = x THEN Holders(b) \ {c} ELSE Holders(b)
  <2>1. \A d \in Clients \ {c} : d \in Holders(b)' <=> d \in Holders(b)
    BY <1>3, <1>7, HoldersAre, HoldersAreNext DEF IInv
  <2>2. c \in Holders(b)' <=> \E k \in 1 .. Len(fifo[c]) - 1 : fifo[c][k + 1] = b
    <3>1. c \in Holders(b)' <=> \E k \in 1 .. Len(fifo'[c]) : fifo'[c][k] = b
      BY <1>7, HoldersAreNext
    <3>2. Len(fifo'[c]) = Len(fifo[c]) - 1
      BY <1>2, <1>3
    <3>3. \A k \in 1 .. Len(fifo[c]) - 1 : fifo'[c][k] = fifo[c][k + 1]
      BY <1>2, <1>3
    <3> QED BY <3>1, <3>2, <3>3
  <2>3. c \in Holders(b) <=> \E k \in 1 .. Len(fifo[c]) : fifo[c][k] = b
    BY HoldersAre DEF IInv
  <2>4. CASE b = x
    <3>1. \A k \in 1 .. Len(fifo[c]) - 1 : fifo[c][k + 1] # b
      <4>1. \A k \in 1 .. Len(fifo[c]) - 1 : k + 1 \in 1 .. Len(fifo[c]) /\ k + 1 # 1
        BY <1>2
      <4>2. 1 \in 1 .. Len(fifo[c])
        BY <1>2
      <4> QED BY <4>1, <4>2, <2>4, <1>2 DEF IInv, NoDuplicates
    <3>2. c \notin Holders(b)'
      BY <3>1, <2>2
    <3> QED BY <3>2, <2>1, <2>4 DEF Holders
  <2>5. CASE b # x
    <3>1. c \in Holders(b)' <=> c \in Holders(b)
      <4>1. \A k \in 1 .. Len(fifo[c]) - 1 : k + 1 \in 1 .. Len(fifo[c])
        BY <1>2
      <4>2. \A k \in 1 .. Len(fifo[c]) : k = 1 \/ (k - 1 \in 1 .. Len(fifo[c]) - 1 /\ (k - 1) + 1 = k)
        BY <1>2
      <4> QED BY <4>1, <4>2, <2>2, <2>3, <2>5, <1>2
    <3> QED BY <3>1, <2>1, <2>5 DEF Holders
  <2> QED BY <2>4, <2>5
<1>9. /\ Cardinality(Holders(x)') = Cardinality(Holders(x)) - 1
      /\ Holders(x)' = {} <=> packet[x].tcount = 0
  <2>1. Cardinality(Holders(x) \ {c}) = Cardinality(Holders(x)) - 1 /\ IsFiniteSet(Holders(x) \ {c})
    BY <1>1, <1>4, HoldersType, FS_RemoveElement
  <2>2. Holders(x)' = Holders(x) \ {c}
    BY <1>1, <1>8
  <2> QED BY <2>1, <2>2, <1>5, FS_EmptySet
<1>10. BuffersAccounted'
  <2>1. ASSUME NEW b \in Buffers
        PROVE  Places(b)' = 1
    <3>1. Sum(b) /\ Sum(b)' /\ Places(b) = 1
      BY <1>7, PlacesSum, PlacesSumNext DEF IInv, BuffersAccounted
    <3>2. /\ InServer(b)' = InServer(b)
          /\ InManager(b, 0)' = InManager(b, 0) /\ InManager(b, 1)' = InManager(b, 1)
      BY <1>1 DEF InServer, InManager
    <3>3. UNCHANGED <<used_lp, used_hp, to_pins, to_manager>>
      BY <1>1
    <3>4. \E d \in {0, 1} : free'[b] = free[b] + d /\ AtClients(b)' = AtClients(b) - d
      <4>1. CASE b = x
        BY <4>1, <3>1, <1>4, <1>6, <1>9 DEF AtClients, Sum
      <4>2. CASE b # x
        BY <4>2, <1>6, <1>8 DEF AtClients
      <4> QED BY <4>1, <4>2
    <3>5. PICK d \in {0, 1} : free'[b] = free[b] + d /\ AtClients(b)' = AtClients(b) - d
      BY <3>4
    <3>6. Total(b)' = Total(b)
      BY <3>1, <3>2, <3>3, <3>5, FromClients
    <3> QED BY <3>1, <3>6 DEF Sum
  <2>2. ASSUME NEW b \in Buffers, Holders(b)' # {}
        PROVE  packet'[b].tcount = Cardinality(Holders(b)') - 1
    <3>1. CASE b = x
      BY <3>1, <2>2, <1>5, <1>6, <1>9
    <3>2. CASE b # x
      BY <3>2, <2>2, <1>6, <1>8 DEF IInv, BuffersAccounted
    <3> QED BY <3>1, <3>2
  <2> QED BY <2>1, <2>2 DEF BuffersAccounted
<1>11. NoDuplicates'
  <2> SUFFICES ASSUME NEW d \in Clients, NEW j \in 1 .. Len(fifo'[d]), NEW k \in 1 .. Len(fifo'[d]),
                      fifo'[d][j] = fifo'[d][k]
               PROVE  j = k
    BY DEF NoDuplicates
  <2>1. CASE d = c
    <3>1. j \in 1 .. Len(fifo[c]) - 1 /\ k \in 1 .. Len(fifo[c]) - 1
      BY <2>1, <1>2, <1>3
    <3>2. fifo[c][j + 1] = fifo[c][k + 1] /\ j + 1 \in 1 .. Len(fifo[c]) /\ k + 1 \in 1 .. Len(fifo[c])
      BY <3>1, <2>1, <1>2, <1>3
    <3>3. j + 1 = k + 1
      BY <3>2 DEF IInv, NoDuplicates
    <3> QED BY <3>1, <3>3
  <2>2. CASE d # c
    BY <2>2, <1>3 DEF IInv, NoDuplicates
  <2> QED BY <2>1, <2>2
<1>12. WaitingFilled' /\ FramesKept
  <2> SUFFICES ASSUME NEW b \in Buffers, Times(b, used_lp)' > 0 \/ Holders(b)' # {}
               PROVE  packet'[b] \in Filled /\ packet'[b].frame = packet[b].frame
    BY DEF WaitingFilled, FramesKept
  <2>1. CASE b = x
    <3>1. Times(b, used_lp)' = 0
      BY <2>1, <1>1, <1>4, OnePlace DEF IInv
    <3> QED BY <3>1, <2>1, <1>6, <1>9
  <2>2. CASE b # x
    BY <2>2, <1>1, <1>6, <1>8 DEF IInv, WaitingFilled
  <2> QED BY <2>1, <2>2
<1>13. InHand' /\ NothingHeldAtRestart'
  BY <1>1 DEF IInv, InHand, NothingHeldAtRestart
<1> QED BY <1>7, <1>10, <1>11, <1>12, <1>13 DEF IInv

\* What appending a buffer that nobody has does to the holders.
LEMMA TakersAppended ==
    ASSUME TypeOK, NoDuplicates, NEW x \in Buffers, Holders(x) = {}, NEW T \in SUBSET Clients,
           fifo' = [c \in Clients |-> IF c \in T THEN Append(fifo[c], x) ELSE fifo[c]]
    PROVE  /\ fifo' \in [Clients -> Ring]
           /\ Holders(x)' = T
           /\ \A b \in Buffers \ {x} : Holders(b)' = Holders(b)
           /\ NoDuplicates'
<1>1. /\ \A c \in Clients : fifo[c] \in Ring /\ Len(fifo[c]) \in Nat
      /\ \A c \in Clients \ T : fifo'[c] = fifo[c]
      /\ \A c \in T : fifo'[c] = Append(fifo[c], x)
  BY DEF TypeOK, Ring
<1>2. \A c \in T : /\ fifo'[c] \in Ring
                   /\ Len(fifo'[c]) = Len(fifo[c]) + 1
                   /\ fifo'[c][Len(fifo[c]) + 1] = x
                   /\ \A k \in 1 .. Len(fifo[c]) : fifo'[c][k] = fifo[c][k]
  BY <1>1, Appended DEF Ring
<1>3. fifo' \in [Clients -> Ring]
  BY <1>1, <1>2
<1>4. \A c \in Clients : \A k \in 1 .. Len(fifo[c]) : fifo[c][k] # x
  BY HoldersAre
<1>5. ASSUME NEW c \in Clients, NEW b \in Buffers
      PROVE  c \in Holders(b)' <=> c \in Holders(b) \/ (c \in T /\ b = x)
  <2>1. c \in Holders(b)' <=> \E k \in 1 .. Len(fifo'[c]) : fifo'[c][k] = b
    <3>1. fifo'[c] \in Seq(Buffers)
      BY <1>3 DEF Ring
    <3>2. DOMAIN fifo'[c] = 1 .. Len(fifo'[c])
      BY <3>1
    <3> QED BY <3>2 DEF Holders, Held
  <2>2. c \in Holders(b) <=> \E k \in 1 .. Len(fifo[c]) : fifo[c][k] = b
    BY HoldersAre
  <2>3. CASE c \in T
    <3> DEFINE n == Len(fifo[c])
    <3>1. /\ n \in Nat /\ Len(fifo'[c]) = n + 1
          /\ fifo'[c][n + 1] = x /\ \A k \in 1 .. n : fifo'[c][k] = fifo[c][k]
      BY <2>3, <1>1, <1>2
    <3> HIDE DEF n
    <3>2. \A k : k \in 1 .. n + 1 <=> k \in 1 .. n \/ k = n + 1
      BY <3>1
    <3>3. (\E k \in 1 .. Len(fifo'[c]) : fifo'[c][k] = b)
            <=> (\E k \in 1 .. n : fifo[c][k] = b) \/ b = x
      BY <3>1, <3>2
    <3> QED BY <2>1, <2>2, <2>3, <3>3 DEF n
  <2>4. CASE c \notin T
    BY <2>1, <2>2, <2>4, <1>1
  <2> QED BY <2>3, <2>4
<1>6. ASSUME NEW b \in Buffers
      PROVE  Holders(b)' = Holders(b) \cup (IF b = x THEN T ELSE {})
  <2>1. Holders(b)' \subseteq Clients /\ Holders(b) \subseteq Clients
    BY DEF Holders
  <2> QED BY <2>1, <1>5
<1>7. NoDuplicates'
  <2> SUFFICES ASSUME NEW c \in Clients,
                      NEW j \in 1 .. Len(fifo'[c]), NEW k \in 1 .. Len(fifo'[c]),
                      fifo'[c][j] = fifo'[c][k]
               PROVE  j = k
    BY DEF NoDuplicates
  <2>1. CASE c \notin T
    BY <2>1, <1>1 DEF NoDuplicates
  <2>2. CASE c \in T
    <3> DEFINE n == Len(fifo[c])
    <3>1. /\ n \in Nat /\ j \in 1 .. n + 1 /\ k \in 1 .. n + 1
          /\ fifo'[c][n + 1] = x /\ \A l \in 1 .. n : fifo'[c][l] # x
      BY <2>2, <1>1, <1>2, <1>4
    <3>2. CASE j \in 1 .. n /\ k \in 1 .. n
      BY <2>2, <3>2, <1>2 DEF NoDuplicates
    <3> HIDE DEF n
    <3>3. CASE ~(j \in 1 .. n /\ k \in 1 .. n)
      <4>1. (j = n + 1 \/ j \in 1 .. n) /\ (k = n + 1 \/ k \in 1 .. n)
        BY <3>1
      <4> QED BY <4>1, <3>1, <3>3
    <3> QED BY <3>2, <3>3
  <2> QED BY <2>1, <2>2
<1> QED BY <1>3, <1>6, <1>7

LEMMA ToClients ==
    ASSUME NEW b \in Buffers, NEW d \in {0, 1}, NEW t \in {0, 1}, Sum(b), InServer(b)' = InServer(b),
           InManager(b, 0)' = InManager(b, 0), InManager(b, 1)' = InManager(b, 1),
           UNCHANGED <<used_hp, to_pins, to_manager>>,
           Times(b, used_lp') = Times(b, used_lp) - d - t,
           free'[b] = free[b] + d, AtClients(b)' = AtClients(b) + t
    PROVE  Total(b)' = Total(b)
  BY DEF Sum, Total

\* What handle_incoming_packet does, with x the buffer and T the clients.
LEMMA HandsOut ==
    ASSUME IInv, HandleIncoming
    PROVE  \E x \in Buffers, T \in SUBSET Clients :
               /\ x = Head(used_lp) /\ T = {c \in Clients : Gets(c, packet[x].frame)}
               /\ used_lp # <<>> /\ used_lp' = Tail(used_lp)
               /\ Times(x, used_lp) > 0 /\ Holders(x) = {} /\ packet[x] \in Filled
               /\ fifo' = [c \in Clients |-> IF c \in T THEN Append(fifo[c], x) ELSE fifo[c]]
               /\ IF T = {} THEN FreeAdd(x)
                  ELSE /\ packet' = [packet EXCEPT ![x].tcount = Cardinality(T) - 1]
                       /\ UNCHANGED free
               /\ pc = "incoming" /\ pc' \in {"select", "drop"} /\ dropping' \in {dropping, Clients}
               /\ UNCHANGED <<used_hp, to_pins, to_manager, manager, buffer, buf>>
<1>1. used_lp \in Ring /\ used_lp # <<>>
  BY DEF HandleIncoming, IInv, TypeOK
<1>2. PICK x \in Buffers : x = Head(used_lp)
  BY <1>1, TimesTail
<1>3. PICK T \in SUBSET Clients : T = {c \in Clients : Gets(c, packet[x].frame)}
  OBVIOUS
<1>4. Times(x, used_lp) > 0
  <2>1. /\ Times(x, Tail(used_lp)) = Times(x, used_lp) - 1
        /\ Times(x, Tail(used_lp)) \in Nat /\ Times(x, used_lp) \in Nat
    BY <1>1, <1>2, TimesTail, TimesType
  <2> QED BY <2>1
<1>5. Holders(x) = {} /\ packet[x] \in Filled
  BY <1>4, OnePlace DEF IInv, WaitingFilled
<1>6. pc' \in {"select", "drop"} /\ dropping' \in {dropping, Clients}
  BY DEF HandleIncoming, CheckThreshold
<1>7. /\ fifo' = [c \in Clients |-> IF c \in T THEN Append(fifo[c], x) ELSE fifo[c]]
      /\ IF T = {} THEN FreeAdd(x)
         ELSE /\ packet' = [packet EXCEPT ![x].tcount = Cardinality(T) - 1]
              /\ UNCHANGED free
  BY <1>2, <1>3 DEF HandleIncoming
<1>8. /\ pc = "incoming" /\ used_lp' = Tail(used_lp)
      /\ UNCHANGED <<used_hp, to_pins, to_manager, manager, buffer, buf>>
  BY DEF HandleIncoming, pinVars, managerVars
<1> QED BY <1>1, <1>2, <1>3, <1>4, <1>5, <1>6, <1>7, <1>8

\* Who gets a packet has room for it.
LEMMA HandleIncomingStep ==
    ASSUME IInv, HandleIncoming
    PROVE  IInv' /\ FramesKept
<1>1. PICK x \in Buffers, T \in SUBSET Clients :
          /\ x = Head(used_lp) /\ T = {c \in Clients : Gets(c, packet[x].frame)}
          /\ used_lp # <<>> /\ used_lp' = Tail(used_lp)
          /\ Times(x, used_lp) > 0 /\ Holders(x) = {} /\ packet[x] \in Filled
          /\ fifo' = [c \in Clients |-> IF c \in T THEN Append(fifo[c], x) ELSE fifo[c]]
          /\ IF T = {} THEN FreeAdd(x)
             ELSE /\ packet' = [packet EXCEPT ![x].tcount = Cardinality(T) - 1]
                  /\ UNCHANGED free
          /\ pc = "incoming" /\ pc' \in {"select", "drop"} /\ dropping' \in {dropping, Clients}
          /\ UNCHANGED <<used_hp, to_pins, to_manager, manager, buffer, buf>>
  BY HandsOut
<1>2. /\ fifo' \in [Clients -> Ring] /\ NoDuplicates'
      /\ Holders(x)' = T /\ \A b \in Buffers \ {x} : Holders(b)' = Holders(b)
  BY <1>1, TakersAppended DEF IInv
<1>3. /\ used_lp' \in Ring
      /\ \A b \in Buffers : Times(b, used_lp') = Times(b, used_lp) - (IF b = x THEN 1 ELSE 0)
  BY <1>1, TimesTail DEF IInv, TypeOK
<1>4. /\ free \in [Buffers -> Nat] /\ packet \in [Buffers -> Filled \cup {NoBuffer}]
      /\ fifo \in [Clients -> Ring] /\ \A c \in Clients : Len(fifo[c]) < FifoSize
  BY DEF IInv, TypeOK
<1>5. /\ IsFiniteSet(T) /\ Cardinality(T) \in Nat /\ Cardinality(T) <= Cardinality(Clients)
      /\ Cardinality(Clients) \in Nat /\ (T # {} => Cardinality(T) > 0)
  BY RgmiiRxAssumption, FS_Subset, FS_CardinalityType, FS_EmptySet
<1>6. /\ free' \in [Buffers -> Nat] /\ packet' \in [Buffers -> Filled \cup {NoBuffer}]
      /\ \A b \in Buffers \ {x} : packet'[b] = packet[b] /\ free'[b] = free[b]
      /\ T = {} => free'[x] = free[x] + 1
      /\ T # {} => /\ packet'[x] \in Filled /\ packet'[x].tcount = Cardinality(T) - 1
                   /\ packet'[x].frame = packet[x].frame
                   /\ free'[x] = free[x]
  <2>1. CASE T = {}
    <3>1. free' = [free EXCEPT ![x] = @ + 1] /\ packet' = [packet EXCEPT ![x] = NoBuffer]
      BY <2>1, <1>1 DEF FreeAdd
    <3> QED BY <3>1, <2>1, <1>4
  <2>2. CASE T # {}
    <3> DEFINE p == [packet[x] EXCEPT !.tcount = Cardinality(T) - 1]
    <3>1. p \in Filled /\ p.tcount = Cardinality(T) - 1 /\ p.frame = packet[x].frame
      <4>1. Cardinality(T) - 1 \in {0} \cup 1 .. Cardinality(Clients) - 1
        BY <1>5, <2>2
      <4>2. ASSUME NEW y \in Filled, NEW t \in {0} \cup 1 .. Cardinality(Clients) - 1
            PROVE  LET z == [y EXCEPT !.tcount = t]
                   IN  z \in Filled /\ z.tcount = t /\ z.frame = y.frame
        BY DEF Filled
      <4> QED BY <4>1, <4>2, <1>1
    <3>2. packet' = [packet EXCEPT ![x] = p] /\ free' = free
      BY <2>2, <1>1
    <3> HIDE DEF p
    <3> QED BY <3>1, <3>2, <2>2, <1>4
  <2> QED BY <2>1, <2>2
<1>7. TypeOK'
  <2>1. \A c \in Clients : Len(fifo'[c]) < FifoSize
    <3> SUFFICES ASSUME NEW c \in T PROVE Len(fifo'[c]) < FifoSize
      BY <1>1, <1>4
    <3>1. fifo[c] \in Ring /\ Len(fifo[c]) < FifoSize - 1 /\ fifo'[c] = Append(fifo[c], x)
      BY <1>1, <1>4 DEF Gets
    <3>2. Len(fifo'[c]) = Len(fifo[c]) + 1 /\ Len(fifo[c]) \in Nat
      BY <3>1, Appended DEF Ring
    <3> QED BY <3>1, <3>2, RgmiiRxAssumption
  <2>2. /\ used_hp \in Ring /\ {to_pins, to_manager} \subseteq [Managers -> Ring]
        /\ manager \in [Managers -> {"select", "file", "stopped"}]
        /\ buffer \in [Managers -> Slot] /\ buf \in Slot /\ dropping \subseteq Clients
    BY DEF IInv, TypeOK
  <2> QED BY <2>1, <2>2, <1>1, <1>2, <1>3, <1>6 DEF TypeOK
<1>8. BuffersAccounted'
  <2>1. ASSUME NEW b \in Buffers
        PROVE  Places(b)' = 1
    <3>1. Sum(b) /\ Sum(b)' /\ Places(b) = 1
      BY <1>7, PlacesSum, PlacesSumNext DEF IInv, BuffersAccounted
    <3>2. /\ InServer(b)' = InServer(b)
          /\ InManager(b, 0)' = InManager(b, 0) /\ InManager(b, 1)' = InManager(b, 1)
      BY <1>1 DEF InServer, InManager
    <3>3. \E d, t \in {0, 1} : /\ Times(b, used_lp') = Times(b, used_lp) - d - t
                               /\ free'[b] = free[b] + d /\ AtClients(b)' = AtClients(b) + t
      <4>1. free[b] \in Int /\ Times(b, used_lp) \in Int /\ AtClients(b) \in Int
        BY <3>1 DEF Sum
      <4>2. CASE b = x /\ T = {}
        <5>1. /\ Times(b, used_lp') = Times(b, used_lp) - 1 - 0
              /\ free'[b] = free[b] + 1 /\ AtClients(b)' = AtClients(b) + 0
          BY <4>1, <4>2, <1>1, <1>2, <1>3, <1>6 DEF AtClients
        <5> QED BY <5>1
      <4>3. CASE b = x /\ T # {}
        <5>1. /\ Times(b, used_lp') = Times(b, used_lp) - 0 - 1
              /\ free'[b] = free[b] + 0 /\ AtClients(b)' = AtClients(b) + 1
          BY <4>1, <4>3, <1>1, <1>2, <1>3, <1>6 DEF AtClients
        <5> QED BY <5>1
      <4>4. CASE b # x
        <5>1. /\ Times(b, used_lp') = Times(b, used_lp) - 0 - 0
              /\ free'[b] = free[b] + 0 /\ AtClients(b)' = AtClients(b) + 0
          BY <4>1, <4>4, <1>2, <1>3, <1>6 DEF AtClients
        <5> QED BY <5>1
      <4> QED BY <4>2, <4>3, <4>4
    <3>4. Total(b)' = Total(b)
      <4>1. UNCHANGED <<used_hp, to_pins, to_manager>>
        BY <1>1
      <4> QED BY <4>1, <3>1, <3>2, <3>3, ToClients
    <3> QED BY <3>1, <3>4 DEF Sum
  <2>2. ASSUME NEW b \in Buffers, Holders(b)' # {}
        PROVE  packet'[b].tcount = Cardinality(Holders(b)') - 1
    <3>1. CASE b = x
      BY <3>1, <2>2, <1>2, <1>6
    <3>2. CASE b # x
      BY <3>2, <2>2, <1>2, <1>6 DEF IInv, BuffersAccounted
    <3> QED BY <3>1, <3>2
  <2> QED BY <2>1, <2>2 DEF BuffersAccounted
<1>9. WaitingFilled' /\ FramesKept
  <2> SUFFICES ASSUME NEW b \in Buffers, Times(b, used_lp)' > 0 \/ Holders(b)' # {}
               PROVE  packet'[b] \in Filled /\ packet'[b].frame = packet[b].frame
    BY DEF WaitingFilled, FramesKept
  <2>1. CASE b = x
    <3>1. Times(b, used_lp)' = 0
      <4>1. Times(b, used_lp) = 1
        BY <2>1, <1>1, OnePlace DEF IInv
      <4> QED BY <4>1, <2>1, <1>3
    <3> QED BY <3>1, <2>1, <1>2, <1>6
  <2>2. CASE b # x
    <3>1. Times(b, used_lp)' = Times(b, used_lp)
      <4>1. Times(b, used_lp) \in Nat
        BY TimesType DEF IInv, TypeOK
      <4> QED BY <4>1, <2>2, <1>3
    <3> QED BY <3>1, <2>2, <1>2, <1>6 DEF IInv, WaitingFilled
  <2> QED BY <2>1, <2>2
<1>10. InHand' /\ NothingHeldAtRestart'
  BY <1>1 DEF IInv, InHand, NothingHeldAtRestart
<1> QED BY <1>2, <1>7, <1>8, <1>9, <1>10 DEF IInv

\* The other steps of the server.
LEMMA GetPacketStep ==
    ASSUME IInv, NEW c \in Clients, GetPacket(c)
    PROVE  IInv'
<1>1. dropping' \subseteq Clients
  BY DEF IInv, TypeOK, GetPacket
<1> QED BY <1>1, ReleaseStep DEF GetPacket

LEMMA DropHeadStep ==
    ASSUME IInv, DropHead
    PROVE  IInv'
<1>1. PICK c \in Clients :
         /\ pc = "drop" /\ pc' = "drop" /\ dropping' = dropping \ {c}
         /\ IF fifo[c] = <<>> THEN UNCHANGED <<free, packet, fifo>>
            ELSE Release(Head(fifo[c])) /\ fifo' = [fifo EXCEPT ![c] = Tail(@)]
         /\ UNCHANGED <<used_lp, used_hp, pinVars, managerVars, buf>>
  <2> DEFINE c == CHOOSE d \in dropping : TRUE
  <2>1. c \in Clients
    BY DEF DropHead, IInv, TypeOK
  <2>2. /\ pc = "drop" /\ pc' = "drop" /\ dropping' = dropping \ {c}
        /\ IF fifo[c] = <<>> THEN UNCHANGED <<free, packet, fifo>>
           ELSE Release(Head(fifo[c])) /\ fifo' = [fifo EXCEPT ![c] = Tail(@)]
        /\ UNCHANGED <<used_lp, used_hp, pinVars, managerVars, buf>>
    BY DEF DropHead
  <2> HIDE DEF c
  <2> QED BY <2>1, <2>2
<1>2. dropping' \subseteq Clients
  BY <1>1 DEF IInv, TypeOK
<1>3. CASE fifo[c] = <<>>
  BY <1>1, <1>2, <1>3, ServerMoves DEF listVars
<1>4. CASE fifo[c] # <<>>
  BY <1>1, <1>2, <1>4, ReleaseStep
<1> QED BY <1>3, <1>4

\* Without a packet the server only moves on.
LEMMA ServerMovesStep ==
    ASSUME IInv, SelectNothing \/ NoHp \/ NoIncoming \/ Dropped
    PROVE  IInv'
<1>1. dropping \subseteq Clients
  BY DEF IInv, TypeOK
<1>2. /\ UNCHANGED <<listVars, pinVars, managerVars, buf, fifo>>
      /\ dropping' \in {dropping, Clients}
      /\ pc \in {"select", "hp", "incoming", "drop"} /\ pc' \in {"select", "hp", "incoming", "drop"}
  BY DEF SelectNothing, NoHp, NoIncoming, Dropped, CheckThreshold
<1> QED BY <1>1, <1>2, ServerMoves

LEMMA ChangeModeStep ==
    ASSUME ~RestartHeld, IInv, ChangeMode
    PROVE  IInv'
  BY ServerMoves DEF ChangeMode, IInv, TypeOK

LEMMA NextInv ==
    ASSUME ~RestartHeld, IInv, [Next]_vars
    PROVE  IInv'
<1>1. CASE \E m \in Managers : Receive(m) \/ Manager(m)
  BY <1>1, ReceiveStep, KeepStep, ReuseStep, FileStep, StopManagerStep DEF Manager
<1>2. CASE Server
  BY <1>2, ServerMovesStep, TakeHpStep, SendHpStep, HandleIncomingStep, DropHeadStep, GetPacketStep
     DEF Server
<1>3. CASE ChangeMode
  BY <1>3, ChangeModeStep
<1>4. CASE Restart
  BY <1>4, RestartStep
<1>5. CASE UNCHANGED vars
  <2>1. UNCHANGED <<free, used_lp, used_hp, packet, to_pins, to_manager, manager, buffer, pc, buf,
                    dropping, fifo>>
    BY <1>5 DEF vars, listVars, pinVars, managerVars, serverVars
  <2>2. TypeOK' /\ InHand'
    BY <2>1 DEF IInv, TypeOK, InHand
  <2>3. \A b \in Buffers : Total(b)' = Total(b)
    BY <2>1, SameHolders DEF Total, InManager, InServer
  <2> QED BY <2>1, <2>2, <2>3, Rearranged DEF IInv, WaitingFilled
<1> QED BY <1>1, <1>2, <1>3, <1>4, <1>5 DEF Next

----------------------------------------------------------------------------
\* The inductive invariant, of a MAC whose speed changes only while no
\* client has a packet to fetch.
THEOREM Invariance ==
    ASSUME ~RestartHeld
    PROVE  Spec => []IInv
<1>1. IInv /\ [Next]_vars => IInv'
  BY NextInv
<1> QED BY <1>1, InitInv, PTL DEF Spec

\* Every variable keeps its type.
THEOREM TypeCorrect ==
    ASSUME ~RestartHeld
    PROVE  Spec => []TypeOK
<1>1. IInv => TypeOK
  BY DEF IInv
<1> QED BY <1>1, Invariance, PTL

\* No buffer is lost and none is in two places, and tcount counts the
\* clients that have yet to fetch it.
THEOREM BuffersStayAccounted ==
    ASSUME ~RestartHeld
    PROVE  Spec => []BuffersAccounted
<1>1. IInv => BuffersAccounted
  BY DEF IInv
<1> QED BY <1>1, Invariance, PTL

----------------------------------------------------------------------------
(* RxDelivery: the rings and queues, with what their buffers hold.         *)

\* What the buffers hold, to RxDelivery.
Contents == [b \in Buffers |-> Packet(b)]

AbsPending == [k \in DOMAIN used_lp |-> Packet(used_lp[k])]
AbsQueue == [c \in Clients |-> [k \in DOMAIN fifo[c] |-> Packet(fifo[c][k])]]

LEMMA AbsIs ==
    TypeOK => /\ AbsPending = Map(Contents, used_lp)
              /\ AbsQueue = [c \in Clients |-> Map(Contents, fifo[c])]
<1> SUFFICES ASSUME TypeOK
             PROVE  /\ AbsPending = Map(Contents, used_lp)
                    /\ AbsQueue = [c \in Clients |-> Map(Contents, fifo[c])]
  OBVIOUS
<1>1. ASSUME NEW s \in Ring
      PROVE  [k \in DOMAIN s |-> Packet(s[k])] = Map(Contents, s)
  <2>1. \A k \in DOMAIN s : Contents[s[k]] = Packet(s[k])
    BY DEF Ring, Contents
  <2> QED BY <2>1 DEF Map
<1>2. used_lp \in Ring /\ \A c \in Clients : fifo[c] \in Ring
  BY DEF TypeOK
<1> QED BY <1>1, <1>2 DEF AbsPending, AbsQueue

LEMMA AbsIsNext ==
    TypeOK' => /\ AbsPending' = Map(Contents', used_lp')
               /\ AbsQueue' = [c \in Clients |-> Map(Contents', fifo'[c])]
<1>1. TypeOK' => (/\ AbsPending = Map(Contents, used_lp)
                  /\ AbsQueue = [c \in Clients |-> Map(Contents, fifo[c])])'
  BY AbsIs, PTL
<1> QED BY <1>1 DEF Map

\* The state of RxDelivery after a step that changes no frame.
LEMMA FramesKeptAbs ==
    ASSUME TypeOK', FramesKept
    PROVE  /\ AbsPending' = Map(Contents, used_lp')
           /\ AbsQueue' = [c \in Clients |-> Map(Contents, fifo'[c])]
<1>1. used_lp' \in Ring /\ \A c \in Clients : fifo'[c] \in Ring
  BY DEF TypeOK
<1>2. ASSUME NEW b \in Buffers, Times(b, used_lp)' > 0 \/ Holders(b)' # {}
      PROVE  Contents'[b] = Contents[b]
  BY <1>2 DEF Contents, Packet, FramesKept
<1>3. \A k \in 1 .. Len(used_lp') : Contents'[used_lp'[k]] = Contents[used_lp'[k]]
  <2> SUFFICES ASSUME NEW k \in 1 .. Len(used_lp') PROVE Contents'[used_lp'[k]] = Contents[used_lp'[k]]
    OBVIOUS
  <2>1. PICK b \in Buffers : b = used_lp'[k]
    BY <1>1 DEF Ring
  <2>2. Times(b, used_lp') \in Nat /\ Times(b, used_lp') # 0
    BY <2>1, <1>1, TimesType
  <2>3. Times(b, used_lp)' > 0
    BY <2>2
  <2> QED BY <2>1, <2>3, <1>2
<1>4. \A c \in Clients : \A k \in 1 .. Len(fifo'[c]) : Contents'[fifo'[c][k]] = Contents[fifo'[c][k]]
  <2> SUFFICES ASSUME NEW c \in Clients, NEW k \in 1 .. Len(fifo'[c])
               PROVE  Contents'[fifo'[c][k]] = Contents[fifo'[c][k]]
    OBVIOUS
  <2>1. PICK b \in Buffers : b = fifo'[c][k]
    BY <1>1 DEF Ring
  <2>2. Holders(b)' # {}
    BY <2>1, HoldersAreNext
  <2> QED BY <2>1, <2>2, <1>2
<1>5. Map(Contents', used_lp') = Map(Contents, used_lp')
  BY <1>1, <1>3, MapSame DEF Ring
<1>6. \A c \in Clients : Map(Contents', fifo'[c]) = Map(Contents, fifo'[c])
  BY <1>1, <1>4, MapSame DEF Ring
<1> QED BY <1>5, <1>6, AbsIsNext

\* The steps of RxDelivery, in terms of its pending packets and its queues.
LEMMA AbsSteps ==
    /\ (AbsQueue' = AbsQueue /\ \E p \in Abstract!Contents : AbsPending' = Append(AbsPending, p))
           => Abstract!Next
    /\ (AbsPending' = AbsPending
           /\ \E c \in Clients : AbsQueue[c] # <<>> /\ AbsQueue' = [AbsQueue EXCEPT ![c] = Tail(@)])
           => Abstract!Next
    /\ (/\ AbsPending # <<>>
        /\ AbsPending' = Tail(AbsPending)
        /\ AbsQueue' = [c \in Clients |->
               IF c \in Head(AbsPending).dst /\ Head(AbsPending).etype \in {"any"}
                   /\ Len(AbsQueue[c]) < FifoSize - 1
               THEN Append(AbsQueue[c], Head(AbsPending)) ELSE AbsQueue[c]])
           => Abstract!Next
    /\ UNCHANGED <<AbsPending, AbsQueue>> => UNCHANGED Abstract!vars
<1>1. ASSUME AbsQueue' = AbsQueue, \E p \in Abstract!Contents : AbsPending' = Append(AbsPending, p)
      PROVE  Abstract!Next
  BY <1>1 DEF Abstract!Next, Abstract!Arrive, AbsPending, AbsQueue, Packet
<1>2. ASSUME AbsPending' = AbsPending, NEW c \in Clients, AbsQueue[c] # <<>>,
             AbsQueue' = [AbsQueue EXCEPT ![c] = Tail(@)]
      PROVE  Abstract!Next
  <2>1. Abstract!Leave(c)
    BY <1>2 DEF Abstract!Leave, AbsPending, AbsQueue, Packet
  <2> QED BY <2>1 DEF Abstract!Next
<1>3. ASSUME AbsPending # <<>>, AbsPending' = Tail(AbsPending),
             AbsQueue' = [c \in Clients |->
                 IF c \in Head(AbsPending).dst /\ Head(AbsPending).etype \in {"any"}
                     /\ Len(AbsQueue[c]) < FifoSize - 1
                 THEN Append(AbsQueue[c], Head(AbsPending)) ELSE AbsQueue[c]]
      PROVE  Abstract!Next
  <2>1. Abstract!Distribute
    BY <1>3 DEF Abstract!Distribute, AbsPending, AbsQueue, Packet
  <2> QED BY <2>1 DEF Abstract!Next
<1>4. UNCHANGED <<AbsPending, AbsQueue>> => UNCHANGED Abstract!vars
  BY DEF Abstract!vars, AbsPending, AbsQueue, Packet
<1> QED BY <1>1, <1>2, <1>3, <1>4

\* A step that leaves what waits where it is, and as it is, is no step of
\* RxDelivery.
LEMMA Unseen ==
    ASSUME TypeOK, TypeOK', FramesKept, UNCHANGED <<used_lp, fifo>>
    PROVE  UNCHANGED <<AbsPending, AbsQueue>>
  BY AbsIs, FramesKeptAbs

LEMMA FramesSame ==
    packet' = packet => FramesKept
  BY DEF FramesKept

LEMMA ReleaseRefines ==
    ASSUME IInv, TypeOK', FramesKept, NEW c \in Clients, fifo[c] # <<>>,
           fifo' = [fifo EXCEPT ![c] = Tail(@)], used_lp' = used_lp
    PROVE  Abstract!Next
<1>1. /\ fifo \in [Clients -> Ring] /\ fifo' \in [Clients -> Ring] /\ TypeOK
      /\ fifo'[c] = Tail(fifo[c]) /\ \A d \in Clients \ {c} : fifo'[d] = fifo[d]
  BY DEF IInv, TypeOK
<1>2. /\ AbsPending = Map(Contents, used_lp) /\ AbsPending' = Map(Contents, used_lp')
      /\ AbsQueue = [d \in Clients |-> Map(Contents, fifo[d])]
      /\ AbsQueue' = [d \in Clients |-> Map(Contents, fifo'[d])]
  BY <1>1, AbsIs, FramesKeptAbs
<1>3. Map(Contents, fifo[c]) # <<>> /\ Map(Contents, Tail(fifo[c])) = Tail(Map(Contents, fifo[c]))
  BY <1>1, MapTail DEF Ring
<1>4. AbsQueue[c] # <<>> /\ AbsPending' = AbsPending
  BY <1>2, <1>3
<1>5. AbsQueue' = [AbsQueue EXCEPT ![c] = Tail(@)]
  BY <1>1, <1>2, <1>3
<1> QED BY <1>4, <1>5, AbsSteps

LEMMA HandleIncomingRefines ==
    ASSUME IInv, HandleIncoming
    PROVE  Abstract!Next
<1>1. TypeOK /\ TypeOK' /\ FramesKept
  BY HandleIncomingStep DEF IInv
<1>2. PICK x \in Buffers, T \in SUBSET Clients :
          /\ x = Head(used_lp) /\ T = {c \in Clients : Gets(c, packet[x].frame)}
          /\ used_lp # <<>> /\ used_lp' = Tail(used_lp)
          /\ fifo' = [c \in Clients |-> IF c \in T THEN Append(fifo[c], x) ELSE fifo[c]]
  BY HandsOut
<1>3. used_lp \in Ring /\ fifo \in [Clients -> Ring]
  BY <1>1 DEF TypeOK
<1>4. /\ AbsPending = Map(Contents, used_lp) /\ AbsPending' = Map(Contents, used_lp')
      /\ AbsQueue = [d \in Clients |-> Map(Contents, fifo[d])]
      /\ AbsQueue' = [d \in Clients |-> Map(Contents, fifo'[d])]
  BY <1>1, AbsIs, FramesKeptAbs
<1>5. AbsPending # <<>> /\ Head(AbsPending) = Contents[x] /\ AbsPending' = Tail(AbsPending)
  BY <1>2, <1>3, <1>4, MapTail DEF Ring
<1>6. Contents[x] = Packet(x) /\ Packet(x).dst = packet[x].frame.dst /\ Packet(x).etype = "any"
  BY DEF Contents, Packet
<1>7. \A c \in Clients : Len(AbsQueue[c]) = Len(fifo[c])
  BY <1>3, <1>4, MapLength DEF Ring
<1>8. ASSUME NEW c \in Clients
      PROVE  Map(Contents, fifo'[c]) =
                 IF c \in Contents[x].dst /\ Contents[x].etype \in {"any"} /\ Len(AbsQueue[c]) < FifoSize - 1
                 THEN Append(AbsQueue[c], Contents[x]) ELSE AbsQueue[c]
  <2>1. c \in T <=> c \in Contents[x].dst /\ Contents[x].etype \in {"any"} /\ Len(AbsQueue[c]) < FifoSize - 1
    BY <1>2, <1>6, <1>7 DEF Gets
  <2>2. AbsQueue[c] = Map(Contents, fifo[c]) /\ fifo[c] \in Ring
    BY <1>3, <1>4
  <2>3. CASE c \in T
    <3>1. fifo'[c] = Append(fifo[c], x)
      BY <2>3, <1>2
    <3>2. Map(Contents, Append(fifo[c], x)) = Append(Map(Contents, fifo[c]), Contents[x])
      BY <2>2, MapAppend DEF Ring
    <3> QED BY <2>1, <2>2, <2>3, <3>1, <3>2
  <2>4. CASE c \notin T
    BY <2>1, <2>2, <2>4, <1>2
  <2> QED BY <2>3, <2>4
<1>9. AbsQueue' = [c \in Clients |->
          IF c \in Head(AbsPending).dst /\ Head(AbsPending).etype \in {"any"}
              /\ Len(AbsQueue[c]) < FifoSize - 1
          THEN Append(AbsQueue[c], Head(AbsPending)) ELSE AbsQueue[c]]
  BY <1>4, <1>5, <1>8
<1> QED BY <1>5, <1>9, AbsSteps

\* What waits is as it was after a step that changes another buffer.
LEMMA OtherChanged ==
    ASSUME TypeOK, NEW x \in Buffers, Times(x, used_lp) = 0, Holders(x) = {},
           \A b \in Buffers \ {x} : packet'[b] = packet[b]
    PROVE  /\ \A k \in 1 .. Len(used_lp) : Contents'[used_lp[k]] = Contents[used_lp[k]]
           /\ \A c \in Clients : \A k \in 1 .. Len(fifo[c]) : Contents'[fifo[c][k]] = Contents[fifo[c][k]]
           /\ UNCHANGED <<used_lp, fifo>> => FramesKept
<1>1. used_lp \in Ring /\ \A c \in Clients : fifo[c] \in Ring
  BY DEF TypeOK
<1>2. \A b \in Buffers \ {x} : Contents'[b] = Contents[b]
  BY DEF Contents, Packet
<1>3. \A k \in 1 .. Len(used_lp) : used_lp[k] \in Buffers /\ used_lp[k] # x
  <2>1. \A k \in 1 .. Len(used_lp) : used_lp[k] # x
    BY <1>1, TimesType
  <2>2. \A k \in 1 .. Len(used_lp) : used_lp[k] \in Buffers
    BY <1>1 DEF Ring
  <2> QED BY <2>1, <2>2
<1>4. \A c \in Clients : \A k \in 1 .. Len(fifo[c]) : fifo[c][k] \in Buffers /\ fifo[c][k] # x
  <2>1. \A c \in Clients : \A k \in 1 .. Len(fifo[c]) : fifo[c][k] # x
    BY HoldersAre
  <2>2. \A c \in Clients : \A k \in 1 .. Len(fifo[c]) : fifo[c][k] \in Buffers
    BY <1>1 DEF Ring
  <2> QED BY <2>1, <2>2
<1>5. ASSUME UNCHANGED <<used_lp, fifo>>
      PROVE  FramesKept
  <2>1. Times(x, used_lp)' = 0 /\ Holders(x)' = {}
    BY <1>5, SameHolders DEF Times
  <2>2. \A b \in Buffers : Times(b, used_lp)' > 0 \/ Holders(b)' # {} => b # x
    BY <2>1
  <2> QED BY <2>2 DEF FramesKept
<1> QED BY <1>2, <1>3, <1>4, <1>5

LEMMA FileRefines ==
    ASSUME IInv, NEW m \in Managers, File(m)
    PROVE  Abstract!Next \/ UNCHANGED Abstract!vars
<1>1. TypeOK /\ TypeOK'
  BY FileStep DEF IInv
<1>2. PICK x \in Buffers, f \in Frames :
          /\ buffer[m] = x
          /\ \/ UNCHANGED used_lp
             \/ packet' = [packet EXCEPT ![x] = [frame |-> f, tcount |-> 0]] /\ used_lp' = Append(used_lp, x)
          /\ \A b \in Buffers \ {x} : packet'[b] = packet[b]
          /\ UNCHANGED fifo
  <2> DEFINE x == buffer[m]
  <2>1. x \in Buffers
    BY DEF File, IInv, TypeOK, InHand, Slot
  <2>2. PICK f \in Frames :
            LET Fill == packet' = [packet EXCEPT ![x] = [frame |-> f, tcount |-> 0]]
            IN  \/ FreeAdd(x) /\ UNCHANGED <<used_lp, used_hp>>
                \/ Fill /\ used_hp' = Append(used_hp, x) /\ UNCHANGED <<free, used_lp>>
                \/ Fill /\ used_lp' = Append(used_lp, x) /\ UNCHANGED <<free, used_hp>>
    BY DEF File
  <2>3. UNCHANGED fifo
    BY DEF File, serverVars
  <2>4. packet \in [Buffers -> Filled \cup {NoBuffer}]
    BY DEF IInv, TypeOK
  <2> HIDE DEF x
  <2> QED BY <2>1, <2>2, <2>3, <2>4 DEF FreeAdd, x
<1>3. Times(x, used_lp) = 0 /\ Holders(x) = {}
  BY <1>2, OnePlace DEF IInv
<1>4. CASE UNCHANGED used_lp
  <2>1. UNCHANGED <<used_lp, fifo>>
    BY <1>2, <1>4
  <2>2. FramesKept
    BY <2>1, <1>1, <1>2, <1>3, OtherChanged
  <2> QED BY <2>1, <2>2, <1>1, Unseen, AbsSteps
<1>5. CASE /\ packet' = [packet EXCEPT ![x] = [frame |-> f, tcount |-> 0]]
           /\ used_lp' = Append(used_lp, x)
  <2>1. used_lp \in Ring /\ \A c \in Clients : fifo[c] \in Ring
    BY <1>1 DEF TypeOK
  <2>2. /\ AbsPending = Map(Contents, used_lp) /\ AbsPending' = Map(Contents', used_lp')
        /\ AbsQueue = [d \in Clients |-> Map(Contents, fifo[d])]
        /\ AbsQueue' = [d \in Clients |-> Map(Contents', fifo'[d])]
    BY <1>1, AbsIs, AbsIsNext
  <2>3. /\ \A k \in 1 .. Len(used_lp) : Contents'[used_lp[k]] = Contents[used_lp[k]]
        /\ \A c \in Clients : \A k \in 1 .. Len(fifo[c]) : Contents'[fifo[c][k]] = Contents[fifo[c][k]]
    BY <1>1, <1>2, <1>3, OtherChanged
  <2>4. /\ Map(Contents', used_lp) = Map(Contents, used_lp)
        /\ \A c \in Clients : Map(Contents', fifo[c]) = Map(Contents, fifo[c])
    BY <2>1, <2>3, MapSame DEF Ring
  <2>5. Map(Contents', Append(used_lp, x)) = Append(Map(Contents', used_lp), Contents'[x])
    BY <2>1, MapAppend DEF Ring
  <2>6. AbsPending' = Append(AbsPending, Contents'[x])
    BY <2>2, <2>4, <2>5, <1>5
  <2>7. AbsQueue' = AbsQueue
    BY <2>2, <2>4, <1>2
  <2>8. Contents'[x] \in Abstract!Contents
    <3>1. packet'[x].frame = f
      BY <1>1, <1>5 DEF TypeOK
    <3>2. Contents'[x] = [dst |-> f.dst, etype |-> "any", tag |-> "any"]
      BY <3>1 DEF Contents, Packet
    <3>3. f.dst \in SUBSET Clients
      BY RgmiiRxAssumption DEF FrameType
    <3> QED BY <3>2, <3>3 DEF Abstract!Contents
  <2> QED BY <2>6, <2>7, <2>8, AbsSteps
<1> QED BY <1>2, <1>4, <1>5

\* The rest of what the server does.
LEMMA ServerRefines ==
    ASSUME IInv, Server
    PROVE  Abstract!Next \/ UNCHANGED Abstract!vars
<1>1. TypeOK
  BY DEF IInv
<1>2. CASE SelectNothing \/ NoHp \/ NoIncoming \/ Dropped
  <2>1. UNCHANGED <<used_lp, fifo, packet>>
    BY <1>2 DEF SelectNothing, NoHp, NoIncoming, Dropped, listVars
  <2>2. TypeOK'
    BY <1>2, ServerMovesStep DEF IInv
  <2> QED BY <2>1, <2>2, <1>1, FramesSame, Unseen, AbsSteps
<1>3. CASE TakeHp
  <2>1. UNCHANGED <<used_lp, fifo, packet>>
    BY <1>3 DEF TakeHp
  <2>2. TypeOK'
    BY <1>3, TakeHpStep DEF IInv
  <2> QED BY <2>1, <2>2, <1>1, FramesSame, Unseen, AbsSteps
<1>4. CASE SendHp
  <2>1. PICK x \in Buffers : x = buf
    BY <1>4 DEF SendHp, IInv, TypeOK, InHand, Slot
  <2>2. Times(x, used_lp) = 0 /\ Holders(x) = {}
    BY <2>1, OnePlace DEF IInv
  <2>3. UNCHANGED <<used_lp, fifo>> /\ \A b \in Buffers \ {x} : packet'[b] = packet[b]
    BY <2>1, <1>1, <1>4 DEF SendHp, FreeAdd, TypeOK
  <2>4. TypeOK'
    BY <1>4, SendHpStep DEF IInv
  <2> QED BY <2>2, <2>3, <2>4, <1>1, OtherChanged, Unseen, AbsSteps
<1>5. CASE HandleIncoming
  BY <1>5, HandleIncomingRefines
<1>6. CASE DropHead
  <2>1. PICK c \in Clients :
           /\ IF fifo[c] = <<>> THEN UNCHANGED <<free, packet, fifo>>
              ELSE Release(Head(fifo[c])) /\ fifo' = [fifo EXCEPT ![c] = Tail(@)]
           /\ pc = "drop" /\ dropping' \subseteq Clients
           /\ UNCHANGED <<used_lp, used_hp, pinVars, managerVars, pc, buf>>
    <3> DEFINE c == CHOOSE d \in dropping : TRUE
    <3>1. c \in Clients /\ dropping' \subseteq Clients
      BY <1>1, <1>6 DEF DropHead, TypeOK
    <3>2. /\ IF fifo[c] = <<>> THEN UNCHANGED <<free, packet, fifo>>
             ELSE Release(Head(fifo[c])) /\ fifo' = [fifo EXCEPT ![c] = Tail(@)]
          /\ pc = "drop"
          /\ UNCHANGED <<used_lp, used_hp, pinVars, managerVars, pc, buf>>
      BY <1>6 DEF DropHead
    <3> HIDE DEF c
    <3> QED BY <3>1, <3>2
  <2>2. TypeOK'
    BY <1>6, DropHeadStep DEF IInv
  <2>3. CASE fifo[c] = <<>>
    <3>1. UNCHANGED <<used_lp, fifo, packet>>
      BY <2>1, <2>3
    <3> QED BY <3>1, <2>2, <1>1, FramesSame, Unseen, AbsSteps
  <2>4. CASE fifo[c] # <<>>
    BY <2>1, <2>2, <2>4, ReleaseStep, ReleaseRefines
  <2> QED BY <2>3, <2>4
<1>7. ASSUME NEW c \in Clients, GetPacket(c)
      PROVE  Abstract!Next
  <2>1. dropping' \subseteq Clients
    BY <1>1, <1>7 DEF TypeOK, GetPacket
  <2>2. IInv' /\ FramesKept
    BY <2>1, <1>7, ReleaseStep DEF GetPacket
  <2> QED BY <2>2, <1>7, ReleaseRefines DEF GetPacket, IInv
<1> QED BY <1>2, <1>3, <1>4, <1>5, <1>6, <1>7 DEF Server

LEMMA RestartRefines ==
    ASSUME IInv, Restart
    PROVE  LosesPending
<1>1. fifo \in [Clients -> Ring] /\ fifo' = fifo /\ \A c \in Clients : fifo[c] = <<>>
  BY DEF Restart, IInv, TypeOK, NothingHeldAtRestart
<1>2. AbsQueue = [c \in Clients |-> <<>>]
  BY <1>1 DEF AbsQueue
<1>3. AbsQueue' = [c \in Clients |-> <<>>]
  BY <1>1 DEF AbsQueue
<1> QED BY <1>2, <1>3 DEF LosesPending, AbsQueue, Packet

LEMMA NextRefines ==
    ASSUME ~RestartHeld, IInv, [Next]_vars
    PROVE  [Abstract!Next \/ LosesPending]_(Abstract!vars)
<1>1. TypeOK /\ TypeOK'
  BY NextInv DEF IInv
<1>2. ASSUME NEW m \in Managers, Receive(m) \/ Manager(m)
      PROVE  Abstract!Next \/ UNCHANGED Abstract!vars
  <2>1. CASE File(m)
    BY <2>1, FileRefines
  <2>2. CASE Receive(m) \/ Keep(m) \/ Reuse(m) \/ StopManager(m)
    <3>1. UNCHANGED <<used_lp, fifo, packet>>
      BY <2>2 DEF Receive, Keep, Reuse, StopManager, listVars, serverVars
    <3> QED BY <3>1, <1>1, FramesSame, Unseen, AbsSteps
  <2> QED BY <2>1, <2>2, <1>2 DEF Manager
<1>3. CASE ChangeMode \/ UNCHANGED vars
  <2>1. UNCHANGED <<used_lp, fifo, packet>>
    BY <1>3 DEF ChangeMode, vars, listVars, serverVars
  <2> QED BY <2>1, <1>1, FramesSame, Unseen, AbsSteps
<1> QED BY <1>2, <1>3, ServerRefines, RestartRefines DEF Next

\* Each client gets, in the order in which the managers filed them, the
\* packets that it wants and has room for, whatever the others do; and only
\* a change of speed loses packets, of those not distributed yet.
THEOREM RefinesRxDelivery ==
    ASSUME ~RestartHeld
    PROVE  Spec => ImplementsRxDelivery
<1>1. Init => Abstract!Init
  <2> SUFFICES ASSUME Init PROVE Abstract!Init
    OBVIOUS
  <2>1. used_lp = <<>> /\ fifo = [c \in Clients |-> <<>>]
    BY DEF Init
  <2>2. AbsPending = <<>> /\ AbsQueue = [c \in Clients |-> <<>>]
    BY <2>1 DEF AbsPending, AbsQueue
  <2> QED BY <2>2 DEF Abstract!Init, AbsPending, AbsQueue
<1>2. IInv /\ [Next]_vars => [Abstract!Next \/ LosesPending]_(Abstract!vars)
  BY NextRefines
<1> QED BY <1>1, <1>2, Invariance, PTL DEF Spec, ImplementsRxDelivery
=============================================================================
