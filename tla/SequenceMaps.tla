----------------------------- MODULE SequenceMaps -----------------------------
(* Rings and fifos hold buffers or slots; an abstract specification speaks *)
(* of what they hold.  The lemmas say that the sequence of the contents    *)
(* changes as the sequence of the holders does.                            *)
EXTENDS Integers, Sequences, TLAPS

\* What the elements of sequence s stand for, if element a stands for f[a].
Map(f, s) == [k \in DOMAIN s |-> f[s[k]]]

LEMMA Appended ==
    ASSUME NEW A, NEW s \in Seq(A), NEW x \in A
    PROVE  /\ Append(s, x) \in Seq(A) /\ Len(Append(s, x)) = Len(s) + 1
           /\ Append(s, x)[Len(s) + 1] = x /\ \A k \in 1 .. Len(s) : Append(s, x)[k] = s[k]
  OBVIOUS

LEMMA SameSequence ==
    ASSUME NEW A, NEW s \in Seq(A), NEW t \in Seq(A), Len(s) = Len(t),
           \A k \in 1 .. Len(s) : s[k] = t[k]
    PROVE  s = t
  OBVIOUS

\* What Map is, for sequences of elements of A and contents in S.
Maps(f, A, S) ==
    /\ \A a \in A : f[a] \in S
    /\ \A s \in Seq(A) : /\ Map(f, s) \in Seq(S) /\ Len(Map(f, s)) = Len(s)
                         /\ \A k \in 1 .. Len(s) : Map(f, s)[k] = f[s[k]]

LEMMA MapIs ==
    ASSUME NEW A, NEW f
    PROVE  \E S : Maps(f, A, S)
<1> DEFINE S == {f[a] : a \in A}
<1>1. \A a \in A : f[a] \in S
  OBVIOUS
<1> HIDE DEF S
<1>2. ASSUME NEW s \in Seq(A)
      PROVE  /\ Map(f, s) \in Seq(S) /\ Len(Map(f, s)) = Len(s)
             /\ \A k \in 1 .. Len(s) : Map(f, s)[k] = f[s[k]]
  <2>1. DOMAIN s = 1 .. Len(s) /\ Len(s) \in Nat
    OBVIOUS
  <2>2. \A k \in 1 .. Len(s) : f[s[k]] \in S
    BY <2>1, <1>1
  <2> QED BY <2>1, <2>2 DEF Map
<1> QED BY <1>1, <1>2 DEF Maps

LEMMA MapLength ==
    ASSUME NEW A, NEW s \in Seq(A), NEW f
    PROVE  Len(Map(f, s)) = Len(s)
<1>1. PICK S : Maps(f, A, S)
  BY MapIs
<1> QED BY <1>1 DEF Maps

LEMMA MapAppend ==
    ASSUME NEW A, NEW s \in Seq(A), NEW x \in A, NEW f
    PROVE  Map(f, Append(s, x)) = Append(Map(f, s), f[x])
<1>1. PICK S : Maps(f, A, S)
  BY MapIs
<1> DEFINE t == Append(s, x)
           u == Map(f, s)
           v == Map(f, t)
           w == Append(u, f[x])
<1>2. t \in Seq(A) /\ Len(t) = Len(s) + 1 /\ t[Len(s) + 1] = x /\ \A k \in 1 .. Len(s) : t[k] = s[k]
  BY Appended
<1>3. Len(s) \in Nat
  OBVIOUS
<1> HIDE DEF t
<1>4. u \in Seq(S) /\ Len(u) = Len(s) /\ \A k \in 1 .. Len(s) : u[k] = f[s[k]]
  BY <1>1 DEF Maps
<1>5. v \in Seq(S) /\ Len(v) = Len(t) /\ \A k \in 1 .. Len(t) : v[k] = f[t[k]]
  BY <1>1, <1>2 DEF Maps
<1> HIDE DEF u, v
<1>6. /\ w \in Seq(S) /\ Len(w) = Len(s) + 1 /\ w[Len(s) + 1] = f[x]
      /\ \A k \in 1 .. Len(s) : w[k] = u[k]
  <2>1. f[x] \in S
    BY <1>1 DEF Maps
  <2> QED BY <2>1, <1>4, Appended
<1> HIDE DEF w
<1>7. \A k \in 1 .. Len(s) + 1 : k = Len(s) + 1 \/ k \in 1 .. Len(s)
  BY <1>3
<1>8. \A k \in 1 .. Len(s) + 1 : v[k] = w[k]
  BY <1>2, <1>4, <1>5, <1>6, <1>7
<1>9. v = w
  BY <1>2, <1>5, <1>6, <1>8, SameSequence
<1> QED BY <1>9 DEF t, u, v, w

LEMMA MapTail ==
    ASSUME NEW A, NEW s \in Seq(A), NEW f, s # <<>>
    PROVE  /\ Map(f, s) # <<>> /\ Head(Map(f, s)) = f[Head(s)]
           /\ Map(f, Tail(s)) = Tail(Map(f, s))
<1>1. PICK S : Maps(f, A, S)
  BY MapIs
<1> DEFINE t == Tail(s)
           u == Map(f, s)
           v == Map(f, t)
<1>2. /\ t \in Seq(A) /\ Len(s) \in Nat \ {0} /\ Len(t) = Len(s) - 1 /\ Head(s) = s[1]
      /\ \A k \in 1 .. Len(s) - 1 : t[k] = s[k + 1]
  OBVIOUS
<1> HIDE DEF t
<1>3. u \in Seq(S) /\ Len(u) = Len(s) /\ \A k \in 1 .. Len(s) : u[k] = f[s[k]]
  BY <1>1 DEF Maps
<1>4. v \in Seq(S) /\ Len(v) = Len(t) /\ \A k \in 1 .. Len(t) : v[k] = f[t[k]]
  BY <1>1, <1>2 DEF Maps
<1> HIDE DEF u, v
<1>5. /\ u # <<>> /\ Head(u) = u[1] /\ Tail(u) \in Seq(S) /\ Len(Tail(u)) = Len(s) - 1
      /\ \A k \in 1 .. Len(s) - 1 : Tail(u)[k] = u[k + 1]
  BY <1>2, <1>3
<1>6. Head(u) = f[Head(s)]
  BY <1>2, <1>3, <1>5
<1>7. Tail(u) = v
  <2>1. \A k \in 1 .. Len(s) - 1 : k + 1 \in 1 .. Len(s)
    BY <1>2
  <2>2. \A k \in 1 .. Len(s) - 1 : Tail(u)[k] = v[k]
    BY <2>1, <1>2, <1>3, <1>4, <1>5
  <2> QED BY <2>2, <1>2, <1>4, <1>5, SameSequence
<1> QED BY <1>5, <1>6, <1>7 DEF t, u, v

LEMMA MapSame ==
    ASSUME NEW A, NEW s \in Seq(A), NEW f, NEW g, \A k \in 1 .. Len(s) : f[s[k]] = g[s[k]]
    PROVE  Map(f, s) = Map(g, s)
<1>1. DOMAIN s = 1 .. Len(s)
  OBVIOUS
<1> QED BY <1>1 DEF Map
=============================================================================
