---------------------- MODULE DnsServiceDiscoveryProofs ----------------------
(***************************************************************************)
(* Proofs about the DNS codec and DnsServiceDiscovery, for any service and   *)
(* any messages that hosts may send.                                         *)
(***************************************************************************)
EXTENDS DnsServiceDiscovery, WellFoundedInduction, SequenceTheorems, FiniteSetTheorems, TLAPS

(* The least of a set of numbers, and induction over them.                   *)
LEMMA LeastNumber ==
    ASSUME NEW T, T \subseteq Nat, T # {}
    PROVE  \E x \in T : \A y \in T : x <= y
<1> DEFINE R == OpToRel(<, Nat)
<1>1. IsWellFoundedOn(R, Nat)
  BY NatLessThanWellFounded
<1> HIDE DEF R
<1>2. PICK x \in T : \A y \in T : ~ (<<y, x>> \in R)
  BY <1>1, WFMin
<1>3. ASSUME NEW y \in T PROVE x <= y
  <2>1. ~ (<<y, x>> \in R)
    BY <1>2
  <2>2. y < x => <<y, x>> \in R
    BY DEF R, OpToRel
  <2> QED BY <2>1, <2>2
<1> QED BY <1>3

LEMMA NumbersFrom ==
    ASSUME NEW S, 0 \in S, \A n \in Nat : n \in S => n + 1 \in S
    PROVE  Nat \subseteq S
<1> DEFINE T == Nat \ S
<1>1. SUFFICES ASSUME T # {} PROVE FALSE
  OBVIOUS
<1>2. PICK x \in T : \A y \in T : x <= y
  BY <1>1, LeastNumber
<1>3. x # 0 /\ x - 1 \in Nat /\ x - 1 \in S
  BY <1>2
<1> QED BY <1>3

-----------------------------------------------------------------------------
(* Recursive functions have values: those that count up to n, and those that *)
(* follow links from place to place, which may be a cycle without a value.   *)

Counts(f, p, g, V, n) ==
    f \in [0 .. n -> V] /\ f[0] = p /\ \A k \in 0 .. n - 1 : f[k + 1] = g[k + 1][f[k]]

LEMMA CountsExist ==
    ASSUME NEW V, NEW p \in V, NEW n \in Nat, NEW g, \A i \in 1 .. n : g[i] \in [V -> V]
    PROVE  \E f : Counts(f, p, g, V, n)
<1> DEFINE S == {k \in Nat : k <= n => \E f : Counts(f, p, g, V, k)}
<1>1. 0 \in S
  <2>1. Counts([i \in 0 .. 0 |-> p], p, g, V, 0)
    BY DEF Counts
  <2> QED BY <2>1
<1>2. ASSUME NEW k \in Nat, k \in S PROVE k + 1 \in S
  <2> SUFFICES ASSUME k + 1 <= n PROVE \E f : Counts(f, p, g, V, k + 1)
    OBVIOUS
  <2>1. PICK f : Counts(f, p, g, V, k)
    BY <1>2
  <2>2. f[k] \in V /\ k + 1 \in 1 .. n
    BY <2>1 DEF Counts
  <2>3. g[k + 1][f[k]] \in V
    BY <2>2
  <2> DEFINE h == [i \in 0 .. k + 1 |-> IF i = k + 1 THEN g[k + 1][f[k]] ELSE f[i]]
  <2>4. h \in [0 .. k + 1 -> V] /\ h[0] = p
    BY <2>1, <2>3 DEF Counts
  <2>5. ASSUME NEW i \in 0 .. k PROVE h[i + 1] = g[i + 1][h[i]]
    <3>1. h[i] = f[i]
      OBVIOUS
    <3>2. CASE i = k
      <4>1. h[i + 1] = g[k + 1][f[k]]
        BY <3>2
      <4> QED BY <3>1, <3>2, <4>1
    <3>3. CASE i \in 0 .. k - 1
      <4>1. h[i + 1] = f[i + 1]
        BY <3>3
      <4>2. f[i + 1] = g[i + 1][f[i]]
        BY <2>1, <3>3 DEF Counts
      <4> QED BY <3>1, <4>1, <4>2
    <3> QED BY <3>2, <3>3
  <2> HIDE DEF h
  <2>6. Counts(h, p, g, V, k + 1)
    BY <2>4, <2>5 DEF Counts
  <2> QED BY <2>6
<1> HIDE DEF S
<1>3. n \in S
  BY <1>1, <1>2, NumbersFrom
<1> QED BY <1>3 DEF S

(* The values at the ends of the links, c, and those handed on by t.         *)
Links(f, D, V, none, K, c, J, next, t) ==
    /\ f \in [D -> V \cup {none}]
    /\ \A k \in K : f[k] = c[k]
    /\ \A j \in J : f[j] = IF f[next[j]] \in V THEN t[j][f[next[j]]] ELSE none
    /\ \A d \in D \ (K \cup J) : f[d] = none

LEMMA LinksExist ==
    ASSUME NEW D, NEW V, NEW none, none \notin V,
           NEW K \in SUBSET D, NEW c \in [K -> V],
           NEW J \in SUBSET D, K \cap J = {}, NEW next \in [J -> D], NEW t \in [J -> [V -> V]]
    PROVE  \E f : Links(f, D, V, none, K, c, J, next, t)
<1> DEFINE Closed(X) == /\ \A k \in K : <<k, c[k]>> \in X
                        /\ \A j \in J, v \in V : <<next[j], v>> \in X => <<j, t[j][v]>> \in X
           L == {p \in D \X V : \A X \in SUBSET (D \X V) : Closed(X) => p \in X}
<1>1. \A k \in K : c[k] \in V /\ k \in D
  OBVIOUS
<1>2. \A j \in J : next[j] \in D /\ j \in D /\ \A v \in V : t[j][v] \in V
  OBVIOUS
<1>3. Closed(L)
  <2>1. \A k \in K : <<k, c[k]>> \in L
    BY <1>1
  <2>2. ASSUME NEW j \in J, NEW v \in V, <<next[j], v>> \in L PROVE <<j, t[j][v]>> \in L
    BY <1>2, <2>2
  <2> QED BY <2>1, <2>2
<1>4. \A X \in SUBSET (D \X V) : Closed(X) => L \subseteq X
  OBVIOUS
<1>5. L \subseteq D \X V
  OBVIOUS
<1>6. ASSUME NEW d \in D, NEW v \in V, <<d, v>> \in L
      PROVE  \/ d \in K /\ v = c[d]
             \/ d \in J /\ \E u \in V : <<next[d], u>> \in L /\ v = t[d][u]
  <2>1. SUFFICES ASSUME ~ (d \in K /\ v = c[d]),
                        ~ (d \in J /\ \E u \in V : <<next[d], u>> \in L /\ v = t[d][u])
                 PROVE  FALSE
    OBVIOUS
  <2> DEFINE X == L \ {<<d, v>>}
  <2>2. Closed(X)
    <3>1. \A k \in K : <<k, c[k]>> \in X
      BY <1>3, <2>1, Zenon
    <3>2. ASSUME NEW j \in J, NEW u \in V, <<next[j], u>> \in X PROVE <<j, t[j][u]>> \in X
      <4>1. <<next[j], u>> \in L /\ <<j, t[j][u]>> \in L
        BY <1>3, <3>2, Zenon
      <4>2. <<j, t[j][u]>> # <<d, v>>
        BY <2>1, <4>1
      <4> QED BY <4>1, <4>2, Zenon
    <3> QED BY <3>1, <3>2
  <2> HIDE DEF L
  <2>3. X \in SUBSET (D \X V)
    BY <1>5
  <2>4. L \subseteq X
    BY <1>4, <2>2, <2>3, Zenon
  <2> QED BY <1>6, <2>4
<1> HIDE DEF L
<1>7. ASSUME NEW d \in D, NEW v \in V, <<d, v>> \in L, NEW w \in V, <<d, w>> \in L PROVE v = w
  <2> DEFINE Y == {p \in L : \A x \in V : <<p[1], x>> \in L => x = p[2]}
  <2>1. Closed(Y)
    <3>1. ASSUME NEW k \in K PROVE <<k, c[k]>> \in Y
      <4>1. ASSUME NEW x \in V, <<k, x>> \in L PROVE x = c[k]
        <5>1. k \in D /\ k \notin J
          OBVIOUS
        <5> QED BY <1>6, <4>1, <5>1, Zenon
      <4>2. <<k, c[k]>> \in L
        BY <1>3, Zenon
      <4> QED BY <4>1, <4>2
    <3>2. ASSUME NEW j \in J, NEW u \in V, <<next[j], u>> \in Y PROVE <<j, t[j][u]>> \in Y
      <4>1. <<next[j], u>> \in L /\ \A x \in V : <<next[j], x>> \in L => x = u
        BY <3>2
      <4>2. <<j, t[j][u]>> \in L
        BY <1>3, <4>1, Zenon
      <4>3. ASSUME NEW x \in V, <<j, x>> \in L PROVE x = t[j][u]
        <5>1. j \in D /\ j \notin K
          OBVIOUS
        <5>2. PICK y \in V : <<next[j], y>> \in L /\ x = t[j][y]
          BY <1>6, <4>3, <5>1, Zenon
        <5>3. y = u
          BY <4>1, <5>2, Zenon
        <5> QED BY <5>2, <5>3, Zenon
      <4> QED BY <4>2, <4>3
    <3> QED BY <3>1, <3>2
  <2>2. Y \in SUBSET (D \X V)
    BY <1>5
  <2>3. L \subseteq Y
    BY <1>4, <2>1, <2>2, Zenon
  <2> QED BY <1>7, <2>3
<1> DEFINE Has(d) == \E v \in V : <<d, v>> \in L
           f == [d \in D |-> IF Has(d) THEN CHOOSE v \in V : <<d, v>> \in L ELSE none]
<1>8. ASSUME NEW d \in D, NEW v \in V, <<d, v>> \in L PROVE f[d] = v
  <2>1. Has(d)
    BY <1>8
  <2>2. f[d] \in V /\ <<d, f[d]>> \in L
    BY <2>1, Zenon
  <2> HIDE DEF f
  <2> QED BY <1>7, <1>8, <2>2, Zenon
<1>9. \A d \in D : ~Has(d) => f[d] = none
  BY Zenon
<1>10. f \in [D -> V \cup {none}]
  BY Zenon
<1> HIDE DEF f
<1>11. ASSUME NEW k \in K PROVE f[k] = c[k]
  BY <1>1, <1>3, <1>8, Zenon
<1>12. ASSUME NEW j \in J PROVE f[j] = IF f[next[j]] \in V THEN t[j][f[next[j]]] ELSE none
  <2>1. CASE Has(next[j])
    <3>1. PICK v \in V : <<next[j], v>> \in L
      BY <2>1
    <3>2. f[next[j]] = v
      BY <1>2, <1>8, <3>1, Zenon
    <3>3. <<j, t[j][v]>> \in L
      BY <1>3, <3>1, Zenon
    <3>4. f[j] = t[j][v]
      BY <1>2, <1>8, <3>3, Zenon
    <3> QED BY <3>2, <3>4, Zenon
  <2>2. CASE ~Has(next[j])
    <3>1. f[next[j]] = none
      BY <1>2, <1>9, <2>2, Zenon
    <3>2. ~Has(j)
      <4>1. j \in D /\ j \notin K
        OBVIOUS
      <4> QED BY <1>6, <2>2, <4>1, Zenon
    <3>3. f[j] = none
      BY <1>2, <1>9, <3>2, Zenon
    <3> QED BY <3>1, <3>3, Zenon
  <2> QED BY <2>1, <2>2
<1>13. ASSUME NEW d \in D \ (K \cup J) PROVE f[d] = none
  <2>1. ~Has(d)
    BY <1>6, <1>13, Zenon
  <2> QED BY <1>9, <2>1, Zenon
<1> QED BY <1>10, <1>11, <1>12, <1>13, Zenon DEF Links

-----------------------------------------------------------------------------
(* Octets in a buffer.                                                       *)

(* The octets s stand in b, from offset `at` on.                             *)
At(b, at, s) == at + Len(s) <= Len(b) /\ \A i \in 1 .. Len(s) : b[at + i] = s[i]

LEMMA AtSplit ==
    ASSUME NEW b \in Strings, NEW at \in Nat, NEW s \in Strings, NEW t \in Strings,
           At(b, at, s \o t)
    PROVE  At(b, at, s) /\ At(b, at + Len(s), t)
<1> USE DEF Strings
<1> DEFINE st == s \o t
<1>1. Len(st) = Len(s) + Len(t) /\ \A i \in 1 .. Len(s) : st[i] = s[i]
  OBVIOUS
<1>2. \A i \in 1 .. Len(t) : st[Len(s) + i] = t[i]
  OBVIOUS
<1>3. at + Len(st) <= Len(b) /\ \A i \in 1 .. Len(st) : b[at + i] = st[i]
  BY DEF At
<1> HIDE DEF st
<1>4. Len(s) \in Nat /\ Len(t) \in Nat /\ Len(b) \in Nat
  OBVIOUS
<1>5. At(b, at, s)
  BY <1>1, <1>3, <1>4 DEF At
<1>6. ASSUME NEW i \in 1 .. Len(t) PROVE b[at + Len(s) + i] = t[i]
  <2>1. Len(s) + i \in 1 .. Len(st)
    BY <1>1, <1>4
  <2>2. b[at + (Len(s) + i)] = st[Len(s) + i]
    BY <1>3, <2>1
  <2>3. at + (Len(s) + i) = at + Len(s) + i
    BY <1>4
  <2> QED BY <1>2, <2>2, <2>3
<1> QED BY <1>1, <1>3, <1>4, <1>5, <1>6 DEF At

LEMMA Joined ==
    ASSUME NEW s \in Strings, NEW t \in Strings, NEW u \in Strings
    PROVE  (s \o t) \o u = s \o (t \o u) /\ s \o t \in Strings
<1> USE DEF Strings
<1>1. (s \o t) \o u = s \o (t \o u)
  BY ConcatAssociative
<1> QED BY <1>1

Associates(s, t, u) == (s \o t) \o u = s \o (t \o u) /\ s \o t \in Strings

LEMMA JoinedThree ==
    \A s, t, u : s \in Strings /\ t \in Strings /\ u \in Strings => Associates(s, t, u)
<1> TAKE s, t, u
<1> HAVE s \in Strings /\ t \in Strings /\ u \in Strings
<1> QED BY Joined DEF Associates

LEMMA JoinedIs ==
    \A s, t : s \in Strings /\ t \in Strings => s \o t \in Strings /\ Len(s \o t) = Len(s) + Len(t)
<1> TAKE s, t
<1> HAVE s \in Strings /\ t \in Strings
<1> QED BY DEF Strings

Sized(s, n) == s \in Strings /\ Len(s) = n

LEMMA JoinedSized == \A s, t, m, n : Sized(s, m) /\ Sized(t, n) => Sized(s \o t, m + n)
BY JoinedIs DEF Sized

LEMMA AtBoth ==
    ASSUME NEW s \in Strings, NEW t \in Strings
    PROVE  At(s \o t, 0, s) /\ At(s \o t, Len(s), t)
BY DEF At, Strings

(* What stands at the start of a start of b stands in b.                     *)
LEMMA AtWithin ==
    ASSUME NEW b \in Strings, NEW c \in Strings, NEW s \in Strings, NEW at \in Nat,
           At(b, 0, c), At(c, at, s)
    PROVE  At(b, at, s)
<1> USE DEF Strings
<1>1. Len(c) <= Len(b) /\ at + Len(s) <= Len(c) /\ Len(b) \in Nat /\ Len(c) \in Nat /\ Len(s) \in Nat
  BY DEF At
<1>2. ASSUME NEW i \in 1 .. Len(s) PROVE b[at + i] = s[i]
  <2>1. at + i \in 1 .. Len(c) /\ 0 + (at + i) = at + i
    BY <1>1
  <2>2. b[0 + (at + i)] = c[at + i] /\ c[at + i] = s[i]
    BY <2>1 DEF At
  <2> QED BY <2>1, <2>2
<1> QED BY <1>1, <1>2 DEF At

LEMMA AtOctets ==
    ASSUME NEW b \in Strings, NEW s \in Strings, NEW at \in Nat, At(b, at, s)
    PROVE  Octets(b, at, Len(s)) = s
<1> USE DEF Strings
<1>1. at + Len(s) <= Len(b) /\ Len(b) \in Nat /\ Len(s) \in Nat
  BY DEF At
<1>2. \A i \in 1 .. Len(s) : b[at + i] = s[i]
  BY DEF At
<1> DEFINE o == SubSeq(b, at + 1, at + Len(s))
<1>3. o \in Strings /\ Len(o) = Len(s)
  BY <1>1
<1>4. ASSUME NEW i \in 1 .. Len(s) PROVE o[i] = s[i]
  <2>1. o[i] = b[at + 1 + i - 1]
    BY <1>1
  <2>2. at + 1 + i - 1 = at + i
    BY <1>1
  <2> QED BY <1>2, <2>1, <2>2
<1> HIDE DEF o
<1>5. o = s
  BY <1>3, <1>4
<1> QED BY <1>5 DEF o, Octets

LEMMA AtOctet ==
    ASSUME NEW b \in Strings, NEW s \in Strings, NEW at \in Nat, At(b, at, s),
           NEW i \in 0 .. Len(s) - 1
    PROVE  Octet(b, at + i) = s[i + 1]
<1> USE DEF Strings
<1>1. at + Len(s) <= Len(b) /\ Len(b) \in Nat /\ Len(s) \in Nat /\ i + 1 \in 1 .. Len(s)
  BY DEF At
<1>2. b[at + (i + 1)] = s[i + 1]
  BY <1>1 DEF At
<1>3. at + i + 1 = at + (i + 1) /\ at + i < Len(b)
  BY <1>1
<1> QED BY <1>2, <1>3 DEF Octet

LEMMA NumberIs == \A x \in Number : x \in Nat /\ x < NumberLimit
BY DEF Number, NumberLimit

LEMMA SmallNumbers ==
    /\ 1 \in Nat /\ 1 < NumberLimit
    /\ \A k \in Nat : k <= 255 => k \in Byte
BY DEF NumberLimit, Byte

LEMMA NumberOctets ==
    ASSUME NEW v \in Nat, v < NumberLimit
    PROVE  ToU16(v) \in Strings /\ Len(ToU16(v)) = 2
<1>1. v \div 256 \in 0 .. 255
  BY DEF NumberLimit
<1>2. v % 256 \in 0 .. 255
  OBVIOUS
<1>3. PICK h, l : h = v \div 256 /\ l = v % 256
  OBVIOUS
<1>4. h \in 0 .. 255 /\ l \in 0 .. 255
  BY <1>1, <1>2, <1>3
<1>5. <<h, l>> \in Seq(Byte) /\ Len(<<h, l>>) = 2
  BY <1>4 DEF Byte
<1> QED BY <1>3, <1>5 DEF ToU16, Strings

LEMMA AtNumber ==
    ASSUME NEW b \in Strings, NEW at \in Nat, NEW v \in Nat, v < NumberLimit, At(b, at, ToU16(v))
    PROVE  U16(b, at) = v /\ Octet(b, at) = v \div 256
<1>1. PICK s : s = ToU16(v)
  OBVIOUS
<1>2. s \in Strings /\ Len(s) = 2
  BY <1>1, NumberOctets
<1>3. s[1] = v \div 256 /\ s[2] = v % 256
  BY <1>1 DEF ToU16
<1>4. At(b, at, s)
  BY <1>1
<1>5. Octet(b, at + 0) = s[0 + 1] /\ Octet(b, at + 1) = s[1 + 1]
  BY <1>2, <1>4, AtOctet
<1>6. Octet(b, at) = v \div 256 /\ Octet(b, at + 1) = v % 256
  BY <1>3, <1>5
<1>7. 256 * (v \div 256) + (v % 256) = v
  OBVIOUS
<1> QED BY <1>6, <1>7 DEF U16

-----------------------------------------------------------------------------
(* The octets of a name, label by label.                                     *)

(* The sequences of s joined up to each place, and FlattenSeq's equation.    *)
Joins(h, s, n, T) ==
    /\ h \in [0 .. n -> Seq(T)] /\ h[0] = <<>>
    /\ \A k \in 0 .. n - 1 : h[k + 1] = h[k] \o s[k + 1]
Flattens(f, s) == [i \in 1 .. Len(s) |-> IF i = 1 THEN s[i] ELSE f[i - 1] \o s[i]]

LEMMA JoinsExist ==
    ASSUME NEW T, NEW s \in Seq(Seq(T))
    PROVE  \E h : Joins(h, s, Len(s), T)
<1> DEFINE n == Len(s)
           S == Seq(T)
           g == [i \in 1 .. n |-> [v \in S |-> v \o s[i]]]
<1>1. n \in Nat /\ <<>> \in S
  OBVIOUS
<1>2. \A i \in 1 .. n : s[i] \in S
  OBVIOUS
<1>3. \A i \in 1 .. n, v \in S : v \o s[i] \in S
  BY <1>2
<1> HIDE DEF S
<1>4. \A i \in 1 .. n : g[i] \in [S -> S]
  BY <1>3
<1>5. \A i \in 1 .. n, v \in S : g[i][v] = v \o s[i]
  OBVIOUS
<1> HIDE DEF g, n
<1>6. PICK f : Counts(f, <<>>, g, S, n)
  BY <1>1, <1>4, CountsExist
<1>7. f \in [0 .. n -> S] /\ f[0] = <<>>
  BY <1>6 DEF Counts
<1>8. ASSUME NEW k \in 0 .. n - 1 PROVE f[k + 1] = f[k] \o s[k + 1]
  <2>1. f[k] \in S /\ k + 1 \in 1 .. n
    BY <1>1, <1>7
  <2>2. f[k + 1] = g[k + 1][f[k]]
    BY <1>6 DEF Counts
  <2> QED BY <1>5, <2>1, <2>2
<1> QED BY <1>7, <1>8 DEF Joins, S, n

LEMMA FlattenSeqIs ==
    ASSUME NEW T, NEW s \in Seq(Seq(T)), NEW h, Joins(h, s, Len(s), T)
    PROVE  FlattenSeq(s) = h[Len(s)]
<1>1. CASE s = <<>>
  BY <1>1 DEF FlattenSeq, Joins
<1>2. CASE s # <<>>
  <2> DEFINE n == Len(s)
             a == CHOOSE f : f = Flattens(f, s)
             b == [i \in 1 .. n |-> h[i]]
             S == {k \in Nat : k \in 1 .. n => a[k] = h[k]}
  <2>1. n \in Nat \ {0} /\ s[1] \in Seq(T)
    BY <1>2
  <2>2. FlattenSeq(s) = a[n]
    BY <2>1 DEF FlattenSeq, Flattens
  <2>3. h[0] = <<>> /\ \A k \in 0 .. n - 1 : h[k + 1] = h[k] \o s[k + 1]
    BY DEF Joins
  <2>4. h[1] = s[1]
    <3>1. <<>> \o s[1] = s[1]
      BY <2>1
    <3> HIDE DEF n
    <3>2. 0 \in 0 .. n - 1 /\ 0 + 1 = 1
      BY <2>1
    <3>3. h[0 + 1] = h[0] \o s[0 + 1]
      BY <2>3, <3>2
    <3> QED BY <2>3, <3>1, <3>2, <3>3
  <2>5. b = [i \in 1 .. n |-> IF i = 1 THEN s[i] ELSE b[i - 1] \o s[i]]
    <3> HIDE DEF n
    <3>1. ASSUME NEW i \in 1 .. n PROVE h[i] = IF i = 1 THEN s[i] ELSE b[i - 1] \o s[i]
      <4>1. i - 1 \in 0 .. n - 1 /\ i - 1 + 1 = i
        BY <2>1
      <4>2. h[i - 1 + 1] = h[i - 1] \o s[i - 1 + 1]
        BY <2>3, <4>1
      <4>3. h[i] = h[i - 1] \o s[i]
        BY <4>1, <4>2
      <4>4. CASE i = 1
        BY <2>4, <4>4
      <4>5. CASE i # 1
        <5>1. b[i - 1] = h[i - 1]
          BY <2>1, <4>5
        <5> QED BY <4>3, <4>5, <5>1
      <4> QED BY <4>4, <4>5
    <3> QED BY <3>1, Zenon
  <2> HIDE DEF b
  <2>6. b = Flattens(b, s)
    BY <2>5, Zenon DEF Flattens
  <2> HIDE DEF a
  <2>7. a = Flattens(a, s)
    BY <2>6 DEF a
  <2>8. \A i \in 1 .. n : a[i] = IF i = 1 THEN s[i] ELSE a[i - 1] \o s[i]
    BY <2>7, Zenon DEF Flattens
  <2> HIDE DEF n
  <2>9. ASSUME NEW k \in Nat, k \in S PROVE k + 1 \in S
    <3> SUFFICES ASSUME k + 1 \in 1 .. n PROVE a[k + 1] = h[k + 1]
      OBVIOUS
    <3>1. k \in 0 .. n - 1 /\ k + 1 - 1 = k
      BY <2>1
    <3>2. h[k + 1] = h[k] \o s[k + 1]
      BY <2>3, <3>1
    <3>3. a[k + 1] = IF k + 1 = 1 THEN s[k + 1] ELSE a[k] \o s[k + 1]
      BY <2>8, <3>1
    <3>4. CASE k = 0
      <4>1. k + 1 = 1
        BY <3>4
      <4> QED BY <2>4, <3>3, <4>1
    <3>5. CASE k # 0
      <4>1. a[k] = h[k]
        BY <2>1, <2>9, <3>1, <3>5
      <4>2. k + 1 # 1
        BY <3>5
      <4> QED BY <3>2, <3>3, <4>1, <4>2
    <3> QED BY <3>4, <3>5
  <2>10. 0 \in S
    BY <2>1
  <2> HIDE DEF S
  <2>11. n \in S
    BY <2>1, <2>9, <2>10, NumbersFrom
  <2> QED BY <2>1, <2>2, <2>11 DEF S, n
<1> QED BY <1>1, <1>2

(* Labels that the octet before them can count.                              *)
Short(labels) == labels \in Seq(Strings) /\ \A i \in 1 .. Len(labels) : Len(labels[i]) < 64
Counted(label) == <<Len(label)>> \o label
AllCounted(labels) == [i \in DOMAIN labels |-> Counted(labels[i])]

LEMMA CountedIs ==
    ASSUME NEW label \in Strings, Len(label) < 64
    PROVE  /\ Counted(label) \in Strings
           /\ Len(Counted(label)) = Len(label) + 1
           /\ At(Counted(label), 0, <<Len(label)>>) /\ At(Counted(label), 1, label)
<1>1. Len(label) \in Byte
  <2>1. PICK n \in Nat : n = Len(label)
    BY DEF Strings
  <2>2. n < 64
    BY <2>1
  <2>3. n \in Byte
    <3>1. \A m \in Nat : m < 64 => m \in 0 .. 255
      OBVIOUS
    <3> QED BY <2>2, <3>1, Zenon DEF Byte
  <2> QED BY <2>1, <2>3, Zenon
<1>2. PICK s : s = <<Len(label)>>
  OBVIOUS
<1>3. s \in Strings /\ Len(s) = 1
  BY <1>1, <1>2 DEF Strings
<1>4. s \o label \in Strings /\ Len(s \o label) = Len(label) + 1
  <2>1. s \in Seq(Byte) /\ label \in Seq(Byte)
    BY <1>3 DEF Strings
  <2>2. s \o label \in Seq(Byte) /\ Len(s \o label) = Len(s) + Len(label) /\ Len(label) \in Nat
    BY <2>1
  <2> QED BY <1>3, <2>2 DEF Strings
<1>5. At(s \o label, 0, s) /\ At(s \o label, Len(s), label)
  BY <1>3, AtBoth
<1> QED BY <1>2, <1>3, <1>4, <1>5 DEF Counted

LEMMA AllCountedIs ==
    ASSUME NEW labels, Short(labels)
    PROVE  AllCounted(labels) \in Seq(Strings) /\ Len(AllCounted(labels)) = Len(labels)
<1>1. labels \in Seq(Strings) /\ Len(labels) \in Nat /\ DOMAIN labels = 1 .. Len(labels)
  BY DEF Short
<1>2. ASSUME NEW i \in 1 .. Len(labels) PROVE Counted(labels[i]) \in Strings
  <2>1. labels[i] \in Strings /\ Len(labels[i]) < 64
    BY <1>1 DEF Short
  <2> QED BY <2>1, CountedIs
<1> QED BY <1>1, <1>2 DEF AllCounted

LEMMA ToNameIs ==
    ASSUME NEW labels, Short(labels), NEW h, Joins(h, AllCounted(labels), Len(labels), Byte)
    PROVE  ToName(labels) = h[Len(labels)] /\ ToName(labels) \in Strings
<1>1. AllCounted(labels) \in Seq(Seq(Byte)) /\ Len(AllCounted(labels)) = Len(labels)
  BY AllCountedIs DEF Strings
<1>2. ToName(labels) = FlattenSeq(AllCounted(labels))
  BY DEF ToName, AllCounted, Counted
<1>3. FlattenSeq(AllCounted(labels)) = h[Len(labels)]
  BY <1>1, FlattenSeqIs
<1>4. Len(labels) \in Nat
  BY DEF Short
<1>5. h[Len(labels)] \in Seq(Byte)
  BY <1>1, <1>4 DEF Joins
<1> QED BY <1>2, <1>3, <1>5 DEF Strings

LEMMA ToNameTyped ==
    ASSUME NEW labels, Short(labels)
    PROVE  ToName(labels) \in Strings
<1>1. AllCounted(labels) \in Seq(Seq(Byte)) /\ Len(AllCounted(labels)) = Len(labels)
  BY AllCountedIs DEF Strings
<1>2. PICK h : Joins(h, AllCounted(labels), Len(labels), Byte)
  BY <1>1, JoinsExist
<1> QED BY <1>2, ToNameIs

LEMMA ToNameEmpty == ToName(<<>>) = <<>>
<1>1. [i \in DOMAIN <<>> |-> Counted(<<>>[i])] = <<>>
  OBVIOUS
<1>2. FlattenSeq(<<>>) = <<>>
  BY DEF FlattenSeq
<1> QED BY <1>1, <1>2 DEF ToName, Counted

LEMMA ToNameAppend ==
    ASSUME NEW labels, Short(labels), NEW l \in Strings, Len(l) < 64
    PROVE  /\ Short(Append(labels, l))
           /\ ToName(Append(labels, l)) = ToName(labels) \o Counted(l)
<1> DEFINE n == Len(labels)
           longer == Append(labels, l)
           s == AllCounted(labels)
           t == AllCounted(longer)
<1>1. labels \in Seq(Strings) /\ n \in Nat /\ DOMAIN labels = 1 .. n
  BY DEF Short
<1>2. /\ longer \in Seq(Strings) /\ Len(longer) = n + 1 /\ DOMAIN longer = 1 .. n + 1
      /\ longer[n + 1] = l /\ \A i \in 1 .. n : longer[i] = labels[i]
  BY <1>1
<1>3. Short(longer)
  BY <1>1, <1>2 DEF Short
<1> HIDE DEF longer
<1>4. t[n + 1] = Counted(l) /\ \A i \in 1 .. n : t[i] = s[i]
  BY <1>1, <1>2 DEF AllCounted
<1>5. t \in Seq(Seq(Byte)) /\ Len(t) = n + 1 /\ Len(s) = n
  BY <1>2, <1>3, AllCountedIs DEF Strings
<1>6. PICK h : Joins(h, t, n + 1, Byte)
  BY <1>5, JoinsExist
<1> HIDE DEF n, s, t
<1> DEFINE k == [i \in 0 .. n |-> h[i]]
<1>7. /\ h \in [0 .. n + 1 -> Seq(Byte)] /\ h[0] = <<>>
      /\ \A i \in 0 .. (n + 1) - 1 : h[i + 1] = h[i] \o t[i + 1]
  BY <1>6 DEF Joins
<1>8. k \in [0 .. n -> Seq(Byte)] /\ k[0] = <<>>
  BY <1>1, <1>7
<1>9. ASSUME NEW i \in 0 .. n - 1 PROVE k[i + 1] = k[i] \o s[i + 1]
  <2>1. i \in 0 .. (n + 1) - 1 /\ i + 1 \in 1 .. n /\ i \in 0 .. n /\ i + 1 \in 0 .. n
    BY <1>1
  <2>2. k[i + 1] = h[i + 1] /\ k[i] = h[i]
    BY <2>1
  <2>3. h[i + 1] = h[i] \o t[i + 1] /\ t[i + 1] = s[i + 1]
    BY <1>4, <1>7, <2>1
  <2> QED BY <2>2, <2>3
<1>10. k[n] = h[n]
  BY <1>1
<1> HIDE DEF k
<1>11. Joins(k, s, n, Byte)
  BY <1>5, <1>8, <1>9 DEF Joins
<1>12. ToName(labels) = k[n]
  BY <1>11, ToNameIs DEF n, s
<1>13. ToName(longer) = h[n + 1]
  BY <1>2, <1>3, <1>6, ToNameIs DEF t
<1>14. n \in 0 .. (n + 1) - 1
  BY <1>1
<1>15. h[n + 1] = h[n] \o t[n + 1]
  BY <1>7, <1>14
<1> QED BY <1>3, <1>4, <1>10, <1>12, <1>13, <1>15 DEF longer

LEMMA ToNameStep ==
    ASSUME NEW labels, Short(labels), NEW i \in 1 .. Len(labels)
    PROVE  /\ Short(SubSeq(labels, 1, i)) /\ Short(SubSeq(labels, 1, i - 1))
           /\ ToName(SubSeq(labels, 1, i)) = ToName(SubSeq(labels, 1, i - 1)) \o Counted(labels[i])
<1>1. labels \in Seq(Strings) /\ Len(labels) \in Nat /\ labels[i] \in Strings /\ Len(labels[i]) < 64
  BY DEF Short
<1>2. Short(SubSeq(labels, 1, i - 1))
  BY <1>1 DEF Short
<1>3. SubSeq(labels, 1, i) = Append(SubSeq(labels, 1, i - 1), labels[i])
  BY <1>1
<1> QED BY <1>1, <1>2, <1>3, ToNameAppend

(* The octets of the first labels of a name.                                 *)
Upto(labels, i) == ToName(SubSeq(labels, 1, i))

LEMMA UptoTyped ==
    ASSUME NEW labels, Short(labels), NEW i \in 0 .. Len(labels)
    PROVE  Upto(labels, i) \in Strings /\ Short(SubSeq(labels, 1, i))
<1>1. labels \in Seq(Strings) /\ Len(labels) \in Nat
  BY DEF Short
<1>2. Short(SubSeq(labels, 1, i))
  BY <1>1 DEF Short
<1> QED BY <1>2, ToNameTyped DEF Upto

LEMMA UptoEnds ==
    ASSUME NEW labels, Short(labels)
    PROVE  Upto(labels, 0) = <<>> /\ Upto(labels, Len(labels)) = ToName(labels)
<1>1. labels \in Seq(Strings)
  BY DEF Short
<1>2. SubSeq(labels, 1, 0) = <<>> /\ SubSeq(labels, 1, Len(labels)) = labels
  BY <1>1
<1> QED BY <1>2, ToNameEmpty DEF Upto

LEMMA UptoNext ==
    ASSUME NEW labels, Short(labels), NEW i \in 0 .. Len(labels) - 1
    PROVE  /\ Upto(labels, i + 1) = Upto(labels, i) \o Counted(labels[i + 1])
           /\ Len(Upto(labels, i + 1)) = Len(Upto(labels, i)) + Len(labels[i + 1]) + 1
<1>1. labels \in Seq(Strings) /\ Len(labels) \in Nat
  BY DEF Short
<1>2. i + 1 \in 1 .. Len(labels) /\ i + 1 - 1 = i /\ i \in 0 .. Len(labels)
  BY <1>1
<1>3. Upto(labels, i + 1) = Upto(labels, i) \o Counted(labels[i + 1])
  BY <1>2, ToNameStep DEF Upto
<1>4. PICK u, c : u = Upto(labels, i) /\ c = Counted(labels[i + 1])
  OBVIOUS
<1>5. labels[i + 1] \in Strings /\ Len(labels[i + 1]) < 64
  BY <1>1, <1>2 DEF Short
<1>6. u \in Strings /\ c \in Strings
  BY <1>2, <1>4, <1>5, UptoTyped, CountedIs
<1>7. Len(u \o c) = Len(u) + Len(c) /\ Len(u) \in Nat
  BY <1>6 DEF Strings
<1>8. Len(c) = Len(labels[i + 1]) + 1
  BY <1>4, <1>5, CountedIs
<1>9. Len(labels[i + 1]) \in Nat
  BY <1>5 DEF Strings
<1> QED BY <1>3, <1>4, <1>7, <1>8, <1>9

LEMMA UptoStarts ==
    ASSUME NEW labels, Short(labels), NEW i \in 0 .. Len(labels)
    PROVE  At(ToName(labels), 0, Upto(labels, i))
<1> DEFINE n == Len(labels)
           S == {k \in Nat : k <= n => At(ToName(labels), 0, Upto(labels, n - k))}
<1>1. n \in Nat
  BY DEF Short
<1> HIDE DEF n
<1>2. 0 \in S
  <2>1. PICK u \in Strings : u = ToName(labels)
    BY ToNameTyped
  <2>2. At(u, 0, u)
    BY DEF At, Strings
  <2>3. n - 0 = n
    BY <1>1
  <2> QED BY <2>1, <2>2, <2>3, UptoEnds DEF n
<1>3. ASSUME NEW k \in Nat, k \in S PROVE k + 1 \in S
  <2> SUFFICES ASSUME k + 1 <= n PROVE At(ToName(labels), 0, Upto(labels, n - (k + 1)))
    OBVIOUS
  <2>1. PICK j : j = n - (k + 1)
    OBVIOUS
  <2>2. j \in 0 .. n - 1 /\ j + 1 = n - k /\ j \in 0 .. n /\ j + 1 \in 0 .. n /\ j + 1 \in 1 .. n
    BY <1>1, <2>1
  <2>3. At(ToName(labels), 0, Upto(labels, j + 1))
    BY <1>3, <2>2, <1>1
  <2>4. PICK u, c : u = Upto(labels, j) /\ c = Counted(labels[j + 1])
    OBVIOUS
  <2>5. labels[j + 1] \in Strings /\ Len(labels[j + 1]) < 64
    BY <2>2 DEF Short, n
  <2>6. u \in Strings /\ c \in Strings
    BY <2>2, <2>4, <2>5, UptoTyped, CountedIs DEF n
  <2>7. Upto(labels, j + 1) = u \o c
    BY <2>2, <2>4, UptoNext DEF n
  <2>8. u \o c \in Strings /\ At(u \o c, 0, u)
    <3>1. u \o c \in Strings
      BY <2>6 DEF Strings
    <3> QED BY <2>6, <3>1, AtBoth
  <2>9. At(ToName(labels), 0, u)
    BY <2>3, <2>6, <2>7, <2>8, ToNameTyped, AtWithin
  <2> QED BY <2>1, <2>4, <2>9
<1> HIDE DEF S
<1>4. Nat \subseteq S
  BY <1>2, <1>3, NumbersFrom
<1>5. n - i \in S /\ n - i <= n /\ n - (n - i) = i
  BY <1>1, <1>4 DEF n
<1> QED BY <1>5 DEF S

(* Where a label of a name stands.                                           *)
LEMMA UptoLabel ==
    ASSUME NEW labels, Short(labels), NEW i \in 0 .. Len(labels) - 1
    PROVE  At(ToName(labels), Len(Upto(labels, i)), Counted(labels[i + 1]))
<1>1. labels \in Seq(Strings) /\ Len(labels) \in Nat
  BY DEF Short
<1>2. i + 1 \in 1 .. Len(labels) /\ i + 1 \in 0 .. Len(labels) /\ i \in 0 .. Len(labels)
  BY <1>1
<1>3. PICK u, c : u = Upto(labels, i) /\ c = Counted(labels[i + 1])
  OBVIOUS
<1>4. labels[i + 1] \in Strings /\ Len(labels[i + 1]) < 64
  BY <1>1, <1>2 DEF Short
<1>5. u \in Strings /\ c \in Strings
  BY <1>2, <1>3, <1>4, UptoTyped, CountedIs
<1>6. Upto(labels, i + 1) = u \o c
  BY <1>3, UptoNext
<1>7. At(u \o c, Len(u), c)
  BY <1>5, AtBoth
<1>8. u \o c \in Strings /\ Len(u) \in Nat
  BY <1>5 DEF Strings
<1>9. At(ToName(labels), 0, u \o c)
  BY <1>2, <1>6, UptoStarts
<1>10. At(ToName(labels), Len(u), c)
  BY <1>5, <1>7, <1>8, <1>9, ToNameTyped, AtWithin
<1> QED BY <1>3, <1>10

-----------------------------------------------------------------------------
(* What parseLabels() finds at an offset.                                    *)

Found(b, tail) == [size : Nat \ {0}, labels : Seq({Label(b, at) : at \in 0 .. tail})]
End == [size |-> 1, labels |-> <<>>]

(* The equation of Labels, of a function f.                                  *)
Finds(f, b, tail, at) ==
    IF at >= tail THEN End
    ELSE IF Octet(b, at) = 0 THEN End
    ELSE IF IsPointer(Octet(b, at))
    THEN IF Target(b, at) >= tail THEN Nothing
         ELSE IF f[Target(b, at)].size = 0 THEN Nothing
              ELSE [size |-> 2, labels |-> f[Target(b, at)].labels]
    ELSE IF at + Octet(b, at) > tail THEN Nothing
    ELSE IF f[at + Octet(b, at) + 1].size = 0 THEN Nothing
         ELSE [size |-> Octet(b, at) + 1 + f[at + Octet(b, at) + 1].size,
               labels |-> <<Label(b, at)>> \o f[at + Octet(b, at) + 1].labels]
AllFound(f, b, tail) == [at \in 0 .. tail + 1 |-> Finds(f, b, tail, at)]

LEMMA OctetIs ==
    ASSUME NEW b \in Strings, NEW at \in Nat
    PROVE  Octet(b, at) \in Nat /\ Target(b, at) \in Nat
<1>1. \A i \in Nat : Octet(b, i) \in Nat
  <2>1. ASSUME NEW i \in Nat, i < Len(b) PROVE b[i + 1] \in Nat
    <3>1. b \in Seq(Byte) /\ Len(b) \in Nat
      BY DEF Strings
    <3>2. b[i + 1] \in Byte
      BY <2>1, <3>1
    <3> QED BY <3>2 DEF Byte
  <2> QED BY <2>1 DEF Octet
<1>2. PICK h \in Nat, l \in Nat : h = Octet(b, at) /\ l = Octet(b, at + 1)
  BY <1>1
<1>3. (256 * h + l) % 16384 \in Nat
  OBVIOUS
<1> QED BY <1>1, <1>2, <1>3 DEF Target, U16

LEMMA LabelsExist ==
    ASSUME NEW b \in Strings, NEW tail \in Nat
    PROVE  \E f : f = AllFound(f, b, tail) /\ f \in [0 .. tail + 1 -> Found(b, tail) \cup {Nothing}]
<1> DEFINE D == 0 .. tail + 1
           V == Found(b, tail)
           o(at) == Octet(b, at)
           K == {at \in D : at >= tail \/ o(at) = 0}
           Points == {at \in D : at < tail /\ o(at) # 0 /\ IsPointer(o(at)) /\ Target(b, at) < tail}
           Goes == {at \in D : at < tail /\ o(at) # 0 /\ ~IsPointer(o(at)) /\ at + o(at) <= tail}
           J == Points \cup Goes
           next == [j \in J |-> IF j \in Points THEN Target(b, j) ELSE j + o(j) + 1]
           Linked(j, v) == IF j \in Points THEN [size |-> 2, labels |-> v.labels]
                           ELSE [size |-> o(j) + 1 + v.size, labels |-> <<Label(b, j)>> \o v.labels]
           t == [j \in J |-> [v \in V |-> Linked(j, v)]]
           c == [k \in K |-> End]
<1>1. \A at \in D : at \in Nat /\ o(at) \in Nat /\ Target(b, at) \in Nat
  BY OctetIs
<1>2. Nothing \notin V
  <2>1. ASSUME Nothing \in V PROVE FALSE
    <3>1. Nothing.size \in Nat \ {0}
      BY <2>1 DEF Found
    <3> QED BY <3>1 DEF Nothing
  <2> QED BY <2>1
<1>3. End \in V
  BY DEF End, Found
<1>4. c \in [K -> V] /\ \A k \in K : c[k] = End
  BY <1>3
<1>5. next \in [J -> D]
  <2>1. ASSUME NEW j \in J PROVE (IF j \in Points THEN Target(b, j) ELSE j + o(j) + 1) \in D
    <3> HIDE DEF o
    <3>1. CASE j \in Points
      <4>1. Target(b, j) \in Nat /\ Target(b, j) < tail
        BY <1>1, <3>1
      <4> QED BY <3>1, <4>1
    <3>2. CASE j \notin Points
      <4>1. j \in Nat /\ o(j) \in Nat /\ j + o(j) <= tail
        BY <1>1, <3>2
      <4> QED BY <3>2, <4>1
    <3> QED BY <3>1, <3>2
  <2> HIDE DEF D, J, Points
  <2> QED BY <2>1
<1>6. \A j \in J, v \in V : Linked(j, v) \in V
  <2> SUFFICES ASSUME NEW j \in J, NEW v \in V PROVE Linked(j, v) \in V
    OBVIOUS
  <2> DEFINE L == {Label(b, at) : at \in 0 .. tail}
  <2>1. v.size \in Nat \ {0} /\ v.labels \in Seq(L)
    BY DEF Found
  <2>2. j \in 0 .. tail
    OBVIOUS
  <2>3. Label(b, j) \in L
    BY <2>2
  <2>4. o(j) \in Nat
    BY <1>1
  <2> HIDE DEF L, o
  <2>5. <<Label(b, j)>> \in Seq(L)
    BY <2>3
  <2>6. <<Label(b, j)>> \o v.labels \in Seq(L)
    BY <2>1, <2>5
  <2>7. o(j) + 1 + v.size \in Nat \ {0}
    BY <2>1, <2>4
  <2>8. [size |-> 2, labels |-> v.labels] \in V
    BY <2>1 DEF Found, L
  <2>9. [size |-> o(j) + 1 + v.size, labels |-> <<Label(b, j)>> \o v.labels] \in V
    BY <2>6, <2>7, Zenon DEF Found, L
  <2> HIDE DEF V, Points
  <2> QED BY <2>8, <2>9
<1> HIDE DEF V
<1>7. t \in [J -> [V -> V]] /\ \A j \in J, v \in V : t[j][v] = Linked(j, v)
  <2> HIDE DEF J, Linked
  <2> QED BY <1>6
<1>8. K \cap J = {} /\ K \in SUBSET D /\ J \in SUBSET D
  <2>1. K \cap J = {}
    <3> HIDE DEF o
    <3> QED BY <1>1
  <2> QED BY <2>1
<1>9. \A j \in J : next[j] = IF j \in Points THEN Target(b, j) ELSE j + o(j) + 1
  OBVIOUS
<1> HIDE DEF D, K, J, next, t, c
<1>14. PICK f : Links(f, D, V, Nothing, K, c, J, next, t)
  BY <1>2, <1>4, <1>5, <1>7, <1>8, LinksExist
<1>10. /\ f \in [D -> V \cup {Nothing}]
       /\ \A k \in K : f[k] = c[k]
       /\ \A j \in J : f[j] = IF f[next[j]] \in V THEN t[j][f[next[j]]] ELSE Nothing
       /\ \A d \in D \ (K \cup J) : f[d] = Nothing
  BY <1>14, Zenon DEF Links
<1>11. \A d \in D : IF f[d] \in V THEN f[d].size # 0 ELSE f[d] = Nothing /\ f[d].size = 0
  <2>1. \A v \in V : v.size # 0
    BY DEF V, Found
  <2>2. Nothing.size = 0
    BY DEF Nothing
  <2> QED BY <1>10, <2>1, <2>2, Zenon
<1>12. ASSUME NEW at \in D PROVE f[at] = Finds(f, b, tail, at)
  <2>1. CASE at \in K
    <3>1. f[at] = End
      BY <1>4, <1>10, <2>1
    <3> QED BY <2>1, <3>1 DEF K, Finds
  <2>2. CASE at \in Points
    <3>1. next[at] = Target(b, at) /\ at \in J /\ next[at] \in D
      BY <1>5, <1>9, <2>2 DEF J
    <3>2. f[at] = IF f[next[at]] \in V THEN [size |-> 2, labels |-> f[next[at]].labels] ELSE Nothing
      BY <1>7, <1>10, <2>2, <3>1
    <3>3. f[at] = IF f[Target(b, at)].size = 0 THEN Nothing
                  ELSE [size |-> 2, labels |-> f[Target(b, at)].labels]
      BY <1>11, <3>1, <3>2
    <3>4. ~ (at >= tail) /\ Octet(b, at) # 0 /\ IsPointer(Octet(b, at)) /\ ~ (Target(b, at) >= tail)
      BY <1>1, <2>2
    <3> QED BY <3>3, <3>4 DEF Finds
  <2>3. CASE at \in Goes /\ at \notin Points
    <3>1. next[at] = at + Octet(b, at) + 1 /\ at \in J /\ next[at] \in D
      BY <1>5, <1>9, <2>3 DEF J
    <3>2. f[at] = IF f[next[at]] \in V
                  THEN [size |-> Octet(b, at) + 1 + f[next[at]].size,
                        labels |-> <<Label(b, at)>> \o f[next[at]].labels]
                  ELSE Nothing
      BY <1>7, <1>10, <2>3, <3>1
    <3>3. f[at] = IF f[at + Octet(b, at) + 1].size = 0 THEN Nothing
                  ELSE [size |-> Octet(b, at) + 1 + f[at + Octet(b, at) + 1].size,
                        labels |-> <<Label(b, at)>> \o f[at + Octet(b, at) + 1].labels]
      BY <1>11, <3>1, <3>2
    <3>4. /\ ~ (at >= tail) /\ Octet(b, at) # 0 /\ ~IsPointer(Octet(b, at))
          /\ ~ (at + Octet(b, at) > tail)
      BY <1>1, <2>3
    <3> QED BY <3>3, <3>4 DEF Finds
  <2>4. CASE at \notin K /\ at \notin J
    <3>1. f[at] = Nothing
      BY <1>10, <2>4
    <3>2. ~ (at >= tail) /\ Octet(b, at) # 0
      BY <2>4 DEF K
    <3>3. IF IsPointer(Octet(b, at)) THEN Target(b, at) >= tail ELSE at + Octet(b, at) > tail
      BY <1>1, <2>4, <3>2 DEF J
    <3> QED BY <3>1, <3>2, <3>3 DEF Finds
  <2> QED BY <2>1, <2>2, <2>3, <2>4 DEF J
<1>13. f = AllFound(f, b, tail)
  <2>1. f = [at \in D |-> f[at]]
    BY <1>10
  <2> QED BY <1>12, <2>1, Zenon DEF AllFound, D
<1> QED BY <1>10, <1>13 DEF D, V

LEMMA LabelsAre ==
    ASSUME NEW b \in Strings, NEW tail \in Nat, NEW at \in 0 .. tail + 1
    PROVE  Labels(b, tail)[at] = Finds(Labels(b, tail), b, tail, at)
<1> DEFINE f == Labels(b, tail)
<1>1. f = CHOOSE g : g = AllFound(g, b, tail)
  BY DEF Labels, AllFound, Finds, End
<1>2. f = AllFound(f, b, tail)
  BY <1>1, LabelsExist
<1> HIDE DEF f
<1>3. f[at] = Finds(f, b, tail, at)
  BY <1>2, Zenon DEF AllFound
<1> QED BY <1>3 DEF f

LEMMA LabelsEnd ==
    ASSUME NEW b \in Strings, NEW tail \in Nat, NEW at \in Nat, at < tail, Octet(b, at) = 0
    PROVE  Labels(b, tail)[at] = End
<1>1. at \in 0 .. tail + 1 /\ ~ (at >= tail)
  OBVIOUS
<1> QED BY <1>1, LabelsAre DEF Finds

LEMMA LabelsPointer ==
    ASSUME NEW b \in Strings, NEW tail \in Nat, NEW at \in Nat, at < tail,
           Octet(b, at) >= 64, Target(b, at) < tail, Labels(b, tail)[Target(b, at)].size # 0
    PROVE  Labels(b, tail)[at] = [size |-> 2, labels |-> Labels(b, tail)[Target(b, at)].labels]
<1>1. at \in 0 .. tail + 1 /\ ~ (at >= tail)
  OBVIOUS
<1>2. PICK o \in Nat, t \in Nat : o = Octet(b, at) /\ t = Target(b, at)
  BY OctetIs
<1>3. o # 0 /\ IsPointer(o) /\ ~ (t >= tail)
  BY <1>2 DEF IsPointer
<1> QED BY <1>1, <1>2, <1>3, LabelsAre DEF Finds

-----------------------------------------------------------------------------
(* A name that is written is read.                                           *)

LEMMA AtInside ==
    ASSUME NEW b \in Strings, NEW c \in Strings, NEW s \in Strings, NEW from \in Nat, NEW at \in Nat,
           At(b, from, c), At(c, at, s)
    PROVE  At(b, from + at, s)
<1>1. Len(b) \in Nat /\ Len(c) \in Nat /\ Len(s) \in Nat
  BY DEF Strings
<1>2. from + Len(c) <= Len(b) /\ at + Len(s) <= Len(c)
  BY DEF At
<1>3. ASSUME NEW i \in 1 .. Len(s) PROVE b[from + at + i] = s[i]
  <2>1. at + i \in 1 .. Len(c) /\ from + (at + i) = from + at + i
    BY <1>1, <1>2
  <2>2. b[from + (at + i)] = c[at + i] /\ c[at + i] = s[i]
    BY <2>1 DEF At
  <2> QED BY <2>1, <2>2
<1>4. from + at + Len(s) <= Len(b)
  BY <1>1, <1>2
<1> QED BY <1>3, <1>4 DEF At

LEMMA AtFirst ==
    ASSUME NEW b \in Strings, NEW s \in Strings, NEW at \in Nat, At(b, at, s), s # <<>>
    PROVE  Octet(b, at) = s[1]
<1>1. 1 \in 1 .. Len(s) /\ Len(s) \in Nat /\ Len(b) \in Nat
  BY DEF Strings
<1>2. at + Len(s) <= Len(b) /\ b[at + 1] = s[1]
  BY <1>1 DEF At
<1> QED BY <1>1, <1>2 DEF Octet

(* A name that is read at an offset.                                         *)
Reads(b, tail, at, size, labels) == Labels(b, tail)[at] = [size |-> size, labels |-> labels]

(* The labels of a name, without the empty one at its end.                   *)
Plain(labels) == Short(labels) /\ \A i \in 1 .. Len(labels) : Len(labels[i]) # 0

LEMMA LabelReads ==
    ASSUME NEW b \in Strings, NEW tail \in Nat, NEW at \in Nat, NEW label \in Strings,
           Len(label) < 64, Len(label) # 0, At(b, at, Counted(label)),
           NEW size \in Nat \ {0}, NEW rest,
           at + Len(label) + 1 < tail, Reads(b, tail, at + Len(label) + 1, size, rest)
    PROVE  Reads(b, tail, at, Len(label) + 1 + size, <<label>> \o rest)
<1>1. PICK m \in Nat : m = Len(label)
  BY DEF Strings
<1>2. m \in 1 .. 63
  <2>1. m < 64 /\ m # 0
    BY <1>1
  <2>2. \A i \in Nat : i < 64 /\ i # 0 => i \in 1 .. 63
    OBVIOUS
  <2> QED BY <2>1, <2>2, Zenon
<1>3. PICK c, l : c \in Strings /\ c = Counted(label) /\ l = <<m>>
  BY CountedIs
<1>4. l \in Strings /\ l[1] = m
  <2>1. m \in Byte
    BY <1>2 DEF Byte
  <2> QED BY <1>3, <2>1 DEF Strings
<1>5. At(c, 0, l) /\ At(c, 1, label) /\ At(b, at, c)
  BY <1>1, <1>3, CountedIs
<1>6. At(b, at + 0, l) /\ At(b, at + 1, label)
  BY <1>3, <1>4, <1>5, AtInside
<1>7. at + 0 = at /\ at + 1 \in Nat /\ 0 + 1 = 1
  OBVIOUS
<1>8. At(b, at, l) /\ l # <<>>
  BY <1>3, <1>6, <1>7
<1>9. Octet(b, at) = m
  BY <1>4, <1>8, AtFirst
<1>10. Octets(b, at + 1, m) = label
  BY <1>1, <1>6, <1>7, AtOctets
<1>11. at + m + 1 < tail
  BY <1>1
<1>12. at \in 0 .. tail + 1 /\ ~ (at >= tail) /\ m # 0 /\ ~IsPointer(m) /\ ~ (at + m > tail)
  BY <1>2, <1>11 DEF IsPointer
<1>13. Labels(b, tail)[at] = Finds(Labels(b, tail), b, tail, at)
  BY <1>12, LabelsAre
<1>14. Label(b, at) = label
  BY <1>9, <1>10 DEF Label
<1>15. Labels(b, tail)[at + m + 1] = [size |-> size, labels |-> rest]
  BY <1>1 DEF Reads
<1> QED BY <1>1, <1>9, <1>12, <1>13, <1>14, <1>15 DEF Finds, Reads

LEMMA ListsJoined == \A r, s, t \in Seq(Strings) : (r \o s) \o t = r \o (s \o t)
BY ConcatAssociative

LEMMA RestReads ==
    ASSUME NEW b \in Strings, NEW tail \in Nat, NEW at \in Nat, NEW labels, Plain(labels),
           At(b, at, ToName(labels)), NEW z \in Nat \ {0}, NEW rest \in Seq(Strings),
           at + Len(ToName(labels)) < tail,
           Reads(b, tail, at + Len(ToName(labels)), z, rest), NEW i \in 0 .. Len(labels)
    PROVE  Reads(b, tail, at + Len(Upto(labels, i)), Len(ToName(labels)) - Len(Upto(labels, i)) + z,
                 SubSeq(labels, i + 1, Len(labels)) \o rest)
<1> DEFINE n == Len(labels)
           o(j) == Len(Upto(labels, j))
           Rest(j) == SubSeq(labels, j + 1, n) \o rest
           P(j) == Reads(b, tail, at + o(j), Len(ToName(labels)) - o(j) + z, Rest(j))
           S == {k \in Nat : k <= n => P(n - k)}
<1>1. labels \in Seq(Strings) /\ n \in Nat /\ Short(labels)
  BY DEF Plain, Short
<1>2. PICK total \in Nat : total = Len(ToName(labels))
  BY <1>1, ToNameTyped DEF Strings
<1>0. at + total < tail
  BY <1>2
<1>3. o(n) = total
  BY <1>1, <1>2, UptoEnds
<1>4. \A j \in 0 .. n : o(j) \in Nat
  BY <1>1, UptoTyped DEF Strings
<1>5. 0 \in S
  <2>1. n - 0 = n
    BY <1>1
  <2>2. Rest(n) = rest
    BY <1>1
  <2>3. total - total + z = z
    OBVIOUS
  <2>4. Reads(b, tail, at + total, z, rest)
    BY <1>2
  <2> HIDE DEF o, Rest
  <2>5. P(n)
    BY <1>2, <1>3, <2>2, <2>3, <2>4
  <2> HIDE DEF P
  <2> QED BY <2>1, <2>5
<1>6. ASSUME NEW k \in Nat, k \in S PROVE k + 1 \in S
  <2> SUFFICES ASSUME k + 1 <= n PROVE P(n - (k + 1))
    OBVIOUS
  <2>1. PICK j : j = n - (k + 1)
    OBVIOUS
  <2> HIDE DEF n, P
  <2>2. j \in 0 .. n - 1 /\ j + 1 = n - k /\ j \in 0 .. n /\ j + 1 \in 0 .. n /\ j + 1 \in 1 .. n
    BY <1>1, <2>1
  <2>3. P(j + 1)
    BY <1>1, <1>6, <2>2
  <2>4. PICK label : label = labels[j + 1]
    OBVIOUS
  <2>5. label \in Strings /\ Len(label) < 64 /\ Len(label) # 0
    BY <1>1, <2>2, <2>4 DEF Plain, Short, n
  <2>6. PICK m \in Nat : m = Len(label)
    BY <2>5 DEF Strings
  <2>7. o(j + 1) = o(j) + m + 1
    BY <1>1, <2>2, <2>4, <2>6, UptoNext DEF n
  <2>8. At(ToName(labels), o(j), Counted(label))
    BY <1>1, <2>2, <2>4, UptoLabel DEF n
  <2>9. o(j) \in Nat /\ o(j + 1) \in Nat /\ o(j + 1) <= total
    <3>1. At(ToName(labels), 0, Upto(labels, j + 1))
      BY <1>1, <2>2, UptoStarts DEF n
    <3>2. 0 + o(j + 1) <= total
      BY <1>2, <3>1 DEF At
    <3> QED BY <1>4, <2>2, <3>2
  <2>10. At(b, at + o(j), Counted(label))
    BY <1>1, <2>5, <2>8, <2>9, ToNameTyped, CountedIs, AtInside
  <2> HIDE DEF o
  <2>11. PICK x \in Nat, y \in Nat : x = o(j) /\ y = o(j + 1)
    BY <2>9
  <2>12. y = x + m + 1 /\ y <= total
    BY <2>7, <2>9, <2>11
  <2>13. PICK q \in Nat, next \in Nat, size \in Nat \ {0} :
            q = at + x /\ next = at + y /\ size = total - y + z
    BY <2>12
  <2>14. Reads(b, tail, next, size, Rest(j + 1))
    BY <1>2, <2>3, <2>11, <2>13 DEF P
  <2> HIDE DEF Rest
  <2>18. next = q + m + 1 /\ next < tail /\ m + 1 + size = total - x + z
    BY <1>0, <2>12, <2>13
  <2>15. Reads(b, tail, q, m + 1 + size, <<label>> \o Rest(j + 1))
    <3>1. Reads(b, tail, q + Len(label) + 1, size, Rest(j + 1)) /\ q + Len(label) + 1 < tail
      BY <2>6, <2>18, <2>14
    <3>2. At(b, q, Counted(label))
      BY <2>10, <2>11, <2>13
    <3> QED BY <2>5, <2>6, <3>1, <3>2, LabelReads
  <2>16. <<label>> \o Rest(j + 1) = Rest(j)
    <3>1. <<label>> \o SubSeq(labels, j + 1 + 1, n) = SubSeq(labels, j + 1, n)
      BY <1>1, <2>2, <2>4 DEF n
    <3>2. label \in Strings /\ SubSeq(labels, j + 1 + 1, n) \in Seq(Strings)
      BY <1>1, <2>2, <2>5 DEF n
    <3>3. PICK s \in Seq(Strings) : s = SubSeq(labels, j + 1 + 1, n)
      BY <3>2
    <3>4. PICK l : l = <<label>>
      OBVIOUS
    <3>5. l \in Seq(Strings)
      BY <3>2, <3>4
    <3>6. (l \o s) \o rest = l \o (s \o rest)
      BY <3>5, ListsJoined, Zenon
    <3> QED BY <3>1, <3>3, <3>4, <3>6 DEF Rest
  <2>17. Reads(b, tail, at + o(j), total - o(j) + z, Rest(j))
    BY <2>11, <2>13, <2>15, <2>16, <2>18
  <2> QED BY <1>2, <2>1, <2>17 DEF P
<1> HIDE DEF S
<1>7. Nat \subseteq S
  BY <1>5, <1>6, NumbersFrom
<1>8. n - i \in S /\ n - i <= n /\ n - (n - i) = i
  BY <1>1, <1>7
<1> HIDE DEF P
<1>9. P(i)
  BY <1>8 DEF S
<1> QED BY <1>9 DEF P

-----------------------------------------------------------------------------
(* Writers: the places they know lie in what they have written.              *)

Writers ==
    {w \in [octets : Strings, places : UNION {[S -> Nat] : S \in SUBSET Seq(Strings)}] :
        \A rest \in DOMAIN w.places : w.places[rest] < Len(w.octets)}

(* What a writer has placed is read from b, up to any end behind it.         *)
PlacesRead(b, w) ==
    \A tail \in Nat, rest \in DOMAIN w.places :
        Len(w.octets) <= tail /\ tail <= Len(b) =>
            \E size \in Nat \ {0} : Reads(b, tail, w.places[rest], size, rest)

LEMMA WriterIs ==
    ASSUME NEW w \in Writers
    PROVE  /\ w = [octets |-> w.octets, places |-> w.places]
           /\ w.octets \in Strings /\ Len(w.octets) \in Nat
           /\ DOMAIN w.places \subseteq Seq(Strings)
           /\ \A rest \in DOMAIN w.places :
                 w.places[rest] \in Nat /\ w.places[rest] < Len(w.octets)
<1>1. /\ w \in [octets : Strings, places : UNION {[S -> Nat] : S \in SUBSET Seq(Strings)}]
      /\ \A rest \in DOMAIN w.places : w.places[rest] < Len(w.octets)
  BY DEF Writers
<1>2. PICK S \in SUBSET Seq(Strings) : w.places \in [S -> Nat]
  BY <1>1
<1>3. w = [octets |-> w.octets, places |-> w.places] /\ w.octets \in Strings
  BY <1>1
<1>4. Len(w.octets) \in Nat
  BY <1>3 DEF Strings
<1> QED BY <1>1, <1>2, <1>3, <1>4

LEMMA IsWriter ==
    ASSUME NEW o \in Strings, NEW S \in SUBSET Seq(Strings), NEW p \in [S -> Nat],
           \A rest \in S : p[rest] < Len(o)
    PROVE  [octets |-> o, places |-> p] \in Writers
<1>1. p \in UNION {[X -> Nat] : X \in SUBSET Seq(Strings)} /\ DOMAIN p = S
  OBVIOUS
<1> QED BY <1>1 DEF Writers

LEMMA MinIs ==
    ASSUME NEW S, S \subseteq Nat, S # {}
    PROVE  Min(S) \in S /\ \A x \in S : Min(S) <= x
BY LeastNumber DEF Min

(* How a name ends: with an octet 0, or at a place of the rest of it.        *)
Ends(w, end, rest) ==
    \/ rest = <<>> /\ end = <<0>>
    \/ /\ rest \in DOMAIN w.places /\ w.places[rest] < 16384
       /\ end = ToU16(49152 + w.places[rest])
Placed(w, labels, full) ==
    [rest \in DOMAIN w.places \cup {SubSeq(labels, i, Len(labels)) : i \in 1 .. full} |->
        IF rest \in DOMAIN w.places THEN w.places[rest]
        ELSE Len(w.octets) + Len(ToName(SubSeq(labels, 1, (Len(labels) - Len(rest) + 1) - 1)))]

(* The labels whose rest a pointer can stand for, the labels written in full, *)
(* and the end of a name.                                                    *)
Known(w, labels) ==
    {i \in DOMAIN labels : /\ SubSeq(labels, i, Len(labels)) \in DOMAIN w.places
                           /\ w.places[SubSeq(labels, i, Len(labels))] < 16384}
Full(w, labels) == IF Known(w, labels) = {} THEN Len(labels) ELSE Min(Known(w, labels)) - 1
EndOf(w, labels) ==
    IF Known(w, labels) = {} THEN <<0>>
    ELSE ToU16(49152 + w.places[SubSeq(labels, Full(w, labels) + 1, Len(labels))])

LEMMA WriteNameIs ==
    ASSUME NEW w, NEW dotted, NEW compress
    PROVE  WriteName(w, dotted, compress)
              = [octets |-> w.octets \o ToName(SubSeq(Front(dotted), 1, Full(w, Front(dotted))))
                               \o EndOf(w, Front(dotted)),
                 places |-> IF compress THEN Placed(w, Front(dotted), Full(w, Front(dotted)))
                            ELSE <<>>]
BY DEF WriteName, Known, Full, EndOf, Placed

LEMMA NameParts ==
    ASSUME NEW w \in Writers, NEW labels \in Seq(Strings)
    PROVE  /\ Full(w, labels) \in 0 .. Len(labels)
           /\ Ends(w, EndOf(w, labels), SubSeq(labels, Full(w, labels) + 1, Len(labels)))
<1> DEFINE n == Len(labels)
           known == Known(w, labels)
           full == Full(w, labels)
<1>1. n \in Nat /\ DOMAIN labels = 1 .. n
  OBVIOUS
<1>2. known \subseteq 1 .. n /\ known \subseteq Nat
  BY <1>1 DEF Known
<1> HIDE DEF n, known, full
<1>3. CASE known = {}
  <2>1. full = n
    BY <1>3 DEF Full, full, known, n
  <2>2. SubSeq(labels, n + 1, n) = <<>>
    BY <1>1 DEF n
  <2>3. EndOf(w, labels) = <<0>>
    BY <1>3 DEF EndOf, known
  <2>4. full \in 0 .. n
    BY <1>1, <2>1
  <2> QED BY <2>1, <2>2, <2>3, <2>4 DEF Ends, full, n
<1>4. CASE known # {}
  <2>1. PICK k : k = Min(known)
    OBVIOUS
  <2>2. k \in known /\ k \in 1 .. n
    BY <1>2, <1>4, <2>1, MinIs
  <2>3. full = k - 1
    BY <1>4, <2>1 DEF Full, full, known
  <2>4. full \in 0 .. n /\ full + 1 = k
    BY <1>1, <2>2, <2>3
  <2>5. SubSeq(labels, k, n) \in DOMAIN w.places /\ w.places[SubSeq(labels, k, n)] < 16384
    BY <2>2 DEF known, Known, n
  <2>6. EndOf(w, labels) = ToU16(49152 + w.places[SubSeq(labels, full + 1, n)])
    BY <1>4 DEF EndOf, known, full, n
  <2> QED BY <2>4, <2>5, <2>6 DEF Ends, full, n
<1> QED BY <1>3, <1>4

LEMMA EndIs ==
    ASSUME NEW w \in Writers, NEW end, NEW rest, Ends(w, end, rest)
    PROVE  /\ end \in Strings /\ end # <<>> /\ Len(end) <= 2
           /\ rest # <<>> => Len(end) = 2
<1>1. CASE rest = <<>> /\ end = <<0>>
  <2>1. <<0>> \in Strings
    <3>1. 0 \in Byte
      BY DEF Byte
    <3> QED BY <3>1 DEF Strings
  <2> QED BY <1>1, <2>1
<1>2. CASE rest \in DOMAIN w.places /\ w.places[rest] < 16384 /\ end = ToU16(49152 + w.places[rest])
  <2>1. PICK v \in Nat : v = 49152 + w.places[rest]
    BY <1>2, WriterIs
  <2>2. v < NumberLimit
    BY <1>2, <2>1, WriterIs DEF NumberLimit
  <2>3. ToU16(v) \in Strings /\ Len(ToU16(v)) = 2
    BY <2>2, NumberOctets
  <2>4. end \in Strings /\ Len(end) = 2
    BY <1>2, <2>1, <2>3
  <2>5. end # <<>>
    BY <1>2 DEF ToU16
  <2> QED BY <2>4, <2>5
<1> QED BY <1>1, <1>2 DEF Ends

LEMMA EndReads ==
    ASSUME NEW w \in Writers, NEW b \in Strings, NEW tail \in Nat, NEW e \in Nat, NEW rest, NEW end,
           Ends(w, end, rest), At(b, e, end), e + Len(end) <= tail, tail <= Len(b),
           Len(w.octets) <= tail, PlacesRead(b, w)
    PROVE  Reads(b, tail, e, Len(end), rest)
<1>1. CASE rest = <<>> /\ end = <<0>>
  <2>1. end \in Strings /\ end # <<>> /\ end[1] = 0 /\ Len(end) = 1
    BY <1>1, EndIs
  <2>2. Octet(b, e) = 0
    BY <2>1, AtFirst
  <2>3. e < tail
    BY <2>1
  <2>4. Labels(b, tail)[e] = End
    BY <2>2, <2>3, LabelsEnd
  <2> QED BY <1>1, <2>1, <2>4 DEF Reads, End
<1>2. CASE rest \in DOMAIN w.places /\ w.places[rest] < 16384 /\ end = ToU16(49152 + w.places[rest])
  <2>1. PICK p \in Nat : p = w.places[rest]
    BY <1>2, WriterIs
  <2>2. p < 16384 /\ p < Len(w.octets) /\ Len(w.octets) \in Nat
    BY <1>2, <2>1, WriterIs
  <2>3. PICK v \in Nat : v = 49152 + p
    OBVIOUS
  <2>4. v < NumberLimit
    BY <2>2, <2>3 DEF NumberLimit
  <2>5. At(b, e, ToU16(v))
    BY <1>2, <2>1, <2>3
  <2>6. U16(b, e) = v /\ Octet(b, e) = v \div 256
    BY <2>4, <2>5, AtNumber
  <2>7. v \div 256 >= 64 /\ v % 16384 = p
    BY <2>2, <2>3
  <2>8. Target(b, e) = p /\ Octet(b, e) >= 64
    BY <2>6, <2>7 DEF Target
  <2>9. Len(end) = 2
    BY <1>2, <2>1, <2>3, <2>4, NumberOctets
  <2>10. e < tail /\ p < tail
    BY <2>2, <2>9
  <2>11. PICK size \in Nat \ {0} : Reads(b, tail, p, size, rest)
    BY <1>2, <2>1 DEF PlacesRead
  <2>12. Labels(b, tail)[p].size # 0 /\ Labels(b, tail)[p].labels = rest
    BY <2>11 DEF Reads
  <2>13. Labels(b, tail)[e] = [size |-> 2, labels |-> Labels(b, tail)[Target(b, e)].labels]
    BY <2>8, <2>10, <2>12, LabelsPointer
  <2> QED BY <2>8, <2>9, <2>12, <2>13 DEF Reads
<1> QED BY <1>1, <1>2 DEF Ends

LEMMA PartsRead ==
    ASSUME NEW w \in Writers, NEW b \in Strings, NEW tail \in Nat, NEW labels, Plain(labels),
           NEW full \in 0 .. Len(labels), NEW end, Ends(w, end, SubSeq(labels, full + 1, Len(labels))),
           At(b, Len(w.octets), Upto(labels, full) \o end),
           Len(w.octets) + Len(Upto(labels, full)) + Len(end) <= tail, tail <= Len(b),
           PlacesRead(b, w), NEW i \in 0 .. full
    PROVE  Reads(b, tail, Len(w.octets) + Len(Upto(labels, i)),
                 Len(Upto(labels, full)) - Len(Upto(labels, i)) + Len(end),
                 SubSeq(labels, i + 1, Len(labels)))
<1> DEFINE n == Len(labels)
           first == SubSeq(labels, 1, full)
           rest == SubSeq(labels, full + 1, n)
<1>1. labels \in Seq(Strings) /\ n \in Nat /\ Short(labels)
  BY DEF Plain, Short
<1>2. PICK u \in Strings : u = Upto(labels, full)
  BY <1>1, UptoTyped
<1>3. PICK o \in Nat, x \in Nat, z \in Nat \ {0} : o = Len(w.octets) /\ x = Len(u) /\ z = Len(end)
  <2>1. end \in Strings /\ end # <<>>
    BY EndIs
  <2>2. Len(end) \in Nat \ {0} /\ Len(u) \in Nat
    BY <2>1 DEF Strings
  <2> QED BY <2>2, WriterIs
<1>4. At(b, o, u) /\ At(b, o + x, end)
  <2>1. end \in Strings
    BY EndIs
  <2> QED BY <1>2, <1>3, <2>1, AtSplit
<1>5. o + x + z <= tail
  BY <1>2, <1>3
<1>6. o <= tail /\ o + x < tail
  BY <1>5
<1>7. Reads(b, tail, o + x, z, rest)
  <2>1. o + x + Len(end) <= tail /\ Len(w.octets) <= tail /\ o + x \in Nat
    BY <1>3, <1>5, <1>6
  <2>2. Reads(b, tail, o + x, Len(end), rest)
    BY <1>4, <2>1, EndReads
  <2> QED BY <1>3, <2>2
<1>8. first \in Seq(Strings) /\ Len(first) = full /\ \A j \in 1 .. full : first[j] = labels[j]
  BY <1>1
<1>9. Plain(first)
  <2>1. \A j \in 1 .. full : j \in 1 .. n
    BY <1>1
  <2> HIDE DEF first
  <2> QED BY <1>8, <2>1 DEF Plain, Short
<1>10. ToName(first) = u
  BY <1>2 DEF Upto
<1>11. SubSeq(first, 1, i) = SubSeq(labels, 1, i)
  BY <1>1
<1>12. Upto(first, i) = Upto(labels, i)
  BY <1>11 DEF Upto
<1>13. rest \in Seq(Strings)
  BY <1>1
<1>14. SubSeq(first, i + 1, full) \o rest = SubSeq(labels, i + 1, n)
  <2>1. SubSeq(first, i + 1, full) = SubSeq(labels, i + 1, full)
    BY <1>1
  <2>2. SubSeq(labels, i + 1, full) \o SubSeq(labels, full + 1, n) = SubSeq(labels, i + 1, n)
    <3>1. PICK m : m = i + 1
      OBVIOUS
    <3> HIDE DEF n
    <3>2. m \in 1 .. n + 1 /\ full \in m - 1 .. n /\ n \in full .. n
      BY <1>1, <3>1 DEF n
    <3>3. SubSeq(labels, m, full) \o SubSeq(labels, full + 1, n) = SubSeq(labels, m, n)
      BY <1>1, <3>2, ConcatAdjacentSubSeq DEF n
    <3> QED BY <3>1, <3>3
  <2> QED BY <2>1, <2>2
<1> HIDE DEF first, rest, n
<1>15. Reads(b, tail, o + Len(Upto(first, i)), Len(ToName(first)) - Len(Upto(first, i)) + z,
             SubSeq(first, i + 1, Len(first)) \o rest)
  <2>1. At(b, o, ToName(first)) /\ o + Len(ToName(first)) < tail
    BY <1>3, <1>4, <1>6, <1>10
  <2>2. Reads(b, tail, o + Len(ToName(first)), z, rest)
    BY <1>3, <1>7, <1>10
  <2>3. i \in 0 .. Len(first)
    BY <1>8
  <2> QED BY <1>9, <1>13, <2>1, <2>2, <2>3, RestReads
<1> QED BY <1>2, <1>3, <1>8, <1>10, <1>12, <1>14, <1>15 DEF n

LEMMA UptoGrows ==
    ASSUME NEW labels, Short(labels), NEW full \in 0 .. Len(labels), NEW i \in 0 .. full
    PROVE  Len(Upto(labels, i)) <= Len(Upto(labels, full))
<1>1. labels \in Seq(Strings) /\ Len(labels) \in Nat
  BY DEF Short
<1>2. PICK first : first = SubSeq(labels, 1, full)
  OBVIOUS
<1>3. Short(first)
  BY <1>2, UptoTyped
<1>4. Len(first) = full /\ SubSeq(first, 1, i) = SubSeq(labels, 1, i)
  BY <1>1, <1>2
<1>5. Upto(first, i) = Upto(labels, i) /\ ToName(first) = Upto(labels, full)
  BY <1>2, <1>4 DEF Upto
<1>6. At(ToName(first), 0, Upto(first, i))
  BY <1>3, <1>4, UptoStarts
<1>7. Upto(labels, i) \in Strings /\ Upto(labels, full) \in Strings
  BY <1>3, <1>4, <1>5, ToNameTyped, UptoTyped
<1>8. PICK u \in Strings, t \in Strings : u = Upto(labels, i) /\ t = Upto(labels, full)
  BY <1>7
<1>9. At(t, 0, u) /\ Len(u) \in Nat /\ Len(t) \in Nat
  BY <1>5, <1>6, <1>8 DEF Strings
<1>10. Len(u) <= Len(t)
  BY <1>9 DEF At
<1> QED BY <1>8, <1>10

LEMMA NameLabels ==
    ASSUME NEW dotted, IsName(dotted)
    PROVE  /\ Plain(Front(dotted)) /\ dotted = Append(Front(dotted), Empty)
           /\ Len(ToName(Front(dotted))) <= 254
           /\ ~IsRoot(dotted) => Front(dotted) # <<>>
<1>1. /\ dotted \in Seq(Strings) /\ dotted # <<>> /\ dotted[Len(dotted)] = Empty
      /\ \A i \in 1 .. Len(dotted) - 1 : Len(dotted[i]) \in 1 .. 63
      /\ Len(ToName(dotted)) <= 255
  BY Zenon DEF IsName, Last
<1>2. PICK labels : labels = Front(dotted)
  OBVIOUS
<1>3. PICK n \in Nat : Len(dotted) = n + 1 /\ Len(dotted) - 1 = n
  <2>1. Len(dotted) \in Nat /\ Len(dotted) # 0
    BY <1>1
  <2>2. Len(dotted) - 1 \in Nat /\ Len(dotted) = Len(dotted) - 1 + 1
    BY <2>1
  <2> QED BY <2>2
<1>4. labels = SubSeq(dotted, 1, n)
  BY <1>2, <1>3 DEF Front
<1>5. labels \in Seq(Strings) /\ Len(labels) = n /\ \A i \in 1 .. n : labels[i] = dotted[i]
  BY <1>1, <1>3, <1>4
<1>6. ASSUME NEW i \in 1 .. n PROVE Len(labels[i]) < 64 /\ Len(labels[i]) # 0
  <2>1. PICK m : m = Len(dotted[i])
    OBVIOUS
  <2>2. m \in 1 .. 63
    BY <1>1, <1>3, <2>1
  <2>3. m < 64 /\ m # 0
    BY <2>2
  <2> QED BY <1>5, <2>1, <2>3
<1>7. Plain(labels)
  BY <1>5, <1>6 DEF Plain, Short
<1>8. dotted = Append(labels, Empty)
  <2>1. dotted[n + 1] = Empty
    BY <1>1, <1>3
  <2> QED BY <1>1, <1>3, <1>4, <2>1
<1>9. Len(ToName(labels)) <= 254
  <2>1. PICK e : e = Empty
    OBVIOUS
  <2>2. e \in Strings /\ Len(e) = 0
    BY <2>1 DEF Empty, Strings
  <2>3. Len(e) < 64
    BY <2>2
  <2>4. ToName(dotted) = ToName(labels) \o Counted(e)
    BY <1>7, <1>8, <2>1, <2>2, <2>3, ToNameAppend DEF Plain
  <2>5. PICK u \in Strings, c \in Strings : u = ToName(labels) /\ c = Counted(e)
    BY <1>7, <2>2, <2>3, ToNameTyped, CountedIs DEF Plain
  <2>6. Len(c) = 1
    <3>1. Len(c) = Len(e) + 1
      BY <2>2, <2>3, <2>5, CountedIs
    <3>2. PICK k : k = Len(e)
      OBVIOUS
    <3>3. k = 0
      BY <2>2, <3>2
    <3> QED BY <3>1, <3>2, <3>3
  <2>7. Len(u \o c) = Len(u) + Len(c) /\ Len(u) \in Nat
    BY DEF Strings
  <2>8. Len(u \o c) <= 255
    BY <1>1, <2>4, <2>5
  <2>9. Len(u) <= 254
    BY <2>6, <2>7, <2>8
  <2> QED BY <2>5, <2>9
<1>10. ~IsRoot(dotted) => labels # <<>>
  BY <1>3, <1>5 DEF IsRoot
<1> QED BY <1>2, <1>7, <1>8, <1>9, <1>10

LEMMA PlacedIs ==
    ASSUME NEW w \in Writers, NEW labels, Short(labels), NEW full \in 0 .. Len(labels)
    PROVE  /\ DOMAIN Placed(w, labels, full) \subseteq Seq(Strings)
           /\ \A rest \in DOMAIN Placed(w, labels, full) :
                 \/ rest \in DOMAIN w.places /\ Placed(w, labels, full)[rest] = w.places[rest]
                 \/ \E i \in 0 .. full - 1 :
                       /\ rest = SubSeq(labels, i + 1, Len(labels))
                       /\ Placed(w, labels, full)[rest] = Len(w.octets) + Len(Upto(labels, i))
           /\ Placed(w, labels, full) =
                 [rest \in DOMAIN Placed(w, labels, full) |-> Placed(w, labels, full)[rest]]
<1> DEFINE n == Len(labels)
           new == {SubSeq(labels, i, n) : i \in 1 .. full}
           Value(rest) == IF rest \in DOMAIN w.places THEN w.places[rest]
                          ELSE Len(w.octets) + Len(ToName(SubSeq(labels, 1, (n - Len(rest) + 1) - 1)))
           p == Placed(w, labels, full)
<1>1. labels \in Seq(Strings) /\ n \in Nat
  BY DEF Short
<1>2. p = [rest \in DOMAIN w.places \cup new |-> Value(rest)]
  BY DEF Placed
<1>3. DOMAIN p = DOMAIN w.places \cup new /\ \A rest \in DOMAIN p : p[rest] = Value(rest)
  BY <1>2
<1>4. new \subseteq Seq(Strings)
  <2>1. \A i \in 1 .. full : SubSeq(labels, i, n) \in Seq(Strings)
    BY <1>1
  <2> HIDE DEF n
  <2> QED BY <2>1
<1>5. DOMAIN w.places \subseteq Seq(Strings)
  BY WriterIs
<1>6. ASSUME NEW rest \in DOMAIN p, rest \notin DOMAIN w.places
      PROVE  \E i \in 0 .. full - 1 : /\ rest = SubSeq(labels, i + 1, n)
                                      /\ p[rest] = Len(w.octets) + Len(Upto(labels, i))
  <2>1. PICK j \in 1 .. full : rest = SubSeq(labels, j, n)
    BY <1>3, <1>6
  <2>2. PICK i \in 0 .. full - 1 : i + 1 = j /\ i = j - 1
    BY <1>1, <2>1
  <2>3. Len(rest) = n - j + 1
    BY <1>1, <2>1
  <2>4. (n - Len(rest) + 1) - 1 = i
    BY <1>1, <2>2, <2>3
  <2> HIDE DEF p, new, n
  <2>5. p[rest] = Len(w.octets) + Len(ToName(SubSeq(labels, 1, (n - Len(rest) + 1) - 1)))
    BY <1>3, <1>6
  <2>6. p[rest] = Len(w.octets) + Len(Upto(labels, i))
    BY <2>4, <2>5 DEF Upto
  <2> QED BY <2>1, <2>2, <2>6
<1>7. p = [rest \in DOMAIN p |-> p[rest]]
  <2> HIDE DEF p, new, Value
  <2> QED BY <1>2
<1> HIDE DEF p, new
<1> QED BY <1>3, <1>4, <1>5, <1>6, <1>7 DEF p

(* The octets s, behind those of w, are a name wherever they stand, and what *)
(* v knows is read there.                                                    *)
NameIn(w, s, dotted, v) ==
    \A b \in Strings : At(b, Len(w.octets), s) /\ PlacesRead(b, w) =>
        /\ PlacesRead(b, v)
        /\ \A tail \in Nat : Len(w.octets) + Len(s) <= tail /\ tail <= Len(b) =>
              ParseName(b, Len(w.octets), tail) = [size |-> Len(s), name |-> dotted]

LEMMA NameSize ==
    ASSUME NEW w \in Writers, NEW dotted, IsName(dotted), NEW full \in 0 .. Len(Front(dotted)), NEW end,
           Ends(w, end, SubSeq(Front(dotted), full + 1, Len(Front(dotted))))
    PROVE  /\ Upto(Front(dotted), full) \o end \in Strings
           /\ Len(Upto(Front(dotted), full) \o end) = Len(Upto(Front(dotted), full)) + Len(end)
           /\ Len(Upto(Front(dotted), full)) \in Nat /\ Len(end) \in Nat \ {0}
           /\ Len(Upto(Front(dotted), full)) + Len(end) <= 256
           /\ ~IsRoot(dotted) => Len(Upto(Front(dotted), full)) + Len(end) >= 2
<1>1. PICK labels : labels = Front(dotted)
  OBVIOUS
<1>2. Plain(labels) /\ Short(labels) /\ labels \in Seq(Strings) /\ Len(labels) \in Nat
  <2>1. Plain(labels)
    BY <1>1, NameLabels
  <2>2. Short(labels)
    BY <2>1 DEF Plain
  <2>3. labels \in Seq(Strings)
    BY <2>2 DEF Short
  <2>4. Len(labels) \in Nat
    BY <2>3
  <2> QED BY <2>1, <2>2, <2>3, <2>4
<1>3. full \in 0 .. Len(labels)
  BY <1>1
<1>4. PICK u \in Strings : u = Upto(labels, full)
  BY <1>2, <1>3, UptoTyped
<1>5. end \in Strings /\ end # <<>> /\ Len(end) <= 2
  BY EndIs
<1>6. u \o end \in Strings /\ Len(u \o end) = Len(u) + Len(end)
  BY <1>5 DEF Strings
<1>7. PICK x \in Nat, z \in Nat \ {0} : x = Len(u) /\ z = Len(end)
  <2>1. Len(u) \in Nat /\ Len(end) \in Nat \ {0}
    BY <1>5 DEF Strings
  <2> QED BY <2>1
<1>8. x <= 254
  <2>1. Len(Upto(labels, full)) <= Len(Upto(labels, Len(labels)))
    <3>1. Len(labels) \in 0 .. Len(labels) /\ full \in 0 .. Len(labels)
      BY <1>2, <1>3
    <3> QED BY <1>2, <3>1, UptoGrows
  <2>2. Upto(labels, Len(labels)) = ToName(labels)
    BY <1>2, UptoEnds
  <2>3. Len(ToName(labels)) <= 254
    BY <1>1, NameLabels
  <2>4. PICK t \in Nat : t = Len(ToName(labels))
    BY <1>2, ToNameTyped DEF Strings
  <2>5. x <= t /\ t <= 254
    BY <1>4, <1>7, <2>1, <2>2, <2>3, <2>4
  <2> QED BY <2>5
<1>9. z <= 2
  BY <1>5, <1>7
<1>10. ASSUME ~IsRoot(dotted) PROVE x + z >= 2
  <2>1. labels # <<>>
    BY <1>1, <1>10, NameLabels
  <2>2. CASE full = 0
    <3>1. SubSeq(labels, 1, Len(labels)) = labels
      BY <1>2
    <3>2. 0 + 1 = 1
      OBVIOUS
    <3>3. Ends(w, end, SubSeq(labels, 0 + 1, Len(labels)))
      BY <1>1, <2>2
    <3>4. Ends(w, end, labels)
      BY <3>1, <3>2, <3>3
    <3>5. Len(end) = 2
      BY <2>1, <3>4, EndIs
    <3> QED BY <1>7, <3>5
  <2>3. CASE full # 0
    <3>1. PICK i \in 0 .. Len(labels) - 1 : i + 1 = full /\ i \in 0 .. Len(labels)
      <4>1. full - 1 \in 0 .. Len(labels) - 1 /\ full - 1 + 1 = full /\ full - 1 \in 0 .. Len(labels)
        BY <1>2, <1>3, <2>3
      <4> QED BY <4>1
    <3>2. PICK l : l = labels[i + 1]
      OBVIOUS
    <3>3. l \in Strings
      BY <1>2, <1>3, <3>1, <3>2
    <3>4. Len(l) \in Nat /\ Len(Upto(labels, i)) \in Nat
      BY <1>2, <3>1, <3>3, UptoTyped DEF Strings
    <3>5. Len(Upto(labels, i + 1)) = Len(Upto(labels, i)) + Len(l) + 1
      BY <1>2, <3>1, <3>2, UptoNext
    <3>6. PICK m \in Nat, y \in Nat : m = Len(l) /\ y = Len(Upto(labels, i))
      BY <3>4
    <3>7. x = y + m + 1
      BY <1>4, <1>7, <3>1, <3>5, <3>6
    <3> QED BY <3>7
  <2> QED BY <2>2, <2>3
<1> QED BY <1>1, <1>4, <1>6, <1>7, <1>8, <1>9, <1>10

LEMMA NameRead ==
    ASSUME NEW w \in Writers, NEW dotted, IsName(dotted), NEW full \in 0 .. Len(Front(dotted)), NEW end,
           Ends(w, end, SubSeq(Front(dotted), full + 1, Len(Front(dotted)))), NEW compress \in BOOLEAN
    PROVE  NameIn(w, Upto(Front(dotted), full) \o end, dotted,
                  [octets |-> w.octets \o (Upto(Front(dotted), full) \o end),
                   places |-> IF compress THEN Placed(w, Front(dotted), full) ELSE <<>>])
<1>1. PICK labels : labels = Front(dotted)
  OBVIOUS
<1>2. Plain(labels) /\ Short(labels) /\ labels \in Seq(Strings) /\ Len(labels) \in Nat
  <2>1. Plain(labels)
    BY <1>1, NameLabels
  <2>2. Short(labels)
    BY <2>1 DEF Plain
  <2>3. labels \in Seq(Strings)
    BY <2>2 DEF Short
  <2>4. Len(labels) \in Nat
    BY <2>3
  <2> QED BY <2>1, <2>2, <2>3, <2>4
<1>3. full \in 0 .. Len(labels) /\ Ends(w, end, SubSeq(labels, full + 1, Len(labels)))
  BY <1>1
<1>4. PICK s : s = Upto(labels, full) \o end
  OBVIOUS
<1>5. PICK x \in Nat, z \in Nat \ {0}, o \in Nat :
         /\ x = Len(Upto(labels, full)) /\ z = Len(end) /\ o = Len(w.octets)
         /\ s \in Strings /\ Len(s) = x + z
  <2>1. PICK o \in Nat : o = Len(w.octets)
    BY WriterIs
  <2>2. PICK x \in Nat, z \in Nat \ {0} : x = Len(Upto(Front(dotted), full)) /\ z = Len(end)
    BY NameSize
  <2>3. Upto(Front(dotted), full) \o end \in Strings
    BY NameSize
  <2>4. Len(Upto(Front(dotted), full) \o end) = Len(Upto(Front(dotted), full)) + Len(end)
    BY NameSize
  <2>5. s \in Strings /\ Len(s) = x + z /\ x = Len(Upto(labels, full))
    BY <1>1, <1>4, <2>2, <2>3, <2>4
  <2> QED BY <2>1, <2>2, <2>5
<1>6. PICK v : v = [octets |-> w.octets \o s,
                    places |-> IF compress THEN Placed(w, labels, full) ELSE <<>>]
  OBVIOUS
<1>7. Len(v.octets) = o + (x + z)
  <2>1. PICK c \in Strings, t \in Strings : c = w.octets /\ t = s
    BY <1>5, WriterIs
  <2>2. Len(c \o t) = Len(c) + Len(t)
    BY DEF Strings
  <2> QED BY <1>5, <1>6, <2>1, <2>2
<1> SUFFICES ASSUME NEW b \in Strings, At(b, o, s), PlacesRead(b, w)
             PROVE  /\ PlacesRead(b, v)
                    /\ \A tail \in Nat : o + Len(s) <= tail /\ tail <= Len(b) =>
                          ParseName(b, o, tail) = [size |-> Len(s), name |-> dotted]
  BY <1>1, <1>4, <1>5, <1>6 DEF NameIn
<1>8. ASSUME NEW tail \in Nat, o + x + z <= tail, tail <= Len(b), NEW i \in 0 .. full
      PROVE  Reads(b, tail, o + Len(Upto(labels, i)), x - Len(Upto(labels, i)) + z,
                   SubSeq(labels, i + 1, Len(labels)))
  <2>1. Len(w.octets) + Len(Upto(labels, full)) + Len(end) <= tail
    BY <1>5, <1>8
  <2>2. At(b, Len(w.octets), Upto(labels, full) \o end)
    BY <1>4, <1>5
  <2>3. Reads(b, tail, Len(w.octets) + Len(Upto(labels, i)),
              Len(Upto(labels, full)) - Len(Upto(labels, i)) + Len(end),
              SubSeq(labels, i + 1, Len(labels)))
    BY <1>2, <1>3, <1>8, <2>1, <2>2, PartsRead
  <2> QED BY <1>5, <2>3
<1>9. ASSUME NEW tail \in Nat, o + (x + z) <= tail, tail <= Len(b), NEW rest \in DOMAIN v.places
      PROVE  \E size \in Nat \ {0} : Reads(b, tail, v.places[rest], size, rest)
  <2>1. o <= tail /\ o + x + z <= tail
    BY <1>9
  <2>2. compress /\ v.places = Placed(w, labels, full)
    BY <1>6, <1>9
  <2>3. CASE rest \in DOMAIN w.places /\ v.places[rest] = w.places[rest]
    <3>1. Len(w.octets) <= tail
      BY <1>5, <2>1
    <3>2. \E size \in Nat \ {0} : Reads(b, tail, w.places[rest], size, rest)
      BY <1>9, <2>3, <3>1 DEF PlacesRead
    <3> QED BY <2>3, <3>2
  <2>4. CASE \E i \in 0 .. full - 1 : /\ rest = SubSeq(labels, i + 1, Len(labels))
                                      /\ v.places[rest] = Len(w.octets) + Len(Upto(labels, i))
    <3>1. PICK i \in 0 .. full - 1 : /\ rest = SubSeq(labels, i + 1, Len(labels))
                                     /\ v.places[rest] = Len(w.octets) + Len(Upto(labels, i))
      BY <2>4
    <3>2. i \in 0 .. full /\ i \in 0 .. Len(labels)
      BY <1>2, <1>3
    <3>3. PICK y \in Nat : y = Len(Upto(labels, i))
      BY <1>2, <3>2, UptoTyped DEF Strings
    <3>4. y <= x
      BY <1>2, <1>3, <1>5, <3>2, <3>3, UptoGrows
    <3>5. x - y + z \in Nat \ {0}
      BY <3>4
    <3>6. Reads(b, tail, o + y, x - y + z, rest)
      BY <1>8, <1>9, <2>1, <3>1, <3>2, <3>3
    <3> QED BY <1>5, <3>1, <3>3, <3>5, <3>6
  <2>5. rest \in DOMAIN Placed(w, labels, full)
    BY <1>9, <2>2
  <2>6. \/ rest \in DOMAIN w.places /\ Placed(w, labels, full)[rest] = w.places[rest]
        \/ \E i \in 0 .. full - 1 :
              /\ rest = SubSeq(labels, i + 1, Len(labels))
              /\ Placed(w, labels, full)[rest] = Len(w.octets) + Len(Upto(labels, i))
    <3>1. \A r \in DOMAIN Placed(w, labels, full) :
             \/ r \in DOMAIN w.places /\ Placed(w, labels, full)[r] = w.places[r]
             \/ \E i \in 0 .. full - 1 :
                   /\ r = SubSeq(labels, i + 1, Len(labels))
                   /\ Placed(w, labels, full)[r] = Len(w.octets) + Len(Upto(labels, i))
      BY <1>2, <1>3, PlacedIs
    <3> QED BY <2>5, <3>1, Zenon
  <2> QED BY <2>2, <2>3, <2>4, <2>6
<1>10. PlacesRead(b, v)
  BY <1>7, <1>9 DEF PlacesRead
<1>11. ASSUME NEW tail \in Nat, o + Len(s) <= tail, tail <= Len(b)
       PROVE  ParseName(b, o, tail) = [size |-> Len(s), name |-> dotted]
  <2>0. 0 \in 0 .. full
    BY <1>2, <1>3
  <2>1. o + x + z <= tail
    <3>1. o + (x + z) <= tail
      BY <1>5, <1>11
    <3> QED BY <3>1
  <2>2. PICK u : u = Upto(labels, 0)
    OBVIOUS
  <2>3. u = <<>>
    BY <1>2, <2>2, UptoEnds
  <2>4. Len(u) = 0
    BY <2>3
  <2>5. Reads(b, tail, o + Len(u), x - Len(u) + z, SubSeq(labels, 0 + 1, Len(labels)))
    BY <1>8, <1>11, <2>0, <2>1, <2>2
  <2>6. SubSeq(labels, 0 + 1, Len(labels)) = labels
    BY <1>2
  <2>7. o + 0 = o /\ x - 0 + z = x + z
    OBVIOUS
  <2>8. Reads(b, tail, o, x + z, labels)
    BY <2>4, <2>5, <2>6, <2>7
  <2>9. Labels(b, tail)[o] = [size |-> x + z, labels |-> labels]
    BY <2>8 DEF Reads
  <2>10. ~ (o >= tail) /\ x + z # 0
    BY <2>1
  <2>11. ParseName(b, o, tail) = [size |-> x + z, name |-> Append(labels, Empty)]
    BY <2>9, <2>10 DEF ParseName
  <2> QED BY <1>1, <1>5, <2>11, NameLabels
<1> QED BY <1>10, <1>11

(* The writer v wrote the octets s behind those of w.                        *)
Behind(w, s, v) ==
    s \in Strings /\ v \in Writers /\ v.octets = w.octets \o s /\ Len(v.octets) = Len(w.octets) + Len(s)

LEMMA BehindIs ==
    ASSUME NEW w \in Writers, NEW s \in Strings, NEW v \in Writers, v.octets = w.octets \o s
    PROVE  Behind(w, s, v)
<1>1. PICK c, d : c \in Strings /\ c = w.octets /\ d = c \o s
  BY WriterIs
<1>2. Len(c \o s) = Len(c) + Len(s)
  BY DEF Strings
<1> QED BY <1>1, <1>2 DEF Behind

LEMMA PlacedWriter ==
    ASSUME NEW w \in Writers, NEW labels, Short(labels), NEW full \in 0 .. Len(labels),
           NEW s \in Strings, Len(Upto(labels, full)) < Len(s), NEW compress \in BOOLEAN
    PROVE  [octets |-> w.octets \o s,
            places |-> IF compress THEN Placed(w, labels, full) ELSE <<>>] \in Writers
<1>1. PICK c \in Strings : c = w.octets
  BY WriterIs
<1>2. c \o s \in Strings /\ Len(c \o s) = Len(c) + Len(s) /\ Len(c) \in Nat /\ Len(s) \in Nat
  BY DEF Strings
<1>3. CASE ~compress
  <2>1. {} \in SUBSET Seq(Strings) /\ <<>> \in [{} -> Nat]
    OBVIOUS
  <2>2. [octets |-> c \o s, places |-> <<>>] \in Writers
    BY <1>2, <2>1, IsWriter
  <2> QED BY <1>1, <1>3, <2>2
<1>4. CASE compress
  <2>1. PICK S, p : S = DOMAIN Placed(w, labels, full) /\ p = Placed(w, labels, full)
    OBVIOUS
  <2>2. S \in SUBSET Seq(Strings) /\ p = [rest \in S |-> p[rest]]
    BY <2>1, PlacedIs
  <2>3. ASSUME NEW rest \in S PROVE p[rest] \in Nat /\ p[rest] < Len(c) + Len(s)
    <3>1. \A r \in DOMAIN Placed(w, labels, full) :
             \/ r \in DOMAIN w.places /\ Placed(w, labels, full)[r] = w.places[r]
             \/ \E i \in 0 .. full - 1 :
                   /\ r = SubSeq(labels, i + 1, Len(labels))
                   /\ Placed(w, labels, full)[r] = Len(w.octets) + Len(Upto(labels, i))
      BY PlacedIs
    <3>2. CASE rest \in DOMAIN w.places /\ p[rest] = w.places[rest]
      <4>1. w.places[rest] \in Nat /\ w.places[rest] < Len(w.octets)
        BY <3>2, WriterIs
      <4> QED BY <1>1, <1>2, <3>2, <4>1
    <3>3. CASE \E i \in 0 .. full - 1 : p[rest] = Len(w.octets) + Len(Upto(labels, i))
      <4>1. PICK i \in 0 .. full - 1 : p[rest] = Len(w.octets) + Len(Upto(labels, i))
        BY <3>3
      <4>2. Len(labels) \in Nat /\ i \in 0 .. full /\ i \in 0 .. Len(labels)
        BY DEF Short
      <4>3. PICK y, x : y \in Nat /\ y = Len(Upto(labels, i)) /\ x = Len(Upto(labels, full))
        <5>1. Len(Upto(labels, i)) \in Nat
          BY <4>2, UptoTyped DEF Strings
        <5> QED BY <5>1, Zenon
      <4>4. y <= x /\ x < Len(s) /\ x \in Nat
        BY <4>2, <4>3, UptoGrows, UptoTyped DEF Strings
      <4> QED BY <1>1, <1>2, <4>1, <4>3, <4>4
    <3> QED BY <2>1, <3>1, <3>2, <3>3, Zenon
  <2>4. p \in [S -> Nat]
    BY <2>2, <2>3
  <2>5. \A rest \in S : p[rest] < Len(c \o s)
    BY <1>2, <2>3
  <2>6. [octets |-> c \o s, places |-> p] \in Writers
    BY <1>2, <2>2, <2>4, <2>5, IsWriter
  <2> QED BY <1>1, <1>4, <2>1, <2>6
<1> QED BY <1>3, <1>4

(* A host writes a name so that it is read as it is.                         *)
NameWrites(w, s, dotted, v) ==
    /\ Behind(w, s, v) /\ NameIn(w, s, dotted, v)
    /\ Len(s) \in Nat \ {0} /\ Len(s) <= 256 /\ (~IsRoot(dotted) => Len(s) >= 2)

LEMMA NameWritten ==
    ASSUME NEW w \in Writers, NEW dotted, IsName(dotted), NEW compress \in BOOLEAN
    PROVE  \E s : NameWrites(w, s, dotted, WriteName(w, dotted, compress))
<1>1. PICK labels : labels = Front(dotted)
  OBVIOUS
<1>2. Short(labels)
  BY <1>1, NameLabels DEF Plain
<1>3. PICK full : full = Full(w, labels)
  OBVIOUS
<1>4. PICK end : end = EndOf(w, labels)
  OBVIOUS
<1>5. full \in 0 .. Len(labels) /\ Ends(w, end, SubSeq(labels, full + 1, Len(labels)))
  <2>0. labels \in Seq(Strings)
    BY <1>2 DEF Short
  <2>1. Full(w, labels) \in 0 .. Len(labels)
    BY <2>0, NameParts
  <2>2. Ends(w, EndOf(w, labels), SubSeq(labels, Full(w, labels) + 1, Len(labels)))
    BY <2>0, NameParts
  <2> QED BY <1>3, <1>4, <2>1, <2>2
<1>6. PICK u : u = Upto(labels, full)
  OBVIOUS
<1>7. PICK s : s = u \o end
  OBVIOUS
<1>8. u \in Strings /\ end \in Strings
  BY <1>2, <1>5, <1>6, UptoTyped, EndIs
<1>9. s \in Strings /\ Len(s) = Len(u) + Len(end) /\ Len(u) \in Nat /\ Len(end) \in Nat \ {0}
  BY <1>1, <1>5, <1>6, <1>7, NameSize
<1>10. Len(u) + Len(end) <= 256 /\ (~IsRoot(dotted) => Len(u) + Len(end) >= 2)
  BY <1>1, <1>5, <1>6, NameSize
<1>11. PICK v : v = [octets |-> w.octets \o s,
                     places |-> IF compress THEN Placed(w, labels, full) ELSE <<>>]
  OBVIOUS
<1>12. v = WriteName(w, dotted, compress)
  <2>1. PICK c \in Strings : c = w.octets
    BY WriterIs
  <2>2. (c \o u) \o end = c \o (u \o end)
    BY <1>8, Joined
  <2>3. WriteName(w, dotted, compress)
           = [octets |-> w.octets \o u \o end,
              places |-> IF compress THEN Placed(w, labels, full) ELSE <<>>]
    BY <1>1, <1>3, <1>4, <1>6, WriteNameIs DEF Upto
  <2> QED BY <1>7, <1>11, <2>1, <2>2, <2>3
<1>13. v \in Writers
  <2>1. Len(Upto(labels, full)) < Len(s)
    BY <1>6, <1>9
  <2> QED BY <1>2, <1>5, <1>9, <1>11, <2>1, PlacedWriter
<1>14. v.octets = w.octets \o s
  BY <1>11
<1>15. Behind(w, s, v)
  BY <1>9, <1>13, <1>14, BehindIs
<1>16. NameIn(w, s, dotted, v)
  BY <1>1, <1>5, <1>6, <1>7, <1>11, NameRead
<1>17. Len(s) \in Nat \ {0} /\ Len(s) <= 256 /\ (~IsRoot(dotted) => Len(s) >= 2)
  BY <1>9, <1>10
<1>18. NameWrites(w, s, dotted, v)
  BY <1>15, <1>16, <1>17 DEF NameWrites
<1> QED BY <1>12, <1>18

-----------------------------------------------------------------------------
(* Questions and records.                                                    *)

(* Octets with no name in them.                                              *)
LEMMA WriteIs ==
    ASSUME NEW w \in Writers, NEW s \in Strings
    PROVE  /\ Behind(w, s, Write(w, s)) /\ Write(w, s).places = w.places
           /\ \A b \in Strings : PlacesRead(b, w) => PlacesRead(b, Write(w, s))
<1>1. PICK c \in Strings : c = w.octets
  BY WriterIs
<1>2. c \o s \in Strings /\ Len(c \o s) = Len(c) + Len(s) /\ Len(c) \in Nat /\ Len(s) \in Nat
  BY DEF Strings
<1>3. PICK v : v = Write(w, s)
  OBVIOUS
<1>4. PICK p : p = w.places
  OBVIOUS
<1>5. v = [octets |-> c \o s, places |-> p]
  BY <1>1, <1>3, <1>4 DEF Write, Writers
<1>6. PICK d \in Strings : d = c \o s
  BY <1>2
<1>7. Len(d) = Len(c) + Len(s)
  BY <1>2, <1>6
<1>8. PICK S \in SUBSET Seq(Strings) : p \in [S -> Nat] /\ \A rest \in S : p[rest] < Len(c)
  <2>1. w \in [octets : Strings, places : UNION {[S -> Nat] : S \in SUBSET Seq(Strings)}]
    BY DEF Writers
  <2>2. PICK S \in SUBSET Seq(Strings) : w.places \in [S -> Nat]
    BY <2>1
  <2>3. \A rest \in DOMAIN w.places : w.places[rest] < Len(w.octets)
    BY WriterIs
  <2> QED BY <1>1, <1>4, <2>2, <2>3
<1>9. \A rest \in S : p[rest] < Len(d)
  BY <1>2, <1>7, <1>8
<1>10. [octets |-> d, places |-> p] \in Writers
  BY <1>8, <1>9, IsWriter
<1>11. v \in Writers /\ v.octets = w.octets \o s /\ v.places = w.places
  BY <1>1, <1>4, <1>5, <1>6, <1>10
<1>12. ASSUME NEW b \in Strings, PlacesRead(b, w) PROVE PlacesRead(b, v)
  <2>1. Len(v.octets) = Len(w.octets) + Len(s)
    BY <1>1, <1>5, <1>6, <1>7
  <2>2. \A tail \in Nat : Len(v.octets) <= tail => Len(w.octets) <= tail
    BY <1>1, <1>2, <2>1
  <2> QED BY <1>11, <1>12, <2>2 DEF PlacesRead
<1> QED BY <1>3, <1>11, <1>12, BehindIs

(* The octets of two steps.                                                  *)
LEMMA BehindBoth ==
    ASSUME NEW w \in Writers, NEW s, NEW u, Behind(w, s, u), NEW t, NEW v, Behind(u, t, v)
    PROVE  /\ Behind(w, s \o t, v) /\ Len(s \o t) = Len(s) + Len(t)
           /\ \A b \in Strings : At(b, Len(w.octets), s \o t) =>
                 At(b, Len(w.octets), s) /\ At(b, Len(u.octets), t)
<1>1. PICK c \in Strings : c = w.octets
  BY WriterIs
<1>2. s \in Strings /\ t \in Strings /\ u \in Writers /\ v \in Writers
  BY DEF Behind
<1>3. u.octets = c \o s /\ v.octets = u.octets \o t /\ Len(u.octets) = Len(c) + Len(s)
  BY <1>1 DEF Behind
<1>4. (c \o s) \o t = c \o (s \o t) /\ s \o t \in Strings
  BY <1>2, Joined
<1>5. Len(s \o t) = Len(s) + Len(t) /\ Len(c) \in Nat
  BY <1>2 DEF Strings
<1>6. Behind(w, s \o t, v)
  BY <1>1, <1>2, <1>3, <1>4, BehindIs
<1>7. ASSUME NEW b \in Strings, At(b, Len(c), s \o t)
      PROVE  At(b, Len(c), s) /\ At(b, Len(c) + Len(s), t)
  BY <1>2, <1>5, <1>7, AtSplit
<1> QED BY <1>1, <1>3, <1>5, <1>6, <1>7

(* The octets s, behind those of w, are read as a value of this section; an   *)
(* empty text is not read.                                                   *)
Unread(section, x) ==
    section # "questions" /\ x.data.kind = "TXT" /\ x.data.octets = <<>>
ValueAt(size, x) == [size |-> size, value |-> x]
Holds(section, w, s, x, v) ==
    /\ Behind(w, s, v) /\ Len(s) \in Nat \ {0}
    /\ \A b \in Strings : At(b, Len(w.octets), s) /\ PlacesRead(b, w) =>
          /\ PlacesRead(b, v)
          /\ Parse(section, b, Len(w.octets))
                = IF Unread(section, x) THEN Nothing ELSE ValueAt(Len(s), x)

LEMMA NumbersAre ==
    ASSUME NEW x, x \in Strings /\ Len(x) = 2, NEW y, y \in Strings /\ Len(y) = 2
    PROVE  x \o y \in Strings /\ Len(x \o y) = 4
<1>1. \A s \in Strings, t \in Strings : s \o t \in Strings /\ Len(s \o t) = Len(s) + Len(t)
  <2> TAKE s \in Strings, t \in Strings
  <2> QED BY DEF Strings
<1>2. x \o y \in Strings /\ Len(x \o y) = Len(x) + Len(y)
  BY <1>1, Zenon
<1> QED BY <1>2

LEMMA QuestionWritten ==
    ASSUME NEW w \in Writers, NEW question \in Questions, IsName(question.name),
           ~IsRoot(question.name), NEW compress \in BOOLEAN
    PROVE  \E s : Holds("questions", w, s, question, WriteQuestion(w, question, compress))
<1>1. question = [name |-> question.name, type |-> question.type] /\ question.type \in Number
  BY DEF Questions
<1>2. PICK type \in Nat : type = question.type /\ type < NumberLimit
  BY <1>1, NumberIs
<1>3. PICK dotted : dotted = question.name
  OBVIOUS
<1>4. PICK u : u = WriteName(w, dotted, compress)
  OBVIOUS
<1>5. PICK s : NameWrites(w, s, dotted, u)
  BY <1>3, <1>4, NameWritten
<1>6. Behind(w, s, u) /\ NameIn(w, s, dotted, u) /\ u \in Writers /\ s \in Strings
  BY <1>5 DEF NameWrites, Behind
<1>7. PICK t : t = ToU16(type) \o ToU16(1)
  OBVIOUS
<1>8. t \in Strings /\ Len(t) = 4
  <2>1. PICK one \in Nat : one = 1 /\ one < NumberLimit
    BY DEF NumberLimit
  <2>2. ToU16(type) \o ToU16(one) \in Strings /\ Len(ToU16(type) \o ToU16(one)) = 4
    <3>1. ToU16(type) \in Strings /\ Len(ToU16(type)) = 2
      BY <1>2, NumberOctets
    <3>2. ToU16(one) \in Strings /\ Len(ToU16(one)) = 2
      BY <2>1, NumberOctets
    <3> QED BY <3>1, <3>2, NumbersAre
  <2>3. t = ToU16(type) \o ToU16(one)
    BY <1>7, <2>1
  <2> QED BY <2>2, <2>3
<1>9. PICK v : v = Write(u, t)
  OBVIOUS
<1>10. Behind(u, t, v) /\ \A b \in Strings : PlacesRead(b, u) => PlacesRead(b, v)
  BY <1>6, <1>8, <1>9, WriteIs
<1>11. /\ Behind(w, s \o t, v) /\ Len(s \o t) = Len(s) + Len(t)
       /\ \A b \in Strings : At(b, Len(w.octets), s \o t) =>
             At(b, Len(w.octets), s) /\ At(b, Len(u.octets), t)
  BY <1>6, <1>10, BehindBoth
<1>12. PICK m \in Nat, o \in Nat : m = Len(s) /\ m >= 2 /\ o = Len(w.octets) /\ Len(u.octets) = o + m
  <2>1. Len(s) \in Nat /\ Len(s) >= 2
    BY <1>3, <1>5 DEF NameWrites
  <2> QED BY <1>6, <2>1, WriterIs DEF Behind
<1>13. ASSUME NEW b \in Strings, At(b, Len(w.octets), s \o t), PlacesRead(b, w)
       PROVE  PlacesRead(b, v) /\ ParseQuestion(b, o) = ValueAt(m + 4, question)
  <2>1. At(b, Len(w.octets), s) /\ At(b, o + m, t)
    BY <1>11, <1>12, <1>13
  <2>2. PICK l \in Nat : l = Len(b)
    BY DEF Strings
  <2>3. o + m + 4 <= l
    BY <1>8, <2>1, <2>2 DEF At
  <2>4. PlacesRead(b, u)
    BY <1>6, <1>13, <2>1 DEF NameIn
  <2>5. PlacesRead(b, v)
    BY <1>10, <2>4
  <2>6. ParseName(b, o, l) = [size |-> m, name |-> dotted]
    <3>1. Len(w.octets) + Len(s) <= l /\ l <= Len(b)
      BY <1>12, <2>2, <2>3
    <3>2. ParseName(b, Len(w.octets), l) = [size |-> Len(s), name |-> dotted]
      BY <1>6, <1>13, <2>1, <3>1 DEF NameIn
    <3> QED BY <1>12, <3>2
  <2>7. U16(b, o + m) = type
    <3>1. ToU16(type) \in Strings /\ ToU16(1) \in Strings
      BY <1>2, NumberOctets, SmallNumbers
    <3>2. At(b, o + m, ToU16(type))
      BY <1>7, <2>1, <3>1, AtSplit
    <3> QED BY <1>2, <3>2, AtNumber
  <2>8. ParseQuestion(b, o) = QuestionAt(b, o, [size |-> m, name |-> dotted])
    <3>1. ~ (o + 6 > l)
      BY <1>12, <2>3
    <3> QED BY <2>2, <2>6, <3>1 DEF ParseQuestion
  <2>9. QuestionAt(b, o, [size |-> m, name |-> dotted])
           = [size |-> m + 4, value |-> [name |-> dotted, type |-> type]]
    <3>1. ~ (o + m + 4 > l) /\ m # 0
      BY <1>12, <2>3
    <3> QED BY <2>2, <2>7, <3>1 DEF QuestionAt
  <2>10. ParseQuestion(b, o) = ValueAt(m + 4, question)
    <3>1. PICK q : q = [name |-> dotted, type |-> type]
      OBVIOUS
    <3>2. q = question
      BY <1>1, <1>2, <1>3, <3>1
    <3>3. ParseQuestion(b, o) = [size |-> m + 4, value |-> q]
      BY <2>8, <2>9, <3>1, Zenon
    <3> QED BY <3>2, <3>3 DEF ValueAt
  <2> QED BY <2>5, <2>10
<1>14. Len(s \o t) = m + 4 /\ Len(s \o t) \in Nat \ {0}
  BY <1>8, <1>11, <1>12
<1>15. ~Unread("questions", question)
  BY DEF Unread
<1>16. Holds("questions", w, s \o t, question, v)
  BY <1>11, <1>12, <1>13, <1>14, <1>15 DEF Holds, Parse
<1>17. v = WriteQuestion(w, question, compress)
  BY <1>2, <1>3, <1>4, <1>7, <1>9 DEF WriteQuestion
<1> QED BY <1>16, <1>17

(* The octets s, behind those of w, are read as this data.                   *)
DataWrites(w, s, data, v) ==
    /\ Behind(w, s, v) /\ Len(s) \in Nat /\ Len(s) < NumberLimit
    /\ \A b \in Strings : At(b, Len(w.octets), s) /\ PlacesRead(b, w) =>
          /\ PlacesRead(b, v)
          /\ ReadDnsRecordData(b, TypeOf(data.kind), Len(w.octets), Len(s))
                = IF data.kind = "TXT" /\ data.octets = <<>> THEN Nothing
                  ELSE Data(data.kind, data.name, data.octets)

LEMMA AddressIs ==
    ASSUME NEW b, NEW at, NEW size, size = 4
    PROVE  ReadDnsRecordData(b, TypeA, at, size) = Data("A", <<Empty>>, Octets(b, at, size))
BY DEF ReadDnsRecordData, TypeA, TypeTXT, TypeSRV, NameTypes, TypePTR

LEMMA AddressWritten ==
    ASSUME NEW w \in Writers, NEW data, data.octets \in Strings, Len(data.octets) < NumberLimit,
           data.name = <<Empty>>, data.kind \in {"A", "octets"},
           data.kind = "A" => Len(data.octets) = 4
    PROVE  DataWrites(w, data.octets, data, Write(w, data.octets))
<1>1. PICK s \in Strings, o \in Nat, n \in Nat : s = data.octets /\ o = Len(w.octets) /\ n = Len(s)
  BY WriterIs DEF Strings
<1>2. PICK v : v = Write(w, s)
  OBVIOUS
<1>3. Behind(w, s, v) /\ \A b \in Strings : PlacesRead(b, w) => PlacesRead(b, v)
  BY <1>2, WriteIs
<1>4. n < NumberLimit /\ (data.kind = "A" => n = 4)
  BY <1>1
<1>5. ASSUME NEW b \in Strings, At(b, o, s)
      PROVE  ReadDnsRecordData(b, TypeOf(data.kind), o, n) = Data(data.kind, <<Empty>>, s)
  <2>1. Octets(b, o, n) = s
    BY <1>1, <1>5, AtOctets
  <2>2. CASE data.kind = "A"
    <3>1. TypeOf(data.kind) = TypeA
      BY <2>2 DEF TypeOf
    <3>2. ReadDnsRecordData(b, TypeA, o, n) = Data("A", <<Empty>>, s)
      BY <1>4, <2>1, <2>2, AddressIs
    <3> QED BY <2>2, <3>1, <3>2
  <2>3. CASE data.kind = "octets"
    <3>1. TypeOf(data.kind) = 47
      BY <2>3 DEF TypeOf
    <3>2. PICK type : type = 47
      OBVIOUS
    <3>3. ~ (type = TypeA) /\ ~ (type = TypeTXT) /\ ~ (type = TypeSRV) /\ ~ (type \in NameTypes)
      BY <3>2 DEF TypeA, TypeTXT, TypeSRV, NameTypes, TypePTR
    <3>4. ReadDnsRecordData(b, type, o, n) = Data("octets", <<Empty>>, Octets(b, o, n))
      BY <3>3 DEF ReadDnsRecordData
    <3>5. ReadDnsRecordData(b, 47, o, n) = Data("octets", <<Empty>>, s)
      BY <2>1, <3>2, <3>4
    <3> QED BY <2>3, <3>1, <3>5
  <2> QED BY <2>2, <2>3
<1>6. ~ (data.kind = "TXT")
  OBVIOUS
<1>7. DataWrites(w, s, data, v)
  BY <1>1, <1>3, <1>4, <1>5, <1>6 DEF DataWrites
<1> QED BY <1>1, <1>2, <1>7

LEMMA PointerWritten ==
    ASSUME NEW w \in Writers, NEW data, data.kind = "PTR", IsName(data.name), data.octets = <<>>,
           NEW compress \in BOOLEAN
    PROVE  \E s : DataWrites(w, s, data, WriteName(w, data.name, compress))
<1>1. PICK dotted : dotted = data.name
  OBVIOUS
<1>2. PICK v : v = WriteName(w, dotted, compress)
  OBVIOUS
<1>3. PICK s : NameWrites(w, s, dotted, v)
  BY <1>1, <1>2, NameWritten
<1>4. Behind(w, s, v) /\ NameIn(w, s, dotted, v)
  BY <1>3 DEF NameWrites
<1>5. PICK o \in Nat, n \in Nat : o = Len(w.octets) /\ n = Len(s) /\ n <= 256
  BY <1>3, WriterIs DEF NameWrites
<1>6. ASSUME NEW b \in Strings, At(b, o, s), PlacesRead(b, w)
      PROVE  PlacesRead(b, v) /\ ReadDnsRecordData(b, TypePTR, o, n) = Data("PTR", dotted, <<>>)
  <2>1. PICK l \in Nat : l = Len(b)
    BY DEF Strings
  <2>2. o + n <= l
    BY <1>5, <1>6, <2>1 DEF At
  <2>3. Len(w.octets) + Len(s) <= l /\ l <= Len(b)
    BY <1>5, <2>1, <2>2
  <2>4. PlacesRead(b, v)
    BY <1>4, <1>5, <1>6 DEF NameIn
  <2>5. ParseName(b, Len(w.octets), l) = [size |-> Len(s), name |-> dotted]
    BY <1>4, <1>5, <1>6, <2>3 DEF NameIn
  <2>6. NameData(b, o, n) = Data("PTR", dotted, <<>>)
    BY <1>5, <2>1, <2>5 DEF NameData
  <2>7. TypePTR \in NameTypes /\ ~ (TypePTR = TypeA)
    BY DEF TypePTR, NameTypes, TypeA
  <2>8. ReadDnsRecordData(b, TypePTR, o, n) = NameData(b, o, n)
    BY <2>7 DEF ReadDnsRecordData, TypePTR, TypeA, TypeTXT, TypeSRV
  <2> QED BY <2>4, <2>6, <2>8
<1>7. n < NumberLimit
  BY <1>5 DEF NumberLimit
<1>8. TypeOf(data.kind) = TypePTR /\ ~ (data.kind = "TXT")
  BY DEF TypeOf
<1>9. DataWrites(w, s, data, v)
  BY <1>1, <1>4, <1>5, <1>6, <1>7, <1>8 DEF DataWrites
<1> QED BY <1>1, <1>2, <1>9

LEMMA TextWritten ==
    ASSUME NEW w \in Writers, NEW data, data.kind = "TXT", data.name = <<Empty>>,
           data.octets \in Strings, Len(data.octets) <= 255
    PROVE  DataWrites(w, <<Len(data.octets)>> \o data.octets, data,
                      Write(w, <<Len(data.octets)>> \o data.octets))
<1>1. PICK t \in Strings, m \in Nat : t = data.octets /\ m = Len(t) /\ m <= 255
  BY DEF Strings
<1>2. PICK x \in Strings : x = <<m>>
  <2>2. m \in Byte
    BY <1>1, SmallNumbers, Zenon
  <2>3. \A k \in Byte : <<k>> \in Seq(Byte)
    OBVIOUS
  <2>4. <<m>> \in Strings
    BY <2>2, <2>3, Zenon DEF Strings
  <2> QED BY <2>4
<1>3. Len(x) = 1
  BY <1>2
<1>4. PICK s : s = x \o t
  OBVIOUS
<1>5. s \in Strings /\ Len(s) = Len(x) + Len(t)
  BY <1>4 DEF Strings
<1>6. PICK o \in Nat, n \in Nat : o = Len(w.octets) /\ n = Len(s) /\ n = 1 + m
  BY <1>1, <1>3, <1>5, WriterIs
<1>7. PICK v : v = Write(w, s)
  OBVIOUS
<1>8. Behind(w, s, v) /\ \A b \in Strings : PlacesRead(b, w) => PlacesRead(b, v)
  BY <1>5, <1>7, WriteIs
<1>9. ASSUME NEW b \in Strings, At(b, o, s)
      PROVE  ReadDnsRecordData(b, TypeTXT, o, n)
                = IF t = <<>> THEN Nothing ELSE Data("TXT", <<Empty>>, t)
  <2>1. At(b, o + Len(x), t)
    BY <1>4, <1>9, AtSplit
  <2>2. At(b, o + 1, t)
    BY <1>3, <2>1
  <2>3. Octets(b, o + 1, m) = t
    BY <1>1, <2>2, AtOctets
  <2>4. n - 1 = m /\ (n <= 1 <=> m = 0)
    BY <1>6
  <2>5. m = 0 <=> t = <<>>
    BY <1>1 DEF Strings
  <2>6. TxtData(b, o, n) = IF t = <<>> THEN Nothing ELSE Data("TXT", <<Empty>>, t)
    BY <2>3, <2>4, <2>5 DEF TxtData
  <2>7. ~ (TypeTXT \in NameTypes)
    BY DEF TypePTR, NameTypes, TypeTXT
  <2>8. ReadDnsRecordData(b, TypeTXT, o, n) = TxtData(b, o, n)
    BY <2>7 DEF ReadDnsRecordData, TypePTR, TypeA, TypeTXT, TypeSRV
  <2> QED BY <2>6, <2>8
<1>10. n < NumberLimit
  BY <1>1, <1>6 DEF NumberLimit
<1>11. TypeOf(data.kind) = TypeTXT
  BY DEF TypeOf
<1>12. DataWrites(w, s, data, v)
  BY <1>1, <1>6, <1>8, <1>9, <1>10, <1>11 DEF DataWrites
<1> QED BY <1>1, <1>2, <1>4, <1>7, <1>12

LEMMA ServerWritten ==
    ASSUME NEW w \in Writers, NEW data, data.kind = "SRV", IsName(data.name), ~IsRoot(data.name),
           data.octets \in Strings, Len(data.octets) = 6, NEW compress \in BOOLEAN
    PROVE  \E s : DataWrites(w, s, data, WriteName(Write(w, data.octets), data.name, compress))
<1>1. PICK t \in Strings, k \in Nat : t = data.octets /\ k = Len(t) /\ k = 6
  BY DEF Strings
<1>2. PICK u : u = Write(w, t)
  OBVIOUS
<1>3. Behind(w, t, u) /\ \A b \in Strings : PlacesRead(b, w) => PlacesRead(b, u)
  BY <1>2, WriteIs
<1>4. u \in Writers
  BY <1>3 DEF Behind
<1>5. PICK dotted : dotted = data.name
  OBVIOUS
<1>6. PICK v : v = WriteName(u, dotted, compress)
  OBVIOUS
<1>7. PICK d : NameWrites(u, d, dotted, v)
  BY <1>4, <1>5, <1>6, NameWritten
<1>8. Behind(u, d, v) /\ NameIn(u, d, dotted, v)
  BY <1>7 DEF NameWrites
<1>9. /\ Behind(w, t \o d, v) /\ Len(t \o d) = Len(t) + Len(d)
      /\ \A b \in Strings : At(b, Len(w.octets), t \o d) =>
            At(b, Len(w.octets), t) /\ At(b, Len(u.octets), d)
  BY <1>3, <1>8, BehindBoth
<1>10. PICK o \in Nat, m \in Nat : o = Len(w.octets) /\ m = Len(d) /\ m <= 256 /\ m >= 2
  BY <1>5, <1>7, WriterIs DEF NameWrites
<1>11. Len(u.octets) = o + 6 /\ Len(t \o d) = m + 6
  BY <1>1, <1>3, <1>9, <1>10 DEF Behind
<1>12. ASSUME NEW b \in Strings, At(b, o, t \o d), PlacesRead(b, w)
       PROVE  PlacesRead(b, v) /\ ReadDnsRecordData(b, TypeSRV, o, m + 6) = Data("SRV", dotted, t)
  <2>1. At(b, o, t) /\ At(b, o + 6, d) /\ At(b, Len(u.octets), d)
    BY <1>9, <1>10, <1>11, <1>12
  <2>2. PICK l \in Nat : l = Len(b)
    BY DEF Strings
  <2>3. PICK tail \in Nat : tail = o + (m + 6)
    OBVIOUS
  <2>4. o + 6 + m <= l
    BY <1>10, <2>1, <2>2 DEF At
  <2>5. Len(u.octets) + Len(d) <= tail /\ tail <= Len(b)
    <3>1. (o + 6) + m <= tail /\ tail <= l
      BY <2>3, <2>4
    <3> QED BY <1>10, <1>11, <2>2, <3>1
  <2>6. PlacesRead(b, u)
    BY <1>3, <1>12
  <2>7. PlacesRead(b, v)
    BY <1>8, <2>1, <2>6 DEF NameIn
  <2>8. ParseName(b, Len(u.octets), tail) = [size |-> Len(d), name |-> dotted]
    BY <1>8, <2>1, <2>5, <2>6 DEF NameIn
  <2>9. ParseName(b, o + 6, o + (m + 6)) = [size |-> m, name |-> dotted]
    BY <1>10, <1>11, <2>3, <2>8
  <2>10. Octets(b, o, 6) = t
    BY <1>1, <2>1, AtOctets
  <2>11. ~ (m + 6 < 8) /\ m # 0
    BY <1>10
  <2>12. SrvData(b, o, m + 6) = Data("SRV", dotted, t)
    BY <2>9, <2>10, <2>11 DEF SrvData
  <2>13. ~ (TypeSRV \in NameTypes)
    BY DEF TypePTR, NameTypes, TypeSRV
  <2>14. ReadDnsRecordData(b, TypeSRV, o, m + 6) = SrvData(b, o, m + 6)
    BY <2>13 DEF ReadDnsRecordData, TypePTR, TypeA, TypeTXT, TypeSRV
  <2> QED BY <2>7, <2>12, <2>14
<1>13. Len(t \o d) \in Nat /\ Len(t \o d) < NumberLimit
  BY <1>10, <1>11 DEF NumberLimit
<1>14. TypeOf(data.kind) = TypeSRV /\ ~ (data.kind = "TXT")
  BY DEF TypeOf
<1>15. DataWrites(w, t \o d, data, v)
  BY <1>1, <1>5, <1>9, <1>10, <1>11, <1>12, <1>13, <1>14 DEF DataWrites
<1> QED BY <1>1, <1>2, <1>5, <1>6, <1>15

LEMMA DataWritten ==
    ASSUME NEW w \in Writers, NEW record \in Records, IsData(record.data), NEW compress \in BOOLEAN
    PROVE  \E s : DataWrites(w, s, record.data, WriteData(w, record.data, compress))
<1>1. PICK data : data = record.data
  OBVIOUS
<1>2. data.kind \in {"A", "PTR", "TXT", "SRV", "octets"} /\ data.octets \in Strings
  BY <1>1 DEF Records
<1>3. IsData(data)
  BY <1>1
<1>4. CASE data.kind \in {"A", "octets"}
  <2>1. data.name = <<Empty>> /\ Len(data.octets) < NumberLimit /\ (data.kind = "A" => Len(data.octets) = 4)
    <3>1. ~ (data.kind \in {"PTR", "SRV"})
      BY <1>4
    <3> QED BY <1>3, <3>1, Zenon DEF IsData
  <2>2. DataWrites(w, data.octets, data, Write(w, data.octets))
    BY <1>2, <1>4, <2>1, AddressWritten
  <2>3. WriteData(w, data, compress) = Write(w, data.octets)
    BY <1>4 DEF WriteData
  <2> QED BY <1>1, <2>2, <2>3
<1>5. CASE data.kind = "PTR"
  <2>1. IsName(data.name) /\ data.octets = <<>>
    <3>1. data.kind \in {"PTR", "SRV"}
      BY <1>5
    <3> QED BY <1>3, <1>5, <3>1, Zenon DEF IsData
  <2>2. \E s : DataWrites(w, s, data, WriteName(w, data.name, compress))
    BY <1>5, <2>1, PointerWritten
  <2>3. WriteData(w, data, compress) = WriteName(w, data.name, compress)
    BY <1>5 DEF WriteData
  <2> QED BY <1>1, <2>2, <2>3
<1>6. CASE data.kind = "TXT"
  <2>1. data.name = <<Empty>> /\ Len(data.octets) <= 255
    <3>1. ~ (data.kind \in {"PTR", "SRV"})
      BY <1>6
    <3> QED BY <1>3, <1>6, <3>1, Zenon DEF IsData
  <2>2. DataWrites(w, <<Len(data.octets)>> \o data.octets, data,
                   Write(w, <<Len(data.octets)>> \o data.octets))
    BY <1>2, <1>6, <2>1, TextWritten
  <2>3. WriteData(w, data, compress) = Write(w, <<Len(data.octets)>> \o data.octets)
    BY <1>6 DEF WriteData
  <2> QED BY <1>1, <2>2, <2>3
<1>7. CASE data.kind = "SRV"
  <2>1. IsName(data.name) /\ ~IsRoot(data.name) /\ Len(data.octets) = 6
    <3>1. data.kind \in {"PTR", "SRV"}
      BY <1>7
    <3> QED BY <1>3, <1>7, <3>1, Zenon DEF IsData
  <2>2. \E s : DataWrites(w, s, data, WriteName(Write(w, data.octets), data.name, compress))
    BY <1>2, <1>7, <2>1, ServerWritten
  <2>3. WriteData(w, data, compress) = WriteName(Write(w, data.octets), data.name, compress)
    BY <1>7 DEF WriteData
  <2> QED BY <1>1, <2>2, <2>3
<1> QED BY <1>2, <1>4, <1>5, <1>6, <1>7

(* The size field is filled in once the data is written.                     *)
LEMMA SizeFilled ==
    ASSUME NEW p \in Strings, NEW z \in Strings, NEW k \in Nat, k = Len(z), NEW d \in Strings
    PROVE  /\ SubSeq((p \o z) \o d, 1, Len(p \o z) - k) = p
           /\ SubSeq((p \o z) \o d, Len(p \o z) + 1, Len((p \o z) \o d)) = d
           /\ Len((p \o z) \o d) - Len(p \o z) = Len(d)
<1>1. PICK a \in Nat, n \in Nat : a = Len(p) /\ n = Len(d)
  BY DEF Strings
<1>2. PICK q : q = p \o z
  OBVIOUS
<1>3. q \in Strings /\ Len(q) = a + k
  BY <1>1, <1>2, JoinedIs
<1>4. PICK x : x = q \o d
  OBVIOUS
<1>5. x \in Strings /\ Len(x) = (a + k) + n
  BY <1>1, <1>3, <1>4, JoinedIs
<1>6. At(x, 0, q) /\ At(x, Len(q), d) /\ At(q, 0, p)
  BY <1>2, <1>3, <1>4, AtBoth
<1>7. At(x, 0, p)
  BY <1>3, <1>5, <1>6, AtWithin
<1>8. Octets(x, 0, a) = p
  BY <1>1, <1>5, <1>7, AtOctets
<1>9. Octets(x, a + k, n) = d
  BY <1>1, <1>3, <1>5, <1>6, AtOctets
<1>10. (a + k) - k = a /\ 0 + 1 = 1 /\ 0 + a = a /\ ((a + k) + n) - (a + k) = n
  OBVIOUS
<1> QED BY <1>1, <1>2, <1>3, <1>4, <1>5, <1>8, <1>9, <1>10, Zenon DEF Octets

(* Behind the owner: type, class, time to live, and the size of the data.    *)
TypeAndClass(type) == ToU16(type) \o ToU16(1) \o ToU16(0) \o ToU16(120)

LEMMA FieldsAre ==
    ASSUME NEW type \in Nat, type < NumberLimit
    PROVE  /\ TypeAndClass(type) \in Strings /\ Len(TypeAndClass(type)) = 8
           /\ \A b \in Strings, at \in Nat : At(b, at, TypeAndClass(type)) => U16(b, at) = type
<1>1. \A v \in Nat : v < NumberLimit => Sized(ToU16(v), 2)
  BY NumberOctets DEF Sized
<1>2. 0 < NumberLimit /\ 1 < NumberLimit /\ 120 < NumberLimit
  BY DEF NumberLimit
<1>3. Sized(ToU16(type), 2) /\ Sized(ToU16(1), 2) /\ Sized(ToU16(0), 2) /\ Sized(ToU16(120), 2)
  BY <1>1, <1>2
<1>4. PICK t1, t2, t3, t4 : t1 = ToU16(type) /\ t2 = ToU16(1) /\ t3 = ToU16(0) /\ t4 = ToU16(120)
  OBVIOUS
<1>5. Sized(t1, 2) /\ Sized(t2, 2) /\ Sized(t3, 2) /\ Sized(t4, 2)
  BY <1>3, <1>4
<1>6. PICK k : k = 2
  OBVIOUS
<1>7. Sized(t1, k) /\ Sized(t2, k) /\ Sized(t3, k) /\ Sized(t4, k)
  BY <1>5, <1>6
<1>8. Sized(t1 \o t2, k + k)
  BY <1>7, JoinedSized, Zenon
<1>9. Sized((t1 \o t2) \o t3, (k + k) + k)
  BY <1>7, <1>8, JoinedSized, Zenon
<1>10. Sized(((t1 \o t2) \o t3) \o t4, ((k + k) + k) + k)
  BY <1>7, <1>9, JoinedSized, Zenon
<1>11. ((k + k) + k) + k = 8
  BY <1>6
<1>12. TypeAndClass(type) = ((t1 \o t2) \o t3) \o t4
  BY <1>4 DEF TypeAndClass
<1>13. TypeAndClass(type) \in Strings /\ Len(TypeAndClass(type)) = 8
  BY <1>10, <1>11, <1>12, Zenon DEF Sized
<1>14. PICK x, y : x = t1 \o t2 /\ y = (t1 \o t2) \o t3
  OBVIOUS
<1>15. x \in Strings /\ y \in Strings /\ t1 \in Strings /\ t2 \in Strings /\ t3 \in Strings /\ t4 \in Strings
  BY <1>7, <1>8, <1>9, <1>14, Zenon DEF Sized
<1>16. ASSUME NEW b \in Strings, NEW at \in Nat, At(b, at, y \o t4) PROVE U16(b, at) = type
  <2>1. At(b, at, y)
    BY <1>15, <1>16, AtSplit
  <2>2. At(b, at, x)
    BY <1>14, <1>15, <2>1, AtSplit
  <2>3. At(b, at, t1)
    BY <1>14, <1>15, <2>2, AtSplit
  <2> QED BY <1>4, <2>3, AtNumber
<1> QED BY <1>12, <1>13, <1>14, <1>16, Zenon

(* A writer of the same size with the same places knows what is read.        *)
LEMMA SamePlaces ==
    ASSUME NEW u \in Writers, NEW v, NEW o, o \in Strings, v = [octets |-> o, places |-> u.places],
           Len(o) = Len(u.octets)
    PROVE  v \in Writers /\ \A b \in Strings : PlacesRead(b, u) => PlacesRead(b, v)
<1>1. PICK p : p = u.places
  OBVIOUS
<1>2. u \in [octets : Strings, places : UNION {[S -> Nat] : S \in SUBSET Seq(Strings)}]
  BY DEF Writers
<1>3. PICK S \in SUBSET Seq(Strings) : p \in [S -> Nat]
  BY <1>1, <1>2
<1>4. \A rest \in DOMAIN p : p[rest] < Len(o)
  BY <1>1, WriterIs
<1>5. v \in Writers
  BY <1>1, <1>3, <1>4, IsWriter
<1>6. v.places = u.places /\ Len(v.octets) = Len(u.octets)
  OBVIOUS
<1> QED BY <1>5, <1>6, Zenon DEF PlacesRead

(* The octets of a record: owner, fields, size of the data, and data.        *)
RecordOctets(s, g, e, d) == ((s \o g) \o e) \o d

RecordJoins(c, s, g, e, d) ==
    /\ (((c \o s) \o g) \o e) \o d = c \o RecordOctets(s, g, e, d)
    /\ RecordOctets(s, g, e, d) \in Strings

LEMMA RecordJoined ==
    ASSUME NEW c \in Strings, NEW s \in Strings, NEW g \in Strings, NEW e \in Strings, NEW d \in Strings
    PROVE  RecordJoins(c, s, g, e, d)
<1>1. (c \o s) \o g = c \o (s \o g) /\ s \o g \in Strings
  <2>1. Associates(c, s, g)
    BY JoinedThree, Zenon
  <2> QED BY <2>1, JoinedIs, Zenon DEF Associates
<1>2. PICK sg \in Strings : sg = s \o g
  BY <1>1
<1>3. (c \o sg) \o e = c \o (sg \o e) /\ sg \o e \in Strings
  <2>1. Associates(c, sg, e)
    BY JoinedThree, Zenon
  <2> QED BY <2>1, JoinedIs, Zenon DEF Associates
<1>4. PICK sge \in Strings : sge = sg \o e
  BY <1>3
<1>5. (c \o sge) \o d = c \o (sge \o d) /\ sge \o d \in Strings
  <2>1. Associates(c, sge, d)
    BY JoinedThree, Zenon
  <2> QED BY <2>1, JoinedIs, Zenon DEF Associates
<1> QED BY <1>1, <1>2, <1>3, <1>4, <1>5 DEF RecordOctets, RecordJoins

FieldsJoin(c, s, g, z) ==
    (c \o s) \o (g \o z) = ((c \o s) \o g) \o z /\ (c \o s) \o g \in Strings

LEMMA FieldsJoined ==
    ASSUME NEW c \in Strings, NEW s \in Strings, NEW g \in Strings, NEW z \in Strings
    PROVE  FieldsJoin(c, s, g, z)
<1>1. PICK cs \in Strings : cs = c \o s
  BY Joined
<1>2. (cs \o g) \o z = cs \o (g \o z) /\ cs \o g \in Strings
  BY Joined
<1> QED BY <1>1, <1>2 DEF FieldsJoin

LEMMA FilledIs ==
    ASSUME NEW p \in Strings, NEW z \in Strings, Sized(z, 2), NEW d \in Strings
    PROVE  Filled((p \o z) \o d, Len(p \o z)) = (p \o ToU16(Len(d))) \o d
<1>1. PICK k \in Nat : k = 2
  OBVIOUS
<1>2. k = Len(z)
  BY <1>1 DEF Sized
<1>3. /\ SubSeq((p \o z) \o d, 1, Len(p \o z) - k) = p
      /\ SubSeq((p \o z) \o d, Len(p \o z) + 1, Len((p \o z) \o d)) = d
      /\ Len((p \o z) \o d) - Len(p \o z) = Len(d)
  BY <1>2, SizeFilled
<1> QED BY <1>1, <1>3, Zenon DEF Filled

LEMMA FilledSize ==
    ASSUME NEW p \in Strings, NEW z, Sized(z, 2), NEW e, Sized(e, 2), NEW d \in Strings
    PROVE  Len((p \o e) \o d) = Len((p \o z) \o d) /\ (p \o e) \o d \in Strings
<1>1. PICK k : k = 2
  OBVIOUS
<1>2. Sized(z, k) /\ Sized(e, k) /\ Sized(p, Len(p)) /\ Sized(d, Len(d))
  BY <1>1, Zenon DEF Sized
<1>3. Sized(p \o e, Len(p) + k) /\ Sized(p \o z, Len(p) + k)
  BY <1>2, JoinedSized, Zenon
<1>4. Sized((p \o e) \o d, (Len(p) + k) + Len(d)) /\ Sized((p \o z) \o d, (Len(p) + k) + Len(d))
  BY <1>2, <1>3, JoinedSized, Zenon
<1> QED BY <1>4, Zenon DEF Sized

LEMMA RecordSized ==
    ASSUME NEW s, NEW g, NEW e, NEW d, NEW m \in Nat, Sized(s, m), Sized(g, 8), Sized(e, 2),
           NEW n \in Nat, Sized(d, n)
    PROVE  /\ Sized(RecordOctets(s, g, e, d), m + 10 + n)
           /\ Sized(s \o g, m + 8) /\ Sized((s \o g) \o e, m + 10)
<1>1. PICK x, y : x = 8 /\ y = 2
  OBVIOUS
<1>2. Sized(g, x) /\ Sized(e, y)
  BY <1>1
<1>3. Sized(s \o g, m + x)
  BY <1>2, JoinedSized, Zenon
<1>4. Sized((s \o g) \o e, (m + x) + y)
  BY <1>2, <1>3, JoinedSized, Zenon
<1>5. Sized(((s \o g) \o e) \o d, ((m + x) + y) + n)
  BY <1>4, JoinedSized, Zenon
<1>6. m + x = m + 8 /\ (m + x) + y = m + 10 /\ ((m + x) + y) + n = m + 10 + n
  BY <1>1
<1> QED BY <1>3, <1>4, <1>5, <1>6, Zenon DEF RecordOctets

(* Where the parts of a record stand.                                        *)
RecordParts(b, at, s, g, e, d, m, n) ==
    /\ At(b, at, s) /\ At(b, at + m, g) /\ At(b, (at + m) + 8, e) /\ At(b, (at + m) + 10, d)
    /\ (at + m) + 10 + n <= Len(b)

LEMMA RecordAt ==
    ASSUME NEW b \in Strings, NEW at \in Nat, NEW s \in Strings, NEW g \in Strings, NEW e \in Strings,
           NEW d \in Strings, At(b, at, RecordOctets(s, g, e, d)), NEW m \in Nat, Sized(s, m),
           Sized(g, 8), Sized(e, 2), NEW n \in Nat, Sized(d, n)
    PROVE  RecordParts(b, at, s, g, e, d, m, n)
<1>1. PICK sg, sge : sg = s \o g /\ sge = (s \o g) \o e
  OBVIOUS
<1>2. Sized(s \o g, m + 8) /\ Sized((s \o g) \o e, m + 10)
  BY RecordSized, Zenon
<1>3. sg \in Strings /\ sge \in Strings /\ Len(sg) = m + 8 /\ Len(sge) = m + 10 /\ Len(s) = m
  BY <1>1, <1>2, Zenon DEF Sized
<1>4. At(b, at, sge) /\ At(b, at + Len(sge), d)
  BY <1>1, <1>3, AtSplit DEF RecordOctets
<1>5. At(b, at, sg) /\ At(b, at + Len(sg), e)
  BY <1>1, <1>3, <1>4, AtSplit
<1>6. At(b, at, s) /\ At(b, at + Len(s), g)
  BY <1>1, <1>5, AtSplit
<1>7. at + (m + 8) = (at + m) + 8 /\ at + (m + 10) = (at + m) + 10
  OBVIOUS
<1>8. At(b, at + m, g) /\ At(b, (at + m) + 8, e) /\ At(b, (at + m) + 10, d)
  BY <1>3, <1>4, <1>5, <1>6, <1>7, Zenon
<1>9. (at + m) + 10 + n <= Len(b)
  BY <1>8, Zenon DEF At, Sized
<1> QED BY <1>6, <1>8, <1>9 DEF RecordParts

LEMMA AnswerRead ==
    ASSUME NEW b \in Strings, NEW at \in Nat, NEW m \in Nat \ {0}, NEW dotted,
           ParseName(b, at, Len(b)) = [size |-> m, name |-> dotted],
           NEW type, U16(b, at + m) = type, NEW n \in Nat, U16(b, (at + m) + 8) = n,
           (at + m) + 10 + n <= Len(b), NEW read,
           ReadDnsRecordData(b, type, (at + m) + 10, n) = read
    PROVE  ParseAnswer(b, at) = Answer([size |-> m, name |-> dotted], n, read)
<1>1. PICK l \in Nat : l = Len(b)
  BY DEF Strings
<1>2. ~ (at + 6 > l) /\ ~ ((at + m) + 10 > l) /\ ~ ((at + m) + 10 + n > l) /\ m # 0
  BY <1>1
<1>3. PICK parsed : parsed = [size |-> m, name |-> dotted]
  OBVIOUS
<1>4. ParseAnswer(b, at) = AnswerAt(b, at, parsed)
  BY <1>1, <1>2, <1>3, Zenon DEF ParseAnswer
<1>5. parsed.size = m /\ ~ (parsed.size = 0)
  BY <1>3
<1>6. ~ (at + parsed.size + 10 > Len(b)) /\ ~ (at + parsed.size + 10 + n > Len(b))
  BY <1>1, <1>2, <1>5
<1>7. /\ U16(b, at + parsed.size) = type /\ U16(b, at + parsed.size + 8) = n
      /\ ReadDnsRecordData(b, type, at + parsed.size + 10, n) = read
  BY <1>5
<1>8. AnswerAt(b, at, parsed) = Answer(parsed, n, read)
  BY <1>5, <1>6, <1>7, Zenon DEF AnswerAt
<1> QED BY <1>3, <1>4, <1>8

LEMMA AnswerIs ==
    ASSUME NEW record \in Records, NEW m, NEW n
    PROVE  Answer([size |-> m, name |-> record.name], n,
                  Data(record.data.kind, record.data.name, record.data.octets))
              = ValueAt(m + 10 + n, record)
<1>1. PICK data : data = [kind |-> record.data.kind, name |-> record.data.name,
                         octets |-> record.data.octets]
  OBVIOUS
<1>2. data = record.data /\ record = [name |-> record.name, data |-> record.data]
  BY <1>1 DEF Records
<1>3. PICK read : read = Data(record.data.kind, record.data.name, record.data.octets)
  OBVIOUS
<1>4. read.size = 1 /\ read.data = data
  BY <1>1, <1>3 DEF Data
<1>5. Answer([size |-> m, name |-> record.name], n, read)
         = [size |-> m + 10 + n, value |-> [name |-> record.name, data |-> data]]
  BY <1>4 DEF Answer, RecordSize
<1> QED BY <1>2, <1>3, <1>5 DEF ValueAt

LEMMA TypeIs ==
    ASSUME NEW record \in Records
    PROVE  TypeOf(record.data.kind) \in Nat /\ TypeOf(record.data.kind) < NumberLimit
<1>1. record.data.kind \in {"A", "PTR", "TXT", "SRV", "octets"}
  BY DEF Records
<1>2. TypeOf(record.data.kind) \in {1, 12, 16, 33, 47}
  BY <1>1 DEF TypeOf, TypeA, TypePTR, TypeTXT, TypeSRV
<1> QED BY <1>2 DEF NumberLimit

LEMMA RecordWritten ==
    ASSUME NEW w \in Writers, NEW record \in Records, IsName(record.name), IsData(record.data),
           NEW compress \in BOOLEAN, NEW section, ~ (section = "questions")
    PROVE  \E s : Holds(section, w, s, record, WriteRecord(w, record, compress))
<1>1. PICK dotted, data, type : /\ dotted = record.name /\ data = record.data
                                /\ type = TypeOf(record.data.kind)
  OBVIOUS
<1>2. PICK owner : owner = WriteName(w, dotted, compress)
  OBVIOUS
<1>3. PICK s : NameWrites(w, s, dotted, owner)
  BY <1>1, <1>2, NameWritten
<1>4. PICK m \in Nat \ {0} : m = Len(s)
  BY <1>3 DEF NameWrites
<1>5. Behind(w, s, owner) /\ NameIn(w, s, dotted, owner) /\ s \in Strings /\ owner \in Writers
  BY <1>3 DEF NameWrites, Behind
<1>6. PICK g, z : g = TypeAndClass(type) /\ z = ToU16(0)
  OBVIOUS
<1>7. g \in Strings /\ Sized(g, 8) /\ z \in Strings /\ Sized(z, 2)
  <2>1. type \in Nat /\ type < NumberLimit
    BY <1>1, TypeIs
  <2>2. 0 \in Nat /\ 0 < NumberLimit
    BY DEF NumberLimit
  <2>3. ToU16(0) \in Strings /\ Len(ToU16(0)) = 2
    BY <2>2, NumberOctets
  <2>4. g \in Strings /\ Len(g) = 8
    BY <1>6, <2>1, FieldsAre
  <2> QED BY <1>6, <2>3, <2>4, Zenon DEF Sized
<1>8. PICK fields : fields = Write(owner, g \o z)
  OBVIOUS
<1>9. /\ Behind(owner, g \o z, fields) /\ fields \in Writers
      /\ \A b \in Strings : PlacesRead(b, owner) => PlacesRead(b, fields)
  <2>1. g \o z \in Strings
    BY <1>7, JoinedIs, Zenon
  <2> QED BY <1>5, <1>8, <2>1, WriteIs DEF Behind
<1>10. PICK written : written = WriteData(fields, data, compress)
  OBVIOUS
<1>11. PICK d : DataWrites(fields, d, data, written)
  BY <1>1, <1>9, <1>10, DataWritten
<1>12. Behind(fields, d, written) /\ d \in Strings /\ written \in Writers
  BY <1>11, Zenon DEF DataWrites, Behind
<1>13. PICK n \in Nat : n = Len(d) /\ n < NumberLimit
  BY <1>11 DEF DataWrites
<1>14. PICK c, e : c = w.octets /\ e = ToU16(n)
  OBVIOUS
<1>15. c \in Strings /\ e \in Strings /\ Sized(e, 2) /\ Sized(s, m) /\ Sized(d, n)
  <2>1. ToU16(n) \in Strings /\ Len(ToU16(n)) = 2
    BY <1>13, NumberOctets
  <2>2. w.octets \in Strings
    BY WriterIs
  <2> QED BY <1>4, <1>5, <1>12, <1>13, <1>14, <2>1, <2>2, Zenon DEF Sized
<1>16. owner.octets = c \o s /\ fields.octets = (c \o s) \o (g \o z)
       /\ written.octets = ((c \o s) \o (g \o z)) \o d
  BY <1>5, <1>9, <1>12, <1>14, Zenon DEF Behind
<1>17. PICK p : p = (c \o s) \o g
  OBVIOUS
<1>18. p \in Strings /\ fields.octets = p \o z /\ written.octets = (p \o z) \o d
  <2>1. FieldsJoin(c, s, g, z)
    BY <1>5, <1>7, <1>15, FieldsJoined
  <2> QED BY <1>16, <1>17, <2>1, Zenon DEF FieldsJoin
<1>19. PICK o : o = Filled(written.octets, Len(fields.octets))
  OBVIOUS
<1>20. o = (p \o e) \o d
  <2>1. Filled((p \o z) \o d, Len(p \o z)) = (p \o ToU16(Len(d))) \o d
    BY <1>7, <1>12, <1>18, FilledIs, Zenon
  <2> QED BY <1>13, <1>14, <1>18, <1>19, <2>1, Zenon
<1>21. o \in Strings /\ Len(o) = Len(written.octets)
  <2>1. Len((p \o e) \o d) = Len((p \o z) \o d) /\ (p \o e) \o d \in Strings
    BY <1>7, <1>12, <1>15, <1>18, FilledSize, Zenon
  <2> QED BY <1>18, <1>20, <2>1, Zenon
<1>22. PICK v : v = [octets |-> o, places |-> written.places]
  OBVIOUS
<1>23. v \in Writers /\ \A b \in Strings : PlacesRead(b, written) => PlacesRead(b, v)
  BY <1>12, <1>21, <1>22, SamePlaces
<1>24. v = WriteRecord(w, record, compress)
  <2>1. [written EXCEPT !.octets = o] = v
    BY <1>12, <1>22 DEF Writers
  <2>2. Write(owner, ToU16(TypeOf(record.data.kind)) \o ToU16(1) \o ToU16(0)
                        \o ToU16(120) \o ToU16(0)) = fields
    BY <1>1, <1>6, <1>8, Zenon DEF TypeAndClass
  <2>3. WriteRecord(w, record, compress) = [written EXCEPT !.octets = Filled(written.octets, Len(fields.octets))]
    BY <1>1, <1>2, <1>10, <2>2 DEF WriteRecord
  <2> QED BY <1>19, <2>1, <2>3
<1>25. PICK r : r = RecordOctets(s, g, e, d)
  OBVIOUS
<1>26. r \in Strings /\ v.octets = c \o r
  <2>1. RecordJoins(c, s, g, e, d)
    BY <1>5, <1>7, <1>12, <1>15, RecordJoined
  <2>2. v.octets = o
    BY <1>22
  <2> QED BY <1>17, <1>20, <1>25, <2>1, <2>2, Zenon DEF RecordJoins
<1>27. Behind(w, r, v)
  BY <1>14, <1>23, <1>26, BehindIs, Zenon
<1>28. PICK at \in Nat : at = Len(w.octets)
  BY WriterIs
<1>29. Len(owner.octets) = at + m /\ Len(fields.octets) = (at + m) + 10
  <2>1. Sized(g \o z, 8 + 2)
    BY <1>7, JoinedSized, Zenon
  <2>2. Len(owner.octets) = at + m
    BY <1>4, <1>5, <1>28 DEF Behind
  <2>3. Len(fields.octets) = (at + m) + Len(g \o z)
    BY <1>9, <2>2 DEF Behind
  <2>4. 8 + 2 = 10
    OBVIOUS
  <2> QED BY <2>1, <2>2, <2>3, <2>4, Zenon DEF Sized
<1>30. ASSUME NEW b \in Strings, At(b, at, r), PlacesRead(b, w)
       PROVE  /\ PlacesRead(b, v)
              /\ ParseAnswer(b, at) = IF Unread(section, record) THEN Nothing
                                      ELSE ValueAt(m + 10 + n, record)
  <2>1. /\ At(b, at, s) /\ At(b, at + m, g) /\ At(b, (at + m) + 8, e) /\ At(b, (at + m) + 10, d)
        /\ (at + m) + 10 + n <= Len(b)
    <3>1. m \in Nat /\ At(b, at, RecordOctets(s, g, e, d))
      BY <1>25, <1>30
    <3>2. RecordParts(b, at, s, g, e, d, m, n)
      BY <1>5, <1>7, <1>12, <1>15, <3>1, RecordAt
    <3> QED BY <3>2, Zenon DEF RecordParts
  <2>2. At(b, Len(w.octets), s)
    BY <1>28, <2>1
  <2>3. PlacesRead(b, owner)
    BY <1>5, <1>30, <2>2, Zenon DEF NameIn
  <2>4. PlacesRead(b, fields)
    BY <1>9, <2>3
  <2>5. At(b, Len(fields.octets), d)
    BY <1>29, <2>1
  <2>6. /\ PlacesRead(b, written)
        /\ ReadDnsRecordData(b, TypeOf(data.kind), Len(fields.octets), Len(d))
              = IF data.kind = "TXT" /\ data.octets = <<>> THEN Nothing
                ELSE Data(data.kind, data.name, data.octets)
    BY <1>11, <2>4, <2>5, Zenon DEF DataWrites
  <2>7. PlacesRead(b, v)
    BY <1>23, <2>6
  <2>8. PICK l \in Nat : l = Len(b)
    BY DEF Strings
  <2>9. ParseName(b, at, Len(b)) = [size |-> m, name |-> dotted]
    <3>1. Len(w.octets) + Len(s) <= l /\ l <= Len(b)
      BY <1>4, <1>28, <2>1, <2>8
    <3>2. ParseName(b, Len(w.octets), l) = [size |-> Len(s), name |-> dotted]
      BY <1>5, <1>30, <2>2, <3>1, Zenon DEF NameIn
    <3> QED BY <1>4, <1>28, <2>8, <3>2, Zenon
  <2>10. U16(b, at + m) = type
    <3>1. type \in Nat /\ type < NumberLimit
      BY <1>1, TypeIs
    <3>2. at + m \in Nat /\ At(b, at + m, TypeAndClass(type))
      BY <1>6, <2>1
    <3> QED BY <3>1, <3>2, FieldsAre
  <2>11. U16(b, (at + m) + 8) = n
    <3>1. (at + m) + 8 \in Nat /\ At(b, (at + m) + 8, ToU16(n))
      BY <1>14, <2>1
    <3> QED BY <1>13, <3>1, AtNumber
  <2>12. PICK read : read = IF data.kind = "TXT" /\ data.octets = <<>> THEN Nothing
                            ELSE Data(data.kind, data.name, data.octets)
    OBVIOUS
  <2>13. ReadDnsRecordData(b, type, (at + m) + 10, n) = read
    BY <1>1, <1>13, <1>29, <2>6, <2>12, Zenon
  <2>14. ParseAnswer(b, at) = Answer([size |-> m, name |-> dotted], n, read)
    BY <2>1, <2>9, <2>10, <2>11, <2>13, AnswerRead
  <2>15. CASE data.kind = "TXT" /\ data.octets = <<>>
    <3>1. Unread(section, record)
      BY <1>1, <2>15 DEF Unread
    <3>2. read.size = 0
      BY <2>12, <2>15 DEF Nothing
    <3>3. Answer([size |-> m, name |-> dotted], n, read) = Nothing
      BY <3>2, Zenon DEF Answer
    <3> QED BY <2>1, <2>7, <2>14, <3>1, <3>3, Zenon
  <2>16. CASE ~ (data.kind = "TXT" /\ data.octets = <<>>)
    <3>1. ~Unread(section, record)
      BY <1>1, <2>16 DEF Unread
    <3>2. read = Data(record.data.kind, record.data.name, record.data.octets)
      BY <1>1, <2>12, <2>16
    <3>3. ParseAnswer(b, at) = ValueAt(m + 10 + n, record)
      BY <1>1, <2>14, <3>2, AnswerIs
    <3> QED BY <2>1, <2>7, <3>1, <3>3, Zenon
  <2> QED BY <2>15, <2>16
<1>31. Len(r) = m + 10 + n
  <2>1. m \in Nat
    OBVIOUS
  <2>2. Sized(RecordOctets(s, g, e, d), m + 10 + n)
    BY <1>7, <1>15, <2>1, RecordSized, Zenon
  <2> QED BY <1>25, <2>2, Zenon DEF Sized
<1>32. Len(r) \in Nat \ {0}
  <2>1. m + 10 + n \in Nat \ {0}
    OBVIOUS
  <2> QED BY <1>31, <2>1, Zenon
<1>33. ASSUME NEW b \in Strings, At(b, Len(w.octets), r), PlacesRead(b, w)
       PROVE  /\ PlacesRead(b, v)
              /\ Parse(section, b, Len(w.octets))
                    = IF Unread(section, record) THEN Nothing ELSE ValueAt(Len(r), record)
  <2>1. Parse(section, b, Len(w.octets)) = ParseAnswer(b, at)
    BY <1>28, Zenon DEF Parse
  <2> QED BY <1>28, <1>30, <1>31, <1>33, <2>1, Zenon
<1> QED BY <1>24, <1>27, <1>32, <1>33, Zenon DEF Holds

-----------------------------------------------------------------------------
(* Sections: values one behind the other.                                    *)

Chain(section, w, xs, f) ==
    /\ f \in [0 .. Len(xs) -> Writers] /\ f[0] = w
    /\ \A k \in 0 .. Len(xs) - 1 : \E s : Holds(section, f[k], s, xs[k + 1], f[k + 1])

(* What a recursive definition with values in V gives.                       *)
Follows(f, p, g, V, n) ==
    /\ DOMAIN f = 0 .. n /\ f = [i \in DOMAIN f |-> f[i]] /\ f[0] = p
    /\ \A k \in 0 .. n - 1 : f[k] \in V => f[k + 1] = g[k + 1][f[k]]

LEMMA CountsFrom ==
    ASSUME NEW V, NEW p \in V, NEW n \in Nat, NEW g, \A i \in 1 .. n : g[i] \in [V -> V],
           NEW f, Follows(f, p, g, V, n)
    PROVE  Counts(f, p, g, V, n)
<1> DEFINE S == {k \in Nat : k <= n => f[k] \in V}
<1>1. 0 \in S
  BY DEF Follows
<1>2. ASSUME NEW k \in Nat, k \in S PROVE k + 1 \in S
  <2> SUFFICES ASSUME k + 1 <= n PROVE f[k + 1] \in V
    OBVIOUS
  <2>1. k \in 0 .. n - 1 /\ k + 1 \in 1 .. n /\ f[k] \in V
    BY <1>2
  <2>2. f[k + 1] = g[k + 1][f[k]] /\ g[k + 1] \in [V -> V]
    BY <2>1 DEF Follows
  <2> QED BY <2>1, <2>2
<1>3. Nat \subseteq S
  <2> HIDE DEF S
  <2> QED BY <1>1, <1>2, NumbersFrom
<1>4. \A k \in 0 .. n : f[k] \in V
  BY <1>3
<1>5. f \in [0 .. n -> V]
  <2>1. DOMAIN f = 0 .. n /\ f = [i \in DOMAIN f |-> f[i]]
    BY Zenon DEF Follows
  <2> HIDE DEF S
  <2> QED BY <1>4, <2>1
<1>6. \A k \in 0 .. n - 1 : k \in 0 .. n
  OBVIOUS
<1> HIDE DEF S
<1> QED BY <1>4, <1>5, <1>6, Zenon DEF Follows, Counts

LEMMA ChainIs ==
    ASSUME NEW w \in Writers, NEW section, NEW xs, NEW n \in Nat, n = Len(xs), NEW g, NEW f,
           Counts(f, w, g, Writers, n),
           \A i \in 1 .. n, u \in Writers : \E s : Holds(section, u, s, xs[i], g[i][u])
    PROVE  Chain(section, w, xs, f)
<1>1. ASSUME NEW k \in 0 .. n - 1 PROVE \E s : Holds(section, f[k], s, xs[k + 1], f[k + 1])
  <2>1. k + 1 \in 1 .. n /\ k \in 0 .. n
    OBVIOUS
  <2>2. f[k] \in Writers /\ f[k + 1] = g[k + 1][f[k]]
    BY <2>1, Zenon DEF Counts
  <2>3. \E s : Holds(section, f[k], s, xs[k + 1], g[k + 1][f[k]])
    BY <2>1, <2>2, Zenon
  <2> QED BY <2>2, <2>3, Zenon
<1> QED BY <1>1, Zenon DEF Chain, Counts

QuestionsFrom(h, w, xs, compress) ==
    [i \in 0 .. Len(xs) |-> IF i = 0 THEN w ELSE WriteQuestion(h[i - 1], xs[i], compress)]
RecordsFrom(h, w, xs, compress) ==
    [i \in 0 .. Len(xs) |-> IF i = 0 THEN w ELSE WriteRecord(h[i - 1], xs[i], compress)]

LEMMA QuestionsWritten ==
    ASSUME NEW w \in Writers, NEW xs \in Seq(Questions),
           \A i \in DOMAIN xs : IsName(xs[i].name) /\ ~IsRoot(xs[i].name), NEW compress \in BOOLEAN
    PROVE  \E f : Chain("questions", w, xs, f) /\ f[Len(xs)] = WriteQuestions(w, xs, compress)
<1> DEFINE n == Len(xs)
           g == [i \in 1 .. n |-> [u \in Writers |-> WriteQuestion(u, xs[i], compress)]]
           h == CHOOSE f : f = QuestionsFrom(f, w, xs, compress)
<1>1. n \in Nat /\ DOMAIN xs = 1 .. n /\ \A i \in 1 .. n : xs[i] \in Questions
  OBVIOUS
<1>2. \A i \in 1 .. n, u \in Writers :
         g[i][u] = WriteQuestion(u, xs[i], compress) /\ DOMAIN g[i] = Writers
  OBVIOUS
<1> HIDE DEF n
<1>3. \A i \in 1 .. n : g[i] = [u \in Writers |-> g[i][u]]
  OBVIOUS
<1> HIDE DEF g
<1>4. ASSUME NEW i \in 1 .. n, NEW u \in Writers
      PROVE  \E s : Holds("questions", u, s, xs[i], g[i][u])
  <2>1. \E s : Holds("questions", u, s, xs[i], WriteQuestion(u, xs[i], compress))
    BY <1>1, QuestionWritten
  <2> QED BY <1>2, <2>1, Zenon
<1>5. \A i \in 1 .. n : g[i] \in [Writers -> Writers]
  <2>1. \A i \in 1 .. n, u \in Writers : g[i][u] \in Writers
    BY <1>4, Zenon DEF Holds, Behind
  <2> QED BY <1>3, <2>1
<1>6. PICK f : Counts(f, w, g, Writers, n)
  BY <1>1, <1>5, CountsExist
<1>7. f = QuestionsFrom(f, w, xs, compress)
  <2>1. ASSUME NEW i \in 0 .. n
        PROVE  f[i] = IF i = 0 THEN w ELSE WriteQuestion(f[i - 1], xs[i], compress)
    <3>1. CASE i = 0
      BY <1>6, <3>1, Zenon DEF Counts
    <3>2. CASE i # 0
      <4>1. PICK k \in 0 .. n - 1 : k = i - 1 /\ k + 1 = i
        <5>1. i - 1 \in 0 .. n - 1 /\ i - 1 + 1 = i
          BY <1>1, <3>2
        <5> QED BY <5>1
      <4>2. i \in 1 .. n /\ k \in 0 .. n
        BY <1>1, <3>2, <4>1
      <4>3. f[k + 1] = g[k + 1][f[k]] /\ f[k] \in Writers
        BY <1>6, <4>2, Zenon DEF Counts
      <4>4. f[i] = WriteQuestion(f[i - 1], xs[i], compress)
        BY <1>2, <4>1, <4>2, <4>3, Zenon
      <4> QED BY <3>2, <4>4
    <3> QED BY <3>1, <3>2
  <2>2. f = [i \in 0 .. n |-> f[i]]
    BY <1>6 DEF Counts
  <2> QED BY <2>1, <2>2, Zenon DEF QuestionsFrom, n
<1>8. h = QuestionsFrom(h, w, xs, compress)
  BY <1>7
<1>9. WriteQuestions(w, xs, compress) = h[Len(xs)]
  BY DEF WriteQuestions, QuestionsFrom
<1> HIDE DEF h
<1>10. Follows(h, w, g, Writers, n)
  <2>1. h = [i \in 0 .. n |-> IF i = 0 THEN w ELSE WriteQuestion(h[i - 1], xs[i], compress)]
    BY <1>8, Zenon DEF QuestionsFrom, n
  <2>2. /\ DOMAIN h = 0 .. n /\ h = [i \in DOMAIN h |-> h[i]]
        /\ \A i \in 0 .. n : h[i] = IF i = 0 THEN w ELSE WriteQuestion(h[i - 1], xs[i], compress)
    BY <2>1, Zenon
  <2>3. h[0] = w
    BY <1>1, <2>2
  <2>4. ASSUME NEW k \in 0 .. n - 1, h[k] \in Writers PROVE h[k + 1] = g[k + 1][h[k]]
    <3>1. k + 1 \in 0 .. n /\ k + 1 \in 1 .. n /\ k + 1 # 0 /\ (k + 1) - 1 = k
      BY <1>1
    <3>2. h[k + 1] = WriteQuestion(h[k], xs[k + 1], compress)
      BY <2>2, <3>1
    <3> QED BY <1>2, <2>4, <3>1, <3>2, Zenon
  <2> QED BY <2>2, <2>3, <2>4, Zenon DEF Follows
<1>11. Counts(h, w, g, Writers, n)
  BY <1>1, <1>5, <1>10, CountsFrom
<1>12. Chain("questions", w, xs, h)
  BY <1>1, <1>4, <1>11, ChainIs DEF n
<1> QED BY <1>9, <1>12

LEMMA RecordsWritten ==
    ASSUME NEW w \in Writers, NEW xs \in Seq(Records),
           \A i \in DOMAIN xs : IsRecord(xs[i]), NEW compress \in BOOLEAN,
           NEW section, ~ (section = "questions")
    PROVE  \E f : Chain(section, w, xs, f) /\ f[Len(xs)] = WriteRecords(w, xs, compress)
<1> DEFINE n == Len(xs)
           g == [i \in 1 .. n |-> [u \in Writers |-> WriteRecord(u, xs[i], compress)]]
           h == CHOOSE f : f = RecordsFrom(f, w, xs, compress)
<1>1. n \in Nat /\ DOMAIN xs = 1 .. n /\ \A i \in 1 .. n : xs[i] \in Records
  OBVIOUS
<1>2. \A i \in 1 .. n, u \in Writers :
         g[i][u] = WriteRecord(u, xs[i], compress) /\ DOMAIN g[i] = Writers
  OBVIOUS
<1> HIDE DEF n
<1>3. \A i \in 1 .. n : g[i] = [u \in Writers |-> g[i][u]]
  OBVIOUS
<1> HIDE DEF g
<1>4. ASSUME NEW i \in 1 .. n, NEW u \in Writers
      PROVE  \E s : Holds(section, u, s, xs[i], g[i][u])
  <2>1. \E s : Holds(section, u, s, xs[i], WriteRecord(u, xs[i], compress))
    <3>1. xs[i] \in Records /\ IsName(xs[i].name) /\ IsData(xs[i].data)
      BY <1>1, Zenon DEF IsRecord
    <3> QED BY <3>1, RecordWritten
  <2> QED BY <1>2, <2>1, Zenon
<1>5. \A i \in 1 .. n : g[i] \in [Writers -> Writers]
  <2>1. \A i \in 1 .. n, u \in Writers : g[i][u] \in Writers
    BY <1>4, Zenon DEF Holds, Behind
  <2> QED BY <1>3, <2>1
<1>6. PICK f : Counts(f, w, g, Writers, n)
  BY <1>1, <1>5, CountsExist
<1>7. f = RecordsFrom(f, w, xs, compress)
  <2>1. ASSUME NEW i \in 0 .. n
        PROVE  f[i] = IF i = 0 THEN w ELSE WriteRecord(f[i - 1], xs[i], compress)
    <3>1. CASE i = 0
      BY <1>6, <3>1, Zenon DEF Counts
    <3>2. CASE i # 0
      <4>1. PICK k \in 0 .. n - 1 : k = i - 1 /\ k + 1 = i
        <5>1. i - 1 \in 0 .. n - 1 /\ i - 1 + 1 = i
          BY <1>1, <3>2
        <5> QED BY <5>1
      <4>2. i \in 1 .. n /\ k \in 0 .. n
        BY <1>1, <3>2, <4>1
      <4>3. f[k + 1] = g[k + 1][f[k]] /\ f[k] \in Writers
        BY <1>6, <4>2, Zenon DEF Counts
      <4>4. f[i] = WriteRecord(f[i - 1], xs[i], compress)
        BY <1>2, <4>1, <4>2, <4>3, Zenon
      <4> QED BY <3>2, <4>4
    <3> QED BY <3>1, <3>2
  <2>2. f = [i \in 0 .. n |-> f[i]]
    BY <1>6 DEF Counts
  <2> QED BY <2>1, <2>2, Zenon DEF RecordsFrom, n
<1>8. h = RecordsFrom(h, w, xs, compress)
  BY <1>7
<1>9. WriteRecords(w, xs, compress) = h[Len(xs)]
  BY DEF WriteRecords, RecordsFrom
<1> HIDE DEF h
<1>10. Follows(h, w, g, Writers, n)
  <2>1. h = [i \in 0 .. n |-> IF i = 0 THEN w ELSE WriteRecord(h[i - 1], xs[i], compress)]
    BY <1>8, Zenon DEF RecordsFrom, n
  <2>2. /\ DOMAIN h = 0 .. n /\ h = [i \in DOMAIN h |-> h[i]]
        /\ \A i \in 0 .. n : h[i] = IF i = 0 THEN w ELSE WriteRecord(h[i - 1], xs[i], compress)
    BY <2>1, Zenon
  <2>3. h[0] = w
    BY <1>1, <2>2
  <2>4. ASSUME NEW k \in 0 .. n - 1, h[k] \in Writers PROVE h[k + 1] = g[k + 1][h[k]]
    <3>1. k + 1 \in 0 .. n /\ k + 1 \in 1 .. n /\ k + 1 # 0 /\ (k + 1) - 1 = k
      BY <1>1
    <3>2. h[k + 1] = WriteRecord(h[k], xs[k + 1], compress)
      BY <2>2, <3>1
    <3> QED BY <1>2, <2>4, <3>1, <3>2, Zenon
  <2> QED BY <2>2, <2>3, <2>4, Zenon DEF Follows
<1>11. Counts(h, w, g, Writers, n)
  BY <1>1, <1>5, <1>10, CountsFrom
<1>12. Chain(section, w, xs, h)
  BY <1>1, <1>4, <1>11, ChainIs DEF n
<1> QED BY <1>9, <1>12

LEMMA HoldsAt ==
    ASSUME NEW u \in Writers, NEW section, NEW s, NEW x, NEW v, Holds(section, u, s, x, v),
           NEW b \in Strings, At(b, 0, v.octets)
    PROVE  At(b, 0, u.octets) /\ At(b, Len(u.octets), s)
<1>1. s \in Strings /\ v.octets = u.octets \o s
  BY Zenon DEF Holds, Behind
<1>2. PICK c \in Strings : c = u.octets
  BY WriterIs
<1>3. At(b, 0, c \o s)
  BY <1>1, <1>2
<1>4. At(b, 0, c) /\ At(b, 0 + Len(c), s)
  BY <1>1, <1>3, AtSplit
<1>5. PICK l \in Nat : l = Len(c)
  BY DEF Strings
<1>6. 0 + l = l
  OBVIOUS
<1> QED BY <1>2, <1>4, <1>5, <1>6, Zenon

(* The value x is read from b, from offset p to offset q.                    *)
ReadBetween(b, section, x, p, q) ==
    \E z \in Nat \ {0} :
        /\ q = p + z
        /\ Parse(section, b, p) = IF Unread(section, x) THEN Nothing ELSE ValueAt(z, x)

LEMMA SectionRead ==
    ASSUME NEW section, NEW w \in Writers, NEW xs, NEW f, Chain(section, w, xs, f),
           NEW n \in Nat, n = Len(xs), NEW b \in Strings, At(b, 0, f[n].octets)
    PROVE  /\ At(b, 0, w.octets)
           /\ PlacesRead(b, w) =>
                 /\ PlacesRead(b, f[n])
                 /\ \A k \in 0 .. n - 1 :
                       ReadBetween(b, section, xs[k + 1], Len(f[k].octets), Len(f[k + 1].octets))
<1> DEFINE S == {j \in Nat : j <= n => At(b, 0, f[n - j].octets)}
           T == {k \in Nat : k <= n => PlacesRead(b, f[k])}
<1>1. /\ f \in [0 .. n -> Writers] /\ f[0] = w
      /\ \A k \in 0 .. n - 1 : \E s : Holds(section, f[k], s, xs[k + 1], f[k + 1])
  BY Zenon DEF Chain
<1>2. \A k \in 0 .. n : f[k] \in Writers
  BY <1>1
<1>3. 0 \in S
  <2>1. n - 0 = n
    OBVIOUS
  <2> QED BY <2>1
<1>4. ASSUME NEW j \in Nat, j \in S PROVE j + 1 \in S
  <2> SUFFICES ASSUME j + 1 <= n PROVE At(b, 0, f[n - (j + 1)].octets)
    OBVIOUS
  <2>1. PICK k \in 0 .. n - 1 : k = n - (j + 1) /\ k + 1 = n - j /\ k \in 0 .. n
    <3>1. n - (j + 1) \in 0 .. n - 1 /\ (n - (j + 1)) + 1 = n - j /\ n - (j + 1) \in 0 .. n
      OBVIOUS
    <3> QED BY <3>1
  <2>2. At(b, 0, f[k + 1].octets)
    BY <1>4, <2>1
  <2>3. PICK s : Holds(section, f[k], s, xs[k + 1], f[k + 1])
    BY <1>1
  <2> HIDE DEF S
  <2>4. At(b, 0, f[k].octets)
    BY <1>2, <2>1, <2>2, <2>3, HoldsAt
  <2> QED BY <2>1, <2>4
<1>5. Nat \subseteq S
  <2> HIDE DEF S
  <2> QED BY <1>3, <1>4, NumbersFrom
<1>6. \A k \in 0 .. n : At(b, 0, f[k].octets)
  <2> TAKE k \in 0 .. n
  <2>1. n - k \in Nat /\ n - k <= n /\ n - (n - k) = k
    OBVIOUS
  <2> QED BY <1>5, <2>1
<1> HIDE DEF S
<1>7. At(b, 0, w.octets)
  <2>1. 0 \in 0 .. n
    OBVIOUS
  <2> QED BY <1>1, <1>6, <2>1, Zenon
<1>8. ASSUME NEW k \in 0 .. n - 1, PlacesRead(b, f[k])
      PROVE  /\ PlacesRead(b, f[k + 1])
             /\ ReadBetween(b, section, xs[k + 1], Len(f[k].octets), Len(f[k + 1].octets))
  <2>1. k \in 0 .. n /\ k + 1 \in 0 .. n
    OBVIOUS
  <2>2. PICK s : Holds(section, f[k], s, xs[k + 1], f[k + 1])
    BY <1>1
  <2>3. At(b, Len(f[k].octets), s)
    BY <1>2, <1>6, <2>1, <2>2, HoldsAt
  <2>4. /\ PlacesRead(b, f[k + 1])
        /\ Parse(section, b, Len(f[k].octets))
              = IF Unread(section, xs[k + 1]) THEN Nothing ELSE ValueAt(Len(s), xs[k + 1])
    BY <1>8, <2>2, <2>3, Zenon DEF Holds
  <2>5. Len(f[k + 1].octets) = Len(f[k].octets) + Len(s) /\ Len(s) \in Nat \ {0}
    BY <2>2, Zenon DEF Holds, Behind
  <2> QED BY <2>4, <2>5, Zenon DEF ReadBetween
<1>9. ASSUME PlacesRead(b, w) PROVE \A k \in 0 .. n : PlacesRead(b, f[k])
  <2>1. 0 \in T
    BY <1>1, <1>9
  <2>2. ASSUME NEW k \in Nat, k \in T PROVE k + 1 \in T
    <3> SUFFICES ASSUME k + 1 <= n PROVE PlacesRead(b, f[k + 1])
      OBVIOUS
    <3>1. k \in 0 .. n - 1 /\ PlacesRead(b, f[k])
      BY <2>2
    <3> QED BY <1>8, <3>1
  <2>3. Nat \subseteq T
    <3> HIDE DEF T
    <3> QED BY <2>1, <2>2, NumbersFrom
  <2> QED BY <2>3
<1> HIDE DEF T
<1>10. \A k \in 0 .. n - 1 : k \in 0 .. n
  OBVIOUS
<1>11. n \in 0 .. n
  OBVIOUS
<1> QED BY <1>7, <1>8, <1>9, <1>10, <1>11, Zenon

-----------------------------------------------------------------------------
(* The sections of a message.                                                *)

Parsed(at, message) == [size |-> 1, at |-> at, message |-> message]
With(message, section, xs) == [message EXCEPT ![section] = xs]
NextParse(parse, section, b) ==
    IF parse.size = 0 THEN Nothing
    ELSE Extended(parse, section, Parse(section, b, parse.at))

(* A section is parsed value by value.                                       *)
LEMMA SectionIs ==
    ASSUME NEW b, NEW parse, NEW section, NEW n \in Nat, CountOf(b, section) = n,
           NEW h, DOMAIN h = 0 .. n, h = [k \in DOMAIN h |-> h[k]], h[0] = parse,
           \A k \in 0 .. n - 1 : h[k + 1] = NextParse(h[k], section, b)
    PROVE  ParseSection(b, parse, section) = h[n]
<1> DEFINE Eq(f) == [i \in 0 .. n |-> IF i = 0 THEN parse ELSE NextParse(f[i - 1], section, b)]
           a == CHOOSE f : f = Eq(f)
           S == {k \in Nat : k <= n => a[k] = h[k]}
<1>1. h = Eq(h)
  <2>1. ASSUME NEW i \in 0 .. n
        PROVE  h[i] = IF i = 0 THEN parse ELSE NextParse(h[i - 1], section, b)
    <3>1. CASE i = 0
      BY <3>1
    <3>2. CASE i # 0
      <4>1. i - 1 \in 0 .. n - 1 /\ (i - 1) + 1 = i
        BY <3>2
      <4> QED BY <3>2, <4>1
    <3> QED BY <3>1, <3>2
  <2> QED BY <2>1, Zenon
<1>2. a = Eq(a)
  BY <1>1
<1>3. ParseSection(b, parse, section) = a[n]
  BY DEF ParseSection, NextParse
<1> HIDE DEF a
<1>4. \A i \in 0 .. n : a[i] = IF i = 0 THEN parse ELSE NextParse(a[i - 1], section, b)
  BY <1>2, Zenon
<1>5. 0 \in S
  BY <1>4
<1>6. ASSUME NEW k \in Nat, k \in S PROVE k + 1 \in S
  <2> SUFFICES ASSUME k + 1 <= n PROVE a[k + 1] = h[k + 1]
    OBVIOUS
  <2>1. k \in 0 .. n - 1 /\ k + 1 \in 0 .. n /\ k + 1 # 0 /\ (k + 1) - 1 = k /\ a[k] = h[k]
    BY <1>6
  <2>2. a[k + 1] = NextParse(a[k], section, b)
    BY <1>4, <2>1
  <2> QED BY <2>1, <2>2
<1> HIDE DEF S
<1>7. n \in S
  BY <1>5, <1>6, NumbersFrom
<1> QED BY <1>3, <1>7 DEF S

LEMMA NothingSection ==
    ASSUME NEW b, NEW section, CountOf(b, section) \in Nat
    PROVE  ParseSection(b, Nothing, section) = Nothing
<1> DEFINE n == CountOf(b, section)
           h == [k \in 0 .. n |-> Nothing]
<1>1. \A k \in 0 .. n - 1 : h[k] = Nothing /\ h[k + 1] = Nothing
  OBVIOUS
<1>2. NextParse(Nothing, section, b) = Nothing
  BY DEF NextParse, Nothing
<1>3. DOMAIN h = 0 .. n /\ h = [k \in DOMAIN h |-> h[k]] /\ h[0] = Nothing /\ h[n] = Nothing
  OBVIOUS
<1> HIDE DEF h
<1> QED BY <1>1, <1>2, <1>3, SectionIs

LEMMA NextIs ==
    ASSUME NEW message, NEW section, message = [x \in DOMAIN message |-> message[x]],
           section \in DOMAIN message, NEW ys, NEW b, NEW x, NEW p \in Nat, NEW q,
           ReadBetween(b, section, x, p, q)
    PROVE  NextParse(Parsed(p, With(message, section, ys)), section, b)
              = IF Unread(section, x) THEN Nothing
                ELSE Parsed(q, With(message, section, Append(ys, x)))
<1>1. PICK z \in Nat \ {0} :
         /\ q = p + z
         /\ Parse(section, b, p) = IF Unread(section, x) THEN Nothing ELSE ValueAt(z, x)
  BY DEF ReadBetween
<1>2. PICK m, r : m = With(message, section, ys) /\ r = Parsed(p, m)
  OBVIOUS
<1>3. r = [size |-> 1, at |-> p, message |-> m] /\ r.size = 1 /\ r.at = p /\ r.message = m
  BY <1>2 DEF Parsed
<1>4. NextParse(r, section, b) = Extended(r, section, Parse(section, b, p))
  BY <1>3 DEF NextParse
<1>5. CASE Unread(section, x)
  <2>1. Nothing.size = 0
    BY DEF Nothing
  <2>2. Parse(section, b, p) = Nothing
    BY <1>1, <1>5
  <2>3. NextParse(r, section, b) = Nothing
    BY <1>4, <2>1, <2>2 DEF Extended
  <2> QED BY <1>2, <1>5, <2>3
<1>6. CASE ~Unread(section, x)
  <2>1. PICK next : next = ValueAt(z, x)
    OBVIOUS
  <2>2. next.size = z /\ next.value = x /\ next.size # 0
    BY <2>1 DEF ValueAt
  <2>3. Parse(section, b, p) = next
    BY <1>1, <1>6, <2>1
  <2>4. NextParse(r, section, b)
           = [r EXCEPT !.at = @ + next.size, !.message[section] = Append(@, next.value)]
    BY <1>4, <2>2, <2>3, Zenon DEF Extended
  <2>5. [m EXCEPT ![section] = Append(m[section], x)] = With(message, section, Append(ys, x))
    BY <1>2 DEF With
  <2>6. [r EXCEPT !.at = @ + next.size, !.message[section] = Append(@, next.value)]
           = Parsed(q, [m EXCEPT ![section] = Append(m[section], x)])
    <3>1. PICK y : y = [m EXCEPT ![section] = Append(m[section], x)]
      OBVIOUS
    <3>2. PICK s : s = [r EXCEPT !.at = r.at + next.size]
      OBVIOUS
    <3>3. s = [size |-> 1, at |-> q, message |-> m]
      BY <1>1, <1>3, <2>2, <3>2
    <3>4. [s EXCEPT !.message = y] = Parsed(q, y)
      BY <3>3 DEF Parsed
    <3>5. [s.message EXCEPT ![section] = Append(r.message[section], next.value)] = y
      BY <1>3, <2>2, <3>1, <3>3
    <3> QED BY <3>1, <3>2, <3>4, <3>5, Zenon
  <2> QED BY <1>2, <1>6, <2>4, <2>5, <2>6
<1> QED BY <1>5, <1>6

(* A message whose section is still empty.                                   *)
Opens(message, section) ==
    /\ message = [x \in DOMAIN message |-> message[x]]
    /\ section \in DOMAIN message /\ message[section] = <<>>

ParsedFrom(b, section, xs, p, q, message) ==
    ParseSection(b, Parsed(p, message), section)
        = IF \E i \in 1 .. Len(xs) : Unread(section, xs[i]) THEN Nothing
          ELSE Parsed(q, With(message, section, xs))

LEMMA SectionParsed ==
    ASSUME NEW b, NEW section, NEW T, NEW xs \in Seq(T), NEW n \in Nat, n = Len(xs), CountOf(b, section) = n,
           NEW o \in [0 .. n -> Nat], \A k \in 0 .. n - 1 : ReadBetween(b, section, xs[k + 1], o[k], o[k + 1]),
           NEW message, Opens(message, section)
    PROVE  ParsedFrom(b, section, xs, o[0], o[n], message)
<1>0. /\ message = [x \in DOMAIN message |-> message[x]]
      /\ section \in DOMAIN message /\ message[section] = <<>>
  BY Zenon DEF Opens
<1> DEFINE Bad(k) == \E i \in 1 .. k : Unread(section, xs[i])
           P(k) == Parsed(o[k], With(message, section, SubSeq(xs, 1, k)))
           h == [k \in 0 .. n |-> IF Bad(k) THEN Nothing ELSE P(k)]
<1>1. h[0] = Parsed(o[0], message)
  <2>1. ~Bad(0)
    OBVIOUS
  <2>2. SubSeq(xs, 1, 0) = <<>>
    OBVIOUS
  <2>3. With(message, section, <<>>) = message
    BY <1>0 DEF With
  <2>4. h[0] = P(0)
    BY <2>1
  <2> QED BY <2>2, <2>3, <2>4
<1>2. ASSUME NEW k \in 0 .. n - 1 PROVE h[k + 1] = NextParse(h[k], section, b)
  <2>1. k \in 0 .. n /\ k + 1 \in 0 .. n /\ k + 1 \in 1 .. n /\ o[k] \in Nat
    OBVIOUS
  <2>2. Bad(k + 1) <=> Bad(k) \/ Unread(section, xs[k + 1])
    <3>1. \A i \in 1 .. k + 1 : i \in 1 .. k \/ i = k + 1
      OBVIOUS
    <3>2. \A i \in 1 .. k : i \in 1 .. k + 1
      OBVIOUS
    <3>3. k + 1 \in 1 .. k + 1
      OBVIOUS
    <3> QED BY <3>1, <3>2, <3>3, Zenon
  <2>3. Append(SubSeq(xs, 1, k), xs[k + 1]) = SubSeq(xs, 1, k + 1)
    BY <2>1
  <2>4. NextParse(P(k), section, b) = IF Unread(section, xs[k + 1]) THEN Nothing ELSE P(k + 1)
    <3>1. ReadBetween(b, section, xs[k + 1], o[k], o[k + 1])
      OBVIOUS
    <3>2. NextParse(P(k), section, b)
             = IF Unread(section, xs[k + 1]) THEN Nothing
               ELSE Parsed(o[k + 1], With(message, section, Append(SubSeq(xs, 1, k), xs[k + 1])))
      BY <1>0, <2>1, <3>1, NextIs
    <3> QED BY <2>3, <3>2, Zenon
  <2>5. h[k] = (IF Bad(k) THEN Nothing ELSE P(k)) /\ h[k + 1] = IF Bad(k + 1) THEN Nothing ELSE P(k + 1)
    BY <2>1, Zenon
  <2>6. NextParse(Nothing, section, b) = Nothing
    BY DEF NextParse, Nothing
  <2> HIDE DEF Bad, P, h
  <2>7. CASE Bad(k)
    BY <2>2, <2>5, <2>6, <2>7, Zenon
  <2>8. CASE ~Bad(k)
    BY <2>2, <2>4, <2>5, <2>8, Zenon
  <2> QED BY <2>7, <2>8
<1>3. DOMAIN h = 0 .. n /\ h = [k \in DOMAIN h |-> h[k]]
  BY Zenon
<1>4. h[n] = IF Bad(n) THEN Nothing ELSE P(n)
  OBVIOUS
<1>5. SubSeq(xs, 1, n) = xs
  OBVIOUS
<1> HIDE DEF h
<1>6. ParseSection(b, Parsed(o[0], message), section) = h[n]
  BY <1>1, <1>2, <1>3, SectionIs
<1> QED BY <1>4, <1>5, <1>6, Zenon DEF ParsedFrom

LEMMA SectionStep ==
    ASSUME NEW section, NEW w \in Writers, NEW T, NEW xs \in Seq(T), NEW f, Chain(section, w, xs, f),
           NEW n \in Nat, n = Len(xs), NEW b \in Strings, At(b, 0, f[n].octets), PlacesRead(b, w),
           CountOf(b, section) = n, NEW message, Opens(message, section)
    PROVE  /\ PlacesRead(b, f[n])
           /\ ParsedFrom(b, section, xs, Len(w.octets), Len(f[n].octets), message)
<1> DEFINE o == [k \in 0 .. n |-> Len(f[k].octets)]
<1>1. /\ PlacesRead(b, f[n])
      /\ \A k \in 0 .. n - 1 :
            ReadBetween(b, section, xs[k + 1], Len(f[k].octets), Len(f[k + 1].octets))
  BY SectionRead
<1>2. f \in [0 .. n -> Writers] /\ f[0] = w
  BY Zenon DEF Chain
<1>3. \A k \in 0 .. n : f[k] \in Writers
  BY <1>2
<1>4. \A k \in 0 .. n : Len(f[k].octets) \in Nat
  BY <1>3, WriterIs
<1>5. o \in [0 .. n -> Nat]
  BY <1>4
<1>6. \A k \in 0 .. n - 1 : o[k] = Len(f[k].octets) /\ o[k + 1] = Len(f[k + 1].octets)
  OBVIOUS
<1>7. o[0] = Len(w.octets) /\ o[n] = Len(f[n].octets)
  BY <1>2
<1> HIDE DEF o
<1>8. \A k \in 0 .. n - 1 : ReadBetween(b, section, xs[k + 1], o[k], o[k + 1])
  BY <1>1, <1>6, Zenon
<1>9. ParsedFrom(b, section, xs, o[0], o[n], message)
  BY <1>5, <1>8, SectionParsed
<1> QED BY <1>1, <1>7, <1>9, Zenon

LEMMA NoSection ==
    ASSUME NEW b, NEW parse, NEW section, CountOf(b, section) = 0
    PROVE  ParseSection(b, parse, section) = parse
<1>1. PICK n \in Nat : n = 0
  OBVIOUS
<1> DEFINE h == [k \in 0 .. n |-> parse]
<1>2. DOMAIN h = 0 .. n /\ h = [k \in DOMAIN h |-> h[k]] /\ h[0] = parse /\ h[n] = parse
  BY <1>1
<1> HIDE DEF h
<1>3. \A k \in 0 .. n - 1 : h[k + 1] = NextParse(h[k], section, b)
  BY <1>1
<1>4. CountOf(b, section) = n
  BY <1>1
<1>5. ParseSection(b, parse, section) = h[n]
  BY <1>2, <1>3, <1>4, SectionIs
<1> QED BY <1>2, <1>5

(* The header: identifier, flags, and four counts.                           *)
HeaderOctets(t0, t1, t2, t3, t4, t5) == ((((t0 \o t1) \o t2) \o t3) \o t4) \o t5

LEMMA HeaderAt ==
    ASSUME NEW t0, Sized(t0, 2), NEW t1, Sized(t1, 2), NEW t2, Sized(t2, 2), NEW t3, Sized(t3, 2),
           NEW t4, Sized(t4, 2), NEW t5, Sized(t5, 2)
    PROVE  /\ Sized(HeaderOctets(t0, t1, t2, t3, t4, t5), HeaderSize)
           /\ \A b \in Strings : At(b, 0, HeaderOctets(t0, t1, t2, t3, t4, t5)) =>
                 At(b, 2, t1) /\ At(b, 4, t2) /\ At(b, 6, t3) /\ At(b, 8, t4) /\ At(b, 10, t5)
<1>1. PICK k \in Nat : k = 2
  OBVIOUS
<1>2. Sized(t0, k) /\ Sized(t1, k) /\ Sized(t2, k) /\ Sized(t3, k) /\ Sized(t4, k) /\ Sized(t5, k)
  BY <1>1
<1>3. PICK x2 : x2 = t0 \o t1
  OBVIOUS
<1>4. PICK x3 : x3 = x2 \o t2
  OBVIOUS
<1>5. PICK x4 : x4 = x3 \o t3
  OBVIOUS
<1>6. PICK x5 : x5 = x4 \o t4
  OBVIOUS
<1>7. PICK x6 : x6 = x5 \o t5
  OBVIOUS
<1>8. HeaderOctets(t0, t1, t2, t3, t4, t5) = x6
  BY <1>3, <1>4, <1>5, <1>6, <1>7, Zenon DEF HeaderOctets
<1>9. \A s, t, m, n, x : Sized(s, m) /\ Sized(t, n) /\ x = s \o t => Sized(x, m + n)
  BY JoinedSized, Zenon
<1>10. Sized(x2, k + k)
  BY <1>2, <1>3, <1>9, Zenon
<1>11. Sized(x3, (k + k) + k)
  BY <1>2, <1>4, <1>9, <1>10, Zenon
<1>12. Sized(x4, ((k + k) + k) + k)
  BY <1>2, <1>5, <1>9, <1>11, Zenon
<1>13. Sized(x5, (((k + k) + k) + k) + k)
  BY <1>2, <1>6, <1>9, <1>12, Zenon
<1>14. Sized(x6, ((((k + k) + k) + k) + k) + k)
  BY <1>2, <1>7, <1>9, <1>13, Zenon
<1>15. /\ k + k = 4 /\ (k + k) + k = 6 /\ ((k + k) + k) + k = 8 /\ (((k + k) + k) + k) + k = 10
       /\ ((((k + k) + k) + k) + k) + k = HeaderSize
  BY <1>1 DEF HeaderSize
<1>16. \A b, s, t, n, x :
          /\ b \in Strings /\ s \in Strings /\ t \in Strings /\ n \in Nat
          /\ Sized(s, n) /\ x = s \o t /\ At(b, 0, x)
          => At(b, 0, s) /\ At(b, n, t)
  <2> SUFFICES ASSUME NEW b \in Strings, NEW s \in Strings, NEW t \in Strings, NEW n \in Nat,
                      Sized(s, n), At(b, 0, s \o t)
               PROVE  At(b, 0, s) /\ At(b, n, t)
    BY Zenon
  <2>1. At(b, 0, s) /\ At(b, 0 + Len(s), t)
    BY AtSplit
  <2>2. Len(s) = n /\ 0 + n = n
    BY DEF Sized
  <2> QED BY <2>1, <2>2, Zenon
<1>17. \A s, n : Sized(s, n) => s \in Strings
  BY Zenon DEF Sized
<1>18. Sized(x2, 4) /\ Sized(x3, 6) /\ Sized(x4, 8) /\ Sized(x5, 10)
  BY <1>10, <1>11, <1>12, <1>13, <1>15, Zenon
<1>19. 2 \in Nat /\ 4 \in Nat /\ 6 \in Nat /\ 8 \in Nat /\ 10 \in Nat
  OBVIOUS
<1>20. ASSUME NEW b \in Strings, At(b, 0, x6)
       PROVE  At(b, 2, t1) /\ At(b, 4, t2) /\ At(b, 6, t3) /\ At(b, 8, t4) /\ At(b, 10, t5)
  <2>1. At(b, 0, x5) /\ At(b, 10, t5)
    BY <1>7, <1>16, <1>17, <1>18, <1>19, <1>20, Zenon
  <2>2. At(b, 0, x4) /\ At(b, 8, t4)
    BY <1>6, <1>16, <1>17, <1>18, <1>19, <2>1, Zenon
  <2>3. At(b, 0, x3) /\ At(b, 6, t3)
    BY <1>5, <1>16, <1>17, <1>18, <1>19, <2>2, Zenon
  <2>4. At(b, 0, x2) /\ At(b, 4, t2)
    BY <1>4, <1>16, <1>17, <1>18, <1>19, <2>3, Zenon
  <2>5. At(b, 0, t0) /\ At(b, 2, t1)
    BY <1>3, <1>16, <1>17, <1>19, <2>4, Zenon
  <2> QED BY <2>1, <2>2, <2>3, <2>4, <2>5
<1> QED BY <1>8, <1>14, <1>15, <1>20, Zenon

Flag(isResponse) == IF isResponse THEN 32768 ELSE 0
HeaderRead(b, f, q, a, u, d) ==
    U16(b, 2) = f /\ U16(b, 4) = q /\ U16(b, 6) = a /\ U16(b, 8) = u /\ U16(b, 10) = d

LEMMA HeaderOf ==
    ASSUME NEW f \in Nat, f < NumberLimit, NEW q \in Nat, q < NumberLimit,
           NEW a \in Nat, a < NumberLimit, NEW u \in Nat, u < NumberLimit,
           NEW d \in Nat, d < NumberLimit
    PROVE  LET h == HeaderOctets(ToU16(0), ToU16(f), ToU16(q), ToU16(a), ToU16(u), ToU16(d))
           IN  /\ Sized(h, HeaderSize)
               /\ \A b \in Strings : At(b, 0, h) => HeaderRead(b, f, q, a, u, d)
<1>1. \A v \in Nat : v < NumberLimit => Sized(ToU16(v), 2)
  BY NumberOctets DEF Sized
<1>2. 0 \in Nat /\ 0 < NumberLimit
  BY DEF NumberLimit
<1>3. /\ Sized(ToU16(0), 2) /\ Sized(ToU16(f), 2) /\ Sized(ToU16(q), 2)
      /\ Sized(ToU16(a), 2) /\ Sized(ToU16(u), 2) /\ Sized(ToU16(d), 2)
  BY <1>1, <1>2
<1>4. PICK h : h = HeaderOctets(ToU16(0), ToU16(f), ToU16(q), ToU16(a), ToU16(u), ToU16(d))
  OBVIOUS
<1>5. /\ Sized(h, HeaderSize)
      /\ \A b \in Strings : At(b, 0, h) =>
            /\ At(b, 2, ToU16(f)) /\ At(b, 4, ToU16(q)) /\ At(b, 6, ToU16(a))
            /\ At(b, 8, ToU16(u)) /\ At(b, 10, ToU16(d))
  BY <1>3, <1>4, HeaderAt
<1>6. ASSUME NEW b \in Strings, At(b, 0, h) PROVE HeaderRead(b, f, q, a, u, d)
  <2>1. /\ At(b, 2, ToU16(f)) /\ At(b, 4, ToU16(q)) /\ At(b, 6, ToU16(a))
        /\ At(b, 8, ToU16(u)) /\ At(b, 10, ToU16(d))
    BY <1>5, <1>6
  <2>2. U16(b, 2) = f
    BY <2>1, AtNumber
  <2>3. U16(b, 4) = q
    BY <2>1, AtNumber
  <2>4. U16(b, 6) = a
    BY <2>1, AtNumber
  <2>5. U16(b, 8) = u
    BY <2>1, AtNumber
  <2>6. U16(b, 10) = d
    BY <2>1, AtNumber
  <2> QED BY <2>2, <2>3, <2>4, <2>5, <2>6 DEF HeaderRead
<1> QED BY <1>4, <1>5, <1>6, Zenon

LEMMA FlagIs ==
    \A isResponse \in BOOLEAN :
        /\ Flag(isResponse) \in Nat /\ Flag(isResponse) < NumberLimit
        /\ (Flag(isResponse) < 32768) = ~isResponse /\ (Flag(isResponse) >= 32768) = isResponse
BY DEF Flag, NumberLimit

LEMMA HeaderParts ==
    ASSUME NEW message
    PROVE  Header(message)
              = HeaderOctets(ToU16(0), ToU16(Flag(message.isResponse)),
                             ToU16(Len(message.questions)), ToU16(Len(message.answers)),
                             ToU16(Len(message.authority)), ToU16(Len(message.additional)))
BY SMT DEF Header, HeaderOctets, Flag

(* The header of a message, as it is read.                                   *)
LEMMA HeaderIs ==
    ASSUME NEW message, message.isResponse \in BOOLEAN,
           Len(message.questions) \in Nat, Len(message.questions) < NumberLimit,
           Len(message.answers) \in Nat, Len(message.answers) < NumberLimit,
           Len(message.authority) \in Nat, Len(message.authority) < NumberLimit,
           Len(message.additional) \in Nat, Len(message.additional) < NumberLimit
    PROVE  /\ Sized(Header(message), HeaderSize)
           /\ \A b \in Strings : At(b, 0, Header(message)) =>
                 HeaderRead(b, Flag(message.isResponse), Len(message.questions),
                            Len(message.answers), Len(message.authority),
                            Len(message.additional))
<1>1. PICK f : f = Flag(message.isResponse)
  OBVIOUS
<1>2. f \in Nat /\ f < NumberLimit
  BY <1>1, FlagIs
<1>3. PICK q : q = Len(message.questions)
  OBVIOUS
<1>4. PICK a : a = Len(message.answers)
  OBVIOUS
<1>5. PICK u : u = Len(message.authority)
  OBVIOUS
<1>6. PICK d : d = Len(message.additional)
  OBVIOUS
<1>7. Header(message)
         = HeaderOctets(ToU16(0), ToU16(f), ToU16(q), ToU16(a), ToU16(u), ToU16(d))
  BY <1>1, <1>3, <1>4, <1>5, <1>6, HeaderParts, Zenon
<1>8. PICK h : h = HeaderOctets(ToU16(0), ToU16(f), ToU16(q), ToU16(a), ToU16(u), ToU16(d))
  OBVIOUS
<1>9. Sized(h, HeaderSize) /\ \A b \in Strings : At(b, 0, h) => HeaderRead(b, f, q, a, u, d)
  <2>1. /\ q \in Nat /\ q < NumberLimit /\ a \in Nat /\ a < NumberLimit
        /\ u \in Nat /\ u < NumberLimit /\ d \in Nat /\ d < NumberLimit
    BY <1>3, <1>4, <1>5, <1>6, Zenon
  <2> QED BY <1>2, <1>8, <2>1, HeaderOf
<1> QED BY <1>1, <1>3, <1>4, <1>5, <1>6, <1>7, <1>8, <1>9, Zenon

SectionCounts(b, i, q, a, u, d) ==
    /\ CountOf(b, "questions") = q
    /\ i => /\ CountOf(b, "answers") = a /\ CountOf(b, "authority") = u
            /\ CountOf(b, "additional") = d
    /\ ~i => /\ CountOf(b, "answers") = 0 /\ CountOf(b, "authority") = 0
             /\ CountOf(b, "additional") = 0

LEMMA CountsRead ==
    ASSUME NEW b, NEW isResponse \in BOOLEAN, NEW q, NEW a, NEW u, NEW d,
           HeaderRead(b, Flag(isResponse), q, a, u, d)
    PROVE  SectionCounts(b, isResponse, q, a, u, d)
<1>1. (isResponse => ~(U16(b, 2) < 32768)) /\ (~isResponse => U16(b, 2) < 32768)
  BY DEF HeaderRead, Flag
<1>2. /\ SectionAt["questions"] = 4 /\ SectionAt["answers"] = 6
      /\ SectionAt["authority"] = 8 /\ SectionAt["additional"] = 10
  BY DEF SectionAt
<1>3. "answers" # "questions" /\ "authority" # "questions" /\ "additional" # "questions"
  OBVIOUS
<1>4. U16(b, 4) = q /\ U16(b, 6) = a /\ U16(b, 8) = u /\ U16(b, 10) = d
  BY DEF HeaderRead
<1>5. CountOf(b, "questions") = q
  BY <1>2, <1>4 DEF CountOf
<1>6. isResponse => /\ CountOf(b, "answers") = a /\ CountOf(b, "authority") = u
                    /\ CountOf(b, "additional") = d
  BY <1>1, <1>2, <1>4 DEF CountOf
<1>7. ~isResponse => /\ CountOf(b, "answers") = 0 /\ CountOf(b, "authority") = 0
                     /\ CountOf(b, "additional") = 0
  BY <1>1, <1>3 DEF CountOf
<1> QED BY <1>5, <1>6, <1>7 DEF SectionCounts

-----------------------------------------------------------------------------
(* A message, written and read.                                              *)

(* A section of the message takes the writer w to v.                         *)
Wrote(section, w, xs, v) == \E f : Chain(section, w, xs, f) /\ f[Len(xs)] = v

LEMMA WroteAt ==
    ASSUME NEW section, NEW w \in Writers, NEW T, NEW xs \in Seq(T), NEW v,
           Wrote(section, w, xs, v)
    PROVE  v \in Writers /\ \A b \in Strings : At(b, 0, v.octets) => At(b, 0, w.octets)
<1>1. PICK f : Chain(section, w, xs, f) /\ f[Len(xs)] = v
  BY Zenon DEF Wrote
<1>2. PICK n \in Nat : n = Len(xs)
  OBVIOUS
<1>3. f \in [0 .. n -> Writers]
  BY <1>1, <1>2, Zenon DEF Chain
<1>4. n \in 0 .. n /\ v = f[n]
  BY <1>1, <1>2
<1>5. v \in Writers
  BY <1>3, <1>4
<1>6. ASSUME NEW b \in Strings, At(b, 0, v.octets) PROVE At(b, 0, w.octets)
  <2>1. At(b, 0, f[n].octets)
    BY <1>4, <1>6
  <2> QED BY <1>1, <1>2, <2>1, SectionRead
<1> QED BY <1>5, <1>6

LEMMA WroteStep ==
    ASSUME NEW section, NEW w \in Writers, NEW T, NEW xs \in Seq(T), NEW v,
           Wrote(section, w, xs, v), NEW b \in Strings, At(b, 0, v.octets), PlacesRead(b, w),
           CountOf(b, section) = Len(xs), NEW message, Opens(message, section)
    PROVE  /\ PlacesRead(b, v)
           /\ ParsedFrom(b, section, xs, Len(w.octets), Len(v.octets), message)
<1>1. PICK f : Chain(section, w, xs, f) /\ f[Len(xs)] = v
  BY Zenon DEF Wrote
<1>2. PICK n \in Nat : n = Len(xs)
  OBVIOUS
<1>3. f[n] = v /\ At(b, 0, f[n].octets) /\ CountOf(b, section) = n
  BY <1>1, <1>2, Zenon
<1>4. /\ PlacesRead(b, f[n])
      /\ ParsedFrom(b, section, xs, Len(w.octets), Len(f[n].octets), message)
  BY <1>1, <1>2, <1>3, SectionStep
<1> QED BY <1>2, <1>3, <1>4, Zenon

LEMMA StartIs ==
    ASSUME NEW h \in Strings
    PROVE  /\ Start(h) \in Writers /\ Start(h).octets = h /\ Start(h).places = <<>>
           /\ \A b : PlacesRead(b, Start(h))
<1>1. Start(h).octets = h /\ Start(h).places = <<>>
  BY DEF Start
<1>2. PICK p : p = <<>>
  OBVIOUS
<1>3. DOMAIN p = {} /\ p \in [{} -> Nat]
  BY <1>2
<1>4. {} \in SUBSET Seq(Strings) /\ \A rest \in {} : p[rest] < Len(h)
  OBVIOUS
<1>5. [octets |-> h, places |-> p] \in Writers
  BY <1>3, <1>4, IsWriter
<1>6. Start(h) \in Writers
  BY <1>2, <1>5 DEF Start
<1>7. \A b : PlacesRead(b, Start(h))
  BY <1>1, <1>2, <1>3, Zenon DEF PlacesRead
<1> QED BY <1>1, <1>6, <1>7

(* How the sections of a message follow each other.                          *)
EncodeBy(message, w1, w2, w3, w4) ==
    /\ Wrote("questions", Start(Header(message)), message.questions, w1)
    /\ Wrote("answers", w1, message.answers, w2)
    /\ Wrote("authority", w2, message.authority, w3)
    /\ Wrote("additional", w3, message.additional, w4)

MessageOf(i, q, a, u, d) ==
    [isResponse |-> i, questions |-> q, answers |-> a, authority |-> u, additional |-> d]

LEMMA MessageIs ==
    ASSUME NEW message, IsMessage(message)
    PROVE  /\ message = MessageOf(message.isResponse, message.questions, message.answers,
                                  message.authority, message.additional)
           /\ message.isResponse \in BOOLEAN /\ message.questions \in Seq(Questions)
           /\ message.answers \in Seq(Records) /\ message.authority \in Seq(Records)
           /\ message.additional \in Seq(Records)
BY DEF IsMessage, MessageOf

LEMMA MessageHeader ==
    ASSUME NEW message, IsMessage(message)
    PROVE  /\ Sized(Header(message), HeaderSize)
           /\ \A b \in Strings : At(b, 0, Header(message)) =>
                 HeaderRead(b, Flag(message.isResponse), Len(message.questions),
                            Len(message.answers), Len(message.authority),
                            Len(message.additional))
<1>1. /\ message.isResponse \in BOOLEAN /\ Len(message.questions) \in Nat
      /\ Len(message.answers) \in Nat /\ Len(message.authority) \in Nat
      /\ Len(message.additional) \in Nat
  BY MessageIs
<1>2. Len(message.questions) < NumberLimit
  BY Zenon DEF IsMessage
<1>3. /\ Len(message.answers) < NumberLimit /\ Len(message.authority) < NumberLimit
      /\ Len(message.additional) < NumberLimit
  BY Zenon DEF IsMessage
<1> QED BY <1>1, <1>2, <1>3, HeaderIs

LEMMA Encoded ==
    ASSUME NEW message, IsMessage(message), NEW compress \in BOOLEAN
    PROVE  \E w1, w2, w3, w4 : /\ EncodeBy(message, w1, w2, w3, w4)
                               /\ w4.octets = Encode(message, compress)
<1>1. PICK w0 : w0 = Start(Header(message))
  OBVIOUS
<1>2. w0 \in Writers
  BY <1>1, MessageHeader, StartIs DEF Sized
<1>3. PICK w1 : w1 = WriteQuestions(w0, message.questions, compress)
  OBVIOUS
<1>4. Wrote("questions", w0, message.questions, w1)
  <2>1. \A i \in DOMAIN message.questions :
           IsName(message.questions[i].name) /\ ~IsRoot(message.questions[i].name)
    BY Zenon DEF IsMessage
  <2> QED BY <1>2, <1>3, <2>1, MessageIs, QuestionsWritten DEF Wrote
<1>5. /\ \A i \in DOMAIN message.answers : IsRecord(message.answers[i])
      /\ \A i \in DOMAIN message.authority : IsRecord(message.authority[i])
      /\ \A i \in DOMAIN message.additional : IsRecord(message.additional[i])
  BY Zenon DEF IsMessage
<1>6. PICK w2 : w2 = WriteRecords(w1, message.answers, compress)
  OBVIOUS
<1>7. w1 \in Writers
  BY <1>2, <1>4, MessageIs, WroteAt
<1>8. Wrote("answers", w1, message.answers, w2)
  BY <1>5, <1>6, <1>7, MessageIs, RecordsWritten DEF Wrote
<1>9. PICK w3 : w3 = WriteRecords(w2, message.authority, compress)
  OBVIOUS
<1>10. w2 \in Writers
  BY <1>7, <1>8, MessageIs, WroteAt
<1>11. Wrote("authority", w2, message.authority, w3)
  BY <1>5, <1>9, <1>10, MessageIs, RecordsWritten DEF Wrote
<1>12. PICK w4 : w4 = WriteRecords(w3, message.additional, compress)
  OBVIOUS
<1>13. w3 \in Writers
  BY <1>10, <1>11, MessageIs, WroteAt
<1>14. Wrote("additional", w3, message.additional, w4)
  BY <1>5, <1>12, <1>13, MessageIs, RecordsWritten DEF Wrote
<1>15. w4.octets = Encode(message, compress)
  BY <1>1, <1>3, <1>6, <1>9, <1>12, Zenon DEF Encode
<1>16. EncodeBy(message, w1, w2, w3, w4)
  BY <1>1, <1>4, <1>8, <1>11, <1>14, Zenon DEF EncodeBy
<1> QED BY <1>15, <1>16, Zenon

LEMMA SectionsOf ==
    ASSUME NEW i, NEW q, NEW a, NEW u, NEW d
    PROVE  /\ Opens(MessageOf(i, <<>>, <<>>, <<>>, <<>>), "questions")
           /\ With(MessageOf(i, <<>>, <<>>, <<>>, <<>>), "questions", q)
                 = MessageOf(i, q, <<>>, <<>>, <<>>)
           /\ Opens(MessageOf(i, q, <<>>, <<>>, <<>>), "answers")
           /\ With(MessageOf(i, q, <<>>, <<>>, <<>>), "answers", a)
                 = MessageOf(i, q, a, <<>>, <<>>)
           /\ Opens(MessageOf(i, q, a, <<>>, <<>>), "authority")
           /\ With(MessageOf(i, q, a, <<>>, <<>>), "authority", u)
                 = MessageOf(i, q, a, u, <<>>)
           /\ Opens(MessageOf(i, q, a, u, <<>>), "additional")
           /\ With(MessageOf(i, q, a, u, <<>>), "additional", d) = MessageOf(i, q, a, u, d)
<1>1. PICK e : e = <<>>
  OBVIOUS
<1>2. Opens(MessageOf(i, e, e, e, e), "questions")
  BY <1>1 DEF Opens, MessageOf
<1>3. Opens(MessageOf(i, q, e, e, e), "answers")
  BY <1>1 DEF Opens, MessageOf
<1>4. Opens(MessageOf(i, q, a, e, e), "authority")
  BY <1>1 DEF Opens, MessageOf
<1>5. Opens(MessageOf(i, q, a, u, e), "additional")
  BY <1>1 DEF Opens, MessageOf
<1>6. With(MessageOf(i, e, e, e, e), "questions", q) = MessageOf(i, q, e, e, e)
  BY DEF With, MessageOf
<1>7. With(MessageOf(i, q, e, e, e), "answers", a) = MessageOf(i, q, a, e, e)
  BY DEF With, MessageOf
<1>8. With(MessageOf(i, q, a, e, e), "authority", u) = MessageOf(i, q, a, u, e)
  BY DEF With, MessageOf
<1>9. With(MessageOf(i, q, a, u, e), "additional", d) = MessageOf(i, q, a, u, d)
  BY DEF With, MessageOf
<1> QED BY <1>1, <1>2, <1>3, <1>4, <1>5, <1>6, <1>7, <1>8, <1>9

StartOf(b) == MessageOf(U16(b, 2) >= 32768, <<>>, <<>>, <<>>, <<>>)

LEMMA FlagRead ==
    ASSUME NEW b, NEW i \in BOOLEAN, NEW q, NEW a, NEW u, NEW d,
           HeaderRead(b, Flag(i), q, a, u, d)
    PROVE  StartOf(b) = MessageOf(i, <<>>, <<>>, <<>>, <<>>)
<1>1. (i => U16(b, 2) >= 32768) /\ (~i => ~(U16(b, 2) >= 32768))
  BY DEF HeaderRead, Flag
<1>2. (U16(b, 2) >= 32768) = i
  BY <1>1
<1> QED BY <1>2 DEF StartOf, MessageOf

LEMMA BufferIs ==
    ASSUME NEW b, ~ (Len(b) < HeaderSize)
    PROVE  FromBuffer(b)
              = ParseSection(b, ParseSection(b, ParseSection(b, ParseSection(b,
                    Parsed(HeaderSize, StartOf(b)), "questions"), "answers"), "authority"),
                    "additional")
BY SMT DEF FromBuffer, Parsed, MessageOf, StartOf

(* The message as it is read, section by section.                            *)
Stages(i, q, a, u, m0, m1, m2, m3) ==
    /\ m0 = MessageOf(i, <<>>, <<>>, <<>>, <<>>) /\ m1 = MessageOf(i, q, <<>>, <<>>, <<>>)
    /\ m2 = MessageOf(i, q, a, <<>>, <<>>) /\ m3 = MessageOf(i, q, a, u, <<>>)
Opened(q, a, u, d, m0, m1, m2, m3, m) ==
    /\ Opens(m0, "questions") /\ With(m0, "questions", q) = m1
    /\ Opens(m1, "answers") /\ With(m1, "answers", a) = m2
    /\ Opens(m2, "authority") /\ With(m2, "authority", u) = m3
    /\ Opens(m3, "additional") /\ With(m3, "additional", d) = m

LEMMA StagesExist ==
    ASSUME NEW i, NEW q, NEW a, NEW u, NEW d
    PROVE  \E m0, m1, m2, m3 : /\ Stages(i, q, a, u, m0, m1, m2, m3)
                               /\ Opened(q, a, u, d, m0, m1, m2, m3, MessageOf(i, q, a, u, d))
<1>1. Opened(q, a, u, d, MessageOf(i, <<>>, <<>>, <<>>, <<>>), MessageOf(i, q, <<>>, <<>>, <<>>),
             MessageOf(i, q, a, <<>>, <<>>), MessageOf(i, q, a, u, <<>>),
             MessageOf(i, q, a, u, d))
  BY SectionsOf DEF Opened
<1>2. Stages(i, q, a, u, MessageOf(i, <<>>, <<>>, <<>>, <<>>),
             MessageOf(i, q, <<>>, <<>>, <<>>), MessageOf(i, q, a, <<>>, <<>>),
             MessageOf(i, q, a, u, <<>>))
  BY DEF Stages
<1> QED BY <1>1, <1>2, Zenon

LEMMA QueryRead ==
    ASSUME NEW i, NEW q, NEW a, NEW u, NEW d, NEW message, message = MessageOf(i, q, a, u, d),
           ~message.isResponse
    PROVE  Read(message) = MessageOf(i, q, <<>>, <<>>, <<>>)
<1>0. PICK e : e = <<>>
  OBVIOUS
<1>1. PICK x : x = [message EXCEPT !.answers = e]
  OBVIOUS
<1>2. x = MessageOf(i, q, e, u, d)
  BY <1>1 DEF MessageOf
<1>3. PICK y : y = [x EXCEPT !.authority = e]
  OBVIOUS
<1>4. y = MessageOf(i, q, e, e, d)
  BY <1>2, <1>3 DEF MessageOf
<1>5. [y EXCEPT !.additional = e] = MessageOf(i, q, e, e, e)
  BY <1>4 DEF MessageOf
<1>6. Read(message) = [message EXCEPT !.answers = e, !.authority = e, !.additional = e]
  BY <1>0, Zenon DEF Read
<1> QED BY <1>0, <1>1, <1>3, <1>5, <1>6, Zenon

HasUnread(section, xs) == \E k \in 1 .. Len(xs) : Unread(section, xs[k])

(* What a datagram is read as that says a message.                           *)
Conveys(octets, message) ==
    LET parsed == FromBuffer(octets)
    IN  IF HasEmptyText(message) THEN parsed = Nothing
        ELSE /\ parsed.size # 0
             /\ parsed.message = Read(message)
             /\ parsed.at = Len(octets) \/ ~message.isResponse

LEMMA SectionText ==
    ASSUME NEW xs \in Seq(Records), NEW section, section # "questions"
    PROVE  HasUnread(section, xs) <=>
              \E record \in ToSet(xs) : record.data.kind = "TXT" /\ record.data.octets = <<>>
<1>1. ToSet(xs) = {xs[k] : k \in 1 .. Len(xs)}
  BY DEF ToSet
<1> QED BY <1>1 DEF HasUnread, Unread

LEMMA InTwo ==
    ASSUME NEW l \in Nat, NEW m \in Nat, NEW k \in 1 .. l + m
    PROVE  k \in 1 .. l \/ \E j \in 1 .. m : k = l + j
<1>1. CASE k <= l
  BY <1>1
<1>2. CASE k > l
  <2>1. k - l \in 1 .. m /\ k = l + (k - l)
    BY <1>2
  <2> QED BY <2>1, Zenon
<1> QED BY <1>1, <1>2

LEMMA AllOf ==
    ASSUME NEW T, NEW a \in Seq(T), NEW u \in Seq(T), NEW d \in Seq(T)
    PROVE  ToSet(a \o u \o d) = (ToSet(a) \cup ToSet(u)) \cup ToSet(d)
<1>1. ASSUME NEW s \in Seq(T), NEW t \in Seq(T) PROVE ToSet(s \o t) = ToSet(s) \cup ToSet(t)
  <2>1. PICK st : st = s \o t
    OBVIOUS
  <2>2. /\ Len(st) = Len(s) + Len(t) /\ Len(s) \in Nat /\ Len(t) \in Nat
        /\ \A k \in 1 .. Len(s) : st[k] = s[k]
        /\ \A k \in 1 .. Len(t) : st[Len(s) + k] = t[k]
        /\ DOMAIN st = 1 .. Len(st) /\ DOMAIN s = 1 .. Len(s) /\ DOMAIN t = 1 .. Len(t)
    BY <2>1
  <2>3. ASSUME NEW k \in 1 .. Len(st) PROVE st[k] \in ToSet(s) \cup ToSet(t)
    <3>1. k \in 1 .. Len(s) \/ \E j \in 1 .. Len(t) : k = Len(s) + j
      <4>1. PICK l \in Nat : l = Len(s)
        BY <2>2
      <4>2. PICK m \in Nat : m = Len(t)
        BY <2>2
      <4>3. k \in 1 .. l + m
        BY <2>2, <4>1, <4>2
      <4> QED BY <4>1, <4>2, <4>3, InTwo, Zenon
    <3> QED BY <2>2, <3>1 DEF ToSet
  <2>4. ASSUME NEW k \in 1 .. Len(s) PROVE s[k] \in ToSet(st)
    <3>1. k \in 1 .. Len(st)
      BY <2>2
    <3> QED BY <2>2, <3>1 DEF ToSet
  <2>5. ASSUME NEW k \in 1 .. Len(t) PROVE t[k] \in ToSet(st)
    <3>1. Len(s) + k \in 1 .. Len(st)
      BY <2>2
    <3> QED BY <2>2, <3>1 DEF ToSet
  <2>6. ToSet(st) \subseteq ToSet(s) \cup ToSet(t)
    BY <2>2, <2>3, Zenon DEF ToSet
  <2>7. ToSet(s) \subseteq ToSet(st) /\ ToSet(t) \subseteq ToSet(st)
    BY <2>2, <2>4, <2>5, Zenon DEF ToSet
  <2> QED BY <2>1, <2>6, <2>7, Zenon
<1>2. a \o u \in Seq(T)
  OBVIOUS
<1> QED BY <1>1, <1>2

LEMMA TextIs ==
    ASSUME NEW message, IsMessage(message)
    PROVE  HasEmptyText(message) <=>
              /\ message.isResponse
              /\ \/ HasUnread("answers", message.answers)
                 \/ HasUnread("authority", message.authority)
                 \/ HasUnread("additional", message.additional)
<1>1. AllRecords(message)
         = (ToSet(message.answers) \cup ToSet(message.authority)) \cup ToSet(message.additional)
  BY MessageIs, AllOf DEF AllRecords
<1>2. "answers" # "questions" /\ "authority" # "questions" /\ "additional" # "questions"
  OBVIOUS
<1>3. /\ HasUnread("answers", message.answers) <=>
            \E record \in ToSet(message.answers) :
                record.data.kind = "TXT" /\ record.data.octets = <<>>
      /\ HasUnread("authority", message.authority) <=>
            \E record \in ToSet(message.authority) :
                record.data.kind = "TXT" /\ record.data.octets = <<>>
      /\ HasUnread("additional", message.additional) <=>
            \E record \in ToSet(message.additional) :
                record.data.kind = "TXT" /\ record.data.octets = <<>>
  BY <1>2, MessageIs, SectionText
<1> QED BY <1>1, <1>3, Zenon DEF HasEmptyText

(* Every datagram that says a message is read as it, and a response whole.   *)
THEOREM MessageRead ==
    ASSUME NEW message, IsMessage(message), NEW compress \in BOOLEAN
    PROVE  Encode(message, compress) \in Strings /\ Conveys(Encode(message, compress), message)
<1>1. PICK i, q, a, u, d : /\ i = message.isResponse /\ q = message.questions
                           /\ a = message.answers /\ u = message.authority
                           /\ d = message.additional
  OBVIOUS
<1>2. /\ message = MessageOf(i, q, a, u, d) /\ i \in BOOLEAN /\ q \in Seq(Questions)
      /\ a \in Seq(Records) /\ u \in Seq(Records) /\ d \in Seq(Records)
  BY <1>1, MessageIs, Zenon
<1>3. PICK w1, w2, w3, w4 : /\ EncodeBy(message, w1, w2, w3, w4)
                            /\ w4.octets = Encode(message, compress)
  BY Encoded
<1>4. PICK h, w0 : h = Header(message) /\ w0 = Start(h)
  OBVIOUS
<1>5. /\ h \in Strings /\ Len(h) = HeaderSize
      /\ \A x \in Strings : At(x, 0, h) =>
            HeaderRead(x, Flag(i), Len(q), Len(a), Len(u), Len(d))
  BY <1>1, <1>4, MessageHeader, Zenon DEF Sized
<1>6. w0 \in Writers /\ w0.octets = h /\ \A x : PlacesRead(x, w0)
  BY <1>4, <1>5, StartIs
<1>7. /\ Wrote("questions", w0, q, w1) /\ Wrote("answers", w1, a, w2)
      /\ Wrote("authority", w2, u, w3) /\ Wrote("additional", w3, d, w4)
  BY <1>1, <1>3, <1>4, Zenon DEF EncodeBy
<1>8. w1 \in Writers /\ \A x \in Strings : At(x, 0, w1.octets) => At(x, 0, w0.octets)
  BY <1>2, <1>6, <1>7, WroteAt
<1>9. w2 \in Writers /\ \A x \in Strings : At(x, 0, w2.octets) => At(x, 0, w1.octets)
  BY <1>2, <1>7, <1>8, WroteAt
<1>10. w3 \in Writers /\ \A x \in Strings : At(x, 0, w3.octets) => At(x, 0, w2.octets)
  BY <1>2, <1>7, <1>9, WroteAt
<1>11. w4 \in Writers /\ \A x \in Strings : At(x, 0, w4.octets) => At(x, 0, w3.octets)
  BY <1>2, <1>7, <1>10, WroteAt
<1>12. PICK b \in Strings : b = w4.octets
  BY <1>11, WriterIs
<1>13. At(b, 0, w4.octets)
  <2>1. Len(b) \in Nat
    BY DEF Strings
  <2> QED BY <1>12, <2>1 DEF At
<1>14. /\ At(b, 0, w3.octets) /\ At(b, 0, w2.octets) /\ At(b, 0, w1.octets)
       /\ At(b, 0, h)
  BY <1>6, <1>8, <1>9, <1>10, <1>11, <1>13
<1>15. HeaderRead(b, Flag(i), Len(q), Len(a), Len(u), Len(d))
  BY <1>5, <1>14
<1>16. ~ (Len(b) < HeaderSize)
  <2>1. Len(b) \in Nat /\ 0 + Len(h) <= Len(b)
    BY <1>14 DEF At, Strings
  <2> QED BY <1>5, <2>1 DEF HeaderSize
<1>17. SectionCounts(b, i, Len(q), Len(a), Len(u), Len(d))
  BY <1>2, <1>15, CountsRead
<1>18. StartOf(b) = MessageOf(i, <<>>, <<>>, <<>>, <<>>)
  BY <1>2, <1>15, FlagRead
<1>19. PICK m0, m1, m2, m3 : /\ Stages(i, q, a, u, m0, m1, m2, m3)
                             /\ Opened(q, a, u, d, m0, m1, m2, m3, message)
  BY <1>2, StagesExist, Zenon
<1>20. /\ Opens(m0, "questions") /\ With(m0, "questions", q) = m1
       /\ Opens(m1, "answers") /\ With(m1, "answers", a) = m2
       /\ Opens(m2, "authority") /\ With(m2, "authority", u) = m3
       /\ Opens(m3, "additional") /\ With(m3, "additional", d) = message
  BY <1>19, Zenon DEF Opened
<1>21. /\ PlacesRead(b, w1)
       /\ ParsedFrom(b, "questions", q, Len(w0.octets), Len(w1.octets), m0)
  <2>1. CountOf(b, "questions") = Len(q)
    BY <1>17, Zenon DEF SectionCounts
  <2> QED BY <1>2, <1>6, <1>7, <1>14, <1>20, <2>1, WroteStep
<1>22. PICK p0, p1, p2, p3 :
          /\ p0 = Parsed(HeaderSize, m0) /\ p1 = ParseSection(b, p0, "questions")
          /\ p2 = ParseSection(b, p1, "answers") /\ p3 = ParseSection(b, p2, "authority")
  OBVIOUS
<1>23. FromBuffer(b) = ParseSection(b, p3, "additional")
  <2>1. m0 = MessageOf(i, <<>>, <<>>, <<>>, <<>>)
    BY <1>19, Zenon DEF Stages
  <2> QED BY <1>16, <1>18, <1>22, <2>1, BufferIs, Zenon
<1>24. p1 = Parsed(Len(w1.octets), m1)
  <2>1. \A k : ~ Unread("questions", q[k])
    BY Zenon DEF Unread
  <2>2. Len(w0.octets) = HeaderSize
    BY <1>5, <1>6
  <2> QED BY <1>20, <1>21, <1>22, <2>1, <2>2, Zenon DEF ParsedFrom
<1>25. CASE i
  <2>0. /\ CountOf(b, "answers") = Len(a) /\ CountOf(b, "authority") = Len(u)
        /\ CountOf(b, "additional") = Len(d)
    BY <1>17, <1>25, Zenon DEF SectionCounts
  <2>1. /\ PlacesRead(b, w2)
        /\ ParsedFrom(b, "answers", a, Len(w1.octets), Len(w2.octets), m1)
    BY <1>2, <1>7, <1>8, <1>14, <1>20, <1>21, <2>0, WroteStep
  <2>2. /\ PlacesRead(b, w3)
        /\ ParsedFrom(b, "authority", u, Len(w2.octets), Len(w3.octets), m2)
    BY <1>2, <1>7, <1>9, <1>14, <1>20, <2>0, <2>1, WroteStep
  <2>3. ParsedFrom(b, "additional", d, Len(w3.octets), Len(w4.octets), m3)
    BY <1>2, <1>7, <1>10, <1>13, <1>20, <2>0, <2>2, WroteStep
  <2>4. p2 = IF HasUnread("answers", a) THEN Nothing ELSE Parsed(Len(w2.octets), m2)
    BY <1>20, <1>22, <1>24, <2>1, Zenon DEF ParsedFrom, HasUnread
  <2>5. ParseSection(b, Parsed(Len(w2.octets), m2), "authority")
           = IF HasUnread("authority", u) THEN Nothing ELSE Parsed(Len(w3.octets), m3)
    BY <1>20, <2>2, Zenon DEF ParsedFrom, HasUnread
  <2>6. ParseSection(b, Parsed(Len(w3.octets), m3), "additional")
           = IF HasUnread("additional", d) THEN Nothing ELSE Parsed(Len(w4.octets), message)
    BY <1>20, <2>3, Zenon DEF ParsedFrom, HasUnread
  <2>7. /\ ParseSection(b, Nothing, "authority") = Nothing
        /\ ParseSection(b, Nothing, "additional") = Nothing
    <3>1. CountOf(b, "authority") \in Nat /\ CountOf(b, "additional") \in Nat
      BY <1>2, <2>0
    <3> QED BY <3>1, NothingSection
  <2>8. FromBuffer(b)
           = IF \/ HasUnread("answers", a) \/ HasUnread("authority", u)
                \/ HasUnread("additional", d)
             THEN Nothing ELSE Parsed(Len(w4.octets), message)
    <3>1. CASE HasUnread("answers", a)
      BY <1>22, <1>23, <2>4, <2>7, <3>1, Zenon
    <3>2. CASE ~HasUnread("answers", a) /\ HasUnread("authority", u)
      BY <1>22, <1>23, <2>4, <2>5, <2>7, <3>2, Zenon
    <3>3. CASE ~HasUnread("answers", a) /\ ~HasUnread("authority", u)
      <4>1. p3 = Parsed(Len(w3.octets), m3)
        BY <1>22, <2>4, <2>5, <3>3, Zenon
      <4> QED BY <1>23, <2>6, <3>3, <4>1, Zenon
    <3> QED BY <3>1, <3>2, <3>3, Zenon
  <2>9. HasEmptyText(message) <=>
           \/ HasUnread("answers", a) \/ HasUnread("authority", u)
           \/ HasUnread("additional", d)
    BY <1>1, <1>25, TextIs, Zenon
  <2>10. Read(message) = message
    BY <1>1, <1>25, Zenon DEF Read
  <2>11. PICK p : p = Parsed(Len(b), message)
    OBVIOUS
  <2>12. p.size # 0 /\ p.message = message /\ p.at = Len(b)
    BY <2>11 DEF Parsed
  <2>13. IF HasEmptyText(message) THEN FromBuffer(b) = Nothing ELSE FromBuffer(b) = p
    BY <1>12, <2>8, <2>9, <2>11, Zenon
  <2>14. Conveys(b, message)
    BY <2>10, <2>12, <2>13, Zenon DEF Conveys
  <2> QED BY <1>3, <1>12, <2>14, Zenon
<1>26. CASE ~i
  <2>1. FromBuffer(b) = p1
    <3>1. \A section, p : CountOf(b, section) = 0 => ParseSection(b, p, section) = p
      BY NoSection, Zenon
    <3>2. /\ CountOf(b, "answers") = 0 /\ CountOf(b, "authority") = 0
          /\ CountOf(b, "additional") = 0
      BY <1>17, <1>26, Zenon DEF SectionCounts
    <3>3. p2 = p1 /\ p3 = p2
      BY <1>22, <3>1, <3>2, Zenon
    <3> QED BY <1>23, <3>1, <3>2, <3>3, Zenon
  <2>2. ~HasEmptyText(message)
    BY <1>1, <1>26, Zenon DEF HasEmptyText
  <2>3. Read(message) = m1
    <3>1. Read(message) = MessageOf(i, q, <<>>, <<>>, <<>>)
      <4>1. ~message.isResponse
        BY <1>1, <1>26
      <4> QED BY <1>2, <4>1, QueryRead
    <3> QED BY <1>19, <3>1, Zenon DEF Stages
  <2>4. p1.size # 0 /\ p1.message = m1
    BY <1>24 DEF Parsed
  <2>5. Conveys(b, message)
    BY <1>1, <1>26, <2>1, <2>2, <2>3, <2>4, Zenon DEF Conveys
  <2> QED BY <1>3, <1>12, <2>5, Zenon
<1> QED BY <1>2, <1>25, <1>26

-----------------------------------------------------------------------------
(* The query of discover(), which toBuffer() writes.                         *)

(* A recursive definition over 0 .. 1, and over 0 .. 0.                      *)
LEMMA OneQuestion ==
    ASSUME NEW w, NEW x, NEW compress
    PROVE  WriteQuestions(w, <<x>>, compress) = WriteQuestion(w, x, compress)
<1>1. PICK xs : xs = <<x>>
  OBVIOUS
<1>2. Len(xs) = 1 /\ xs[1] = x
  BY <1>1
<1> DEFINE a == CHOOSE f : f = QuestionsFrom(f, w, xs, compress)
           h == [i \in 0 .. 1 |-> IF i = 0 THEN w ELSE WriteQuestion(w, x, compress)]
<1>3. h = QuestionsFrom(h, w, xs, compress)
  <2>1. ASSUME NEW i \in 0 .. 1
        PROVE  h[i] = IF i = 0 THEN w ELSE WriteQuestion(h[i - 1], xs[i], compress)
    BY <1>2
  <2> QED BY <1>2, <2>1 DEF QuestionsFrom
<1>4. a = QuestionsFrom(a, w, xs, compress)
  BY <1>3
<1>5. WriteQuestions(w, xs, compress) = a[Len(xs)]
  BY DEF WriteQuestions, QuestionsFrom
<1> HIDE DEF a, h
<1>6. \A i \in 0 .. 1 : a[i] = IF i = 0 THEN w ELSE WriteQuestion(a[i - 1], xs[i], compress)
  BY <1>2, <1>4 DEF QuestionsFrom
<1>7. a[0] = w
  BY <1>6
<1>8. a[1] = WriteQuestion(a[0], xs[1], compress)
  BY <1>6
<1> QED BY <1>1, <1>2, <1>5, <1>7, <1>8

LEMMA NoRecords ==
    ASSUME NEW w, NEW compress
    PROVE  WriteRecords(w, <<>>, compress) = w
<1>1. PICK xs : xs = <<>>
  OBVIOUS
<1>2. Len(xs) = 0
  BY <1>1
<1> DEFINE a == CHOOSE f : f = RecordsFrom(f, w, xs, compress)
           h == [i \in 0 .. 0 |-> w]
<1>3. h = RecordsFrom(h, w, xs, compress)
  BY <1>2 DEF RecordsFrom
<1>4. a = RecordsFrom(a, w, xs, compress)
  BY <1>3
<1>5. WriteRecords(w, xs, compress) = a[Len(xs)]
  BY DEF WriteRecords, RecordsFrom
<1> HIDE DEF a, h
<1>6. a[0] = w
  BY <1>2, <1>4 DEF RecordsFrom
<1> QED BY <1>1, <1>2, <1>5, <1>6

WrittenFrom(h, message, xs) ==
    [i \in 0 .. Len(xs) |-> IF i = 0 THEN [offset |-> HeaderSize, octets |-> Header(message)]
                            ELSE AddQuestion(h[i - 1], xs[i])]

LEMMA OneWritten ==
    ASSUME NEW message, NEW x, message.questions = <<x>>
    PROVE  ToBuffer(message)
              = AddQuestion([offset |-> HeaderSize, octets |-> Header(message)], x).octets
<1>1. PICK xs : xs = <<x>> /\ message.questions = xs
  OBVIOUS
<1>2. Len(xs) = 1 /\ xs[1] = x
  BY <1>1
<1>3. PICK p : p = [offset |-> HeaderSize, octets |-> Header(message)]
  OBVIOUS
<1> DEFINE a == CHOOSE f : f = WrittenFrom(f, message, xs)
           h == [i \in 0 .. 1 |-> IF i = 0 THEN p ELSE AddQuestion(p, x)]
<1>4. h = WrittenFrom(h, message, xs)
  <2>1. ASSUME NEW i \in 0 .. 1
        PROVE  h[i] = IF i = 0 THEN p ELSE AddQuestion(h[i - 1], xs[i])
    BY <1>2
  <2> QED BY <1>2, <1>3, <2>1 DEF WrittenFrom
<1>5. a = WrittenFrom(a, message, xs)
  BY <1>4
<1>6. ToBuffer(message) = a[Len(xs)].octets
  BY <1>1, Zenon DEF ToBuffer, WrittenFrom
<1> HIDE DEF a, h
<1>7. \A i \in 0 .. 1 : a[i] = IF i = 0 THEN p ELSE AddQuestion(a[i - 1], xs[i])
  BY <1>2, <1>3, <1>5 DEF WrittenFrom
<1>8. a[0] = p
  BY <1>7
<1>9. a[1] = AddQuestion(a[0], xs[1])
  BY <1>7
<1> QED BY <1>2, <1>3, <1>6, <1>8, <1>9

LEMMA PlainWritten ==
    ASSUME NEW h \in Strings, NEW dotted, IsName(dotted)
    PROVE  WriteName(Start(h), dotted, FALSE)
              = [octets |-> (h \o ToName(Front(dotted))) \o <<0>>, places |-> <<>>]
<1>1. PICK labels : labels = Front(dotted)
  OBVIOUS
<1>2. labels \in Seq(Strings)
  BY <1>1, NameLabels DEF Plain, Short
<1>3. PICK w : w = Start(h)
  OBVIOUS
<1>4. w.octets = h /\ w.places = <<>>
  BY <1>3, StartIs
<1>5. Known(w, labels) = {}
  BY <1>4 DEF Known
<1>6. Full(w, labels) = Len(labels) /\ EndOf(w, labels) = <<0>>
  <2>1. PICK known : known = Known(w, labels)
    OBVIOUS
  <2>2. Full(w, labels) = IF known = {} THEN Len(labels) ELSE Min(known) - 1
    BY <2>1, Zenon DEF Full
  <2>3. EndOf(w, labels) = <<0>>
    BY <1>5 DEF EndOf
  <2> QED BY <1>5, <2>1, <2>2, <2>3
<1>7. SubSeq(labels, 1, Len(labels)) = labels
  BY <1>2
<1>8. WriteName(w, dotted, FALSE)
         = [octets |-> (w.octets \o ToName(SubSeq(labels, 1, Full(w, labels)))) \o EndOf(w, labels),
            places |-> IF FALSE THEN Placed(w, labels, Full(w, labels)) ELSE <<>>]
  BY <1>1, WriteNameIs, Zenon
<1> QED BY <1>1, <1>3, <1>4, <1>6, <1>7, <1>8, Zenon

StandardQuery(dotted) ==
    MessageOf(FALSE, <<[name |-> dotted, type |-> TypePTR]>>, <<>>, <<>>, <<>>)

LEMMA StandardMessage ==
    ASSUME NEW dotted, IsName(dotted), ~IsRoot(dotted)
    PROVE  IsMessage(StandardQuery(dotted))
<1>1. PICK e : e = <<>>
  OBVIOUS
<1>2. PICK x : x = [name |-> dotted, type |-> TypePTR]
  OBVIOUS
<1>3. PICK q : q = <<x>>
  OBVIOUS
<1>4. x \in Questions /\ x.name = dotted
  <2>1. TypePTR \in Number
    BY DEF TypePTR, Number, NumberLimit
  <2>2. dotted \in Seq(Strings)
    BY Zenon DEF IsName
  <2> QED BY <1>2, <2>1, <2>2 DEF Questions
<1>5. q \in Seq(Questions) /\ Len(q) = 1 /\ DOMAIN q = {1} /\ q[1] = x
  BY <1>3, <1>4
<1>6. e \in Seq(Records) /\ Len(e) = 0 /\ DOMAIN e = {}
  BY <1>1
<1>7. 0 < NumberLimit /\ 1 < NumberLimit
  BY DEF NumberLimit
<1>8. PICK m : m = MessageOf(FALSE, q, e, e, e)
  OBVIOUS
<1>9. /\ m.questions = q /\ m.answers = e /\ m.authority = e /\ m.additional = e
      /\ m \in [isResponse : BOOLEAN, questions : Seq(Questions), answers : Seq(Records),
                authority : Seq(Records), additional : Seq(Records)]
  BY <1>5, <1>6, <1>8 DEF MessageOf
<1>10. Len(m.questions) < NumberLimit
  BY <1>5, <1>7, <1>9
<1>11. \A i \in DOMAIN m.questions : IsName(m.questions[i].name) /\ ~IsRoot(m.questions[i].name)
  BY <1>4, <1>5, <1>9
<1>12. \A records \in {m.answers, m.authority, m.additional} :
          Len(records) < NumberLimit /\ \A i \in DOMAIN records : IsRecord(records[i])
  BY <1>6, <1>7, <1>9
<1>13. IsMessage(m)
  BY <1>9, <1>10, <1>11, <1>12, Zenon DEF IsMessage
<1> QED BY <1>1, <1>2, <1>3, <1>8, <1>13, Zenon DEF StandardQuery

LEMMA StandardIs ==
    StandardQuery(name) = [Query EXCEPT !.questions = <<[name |-> name, type |-> TypePTR]>>]
<1>1. PICK x, y : x = <<[name |-> name, type |-> TypePTR]>>
                  /\ y = <<[name |-> Front(name), type |-> TypePTR]>>
  OBVIOUS
<1>2. Query = MessageOf(FALSE, y, <<>>, <<>>, <<>>)
  BY <1>1, Zenon DEF Query, MessageOf
<1>3. [Query EXCEPT !.questions = x] = With(Query, "questions", x)
  BY DEF With
<1>4. With(MessageOf(FALSE, y, <<>>, <<>>, <<>>), "questions", x)
         = MessageOf(FALSE, x, <<>>, <<>>, <<>>)
  BY DEF With, MessageOf
<1> QED BY <1>1, <1>2, <1>3, <1>4, Zenon DEF StandardQuery

LEMMA SameHeader == Header(Query) = Header(StandardQuery(name))
<1>1. PICK x, y : x = <<[name |-> name, type |-> TypePTR]>>
                  /\ y = <<[name |-> Front(name), type |-> TypePTR]>>
  OBVIOUS
<1>2. Len(x) = 1 /\ Len(y) = 1
  BY <1>1
<1>3. PICK e : e = <<>>
  OBVIOUS
<1>4. /\ StandardQuery(name).questions = x /\ StandardQuery(name).answers = e
      /\ StandardQuery(name).authority = e /\ StandardQuery(name).additional = e
      /\ StandardQuery(name).isResponse = FALSE
  BY <1>1, <1>3 DEF StandardQuery, MessageOf
<1>5. /\ Query.questions = y /\ Query.answers = e /\ Query.authority = e
      /\ Query.additional = e /\ Query.isResponse = FALSE
  BY <1>1, <1>3 DEF Query
<1> QED BY <1>2, <1>4, <1>5, HeaderParts, Zenon

Regroups(h, s, z, t, u) == ((h \o (s \o z)) \o t) \o u = ((h \o s) \o z) \o (t \o u)

LEMMA Regrouped ==
    ASSUME NEW h \in Strings, NEW s \in Strings, NEW z \in Strings, NEW t \in Strings,
           NEW u \in Strings
    PROVE  Regroups(h, s, z, t, u)
<1>1. PICK x : x = h \o (s \o z)
  OBVIOUS
<1>2. x = (h \o s) \o z /\ x \in Strings
  <2>1. Associates(h, s, z)
    BY JoinedThree, Zenon
  <2>2. h \o s \in Strings
    BY <2>1, Zenon DEF Associates
  <2>3. (h \o s) \o z \in Strings
    BY <2>2, JoinedIs, Zenon
  <2> QED BY <1>1, <2>1, <2>3, Zenon DEF Associates
<1>3. Associates(x, t, u)
  BY <1>2, JoinedThree, Zenon
<1> QED BY <1>1, <1>2, <1>3, Zenon DEF Associates, Regroups

LEMMA QueryWritten ==
    ASSUME IsName(name), ~IsRoot(name)
    PROVE  ToBuffer(Query) = Encode(StandardQuery(name), FALSE)
<1>1. PICK x, y : x = [name |-> name, type |-> TypePTR]
                  /\ y = [name |-> Front(name), type |-> TypePTR]
  OBVIOUS
<1>2. x.name = name /\ x.type = TypePTR /\ y.name = Front(name) /\ y.type = TypePTR
  BY <1>1
<1>3. PICK m : m = StandardQuery(name)
  OBVIOUS
<1>4. IsMessage(m)
  BY <1>3, StandardMessage
<1>5. m.questions = <<x>> /\ m.answers = <<>> /\ m.authority = <<>> /\ m.additional = <<>>
  BY <1>1, <1>3 DEF StandardQuery, MessageOf
<1>6. PICK h : h = Header(Query) /\ h = Header(m)
  BY <1>3, SameHeader
<1>7. h \in Strings /\ Len(h) = HeaderSize
  BY <1>4, <1>6, MessageHeader DEF Sized
<1>8. PICK s : s = ToName(Front(name))
  OBVIOUS
<1>9. PICK t, u, z : t = ToU16(TypePTR) /\ u = ToU16(1) /\ z = <<0>>
  OBVIOUS
<1>10. s \in Strings /\ t \in Strings /\ u \in Strings /\ z \in Strings
  <2>1. s \in Strings
    BY <1>8, NameLabels, ToNameTyped DEF Plain
  <2>2. 12 \in Nat /\ 12 < NumberLimit /\ 1 \in Nat /\ 1 < NumberLimit
    BY DEF NumberLimit
  <2>3. t \in Strings /\ u \in Strings
    BY <1>9, <2>2, NumberOctets DEF TypePTR
  <2>4. 0 \in Byte
    BY DEF Byte
  <2>5. <<0>> \in Strings
    BY <2>4 DEF Strings
  <2> QED BY <1>9, <2>1, <2>3, <2>5
<1>11. ToBuffer(Query) = ((h \o (s \o z)) \o t) \o u
  <2>1. PICK p : p = [offset |-> HeaderSize, octets |-> h]
    OBVIOUS
  <2>2. p.offset = HeaderSize /\ p.octets = h
    BY <2>1
  <2>3. Query.questions = <<y>>
    BY <1>1 DEF Query
  <2>4. ToBuffer(Query) = AddQuestion(p, y).octets
    BY <1>6, <2>1, <2>3, OneWritten, Zenon
  <2>5. AddQuestion(p, y).octets
           = ((SubSeq(p.octets, 1, p.offset) \o (ToName(y.name) \o Terminator))
                 \o ToU16(y.type)) \o ToU16(1)
    BY DEF AddQuestion
  <2>6. SubSeq(h, 1, HeaderSize) = h
    <3>1. SubSeq(h, 1, Len(h)) = h
      BY <1>7 DEF Strings
    <3> QED BY <1>7, <3>1
  <2> QED BY <1>2, <1>8, <1>9, <2>2, <2>4, <2>5, <2>6, Zenon DEF Terminator
<1>12. Encode(m, FALSE) = ((h \o s) \o z) \o (t \o u)
  <2>1. PICK w : w = Start(h)
    OBVIOUS
  <2>2. Encode(m, FALSE) = WriteQuestion(w, x, FALSE).octets
    <3>1. \A v : WriteRecords(v, <<>>, FALSE) = v
      BY NoRecords, Zenon
    <3>2. WriteQuestions(w, <<x>>, FALSE) = WriteQuestion(w, x, FALSE)
      BY OneQuestion
    <3> QED BY <1>5, <1>6, <2>1, <3>1, <3>2, Zenon DEF Encode
  <2>3. PICK v : v = WriteName(w, name, FALSE)
    OBVIOUS
  <2>4. v = [octets |-> (h \o s) \o z, places |-> <<>>]
    BY <1>7, <1>8, <1>9, <2>1, <2>3, PlainWritten, Zenon
  <2>5. WriteQuestion(w, x, FALSE) = Write(v, t \o u)
    BY <1>2, <1>9, <2>3, Zenon DEF WriteQuestion
  <2>6. Write(v, t \o u).octets = v.octets \o (t \o u) /\ v.octets = (h \o s) \o z
    BY <2>4 DEF Write
  <2> QED BY <2>2, <2>5, <2>6, Zenon
<1>13. Regroups(h, s, z, t, u)
  BY <1>7, <1>10, Regrouped
<1> QED BY <1>3, <1>11, <1>12, <1>13, Zenon DEF Regroups

-----------------------------------------------------------------------------
(* The listener.                                                             *)

LEMMA MaxIs ==
    ASSUME NEW n \in Nat, NEW S, S \subseteq 1 .. n, S # {}
    PROVE  Max(S) \in S
<1> DEFINE T == {n - x : x \in S}
<1>1. T \subseteq Nat /\ T # {}
  <2>1. \A x \in S : n - x \in Nat
    OBVIOUS
  <2>2. T \subseteq Nat
    BY <2>1
  <2>3. T # {}
    BY Zenon
  <2> QED BY <2>2, <2>3
<1>2. PICK y \in T : \A z \in T : y <= z
  BY <1>1, LeastNumber
<1>3. PICK x \in S : y = n - x
  OBVIOUS
<1>4. \A z \in S : x >= z
  <2> SUFFICES ASSUME NEW z \in S PROVE x >= z
    OBVIOUS
  <2>1. n - z \in T
    OBVIOUS
  <2>2. n - x <= n - z
    BY <1>2, <1>3, <2>1
  <2>3. x \in 1 .. n /\ z \in 1 .. n
    OBVIOUS
  <2> QED BY <2>2, <2>3
<1> QED BY <1>4, Zenon DEF Max

(* What is picked of a kind is none, or the data of a record of the service  *)
(* and of that kind.                                                         *)
LEMMA LatestIs ==
    ASSUME NEW message, NEW kind, message.answers \in Seq(Records),
           message.authority \in Seq(Records), message.additional \in Seq(Records),
           Latest(message, kind) # None
    PROVE  \E record \in AllRecords(message) :
               Concerns(record) /\ record.data.kind = kind /\ record.data = Latest(message, kind)
<1>1. PICK xs : xs = RecordsOf(message)
  OBVIOUS
<1>2. xs \in Seq(Records)
  BY <1>1 DEF RecordsOf
<1>3. PICK S : S = {i \in DOMAIN xs : Concerns(xs[i]) /\ xs[i].data.kind = kind}
  OBVIOUS
<1>4. Latest(message, kind) = IF S = {} THEN None ELSE xs[Max(S)].data
  BY <1>1, <1>3, Zenon DEF Latest
<1>5. S # {} /\ Latest(message, kind) = xs[Max(S)].data
  BY <1>4
<1>6. Len(xs) \in Nat /\ DOMAIN xs = 1 .. Len(xs)
  BY <1>2
<1>7. S \subseteq 1 .. Len(xs)
  BY <1>3, <1>6
<1>8. PICK i \in S : i = Max(S)
  BY <1>5, <1>6, <1>7, MaxIs
<1>9. i \in DOMAIN xs /\ Concerns(xs[i]) /\ xs[i].data.kind = kind
  BY <1>3
<1>10. xs[i] \in AllRecords(message)
  BY <1>1, <1>9, Zenon DEF RecordsOf, AllRecords, ToSet
<1> QED BY <1>5, <1>8, <1>9, <1>10, Zenon

(* The datagrams under way.                                                  *)
OwnQuery == [octets |-> ToBuffer(Query), from |-> "self", message |-> StandardQuery(name)]
Reply(message, compress) ==
    [octets |-> Encode(message, compress), from |-> "other", message |-> message]
WasSent(datagram) ==
    \/ datagram = OwnQuery
    \/ \E message \in Messages, compress \in BOOLEAN : datagram = Reply(message, compress)

(* What a datagram under way says, and that it is read so.                   *)
Says(datagram) ==
    /\ IsMessage(datagram.message) /\ datagram.octets \in Strings
    /\ Conveys(datagram.octets, datagram.message)
    /\ datagram.from = "self" => datagram.octets = Encode(datagram.message, FALSE)

LEMMA SentIsSaid ==
    ASSUME name = WithDot(Name), NEW datagram, WasSent(datagram)
    PROVE  Says(datagram)
<1>1. CASE datagram = OwnQuery
  <2>1. IsName(name) /\ ~IsRoot(name)
    BY NameAssumption
  <2>2. PICK m : m = StandardQuery(name)
    OBVIOUS
  <2>3. IsMessage(m)
    BY <2>1, <2>2, StandardMessage
  <2>4. datagram.octets = Encode(m, FALSE) /\ datagram.message = m
    BY <1>1, <2>1, <2>2, QueryWritten DEF OwnQuery
  <2>5. Encode(m, FALSE) \in Strings /\ Conveys(Encode(m, FALSE), m)
    BY <2>3, MessageRead
  <2> QED BY <2>3, <2>4, <2>5, Zenon DEF Says
<1>2. ASSUME NEW m \in Messages, NEW compress \in BOOLEAN, datagram = Reply(m, compress)
      PROVE  Says(datagram)
  <2>1. IsMessage(m)
    BY MessagesAssumption
  <2>2. /\ datagram.octets = Encode(m, compress) /\ datagram.message = m
        /\ datagram.from = "other"
    BY <1>2 DEF Reply
  <2>3. Encode(m, compress) \in Strings /\ Conveys(Encode(m, compress), m)
    BY <2>1, MessageRead
  <2>4. "other" # "self"
    OBVIOUS
  <2> QED BY <2>1, <2>2, <2>3, <2>4, Zenon DEF Says
<1> QED BY <1>1, <1>2, Zenon DEF WasSent

-----------------------------------------------------------------------------
(* The invariant of the discovery.                                           *)

IsSequence(s) == \E S : s \in Seq(S)

IInv ==
    /\ name = WithDot(Name)
    /\ queries \in 0 .. MaxQueries /\ sent \in 0 .. MaxDatagrams
    /\ \A datagram \in group : WasSent(datagram)
    /\ IsSequence(published) /\ \A i \in DOMAIN published : published[i].ptr.kind = "PTR"

LEMMA SequenceGrows ==
    ASSUME NEW s, IsSequence(s), NEW x
    PROVE  /\ s \o <<>> = s /\ IsSequence(s \o <<x>>) /\ Last(s \o <<x>>) = x
           /\ \A i \in DOMAIN (s \o <<x>>) : \/ i \in DOMAIN s /\ (s \o <<x>>)[i] = s[i]
                                             \/ (s \o <<x>>)[i] = x
<1>1. PICK S : s \in Seq(S)
  BY Zenon DEF IsSequence
<1>2. PICK T : T = S \cup {x}
  OBVIOUS
<1>3. s \in Seq(T) /\ x \in T
  BY <1>1, <1>2
<1>4. s \o <<>> = s
  BY <1>3
<1>5. PICK n \in Nat : n = Len(s)
  BY <1>3
<1>6. PICK t : t = s \o <<x>>
  OBVIOUS
<1>7. t \in Seq(T) /\ Len(t) = n + 1 /\ t[n + 1] = x /\ \A i \in 1 .. n : t[i] = s[i]
  BY <1>3, <1>5, <1>6
<1>8. \A i \in DOMAIN t : (i \in DOMAIN s /\ t[i] = s[i]) \/ t[i] = x
  <2>1. DOMAIN t = 1 .. n + 1 /\ DOMAIN s = 1 .. n
    BY <1>3, <1>5, <1>7
  <2>2. \A i \in 1 .. n + 1 : i \in 1 .. n \/ i = n + 1
    OBVIOUS
  <2> QED BY <1>7, <2>1, <2>2, Zenon
<1>9. Last(t) = x
  BY <1>7 DEF Last
<1>10. IsSequence(t)
  BY <1>7, Zenon DEF IsSequence
<1> QED BY <1>4, <1>6, <1>8, <1>9, <1>10

(* A datagram that says a message is published if that is a response with an *)
(* answer and a pointer of the service, and not otherwise.                   *)
Picked(message) ==
    [ptr |-> Latest(message, "PTR"), a |-> Latest(message, "A"),
     srv |-> Latest(message, "SRV"), txt |-> Latest(message, "TXT")]

LEMMA PublishedOf ==
    ASSUME NEW datagram, Says(datagram)
    PROVE  \/ Responses(FromBuffer(datagram.octets)) = <<>>
           \/ /\ datagram.message.isResponse
              /\ Latest(datagram.message, "PTR") # None
              /\ Responses(FromBuffer(datagram.octets)) = <<Picked(datagram.message)>>
<1>1. PICK m, p : m = datagram.message /\ p = FromBuffer(datagram.octets)
  OBVIOUS
<1>2. Conveys(datagram.octets, m)
  BY <1>1, Zenon DEF Says
<1>3. CASE Ignored(p)
  BY <1>1, <1>3, Zenon DEF Responses
<1>4. CASE ~Ignored(p)
  <2>1. p.size # 0 /\ p.message.isResponse
    BY <1>4, Zenon DEF Ignored
  <2>2. ~HasEmptyText(m)
    <3>1. Nothing.size = 0
      BY DEF Nothing
    <3>2. HasEmptyText(m) => p = Nothing
      BY <1>1, <1>2, Zenon DEF Conveys
    <3> QED BY <2>1, <3>1, <3>2, Zenon
  <2>3. p.message = Read(m)
    BY <1>1, <1>2, <2>2, Zenon DEF Conveys
  <2>4. m.isResponse
    <3>1. CASE ~m.isResponse
      <4>1. IsMessage(m)
        BY <1>1, Zenon DEF Says
      <4>2. /\ m = MessageOf(m.isResponse, m.questions, m.answers, m.authority, m.additional)
        BY <4>1, MessageIs, Zenon
      <4>3. PICK i, q, a, u, d : /\ i = m.isResponse /\ q = m.questions /\ a = m.answers
                                 /\ u = m.authority /\ d = m.additional
        OBVIOUS
      <4>4. m = MessageOf(i, q, a, u, d)
        BY <4>2, <4>3, Zenon
      <4>5. Read(m) = MessageOf(i, q, <<>>, <<>>, <<>>)
        BY <3>1, <4>4, QueryRead
      <4>6. Read(m).isResponse = i
        BY <4>5 DEF MessageOf
      <4> QED BY <2>1, <2>3, <3>1, <4>3, <4>6, Zenon
    <3> QED BY <3>1
  <2>5. p.message = m
    BY <2>3, <2>4, Zenon DEF Read
  <2>6. Responses(p) = IF Latest(m, "PTR") = None THEN <<>> ELSE <<Picked(m)>>
    BY <1>4, <2>5, Zenon DEF Responses, Picked
  <2> QED BY <1>1, <2>4, <2>6, Zenon
<1> QED BY <1>3, <1>4

LEMMA InitHolds == Init => IInv
<1> SUFFICES ASSUME Init PROVE IInv
  OBVIOUS
<1>1. name = WithDot(Name) /\ queries = 0 /\ sent = 0 /\ group = {} /\ published = <<>>
  BY Zenon DEF Init
<1>2. queries \in 0 .. MaxQueries /\ sent \in 0 .. MaxDatagrams
  BY <1>1, BoundsAssumption
<1>3. \A datagram \in group : WasSent(datagram)
  BY <1>1
<1>4. <<>> \in Seq({})
  OBVIOUS
<1>5. IsSequence(published) /\ \A i \in DOMAIN published : published[i].ptr.kind = "PTR"
  BY <1>1, <1>4 DEF IsSequence
<1> QED BY <1>1, <1>2, <1>3, <1>5 DEF IInv

LEMMA StepHolds == IInv /\ [Next]_vars => IInv'
<1> SUFFICES ASSUME IInv, [Next]_vars PROVE IInv'
  OBVIOUS
<1>1. /\ name = WithDot(Name) /\ queries \in 0 .. MaxQueries /\ sent \in 0 .. MaxDatagrams
      /\ \A datagram \in group : WasSent(datagram)
      /\ IsSequence(published) /\ \A i \in DOMAIN published : published[i].ptr.kind = "PTR"
  BY Zenon DEF IInv
<1>2. ASSUME name' = name, NEW datagram, WasSent(datagram) PROVE WasSent(datagram)'
  <2>1. Query' = Query /\ StandardQuery(name)' = StandardQuery(name)
    BY <1>2 DEF Query, StandardQuery, MessageOf
  <2>2. OwnQuery' = OwnQuery
    BY <2>1 DEF OwnQuery, ToBuffer, StandardQuery, MessageOf
  <2> QED BY <1>2, <2>2 DEF WasSent, Reply
<1>3. CASE Discover
  <2>1. /\ queries < MaxQueries /\ queries' = queries + 1 /\ name' = name /\ sent' = sent
        /\ published' = published
        /\ group' = group \cup {[octets |-> ToBuffer(Query), from |-> "self",
                                 message |-> [Query EXCEPT !.questions =
                                     <<[name |-> name, type |-> TypePTR]>>]]}
    BY <1>3, Zenon DEF Discover
  <2>2. group' = group \cup {OwnQuery}
    BY <2>1, StandardIs, Zenon DEF OwnQuery
  <2>3. WasSent(OwnQuery)
    BY Zenon DEF WasSent
  <2>4. \A datagram \in group' : WasSent(datagram)'
    BY <1>1, <1>2, <2>1, <2>2, <2>3
  <2>5. queries' \in 0 .. MaxQueries
    BY <1>1, <2>1, BoundsAssumption
  <2> QED BY <1>1, <2>1, <2>4, <2>5 DEF IInv
<1>4. ASSUME NEW m \in Messages, NEW compress \in BOOLEAN, Multicast(m, compress)
      PROVE  IInv'
  <2>1. /\ sent < MaxDatagrams /\ sent' = sent + 1 /\ name' = name /\ queries' = queries
        /\ published' = published
        /\ group' = group \cup {[octets |-> Encode(m, compress), from |-> "other",
                                 message |-> m]}
    BY <1>4, Zenon DEF Multicast
  <2>2. group' = group \cup {Reply(m, compress)}
    BY <2>1, Zenon DEF Reply
  <2>3. WasSent(Reply(m, compress))
    BY Zenon DEF WasSent
  <2>4. \A datagram \in group' : WasSent(datagram)'
    BY <1>1, <1>2, <2>1, <2>2, <2>3
  <2>5. sent' \in 0 .. MaxDatagrams
    BY <1>1, <2>1, BoundsAssumption
  <2> QED BY <1>1, <2>1, <2>4, <2>5 DEF IInv
<1>5. ASSUME NEW datagram \in group, DataEvent(datagram) PROVE IInv'
  <2>1. /\ published' = published \o Responses(FromBuffer(datagram.octets))
        /\ group' = group \ {datagram} /\ name' = name /\ queries' = queries /\ sent' = sent
    BY <1>5, Zenon DEF DataEvent
  <2>2. \A d \in group' : WasSent(d)'
    BY <1>1, <1>2, <2>1
  <2>3. Says(datagram)
    BY <1>1, SentIsSaid
  <2>4. PICK m : m = datagram.message
    OBVIOUS
  <2>5. IsSequence(published') /\ \A i \in DOMAIN published' : published'[i].ptr.kind = "PTR"
    <3>1. CASE Responses(FromBuffer(datagram.octets)) = <<>>
      <4>1. published' = published
        BY <1>1, <2>1, <3>1, SequenceGrows
      <4> QED BY <1>1, <4>1
    <3>2. CASE /\ Latest(m, "PTR") # None
               /\ Responses(FromBuffer(datagram.octets)) = <<Picked(m)>>
      <4>1. PICK x : x = Picked(m)
        OBVIOUS
      <4>2. x.ptr.kind = "PTR"
        <5>1. IsMessage(m)
          BY <2>3, <2>4, Zenon DEF Says
        <5>2. Latest(m, "PTR").kind = "PTR"
          BY <3>2, <5>1, MessageIs, LatestIs
        <5> QED BY <4>1, <5>2 DEF Picked
      <4>3. published' = published \o <<x>>
        BY <2>1, <3>2, <4>1
      <4> QED BY <1>1, <4>2, <4>3, SequenceGrows
    <3> QED BY <2>3, <2>4, <3>1, <3>2, PublishedOf, Zenon
  <2> QED BY <1>1, <2>1, <2>2, <2>5 DEF IInv
<1>6. ASSUME NEW datagram \in group, Lose(datagram) PROVE IInv'
  <2>1. /\ group' = group \ {datagram} /\ name' = name /\ queries' = queries /\ sent' = sent
        /\ published' = published
    BY <1>6, Zenon DEF Lose
  <2>2. \A d \in group' : WasSent(d)'
    BY <1>1, <1>2, <2>1
  <2> QED BY <1>1, <2>1, <2>2 DEF IInv
<1>7. CASE UNCHANGED vars
  <2>1. /\ group' = group /\ name' = name /\ queries' = queries /\ sent' = sent
        /\ published' = published
    BY <1>7 DEF vars
  <2>2. \A d \in group' : WasSent(d)'
    BY <1>1, <1>2, <2>1
  <2> QED BY <1>1, <2>1, <2>2 DEF IInv
<1> QED BY <1>3, <1>4, <1>5, <1>6, <1>7 DEF Next

LEMMA Invariant == Spec => []IInv
BY InitHolds, StepHolds, PTL DEF Spec

(* The name ends with its dot; the calls stay within their bounds; every     *)
(* datagram is octets; nothing is published without a pointer.               *)
THEOREM TypesHold == Spec => []TypeOK
<1>1. IInv => TypeOK
  <2> SUFFICES ASSUME IInv PROVE TypeOK
    OBVIOUS
  <2>1. /\ name = WithDot(Name) /\ queries \in 0 .. MaxQueries /\ sent \in 0 .. MaxDatagrams
        /\ \A datagram \in group : WasSent(datagram)
        /\ \A i \in DOMAIN published : published[i].ptr.kind = "PTR"
    BY Zenon DEF IInv
  <2>2. Last(name) = Empty
    BY <2>1, NameAssumption, Zenon DEF IsName
  <2>3. \A datagram \in group : datagram.octets \in Seq(0 .. 255)
    BY <2>1, SentIsSaid, Zenon DEF Says, Strings, Byte
  <2> QED BY <2>1, <2>2, <2>3, Zenon DEF TypeOK
<1> QED BY <1>1, Invariant, PTL

(* Whatever hosts say, compressed or not, the code reads it as what it says: *)
(* a response whole, a query's questions; an empty text makes it read        *)
(* nothing.  What discover() sends is read as the question for the service.  *)
THEOREM MessagesUnderstood == Spec => []Understood
<1>1. IInv => Understood
  <2> SUFFICES ASSUME IInv, NEW datagram \in group PROVE Conveys(datagram.octets, datagram.message)
    BY Zenon DEF Understood, Conveys
  <2>1. name = WithDot(Name) /\ WasSent(datagram)
    BY Zenon DEF IInv
  <2> QED BY <2>1, SentIsSaid, Zenon DEF Says
<1> QED BY <1>1, Invariant, PTL

(* The datagram of discover() is, octet by octet, the one any host would     *)
(* write for the same question: toBuffer() gives the name its last label.    *)
THEOREM QueriesAreStandard == Spec => []QueryIsStandard
<1>1. IInv => QueryIsStandard
  <2> SUFFICES ASSUME IInv, NEW datagram \in group, datagram.from = "self"
               PROVE  datagram.octets = Encode(datagram.message, FALSE)
    BY Zenon DEF QueryIsStandard
  <2>1. name = WithDot(Name) /\ WasSent(datagram)
    BY Zenon DEF IInv
  <2> QED BY <2>1, SentIsSaid, Zenon DEF Says
<1> QED BY <1>1, Invariant, PTL

LEMMA PickedIsTrue ==
    ASSUME OwnersApart, IInv, NEW datagram \in group, DataEvent(datagram), published' # published
    PROVE  /\ datagram.message.isResponse
           /\ \A data \in {Last(published').ptr, Last(published').a, Last(published').srv,
                           Last(published').txt} : From(data, datagram.message)
<1>1. name = WithDot(Name) /\ WasSent(datagram) /\ IsSequence(published)
  BY Zenon DEF IInv
<1>2. Says(datagram)
  BY <1>1, SentIsSaid
<1>3. published' = published \o Responses(FromBuffer(datagram.octets))
  BY Zenon DEF DataEvent
<1>4. Responses(FromBuffer(datagram.octets)) # <<>>
  <2>1. published \o <<>> = published
    BY <1>1, SequenceGrows
  <2> QED BY <1>3, <2>1, Zenon
<1>5. PICK m : m = datagram.message
  OBVIOUS
<1>6. m.isResponse /\ Responses(FromBuffer(datagram.octets)) = <<Picked(m)>>
  BY <1>2, <1>4, <1>5, PublishedOf, Zenon
<1>7. Last(published') = Picked(m)
  BY <1>1, <1>3, <1>6, SequenceGrows
<1>8. ASSUME NEW kind PROVE From(Latest(m, kind), m)
  <2>1. CASE Latest(m, kind) = None
    BY <2>1, Zenon DEF From
  <2>2. CASE Latest(m, kind) # None
    <3>1. IsMessage(m)
      BY <1>2, <1>5, Zenon DEF Says
    <3>2. PICK record \in AllRecords(m) :
             Concerns(record) /\ record.data.kind = kind /\ record.data = Latest(m, kind)
      BY <2>2, <3>1, MessageIs, LatestIs
    <3>3. InService(record)
      <4>1. CASE datagram = OwnQuery
        <5>1. StandardQuery(name).isResponse = FALSE
          BY DEF StandardQuery, MessageOf
        <5>2. m = StandardQuery(name)
          BY <1>5, <4>1 DEF OwnQuery
        <5> QED BY <1>6, <5>1, <5>2
      <4>2. ASSUME NEW message \in Messages, NEW compress \in BOOLEAN,
                   datagram = Reply(message, compress)
            PROVE  InService(record)
        <5>1. m = message
          BY <1>5, <4>2 DEF Reply
        <5> QED BY <1>1, <3>2, <5>1, Zenon DEF OwnersApart, Concerns, InService
      <4> QED BY <1>1, <4>1, <4>2, Zenon DEF WasSent
    <3> QED BY <3>2, <3>3, Zenon DEF From
  <2> QED BY <2>1, <2>2
<1>9. /\ Last(published').ptr = Latest(m, "PTR") /\ Last(published').a = Latest(m, "A")
      /\ Last(published').srv = Latest(m, "SRV") /\ Last(published').txt = Latest(m, "TXT")
  BY <1>7 DEF Picked
<1> QED BY <1>5, <1>6, <1>8, <1>9

(* What is published comes from a response, each part of it from a record of *)
(* the service in that response.                                             *)
THEOREM PublicationsAreTrue == ASSUME OwnersApart PROVE Spec => PublishedIsTrue
<1>1. ASSUME IInv, [Next]_vars
      PROVE  [\A datagram \in group : DataEvent(datagram) /\ published' # published =>
                  LET response == Last(published') IN
                  /\ datagram.message.isResponse
                  /\ \A data \in {response.ptr, response.a, response.srv, response.txt} :
                        From(data, datagram.message)]_vars
  BY <1>1, PickedIsTrue
<1> QED BY <1>1, Invariant, PTL DEF Spec, PublishedIsTrue

-----------------------------------------------------------------------------
(* ends_with() on labels and on text.                                        *)

(* What a sequence ends with, place by place, and behind what.               *)
EndsWith(t, s) ==
    Len(s) <= Len(t) /\ \A i \in 1 .. Len(s) : t[Len(t) - Len(s) + i] = s[i]

LEMMA SuffixIs ==
    ASSUME NEW T, NEW s \in Seq(T), NEW t \in Seq(T)
    PROVE  IsSuffix(s, t) <=> EndsWith(t, s)
<1>1. PICK k \in Nat, n \in Nat : k = Len(s) /\ n = Len(t)
  OBVIOUS
<1>2. PICK a, b : a = Reverse(s) /\ b = Reverse(t)
  OBVIOUS
<1>3. a \in Seq(T) /\ Len(a) = k /\ \A i \in 1 .. k : a[i] = s[k - i + 1]
  BY <1>1, <1>2 DEF Reverse
<1>4. b \in Seq(T) /\ Len(b) = n /\ \A i \in 1 .. n : b[i] = t[n - i + 1]
  BY <1>1, <1>2 DEF Reverse
<1>5. IsSuffix(s, t) <=> k <= n /\ SubSeq(a, 1, k) = SubSeq(b, 1, k)
  BY <1>2, <1>3, <1>4, Zenon DEF IsSuffix, IsPrefix
<1>6. ASSUME k <= n PROVE SubSeq(a, 1, k) = SubSeq(b, 1, k) <=> \A i \in 1 .. k : a[i] = b[i]
  <2>1. PICK c, d : c = SubSeq(a, 1, k) /\ d = SubSeq(b, 1, k)
    OBVIOUS
  <2>2. c \in Seq(T) /\ Len(c) = k /\ \A i \in 1 .. k : c[i] = a[i]
    BY <1>3, <2>1
  <2>3. d \in Seq(T) /\ Len(d) = k /\ \A i \in 1 .. k : d[i] = b[i]
    BY <1>4, <1>6, <2>1
  <2>4. c = d <=> \A i \in 1 .. k : c[i] = d[i]
    BY <2>2, <2>3
  <2> QED BY <2>1, <2>2, <2>3, <2>4
<1>7. ASSUME k <= n
      PROVE  (\A i \in 1 .. k : a[i] = b[i]) <=> \A i \in 1 .. k : t[n - k + i] = s[i]
  <2>1. ASSUME \A i \in 1 .. k : a[i] = b[i], NEW i \in 1 .. k PROVE t[n - k + i] = s[i]
    <3>1. PICK j \in 1 .. k : j = k - i + 1
      OBVIOUS
    <3>2. a[j] = s[k - j + 1] /\ b[j] = t[n - j + 1] /\ a[j] = b[j]
      BY <1>3, <1>4, <1>7, <2>1
    <3>3. k - j + 1 = i /\ n - j + 1 = n - k + i
      BY <3>1
    <3> QED BY <3>2, <3>3
  <2>2. ASSUME \A i \in 1 .. k : t[n - k + i] = s[i], NEW i \in 1 .. k PROVE a[i] = b[i]
    <3>1. PICK j \in 1 .. k : j = k - i + 1
      OBVIOUS
    <3>2. t[n - k + j] = s[j] /\ a[i] = s[k - i + 1] /\ b[i] = t[n - i + 1]
      BY <1>3, <1>4, <1>7, <2>2
    <3>3. n - k + j = n - i + 1
      BY <3>1
    <3> QED BY <3>1, <3>2, <3>3
  <2> QED BY <2>1, <2>2
<1> QED BY <1>1, <1>5, <1>6, <1>7 DEF EndsWith

LEMMA EndOfBoth ==
    ASSUME NEW T, NEW s \in Seq(T), NEW p \in Seq(T)
    PROVE  EndsWith(p \o s, s)
BY DEF EndsWith

(* The pieces of a text: the first label, and the others behind their dots.  *)
Pieces(dotted) == [i \in DOMAIN dotted |-> IF i = 1 THEN dotted[i] ELSE <<46>> \o dotted[i]]

LEMMA PiecesIs ==
    ASSUME NEW dotted \in Seq(Strings)
    PROVE  /\ Pieces(dotted) \in Seq(Seq(Byte)) /\ Len(Pieces(dotted)) = Len(dotted)
           /\ \A i \in 1 .. Len(dotted) :
                 Pieces(dotted)[i] = IF i = 1 THEN dotted[i] ELSE <<46>> \o dotted[i]
<1>1. <<46>> \in Seq(Byte)
  <2>1. 46 \in Byte
    BY DEF Byte
  <2> QED BY <2>1
<1>2. ASSUME NEW i \in 1 .. Len(dotted)
      PROVE  (IF i = 1 THEN dotted[i] ELSE <<46>> \o dotted[i]) \in Seq(Byte)
  <2>1. dotted[i] \in Seq(Byte)
    BY DEF Strings
  <2>2. <<46>> \o dotted[i] \in Seq(Byte)
    BY <1>1, <2>1
  <2> QED BY <2>1, <2>2
<1>3. Len(dotted) \in Nat /\ DOMAIN dotted = 1 .. Len(dotted)
  OBVIOUS
<1> QED BY <1>2, <1>3 DEF Pieces

LEMMA TextOf ==
    ASSUME NEW dotted \in Seq(Strings)
    PROVE  \E h : /\ Joins(h, Pieces(dotted), Len(dotted), Byte)
                  /\ Text(dotted) = h[Len(dotted)]
<1>1. Pieces(dotted) \in Seq(Seq(Byte)) /\ Len(Pieces(dotted)) = Len(dotted)
  BY PiecesIs
<1>2. PICK h : Joins(h, Pieces(dotted), Len(dotted), Byte)
  BY <1>1, JoinsExist
<1>3. FlattenSeq(Pieces(dotted)) = h[Len(dotted)]
  BY <1>1, <1>2, FlattenSeqIs
<1> QED BY <1>2, <1>3, Zenon DEF Text, Pieces

LEMMA ByteJoined ==
    ASSUME NEW s \in Seq(Byte), NEW t \in Seq(Byte), NEW u \in Seq(Byte)
    PROVE  (s \o t) \o u = s \o (t \o u) /\ s \o t \in Seq(Byte)
BY ConcatAssociative

(* A name that ends with another, label by label, does so as a text.         *)
LEMMA TextEnds ==
    ASSUME NEW s \in Seq(Strings), NEW t \in Seq(Strings), s # <<>>, IsSuffix(s, t)
    PROVE  IsSuffix(Text(s), Text(t))
<1>1. PICK k \in Nat, n \in Nat : k = Len(s) /\ n = Len(t)
  OBVIOUS
<1>2. k > 0 /\ k <= n /\ \A i \in 1 .. k : t[n - k + i] = s[i]
  BY <1>1, SuffixIs DEF EndsWith
<1>3. PICK d \in Nat : d = n - k
  BY <1>2
<1>4. PICK f : Joins(f, Pieces(s), k, Byte) /\ Text(s) = f[k]
  BY <1>1, TextOf
<1>5. PICK g : Joins(g, Pieces(t), n, Byte) /\ Text(t) = g[n]
  BY <1>1, TextOf
<1>6. PICK v, u : v = Pieces(s) /\ u = Pieces(t)
  OBVIOUS
<1>7. \A i \in 1 .. k : v[i] \in Seq(Byte) /\ v[i] = IF i = 1 THEN s[i] ELSE <<46>> \o s[i]
  BY <1>1, <1>6, PiecesIs
<1>8. \A i \in 1 .. n : u[i] \in Seq(Byte) /\ u[i] = IF i = 1 THEN t[i] ELSE <<46>> \o t[i]
  BY <1>1, <1>6, PiecesIs
<1>9. /\ f \in [0 .. k -> Seq(Byte)] /\ f[0] = <<>>
      /\ \A i \in 0 .. k - 1 : f[i + 1] = f[i] \o v[i + 1]
  BY <1>4, <1>6 DEF Joins
<1>10. /\ g \in [0 .. n -> Seq(Byte)] /\ g[0] = <<>>
       /\ \A i \in 0 .. n - 1 : g[i + 1] = g[i] \o u[i + 1]
  BY <1>5, <1>6 DEF Joins
<1>11. Text(s) \in Seq(Byte) /\ Text(t) \in Seq(Byte)
  BY <1>4, <1>5, <1>9, <1>10
<1>12. \A i \in 1 .. k : t[d + i] = s[i]
  BY <1>2, <1>3
<1>13. n = d + k
  BY <1>3
<1>14. CASE d = 0
  <2>1. n = k /\ \A i \in 1 .. k : t[i] = s[i]
    BY <1>12, <1>13, <1>14
  <2>2. s = t
    <3>1. s \in Seq(Strings) /\ t \in Seq(Strings) /\ Len(s) = Len(t)
      BY <1>1, <2>1
    <3>2. \A i \in 1 .. Len(s) : s[i] = t[i]
      BY <1>1, <2>1
    <3> QED BY <3>1, <3>2, SeqEqual
  <2>3. EndsWith(Text(t), Text(s))
    BY <1>11, <2>2 DEF EndsWith
  <2> QED BY <1>11, <2>3, SuffixIs
<1>15. CASE d > 0
  <2>1. PICK p : p = g[d] \o <<46>>
    OBVIOUS
  <2>2. 46 \in Byte /\ <<46>> \in Seq(Byte)
    BY DEF Byte
  <2>3. g[d] \in Seq(Byte) /\ p \in Seq(Byte)
    BY <1>10, <1>13, <2>1, <2>2
  <2> DEFINE S == {j \in Nat : j + 1 \in 1 .. k => g[d + (j + 1)] = p \o f[j + 1]}
  <2>4. 0 \in S
    <3> HIDE DEF S
    <3>1. f[0 + 1] = f[0] \o v[0 + 1]
      <4>1. 0 \in 0 .. k - 1
        BY <1>2
      <4> QED BY <1>9, <4>1, Zenon
    <3>2. v[1] = s[1] /\ v[1] \in Seq(Byte)
      BY <1>2, <1>7
    <3>3. f[1] = s[1]
      BY <1>9, <3>1, <3>2
    <3>4. g[d + 1] = g[d] \o u[d + 1]
      <4>1. d \in 0 .. n - 1
        BY <1>2, <1>13
      <4> QED BY <1>10, <4>1, Zenon
    <3>5. u[d + 1] = <<46>> \o t[d + 1] /\ t[d + 1] = s[1]
      <4>1. d + 1 \in 1 .. n /\ d + 1 # 1 /\ 1 \in 1 .. k
        BY <1>2, <1>13, <1>15
      <4>2. u[d + 1] = IF d + 1 = 1 THEN t[d + 1] ELSE <<46>> \o t[d + 1]
        BY <1>8, <4>1, Zenon
      <4> QED BY <1>12, <4>1, <4>2
    <3>6. g[d + 1] = p \o s[1]
      <4>1. (g[d] \o <<46>>) \o s[1] = g[d] \o (<<46>> \o s[1])
        <5>1. PICK a, b, c : a = g[d] /\ b = <<46>> /\ c = s[1]
          OBVIOUS
        <5>2. a \in Seq(Byte) /\ b \in Seq(Byte) /\ c \in Seq(Byte)
          BY <2>2, <2>3, <3>2, <5>1, Zenon
        <5>3. (a \o b) \o c = a \o (b \o c)
          BY <5>2, ByteJoined
        <5> QED BY <5>1, <5>3, Zenon
      <4> QED BY <2>1, <3>4, <3>5, <4>1, Zenon
    <3> QED BY <3>3, <3>6 DEF S
  <2>5. ASSUME NEW j \in Nat, j \in S PROVE j + 1 \in S
    <3> SUFFICES ASSUME j + 2 \in 1 .. k PROVE g[d + (j + 2)] = p \o f[j + 2]
      OBVIOUS
    <3>1. g[d + (j + 1)] = p \o f[j + 1]
      BY <2>5
    <3> HIDE DEF S
    <3>2. PICK i \in 1 .. k : i = j + 2
      OBVIOUS
    <3>3. f[i] = f[j + 1] \o v[i] /\ f[j + 1] \in Seq(Byte)
      <4>1. PICK m : m = j + 1
        OBVIOUS
      <4>2. m \in 0 .. k - 1 /\ m \in 0 .. k /\ m + 1 = i
        BY <3>2, <4>1
      <4>3. f[m + 1] = f[m] \o v[m + 1] /\ f[m] \in Seq(Byte)
        BY <1>9, <4>2
      <4> QED BY <4>1, <4>2, <4>3
    <3>4. g[d + i] = g[d + (j + 1)] \o u[d + i]
      <4>1. d + (j + 1) \in 0 .. n - 1 /\ d + (j + 1) + 1 = d + i
        BY <1>13, <3>2
      <4> QED BY <1>10, <4>1
    <3>5. v[i] = <<46>> \o s[i] /\ v[i] \in Seq(Byte)
      <4>1. i # 1
        BY <3>2
      <4>2. v[i] \in Seq(Byte) /\ v[i] = IF i = 1 THEN s[i] ELSE <<46>> \o s[i]
        BY <1>7, Zenon
      <4> QED BY <4>1, <4>2
    <3>6. u[d + i] = <<46>> \o t[d + i] /\ t[d + i] = s[i]
      <4>1. d + i \in 1 .. n /\ d + i # 1
        BY <1>13, <3>2
      <4> QED BY <1>8, <1>12, <4>1
    <3>7. u[d + i] = v[i]
      BY <3>5, <3>6
    <3>8. g[d + i] = (p \o f[j + 1]) \o v[i]
      BY <3>1, <3>4, <3>7
    <3>9. (p \o f[j + 1]) \o v[i] = p \o (f[j + 1] \o v[i])
      BY <2>3, <3>3, <3>5, ByteJoined
    <3> QED BY <3>2, <3>3, <3>8, <3>9
  <2>6. Nat \subseteq S
    <3> HIDE DEF S
    <3> QED BY <2>4, <2>5, NumbersFrom
  <2>7. k - 1 \in S
    <3> HIDE DEF S
    <3> QED BY <1>2, <2>6
  <2>8. g[d + k] = p \o f[k]
    BY <1>2, <2>7
  <2>9. Text(t) = p \o Text(s)
    BY <1>4, <1>5, <1>13, <2>8
  <2>10. EndsWith(Text(t), Text(s))
    BY <1>11, <2>3, <2>9, EndOfBoth
  <2> QED BY <1>11, <2>10, SuffixIs
<1> QED BY <1>3, <1>14, <1>15

-----------------------------------------------------------------------------
(* A message about one instance.                                             *)

(* What is there of a kind is found.                                         *)
LEMMA LatestFound ==
    ASSUME NEW message, NEW kind, kind # "none", message.answers \in Seq(Records),
           message.authority \in Seq(Records), message.additional \in Seq(Records),
           NEW record \in AllRecords(message), Concerns(record), record.data.kind = kind
    PROVE  Latest(message, kind) # None
<1>1. PICK xs : xs = RecordsOf(message)
  OBVIOUS
<1>2. xs \in Seq(Records)
  BY <1>1 DEF RecordsOf
<1>3. PICK S : S = {i \in DOMAIN xs : Concerns(xs[i]) /\ xs[i].data.kind = kind}
  OBVIOUS
<1>4. Latest(message, kind) = IF S = {} THEN None ELSE xs[Max(S)].data
  BY <1>1, <1>3, Zenon DEF Latest
<1>5. PICK k \in DOMAIN xs : xs[k] = record
  BY <1>1, Zenon DEF RecordsOf, AllRecords, ToSet
<1>6. k \in S
  BY <1>3, <1>5, Zenon
<1>7. Len(xs) \in Nat /\ DOMAIN xs = 1 .. Len(xs)
  BY <1>2
<1>8. S \subseteq 1 .. Len(xs) /\ S # {}
  BY <1>3, <1>6, <1>7
<1>9. Max(S) \in S
  BY <1>7, <1>8, MaxIs
<1>10. PICK i \in S : i = Max(S)
  BY <1>9
<1>11. xs[i].data.kind = kind
  BY <1>3
<1>12. Latest(message, kind) = xs[i].data
  BY <1>4, <1>8, <1>10, Zenon
<1>13. None.kind = "none"
  BY DEF None
<1> QED BY <1>11, <1>12, <1>13, Zenon

(* A record of the service concerns the listener, and with hosts whose names  *)
(* are apart only such a record does.                                        *)
Concerned(message) == \A record \in AllRecords(message) : Concerns(record) <=> InService(record)

LEMMA RecordIs ==
    ASSUME NEW message, IsMessage(message), NEW record \in AllRecords(message)
    PROVE  record \in Records /\ IsName(record.name) /\ IsData(record.data)
<1>1. PICK a, u, d : a = message.answers /\ u = message.authority /\ d = message.additional
  OBVIOUS
<1>2. a \in Seq(Records) /\ u \in Seq(Records) /\ d \in Seq(Records)
  BY <1>1, MessageIs, Zenon
<1>3. AllRecords(message) = (ToSet(a) \cup ToSet(u)) \cup ToSet(d)
  <2>1. ToSet(a \o u \o d) = (ToSet(a) \cup ToSet(u)) \cup ToSet(d)
    BY <1>2, AllOf
  <2> QED BY <1>1, <2>1, Zenon DEF AllRecords
<1>4. PICK xs : xs \in {a, u, d} /\ record \in ToSet(xs)
  BY <1>3
<1>5. \A i \in DOMAIN xs : IsRecord(xs[i])
  BY <1>1, <1>4, Zenon DEF IsMessage
<1>6. PICK i \in DOMAIN xs : record = xs[i]
  BY <1>4, Zenon DEF ToSet
<1> QED BY <1>5, <1>6, Zenon DEF IsRecord

LEMMA ConcernsService ==
    ASSUME OwnersApart, name = WithDot(Name), NEW message \in Messages
    PROVE  Concerned(message)
<1> SUFFICES ASSUME NEW record \in AllRecords(message) PROVE Concerns(record) <=> InService(record)
  BY Zenon DEF Concerned
<1>1. IsMessage(message)
  BY MessagesAssumption
<1>2. IsName(record.name) /\ IsName(name)
  BY <1>1, RecordIs, NameAssumption
<1>3. record.name \in Seq(Strings) /\ name \in Seq(Strings) /\ name # <<>>
  BY <1>2, Zenon DEF IsName
<1>4. Concerns(record) => InService(record)
  BY Zenon DEF OwnersApart, Concerns, InService
<1>5. InService(record) => Concerns(record)
  BY <1>3, TextEnds, Zenon DEF Concerns, InService
<1> QED BY <1>4, <1>5

(* What is picked of a message about one instance.                           *)
OfOne(message, response) ==
    /\ response.ptr.name \in Instances(message)
    /\ response.srv \in OfInstance(message, "SRV") \/ OfInstance(message, "SRV") = {}
    /\ response.txt \in OfInstance(message, "TXT") \/ OfInstance(message, "TXT") = {}

(* Each record of the service in the message is that of the instance, and is  *)
(* found; so is what is picked.                                              *)
LEMMA FoundOfInstance ==
    ASSUME NEW m, IsMessage(m), Concerned(m), OneInstance(m), NEW kind \in {"SRV", "TXT"},
           \A instance \in Instances(m) : IsSuffix(name, instance)
    PROVE  Latest(m, kind) \in OfInstance(m, kind) \/ OfInstance(m, kind) = {}
<1> SUFFICES ASSUME NEW data, data \in OfInstance(m, kind)
             PROVE  Latest(m, kind) \in OfInstance(m, kind)
  BY Zenon
<1>1. PICK r \in AllRecords(m) : r.name \in Instances(m) /\ r.data.kind = kind
  BY Zenon DEF OfInstance
<1>2. Concerns(r)
  BY <1>1, Zenon DEF Concerned, InService
<1>3. Latest(m, kind) # None
  <2>1. kind # "none"
    OBVIOUS
  <2> QED BY <1>1, <1>2, <2>1, MessageIs, LatestFound
<1>4. PICK record \in AllRecords(m) :
         Concerns(record) /\ record.data.kind = kind /\ record.data = Latest(m, kind)
  BY <1>3, MessageIs, LatestIs
<1>5. InService(record) /\ record.data.kind # "PTR"
  <2>1. kind # "PTR"
    OBVIOUS
  <2> QED BY <1>4, <2>1, Zenon DEF Concerned
<1>6. record.name \in Instances(m)
  BY <1>4, <1>5, Zenon DEF OneInstance
<1> QED BY <1>4, <1>6, Zenon DEF OfInstance

LEMMA OneInstancePicked ==
    ASSUME NEW m, IsMessage(m), Concerned(m), OneInstance(m),
           \A instance \in Instances(m) : IsSuffix(name, instance)
    PROVE  Latest(m, "PTR") # None /\ OfOne(m, Picked(m))
<1>1. Instances(m) # {}
  <2>1. Cardinality({}) = 0
    BY FS_EmptySet
  <2>2. Cardinality(Instances(m)) = 1
    BY Zenon DEF OneInstance
  <2> QED BY <2>1, <2>2
<1>2. PICK r \in AllRecords(m) : InService(r) /\ r.data.kind = "PTR"
  BY <1>1, Zenon DEF Instances
<1>3. Latest(m, "PTR") # None
  <2>1. Concerns(r) /\ "PTR" # "none"
    BY <1>2, Zenon DEF Concerned
  <2> QED BY <1>2, <2>1, MessageIs, LatestFound
<1>4. PICK record \in AllRecords(m) :
         Concerns(record) /\ record.data.kind = "PTR" /\ record.data = Latest(m, "PTR")
  BY <1>3, MessageIs, LatestIs
<1>5. Latest(m, "PTR").name \in Instances(m)
  BY <1>4, Zenon DEF Concerned, Instances
<1>6. /\ Latest(m, "SRV") \in OfInstance(m, "SRV") \/ OfInstance(m, "SRV") = {}
      /\ Latest(m, "TXT") \in OfInstance(m, "TXT") \/ OfInstance(m, "TXT") = {}
  BY FoundOfInstance
<1>7. /\ Picked(m).ptr = Latest(m, "PTR") /\ Picked(m).srv = Latest(m, "SRV")
      /\ Picked(m).txt = Latest(m, "TXT")
  BY DEF Picked
<1> QED BY <1>3, <1>5, <1>6, <1>7, Zenon DEF OfOne

(* A response that is read, has an answer and a pointer is published.         *)
LEMMA PublishedWhole ==
    ASSUME NEW datagram, Says(datagram), datagram.message.isResponse,
           datagram.message.answers # <<>>, ~HasEmptyText(datagram.message),
           Latest(datagram.message, "PTR") # None
    PROVE  Responses(FromBuffer(datagram.octets)) = <<Picked(datagram.message)>>
<1>1. PICK m, p : m = datagram.message /\ p = FromBuffer(datagram.octets)
  OBVIOUS
<1>2. p.size # 0 /\ p.message = Read(m)
  BY <1>1, Zenon DEF Says, Conveys
<1>3. p.message = m
  BY <1>1, <1>2, Zenon DEF Read
<1>4. ~Ignored(p)
  BY <1>1, <1>2, <1>3, Zenon DEF Ignored
<1> QED BY <1>1, <1>3, <1>4, Zenon DEF Responses, Picked

LEMMA OneInstanceTold ==
    ASSUME OwnersApart, InstancesNamed, IInv, NEW datagram \in group, DataEvent(datagram),
           OneInstance(datagram.message)
    PROVE  /\ Len(published') = Len(published) + 1
           /\ OfOne(datagram.message, Last(published'))
<1>1. name = WithDot(Name) /\ WasSent(datagram) /\ IsSequence(published)
  BY Zenon DEF IInv
<1>2. Says(datagram)
  BY <1>1, SentIsSaid
<1>3. PICK m : m = datagram.message
  OBVIOUS
<1>4. m.isResponse /\ m.answers # <<>> /\ ~HasEmptyText(m)
  BY <1>3, Zenon DEF OneInstance
<1>5. m \in Messages
  <2>1. CASE datagram = OwnQuery
    <3>1. StandardQuery(name).isResponse = FALSE
      BY DEF StandardQuery, MessageOf
    <3>2. m = StandardQuery(name)
      BY <1>3, <2>1 DEF OwnQuery
    <3> QED BY <1>4, <3>1, <3>2
  <2>2. ASSUME NEW message \in Messages, NEW compress \in BOOLEAN,
               datagram = Reply(message, compress)
        PROVE  m \in Messages
    BY <1>3, <2>2 DEF Reply
  <2> QED BY <1>1, <2>1, <2>2, Zenon DEF WasSent
<1>6. IsMessage(m) /\ Concerned(m)
  BY <1>1, <1>5, MessagesAssumption, ConcernsService
<1>7. \A instance \in Instances(m) : IsSuffix(name, instance)
  BY <1>1, <1>5, Zenon DEF InstancesNamed, Instances, InService
<1>8. OneInstance(m)
  BY <1>3
<1>9. Latest(m, "PTR") # None /\ OfOne(m, Picked(m))
  BY <1>6, <1>7, <1>8, OneInstancePicked
<1>10. Responses(FromBuffer(datagram.octets)) = <<Picked(m)>>
  BY <1>2, <1>3, <1>4, <1>9, PublishedWhole
<1>11. published' = published \o <<Picked(m)>>
  BY <1>10, Zenon DEF DataEvent
<1>12. Last(published') = Picked(m)
  BY <1>1, <1>11, SequenceGrows
<1>13. Len(published') = Len(published) + 1
  <2>1. PICK S : published \in Seq(S)
    BY <1>1, Zenon DEF IsSequence
  <2>2. PICK x, s : x = Picked(m) /\ s = published
    OBVIOUS
  <2>3. s \in Seq(S) => Len(s \o <<x>>) = Len(s) + 1
    OBVIOUS
  <2> QED BY <1>11, <2>1, <2>2, <2>3, Zenon
<1> QED BY <1>3, <1>9, <1>12, <1>13, Zenon

(* A message about one instance is published, once, with its pointer and the  *)
(* server and text of the instance, wherever they are in the message.        *)
THEOREM InstancesAreWhole ==
    ASSUME OwnersApart, InstancesNamed
    PROVE  Spec => OneInstanceIsWhole
<1>1. ASSUME IInv, [Next]_vars
      PROVE  [\A datagram \in group : DataEvent(datagram) /\ OneInstance(datagram.message) =>
          LET response == Last(published')
              message == datagram.message IN
          /\ Len(published') = Len(published) + 1
          /\ response.ptr.name \in Instances(message)
          /\ response.srv \in OfInstance(message, "SRV") \/ OfInstance(message, "SRV") = {}
          /\ response.txt \in OfInstance(message, "TXT") \/ OfInstance(message, "TXT") = {}
      ]_vars
  BY <1>1, OneInstanceTold, Zenon DEF OfOne
<1> QED BY <1>1, Invariant, PTL DEF Spec, OneInstanceIsWhole
=============================================================================
