------------------------------ MODULE TurboProofs ------------------------------
(***************************************************************************)
(* TurboReassembly, for any number of hosts and frames of any sizes, on     *)
(* every kind of network.                                                  *)
(***************************************************************************)
EXTENDS TurboReassembly, FiniteSetTheorems, TLAPS

\* The fragments there are, and what a datagram says of the one it carries.
Fragment ==
    {p \in [source : Source, num : Nat \ {0}, idx : Nat \ {0}, copy : Nat] :
       /\ p.num <= Len(NFrags[p.source])
       /\ p.idx <= NFrags[p.source][p.num]}

Counter == 0..(CounterMod - 1)

LastOf(p) == p.idx = NFrags[p.source][p.num]

Carrier ==
    {d \in [part : Fragment, offset : Nat, counter : Counter, last : BOOLEAN] :
       /\ d.counter = WireCounter(d.part.num)
       /\ d.last = LastOf(d.part)}

-----------------------------------------------------------------------------
(* The numbers on the wire.                                                *)

\* What a number leaves over is found back from its quotient.
LEMMA Remainder ==
    ASSUME NEW n \in Nat \ {0}, NEW d \in Nat, NEW m \in 0..(n - 1)
    PROVE  (n * d + m) % n = m
<1> DEFINE x == n * d + m
           e == x \div n
           k == x % n
<1>1. x \in Nat
  OBVIOUS
<1> HIDE DEF x
<1>2. e \in Int /\ k \in 0..(n - 1) /\ x = n * e + k
  BY <1>1
<1>3. n * e + k = n * d + m
  BY <1>2 DEF x
<1> HIDE DEF e, k
<1>4. n * (e - d) = m - k
  BY <1>2, <1>3
<1>5. e - d = 0
  <2>1. CASE e - d >= 1
    <3>1. n * (e - d) >= n
      BY <1>2, <2>1
    <3> QED
      BY <1>2, <1>4, <3>1
  <2>2. CASE e - d <= -1
    <3>1. n * (e - d) <= -n
      BY <1>2, <2>2
    <3> QED
      BY <1>2, <1>4, <3>1
  <2> QED
    BY <1>2, <2>1, <2>2
<1>6. k = m
  BY <1>2, <1>4, <1>5
<1> QED
  BY <1>6 DEF k, x

LEMMA WireTypes ==
    /\ \A n \in Nat : WireCounter(n) \in Counter
    /\ \A i \in Nat \ {0} : WireOffset(i) \in Nat
<1>1. CounterMod \in Nat \ {0} /\ Chunk \in Nat \ {0} /\ OffsetMod \in Nat \ {0}
  BY TurboAssumption
<1>2. ASSUME NEW n \in Nat PROVE WireCounter(n) \in Counter
  BY <1>1 DEF WireCounter, Counter
<1>3. ASSUME NEW i \in Nat \ {0} PROVE WireOffset(i) \in Nat
  <2>1. (i - 1) * Chunk \in Nat
    BY <1>1
  <2> QED
    BY <1>1, <2>1 DEF WireOffset
<1> QED
  BY <1>2, <1>3

\* Within one turn a counter tells which frame it is.
LEMMA CounterTells ==
    ASSUME NEW m \in 1..CounterMod, NEW n \in 1..CounterMod,
           WireCounter(m) = WireCounter(n)
    PROVE  m = n
<1>1. CounterMod \in Nat \ {0}
  BY TurboAssumption
<1>2. \A k \in 1..CounterMod : WireCounter(k) = IF k = CounterMod THEN 0 ELSE k
  <2> SUFFICES ASSUME NEW k \in 1..CounterMod
               PROVE  WireCounter(k) = IF k = CounterMod THEN 0 ELSE k
    OBVIOUS
  <2>1. CASE k = CounterMod
    <3>1. (CounterMod * 1 + 0) % CounterMod = 0
      BY <1>1, Remainder
    <3> QED
      BY <1>1, <2>1, <3>1 DEF WireCounter
  <2>2. CASE k # CounterMod
    <3>1. (CounterMod * 0 + k) % CounterMod = k
      BY <1>1, <2>2, Remainder
    <3> QED
      BY <1>1, <2>2, <3>1 DEF WireCounter
  <2> QED
    BY <2>1, <2>2
<1> QED
  BY <1>1, <1>2

\* In one turn every counter comes up.
LEMMA CounterComesUp ==
    ASSUME NEW a \in Nat, NEW c \in Counter
    PROVE  \E m \in (a + 1)..(a + CounterMod) : WireCounter(m) = c
<1> DEFINE M == CounterMod
           q == (a + 1) \div M
           r == (a + 1) % M
<1>1. M \in Nat \ {0}
  BY TurboAssumption
<1>2. q \in Nat /\ r \in 0..(M - 1) /\ a + 1 = M * q + r
  BY <1>1
<1>3. c \in 0..(M - 1)
  BY DEF Counter
<1> HIDE DEF q, r
<1>4. CASE c >= r
  <2>1. (M * q + c) % M = c
    BY <1>1, <1>2, <1>3, Remainder
  <2>2. M * q + c = a + 1 + (c - r)
    BY <1>1, <1>2, <1>3
  <2>3. a + 1 + (c - r) \in (a + 1)..(a + M)
    BY <1>1, <1>2, <1>3, <1>4
  <2> QED
    BY <2>1, <2>2, <2>3 DEF WireCounter
<1>5. CASE c < r
  <2>1. (M * (q + 1) + c) % M = c
    <3>1. q + 1 \in Nat
      BY <1>2
    <3> QED
      BY <1>1, <1>3, <3>1, Remainder
  <2>2. M * (q + 1) + c = a + 1 + M + c - r
    BY <1>1, <1>2, <1>3
  <2>3. a + 1 + M + c - r \in (a + 1)..(a + M)
    BY <1>1, <1>2, <1>3, <1>5
  <2> QED
    BY <2>1, <2>2, <2>3 DEF WireCounter
<1> QED
  BY <1>2, <1>3, <1>4, <1>5

\* The offsets of a frame that fits are in the order of its fragments.
LEMMA OffsetsRise ==
    ASSUME NEW s \in Source, NEW n \in 1..Len(NFrags[s]), Fits(s, n),
           NEW i \in 1..NFrags[s][n], NEW j \in 1..NFrags[s][n], i < j
    PROVE  WireOffset(i) < WireOffset(j)
<1>1. /\ Chunk \in Nat \ {0} /\ OffsetMod \in Nat \ {0}
      /\ NFrags[s][n] \in Nat
  BY TurboAssumption DEF Source
<1>2. \A k \in 1..NFrags[s][n] : WireOffset(k) = (k - 1) * Chunk
  <2> SUFFICES ASSUME NEW k \in 1..NFrags[s][n] PROVE WireOffset(k) = (k - 1) * Chunk
    OBVIOUS
  <2>1. (k - 1) * Chunk <= (NFrags[s][n] - 1) * Chunk
    <3>1. NFrags[s][n] - k \in Nat
      BY <1>1
    <3>2. (NFrags[s][n] - k) * Chunk >= 0
      BY <1>1, <3>1
    <3> QED
      BY <1>1, <3>2
  <2>2. (k - 1) * Chunk \in 0..(OffsetMod - 1)
    BY <1>1, <2>1 DEF Fits
  <2>3. (OffsetMod * 0 + (k - 1) * Chunk) % OffsetMod = (k - 1) * Chunk
    BY <1>1, <2>2, Remainder
  <2> QED
    BY <1>1, <2>2, <2>3 DEF WireOffset
<1>3. (j - i) * Chunk > 0
  BY <1>1
<1>4. (j - 1) * Chunk = (i - 1) * Chunk + (j - i) * Chunk
  BY <1>1
<1>5. /\ WireOffset(i) = (i - 1) * Chunk /\ (i - 1) * Chunk \in Int
      /\ WireOffset(j) = (j - 1) * Chunk /\ (j - i) * Chunk \in Int
  BY <1>1, <1>2
<1> QED
  BY <1>3, <1>4, <1>5

-----------------------------------------------------------------------------
(* Sequences of fragments.                                                 *)

\* A sequence and what is appended to it.
LEMMA Concatenation ==
    ASSUME NEW S, NEW q \in Seq(S), NEW r \in Seq(S)
    PROVE  /\ q \o r \in Seq(S)
           /\ Len(q \o r) = Len(q) + Len(r)
           /\ \A k \in 1..Len(q) : (q \o r)[k] = q[k]
           /\ \A k \in 1..Len(r) : (q \o r)[Len(q) + k] = r[k]
OBVIOUS

\* What is left after a removal keeps its order.
LEMMA Removal ==
    ASSUME NEW S, NEW q \in Seq(S), NEW i \in 1..Len(q)
    PROVE  /\ RemoveAt(q, i) \in Seq(S)
           /\ Len(RemoveAt(q, i)) = Len(q) - 1
           /\ \A k \in 1..(Len(q) - 1) :
                RemoveAt(q, i)[k] = q[IF k < i THEN k ELSE k + 1]
<1> DEFINE a == SubSeq(q, 1, i - 1)
           b == SubSeq(q, i + 1, Len(q))
<1>1. a \in Seq(S) /\ Len(a) = i - 1 /\ \A k \in 1..(i - 1) : a[k] = q[k]
  OBVIOUS
<1>2. b \in Seq(S) /\ Len(b) = Len(q) - i /\ \A k \in 1..(Len(q) - i) : b[k] = q[i + k]
  OBVIOUS
<1>3. RemoveAt(q, i) = a \o b
  BY DEF RemoveAt
<1> HIDE DEF a, b
<1>4. Len(q) \in Nat /\ i - 1 \in Nat /\ Len(q) - i \in Nat
  OBVIOUS
<1>5. /\ a \o b \in Seq(S) /\ Len(a \o b) = Len(a) + Len(b)
      /\ \A k \in 1..Len(a) : (a \o b)[k] = a[k]
      /\ \A k \in 1..Len(b) : (a \o b)[Len(a) + k] = b[k]
  <2>1. a \in Seq(S) /\ b \in Seq(S)
    BY <1>1, <1>2
  <2> QED
    BY <2>1, Concatenation
<1>6. ASSUME NEW k \in 1..(Len(q) - 1)
      PROVE  (a \o b)[k] = q[IF k < i THEN k ELSE k + 1]
  <2>1. CASE k < i
    <3>1. k \in 1..Len(a) /\ k \in 1..(i - 1)
      BY <1>1, <1>4, <2>1
    <3> QED
      BY <1>1, <1>5, <2>1, <3>1
  <2>2. CASE ~(k < i)
    <3>1. /\ k - (i - 1) \in 1..Len(b) /\ k - (i - 1) \in 1..(Len(q) - i)
          /\ Len(a) + (k - (i - 1)) = k /\ i + (k - (i - 1)) = k + 1
      BY <1>1, <1>2, <1>4, <2>2
    <3>2. (a \o b)[k] = b[k - (i - 1)]
      BY <1>5, <3>1
    <3> QED
      BY <1>2, <2>2, <3>1, <3>2
  <2> QED
    BY <2>1, <2>2
<1> QED
  BY <1>1, <1>2, <1>3, <1>4, <1>5, <1>6

\* The fragments at or before the i-th one in the order of the offsets.
UpTo(parts, i) ==
    {j \in 1..Len(parts) :
        \/ WireOffset(parts[j].idx) < WireOffset(parts[i].idx)
        \/ WireOffset(parts[j].idx) = WireOffset(parts[i].idx) /\ j <= i}

LEMMA PlaceOf ==
    ASSUME NEW parts \in Seq(Fragment), NEW i \in 1..Len(parts)
    PROVE  /\ Place(parts, i) = Cardinality(UpTo(parts, i))
           /\ Place(parts, i) \in 1..Len(parts)
           /\ WireOffset(parts[i].idx) \in Nat
<1>1. DOMAIN parts = 1..Len(parts)
  OBVIOUS
<1>2. Place(parts, i) = Cardinality(UpTo(parts, i))
  BY <1>1 DEF Place, UpTo
<1>3. IsFiniteSet(1..Len(parts)) /\ Cardinality(1..Len(parts)) = Len(parts)
  <2>1. Len(parts) \in Nat
    OBVIOUS
  <2> QED
    BY <2>1, FS_Interval
<1>4. UpTo(parts, i) \in SUBSET (1..Len(parts))
  BY DEF UpTo
<1>5. /\ IsFiniteSet(UpTo(parts, i)) /\ Cardinality(UpTo(parts, i)) <= Len(parts)
      /\ Cardinality(UpTo(parts, i)) \in Nat
  BY <1>3, <1>4, FS_Subset, FS_CardinalityType
<1>6. i \in UpTo(parts, i)
  BY DEF UpTo
<1>7. Cardinality(UpTo(parts, i)) # 0
  BY <1>5, <1>6, FS_EmptySet
<1>8. parts[i] \in Fragment
  OBVIOUS
<1>9. WireOffset(parts[i].idx) \in Nat
  BY <1>8, WireTypes DEF Fragment
<1> QED
  BY <1>2, <1>5, <1>7, <1>9

\* What comes earlier in the order has a smaller place.
LEMMA PlaceRises ==
    ASSUME NEW parts \in Seq(Fragment), NEW i \in 1..Len(parts), NEW j \in 1..Len(parts),
           i # j, i \in UpTo(parts, j)
    PROVE  Place(parts, i) < Place(parts, j)
<1>1. \A k \in 1..Len(parts) : WireOffset(parts[k].idx) \in Nat
  BY PlaceOf
<1>2. UpTo(parts, i) \in SUBSET UpTo(parts, j)
  <2> SUFFICES ASSUME NEW k \in UpTo(parts, i) PROVE k \in UpTo(parts, j)
    OBVIOUS
  <2>1. k \in 1..Len(parts)
    BY DEF UpTo
  <2> DEFINE a == WireOffset(parts[i].idx)
             b == WireOffset(parts[j].idx)
             d == WireOffset(parts[k].idx)
  <2>2. /\ d < a \/ (d = a /\ k <= i)
        /\ a < b \/ (a = b /\ i <= j)
    BY DEF UpTo
  <2>3. a \in Nat /\ b \in Nat /\ d \in Nat
    BY <1>1, <2>1
  <2> HIDE DEF a, b, d
  <2>4. d < b \/ (d = b /\ k <= j)
    BY <2>1, <2>2, <2>3
  <2> QED
    BY <2>1, <2>4 DEF UpTo, b, d
<1>3. j \notin UpTo(parts, i)
  <2> DEFINE a == WireOffset(parts[i].idx)
             b == WireOffset(parts[j].idx)
  <2>1. a < b \/ (a = b /\ i <= j)
    BY DEF UpTo
  <2>2. a \in Nat /\ b \in Nat
    BY <1>1
  <2> HIDE DEF a, b
  <2>3. ~(b < a \/ (b = a /\ j <= i))
    BY <2>1, <2>2
  <2> QED
    BY <2>3 DEF UpTo, a, b
<1>4. j \in UpTo(parts, j)
  BY DEF UpTo
<1>5. IsFiniteSet(UpTo(parts, j))
  <2>1. IsFiniteSet(1..Len(parts))
    BY FS_Interval
  <2>2. UpTo(parts, j) \in SUBSET (1..Len(parts))
    BY DEF UpTo
  <2> QED
    BY <2>1, <2>2, FS_Subset
<1>6. /\ Cardinality(UpTo(parts, i)) <= Cardinality(UpTo(parts, j))
      /\ Cardinality(UpTo(parts, j)) # Cardinality(UpTo(parts, i))
  BY <1>2, <1>3, <1>4, <1>5, FS_Subset
<1>7. /\ Place(parts, i) = Cardinality(UpTo(parts, i)) /\ Place(parts, i) \in Nat
      /\ Place(parts, j) = Cardinality(UpTo(parts, j)) /\ Place(parts, j) \in Nat
  BY PlaceOf
<1> QED
  BY <1>6, <1>7

\* A body has each fragment once, in the order of the offsets.
Arranges(f, parts) ==
    /\ f \in [1..Len(parts) -> 1..Len(parts)]
    /\ Body(parts) = [k \in 1..Len(parts) |-> parts[f[k]]]
    /\ \A j, k \in 1..Len(parts) : j < k =>
         /\ f[j] # f[k]
         /\ WireOffset(parts[f[j]].idx) <= WireOffset(parts[f[k]].idx)
    /\ \A i \in 1..Len(parts) : \E k \in 1..Len(parts) : f[k] = i
    /\ \A k \in 1..Len(parts) : Place(parts, f[k]) = k

LEMMA BodyArranges ==
    ASSUME NEW parts \in Seq(Fragment)
    PROVE  \E f : Arranges(f, parts)
<1> DEFINE n == Len(parts)
           I == 1..n
           p == [i \in I |-> Place(parts, i)]
           f == [k \in I |-> CHOOSE i \in I : Place(parts, i) = k]
<1>1. n \in Nat /\ DOMAIN parts = I
  OBVIOUS
<1>2. \A i \in I : Place(parts, i) \in I /\ WireOffset(parts[i].idx) \in Nat
  BY PlaceOf
<1>3. \A i, j \in I : i # j => i \in UpTo(parts, j) \/ j \in UpTo(parts, i)
  <2> SUFFICES ASSUME NEW i \in I, NEW j \in I, i # j, i \notin UpTo(parts, j)
               PROVE  j \in UpTo(parts, i)
    OBVIOUS
  <2> DEFINE a == WireOffset(parts[i].idx)
             b == WireOffset(parts[j].idx)
  <2>1. ~(a < b \/ (a = b /\ i <= j))
    BY DEF UpTo
  <2>2. a \in Nat /\ b \in Nat
    BY <1>2
  <2> HIDE DEF a, b
  <2>3. b < a \/ (b = a /\ j <= i)
    BY <2>1, <2>2
  <2> QED
    BY <2>3 DEF UpTo, a, b
<1>4. \A i, j \in I : i # j /\ i \in UpTo(parts, j) => Place(parts, i) < Place(parts, j)
  BY PlaceRises
<1>5. \A i, j \in I : i # j => Place(parts, i) # Place(parts, j)
  <2> SUFFICES ASSUME NEW i \in I, NEW j \in I, i # j
               PROVE  Place(parts, i) # Place(parts, j)
    OBVIOUS
  <2>1. Place(parts, i) \in Nat /\ Place(parts, j) \in Nat
    BY <1>1, <1>2
  <2>2. Place(parts, i) < Place(parts, j) \/ Place(parts, j) < Place(parts, i)
    BY <1>3, <1>4
  <2> QED
    BY <2>1, <2>2
<1>6. \A k \in I : \E i \in I : Place(parts, i) = k
  <2>1. p \in Injection(I, I)
    BY <1>2, <1>5 DEF Injection, IsInjective
  <2>2. IsFiniteSet(I)
    BY <1>1, FS_Interval
  <2>3. p \in Surjection(I, I)
    BY <2>1, <2>2, FS_Injection
  <2> QED
    BY <2>3 DEF Surjection
<1>7. \A k \in I : f[k] \in I /\ Place(parts, f[k]) = k
  BY <1>6
<1>8. f \in [I -> I]
  BY <1>7
<1>9. Body(parts) = [k \in I |-> parts[f[k]]]
  BY <1>1 DEF Body
<1> HIDE DEF f, p
<1>10. ASSUME NEW j \in I, NEW k \in I, j < k
       PROVE  f[j] # f[k] /\ WireOffset(parts[f[j]].idx) <= WireOffset(parts[f[k]].idx)
  <2>0. j \in Nat /\ k \in Nat
    BY <1>1
  <2>1. f[j] # f[k] /\ f[j] \in I /\ f[k] \in I
    BY <1>7, <1>10, <2>0
  <2>2. f[k] \notin UpTo(parts, f[j])
    BY <1>4, <1>7, <1>10, <2>0, <2>1
  <2>3. f[j] \in UpTo(parts, f[k])
    BY <1>3, <2>1, <2>2
  <2>4. \/ WireOffset(parts[f[j]].idx) < WireOffset(parts[f[k]].idx)
        \/ WireOffset(parts[f[j]].idx) = WireOffset(parts[f[k]].idx)
    BY <2>3 DEF UpTo
  <2>5. /\ WireOffset(parts[f[j]].idx) \in Nat
        /\ WireOffset(parts[f[k]].idx) \in Nat
    BY <1>2, <2>1
  <2> QED
    BY <2>1, <2>4, <2>5
<1>11. ASSUME NEW i \in I PROVE \E k \in I : f[k] = i
  <2>1. Place(parts, i) \in I
    BY <1>2
  <2>2. f[Place(parts, i)] \in I /\ Place(parts, f[Place(parts, i)]) = Place(parts, i)
    BY <1>7, <2>1
  <2>3. f[Place(parts, i)] = i
    BY <1>5, <2>2
  <2> QED
    BY <2>1, <2>3
<1>12. Arranges(f, parts)
  BY <1>7, <1>8, <1>9, <1>10, <1>11 DEF Arranges
<1> QED
  BY <1>12

-----------------------------------------------------------------------------
(* Where a fragment can be.                                                *)

\* The fragment a source sends next, and the order in which it sends them.
UpNext(s) == [source |-> s, num |-> num[s], idx |-> cut[s] + 1, copy |-> 0]

Precedes(p, q) == p.num < q.num \/ (p.num = q.num /\ p.idx < q.idx)

IsSent(p, n, c) ==
    p.num < n[p.source] \/ (p.num = n[p.source] /\ p.idx <= c[p.source])

TypeInv ==
    /\ copies \in Nat
    /\ num \in [Source -> Nat \ {0}]
    /\ cut \in [Source -> Nat]
    /\ since \in [Source -> Nat]
    /\ \A s \in Source :
         /\ since[s] <= num[s]
         /\ num[s] <= Len(NFrags[s]) + 1
         /\ IF num[s] <= Len(NFrags[s]) THEN cut[s] < NFrags[s][num[s]] ELSE cut[s] = 0
    /\ net \in Seq(Carrier)
    /\ frags \in [Counter -> Seq(Fragment)]
    /\ shared \in Seq(Fragment)

\* Whatever is about was sent, and is collected under its own counter.
SentInv ==
    /\ \A a \in 1..Len(net) : IsSent(net[a].part, num, cut)
    /\ \A c \in Counter : \A k \in 1..Len(frags[c]) :
         IsSent(frags[c][k], num, cut) /\ WireCounter(frags[c][k].num) = c
    /\ \A k \in 1..Len(shared) : IsSent(shared[k], num, cut)

\* Copies are numbered as they are made, and one that waits has come.
CopyInv ==
    /\ \A a \in 1..Len(net) : net[a].part.copy <= copies
    /\ \A c \in Counter : \A k \in 1..Len(frags[c]) :
         /\ frags[c][k].copy <= copies
         /\ frags[c][k].copy # 0 => frags[c][k].num <= since[frags[c][k].source]
    /\ \A k \in 1..Len(shared) : shared[k].copy <= copies

\* A datagram is in one place only.
OnceInv ==
    /\ \A a, b \in 1..Len(net) : a # b => net[a].part # net[b].part
    /\ \A c \in Counter : \A k \in 1..Len(frags[c]) :
         /\ \A a \in 1..Len(net) : frags[c][k] # net[a].part
         /\ \A j \in 1..Len(frags[c]) : j # k => frags[c][j] # frags[c][k]
    /\ \A k \in 1..Len(shared) :
         /\ \A a \in 1..Len(net) : shared[k] # net[a].part
         /\ \A c \in Counter : \A j \in 1..Len(frags[c]) : shared[k] # frags[c][j]

\* The body is in order, of one counter, and without repetition.
BodyInv ==
    \A j, k \in 1..Len(shared) :
      /\ WireCounter(shared[j].num) = WireCounter(shared[k].num)
      /\ j < k => /\ shared[j] # shared[k]
                  /\ WireOffset(shared[j].idx) <= WireOffset(shared[k].idx)

PlaceInv == TypeInv /\ SentInv /\ CopyInv /\ OnceInv /\ BodyInv

-----------------------------------------------------------------------------
(* The steps.                                                              *)

LEMMA FragmentType ==
    ASSUME NEW p \in Fragment
    PROVE  /\ p.source \in Source /\ p.num \in Nat \ {0} /\ p.idx \in Nat \ {0}
           /\ p.num \in 1..Len(NFrags[p.source])
           /\ p.idx \in 1..NFrags[p.source][p.num]
           /\ NFrags[p.source] \in Seq(Nat \ {0})
           /\ NFrags[p.source][p.num] \in Nat \ {0}
           /\ p.copy \in Nat
           /\ p = [source |-> p.source, num |-> p.num, idx |-> p.idx, copy |-> p.copy]
<1>1. p \in [source : Source, num : Nat \ {0}, idx : Nat \ {0}, copy : Nat]
  BY DEF Fragment
<1>2. /\ p.source \in Source /\ p.num \in Nat \ {0} /\ p.idx \in Nat \ {0}
      /\ p.copy \in Nat
      /\ p = [source |-> p.source, num |-> p.num, idx |-> p.idx, copy |-> p.copy]
  BY <1>1
<1>3. p.num <= Len(NFrags[p.source]) /\ p.idx <= NFrags[p.source][p.num]
  BY DEF Fragment
<1>4. NFrags[p.source] \in Seq(Nat \ {0})
  BY <1>2, TurboAssumption DEF Source
<1>5. p.num \in 1..Len(NFrags[p.source])
  BY <1>2, <1>3, <1>4
<1>6. NFrags[p.source][p.num] \in Nat \ {0}
  BY <1>4, <1>5
<1> QED
  BY <1>2, <1>3, <1>4, <1>5, <1>6

\* What a datagram carries, and what its fragment joins.
LEMMA CarrierType ==
    ASSUME TypeInv, NEW i \in 1..Len(net)
    PROVE  /\ net[i].part \in Fragment
           /\ net[i].counter \in Counter
           /\ net[i].counter = WireCounter(net[i].part.num)
           /\ net[i].last = LastOf(net[i].part)
<1>1. net[i] \in Carrier
  BY DEF TypeInv
<1> QED
  BY <1>1 DEF Carrier

\* One more fragment is sent.
LEMMA Sending ==
    ASSUME TypeInv, NEW s \in Source, SendFragment(s)
    PROVE  /\ UpNext(s) \in Fragment
           /\ net' \in Seq(Carrier) /\ Len(net') = Len(net) + 1
           /\ \A a \in 1..Len(net) : net'[a] = net[a]
           /\ net'[Len(net) + 1].part = UpNext(s)
           /\ \A t \in Source : t # s => num'[t] = num[t] /\ cut'[t] = cut[t]
           /\ IF LastOf(UpNext(s))
              THEN num'[s] = num[s] + 1 /\ cut'[s] = 0
              ELSE num'[s] = num[s] /\ cut'[s] = cut[s] + 1
           /\ num' \in [Source -> Nat \ {0}] /\ cut' \in [Source -> Nat]
           /\ UNCHANGED <<network, frags, shared, since>> /\ copies' = copies
<1> DEFINE p == UpNext(s)
           d == [part    |-> p,
                 offset  |-> WireOffset(cut[s] + 1),
                 counter |-> WireCounter(num[s]),
                 last    |-> LastOf(p)]
<1>1. /\ num \in [Source -> Nat \ {0}] /\ cut \in [Source -> Nat]
      /\ num[s] <= Len(NFrags[s]) /\ cut[s] < NFrags[s][num[s]]
  BY DEF TypeInv, SendFragment
<1>2. p \in Fragment
  <2>1. NFrags[s] \in Seq(Nat \ {0})
    BY TurboAssumption DEF Source
  <2>2. NFrags[s][num[s]] \in Nat
    BY <1>1, <2>1
  <2>3. p.source = s /\ p.num = num[s] /\ p.idx = cut[s] + 1
    BY DEF UpNext
  <2>4. /\ num[s] \in Nat \ {0} /\ cut[s] + 1 \in Nat \ {0}
        /\ cut[s] + 1 <= NFrags[s][num[s]]
    BY <1>1, <2>2
  <2>5. p \in [source : Source, num : Nat \ {0}, idx : Nat \ {0}, copy : Nat]
    BY <2>4 DEF UpNext
  <2> QED
    BY <1>1, <2>3, <2>4, <2>5 DEF Fragment
<1>3. LastOf(p) = (cut[s] + 1 = NFrags[s][num[s]])
  BY DEF LastOf, UpNext
<1>4. /\ net' = Append(net, d)
      /\ cut' = [cut EXCEPT ![s] = IF LastOf(p) THEN 0 ELSE @ + 1]
      /\ num' = [num EXCEPT ![s] = IF LastOf(p) THEN @ + 1 ELSE @]
      /\ UNCHANGED <<network, frags, shared, since>> /\ copies' = copies
  BY <1>3 DEF SendFragment, UpNext, network
<1>5. d \in Carrier
  <2>1. WireCounter(num[s]) \in Counter /\ WireOffset(cut[s] + 1) \in Nat
    BY <1>1, WireTypes
  <2>2. LastOf(p) \in BOOLEAN
    BY DEF LastOf
  <2>3. d.counter = WireCounter(d.part.num) /\ d.last = LastOf(d.part)
    BY DEF UpNext
  <2> HIDE DEF p
  <2>4. d \in [part : Fragment, offset : Nat, counter : Counter, last : BOOLEAN]
    BY <1>2, <2>1, <2>2
  <2> QED
    BY <2>3, <2>4 DEF Carrier
<1>6. d.part = p
  OBVIOUS
<1>7. net \in Seq(Carrier)
  BY DEF TypeInv
<1> HIDE DEF d, p
<1>8. /\ net' \in Seq(Carrier) /\ Len(net') = Len(net) + 1
      /\ \A a \in 1..Len(net) : net'[a] = net[a]
      /\ net'[Len(net) + 1].part = p
  BY <1>4, <1>5, <1>6, <1>7
<1>9. /\ \A t \in Source : t # s => num'[t] = num[t] /\ cut'[t] = cut[t]
      /\ IF LastOf(p)
         THEN num'[s] = num[s] + 1 /\ cut'[s] = 0
         ELSE num'[s] = num[s] /\ cut'[s] = cut[s] + 1
      /\ num' \in [Source -> Nat \ {0}] /\ cut' \in [Source -> Nat]
  BY <1>1, <1>4
<1> QED
  BY <1>2, <1>4, <1>8, <1>9 DEF p

\* One datagram fewer is under way: the others keep their order.
Removes(i) ==
    /\ net' \in Seq(Carrier)
    /\ Len(net') = Len(net) - 1
    /\ \A a \in 1..Len(net') :
         /\ a \in 1..Len(net) /\ a + 1 \in 1..Len(net)
         /\ net'[a] = net[IF a < i THEN a ELSE a + 1]
         /\ (IF a < i THEN a ELSE a + 1) # i

LEMMA NetRemoves ==
    ASSUME TypeInv, NEW i \in 1..Len(net), net' = RemoveAt(net, i)
    PROVE  Removes(i)
<1>1. net \in Seq(Carrier) /\ Len(net) \in Nat
  BY DEF TypeInv
<1>2. /\ net' \in Seq(Carrier) /\ Len(net') = Len(net) - 1
      /\ \A k \in 1..(Len(net) - 1) : net'[k] = net[IF k < i THEN k ELSE k + 1]
  BY <1>1, Removal
<1> QED
  BY <1>1, <1>2 DEF Removes

\* The fragments of datagram i's counter, with its own.
Joined(i) == Append(frags[net[i].counter], net[i].part)

LEMMA JoinedType ==
    ASSUME TypeInv, NEW i \in 1..Len(net)
    PROVE  LET c == net[i].counter IN
           /\ frags[c] \in Seq(Fragment) /\ Len(frags[c]) \in Nat
           /\ Joined(i) \in Seq(Fragment)
           /\ Len(Joined(i)) = Len(frags[c]) + 1
           /\ \A k \in 1..Len(frags[c]) : Joined(i)[k] = frags[c][k]
           /\ Joined(i)[Len(frags[c]) + 1] = net[i].part
<1>1. net[i].part \in Fragment /\ net[i].counter \in Counter
  BY CarrierType
<1>2. frags[net[i].counter] \in Seq(Fragment)
  BY <1>1 DEF TypeInv
<1> QED
  BY <1>1, <1>2 DEF Joined

\* What is kept under the counters once datagram i is there: what was there,
\* and its fragment; nothing under its counter if it is the last.
Keeps(i) ==
    /\ frags' \in [Counter -> Seq(Fragment)]
    /\ \A c \in Counter : \A k \in 1..Len(frags'[c]) :
         /\ ~(c = net[i].counter /\ net[i].last)
         /\ \/ k \in 1..Len(frags[c]) /\ frags'[c][k] = frags[c][k]
            \/ c = net[i].counter /\ k = Len(frags[c]) + 1 /\ frags'[c][k] = net[i].part

\* Datagram i, and nothing else, is received.
Takes(i) ==
    /\ Removes(i) /\ Keeps(i)
    /\ \/ shared' = shared
       \/ net[i].last /\ shared' = Body(Joined(i))
    /\ since' = [s \in Source |-> IF s = Owner(net[i].part) THEN since[s] ELSE num[s]]
    /\ UNCHANGED <<network, num, cut>> /\ copies' = copies

LEMMA KeepsWhat ==
    ASSUME TypeInv, NEW i \in 1..Len(net),
           frags' = Guarded([frags EXCEPT ![net[i].counter] = Collected(net[i], Joined(i))])
    PROVE  Keeps(i)
<1> DEFINE c0 == net[i].counter
           f == [frags EXCEPT ![c0] = Collected(net[i], Joined(i))]
<1>1. c0 \in Counter /\ frags \in [Counter -> Seq(Fragment)]
  BY CarrierType DEF TypeInv
<1>2. Joined(i) \in Seq(Fragment)
  BY JoinedType
<1>3. f \in [Counter -> Seq(Fragment)]
  BY <1>1, <1>2 DEF Collected
<1>4. frags' = f \/ frags' = [c \in Counter |-> << >>]
  BY <1>3 DEF Guarded
<1>5. CASE frags' = [c \in Counter |-> << >>]
  <2>1. \A c \in Counter : frags'[c] = << >>
    BY <1>5
  <2>2. frags' \in [Counter -> Seq(Fragment)]
    <3>1. << >> \in Seq(Fragment)
      OBVIOUS
    <3> QED
      BY <1>5, <3>1
  <2>3. ASSUME NEW c \in Counter, NEW k \in 1..Len(frags'[c]) PROVE FALSE
    <3>1. frags'[c] = << >>
      BY <2>1
    <3> QED
      BY <3>1
  <2> QED
    BY <2>2, <2>3 DEF Keeps
<1>6. CASE frags' = f
  <2>1. frags' \in [Counter -> Seq(Fragment)]
    BY <1>3, <1>6
  <2>2. ASSUME NEW c \in Counter, NEW k \in 1..Len(frags'[c])
        PROVE  /\ ~(c = c0 /\ net[i].last)
               /\ \/ k \in 1..Len(frags[c]) /\ frags'[c][k] = frags[c][k]
                  \/ c = c0 /\ k = Len(frags[c]) + 1 /\ frags'[c][k] = net[i].part
    <3>1. CASE c # c0
      BY <1>1, <1>6, <3>1
    <3>2. CASE c = c0 /\ net[i].last
      <4>1. frags'[c] = << >>
        BY <1>1, <1>6, <3>2 DEF Collected
      <4> QED
        BY <4>1
    <3>3. CASE c = c0 /\ ~net[i].last
      <4>1. frags'[c] = Joined(i)
        BY <1>1, <1>6, <3>3 DEF Collected
      <4>2. /\ Len(frags[c]) \in Nat /\ Len(Joined(i)) = Len(frags[c]) + 1
            /\ \A j \in 1..Len(frags[c]) : Joined(i)[j] = frags[c][j]
            /\ Joined(i)[Len(frags[c]) + 1] = net[i].part
        BY <3>3, JoinedType
      <4>3. k \in 1..Len(frags[c]) \/ k = Len(frags[c]) + 1
        BY <4>1, <4>2
      <4> QED
        BY <3>3, <4>1, <4>2, <4>3
    <3> QED
      BY <3>1, <3>2, <3>3
  <2> QED
    BY <2>1, <2>2 DEF Keeps
<1> QED
  BY <1>4, <1>5, <1>6

LEMMA Receiving ==
    ASSUME TypeInv, Receive
    PROVE  \E i \in 1..Len(net) :
             /\ i \in Deliverable
             /\ Takes(i)
             /\ frags' = Guarded([frags EXCEPT ![net[i].counter] =
                                                   Collected(net[i], Joined(i))])
             /\ net[i].last => shared' \in Published(Body(Joined(i)), net[i].counter)
             /\ ~net[i].last => shared' = shared
<1>1. PICK i \in Deliverable :
        /\ net' = RemoveAt(net, i)
        /\ frags' = Guarded([frags EXCEPT ![net[i].counter] =
                                              Collected(net[i], Joined(i))])
        /\ IF net[i].last THEN shared' \in Published(Body(Joined(i)), net[i].counter)
                          ELSE UNCHANGED shared
        /\ since' = [s \in Source |->
                       IF s = Owner(net[i].part) THEN since[s] ELSE num[s]]
        /\ UNCHANGED <<network, num, cut>> /\ copies' = copies
  BY DEF Receive, Joined, network
<1>2. i \in 1..Len(net)
  <2>1. net \in Seq(Carrier)
    BY DEF TypeInv
  <2> QED
    BY <2>1 DEF Deliverable
<1>3. Removes(i)
  BY <1>1, <1>2, NetRemoves
<1>4. Keeps(i)
  BY <1>1, <1>2, KeepsWhat
<1>5. shared' = shared \/ (net[i].last /\ shared' = Body(Joined(i)))
  BY <1>1 DEF Published
<1>6. Takes(i)
  BY <1>1, <1>3, <1>4, <1>5 DEF Takes
<1> QED
  BY <1>1, <1>2, <1>6

LEMMA Losing ==
    ASSUME TypeInv, Lose
    PROVE  /\ \E i \in 1..Len(net) : Removes(i)
           /\ lossy /\ copies' = copies
           /\ UNCHANGED <<network, num, cut, frags, shared, since>>
  BY NetRemoves DEF Lose, network

\* The copy of datagram i that is made next.
Again(i) ==
    [source |-> net[i].part.source, num |-> net[i].part.num,
     idx |-> net[i].part.idx, copy |-> copies + 1]

\* A datagram comes last that says of its fragment what datagram i does.
Copies(i) ==
    /\ net' \in Seq(Carrier) /\ Len(net') = Len(net) + 1
    /\ \A a \in 1..Len(net) : net'[a] = net[a]
    /\ net'[Len(net) + 1].part = Again(i)
    /\ copies' = copies + 1
    /\ UNCHANGED <<lossy, reordering, num, cut, frags, shared, since>>

LEMMA Copying ==
    ASSUME TypeInv, Duplicate
    PROVE  \E i \in 1..Len(net) : Copies(i) /\ Again(i) \in Fragment
<1>1. PICK i \in 1..Len(net) :
        net' = Append(net, [net[i] EXCEPT !.part.copy = copies + 1])
  BY DEF Duplicate
<1>2. net \in Seq(Carrier) /\ copies + 1 \in Nat
  BY DEF TypeInv
<1>3. PICK d : d = net[i]
  OBVIOUS
<1>4. d \in [part : Fragment, offset : Nat, counter : Counter, last : BOOLEAN]
  BY <1>2, <1>3 DEF Carrier
<1>5. /\ d.part \in Fragment /\ d.offset \in Nat /\ d.counter \in Counter
      /\ d.last \in BOOLEAN
      /\ d = [part |-> d.part, offset |-> d.offset, counter |-> d.counter,
              last |-> d.last]
  BY <1>4
<1>6. d.counter = WireCounter(d.part.num) /\ d.last = LastOf(d.part)
  BY <1>2, <1>3 DEF Carrier
<1>7. PICK p : p = d.part
  OBVIOUS
<1>8. /\ p.source \in Source /\ p.num \in Nat \ {0} /\ p.idx \in Nat \ {0}
      /\ p.num <= Len(NFrags[p.source]) /\ p.idx <= NFrags[p.source][p.num]
      /\ p = [source |-> p.source, num |-> p.num, idx |-> p.idx, copy |-> p.copy]
  BY <1>5, <1>7, FragmentType DEF Fragment
<1>9. PICK r : r = Again(i)
  OBVIOUS
<1>10. r = [source |-> p.source, num |-> p.num, idx |-> p.idx, copy |-> copies + 1]
  BY <1>3, <1>7, <1>9 DEF Again
<1>11. /\ r.source = p.source /\ r.num = p.num /\ r.idx = p.idx
       /\ r \in [source : Source, num : Nat \ {0}, idx : Nat \ {0}, copy : Nat]
  BY <1>2, <1>8, <1>10
<1>12. r \in Fragment
  BY <1>8, <1>11 DEF Fragment
<1>13. PICK e : e = [part |-> r, offset |-> d.offset, counter |-> d.counter,
                     last |-> d.last]
  OBVIOUS
<1>14. [d EXCEPT !.part.copy = copies + 1] = e
  <2>1. [p EXCEPT !.copy = copies + 1] = r
    BY <1>8, <1>10
  <2>2. [d EXCEPT !.part = [p EXCEPT !.copy = copies + 1]] = e
    BY <1>5, <1>13, <2>1
  <2>3. [d EXCEPT !.part.copy = copies + 1]
          = [d EXCEPT !.part = [d.part EXCEPT !.copy = copies + 1]]
    OBVIOUS
  <2> QED
    BY <1>7, <2>2, <2>3
<1>15. e \in Carrier
  <2>1. e \in [part : Fragment, offset : Nat, counter : Counter, last : BOOLEAN]
    BY <1>5, <1>12, <1>13
  <2>2. e.part = r /\ e.counter = d.counter /\ e.last = d.last
    BY <1>13
  <2>3. LastOf(r) = LastOf(d.part) /\ WireCounter(r.num) = WireCounter(d.part.num)
    BY <1>7, <1>11 DEF LastOf
  <2> QED
    BY <1>6, <2>1, <2>2, <2>3 DEF Carrier
<1>16. net' = Append(net, e)
  BY <1>1, <1>3, <1>14
<1>17. /\ net' \in Seq(Carrier) /\ Len(net') = Len(net) + 1
       /\ \A a \in 1..Len(net) : net'[a] = net[a]
       /\ net'[Len(net) + 1] = e
  BY <1>2, <1>15, <1>16
<1>18. net'[Len(net) + 1].part = Again(i)
  BY <1>9, <1>13, <1>17
<1> QED
  BY <1>9, <1>12, <1>17, <1>18 DEF Copies, Duplicate

\* A copy was sent when its original was.
LEMMA CopySent ==
    ASSUME TypeInv, SentInv, NEW i \in 1..Len(net)
    PROVE  /\ IsSent(Again(i), num, cut)
           /\ Again(i).copy = copies + 1 /\ Again(i).copy # 0
<1>1. IsSent(net[i].part, num, cut)
  BY DEF SentInv
<1>2. copies \in Nat
  BY DEF TypeInv
<1> QED
  BY <1>1, <1>2 DEF IsSent, Again

-----------------------------------------------------------------------------
(* A fragment is in one place only, on every network.                      *)

\* What was sent stays sent, and is not sent again.
LEMMA SentOnce ==
    ASSUME TypeInv, NEW s \in Source, SendFragment(s)
    PROVE  \A p \in Fragment :
             /\ IsSent(p, num, cut) => IsSent(p, num', cut')
             /\ p = UpNext(s) => ~IsSent(p, num, cut) /\ IsSent(p, num', cut')
<1> SUFFICES ASSUME NEW p \in Fragment
             PROVE  /\ IsSent(p, num, cut) => IsSent(p, num', cut')
                    /\ p = UpNext(s) => ~IsSent(p, num, cut) /\ IsSent(p, num', cut')
  OBVIOUS
<1>1. /\ \A t \in Source : t # s => num'[t] = num[t] /\ cut'[t] = cut[t]
      /\ IF LastOf(UpNext(s))
         THEN num'[s] = num[s] + 1 /\ cut'[s] = 0
         ELSE num'[s] = num[s] /\ cut'[s] = cut[s] + 1
  BY Sending
<1>2. /\ p.source \in Source /\ p.num \in Nat /\ p.idx \in Nat \ {0}
      /\ num[p.source] \in Nat /\ cut[p.source] \in Nat
  BY FragmentType DEF TypeInv
<1>3. ASSUME IsSent(p, num, cut) PROVE IsSent(p, num', cut')
  <2>1. CASE p.source = s
    BY <1>1, <1>2, <1>3, <2>1 DEF IsSent
  <2>2. CASE p.source # s
    BY <1>1, <1>2, <1>3, <2>2 DEF IsSent
  <2> QED
    BY <2>1, <2>2
<1>4. ASSUME p = UpNext(s) PROVE ~IsSent(p, num, cut) /\ IsSent(p, num', cut')
  <2>1. p.source = s /\ p.num = num[s] /\ p.idx = cut[s] + 1
    BY <1>4 DEF UpNext
  <2>2. num[s] \in Nat /\ cut[s] \in Nat
    BY DEF TypeInv
  <2> QED
    BY <1>1, <2>1, <2>2 DEF IsSent
<1> QED
  BY <1>3, <1>4

\* A body is made of the fragments of its counter.
LEMMA BodyElements ==
    ASSUME NEW q \in Seq(Fragment), NEW f, Arranges(f, q)
    PROVE  /\ Body(q) \in Seq(Fragment)
           /\ Len(Body(q)) = Len(q)
           /\ \A k \in 1..Len(q) : f[k] \in 1..Len(q) /\ Body(q)[k] = q[f[k]]
<1>1. Len(q) \in Nat /\ \A k \in 1..Len(q) : q[k] \in Fragment
  OBVIOUS
<1>2. f \in [1..Len(q) -> 1..Len(q)] /\ Body(q) = [k \in 1..Len(q) |-> q[f[k]]]
  BY DEF Arranges
<1>3. \A k \in 1..Len(q) : f[k] \in 1..Len(q) /\ Body(q)[k] = q[f[k]]
  BY <1>2
<1>4. \A k \in 1..Len(q) : q[f[k]] \in Fragment
  BY <1>1, <1>3
<1>5. [k \in 1..Len(q) |-> q[f[k]]] \in Seq(Fragment)
  BY <1>1, <1>4
<1> QED
  BY <1>1, <1>2, <1>3, <1>5

\* Fragment x is the one of datagram i, or waits under its counter.
From(i, x) ==
    \/ x = net[i].part
    \/ \E m \in 1..Len(frags[net[i].counter]) : x = frags[net[i].counter][m]

LEMMA JoinedFrom ==
    ASSUME TypeInv, NEW i \in 1..Len(net)
    PROVE  \A m \in 1..Len(Joined(i)) : From(i, Joined(i)[m])
<1> DEFINE q == frags[net[i].counter]
<1>1. /\ Len(q) \in Nat /\ Len(Joined(i)) = Len(q) + 1
      /\ \A k \in 1..Len(q) : Joined(i)[k] = q[k]
      /\ Joined(i)[Len(q) + 1] = net[i].part
  BY JoinedType
<1> SUFFICES ASSUME NEW m \in 1..Len(Joined(i)) PROVE From(i, Joined(i)[m])
  OBVIOUS
<1>2. m \in 1..Len(q) \/ m = Len(q) + 1
  BY <1>1
<1> QED
  BY <1>1, <1>2 DEF From

\* What is published after the step.
LEMMA TakesShared ==
    ASSUME TypeInv, NEW i \in 1..Len(net), Takes(i)
    PROVE  /\ shared' \in Seq(Fragment)
           /\ \/ shared' = shared
              \/ /\ net[i].last
                 /\ shared' = Body(Joined(i))
                 /\ \A k \in 1..Len(shared') : From(i, shared'[k])
<1>1. CASE shared' = shared
  BY <1>1 DEF TypeInv
<1>2. CASE net[i].last /\ shared' = Body(Joined(i))
  <2>1. Joined(i) \in Seq(Fragment)
    BY JoinedType
  <2>2. PICK f : Arranges(f, Joined(i))
    BY <2>1, BodyArranges
  <2>3. /\ shared' \in Seq(Fragment) /\ Len(shared') = Len(Joined(i))
        /\ \A k \in 1..Len(Joined(i)) :
             f[k] \in 1..Len(Joined(i)) /\ shared'[k] = Joined(i)[f[k]]
    BY <1>2, <2>1, <2>2, BodyElements
  <2>4. \A k \in 1..Len(shared') : From(i, shared'[k])
    BY <2>3, JoinedFrom
  <2> QED
    BY <1>2, <2>3, <2>4
<1> QED
  BY <1>1, <1>2 DEF Takes

\* The steps keep the types.
LEMMA TypeStep ==
    ASSUME TypeInv, [Next]_vars
    PROVE  TypeInv'
<1>1. ASSUME NEW s \in Source, SendFragment(s)
      PROVE  TypeInv'
  <2>1. /\ UpNext(s) \in Fragment /\ net' \in Seq(Carrier)
        /\ \A t \in Source : t # s => num'[t] = num[t] /\ cut'[t] = cut[t]
        /\ IF LastOf(UpNext(s))
           THEN num'[s] = num[s] + 1 /\ cut'[s] = 0
           ELSE num'[s] = num[s] /\ cut'[s] = cut[s] + 1
        /\ num' \in [Source -> Nat \ {0}] /\ cut' \in [Source -> Nat]
        /\ frags' = frags /\ shared' = shared /\ since' = since /\ copies' = copies
    BY <1>1, Sending
  <2>2. ASSUME NEW t \in Source
        PROVE  /\ since'[t] <= num'[t]
               /\ num'[t] <= Len(NFrags[t]) + 1
               /\ IF num'[t] <= Len(NFrags[t])
                  THEN cut'[t] < NFrags[t][num'[t]]
                  ELSE cut'[t] = 0
    <3>1. /\ since[t] \in Nat /\ num[t] \in Nat /\ cut[t] \in Nat
          /\ since[t] <= num[t] /\ num[t] <= Len(NFrags[t]) + 1
          /\ IF num[t] <= Len(NFrags[t])
             THEN cut[t] < NFrags[t][num[t]] ELSE cut[t] = 0
      BY DEF TypeInv
    <3>2. CASE t # s
      BY <2>1, <3>1, <3>2
    <3>3. CASE t = s
      <4>1. NFrags[s] \in Seq(Nat \ {0}) /\ Len(NFrags[s]) \in Nat
        BY TurboAssumption DEF Source
      <4>2. /\ num[s] <= Len(NFrags[s]) /\ num[s] \in Nat \ {0} /\ cut[s] \in Nat
            /\ since[s] \in Nat /\ since[s] <= num[s] /\ since'[s] = since[s]
            /\ cut[s] < NFrags[s][num[s]]
        BY <1>1, <2>1 DEF SendFragment, TypeInv
      <4>3. LastOf(UpNext(s)) = (cut[s] + 1 = NFrags[s][num[s]])
        BY DEF LastOf, UpNext
      <4>4. NFrags[s][num[s]] \in Nat
        BY <4>1, <4>2
      <4>5. num'[s] <= Len(NFrags[s]) => NFrags[s][num'[s]] \in Nat \ {0}
        <5>1. num'[s] \in Nat \ {0}
          BY <2>1
        <5> QED
          BY <4>1, <5>1
      <4>6. since'[s] <= num'[s] /\ num'[s] <= Len(NFrags[s]) + 1
        BY <2>1, <4>1, <4>2
      <4>7. IF num'[s] <= Len(NFrags[s]) THEN cut'[s] < NFrags[s][num'[s]] ELSE cut'[s] = 0
        <5>1. CASE LastOf(UpNext(s))
          BY <2>1, <4>5, <5>1
        <5>2. CASE ~LastOf(UpNext(s))
          <6>1. num'[s] = num[s] /\ cut'[s] = cut[s] + 1
            BY <2>1, <5>2
          <6>2. cut[s] + 1 # NFrags[s][num[s]]
            BY <4>3, <5>2
          <6>3. cut[s] + 1 < NFrags[s][num[s]]
            BY <4>2, <4>4, <6>2
          <6> QED
            BY <4>2, <6>1, <6>3
        <5> QED
          BY <5>1, <5>2
      <4> QED
        BY <3>3, <4>6, <4>7
    <3> QED
      BY <3>2, <3>3
  <2> QED
    BY <2>1, <2>2 DEF TypeInv
<1>2. CASE Lose
  <2>1. /\ net' \in Seq(Carrier)
        /\ UNCHANGED <<copies, num, cut, frags, shared, since>>
    BY <1>2, Losing DEF Removes
  <2> QED
    BY <2>1 DEF TypeInv
<1>3. CASE Receive
  <2>1. PICK i \in 1..Len(net) : Takes(i)
    BY <1>3, Receiving
  <2>2. shared' \in Seq(Fragment)
    BY <2>1, TakesShared
  <2>3. /\ net' \in Seq(Carrier) /\ frags' \in [Counter -> Seq(Fragment)]
        /\ num' = num /\ cut' = cut /\ copies' = copies
        /\ since' = [s \in Source |-> IF s = Owner(net[i].part) THEN since[s] ELSE num[s]]
    BY <2>1 DEF Takes, Removes, Keeps
  <2>4. since' \in [Source -> Nat] /\ \A s \in Source : since'[s] <= num'[s]
    BY <2>3 DEF TypeInv
  <2> QED
    BY <2>2, <2>3, <2>4 DEF TypeInv
<1>4. CASE UNCHANGED vars
  BY <1>4 DEF vars, network, TypeInv
<1>5. CASE Duplicate
  <2>1. PICK i \in 1..Len(net) : Copies(i)
    BY <1>5, Copying
  <2>2. /\ net' \in Seq(Carrier) /\ copies' \in Nat
        /\ UNCHANGED <<num, cut, frags, shared, since>>
    BY <2>1 DEF Copies, TypeInv
  <2> QED
    BY <2>2 DEF TypeInv
<1> QED
  BY <1>1, <1>2, <1>3, <1>4, <1>5 DEF Next

\* What a datagram brings, and what waits with it, was sent under its counter.
LEMMA FromSent ==
    ASSUME TypeInv, SentInv, NEW i \in 1..Len(net), NEW x, From(i, x)
    PROVE  /\ x \in Fragment
           /\ IsSent(x, num, cut)
           /\ WireCounter(x.num) = net[i].counter
<1>1. /\ net[i].part \in Fragment /\ net[i].counter \in Counter
      /\ net[i].counter = WireCounter(net[i].part.num)
  BY CarrierType
<1>2. frags[net[i].counter] \in Seq(Fragment)
  BY JoinedType
<1>3. CASE x = net[i].part
  BY <1>1, <1>3 DEF SentInv
<1>4. ASSUME NEW m \in 1..Len(frags[net[i].counter]), x = frags[net[i].counter][m]
      PROVE  /\ x \in Fragment
             /\ IsSent(x, num, cut)
             /\ WireCounter(x.num) = net[i].counter
  BY <1>1, <1>2, <1>4 DEF SentInv
<1> QED
  BY <1>3, <1>4 DEF From

LEMMA SentStep ==
    ASSUME TypeInv, SentInv, [Next]_vars
    PROVE  SentInv'
<1>1. ASSUME NEW s \in Source, SendFragment(s)
      PROVE  SentInv'
  <2>1. /\ UpNext(s) \in Fragment
        /\ Len(net') = Len(net) + 1
        /\ \A a \in 1..Len(net) : net'[a] = net[a]
        /\ net'[Len(net) + 1].part = UpNext(s)
        /\ frags' = frags /\ shared' = shared
    BY <1>1, Sending
  <2>2. \A p \in Fragment :
          /\ IsSent(p, num, cut) => IsSent(p, num', cut')
          /\ p = UpNext(s) => IsSent(p, num', cut')
    BY <1>1, SentOnce
  <2>3. Len(net) \in Nat
    BY DEF TypeInv
  <2>4. ASSUME NEW a \in 1..Len(net') PROVE IsSent(net'[a].part, num', cut')
    <3>1. CASE a \in 1..Len(net)
      <4>1. net[a].part \in Fragment
        BY <3>1, CarrierType
      <4>2. IsSent(net[a].part, num, cut)
        BY <3>1 DEF SentInv
      <4> QED
        BY <2>1, <2>2, <3>1, <4>1, <4>2
    <3>2. CASE a = Len(net) + 1
      BY <2>1, <2>2, <3>2
    <3> QED
      BY <2>1, <2>3, <3>1, <3>2
  <2>5. ASSUME NEW c \in Counter, NEW k \in 1..Len(frags'[c])
        PROVE  IsSent(frags'[c][k], num', cut') /\ WireCounter(frags'[c][k].num) = c
    <3>1. frags[c][k] \in Fragment
      BY <2>1 DEF TypeInv
    <3> QED
      BY <2>1, <2>2, <3>1 DEF SentInv
  <2>6. ASSUME NEW k \in 1..Len(shared') PROVE IsSent(shared'[k], num', cut')
    <3>1. shared[k] \in Fragment
      BY <2>1 DEF TypeInv
    <3> QED
      BY <2>1, <2>2, <3>1 DEF SentInv
  <2> QED
    BY <2>4, <2>5, <2>6 DEF SentInv
<1>2. CASE Lose
  <2>1. PICK i \in 1..Len(net) : Removes(i)
    BY <1>2, Losing
  <2>2. num' = num /\ cut' = cut /\ frags' = frags /\ shared' = shared
    BY <1>2, Losing
  <2>3. \A a \in 1..Len(net') : IsSent(net'[a].part, num', cut')
    BY <2>1, <2>2 DEF Removes, SentInv
  <2> QED
    BY <2>2, <2>3 DEF SentInv
<1>3. CASE Receive
  <2>1. PICK i \in 1..Len(net) : Takes(i)
    BY <1>3, Receiving
  <2>2. num' = num /\ cut' = cut
    BY <2>1 DEF Takes
  <2>3. \A a \in 1..Len(net') : IsSent(net'[a].part, num', cut')
    BY <2>1, <2>2 DEF Takes, Removes, SentInv
  <2>4. ASSUME NEW c \in Counter, NEW k \in 1..Len(frags'[c])
        PROVE  IsSent(frags'[c][k], num', cut') /\ WireCounter(frags'[c][k].num) = c
    <3>1. CASE k \in 1..Len(frags[c]) /\ frags'[c][k] = frags[c][k]
      BY <2>2, <3>1 DEF SentInv
    <3>2. CASE c = net[i].counter /\ frags'[c][k] = net[i].part
      BY <2>2, <3>2, CarrierType DEF SentInv
    <3> QED
      BY <2>1, <3>1, <3>2 DEF Takes, Keeps
  <2>5. ASSUME NEW k \in 1..Len(shared') PROVE IsSent(shared'[k], num', cut')
    <3>1. CASE shared' = shared
      BY <2>2, <3>1 DEF SentInv
    <3>2. CASE From(i, shared'[k])
      BY <2>2, <3>2, FromSent
    <3> QED
      BY <2>1, <3>1, <3>2, TakesShared
  <2> QED
    BY <2>3, <2>4, <2>5 DEF SentInv
<1>4. CASE UNCHANGED vars
  BY <1>4 DEF vars, SentInv
<1>5. CASE Duplicate
  <2>1. PICK i \in 1..Len(net) : Copies(i)
    BY <1>5, Copying
  <2>0. Len(net) \in Nat
    BY DEF TypeInv
  <2>2. /\ Len(net') = Len(net) + 1
        /\ \A a \in 1..Len(net) : net'[a] = net[a]
        /\ net'[Len(net) + 1].part = Again(i)
        /\ num' = num /\ cut' = cut /\ frags' = frags /\ shared' = shared
    BY <2>1 DEF Copies
  <2>3. IsSent(Again(i), num, cut)
    BY CopySent
  <2>4. ASSUME NEW a \in 1..Len(net') PROVE IsSent(net'[a].part, num', cut')
    <3>1. CASE a \in 1..Len(net)
      BY <2>2, <3>1 DEF SentInv
    <3>2. CASE a = Len(net) + 1
      BY <2>2, <2>3, <3>2
    <3> QED
      BY <2>0, <2>2, <3>1, <3>2
  <2> QED
    BY <2>2, <2>4 DEF SentInv
<1> QED
  BY <1>1, <1>2, <1>3, <1>4, <1>5 DEF Next

\* No step makes a number that is not the next one, and a copy that is taken in
\* comes to its source's notice.
LEMMA CopyStep ==
    ASSUME TypeInv, SentInv, CopyInv, [Next]_vars
    PROVE  CopyInv'
<1>1. ASSUME NEW s \in Source, SendFragment(s)
      PROVE  CopyInv'
  <2>1. /\ Len(net') = Len(net) + 1 /\ Len(net) \in Nat /\ copies \in Nat
        /\ \A a \in 1..Len(net) : net'[a] = net[a]
        /\ net'[Len(net) + 1].part = UpNext(s)
        /\ frags' = frags /\ shared' = shared /\ since' = since /\ copies' = copies
    BY <1>1, Sending DEF TypeInv
  <2>2. UpNext(s).copy = 0
    BY DEF UpNext
  <2>3. ASSUME NEW a \in 1..Len(net') PROVE net'[a].part.copy <= copies
    <3>1. CASE a \in 1..Len(net)
      BY <2>1, <3>1 DEF CopyInv
    <3>2. CASE a = Len(net) + 1
      BY <2>1, <2>2, <3>2
    <3> QED
      BY <2>1, <3>1, <3>2
  <2> QED
    BY <2>1, <2>3 DEF CopyInv
<1>2. CASE Lose
  <2>1. PICK i \in 1..Len(net) : Removes(i)
    BY <1>2, Losing
  <2>2. /\ frags' = frags /\ shared' = shared /\ since' = since /\ copies' = copies
        /\ \A a \in 1..Len(net') : \E e \in 1..Len(net) : net'[a] = net[e]
    BY <1>2, <2>1, Losing DEF Removes
  <2> QED
    BY <2>2 DEF CopyInv
<1>3. CASE Receive
  <2>1. PICK i \in 1..Len(net) : Takes(i)
    BY <1>3, Receiving
  <2>2. /\ copies' = copies
        /\ \A a \in 1..Len(net') : \E e \in 1..Len(net) : net'[a] = net[e]
    BY <2>1 DEF Takes, Removes
  <2>3. \A a \in 1..Len(net') : net'[a].part.copy <= copies
    BY <2>2 DEF CopyInv
  <2>4. net[i].part.copy <= copies
    BY DEF CopyInv
  <2>5. \A x : From(i, x) => x.copy <= copies
    BY <2>4, CarrierType DEF From, CopyInv
  <2>6. ASSUME NEW k \in 1..Len(shared') PROVE shared'[k].copy <= copies
    <3>1. CASE shared' = shared
      BY <3>1 DEF CopyInv
    <3> QED
      BY <2>1, <2>5, <3>1, TakesShared
  <2>7. ASSUME NEW c \in Counter, NEW k \in 1..Len(frags'[c])
        PROVE  /\ frags'[c][k].copy <= copies
               /\ frags'[c][k].copy # 0 => frags'[c][k].num <= since'[frags'[c][k].source]
    <3>1. CASE k \in 1..Len(frags[c]) /\ frags'[c][k] = frags[c][k]
      <4>1. PICK p : p = frags[c][k]
        OBVIOUS
      <4>2. p \in Fragment /\ p.source \in Source /\ p.num \in Nat
        BY <3>1, <4>1, FragmentType DEF TypeInv
      <4>3. p.copy <= copies /\ (p.copy # 0 => p.num <= since[p.source])
        BY <3>1, <4>1 DEF CopyInv
      <4>4. /\ since'[p.source] = since[p.source] \/ since'[p.source] = num[p.source]
            /\ since[p.source] <= num[p.source]
            /\ since[p.source] \in Nat /\ num[p.source] \in Nat
        BY <2>1, <4>2 DEF Takes, TypeInv
      <4>5. p.copy # 0 => p.num <= since'[p.source]
        BY <4>2, <4>3, <4>4
      <4> QED
        BY <3>1, <4>1, <4>3, <4>5
    <3>2. CASE frags'[c][k] = net[i].part
      <4>1. PICK p : p = net[i].part
        OBVIOUS
      <4>2. /\ p \in Fragment /\ p.source \in Source /\ p.num \in Nat
            /\ IsSent(p, num, cut) /\ num[p.source] \in Nat
        BY <4>1, CarrierType, FragmentType DEF SentInv, TypeInv
      <4>3. ASSUME p.copy # 0 PROVE p.num <= since'[p.source]
        <5>1. Owner(p) = 0 /\ p.source # 0
          BY <4>2, <4>3 DEF Owner, Source
        <5>2. since'[p.source] = num[p.source]
          BY <2>1, <4>1, <4>2, <5>1 DEF Takes
        <5> QED
          BY <4>2, <5>2 DEF IsSent
      <4> QED
        BY <2>4, <3>2, <4>1, <4>3
    <3> QED
      BY <2>1, <3>1, <3>2 DEF Takes, Keeps
  <2> QED
    BY <2>2, <2>3, <2>6, <2>7 DEF CopyInv
<1>4. CASE Duplicate
  <2>1. PICK i \in 1..Len(net) : Copies(i)
    BY <1>4, Copying
  <2>2. /\ Len(net') = Len(net) + 1 /\ Len(net) \in Nat
        /\ \A a \in 1..Len(net) : net'[a] = net[a]
        /\ net'[Len(net) + 1].part = Again(i)
        /\ copies' = copies + 1 /\ copies \in Nat
        /\ frags' = frags /\ shared' = shared /\ since' = since
    BY <2>1 DEF Copies, TypeInv
  <2>3. Again(i).copy = copies + 1
    BY CopySent
  <2>4. ASSUME NEW a \in 1..Len(net') PROVE net'[a].part.copy <= copies'
    <3>1. CASE a \in 1..Len(net)
      <4>1. net[a].part.copy \in Nat /\ net[a].part.copy <= copies
        BY <3>1, CarrierType, FragmentType DEF CopyInv
      <4> QED
        BY <2>2, <3>1, <4>1
    <3>2. CASE a = Len(net) + 1
      BY <2>2, <2>3, <3>2
    <3> QED
      BY <2>2, <3>1, <3>2
  <2>5. ASSUME NEW c \in Counter, NEW k \in 1..Len(frags[c])
        PROVE  frags[c][k].copy <= copies'
    <3>1. frags[c][k] \in Fragment
      BY DEF TypeInv
    <3>2. frags[c][k].copy \in Nat /\ frags[c][k].copy <= copies
      BY <3>1, FragmentType DEF CopyInv
    <3> QED
      BY <2>2, <3>2
  <2>6. ASSUME NEW k \in 1..Len(shared) PROVE shared[k].copy <= copies'
    <3>1. shared[k] \in Fragment
      BY DEF TypeInv
    <3>2. shared[k].copy \in Nat /\ shared[k].copy <= copies
      BY <3>1, FragmentType DEF CopyInv
    <3> QED
      BY <2>2, <3>2
  <2> QED
    BY <2>2, <2>4, <2>5, <2>6 DEF CopyInv
<1>5. CASE UNCHANGED vars
  BY <1>5 DEF vars, network, CopyInv
<1> QED
  BY <1>1, <1>2, <1>3, <1>4, <1>5 DEF Next

\* What nothing that is about equals may come last in the network.
New(x) ==
    /\ Len(net') = Len(net) + 1
    /\ \A a \in 1..Len(net) : net'[a] = net[a] /\ net[a].part # x
    /\ net'[Len(net) + 1].part = x
    /\ \A c \in Counter : \A k \in 1..Len(frags[c]) : frags[c][k] # x
    /\ \A k \in 1..Len(shared) : shared[k] # x
    /\ frags' = frags /\ shared' = shared

LEMMA OnceNew ==
    ASSUME TypeInv, OnceInv, NEW x, New(x)
    PROVE  OnceInv'
<1>1. /\ Len(net') = Len(net) + 1
      /\ \A a \in 1..Len(net) : net'[a] = net[a]
      /\ net'[Len(net) + 1].part = x
      /\ frags' = frags /\ shared' = shared
  BY DEF New
<1>3. \A a \in 1..Len(net') :
        a \in 1..Len(net) \/ (a = Len(net) + 1 /\ net'[a].part = x)
  <2>1. Len(net) \in Nat
    BY DEF TypeInv
  <2> QED
    BY <1>1, <2>1
<1>4. /\ \A a \in 1..Len(net) : net[a].part # x
      /\ \A c \in Counter : \A k \in 1..Len(frags[c]) : frags[c][k] # x
      /\ \A k \in 1..Len(shared) : shared[k] # x
  BY DEF New
<1>5. ASSUME NEW a \in 1..Len(net'), NEW b \in 1..Len(net'), a # b
      PROVE  net'[a].part # net'[b].part
  <2>1. CASE a \in 1..Len(net) /\ b \in 1..Len(net)
    BY <1>1, <1>5, <2>1 DEF OnceInv
  <2>2. CASE a = Len(net) + 1 /\ b \in 1..Len(net)
    BY <1>1, <1>4, <2>2
  <2>3. CASE b = Len(net) + 1 /\ a \in 1..Len(net)
    BY <1>1, <1>4, <2>3
  <2> QED
    BY <1>3, <1>5, <2>1, <2>2, <2>3
<1>6. ASSUME NEW c \in Counter, NEW k \in 1..Len(frags'[c])
      PROVE  /\ \A a \in 1..Len(net') : frags'[c][k] # net'[a].part
             /\ \A j \in 1..Len(frags'[c]) : j # k => frags'[c][j] # frags'[c][k]
  <2>1. k \in 1..Len(frags[c]) /\ frags'[c][k] = frags[c][k]
    BY <1>1
  <2>2. ASSUME NEW a \in 1..Len(net') PROVE frags[c][k] # net'[a].part
    <3>1. CASE a \in 1..Len(net)
      BY <1>1, <2>1, <3>1 DEF OnceInv
    <3>2. CASE net'[a].part = x
      BY <1>4, <2>1, <3>2
    <3> QED
      BY <1>3, <3>1, <3>2
  <2> QED
    BY <1>1, <2>1, <2>2 DEF OnceInv
<1>7. ASSUME NEW k \in 1..Len(shared')
      PROVE  /\ \A a \in 1..Len(net') : shared'[k] # net'[a].part
             /\ \A c \in Counter : \A j \in 1..Len(frags'[c]) : shared'[k] # frags'[c][j]
  <2>1. k \in 1..Len(shared) /\ shared'[k] = shared[k]
    BY <1>1
  <2>2. ASSUME NEW a \in 1..Len(net') PROVE shared[k] # net'[a].part
    <3>1. CASE a \in 1..Len(net)
      BY <1>1, <2>1, <3>1 DEF OnceInv
    <3>2. CASE net'[a].part = x
      BY <1>4, <2>1, <3>2
    <3> QED
      BY <1>3, <3>1, <3>2
  <2> QED
    BY <1>1, <2>1, <2>2 DEF OnceInv
<1> QED
  BY <1>5, <1>6, <1>7 DEF OnceInv

LEMMA OnceStep ==
    ASSUME TypeInv, SentInv, CopyInv, OnceInv, [Next]_vars
    PROVE  OnceInv'
<1>1. ASSUME NEW s \in Source, SendFragment(s)
      PROVE  OnceInv'
  <2>1. /\ UpNext(s) \in Fragment
        /\ Len(net') = Len(net) + 1
        /\ \A a \in 1..Len(net) : net'[a] = net[a]
        /\ net'[Len(net) + 1].part = UpNext(s)
        /\ frags' = frags /\ shared' = shared
    BY <1>1, Sending
  <2>2. ~IsSent(UpNext(s), num, cut)
    BY <1>1, <2>1, SentOnce
  <2>3. PICK x : x = UpNext(s)
    OBVIOUS
  <2>4. New(x)
    BY <2>1, <2>2, <2>3 DEF SentInv, New
  <2> QED
    BY <2>4, OnceNew
<1>7. CASE Duplicate
  <2>1. PICK i \in 1..Len(net) : Copies(i)
    BY <1>7, Copying
  <2>2. Again(i).copy = copies + 1 /\ copies \in Nat
    BY CopySent DEF TypeInv
  <2>3. /\ \A a \in 1..Len(net) : net[a].part # Again(i)
        /\ \A c \in Counter : \A k \in 1..Len(frags[c]) : frags[c][k] # Again(i)
        /\ \A k \in 1..Len(shared) : shared[k] # Again(i)
    <3>1. ~(copies + 1 <= copies)
      BY <2>2
    <3> QED
      BY <2>2, <3>1 DEF CopyInv
  <2>4. PICK x : x = Again(i)
    OBVIOUS
  <2>5. New(x)
    BY <2>1, <2>3, <2>4 DEF Copies, New
  <2> QED
    BY <2>5, OnceNew
<1>2. ASSUME NEW i \in 1..Len(net), Removes(i)
      PROVE  \A a \in 1..Len(net') : \E e \in 1..Len(net) :
               /\ net'[a] = net[e] /\ e # i
               /\ e = IF a < i THEN a ELSE a + 1
  BY <1>2 DEF Removes
<1>3. ASSUME NEW i \in 1..Len(net), Removes(i)
      PROVE  \A a, b \in 1..Len(net') : a # b => net'[a].part # net'[b].part
  <2> SUFFICES ASSUME NEW a \in 1..Len(net'), NEW b \in 1..Len(net'), a # b
               PROVE  net'[a].part # net'[b].part
    OBVIOUS
  <2>1. PICK e \in 1..Len(net) : net'[a] = net[e] /\ e = IF a < i THEN a ELSE a + 1
    BY <1>2, <1>3
  <2>2. PICK f \in 1..Len(net) : net'[b] = net[f] /\ f = IF b < i THEN b ELSE b + 1
    BY <1>2, <1>3
  <2>3. e # f
    BY <2>1, <2>2
  <2> QED
    BY <2>1, <2>2, <2>3 DEF OnceInv
<1>4. CASE Lose
  <2>1. PICK i \in 1..Len(net) : Removes(i)
    BY <1>4, Losing
  <2>2. frags' = frags /\ shared' = shared
    BY <1>4, Losing
  <2>3. \A a \in 1..Len(net') : \E e \in 1..Len(net) : net'[a] = net[e]
    BY <1>2, <2>1
  <2>4. \A a, b \in 1..Len(net') : a # b => net'[a].part # net'[b].part
    BY <1>3, <2>1
  <2>5. \A c \in Counter : \A k \in 1..Len(frags[c]) : \A a \in 1..Len(net') :
          frags[c][k] # net'[a].part
    BY <2>3 DEF OnceInv
  <2>6. \A k \in 1..Len(shared) : \A a \in 1..Len(net') : shared[k] # net'[a].part
    BY <2>3 DEF OnceInv
  <2> QED
    BY <2>2, <2>4, <2>5, <2>6 DEF OnceInv
<1>5. CASE Receive
  <2>1. PICK i \in 1..Len(net) : Takes(i)
    BY <1>5, Receiving
  <2>2. Removes(i)
    BY <2>1 DEF Takes
  <2>3. \A a \in 1..Len(net') : \E e \in 1..Len(net) : net'[a] = net[e] /\ e # i
    BY <1>2, <2>2
  <2>4. \A x : From(i, x) => \A a \in 1..Len(net') : x # net'[a].part
    <3> SUFFICES ASSUME NEW x, From(i, x), NEW a \in 1..Len(net')
                 PROVE  x # net'[a].part
      OBVIOUS
    <3>1. PICK e \in 1..Len(net) : net'[a] = net[e] /\ e # i
      BY <2>3
    <3>2. CASE x = net[i].part
      BY <3>1, <3>2 DEF OnceInv
    <3>3. ASSUME NEW m \in 1..Len(frags[net[i].counter]), x = frags[net[i].counter][m]
          PROVE  x # net'[a].part
      BY <3>1, <3>3, CarrierType DEF OnceInv
    <3> QED
      BY <3>2, <3>3 DEF From
  <2>5. ASSUME NEW c \in Counter, NEW k \in 1..Len(frags'[c])
        PROVE  /\ \A a \in 1..Len(net') : frags'[c][k] # net'[a].part
               /\ \A j \in 1..Len(frags'[c]) : j # k => frags'[c][j] # frags'[c][k]
    <3>1. \A j \in 1..Len(frags'[c]) :
            \/ j \in 1..Len(frags[c]) /\ frags'[c][j] = frags[c][j]
            \/ c = net[i].counter /\ j = Len(frags[c]) + 1 /\ frags'[c][j] = net[i].part
      BY <2>1 DEF Takes, Keeps
    <3>2. \A a \in 1..Len(net') : frags'[c][k] # net'[a].part
      <4>1. CASE k \in 1..Len(frags[c]) /\ frags'[c][k] = frags[c][k]
        BY <2>3, <4>1 DEF OnceInv
      <4>2. CASE frags'[c][k] = net[i].part
        BY <2>3, <4>2 DEF OnceInv
      <4> QED
        BY <3>1, <4>1, <4>2
    <3>3. ASSUME NEW j \in 1..Len(frags'[c]), j # k PROVE frags'[c][j] # frags'[c][k]
      <4>1. CASE /\ k \in 1..Len(frags[c]) /\ frags'[c][k] = frags[c][k]
                 /\ j \in 1..Len(frags[c]) /\ frags'[c][j] = frags[c][j]
        BY <3>3, <4>1 DEF OnceInv
      <4>2. CASE /\ k \in 1..Len(frags[c]) /\ frags'[c][k] = frags[c][k]
                 /\ frags'[c][j] = net[i].part
        BY <4>2 DEF OnceInv
      <4>3. CASE /\ j \in 1..Len(frags[c]) /\ frags'[c][j] = frags[c][j]
                 /\ frags'[c][k] = net[i].part
        BY <4>3 DEF OnceInv
      <4>4. ~(k = Len(frags[c]) + 1 /\ j = Len(frags[c]) + 1)
        BY <3>3
      <4> QED
        BY <3>1, <4>1, <4>2, <4>3, <4>4
    <3> QED
      BY <3>2, <3>3
  <2>6. ASSUME NEW k \in 1..Len(shared')
        PROVE  /\ \A a \in 1..Len(net') : shared'[k] # net'[a].part
               /\ \A c \in Counter : \A j \in 1..Len(frags'[c]) : shared'[k] # frags'[c][j]
    <3>1. CASE shared' = shared
      <4>1. \A a \in 1..Len(net') : shared'[k] # net'[a].part
        BY <2>3, <3>1 DEF OnceInv
      <4>2. ASSUME NEW c \in Counter, NEW j \in 1..Len(frags'[c])
            PROVE  shared'[k] # frags'[c][j]
        <5>1. \/ j \in 1..Len(frags[c]) /\ frags'[c][j] = frags[c][j]
              \/ frags'[c][j] = net[i].part
          BY <2>1 DEF Takes, Keeps
        <5> QED
          BY <3>1, <5>1 DEF OnceInv
      <4> QED
        BY <4>1, <4>2
    <3>2. CASE net[i].last /\ From(i, shared'[k])
      <4>1. \A a \in 1..Len(net') : shared'[k] # net'[a].part
        BY <2>4, <3>2
      <4>2. ASSUME NEW c \in Counter, NEW j \in 1..Len(frags'[c])
            PROVE  shared'[k] # frags'[c][j]
        <5>1. /\ c # net[i].counter
              /\ j \in 1..Len(frags[c]) /\ frags'[c][j] = frags[c][j]
          BY <2>1, <3>2 DEF Takes, Keeps
        <5>2. WireCounter(frags'[c][j].num) = c
          BY <5>1 DEF SentInv
        <5>3. WireCounter(shared'[k].num) = net[i].counter
          BY <3>2, FromSent
        <5> QED
          BY <5>1, <5>2, <5>3
      <4> QED
        BY <4>1, <4>2
    <3> QED
      BY <2>1, <3>1, <3>2, TakesShared
  <2> QED
    BY <1>3, <2>2, <2>5, <2>6 DEF OnceInv
<1>6. CASE UNCHANGED vars
  BY <1>6 DEF vars, OnceInv
<1> QED
  BY <1>1, <1>4, <1>5, <1>6, <1>7 DEF Next

\* What datagram i completes has no fragment twice.
LEMMA JoinedOnce ==
    ASSUME TypeInv, OnceInv, NEW i \in 1..Len(net)
    PROVE  \A j, k \in 1..Len(Joined(i)) : j # k => Joined(i)[j] # Joined(i)[k]
<1> DEFINE c == net[i].counter
<1>1. /\ Len(frags[c]) \in Nat /\ Len(Joined(i)) = Len(frags[c]) + 1
      /\ \A k \in 1..Len(frags[c]) : Joined(i)[k] = frags[c][k]
      /\ Joined(i)[Len(frags[c]) + 1] = net[i].part
  BY JoinedType
<1>2. c \in Counter
  BY CarrierType
<1> HIDE DEF c
<1> SUFFICES ASSUME NEW j \in 1..Len(Joined(i)), NEW k \in 1..Len(Joined(i)), j # k
             PROVE  Joined(i)[j] # Joined(i)[k]
  OBVIOUS
<1>3. /\ j \in 1..Len(frags[c]) \/ j = Len(frags[c]) + 1
      /\ k \in 1..Len(frags[c]) \/ k = Len(frags[c]) + 1
  BY <1>1
<1>4. CASE j \in 1..Len(frags[c]) /\ k \in 1..Len(frags[c])
  BY <1>1, <1>2, <1>4 DEF OnceInv
<1>5. CASE j \in 1..Len(frags[c]) /\ k = Len(frags[c]) + 1
  BY <1>1, <1>2, <1>5 DEF OnceInv
<1>6. CASE k \in 1..Len(frags[c]) /\ j = Len(frags[c]) + 1
  BY <1>1, <1>2, <1>6 DEF OnceInv
<1> QED
  BY <1>3, <1>4, <1>5, <1>6

LEMMA BodyStep ==
    ASSUME TypeInv, SentInv, OnceInv, BodyInv, [Next]_vars
    PROVE  BodyInv'
<1>1. CASE shared' = shared
  BY <1>1 DEF BodyInv
<1>2. ASSUME NEW i \in 1..Len(net), Takes(i), shared' # shared
      PROVE  BodyInv'
  <2> DEFINE q == Joined(i)
  <2>1. q \in Seq(Fragment)
    BY JoinedType
  <2>2. PICK f : Arranges(f, q)
    BY <2>1, BodyArranges
  <2>3. shared' = Body(q) /\ \A k \in 1..Len(shared') : From(i, shared'[k])
    BY <1>2, TakesShared
  <2> HIDE DEF q
  <2>4. /\ Len(shared') = Len(q)
        /\ \A k \in 1..Len(q) : f[k] \in 1..Len(q) /\ shared'[k] = q[f[k]]
    BY <2>1, <2>2, <2>3, BodyElements
  <2>5. ASSUME NEW j \in 1..Len(shared'), NEW k \in 1..Len(shared')
        PROVE  /\ WireCounter(shared'[j].num) = WireCounter(shared'[k].num)
               /\ j < k => /\ shared'[j] # shared'[k]
                           /\ WireOffset(shared'[j].idx) <= WireOffset(shared'[k].idx)
    <3>1. WireCounter(shared'[j].num) = WireCounter(shared'[k].num)
      BY <2>3, FromSent
    <3>2. ASSUME j < k
          PROVE  /\ shared'[j] # shared'[k]
                 /\ WireOffset(shared'[j].idx) <= WireOffset(shared'[k].idx)
      <4>1. f[j] # f[k] /\ WireOffset(q[f[j]].idx) <= WireOffset(q[f[k]].idx)
        BY <2>2, <2>4, <3>2 DEF Arranges
      <4>2. q[f[j]] # q[f[k]]
        BY <2>4, <4>1, JoinedOnce DEF q
      <4> QED
        BY <2>4, <4>1, <4>2
    <3> QED
      BY <3>1, <3>2
  <2> QED
    BY <2>5 DEF BodyInv
<1>3. CASE Receive
  <2>1. PICK i \in 1..Len(net) : Takes(i)
    BY <1>3, Receiving
  <2> QED
    BY <1>1, <1>2, <2>1
<1>4. ASSUME NEW s \in Source, SendFragment(s)
      PROVE  shared' = shared
  BY <1>4, Sending
<1>5. CASE Lose
  BY <1>1, <1>5, Losing
<1>6. CASE UNCHANGED vars
  BY <1>1, <1>6 DEF vars
<1>7. CASE Duplicate
  BY <1>1, <1>7 DEF Duplicate
<1> QED
  BY <1>1, <1>3, <1>4, <1>5, <1>6, <1>7 DEF Next

LEMMA PlaceInit == Init => PlaceInv
<1> SUFFICES ASSUME Init PROVE PlaceInv
  OBVIOUS
<1>1. TypeInv
  <2>1. \A s \in Source : Len(NFrags[s]) \in Nat /\ NFrags[s] \in Seq(Nat \ {0})
    BY TurboAssumption DEF Source
  <2>2. \A s \in Source : num[s] = 1 /\ cut[s] = 0 /\ since[s] = 0
    BY DEF Init
  <2>3. ASSUME NEW s \in Source
        PROVE  /\ since[s] <= num[s]
               /\ num[s] <= Len(NFrags[s]) + 1
               /\ IF num[s] <= Len(NFrags[s])
                  THEN cut[s] < NFrags[s][num[s]] ELSE cut[s] = 0
    <3>1. 1 <= Len(NFrags[s]) => NFrags[s][1] \in Nat \ {0}
      BY <2>1
    <3> QED
      BY <2>1, <2>2, <3>1
  <2>4. << >> \in Seq(Carrier) /\ << >> \in Seq(Fragment)
    OBVIOUS
  <2>5. /\ num \in [Source -> Nat \ {0}] /\ cut \in [Source -> Nat]
        /\ since \in [Source -> Nat]
    BY DEF Init
  <2>6. frags \in [Counter -> Seq(Fragment)]
    BY <2>4 DEF Init, Counter
  <2>7. net \in Seq(Carrier) /\ shared \in Seq(Fragment) /\ copies \in Nat
    BY <2>4 DEF Init
  <2> QED
    BY <2>3, <2>5, <2>6, <2>7 DEF TypeInv
<1>2. net = << >> /\ shared = << >> /\ \A c \in Counter : frags[c] = << >>
  BY DEF Init, Counter
<1>3. /\ \A a \in 1..Len(net) : FALSE
      /\ \A k \in 1..Len(shared) : FALSE
      /\ \A c \in Counter : \A k \in 1..Len(frags[c]) : FALSE
  BY <1>2
<1> QED
  BY <1>1, <1>3 DEF PlaceInv, SentInv, CopyInv, OnceInv, BodyInv

\* Everything is where it belongs, on every network, one that duplicates
\* datagrams included: a datagram delivered, a copy as well, is in one place.
THEOREM PlaceInvariance == Spec => []PlaceInv
<1>1. PlaceInv /\ [Next]_vars => PlaceInv'
  BY TypeStep, SentStep, CopyStep, OnceStep, BodyStep DEF PlaceInv
<1> QED
  BY <1>1, PlaceInit, PTL DEF Spec

\* No datagram is used twice, so that a fragment is in a body as often as the
\* network has brought it, and a body has its fragments in order: for any number
\* of hosts, whatever is lost, duplicated, overtaken, joined or broken off.
THEOREM UsedOnce == Spec => []FragmentsUsedOnce
<1>1. ASSUME PlaceInv PROVE FragmentsUsedOnce
  <2> USE <1>1 DEF PlaceInv
  <2>1. shared \in Seq(Fragment) /\ frags \in [Counter -> Seq(Fragment)]
    BY DEF TypeInv
  <2>2. ASSUME NEW k \in 1..Len(shared), NEW j \in 1..(k - 1),
               shared[j].source = shared[k].source, shared[j].num = shared[k].num
        PROVE  /\ shared[j] # shared[k]
               /\ Fits(shared[k].source, shared[k].num) => shared[j].idx <= shared[k].idx
    <3>1. j \in 1..Len(shared) /\ j < k
      BY <2>1
    <3>2. /\ shared[j] # shared[k]
          /\ WireOffset(shared[j].idx) <= WireOffset(shared[k].idx)
      BY <3>1 DEF BodyInv
    <3> DEFINE p == shared[j]
               q == shared[k]
    <3>3. p \in Fragment /\ q \in Fragment
      BY <2>1, <3>1
    <3>4. p # q /\ WireOffset(p.idx) <= WireOffset(q.idx)
      BY <3>2
    <3>5. p.source = q.source /\ p.num = q.num
      BY <2>2
    <3> HIDE DEF p, q
    <3>6. ASSUME Fits(q.source, q.num) PROVE p.idx <= q.idx
      <4>1. /\ p.idx \in 1..NFrags[q.source][q.num] /\ q.idx \in 1..NFrags[q.source][q.num]
            /\ q.source \in Source /\ q.num \in 1..Len(NFrags[q.source])
            /\ p.idx \in Nat \ {0} /\ q.idx \in Nat \ {0}
        BY <3>3, <3>5, FragmentType
      <4>2. ~(q.idx < p.idx)
        <5>1. WireOffset(p.idx) \in Nat /\ WireOffset(q.idx) \in Nat
          BY <4>1, WireTypes
        <5>2. q.idx < p.idx => WireOffset(q.idx) < WireOffset(p.idx)
          BY <3>6, <4>1, OffsetsRise
        <5> QED
          BY <3>4, <5>1, <5>2
      <4> QED
        BY <4>1, <4>2
    <3> QED
      BY <3>4, <3>6 DEF p, q
  <2>3. \A k \in 1..Len(shared) : \A c \in DOMAIN frags : shared[k] \notin ToSet(frags[c])
    <3> SUFFICES ASSUME NEW k \in 1..Len(shared), NEW c \in Counter,
                        NEW m \in DOMAIN frags[c], shared[k] = frags[c][m]
                 PROVE  FALSE
      BY <2>1 DEF ToSet
    <3>1. m \in 1..Len(frags[c])
      BY <2>1
    <3> QED
      BY <3>1 DEF OnceInv
  <2>4. \A k \in 1..Len(shared) : \A n \in 1..Len(net) : net[n].part # shared[k]
    BY DEF OnceInv
  <2> QED
    BY <2>2, <2>3, <2>4 DEF FragmentsUsedOnce
<1> QED
  BY <1>1, PlaceInvariance, PTL

-----------------------------------------------------------------------------
(* Without overtaking.                                                     *)

\* Fragments of one source, neither of them a copy.
Same(p, q) == p.copy = 0 /\ q.copy = 0 /\ p.source = q.source

\* What waits and what is under way comes in the order in which it was sent.
OrderInv ==
    ~reordering =>
      /\ \A a, b \in 1..Len(net) :
           a < b /\ Same(net[a].part, net[b].part) =>
             Precedes(net[a].part, net[b].part)
      /\ \A c \in Counter : \A k \in 1..Len(frags[c]) : \A a \in 1..Len(net) :
           Same(frags[c][k], net[a].part) =>
             Precedes(frags[c][k], net[a].part)

\* A source that has met no other is alone, and what is published of it comes
\* before what it sends.
AloneInv ==
    \A s \in Source : since[s] = 0 =>
      /\ \A c \in Counter : \A k \in 1..Len(frags[c]) : Owner(frags[c][k]) = s
      /\ \A k \in 1..Len(shared) : Owner(shared[k]) = s
      /\ ~reordering =>
           \A k \in 1..Len(shared) :
             /\ shared[k].num < num[s]
             /\ \A a \in 1..Len(net) :
                  Owner(net[a].part) = s => shared[k].num < net[a].part.num

LEMMA HeadDelivered ==
    ASSUME TypeInv, ~reordering, NEW i \in 1..Len(net), i \in Deliverable, Removes(i)
    PROVE  /\ i = 1
           /\ Len(net') = Len(net) - 1
           /\ \A a \in 1..Len(net') : a + 1 \in 1..Len(net) /\ net'[a] = net[a + 1]
<1>1. Len(net) \in Nat
  BY DEF TypeInv
<1>2. i = 1
  BY DEF Deliverable
<1> QED
  BY <1>1, <1>2 DEF Removes

LEMMA OrderStep ==
    ASSUME PlaceInv, OrderInv, [Next]_vars
    PROVE  OrderInv'
<1> USE DEF PlaceInv
<1>1. ASSUME NEW s \in Source, SendFragment(s), ~reordering
      PROVE  OrderInv'
  <2>1. /\ Len(net') = Len(net) + 1
        /\ \A a \in 1..Len(net) : net'[a] = net[a]
        /\ net'[Len(net) + 1].part = UpNext(s)
        /\ frags' = frags
    BY <1>1, Sending
  <2>2. Len(net) \in Nat
    BY DEF TypeInv
  <2>3. \A p : IsSent(p, num, cut) /\ p.source = s /\ p \in Fragment =>
          Precedes(p, UpNext(s))
    <3> SUFFICES ASSUME NEW p \in Fragment, IsSent(p, num, cut), p.source = s
                 PROVE  Precedes(p, UpNext(s))
      OBVIOUS
    <3>1. /\ UpNext(s).num = num[s] /\ UpNext(s).idx = cut[s] + 1
          /\ num[s] \in Nat /\ cut[s] \in Nat /\ p.idx \in Nat
      BY FragmentType DEF UpNext, TypeInv
    <3> QED
      BY <3>1 DEF IsSent, Precedes
  <2>4. \A p : Same(p, UpNext(s)) => p.source = s
    BY DEF UpNext, Same
  <2>5. ASSUME NEW a \in 1..Len(net'), NEW b \in 1..Len(net'), a < b,
               Same(net'[a].part, net'[b].part)
        PROVE  Precedes(net'[a].part, net'[b].part)
    <3>1. a \in 1..Len(net) /\ net'[a] = net[a]
      BY <2>1, <2>2, <2>5
    <3>2. CASE b \in 1..Len(net)
      BY <1>1, <2>1, <2>5, <3>1, <3>2 DEF OrderInv
    <3>3. CASE b = Len(net) + 1
      <4>1. net[a].part \in Fragment /\ IsSent(net[a].part, num, cut)
        BY <3>1, CarrierType DEF SentInv
      <4> QED
        BY <2>1, <2>3, <2>4, <2>5, <3>1, <3>3, <4>1
    <3> QED
      BY <2>1, <2>2, <3>2, <3>3
  <2>6. ASSUME NEW c \in Counter, NEW k \in 1..Len(frags'[c]), NEW a \in 1..Len(net'),
               Same(frags'[c][k], net'[a].part)
        PROVE  Precedes(frags'[c][k], net'[a].part)
    <3>1. k \in 1..Len(frags[c]) /\ frags'[c][k] = frags[c][k]
      BY <2>1
    <3>2. CASE a \in 1..Len(net)
      BY <1>1, <2>1, <2>6, <3>1, <3>2 DEF OrderInv
    <3>3. CASE a = Len(net) + 1
      <4>1. frags[c][k] \in Fragment /\ IsSent(frags[c][k], num, cut)
        BY <3>1 DEF SentInv, TypeInv
      <4> QED
        BY <2>1, <2>3, <2>4, <2>6, <3>1, <3>3, <4>1
    <3> QED
      BY <2>1, <2>2, <3>2, <3>3
  <2> QED
    BY <2>5, <2>6 DEF OrderInv
<1>2. CASE Lose /\ ~reordering
  <2>1. PICK i \in 1..Len(net) : Removes(i)
    BY <1>2, Losing
  <2>2. frags' = frags
    BY <1>2, Losing
  <2>3. Len(net) \in Nat
    BY DEF TypeInv
  <2> DEFINE at(a) == IF a < i THEN a ELSE a + 1
  <2>4. \A a \in 1..Len(net') : at(a) \in 1..Len(net) /\ net'[a] = net[at(a)]
    BY <2>1 DEF Removes
  <2>5. \A a, b \in 1..Len(net') : a < b => at(a) < at(b)
    BY <2>3
  <2> HIDE DEF at
  <2>6. \A a, b \in 1..Len(net') :
          a < b /\ Same(net'[a].part, net'[b].part) =>
            Precedes(net'[a].part, net'[b].part)
    BY <1>2, <2>4, <2>5 DEF OrderInv
  <2>7. \A c \in Counter : \A k \in 1..Len(frags'[c]) : \A a \in 1..Len(net') :
          Same(frags'[c][k], net'[a].part) =>
            Precedes(frags'[c][k], net'[a].part)
    BY <1>2, <2>2, <2>4 DEF OrderInv
  <2> QED
    BY <2>6, <2>7 DEF OrderInv
<1>3. CASE Receive /\ ~reordering
  <2>1. PICK i \in 1..Len(net) : i \in Deliverable /\ Takes(i)
    BY <1>3, Receiving
  <2>2. /\ i = 1 /\ Len(net') = Len(net) - 1
        /\ \A a \in 1..Len(net') : a + 1 \in 1..Len(net) /\ net'[a] = net[a + 1]
    BY <1>3, <2>1, HeadDelivered DEF Takes
  <2>3. Len(net) \in Nat
    BY DEF TypeInv
  <2>4. ASSUME NEW a \in 1..Len(net'), NEW b \in 1..Len(net'), a < b,
               Same(net'[a].part, net'[b].part)
        PROVE  Precedes(net'[a].part, net'[b].part)
    <3>1. a + 1 < b + 1
      BY <2>4
    <3> QED
      BY <1>3, <2>2, <2>4, <3>1 DEF OrderInv
  <2>5. ASSUME NEW c \in Counter, NEW k \in 1..Len(frags'[c]), NEW a \in 1..Len(net'),
               Same(frags'[c][k], net'[a].part)
        PROVE  Precedes(frags'[c][k], net'[a].part)
    <3>1. CASE k \in 1..Len(frags[c]) /\ frags'[c][k] = frags[c][k]
      BY <1>3, <2>2, <2>5, <3>1 DEF OrderInv
    <3>2. CASE frags'[c][k] = net[1].part
      <4>1. 1 < a + 1 /\ 1 \in 1..Len(net)
        BY <2>2, <2>3
      <4> QED
        BY <1>3, <2>2, <2>5, <3>2, <4>1 DEF OrderInv
    <3> QED
      BY <2>1, <2>2, <3>1, <3>2 DEF Takes, Keeps
  <2> QED
    BY <2>4, <2>5 DEF OrderInv
<1>4. CASE UNCHANGED vars
  BY <1>4 DEF vars, network, OrderInv
<1>5. CASE reordering
  <2>1. reordering' = reordering
    BY DEF Next, SendFragment, Lose, Duplicate, Receive, vars, network
  <2> QED
    BY <1>5, <2>1 DEF OrderInv
<1>6. CASE Duplicate /\ ~reordering
  <2>1. PICK i \in 1..Len(net) : Copies(i)
    BY <1>6, Copying
  <2>2. /\ Len(net') = Len(net) + 1
        /\ \A a \in 1..Len(net) : net'[a] = net[a]
        /\ net'[Len(net) + 1].part = Again(i)
        /\ frags' = frags /\ reordering' = reordering
    BY <2>1 DEF Copies
  <2>3. Len(net) \in Nat
    BY DEF TypeInv
  <2>4. Again(i).copy # 0
    BY CopySent
  <2>5. ASSUME NEW a \in 1..Len(net'), net'[a].part.copy = 0
        PROVE  a \in 1..Len(net) /\ net'[a] = net[a]
    <3>1. a # Len(net) + 1
      BY <2>2, <2>4, <2>5
    <3>2. a \in 1..Len(net)
      BY <2>2, <2>3, <3>1
    <3> QED
      BY <2>2, <3>2
  <2>6. ASSUME NEW a \in 1..Len(net'), NEW b \in 1..Len(net'), a < b,
               Same(net'[a].part, net'[b].part)
        PROVE  Precedes(net'[a].part, net'[b].part)
    <3>1. /\ a \in 1..Len(net) /\ net'[a] = net[a]
          /\ b \in 1..Len(net) /\ net'[b] = net[b]
      BY <2>5, <2>6 DEF Same
    <3> QED
      BY <1>6, <2>6, <3>1 DEF OrderInv
  <2>7. ASSUME NEW c \in Counter, NEW k \in 1..Len(frags'[c]), NEW a \in 1..Len(net'),
               Same(frags'[c][k], net'[a].part)
        PROVE  Precedes(frags'[c][k], net'[a].part)
    <3>1. a \in 1..Len(net) /\ net'[a] = net[a]
      BY <2>5, <2>7 DEF Same
    <3> QED
      BY <1>6, <2>2, <2>7, <3>1 DEF OrderInv
  <2> QED
    BY <2>6, <2>7 DEF OrderInv
<1> QED
  BY <1>1, <1>2, <1>3, <1>4, <1>5, <1>6 DEF Next

\* The last fragment of a frame has been sent: the frame is behind its source.
LEMMA FrameSent ==
    ASSUME TypeInv, SentInv, NEW i \in 1..Len(net), net[i].last
    PROVE  net[i].part.num < num[net[i].part.source]
<1> DEFINE p == net[i].part
<1>1. p \in Fragment /\ LastOf(p) /\ IsSent(p, num, cut)
  BY CarrierType DEF SentInv
<1> HIDE DEF p
<1>2. /\ p.source \in Source /\ p.num \in 1..Len(NFrags[p.source]) /\ p.num \in Nat
      /\ p.idx = NFrags[p.source][p.num] /\ p.idx \in Nat
      /\ Len(NFrags[p.source]) \in Nat
  BY <1>1, FragmentType DEF LastOf
<1>3. /\ num[p.source] \in Nat /\ cut[p.source] \in Nat
      /\ num[p.source] <= Len(NFrags[p.source]) =>
           cut[p.source] < NFrags[p.source][num[p.source]]
  BY <1>2 DEF TypeInv
<1>4. p.num < num[p.source]
  BY <1>1, <1>2, <1>3 DEF IsSent
<1> QED
  BY <1>4 DEF p

\* Received in order, a fragment is of the frame its counter waits for, or of
\* a later one.
LEMMA FromBefore ==
    ASSUME PlaceInv, OrderInv, ~reordering, NEW i \in 1..Len(net), NEW x, From(i, x),
           Same(x, net[i].part)
    PROVE  x.num <= net[i].part.num
<1> USE DEF PlaceInv
<1>1. net[i].part \in Fragment /\ net[i].part.num \in Nat /\ net[i].counter \in Counter
  BY CarrierType, FragmentType
<1>2. x.num \in Nat
  BY FromSent, FragmentType
<1>3. CASE x = net[i].part
  BY <1>1, <1>3
<1>4. ASSUME NEW m \in 1..Len(frags[net[i].counter]), x = frags[net[i].counter][m]
      PROVE  x.num <= net[i].part.num
  <2>1. Precedes(x, net[i].part)
    BY <1>1, <1>4 DEF OrderInv
  <2> QED
    BY <1>1, <1>2, <2>1 DEF Precedes
<1> QED
  BY <1>3, <1>4 DEF From

\* In order, what follows the last fragment of a frame is of a later frame.
LEMMA LastCloses ==
    ASSUME PlaceInv, OrderInv, ~reordering, NEW i \in 1..Len(net), net[i].last,
           NEW a \in 1..Len(net), i < a, Same(net[i].part, net[a].part)
    PROVE  net[i].part.num < net[a].part.num
<1> USE DEF PlaceInv
<1> DEFINE p == net[i].part
           q == net[a].part
<1>1. p \in Fragment /\ q \in Fragment /\ LastOf(p)
  BY CarrierType
<1>2. Precedes(p, q) /\ p.source = q.source
  BY DEF OrderInv, Same
<1> HIDE DEF p, q
<1>3. /\ p.num \in Nat /\ q.num \in Nat /\ p.idx = NFrags[p.source][p.num]
      /\ q.idx \in 1..NFrags[q.source][q.num] /\ p.idx \in Nat
  BY <1>1, FragmentType DEF LastOf
<1>4. ~(p.num = q.num /\ p.idx < q.idx)
  BY <1>2, <1>3
<1>5. p.num < q.num
  BY <1>2, <1>4 DEF Precedes
<1> QED
  BY <1>5 DEF p, q

\* Who has an owner is no copy.
LEMMA Owned ==
    ASSUME NEW p, NEW s \in Source, Owner(p) = s
    PROVE  p.copy = 0 /\ p.source = s
  BY DEF Owner, Source

\* Alone after a step, alone before it: all that came was its own.
LEMMA AloneBefore ==
    ASSUME TypeInv, NEW s \in Source, NEW i \in 1..Len(net), Takes(i), since'[s] = 0
    PROVE  since[s] = 0 /\ Owner(net[i].part) = s
<1>1. since'[s] = IF s = Owner(net[i].part) THEN since[s] ELSE num[s]
  BY DEF Takes
<1>2. num[s] # 0
  BY DEF TypeInv
<1> QED
  BY <1>1, <1>2

LEMMA AloneStep ==
    ASSUME PlaceInv, OrderInv, AloneInv, [Next]_vars
    PROVE  AloneInv'
<1> USE DEF PlaceInv
<1>0. reordering' = reordering
  BY DEF Next, SendFragment, Lose, Duplicate, Receive, vars, network
<1>1. ASSUME NEW t \in Source, SendFragment(t)
      PROVE  AloneInv'
  <2>1. /\ Len(net') = Len(net) + 1
        /\ \A a \in 1..Len(net) : net'[a] = net[a]
        /\ net'[Len(net) + 1].part = UpNext(t)
        /\ frags' = frags /\ shared' = shared /\ since' = since
        /\ \A s \in Source : s # t => num'[s] = num[s]
        /\ num'[t] = num[t] \/ num'[t] = num[t] + 1
    BY <1>1, Sending
  <2>2. Len(net) \in Nat /\ num \in [Source -> Nat \ {0}]
    BY DEF TypeInv
  <2>3. ASSUME NEW s \in Source, since[s] = 0, ~reordering, NEW k \in 1..Len(shared)
        PROVE  /\ shared[k].num < num'[s]
               /\ \A a \in 1..Len(net') :
                    Owner(net'[a].part) = s => shared[k].num < net'[a].part.num
    <3>1. shared[k].num < num[s] /\ shared[k].num \in Nat
      <4>1. shared[k] \in Fragment
        BY DEF TypeInv
      <4> QED
        BY <2>3, <4>1, FragmentType DEF AloneInv
    <3>2. shared[k].num < num'[s]
      BY <2>1, <2>2, <3>1
    <3>3. ASSUME NEW a \in 1..Len(net'), Owner(net'[a].part) = s
          PROVE  shared[k].num < net'[a].part.num
      <4>1. CASE a \in 1..Len(net)
        BY <2>1, <2>3, <3>3, <4>1 DEF AloneInv
      <4>2. CASE a = Len(net) + 1
        BY <2>1, <3>1, <3>3, <4>2 DEF UpNext, Owner
      <4> QED
        BY <2>1, <2>2, <4>1, <4>2
    <3> QED
      BY <3>2, <3>3
  <2> QED
    BY <1>0, <2>1, <2>3 DEF AloneInv
<1>2. CASE Lose
  <2>1. PICK i \in 1..Len(net) : Removes(i)
    BY <1>2, Losing
  <2>2. /\ frags' = frags /\ shared' = shared /\ since' = since /\ num' = num
        /\ \A a \in 1..Len(net') : \E e \in 1..Len(net) : net'[a] = net[e]
    BY <1>2, <2>1, Losing DEF Removes
  <2>3. ASSUME NEW s \in Source, since[s] = 0, ~reordering, NEW k \in 1..Len(shared)
        PROVE  /\ shared[k].num < num[s]
               /\ \A a \in 1..Len(net') :
                    Owner(net'[a].part) = s => shared[k].num < net'[a].part.num
    BY <2>2, <2>3 DEF AloneInv
  <2> QED
    BY <1>0, <2>2, <2>3 DEF AloneInv
<1>3. CASE Receive
  <2>1. PICK i \in 1..Len(net) : i \in Deliverable /\ Takes(i)
    BY <1>3, Receiving
  <2>2. num' = num /\ Len(net) \in Nat
    BY <2>1 DEF Takes, TypeInv
  <2> SUFFICES ASSUME NEW s \in Source, since'[s] = 0
               PROVE  /\ \A c \in Counter : \A k \in 1..Len(frags'[c]) :
                           Owner(frags'[c][k]) = s
                      /\ \A k \in 1..Len(shared') : Owner(shared'[k]) = s
                      /\ ~reordering =>
                           \A k \in 1..Len(shared') :
                             /\ shared'[k].num < num[s]
                             /\ \A a \in 1..Len(net') :
                                  Owner(net'[a].part) = s =>
                                    shared'[k].num < net'[a].part.num
    BY <1>0, <2>2 DEF AloneInv
  <2>3. since[s] = 0 /\ Owner(net[i].part) = s
    BY <2>1, AloneBefore
  <2>4. ASSUME NEW c \in Counter, NEW k \in 1..Len(frags'[c])
        PROVE  Owner(frags'[c][k]) = s
    <3>1. CASE k \in 1..Len(frags[c]) /\ frags'[c][k] = frags[c][k]
      BY <2>3, <3>1 DEF AloneInv
    <3>2. CASE frags'[c][k] = net[i].part
      BY <2>3, <3>2
    <3> QED
      BY <2>1, <3>1, <3>2 DEF Takes, Keeps
  <2>5. \A x : From(i, x) => Owner(x) = s
    BY <2>3, CarrierType DEF From, AloneInv
  <2>6. ASSUME NEW k \in 1..Len(shared') PROVE Owner(shared'[k]) = s
    BY <2>1, <2>3, <2>5, TakesShared DEF AloneInv
  <2>7. ASSUME ~reordering, NEW k \in 1..Len(shared')
        PROVE  /\ shared'[k].num < num[s]
               /\ \A a \in 1..Len(net') :
                    Owner(net'[a].part) = s => shared'[k].num < net'[a].part.num
    <3>1. /\ i = 1
          /\ \A a \in 1..Len(net') : a + 1 \in 1..Len(net) /\ net'[a] = net[a + 1]
      BY <2>1, <2>7, HeadDelivered DEF Takes
    <3>2. CASE shared' = shared
      BY <2>3, <2>7, <3>1, <3>2 DEF AloneInv
    <3>3. CASE net[i].last /\ From(i, shared'[k])
      <4>0. /\ net[i].part.copy = 0 /\ net[i].part.source = s
            /\ shared'[k].copy = 0 /\ shared'[k].source = s
        BY <2>3, <2>5, <3>3, Owned
      <4>1. shared'[k].num <= net[i].part.num
        BY <2>7, <3>3, <4>0, FromBefore DEF Same
      <4>2. net[i].part.num < num[s]
        BY <3>3, <4>0, FrameSent
      <4>3. /\ shared'[k].num \in Nat /\ net[i].part.num \in Nat /\ num[s] \in Nat
            /\ \A a \in 1..Len(net) : net[a].part.num \in Nat
        BY <3>3, FromSent, CarrierType, FragmentType DEF TypeInv
      <4>4. ASSUME NEW a \in 1..Len(net'), Owner(net'[a].part) = s
            PROVE  shared'[k].num < net'[a].part.num
        <5>1. i < a + 1
          BY <3>1
        <5>0. Same(net[i].part, net[a + 1].part)
          BY <3>1, <4>0, <4>4, Owned DEF Same
        <5>2. net[i].part.num < net[a + 1].part.num
          BY <2>7, <3>1, <3>3, <5>0, <5>1, LastCloses
        <5>3. net[a + 1].part.num \in Nat /\ net'[a] = net[a + 1]
          BY <3>1, <4>3
        <5>4. shared'[k].num < net[a + 1].part.num
          BY <4>1, <4>3, <5>2, <5>3
        <5> QED
          BY <5>3, <5>4
      <4> QED
        BY <4>1, <4>2, <4>3, <4>4
    <3> QED
      BY <2>1, <3>2, <3>3, TakesShared
  <2> QED
    BY <2>4, <2>6, <2>7
<1>4. CASE UNCHANGED vars
  BY <1>4 DEF vars, network, AloneInv
<1>5. CASE Duplicate
  <2>1. PICK i \in 1..Len(net) : Copies(i)
    BY <1>5, Copying
  <2>2. /\ Len(net') = Len(net) + 1
        /\ \A a \in 1..Len(net) : net'[a] = net[a]
        /\ net'[Len(net) + 1].part = Again(i)
        /\ frags' = frags /\ shared' = shared /\ since' = since /\ num' = num
    BY <2>1 DEF Copies
  <2>3. Len(net) \in Nat
    BY DEF TypeInv
  <2>4. Owner(Again(i)) = 0
    BY CopySent DEF Owner
  <2>5. ASSUME NEW s \in Source, since[s] = 0, ~reordering, NEW k \in 1..Len(shared)
        PROVE  /\ shared[k].num < num[s]
               /\ \A a \in 1..Len(net') :
                    Owner(net'[a].part) = s => shared[k].num < net'[a].part.num
    <3>1. \A a \in 1..Len(net') : Owner(net'[a].part) = s => a # Len(net) + 1
      BY <2>2, <2>4 DEF Source
    <3>2. \A a \in 1..Len(net') : a = Len(net) + 1 \/ a \in 1..Len(net)
      BY <2>2, <2>3
    <3> QED
      BY <2>2, <2>5, <3>1, <3>2 DEF AloneInv
  <2> QED
    BY <1>0, <2>2, <2>5 DEF AloneInv
<1> QED
  BY <1>1, <1>2, <1>3, <1>4, <1>5 DEF Next

InOrder == PlaceInv /\ OrderInv /\ AloneInv

\* On a network without overtaking fragments, but for the copies, are under way
\* in the order they were sent, and of a host that is alone nothing else, and no
\* copy, is in the table.
THEOREM OrderInvariance == Spec => []InOrder
<1>1. Init => InOrder
  <2> SUFFICES ASSUME Init PROVE InOrder
    OBVIOUS
  <2>1. PlaceInv
    BY PlaceInit
  <2>2. net = << >> /\ shared = << >> /\ \A c \in Counter : frags[c] = << >>
    BY DEF Init, Counter
  <2>3. /\ \A a \in 1..Len(net) : FALSE
        /\ \A k \in 1..Len(shared) : FALSE
        /\ \A c \in Counter : \A k \in 1..Len(frags[c]) : FALSE
    BY <2>2
  <2> QED
    BY <2>1, <2>3 DEF InOrder, OrderInv, AloneInv
<1>2. InOrder /\ [Next]_vars => PlaceInv'
  BY TypeStep, SentStep, CopyStep, OnceStep, BodyStep DEF InOrder, PlaceInv
<1>3. InOrder /\ [Next]_vars => InOrder'
  BY <1>2, OrderStep, AloneStep DEF InOrder
<1> QED
  BY <1>1, <1>3, PTL DEF Spec

\* A body that replaces another is of a later frame, as long as the source is
\* alone and the counter has not come round.
LEMMA PictureAdvances ==
    ASSUME InOrder, [Next]_vars, shared' # shared, NEW s \in Source,
           ~reordering, since'[s] = 0, num[s] <= CounterMod + 1, shared # << >>
    PROVE  shared' # << >> /\ shared'[1].num > shared[1].num
<1> USE DEF InOrder, PlaceInv
<1>1. Receive
  <2>1. ASSUME NEW t \in Source, SendFragment(t)
        PROVE  FALSE
    BY <2>1 DEF SendFragment
  <2> QED
    BY <2>1 DEF Next, Lose, Duplicate, vars
<1>2. PICK i \in 1..Len(net) : i \in Deliverable /\ Takes(i)
  BY <1>1, Receiving
<1>3. /\ since[s] = 0 /\ Owner(net[i].part) = s
      /\ net[i].part.copy = 0 /\ net[i].part.source = s
  BY <1>2, AloneBefore, Owned
<1>4. /\ net[i].last /\ shared' = Body(Joined(i))
      /\ \A k \in 1..Len(shared') : From(i, shared'[k])
  BY <1>2, TakesShared
<1>5. Len(shared') \in Nat \ {0}
  <2>1. Joined(i) \in Seq(Fragment) /\ Len(Joined(i)) \in Nat \ {0}
    BY JoinedType
  <2>2. PICK f : Arranges(f, Joined(i))
    BY <2>1, BodyArranges
  <2> QED
    BY <1>4, <2>1, <2>2, BodyElements
<1>6. 1 \in 1..Len(shared') /\ shared' # << >> /\ From(i, shared'[1])
  BY <1>4, <1>5
<1> DEFINE x == shared'[1]
           p == net[i].part
<1>7. /\ x \in Fragment /\ WireCounter(x.num) = net[i].counter
      /\ p \in Fragment /\ WireCounter(p.num) = net[i].counter
  BY <1>6, FromSent, CarrierType
<1>8. x.num <= p.num
  <2>1. Owner(x) = s
    BY <1>3, <1>6, <1>7, CarrierType DEF From, AloneInv
  <2>2. Same(x, p)
    BY <1>3, <2>1, Owned DEF Same
  <2> QED
    BY <1>6, <2>2, FromBefore
<1>9. p.num < num[s]
  BY <1>3, <1>4, FrameSent
<1>10. shared[1].num < p.num /\ shared[1].num \in Nat
  <2>1. shared \in Seq(Fragment)
    BY DEF TypeInv
  <2>2. 1 \in 1..Len(shared) /\ shared[1] \in Fragment
    BY <2>1
  <2> QED
    BY <1>3, <2>2, FragmentType DEF AloneInv
<1> HIDE DEF x, p
<1>11. x.num \in Nat \ {0} /\ p.num \in Nat \ {0} /\ CounterMod \in Nat /\ num[s] \in Nat
  BY <1>7, FragmentType, TurboAssumption DEF TypeInv
<1>12. x.num \in 1..CounterMod /\ p.num \in 1..CounterMod
  BY <1>8, <1>9, <1>11
<1>13. x.num = p.num
  BY <1>7, <1>12, CounterTells
<1>14. x.num > shared[1].num
  BY <1>10, <1>11, <1>13
<1> QED
  BY <1>6, <1>14 DEF x

\* Whatever is lost, a host that streams alone never sees its picture go back
\* to an earlier frame within one turn of the counter and until a datagram comes
\* twice, however many frames and fragments it sends.
THEOREM PictureNeverBack == Spec => NeverBack
<1> DEFINE Advances ==
             \A s \in Source :
               ~reordering /\ since'[s] = 0 /\ num[s] <= CounterMod + 1 =>
                 shared = << >> \/ (shared' # << >> /\ shared'[1].num > shared[1].num)
<1>1. InOrder /\ [Next]_vars => [Advances]_shared
  <2> SUFFICES ASSUME InOrder, [Next]_vars, shared' # shared PROVE Advances
    OBVIOUS
  <2> QED
    BY PictureAdvances
<1> QED
  BY <1>1, OrderInvariance, PTL DEF NeverBack, Spec

-----------------------------------------------------------------------------
(* Without overtaking and without loss.                                    *)

\* The fragment that follows p.
Follower(p) ==
    IF LastOf(p)
    THEN [source |-> p.source, num |-> p.num + 1, idx |-> 1, copy |-> 0]
    ELSE [source |-> p.source, num |-> p.num, idx |-> p.idx + 1, copy |-> 0]

\* q is the fragment of s that comes after the a-th datagram of the network w:
\* the first one there, or, if there is none, the one sent next.
Comes(w, n, c, s, a, q) ==
    /\ Owner(q) = s
    /\ \/ /\ q = [source |-> s, num |-> n[s], idx |-> c[s] + 1, copy |-> 0]
          /\ \A e \in (a + 1)..Len(w) : Owner(w[e].part) # s
       \/ \E b \in (a + 1)..Len(w) :
            /\ w[b].part = q
            /\ \A e \in (a + 1)..(b - 1) : Owner(w[e].part) # s

\* No fragment is missing in the network.
RunInv ==
    \A a \in 1..Len(net) :
      net[a].part.copy = 0 =>
        Comes(net, num, cut, net[a].part.source, a, Follower(net[a].part))

LEMMA ComesOne ==
    ASSUME NEW w, Len(w) \in Nat, NEW n, NEW c, NEW s, NEW a \in Nat, NEW q, NEW r,
           Comes(w, n, c, s, a, q), Comes(w, n, c, s, a, r)
    PROVE  q = r
<1>1. CASE \E b \in (a + 1)..Len(w) :
             /\ w[b].part = q
             /\ \A e \in (a + 1)..(b - 1) : Owner(w[e].part) # s
  <2>1. PICK b \in (a + 1)..Len(w) :
          /\ w[b].part = q
          /\ \A e \in (a + 1)..(b - 1) : Owner(w[e].part) # s
    BY <1>1
  <2>2. Owner(w[b].part) = s
    BY <2>1 DEF Comes
  <2>3. PICK d \in (a + 1)..Len(w) :
          /\ w[d].part = r
          /\ \A e \in (a + 1)..(d - 1) : Owner(w[e].part) # s
    BY <2>2 DEF Comes
  <2>4. Owner(w[d].part) = s
    BY <2>3 DEF Comes
  <2>5. ~(d < b) /\ ~(b < d)
    BY <2>1, <2>2, <2>3, <2>4
  <2> QED
    BY <2>1, <2>3, <2>5
<1>2. CASE /\ q = [source |-> s, num |-> n[s], idx |-> c[s] + 1, copy |-> 0]
           /\ \A e \in (a + 1)..Len(w) : Owner(w[e].part) # s
  <2>1. r = [source |-> s, num |-> n[s], idx |-> c[s] + 1, copy |-> 0]
    <3> SUFFICES ASSUME NEW b \in (a + 1)..Len(w), w[b].part = r PROVE FALSE
      BY DEF Comes
    <3>1. Owner(w[b].part) = s
      BY DEF Comes
    <3> QED
      BY <1>2, <3>1
  <2> QED
    BY <1>2, <2>1
<1> QED
  BY <1>1, <1>2 DEF Comes

\* What is sent comes last, and before the rest of what is to be sent.
LEMMA ComesAfterSend ==
    ASSUME TypeInv, NEW t \in Source, SendFragment(t)
    PROVE  /\ \A s \in Source : \A a \in 0..Len(net) : \A q :
                Comes(net, num, cut, s, a, q) => Comes(net', num', cut', s, a, q)
           /\ Comes(net', num', cut', t, Len(net'), Follower(UpNext(t)))
<1>1. /\ Len(net') = Len(net) + 1
      /\ \A a \in 1..Len(net) : net'[a] = net[a]
      /\ net'[Len(net) + 1].part = UpNext(t)
      /\ \A s \in Source : s # t => num'[s] = num[s] /\ cut'[s] = cut[s]
      /\ IF LastOf(UpNext(t))
         THEN num'[t] = num[t] + 1 /\ cut'[t] = 0
         ELSE num'[t] = num[t] /\ cut'[t] = cut[t] + 1
  BY Sending
<1>2. Len(net) \in Nat /\ \A s \in Source : num[s] \in Nat /\ cut[s] \in Nat
  BY DEF TypeInv
<1>3. ASSUME NEW s \in Source, NEW a \in 0..Len(net), NEW q,
             Comes(net, num, cut, s, a, q)
      PROVE  Comes(net', num', cut', s, a, q)
  <2>1. CASE \E b \in (a + 1)..Len(net) :
               /\ net[b].part = q
               /\ \A e \in (a + 1)..(b - 1) : Owner(net[e].part) # s
    <3>1. PICK b \in (a + 1)..Len(net) :
            /\ net[b].part = q
            /\ \A e \in (a + 1)..(b - 1) : Owner(net[e].part) # s
      BY <2>1
    <3>2. /\ b \in (a + 1)..Len(net') /\ b \in 1..Len(net)
          /\ \A e \in (a + 1)..(b - 1) : e \in 1..Len(net)
      BY <1>1, <1>2, <3>1
    <3>3. /\ net'[b].part = q
          /\ \A e \in (a + 1)..(b - 1) : Owner(net'[e].part) # s
      BY <1>1, <3>1, <3>2
    <3> QED
      BY <1>3, <3>2, <3>3 DEF Comes
  <2>2. CASE /\ q = [source |-> s, num |-> num[s], idx |-> cut[s] + 1, copy |-> 0]
             /\ \A e \in (a + 1)..Len(net) : Owner(net[e].part) # s
    <3>1. \A e \in (a + 1)..Len(net) : e \in 1..Len(net) /\ Owner(net'[e].part) # s
      BY <1>1, <1>2, <2>2
    <3>2. CASE s = t
      <4>1. q = UpNext(t)
        BY <2>2, <3>2 DEF UpNext
      <4>2. Len(net) + 1 \in (a + 1)..Len(net') /\ (Len(net) + 1) - 1 = Len(net)
        BY <1>1, <1>2
      <4>3. net'[Len(net) + 1].part = q
        BY <1>1, <4>1
      <4> QED
        BY <1>3, <3>1, <4>2, <4>3 DEF Comes
    <3>3. CASE s # t
      <4>1. q = [source |-> s, num |-> num'[s], idx |-> cut'[s] + 1, copy |-> 0]
        BY <1>1, <2>2, <3>3
      <4>2. Owner(net'[Len(net) + 1].part) = t
        BY <1>1 DEF UpNext, Owner
      <4>3. \A e \in (a + 1)..Len(net') : Owner(net'[e].part) # s
        <5> SUFFICES ASSUME NEW e \in (a + 1)..Len(net') PROVE Owner(net'[e].part) # s
          OBVIOUS
        <5>1. e \in (a + 1)..Len(net) \/ e = Len(net) + 1
          BY <1>1, <1>2
        <5> QED
          BY <3>1, <3>3, <4>2, <5>1
      <4> QED
        BY <1>3, <4>1, <4>3 DEF Comes
    <3> QED
      BY <3>2, <3>3
  <2> QED
    BY <1>3, <2>1, <2>2 DEF Comes
<1>4. Comes(net', num', cut', t, Len(net'), Follower(UpNext(t)))
  <2>1. UpNext(t).source = t /\ UpNext(t).num = num[t] /\ UpNext(t).idx = cut[t] + 1
    BY DEF UpNext
  <2>2. Follower(UpNext(t)) = [source |-> t, num |-> num'[t], idx |-> cut'[t] + 1, copy |-> 0]
    <3>1. CASE LastOf(UpNext(t))
      <4>1. num'[t] = num[t] + 1 /\ cut'[t] + 1 = 1
        BY <1>1, <3>1
      <4> QED
        BY <2>1, <3>1, <4>1 DEF Follower
    <3>2. CASE ~LastOf(UpNext(t))
      <4>1. num'[t] = num[t] /\ cut'[t] + 1 = (cut[t] + 1) + 1
        BY <1>1, <3>2
      <4> QED
        BY <2>1, <3>2, <4>1 DEF Follower
    <3> QED
      BY <3>1, <3>2
  <2>3. Owner(Follower(UpNext(t))) = t
    BY <2>2 DEF Owner
  <2>4. \A e \in (Len(net') + 1)..Len(net') : FALSE
    BY <1>1, <1>2
  <2> QED
    BY <2>2, <2>3, <2>4 DEF Comes
<1> QED
  BY <1>3, <1>4

\* A copy is not what any source waits for.
LEMMA ComesAfterCopy ==
    ASSUME TypeInv, NEW i \in 1..Len(net), Copies(i)
    PROVE  \A s \in Source : \A a \in 0..Len(net) : \A q :
             Comes(net, num, cut, s, a, q) => Comes(net', num', cut', s, a, q)
<1>1. /\ Len(net') = Len(net) + 1
      /\ \A a \in 1..Len(net) : net'[a] = net[a]
      /\ net'[Len(net) + 1].part = Again(i)
      /\ num' = num /\ cut' = cut
  BY DEF Copies
<1>2. Len(net) \in Nat
  BY DEF TypeInv
<1>3. Owner(net'[Len(net) + 1].part) = 0
  BY <1>1 DEF TypeInv, Again, Owner
<1> SUFFICES ASSUME NEW s \in Source, NEW a \in 0..Len(net), NEW q,
                    Comes(net, num, cut, s, a, q)
             PROVE  Comes(net', num, cut, s, a, q)
  BY <1>1
<1>4. CASE \E b \in (a + 1)..Len(net) :
             /\ net[b].part = q
             /\ \A e \in (a + 1)..(b - 1) : Owner(net[e].part) # s
  <2>1. PICK b \in (a + 1)..Len(net) :
          /\ net[b].part = q
          /\ \A e \in (a + 1)..(b - 1) : Owner(net[e].part) # s
    BY <1>4
  <2>2. /\ b \in (a + 1)..Len(net') /\ b \in 1..Len(net)
        /\ \A e \in (a + 1)..(b - 1) : e \in 1..Len(net)
    BY <1>1, <1>2, <2>1
  <2>3. /\ net'[b].part = q
        /\ \A e \in (a + 1)..(b - 1) : Owner(net'[e].part) # s
    BY <1>1, <2>1, <2>2
  <2> QED
    BY <2>2, <2>3 DEF Comes
<1>5. CASE /\ q = [source |-> s, num |-> num[s], idx |-> cut[s] + 1, copy |-> 0]
           /\ \A e \in (a + 1)..Len(net) : Owner(net[e].part) # s
  <2>1. ASSUME NEW e \in (a + 1)..Len(net') PROVE Owner(net'[e].part) # s
    <3>1. e \in (a + 1)..Len(net) \/ e = Len(net) + 1
      BY <1>1, <1>2
    <3>2. CASE e \in (a + 1)..Len(net)
      <4>1. e \in 1..Len(net)
        BY <1>2, <3>2
      <4> QED
        BY <1>1, <1>5, <3>2, <4>1
    <3>3. CASE e = Len(net) + 1
      BY <1>3, <3>3 DEF Source
    <3> QED
      BY <3>1, <3>2, <3>3
  <2> QED
    BY <1>5, <2>1 DEF Comes
<1> QED
  BY <1>4, <1>5 DEF Comes

\* Taking the first datagram shifts the others.
LEMMA ComesAfterTake ==
    ASSUME TypeInv, 1 \in 1..Len(net), Removes(1), UNCHANGED <<num, cut>>
    PROVE  /\ \A s : \A a \in 1..Len(net) : \A q :
                Comes(net, num, cut, s, a, q) => Comes(net', num', cut', s, a - 1, q)
           /\ \A s : \A q :
                Comes(net, num, cut, s, 0, q) /\ Owner(net[1].part) # s =>
                  Comes(net', num', cut', s, 0, q)
<1>1. /\ Len(net) \in Nat /\ Len(net') = Len(net) - 1
      /\ \A a \in 1..Len(net') : a + 1 \in 1..Len(net) /\ net'[a] = net[a + 1]
  <2>1. Len(net) \in Nat
    BY DEF TypeInv
  <2> QED
    BY <2>1 DEF Removes
<1>2. \A a \in 2..Len(net) : a - 1 \in 1..Len(net') /\ net'[a - 1] = net[a]
  <2> SUFFICES ASSUME NEW a \in 2..Len(net)
               PROVE  a - 1 \in 1..Len(net') /\ net'[a - 1] = net[a]
    OBVIOUS
  <2>1. a - 1 \in 1..Len(net') /\ (a - 1) + 1 = a
    BY <1>1
  <2> QED
    BY <1>1, <2>1
<1>3. ASSUME NEW s, NEW a \in 1..Len(net), NEW q, Comes(net, num, cut, s, a, q)
      PROVE  Comes(net', num', cut', s, a - 1, q)
  <2>1. CASE \E b \in (a + 1)..Len(net) :
               /\ net[b].part = q
               /\ \A e \in (a + 1)..(b - 1) : Owner(net[e].part) # s
    <3>1. PICK b \in (a + 1)..Len(net) :
            /\ net[b].part = q
            /\ \A e \in (a + 1)..(b - 1) : Owner(net[e].part) # s
      BY <2>1
    <3>2. b - 1 \in ((a - 1) + 1)..Len(net') /\ b \in 2..Len(net)
      BY <1>1
    <3>3. net'[b - 1].part = q
      BY <1>2, <3>1, <3>2
    <3>4. ASSUME NEW e \in ((a - 1) + 1)..((b - 1) - 1) PROVE Owner(net'[e].part) # s
      <4>1. e + 1 \in (a + 1)..(b - 1) /\ e \in 1..Len(net')
        BY <1>1
      <4> QED
        BY <1>1, <3>1, <4>1
    <3> QED
      BY <1>3, <3>2, <3>3, <3>4 DEF Comes
  <2>2. CASE /\ q = [source |-> s, num |-> num[s], idx |-> cut[s] + 1, copy |-> 0]
             /\ \A e \in (a + 1)..Len(net) : Owner(net[e].part) # s
    <3>1. ASSUME NEW e \in ((a - 1) + 1)..Len(net') PROVE Owner(net'[e].part) # s
      <4>1. e + 1 \in (a + 1)..Len(net) /\ e \in 1..Len(net')
        BY <1>1
      <4> QED
        BY <1>1, <2>2, <4>1
    <3> QED
      BY <1>3, <2>2, <3>1 DEF Comes
  <2> QED
    BY <1>3, <2>1, <2>2 DEF Comes
<1>4. ASSUME NEW s, NEW q, Comes(net, num, cut, s, 0, q), Owner(net[1].part) # s
      PROVE  Comes(net', num', cut', s, 0, q)
  <2>1. Comes(net, num, cut, s, 1, q)
    <3>1. CASE \E b \in (0 + 1)..Len(net) :
                 /\ net[b].part = q
                 /\ \A e \in (0 + 1)..(b - 1) : Owner(net[e].part) # s
      <4>1. PICK b \in (0 + 1)..Len(net) :
              /\ net[b].part = q
              /\ \A e \in (0 + 1)..(b - 1) : Owner(net[e].part) # s
        BY <3>1
      <4>2. b # 1
        BY <1>4, <4>1 DEF Comes
      <4>3. b \in (1 + 1)..Len(net)
        BY <1>1, <4>2
      <4>4. \A e \in (1 + 1)..(b - 1) : Owner(net[e].part) # s
        BY <1>1, <4>1
      <4> QED
        BY <1>4, <4>1, <4>3, <4>4 DEF Comes
    <3>2. CASE /\ q = [source |-> s, num |-> num[s], idx |-> cut[s] + 1, copy |-> 0]
               /\ \A e \in (0 + 1)..Len(net) : Owner(net[e].part) # s
      <4>1. \A e \in (1 + 1)..Len(net) : Owner(net[e].part) # s
        BY <1>1, <3>2
      <4> QED
        BY <1>4, <3>2, <4>1 DEF Comes
    <3> QED
      BY <1>4, <3>1, <3>2 DEF Comes
  <2>2. Comes(net', num', cut', s, 1 - 1, q)
    BY <1>3, <2>1
  <2> QED
    BY <2>2
<1> QED
  BY <1>3, <1>4

\* A whole frame, as it is collected, is sorted into a body with all its parts
\* and the header first; in order, if the offsets have not wrapped.
LEMMA BodyWhole ==
    ASSUME NEW s \in Source, NEW n \in 1..Len(NFrags[s])
    PROVE  /\ Frame(s, n) \in Seq(Fragment)
           /\ Len(Frame(s, n)) = NFrags[s][n] /\ NFrags[s][n] \in Nat \ {0}
           /\ Body(Frame(s, n)) \in Seq(Fragment)
           /\ Len(Body(Frame(s, n))) = NFrags[s][n]
           /\ ToSet(Body(Frame(s, n))) = ToSet(Frame(s, n))
           /\ Body(Frame(s, n))[1] = Frame(s, n)[1]
           /\ Fits(s, n) => Body(Frame(s, n)) = Frame(s, n)
<1> DEFINE N == NFrags[s][n]
           q == Frame(s, n)
<1>1. N \in Nat \ {0} /\ n \in Nat \ {0} /\ n <= Len(NFrags[s])
  <2>1. NFrags[s] \in Seq(Nat \ {0})
    BY TurboAssumption DEF Source
  <2> QED
    BY <2>1
<1>2. q = [i \in 1..N |-> [source |-> s, num |-> n, idx |-> i, copy |-> 0]]
  BY DEF Frame
<1>3. \A i \in 1..N : [source |-> s, num |-> n, idx |-> i, copy |-> 0] \in Fragment
  <2> SUFFICES ASSUME NEW i \in 1..N
               PROVE  [source |-> s, num |-> n, idx |-> i, copy |-> 0] \in Fragment
    OBVIOUS
  <2>1. i \in Nat \ {0} /\ i <= NFrags[s][n]
    BY <1>1
  <2> QED
    BY <1>1, <2>1 DEF Fragment
<1> HIDE DEF N, q
<1>4. q \in Seq(Fragment) /\ Len(q) = N /\ DOMAIN q = 1..N
  BY <1>1, <1>2, <1>3
<1>5. \A i \in 1..N : q[i].idx = i
  BY <1>2
<1>6. PICK f : Arranges(f, q)
  BY <1>4, BodyArranges
<1>7. /\ Body(q) \in Seq(Fragment) /\ Len(Body(q)) = N /\ DOMAIN Body(q) = 1..N
      /\ \A k \in 1..N : f[k] \in 1..N /\ Body(q)[k] = q[f[k]]
  <2>1. Body(q) \in Seq(Fragment) /\ Len(Body(q)) = Len(q)
    BY <1>4, <1>6, BodyElements
  <2>2. \A k \in 1..Len(q) : f[k] \in 1..Len(q) /\ Body(q)[k] = q[f[k]]
    BY <1>4, <1>6, BodyElements
  <2> QED
    BY <1>4, <2>1, <2>2
<1>8. /\ \A i \in 1..N : \E k \in 1..N : f[k] = i
      /\ \A k \in 1..N : Place(q, f[k]) = k
  BY <1>4, <1>6 DEF Arranges
<1>9. ToSet(Body(q)) = ToSet(q)
  <2>1. ASSUME NEW x \in ToSet(Body(q)) PROVE x \in ToSet(q)
    <3>1. PICK k \in 1..N : x = Body(q)[k]
      BY <1>7, <2>1 DEF ToSet
    <3> QED
      BY <1>4, <1>7, <3>1 DEF ToSet
  <2>2. ASSUME NEW x \in ToSet(q) PROVE x \in ToSet(Body(q))
    <3>1. PICK i \in 1..N : x = q[i]
      BY <1>4, <2>2 DEF ToSet
    <3>2. PICK k \in 1..N : f[k] = i
      BY <1>8
    <3>3. x = Body(q)[k]
      BY <1>7, <3>1, <3>2
    <3> QED
      BY <1>7, <3>3 DEF ToSet
  <2> QED
    BY <2>1, <2>2
<1>10. \A i \in 1..N : Place(q, i) = Cardinality(UpTo(q, i))
  BY <1>4, PlaceOf
<1>11. Body(q)[1] = q[1]
  <2>1. UpTo(q, 1) = {1}
    <3>1. WireOffset(1) = 0
      BY TurboAssumption DEF WireOffset
    <3>2. \A j \in 1..N : WireOffset(j) \in Nat
      BY WireTypes
    <3>3. UpTo(q, 1) = {j \in 1..N : \/ WireOffset(j) < 0
                                     \/ WireOffset(j) = 0 /\ j <= 1}
      BY <1>1, <1>4, <1>5, <3>1 DEF UpTo
    <3> QED
      BY <1>1, <3>1, <3>2, <3>3
  <2>2. Place(q, 1) = 1
    <3>1. Cardinality({1}) = 1
      BY FS_Singleton
    <3> QED
      BY <1>1, <1>10, <2>1, <3>1
  <2>3. PICK k \in 1..N : f[k] = 1
    BY <1>1, <1>8
  <2>4. k = 1
    BY <1>8, <2>2, <2>3
  <2> QED
    BY <1>1, <1>7, <2>3, <2>4
<1>12. ASSUME Fits(s, n) PROVE Body(q) = q
  <2>1. \A i \in 1..N : Place(q, i) = i
    <3> SUFFICES ASSUME NEW i \in 1..N PROVE Place(q, i) = i
      OBVIOUS
    <3>1. \A j \in 1..N : j < i => WireOffset(j) < WireOffset(i)
      BY <1>1, <1>12, OffsetsRise DEF N
    <3>2. \A j \in 1..N : i < j => WireOffset(i) < WireOffset(j)
      BY <1>1, <1>12, OffsetsRise DEF N
    <3>3. \A j \in 1..N : WireOffset(j) \in Nat
      BY WireTypes
    <3>4. UpTo(q, i) = {j \in 1..N : \/ WireOffset(j) < WireOffset(i)
                                     \/ WireOffset(j) = WireOffset(i) /\ j <= i}
      BY <1>4, <1>5 DEF UpTo
    <3>5. \A j \in 1..N : j \in UpTo(q, i) <=> j \in 1..i
      BY <1>1, <3>1, <3>2, <3>3, <3>4
    <3>6. UpTo(q, i) = 1..i
      BY <1>1, <3>4, <3>5
    <3>7. Cardinality(1..i) = i
      BY FS_Interval
    <3> QED
      BY <1>10, <3>6, <3>7
  <2>2. \A k \in 1..N : f[k] = k
    BY <1>7, <1>8, <2>1
  <2>3. \A k \in 1..N : Body(q)[k] = q[k]
    BY <1>7, <2>2
  <2> QED
    BY <1>4, <1>7, <2>3
<1> QED
  BY <1>1, <1>4, <1>7, <1>9, <1>11, <1>12 DEF N, q

\* What waits of source s is of the frame of q, and comes before q.
Earlier(s, q) ==
    \A c \in Counter : \A k \in 1..Len(frags[c]) :
      Owner(frags[c][k]) = s => frags[c][k].num = q.num /\ frags[c][k].idx < q.idx

\* Once s has recovered, what waits is q's frame up to q, and nothing else.
Progress(s, q) ==
    Recovered(s, q.num) =>
      \A c \in Counter :
        IF c = WireCounter(q.num)
        THEN /\ Len(frags[c]) = q.idx - 1
             /\ \A k \in 1..Len(frags[c]) :
                  frags[c][k] = [source |-> s, num |-> q.num, idx |-> k, copy |-> 0]
        ELSE \A k \in 1..Len(frags[c]) : FALSE

\* The counters s has used since it last met another source hold nothing of
\* that source.
Swept(s, q) ==
    \A m \in (since[s] + 1)..(q.num - 1) :
      \A k \in 1..Len(frags[WireCounter(m)]) : Owner(frags[WireCounter(m)][k]) = s

\* The frame before q's is the one published last, if s had recovered.
Shown(s, q) ==
    q.num > 1 /\ Recovered(s, q.num - 1) =>
      shared # << >> /\ shared[1].source = s /\ shared[1].num = q.num - 1

\* The emulator has all that s sent before q.
Awaits(s, q) ==
    /\ q.num \in 1..num[s] /\ q.idx \in Nat \ {0} /\ q.copy = 0
    /\ Earlier(s, q) /\ Progress(s, q) /\ Swept(s, q) /\ Shown(s, q)

FifoInv ==
    ~lossy /\ ~reordering =>
      /\ RunInv
      /\ \A s \in Source : \E q : Comes(net, num, cut, s, 0, q) /\ Awaits(s, q)

\* The parts of a body from one source are of one frame.
OneFrame ==
    ~lossy /\ ~reordering =>
      \A j, k \in 1..Len(shared) :
        Same(shared[j], shared[k]) => shared[j].num = shared[k].num

\* The datagram of one source leaves what the others wait for as it is.
LEMMA AwaitsOther ==
    ASSUME TypeInv, NEW i \in 1..Len(net), Takes(i),
           NEW s \in Source, s # Owner(net[i].part), NEW q, Awaits(s, q)
    PROVE  Awaits(s, q)'
<1>1. since'[s] = num[s] /\ num' = num /\ num[s] \in Nat \ {0}
  BY DEF Takes, TypeInv
<1>2. q.num \in 1..num[s] /\ q.idx \in Nat \ {0} /\ q.copy = 0
  BY DEF Awaits
<1>3. Earlier(s, q)'
  <2> SUFFICES ASSUME NEW c \in Counter, NEW k \in 1..Len(frags'[c]),
                      Owner(frags'[c][k]) = s
               PROVE  frags'[c][k].num = q.num /\ frags'[c][k].idx < q.idx
    BY DEF Earlier
  <2>1. k \in 1..Len(frags[c]) /\ frags'[c][k] = frags[c][k]
    BY DEF Takes, Keeps
  <2> QED
    BY <2>1 DEF Awaits, Earlier
<1>4. Progress(s, q)'
  <2>1. ~(since'[s] = 0 \/ q.num > since'[s] + CounterMod)
    BY <1>1, <1>2, TurboAssumption
  <2> QED
    BY <2>1 DEF Progress, Recovered
<1>5. Swept(s, q)'
  <2>1. \A m \in (since'[s] + 1)..(q.num - 1) : FALSE
    BY <1>1, <1>2
  <2> QED
    BY <2>1 DEF Swept
<1>6. Shown(s, q)'
  <2>1. ~(since'[s] = 0 \/ q.num - 1 > since'[s] + CounterMod)
    BY <1>1, <1>2, TurboAssumption
  <2> QED
    BY <2>1 DEF Shown, Recovered
<1> QED
  BY <1>1, <1>2, <1>3, <1>4, <1>5, <1>6 DEF Awaits

\* With its next fragment a source that has recovered has, under its counter,
\* the frame up to that fragment.
LEMMA FrameJoined ==
    ASSUME TypeInv, NEW i \in 1..Len(net),
           LET p == net[i].part IN Awaits(p.source, p) /\ Recovered(p.source, p.num)
    PROVE  LET p == net[i].part IN
           /\ Len(Joined(i)) = p.idx
           /\ \A k \in 1..p.idx :
                Joined(i)[k] = [source |-> p.source, num |-> p.num, idx |-> k, copy |-> 0]
           /\ LastOf(p) => Joined(i) = Frame(p.source, p.num)
<1> DEFINE p == net[i].part
           c == net[i].counter
<1>0. /\ p.copy = 0
      /\ p = [source |-> p.source, num |-> p.num, idx |-> p.idx, copy |-> p.copy]
  BY CarrierType, FragmentType DEF Awaits
<1>1. /\ p \in Fragment /\ c \in Counter /\ c = WireCounter(p.num)
      /\ p = [source |-> p.source, num |-> p.num, idx |-> p.idx, copy |-> 0]
      /\ p.idx \in Nat \ {0}
  BY <1>0, CarrierType, FragmentType
<1>2. /\ Len(frags[c]) = p.idx - 1
      /\ \A k \in 1..Len(frags[c]) :
           frags[c][k] = [source |-> p.source, num |-> p.num, idx |-> k, copy |-> 0]
  BY <1>1 DEF Awaits, Progress
<1>3. /\ Len(Joined(i)) = Len(frags[c]) + 1 /\ Joined(i) \in Seq(Fragment)
      /\ \A k \in 1..Len(frags[c]) : Joined(i)[k] = frags[c][k]
      /\ Joined(i)[Len(frags[c]) + 1] = p
  BY JoinedType
<1> DEFINE q == Joined(i)
<1> HIDE DEF p, c, q
<1>4. Len(q) = p.idx
  BY <1>1, <1>2, <1>3 DEF q
<1>5. \A k \in 1..p.idx : q[k] = [source |-> p.source, num |-> p.num, idx |-> k, copy |-> 0]
  <2> SUFFICES ASSUME NEW k \in 1..p.idx
               PROVE  q[k] = [source |-> p.source, num |-> p.num, idx |-> k, copy |-> 0]
    OBVIOUS
  <2>1. CASE k = p.idx
    <3>1. q[p.idx] = p
      BY <1>1, <1>2, <1>3 DEF q
    <3> QED
      BY <1>1, <2>1, <3>1
  <2>2. CASE k # p.idx
    <3>1. k \in 1..Len(frags[c])
      BY <1>1, <1>2, <2>2
    <3> QED
      BY <1>2, <1>3, <3>1 DEF q
  <2> QED
    BY <2>1, <2>2
<1>6. ASSUME LastOf(p) PROVE q = Frame(p.source, p.num)
  <2>1. q = [k \in 1..p.idx |-> q[k]]
    BY <1>3, <1>4 DEF q
  <2>2. p.idx = NFrags[p.source][p.num]
    BY <1>6 DEF LastOf
  <2> QED
    BY <1>5, <2>1, <2>2 DEF Frame
<1> QED
  BY <1>4, <1>5, <1>6 DEF p, q

\* A recovered source holds one counter, which the guard leaves alone.
LEMMA GuardAsleep ==
    ASSUME TypeInv, NEW i \in 1..Len(net),
           LET p == net[i].part IN Awaits(p.source, p) /\ Recovered(p.source, p.num)
    PROVE  LET f == [frags EXCEPT ![net[i].counter] = Collected(net[i], Joined(i))]
           IN  Guarded(f) = f
<1> DEFINE c == net[i].counter
           f == [frags EXCEPT ![c] = Collected(net[i], Joined(i))]
<1>1. /\ c \in Counter /\ c = WireCounter(net[i].part.num)
      /\ frags \in [Counter -> Seq(Fragment)]
  BY CarrierType DEF TypeInv
<1>2. \A e \in Counter : e # c => frags[e] = << >>
  <2> SUFFICES ASSUME NEW e \in Counter, e # c PROVE frags[e] = << >>
    OBVIOUS
  <2>1. \A k \in 1..Len(frags[e]) : FALSE
    BY <1>1 DEF Awaits, Progress
  <2>2. frags[e] \in Seq(Fragment)
    BY <1>1
  <2> QED
    BY <2>1, <2>2
<1>3. DOMAIN f = Counter /\ \A e \in Counter : e # c => f[e] = frags[e]
  BY <1>1
<1> HIDE DEF f
<1>4. Pending(f) \in SUBSET {c}
  BY <1>2, <1>3 DEF Pending
<1>5. Cardinality({c}) = 1 /\ IsFiniteSet({c})
  BY FS_Singleton
<1>6. Cardinality(Pending(f)) <= 1 /\ Cardinality(Pending(f)) \in Nat
  BY <1>4, <1>5, FS_Subset, FS_CardinalityType
<1>7. ~(Cardinality(Pending(f)) > MaxPending)
  BY <1>6, TurboAssumption
<1>8. Guarded(f) = f
  BY <1>7 DEF Guarded
<1> QED
  BY <1>8 DEF f

\* The last fragment of a recovered source publishes its frame.
LEMMA FramePublished ==
    ASSUME TypeInv, NEW i \in 1..Len(net), net[i].last,
           shared' \in Published(Body(Joined(i)), net[i].counter),
           LET p == net[i].part IN Awaits(p.source, p) /\ Recovered(p.source, p.num)
    PROVE  LET p == net[i].part IN
           /\ p.source \in Source /\ p.num \in 1..Len(NFrags[p.source])
           /\ shared' = Body(Frame(p.source, p.num))
           /\ shared' # << >>
           /\ shared'[1] = [source |-> p.source, num |-> p.num, idx |-> 1, copy |-> 0]
<1> DEFINE p == net[i].part
           b == Body(Frame(p.source, p.num))
<1>1. /\ p.source \in Source /\ p.num \in 1..Len(NFrags[p.source]) /\ LastOf(p)
      /\ net[i].counter = WireCounter(p.num)
  BY CarrierType, FragmentType
<1>2. Joined(i) = Frame(p.source, p.num)
  BY <1>1, FrameJoined
<1> HIDE DEF p
<1>3. /\ NFrags[p.source][p.num] \in Nat \ {0}
      /\ b[1] = Frame(p.source, p.num)[1]
      /\ b \in Seq(Fragment) /\ Len(b) = NFrags[p.source][p.num]
  BY <1>1, BodyWhole
<1>4. Frame(p.source, p.num)[1] = [source |-> p.source, num |-> p.num, idx |-> 1, copy |-> 0]
  BY <1>3 DEF Frame
<1>5. b # << >>
  BY <1>3
<1>6. shared' \in Published(b, net[i].counter)
  BY <1>2
<1> HIDE DEF b
<1>7. b[1].idx = 1 /\ Seal(b[1].num) = net[i].counter
  BY <1>1, <1>3, <1>4 DEF Seal, WireCounter
<1>8. shared' = b
  BY <1>6, <1>7 DEF Published
<1> QED
  BY <1>1, <1>3, <1>4, <1>5, <1>8 DEF b, p

\* The next fragment of a source leaves the emulator with all of the source
\* before the fragment that follows.
LEMMA AwaitsOwn ==
    ASSUME PlaceInv, NEW i \in 1..Len(net), Takes(i),
           frags' = Guarded([frags EXCEPT ![net[i].counter] =
                                              Collected(net[i], Joined(i))]),
           net[i].last => shared' \in Published(Body(Joined(i)), net[i].counter),
           ~net[i].last => shared' = shared,
           NEW p, p = net[i].part, Awaits(p.source, p)
    PROVE  Awaits(p.source, Follower(p))'
<1> USE DEF PlaceInv
<1> DEFINE c == net[i].counter
           s == p.source
           n == p.num
           r == Follower(p)
<1>1. /\ p \in Fragment /\ c \in Counter /\ c = WireCounter(n) /\ net[i].last = LastOf(p)
      /\ s \in Source /\ n \in Nat \ {0} /\ p.idx \in Nat \ {0}
  BY CarrierType, FragmentType
<1>2. since'[s] = since[s] /\ num' = num /\ num[s] \in Nat /\ since[s] \in Nat
  <2>1. Owner(net[i].part) = s
    BY DEF Awaits, Owner
  <2> QED
    BY <1>1, <2>1 DEF Takes, TypeInv
<1>3. /\ Earlier(s, p) /\ Progress(s, p) /\ Swept(s, p) /\ Shown(s, p)
      /\ n \in 1..num[s]
  BY DEF Awaits
<1>4. \A e \in Counter : \A k \in 1..Len(frags'[e]) :
        /\ ~(e = c /\ net[i].last)
        /\ \/ k \in 1..Len(frags[e]) /\ frags'[e][k] = frags[e][k]
           \/ e = c /\ k = Len(frags[e]) + 1 /\ frags'[e][k] = p
  BY DEF Takes, Keeps
<1>5. \A m : m \in Nat => WireCounter(m) \in Counter
  BY WireTypes
<1>6. CASE ~LastOf(p)
  <2>1. r = [source |-> s, num |-> n, idx |-> p.idx + 1, copy |-> 0]
    BY <1>6 DEF Follower
  <2>2. r.source = s /\ r.num = n /\ r.idx = p.idx + 1 /\ r.copy = 0
    BY <2>1
  <2>3. Recovered(s, n)' => Recovered(s, n)
    BY <1>2 DEF Recovered
  <2>4. Progress(s, r)'
    <3> HIDE DEF r
    <3> SUFFICES ASSUME Recovered(s, r.num)', NEW e \in Counter
                 PROVE  IF e = WireCounter(r.num)
                        THEN /\ Len(frags'[e]) = r.idx - 1
                             /\ \A k \in 1..Len(frags'[e]) :
                                  frags'[e][k] = [source |-> s, num |-> r.num, idx |-> k, copy |-> 0]
                        ELSE \A k \in 1..Len(frags'[e]) : FALSE
      BY DEF Progress
    <3>0. Recovered(s, n) /\ r.idx - 1 = p.idx
      BY <1>1, <1>2, <2>2 DEF Recovered
    <3>1. frags' = [frags EXCEPT ![c] = Collected(net[i], Joined(i))]
      BY <3>0, GuardAsleep
    <3>2. CASE e = c
      <4>1. frags'[e] = Joined(i)
        BY <1>1, <1>6, <3>1, <3>2 DEF Collected, TypeInv
      <4>2. /\ Len(Joined(i)) = p.idx
            /\ \A k \in 1..p.idx :
                 Joined(i)[k] = [source |-> s, num |-> n, idx |-> k, copy |-> 0]
        BY <3>0, FrameJoined
      <4> QED
        BY <1>1, <2>2, <3>0, <3>2, <4>1, <4>2
    <3>3. CASE e # c
      <4>1. frags'[e] = frags[e]
        BY <3>1, <3>3 DEF TypeInv
      <4>2. \A k \in 1..Len(frags[e]) : FALSE
        BY <1>1, <1>3, <3>0, <3>3 DEF Progress
      <4> QED
        BY <1>1, <2>2, <3>3, <4>1, <4>2
    <3> QED
      BY <3>2, <3>3
  <2> HIDE DEF r
  <2>5. Earlier(s, r)'
    <3> SUFFICES ASSUME NEW e \in Counter, NEW k \in 1..Len(frags'[e]),
                        Owner(frags'[e][k]) = s
                 PROVE  frags'[e][k].num = n /\ frags'[e][k].idx < p.idx + 1
      BY <2>2 DEF Earlier
    <3>1. CASE k \in 1..Len(frags[e]) /\ frags'[e][k] = frags[e][k]
      <4>1. frags[e][k] \in Fragment
        BY <3>1 DEF TypeInv
      <4>2. frags[e][k].idx \in Nat
        BY <4>1, FragmentType
      <4>3. frags[e][k].num = n /\ frags[e][k].idx < p.idx
        BY <1>3, <3>1 DEF Earlier
      <4>4. frags[e][k].idx < p.idx + 1
        BY <1>1, <4>2, <4>3
      <4> QED
        BY <3>1, <4>3, <4>4
    <3>2. CASE frags'[e][k] = p
      BY <1>1, <3>2
    <3> QED
      BY <1>4, <3>1, <3>2
  <2>6. Swept(s, r)'
    <3>1. ASSUME NEW m \in (since[s] + 1)..(n - 1),
                 NEW k \in 1..Len(frags'[WireCounter(m)])
          PROVE  Owner(frags'[WireCounter(m)][k]) = s
      <4>1. WireCounter(m) \in Counter
        BY <1>2, <1>5
      <4>2. CASE frags'[WireCounter(m)][k] = p
        BY <4>2 DEF Awaits, Owner
      <4>3. CASE /\ k \in 1..Len(frags[WireCounter(m)])
                 /\ frags'[WireCounter(m)][k] = frags[WireCounter(m)][k]
        BY <1>3, <3>1, <4>3 DEF Swept
      <4> QED
        BY <1>4, <4>1, <4>2, <4>3
    <3>2. \A m \in (since[s] + 1)..(n - 1) :
            \A k \in 1..Len(frags'[WireCounter(m)]) :
              Owner(frags'[WireCounter(m)][k]) = s
      BY <3>1
    <3>3. (since'[s] + 1)..(r.num - 1) = (since[s] + 1)..(n - 1)
      BY <1>2, <2>2
    <3>4. \A m \in (since'[s] + 1)..(r.num - 1) :
            \A k \in 1..Len(frags'[WireCounter(m)]) :
              Owner(frags'[WireCounter(m)][k]) = s
      BY <3>2, <3>3
    <3> QED
      BY <3>4 DEF Swept, Owner
  <2>7. Shown(s, r)'
    <3>1. shared' = shared
      BY <1>1, <1>6
    <3> QED
      BY <1>2, <1>3, <2>2, <3>1 DEF Shown, Recovered
  <2>8. r.num \in 1..num'[s] /\ r.idx \in Nat \ {0} /\ r.copy = 0
    BY <1>1, <1>2, <1>3, <2>2
  <2>9. Awaits(s, r)'
    BY <2>4, <2>5, <2>6, <2>7, <2>8 DEF Awaits
  <2> QED
    BY <2>9 DEF r
<1>7. CASE LastOf(p)
  <2>1. r = [source |-> s, num |-> n + 1, idx |-> 1, copy |-> 0]
    BY <1>7 DEF Follower
  <2>2. r.source = s /\ r.num = n + 1 /\ r.idx = 1 /\ r.copy = 0
    BY <2>1
  <2>3. n < num[s]
    BY <1>1, <1>7, FrameSent
  <2> HIDE DEF r
  <2>4. \A e \in Counter : \A k \in 1..Len(frags'[e]) :
          e # c /\ k \in 1..Len(frags[e]) /\ frags'[e][k] = frags[e][k]
    BY <1>1, <1>4, <1>7
  <2>5. \A e \in Counter : \A k \in 1..Len(frags[e]) :
          Owner(frags[e][k]) = s => frags[e][k].num = n /\ e = c
    BY <1>1, <1>3 DEF Earlier, SentInv
  <2>6. Earlier(s, r)'
    <3> SUFFICES ASSUME NEW e \in Counter, NEW k \in 1..Len(frags'[e]),
                        Owner(frags'[e][k]) = s
                 PROVE  FALSE
      BY DEF Earlier
    <3>1. e # c /\ k \in 1..Len(frags[e]) /\ Owner(frags[e][k]) = s
      BY <2>4
    <3> QED
      BY <2>5, <3>1
  <2>7. Progress(s, r)'
    <3> SUFFICES ASSUME since[s] = 0 \/ n + 1 > since[s] + CounterMod,
                        NEW e \in Counter, NEW k \in 1..Len(frags'[e])
                 PROVE  FALSE
      <4>1. (\A e \in Counter : \A k \in 1..Len(frags'[e]) : FALSE) => Progress(s, r)'
        <5> SUFFICES ASSUME \A e \in Counter : \A k \in 1..Len(frags'[e]) : FALSE
                     PROVE  \A e \in Counter : /\ Len(frags'[e]) = r.idx - 1
                                               /\ \A k \in 1..Len(frags'[e]) : FALSE
          BY DEF Progress
        <5> SUFFICES ASSUME NEW e \in Counter PROVE Len(frags'[e]) = r.idx - 1
          OBVIOUS
        <5>1. Len(frags'[e]) \in Nat
          BY DEF Takes, Keeps
        <5>2. 1 \notin 1..Len(frags'[e])
          OBVIOUS
        <5>3. Len(frags'[e]) = 0
          BY <5>1, <5>2
        <5> QED
          BY <2>2, <5>3
      <4> QED
        BY <1>2, <2>2, <4>1 DEF Progress, Recovered
    <3>1. e # c /\ k \in 1..Len(frags[e])
      BY <2>4
    <3>2. CASE Recovered(s, n)
      BY <1>1, <1>3, <3>1, <3>2 DEF Progress
    <3>3. CASE ~Recovered(s, n)
      <4>1. n <= since[s] + CounterMod /\ n + 1 > since[s] + CounterMod
        BY <1>1, <1>2, <3>3, TurboAssumption DEF Recovered
      <4>2. PICK m \in (since[s] + 1)..(since[s] + CounterMod) : WireCounter(m) = e
        BY <1>2, CounterComesUp
      <4>3. m # n
        BY <1>1, <3>1, <4>2
      <4>4. m \in (since[s] + 1)..(n - 1)
        <5>1. CounterMod \in Nat
          BY TurboAssumption
        <5>2. m \in Int /\ since[s] + 1 <= m /\ m <= since[s] + CounterMod
          BY <1>2, <5>1
        <5> QED
          BY <1>1, <1>2, <4>1, <4>3, <5>1, <5>2
      <4>5. Owner(frags[e][k]) = s
        BY <1>3, <3>1, <4>2, <4>4 DEF Swept
      <4> QED
        BY <2>5, <3>1, <4>5
    <3> QED
      BY <3>2, <3>3
  <2>8. Swept(s, r)'
    <3> SUFFICES ASSUME NEW m \in (since[s] + 1)..n,
                        NEW k \in 1..Len(frags'[WireCounter(m)])
                 PROVE  Owner(frags'[WireCounter(m)][k]) = s
      <4>1. r.num - 1 = n
        BY <1>1, <2>2
      <4> QED
        BY <1>2, <4>1 DEF Swept
    <3>1. WireCounter(m) \in Counter
      BY <1>2, <1>5
    <3>2. /\ WireCounter(m) # c /\ k \in 1..Len(frags[WireCounter(m)])
          /\ frags'[WireCounter(m)][k] = frags[WireCounter(m)][k]
      BY <2>4, <3>1
    <3>3. m \in (since[s] + 1)..(n - 1)
      BY <1>1, <1>2, <3>2
    <3> QED
      BY <1>3, <3>2, <3>3 DEF Swept
  <2>9. Shown(s, r)'
    <3> SUFFICES ASSUME Recovered(s, n)
                 PROVE  shared' # << >> /\ shared'[1].source = s /\ shared'[1].num = n
      <4>1. r.num - 1 = n
        BY <1>1, <2>2
      <4> QED
        BY <1>2, <4>1 DEF Shown, Recovered
    <3>1. /\ shared' # << >>
          /\ shared'[1] = [source |-> s, num |-> n, idx |-> 1, copy |-> 0]
      BY <1>1, <1>7, FramePublished
    <3> QED
      BY <3>1
  <2>10. r.num \in 1..num'[s] /\ r.idx \in Nat \ {0} /\ r.copy = 0
    BY <1>1, <1>2, <2>2, <2>3
  <2>11. Awaits(s, r)'
    BY <2>6, <2>7, <2>8, <2>9, <2>10 DEF Awaits
  <2> QED
    BY <2>11 DEF r
<1> QED
  BY <1>6, <1>7

LEMMA FifoSend ==
    ASSUME TypeInv, RunInv,
           \A s \in Source : \E q : Comes(net, num, cut, s, 0, q) /\ Awaits(s, q),
           NEW t \in Source, SendFragment(t)
    PROVE  /\ RunInv'
           /\ \A s \in Source : \E q : Comes(net', num', cut', s, 0, q) /\ Awaits(s, q)'
<1>1. /\ \A s \in Source : \A a \in 0..Len(net) : \A q :
           Comes(net, num, cut, s, a, q) => Comes(net', num', cut', s, a, q)
      /\ Comes(net', num', cut', t, Len(net'), Follower(UpNext(t)))
  BY ComesAfterSend
<1>2. /\ Len(net') = Len(net) + 1 /\ \A a \in 1..Len(net) : net'[a] = net[a]
      /\ net'[Len(net) + 1].part = UpNext(t)
      /\ \A s \in Source : s # t => num'[s] = num[s]
      /\ num'[t] = num[t] \/ num'[t] = num[t] + 1
      /\ frags' = frags /\ shared' = shared /\ since' = since
  BY Sending
<1>3. Len(net) \in Nat /\ num \in [Source -> Nat \ {0}]
  BY DEF TypeInv
<1>4. RunInv'
  <2> SUFFICES ASSUME NEW a \in 1..Len(net'), net'[a].part.copy = 0
               PROVE  Comes(net', num', cut', net'[a].part.source, a, Follower(net'[a].part))
    BY DEF RunInv
  <2>1. CASE a \in 1..Len(net)
    <3>1. Comes(net, num, cut, net[a].part.source, a, Follower(net[a].part))
      BY <1>2, <2>1 DEF RunInv
    <3>2. net[a].part.source \in Source /\ a \in 0..Len(net)
      BY <1>3, <2>1, CarrierType, FragmentType
    <3>3. Comes(net', num', cut', net[a].part.source, a, Follower(net[a].part))
      BY <1>1, <3>1, <3>2
    <3>4. net'[a] = net[a]
      BY <1>2, <2>1
    <3> QED
      BY <3>3, <3>4
  <2>2. CASE a = Len(net) + 1
    <3>1. net'[a].part = UpNext(t) /\ UpNext(t).source = t /\ a = Len(net')
      BY <1>2, <2>2 DEF UpNext
    <3> QED
      BY <1>1, <3>1
  <2> QED
    BY <1>2, <1>3, <2>1, <2>2
<1>5. ASSUME NEW s \in Source
      PROVE  \E q : Comes(net', num', cut', s, 0, q) /\ Awaits(s, q)'
  <2>1. PICK q : Comes(net, num, cut, s, 0, q) /\ Awaits(s, q)
    OBVIOUS
  <2>2. Comes(net', num', cut', s, 0, q)
    BY <1>1, <1>3, <2>1
  <2>3. q.num \in 1..num'[s] /\ q.idx \in Nat \ {0} /\ q.copy = 0
    <3>1. q.num \in 1..num[s] /\ q.idx \in Nat \ {0} /\ q.copy = 0 /\ num[s] \in Nat
      BY <1>3, <2>1 DEF Awaits
    <3>2. num'[s] = num[s] \/ num'[s] = num[s] + 1
      BY <1>2
    <3> QED
      BY <3>1, <3>2
  <2>4. Earlier(s, q)' /\ Progress(s, q)' /\ Swept(s, q)' /\ Shown(s, q)'
    BY <1>2, <2>1 DEF Awaits, Earlier, Progress, Swept, Shown, Recovered
  <2>5. Awaits(s, q)'
    BY <2>3, <2>4 DEF Awaits
  <2> QED
    BY <2>2, <2>5
<1> QED
  BY <1>4, <1>5

LEMMA FifoTake ==
    ASSUME PlaceInv, RunInv, ~reordering,
           \A s \in Source : \E q : Comes(net, num, cut, s, 0, q) /\ Awaits(s, q),
           Receive
    PROVE  /\ RunInv'
           /\ \A s \in Source : \E q : Comes(net', num', cut', s, 0, q) /\ Awaits(s, q)'
<1> USE DEF PlaceInv
<1>1. PICK i \in 1..Len(net) :
        /\ i \in Deliverable /\ Takes(i)
        /\ frags' = Guarded([frags EXCEPT ![net[i].counter] =
                                              Collected(net[i], Joined(i))])
        /\ net[i].last => shared' \in Published(Body(Joined(i)), net[i].counter)
        /\ ~net[i].last => shared' = shared
  BY Receiving
<1>2. /\ i = 1 /\ Len(net') = Len(net) - 1
      /\ \A a \in 1..Len(net') : a + 1 \in 1..Len(net) /\ net'[a] = net[a + 1]
  BY <1>1, HeadDelivered DEF Takes
<1>3. 1 \in 1..Len(net) /\ Removes(1) /\ UNCHANGED <<num, cut>> /\ Len(net) \in Nat
  BY <1>1, <1>2 DEF Takes, TypeInv
<1>4. /\ \A s : \A a \in 1..Len(net) : \A q :
           Comes(net, num, cut, s, a, q) => Comes(net', num', cut', s, a - 1, q)
      /\ \A s : \A q :
           Comes(net, num, cut, s, 0, q) /\ Owner(net[1].part) # s =>
             Comes(net', num', cut', s, 0, q)
  BY <1>3, ComesAfterTake
<1>5. RunInv'
  <2> SUFFICES ASSUME NEW a \in 1..Len(net'), net'[a].part.copy = 0
               PROVE  Comes(net', num', cut', net'[a].part.source, a, Follower(net'[a].part))
    BY DEF RunInv
  <2>1. a + 1 \in 1..Len(net) /\ net'[a] = net[a + 1] /\ (a + 1) - 1 = a
    BY <1>2, <1>3
  <2>2. Comes(net, num, cut, net[a + 1].part.source, a + 1, Follower(net[a + 1].part))
    BY <2>1 DEF RunInv
  <2>3. Comes(net', num', cut', net[a + 1].part.source, (a + 1) - 1,
              Follower(net[a + 1].part))
    BY <1>4, <2>1, <2>2
  <2> QED
    BY <2>1, <2>3
<1>6. ASSUME NEW s \in Source
      PROVE  \E q : Comes(net', num', cut', s, 0, q) /\ Awaits(s, q)'
  <2>1. PICK q : Comes(net, num, cut, s, 0, q) /\ Awaits(s, q)
    OBVIOUS
  <2>2. CASE s # Owner(net[1].part)
    <3>1. Comes(net', num', cut', s, 0, q)
      BY <1>4, <2>1, <2>2
    <3>2. Awaits(s, q)'
      BY <1>1, <1>2, <2>1, <2>2, AwaitsOther
    <3> QED
      BY <3>1, <3>2
  <2>3. CASE s = Owner(net[1].part)
    <3>1. PICK p : p = net[1].part
      OBVIOUS
    <3>0. p.copy = 0 /\ p.source = s
      BY <2>3, <3>1, Owned
    <3>2. Comes(net, num, cut, s, 0, p)
      <4>1. 1 \in (0 + 1)..Len(net) /\ \A e \in (0 + 1)..(1 - 1) : FALSE
        BY <1>3
      <4> QED
        BY <2>3, <3>1, <4>1 DEF Comes
    <3>3. q = p
      BY <1>3, <2>1, <3>2, ComesOne
    <3>4. Awaits(s, Follower(p))'
      BY <1>1, <1>2, <2>1, <3>0, <3>1, <3>3, AwaitsOwn
    <3>5. Comes(net', num', cut', s, 0, Follower(p))
      <4>1. Comes(net, num, cut, s, 1, Follower(p))
        BY <1>3, <3>0, <3>1 DEF RunInv
      <4>2. Comes(net', num', cut', s, 1 - 1, Follower(p))
        BY <1>3, <1>4, <4>1
      <4> QED
        BY <4>2
    <3> QED
      BY <3>4, <3>5
  <2> QED
    BY <2>2, <2>3
<1> QED
  BY <1>5, <1>6

LEMMA FifoCopy ==
    ASSUME TypeInv, RunInv,
           \A s \in Source : \E q : Comes(net, num, cut, s, 0, q) /\ Awaits(s, q),
           Duplicate
    PROVE  /\ RunInv'
           /\ \A s \in Source : \E q : Comes(net', num', cut', s, 0, q) /\ Awaits(s, q)'
<1>1. PICK i \in 1..Len(net) : Copies(i)
  BY Copying
<1>2. \A s \in Source : \A a \in 0..Len(net) : \A q :
        Comes(net, num, cut, s, a, q) => Comes(net', num', cut', s, a, q)
  BY <1>1, ComesAfterCopy
<1>3. /\ Len(net') = Len(net) + 1
      /\ \A a \in 1..Len(net) : net'[a] = net[a]
      /\ net'[Len(net) + 1].part = Again(i)
      /\ UNCHANGED <<num, cut, frags, shared, since>>
  BY <1>1 DEF Copies
<1>4. Len(net) \in Nat
  BY DEF TypeInv
<1>5. RunInv'
  <2> SUFFICES ASSUME NEW a \in 1..Len(net'), net'[a].part.copy = 0
               PROVE  Comes(net', num', cut', net'[a].part.source, a, Follower(net'[a].part))
    BY DEF RunInv
  <2>1. a # Len(net) + 1
    <3>1. Again(i).copy # 0
      BY DEF TypeInv, Again
    <3> QED
      BY <1>3, <3>1
  <2>2. a \in 1..Len(net) /\ a \in 0..Len(net)
    BY <1>3, <1>4, <2>1
  <2>3. net'[a] = net[a] /\ net[a].part.source \in Source
    BY <1>3, <2>2, CarrierType, FragmentType
  <2>4. Comes(net, num, cut, net[a].part.source, a, Follower(net[a].part))
    BY <2>2, <2>3 DEF RunInv
  <2>5. Comes(net', num', cut', net[a].part.source, a, Follower(net[a].part))
    BY <1>2, <2>2, <2>3, <2>4
  <2> QED
    BY <2>3, <2>5
<1>6. ASSUME NEW s \in Source
      PROVE  \E q : Comes(net', num', cut', s, 0, q) /\ Awaits(s, q)'
  <2>1. PICK q : Comes(net, num, cut, s, 0, q) /\ Awaits(s, q)
    OBVIOUS
  <2>2. Comes(net', num', cut', s, 0, q)
    BY <1>2, <1>4, <2>1
  <2>3. Awaits(s, q)'
    BY <1>3, <2>1 DEF Awaits, Earlier, Progress, Swept, Shown, Recovered
  <2> QED
    BY <2>2, <2>3
<1> QED
  BY <1>5, <1>6

LEMMA FifoStep ==
    ASSUME PlaceInv, FifoInv, [Next]_vars
    PROVE  FifoInv'
<1>1. lossy' = lossy /\ reordering' = reordering
  BY DEF Next, SendFragment, Lose, Duplicate, Receive, vars, network
<1> SUFFICES ASSUME ~lossy, ~reordering
             PROVE  /\ RunInv'
                    /\ \A s \in Source :
                         \E q : Comes(net', num', cut', s, 0, q) /\ Awaits(s, q)'
  BY <1>1 DEF FifoInv
<1>2. RunInv /\ \A s \in Source : \E q : Comes(net, num, cut, s, 0, q) /\ Awaits(s, q)
  BY DEF FifoInv
<1>3. ASSUME NEW t \in Source, SendFragment(t)
      PROVE  /\ RunInv'
             /\ \A s \in Source :
                  \E q : Comes(net', num', cut', s, 0, q) /\ Awaits(s, q)'
  BY <1>2, <1>3, FifoSend DEF PlaceInv
<1>4. CASE Receive
  BY <1>2, <1>4, FifoTake
<1>5. CASE UNCHANGED vars
  <2>1. /\ net' = net /\ num' = num /\ cut' = cut
        /\ frags' = frags /\ shared' = shared /\ since' = since
    BY <1>5 DEF vars
  <2>2. ASSUME NEW s \in Source
        PROVE  \E q : Comes(net', num', cut', s, 0, q) /\ Awaits(s, q)'
    <3>1. PICK q : Comes(net, num, cut, s, 0, q) /\ Awaits(s, q)
      BY <1>2
    <3>2. Awaits(s, q)'
      BY <2>1, <3>1 DEF Awaits, Earlier, Progress, Swept, Shown, Recovered
    <3> QED
      BY <2>1, <3>1, <3>2
  <2> QED
    BY <1>2, <2>1, <2>2 DEF RunInv
<1>6. CASE Duplicate
  BY <1>2, <1>6, FifoCopy DEF PlaceInv
<1> QED
  BY <1>3, <1>4, <1>5, <1>6 DEF Next, Lose

\* The datagram delivered in order is the one awaited, if it is not a copy.
LEMMA AwaitsHead ==
    ASSUME TypeInv, FifoInv, ~lossy, ~reordering,
           NEW i \in 1..Len(net), i \in Deliverable, net[i].part.copy = 0
    PROVE  Awaits(net[i].part.source, net[i].part)
<1> DEFINE p == net[i].part
           s == p.source
<1>1. i = 1 /\ Len(net) \in Nat /\ s \in Source
  <2>1. Len(net) \in Nat
    BY DEF TypeInv
  <2> QED
    BY <2>1, CarrierType, FragmentType DEF Deliverable
<1>2. Comes(net, num, cut, s, 0, p)
  <2>1. 1 \in (0 + 1)..Len(net) /\ \A e \in (0 + 1)..(1 - 1) : FALSE
    BY <1>1
  <2> QED
    BY <1>1, <2>1 DEF Comes, Owner
<1>3. PICK q : Comes(net, num, cut, s, 0, q) /\ Awaits(s, q)
  BY <1>1 DEF FifoInv
<1>4. q = p
  BY <1>1, <1>2, <1>3, ComesOne
<1> QED
  BY <1>3, <1>4

\* Meeting another source ends a recovery, and nothing begins one.
LEMMA RecoveryEnds ==
    ASSUME TypeInv, [Next]_vars, NEW s \in Source, NEW n \in 1..num[s], Recovered(s, n)'
    PROVE  Recovered(s, n) /\ since'[s] = since[s]
<1>1. since'[s] = since[s] \/ since'[s] = num[s]
  <2>1. CASE Receive
    <3>1. PICK i \in 1..Len(net) : Takes(i)
      BY <2>1, Receiving
    <3> QED
      BY <3>1 DEF Takes
  <2> QED
    BY <2>1 DEF Next, SendFragment, Lose, Duplicate, vars
<1>2. num[s] \in Nat \ {0} /\ CounterMod \in Nat
  BY TurboAssumption DEF TypeInv
<1>3. CASE since'[s] = since[s]
  BY <1>3 DEF Recovered
<1>4. CASE since'[s] = num[s]
  BY <1>2, <1>4 DEF Recovered
<1> QED
  BY <1>1, <1>3, <1>4

\* What the body published holds, of the source of the last datagram and of
\* the others.
LEMMA OneFrameJoined ==
    ASSUME PlaceInv, FifoInv, ~lossy, ~reordering,
           NEW i \in 1..Len(net), i \in Deliverable,
           NEW x, From(i, x), NEW y, From(i, y), Same(x, y)
    PROVE  x.num = y.num
<1> USE DEF PlaceInv
<1>1. /\ x \in Fragment /\ net[i].counter \in Counter
      /\ x.source \in Source
  BY FromSent, CarrierType, FragmentType
<1>2. PICK q : Comes(net, num, cut, x.source, 0, q) /\ Awaits(x.source, q)
  BY <1>1 DEF FifoInv
<1>3. Owner(x) = x.source /\ Owner(y) = x.source
  BY DEF Same, Owner
<1>4. CASE Owner(net[i].part) = x.source
  <2>1. net[i].part.copy = 0 /\ net[i].part.source = x.source
    BY <1>1, <1>4, Owned
  <2>2. Awaits(net[i].part.source, net[i].part)
    BY <2>1, AwaitsHead
  <2> QED
    BY <1>1, <1>3, <2>1, <2>2 DEF From, Awaits, Earlier
<1>5. CASE Owner(net[i].part) # x.source
  BY <1>1, <1>2, <1>3, <1>5 DEF From, Awaits, Earlier
<1> QED
  BY <1>4, <1>5

LEMMA WholeStep ==
    ASSUME PlaceInv, FifoInv, OneFrame, WholeFrames, [Next]_vars
    PROVE  OneFrame' /\ WholeFrames'
<1> USE DEF PlaceInv
<1>1. lossy' = lossy /\ reordering' = reordering
  BY DEF Next, SendFragment, Lose, Duplicate, Receive, vars, network
<1> SUFFICES ASSUME ~lossy, ~reordering
             PROVE  OneFrame' /\ WholeFrames'
  BY <1>1 DEF OneFrame, WholeFrames
<1>2. num \in [Source -> Nat \ {0}] /\ shared \in Seq(Fragment)
  BY DEF TypeInv
<1>3. CASE shared' = shared
  <2>1. OneFrame'
    BY <1>1, <1>3 DEF OneFrame
  <2>2. ASSUME NEW k \in 1..Len(shared), Recovered(shared[k].source, shared[k].num)'
        PROVE  Recovered(shared[k].source, shared[k].num)
    <3>1. PICK s, n : s = shared[k].source /\ n = shared[k].num
      OBVIOUS
    <3>2. shared[k] \in Fragment /\ IsSent(shared[k], num, cut)
      BY <1>2 DEF SentInv
    <3>3. s \in Source /\ n \in Nat \ {0} /\ n <= num[s]
      BY <1>2, <3>1, <3>2, FragmentType DEF IsSent
    <3>4. n \in 1..num[s]
      BY <1>2, <3>3
    <3>5. since'[s] = 0 \/ n > since'[s] + CounterMod
      BY <1>3, <2>2, <3>1 DEF Recovered
    <3>6. Recovered(s, n)'
      BY <3>5 DEF Recovered
    <3> QED
      BY <3>1, <3>3, <3>4, <3>6, RecoveryEnds
  <2>3. WholeFrames'
    <3> SUFFICES ASSUME NEW k \in 1..Len(shared),
                        since'[shared[k].source] = 0
                          \/ shared[k].num > since'[shared[k].source] + CounterMod
                 PROVE  LET s == shared[k].source
                            n == shared[k].num
                        IN  /\ ToSet(shared) = ToSet(Frame(s, n))
                            /\ Len(shared) = NFrags[s][n]
                            /\ Fits(s, n) => shared = Frame(s, n)
      BY <1>3 DEF WholeFrames, Recovered, Fits, Frame
    <3>1. Recovered(shared[k].source, shared[k].num)'
      BY <1>3 DEF Recovered
    <3>2. Recovered(shared[k].source, shared[k].num)
      BY <2>2, <3>1
    <3> QED
      BY <3>2 DEF WholeFrames
  <2> QED
    BY <2>1, <2>3
<1>4. CASE shared' # shared
  <2>1. Receive
    BY <1>4 DEF Next, SendFragment, Lose, Duplicate, vars
  <2>2. PICK i \in 1..Len(net) :
          /\ i \in Deliverable /\ Takes(i)
          /\ net[i].last => shared' \in Published(Body(Joined(i)), net[i].counter)
          /\ ~net[i].last => shared' = shared
    BY <2>1, Receiving
  <2>3. /\ net[i].last
        /\ shared' \in Seq(Fragment)
        /\ \A k \in 1..Len(shared') : From(i, shared'[k])
    BY <1>4, <2>2, TakesShared
  <2>4. OneFrame'
    BY <2>2, <2>3, OneFrameJoined DEF OneFrame
  <2>5. PICK p : p = net[i].part
    OBVIOUS
  <2>6. /\ p.copy = 0 => Awaits(p.source, p)
        /\ p.source \in Source /\ p.num \in Nat \ {0}
    BY <2>2, <2>5, AwaitsHead, CarrierType, FragmentType
  <2>7. ASSUME NEW k \in 1..Len(shared'),
               since'[shared'[k].source] = 0
                 \/ shared'[k].num > since'[shared'[k].source] + CounterMod
        PROVE  /\ shared'[k].source = p.source /\ shared'[k].num = p.num
               /\ p.copy = 0 /\ Recovered(p.source, p.num)
    <3>1. PICK x : x = shared'[k]
      OBVIOUS
    <3>2. From(i, x)
      BY <2>3, <3>1
    <3>3. x \in Fragment /\ IsSent(x, num, cut)
      BY <3>2, FromSent
    <3>4. x.source \in Source /\ x.num \in Nat \ {0}
      BY <3>3, FragmentType
    <3>5. x.num \in 1..num[x.source]
      <4>1. num[x.source] \in Nat
        BY <1>2, <3>4
      <4> QED
        BY <3>3, <3>4, <4>1 DEF IsSent
    <3>6. Recovered(x.source, x.num)'
      BY <2>7, <3>1 DEF Recovered
    <3>7. Recovered(x.source, x.num)
      BY <3>4, <3>5, <3>6, RecoveryEnds
    <3>8. x.source = p.source /\ p.copy = 0
      <4>1. since'[x.source] =
              IF x.source = Owner(p) THEN since[x.source] ELSE num[x.source]
        BY <2>2, <2>5, <3>4 DEF Takes
      <4>2. num[x.source] \in Nat \ {0} /\ CounterMod \in Nat
        BY <1>2, <3>4, TurboAssumption
      <4>3. ~(num[x.source] = 0 \/ x.num > num[x.source] + CounterMod)
        BY <3>5, <4>2
      <4>4. Owner(p) = x.source
        BY <2>7, <3>1, <4>1, <4>3
      <4> QED
        BY <3>4, <4>4, Owned
    <3>9. From(i, p)
      BY <2>5 DEF From
    <3>10. x.copy = 0
      <4>1. CASE x = p
        BY <3>8, <4>1
      <4>2. ASSUME NEW m \in 1..Len(frags[net[i].counter]),
                   x = frags[net[i].counter][m], x.copy # 0
            PROVE  FALSE
        <5>1. x.num <= since[x.source]
          BY <4>2, CarrierType DEF CopyInv
        <5>2. since[x.source] \in Nat /\ CounterMod \in Nat
          BY <3>4, TurboAssumption DEF TypeInv
        <5>3. since[x.source] = 0 \/ x.num > since[x.source] + CounterMod
          BY <3>7 DEF Recovered
        <5> QED
          BY <3>4, <5>1, <5>2, <5>3
      <4> QED
        BY <2>5, <3>2, <4>1, <4>2 DEF From
    <3>11. Same(x, p)
      BY <3>8, <3>10 DEF Same
    <3>12. x.num = p.num
      BY <2>2, <3>2, <3>9, <3>11, OneFrameJoined
    <3> QED
      BY <3>1, <3>7, <3>8, <3>12
  <2>8. WholeFrames'
    <3> SUFFICES ASSUME NEW k \in 1..Len(shared'),
                        since'[shared'[k].source] = 0
                          \/ shared'[k].num > since'[shared'[k].source] + CounterMod
                 PROVE  LET s == shared'[k].source
                            n == shared'[k].num
                        IN  /\ ToSet(shared') = ToSet(Frame(s, n))
                            /\ Len(shared') = NFrags[s][n]
                            /\ Fits(s, n) => shared' = Frame(s, n)
      BY DEF WholeFrames, Recovered, Fits, Frame
    <3>1. /\ shared'[k].source = p.source /\ shared'[k].num = p.num
          /\ p.copy = 0 /\ Recovered(p.source, p.num)
      BY <2>7
    <3>2. /\ p.source \in Source /\ p.num \in 1..Len(NFrags[p.source])
          /\ shared' = Body(Frame(p.source, p.num))
      BY <2>2, <2>3, <2>5, <2>6, <3>1, FramePublished
    <3>3. /\ ToSet(shared') = ToSet(Frame(p.source, p.num))
          /\ Len(shared') = NFrags[p.source][p.num]
          /\ Fits(p.source, p.num) => shared' = Frame(p.source, p.num)
      BY <3>2, BodyWhole
    <3> QED
      BY <3>1, <3>3
  <2> QED
    BY <2>4, <2>8
<1> QED
  BY <1>3, <1>4

ForwardInv == InOrder /\ FifoInv /\ OneFrame /\ WholeFrames

\* On a network that neither loses nor overtakes, whatever the hosts send and
\* whatever comes twice, the emulator knows which fragment it gets next from each
\* of them, and collects and publishes what comes before it: the invariant the
\* three theorems below rest on.
THEOREM ForwardInvariance == Spec => []ForwardInv
<1>1. Init => ForwardInv
  <2> SUFFICES ASSUME Init PROVE ForwardInv
    OBVIOUS
  <2>1. PlaceInv
    BY PlaceInit
  <2>2. /\ net = << >> /\ shared = << >> /\ \A c \in Counter : frags[c] = << >>
        /\ num = [s \in Source |-> 1] /\ cut = [s \in Source |-> 0]
    BY DEF Init, Counter
  <2>3. /\ \A a \in 1..Len(net) : FALSE
        /\ \A k \in 1..Len(shared) : FALSE
        /\ \A c \in Counter : \A k \in 1..Len(frags[c]) : FALSE
        /\ \A c \in Counter : Len(frags[c]) = 0
    BY <2>2
  <2>4. InOrder /\ OneFrame /\ WholeFrames /\ RunInv
    BY <2>1, <2>3 DEF InOrder, OrderInv, AloneInv, OneFrame, WholeFrames, RunInv
  <2>5. ASSUME NEW s \in Source
        PROVE  \E q : Comes(net, num, cut, s, 0, q) /\ Awaits(s, q)
    <3> DEFINE q == [source |-> s, num |-> 1, idx |-> 1, copy |-> 0]
    <3>1. num[s] = 1 /\ cut[s] + 1 = 1
      BY <2>2
    <3>2. \A e \in (0 + 1)..Len(net) : FALSE
      BY <2>3
    <3>3. q = [source |-> s, num |-> num[s], idx |-> cut[s] + 1, copy |-> 0]
      BY <3>1
    <3>4. Owner(q) = s /\ q.num = 1 /\ q.idx = 1 /\ q.copy = 0
      BY DEF Owner
    <3> HIDE DEF q
    <3>5. Comes(net, num, cut, s, 0, q)
      BY <3>2, <3>3, <3>4 DEF Comes
    <3>6. Earlier(s, q) /\ Progress(s, q)
      BY <2>3, <3>4 DEF Earlier, Progress
    <3>7. Swept(s, q)
      <4> SUFFICES ASSUME NEW m \in (since[s] + 1)..0 PROVE FALSE
        BY <3>4 DEF Swept
      <4>1. since[s] \in Nat
        BY <2>1 DEF PlaceInv, TypeInv
      <4> QED
        BY <4>1
    <3>8. Shown(s, q)
      BY <3>4 DEF Shown
    <3>9. Awaits(s, q)
      BY <3>1, <3>4, <3>6, <3>7, <3>8 DEF Awaits
    <3> QED
      BY <3>5, <3>9
  <2> QED
    BY <2>4, <2>5 DEF ForwardInv, FifoInv
<1>2. ForwardInv /\ [Next]_vars => PlaceInv'
  BY TypeStep, SentStep, CopyStep, OnceStep, BodyStep DEF ForwardInv, InOrder, PlaceInv
<1>3. ForwardInv /\ [Next]_vars => InOrder'
  BY <1>2, OrderStep, AloneStep DEF ForwardInv, InOrder
<1>4. ForwardInv /\ [Next]_vars => FifoInv' /\ OneFrame' /\ WholeFrames'
  BY FifoStep, WholeStep DEF ForwardInv, InOrder
<1>5. ForwardInv /\ [Next]_vars => ForwardInv'
  BY <1>3, <1>4 DEF ForwardInv
<1> QED
  BY <1>1, <1>5, PTL DEF Spec

\* Without loss and overtaking what is published is a whole frame and nothing
\* else, however often the counter wraps, once what another host, or a datagram
\* that came twice, has left behind is swept away; in order, if its offsets fit.
THEOREM WholeForwarded == Spec => []WholeFrames
<1>1. ForwardInv => WholeFrames
  BY DEF ForwardInv
<1> QED
  BY <1>1, ForwardInvariance, PTL

\* A body never holds parts of two frames of one host: if nothing is lost and
\* neither part is a copy, ever; else within one turn of the counter.
THEOREM OneFrameOnly == Spec => []OneFrameBodies
<1>1. ForwardInv => OneFrameBodies
  <2> SUFFICES ASSUME ForwardInv, ~reordering,
                      NEW i \in 1..Len(shared), NEW j \in 1..Len(shared),
                      shared[i].source = shared[j].source,
                      lossy \/ shared[i].copy > 0 \/ shared[j].copy > 0 =>
                        Max({shared[i].num, shared[j].num}) <= CounterMod
               PROVE  shared[i].num = shared[j].num
    BY DEF OneFrameBodies
  <2>0. shared[i].copy \in Nat /\ shared[j].copy \in Nat
    <3>1. shared[i] \in Fragment /\ shared[j] \in Fragment
      BY DEF ForwardInv, InOrder, PlaceInv, TypeInv
    <3> QED
      BY <3>1, FragmentType
  <2>1. CASE ~(lossy \/ shared[i].copy > 0 \/ shared[j].copy > 0)
    <3>1. Same(shared[i], shared[j])
      BY <2>0, <2>1 DEF Same
    <3> QED
      BY <2>1, <3>1 DEF ForwardInv, OneFrame
  <2>2. CASE lossy \/ shared[i].copy > 0 \/ shared[j].copy > 0
    <3>1. shared[i] \in Fragment /\ shared[j] \in Fragment
      BY DEF ForwardInv, InOrder, PlaceInv, TypeInv
    <3> DEFINE m == shared[i].num
               n == shared[j].num
    <3>2. m \in Nat \ {0} /\ n \in Nat \ {0}
      BY <3>1, FragmentType
    <3>3. WireCounter(m) = WireCounter(n)
      BY DEF ForwardInv, InOrder, PlaceInv, BodyInv
    <3>4. Max({m, n}) <= CounterMod
      BY <2>2
    <3> HIDE DEF m, n
    <3>5. m <= Max({m, n}) /\ n <= Max({m, n}) /\ Max({m, n}) \in Nat
      <4>1. \E x \in {m, n} : \A y \in {m, n} : x >= y
        BY <3>2
      <4>2. Max({m, n}) \in {m, n} /\ \A y \in {m, n} : Max({m, n}) >= y
        BY <4>1 DEF Max
      <4> QED
        BY <3>2, <4>2
    <3>6. m \in 1..CounterMod /\ n \in 1..CounterMod
      BY <3>2, <3>4, <3>5, TurboAssumption
    <3>7. m = n
      BY <3>3, <3>6, CounterTells
    <3> QED
      BY <3>7 DEF m, n
  <2> QED
    BY <2>1, <2>2
<1> QED
  BY <1>1, ForwardInvariance, PTL

\* Without loss and overtaking no frame is left out: whenever nothing is under
\* way the frame a host sent last is the one published, however often the
\* counter has wrapped, once what another host, or a datagram that came twice,
\* has left behind is swept away.
THEOREM LastForwarded == Spec => []AllForwarded
<1>1. ForwardInv => AllForwarded
  <2> SUFFICES ASSUME ForwardInv, ~lossy, ~reordering, net = << >>,
                      NEW s \in Source, cut[s] = 0, num[s] > 1,
                      Recovered(s, num[s] - 1)
               PROVE  /\ shared # << >>
                      /\ shared[1].source = s /\ shared[1].num = num[s] - 1
    BY DEF AllForwarded
  <2>1. PICK q : Comes(net, num, cut, s, 0, q) /\ Awaits(s, q)
    BY DEF ForwardInv, FifoInv
  <2>2. \A b \in (0 + 1)..Len(net) : FALSE
    OBVIOUS
  <2>3. q = [source |-> s, num |-> num[s], idx |-> cut[s] + 1, copy |-> 0]
    BY <2>1, <2>2 DEF Comes
  <2>4. q.num = num[s]
    BY <2>3
  <2> QED
    BY <2>1, <2>4 DEF Awaits, Shown
<1> QED
  BY <1>1, ForwardInvariance, PTL

=============================================================================
