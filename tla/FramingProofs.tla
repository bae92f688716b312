----------------------------- MODULE FramingProofs -----------------------------
(***************************************************************************)
(* Framing, for any number of messages of any sizes, well formed or not,    *)
(* with any bytes between them and reads of any length.                     *)
(***************************************************************************)
EXTENDS Framing, WellFoundedInduction, TLAPS

-----------------------------------------------------------------------------
(* The numbers the model is built from.                                    *)

\* A set of numbers has a least one.
LEMMA Least ==
    ASSUME NEW T, T \subseteq Nat, T # {}
    PROVE  \E x \in T : \A y \in T : x <= y
<1> DEFINE R == OpToRel(<, Nat)
<1>1. IsWellFoundedOn(R, Nat)
  BY NatLessThanWellFounded
<1>2. \A x, y \in Nat : y < x => <<y, x>> \in R
  BY DEF OpToRel
<1> HIDE DEF R
<1>3. PICK x \in T : \A y \in T : ~(<<y, x>> \in R)
  BY <1>1, WFMin
<1>4. \A y \in T : x \in Nat /\ y \in Nat /\ ~(y < x)
  BY <1>2, <1>3
<1>5. \A y \in T : x <= y
  BY <1>4
<1> QED
  BY <1>3, <1>5

LEMMA MinIsLeast ==
    ASSUME NEW T, T \subseteq Nat, T # {}
    PROVE  Min(T) \in T /\ \A y \in T : Min(T) <= y
BY Least DEF Min

\* A message is as long as its header tells, or as its header.
LEMMA WireLenIs ==
    ASSUME NEW m \in 1..MaxMsgs
    PROVE  /\ Sizes[m] \in Nat /\ WireLen(m) \in Nat \ {0}
           /\ ~Malformed(m) => WireLen(m) = Sizes[m]
<1>1. Sizes[m] \in Nat /\ HeaderLen \in Nat \ {0}
  BY FramingAssumption DEF MaxMsgs
<1>2. \E x \in {Sizes[m], HeaderLen} : \A y \in {Sizes[m], HeaderLen} : x >= y
  BY <1>1
<1>3. /\ WireLen(m) \in {Sizes[m], HeaderLen}
      /\ \A y \in {Sizes[m], HeaderLen} : WireLen(m) >= y
  BY <1>2 DEF WireLen, Max
<1> QED
  BY <1>1, <1>3 DEF Malformed

\* Sound counts the messages before the first malformed one.
LEMMA SoundIs ==
    /\ MaxMsgs \in Nat /\ Sound \in 0..MaxMsgs
    /\ \A n \in 0..MaxMsgs : (\A m \in 1..n : ~Malformed(m)) => n <= Sound
<1> DEFINE T == {m \in 1..MaxMsgs : Malformed(m)} \cup {MaxMsgs + 1}
<1>1. MaxMsgs \in Nat
  BY FramingAssumption DEF MaxMsgs
<1>2. T \subseteq Nat /\ T # {}
  BY <1>1
<1>3. Min(T) \in T /\ \A y \in T : Min(T) <= y
  BY <1>2, MinIsLeast
<1>4. Sound = Min(T) - 1
  BY DEF Sound
<1>5. Sound \in 0..MaxMsgs
  BY <1>1, <1>3, <1>4
<1>6. ASSUME NEW n \in 0..MaxMsgs, \A m \in 1..n : ~Malformed(m)
      PROVE  n <= Sound
  <2>1. CASE Min(T) = MaxMsgs + 1
    BY <1>1, <1>4, <2>1
  <2>2. CASE Min(T) \in 1..MaxMsgs /\ Malformed(Min(T))
    <3>1. Min(T) \notin 1..n
      BY <1>6, <2>2
    <3> QED
      BY <1>1, <1>4, <2>2, <3>1
  <2> QED
    BY <1>3, <2>1, <2>2
<1> QED
  BY <1>1, <1>5, <1>6

-----------------------------------------------------------------------------
(* Messages in a stream of bytes.                                          *)

Stray == [msg |-> 0, off |-> 0]

\* In the stream u the messages after the h-th, up to the s-th, are laid out
\* whole and in order, the m-th one after f[m] bytes; all else is stray.
Laid(f, u, h, s) ==
    /\ f \in [(h + 1)..s -> Nat]
    /\ \A m \in (h + 1)..s :
         /\ f[m] + WireLen(m) <= Len(u)
         /\ \A k \in 1..WireLen(m) : u[f[m] + k] = [msg |-> m, off |-> k]
    /\ \A m, n \in (h + 1)..s : m < n => f[m] + WireLen(m) <= f[n]
    /\ \A p \in 1..Len(u) :
         u[p] = Stray \/ \E m \in (h + 1)..s : f[m] < p /\ p <= f[m] + WireLen(m)

\* A message that is written comes last.
LEMMA LaidSent ==
    ASSUME NEW u, Len(u) \in Nat, NEW h \in Nat, NEW s \in Nat, h <= s, s + 1 <= MaxMsgs,
           NEW f, Laid(f, u, h, s),
           NEW v, Len(v) = Len(u) + WireLen(s + 1),
           \A k \in 1..Len(u) : v[k] = u[k],
           \A k \in 1..WireLen(s + 1) : v[Len(u) + k] = [msg |-> s + 1, off |-> k]
    PROVE  \E g : Laid(g, v, h, s + 1)
<1> DEFINE g == [m \in (h + 1)..(s + 1) |-> IF m = s + 1 THEN Len(u) ELSE f[m]]
<1>1. \A m \in (h + 1)..(s + 1) : m \in (h + 1)..s \/ m = s + 1
  OBVIOUS
<1>2. /\ f \in [(h + 1)..s -> Nat]
      /\ \A m \in (h + 1)..s : f[m] + WireLen(m) <= Len(u)
  BY DEF Laid
<1>3. g \in [(h + 1)..(s + 1) -> Nat]
  BY <1>1, <1>2
<1>4. /\ g[s + 1] = Len(u)
      /\ \A m \in (h + 1)..s : g[m] = f[m] /\ f[m] \in Nat
  BY <1>2
<1>5. MaxMsgs \in Nat /\ \A m \in (h + 1)..(s + 1) : WireLen(m) \in Nat \ {0}
  <2>1. MaxMsgs \in Nat
    BY SoundIs
  <2>2. \A m \in (h + 1)..(s + 1) : m \in 1..MaxMsgs
    BY <2>1
  <2> QED
    BY <2>1, <2>2, WireLenIs
<1>6. s + 1 \in (h + 1)..(s + 1)
  OBVIOUS
<1> HIDE DEF g
<1>7. ASSUME NEW m \in (h + 1)..(s + 1)
      PROVE  /\ g[m] + WireLen(m) <= Len(v)
             /\ \A k \in 1..WireLen(m) : v[g[m] + k] = [msg |-> m, off |-> k]
  <2>1. CASE m = s + 1
    <3>1. Len(u) + WireLen(s + 1) <= Len(v)
      BY <1>5, <1>6
    <3> QED
      BY <1>4, <2>1, <3>1
  <2>2. CASE m \in (h + 1)..s
    <3>1. f[m] + WireLen(m) <= Len(u) /\ f[m] \in Nat /\ WireLen(m) \in Nat
      BY <1>2, <1>4, <1>5, <2>2
    <3>2. ASSUME NEW k \in 1..WireLen(m) PROVE v[g[m] + k] = [msg |-> m, off |-> k]
      <4>1. f[m] + k \in 1..Len(u)
        BY <3>1
      <4>2. u[f[m] + k] = [msg |-> m, off |-> k]
        BY <2>2 DEF Laid
      <4> QED
        BY <1>4, <2>2, <4>1, <4>2
    <3>3. WireLen(s + 1) \in Nat
      BY <1>5, <1>6
    <3>4. g[m] + WireLen(m) <= Len(v)
      BY <1>4, <2>2, <3>1, <3>3
    <3> QED
      BY <3>2, <3>4
  <2> QED
    BY <1>1, <2>1, <2>2
<1>8. ASSUME NEW m \in (h + 1)..(s + 1), NEW n \in (h + 1)..(s + 1), m < n
      PROVE  g[m] + WireLen(m) <= g[n]
  <2>1. m \in (h + 1)..s
    BY <1>8
  <2>2. CASE n = s + 1
    BY <1>2, <1>4, <2>1, <2>2
  <2>3. CASE n \in (h + 1)..s
    BY <1>4, <1>8, <2>1, <2>3 DEF Laid
  <2> QED
    BY <1>1, <2>2, <2>3
<1>9. ASSUME NEW p \in 1..Len(v)
      PROVE  \/ v[p] = Stray
             \/ \E m \in (h + 1)..(s + 1) : g[m] < p /\ p <= g[m] + WireLen(m)
  <2>1. CASE p \in 1..Len(u)
    <3>1. CASE u[p] = Stray
      BY <2>1, <3>1
    <3>2. CASE \E m \in (h + 1)..s : f[m] < p /\ p <= f[m] + WireLen(m)
      <4>1. PICK m \in (h + 1)..s : f[m] < p /\ p <= f[m] + WireLen(m)
        BY <3>2
      <4>2. m \in (h + 1)..(s + 1) /\ g[m] = f[m]
        BY <1>4
      <4> QED
        BY <4>1, <4>2
    <3> QED
      BY <2>1, <3>1, <3>2 DEF Laid
  <2>2. CASE p \notin 1..Len(u)
    <3>1. WireLen(s + 1) \in Nat
      BY <1>5, <1>6
    <3>2. Len(u) < p /\ p <= Len(u) + WireLen(s + 1)
      BY <2>2, <3>1
    <3> QED
      BY <1>4, <1>6, <3>2
  <2> QED
    BY <2>1, <2>2
<1>10. Laid(g, v, h, s + 1)
  BY <1>3, <1>7, <1>8, <1>9 DEF Laid
<1> QED
  BY <1>10

\* A stray byte changes nothing for the messages.
LEMMA LaidStray ==
    ASSUME NEW u, Len(u) \in Nat, NEW h \in Nat, NEW s \in Nat, s <= MaxMsgs,
           NEW f, Laid(f, u, h, s),
           NEW v, Len(v) = Len(u) + 1,
           \A k \in 1..Len(u) : v[k] = u[k], v[Len(u) + 1] = Stray
    PROVE  Laid(f, v, h, s)
<1>1. \A m \in (h + 1)..s : f[m] \in Nat /\ WireLen(m) \in Nat
  <2>1. MaxMsgs \in Nat
    BY SoundIs
  <2>2. \A m \in (h + 1)..s : m \in 1..MaxMsgs
    BY <2>1
  <2> QED
    BY <2>2, WireLenIs DEF Laid
<1>2. ASSUME NEW m \in (h + 1)..s
      PROVE  /\ f[m] + WireLen(m) <= Len(v)
             /\ \A k \in 1..WireLen(m) : v[f[m] + k] = [msg |-> m, off |-> k]
  <2>1. f[m] + WireLen(m) <= Len(u) /\ f[m] \in Nat /\ WireLen(m) \in Nat
    BY <1>1 DEF Laid
  <2>2. ASSUME NEW k \in 1..WireLen(m) PROVE v[f[m] + k] = [msg |-> m, off |-> k]
    <3>1. f[m] + k \in 1..Len(u)
      BY <2>1
    <3> QED
      BY <3>1 DEF Laid
  <2> QED
    BY <2>1, <2>2
<1>3. ASSUME NEW p \in 1..Len(v)
      PROVE  \/ v[p] = Stray
             \/ \E m \in (h + 1)..s : f[m] < p /\ p <= f[m] + WireLen(m)
  <2>1. p \in 1..Len(u) \/ p = Len(u) + 1
    OBVIOUS
  <2> QED
    BY <2>1 DEF Laid
<1> QED
  BY <1>2, <1>3 DEF Laid

\* v is u without its first n bytes: with them go the messages up to the j-th,
\* and no byte of the others.
Cuts(f, u, h, s, n, v, j) ==
    /\ Len(u) \in Nat /\ h \in Nat /\ s \in Nat /\ s <= MaxMsgs
    /\ j \in Nat /\ h <= j /\ n \in 0..Len(u)
    /\ \A m \in (j + 1)..s : n <= f[m]
    /\ \A m \in (h + 1)..s : m <= j => f[m] + WireLen(m) <= n
    /\ Len(v) = Len(u) - n
    /\ \A k \in 1..Len(v) : v[k] = u[n + k]

LEMMA LaidCut ==
    ASSUME NEW f, NEW u, NEW h, NEW s, NEW n, NEW v, NEW j,
           Laid(f, u, h, s), Cuts(f, u, h, s, n, v, j)
    PROVE  \E g : Laid(g, v, j, s)
<1>0. /\ Len(u) \in Nat /\ h \in Nat /\ s \in Nat /\ s <= MaxMsgs
      /\ j \in Nat /\ h <= j /\ n \in 0..Len(u)
      /\ \A m \in (j + 1)..s : n <= f[m]
      /\ \A m \in (h + 1)..s : m <= j => f[m] + WireLen(m) <= n
      /\ Len(v) = Len(u) - n
      /\ \A k \in 1..Len(v) : v[k] = u[n + k]
  BY DEF Cuts
<1> USE <1>0
<1> DEFINE g == [m \in (j + 1)..s |-> f[m] - n]
<1>1. \A m \in (h + 1)..s : f[m] \in Nat /\ WireLen(m) \in Nat
  <2>1. MaxMsgs \in Nat
    BY SoundIs
  <2>2. \A m \in (h + 1)..s : m \in 1..MaxMsgs
    BY <2>1
  <2> QED
    BY <2>2, WireLenIs DEF Laid
<1>2. \A m \in (j + 1)..s : m \in (h + 1)..s
  OBVIOUS
<1>3. \A m \in (j + 1)..s : g[m] = f[m] - n /\ f[m] - n \in Nat
  BY <1>1, <1>2
<1>4. g \in [(j + 1)..s -> Nat]
  BY <1>3
<1> HIDE DEF g
<1>5. ASSUME NEW m \in (j + 1)..s
      PROVE  /\ g[m] + WireLen(m) <= Len(v)
             /\ \A k \in 1..WireLen(m) : v[g[m] + k] = [msg |-> m, off |-> k]
  <2>1. /\ f[m] + WireLen(m) <= Len(u) /\ f[m] \in Nat /\ WireLen(m) \in Nat
        /\ g[m] = f[m] - n /\ n <= f[m]
    BY <1>1, <1>2, <1>3 DEF Laid
  <2>2. ASSUME NEW k \in 1..WireLen(m) PROVE v[g[m] + k] = [msg |-> m, off |-> k]
    <3>1. g[m] + k \in 1..Len(v) /\ n + (g[m] + k) = f[m] + k
      BY <2>1
    <3>2. u[f[m] + k] = [msg |-> m, off |-> k]
      BY <1>2 DEF Laid
    <3> QED
      BY <3>1, <3>2
  <2>3. g[m] + WireLen(m) <= Len(v)
    BY <2>1
  <2> QED
    BY <2>2, <2>3
<1>6. ASSUME NEW m \in (j + 1)..s, NEW l \in (j + 1)..s, m < l
      PROVE  g[m] + WireLen(m) <= g[l]
  <2>1. /\ f[m] + WireLen(m) <= f[l]
        /\ f[m] \in Nat /\ f[l] \in Nat /\ WireLen(m) \in Nat
    BY <1>1, <1>2, <1>6 DEF Laid
  <2>2. g[m] = f[m] - n /\ g[l] = f[l] - n
    BY <1>3
  <2> QED
    BY <2>1, <2>2
<1>7. ASSUME NEW p \in 1..Len(v)
      PROVE  \/ v[p] = Stray
             \/ \E m \in (j + 1)..s : g[m] < p /\ p <= g[m] + WireLen(m)
  <2>1. n + p \in 1..Len(u) /\ v[p] = u[n + p]
    OBVIOUS
  <2>2. CASE u[n + p] = Stray
    BY <2>1, <2>2
  <2>3. ASSUME NEW m \in (h + 1)..s, f[m] < n + p, n + p <= f[m] + WireLen(m)
        PROVE  \E l \in (j + 1)..s : g[l] < p /\ p <= g[l] + WireLen(l)
    <3>1. f[m] \in Nat /\ WireLen(m) \in Nat
      BY <1>1
    <3>2. ~(m <= j)
      <4>1. f[m] + WireLen(m) > n
        BY <2>3, <3>1
      <4> QED
        BY <3>1, <4>1
    <3>3. m \in (j + 1)..s
      BY <3>2
    <3>4. g[m] < p /\ p <= g[m] + WireLen(m)
      BY <1>3, <2>3, <3>1, <3>3
    <3> QED
      BY <3>3, <3>4
  <2> QED
    BY <2>1, <2>2, <2>3 DEF Laid
<1>8. Laid(g, v, j, s)
  BY <1>4, <1>5, <1>6, <1>7 DEF Laid
<1> QED
  BY <1>8

\* The first byte of a message, at the front, is that of the next message.
LEMMA LaidHead ==
    ASSUME NEW u, Len(u) \in Nat \ {0}, NEW h \in Nat, NEW s \in Nat, s <= MaxMsgs,
           NEW f, Laid(f, u, h, s)
    PROVE  /\ u[1].off = 1 =>
                h + 1 \in (h + 1)..s /\ f[h + 1] = 0 /\ u[1].msg = h + 1
           /\ u[1].off # 1 => \A m \in (h + 1)..s : 1 <= f[m]
<1>1. \A m \in (h + 1)..s : f[m] \in Nat /\ WireLen(m) \in Nat \ {0}
  <2>1. MaxMsgs \in Nat
    BY SoundIs
  <2>2. \A m \in (h + 1)..s : m \in 1..MaxMsgs
    BY <2>1
  <2> QED
    BY <2>2, WireLenIs DEF Laid
<1>2. \A m \in (h + 1)..s : f[m] = 0 => u[1].msg = m /\ u[1].off = 1
  <2> SUFFICES ASSUME NEW m \in (h + 1)..s, f[m] = 0
               PROVE  u[1].msg = m /\ u[1].off = 1
    OBVIOUS
  <2>1. 1 \in 1..WireLen(m) /\ f[m] + 1 = 1
    BY <1>1
  <2>2. u[1] = [msg |-> m, off |-> 1]
    BY <2>1 DEF Laid
  <2> QED
    BY <2>2
<1>3. ASSUME u[1].off = 1
      PROVE  h + 1 \in (h + 1)..s /\ f[h + 1] = 0 /\ u[1].msg = h + 1
  <2>1. u[1] # Stray
    BY <1>3 DEF Stray
  <2>2. PICK m \in (h + 1)..s : f[m] < 1 /\ 1 <= f[m] + WireLen(m)
    BY <2>1 DEF Laid
  <2>3. f[m] = 0 /\ u[1].msg = m
    BY <1>1, <1>2, <2>2
  <2>4. h + 1 \in (h + 1)..s
    OBVIOUS
  <2>5. m = h + 1
    <3> SUFFICES ASSUME m # h + 1 PROVE FALSE
      OBVIOUS
    <3>1. h + 1 < m
      OBVIOUS
    <3>2. f[h + 1] + WireLen(h + 1) <= f[m]
      BY <2>4, <3>1 DEF Laid
    <3> QED
      BY <1>1, <2>3, <2>4, <3>2
  <2> QED
    BY <2>3, <2>4, <2>5
<1>4. ASSUME u[1].off # 1, NEW m \in (h + 1)..s PROVE 1 <= f[m]
  <2>1. f[m] # 0
    BY <1>2, <1>4
  <2> QED
    BY <1>1, <2>1
<1> QED
  BY <1>3, <1>4

-----------------------------------------------------------------------------
(* The buffer and what is under way.                                       *)

LEMMA Concatenation ==
    ASSUME NEW S, NEW q \in Seq(S), NEW r \in Seq(S)
    PROVE  /\ q \o r \in Seq(S)
           /\ Len(q \o r) = Len(q) + Len(r)
           /\ \A k \in 1..Len(q) : (q \o r)[k] = q[k]
           /\ \A k \in 1..Len(r) : (q \o r)[Len(q) + k] = r[k]
OBVIOUS

\* The bytes of a buffer after the first j, and those under way.
LEMMA RestOf ==
    ASSUME NEW b \in Seq(Byte), NEW j \in 0..Len(b), NEW w \in Seq(Byte)
    PROVE  LET u == SubSeq(b, j + 1, Len(b)) \o w
               l == Len(b) - j
           IN  /\ u \in Seq(Byte) /\ l \in Nat /\ Len(w) \in Nat /\ Len(u) = l + Len(w)
               /\ \A k \in 1..(l + Len(w)) : u[k] = IF k <= l THEN b[j + k] ELSE w[k - l]
<1> DEFINE r == SubSeq(b, j + 1, Len(b))
           l == Len(b) - j
<1>1. r \in Seq(Byte) /\ Len(r) = l /\ \A k \in 1..l : r[k] = b[j + k]
  OBVIOUS
<1>2. l \in Nat /\ Len(w) \in Nat
  OBVIOUS
<1> HIDE DEF r, l
<1>3. /\ r \o w \in Seq(Byte) /\ Len(r \o w) = Len(r) + Len(w)
      /\ \A k \in 1..Len(r) : (r \o w)[k] = r[k]
      /\ \A k \in 1..Len(w) : (r \o w)[Len(r) + k] = w[k]
  <2>1. r \in Seq(Byte) /\ w \in Seq(Byte)
    BY <1>1
  <2> QED
    BY <2>1, Concatenation
<1>4. ASSUME NEW k \in 1..(l + Len(w))
      PROVE  (r \o w)[k] = IF k <= l THEN b[j + k] ELSE w[k - l]
  <2>1. CASE k <= l
    <3>1. k \in 1..l
      BY <1>2, <2>1
    <3>2. (r \o w)[k] = r[k]
      BY <1>1, <1>3, <3>1
    <3> QED
      BY <1>1, <2>1, <3>1, <3>2
  <2>2. CASE ~(k <= l)
    <3>1. k - l \in 1..Len(w) /\ Len(r) + (k - l) = k
      BY <1>1, <1>2, <2>2
    <3>2. (r \o w)[k] = w[k - l]
      BY <1>3, <3>1
    <3> QED
      BY <2>2, <3>2
  <2> QED
    BY <2>1, <2>2
<1> QED
  BY <1>1, <1>2, <1>3, <1>4 DEF r, l

TypeInv ==
    /\ sent \in 0..MaxMsgs
    /\ wire \in Seq(Byte) /\ buf \in Seq(Byte)
    /\ i \in 0..Len(buf)
    /\ pc = "read" => i = 0
    /\ handled \in Seq(Nat)

\* The first messages are handled, all of them well formed.
HandledInv ==
    /\ Len(handled) <= sent
    /\ \A k \in 1..Len(handled) : handled[k] = k /\ ~Malformed(k)

\* The others are in the buffer and under way.
StreamInv == \E f : Laid(f, Unhandled, Len(handled), sent)

StreamedInv == TypeInv /\ HandledInv /\ StreamInv

LEMMA SendMessageStep ==
    ASSUME StreamedInv, SendMessage
    PROVE  StreamedInv'
<1> DEFINE s == sent + 1
           a == [k \in 1..WireLen(s) |-> [msg |-> s, off |-> k]]
<1>1. /\ s \in 1..MaxMsgs /\ sent \in Nat /\ sent' = s /\ wire' = wire \o a
      /\ buf' = buf /\ i' = i /\ pc' = pc /\ handled' = handled
  BY SoundIs DEF SendMessage, StreamedInv, TypeInv
<1>2. WireLen(s) \in Nat \ {0} /\ MaxMsgs \in Nat
  BY <1>1, WireLenIs, SoundIs
<1>3. a \in Seq(Byte) /\ Len(a) = WireLen(s)
  <2>1. \A k \in 1..WireLen(s) : [msg |-> s, off |-> k] \in Byte
    BY <1>1, <1>2 DEF Byte
  <2> QED
    BY <1>2, <2>1
<1>4. \A k \in 1..WireLen(s) : a[k] = [msg |-> s, off |-> k]
  OBVIOUS
<1> HIDE DEF a
<1>5. TypeInv'
  BY <1>1, <1>2, <1>3 DEF StreamedInv, TypeInv
<1>6. HandledInv'
  <2>1. Len(handled) \in Nat
    BY DEF StreamedInv, TypeInv
  <2> QED
    BY <1>1, <2>1 DEF StreamedInv, HandledInv
<1>7. StreamInv'
  <2> DEFINE u == Unhandled
             v == Unhandled'
             l == Len(buf) - i
  <2>1. /\ l \in Nat /\ Len(wire) \in Nat /\ Len(u) = l + Len(wire)
        /\ \A k \in 1..(l + Len(wire)) : u[k] = IF k <= l THEN buf[i + k] ELSE wire[k - l]
    BY RestOf DEF StreamedInv, TypeInv, Unhandled
  <2>2. /\ Len(v) = l + Len(wire')
        /\ \A k \in 1..(l + Len(wire')) :
             v[k] = IF k <= l THEN buf[i + k] ELSE wire'[k - l]
    <3>1. v = SubSeq(buf, i + 1, Len(buf)) \o wire'
      BY <1>1 DEF Unhandled
    <3>2. wire' \in Seq(Byte) /\ buf \in Seq(Byte) /\ i \in 0..Len(buf)
      BY <1>5 DEF StreamedInv, TypeInv
    <3> HIDE DEF v
    <3> QED
      BY <3>1, <3>2, RestOf
  <2>3. /\ Len(wire') = Len(wire) + WireLen(s)
        /\ \A k \in 1..Len(wire) : wire'[k] = wire[k]
        /\ \A k \in 1..WireLen(s) : wire'[Len(wire) + k] = a[k]
    <3>1. wire \in Seq(Byte)
      BY DEF StreamedInv, TypeInv
    <3>2. wire \o a = wire'
      BY <1>1
    <3>3. /\ Len(wire \o a) = Len(wire) + Len(a)
          /\ \A k \in 1..Len(wire) : (wire \o a)[k] = wire[k]
          /\ \A k \in 1..Len(a) : (wire \o a)[Len(wire) + k] = a[k]
      BY <1>3, <3>1
    <3> QED
      BY <1>3, <3>2, <3>3
  <2> HIDE DEF u, v, l
  <2>4. Len(u) \in Nat /\ Len(v) = Len(u) + WireLen(s)
    BY <1>2, <2>1, <2>2, <2>3
  <2>5. ASSUME NEW k \in 1..Len(u) PROVE v[k] = u[k]
    <3>1. k \in 1..(l + Len(wire)) /\ k \in 1..(l + Len(wire'))
      BY <1>2, <2>1, <2>3
    <3>2. ~(k <= l) => k - l \in 1..Len(wire)
      BY <2>1, <3>1
    <3> QED
      BY <2>1, <2>2, <2>3, <3>1, <3>2
  <2>6. ASSUME NEW k \in 1..WireLen(s) PROVE v[Len(u) + k] = [msg |-> s, off |-> k]
    <3>1. /\ Len(u) + k \in 1..(l + Len(wire')) /\ ~(Len(u) + k <= l)
          /\ (Len(u) + k) - l = Len(wire) + k
      BY <1>2, <2>1, <2>3
    <3>2. v[Len(u) + k] = wire'[Len(wire) + k]
      BY <2>2, <3>1
    <3> QED
      BY <1>4, <2>3, <3>2
  <2>7. PICK f : Laid(f, u, Len(handled), sent)
    BY DEF StreamedInv, StreamInv, u
  <2>8. Len(handled) \in Nat /\ Len(handled) <= sent
    BY DEF StreamedInv, TypeInv, HandledInv
  <2>9. sent + 1 <= MaxMsgs /\ sent \in Nat
    BY <1>1, <1>2
  <2>10. \E g : Laid(g, v, Len(handled), sent + 1)
    BY <2>4, <2>5, <2>6, <2>7, <2>8, <2>9, LaidSent
  <2> QED
    BY <1>1, <2>10 DEF StreamInv, v
<1> QED
  BY <1>5, <1>6, <1>7 DEF StreamedInv

LEMMA SendStrayStep ==
    ASSUME StreamedInv, SendStray
    PROVE  StreamedInv'
<1>1. /\ sent' = sent /\ wire' = Append(wire, Stray) /\ wire \in Seq(Byte)
      /\ buf' = buf /\ i' = i /\ pc' = pc /\ handled' = handled
  BY DEF SendStray, StreamedInv, TypeInv, Stray
<1>2. Stray \in Byte /\ MaxMsgs \in Nat
  BY SoundIs DEF Stray, Byte
<1>3. TypeInv'
  <2>1. wire' \in Seq(Byte)
    BY <1>1, <1>2
  <2> QED
    BY <1>1, <2>1 DEF StreamedInv, TypeInv
<1>4. HandledInv'
  BY <1>1 DEF StreamedInv, HandledInv
<1>5. StreamInv'
  <2> DEFINE u == Unhandled
             v == Unhandled'
             l == Len(buf) - i
  <2>1. /\ l \in Nat /\ Len(wire) \in Nat /\ Len(u) = l + Len(wire)
        /\ \A k \in 1..(l + Len(wire)) : u[k] = IF k <= l THEN buf[i + k] ELSE wire[k - l]
    BY RestOf DEF StreamedInv, TypeInv, Unhandled
  <2>2. /\ Len(v) = l + Len(wire')
        /\ \A k \in 1..(l + Len(wire')) :
             v[k] = IF k <= l THEN buf[i + k] ELSE wire'[k - l]
    <3>1. v = SubSeq(buf, i + 1, Len(buf)) \o wire'
      BY <1>1 DEF Unhandled
    <3>2. wire' \in Seq(Byte) /\ buf \in Seq(Byte) /\ i \in 0..Len(buf)
      BY <1>3 DEF StreamedInv, TypeInv
    <3> HIDE DEF v
    <3> QED
      BY <3>1, <3>2, RestOf
  <2>3. /\ Len(wire') = Len(wire) + 1
        /\ \A k \in 1..Len(wire) : wire'[k] = wire[k]
        /\ wire'[Len(wire) + 1] = Stray
    BY <1>1
  <2> HIDE DEF u, v, l
  <2>4. Len(u) \in Nat /\ Len(v) = Len(u) + 1
    BY <2>1, <2>2, <2>3
  <2>5. ASSUME NEW k \in 1..Len(u) PROVE v[k] = u[k]
    <3>1. k \in 1..(l + Len(wire)) /\ k \in 1..(l + Len(wire'))
      BY <2>1, <2>3
    <3>2. ~(k <= l) => k - l \in 1..Len(wire)
      BY <2>1, <3>1
    <3> QED
      BY <2>1, <2>2, <2>3, <3>1, <3>2
  <2>6. v[Len(u) + 1] = Stray
    <3>1. /\ Len(u) + 1 \in 1..(l + Len(wire')) /\ ~(Len(u) + 1 <= l)
          /\ (Len(u) + 1) - l = Len(wire) + 1
      BY <2>1, <2>3
    <3> QED
      BY <2>2, <2>3, <3>1
  <2>7. PICK f : Laid(f, u, Len(handled), sent)
    BY DEF StreamedInv, StreamInv, u
  <2>8. Len(handled) \in Nat /\ sent \in Nat /\ sent <= MaxMsgs
    BY <1>2 DEF StreamedInv, TypeInv
  <2>9. Laid(f, v, Len(handled), sent)
    BY <2>4, <2>5, <2>6, <2>7, <2>8, LaidStray
  <2> QED
    BY <1>1, <2>9 DEF StreamInv, v
<1> QED
  BY <1>3, <1>4, <1>5 DEF StreamedInv

\* When all of the buffer is to be dealt with.
LEMMA RestOfAll ==
    ASSUME NEW b \in Seq(Byte), NEW w \in Seq(Byte)
    PROVE  LET u == SubSeq(b, 0 + 1, Len(b)) \o w
           IN  /\ Len(u) = Len(b) + Len(w)
               /\ \A k \in 1..(Len(b) + Len(w)) :
                    u[k] = IF k <= Len(b) THEN b[k] ELSE w[k - Len(b)]
<1> DEFINE u == SubSeq(b, 0 + 1, Len(b)) \o w
<1>1. Len(b) \in Nat /\ Len(w) \in Nat /\ 0 \in 0..Len(b) /\ Len(b) - 0 = Len(b)
  OBVIOUS
<1>2. /\ Len(u) = (Len(b) - 0) + Len(w)
      /\ \A k \in 1..((Len(b) - 0) + Len(w)) :
           u[k] = IF k <= Len(b) - 0 THEN b[0 + k] ELSE w[k - (Len(b) - 0)]
  BY <1>1, RestOf
<1> HIDE DEF u
<1>3. /\ Len(u) = Len(b) + Len(w)
      /\ \A k \in 1..(Len(b) + Len(w)) :
           u[k] = IF k <= Len(b) THEN b[0 + k] ELSE w[k - Len(b)]
  BY <1>1, <1>2
<1>4. \A k \in 1..(Len(b) + Len(w)) : 0 + k = k
  BY <1>1
<1> QED
  BY <1>3, <1>4 DEF u

\* The serving thread moves bytes from the wire to the buffer, and cuts off
\* the first n of them.
LEMMA ServeMoves ==
    ASSUME TypeInv, TypeInv', NEW f, Laid(f, Unhandled, Len(handled), sent),
           sent' = sent,
           NEW n \in 0..Len(Unhandled), Len(Unhandled') = Len(Unhandled) - n,
           \A k \in 1..Len(Unhandled') : Unhandled'[k] = Unhandled[n + k],
           Len(handled) <= Len(handled'),
           \A m \in (Len(handled') + 1)..sent : n <= f[m],
           \A m \in (Len(handled) + 1)..sent :
             m <= Len(handled') => f[m] + WireLen(m) <= n
    PROVE  StreamInv'
<1>1. /\ Len(handled) \in Nat /\ Len(handled') \in Nat /\ sent \in Nat /\ sent <= MaxMsgs
  BY SoundIs DEF TypeInv
<1>2. Len(Unhandled) \in Nat
  BY RestOf DEF TypeInv, Unhandled
<1>3. Cuts(f, Unhandled, Len(handled), sent, n, Unhandled', Len(handled'))
  BY <1>1, <1>2 DEF Cuts
<1>4. \E g : Laid(g, Unhandled', Len(handled'), sent)
  BY <1>3, LaidCut
<1> QED
  BY <1>4 DEF StreamInv

\* A read, a drain or a skip: the bytes stay, or lose those before the next.
LEMMA ReadStep ==
    ASSUME StreamedInv, Read
    PROVE  StreamedInv'
<1>1. PICK n \in 1..Len(wire) :
        /\ buf' = buf \o SubSeq(wire, 1, n)
        /\ wire' = SubSeq(wire, n + 1, Len(wire))
  BY DEF Read
<1>2. /\ i = 0 /\ i' = 0 /\ pc' = "extract"
      /\ sent' = sent /\ handled' = handled
      /\ wire \in Seq(Byte) /\ buf \in Seq(Byte)
  BY DEF Read, StreamedInv, TypeInv
<1> DEFINE a == SubSeq(wire, 1, n)
<1>3. a \in Seq(Byte) /\ Len(a) = n /\ \A k \in 1..n : a[k] = wire[k]
  BY <1>2
<1>4. /\ wire' \in Seq(Byte) /\ Len(wire') = Len(wire) - n
      /\ \A k \in 1..(Len(wire) - n) : wire'[k] = wire[n + k]
  BY <1>1, <1>2
<1>5. buf' = buf \o a
  BY <1>1
<1> HIDE DEF a
<1>6. /\ buf' \in Seq(Byte) /\ Len(buf') = Len(buf) + n
      /\ \A k \in 1..Len(buf) : buf'[k] = buf[k]
      /\ \A k \in 1..n : buf'[Len(buf) + k] = wire[k]
  <2>1. a \in Seq(Byte) /\ buf \in Seq(Byte)
    BY <1>2, <1>3
  <2>2. /\ buf \o a \in Seq(Byte) /\ Len(buf \o a) = Len(buf) + Len(a)
        /\ \A k \in 1..Len(buf) : (buf \o a)[k] = buf[k]
        /\ \A k \in 1..Len(a) : (buf \o a)[Len(buf) + k] = a[k]
    BY <2>1, Concatenation
  <2> QED
    BY <1>3, <1>5, <2>2
<1>7. n \in Nat /\ Len(wire) \in Nat /\ Len(buf) \in Nat /\ n <= Len(wire)
  BY <1>2
<1>8. TypeInv'
  BY <1>2, <1>4, <1>6, <1>7 DEF StreamedInv, TypeInv
<1>9. HandledInv'
  BY <1>2 DEF StreamedInv, HandledInv
<1>10. /\ Len(Unhandled) = Len(buf) + Len(wire)
       /\ \A k \in 1..(Len(buf) + Len(wire)) :
            Unhandled[k] = IF k <= Len(buf) THEN buf[k] ELSE wire[k - Len(buf)]
  <2>1. Unhandled = SubSeq(buf, 0 + 1, Len(buf)) \o wire
    BY <1>2 DEF Unhandled
  <2> QED
    BY <1>2, <2>1, RestOfAll
<1>11. /\ Len(Unhandled') = Len(buf') + Len(wire')
       /\ \A k \in 1..(Len(buf') + Len(wire')) :
            Unhandled'[k] = IF k <= Len(buf') THEN buf'[k] ELSE wire'[k - Len(buf')]
  <2>1. Unhandled' = SubSeq(buf', 0 + 1, Len(buf')) \o wire'
    BY <1>2 DEF Unhandled
  <2> QED
    BY <1>4, <1>6, <2>1, RestOfAll
<1>12. /\ Len(Unhandled') = Len(Unhandled) - 0
       /\ \A k \in 1..Len(Unhandled') : Unhandled'[k] = Unhandled[0 + k]
  <2>1. Len(Unhandled') = Len(Unhandled) /\ Len(Unhandled) = Len(buf) + Len(wire)
    BY <1>4, <1>6, <1>7, <1>10, <1>11
  <2>2. ASSUME NEW k \in 1..Len(Unhandled') PROVE Unhandled'[k] = Unhandled[k]
    <3>1. k \in 1..(Len(buf) + Len(wire)) /\ k \in 1..(Len(buf') + Len(wire'))
      BY <1>11, <2>1
    <3>2. CASE k <= Len(buf)
      <4>1. k \in 1..Len(buf) /\ k <= Len(buf')
        BY <1>6, <1>7, <3>2
      <4> QED
        BY <1>6, <1>10, <1>11, <3>1, <3>2, <4>1
    <3>3. CASE ~(k <= Len(buf)) /\ k <= Len(buf')
      <4>1. k - Len(buf) \in 1..n /\ Len(buf) + (k - Len(buf)) = k
        BY <1>6, <1>7, <3>3
      <4>2. buf'[k] = wire[k - Len(buf)]
        BY <1>6, <4>1
      <4> QED
        BY <1>10, <1>11, <3>1, <3>3, <4>2
    <3>4. CASE ~(k <= Len(buf'))
      <4>1. /\ k - Len(buf') \in 1..(Len(wire) - n) /\ n + (k - Len(buf')) = k - Len(buf)
            /\ ~(k <= Len(buf))
        BY <1>6, <1>7, <3>1, <3>4
      <4>2. wire'[k - Len(buf')] = wire[k - Len(buf)]
        BY <1>4, <4>1
      <4> QED
        BY <1>10, <1>11, <3>1, <3>4, <4>1, <4>2
    <3> QED
      BY <3>2, <3>3, <3>4
  <2>3. \A k \in 1..Len(Unhandled') : 0 + k = k
    OBVIOUS
  <2>4. Len(Unhandled) - 0 = Len(Unhandled)
    BY <1>7, <2>1
  <2> QED
    BY <2>1, <2>2, <2>3, <2>4
<1>13. PICK f : Laid(f, Unhandled, Len(handled), sent)
  BY DEF StreamedInv, StreamInv
<1>14. StreamInv'
  <2>1. 0 \in 0..Len(Unhandled) /\ Len(handled) \in Nat
    BY <1>7, <1>10 DEF StreamedInv, TypeInv
  <2>2. \A m \in (Len(handled') + 1)..sent : 0 <= f[m]
    BY <1>2, <1>13 DEF Laid
  <2>3. \A m \in (Len(handled) + 1)..sent : ~(m <= Len(handled'))
    BY <1>2, <2>1
  <2>4. Len(handled) <= Len(handled')
    BY <1>2, <2>1
  <2> QED
    BY <1>2, <1>8, <1>12, <1>13, <2>1, <2>2, <2>3, <2>4, ServeMoves DEF StreamedInv
<1> QED
  BY <1>8, <1>9, <1>14 DEF StreamedInv

\* Dealing with n bytes of the buffer.
LEMMA Advances ==
    ASSUME TypeInv, NEW n \in Nat, i + n <= Len(buf),
           i' = i + n, buf' = buf, wire' = wire
    PROVE  /\ n \in 0..Len(Unhandled)
           /\ Len(Unhandled') = Len(Unhandled) - n
           /\ \A k \in 1..Len(Unhandled') : Unhandled'[k] = Unhandled[n + k]
<1> DEFINE l == Len(buf) - i
           l2 == Len(buf) - (i + n)
           u == Unhandled
           v == Unhandled'
<1>1. /\ wire \in Seq(Byte) /\ buf \in Seq(Byte) /\ i \in 0..Len(buf) /\ i \in Nat
      /\ Len(buf) \in Nat /\ Len(wire) \in Nat /\ i + n \in 0..Len(buf)
  BY DEF TypeInv
<1>2. /\ Len(u) = l + Len(wire)
      /\ \A k \in 1..(l + Len(wire)) : u[k] = IF k <= l THEN buf[i + k] ELSE wire[k - l]
  BY <1>1, RestOf DEF Unhandled
<1>3. v = SubSeq(buf, (i + n) + 1, Len(buf)) \o wire
  BY DEF Unhandled
<1> HIDE DEF u, v
<1>4. /\ Len(v) = l2 + Len(wire)
      /\ \A k \in 1..(l2 + Len(wire)) :
           v[k] = IF k <= l2 THEN buf[(i + n) + k] ELSE wire[k - l2]
  BY <1>1, <1>3, RestOf
<1>5. l2 = l - n /\ l \in Nat /\ l2 \in Nat
  BY <1>1
<1> HIDE DEF l, l2
<1>6. ASSUME NEW k \in 1..Len(v) PROVE v[k] = u[n + k]
  <2>1. k \in 1..(l2 + Len(wire)) /\ n + k \in 1..(l + Len(wire))
    BY <1>1, <1>4, <1>5
  <2>2. (k <= l2 <=> n + k <= l) /\ (i + n) + k = i + (n + k) /\ k - l2 = (n + k) - l
    BY <1>1, <1>5, <2>1
  <2> QED
    BY <1>2, <1>4, <2>1, <2>2
<1>7. n \in 0..Len(u) /\ Len(v) = Len(u) - n
  BY <1>1, <1>2, <1>4, <1>5
<1> QED
  BY <1>6, <1>7 DEF u, v

\* The byte the loop looks at is the first one unhandled.
LEMMA FirstByte ==
    ASSUME TypeInv, HasHeader
    PROVE  Len(Unhandled) \in Nat \ {0} /\ Unhandled[1] = buf[i + 1]
<1> DEFINE l == Len(buf) - i
<1>1. /\ wire \in Seq(Byte) /\ buf \in Seq(Byte) /\ i \in 0..Len(buf) /\ i \in Nat
      /\ Len(buf) \in Nat /\ Len(wire) \in Nat
  BY DEF TypeInv
<1>2. l \in Nat \ {0}
  BY <1>1, FramingAssumption DEF HasHeader
<1>3. /\ Len(Unhandled) = l + Len(wire)
      /\ \A k \in 1..(l + Len(wire)) :
           Unhandled[k] = IF k <= l THEN buf[i + k] ELSE wire[k - l]
  BY <1>1, RestOf DEF Unhandled
<1> HIDE DEF l
<1>4. 1 \in 1..(l + Len(wire)) /\ 1 <= l
  BY <1>1, <1>2
<1> QED
  BY <1>1, <1>2, <1>3, <1>4

LEMMA ResyncStep ==
    ASSUME StreamedInv, Resync
    PROVE  StreamedInv'
<1>1. /\ HasHeader /\ buf[i + 1].off # 1 /\ i' = i + 1 /\ pc' = pc /\ pc # "read"
      /\ sent' = sent /\ handled' = handled /\ buf' = buf /\ wire' = wire
  BY DEF Resync, AtMagic
<1>2. i + 1 <= Len(buf) /\ i \in Nat /\ Len(buf) \in Nat /\ Len(handled) \in Nat
  BY <1>1, FramingAssumption DEF HasHeader, StreamedInv, TypeInv
<1>3. TypeInv'
  BY <1>1, <1>2 DEF StreamedInv, TypeInv
<1>4. HandledInv'
  BY <1>1 DEF StreamedInv, HandledInv
<1>5. PICK f : Laid(f, Unhandled, Len(handled), sent)
  BY DEF StreamedInv, StreamInv
<1>6. \A m \in (Len(handled) + 1)..sent : 1 <= f[m]
  <2>1. Len(Unhandled) \in Nat \ {0} /\ Unhandled[1].off # 1
    BY <1>1, FirstByte DEF StreamedInv
  <2>2. sent \in Nat /\ sent <= MaxMsgs
    BY SoundIs DEF StreamedInv, TypeInv
  <2> QED
    BY <1>2, <1>5, <2>1, <2>2, LaidHead
<1>7. /\ 1 \in 0..Len(Unhandled)
      /\ Len(Unhandled') = Len(Unhandled) - 1
      /\ \A k \in 1..Len(Unhandled') : Unhandled'[k] = Unhandled[1 + k]
  BY <1>1, <1>2, Advances DEF StreamedInv
<1>8. /\ \A m \in (Len(handled') + 1)..sent : 1 <= f[m]
      /\ \A m \in (Len(handled) + 1)..sent : ~(m <= Len(handled'))
      /\ Len(handled) <= Len(handled')
  BY <1>1, <1>2, <1>6
<1>9. StreamInv'
  BY <1>1, <1>3, <1>5, <1>7, <1>8, ServeMoves DEF StreamedInv
<1> QED
  BY <1>3, <1>4, <1>9 DEF StreamedInv

\* What is given to handle_msg is the next message, complete and well formed.
LEMMA ExtractsNext ==
    ASSUME StreamedInv, Extract
    PROVE  LET h == Len(handled) IN
           /\ h \in Nat /\ h + 1 \in 1..MaxMsgs /\ h + 1 <= sent /\ ~Malformed(h + 1)
           /\ handled' = Append(handled, h + 1)
           /\ i' = i + WireLen(h + 1) /\ i + WireLen(h + 1) <= Len(buf)
           /\ \E f : Laid(f, Unhandled, h, sent) /\ f[h + 1] = 0
<1> DEFINE h == Len(handled)
<1>1. /\ HasHeader /\ buf[i + 1].off = 1
      /\ handled' = Append(handled, buf[i + 1].msg)
      /\ i' = i + Sizes[buf[i + 1].msg]
      /\ Sizes[buf[i + 1].msg] >= HeaderLen
      /\ i + Sizes[buf[i + 1].msg] <= Len(buf)
  BY DEF Extract, AtMagic, Complete, Size
<1>2. PICK f : Laid(f, Unhandled, h, sent)
  BY DEF StreamedInv, StreamInv
<1>3. Len(Unhandled) \in Nat \ {0} /\ Unhandled[1] = buf[i + 1]
  BY <1>1, FirstByte DEF StreamedInv
<1>4. h \in Nat /\ sent \in Nat /\ sent <= MaxMsgs /\ MaxMsgs \in Nat
  BY SoundIs DEF StreamedInv, TypeInv
<1>5. h + 1 \in (h + 1)..sent /\ f[h + 1] = 0 /\ buf[i + 1].msg = h + 1
  BY <1>1, <1>2, <1>3, <1>4, LaidHead
<1> HIDE DEF h
<1>6. h + 1 \in 1..MaxMsgs /\ h + 1 <= sent
  BY <1>4, <1>5
<1>7. Sizes[h + 1] \in Nat /\ Sizes[h + 1] >= HeaderLen
  BY <1>1, <1>5, <1>6, WireLenIs
<1>8. ~Malformed(h + 1) /\ WireLen(h + 1) = Sizes[h + 1]
  <2>1. ~Malformed(h + 1)
    BY <1>7, FramingAssumption DEF Malformed
  <2> QED
    BY <1>6, <2>1, WireLenIs
<1> QED
  BY <1>1, <1>2, <1>4, <1>5, <1>6, <1>8 DEF h

LEMMA ExtractStep ==
    ASSUME StreamedInv, Extract
    PROVE  StreamedInv'
<1> DEFINE h == Len(handled)
           n == WireLen(h + 1)
<1>1. /\ h \in Nat /\ h + 1 \in 1..MaxMsgs /\ h + 1 <= sent /\ ~Malformed(h + 1)
      /\ handled' = Append(handled, h + 1)
      /\ i' = i + n /\ i + n <= Len(buf)
  BY ExtractsNext
<1>2. PICK f : Laid(f, Unhandled, h, sent) /\ f[h + 1] = 0
  BY ExtractsNext
<1>3. /\ sent' = sent /\ buf' = buf /\ wire' = wire /\ pc' = pc /\ pc # "read"
      /\ handled \in Seq(Nat) /\ i \in Nat /\ Len(buf) \in Nat /\ sent \in Nat
  BY DEF Extract, StreamedInv, TypeInv
<1>4. n \in Nat \ {0}
  BY <1>1, WireLenIs
<1>5. /\ handled' \in Seq(Nat) /\ Len(handled') = h + 1
      /\ \A k \in 1..h : handled'[k] = handled[k]
      /\ handled'[h + 1] = h + 1
  BY <1>1, <1>3
<1> HIDE DEF n, h
<1>6. TypeInv'
  BY <1>1, <1>3, <1>4, <1>5 DEF StreamedInv, TypeInv
<1>7. HandledInv'
  <2>1. ASSUME NEW k \in 1..(h + 1) PROVE handled'[k] = k /\ ~Malformed(k)
    <3>1. CASE k = h + 1
      BY <1>1, <1>5, <3>1
    <3>2. CASE k \in 1..h
      BY <1>5, <3>2 DEF StreamedInv, HandledInv, h
    <3>3. k = h + 1 \/ k \in 1..h
      BY <1>1
    <3> QED
      BY <3>1, <3>2, <3>3
  <2> QED
    BY <1>1, <1>3, <1>5, <2>1 DEF HandledInv
<1>8. /\ n \in 0..Len(Unhandled)
      /\ Len(Unhandled') = Len(Unhandled) - n
      /\ \A k \in 1..Len(Unhandled') : Unhandled'[k] = Unhandled[n + k]
  BY <1>1, <1>3, <1>4, Advances DEF StreamedInv
<1>9. \A m \in ((h + 1) + 1)..sent : n <= f[m]
  <2> SUFFICES ASSUME NEW m \in ((h + 1) + 1)..sent PROVE n <= f[m]
    OBVIOUS
  <2>1. h + 1 \in (h + 1)..sent /\ m \in (h + 1)..sent /\ h + 1 < m
    BY <1>1, <1>3
  <2>2. f[h + 1] + WireLen(h + 1) <= f[m]
    BY <1>2, <2>1 DEF Laid
  <2>3. 0 + n = n
    BY <1>4
  <2> QED
    BY <1>2, <2>2, <2>3 DEF n
<1>10. \A m \in (h + 1)..sent : m <= h + 1 => f[m] + WireLen(m) <= n
  <2> SUFFICES ASSUME NEW m \in (h + 1)..sent, m <= h + 1
               PROVE  f[m] + WireLen(m) <= n
    OBVIOUS
  <2>1. m = h + 1
    BY <1>1
  <2>2. 0 + n <= n
    BY <1>4
  <2> QED
    BY <1>2, <2>1, <2>2 DEF n
<1>11. StreamInv'
  <2>1. h <= Len(handled')
    BY <1>1, <1>5
  <2> QED
    BY <1>2, <1>3, <1>5, <1>6, <1>8, <1>9, <1>10, <2>1, ServeMoves
    DEF StreamedInv, h
<1> QED
  BY <1>6, <1>7, <1>11 DEF StreamedInv

LEMMA DrainStep ==
    ASSUME StreamedInv, Drain
    PROVE  StreamedInv'
<1>1. /\ buf' = SubSeq(buf, i + 1, Len(buf)) /\ i' = 0
      /\ sent' = sent /\ handled' = handled /\ wire' = wire
  BY DEF Drain, Rest
<1>2. /\ wire \in Seq(Byte) /\ buf \in Seq(Byte) /\ i \in 0..Len(buf)
      /\ Len(handled) \in Nat /\ sent \in Nat
  BY DEF StreamedInv, TypeInv
<1>3. buf' \in Seq(Byte) /\ Len(buf') \in Nat
  BY <1>1, <1>2
<1>4. TypeInv'
  BY <1>1, <1>2, <1>3 DEF StreamedInv, TypeInv
<1>5. HandledInv'
  BY <1>1 DEF StreamedInv, HandledInv
<1>6. Unhandled' = Unhandled
  <2>1. SubSeq(buf', 1, Len(buf')) = buf'
    BY <1>3
  <2>2. Unhandled' = SubSeq(buf', 0 + 1, Len(buf')) \o wire
    BY <1>1 DEF Unhandled
  <2>3. 0 + 1 = 1
    OBVIOUS
  <2>4. Unhandled' = buf' \o wire
    BY <2>1, <2>2, <2>3
  <2> QED
    BY <1>1, <2>4 DEF Unhandled
<1>7. StreamInv'
  BY <1>1, <1>6 DEF StreamedInv, StreamInv
<1> QED
  BY <1>4, <1>5, <1>7 DEF StreamedInv

-----------------------------------------------------------------------------
(* What the loop promises.                                                 *)

LEMMA StreamedStep ==
    ASSUME StreamedInv, [Next]_vars
    PROVE  StreamedInv'
<1>1. CASE UNCHANGED vars
  <2>1. /\ sent' = sent /\ wire' = wire /\ buf' = buf /\ i' = i /\ pc' = pc
        /\ handled' = handled
    BY <1>1 DEF vars
  <2>2. Unhandled' = Unhandled
    BY <2>1 DEF Unhandled
  <2> QED
    BY <2>1, <2>2 DEF StreamedInv, TypeInv, HandledInv, StreamInv
<1> QED
  BY <1>1, SendMessageStep, SendStrayStep, ReadStep, ResyncStep, ExtractStep, DrainStep
  DEF Next, Serve

\* However the bytes are cut into reads and whatever comes between them, the
\* messages handled are the first ones, and the others lie one after the other
\* in the buffer and under way, with nothing but stray bytes around them: the
\* invariant the two theorems below rest on.
THEOREM Streamed == Spec => []StreamedInv
<1>1. Init => StreamedInv
  <2> SUFFICES ASSUME Init PROVE StreamedInv
    OBVIOUS
  <2>1. /\ sent = 0 /\ wire = << >> /\ buf = << >> /\ i = 0 /\ handled = << >>
        /\ MaxMsgs \in Nat
    BY SoundIs DEF Init
  <2>2. TypeInv
    BY <2>1 DEF TypeInv
  <2>3. Len(handled) = 0 /\ \A k \in 1..Len(handled) : FALSE
    BY <2>1
  <2>4. HandledInv
    BY <2>1, <2>3 DEF HandledInv
  <2>5. Len(Unhandled) = 0
    BY <2>1, RestOf DEF TypeInv, Unhandled
  <2> DEFINE f == [m \in (0 + 1)..0 |-> 0]
  <2>6. /\ \A m \in (0 + 1)..0 : FALSE
        /\ \A k \in 1..Len(Unhandled) : FALSE
    BY <2>5
  <2>7. f \in [(0 + 1)..0 -> Nat]
    BY <2>6
  <2> HIDE DEF f
  <2>8. Laid(f, Unhandled, 0, 0)
    BY <2>6, <2>7 DEF Laid
  <2>9. StreamInv
    BY <2>1, <2>3, <2>8 DEF StreamInv
  <2> QED
    BY <2>2, <2>4, <2>9 DEF StreamedInv
<1>2. StreamedInv /\ [Next]_vars => StreamedInv'
  BY StreamedStep
<1> QED
  BY <1>1, <1>2, PTL DEF Spec

\* No byte of a message is skipped or left behind: the messages are handled
\* each once and in their order, and every other one sent is still there, whole.
THEOREM AllKept == Spec => []NothingLost
<1>1. StreamedInv => NothingLost
  <2> SUFFICES ASSUME StreamedInv PROVE NothingLost
    OBVIOUS
  <2>1. \A k \in 1..Len(handled) : handled[k] = k
    BY DEF StreamedInv, HandledInv
  <2>2. PICK f : Laid(f, Unhandled, Len(handled), sent)
    BY DEF StreamedInv, StreamInv
  <2>3. Len(Unhandled) \in Nat
    BY RestOf DEF StreamedInv, TypeInv, Unhandled
  <2>4. ASSUME NEW m \in (Len(handled) + 1)..sent
        PROVE  \E p \in 0..Len(Unhandled) :
                 /\ p + WireLen(m) <= Len(Unhandled)
                 /\ \A k \in 1..WireLen(m) : Unhandled[p + k] = [msg |-> m, off |-> k]
    <3>1. /\ f[m] \in Nat /\ f[m] + WireLen(m) <= Len(Unhandled)
          /\ \A k \in 1..WireLen(m) : Unhandled[f[m] + k] = [msg |-> m, off |-> k]
      BY <2>2 DEF Laid
    <3>2. WireLen(m) \in Nat
      <4>1. m \in 1..MaxMsgs
        BY SoundIs DEF StreamedInv, TypeInv
      <4> QED
        BY <4>1, WireLenIs
    <3>3. f[m] \in 0..Len(Unhandled)
      BY <2>3, <3>1, <3>2
    <3> QED
      BY <3>1, <3>3
  <2> QED
    BY <2>1, <2>4 DEF NothingLost
<1> QED
  BY <1>1, Streamed, PTL

\* A step of the stream is a step of the pipe, or none.
LEMMA PipeStep ==
    ASSUME StreamedInv, [Next]_vars
    PROVE  [Pipe!Next]_(Pipe!vars)
<1> DEFINE s == Min({sent, Sound})
<1>1. /\ sent \in Nat /\ Sound \in Nat /\ MaxMsgs \in Nat /\ Len(handled) \in Nat
  BY SoundIs DEF StreamedInv, TypeInv
<1>2. \A a \in Nat : Min({a, Sound}) = IF a <= Sound THEN a ELSE Sound
  <2> SUFFICES ASSUME NEW a \in Nat
               PROVE  Min({a, Sound}) = IF a <= Sound THEN a ELSE Sound
    OBVIOUS
  <2>1. {a, Sound} \subseteq Nat /\ {a, Sound} # {}
    BY <1>1
  <2>2. Min({a, Sound}) \in {a, Sound} /\ \A y \in {a, Sound} : Min({a, Sound}) <= y
    BY <2>1, MinIsLeast
  <2> QED
    BY <1>1, <2>2
<1>3. CASE handled' = handled /\ sent' = sent
  BY <1>3 DEF Pipe!vars
<1>4. CASE SendMessage
  <2>1. sent' = sent + 1 /\ handled' = handled
    BY <1>4 DEF SendMessage
  <2>2. /\ Min({sent, Sound}) = IF sent <= Sound THEN sent ELSE Sound
        /\ Min({sent', Sound}) = IF sent + 1 <= Sound THEN sent + 1 ELSE Sound
    BY <1>1, <1>2, <2>1
  <2>3. CASE sent + 1 <= Sound
    <3>1. Min({sent, Sound}) < Sound /\ Min({sent', Sound}) = Min({sent, Sound}) + 1
      BY <1>1, <2>2, <2>3
    <3> QED
      BY <2>1, <3>1 DEF Pipe!Next, Pipe!Send
  <2>4. CASE ~(sent + 1 <= Sound)
    <3>1. Min({sent', Sound}) = Min({sent, Sound})
      BY <1>1, <2>2, <2>4
    <3> QED
      BY <2>1, <3>1 DEF Pipe!vars
  <2> QED
    BY <2>3, <2>4
<1>5. CASE Extract
  <2>1. /\ Len(handled) + 1 \in 1..MaxMsgs /\ Len(handled) + 1 <= sent
        /\ ~Malformed(Len(handled) + 1)
        /\ handled' = Append(handled, Len(handled) + 1)
    BY <1>5, ExtractsNext
  <2>2. sent' = sent /\ Len(handled') = Len(handled) + 1
    BY <1>5, <2>1 DEF Extract, StreamedInv, TypeInv
  <2>3. Len(handled) + 1 <= Sound
    <3>1. \A m \in 1..(Len(handled) + 1) : ~Malformed(m)
      <4> SUFFICES ASSUME NEW m \in 1..(Len(handled) + 1) PROVE ~Malformed(m)
        OBVIOUS
      <4>1. m \in 1..Len(handled) \/ m = Len(handled) + 1
        BY <1>1
      <4> QED
        BY <2>1, <4>1 DEF StreamedInv, HandledInv
    <3>2. Len(handled) + 1 \in 0..MaxMsgs
      BY <2>1
    <3> QED
      BY <3>1, <3>2, SoundIs
  <2>4. Len(handled) < Min({sent, Sound})
    <3>1. Min({sent, Sound}) = IF sent <= Sound THEN sent ELSE Sound
      BY <1>1, <1>2
    <3> QED
      BY <1>1, <2>1, <2>3, <3>1
  <2> QED
    BY <2>2, <2>4 DEF Pipe!Next, Pipe!Handle
<1>6. CASE SendStray \/ Read \/ Resync \/ Drain \/ UNCHANGED vars
  BY <1>3, <1>6 DEF SendStray, Read, Resync, Drain, vars
<1> QED
  BY <1>4, <1>5, <1>6 DEF Next, Serve

\* The framing loop over a stream of bytes is the pipe of messages Fb4Control
\* takes for granted: no message before a malformed one is handled twice, left
\* out or overtaken, and none from the malformed one on is handled at all.
THEOREM FramingPipes == Spec => Pipe!Safety
<1>1. Init => Pipe!Init
  <2> SUFFICES ASSUME Init PROVE Pipe!Init
    OBVIOUS
  <2>1. sent = 0 /\ handled = << >>
    BY DEF Init
  <2>2. Min({0, Sound}) = 0
    <3>1. {0, Sound} \subseteq Nat /\ {0, Sound} # {} /\ Sound \in Nat
      BY SoundIs
    <3>2. Min({0, Sound}) \in {0, Sound} /\ \A y \in {0, Sound} : Min({0, Sound}) <= y
      BY <3>1, MinIsLeast
    <3> QED
      BY <3>1, <3>2
  <2>3. Len(handled) = 0
    BY <2>1
  <2> QED
    BY <2>1, <2>2, <2>3 DEF Pipe!Init
<1>2. StreamedInv /\ [Next]_vars => [Pipe!Next]_(Pipe!vars)
  BY PipeStep
<1> QED
  BY <1>1, <1>2, Streamed, PTL DEF Spec, Pipe!Safety

=============================================================================
