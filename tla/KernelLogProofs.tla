-------------------------- MODULE KernelLogProofs --------------------------
(***************************************************************************)
(* The kernel log's ring, for every capacity and every length of lines:    *)
(* what klog_read can return is what BoundedLog keeps, and dmesg never     *)
(* discards a byte that it neither printed nor announced to be missing.    *)
(***************************************************************************)
EXTENDS KernelLog, FiniteSetTheorems, SequenceTheorems, WellFoundedInduction, TLAPS

C == KLOG_RING_CAPACITY

LEMMA Constants ==
  /\ C \in Nat \ {0} /\ DMESG_PRINT_BUFFER \in Nat /\ DMESG_PRINT_BUFFER > 1
  /\ LINE_OVERHEAD \in Nat \ {0} /\ LINE_BUFFER \in Nat \ {0} /\ MAX_LINE_BYTES \in Nat
  BY KernelLogAssumption DEF C

(* Induction on a bounded number. *)
LEMMA Climb ==
  ASSUME NEW n \in Nat, NEW S, 0 \in S,
         \A k \in 0 .. (n - 1) : k \in S => k + 1 \in S
  PROVE  \A k \in 0 .. n : k \in S
<1>. DEFINE T == {k \in 0 .. n : k \notin S}
            R == OpToRel(<, Nat)
<1>. SUFFICES ASSUME T # {} PROVE FALSE
  OBVIOUS
<1>1. T \in SUBSET Nat
  OBVIOUS
<1>2. \A a, b \in Nat : a < b => <<a, b>> \in R
  BY DEF OpToRel
<1>3. IsWellFoundedOn(R, Nat)
  BY NatLessThanWellFounded
<1>. HIDE DEF R
<1>4. PICK m \in T : \A y \in T : ~ (<<y, m>> \in R)
  <2>. HIDE DEF T
  <2>. QED
    BY <1>1, <1>3, WFMin
<1>5. m \in 1 .. n
  OBVIOUS
<1>6. m - 1 \in 0 .. (n - 1) /\ m - 1 \in Nat /\ m \in Nat /\ m - 1 < m /\ (m - 1) + 1 = m
  BY <1>5
<1>7. m - 1 \notin T
  BY <1>2, <1>4, <1>6
<1>8. m - 1 \in S
  BY <1>6, <1>7
<1>. QED
  BY <1>4, <1>6, <1>8

(* The rest of a sequence from a place on. *)
LEMMA RestOf ==
  ASSUME NEW X, NEW q \in Seq(X), NEW a \in 1 .. Len(q)
  PROVE  /\ SubSeq(q, a, Len(q)) \in Seq(X)
         /\ Len(SubSeq(q, a, Len(q))) = Len(q) - a + 1
         /\ \A i \in 1 .. (Len(q) - a + 1) : SubSeq(q, a, Len(q))[i] = q[a + i - 1]
<1>. DEFINE z == Len(q)
<1>1. z \in Int /\ a \in Int /\ z = Len(q) /\ a <= z /\ \A i \in a .. z : q[i] \in X
  OBVIOUS
<1>. HIDE DEF z
<1>2. /\ SubSeq(q, a, z) \in Seq(X)
      /\ Len(SubSeq(q, a, z)) = IF a <= z THEN z - a + 1 ELSE 0
      /\ \A i \in 1 .. (z - a + 1) : SubSeq(q, a, z)[i] = q[a + i - 1]
  BY <1>1, SubSeqProperties
<1>. QED
  BY <1>1, <1>2

-----------------------------------------------------------------------------
(* One byte. *)

RingOK(r) ==
  /\ DOMAIN r.ring = 0 .. (C - 1)
  /\ r.head \in 0 .. (C - 1)
  /\ r.size \in 0 .. C

(* Where the i-th oldest byte of a ring lies, and the byte. *)
Place(r, i) == (((r.head + C - r.size) % C) + i - 1) % C
ByteAt(r, i) == r.ring[Place(r, i)]

LEMMA Mod ==
  ASSUME NEW x \in Nat, x < 2 * C
  PROVE  x % C = IF x < C THEN x ELSE x - C
<1>1. CASE x < C
  BY <1>1, Constants
<1>2. CASE x >= C
  <2>1. (x - C) \in 0 .. (C - 1)
    BY <1>2, Constants
  <2>2. (x - C) % C = x - C
    BY <2>1, Constants
  <2>3. x % C = (x - C) % C
    BY <1>2, Constants
  <2>. QED
    BY <1>2, <2>2, <2>3, Constants
<1>. QED
  BY <1>1, <1>2, Constants

LEMMA PlaceIs ==
  ASSUME NEW r, RingOK(r), NEW i \in 1 .. r.size
  PROVE  Place(r, i) = IF r.head + i > r.size THEN r.head + i - r.size - 1
                       ELSE r.head + i - r.size - 1 + C
<1>. DEFINE h == r.head
            s == r.size
            a == (h + C - s) % C
<1>1. h \in 0 .. (C - 1) /\ s \in 0 .. C /\ C \in Nat /\ C > 0
  BY Constants DEF RingOK
<1>2. i \in 1 .. s
  OBVIOUS
<1>. HIDE DEF h, s
<1>3. h + C - s \in Nat /\ h + C - s < 2 * C
  BY <1>1, <1>2
<1>4. a = IF h + C - s < C THEN h + C - s ELSE h - s
  <2>. DEFINE x == h + C - s
  <2>1. x \in Nat /\ x < 2 * C /\ x - C = h - s
    BY <1>1, <1>3
  <2>2. a = x % C
    OBVIOUS
  <2>. HIDE DEF x, a
  <2>3. x % C = IF x < C THEN x ELSE x - C
    BY <2>1, Mod
  <2>. QED
    BY <2>1, <2>2, <2>3 DEF x
<1>. HIDE DEF a
<1>. DEFINE x == a + i - 1
<1>5. x = a + i - 1 /\ x \in Nat /\ x < 2 * C
  BY <1>1, <1>2, <1>4
<1>6. Place(r, i) = x % C
  BY DEF Place, a, h, s
<1>. HIDE DEF x
<1>7. x % C = IF x < C THEN x ELSE x - C
  BY <1>5, Mod
<1>8. Place(r, i) = IF h + i > s THEN h + i - s - 1 ELSE h + i - s - 1 + C
  BY <1>1, <1>2, <1>4, <1>5, <1>6, <1>7
<1>. QED
  BY <1>8 DEF h, s

(* klog_ring_putc adds the newest byte, and drops the oldest if it must. *)
LEMMA PutcFacts ==
  ASSUME NEW r, RingOK(r), NEW c, NEW g, g = klog_ring_putc(r, c)
  PROVE  /\ RingOK(g)
         /\ g.size = IF r.size < C THEN r.size + 1 ELSE C
         /\ ByteAt(g, g.size) = c
         /\ \A i \in 1 .. (g.size - 1) : ByteAt(g, i) = ByteAt(r, i + r.size + 1 - g.size)
<1>1. r.head \in 0 .. (C - 1) /\ r.size \in 0 .. C /\ C \in Nat /\ C > 0
      /\ DOMAIN r.ring = 0 .. (C - 1)
  BY Constants DEF RingOK
<1>2. /\ g.ring = [r.ring EXCEPT ![r.head] = c]
      /\ g.head = (r.head + 1) % C
      /\ g.size = IF r.size < C THEN r.size + 1 ELSE r.size
  BY DEF klog_ring_putc, C
<1>3. g.head = IF r.head + 1 < C THEN r.head + 1 ELSE 0
  BY <1>1, <1>2, Mod
<1>4. g.size = IF r.size < C THEN r.size + 1 ELSE C
  BY <1>1, <1>2
<1>5. g.head \in 0 .. (C - 1) /\ g.size \in 1 .. C
  BY <1>1, <1>3, <1>4
<1>6. DOMAIN g.ring = 0 .. (C - 1) /\ g.ring[r.head] = c
      /\ \A x \in 0 .. (C - 1) : x # r.head => g.ring[x] = r.ring[x]
  BY <1>1, <1>2
<1>7. RingOK(g)
  BY <1>1, <1>5, <1>6 DEF RingOK
<1>8. ByteAt(g, g.size) = c
  <2>1. g.size \in 1 .. g.size
    BY <1>1, <1>5
  <2>2. Place(g, g.size) = IF g.head + g.size > g.size THEN g.head + g.size - g.size - 1
                           ELSE g.head + g.size - g.size - 1 + C
    BY <1>7, <2>1, PlaceIs
  <2>3. Place(g, g.size) = r.head
    BY <1>1, <1>3, <1>5, <2>2
  <2>. QED
    BY <1>6, <2>3 DEF ByteAt
<1>9. ASSUME NEW i \in 1 .. (g.size - 1)
      PROVE  ByteAt(g, i) = ByteAt(r, i + r.size + 1 - g.size)
  <2>. DEFINE j == i + r.size + 1 - g.size
  <2>1. i \in 1 .. g.size /\ j \in 1 .. r.size
    BY <1>1, <1>4, <1>5
  <2>2. Place(g, i) = IF g.head + i > g.size THEN g.head + i - g.size - 1
                      ELSE g.head + i - g.size - 1 + C
    BY <1>7, <2>1, PlaceIs
  <2>3. Place(r, j) = IF r.head + j > r.size THEN r.head + j - r.size - 1
                      ELSE r.head + j - r.size - 1 + C
    BY <2>1, PlaceIs
  <2>. DEFINE a == r.head
              b == g.head
              n == r.size
              m == g.size
  <2>4. /\ a \in 0 .. (C - 1) /\ n \in 0 .. C /\ C \in Nat /\ C > 0
        /\ b = (IF a + 1 < C THEN a + 1 ELSE 0) /\ m = (IF n < C THEN n + 1 ELSE C)
        /\ i \in 1 .. (m - 1) /\ j = i + n + 1 - m
    BY <1>1, <1>3, <1>4
  <2>5. Place(g, i) = (IF b + i > m THEN b + i - m - 1 ELSE b + i - m - 1 + C)
        /\ Place(r, j) = (IF a + j > n THEN a + j - n - 1 ELSE a + j - n - 1 + C)
    BY <2>2, <2>3
  <2>. HIDE DEF a, b, n, m, j
  <2>6. Place(g, i) = Place(r, j)
    BY <2>4, <2>5
  <2>7. Place(g, i) \in 0 .. (C - 1) /\ Place(g, i) # a
    BY <2>4, <2>5
  <2>. QED
    BY <1>6, <2>6, <2>7 DEF ByteAt, j, a
<1>. QED
  BY <1>4, <1>7, <1>8, <1>9

-----------------------------------------------------------------------------
(* A line. *)

(* The bytes held before and those of the line, one after the other. *)
Logged(j) == IF j <= g_klog_size THEN ByteAt(Ring, j)
             ELSE <<g_klog_lines + 1, j - g_klog_size>>

LEMMA PutLineSteps ==
  ASSUME NEW n \in Nat
  PROVE  \E r : /\ r[0] = Ring
                /\ \A k \in 1 .. n : r[k] = klog_ring_putc(r[k - 1], <<g_klog_lines + 1, k>>)
                /\ PutLine(n) = r[n]
<1>. DEFINE put(r, k) == klog_ring_putc(r, <<g_klog_lines + 1, k>>)
            Rec(f, m) == f = [k \in 0 .. m |-> IF k = 0 THEN Ring ELSE put(f[k - 1], k)]
            S == {m \in 0 .. n : \E f : Rec(f, m)}
            r == CHOOSE f : Rec(f, n)
<1>1. PutLine(n) = r[n]
  BY DEF PutLine
<1>. HIDE DEF put
<1>2. 0 \in S
  <2>. DEFINE f == [k \in 0 .. 0 |-> Ring]
  <2>1. Rec(f, 0)
    OBVIOUS
  <2>. HIDE DEF Rec
  <2>. QED
    BY <2>1
<1>3. ASSUME NEW m \in 0 .. (n - 1), m \in S
      PROVE  m + 1 \in S
  <2>1. PICK f : Rec(f, m)
    BY <1>3
  <2>. DEFINE g == [k \in 0 .. (m + 1) |-> IF k = m + 1 THEN put(f[m], k) ELSE f[k]]
  <2>2. \A k \in 0 .. m : g[k] = f[k]
    OBVIOUS
  <2>3. ASSUME NEW k \in 0 .. (m + 1)
        PROVE  g[k] = IF k = 0 THEN Ring ELSE put(g[k - 1], k)
    <3>1. CASE k = m + 1
      <4>1. k - 1 = m /\ k # 0 /\ m \in 0 .. m
        BY <3>1
      <4>. QED
        BY <2>2, <3>1, <4>1
    <3>2. CASE k # m + 1
      <4>1. k \in 0 .. m /\ (k # 0 => k - 1 \in 0 .. m)
        BY <3>2
      <4>2. f[k] = IF k = 0 THEN Ring ELSE put(f[k - 1], k)
        BY <2>1, <4>1
      <4>. QED
        BY <2>2, <4>1, <4>2
    <3>. QED
      BY <3>1, <3>2
  <2>4. g = [k \in 0 .. (m + 1) |-> g[k]]
    OBVIOUS
  <2>. HIDE DEF g
  <2>5. Rec(g, m + 1)
    BY <2>3, <2>4
  <2>6. m + 1 \in 0 .. n
    OBVIOUS
  <2>. HIDE DEF Rec
  <2>. QED
    BY <2>5, <2>6
<1>4. n \in S
  <2>. HIDE DEF S
  <2>1. \A k \in 0 .. n : k \in S
    BY <1>2, <1>3, Climb
  <2>. QED
    BY <2>1
<1>5. Rec(r, n)
  <2>1. PICK f : Rec(f, n)
    BY <1>4
  <2>. HIDE DEF Rec
  <2>. QED
    BY <2>1
<1>. HIDE DEF r
<1>6. r[0] = Ring
  BY <1>5
<1>7. ASSUME NEW k \in 1 .. n PROVE r[k] = put(r[k - 1], k)
  <2>1. k \in 0 .. n /\ k # 0
    OBVIOUS
  <2>. QED
    BY <1>5, <2>1
<1>. QED
  BY <1>1, <1>6, <1>7 DEF put

(* After a line the ring holds the newest of what was held and logged. *)
LEMMA PutLineFacts ==
  ASSUME NEW n \in Nat, RingOK(Ring), NEW g, g = PutLine(n)
  PROVE  /\ RingOK(g)
         /\ g.size = IF g_klog_size + n < C THEN g_klog_size + n ELSE C
         /\ \A i \in 1 .. g.size, j \in Int :
              j = g_klog_size + n - g.size + i => ByteAt(g, i) = Logged(j)
<1>1. PICK r : /\ r[0] = Ring
               /\ \A k \in 1 .. n : r[k] = klog_ring_putc(r[k - 1], <<g_klog_lines + 1, k>>)
               /\ g = r[n]
  BY PutLineSteps
<1>2. Ring.size = g_klog_size /\ g_klog_size \in 0 .. C /\ C \in Nat /\ C > 0
  BY Constants DEF Ring, RingOK
<1>. DEFINE s == g_klog_size
            Good(k) == /\ RingOK(r[k])
                       /\ r[k].size = (IF s + k < C THEN s + k ELSE C)
                       /\ \A i \in 1 .. r[k].size : ByteAt(r[k], i) = Logged(s + k - r[k].size + i)
            S == {k \in 0 .. n : Good(k)}
<1>3. 0 \in S
  <2>1. Ring.size = (IF s + 0 < C THEN s + 0 ELSE C)
    BY <1>2
  <2>2. ASSUME NEW i \in 1 .. Ring.size
        PROVE  ByteAt(Ring, i) = Logged(s + 0 - Ring.size + i)
    <3>1. s + 0 - Ring.size + i = i /\ i <= g_klog_size
      BY <1>2
    <3>. QED
      BY <3>1 DEF Logged
  <2>. HIDE DEF s
  <2>3. Good(0)
    BY <1>1, <2>1, <2>2
  <2>. HIDE DEF Good
  <2>. QED
    BY <2>3
<1>4. ASSUME NEW k \in 0 .. (n - 1), k \in S PROVE k + 1 \in S
  <2>1. k + 1 \in 1 .. n /\ k + 1 \in 0 .. n /\ (k + 1) - 1 = k
    OBVIOUS
  <2>. DEFINE a == r[k]
              b == r[k + 1]
              c == <<g_klog_lines + 1, k + 1>>
  <2>2. b = klog_ring_putc(a, c)
    BY <1>1, <2>1
  <2>3. /\ RingOK(a)
        /\ a.size = (IF s + k < C THEN s + k ELSE C)
        /\ \A i \in 1 .. a.size : ByteAt(a, i) = Logged(s + k - a.size + i)
    BY <1>4
  <2>. HIDE DEF a, b
  <2>4. /\ RingOK(b)
        /\ b.size = IF a.size < C THEN a.size + 1 ELSE C
        /\ ByteAt(b, b.size) = c
        /\ \A i \in 1 .. (b.size - 1) : ByteAt(b, i) = ByteAt(a, i + a.size + 1 - b.size)
    BY <2>2, <2>3, PutcFacts
  <2>. HIDE DEF s, c
  <2>5. s \in 0 .. C /\ a.size \in 0 .. C
    BY <1>2, <2>3 DEF s, RingOK
  <2>6. b.size = (IF s + (k + 1) < C THEN s + (k + 1) ELSE C)
    BY <1>2, <2>3, <2>4, <2>5
  <2>7. ASSUME NEW i \in 1 .. b.size
        PROVE  ByteAt(b, i) = Logged(s + (k + 1) - b.size + i)
    <3>1. CASE i = b.size
      <4>1. s + (k + 1) - b.size + i = s + (k + 1)
        BY <1>2, <2>5, <2>6, <3>1
      <4>2. ~(s + (k + 1) <= s) /\ (s + (k + 1)) - s = k + 1
        BY <1>2, <2>5
      <4>3. Logged(s + (k + 1)) = c
        BY <4>2 DEF Logged, s, c
      <4>. QED
        BY <2>4, <3>1, <4>1, <4>3
    <3>2. CASE i # b.size
      <4>. DEFINE j == i + a.size + 1 - b.size
      <4>1. /\ i \in 1 .. (b.size - 1) /\ j \in 1 .. a.size
            /\ s + (k + 1) - b.size + i = s + k - a.size + j
        BY <1>2, <2>3, <2>4, <2>5, <2>6, <3>2
      <4>2. ByteAt(b, i) = ByteAt(a, j)
        BY <2>4, <4>1
      <4>. HIDE DEF j
      <4>3. ByteAt(a, j) = Logged(s + k - a.size + j)
        BY <2>3, <4>1
      <4>. QED
        BY <4>1, <4>2, <4>3
    <3>. QED
      BY <3>1, <3>2
  <2>8. Good(k + 1)
    BY <2>4, <2>6, <2>7 DEF b
  <2>. HIDE DEF Good
  <2>. QED
    BY <2>1, <2>8
<1>5. n \in S
  <2>. HIDE DEF S
  <2>1. \A k \in 0 .. n : k \in S
    BY <1>3, <1>4, Climb
  <2>. QED
    BY <2>1
<1>6. Good(n)
  BY <1>5
<1>7. ASSUME NEW i \in 1 .. g.size, NEW j \in Int, j = s + n - g.size + i
      PROVE  ByteAt(g, i) = Logged(j)
  BY <1>1, <1>6, <1>7
<1>. QED
  BY <1>1, <1>6, <1>7

-----------------------------------------------------------------------------
(* The log. *)

LogInv == RingOK(Ring) /\ g_klog_lines \in Nat

LEMMA ReadIs ==
  ASSUME NEW m
  PROVE  klog_read(m) = [i \in 1 .. (IF g_klog_size > m - 1 THEN m - 1 ELSE g_klog_size) |->
                           ByteAt(Ring, i)]
  BY DEF klog_read, ByteAt, Place, Ring, C

LEMMA KeptIs ==
  ASSUME LogInv
  PROVE  Kept = [i \in 1 .. g_klog_size |-> ByteAt(Ring, i)]
<1>1. g_klog_size \in Nat
  BY Constants DEF LogInv, RingOK, Ring
<1>2. (IF g_klog_size > (g_klog_size + 1) - 1 THEN (g_klog_size + 1) - 1 ELSE g_klog_size)
        = g_klog_size
  BY <1>1
<1>3. Kept = klog_read(g_klog_size + 1)
  BY DEF Kept
<1>. QED
  BY <1>2, <1>3, ReadIs

LEMMA KeptNextIs ==
  ASSUME LogInv'
  PROVE  Kept' = [i \in 1 .. g_klog_size' |-> ByteAt(Ring', i)]
<1>. DEFINE s == g_klog_size'
<1>1. s \in Nat
  BY Constants DEF LogInv, RingOK, Ring
<1>2. (IF s > (s + 1) - 1 THEN (s + 1) - 1 ELSE s) = s
  <2>. HIDE DEF s
  <2>. QED
    BY <1>1
<1>3. Kept' = [i \in 1 .. (IF s > (s + 1) - 1 THEN (s + 1) - 1 ELSE s) |-> ByteAt(Ring', i)]
  BY DEF Kept, klog_read, ByteAt, Place, Ring, C
<1>. HIDE DEF s
<1>4. Kept' = [i \in 1 .. s |-> ByteAt(Ring', i)]
  BY <1>2, <1>3
<1>. QED
  BY <1>4 DEF s

(* How long a line can be. *)
LEMMA LineLength ==
  ASSUME NEW d \in Nat, NEW s \in TextLengths \cup {1, 4}, NEW m \in Nat,
         m \in TextLengths \/ m < LINE_BUFFER
  PROVE  LINE_OVERHEAD + Digits(d) + (IF s = 0 THEN 4 ELSE s) + m \in 1 .. MAX_LINE_BYTES
<1>1. Digits(d) \in 1 .. 10
  <2>. DEFINE T == {i \in 1 .. 9 : d >= 10 ^ i}
  <2>1. IsFiniteSet(1 .. 9) /\ Cardinality(1 .. 9) = 9
    <3>1. 1 \in Int /\ 9 \in Int /\ (IF 1 > 9 THEN 0 ELSE 9 - 1 + 1) = 9
      OBVIOUS
    <3>2. \A a, b \in Int : /\ IsFiniteSet(a .. b)
                            /\ Cardinality(a .. b) = IF a > b THEN 0 ELSE b - a + 1
      BY FS_Interval
    <3>. QED
      BY <3>1, <3>2
  <2>2. T \in SUBSET (1 .. 9)
    OBVIOUS
  <2>. HIDE DEF T
  <2>3. IsFiniteSet(T) /\ Cardinality(T) <= 9
    BY <2>1, <2>2, FS_Subset
  <2>4. Cardinality(T) \in Nat
    BY <2>3, FS_CardinalityType
  <2>5. Digits(d) = 1 + Cardinality(T)
    BY DEF Digits, T
  <2>. QED
    BY <2>3, <2>4, <2>5
<1>. DEFINE t == IF s = 0 THEN 4 ELSE s
<1>2. t \in Nat /\ \E u \in TextLengths \cup {4, LINE_BUFFER} : u \in Nat /\ t <= u
  BY KernelLogAssumption
<1>3. \E v \in TextLengths \cup {4, LINE_BUFFER} : v \in Nat /\ m <= v
  BY KernelLogAssumption
<1>4. \A u, v \in TextLengths \cup {4, LINE_BUFFER} : LINE_OVERHEAD + 10 + u + v <= MAX_LINE_BYTES
  BY KernelLogAssumption
<1>. HIDE DEF t
<1>5. LINE_OVERHEAD + Digits(d) + t + m \in 1 .. MAX_LINE_BYTES
  BY <1>1, <1>2, <1>3, <1>4, Constants
<1>. QED
  BY <1>5 DEF t

(* A call of klog_log, whoever makes it. *)
LogsLine(n) ==
  LET r == PutLine(n)
  IN  /\ g_klog_lines' = g_klog_lines + 1
      /\ g_klog_ring' = r.ring /\ g_klog_head' = r.head /\ g_klog_size' = r.size
      /\ UNCHANGED <<dump, truncated>>

LEMMA EveryLine ==
  ASSUME LogInv,
         \/ \E s, m \in TextLengths : klog_log(s, m)
         \/ \E p, d \in TextLengths, hex \in BOOLEAN : klog_log_u32(1, p, d + 1, hex)
  PROVE  \E n \in 1 .. MAX_LINE_BYTES : LogsLine(n)
<1>1. ASSUME NEW s \in TextLengths \cup {1, 4}, NEW m \in Nat,
             m \in TextLengths \/ m < LINE_BUFFER, klog_log(s, m)
      PROVE  \E n \in 1 .. MAX_LINE_BYTES : LogsLine(n)
  <2>. DEFINE n == LINE_OVERHEAD + Digits(g_klog_lines + 1) + (IF s = 0 THEN 4 ELSE s) + m
  <2>1. n \in 1 .. MAX_LINE_BYTES
    <3>1. g_klog_lines + 1 \in Nat
      BY DEF LogInv
    <3>. QED
      BY <1>1, <3>1, LineLength
  <2>2. LogsLine(n)
    BY <1>1 DEF klog_log, LogsLine
  <2>. HIDE DEF n
  <2>. QED
    BY <2>1, <2>2
<1>2. TextLengths \subseteq Nat
  BY KernelLogAssumption
<1>3. CASE \E s, m \in TextLengths : klog_log(s, m)
  BY <1>1, <1>2, <1>3
<1>4. ASSUME NEW p \in TextLengths, NEW d \in TextLengths, NEW hex \in BOOLEAN,
             klog_log_u32(1, p, d + 1, hex)
      PROVE  \E n \in 1 .. MAX_LINE_BYTES : LogsLine(n)
  <2>. DEFINE text == (IF p = 0 THEN 0 ELSE p + 1) + (IF hex THEN 2 ELSE 0) + (d + 1)
              m == IF text < LINE_BUFFER THEN text ELSE LINE_BUFFER - 1
  <2>1. klog_log(1, m)
    BY <1>4 DEF klog_log_u32
  <2>2. text \in Nat
    BY <1>2
  <2>. HIDE DEF text
  <2>3. m \in Nat /\ m < LINE_BUFFER
    BY <2>2, Constants
  <2>. HIDE DEF m
  <2>. QED
    BY <1>1, <2>1, <2>3
<1>. QED
  BY <1>3, <1>4

(* A line on the ring is the same line on the log. *)
LEMMA LineRefines ==
  ASSUME LogInv, NEW n \in 1 .. MAX_LINE_BYTES, LogsLine(n)
  PROVE  LogInv' /\ Log!Log(n)
<1>. DEFINE g == PutLine(n)
            s == g_klog_size
            line == [j \in 1 .. n |-> <<g_klog_lines', j>>]
            X == {ByteAt(Ring, i) : i \in 1 .. s} \cup {<<g_klog_lines', j>> : j \in 1 .. n}
            T == s + n
            cat == Kept \o line
<1>1. /\ g_klog_lines' = g_klog_lines + 1
      /\ g_klog_ring' = g.ring /\ g_klog_head' = g.head /\ g_klog_size' = g.size
  BY DEF LogsLine
<1>2. s \in 0 .. C /\ n \in Nat /\ n >= 1 /\ C \in Nat /\ C > 0 /\ RingOK(Ring)
      /\ g_klog_lines \in Nat
  BY Constants DEF LogInv, RingOK, Ring
<1>3. /\ RingOK(g)
      /\ g.size = IF s + n < C THEN s + n ELSE C
      /\ \A i \in 1 .. g.size, j \in Int :
           j = s + n - g.size + i => ByteAt(g, i) = Logged(j)
  BY <1>2, PutLineFacts
<1>. HIDE DEF g
<1>4. RingOK(Ring') /\ \A i : ByteAt(Ring', i) = ByteAt(g, i)
  BY <1>1, <1>3 DEF RingOK, Ring, ByteAt, Place
<1>5. LogInv'
  <2>1. RingOK(Ring)'
    BY <1>4 DEF RingOK
  <2>. QED
    BY <1>1, <1>2, <2>1 DEF LogInv
<1>6. Kept' = [i \in 1 .. g.size |-> ByteAt(g, i)]
  <2>1. Kept' = [i \in 1 .. g_klog_size' |-> ByteAt(Ring', i)]
    BY <1>5, KeptNextIs
  <2>. QED
    BY <1>1, <1>4, <2>1
<1>7. Kept \in Seq(X) /\ Len(Kept) = s /\ \A j \in 1 .. s : Kept[j] = Logged(j)
  <2>1. Kept = [i \in 1 .. s |-> ByteAt(Ring, i)]
    BY KeptIs
  <2>2. Kept \in [1 .. s -> X]
    BY <2>1
  <2>3. \A j \in 1 .. s : Kept[j] = Logged(j)
    BY <1>2, <2>1 DEF Logged
  <2>. HIDE DEF X
  <2>. QED
    BY <1>2, <2>2, <2>3
<1>8. line \in Seq(X) /\ Len(line) = n /\ \A j \in 1 .. n : line[j] = Logged(s + j)
  <2>1. line \in [1 .. n -> X]
    OBVIOUS
  <2>2. ASSUME NEW j \in 1 .. n PROVE line[j] = Logged(s + j)
    <3>1. ~(s + j <= s) /\ (s + j) - s = j
      BY <1>2
    <3>. QED
      BY <1>1, <3>1 DEF Logged
  <2>. HIDE DEF X, line
  <2>. QED
    BY <1>2, <2>1, <2>2
<1>. HIDE DEF X, line
<1>9. cat \in Seq(X) /\ Len(cat) = T /\ \A j \in 1 .. T : cat[j] = Logged(j)
  <2>. DEFINE k == Kept
  <2>. HIDE DEF k
  <2>1. k \in Seq(X) /\ line \in Seq(X) /\ Len(k) = s /\ Len(line) = n
    BY <1>7, <1>8 DEF k
  <2>. HIDE DEF s
  <2>2. k \o line \in Seq(X) /\ Len(k \o line) = s + n
    BY <2>1
  <2>3. ASSUME NEW j \in 1 .. (s + n) PROVE (k \o line)[j] = Logged(j)
    <3>1. (k \o line)[j] = IF j <= s THEN k[j] ELSE line[j - s]
      BY <1>2, <2>1
    <3>2. CASE j <= s
      BY <1>2, <1>7, <3>1, <3>2 DEF k
    <3>3. CASE ~(j <= s)
      <4>1. j - s \in 1 .. n /\ s + (j - s) = j
        BY <1>2, <3>3
      <4>. QED
        BY <1>8, <3>1, <3>3, <4>1
    <3>. QED
      BY <3>2, <3>3
  <2>. QED
    BY <2>2, <2>3 DEF k, s
<1>. HIDE DEF cat
<1>10. /\ Log!Newest(cat) \in Seq(X) /\ Len(Log!Newest(cat)) = g.size
       /\ \A i \in 1 .. g.size : Log!Newest(cat)[i] = cat[T - g.size + i]
  <2>. DEFINE a == IF T > C THEN T - C + 1 ELSE 1
  <2>1. /\ T \in Nat /\ a = T - g.size + 1 /\ a \in 1 .. (T + 1) /\ g.size \in 1 .. C
        /\ T - a + 1 = g.size /\ a <= T
    BY <1>2, <1>3
  <2>2. Log!Newest(cat) = SubSeq(cat, a, T)
    BY <1>9 DEF Log!Newest, C
  <2>. HIDE DEF a, T
  <2>3. /\ SubSeq(cat, a, T) \in Seq(X) /\ Len(SubSeq(cat, a, T)) = T - a + 1
        /\ \A i \in 1 .. (T - a + 1) : SubSeq(cat, a, T)[i] = cat[a + i - 1]
    <3>1. a \in 1 .. T
      BY <2>1
    <3>2. cat \in Seq(X) /\ Len(cat) = T
      BY <1>9
    <3>. QED
      BY <3>1, <3>2, RestOf
  <2>4. \A i \in 1 .. g.size : a + i - 1 = T - g.size + i
    BY <2>1, Constants
  <2>. QED
    BY <2>1, <2>2, <2>3, <2>4
<1>11. Kept' = Log!Newest(cat)
  <2>1. ASSUME NEW i \in 1 .. g.size PROVE cat[T - g.size + i] = ByteAt(g, i)
    <3>. DEFINE j == T - g.size + i
    <3>1. j \in 1 .. T
      BY <1>2, <1>3
    <3>2. j \in Int /\ j = s + n - g.size + i
      BY <1>2, <1>3
    <3>. HIDE DEF j
    <3>3. cat[j] = Logged(j)
      BY <1>9, <3>1
    <3>4. ByteAt(g, i) = Logged(j)
      BY <1>3, <3>2
    <3>. QED
      BY <3>3, <3>4 DEF j
  <2>. DEFINE w == Log!Newest(cat)
  <2>2. w \in Seq(X) /\ Len(w) = g.size /\ \A i \in 1 .. g.size : w[i] = ByteAt(g, i)
    BY <1>10, <2>1
  <2>. HIDE DEF w
  <2>3. w = [i \in 1 .. g.size |-> ByteAt(g, i)]
    BY <2>2
  <2>. QED
    BY <1>6, <2>3 DEF w
<1>. QED
  BY <1>1, <1>5, <1>11 DEF Log!Log, cat, line

LEMMA DmesgRefines ==
  ASSUME LogInv, NEW c \in BOOLEAN, cmd_dmesg(c)
  PROVE  LogInv' /\ (Log!Clear \/ UNCHANGED <<Kept, g_klog_lines>>)
<1>1. CASE c
  <2>1. /\ g_klog_ring' = [i \in 0 .. (C - 1) |-> Zero]
        /\ g_klog_head' = 0 /\ g_klog_size' = 0 /\ UNCHANGED g_klog_lines
    BY <1>1 DEF cmd_dmesg, klog_clear, C
  <2>2. LogInv'
    BY <2>1, Constants DEF LogInv, RingOK, Ring
  <2>3. Kept' = [i \in 1 .. g_klog_size' |-> ByteAt(Ring', i)]
    BY <2>2, KeptNextIs
  <2>4. Kept' = <<>>
    BY <2>1, <2>3
  <2>. QED
    BY <2>1, <2>2, <2>4 DEF Log!Clear
<1>2. CASE ~c
  <2>1. UNCHANGED <<g_klog_ring, g_klog_head, g_klog_size, g_klog_lines>>
    BY <1>2 DEF cmd_dmesg, ringVars
  <2>. QED
    BY <2>1 DEF LogInv, RingOK, Ring, Kept, klog_read
<1>. QED
  BY <1>1, <1>2

LEMMA LogInductive == Spec => []LogInv
<1>1. klog_init => LogInv
  BY Constants DEF klog_init, LogInv, RingOK, Ring, C
<1>2. LogInv /\ [Next]_vars => LogInv'
  <2>. SUFFICES ASSUME LogInv, [Next]_vars PROVE LogInv'
    OBVIOUS
  <2>1. CASE \/ \E s, m \in TextLengths : klog_log(s, m)
             \/ \E p, d \in TextLengths, hex \in BOOLEAN : klog_log_u32(1, p, d + 1, hex)
    BY <2>1, EveryLine, LineRefines
  <2>2. CASE \E c \in BOOLEAN : cmd_dmesg(c)
    BY <2>2, DmesgRefines
  <2>3. CASE UNCHANGED vars
    BY <2>3 DEF vars, ringVars, LogInv, RingOK, Ring
  <2>. QED
    BY <2>1, <2>2, <2>3 DEF Next
<1>. QED
  BY <1>1, <1>2, PTL DEF Spec

(* The ring implements the bounded log, for every capacity and all lengths *)
(* of lines: what klog_read can return is exactly the newest bytes that    *)
(* fit, in order, also when one line is longer than the whole ring, and    *)
(* klog_clear forgets all of them.                                         *)
THEOREM RingKeepsNewest == Spec => KeepsNewest
<1>1. klog_init => Log!Init
  <2>. SUFFICES ASSUME klog_init PROVE Log!Init
    OBVIOUS
  <2>1. LogInv
    BY Constants DEF klog_init, LogInv, RingOK, Ring, C
  <2>2. Kept = <<>>
    BY <2>1, KeptIs DEF klog_init
  <2>. QED
    BY <2>2 DEF klog_init, Log!Init
<1>2. LogInv /\ [Next]_vars => [Log!Next]_<<Kept, g_klog_lines>>
  <2>. SUFFICES ASSUME LogInv, [Next]_vars PROVE [Log!Next]_<<Kept, g_klog_lines>>
    OBVIOUS
  <2>1. CASE \/ \E s, m \in TextLengths : klog_log(s, m)
             \/ \E p, d \in TextLengths, hex \in BOOLEAN : klog_log_u32(1, p, d + 1, hex)
    <3>1. PICK n \in 1 .. MAX_LINE_BYTES : LogsLine(n)
      BY <2>1, EveryLine
    <3>. QED
      BY <3>1, LineRefines DEF Log!Next
  <2>2. CASE \E c \in BOOLEAN : cmd_dmesg(c)
    BY <2>2, DmesgRefines DEF Log!Next
  <2>3. CASE UNCHANGED vars
    BY <2>3 DEF vars, ringVars, Kept, klog_read
  <2>. QED
    BY <2>1, <2>2, <2>3 DEF Next
<1>. QED
  BY <1>1, <1>2, LogInductive, PTL DEF Spec, KeepsNewest, Log!Spec

(* dmesg prints everything the log holds or says that it does not, so with *)
(* -c nothing is discarded unseen and unannounced.                         *)
THEOREM DmesgTellsAll == Spec => DmesgHonest
<1>1. ASSUME LogInv, NEW c \in BOOLEAN, cmd_dmesg(c), ~truncated'
      PROVE  dump' = Kept
  <2>. DEFINE B == DMESG_PRINT_BUFFER
              n == IF g_klog_size > B - 1 THEN B - 1 ELSE g_klog_size
  <2>1. dump' = klog_read(B) /\ truncated' = (dump' # <<>> /\ SaysTruncated)
    BY <1>1 DEF cmd_dmesg
  <2>2. g_klog_size \in Nat /\ B \in Nat /\ B > 1
    BY <1>1, Constants DEF LogInv, RingOK, Ring
  <2>3. dump' = [i \in 1 .. n |-> ByteAt(Ring, i)]
    BY <2>1, ReadIs
  <2>4. Kept = [i \in 1 .. g_klog_size |-> ByteAt(Ring, i)]
    BY <1>1, KeptIs
  <2>5. CASE dump' = <<>>
    <3>1. DOMAIN dump' = 1 .. n
      BY <2>3
    <3>2. n \in Nat
      BY <2>2
    <3>. HIDE DEF n
    <3>3. n = 0
      <4>1. 1 \notin 1 .. n
        BY <2>5, <3>1
      <4>. QED
        BY <3>2, <4>1
    <3>4. g_klog_size = n
      BY <2>2, <3>3 DEF n
    <3>. QED
      BY <2>3, <2>4, <3>4
  <2>6. CASE ~SaysTruncated
    <3>1. n = g_klog_size
      BY <2>2, <2>6 DEF SaysTruncated
    <3>. QED
      BY <2>3, <2>4, <3>1
  <2>. QED
    BY <1>1, <2>1, <2>5, <2>6
<1>2. LogInv => [\A c \in BOOLEAN : cmd_dmesg(c) => truncated' \/ dump' = Kept]_vars
  BY <1>1
<1>. QED
  BY <1>2, LogInductive, PTL DEF DmesgHonest
=============================================================================
