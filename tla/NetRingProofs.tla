--------------------------- MODULE NetRingProofs ---------------------------
(***************************************************************************)
(* For every size of the ring and every sequence of frames: the driver's   *)
(* page numbers stay inside the ring (PointersSafe), and until the card    *)
(* reports an overrun the frames it accepted are handed on whole, once     *)
(* each and in the order of their arrival (RingIsQueue).                   *)
(***************************************************************************)
EXTENDS NetRing, TLAPS

(* The pages still to be taken, and their number. *)
Used == Distance(FirstPage, curr)
InUse == {p \in Pages : Distance(FirstPage, p) < Used}

(* The place of the first page of the frame that page p belongs to. *)
StartOf(p) == Distance(FirstPage, p) - ring[p].i

(* What page p holds is a page of a frame that lies in the pages in use. *)
PageOK(p) ==
  /\ ring[p].f \in 1 .. arrived
  /\ ring[p].n \in Nat /\ ring[p].i \in 0 .. (ring[p].n - 1)
  /\ 0 <= StartOf(p) /\ StartOf(p) + ring[p].n <= Used
  /\ ring[p].next = After(p, ring[p].n - ring[p].i)

(* Frames do not overlap, have no gaps, and lie in the order of arrival. *)
Ordered(p, q) ==
  /\ Distance(FirstPage, p) <= Distance(FirstPage, q) => ring[p].f <= ring[q].f
  /\ ring[p].f = ring[q].f => StartOf(p) = StartOf(q) /\ ring[p].n = ring[q].n
  /\ StartOf(p) <= Distance(FirstPage, q) /\ Distance(FirstPage, q) < StartOf(p) + ring[p].n
       => ring[p].f = ring[q].f

(* BNRY is behind the frame that is being taken, and that is behind CURR.  *)
BehindCurr ==
  pc = "advance" =>
    Distance(PageAfter(bnry), next_page) + Used = Distance(PageAfter(bnry), curr)

Chain ==
  /\ BehindCurr
  /\ \A p \in InUse : PageOK(p)
  /\ \A p, q \in InUse : Ordered(p, q)

RingTypeOK ==
  /\ PointersInRing
  /\ arrived \in Nat
  /\ pc \in {"out", "loop", "advance"}
  /\ ring \in [Pages -> [f : Nat, i : Nat, n : Nat, next : Nat]]

RingInv == RingTypeOK /\ (ovw => lost) /\ (~lost => Chain)
-----------------------------------------------------------------------------
(* The numbers. *)
LEMMA PageNumbers ==
  /\ NE_RX_START_PAGE \in Nat /\ NE_RX_STOP_PAGE \in Nat
  /\ RING \in Nat /\ RING > 1
  /\ NE_RX_STOP_PAGE = NE_RX_START_PAGE + RING
  /\ \A p : p \in Pages <=> p \in Nat /\ NE_RX_START_PAGE <= p /\ p < NE_RX_STOP_PAGE
BY NetRingAssumption DEF Pages, RING

LEMMA DistanceFacts ==
  ASSUME NEW p \in Pages, NEW q \in Pages
  PROVE  /\ Distance(p, q) \in Nat /\ Distance(p, q) < RING
         /\ Distance(p, q) = 0 <=> p = q
         /\ After(p, Distance(p, q)) = q
BY PageNumbers DEF Distance, After

LEMMA AfterFacts ==
  ASSUME NEW p \in Pages, NEW k \in Nat, k < RING
  PROVE  After(p, k) \in Pages /\ Distance(p, After(p, k)) = k
BY PageNumbers DEF Distance, After

LEMMA PageAfterFacts ==
  ASSUME NEW p \in Pages
  PROVE  PageAfter(p) \in Pages /\ PageAfter(p) = After(p, 1)
BY PageNumbers DEF PageAfter, After

(* Distances from a add up as long as the sum stays in the ring. *)
LEMMA DistanceSplits ==
  ASSUME NEW a \in Pages, NEW b \in Pages, NEW c \in Pages
  PROVE  /\ Distance(a, b) <= Distance(a, c) =>
              Distance(b, c) = Distance(a, c) - Distance(a, b)
         /\ Distance(a, b) > Distance(a, c) =>
              Distance(b, c) = Distance(a, c) - Distance(a, b) + RING
BY PageNumbers DEF Distance

-----------------------------------------------------------------------------
(* Types, and with them PointersInRing. *)
LEMMA InitTypes == Init => RingTypeOK
BY PageNumbers DEF Init, RingTypeOK, PointersInRing, Blank

LEMMA ReceiveTypes ==
  ASSUME RingTypeOK, NEW n \in PageCounts, Receive(n)
  PROVE  RingTypeOK'
<1>1. n \in Nat /\ n < RING
  BY NetRingAssumption, DistanceFacts, PageNumbers
     DEF Receive, Free, RingTypeOK, PointersInRing
<1>2. After(curr, n) \in Pages /\ After(curr, n) \in Nat
  BY <1>1, AfterFacts, PageNumbers DEF RingTypeOK, PointersInRing
<1>3. \A p \in Pages : Distance(curr, p) \in Nat
  BY DistanceFacts DEF RingTypeOK, PointersInRing
<1>4. ring' \in [Pages -> [f : Nat, i : Nat, n : Nat, next : Nat]]
  BY <1>1, <1>2, <1>3 DEF Receive, RingTypeOK
<1>. QED
  BY <1>2, <1>4 DEF Receive, RingTypeOK, PointersInRing

LEMMA TakeFrameTypes ==
  ASSUME RingTypeOK, TakeFrame
  PROVE  RingTypeOK'
<1>1. PageAfter(bnry) \in Pages /\ PageAfter(PageAfter(bnry)) \in Pages
  BY PageAfterFacts DEF RingTypeOK, PointersInRing
<1>2. \A x : CheckNext(x, PageAfter(bnry)) \in Pages
  BY <1>1 DEF CheckNext, RingTypeOK, PointersInRing
<1>. QED
  BY <1>2 DEF TakeFrame, RingTypeOK, PointersInRing

LEMMA StepTypes == RingTypeOK /\ [Next]_vars => RingTypeOK'
<1>. SUFFICES ASSUME RingTypeOK, [Next]_vars PROVE RingTypeOK'
  OBVIOUS
<1>1. ASSUME NEW n \in PageCounts, Receive(n) PROVE RingTypeOK'
  BY <1>1, ReceiveTypes
<1>2. ASSUME NEW n \in PageCounts, Refuse(n) PROVE RingTypeOK'
  BY <1>2 DEF Refuse, RingTypeOK, PointersInRing
<1>3. CASE network_poll
  BY <1>3, PageNumbers DEF network_poll, RingTypeOK, PointersInRing
<1>4. CASE TakeFrame
  BY <1>4, TakeFrameTypes
<1>5. CASE SetBnry
  BY <1>5, PageNumbers DEF SetBnry, RingTypeOK, PointersInRing
<1>6. CASE PollEnds
  BY <1>6 DEF PollEnds, RingTypeOK, PointersInRing
<1>7. CASE UNCHANGED vars
  BY <1>7 DEF vars, RingTypeOK, PointersInRing
<1>. QED
  BY <1>1, <1>2, <1>3, <1>4, <1>5, <1>6, <1>7 DEF Next, Driver

(* The checks of next_page and new_bnry in ne_receive_packets keep every   *)
(* page number the driver computes inside the ring, whatever bytes it      *)
(* takes for a header.                                                     *)
THEOREM PointersSafe == Spec => []PointersInRing
<1>1. RingTypeOK => PointersInRing
  BY DEF RingTypeOK
<1>. QED
  BY <1>1, InitTypes, StepTypes, PTL DEF Spec

-----------------------------------------------------------------------------
(* The inductive invariant. *)
LEMMA FirstInRing ==
  ASSUME RingTypeOK
  PROVE  /\ FirstPage \in Pages
         /\ Used \in Nat /\ Used < RING
         /\ \A p \in Pages : Distance(FirstPage, p) \in Nat /\ Distance(FirstPage, p) < RING
<1>1. FirstPage \in Pages
  BY PageAfterFacts DEF FirstPage, RingTypeOK, PointersInRing
<1>. QED
  BY <1>1, DistanceFacts DEF Used, RingTypeOK, PointersInRing

LEMMA InitRing == Init => RingInv
<1>. SUFFICES ASSUME Init PROVE RingInv
  OBVIOUS
<1>1. RingTypeOK
  BY InitTypes
<1>2. Used = 0
  BY PageNumbers DEF Init, Used, FirstPage, PageAfter, Distance
<1>3. InUse = {}
  BY <1>1, <1>2, FirstInRing DEF InUse
<1>. QED
  BY <1>1, <1>3 DEF RingInv, Chain, BehindCurr, Init

(* What the card may fill ends before the pages that are still needed. *)
LEMMA FreeFits ==
  ASSUME RingTypeOK, BehindCurr
  PROVE  /\ Free \in Nat
         /\ Used + Free < RING
         /\ pc = "advance" => Distance(PageAfter(bnry), next_page) + Used + Free < RING
<1>. DEFINE B == PageAfter(bnry)
<1>1. bnry \in Pages /\ curr \in Pages /\ next_page \in Pages /\ B \in Pages
  BY PageAfterFacts DEF RingTypeOK, PointersInRing
<1>2. Distance(B, bnry) = RING - 1
  BY <1>1, PageNumbers DEF PageAfter, Distance
<1>3. Distance(B, curr) \in Nat /\ Distance(B, curr) <= RING - 1
  BY <1>1, DistanceFacts, PageNumbers
<1>4. Free = RING - 1 - Distance(B, curr)
  BY <1>1, <1>2, <1>3, DistanceSplits DEF Free
<1>5. CASE pc = "advance"
  <2>1. Distance(B, next_page) \in Nat /\ Used \in Nat
    BY <1>1, DistanceFacts, FirstInRing
  <2>2. Distance(B, next_page) + Used = Distance(B, curr)
    BY <1>5 DEF BehindCurr
  <2>. QED
    BY <1>3, <1>4, <2>1, <2>2, PageNumbers
<1>6. CASE pc # "advance"
  <2>1. Used = Distance(B, curr)
    BY <1>6 DEF Used, FirstPage
  <2>. QED
    BY <1>3, <1>4, <1>6, <2>1, PageNumbers
<1>. QED
  BY <1>5, <1>6

(* What Receive does, seen from the first page in use. *)
LEMMA ReceiveShape ==
  ASSUME RingTypeOK, Chain, NEW n \in PageCounts, Receive(n)
  PROVE  /\ n \in Nat /\ n > 0
         /\ FirstPage' = FirstPage
         /\ Used' = Used + n
         /\ Used + n < RING
         /\ pc = "advance" => Distance(PageAfter(bnry), next_page) + Used + n < RING
         /\ \A p \in Pages : LET d == Distance(FirstPage, p) IN
              ring'[p] = IF Used <= d /\ d < Used + n
                         THEN [f |-> arrived + 1, i |-> d - Used, n |-> n,
                               next |-> After(p, n - (d - Used))]
                         ELSE ring[p]
<1>1. n \in Nat /\ n > 0
  BY NetRingAssumption
<1>2. Used \in Nat /\ Free \in Nat /\ n <= Free /\ Used + n < RING
  BY <1>1, FirstInRing, FreeFits, PageNumbers DEF Chain, Receive
<1>3. pc = "advance" => Distance(PageAfter(bnry), next_page) + Used + n < RING
  <2>1. pc = "advance" => Distance(PageAfter(bnry), next_page) \in Nat
    BY PageAfterFacts, DistanceFacts DEF RingTypeOK, PointersInRing
  <2>. QED
    BY <1>1, <1>2, <2>1, FreeFits, PageNumbers DEF Chain
<1>4. FirstPage' = FirstPage
  BY DEF Receive, FirstPage, PageAfter
<1>5. FirstPage \in Pages /\ curr \in Pages
  BY FirstInRing DEF RingTypeOK, PointersInRing
<1>6. curr' = After(curr, n) /\ curr' \in Pages /\ Distance(curr, curr') = n
  BY <1>1, <1>2, <1>5, AfterFacts, PageNumbers DEF Receive
<1>7. Used' = Used + n
  <2>1. Used' = Distance(FirstPage, curr')
    BY <1>4 DEF Used
  <2>2. Used = Distance(FirstPage, curr)
    BY DEF Used
  <2>3. Distance(FirstPage, curr') \in Nat /\ Distance(FirstPage, curr') < RING
    BY <1>5, <1>6, DistanceFacts
  <2>. QED
    BY <1>1, <1>2, <1>5, <1>6, <2>1, <2>2, <2>3, DistanceSplits, PageNumbers
<1>8. ASSUME NEW p \in Pages
      PROVE  ring'[p] = IF Used <= Distance(FirstPage, p) /\ Distance(FirstPage, p) < Used + n
                        THEN [f |-> arrived + 1, i |-> Distance(FirstPage, p) - Used, n |-> n,
                              next |-> After(p, n - (Distance(FirstPage, p) - Used))]
                        ELSE ring[p]
  <2>. DEFINE d == Distance(FirstPage, p)
              k == Distance(curr, p)
  <2>1. d \in Nat /\ d < RING /\ k \in Nat /\ k < RING
    BY <1>5, DistanceFacts
  <2>2. Used <= d => k = d - Used
    BY <1>5, DistanceSplits DEF Used
  <2>3. Used > d => k = d - Used + RING
    BY <1>5, DistanceSplits DEF Used
  <2>4. ring'[p] = IF k < n THEN [f |-> arrived + 1, i |-> k, n |-> n, next |-> After(curr, n)]
                   ELSE ring[p]
    BY DEF Receive
  <2>5. k < n <=> Used <= d /\ d < Used + n
    BY <1>1, <1>2, <2>1, <2>2, <2>3, PageNumbers
  <2>6. k < n => After(curr, n) = After(p, n - k)
    BY <1>1, <1>2, <1>5, <2>1, PageNumbers DEF After, Distance
  <2>. QED
    BY <2>2, <2>4, <2>5, <2>6
<1>. QED
  BY <1>1, <1>2, <1>3, <1>4, <1>7, <1>8

(* A received frame lies behind all others and has the greatest number. *)
LEMMA ReceiveChain ==
  ASSUME RingTypeOK, Chain, NEW n \in PageCounts, Receive(n)
  PROVE  Chain' /\ {ring'[p].f : p \in InUse'} = {ring[p].f : p \in InUse} \cup {arrived'}
<1>. DEFINE D(p) == Distance(FirstPage, p)
<1>1. /\ n \in Nat /\ n > 0 /\ Used \in Nat /\ Used + n < RING /\ arrived \in Nat
      /\ FirstPage' = FirstPage /\ Used' = Used + n /\ arrived' = arrived + 1
      /\ \A p \in Pages : D(p) \in Nat
  BY ReceiveShape, FirstInRing DEF RingTypeOK, Receive
<1>2. \A p : p \in InUse <=> p \in Pages /\ D(p) < Used
  BY DEF InUse
<1>3. \A p : p \in InUse' <=> p \in Pages /\ D(p) < Used + n
  BY <1>1 DEF InUse
<1>4. ASSUME NEW p \in InUse
      PROVE  /\ p \in Pages /\ D(p) \in Nat /\ D(p) < Used
             /\ ring'[p] = ring[p]
             /\ ring[p].f \in Nat /\ ring[p].f <= arrived /\ ring[p].f > 0
             /\ ring[p].n \in Nat /\ ring[p].i \in Nat /\ ring[p].i < ring[p].n
             /\ 0 <= D(p) - ring[p].i /\ D(p) - ring[p].i + ring[p].n <= Used
             /\ ring[p].next = After(p, ring[p].n - ring[p].i)
  <2>1. p \in Pages /\ D(p) \in Nat /\ D(p) < Used
    BY <1>1, <1>2
  <2>2. ring'[p] = ring[p]
    <3>1. ~(Used <= D(p) /\ D(p) < Used + n)
      BY <1>1, <2>1
    <3>. QED
      BY <2>1, <3>1, ReceiveShape
  <2>3. PageOK(p)
    BY DEF Chain
  <2>. QED
    BY <1>1, <2>1, <2>2, <2>3 DEF PageOK, StartOf
<1>5. ASSUME NEW p \in InUse', p \notin InUse
      PROVE  /\ p \in Pages /\ D(p) \in Nat /\ Used <= D(p) /\ D(p) < Used + n
             /\ ring'[p].f = arrived + 1 /\ ring'[p].i = D(p) - Used /\ ring'[p].n = n
             /\ ring'[p].next = After(p, n - (D(p) - Used))
  <2>1. p \in Pages /\ D(p) \in Nat /\ Used <= D(p) /\ D(p) < Used + n
    BY <1>1, <1>2, <1>3, <1>5
  <2>2. ring'[p] = [f |-> arrived + 1, i |-> D(p) - Used, n |-> n,
                    next |-> After(p, n - (D(p) - Used))]
    BY <2>1, ReceiveShape
  <2>. QED
    BY <2>1, <2>2
<1>6. ASSUME NEW p \in InUse' PROVE PageOK(p)'
  <2>. SUFFICES /\ ring'[p].f \in 1 .. (arrived + 1)
                /\ ring'[p].n \in Nat /\ ring'[p].i \in 0 .. (ring'[p].n - 1)
                /\ 0 <= D(p) - ring'[p].i /\ D(p) - ring'[p].i + ring'[p].n <= Used + n
                /\ ring'[p].next = After(p, ring'[p].n - ring'[p].i)
    BY <1>1 DEF PageOK, StartOf
  <2>1. CASE p \in InUse
    <3>. HIDE DEF D
    <3>. QED
      BY <1>1, <1>4, <2>1
  <2>2. CASE p \notin InUse
    <3>. HIDE DEF D
    <3>. QED
      BY <1>1, <1>5, <2>2
  <2>. QED
    BY <2>1, <2>2
<1>7. ASSUME NEW p \in InUse', NEW q \in InUse' PROVE Ordered(p, q)'
  <2>. DEFINE S == D(p) - ring'[p].i
              T == D(q) - ring'[q].i
  <2>. SUFFICES /\ D(p) <= D(q) => ring'[p].f <= ring'[q].f
                /\ ring'[p].f = ring'[q].f => S = T /\ ring'[p].n = ring'[q].n
                /\ S <= D(q) /\ D(q) < S + ring'[p].n => ring'[p].f = ring'[q].f
    BY <1>1 DEF Ordered, StartOf
  <2>2. CASE p \in InUse /\ q \in InUse
    <3>1. Ordered(p, q)
      BY <2>2 DEF Chain
    <3>2. ring'[p] = ring[p] /\ ring'[q] = ring[q]
      BY <1>4, <2>2
    <3>. QED
      BY <3>1, <3>2 DEF Ordered, StartOf
  <2>3. CASE p \in InUse /\ q \notin InUse
    <3>. HIDE DEF D
    <3>1. /\ ring'[p].f \in Nat /\ ring'[p].f <= arrived
          /\ D(p) - ring'[p].i + ring'[p].n <= Used
          /\ D(p) \in Nat /\ ring'[p].i \in Nat /\ ring'[p].n \in Nat
      BY <1>4, <2>3
    <3>2. ring'[q].f = arrived + 1 /\ D(q) \in Nat /\ Used <= D(q)
      BY <1>5, <2>3
    <3>. QED
      BY <1>1, <3>1, <3>2
  <2>4. CASE p \notin InUse /\ q \in InUse
    <3>. HIDE DEF D
    <3>1. /\ ring'[q].f \in Nat /\ ring'[q].f <= arrived
          /\ D(q) \in Nat /\ D(q) < Used
      BY <1>4, <2>4
    <3>2. ring'[p].f = arrived + 1 /\ D(p) \in Nat /\ Used <= D(p) /\ ring'[p].i = D(p) - Used
      BY <1>5, <2>4
    <3>. QED
      BY <1>1, <3>1, <3>2
  <2>5. CASE p \notin InUse /\ q \notin InUse
    <3>. HIDE DEF D
    <3>1. ring'[p].f = arrived + 1 /\ D(p) \in Nat /\ ring'[p].i = D(p) - Used /\ ring'[p].n = n
      BY <1>5, <2>5
    <3>2. ring'[q].f = arrived + 1 /\ D(q) \in Nat /\ ring'[q].i = D(q) - Used /\ ring'[q].n = n
      BY <1>5, <2>5
    <3>. QED
      BY <1>1, <3>1, <3>2
  <2>. QED
    BY <2>2, <2>3, <2>4, <2>5
<1>8. BehindCurr'
  <2>. SUFFICES ASSUME pc' = "advance"
                PROVE  Distance(PageAfter(bnry'), next_page') + Used' = Distance(PageAfter(bnry'), curr')
    BY DEF BehindCurr
  <2>. DEFINE B == PageAfter(bnry)
  <2>1. bnry' = bnry /\ next_page' = next_page /\ pc = "advance" /\ curr' = After(curr, n)
    BY DEF Receive
  <2>2. B \in Pages /\ curr \in Pages /\ next_page \in Pages
    BY PageAfterFacts DEF RingTypeOK, PointersInRing
  <2>3. Distance(B, next_page) + Used = Distance(B, curr)
    BY <2>1 DEF Chain, BehindCurr
  <2>4. Distance(B, next_page) \in Nat /\ Distance(B, curr) + n < RING
    BY <1>1, <2>1, <2>2, <2>3, ReceiveShape, DistanceFacts
  <2>5. curr' \in Pages /\ Distance(curr, curr') = n
    BY <1>1, <2>1, <2>2, AfterFacts, PageNumbers
  <2>6. Distance(B, curr') \in Nat /\ Distance(B, curr') < RING /\ Distance(B, curr) \in Nat
    BY <2>2, <2>5, DistanceFacts
  <2>7. Distance(B, curr') = Distance(B, curr) + n
    <3>1. CASE Distance(B, curr) <= Distance(B, curr')
      <4>1. n = Distance(B, curr') - Distance(B, curr)
        BY <2>2, <2>5, <3>1, DistanceSplits
      <4>. QED
        BY <2>6, <4>1
    <3>2. CASE Distance(B, curr) > Distance(B, curr')
      <4>1. n = Distance(B, curr') - Distance(B, curr) + RING
        BY <2>2, <2>5, <3>2, DistanceSplits
      <4>. QED
        BY <2>4, <2>6, <4>1, PageNumbers
    <3>. QED
      BY <2>6, <3>1, <3>2
  <2>. QED
    BY <1>1, <2>1, <2>3, <2>4, <2>6, <2>7
<1>9. {ring'[p].f : p \in InUse'} = {ring[p].f : p \in InUse} \cup {arrived'}
  <2>1. \A p \in InUse : p \in InUse' /\ ring'[p].f = ring[p].f
    <3>. SUFFICES ASSUME NEW p \in InUse PROVE p \in InUse' /\ ring'[p].f = ring[p].f
      OBVIOUS
    <3>1. p \in Pages /\ D(p) \in Nat /\ D(p) < Used /\ ring'[p] = ring[p]
      BY <1>4
    <3>. QED
      BY <1>1, <1>3, <3>1
  <2>2. \A p \in InUse' : p \notin InUse => ring'[p].f = arrived'
    BY <1>1, <1>5
  <2>3. curr \in InUse' /\ curr \notin InUse
    <3>1. curr \in Pages /\ D(curr) = Used
      BY DEF Used, RingTypeOK, PointersInRing
    <3>. QED
      BY <1>1, <1>2, <1>3, <3>1
  <2>. QED
    BY <2>1, <2>2, <2>3
<1>. QED
  BY <1>6, <1>7, <1>8, <1>9 DEF Chain

(* A step that moves neither CURR nor the first page in use. *)
LEMMA SameChain ==
  ASSUME RingTypeOK, Chain,
         FirstPage' = FirstPage, curr' = curr, ring' = ring,
         arrived' \in Nat, arrived <= arrived', BehindCurr'
  PROVE  Chain' /\ InUse' = InUse
<1>1. Used' = Used
  BY DEF Used
<1>2. InUse' = InUse
  BY <1>1 DEF InUse
<1>3. \A p \in InUse : PageOK(p)'
  <2>. SUFFICES ASSUME NEW p \in InUse PROVE PageOK(p)'
    OBVIOUS
  <2>1. PageOK(p)
    BY DEF Chain
  <2>2. ring'[p].f \in 1 .. arrived'
    BY <2>1 DEF PageOK, RingTypeOK
  <2>. QED
    BY <1>1, <2>1, <2>2 DEF PageOK, StartOf
<1>4. \A p, q \in InUse : Ordered(p, q)'
  <2>. SUFFICES ASSUME NEW p \in InUse, NEW q \in InUse PROVE Ordered(p, q)'
    OBVIOUS
  <2>1. Ordered(p, q)
    BY DEF Chain
  <2>. QED
    BY <2>1 DEF Ordered, StartOf
<1>. QED
  BY <1>2, <1>3, <1>4 DEF Chain

(* What the pages in use are, in numbers. *)
LEMMA ChainFacts ==
  ASSUME RingTypeOK, Chain, NEW p \in InUse
  PROVE  /\ p \in Pages /\ Distance(FirstPage, p) \in Nat /\ Distance(FirstPage, p) < Used
         /\ ring[p].f \in Nat /\ ring[p].f > 0 /\ ring[p].f <= arrived
         /\ ring[p].n \in Nat /\ ring[p].i \in Nat /\ ring[p].i < ring[p].n
         /\ 0 <= Distance(FirstPage, p) - ring[p].i
         /\ Distance(FirstPage, p) - ring[p].i + ring[p].n <= Used
         /\ ring[p].next = After(p, ring[p].n - ring[p].i)
<1>1. p \in Pages /\ Distance(FirstPage, p) < Used /\ Distance(FirstPage, p) \in Nat
  BY FirstInRing DEF InUse
<1>2. PageOK(p)
  BY DEF Chain
<1>. QED
  BY <1>1, <1>2 DEF PageOK, StartOf, RingTypeOK

LEMMA OrderFacts ==
  ASSUME Chain, NEW p \in InUse, NEW q \in InUse
  PROVE  /\ Distance(FirstPage, p) <= Distance(FirstPage, q) => ring[p].f <= ring[q].f
         /\ ring[p].f = ring[q].f =>
              /\ Distance(FirstPage, p) - ring[p].i = Distance(FirstPage, q) - ring[q].i
              /\ ring[p].n = ring[q].n
         /\ /\ Distance(FirstPage, p) - ring[p].i <= Distance(FirstPage, q)
            /\ Distance(FirstPage, q) < Distance(FirstPage, p) - ring[p].i + ring[p].n
            => ring[p].f = ring[q].f
BY DEF Chain, Ordered, StartOf

(* The page the driver takes next begins a frame, which is whole, and the  *)
(* frames behind it are later ones.                                        *)
LEMMA FirstFrame ==
  ASSUME RingTypeOK, Chain, FirstPage # curr
  PROVE  LET f == ring[FirstPage].f
             n == ring[FirstPage].n
         IN  /\ FirstPage \in InUse /\ ring[FirstPage].i = 0 /\ f \in Nat /\ f > 0
             /\ n \in Nat /\ n > 0 /\ n <= Used
             /\ ring[FirstPage].next = After(FirstPage, n)
             /\ \A p \in InUse : Distance(FirstPage, p) < n =>
                  ring[p].f = f /\ ring[p].i = Distance(FirstPage, p)
             /\ \A p \in InUse : Distance(FirstPage, p) >= n =>
                  f < ring[p].f /\ n <= Distance(FirstPage, p) - ring[p].i
<1>. DEFINE F == FirstPage
            f == ring[F].f
            n == ring[F].n
            D(p) == Distance(F, p)
<1>1. F \in Pages /\ D(F) = 0 /\ Used \in Nat /\ Used > 0 /\ Used < RING
  BY FirstInRing, DistanceFacts DEF Used, RingTypeOK, PointersInRing
<1>2. F \in InUse
  BY <1>1 DEF InUse
<1>3. /\ ring[F].i = 0 /\ f \in Nat /\ f > 0
      /\ n \in Nat /\ n > 0 /\ n <= Used
      /\ ring[F].next = After(F, n)
  BY <1>1, <1>2, ChainFacts
<1>4. ASSUME NEW p \in InUse, D(p) < n PROVE ring[p].f = f /\ ring[p].i = D(p)
  <2>1. D(p) \in Nat /\ ring[p].i \in Nat
    BY ChainFacts
  <2>2. ring[p].f = f
    BY <1>1, <1>2, <1>3, <1>4, <2>1, OrderFacts
  <2>3. D(p) - ring[p].i = 0
    BY <1>1, <1>2, <1>3, <2>2, OrderFacts
  <2>. QED
    BY <2>1, <2>2, <2>3
<1>5. ASSUME NEW p \in InUse, D(p) >= n PROVE f < ring[p].f /\ n <= D(p) - ring[p].i
  <2>1. /\ D(p) \in Nat /\ ring[p].i \in Nat /\ ring[p].n \in Nat /\ ring[p].f \in Nat
        /\ ring[p].i < ring[p].n /\ 0 <= D(p) - ring[p].i /\ D(p) < Used
    BY ChainFacts
  <2>2. f <= ring[p].f
    BY <1>1, <1>2, <2>1, OrderFacts
  <2>3. f # ring[p].f
    <3>. SUFFICES ASSUME f = ring[p].f PROVE FALSE
      OBVIOUS
    <3>1. D(F) - ring[F].i = D(p) - ring[p].i /\ n = ring[p].n
      BY <1>2, OrderFacts
    <3>. QED
      BY <1>1, <1>3, <1>5, <2>1, <3>1
  <2>4. ASSUME D(p) - ring[p].i < n PROVE FALSE
    <3>. DEFINE k == D(p) - ring[p].i
                q == After(F, k)
    <3>1. k \in Nat /\ k < n /\ k < Used /\ k < RING
      BY <1>1, <1>3, <2>1, <2>4, PageNumbers
    <3>2. q \in Pages /\ D(q) = k
      BY <1>1, <3>1, AfterFacts
    <3>3. q \in InUse
      BY <3>1, <3>2 DEF InUse
    <3>4. ring[q].f = f
      <4>1. D(q) < n
        BY <3>1, <3>2
      <4>. QED
        BY <1>4, <3>3, <4>1
    <3>5. ring[q].f = ring[p].f
      <4>1. k <= D(q) /\ D(q) < k + ring[p].n
        BY <2>1, <3>1, <3>2
      <4>. QED
        BY <3>3, <4>1, OrderFacts
    <3>. QED
      BY <2>3, <3>4, <3>5
  <2>. QED
    BY <1>3, <2>1, <2>2, <2>3, <2>4
<1>. QED
  BY <1>2, <1>3, <1>4, <1>5

(* The driver takes the first frame in use, and what is left is in order. *)
LEMMA TakeFrameChain ==
  ASSUME RingTypeOK, Chain, TakeFrame, ~lost
  PROVE  /\ Chain'
         /\ \E f : /\ f \in {ring[p].f : p \in InUse}
                   /\ \A g \in {ring[p].f : p \in InUse} : f <= g
                   /\ {ring[p].f : p \in InUse'} = {ring[p].f : p \in InUse} \ {f}
                   /\ handed' = Append(handed, f)
<1>. DEFINE F == FirstPage
            f == ring[F].f
            n == ring[F].n
            D(p) == Distance(F, p)
<1>1. /\ F = PageAfter(bnry) /\ F \in Pages /\ F # curr /\ curr \in Pages
      /\ Used \in Nat /\ Used < RING
      /\ \A p \in Pages : D(p) \in Nat /\ D(p) < RING
  BY FirstInRing DEF TakeFrame, FirstPage, RingTypeOK, PointersInRing
<1>2. /\ F \in InUse /\ ring[F].i = 0 /\ f \in Nat /\ f > 0
      /\ n \in Nat /\ n > 0 /\ n <= Used /\ n < RING
      /\ ring[F].next = After(F, n)
      /\ \A p \in InUse : D(p) < n => ring[p].f = f /\ ring[p].i = D(p)
      /\ \A p \in InUse : D(p) >= n => f < ring[p].f /\ n <= D(p) - ring[p].i
  <2>1. /\ F \in InUse /\ ring[F].i = 0 /\ f \in Nat /\ f > 0
        /\ n \in Nat /\ n > 0 /\ n <= Used
        /\ ring[F].next = After(F, n)
        /\ \A p \in InUse : D(p) < n => ring[p].f = f /\ ring[p].i = D(p)
        /\ \A p \in InUse : D(p) >= n => f < ring[p].f /\ n <= D(p) - ring[p].i
    BY <1>1, FirstFrame
  <2>. QED
    BY <1>1, <2>1, PageNumbers
<1>3. After(F, n) \in Pages /\ D(After(F, n)) = n /\ After(F, n) # F
  <2>1. After(F, n) \in Pages /\ D(After(F, n)) = n
    BY <1>1, <1>2, AfterFacts
  <2>2. D(F) = 0
    BY <1>1, DistanceFacts
  <2>. QED
    BY <1>2, <2>1, <2>2
<1>4. Headers(F) = {[next |-> After(F, n), ok |-> TRUE, n |-> n]}
  <2>1. ring[F] # Blank
    BY <1>2 DEF Blank
  <2>. QED
    BY <1>2, <2>1 DEF Headers
<1>5. PagesRead(F, n) = {After(F, k) : k \in 0 .. (n - 1)}
  BY DEF PagesRead, After
<1>6. Content(F, n) = f
  <2>1. ASSUME NEW k \in 0 .. (n - 1)
        PROVE  \E p \in PagesRead(F, n) : ring[p].f = f /\ ring[p].i = k
    <3>1. k \in Nat /\ k < n /\ k < RING /\ k < Used
      BY <1>1, <1>2, PageNumbers
    <3>2. After(F, k) \in Pages /\ D(After(F, k)) = k
      BY <1>1, <3>1, AfterFacts
    <3>3. After(F, k) \in InUse
      BY <3>1, <3>2 DEF InUse
    <3>4. ring[After(F, k)].f = f /\ ring[After(F, k)].i = k
      BY <1>2, <3>1, <3>2, <3>3
    <3>. QED
      BY <1>5, <3>4
  <2>. QED
    BY <2>1 DEF Content
<1>7. next_page' = After(F, n) /\ handed' = Append(handed, f)
  <2>1. PICK h \in Headers(F) : /\ next_page' = CheckNext(h.next, F)
                                /\ handed' = IF ~h.ok \/ lost THEN handed
                                             ELSE Append(handed, Content(F, h.n))
    BY <1>1 DEF TakeFrame
  <2>2. h.next = After(F, n) /\ h.ok = TRUE /\ h.n = n
    BY <1>4, <2>1
  <2>3. CheckNext(After(F, n), F) = After(F, n)
    BY <1>3 DEF CheckNext
  <2>. QED
    BY <1>6, <2>1, <2>2, <2>3
<1>8. /\ curr' = curr /\ bnry' = bnry /\ ring' = ring /\ arrived' = arrived
      /\ pc' = "advance" /\ FirstPage' = After(F, n)
  BY <1>7 DEF TakeFrame, FirstPage
<1>9. Used' = Used - n
  <2>1. D(curr) = Used /\ Used' = Distance(After(F, n), curr)
    BY <1>8 DEF Used
  <2>2. D(After(F, n)) <= D(curr)
    BY <1>2, <1>3, <2>1
  <2>3. Distance(After(F, n), curr) = D(curr) - D(After(F, n))
    BY <1>1, <1>3, <2>2, DistanceSplits
  <2>. QED
    BY <1>3, <2>1, <2>3
<1>10. \A p \in Pages : /\ n <= D(p) => Distance(FirstPage', p) = D(p) - n
                        /\ D(p) < n => Distance(FirstPage', p) = D(p) - n + RING
  BY <1>1, <1>3, <1>8, DistanceSplits
<1>11. \A p : p \in InUse' <=> p \in InUse /\ n <= D(p)
  <2>1. \A p : p \in InUse' <=> p \in Pages /\ Distance(FirstPage', p) < Used - n
    BY <1>9 DEF InUse
  <2>2. \A p : p \in InUse <=> p \in Pages /\ D(p) < Used
    BY DEF InUse
  <2>. QED
    BY <1>1, <1>2, <1>10, <2>1, <2>2, PageNumbers
<1>12. ASSUME NEW p \in InUse'
       PROVE  /\ p \in InUse /\ p \in Pages /\ D(p) \in Nat /\ n <= D(p)
              /\ Distance(FirstPage', p) = D(p) - n
              /\ StartOf(p)' = D(p) - ring[p].i - n
  <2>1. p \in InUse /\ n <= D(p)
    BY <1>11
  <2>2. p \in Pages /\ D(p) \in Nat /\ ring[p].i \in Nat
    BY <2>1, ChainFacts
  <2>3. Distance(FirstPage', p) = D(p) - n
    BY <1>10, <2>1, <2>2
  <2>4. StartOf(p)' = D(p) - n - ring[p].i
    BY <1>8, <2>3 DEF StartOf
  <2>. QED
    BY <1>2, <2>1, <2>2, <2>3, <2>4
<1>13. ASSUME NEW p \in InUse' PROVE PageOK(p)'
  <2>1. p \in InUse /\ n <= D(p) /\ D(p) \in Nat /\ StartOf(p)' = D(p) - ring[p].i - n
    BY <1>12
  <2>2. /\ ring[p].f \in Nat /\ ring[p].f > 0 /\ ring[p].f <= arrived
        /\ ring[p].n \in Nat /\ ring[p].i \in Nat /\ ring[p].i < ring[p].n
        /\ D(p) - ring[p].i + ring[p].n <= Used
        /\ ring[p].next = After(p, ring[p].n - ring[p].i)
    BY <2>1, ChainFacts
  <2>3. n <= D(p) - ring[p].i
    BY <1>2, <2>1
  <2>4. ring[p].f \in 1 .. arrived
    BY <2>2 DEF RingTypeOK
  <2>5. /\ ring[p].i \in 0 .. (ring[p].n - 1)
        /\ 0 <= StartOf(p)' /\ StartOf(p)' + ring[p].n <= Used'
    BY <1>1, <1>2, <1>9, <2>1, <2>2, <2>3
  <2>. QED
    BY <1>8, <2>2, <2>4, <2>5 DEF PageOK
<1>14. ASSUME NEW p \in InUse', NEW q \in InUse' PROVE Ordered(p, q)'
  <2>1. /\ p \in InUse /\ D(p) \in Nat /\ StartOf(p)' = D(p) - ring[p].i - n
        /\ Distance(FirstPage', p) = D(p) - n
    BY <1>12
  <2>2. /\ q \in InUse /\ D(q) \in Nat /\ StartOf(q)' = D(q) - ring[q].i - n
        /\ Distance(FirstPage', q) = D(q) - n
    BY <1>12
  <2>3. /\ D(p) <= D(q) => ring[p].f <= ring[q].f
        /\ ring[p].f = ring[q].f =>
             D(p) - ring[p].i = D(q) - ring[q].i /\ ring[p].n = ring[q].n
        /\ D(p) - ring[p].i <= D(q) /\ D(q) < D(p) - ring[p].i + ring[p].n
             => ring[p].f = ring[q].f
    BY <2>1, <2>2, OrderFacts
  <2>4. ring[p].i \in Nat /\ ring[q].i \in Nat /\ ring[p].n \in Nat
    BY <2>1, <2>2, ChainFacts
  <2>. HIDE DEF D
  <2>. QED
    BY <1>2, <1>8, <2>1, <2>2, <2>3, <2>4 DEF Ordered
<1>15. BehindCurr'
  <2>1. Distance(PageAfter(bnry'), next_page') = n
    BY <1>1, <1>3, <1>7, <1>8
  <2>2. Distance(PageAfter(bnry'), curr') = Used
    BY <1>1, <1>8 DEF Used
  <2>. QED
    BY <1>1, <1>2, <1>9, <2>1, <2>2 DEF BehindCurr
<1>16. {ring[p].f : p \in InUse'} = {ring[p].f : p \in InUse} \ {f}
  <2>1. \A p \in InUse' : p \in InUse /\ ring[p].f # f
    BY <1>2, <1>12, ChainFacts
  <2>2. \A p \in InUse : p \notin InUse' => ring[p].f = f
    BY <1>2, <1>11, ChainFacts
  <2>. QED
    BY <2>1, <2>2
<1>17. \A g \in {ring[p].f : p \in InUse} : f <= g
  <2>1. \A p \in InUse : D(p) \in Nat /\ ring[p].f \in Nat
    BY ChainFacts
  <2>. QED
    BY <1>2, <2>1
<1>. QED
  BY <1>2, <1>7, <1>8, <1>13, <1>14, <1>15, <1>16, <1>17 DEF Chain

(* SetBnry writes the page before the one to be taken next. *)
LEMMA SetBnryFirst ==
  ASSUME RingTypeOK, SetBnry
  PROVE  FirstPage' = FirstPage
<1>1. next_page \in Pages /\ pc = "advance" /\ pc' = "loop" /\ FirstPage = next_page
  BY DEF SetBnry, RingTypeOK, PointersInRing, FirstPage
<1>2. bnry' = IF next_page - 1 < NE_RX_START_PAGE THEN NE_RX_STOP_PAGE - 1 ELSE next_page - 1
  BY DEF SetBnry
<1>3. FirstPage' = PageAfter(bnry')
  BY <1>1 DEF FirstPage
<1>. QED
  BY <1>1, <1>2, <1>3, PageNumbers DEF PageAfter

(* The queue, with its state written out. *)
LEMMA StoredInUse ==
  /\ ~lost => Stored = {ring[p].f : p \in InUse}
  /\ ~lost' => Stored' = {ring'[p].f : p \in InUse'}
BY DEF Stored, InUse, Used

(* While no overrun has been reported every step keeps the chain and is a  *)
(* step of the queue, or one that it does not see.                         *)
LEMMA ReceiveAccepts ==
  ASSUME RingTypeOK, Chain, ~lost, NEW n \in PageCounts, Receive(n)
  PROVE  Chain' /\ Queue!Accept
<1>1. Chain' /\ {ring'[p].f : p \in InUse'} = {ring[p].f : p \in InUse} \cup {arrived'}
  BY ReceiveChain
<1>2. arrived' = arrived + 1 /\ handed' = handed /\ lost' = lost
  BY DEF Receive
<1>3. Stored' = Stored \cup {arrived'}
  BY <1>1, <1>2, StoredInUse
<1>. QED
  BY <1>1, <1>2, <1>3 DEF Queue!Accept

LEMMA RefuseRefuses ==
  ASSUME RingTypeOK, Chain, ~lost, NEW n \in PageCounts, Refuse(n)
  PROVE  (~lost' => Chain') /\ (Queue!Refuse \/ Queue!Overrun)
<1>1. /\ arrived' = arrived + 1 /\ arrived \in Nat
      /\ curr' = curr /\ bnry' = bnry /\ ring' = ring /\ pc' = pc /\ next_page' = next_page
      /\ handed' = handed
  BY DEF Refuse, RingTypeOK
<1>2. FirstPage' = FirstPage
  BY <1>1 DEF FirstPage
<1>3. BehindCurr'
  BY <1>1, <1>2 DEF Chain, BehindCurr, Used
<1>4. Chain' /\ InUse' = InUse
  BY <1>1, <1>2, <1>3, SameChain
<1>5. lost' = TRUE \/ lost' = lost
  BY DEF Refuse
<1>6. CASE lost' = TRUE
  BY <1>1, <1>6 DEF Queue!Overrun
<1>7. CASE lost' = lost
  <2>1. Stored' = Stored
    BY <1>1, <1>4, <1>7, StoredInUse
  <2>. QED
    BY <1>1, <1>4, <1>7, <2>1 DEF Queue!Refuse
<1>. QED
  BY <1>5, <1>6, <1>7

LEMMA TakeHandsOn ==
  ASSUME RingTypeOK, Chain, ~lost, TakeFrame
  PROVE  Chain' /\ \E f \in Stored : Queue!HandOn(f)
<1>1. arrived' = arrived /\ lost' = lost /\ ring' = ring
  BY DEF TakeFrame
<1>2. Stored = {ring[p].f : p \in InUse} /\ Stored' = {ring[p].f : p \in InUse'}
  BY <1>1, StoredInUse
<1>3. Chain'
  BY TakeFrameChain
<1>4. PICK f : /\ f \in Stored
               /\ \A g \in Stored : f <= g
               /\ Stored' = Stored \ {f}
               /\ handed' = Append(handed, f)
  BY <1>2, TakeFrameChain
<1>5. Queue!HandOn(f)
  BY <1>1, <1>4 DEF Queue!HandOn
<1>. QED
  BY <1>3, <1>4, <1>5

LEMMA UnseenSteps ==
  ASSUME RingTypeOK, Chain, ovw => lost, ~lost, network_poll \/ SetBnry \/ PollEnds
  PROVE  Chain' /\ UNCHANGED <<arrived, Stored, handed, lost>>
<1>1. /\ arrived' = arrived /\ arrived \in Nat /\ curr' = curr /\ ring' = ring
      /\ handed' = handed /\ lost' = lost /\ pc' # "advance"
  BY DEF network_poll, SetBnry, PollEnds, RingTypeOK
<1>2. FirstPage' = FirstPage
  <2>1. CASE network_poll
    BY <2>1 DEF network_poll, FirstPage
  <2>2. CASE SetBnry
    BY <2>2, SetBnryFirst
  <2>3. CASE PollEnds
    BY <2>3 DEF PollEnds, FirstPage
  <2>. QED
    BY <2>1, <2>2, <2>3
<1>3. BehindCurr'
  BY <1>1 DEF BehindCurr
<1>4. Chain' /\ InUse' = InUse
  BY <1>1, <1>2, <1>3, SameChain
<1>5. Stored' = Stored
  BY <1>1, <1>4, StoredInUse
<1>. QED
  BY <1>1, <1>4, <1>5

LEMMA StutterKeepsRing ==
  ASSUME RingInv, UNCHANGED vars
  PROVE  RingInv' /\ UNCHANGED <<arrived, Stored, handed, lost>>
BY DEF vars, RingInv, RingTypeOK, PointersInRing, Chain, BehindCurr, InUse, Used, FirstPage,
       PageOK, Ordered, StartOf, Stored

(* An overrun is never forgotten, and only the card reports one. *)
LEMMA OverrunStays ==
  ASSUME ovw => lost, [Next]_vars
  PROVE  (ovw' => lost') /\ (lost => lost')
<1>1. ASSUME NEW n \in PageCounts, Receive(n) PROVE ovw' = ovw /\ lost' = lost
  BY <1>1 DEF Receive
<1>2. ASSUME NEW n \in PageCounts, Refuse(n)
      PROVE  (ovw' = TRUE /\ lost' = TRUE) \/ (ovw' = ovw /\ lost' = lost)
  BY <1>2 DEF Refuse
<1>3. CASE network_poll
  BY <1>3 DEF network_poll
<1>4. CASE Driver
  BY <1>4 DEF Driver, TakeFrame, SetBnry, PollEnds
<1>5. CASE UNCHANGED vars
  BY <1>5 DEF vars
<1>6. CASE \E n \in PageCounts : Receive(n)
  BY <1>1, <1>6
<1>7. CASE \E n \in PageCounts : Refuse(n)
  BY <1>2, <1>7
<1>. QED
  BY <1>3, <1>4, <1>5, <1>6, <1>7 DEF Next

LEMMA StepRing ==
  ASSUME RingInv, [Next]_vars
  PROVE  RingInv' /\ [Queue!Next]_<<arrived, Stored, handed, lost>>
<1>1. RingTypeOK /\ (ovw => lost) /\ (~lost => Chain)
  BY DEF RingInv
<1>2. RingTypeOK'
  BY <1>1, StepTypes
<1>3. (ovw' => lost') /\ (lost => lost')
  BY <1>1, OverrunStays
<1>4. CASE lost
  BY <1>2, <1>3, <1>4 DEF RingInv, Queue!Next, Queue!AfterOverrun
<1>5. CASE ~lost
  <2>1. ASSUME NEW n \in PageCounts, Receive(n) PROVE Chain' /\ Queue!Accept
    BY <1>1, <1>5, <2>1, ReceiveAccepts
  <2>2. ASSUME NEW n \in PageCounts, Refuse(n)
        PROVE  (~lost' => Chain') /\ (Queue!Refuse \/ Queue!Overrun)
    BY <1>1, <1>5, <2>2, RefuseRefuses
  <2>3. CASE TakeFrame
    <3>1. Chain' /\ \E f \in Stored : Queue!HandOn(f)
      BY <1>1, <1>5, <2>3, TakeHandsOn
    <3>. QED
      BY <1>2, <1>3, <3>1 DEF RingInv, Queue!Next
  <2>4. CASE network_poll \/ SetBnry \/ PollEnds
    BY <1>1, <1>2, <1>3, <1>5, <2>4, UnseenSteps DEF RingInv
  <2>5. CASE UNCHANGED vars
    BY <2>5, StutterKeepsRing
  <2>6. CASE \E n \in PageCounts : Receive(n) \/ Refuse(n)
    BY <1>2, <1>3, <2>1, <2>2, <2>6 DEF RingInv, Queue!Next
  <2>. QED
    BY <2>3, <2>4, <2>5, <2>6 DEF Next, Driver
<1>. QED
  BY <1>4, <1>5

(* ne_receive_packets and the card together implement the queue of         *)
(* FrameQueue, for a ring of any size and frames of any lengths: whatever  *)
(* the card accepted is handed on whole, once and in the order of arrival, *)
(* until the card reports an overrun.                                      *)
THEOREM RingIsQueue == Spec => HandsOnInOrder
<1>1. Init => Queue!Init
  <2>. SUFFICES ASSUME Init PROVE Queue!Init
    OBVIOUS
  <2>1. RingTypeOK /\ arrived = 0 /\ handed = <<>> /\ lost = FALSE
    BY InitTypes DEF Init
  <2>2. Used = 0
    BY PageNumbers DEF Init, Used, FirstPage, PageAfter, Distance
  <2>3. InUse = {}
    BY <2>1, <2>2, FirstInRing DEF InUse
  <2>4. Stored = {}
    BY <2>1, <2>3, StoredInUse
  <2>. QED
    BY <2>1, <2>4 DEF Queue!Init
<1>2. RingInv /\ [Next]_vars => RingInv' /\ [Queue!Next]_<<arrived, Stored, handed, lost>>
  BY StepRing
<1>. QED
  BY <1>1, <1>2, InitRing, PTL DEF Spec, HandsOnInOrder, Queue!Spec
=============================================================================
