------------------------------ MODULE NetRing ------------------------------
(***************************************************************************)
(* The receive ring of the NE2000 card and the loop of                     *)
(* src/drivers/network.c that empties it.                                  *)
(*                                                                         *)
(* The card (external: modelled from how the driver uses it) writes frames *)
(* into the pages from CURR on and moves CURR past them; the driver reads  *)
(* from the page after BNRY and moves BNRY behind what it has read.  The   *)
(* card works while the driver does: it may write before a frame is taken, *)
(* and between that and the write of BNRY (the pages of a frame that is    *)
(* being read are not free until then).  A frame fits when none of its     *)
(* pages is BNRY; one that does not fit is dropped, and the card may       *)
(* report an overrun (a DP8390 does, QEMU's card does not).                *)
(*                                                                         *)
(* A page holds the i-th of the n pages of a frame.  A first page carries  *)
(* the header: the number of pages (count) and the page after the frame    *)
(* (next).  When the driver takes another page for a header the four bytes *)
(* it reads may be anything.                                               *)
(***************************************************************************)
EXTENDS Integers, Sequences

CONSTANTS
  NE_RX_START_PAGE, NE_RX_STOP_PAGE,
  PageCounts,        \* the numbers of pages a frame may need
  MAX_FRAMES         \* the frames that arrive in a behaviour

ASSUME NetRingAssumption ==
  /\ NE_RX_START_PAGE \in Nat /\ NE_RX_STOP_PAGE \in Nat
  /\ NE_RX_START_PAGE + 1 < NE_RX_STOP_PAGE
  /\ PageCounts \subseteq Nat \ {0}
  /\ MAX_FRAMES \in Nat

VARIABLES
  curr, bnry,        \* the card's page registers
  ovw,               \* the overrun bit of its interrupt status
  ring,              \* the pages of the card's memory
  arrived,           \* how many frames have reached the card
  pc,                \* the driver: outside network_poll, in the loop, or
                     \* about to write BNRY
  next_page,         \* the driver's local between the two accesses
  handed,            \* what handle_ethernet_frame was called with, in order,
                     \* kept until an overrun
  lost               \* the card has reported an overrun

vars == <<curr, bnry, ovw, ring, arrived, pc, next_page, handed, lost>>

Pages == NE_RX_START_PAGE .. (NE_RX_STOP_PAGE - 1)
RING == NE_RX_STOP_PAGE - NE_RX_START_PAGE
Blank == [f |-> 0, i |-> 0, n |-> 0, next |-> 0]
Torn == 0          \* a frame whose pages do not belong together

(* The page k after p, and how many pages q is after p, going round. *)
After(p, k) == IF p + k < NE_RX_STOP_PAGE THEN p + k ELSE p + k - RING
Distance(p, q) == IF p <= q THEN q - p ELSE q - p + RING

Init ==
  /\ curr = NE_RX_START_PAGE + 1
  /\ bnry = NE_RX_START_PAGE
  /\ ovw = FALSE
  /\ ring = [p \in Pages |-> Blank]
  /\ arrived = 0
  /\ pc = "out"
  /\ next_page = NE_RX_START_PAGE
  /\ handed = <<>>
  /\ lost = FALSE

-----------------------------------------------------------------------------
(* The card. *)
Free == Distance(curr, bnry)

Receive(n) ==
  /\ arrived < MAX_FRAMES
  /\ n <= Free
  /\ arrived' = arrived + 1
  /\ ring' = [p \in Pages |->
                LET k == Distance(curr, p)
                IN  IF k < n
                    THEN [f |-> arrived', i |-> k, n |-> n, next |-> After(curr, n)]
                    ELSE ring[p]]
  /\ curr' = After(curr, n)
  /\ UNCHANGED <<bnry, ovw, pc, next_page, handed, lost>>

Refuse(n) ==
  /\ arrived < MAX_FRAMES
  /\ n > Free
  /\ arrived' = arrived + 1
  /\ \/ ovw' = TRUE /\ lost' = TRUE
     \/ UNCHANGED <<ovw, lost>>
  /\ UNCHANGED <<curr, bnry, ring, pc, next_page, handed>>

-----------------------------------------------------------------------------
(* The driver. *)

(* network_poll up to its loop: on an overrun BNRY goes back to the start  *)
(* of the ring, whatever CURR is.                                          *)
network_poll ==
  /\ pc = "out"
  /\ pc' = "loop"
  /\ bnry' = IF ovw THEN NE_RX_START_PAGE ELSE bnry
  /\ UNCHANGED <<curr, ovw, ring, arrived, next_page, handed, lost>>

(* A page number counted up, wrapped at the end of the ring. *)
PageAfter(p) == IF p + 1 >= NE_RX_STOP_PAGE THEN NE_RX_START_PAGE ELSE p + 1

(* Mutant: the header's page number is taken as it is. *)
CheckNextTrusting(next, page) == next

(* What is made of the header's page number: outside the ring it is        *)
(* replaced by CURR as read before, and a frame that would end on its own  *)
(* first page is taken to be one page long.                                *)
CheckNext(next, page) ==
  LET inside == IF next \in Pages THEN next ELSE curr
  IN  IF inside = page THEN PageAfter(page) ELSE inside

(* Mutant: the part past the end of the ring is read from where the first  *)
(* part was.                                                               *)
PagesReadFlat(page, n) ==
  {IF page + k < NE_RX_STOP_PAGE THEN page + k ELSE page : k \in 0 .. (n - 1)}

(* The pages a frame of n pages is copied from, in one part or in two.     *)
(* That a copy's completion is not signalled is ignored by the code, and   *)
(* by then all of the bytes have been read.                                *)
PagesRead(page, n) ==
  {IF page + k < NE_RX_STOP_PAGE THEN page + k ELSE page + k - RING : k \in 0 .. (n - 1)}

(* The frame in those pages, if it is one. *)
Content(page, n) ==
  LET f == ring[page].f
  IN  IF \A k \in 0 .. (n - 1) :
           \E p \in PagesRead(page, n) : ring[p].f = f /\ ring[p].i = k
      THEN f
      ELSE Torn

(* The bytes read as a header: those of the frame, if the page begins one. *)
Headers(page) ==
  IF ring[page] # Blank /\ ring[page].i = 0
  THEN {[next |-> ring[page].next, ok |-> TRUE, n |-> ring[page].n]}
  ELSE [next : Pages \cup {0}, ok : BOOLEAN, n : PageCounts]

(* One turn of the loop up to the write of BNRY: the two registers are     *)
(* read, then the header, then the frame, which is handed on.              *)
TakeFrame ==
  LET page == PageAfter(bnry)
  IN  /\ pc = "loop"
      /\ page # curr
      /\ \E h \in Headers(page) :
           /\ next_page' = CheckNext(h.next, page)
           /\ handed' = IF ~h.ok \/ lost THEN handed
                        ELSE Append(handed, Content(page, h.n))
      /\ pc' = "advance"
      /\ UNCHANGED <<curr, bnry, ovw, ring, arrived, lost>>

(* Mutant: BNRY is set to the page after the frame. *)
SetBnryLate ==
  /\ pc = "advance"
  /\ pc' = "loop"
  /\ bnry' = next_page
  /\ UNCHANGED <<curr, ovw, ring, arrived, next_page, handed, lost>>

SetBnry ==
  /\ pc = "advance"
  /\ pc' = "loop"
  /\ bnry' = IF next_page - 1 < NE_RX_START_PAGE THEN NE_RX_STOP_PAGE - 1
             ELSE next_page - 1
  /\ UNCHANGED <<curr, ovw, ring, arrived, next_page, handed, lost>>

(* The loop ends when BNRY has caught up, or when the read of a header     *)
(* does not complete; the interrupt status is cleared then, an overrun     *)
(* reported since network_poll looked included.                            *)
PollEnds ==
  /\ pc = "loop"
  /\ pc' = "out"
  /\ ovw' = FALSE
  /\ UNCHANGED <<curr, bnry, ring, arrived, next_page, handed, lost>>

Driver == TakeFrame \/ SetBnry \/ PollEnds

Next ==
  \/ \E n \in PageCounts : Receive(n) \/ Refuse(n)
  \/ network_poll
  \/ Driver

(* The driver's code runs on; the card and the callers of network_poll owe *)
(* nothing.                                                                *)
Spec == Init /\ [][Next]_vars /\ WF_vars(Driver)

-----------------------------------------------------------------------------
(* Every page number the driver computes is one of the ring's, whatever    *)
(* bytes it met in place of a header (the checks of next_page and new_bnry *)
(* in ne_receive_packets): after an overrun it may walk over old pages,    *)
(* but it never sends the card's pointers or its own reads outside.        *)
PointersInRing == bnry \in Pages /\ curr \in Pages /\ next_page \in Pages

(* The frames in the pages that are still to be taken. *)
FirstPage == IF pc = "advance" THEN next_page ELSE PageAfter(bnry)
Stored ==
  IF lost THEN {}
  ELSE {ring[p].f : p \in {q \in Pages : Distance(FirstPage, q) < Distance(FirstPage, curr)}}

Queue == INSTANCE FrameQueue WITH waiting <- Stored

(* ne_receive_packets hands on every frame the card accepted, whole, once  *)
(* and in the order of arrival, while the card goes on receiving and the   *)
(* ring wraps in the middle of frames; until the card reports an overrun.  *)
HandsOnInOrder == Queue!Spec

(* Once traffic stops ne_receive_packets comes to its end (and its caller  *)
(* gets to look at what came), unless the card has reported an overrun.    *)
DrainEnds == (pc = "loop") ~> (pc = "out" \/ lost)
=============================================================================
