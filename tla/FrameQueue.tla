----------------------------- MODULE FrameQueue -----------------------------
(***************************************************************************)
(* What the network driver promises its protocols: of the frames that      *)
(* reach the card, numbered as they arrive, those that are accepted are    *)
(* handed on once each and in that order.  There are no pages and no       *)
(* pointers here.  When the card has reported an overrun nothing more is   *)
(* promised.                                                               *)
(***************************************************************************)
EXTENDS Integers, Sequences

VARIABLES arrived,   \* how many frames have reached the card
          waiting,   \* those accepted and not yet handed on
          handed,    \* those handed on
          lost       \* the card has reported an overrun

Init == arrived = 0 /\ waiting = {} /\ handed = <<>> /\ lost = FALSE

Accept ==
  /\ arrived' = arrived + 1
  /\ waiting' = waiting \cup {arrived'}
  /\ UNCHANGED <<handed, lost>>

Refuse ==
  /\ arrived' = arrived + 1
  /\ UNCHANGED <<waiting, handed, lost>>

HandOn(f) ==
  /\ f \in waiting /\ \A g \in waiting : f <= g
  /\ waiting' = waiting \ {f}
  /\ handed' = Append(handed, f)
  /\ UNCHANGED <<arrived, lost>>

Overrun == ~lost /\ lost' /\ UNCHANGED handed

AfterOverrun == lost /\ UNCHANGED lost

Next ==
  \/ Accept \/ Refuse
  \/ \E f \in waiting : HandOn(f)
  \/ Overrun \/ AfterOverrun

Spec == Init /\ [][Next]_<<arrived, waiting, handed, lost>>
=============================================================================
