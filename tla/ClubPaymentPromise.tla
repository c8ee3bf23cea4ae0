------------------------- MODULE ClubPaymentPromise -------------------------
(***************************************************************************)
(* What an order paid through WeChat Pay promises its customer: nothing is *)
(* granted before the money is taken, what was bought is granted once, and *)
(* neither is ever undone.                                                 *)
(***************************************************************************)
EXTENDS Naturals

VARIABLES
  taken,    \* whether WeChat Pay has taken the money
  granted   \* how many times the purchase was granted

Init == taken = FALSE /\ granted = 0

Take ==
  /\ ~taken
  /\ taken' = TRUE
  /\ UNCHANGED granted

Grant ==
  /\ taken
  /\ granted = 0
  /\ granted' = 1
  /\ UNCHANGED taken

Next == Take \/ Grant

Spec == Init /\ [][Next]_<<taken, granted>>
=============================================================================
