-------------------------- MODULE ScanOrderPromise --------------------------
(***************************************************************************)
(* What an order promises to its customer and its merchant, without        *)
(* payment attempts, queues, locks, versions or jobs: the stage it is in   *)
(* and its place in the books.  An order moves forward, is refunded from   *)
(* the stages where nothing was served, and never leaves an end - with one *)
(* exception the code really has: a settlement that began while the order  *)
(* was open may end later, whatever stage the order reached meanwhile.     *)
(***************************************************************************)
VARIABLES
  stage,     \* where the order stands
  settling,  \* a WeChat payment is being settled
  sale       \* the sale order: none, sold or refunded

vars == <<stage, settling, sale>>

Init == stage = "open" /\ settling = FALSE /\ sale = "none"

BeginSettle ==
  /\ stage = "open" /\ ~settling
  /\ settling' = TRUE
  /\ UNCHANGED <<stage, sale>>

AbandonSettle ==
  /\ settling
  /\ settling' = FALSE
  /\ UNCHANGED <<stage, sale>>

EndSettle ==
  /\ settling
  /\ settling' = FALSE
  /\ stage' = "paid"
  /\ UNCHANGED sale

Move(from, to) ==
  /\ stage \in from
  /\ stage' = to
  /\ UNCHANGED settling

PayAtOnce == Move({"open"}, "paid") /\ UNCHANGED sale
Close == Move({"open"}, "closed") /\ UNCHANGED sale
Make == Move({"paid"}, "making") /\ UNCHANGED sale
Hand == Move({"making"}, "ready") /\ sale' = IF sale = "none" THEN "sold" ELSE sale
Finish == Move({"ready"}, "finished") /\ UNCHANGED sale
StartRefund == Move({"paid", "making"}, "refunding") /\ UNCHANGED sale
EndRefund == Move({"paid", "making", "refunding"}, "refunded") /\ sale' = "refunded"

(* A rejected order enters the books as sold and refunded at once. *)
WriteOff ==
  /\ stage \in {"refunding", "refunded"}
  /\ sale' = "refunded"
  /\ UNCHANGED <<stage, settling>>

Next ==
  \/ BeginSettle \/ AbandonSettle \/ EndSettle
  \/ PayAtOnce \/ Close \/ Make \/ Hand \/ Finish
  \/ StartRefund \/ EndRefund \/ WriteOff

Spec == Init /\ [][Next]_vars
=============================================================================
