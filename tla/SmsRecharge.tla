---------------------------- MODULE SmsRecharge ----------------------------
(***************************************************************************)
(* One recharge of the SMS wallet through a WeChat Pay QR code: the order  *)
(* row, the order at WeChat Pay, the payment callback, and the status poll *)
(* that closes an expired order.  The deployment is the production one,    *)
(* where no recharge skips its payment.  The amount a callback names is    *)
(* that of the order; another one is refused and changes nothing.          *)
(***************************************************************************)
EXTENDS SmsWallet

CONSTANT Amount   \* the tier that is bought

ASSUME AmountAssumption == Amount \in Nat \ {0}

VARIABLES
  placing,   \* next step of createRechargeOrder; "shown" once the code is out
  order,     \* status of the order row
  trade,     \* the order on the side of WeChat Pay
  poll       \* place of the status poll in the code

rechargeVars == <<placing, order, trade, poll>>

RechargeTypeOK ==
  /\ placing \in {"row", "place", "save", "shown", "over"}
  /\ order \in {"none", "pending", "paid", "failed", "closed"}
  /\ trade \in {"none", "open", "paid", "closed"}
  /\ poll \in {"idle", "mark"}

RechargeInit ==
  /\ placing = "row" /\ order = "none" /\ trade = "none"
  /\ poll = "idle"

InsertOrder ==
  /\ placing = "row"
  /\ placing' = "place" /\ order' = "pending"
  /\ UNCHANGED <<trade, poll, walletVars>>

PlaceAtWechat ==
  /\ placing = "place"
  /\ placing' = "save" /\ trade' = "open"
  /\ UNCHANGED <<order, poll, walletVars>>

SaveCode ==
  /\ placing = "save"
  /\ placing' = "shown"
  /\ UNCHANGED <<order, trade, poll, walletVars>>

\* Where creation stops, WeChat Pay may have got the order all the same.
PlacedOrNot == IF placing = "place" THEN {"none", "open"} ELSE {trade}

\* An order placed at WeChat Pay is closed if that call gets through, and the
\* row is marked failed; nobody has seen the code or the number of the order.
CreationFails ==
  /\ placing \in {"place", "save"}
  /\ placing' = "over" /\ order' = "failed"
  /\ \E placed \in PlacedOrNot :
       trade' \in IF placed = "open" THEN {"open", "closed"} ELSE {placed}
  /\ UNCHANGED <<poll, walletVars>>

CreationDies ==
  /\ placing \in {"place", "save"}
  /\ placing' = "over"
  /\ trade' \in PlacedOrNot
  /\ UNCHANGED <<order, poll, walletVars>>

Pay ==
  /\ placing = "shown" /\ trade = "open"
  /\ trade' = "paid"
  /\ UNCHANGED <<placing, order, poll, walletVars>>

\* A callback with a trade_state other than SUCCESS.
DeclinedCallback ==
  /\ placing = "shown" /\ trade = "open" /\ order = "pending"
  /\ order' = "failed"
  /\ UNCHANGED <<placing, trade, poll, walletVars>>

\* mutant: only a pending order is credited
PendingOnly == order = "pending"

\* mutant: the row is not claimed
Unclaimed == TRUE

\* The claim of creditRecharge: any status but paid, so that a payment wins
\* over an order that was closed or failed before.
Creditable == order # "paid"

\* creditRecharge, one transaction.  WeChat Pay repeats the callback until it
\* is acknowledged, and sometimes after.
PaidCallback ==
  /\ trade = "paid"
  /\ Creditable
  /\ order' = "paid"
  /\ Credit(Amount)
  /\ UNCHANGED <<placing, trade, poll>>

\* mutant: the row is closed whatever WeChat Pay says
CloseAnyway(closed) == "mark"

\* The row is closed only once the order is closed at WeChat Pay.
AfterClose(closed) == IF closed THEN "mark" ELSE "idle"

\* A poll that finds the order past expiresAt, which is any time after its
\* creation.  WeChat Pay refuses to close a paid order, and the call may fail.
PollClose ==
  /\ placing = "shown" /\ order = "pending"
  /\ poll = "idle"
  /\ \E answered \in BOOLEAN :
       LET closed == answered /\ trade # "paid"
       IN /\ trade' = IF closed THEN "closed" ELSE trade
          /\ poll' = AfterClose(closed)
  /\ UNCHANGED <<placing, order, walletVars>>

PollMark ==
  /\ poll = "mark"
  /\ order' = IF order = "pending" THEN "closed" ELSE order
  /\ poll' = "idle"
  /\ UNCHANGED <<placing, trade, walletVars>>

RechargeNext ==
  \/ InsertOrder \/ PlaceAtWechat \/ SaveCode \/ CreationFails \/ CreationDies
  \/ Pay \/ DeclinedCallback \/ PaidCallback
  \/ PollClose \/ PollMark

-----------------------------------------------------------------------------
(* Properties.                                                             *)

\* The wallet is credited exactly once for the order, when its row becomes
\* paid: with repeated callbacks, and with a callback after the order was
\* marked failed or closed (creditRecharge).
CreditedOnce == recharged = IF order = "paid" THEN Amount ELSE 0

\* An order that the store sees closed cannot have taken its money
\* (getRechargeOrderStatus closes it at WeChat Pay first).
ClosedTakesNoMoney == order = "closed" => trade = "closed"

\* A payment reaches the wallet, whatever the row said when it came in.
PaidIsCredited == trade = "paid" ~> order = "paid"
=============================================================================
