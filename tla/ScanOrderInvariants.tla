-------------------------- MODULE ScanOrderInvariants --------------------------
(***************************************************************************)
(* What holds of an order besides the properties of ScanOrder: the facts   *)
(* that make the safety properties inductive.                              *)
(***************************************************************************)
EXTENDS ScanOrder

Captured == {"captured", "refunded"}
Paid == {"succeeded", "refunded"}

(* Ids not yet given out belong to no attempt, channel or payment. *)
FreshAttempts == \A a \in Attempts :
  a >= nextAttempt => attempt[a] = "none" /\ channel[a] = "none" /\ wx[a] = "none"

(* The attempt a request has inserted is a WeChat one that WeChat does not   *)
(* know yet, and no other request's.                                         *)
InsertedAttempts == \A r \in Requests :
  request[r].pc = "inserted" =>
    /\ request[r].attempt \in Attempts
    /\ request[r].attempt < nextAttempt
    /\ channel[request[r].attempt] = "wechat_jsapi"
    /\ wx[request[r].attempt] = "none"
    /\ \A q \in Requests :
         request[q].pc = "inserted" /\ request[q].attempt = request[r].attempt => q = r

(* WeChat only knows payments of WeChat attempts. *)
WechatOnly == \A a \in Attempts : wx[a] # "none" => channel[a] = "wechat_jsapi"

(* A succeeded or refunded attempt was paid from the balance or captured. *)
SucceededIsCaptured == \A a \in Attempts :
  attempt[a] \in Paid =>
    \/ channel[a] = "marketing_balance"
    \/ channel[a] = "wechat_jsapi" /\ wx[a] \in Captured

(* WeChat notifies only of money it captured. *)
NotifiedIsCaptured == \A a \in Attempts : job[a] # "none" => wx[a] \in Captured

(* A settlement is of money WeChat captured. *)
SettlingIsCaptured ==
  callback # IdleCallback =>
    /\ callback.pc # "idle"
    /\ callback.attempt \in Attempts
    /\ wx[callback.attempt] \in Captured

(* Nothing was paid for an order that still waits for its payment. *)
PendingIsUnpaid ==
  status = "pending_payment" =>
    payStatus = "unpaid" /\ \A a \in Attempts : attempt[a] \notin Paid

(* A settlement that found the order cancelled will find it cancelled. *)
ClosedIsCancelled == callback.pc = "closed" => status = "cancelled"

(* A WeChat refund flow under way, or money given back, means that the order *)
(* is being refunded or is rejected.                                         *)
RefundFlows ==
  \/ reject.pc # "idle"
  \/ \E w \in Workers : worker[w].pc # "idle"
  \/ \E a \in Attempts : wx[a] = "refunded"
  => status \in {"refunding", "rejected"}

(* A settlement that found the order payable excludes every WeChat refund    *)
(* until it ends: no WeChat attempt has succeeded that one could refund.     *)
SettlingBeforeRefund ==
  callback.pc = "payable" =>
    /\ status # "refunding"
    /\ reject.pc = "idle" /\ \A w \in Workers : worker[w].pc = "idle"
    /\ \A a \in Attempts :
         wx[a] # "refunded" /\ (channel[a] = "wechat_jsapi" => attempt[a] \notin Paid)

(* One succeeded attempt stands behind an order that was paid. *)
OneBacker ==
  overrides = 0 =>
    \A a, b \in Attempts :
      attempt[a] = "succeeded" /\ attempt[b] = "succeeded" /\ payStatus # "unpaid" => a = b

CancelledIsUnpaid == overrides = 0 /\ status = "cancelled" => payStatus = "unpaid"

(* An order paid from the balance stays clear of the WeChat refund. *)
BalanceBacks ==
  overrides = 0 /\ balance = "debited" =>
    /\ status \notin {"pending_payment", "cancelled", "refunding", "rejected"}
    /\ \A a \in Attempts : attempt[a] = "succeeded" => channel[a] = "marketing_balance"

(* RetryHasOwner, with the count that tells the owner from a stale run. *)
RetryOwned ==
  task.status = "refunding" /\ crashes = 0 =>
    \E w \in Workers :
      /\ worker[w].pc \in {"picked", "answered"}
      /\ worker[w].no = task.no /\ task.retries = worker[w].retries + 1

(* The flows of an order respect each other: what checkout, settlement,      *)
(* refunds and retries may assume of the others at every moment.             *)
FlowsAgree ==
  /\ FreshAttempts /\ InsertedAttempts /\ WechatOnly /\ SucceededIsCaptured
  /\ NotifiedIsCaptured /\ SettlingIsCaptured
  /\ PendingIsUnpaid /\ ClosedIsCancelled /\ RefundFlows /\ SettlingBeforeRefund
  /\ OneBacker /\ CancelledIsUnpaid /\ BalanceBacks /\ RetryOwned

IInv ==
  /\ TypeOK /\ FlowsAgree
  /\ PaidIsBacked /\ DoneMeansRecorded /\ CaptureAccounted
  /\ BooksMatch /\ GoodsMatch /\ RefundingHasTask
=============================================================================
