----------------------------- MODULE ScanOrder -----------------------------
(***************************************************************************)
(* One scan-ordering order, from the moment it is placed: its row, its     *)
(* payment attempts, the WeChat Pay side of each attempt, the payment      *)
(* callback queue, the merchant's handling, and its refund task.  Every    *)
(* handler of the code is keyed by one orderId; what orders share (stock)  *)
(* is the subject of ScanStock.                                            *)
(*                                                                         *)
(* A database transaction whose first write is a compare-and-set on        *)
(* (status, version) is one action: the version only grows, so a client    *)
(* version that matches at the commit also matched when it was read.  A    *)
(* flow that commits several times, or that reads and later writes without *)
(* the compare-and-set, keeps its place in a variable of its own and other *)
(* steps interleave.                                                       *)
(*                                                                         *)
(* The deployment is the production one (development confirmation is       *)
(* refused there), the order was placed by a customer (not typed in by the *)
(* merchant).                                                              *)
(***************************************************************************)
EXTENDS Integers, FiniteSets

CONSTANTS
  Requests,     \* concurrent WeChat checkout requests for the order
  Workers,      \* overlapping runs of the acceptance-timeout job (1 while its lock holds)
  MaxAttempts,  \* bound on the rows of scan_order_payment_attempts
  MaxTries,     \* attempts of a callback job (5 in the code)
  MaxRetries,   \* scanOrdering.acceptanceExpirationMaxRetries (3 in the code)
  MaxCrashes    \* bound on the processes that die between two commits

ASSUME BoundsAssumption ==
  /\ MaxAttempts \in Nat \ {0}
  /\ MaxTries \in Nat \ {0}
  /\ MaxRetries \in Nat \ {0}
  /\ MaxCrashes \in Nat

VARIABLES
  status, payStatus, version,  \* the columns of scan_orders
  deadline,     \* of the current stage: "running" or "passed"
  attempt,      \* status of each payment attempt, "none" when not inserted
  channel,      \* its payment channel
  nextAttempt,  \* id of the next attempt; ids are the order of createdAt
  wx,           \* what WeChat Pay knows of the attempt's payment number
  job, tries,   \* the callback job of the attempt and its failed tries
  callback,     \* the settlement transaction that holds the order's lock
  request,      \* the checkout requests
  balance,      \* the stored-value movement of the order
  settled,      \* rows settlePaidOrder wrote (points, consumption)
  sale,         \* the sale order of the books
  stock,        \* the goods reserved when the order was placed
  task,         \* the newest refund task
  reject,       \* the merchant's rejection, between its commits
  worker,       \* the timeout job, between its commits
  crashes,
  overrides     \* history: callbacks that overwrote an order which had moved on

orderVars   == <<status, payStatus, version, deadline>>
attemptVars == <<attempt, channel, nextAttempt>>
queueVars   == <<job, tries>>
ledgerVars  == <<balance, settled, sale, stock>>
vars == <<orderVars, attemptVars, wx, queueVars, callback, request, ledgerVars,
          task, reject, worker, crashes, overrides>>

Attempts == 1..MaxAttempts
NoAttempt == 0

Statuses == {"pending_payment", "pending_acceptance", "preparing", "served",
             "completed", "cancelled", "rejected", "refunding"}
PayStatuses == {"unpaid", "paid", "refunding", "refunded"}
AttemptStatuses == {"none", "created", "paying", "succeeded", "failed", "closed", "refunded"}
InFlight == {"created", "paying"}
OpenTask == {"manual_pending", "refunding"}

NoTask == [status |-> "none", trigger |-> "none", attempt |-> NoAttempt, retries |-> 0, no |-> 0]
IdleCallback == [pc |-> "idle", attempt |-> NoAttempt, via |-> "none"]
IdleRequest == [pc |-> "idle", attempt |-> NoAttempt]
IdleReject == [pc |-> "idle", attempt |-> NoAttempt]
IdleWorker == [pc |-> "idle", version |-> 0, attempt |-> NoAttempt, no |-> 0, retries |-> 0]

(* The order has just been placed: pending_payment, version 0, stock reserved. *)
Init ==
  /\ status = "pending_payment" /\ payStatus = "unpaid" /\ version = 0 /\ deadline = "running"
  /\ attempt = [a \in Attempts |-> "none"]
  /\ channel = [a \in Attempts |-> "none"]
  /\ nextAttempt = 1
  /\ wx = [a \in Attempts |-> "none"]
  /\ job = [a \in Attempts |-> "none"]
  /\ tries = [a \in Attempts |-> 0]
  /\ callback = IdleCallback
  /\ request = [r \in Requests |-> IdleRequest]
  /\ balance = "none" /\ settled = 0 /\ sale = "none" /\ stock = "held"
  /\ task = NoTask
  /\ reject = IdleReject
  /\ worker = [w \in Workers |-> IdleWorker]
  /\ crashes = 0
  /\ overrides = 0

-----------------------------------------------------------------------------
(* Helpers *)

UnpaidWithoutStatus == payStatus = "unpaid"  \* mutant: the status is not compared

Unpaid == status = "pending_payment" /\ payStatus = "unpaid"

(* The attempt the refund flows pick: the newest one that succeeded. *)
IsLatestSucceeded(a) ==
  /\ attempt[a] = "succeeded"
  /\ \A b \in Attempts : attempt[b] = "succeeded" => b <= a

MoveOrderWithoutVersion(newStatus, newPay) ==  \* mutant: the version stays
  /\ status' = newStatus
  /\ payStatus' = newPay
  /\ version' = version

(* The order row moves to a new status and its version grows. *)
MoveOrder(newStatus, newPay) ==
  /\ status' = newStatus
  /\ payStatus' = newPay
  /\ version' = version + 1

TaskNotCreated(trigger, a) == task  \* mutant: the insert is lost

TaskPending(trigger, a) ==  \* mutant: the column's default instead of manual_pending
  [status |-> "pending", trigger |-> trigger, attempt |-> a, retries |-> 0, no |-> task.no + 1]

(* createRefundTask: an open task is returned as it is. *)
TaskAfterCreate(trigger, a) ==
  IF task.status \in OpenTask
  THEN task
  ELSE [status |-> "manual_pending", trigger |-> trigger, attempt |-> a,
        retries |-> 0, no |-> task.no + 1]

(* markRefundTaskSucceededInTransaction: every open task of the order. *)
TaskAfterSuccess(t) == IF t.status \in OpenTask THEN [t EXCEPT !.status = "succeeded"] ELSE t

FailJobForever(a) == UNCHANGED queueVars  \* mutant: the tries are not counted

(* Redelivery runs the job until its tries are used up, then it is a dead letter. *)
FailJob(a) ==
  /\ tries' = [tries EXCEPT ![a] = @ + 1]
  /\ job' = [job EXCEPT ![a] = IF tries[a] + 1 >= MaxTries THEN "dead" ELSE "queued"]

(* A deadline passes: 15 min to pay, 30 min to accept, 2 h to prepare. *)
TimePasses ==
  /\ deadline = "running"
  /\ status \in {"pending_payment", "pending_acceptance", "preparing"}
  /\ deadline' = "passed"
  /\ UNCHANGED <<status, payStatus, version, attemptVars, wx, queueVars, callback, request,
                 ledgerVars, task, reject, worker, crashes, overrides>>

-----------------------------------------------------------------------------
(* WeChat checkout: five statements, no transaction and no lock. *)

LoadPayable(r) ==
  /\ request[r].pc = "idle"
  /\ Unpaid
  /\ deadline = "running"
  /\ request' = [request EXCEPT ![r].pc = "loaded"]
  /\ UNCHANGED <<orderVars, attemptVars, wx, queueVars, callback, ledgerVars, task, reject,
                 worker, crashes, overrides>>

(* Attempts older than five minutes are given up: a prefix of the ids. *)
CloseStale(r) ==
  /\ request[r].pc = "loaded"
  /\ \E cutoff \in 0..MaxAttempts :
       attempt' = [a \in Attempts |-> IF a <= cutoff /\ attempt[a] \in InFlight
                                      THEN "failed" ELSE attempt[a]]
  /\ request' = [request EXCEPT ![r].pc = "swept"]
  /\ UNCHANGED <<orderVars, channel, nextAttempt, wx, queueVars, callback, ledgerVars, task,
                 reject, worker, crashes, overrides>>

AssertNoActive(r) ==
  /\ request[r].pc = "swept"
  /\ request' = [request EXCEPT ![r].pc =
                   IF \E a \in Attempts : attempt[a] \in InFlight THEN "idle" ELSE "cleared"]
  /\ UNCHANGED <<orderVars, attemptVars, wx, queueVars, callback, ledgerVars, task, reject,
                 worker, crashes, overrides>>

InsertAttempt(r) ==
  /\ request[r].pc = "cleared"
  /\ nextAttempt \in Attempts
  /\ attempt' = [attempt EXCEPT ![nextAttempt] = "paying"]
  /\ channel' = [channel EXCEPT ![nextAttempt] = "wechat_jsapi"]
  /\ nextAttempt' = nextAttempt + 1
  /\ request' = [request EXCEPT ![r] = [pc |-> "inserted", attempt |-> nextAttempt]]
  /\ UNCHANGED <<orderVars, wx, queueVars, callback, ledgerVars, task, reject, worker, crashes,
                 overrides>>

(* markAttempt does not look at the attempt's present status.  With the      *)
(* parameters of the cash desk the customer can pay; without an openid the   *)
(* attempt stays a local record.                                             *)
MarkCreated(r) ==
  LET a == request[r].attempt IN
  /\ request[r].pc = "inserted"
  /\ attempt' = [attempt EXCEPT ![a] = "created"]
  /\ wx' \in {wx, [wx EXCEPT ![a] = "payable"]}
  /\ request' = [request EXCEPT ![r] = IdleRequest]
  /\ UNCHANGED <<orderVars, channel, nextAttempt, queueVars, callback, ledgerVars, task, reject,
                 worker, crashes, overrides>>

PrepayFails(r) ==
  LET a == request[r].attempt IN
  /\ request[r].pc = "inserted"
  /\ attempt' = [attempt EXCEPT ![a] = IF @ = "paying" THEN "failed" ELSE @]
  /\ request' = [request EXCEPT ![r] = IdleRequest]
  /\ UNCHANGED <<orderVars, channel, nextAttempt, wx, queueVars, callback, ledgerVars, task,
                 reject, worker, crashes, overrides>>

-----------------------------------------------------------------------------
(* WeChat Pay and the callback queue *)

(* The prepay has no time_expire: the customer may pay after the local close. *)
UserPays(a) ==
  /\ wx[a] = "payable"
  /\ wx' = [wx EXCEPT ![a] = "captured"]
  /\ UNCHANGED <<orderVars, attemptVars, queueVars, callback, request, ledgerVars, task, reject,
                 worker, crashes, overrides>>

(* Notifications are queued once per payment number and transaction. *)
Notify(a) ==
  /\ wx[a] # "none" /\ wx[a] # "payable"
  /\ job[a] = "none"
  /\ job' = [job EXCEPT ![a] = "queued"]
  /\ UNCHANGED <<orderVars, attemptVars, wx, tries, callback, request, ledgerVars, task, reject,
                 worker, crashes, overrides>>

BranchWithoutAttempt(a) ==  \* mutant: any paid order counts as settled
  IF payStatus = "paid" THEN "settled"
  ELSE IF status = "cancelled" THEN "closed"
  ELSE IF Unpaid THEN "payable"
  ELSE "conflict"

BranchWithoutConflict(a) ==  \* mutant: the order need not be unpaid
  IF attempt[a] = "succeeded" /\ payStatus = "paid" THEN "settled"
  ELSE IF status = "cancelled" THEN "closed"
  ELSE "payable"

(* What the settlement transaction decides from its reads. *)
Branch(a) ==
  IF attempt[a] = "succeeded" /\ payStatus = "paid" THEN "settled"
  ELSE IF status = "cancelled" THEN "closed"
  ELSE IF Unpaid THEN "payable"
  ELSE "conflict"

(* Under the order's lock, a payment to record: the writes come later. *)
BeginCallback(a, via) ==
  /\ callback = IdleCallback
  /\ Branch(a) \in {"payable", "closed"}
  /\ callback' = [pc |-> Branch(a), attempt |-> a, via |-> via]
  /\ UNCHANGED <<orderVars, attemptVars, wx, queueVars, request, ledgerVars, task, reject, worker,
                 crashes, overrides>>

BeginQueued(a) == job[a] = "queued" /\ BeginCallback(a, "queue")

BeginVerifyUnchecked(a) ==  \* mutant: WeChat is not asked whether it captured the payment
  /\ payStatus = "unpaid"
  /\ wx[a] # "none"
  /\ BeginCallback(a, "verify")

(* The customer's page asks WeChat about the newest WeChat attempt. *)
BeginVerify(a) ==
  /\ payStatus = "unpaid"
  /\ wx[a] = "captured"
  /\ \A b \in Attempts : channel[b] = "wechat_jsapi" => b <= a
  /\ BeginCallback(a, "verify")

(* A second delivery finds the order paid by this attempt. *)
SettledAgain(a) ==
  /\ job[a] = "queued"
  /\ callback = IdleCallback
  /\ Branch(a) = "settled"
  /\ job' = [job EXCEPT ![a] = "done"]
  /\ UNCHANGED <<orderVars, attemptVars, wx, tries, callback, request, ledgerVars, task, reject,
                 worker, crashes, overrides>>

(* The lock is taken, or the order is neither payable nor cancelled. *)
CallbackRefused(a) ==
  /\ job[a] = "queued"
  /\ ~(callback.via = "queue" /\ callback.attempt = a)
  /\ callback # IdleCallback \/ Branch(a) = "conflict"
  /\ FailJob(a)
  /\ UNCHANGED <<orderVars, attemptVars, wx, callback, request, ledgerVars, task, reject, worker,
                 crashes, overrides>>

(* The transaction rolls back: the database, or the customer is disabled. *)
CallbackFails ==
  /\ callback # IdleCallback
  /\ callback' = IdleCallback
  /\ IF callback.via = "queue" THEN FailJob(callback.attempt) ELSE UNCHANGED queueVars
  /\ UNCHANGED <<orderVars, attemptVars, wx, request, ledgerVars, task, reject, worker, crashes,
                 overrides>>

JobAfterCommit ==
  IF callback.via = "queue" THEN [job EXCEPT ![callback.attempt] = "done"] ELSE job

(* confirmOrderPaidByCallback commits.  The order row is updated by its id    *)
(* alone, whatever happened to it since the transaction read it.             *)
ConfirmPaid ==
  /\ callback.pc = "payable"
  /\ attempt' = [attempt EXCEPT ![callback.attempt] = "succeeded"]
  /\ settled' = settled + 1
  /\ MoveOrder("pending_acceptance", "paid")
  /\ deadline' = "running"
  /\ overrides' = IF Unpaid THEN overrides ELSE overrides + 1
  /\ job' = JobAfterCommit
  /\ callback' = IdleCallback
  /\ UNCHANGED <<channel, nextAttempt, wx, tries, request, balance, sale, stock, task, reject,
                 worker, crashes>>

(* handleAnomalousPayment: the order stays closed, a refund task is opened. *)
AnomalousPayment ==
  /\ callback.pc = "closed"
  /\ attempt' = [attempt EXCEPT ![callback.attempt] = "succeeded"]
  /\ task' = TaskAfterCreate("anomalous_payment", callback.attempt)
  /\ job' = JobAfterCommit
  /\ callback' = IdleCallback
  /\ UNCHANGED <<orderVars, channel, nextAttempt, wx, tries, request, ledgerVars, reject, worker,
                 crashes, overrides>>

-----------------------------------------------------------------------------
(* The customer's other steps, and closing an unpaid order *)

(* One transaction: debit, settle, compare-and-set, attempt row. *)
PayByBalance ==
  /\ Unpaid
  /\ balance = "none"
  /\ nextAttempt \in Attempts
  /\ MoveOrder("pending_acceptance", "paid")
  /\ deadline' = "running"
  /\ balance' = "debited"
  /\ settled' = settled + 1
  /\ attempt' = [attempt EXCEPT ![nextAttempt] = "succeeded"]
  /\ channel' = [channel EXCEPT ![nextAttempt] = "marketing_balance"]
  /\ nextAttempt' = nextAttempt + 1
  /\ UNCHANGED <<wx, queueVars, callback, request, sale, stock, task, reject, worker, crashes,
                 overrides>>

(* closeInTransaction: stock released, attempts in flight closed. *)
CloseUnpaid ==
  /\ Unpaid
  /\ MoveOrder("cancelled", payStatus)
  /\ attempt' = [a \in Attempts |-> IF attempt[a] \in InFlight THEN "closed" ELSE attempt[a]]
  /\ stock' = "returned"
  /\ UNCHANGED <<deadline, channel, nextAttempt, wx, queueVars, callback, request, balance, settled,
                 sale, task, reject, worker, crashes, overrides>>

CustomerCancel == CloseUnpaid
ExpireIdle ==  \* mutant: orders with an attempt in flight are skipped
  deadline = "passed" /\ (\A a \in Attempts : attempt[a] \notin InFlight) /\ CloseUnpaid

ExpireUnpaid == deadline = "passed" /\ CloseUnpaid

-----------------------------------------------------------------------------
(* The merchant's transitions *)

UnchangedByMerchant ==
  UNCHANGED <<attemptVars, wx, queueVars, callback, request, balance, settled, task, reject,
              worker, crashes, overrides>>

(* Accepting turns the reservation into a deduction. *)
Accept ==
  /\ status = "pending_acceptance"
  /\ MoveOrder("preparing", payStatus)
  /\ deadline' = "running"
  /\ stock' = "deducted"
  /\ UNCHANGED sale
  /\ UnchangedByMerchant

(* Serving writes the sale order, once per order. *)
Serve ==
  /\ status = "preparing"
  /\ MoveOrder("served", payStatus)
  /\ sale' = IF sale = "none" THEN "sold" ELSE sale
  /\ UNCHANGED <<deadline, stock>>
  /\ UnchangedByMerchant

Complete ==
  /\ status = "served"
  /\ MoveOrder("completed", payStatus)
  /\ UNCHANGED <<deadline, sale, stock>>
  /\ UnchangedByMerchant

ArchiveUnserved ==  \* mutant: orders in the kitchen are archived too
  /\ status \in {"preparing", "served"}
  /\ status' = "completed"
  /\ UNCHANGED <<payStatus, version, deadline, sale, stock>>
  /\ UnchangedByMerchant

(* Clearing a table or archiving its session completes served orders and     *)
(* leaves their version alone.                                               *)
ArchiveServed ==
  /\ status = "served"
  /\ status' = "completed"
  /\ UNCHANGED <<payStatus, version, deadline, sale, stock>>
  /\ UnchangedByMerchant

(* The merchant's cancel touches the order row and nothing else. *)
MerchantCancel ==
  /\ status = "pending_payment"
  /\ MoveOrder("cancelled", payStatus)
  /\ UNCHANGED <<deadline, sale, stock>>
  /\ UnchangedByMerchant

-----------------------------------------------------------------------------
(* Refunds *)

(* Balance orders: one transaction takes everything back and closes its task. *)
BalanceRefund(trigger) ==
  \E a \in Attempts :
    /\ IsLatestSucceeded(a) /\ channel[a] = "marketing_balance"
    /\ payStatus = "paid"
    /\ balance = "debited"
    /\ MoveOrder("rejected", "refunded")
    /\ balance' = "returned"
    /\ sale' = "refunded"
    /\ stock' = "returned"
    /\ attempt' = [b \in Attempts |->
                     IF channel[b] = "marketing_balance" /\ attempt[b] = "succeeded"
                     THEN "refunded" ELSE attempt[b]]
    /\ task' = TaskAfterSuccess(TaskAfterCreate(trigger, a))
    /\ UNCHANGED <<deadline, channel, nextAttempt, wx, queueVars, callback, request, settled,
                   reject, worker, crashes, overrides>>

RejectBalance == status = "pending_acceptance" /\ BalanceRefund("merchant_reject")

TimeoutBalanceUnaccepted ==  \* mutant: the preparing stage has no timeout
  deadline = "passed" /\ status = "pending_acceptance" /\ BalanceRefund("system_timeout")

TimeoutBalance ==
  /\ deadline = "passed"
  /\ status \in {"pending_acceptance", "preparing"}
  /\ BalanceRefund("system_timeout")

(* WeChat orders: three commits - the order, the task, the sale. *)
RejectMark(a) ==
  /\ reject = IdleReject
  /\ status = "pending_acceptance" /\ payStatus = "paid"
  /\ IsLatestSucceeded(a) /\ channel[a] = "wechat_jsapi"
  /\ MoveOrder("refunding", "refunding")
  /\ reject' = [pc |-> "marked", attempt |-> a]
  /\ UNCHANGED <<deadline, attemptVars, wx, queueVars, callback, request, ledgerVars, task, worker,
                 crashes, overrides>>

RejectTask ==
  /\ reject.pc = "marked"
  /\ task' = TaskAfterCreate("merchant_reject", reject.attempt)
  /\ reject' = [reject EXCEPT !.pc = "tasked"]
  /\ UNCHANGED <<orderVars, attemptVars, wx, queueVars, callback, request, ledgerVars, worker,
                 crashes, overrides>>

RejectSale ==
  /\ reject.pc = "tasked"
  /\ sale' = "refunded"
  /\ reject' = IdleReject
  /\ UNCHANGED <<orderVars, attemptVars, wx, queueVars, callback, request, balance, settled, stock,
                 task, worker, crashes, overrides>>

CanCompleteAnyStatus(v) == version = v  \* mutant: the status is not compared

(* completeRefund: the compare-and-set, then stock, books, attempts, task. *)
CanComplete(v) == version = v /\ status = "refunding" /\ payStatus = "refunding"

CompleteRefund ==
  /\ MoveOrder("rejected", "refunded")
  /\ stock' = "returned"
  /\ sale' = "refunded"
  /\ attempt' = [a \in Attempts |-> IF attempt[a] = "succeeded" THEN "refunded" ELSE attempt[a]]
  /\ task' = TaskAfterSuccess(task)
  /\ UNCHANGED <<deadline, channel, nextAttempt, balance, settled>>

MerchantConfirmRefund ==
  /\ CanComplete(version)
  /\ CompleteRefund
  /\ UNCHANGED <<wx, queueVars, callback, request, reject, worker, crashes, overrides>>

(* initiateAutoWechatRefund by a run of the timeout job. *)
TimeoutMark(w, a) ==
  /\ worker[w] = IdleWorker
  /\ deadline = "passed"
  /\ status \in {"pending_acceptance", "preparing"} /\ payStatus = "paid"
  /\ IsLatestSucceeded(a) /\ channel[a] = "wechat_jsapi"
  /\ MoveOrder("refunding", "refunding")
  /\ worker' = [worker EXCEPT ![w] = [IdleWorker EXCEPT !.pc = "marked",
                                        !.version = version, !.attempt = a]]
  /\ UNCHANGED <<deadline, attemptVars, wx, queueVars, callback, request, ledgerVars, task, reject,
                 crashes, overrides>>

TimeoutTask(w) ==
  /\ worker[w].pc = "marked"
  /\ task' = TaskAfterCreate("system_timeout", worker[w].attempt)
  /\ worker' = [worker EXCEPT ![w].pc = "tasked"]
  /\ UNCHANGED <<orderVars, attemptVars, wx, queueVars, callback, request, ledgerVars, reject,
                 crashes, overrides>>

(* WeChat refunds the payment; the refund number makes a repeat harmless. *)
RefundAtWechat(a) == wx' = [wx EXCEPT ![a] = IF @ = "captured" THEN "refunded" ELSE @]

TimeoutCall(w) ==
  /\ worker[w].pc = "tasked"
  /\ RefundAtWechat(worker[w].attempt)
  /\ worker' = [worker EXCEPT ![w].pc = "called"]
  /\ UNCHANGED <<orderVars, attemptVars, queueVars, callback, request, ledgerVars, task, reject,
                 crashes, overrides>>

(* The call fails: markRefundTaskFailed is given the store's id and finds    *)
(* no row, so the task stays manual_pending for the retry scan.              *)
TimeoutCallFails(w) ==
  /\ worker[w].pc = "tasked"
  /\ worker' = [worker EXCEPT ![w] = IdleWorker]
  /\ UNCHANGED <<orderVars, attemptVars, wx, queueVars, callback, request, ledgerVars, task, reject,
                 crashes, overrides>>

(* completeRefund with the version the job read before its own first write. *)
TimeoutFinish(w) ==
  /\ worker[w].pc = "called"
  /\ worker' = [worker EXCEPT ![w] = IdleWorker]
  /\ IF CanComplete(worker[w].version)
     THEN CompleteRefund
     ELSE UNCHANGED <<orderVars, attemptVars, ledgerVars, task>>
  /\ UNCHANGED <<wx, queueVars, callback, request, reject, crashes, overrides>>

(* The retry scan reads the task and the order ... *)
RetryScan(w) ==
  /\ worker[w] = IdleWorker
  /\ task.trigger = "system_timeout" /\ task.status = "manual_pending"
  /\ task.retries < MaxRetries
  /\ status = "refunding" /\ payStatus = "refunding"
  /\ worker' = [worker EXCEPT ![w] = [pc |-> "scanned", version |-> version,
                  attempt |-> task.attempt, no |-> task.no, retries |-> task.retries]]
  /\ UNCHANGED <<orderVars, attemptVars, wx, queueVars, callback, request, ledgerVars, task, reject,
                 crashes, overrides>>

(* ... and takes the task by a compare-and-set on (status, retryCount). *)
RetryPick(w) ==
  /\ worker[w].pc = "scanned"
  /\ IF /\ task.no = worker[w].no
        /\ task.status = "manual_pending" /\ task.retries = worker[w].retries
     THEN /\ task' = [task EXCEPT !.status = "refunding", !.retries = @ + 1]
          /\ worker' = [worker EXCEPT ![w].pc = "picked"]
     ELSE /\ worker' = [worker EXCEPT ![w] = IdleWorker]
          /\ UNCHANGED task
  /\ UNCHANGED <<orderVars, attemptVars, wx, queueVars, callback, request, ledgerVars, reject,
                 crashes, overrides>>

RetryCall(w) ==
  /\ worker[w].pc = "picked"
  /\ RefundAtWechat(worker[w].attempt)
  /\ worker' = [worker EXCEPT ![w].pc = "answered"]
  /\ UNCHANGED <<orderVars, attemptVars, queueVars, callback, request, ledgerVars, task, reject,
                 crashes, overrides>>

TaskAfterMissedRetry(w) ==  \* mutant: compares the count from before the retry
  IF task.no = worker[w].no /\ task.status = "refunding" /\ task.retries = worker[w].retries
  THEN [task EXCEPT !.status = "manual_pending"]
  ELSE task

(* markRetryFailed: back to manual_pending, or failed after the last retry. *)
TaskAfterFailedRetry(w) ==
  IF /\ task.no = worker[w].no /\ task.status = "refunding"
     /\ task.retries = worker[w].retries + 1
  THEN [task EXCEPT !.status = IF worker[w].retries + 1 >= MaxRetries
                               THEN "failed" ELSE "manual_pending"]
  ELSE task

RetryCallFails(w) ==
  /\ worker[w].pc = "picked"
  /\ task' = TaskAfterFailedRetry(w)
  /\ worker' = [worker EXCEPT ![w] = IdleWorker]
  /\ UNCHANGED <<orderVars, attemptVars, wx, queueVars, callback, request, ledgerVars, reject,
                 crashes, overrides>>

RetryFinish(w) ==
  /\ worker[w].pc = "answered"
  /\ worker' = [worker EXCEPT ![w] = IdleWorker]
  /\ IF CanComplete(worker[w].version)
     THEN CompleteRefund
     ELSE /\ task' = TaskAfterFailedRetry(w)
          /\ UNCHANGED <<orderVars, attemptVars, ledgerVars>>
  /\ UNCHANGED <<wx, queueVars, callback, request, reject, crashes, overrides>>

-----------------------------------------------------------------------------
(* A process dies, or an unexpected error ends a flow, between two commits.  *)

CanCrash == crashes < MaxCrashes /\ crashes' = crashes + 1

CrashRequest(r) ==
  /\ CanCrash
  /\ request[r].pc # "idle"
  /\ request' = [request EXCEPT ![r] = IdleRequest]
  /\ UNCHANGED <<orderVars, attemptVars, wx, queueVars, callback, ledgerVars, task, reject, worker,
                 overrides>>

CrashReject ==
  /\ CanCrash
  /\ reject.pc # "idle"
  /\ reject' = IdleReject
  /\ UNCHANGED <<orderVars, attemptVars, wx, queueVars, callback, request, ledgerVars, task, worker,
                 overrides>>

CrashWorker(w) ==
  /\ CanCrash
  /\ worker[w].pc # "idle"
  /\ worker' = [worker EXCEPT ![w] = IdleWorker]
  /\ UNCHANGED <<orderVars, attemptVars, wx, queueVars, callback, request, ledgerVars, task, reject,
                 overrides>>

-----------------------------------------------------------------------------
Checkout == \E r \in Requests :
  \/ LoadPayable(r) \/ CloseStale(r) \/ AssertNoActive(r) \/ InsertAttempt(r)
  \/ MarkCreated(r) \/ PrepayFails(r) \/ CrashRequest(r)

Payment == \E a \in Attempts :
  \/ UserPays(a) \/ Notify(a) \/ BeginQueued(a) \/ BeginVerify(a)
  \/ SettledAgain(a) \/ CallbackRefused(a)

Settlement == ConfirmPaid \/ AnomalousPayment \/ CallbackFails

Customer == PayByBalance \/ CustomerCancel

Merchant == Accept \/ Serve \/ Complete \/ ArchiveServed \/ MerchantCancel

Rejection ==
  \/ RejectBalance \/ RejectTask \/ RejectSale \/ MerchantConfirmRefund \/ CrashReject
  \/ \E a \in Attempts : RejectMark(a)

AutoRefund(w) ==
  \/ TimeoutTask(w) \/ TimeoutCall(w) \/ TimeoutCallFails(w) \/ TimeoutFinish(w)
  \/ RetryScan(w) \/ RetryPick(w) \/ RetryCall(w) \/ RetryCallFails(w) \/ RetryFinish(w)
  \/ \E a \in Attempts : TimeoutMark(w, a)

Timeouts == ExpireUnpaid \/ TimeoutBalance \/ \E w \in Workers : AutoRefund(w) \/ CrashWorker(w)

Next == \/ TimePasses \/ Checkout \/ Payment \/ Settlement \/ Customer \/ Merchant \/ Rejection
        \/ Timeouts

Spec == Init /\ [][Next]_vars

(* The interval timers and the queue's workers keep running; customers,      *)
(* merchants and WeChat's notifications owe nothing.                         *)
Fairness ==
  /\ WF_vars(ExpireUnpaid)
  /\ WF_vars(TimeoutBalance)
  /\ \A w \in Workers : WF_vars(AutoRefund(w))
  /\ \A a \in Attempts : WF_vars(BeginQueued(a) \/ SettledAgain(a) \/ CallbackRefused(a))
  /\ WF_vars(Settlement)

LiveSpec == Spec /\ Fairness
-----------------------------------------------------------------------------
(* Properties *)

Channels == {"none", "wechat_jsapi", "marketing_balance"}
WxStates == {"none", "payable", "captured", "refunded"}
JobStates == {"none", "queued", "done", "dead"}
SomeAttempt == Attempts \cup {NoAttempt}
Callbacks == [pc : {"idle", "payable", "closed"}, attempt : SomeAttempt,
              via : {"none", "queue", "verify"}]
CheckoutStates == [pc : {"idle", "loaded", "swept", "cleared", "inserted"}, attempt : SomeAttempt]
Triggers == {"none", "anomalous_payment", "merchant_reject", "system_timeout"}
Tasks == [status : OpenTask \cup {"none", "succeeded", "failed"}, trigger : Triggers,
          attempt : SomeAttempt, retries : Nat, no : Nat]
Rejections == [pc : {"idle", "marked", "tasked"}, attempt : SomeAttempt]
JobRuns == [pc : {"idle", "marked", "tasked", "called", "scanned", "picked", "answered"},
            version : Nat, attempt : SomeAttempt, no : Nat, retries : Nat]

TypeOK ==
  /\ status \in Statuses /\ payStatus \in PayStatuses
  /\ version \in Nat /\ deadline \in {"running", "passed"}
  /\ attempt \in [Attempts -> AttemptStatuses]
  /\ channel \in [Attempts -> Channels]
  /\ nextAttempt \in 1..(MaxAttempts + 1)
  /\ wx \in [Attempts -> WxStates]
  /\ job \in [Attempts -> JobStates] /\ tries \in [Attempts -> Nat]
  /\ callback \in Callbacks
  /\ request \in [Requests -> CheckoutStates]
  /\ balance \in {"none", "debited", "returned"} /\ settled \in Nat
  /\ sale \in {"none", "sold", "refunded"} /\ stock \in {"held", "deducted", "returned"}
  /\ task \in Tasks
  /\ reject \in Rejections
  /\ worker \in [Workers -> JobRuns]
  /\ crashes \in Nat /\ overrides \in Nat

(* An order is paid, or being refunded, only on the strength of a succeeded  *)
(* attempt behind which money really moved: WeChat captured it, or the       *)
(* balance was debited.                                                      *)
MoneyBehind(a) ==
  /\ attempt[a] = "succeeded"
  /\ \/ channel[a] = "wechat_jsapi" /\ wx[a] \in {"captured", "refunded"}
     \/ channel[a] = "marketing_balance" /\ balance = "debited"

PaidIsBacked ==
  payStatus \in {"paid", "refunding"} => \E a \in Attempts : MoneyBehind(a)

(* Money that WeChat captured is accounted for: once an attempt is recorded  *)
(* as succeeded the order is paid or being refunded, or it was closed and a  *)
(* refund task waits.  Only a callback that overwrote a moved order escapes. *)
CaptureAccounted ==
  overrides = 0 =>
    \A a \in Attempts :
      attempt[a] = "succeeded" =>
        \/ payStatus \in {"paid", "refunding"}
        \/ status = "cancelled" /\ payStatus = "unpaid" /\ task.status \in OpenTask

(* A callback job is done only when its payment has been recorded. *)
DoneMeansRecorded ==
  \A a \in Attempts : job[a] = "done" => attempt[a] \in {"succeeded", "refunded"}

(* WeChat gives money back only for an order that is being refunded or is    *)
(* rejected, whatever the merchant, the job and late callbacks did meanwhile. *)
RefundOnlyWhenRefunding ==
  (\E a \in Attempts : wx[a] = "refunded") => status \in {"refunding", "rejected"}

(* The books: a served order has one sale, a rejected order a refunded one,  *)
(* an order nobody served or rejected has none.                              *)
BooksMatch ==
  overrides = 0 =>
    /\ sale = "sold" <=> status \in {"served", "completed"}
    /\ sale = "refunded" => status \in {"refunding", "rejected"}
    /\ status = "rejected" => sale = "refunded" /\ balance # "debited"

(* The goods: reserved until the order is accepted, deducted then, and back  *)
(* when the order ends unserved, at no other moment.  (A merchant's cancel   *)
(* keeps them: see CancelReleases.)                                          *)
GoodsMatch ==
  overrides = 0 =>
    /\ status \in {"pending_payment", "pending_acceptance"} => stock = "held"
    /\ stock = "returned" => status \in {"cancelled", "rejected"}
    /\ status = "rejected" => stock = "returned"
    /\ status \in {"preparing", "served", "completed"} => stock = "deducted"

(* What a settlement that commits without looking again can do is bounded:   *)
(* it overwrites an order that has moved on at most once, and the points and *)
(* the consumption of an order are written once, or twice after an override. *)
DamageBounded ==
  /\ settled = 0 <=> payStatus = "unpaid"
  /\ overrides <= settled /\ settled <= overrides + 1
  /\ overrides <= 1

(* The version a refund flow holds: that of the timeout job is the one from  *)
(* before its own first write and never matches again, that of a retry       *)
(* matches only while the order it read is still being refunded.             *)
RefundVersions ==
  \A w \in Workers :
    /\ worker[w].pc \in {"marked", "tasked", "called"} => worker[w].version < version
    /\ worker[w].pc \in {"scanned", "picked", "answered"} =>
         /\ worker[w].version <= version
         /\ worker[w].version = version => status = "refunding" /\ payStatus = "refunding"

(* A refund task taken by a retry is in the hands of a running job: nothing  *)
(* but a crash leaves it in 'refunding', where no scan would find it again.  *)
RetryHasOwner ==
  task.status = "refunding" /\ crashes = 0 =>
    \E w \in Workers : worker[w].pc \in {"picked", "answered"} /\ worker[w].no = task.no

(* An order in 'refunding' has its refund task, unless the flow that marked  *)
(* it is just about to insert it, or died before it could.                   *)
RefundingHasTask ==
  status = "refunding" /\ crashes = 0 =>
    \/ task.status \in OpenTask \cup {"failed"}
    \/ reject.pc = "marked"
    \/ \E w \in Workers : worker[w].pc = "marked"

(* Optimistic locking is sound: whoever changes the status or the payment    *)
(* status raises the version, except for the archiving of served orders.     *)
VersionGuardsStatus ==
  [][ \/ <<status, payStatus>>' = <<status, payStatus>>
      \/ version' = version + 1
      \/ status = "served" /\ status' = "completed" /\ version' = version ]_vars

(* The detailed order keeps the promise of ScanOrderPromise. *)
Stage ==
  CASE status = "pending_payment" -> "open"
    [] status = "pending_acceptance" -> "paid"
    [] status = "preparing" -> "making"
    [] status = "served" -> "ready"
    [] status = "completed" -> "finished"
    [] status = "cancelled" -> "closed"
    [] status = "refunding" -> "refunding"
    [] OTHER -> "refunded"

Promise == INSTANCE ScanOrderPromise WITH stage <- Stage, settling <- callback.pc = "payable"

KeepsPromise == Promise!Spec

(* Liveness: what the timers and the queue finish. *)

(* An order nobody pays does not stay open past its deadline. *)
UnpaidExpires == (status = "pending_payment" /\ deadline = "passed") ~> (status # "pending_payment")

(* A paid order nobody accepts or serves in time leaves its stage. *)
LateOrderLeaves ==
  /\ (status = "pending_acceptance" /\ deadline = "passed")
       ~> (status # "pending_acceptance" \/ deadline = "running")
  /\ (status = "preparing" /\ deadline = "passed")
       ~> (status # "preparing" \/ deadline = "running")

(* A queued callback is settled or becomes a dead letter. *)
CallbackEnds == \A a \in Attempts : job[a] = "queued" ~> job[a] \in {"done", "dead"}

(* An order the timeout job is refunding ends, or its task fails for good    *)
(* after the last retry; only a job that dies on the way leaves it hanging.  *)
TimeoutRefundEnds ==
  (status = "refunding" /\ task.trigger = "system_timeout" /\ task.status \in OpenTask)
    ~> (status = "rejected" \/ task.status = "failed" \/ crashes > 0)

(* What comments of the code say and the code does not do. *)

(* payment service: a closed order is not brought back by a payment. *)
ClosedStaysClosed == [][status = "cancelled" => status' = "cancelled"]_vars

(* balance checkout: the version condition stops the second payment. *)
SettledOnce == settled <= 1

(* timeout refund: mark, task, WeChat call, then the loop is closed. *)
TimeoutRefundCloses ==
  [][\A w \in Workers : TimeoutFinish(w) => status' = "rejected"]_vars

(* transition service: cancelling releases the reservation. *)
CancelReleases == status = "cancelled" => stock = "returned"

(* checkout: one payment attempt in flight per order. *)
OneInFlight == Cardinality({a \in Attempts : attempt[a] \in InFlight}) <= 1
=============================================================================
