-------------------------- MODULE ScanOrderProofs --------------------------
(***************************************************************************)
(* Theorems about ScanOrder for any number of payment attempts, checkout   *)
(* requests, runs of the timeout job, tries, retries and crashes.          *)
(***************************************************************************)
EXTENDS ScanOrder, TLAPS

-----------------------------------------------------------------------------
(* The values the actions assign belong to the types of their variables. *)

LEMMA StatusValues ==
  /\ {"pending_payment", "pending_acceptance", "preparing", "served", "completed", "cancelled",
      "rejected", "refunding"} \subseteq Statuses
  /\ {"unpaid", "paid", "refunding", "refunded"} \subseteq PayStatuses
  BY DEF Statuses, PayStatuses

LEMMA AttemptValues ==
  /\ {"none", "created", "paying", "succeeded", "failed", "closed", "refunded"}
       \subseteq AttemptStatuses
  /\ {"none", "wechat_jsapi", "marketing_balance"} \subseteq Channels
  /\ {"none", "payable", "captured", "refunded"} \subseteq WxStates
  /\ {"none", "queued", "done", "dead"} \subseteq JobStates
  BY DEF AttemptStatuses, Channels, WxStates, JobStates

(* The next id stays in its range when an attempt is inserted. *)
LEMMA NextId ==
  ASSUME nextAttempt \in Attempts PROVE nextAttempt + 1 \in 1..(MaxAttempts + 1)
  BY BoundsAssumption DEF Attempts

(* An idle flow is of its flow's type. *)
LEMMA IdleValues ==
  /\ IdleCallback \in Callbacks /\ IdleRequest \in CheckoutStates
  /\ IdleReject \in Rejections /\ IdleWorker \in JobRuns /\ NoTask \in Tasks
  BY DEF IdleCallback, IdleRequest, IdleReject, IdleWorker, NoTask, Callbacks, CheckoutStates,
         Rejections, JobRuns, Tasks, Triggers, SomeAttempt

(* Creating a task, closing it and failing a retry yield tasks. *)
LEMMA TaskValues ==
  ASSUME TypeOK
  PROVE  /\ \A a \in SomeAttempt, t \in Triggers : TaskAfterCreate(t, a) \in Tasks
         /\ \A t \in Tasks : TaskAfterSuccess(t) \in Tasks
         /\ \A w \in Workers : TaskAfterFailedRetry(w) \in Tasks
  BY DEF TypeOK, TaskAfterCreate, TaskAfterSuccess, TaskAfterFailedRetry, Tasks, OpenTask

-----------------------------------------------------------------------------
(* Every variable keeps its type in every step. *)
LEMMA TypeStep == TypeOK /\ [Next]_vars => TypeOK'
<1> SUFFICES ASSUME TypeOK, [Next]_vars PROVE TypeOK'
  OBVIOUS
<1> USE DEF TypeOK, orderVars, attemptVars, queueVars, ledgerVars
<1>1. CASE TimePasses
  BY <1>1 DEF TimePasses
<1>2. CASE Checkout
  <2> SUFFICES ASSUME NEW r \in Requests,
                      \/ LoadPayable(r) \/ CloseStale(r) \/ AssertNoActive(r) \/ InsertAttempt(r)
                      \/ MarkCreated(r) \/ PrepayFails(r) \/ CrashRequest(r)
               PROVE TypeOK'
    BY <1>2 DEF Checkout
  <2>1. CASE LoadPayable(r)
    BY <2>1 DEF LoadPayable, CheckoutStates
  <2>2. CASE CloseStale(r)
    BY <2>2, AttemptValues DEF CloseStale, CheckoutStates
  <2>3. CASE AssertNoActive(r)
    BY <2>3 DEF AssertNoActive, CheckoutStates
  <2>4. CASE InsertAttempt(r)
    BY <2>4, AttemptValues, NextId DEF InsertAttempt, CheckoutStates, SomeAttempt
  <2>5. CASE MarkCreated(r)
    BY <2>5, AttemptValues, IdleValues DEF MarkCreated
  <2>6. CASE PrepayFails(r)
    BY <2>6, AttemptValues, IdleValues DEF PrepayFails
  <2>7. CASE CrashRequest(r)
    BY <2>7, IdleValues DEF CrashRequest, CanCrash
  <2> QED BY <2>1, <2>2, <2>3, <2>4, <2>5, <2>6, <2>7
<1>3. CASE Payment
  <2> SUFFICES ASSUME NEW a \in Attempts,
                      \/ UserPays(a) \/ Notify(a) \/ BeginQueued(a) \/ BeginVerify(a)
                      \/ SettledAgain(a) \/ CallbackRefused(a)
               PROVE TypeOK'
    BY <1>3 DEF Payment
  <2>1. CASE UserPays(a)
    BY <2>1, AttemptValues DEF UserPays
  <2>2. CASE Notify(a)
    BY <2>2, AttemptValues DEF Notify
  <2>3. CASE BeginQueued(a)
    BY <2>3 DEF BeginQueued, BeginCallback, Callbacks, SomeAttempt
  <2>4. CASE BeginVerify(a)
    BY <2>4 DEF BeginVerify, BeginCallback, Callbacks, SomeAttempt
  <2>5. CASE SettledAgain(a)
    BY <2>5, AttemptValues DEF SettledAgain
  <2>6. CASE CallbackRefused(a)
    BY <2>6, AttemptValues DEF CallbackRefused, FailJob
  <2> QED BY <2>1, <2>2, <2>3, <2>4, <2>5, <2>6
<1>4. CASE Settlement
  <2>1. CASE ConfirmPaid
    <3>1. job' \in [Attempts -> JobStates]
      BY <2>1, AttemptValues DEF ConfirmPaid, JobAfterCommit
    <3>2. overrides' \in Nat
      BY <2>1 DEF ConfirmPaid
    <3>3. attempt' \in [Attempts -> AttemptStatuses]
      BY <2>1, AttemptValues DEF ConfirmPaid
    <3> QED BY <2>1, <3>1, <3>2, <3>3, StatusValues, IdleValues DEF ConfirmPaid, MoveOrder
  <2>2. CASE AnomalousPayment
    <3>1. callback.attempt \in SomeAttempt
      BY DEF Callbacks
    <3>2. TaskAfterCreate("anomalous_payment", callback.attempt) \in Tasks
      BY <3>1, TaskValues DEF Triggers
    <3> QED BY <2>2, <3>2, AttemptValues, IdleValues DEF AnomalousPayment, JobAfterCommit
  <2>3. CASE CallbackFails
    BY <2>3, AttemptValues, IdleValues DEF CallbackFails, FailJob
  <2> QED BY <1>4, <2>1, <2>2, <2>3 DEF Settlement
<1>5. CASE Customer
  <2>1. CASE PayByBalance
    BY <2>1, StatusValues, AttemptValues, NextId DEF PayByBalance, MoveOrder
  <2>2. CASE CustomerCancel
    BY <2>2, StatusValues, AttemptValues DEF CustomerCancel, CloseUnpaid, MoveOrder
  <2> QED BY <1>5, <2>1, <2>2 DEF Customer
<1>6. CASE Merchant
  BY <1>6, StatusValues DEF Merchant, Accept, Serve, Complete, ArchiveServed, MerchantCancel,
              UnchangedByMerchant, MoveOrder
<1>7. ASSUME NEW t \in {"merchant_reject", "system_timeout"}, BalanceRefund(t)
      PROVE  TypeOK'
  <2>1. PICK a \in Attempts : task' = TaskAfterSuccess(TaskAfterCreate(t, a))
    BY <1>7 DEF BalanceRefund
  <2>2. task' \in Tasks
    BY <2>1, TaskValues DEF Triggers, SomeAttempt
  <2> QED BY <1>7, <2>2, StatusValues, AttemptValues DEF BalanceRefund, MoveOrder
<1>8. CompleteRefund => /\ status' \in Statuses /\ payStatus' \in PayStatuses
                         /\ version' \in Nat /\ task' \in Tasks
                         /\ attempt' \in [Attempts -> AttemptStatuses]
  BY StatusValues, AttemptValues, TaskValues DEF CompleteRefund, MoveOrder
<1>9. CASE Rejection
  <2>1. CASE RejectBalance
    BY <2>1, <1>7 DEF RejectBalance
  <2>2. CASE RejectTask
    <3>1. reject.attempt \in SomeAttempt
      BY DEF Rejections
    <3>2. task' \in Tasks
      BY <2>2, <3>1, TaskValues DEF RejectTask, Triggers
    <3> QED BY <2>2, <3>2 DEF RejectTask, Rejections
  <2>3. CASE RejectSale
    BY <2>3, IdleValues DEF RejectSale
  <2>4. CASE MerchantConfirmRefund
    BY <2>4, <1>8 DEF MerchantConfirmRefund, CompleteRefund
  <2>5. CASE CrashReject
    BY <2>5, IdleValues DEF CrashReject, CanCrash
  <2>6. CASE \E a \in Attempts : RejectMark(a)
    BY <2>6, StatusValues DEF RejectMark, MoveOrder, Rejections, SomeAttempt
  <2> QED BY <1>9, <2>1, <2>2, <2>3, <2>4, <2>5, <2>6 DEF Rejection
<1>10. CASE Timeouts
  <2>1. CASE ExpireUnpaid
    BY <2>1, StatusValues, AttemptValues DEF ExpireUnpaid, CloseUnpaid, MoveOrder
  <2>2. CASE TimeoutBalance
    BY <2>2, <1>7 DEF TimeoutBalance
  <2>3. ASSUME NEW w \in Workers, AutoRefund(w) \/ CrashWorker(w) PROVE TypeOK'
    <3>1. worker[w] \in JobRuns /\ worker[w].attempt \in SomeAttempt
      BY DEF JobRuns
    <3>2. CASE TimeoutTask(w)
      <4>1. task' \in Tasks
        BY <3>1, <3>2, TaskValues DEF TimeoutTask, Triggers
      <4> QED BY <3>2, <4>1 DEF TimeoutTask, JobRuns
    <3>3. CASE TimeoutCall(w)
      BY <3>3, AttemptValues DEF TimeoutCall, RefundAtWechat, JobRuns
    <3>4. CASE TimeoutCallFails(w)
      BY <3>4, IdleValues DEF TimeoutCallFails
    <3>5. CASE TimeoutFinish(w)
      BY <3>5, <1>8, IdleValues DEF TimeoutFinish, CompleteRefund
    <3>6. CASE RetryScan(w)
      BY <3>6 DEF RetryScan, JobRuns, Tasks
    <3>7. CASE RetryPick(w)
      <4>1. task' \in Tasks
        <5>1. task.retries + 1 \in Nat
          BY DEF Tasks
        <5>2. [task EXCEPT !.status = "refunding", !.retries = task.retries + 1] \in Tasks
          BY <5>1 DEF Tasks, OpenTask
        <5> QED BY <3>7, <5>2 DEF RetryPick
      <4>2. [worker[w] EXCEPT !.pc = "picked"] \in JobRuns
        BY <3>1 DEF JobRuns
      <4>3. worker' \in [Workers -> JobRuns]
        BY <3>7, <4>2, IdleValues DEF RetryPick
      <4> QED BY <3>7, <4>1, <4>3 DEF RetryPick
    <3>8. CASE RetryCall(w)
      BY <3>8, AttemptValues DEF RetryCall, RefundAtWechat, JobRuns
    <3>9. CASE RetryCallFails(w)
      BY <3>9, IdleValues, TaskValues DEF RetryCallFails
    <3>10. CASE RetryFinish(w)
      BY <3>10, <1>8, IdleValues, TaskValues DEF RetryFinish, CompleteRefund
    <3>11. CASE \E a \in Attempts : TimeoutMark(w, a)
      <4>1. PICK a \in Attempts : TimeoutMark(w, a)
        BY <3>11
      <4>2. [IdleWorker EXCEPT !.pc = "marked", !.version = version, !.attempt = a] \in JobRuns
        BY DEF IdleWorker, JobRuns, SomeAttempt
      <4>3. worker' \in [Workers -> JobRuns]
        BY <4>1, <4>2 DEF TimeoutMark
      <4> QED BY <4>1, <4>3, StatusValues DEF TimeoutMark, MoveOrder
    <3>12. CASE CrashWorker(w)
      BY <3>12, IdleValues DEF CrashWorker, CanCrash
    <3> QED
      BY <2>3, <3>2, <3>3, <3>4, <3>5, <3>6, <3>7, <3>8, <3>9, <3>10, <3>11, <3>12 DEF AutoRefund
  <2> QED BY <1>10, <2>1, <2>2, <2>3 DEF Timeouts
<1>11. CASE UNCHANGED vars
  BY <1>11 DEF vars
<1> QED BY <1>1, <1>2, <1>3, <1>4, <1>5, <1>6, <1>9, <1>10, <1>11 DEF Next

LEMMA TypeInit == Init => TypeOK
  BY BoundsAssumption, StatusValues, AttemptValues, IdleValues DEF Init, TypeOK

(* The variables hold values of their types in every reachable state: every  *)
(* handler leaves rows the schema's enumerations and relations allow.        *)
THEOREM TypeCorrect == Spec => []TypeOK
<1>1. Init => TypeOK
  BY TypeInit
<1>2. TypeOK /\ [Next]_vars => TypeOK'
  BY TypeStep
<1> QED BY <1>1, <1>2, PTL DEF Spec
=============================================================================
