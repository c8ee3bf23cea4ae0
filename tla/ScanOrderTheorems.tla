-------------------------- MODULE ScanOrderTheorems --------------------------
(***************************************************************************)
(* The theorems about an order: the inductive invariant and the safety     *)
(* properties it implies, the version rule, and the refinement of          *)
(* ScanOrderPromise.                                                       *)
(***************************************************************************)
EXTENDS ScanOrderMoney

(* The part of the type invariant about tasks and flows. *)
LEMMA FlowTypes ==
  ASSUME TypeOK
  PROVE  /\ task \in Tasks /\ sale \in {"none", "sold", "refunded"} /\ reject \in Rejections
         /\ worker \in [Workers -> JobRuns] /\ crashes \in Nat /\ overrides \in Nat
         /\ attempt \in [Attempts -> AttemptStatuses] /\ channel \in [Attempts -> Channels]
         /\ task.retries \in Nat /\ \A w \in Workers : worker[w].retries \in Nat
  BY DEF TypeOK, Tasks, JobRuns
(* An order the balance paid is never closed or put in a WeChat refund. *)
LEMMA StepBalanceBacks ==
  /\ TypeOK /\ BalanceBacks /\ PendingIsUnpaid
  /\ ClosedIsCancelled /\ [Next]_vars
  => BalanceBacks'
<1> SUFFICES ASSUME TypeOK, BalanceBacks, PendingIsUnpaid, ClosedIsCancelled, [Next]_vars
             PROVE  BalanceBacks'
  OBVIOUS
<1> USE DEF orderVars, attemptVars, queueVars, ledgerVars, BalanceBacks, PendingIsUnpaid,
            ClosedIsCancelled, Paid, InFlight
<1>1. CASE TimePasses
  BY <1>1 DEF TimePasses
<1>2. CASE Checkout
  BY FlowTypes, <1>2 DEF Checkout, LoadPayable, CloseStale, AssertNoActive, InsertAttempt,
         MarkCreated, PrepayFails, CrashRequest, CanCrash, IdleRequest, Unpaid
<1>3. CASE Payment
  BY FlowTypes, <1>3 DEF Payment, UserPays, Notify, BeginQueued, BeginVerify, BeginCallback,
         SettledAgain, CallbackRefused, FailJob, Branch, Unpaid, IdleCallback
<1>4. CASE Settlement
  <2>1. CASE ConfirmPaid
    BY FlowTypes, <2>1 DEF ConfirmPaid, MoveOrder, IdleCallback, Unpaid
  <2>2. CASE AnomalousPayment
    BY FlowTypes, <2>2 DEF AnomalousPayment, IdleCallback, TaskAfterCreate
  <2>3. CASE CallbackFails
    BY FlowTypes, <2>3 DEF CallbackFails
  <2> QED BY <1>4, <2>1, <2>2, <2>3 DEF Settlement
<1>5. CASE Customer
  BY FlowTypes, <1>5 DEF Customer, PayByBalance, CustomerCancel, CloseUnpaid, MoveOrder, Unpaid
<1>6. CASE Merchant
  BY FlowTypes, <1>6 DEF Merchant, Accept, Serve, Complete, ArchiveServed, MerchantCancel,
         UnchangedByMerchant, MoveOrder
<1>7. CASE Rejection
  BY FlowTypes, <1>7 DEF Rejection, RejectBalance, BalanceRefund, IsLatestSucceeded, RejectMark,
         RejectTask, RejectSale, MerchantConfirmRefund, CanComplete, CompleteRefund,
         CrashReject, CanCrash, MoveOrder, IdleReject, TaskAfterCreate, TaskAfterSuccess
<1>8. CASE Timeouts
  <2>1. CASE ExpireUnpaid
    BY FlowTypes, <2>1 DEF ExpireUnpaid, CloseUnpaid, MoveOrder, Unpaid
  <2>2. CASE TimeoutBalance
    BY FlowTypes, <2>2 DEF TimeoutBalance, BalanceRefund, IsLatestSucceeded, MoveOrder,
           TaskAfterSuccess, TaskAfterCreate, TaskAfterSuccess
  <2>3. ASSUME NEW w \in Workers, TimeoutCall(w) \/ RetryCall(w) PROVE BalanceBacks'
    BY FlowTypes, <2>3 DEF TimeoutCall, RetryCall, RefundAtWechat
  <2>4. ASSUME NEW w \in Workers, TimeoutFinish(w) \/ RetryFinish(w) PROVE BalanceBacks'
    BY FlowTypes, <2>4 DEF TimeoutFinish, RetryFinish, CanComplete, CompleteRefund, MoveOrder,
           TaskAfterFailedRetry, IdleWorker, TaskAfterCreate, TaskAfterSuccess
  <2>5. ASSUME NEW w \in Workers, NEW a \in Attempts, TimeoutMark(w, a) PROVE BalanceBacks'
    BY FlowTypes, <2>5 DEF TimeoutMark, MoveOrder, IsLatestSucceeded
  <2>6. ASSUME NEW w \in Workers, \/ TimeoutCallFails(w) \/ RetryCallFails(w) \/ CrashWorker(w)
        PROVE  BalanceBacks'
    BY FlowTypes, <2>6 DEF TimeoutCallFails, RetryCallFails, CrashWorker, IdleWorker,
           TaskAfterFailedRetry, CanCrash
  <2>7. ASSUME NEW w \in Workers, \/ TimeoutTask(w) \/ RetryScan(w) \/ RetryPick(w)
        PROVE  BalanceBacks'
    BY FlowTypes, <2>7 DEF TimeoutTask, RetryScan, RetryPick, IdleWorker, TaskAfterCreate
  <2> QED BY <1>8, <2>1, <2>2, <2>3, <2>4, <2>5, <2>6, <2>7 DEF Timeouts, AutoRefund
<1>9. CASE UNCHANGED vars
  BY <1>9 DEF vars
<1> QED BY <1>1, <1>2, <1>3, <1>4, <1>5, <1>6, <1>7, <1>8, <1>9 DEF Next, Customer, LaterStep

(* Each step moves the sale order together with the stage. *)
LEMMA StepBooksMatch ==
  /\ TypeOK /\ BooksMatch /\ BalanceBacks
  /\ PendingIsUnpaid /\ RefundFlows /\ [Next]_vars
  => BooksMatch'
<1> SUFFICES ASSUME TypeOK, BooksMatch, BalanceBacks, PendingIsUnpaid, RefundFlows, [Next]_vars
             PROVE  BooksMatch'
  OBVIOUS
<1> USE DEF orderVars, attemptVars, queueVars, ledgerVars, BooksMatch, BalanceBacks,
            PendingIsUnpaid, RefundFlows, Paid, InFlight
<1>1. CASE TimePasses
  BY <1>1 DEF TimePasses
<1>2. CASE Checkout
  BY FlowTypes, <1>2 DEF Checkout, LoadPayable, CloseStale, AssertNoActive, InsertAttempt,
         MarkCreated, PrepayFails, CrashRequest, CanCrash, IdleRequest, Unpaid
<1>3. CASE Payment
  BY FlowTypes, <1>3 DEF Payment, UserPays, Notify, BeginQueued, BeginVerify, BeginCallback,
         SettledAgain, CallbackRefused, FailJob, Branch, Unpaid, IdleCallback
<1>4. CASE Settlement
  <2>1. CASE ConfirmPaid
    BY FlowTypes, <2>1 DEF ConfirmPaid, MoveOrder, IdleCallback, Unpaid
  <2>2. CASE AnomalousPayment
    BY FlowTypes, <2>2 DEF AnomalousPayment, IdleCallback, TaskAfterCreate
  <2>3. CASE CallbackFails
    BY FlowTypes, <2>3 DEF CallbackFails
  <2> QED BY <1>4, <2>1, <2>2, <2>3 DEF Settlement
<1>5. CASE Customer
  BY FlowTypes, <1>5 DEF Customer, PayByBalance, CustomerCancel, CloseUnpaid, MoveOrder, Unpaid
<1>6. CASE Merchant
  BY FlowTypes, <1>6 DEF Merchant, Accept, Serve, Complete, ArchiveServed, MerchantCancel,
         UnchangedByMerchant, MoveOrder
<1>7. CASE Rejection
  BY FlowTypes, <1>7 DEF Rejection, RejectBalance, BalanceRefund, IsLatestSucceeded, RejectMark,
         RejectTask, RejectSale, MerchantConfirmRefund, CanComplete, CompleteRefund,
         CrashReject, CanCrash, MoveOrder, IdleReject, TaskAfterCreate, TaskAfterSuccess
<1>8. CASE Timeouts
  <2>1. CASE ExpireUnpaid
    BY FlowTypes, <2>1 DEF ExpireUnpaid, CloseUnpaid, MoveOrder, Unpaid
  <2>2. CASE TimeoutBalance
    BY FlowTypes, <2>2 DEF TimeoutBalance, BalanceRefund, IsLatestSucceeded, MoveOrder,
           TaskAfterSuccess, TaskAfterCreate, TaskAfterSuccess
  <2>3. ASSUME NEW w \in Workers, TimeoutCall(w) \/ RetryCall(w) PROVE BooksMatch'
    BY FlowTypes, <2>3 DEF TimeoutCall, RetryCall, RefundAtWechat
  <2>4. ASSUME NEW w \in Workers, TimeoutFinish(w) \/ RetryFinish(w) PROVE BooksMatch'
    BY FlowTypes, <2>4 DEF TimeoutFinish, RetryFinish, CanComplete, CompleteRefund, MoveOrder,
           TaskAfterFailedRetry, IdleWorker, TaskAfterCreate, TaskAfterSuccess
  <2>5. ASSUME NEW w \in Workers, NEW a \in Attempts, TimeoutMark(w, a) PROVE BooksMatch'
    BY FlowTypes, <2>5 DEF TimeoutMark, MoveOrder, IsLatestSucceeded
  <2>6. ASSUME NEW w \in Workers, \/ TimeoutCallFails(w) \/ RetryCallFails(w) \/ CrashWorker(w)
        PROVE  BooksMatch'
    BY FlowTypes, <2>6 DEF TimeoutCallFails, RetryCallFails, CrashWorker, IdleWorker,
           TaskAfterFailedRetry, CanCrash
  <2>7. ASSUME NEW w \in Workers, \/ TimeoutTask(w) \/ RetryScan(w) \/ RetryPick(w)
        PROVE  BooksMatch'
    BY FlowTypes, <2>7 DEF TimeoutTask, RetryScan, RetryPick, IdleWorker, TaskAfterCreate
  <2> QED BY <1>8, <2>1, <2>2, <2>3, <2>4, <2>5, <2>6, <2>7 DEF Timeouts, AutoRefund
<1>9. CASE UNCHANGED vars
  BY <1>9 DEF vars
<1> QED BY <1>1, <1>2, <1>3, <1>4, <1>5, <1>6, <1>7, <1>8, <1>9 DEF Next, Customer, LaterStep

(* Each step moves the goods together with the stage. *)
LEMMA StepGoodsMatch ==
  /\ TypeOK /\ GoodsMatch /\ [Next]_vars
  => GoodsMatch'
<1> SUFFICES ASSUME TypeOK, GoodsMatch, [Next]_vars
             PROVE  GoodsMatch'
  OBVIOUS
<1> USE DEF orderVars, attemptVars, queueVars, ledgerVars, GoodsMatch, Paid, InFlight
<1>1. CASE TimePasses
  BY <1>1 DEF TimePasses
<1>2. CASE Checkout
  BY FlowTypes, <1>2 DEF Checkout, LoadPayable, CloseStale, AssertNoActive, InsertAttempt,
         MarkCreated, PrepayFails, CrashRequest, CanCrash, IdleRequest, Unpaid
<1>3. CASE Payment
  BY FlowTypes, <1>3 DEF Payment, UserPays, Notify, BeginQueued, BeginVerify, BeginCallback,
         SettledAgain, CallbackRefused, FailJob, Branch, Unpaid, IdleCallback
<1>4. CASE Settlement
  <2>1. CASE ConfirmPaid
    BY FlowTypes, <2>1 DEF ConfirmPaid, MoveOrder, IdleCallback, Unpaid
  <2>2. CASE AnomalousPayment
    BY FlowTypes, <2>2 DEF AnomalousPayment, IdleCallback, TaskAfterCreate
  <2>3. CASE CallbackFails
    BY FlowTypes, <2>3 DEF CallbackFails
  <2> QED BY <1>4, <2>1, <2>2, <2>3 DEF Settlement
<1>5. CASE Customer
  BY FlowTypes, <1>5 DEF Customer, PayByBalance, CustomerCancel, CloseUnpaid, MoveOrder, Unpaid
<1>6. CASE Merchant
  BY FlowTypes, <1>6 DEF Merchant, Accept, Serve, Complete, ArchiveServed, MerchantCancel,
         UnchangedByMerchant, MoveOrder
<1>7. CASE Rejection
  BY FlowTypes, <1>7 DEF Rejection, RejectBalance, BalanceRefund, IsLatestSucceeded, RejectMark,
         RejectTask, RejectSale, MerchantConfirmRefund, CanComplete, CompleteRefund,
         CrashReject, CanCrash, MoveOrder, IdleReject, TaskAfterCreate, TaskAfterSuccess
<1>8. CASE Timeouts
  <2>1. CASE ExpireUnpaid
    BY FlowTypes, <2>1 DEF ExpireUnpaid, CloseUnpaid, MoveOrder, Unpaid
  <2>2. CASE TimeoutBalance
    BY FlowTypes, <2>2 DEF TimeoutBalance, BalanceRefund, IsLatestSucceeded, MoveOrder,
           TaskAfterSuccess, TaskAfterCreate, TaskAfterSuccess
  <2>3. ASSUME NEW w \in Workers, TimeoutCall(w) \/ RetryCall(w) PROVE GoodsMatch'
    BY FlowTypes, <2>3 DEF TimeoutCall, RetryCall, RefundAtWechat
  <2>4. ASSUME NEW w \in Workers, TimeoutFinish(w) \/ RetryFinish(w) PROVE GoodsMatch'
    BY FlowTypes, <2>4 DEF TimeoutFinish, RetryFinish, CanComplete, CompleteRefund, MoveOrder,
           TaskAfterFailedRetry, IdleWorker, TaskAfterCreate, TaskAfterSuccess
  <2>5. ASSUME NEW w \in Workers, NEW a \in Attempts, TimeoutMark(w, a) PROVE GoodsMatch'
    BY FlowTypes, <2>5 DEF TimeoutMark, MoveOrder, IsLatestSucceeded
  <2>6. ASSUME NEW w \in Workers, \/ TimeoutCallFails(w) \/ RetryCallFails(w) \/ CrashWorker(w)
        PROVE  GoodsMatch'
    BY FlowTypes, <2>6 DEF TimeoutCallFails, RetryCallFails, CrashWorker, IdleWorker,
           TaskAfterFailedRetry, CanCrash
  <2>7. ASSUME NEW w \in Workers, \/ TimeoutTask(w) \/ RetryScan(w) \/ RetryPick(w)
        PROVE  GoodsMatch'
    BY FlowTypes, <2>7 DEF TimeoutTask, RetryScan, RetryPick, IdleWorker, TaskAfterCreate
  <2> QED BY <1>8, <2>1, <2>2, <2>3, <2>4, <2>5, <2>6, <2>7 DEF Timeouts, AutoRefund
<1>9. CASE UNCHANGED vars
  BY <1>9 DEF vars
<1> QED BY <1>1, <1>2, <1>3, <1>4, <1>5, <1>6, <1>7, <1>8, <1>9 DEF Next, Customer, LaterStep

(* A refund that ends leaves no task in the hands of a retry. *)
LEMMA SuccessCloses ==
  ASSUME NEW t \in Tasks PROVE TaskAfterSuccess(t).status # "refunding"
  BY DEF TaskAfterSuccess, Tasks, OpenTask

(* The retry that takes a task is the only one that gives it up. *)
LEMMA StepRetryOwned ==
  /\ TypeOK /\ RetryOwned /\ [Next]_vars
  => RetryOwned'
<1> SUFFICES ASSUME TypeOK, RetryOwned, [Next]_vars
             PROVE  RetryOwned'
  OBVIOUS
<1> USE DEF orderVars, attemptVars, queueVars, ledgerVars, RetryOwned, Paid, InFlight, OpenTask
<1>1. CASE TimePasses
  BY <1>1 DEF TimePasses
<1>2. CASE Checkout
  BY FlowTypes, <1>2 DEF Checkout, LoadPayable, CloseStale, AssertNoActive, InsertAttempt,
         MarkCreated, PrepayFails, CrashRequest, CanCrash, IdleRequest, Unpaid
<1>3. CASE Payment
  BY FlowTypes, <1>3 DEF Payment, UserPays, Notify, BeginQueued, BeginVerify, BeginCallback,
         SettledAgain, CallbackRefused, FailJob, Branch, Unpaid, IdleCallback
<1>4. CASE Settlement
  <2>1. CASE ConfirmPaid
    BY FlowTypes, <2>1 DEF ConfirmPaid, MoveOrder, IdleCallback, Unpaid
  <2>2. CASE AnomalousPayment
    BY FlowTypes, <2>2 DEF AnomalousPayment, IdleCallback, TaskAfterCreate
  <2>3. CASE CallbackFails
    BY FlowTypes, <2>3 DEF CallbackFails
  <2> QED BY <1>4, <2>1, <2>2, <2>3 DEF Settlement
<1>5. CASE Customer
  BY FlowTypes, <1>5 DEF Customer, PayByBalance, CustomerCancel, CloseUnpaid, MoveOrder, Unpaid
<1>6. CASE Merchant
  BY FlowTypes, <1>6 DEF Merchant, Accept, Serve, Complete, ArchiveServed, MerchantCancel,
         UnchangedByMerchant, MoveOrder
<1>7. CASE Rejection
  <2>1. ASSUME task'.status # "refunding" \/ task' = task, crashes' = crashes, worker' = worker
        PROVE  RetryOwned'
    BY <2>1
  <2>2. CASE RejectBalance
    BY <2>2, FlowTypes DEF RejectBalance, BalanceRefund, TaskAfterCreate, TaskAfterSuccess
  <2>3. CASE RejectTask
    BY <2>1, <2>3, FlowTypes DEF RejectTask, TaskAfterCreate
  <2>4. CASE MerchantConfirmRefund
    BY <2>1, <2>4, FlowTypes DEF MerchantConfirmRefund, CompleteRefund, TaskAfterSuccess, Tasks
  <2>5. CASE CrashReject
    BY FlowTypes, <2>5 DEF CrashReject, CanCrash
  <2>6. CASE RejectSale \/ \E a \in Attempts : RejectMark(a)
    BY <2>1, <2>6 DEF RejectSale, RejectMark
  <2> QED BY <1>7, <2>2, <2>3, <2>4, <2>5, <2>6 DEF Rejection
<1>8. CASE Timeouts
  <2>1. CASE ExpireUnpaid \/ TimeoutBalance
    <3>1. CASE ExpireUnpaid
      BY <3>1 DEF ExpireUnpaid, CloseUnpaid
    <3>2. CASE TimeoutBalance
      <4>1. PICK a \in Attempts : task' = TaskAfterSuccess(TaskAfterCreate("system_timeout", a))
        BY <3>2 DEF TimeoutBalance, BalanceRefund
      <4>2. TaskAfterCreate("system_timeout", a) \in Tasks
        BY TaskValues DEF SomeAttempt, Triggers
      <4> QED BY <4>1, <4>2, SuccessCloses
    <3> QED BY <2>1, <3>1, <3>2
  <2>2. ASSUME NEW w \in Workers, worker[w].pc \notin {"picked", "answered"},
               \A v \in Workers : v # w => worker'[v] = worker[v],
               task' = task \/ task'.status # "refunding", crashes' = crashes
        PROVE  RetryOwned'
    BY FlowTypes, <2>2
  <2>3. ASSUME NEW w \in Workers, NEW a \in Attempts, TimeoutMark(w, a) PROVE RetryOwned'
    BY FlowTypes, <2>2, <2>3 DEF TimeoutMark, IdleWorker
  <2>4. ASSUME NEW w \in Workers, TimeoutTask(w) PROVE RetryOwned'
    BY FlowTypes, <2>2, <2>4 DEF TimeoutTask, TaskAfterCreate
  <2>5. ASSUME NEW w \in Workers, TimeoutCall(w) \/ TimeoutCallFails(w) PROVE RetryOwned'
    BY FlowTypes, <2>2, <2>5 DEF TimeoutCall, TimeoutCallFails
  <2>6. ASSUME NEW w \in Workers, TimeoutFinish(w) PROVE RetryOwned'
    BY FlowTypes, SuccessCloses, <2>2, <2>6 DEF TimeoutFinish, CompleteRefund
  <2>7. ASSUME NEW w \in Workers, RetryScan(w) PROVE RetryOwned'
    BY FlowTypes, <2>2, <2>7 DEF RetryScan, IdleWorker
  <2>8. ASSUME NEW w \in Workers, RetryPick(w) PROVE RetryOwned'
    <3>1. CASE task' = task
      BY FlowTypes, <2>2, <2>8, <3>1 DEF RetryPick
    <3>2. CASE task' # task
      <4>1. worker'[w] = [worker[w] EXCEPT !.pc = "picked"]
        BY FlowTypes, <2>8, <3>2 DEF RetryPick
      <4>2. /\ worker'[w].pc = "picked" /\ worker'[w].no = worker[w].no
            /\ worker'[w].retries = worker[w].retries
        BY FlowTypes, <4>1 DEF JobRuns
      <4>3. task' = [task EXCEPT !.status = "refunding", !.retries = task.retries + 1]
        BY <2>8, <3>2 DEF RetryPick
      <4>4. task'.no = worker[w].no /\ task'.retries = worker[w].retries + 1
        BY FlowTypes, <2>8, <3>2, <4>3 DEF RetryPick, Tasks
      <4> QED BY <4>2, <4>4
    <3> QED BY <3>1, <3>2
  <2>9. ASSUME NEW w \in Workers, RetryCall(w) PROVE RetryOwned'
    <3>1. \A v \in Workers :
            /\ worker'[v].no = worker[v].no /\ worker'[v].retries = worker[v].retries
            /\ worker[v].pc \in {"picked", "answered"}
               => worker'[v].pc \in {"picked", "answered"}
      BY FlowTypes, <2>9 DEF RetryCall, JobRuns
    <3> QED BY <2>9, <3>1 DEF RetryCall
  <2>10. ASSUME NEW w \in Workers, RetryCallFails(w) \/ RetryFinish(w) PROVE RetryOwned'
    <3>1. SUFFICES ASSUME task'.status = "refunding", crashes' = 0 PROVE RetryOwned'
      OBVIOUS
    <3>2. /\ task' = task /\ crashes' = crashes
          /\ ~(task.no = worker[w].no /\ task.retries = worker[w].retries + 1)
      BY FlowTypes, <2>10, <3>1 DEF RetryCallFails, RetryFinish, TaskAfterFailedRetry,
             CompleteRefund, TaskAfterSuccess, Tasks
    <3>3. \A v \in Workers : v # w => worker'[v] = worker[v]
      BY FlowTypes, <2>10 DEF RetryCallFails, RetryFinish
    <3> QED BY <3>1, <3>2, <3>3
  <2>11. ASSUME NEW w \in Workers, CrashWorker(w) PROVE RetryOwned'
    BY FlowTypes, <2>11 DEF CrashWorker, CanCrash
  <2> QED BY <1>8, <2>1, <2>3, <2>4, <2>5, <2>6, <2>7, <2>8, <2>9, <2>10, <2>11 DEF Timeouts,
         AutoRefund
<1>9. CASE UNCHANGED vars
  BY <1>9 DEF vars
<1> QED BY <1>1, <1>2, <1>3, <1>4, <1>5, <1>6, <1>7, <1>8, <1>9 DEF Next, Customer, LaterStep

(* The flow that moves an order to refunding goes on to insert its task. *)
LEMMA StepRefundingHasTask ==
  /\ TypeOK /\ RefundingHasTask /\ [Next]_vars
  => RefundingHasTask'
<1> SUFFICES ASSUME TypeOK, RefundingHasTask, [Next]_vars
             PROVE  RefundingHasTask'
  OBVIOUS
<1> USE DEF orderVars, attemptVars, queueVars, ledgerVars, RefundingHasTask, Paid, InFlight,
            OpenTask
<1>1. CASE TimePasses
  BY <1>1 DEF TimePasses
<1>2. CASE Checkout
  BY FlowTypes, <1>2 DEF Checkout, LoadPayable, CloseStale, AssertNoActive, InsertAttempt,
         MarkCreated, PrepayFails, CrashRequest, CanCrash, IdleRequest, Unpaid
<1>3. CASE Payment
  BY FlowTypes, <1>3 DEF Payment, UserPays, Notify, BeginQueued, BeginVerify, BeginCallback,
         SettledAgain, CallbackRefused, FailJob, Branch, Unpaid, IdleCallback
<1>4. CASE Settlement
  <2>1. CASE ConfirmPaid
    BY FlowTypes, <2>1 DEF ConfirmPaid, MoveOrder, IdleCallback, Unpaid
  <2>2. CASE AnomalousPayment
    BY FlowTypes, <2>2 DEF AnomalousPayment, IdleCallback, TaskAfterCreate
  <2>3. CASE CallbackFails
    BY FlowTypes, <2>3 DEF CallbackFails
  <2> QED BY <1>4, <2>1, <2>2, <2>3 DEF Settlement
<1>5. CASE Customer
  BY FlowTypes, <1>5 DEF Customer, PayByBalance, CustomerCancel, CloseUnpaid, MoveOrder, Unpaid
<1>6. CASE Merchant
  BY FlowTypes, <1>6 DEF Merchant, Accept, Serve, Complete, ArchiveServed, MerchantCancel,
         UnchangedByMerchant, MoveOrder
<1>7. CASE Rejection
  BY FlowTypes, <1>7 DEF Rejection, RejectBalance, BalanceRefund, IsLatestSucceeded, RejectMark,
         RejectTask, RejectSale, MerchantConfirmRefund, CanComplete, CompleteRefund,
         CrashReject, CanCrash, MoveOrder, IdleReject, TaskAfterCreate, TaskAfterSuccess
<1>8. CASE Timeouts
  <2>1. CASE ExpireUnpaid \/ TimeoutBalance
    BY <2>1 DEF ExpireUnpaid, CloseUnpaid, TimeoutBalance, BalanceRefund, MoveOrder
  <2>2. ASSUME NEW w \in Workers, worker[w].pc # "marked",
               \A v \in Workers : v # w => worker'[v] = worker[v],
               UNCHANGED <<status, reject, crashes>>,
               task' = task \/ task'.status \in OpenTask \cup {"failed"}
        PROVE  RefundingHasTask'
    BY FlowTypes, <2>2
  <2>3. ASSUME NEW w \in Workers, NEW a \in Attempts, TimeoutMark(w, a) PROVE RefundingHasTask'
    <3>1. worker'[w].pc = "marked"
      BY FlowTypes, <2>3 DEF TimeoutMark, IdleWorker
    <3> QED BY <3>1
  <2>4. ASSUME NEW w \in Workers, TimeoutTask(w) PROVE RefundingHasTask'
    BY FlowTypes, <2>4 DEF TimeoutTask, TaskAfterCreate
  <2>5. ASSUME NEW w \in Workers,
         \/ TimeoutCall(w) \/ TimeoutCallFails(w) \/ RetryScan(w) \/ RetryCall(w)
        PROVE  RefundingHasTask'
    BY FlowTypes, <2>2, <2>5 DEF TimeoutCall, TimeoutCallFails, RetryScan, RetryCall, IdleWorker
  <2>6. ASSUME NEW w \in Workers, RetryPick(w) PROVE RefundingHasTask'
    <3>1. task' = task \/ task'.status \in OpenTask
      BY FlowTypes, <2>6 DEF RetryPick, Tasks
    <3> QED BY FlowTypes, <2>2, <2>6, <3>1 DEF RetryPick
  <2>7. ASSUME NEW w \in Workers, CompleteRefund PROVE RefundingHasTask'
    BY <2>7 DEF CompleteRefund, MoveOrder
  <2>8. ASSUME NEW w \in Workers, \/ TimeoutFinish(w) \/ RetryCallFails(w) \/ RetryFinish(w)
        PROVE  RefundingHasTask'
    <3>1. \/ TaskAfterFailedRetry(w) = task
          \/ TaskAfterFailedRetry(w).status \in OpenTask \cup {"failed"}
      BY FlowTypes DEF TaskAfterFailedRetry, Tasks
    <3> QED BY FlowTypes, <2>2, <2>7, <2>8, <3>1 DEF TimeoutFinish, RetryCallFails, RetryFinish
  <2>9. ASSUME NEW w \in Workers, CrashWorker(w) PROVE RefundingHasTask'
    BY FlowTypes, <2>9 DEF CrashWorker, CanCrash
  <2> QED BY <1>8, <2>1, <2>3, <2>4, <2>5, <2>6, <2>8, <2>9 DEF Timeouts, AutoRefund
<1>9. CASE UNCHANGED vars
  BY <1>9 DEF vars
<1> QED BY <1>1, <1>2, <1>3, <1>4, <1>5, <1>6, <1>7, <1>8, <1>9 DEF Next, Customer, LaterStep

-----------------------------------------------------------------------------
(* The order as placed satisfies every part of the invariant. *)
LEMMA InitIInv == Init => IInv
<1> SUFFICES ASSUME Init PROVE IInv
  OBVIOUS
<1>1. TypeOK
  BY TypeInit
<1>2. FlowsAgree
  BY DEF Init, FlowsAgree, FreshAttempts, InsertedAttempts, WechatOnly, SucceededIsCaptured,
         NotifiedIsCaptured, SettlingIsCaptured, PendingIsUnpaid, ClosedIsCancelled,
                RefundFlows,
         SettlingBeforeRefund, OneBacker, CancelledIsUnpaid, BalanceBacks, RetryOwned, Paid,
         IdleCallback, IdleRequest, IdleReject, IdleWorker, NoTask
<1>3. PaidIsBacked /\ DoneMeansRecorded /\ CaptureAccounted /\ BooksMatch /\ GoodsMatch
  BY DEF Init, PaidIsBacked, DoneMeansRecorded, CaptureAccounted, BooksMatch, GoodsMatch
<1>4. RefundingHasTask
  BY DEF Init, RefundingHasTask
<1> QED BY <1>1, <1>2, <1>3, <1>4 DEF IInv

(* Every step preserves the invariant, part by part. *)
LEMMA StepIInv == IInv /\ [Next]_vars => IInv'
<1> SUFFICES ASSUME IInv, [Next]_vars PROVE IInv'
  OBVIOUS
<1> USE DEF IInv, FlowsAgree
<1>1. TypeOK'
  BY TypeStep
<1>2. FreshAttempts' /\ InsertedAttempts' /\ WechatOnly' /\ SucceededIsCaptured'
  BY StepFreshAttempts, StepInsertedAttempts, StepWechatOnly, StepSucceededIsCaptured
<1>3. NotifiedIsCaptured' /\ SettlingIsCaptured'
  BY StepNotifiedIsCaptured, StepSettlingIsCaptured
<1>4. PendingIsUnpaid' /\ ClosedIsCancelled' /\ RefundFlows' /\ SettlingBeforeRefund'
  BY StepPendingIsUnpaid, StepClosedIsCancelled, StepRefundFlows, StepSettlingBeforeRefund
<1>5. OneBacker' /\ CancelledIsUnpaid' /\ BalanceBacks' /\ RetryOwned'
  BY StepOneBacker, StepCancelledIsUnpaid, StepBalanceBacks, StepRetryOwned
<1>6. PaidIsBacked' /\ DoneMeansRecorded' /\ CaptureAccounted'
  BY StepPaidIsBacked, StepDoneMeansRecorded, StepCaptureAccounted
<1>7. BooksMatch' /\ GoodsMatch' /\ RefundingHasTask'
  BY StepBooksMatch, StepGoodsMatch, StepRefundingHasTask
<1> QED BY <1>1, <1>2, <1>3, <1>4, <1>5, <1>6, <1>7

(* The flows of an order agree in every reachable state, however many        *)
(* checkout requests, callbacks, jobs and crashes there are.                 *)
THEOREM Invariance == Spec => []IInv
<1>1. Init => IInv
  BY InitIInv
<1>2. IInv /\ [Next]_vars => IInv'
  BY StepIInv
<1> QED BY <1>1, <1>2, PTL DEF Spec

-----------------------------------------------------------------------------
(* What checkout, settlement, refunds and retries assume of each other when  *)
(* they act on stale reads always holds.                                     *)
THEOREM FlowsAlwaysAgree == Spec => []FlowsAgree
<1>1. IInv => FlowsAgree
  BY DEF IInv
<1> QED BY <1>1, Invariance, PTL

(* An order never counts as paid without money behind it.  The verify path   *)
(* and the queue settle only what WeChat captured, and nothing that happens  *)
(* to the attempt afterwards takes its success away while the order is paid. *)
THEOREM PaidBacked == Spec => []PaidIsBacked
<1>1. IInv => PaidIsBacked
  BY DEF IInv
<1> QED BY <1>1, Invariance, PTL

(* Captured money that was recorded always has its order or its refund task, *)
(* as long as no settlement overwrote an order that had moved on.            *)
THEOREM CapturesAccounted == Spec => []CaptureAccounted
<1>1. IInv => CaptureAccounted
  BY DEF IInv
<1> QED BY <1>1, Invariance, PTL

(* The queue never drops a payment: a job is done only after its attempt was *)
(* recorded.                                                                 *)
THEOREM DoneRecorded == Spec => []DoneMeansRecorded
<1>1. IInv => DoneMeansRecorded
  BY DEF IInv
<1> QED BY <1>1, Invariance, PTL

(* WeChat is asked for money back only for orders being refunded or          *)
(* rejected, although the settlement writes the order without looking.       *)
THEOREM RefundsGuarded == Spec => []RefundOnlyWhenRefunding
<1>1. IInv => RefundOnlyWhenRefunding
  BY DEF IInv, FlowsAgree, RefundFlows, RefundOnlyWhenRefunding
<1> QED BY <1>1, Invariance, PTL

(* The sale order follows the stage of the order. *)
THEOREM BooksAlwaysMatch == Spec => []BooksMatch
<1>1. IInv => BooksMatch
  BY DEF IInv
<1> QED BY <1>1, Invariance, PTL

(* The reserved goods follow the stage of the order. *)
THEOREM GoodsAlwaysMatch == Spec => []GoodsMatch
<1>1. IInv => GoodsMatch
  BY DEF IInv
<1> QED BY <1>1, Invariance, PTL

(* Without a crash no task is lost in 'refunding', for any number of         *)
(* overlapping runs of the retry job.                                        *)
THEOREM RetriesOwned == Spec => []RetryHasOwner
<1>1. IInv => RetryHasOwner
  BY DEF IInv, FlowsAgree, RetryOwned, RetryHasOwner
<1> QED BY <1>1, Invariance, PTL

(* Without a crash an order in refunding has its task or is about to get it. *)
THEOREM RefundingTasked == Spec => []RefundingHasTask
<1>1. IInv => RefundingHasTask
  BY DEF IInv
<1> QED BY <1>1, Invariance, PTL

-----------------------------------------------------------------------------
(* Every action that moves the order goes through MoveOrder, but one. *)
LEMMA StepVersion ==
  [Next]_vars =>
    \/ status' = status /\ payStatus' = payStatus
    \/ version' = version + 1
    \/ status = "served" /\ status' = "completed" /\ version' = version
<1> DEFINE Guarded == \/ status' = status /\ payStatus' = payStatus
                      \/ version' = version + 1
                      \/ status = "served" /\ status' = "completed" /\ version' = version
<1> SUFFICES ASSUME [Next]_vars PROVE Guarded
  OBVIOUS
<1> USE DEF orderVars
<1>1. CASE TimePasses
  BY <1>1 DEF TimePasses
<1>2. CASE Checkout
  BY <1>2 DEF Checkout, LoadPayable, CloseStale, AssertNoActive, InsertAttempt, MarkCreated,
         PrepayFails, CrashRequest
<1>3. CASE Payment
  BY <1>3 DEF Payment, UserPays, Notify, BeginQueued, BeginVerify, BeginCallback, SettledAgain,
         CallbackRefused
<1>4. CASE Settlement
  BY <1>4 DEF Settlement, ConfirmPaid, AnomalousPayment, CallbackFails, MoveOrder
<1>5. CASE Customer
  BY <1>5 DEF Customer, PayByBalance, CustomerCancel, CloseUnpaid, MoveOrder
<1>6. CASE Merchant
  BY <1>6 DEF Merchant, Accept, Serve, Complete, ArchiveServed, MerchantCancel, MoveOrder
<1>7. CASE Rejection
  BY <1>7 DEF Rejection, RejectBalance, BalanceRefund, RejectMark, RejectTask, RejectSale,
         MerchantConfirmRefund, CompleteRefund, CrashReject, MoveOrder
<1>8. CASE Timeouts
  BY <1>8 DEF Timeouts, ExpireUnpaid, CloseUnpaid, TimeoutBalance, BalanceRefund, AutoRefund,
         TimeoutMark, TimeoutTask, TimeoutCall, TimeoutCallFails, TimeoutFinish, RetryScan,
         RetryPick, RetryCall, RetryCallFails, RetryFinish, CrashWorker, CompleteRefund,
         MoveOrder
<1>9. CASE UNCHANGED vars
  BY <1>9 DEF vars
<1> QED BY <1>1, <1>2, <1>3, <1>4, <1>5, <1>6, <1>7, <1>8, <1>9 DEF Next

(* Whoever moves the order raises its version, archiving excepted: a client  *)
(* version that matches vouches for the status and the payment status.       *)
THEOREM VersionsGuard == Spec => VersionGuardsStatus
<1>1. [Next]_vars =>
        [ \/ <<status, payStatus>>' = <<status, payStatus>>
          \/ version' = version + 1
          \/ status = "served" /\ status' = "completed" /\ version' = version ]_vars
  BY StepVersion
<1> QED BY <1>1, PTL DEF Spec, VersionGuardsStatus

-----------------------------------------------------------------------------
(* A new order is an open one without a sale. *)
LEMMA PromiseInit == Init => Promise!Init
  BY DEF Init, Promise!Init, Stage, IdleCallback

(* Every step of the detailed order is a step of the promise, or a stutter. *)
LEMMA PromiseStep == TypeOK /\ RefundFlows /\ [Next]_vars => [Promise!Next]_(Promise!vars)
<1> SUFFICES ASSUME TypeOK, RefundFlows, [Next]_vars PROVE [Promise!Next]_(Promise!vars)
  OBVIOUS
<1> USE DEF orderVars, ledgerVars, Promise!vars, Stage
<1>1. CASE TimePasses
  BY <1>1 DEF TimePasses
<1>2. CASE Checkout
  BY <1>2 DEF Checkout, LoadPayable, CloseStale, AssertNoActive, InsertAttempt, MarkCreated,
         PrepayFails, CrashRequest
<1>3. CASE Payment
  BY <1>3 DEF Payment, UserPays, Notify, BeginQueued, BeginVerify, BeginCallback, SettledAgain,
         CallbackRefused, Branch, Unpaid, IdleCallback, Promise!Next, Promise!BeginSettle
<1>4. CASE Settlement
  BY <1>4 DEF Settlement, ConfirmPaid, AnomalousPayment, CallbackFails, MoveOrder, IdleCallback,
         Promise!Next, Promise!EndSettle, Promise!AbandonSettle
<1>5. CASE Customer
  BY <1>5 DEF Customer, PayByBalance, CustomerCancel, CloseUnpaid, MoveOrder, Unpaid,
         Promise!Next, Promise!PayAtOnce, Promise!Close, Promise!Move
<1>6. CASE Merchant
  BY <1>6 DEF Merchant, Accept, Serve, Complete, ArchiveServed, MerchantCancel, MoveOrder,
         UnchangedByMerchant, Promise!Next, Promise!Make, Promise!Hand, Promise!Finish,
         Promise!Close, Promise!Move
<1>7. ASSUME NEW t, BalanceRefund(t), status \in {"pending_acceptance", "preparing"}
       PROVE  Promise!Next
  BY <1>7 DEF BalanceRefund, MoveOrder, Promise!Next, Promise!EndRefund, Promise!Move
<1>8. ASSUME CompleteRefund, status = "refunding", callback' = callback PROVE Promise!Next
  BY <1>8 DEF CompleteRefund, MoveOrder, Promise!Next, Promise!EndRefund, Promise!Move
<1>9. ASSUME MoveOrder("refunding", "refunding"), UNCHANGED <<sale, callback>>,
       status \in {"pending_acceptance", "preparing"}
       PROVE  Promise!Next
  BY <1>9 DEF MoveOrder, Promise!Next, Promise!StartRefund, Promise!Move
<1>10. CASE Rejection
  <2>1. CASE RejectSale
    BY <2>1 DEF RejectSale, RefundFlows, Promise!Next, Promise!WriteOff
  <2>2. CASE RejectTask \/ CrashReject
    BY <2>2 DEF RejectTask, CrashReject
  <2> QED BY <1>10, <1>7, <1>8, <1>9, <2>1, <2>2 DEF Rejection, RejectBalance, RejectMark,
         MerchantConfirmRefund, CanComplete
<1>11. CASE Timeouts
  <2>1. CASE ExpireUnpaid
    BY <2>1 DEF ExpireUnpaid, CloseUnpaid, MoveOrder, Unpaid, Promise!Next, Promise!Close,
           Promise!Move
  <2>2. CASE TimeoutBalance
    BY <2>2, <1>7 DEF TimeoutBalance
  <2>3. ASSUME NEW w \in Workers, NEW a \in Attempts, TimeoutMark(w, a) PROVE Promise!Next
    BY <1>9, <2>3 DEF TimeoutMark
  <2>4. ASSUME NEW w \in Workers, TimeoutFinish(w) \/ RetryFinish(w)
        PROVE  [Promise!Next]_(Promise!vars)
    BY <1>8, <2>4 DEF TimeoutFinish, RetryFinish, CanComplete
  <2>5. ASSUME NEW w \in Workers,
               \/ TimeoutTask(w) \/ TimeoutCall(w) \/ TimeoutCallFails(w) \/ RetryScan(w)
               \/ RetryPick(w) \/ RetryCall(w) \/ RetryCallFails(w) \/ CrashWorker(w)
        PROVE  UNCHANGED Promise!vars
    BY <2>5 DEF TimeoutTask, TimeoutCall, TimeoutCallFails, RetryScan, RetryPick, RetryCall,
           RetryCallFails, CrashWorker
  <2> QED BY <1>11, <2>1, <2>2, <2>3, <2>4, <2>5 DEF Timeouts, AutoRefund
<1>12. CASE UNCHANGED vars
  BY <1>12 DEF vars
<1> QED BY <1>1, <1>2, <1>3, <1>4, <1>5, <1>6, <1>10, <1>11, <1>12 DEF Next

(* The detailed order, with its attempts, queue, jobs and crashes, does only *)
(* what ScanOrderPromise allows: it refines it.                              *)
THEOREM Refinement == Spec => KeepsPromise
<1>1. Init => Promise!Init
  BY PromiseInit
<1>2. IInv /\ [Next]_vars => [Promise!Next]_(Promise!vars)
  BY PromiseStep DEF IInv, FlowsAgree
<1> QED BY <1>1, <1>2, Invariance, PTL DEF Spec, KeepsPromise, Promise!Spec
=============================================================================
