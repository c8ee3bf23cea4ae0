--------------------------- MODULE ScanOrderMoney ---------------------------
(***************************************************************************)
(* The steps of an order preserve what is known of its payments: which     *)
(* attempts are fresh, captured, settled, refunded.                        *)
(***************************************************************************)
EXTENDS ScanOrderInvariants, ScanOrderProofs

(* The part of the type invariant that the steps below rely on. *)
LEMMA RowTypes ==
  ASSUME TypeOK
  PROVE  /\ attempt \in [Attempts -> AttemptStatuses] /\ channel \in [Attempts -> Channels]
         /\ wx \in [Attempts -> WxStates] /\ job \in [Attempts -> JobStates]
         /\ nextAttempt \in Nat /\ Attempts \subseteq Nat /\ NoAttempt \notin Attempts
         /\ callback \in Callbacks /\ callback.attempt \in SomeAttempt
         /\ request \in [Requests -> CheckoutStates] /\ worker \in [Workers -> JobRuns]
         /\ overrides \in Nat
  BY BoundsAssumption DEF TypeOK, Attempts, NoAttempt, Callbacks

(* What closing, serving and refunding an order do to its payments: attempts *)
(* are closed or refunded, and WeChat gives captured money back.             *)
LaterStep == CustomerCancel \/ Merchant \/ Rejection \/ Timeouts

OnlyUndone ==
  /\ UNCHANGED <<channel, nextAttempt, job, tries, callback, request>>
  /\ \A a \in Attempts :
       /\ \/ attempt'[a] = attempt[a]
          \/ attempt[a] \in InFlight /\ attempt'[a] = "closed"
          \/ attempt[a] = "succeeded" /\ attempt'[a] = "refunded"
       /\ wx'[a] = wx[a] \/ (wx[a] = "captured" /\ wx'[a] = "refunded")

(* Closing, serving and refunding never add to what was paid. *)
LEMMA LaterStepUndoes == TypeOK /\ LaterStep => OnlyUndone
<1> SUFFICES ASSUME TypeOK, LaterStep PROVE OnlyUndone
  OBVIOUS
<1> USE DEF orderVars, attemptVars, queueVars, ledgerVars, OnlyUndone
<1>1. CASE CustomerCancel
  BY RowTypes, <1>1 DEF CustomerCancel, CloseUnpaid
<1>2. CASE Merchant
  BY RowTypes, <1>2 DEF Merchant, Accept, Serve, Complete, ArchiveServed, MerchantCancel,
         UnchangedByMerchant
<1>3. CompleteRefund /\ UNCHANGED <<wx, job, tries, callback, request>> => OnlyUndone
  BY RowTypes DEF CompleteRefund
<1>4. ASSUME NEW t \in {"merchant_reject", "system_timeout"}, BalanceRefund(t) PROVE OnlyUndone
  BY RowTypes, <1>4 DEF BalanceRefund
<1>5. CASE Rejection
  BY RowTypes, <1>3, <1>4, <1>5 DEF Rejection, RejectBalance, RejectMark, RejectTask,
         RejectSale, MerchantConfirmRefund, CrashReject
<1>6. CASE Timeouts
  <2>1. CASE ExpireUnpaid
    BY RowTypes, <2>1 DEF ExpireUnpaid, CloseUnpaid
  <2>2. CASE TimeoutBalance
    BY <1>4, <2>2 DEF TimeoutBalance
  <2>3. ASSUME NEW w \in Workers, TimeoutCall(w) \/ RetryCall(w) PROVE OnlyUndone
    BY RowTypes, <2>3 DEF TimeoutCall, RetryCall, RefundAtWechat
  <2>4. ASSUME NEW w \in Workers, TimeoutFinish(w) \/ RetryFinish(w) PROVE OnlyUndone
    BY RowTypes, <1>3, <2>4 DEF TimeoutFinish, RetryFinish
  <2>5. ASSUME NEW w \in Workers, \/ TimeoutTask(w) \/ TimeoutCallFails(w) \/ RetryScan(w)
                                  \/ RetryPick(w) \/ RetryCallFails(w) \/ CrashWorker(w)
                                  \/ \E a \in Attempts : TimeoutMark(w, a)
        PROVE  OnlyUndone
    BY RowTypes, <2>5 DEF TimeoutTask, TimeoutCallFails, RetryScan, RetryPick, RetryCallFails,
           CrashWorker, TimeoutMark
  <2> QED BY <1>6, <2>1, <2>2, <2>3, <2>4, <2>5 DEF Timeouts, AutoRefund
<1> QED BY <1>1, <1>2, <1>5, <1>6 DEF LaterStep

-----------------------------------------------------------------------------
(* Inserting an attempt uses a fresh id; nothing else reaches ids not yet used. *)
LEMMA StepFreshAttempts ==
  /\ TypeOK /\ FreshAttempts /\ InsertedAttempts
  /\ SettlingIsCaptured /\ [Next]_vars
  => FreshAttempts'
<1> SUFFICES ASSUME TypeOK, FreshAttempts, InsertedAttempts, SettlingIsCaptured, [Next]_vars
             PROVE  FreshAttempts'
  OBVIOUS
<1> USE DEF orderVars, attemptVars, queueVars, ledgerVars, FreshAttempts, InsertedAttempts,
            SettlingIsCaptured, Captured, Paid, InFlight
<1>1. CASE TimePasses
  BY <1>1 DEF TimePasses
<1>2. CASE Checkout
  BY RowTypes, <1>2 DEF Checkout, LoadPayable, CloseStale, AssertNoActive, InsertAttempt,
         MarkCreated, PrepayFails, CrashRequest, CanCrash, IdleRequest, Unpaid
<1>3. CASE Payment
  <2> SUFFICES ASSUME NEW a \in Attempts,
                      \/ UserPays(a) \/ Notify(a) \/ BeginQueued(a) \/ BeginVerify(a)
                      \/ SettledAgain(a) \/ CallbackRefused(a)
               PROVE  FreshAttempts'
    BY <1>3 DEF Payment
  <2>1. CASE UserPays(a)
    BY RowTypes, <2>1 DEF UserPays
  <2>2. CASE Notify(a)
    BY RowTypes, <2>2 DEF Notify, WxStates
  <2>3. CASE BeginQueued(a)
    BY RowTypes, <2>3 DEF BeginQueued, BeginCallback, Branch, Unpaid, IdleCallback
  <2>4. CASE BeginVerify(a)
    BY RowTypes, <2>4 DEF BeginVerify, BeginCallback, Branch, Unpaid, IdleCallback
  <2>5. CASE SettledAgain(a)
    BY RowTypes, <2>5 DEF SettledAgain, Branch
  <2>6. CASE CallbackRefused(a)
    BY RowTypes, <2>6 DEF CallbackRefused, FailJob, JobStates
  <2> QED BY <2>1, <2>2, <2>3, <2>4, <2>5, <2>6
<1>4. CASE Settlement
  BY RowTypes, <1>4 DEF Settlement, ConfirmPaid, AnomalousPayment, CallbackFails, FailJob,
         JobAfterCommit, MoveOrder, IdleCallback, Unpaid
<1>5. CASE LaterStep
  BY RowTypes, <1>5, LaterStepUndoes DEF OnlyUndone
<1>6. CASE PayByBalance
  BY RowTypes, <1>6 DEF PayByBalance
<1>7. CASE UNCHANGED vars
  BY <1>7 DEF vars
<1> QED BY <1>1, <1>2, <1>3, <1>4, <1>5, <1>6, <1>7 DEF Next, Customer, LaterStep

(* A checkout request keeps its attempt to itself until it answers. *)
LEMMA StepInsertedAttempts ==
  /\ TypeOK /\ FreshAttempts /\ InsertedAttempts
  /\ WechatOnly /\ [Next]_vars
  => InsertedAttempts'
<1> SUFFICES ASSUME TypeOK, FreshAttempts, InsertedAttempts, WechatOnly, [Next]_vars
             PROVE  InsertedAttempts'
  OBVIOUS
<1> USE DEF orderVars, attemptVars, queueVars, ledgerVars, FreshAttempts, InsertedAttempts,
            WechatOnly, Captured, Paid, InFlight
<1>1. CASE TimePasses
  BY <1>1 DEF TimePasses
<1>2. CASE Checkout
  <2> SUFFICES ASSUME NEW p \in Requests,
                      \/ LoadPayable(p) \/ CloseStale(p) \/ AssertNoActive(p) \/ InsertAttempt(p)
                      \/ MarkCreated(p) \/ PrepayFails(p) \/ CrashRequest(p)
               PROVE  InsertedAttempts'
    BY <1>2 DEF Checkout
  <2>1. CASE LoadPayable(p)
    BY RowTypes, <2>1 DEF LoadPayable
  <2>2. CASE CloseStale(p)
    BY RowTypes, <2>2 DEF CloseStale
  <2>3. CASE AssertNoActive(p)
    BY RowTypes, <2>3 DEF AssertNoActive
  <2>4. CASE InsertAttempt(p)
    BY RowTypes, <2>4 DEF InsertAttempt
  <2>5. CASE MarkCreated(p)
    BY RowTypes, <2>5 DEF MarkCreated, IdleRequest
  <2>6. CASE PrepayFails(p)
    BY RowTypes, <2>6 DEF PrepayFails, IdleRequest
  <2>7. CASE CrashRequest(p)
    BY RowTypes, <2>7 DEF CrashRequest, IdleRequest
  <2> QED BY <2>1, <2>2, <2>3, <2>4, <2>5, <2>6, <2>7
<1>3. CASE Payment
  <2> SUFFICES ASSUME NEW a \in Attempts,
                      \/ UserPays(a) \/ Notify(a) \/ BeginQueued(a) \/ BeginVerify(a)
                      \/ SettledAgain(a) \/ CallbackRefused(a)
               PROVE  InsertedAttempts'
    BY <1>3 DEF Payment
  <2>1. CASE UserPays(a)
    BY RowTypes, <2>1 DEF UserPays
  <2>2. CASE Notify(a)
    BY RowTypes, <2>2 DEF Notify, WxStates
  <2>3. CASE BeginQueued(a)
    BY RowTypes, <2>3 DEF BeginQueued, BeginCallback, Branch, Unpaid, IdleCallback
  <2>4. CASE BeginVerify(a)
    BY RowTypes, <2>4 DEF BeginVerify, BeginCallback, Branch, Unpaid, IdleCallback
  <2>5. CASE SettledAgain(a)
    BY RowTypes, <2>5 DEF SettledAgain, Branch
  <2>6. CASE CallbackRefused(a)
    BY RowTypes, <2>6 DEF CallbackRefused, FailJob, JobStates
  <2> QED BY <2>1, <2>2, <2>3, <2>4, <2>5, <2>6
<1>4. CASE Settlement
  BY RowTypes, <1>4 DEF Settlement, ConfirmPaid, AnomalousPayment, CallbackFails, FailJob,
         JobAfterCommit, MoveOrder, IdleCallback, Unpaid
<1>5. CASE LaterStep
  BY RowTypes, <1>5, LaterStepUndoes DEF OnlyUndone
<1>6. CASE PayByBalance
  BY RowTypes, <1>6 DEF PayByBalance
<1>7. CASE UNCHANGED vars
  BY <1>7 DEF vars
<1> QED BY <1>1, <1>2, <1>3, <1>4, <1>5, <1>6, <1>7 DEF Next, Customer, LaterStep

(* Only the request that inserted a WeChat attempt opens its payment. *)
LEMMA StepWechatOnly ==
  /\ TypeOK /\ FreshAttempts /\ InsertedAttempts
  /\ WechatOnly /\ [Next]_vars
  => WechatOnly'
<1> SUFFICES ASSUME TypeOK, FreshAttempts, InsertedAttempts, WechatOnly, [Next]_vars
             PROVE  WechatOnly'
  OBVIOUS
<1> USE DEF orderVars, attemptVars, queueVars, ledgerVars, FreshAttempts, InsertedAttempts,
            WechatOnly, Captured, Paid, InFlight
<1>1. CASE TimePasses
  BY <1>1 DEF TimePasses
<1>2. CASE Checkout
  BY RowTypes, <1>2 DEF Checkout, LoadPayable, CloseStale, AssertNoActive, InsertAttempt,
         MarkCreated, PrepayFails, CrashRequest, CanCrash, IdleRequest, Unpaid
<1>3. CASE Payment
  <2> SUFFICES ASSUME NEW a \in Attempts,
                      \/ UserPays(a) \/ Notify(a) \/ BeginQueued(a) \/ BeginVerify(a)
                      \/ SettledAgain(a) \/ CallbackRefused(a)
               PROVE  WechatOnly'
    BY <1>3 DEF Payment
  <2>1. CASE UserPays(a)
    BY RowTypes, <2>1 DEF UserPays
  <2>2. CASE Notify(a)
    BY RowTypes, <2>2 DEF Notify, WxStates
  <2>3. CASE BeginQueued(a)
    BY RowTypes, <2>3 DEF BeginQueued, BeginCallback, Branch, Unpaid, IdleCallback
  <2>4. CASE BeginVerify(a)
    BY RowTypes, <2>4 DEF BeginVerify, BeginCallback, Branch, Unpaid, IdleCallback
  <2>5. CASE SettledAgain(a)
    BY RowTypes, <2>5 DEF SettledAgain, Branch
  <2>6. CASE CallbackRefused(a)
    BY RowTypes, <2>6 DEF CallbackRefused, FailJob, JobStates
  <2> QED BY <2>1, <2>2, <2>3, <2>4, <2>5, <2>6
<1>4. CASE Settlement
  BY RowTypes, <1>4 DEF Settlement, ConfirmPaid, AnomalousPayment, CallbackFails, FailJob,
         JobAfterCommit, MoveOrder, IdleCallback, Unpaid
<1>5. CASE LaterStep
  BY RowTypes, <1>5, LaterStepUndoes DEF OnlyUndone
<1>6. CASE PayByBalance
  BY RowTypes, <1>6 DEF PayByBalance
<1>7. CASE UNCHANGED vars
  BY <1>7 DEF vars
<1> QED BY <1>1, <1>2, <1>3, <1>4, <1>5, <1>6, <1>7 DEF Next, Customer, LaterStep

(* An attempt succeeds by a settlement of captured money or by a debit. *)
LEMMA StepSucceededIsCaptured ==
  /\ TypeOK /\ FreshAttempts /\ InsertedAttempts
  /\ WechatOnly /\ SucceededIsCaptured /\ SettlingIsCaptured
  /\ [Next]_vars
  => SucceededIsCaptured'
<1> SUFFICES ASSUME TypeOK, FreshAttempts, InsertedAttempts, WechatOnly, SucceededIsCaptured,
       SettlingIsCaptured, [Next]_vars
             PROVE  SucceededIsCaptured'
  OBVIOUS
<1> USE DEF orderVars, attemptVars, queueVars, ledgerVars, FreshAttempts, InsertedAttempts,
            WechatOnly, SucceededIsCaptured, SettlingIsCaptured, Captured, Paid, InFlight
<1>1. CASE TimePasses
  BY <1>1 DEF TimePasses
<1>2. CASE Checkout
  BY RowTypes, <1>2 DEF Checkout, LoadPayable, CloseStale, AssertNoActive, InsertAttempt,
         MarkCreated, PrepayFails, CrashRequest, CanCrash, IdleRequest, Unpaid
<1>3. CASE Payment
  <2> SUFFICES ASSUME NEW a \in Attempts,
                      \/ UserPays(a) \/ Notify(a) \/ BeginQueued(a) \/ BeginVerify(a)
                      \/ SettledAgain(a) \/ CallbackRefused(a)
               PROVE  SucceededIsCaptured'
    BY <1>3 DEF Payment
  <2>1. CASE UserPays(a)
    BY RowTypes, <2>1 DEF UserPays
  <2>2. CASE Notify(a)
    BY RowTypes, <2>2 DEF Notify, WxStates
  <2>3. CASE BeginQueued(a)
    BY RowTypes, <2>3 DEF BeginQueued, BeginCallback, Branch, Unpaid, IdleCallback
  <2>4. CASE BeginVerify(a)
    BY RowTypes, <2>4 DEF BeginVerify, BeginCallback, Branch, Unpaid, IdleCallback
  <2>5. CASE SettledAgain(a)
    BY RowTypes, <2>5 DEF SettledAgain, Branch
  <2>6. CASE CallbackRefused(a)
    BY RowTypes, <2>6 DEF CallbackRefused, FailJob, JobStates
  <2> QED BY <2>1, <2>2, <2>3, <2>4, <2>5, <2>6
<1>4. CASE Settlement
  BY RowTypes, <1>4 DEF Settlement, ConfirmPaid, AnomalousPayment, CallbackFails, FailJob,
         JobAfterCommit, MoveOrder, IdleCallback, Unpaid
<1>5. CASE LaterStep
  BY RowTypes, <1>5, LaterStepUndoes DEF OnlyUndone
<1>6. CASE PayByBalance
  BY RowTypes, <1>6 DEF PayByBalance
<1>7. CASE UNCHANGED vars
  BY <1>7 DEF vars
<1> QED BY <1>1, <1>2, <1>3, <1>4, <1>5, <1>6, <1>7 DEF Next, Customer, LaterStep

(* A job is queued by a notification, or finished by the settlement. *)
LEMMA StepNotifiedIsCaptured ==
  /\ TypeOK /\ InsertedAttempts /\ NotifiedIsCaptured
  /\ WechatOnly /\ SettlingIsCaptured /\ FreshAttempts
  /\ [Next]_vars
  => NotifiedIsCaptured'
<1> SUFFICES ASSUME TypeOK, InsertedAttempts, NotifiedIsCaptured, WechatOnly,
       SettlingIsCaptured, FreshAttempts, [Next]_vars
             PROVE  NotifiedIsCaptured'
  OBVIOUS
<1> USE DEF orderVars, attemptVars, queueVars, ledgerVars, InsertedAttempts, NotifiedIsCaptured,
            WechatOnly, SettlingIsCaptured, FreshAttempts, Captured, Paid, InFlight
<1>1. CASE TimePasses
  BY <1>1 DEF TimePasses
<1>2. CASE Checkout
  BY RowTypes, <1>2 DEF Checkout, LoadPayable, CloseStale, AssertNoActive, InsertAttempt,
         MarkCreated, PrepayFails, CrashRequest, CanCrash, IdleRequest, Unpaid
<1>3. CASE Payment
  <2> SUFFICES ASSUME NEW a \in Attempts,
                      \/ UserPays(a) \/ Notify(a) \/ BeginQueued(a) \/ BeginVerify(a)
                      \/ SettledAgain(a) \/ CallbackRefused(a)
               PROVE  NotifiedIsCaptured'
    BY <1>3 DEF Payment
  <2>1. CASE UserPays(a)
    BY RowTypes, <2>1 DEF UserPays
  <2>2. CASE Notify(a)
    BY RowTypes, <2>2 DEF Notify, WxStates
  <2>3. CASE BeginQueued(a)
    BY RowTypes, <2>3 DEF BeginQueued, BeginCallback, Branch, Unpaid, IdleCallback
  <2>4. CASE BeginVerify(a)
    BY RowTypes, <2>4 DEF BeginVerify, BeginCallback, Branch, Unpaid, IdleCallback
  <2>5. CASE SettledAgain(a)
    BY RowTypes, <2>5 DEF SettledAgain, Branch
  <2>6. CASE CallbackRefused(a)
    BY RowTypes, <2>6 DEF CallbackRefused, FailJob, JobStates
  <2> QED BY <2>1, <2>2, <2>3, <2>4, <2>5, <2>6
<1>4. CASE Settlement
  BY RowTypes, <1>4 DEF Settlement, ConfirmPaid, AnomalousPayment, CallbackFails, FailJob,
         JobAfterCommit, MoveOrder, IdleCallback, Unpaid
<1>5. CASE LaterStep
  BY RowTypes, <1>5, LaterStepUndoes DEF OnlyUndone
<1>6. CASE PayByBalance
  BY RowTypes, <1>6 DEF PayByBalance
<1>7. CASE UNCHANGED vars
  BY <1>7 DEF vars
<1> QED BY <1>1, <1>2, <1>3, <1>4, <1>5, <1>6, <1>7 DEF Next, Customer, LaterStep

(* Once captured, a payment stays captured or is refunded. *)
LEMMA StepSettlingIsCaptured ==
  /\ TypeOK /\ InsertedAttempts /\ NotifiedIsCaptured
  /\ SettlingIsCaptured /\ [Next]_vars
  => SettlingIsCaptured'
<1> SUFFICES ASSUME TypeOK, InsertedAttempts, NotifiedIsCaptured, SettlingIsCaptured,
       [Next]_vars
             PROVE  SettlingIsCaptured'
  OBVIOUS
<1> USE DEF orderVars, attemptVars, queueVars, ledgerVars, InsertedAttempts, NotifiedIsCaptured,
            SettlingIsCaptured, Captured, Paid, InFlight
<1>1. CASE TimePasses
  BY <1>1 DEF TimePasses
<1>2. CASE Checkout
  BY RowTypes, <1>2 DEF Checkout, LoadPayable, CloseStale, AssertNoActive, InsertAttempt,
         MarkCreated, PrepayFails, CrashRequest, CanCrash, IdleRequest, Unpaid
<1>3. CASE Payment
  <2> SUFFICES ASSUME NEW a \in Attempts,
                      \/ UserPays(a) \/ Notify(a) \/ BeginQueued(a) \/ BeginVerify(a)
                      \/ SettledAgain(a) \/ CallbackRefused(a)
               PROVE  SettlingIsCaptured'
    BY <1>3 DEF Payment
  <2>1. CASE UserPays(a)
    BY RowTypes, <2>1 DEF UserPays
  <2>2. CASE Notify(a)
    BY RowTypes, <2>2 DEF Notify, WxStates
  <2>3. CASE BeginQueued(a)
    BY RowTypes, <2>3 DEF BeginQueued, BeginCallback, Branch, Unpaid, IdleCallback
  <2>4. CASE BeginVerify(a)
    BY RowTypes, <2>4 DEF BeginVerify, BeginCallback, Branch, Unpaid, IdleCallback
  <2>5. CASE SettledAgain(a)
    BY RowTypes, <2>5 DEF SettledAgain, Branch
  <2>6. CASE CallbackRefused(a)
    BY RowTypes, <2>6 DEF CallbackRefused, FailJob, JobStates
  <2> QED BY <2>1, <2>2, <2>3, <2>4, <2>5, <2>6
<1>4. CASE Settlement
  BY RowTypes, <1>4 DEF Settlement, ConfirmPaid, AnomalousPayment, CallbackFails, FailJob,
         JobAfterCommit, MoveOrder, IdleCallback, Unpaid
<1>5. CASE LaterStep
  BY RowTypes, <1>5, LaterStepUndoes DEF OnlyUndone
<1>6. CASE PayByBalance
  BY RowTypes, <1>6 DEF PayByBalance
<1>7. CASE UNCHANGED vars
  BY <1>7 DEF vars
<1> QED BY <1>1, <1>2, <1>3, <1>4, <1>5, <1>6, <1>7 DEF Next, Customer, LaterStep

(* A job is done when its attempt has succeeded, and a succeeded attempt
   can only be refunded. *)
LEMMA StepDoneMeansRecorded ==
  /\ TypeOK /\ DoneMeansRecorded /\ FreshAttempts
  /\ InsertedAttempts /\ NotifiedIsCaptured /\ SettlingIsCaptured
  /\ [Next]_vars
  => DoneMeansRecorded'
<1> SUFFICES ASSUME TypeOK, DoneMeansRecorded, FreshAttempts, InsertedAttempts,
       NotifiedIsCaptured, SettlingIsCaptured, [Next]_vars
             PROVE  DoneMeansRecorded'
  OBVIOUS
<1> USE DEF orderVars, attemptVars, queueVars, ledgerVars, DoneMeansRecorded, FreshAttempts,
            InsertedAttempts, NotifiedIsCaptured, SettlingIsCaptured, Captured, Paid, InFlight
<1>1. CASE TimePasses
  BY <1>1 DEF TimePasses
<1>2. CASE Checkout
  BY RowTypes, <1>2 DEF Checkout, LoadPayable, CloseStale, AssertNoActive, InsertAttempt,
         MarkCreated, PrepayFails, CrashRequest, CanCrash, IdleRequest, Unpaid
<1>3. CASE Payment
  <2> SUFFICES ASSUME NEW a \in Attempts,
                      \/ UserPays(a) \/ Notify(a) \/ BeginQueued(a) \/ BeginVerify(a)
                      \/ SettledAgain(a) \/ CallbackRefused(a)
               PROVE  DoneMeansRecorded'
    BY <1>3 DEF Payment
  <2>1. CASE UserPays(a)
    BY RowTypes, <2>1 DEF UserPays
  <2>2. CASE Notify(a)
    BY RowTypes, <2>2 DEF Notify, WxStates
  <2>3. CASE BeginQueued(a)
    BY RowTypes, <2>3 DEF BeginQueued, BeginCallback, Branch, Unpaid, IdleCallback
  <2>4. CASE BeginVerify(a)
    BY RowTypes, <2>4 DEF BeginVerify, BeginCallback, Branch, Unpaid, IdleCallback
  <2>5. CASE SettledAgain(a)
    BY RowTypes, <2>5 DEF SettledAgain, Branch
  <2>6. CASE CallbackRefused(a)
    BY RowTypes, <2>6 DEF CallbackRefused, FailJob, JobStates
  <2> QED BY <2>1, <2>2, <2>3, <2>4, <2>5, <2>6
<1>4. CASE Settlement
  BY RowTypes, <1>4 DEF Settlement, ConfirmPaid, AnomalousPayment, CallbackFails, FailJob,
         JobAfterCommit, MoveOrder, IdleCallback, Unpaid
<1>5. CASE LaterStep
  BY RowTypes, <1>5, LaterStepUndoes DEF OnlyUndone
<1>6. CASE PayByBalance
  BY RowTypes, <1>6 DEF PayByBalance
<1>7. CASE UNCHANGED vars
  BY <1>7 DEF vars
<1> QED BY <1>1, <1>2, <1>3, <1>4, <1>5, <1>6, <1>7 DEF Next, Customer, LaterStep

(* Every step that leaves the order paid or refunding leaves a backer: the
   attempt just settled, or the one there was before. *)
LEMMA StepPaidIsBacked ==
  /\ TypeOK /\ PaidIsBacked /\ FreshAttempts
  /\ InsertedAttempts /\ WechatOnly /\ SucceededIsCaptured
  /\ SettlingIsCaptured /\ [Next]_vars
  => PaidIsBacked'
<1> SUFFICES ASSUME TypeOK, PaidIsBacked, FreshAttempts, InsertedAttempts, WechatOnly,
       SucceededIsCaptured, SettlingIsCaptured, [Next]_vars
             PROVE  PaidIsBacked'
  OBVIOUS
<1> USE DEF orderVars, attemptVars, queueVars, ledgerVars, PaidIsBacked, FreshAttempts,
            InsertedAttempts, WechatOnly, SucceededIsCaptured, SettlingIsCaptured, Captured,
            Paid, InFlight, MoneyBehind
<1>1. CASE TimePasses
  BY <1>1 DEF TimePasses
<1>2. CASE Checkout
  BY RowTypes, <1>2 DEF Checkout, LoadPayable, CloseStale, AssertNoActive, InsertAttempt,
         MarkCreated, PrepayFails, CrashRequest, CanCrash, IdleRequest, Unpaid
<1>3. CASE Payment
  BY RowTypes, <1>3 DEF Payment, UserPays, Notify, BeginQueued, BeginVerify, BeginCallback,
         SettledAgain, CallbackRefused, FailJob, Branch, Unpaid, IdleCallback
<1>4. CASE Settlement
  <2>1. CASE ConfirmPaid
    BY RowTypes, <2>1 DEF ConfirmPaid, MoveOrder, IdleCallback, Unpaid
  <2>2. CASE AnomalousPayment
    BY RowTypes, <2>2 DEF AnomalousPayment, IdleCallback, TaskAfterCreate
  <2>3. CASE CallbackFails
    BY RowTypes, <2>3 DEF CallbackFails
  <2> QED BY <1>4, <2>1, <2>2, <2>3 DEF Settlement
<1>5. CASE Customer
  BY RowTypes, <1>5 DEF Customer, PayByBalance, CustomerCancel, CloseUnpaid, MoveOrder, Unpaid
<1>6. CASE Merchant
  BY RowTypes, <1>6 DEF Merchant, Accept, Serve, Complete, ArchiveServed, MerchantCancel,
         UnchangedByMerchant, MoveOrder
<1>7. CASE Rejection
  BY RowTypes, <1>7 DEF Rejection, RejectBalance, BalanceRefund, IsLatestSucceeded, RejectMark,
         RejectTask, RejectSale, MerchantConfirmRefund, CanComplete, CompleteRefund,
         CrashReject, CanCrash, MoveOrder, IdleReject
<1>8. CASE Timeouts
  <2>1. CASE ExpireUnpaid
    BY RowTypes, <2>1 DEF ExpireUnpaid, CloseUnpaid, MoveOrder, Unpaid
  <2>2. CASE TimeoutBalance
    BY RowTypes, <2>2 DEF TimeoutBalance, BalanceRefund, IsLatestSucceeded, MoveOrder,
           TaskAfterSuccess
  <2>3. ASSUME NEW w \in Workers, TimeoutCall(w) \/ RetryCall(w) PROVE PaidIsBacked'
    BY RowTypes, <2>3 DEF TimeoutCall, RetryCall, RefundAtWechat
  <2>4. ASSUME NEW w \in Workers, TimeoutFinish(w) \/ RetryFinish(w) PROVE PaidIsBacked'
    BY RowTypes, <2>4 DEF TimeoutFinish, RetryFinish, CanComplete, CompleteRefund, MoveOrder,
           TaskAfterFailedRetry, IdleWorker
  <2>5. ASSUME NEW w \in Workers, NEW a \in Attempts, TimeoutMark(w, a) PROVE PaidIsBacked'
    BY RowTypes, <2>5 DEF TimeoutMark, MoveOrder, IsLatestSucceeded
  <2>6. ASSUME NEW w \in Workers, \/ TimeoutCallFails(w) \/ RetryCallFails(w) \/ CrashWorker(w)
        PROVE  PaidIsBacked'
    BY RowTypes, <2>6 DEF TimeoutCallFails, RetryCallFails, CrashWorker, IdleWorker,
           TaskAfterFailedRetry
  <2>7. ASSUME NEW w \in Workers, \/ TimeoutTask(w) \/ RetryScan(w) \/ RetryPick(w)
        PROVE  PaidIsBacked'
    BY RowTypes, <2>7 DEF TimeoutTask, RetryScan, RetryPick, IdleWorker, TaskAfterCreate
  <2> QED BY <1>8, <2>1, <2>2, <2>3, <2>4, <2>5, <2>6, <2>7 DEF Timeouts, AutoRefund
<1>9. CASE UNCHANGED vars
  BY <1>9 DEF vars
<1> QED BY <1>1, <1>2, <1>3, <1>4, <1>5, <1>6, <1>7, <1>8, <1>9 DEF Next, Customer, LaterStep

(* Every write of an attempt to succeeded comes with the order leaving
   pending_payment, or finds the order cancelled. *)
LEMMA StepPendingIsUnpaid ==
  /\ TypeOK /\ PendingIsUnpaid /\ ClosedIsCancelled
  /\ [Next]_vars
  => PendingIsUnpaid'
<1> SUFFICES ASSUME TypeOK, PendingIsUnpaid, ClosedIsCancelled, [Next]_vars
             PROVE  PendingIsUnpaid'
  OBVIOUS
<1> USE DEF orderVars, attemptVars, queueVars, ledgerVars, PendingIsUnpaid, ClosedIsCancelled,
            Captured, Paid, InFlight
<1>1. CASE TimePasses
  BY <1>1 DEF TimePasses
<1>2. CASE Checkout
  BY RowTypes, <1>2 DEF Checkout, LoadPayable, CloseStale, AssertNoActive, InsertAttempt,
         MarkCreated, PrepayFails, CrashRequest, CanCrash, IdleRequest, Unpaid
<1>3. CASE Payment
  BY RowTypes, <1>3 DEF Payment, UserPays, Notify, BeginQueued, BeginVerify, BeginCallback,
         SettledAgain, CallbackRefused, FailJob, Branch, Unpaid, IdleCallback
<1>4. CASE Settlement
  BY RowTypes, <1>4 DEF Settlement, ConfirmPaid, AnomalousPayment, CallbackFails, FailJob,
         JobAfterCommit, MoveOrder, IdleCallback, Unpaid
<1>5. CASE Customer
  BY RowTypes, <1>5 DEF Customer, PayByBalance, CustomerCancel, CloseUnpaid, MoveOrder, Unpaid
<1>6. CASE Merchant
  BY RowTypes, <1>6 DEF Merchant, Accept, Serve, Complete, ArchiveServed, MerchantCancel,
         UnchangedByMerchant, MoveOrder
<1>7. CASE Rejection
  BY RowTypes, <1>7 DEF Rejection, RejectBalance, BalanceRefund, IsLatestSucceeded, RejectMark,
         RejectTask, RejectSale, MerchantConfirmRefund, CanComplete, CompleteRefund,
         CrashReject, CanCrash, MoveOrder, IdleReject
<1>8. CASE Timeouts
  BY RowTypes, <1>8 DEF Timeouts, ExpireUnpaid, CloseUnpaid, Unpaid, TimeoutBalance,
         BalanceRefund, IsLatestSucceeded, MoveOrder, AutoRefund, CrashWorker, CanCrash,
         TimeoutMark, TimeoutTask, TimeoutCall, TimeoutCallFails,
         TimeoutFinish, CanComplete, CompleteRefund, RetryScan, RetryPick, RetryCall,
         RetryCallFails, RetryFinish, RefundAtWechat, IdleWorker
<1>9. CASE UNCHANGED vars
  BY <1>9 DEF vars
<1> QED BY <1>1, <1>2, <1>3, <1>4, <1>5, <1>6, <1>7, <1>8, <1>9 DEF Next, Customer, LaterStep

(* Only the settlement itself moves a cancelled order. *)
LEMMA StepClosedIsCancelled ==
  /\ TypeOK /\ ClosedIsCancelled /\ [Next]_vars
  => ClosedIsCancelled'
<1> SUFFICES ASSUME TypeOK, ClosedIsCancelled, [Next]_vars
             PROVE  ClosedIsCancelled'
  OBVIOUS
<1> USE DEF orderVars, attemptVars, queueVars, ledgerVars, ClosedIsCancelled, Captured, Paid,
            InFlight
<1>1. CASE TimePasses
  BY <1>1 DEF TimePasses
<1>2. CASE Checkout
  BY RowTypes, <1>2 DEF Checkout, LoadPayable, CloseStale, AssertNoActive, InsertAttempt,
         MarkCreated, PrepayFails, CrashRequest, CanCrash, IdleRequest, Unpaid
<1>3. CASE Payment
  BY RowTypes, <1>3 DEF Payment, UserPays, Notify, BeginQueued, BeginVerify, BeginCallback,
         SettledAgain, CallbackRefused, FailJob, Branch, Unpaid, IdleCallback
<1>4. CASE Settlement
  BY RowTypes, <1>4 DEF Settlement, ConfirmPaid, AnomalousPayment, CallbackFails, FailJob,
         JobAfterCommit, MoveOrder, IdleCallback, Unpaid
<1>5. CASE Customer
  BY RowTypes, <1>5 DEF Customer, PayByBalance, CustomerCancel, CloseUnpaid, MoveOrder, Unpaid
<1>6. CASE Merchant
  BY RowTypes, <1>6 DEF Merchant, Accept, Serve, Complete, ArchiveServed, MerchantCancel,
         UnchangedByMerchant, MoveOrder
<1>7. CASE Rejection
  BY RowTypes, <1>7 DEF Rejection, RejectBalance, BalanceRefund, IsLatestSucceeded, RejectMark,
         RejectTask, RejectSale, MerchantConfirmRefund, CanComplete, CompleteRefund,
         CrashReject, CanCrash, MoveOrder, IdleReject
<1>8. CASE Timeouts
  BY RowTypes, <1>8 DEF Timeouts, ExpireUnpaid, CloseUnpaid, Unpaid, TimeoutBalance,
         BalanceRefund, IsLatestSucceeded, MoveOrder, AutoRefund, CrashWorker, CanCrash,
         TimeoutMark, TimeoutTask, TimeoutCall, TimeoutCallFails,
         TimeoutFinish, CanComplete, CompleteRefund, RetryScan, RetryPick, RetryCall,
         RetryCallFails, RetryFinish, RefundAtWechat, IdleWorker
<1>9. CASE UNCHANGED vars
  BY <1>9 DEF vars
<1> QED BY <1>1, <1>2, <1>3, <1>4, <1>5, <1>6, <1>7, <1>8, <1>9 DEF Next, Customer, LaterStep

(* A refund flow starts by moving the order to refunding, and only a
   settlement that cannot be under way then could move it back. *)
LEMMA StepRefundFlows ==
  /\ TypeOK /\ RefundFlows /\ SettlingBeforeRefund
  /\ [Next]_vars
  => RefundFlows'
<1> SUFFICES ASSUME TypeOK, RefundFlows, SettlingBeforeRefund, [Next]_vars
             PROVE  RefundFlows'
  OBVIOUS
<1> USE DEF orderVars, attemptVars, queueVars, ledgerVars, RefundFlows, SettlingBeforeRefund,
            Captured, Paid, InFlight
<1>1. CASE TimePasses
  BY <1>1 DEF TimePasses
<1>2. CASE Checkout
  BY RowTypes, <1>2 DEF Checkout, LoadPayable, CloseStale, AssertNoActive, InsertAttempt,
         MarkCreated, PrepayFails, CrashRequest, CanCrash, IdleRequest, Unpaid
<1>3. CASE Payment
  BY RowTypes, <1>3 DEF Payment, UserPays, Notify, BeginQueued, BeginVerify, BeginCallback,
         SettledAgain, CallbackRefused, FailJob, Branch, Unpaid, IdleCallback
<1>4. CASE Settlement
  BY RowTypes, <1>4 DEF Settlement, ConfirmPaid, AnomalousPayment, CallbackFails, FailJob,
         JobAfterCommit, MoveOrder, IdleCallback, Unpaid
<1>5. CASE Customer
  BY RowTypes, <1>5 DEF Customer, PayByBalance, CustomerCancel, CloseUnpaid, MoveOrder, Unpaid
<1>6. CASE Merchant
  BY RowTypes, <1>6 DEF Merchant, Accept, Serve, Complete, ArchiveServed, MerchantCancel,
         UnchangedByMerchant, MoveOrder
<1>7. CASE Rejection
  BY RowTypes, <1>7 DEF Rejection, RejectBalance, BalanceRefund, IsLatestSucceeded, RejectMark,
         RejectTask, RejectSale, MerchantConfirmRefund, CanComplete, CompleteRefund,
         CrashReject, CanCrash, MoveOrder, IdleReject
<1>8. CASE Timeouts
  BY RowTypes, <1>8 DEF Timeouts, ExpireUnpaid, CloseUnpaid, Unpaid, TimeoutBalance,
         BalanceRefund, IsLatestSucceeded, MoveOrder, AutoRefund, CrashWorker, CanCrash,
         TimeoutMark, TimeoutTask, TimeoutCall, TimeoutCallFails,
         TimeoutFinish, CanComplete, CompleteRefund, RetryScan, RetryPick, RetryCall,
         RetryCallFails, RetryFinish, RefundAtWechat, IdleWorker
<1>9. CASE UNCHANGED vars
  BY <1>9 DEF vars
<1> QED BY <1>1, <1>2, <1>3, <1>4, <1>5, <1>6, <1>7, <1>8, <1>9 DEF Next, Customer, LaterStep

(* While a payment is being settled no WeChat attempt has succeeded yet, so
   no WeChat refund can start. *)
LEMMA StepSettlingBeforeRefund ==
  /\ TypeOK /\ RefundFlows /\ SettlingBeforeRefund
  /\ PendingIsUnpaid /\ FreshAttempts /\ [Next]_vars
  => SettlingBeforeRefund'
<1> SUFFICES ASSUME TypeOK, RefundFlows, SettlingBeforeRefund, PendingIsUnpaid, FreshAttempts,
       [Next]_vars
             PROVE  SettlingBeforeRefund'
  OBVIOUS
<1> USE DEF orderVars, attemptVars, queueVars, ledgerVars, RefundFlows, SettlingBeforeRefund,
            PendingIsUnpaid, FreshAttempts, Captured, Paid, InFlight
<1>1. CASE TimePasses
  BY <1>1 DEF TimePasses
<1>2. CASE Checkout
  BY RowTypes, <1>2 DEF Checkout, LoadPayable, CloseStale, AssertNoActive, InsertAttempt,
         MarkCreated, PrepayFails, CrashRequest, CanCrash, IdleRequest, Unpaid
<1>3. CASE Payment
  BY RowTypes, <1>3 DEF Payment, UserPays, Notify, BeginQueued, BeginVerify, BeginCallback,
         SettledAgain, CallbackRefused, FailJob, Branch, Unpaid, IdleCallback
<1>4. CASE Settlement
  BY RowTypes, <1>4 DEF Settlement, ConfirmPaid, AnomalousPayment, CallbackFails, FailJob,
         JobAfterCommit, MoveOrder, IdleCallback, Unpaid
<1>5. CASE Customer
  BY RowTypes, <1>5 DEF Customer, PayByBalance, CustomerCancel, CloseUnpaid, MoveOrder, Unpaid
<1>6. CASE Merchant
  BY RowTypes, <1>6 DEF Merchant, Accept, Serve, Complete, ArchiveServed, MerchantCancel,
         UnchangedByMerchant, MoveOrder
<1>7. CASE Rejection
  BY RowTypes, <1>7 DEF Rejection, RejectBalance, BalanceRefund, IsLatestSucceeded, RejectMark,
         RejectTask, RejectSale, MerchantConfirmRefund, CanComplete, CompleteRefund,
         CrashReject, CanCrash, MoveOrder, IdleReject
<1>8. CASE Timeouts
  <2>1. CASE ExpireUnpaid
    BY RowTypes, <2>1 DEF ExpireUnpaid, CloseUnpaid, MoveOrder, Unpaid
  <2>2. CASE TimeoutBalance
    BY RowTypes, <2>2 DEF TimeoutBalance, BalanceRefund, IsLatestSucceeded, MoveOrder,
           TaskAfterSuccess
  <2>3. ASSUME NEW w \in Workers, TimeoutCall(w) \/ RetryCall(w) PROVE SettlingBeforeRefund'
    BY RowTypes, <2>3 DEF TimeoutCall, RetryCall, RefundAtWechat
  <2>4. ASSUME NEW w \in Workers, TimeoutFinish(w) \/ RetryFinish(w) PROVE SettlingBeforeRefund'
    BY RowTypes, <2>4 DEF TimeoutFinish, RetryFinish, CanComplete, CompleteRefund, MoveOrder,
           TaskAfterFailedRetry, IdleWorker
  <2>5. ASSUME NEW w \in Workers, NEW a \in Attempts, TimeoutMark(w, a)
        PROVE  SettlingBeforeRefund'
    BY RowTypes, <2>5 DEF TimeoutMark, MoveOrder, IsLatestSucceeded
  <2>6. ASSUME NEW w \in Workers, \/ TimeoutCallFails(w) \/ RetryCallFails(w) \/ CrashWorker(w)
        PROVE  SettlingBeforeRefund'
    BY RowTypes, <2>6 DEF TimeoutCallFails, RetryCallFails, CrashWorker, IdleWorker,
           TaskAfterFailedRetry
  <2>7. ASSUME NEW w \in Workers, \/ TimeoutTask(w) \/ RetryScan(w) \/ RetryPick(w)
        PROVE  SettlingBeforeRefund'
    BY RowTypes, <2>7 DEF TimeoutTask, RetryScan, RetryPick, IdleWorker, TaskAfterCreate
  <2> QED BY <1>8, <2>1, <2>2, <2>3, <2>4, <2>5, <2>6, <2>7 DEF Timeouts, AutoRefund
<1>9. CASE UNCHANGED vars
  BY <1>9 DEF vars
<1> QED BY <1>1, <1>2, <1>3, <1>4, <1>5, <1>6, <1>7, <1>8, <1>9 DEF Next, Customer, LaterStep

(* Without an override a cancelled order was never paid. *)
LEMMA StepCancelledIsUnpaid ==
  /\ TypeOK /\ CancelledIsUnpaid /\ PendingIsUnpaid
  /\ [Next]_vars
  => CancelledIsUnpaid'
<1> SUFFICES ASSUME TypeOK, CancelledIsUnpaid, PendingIsUnpaid, [Next]_vars
             PROVE  CancelledIsUnpaid'
  OBVIOUS
<1> USE DEF orderVars, attemptVars, queueVars, ledgerVars, CancelledIsUnpaid, PendingIsUnpaid,
            Captured, Paid, InFlight
<1>1. CASE TimePasses
  BY <1>1 DEF TimePasses
<1>2. CASE Checkout
  BY RowTypes, <1>2 DEF Checkout, LoadPayable, CloseStale, AssertNoActive, InsertAttempt,
         MarkCreated, PrepayFails, CrashRequest, CanCrash, IdleRequest, Unpaid
<1>3. CASE Payment
  BY RowTypes, <1>3 DEF Payment, UserPays, Notify, BeginQueued, BeginVerify, BeginCallback,
         SettledAgain, CallbackRefused, FailJob, Branch, Unpaid, IdleCallback
<1>4. CASE Settlement
  BY RowTypes, <1>4 DEF Settlement, ConfirmPaid, AnomalousPayment, CallbackFails, FailJob,
         JobAfterCommit, MoveOrder, IdleCallback, Unpaid
<1>5. CASE Customer
  BY RowTypes, <1>5 DEF Customer, PayByBalance, CustomerCancel, CloseUnpaid, MoveOrder, Unpaid
<1>6. CASE Merchant
  BY RowTypes, <1>6 DEF Merchant, Accept, Serve, Complete, ArchiveServed, MerchantCancel,
         UnchangedByMerchant, MoveOrder
<1>7. CASE Rejection
  BY RowTypes, <1>7 DEF Rejection, RejectBalance, BalanceRefund, IsLatestSucceeded, RejectMark,
         RejectTask, RejectSale, MerchantConfirmRefund, CanComplete, CompleteRefund,
         CrashReject, CanCrash, MoveOrder, IdleReject
<1>8. CASE Timeouts
  <2>1. CASE ExpireUnpaid
    BY RowTypes, <2>1 DEF ExpireUnpaid, CloseUnpaid, MoveOrder, Unpaid
  <2>2. CASE TimeoutBalance
    BY RowTypes, <2>2 DEF TimeoutBalance, BalanceRefund, IsLatestSucceeded, MoveOrder,
           TaskAfterSuccess
  <2>3. ASSUME NEW w \in Workers, TimeoutCall(w) \/ RetryCall(w) PROVE CancelledIsUnpaid'
    BY RowTypes, <2>3 DEF TimeoutCall, RetryCall, RefundAtWechat
  <2>4. ASSUME NEW w \in Workers, TimeoutFinish(w) \/ RetryFinish(w) PROVE CancelledIsUnpaid'
    BY RowTypes, <2>4 DEF TimeoutFinish, RetryFinish, CanComplete, CompleteRefund, MoveOrder,
           TaskAfterFailedRetry, IdleWorker
  <2>5. ASSUME NEW w \in Workers, NEW a \in Attempts, TimeoutMark(w, a) PROVE CancelledIsUnpaid'
    BY RowTypes, <2>5 DEF TimeoutMark, MoveOrder, IsLatestSucceeded
  <2>6. ASSUME NEW w \in Workers, \/ TimeoutCallFails(w) \/ RetryCallFails(w) \/ CrashWorker(w)
        PROVE  CancelledIsUnpaid'
    BY RowTypes, <2>6 DEF TimeoutCallFails, RetryCallFails, CrashWorker, IdleWorker,
           TaskAfterFailedRetry
  <2>7. ASSUME NEW w \in Workers, \/ TimeoutTask(w) \/ RetryScan(w) \/ RetryPick(w)
        PROVE  CancelledIsUnpaid'
    BY RowTypes, <2>7 DEF TimeoutTask, RetryScan, RetryPick, IdleWorker, TaskAfterCreate
  <2> QED BY <1>8, <2>1, <2>2, <2>3, <2>4, <2>5, <2>6, <2>7 DEF Timeouts, AutoRefund
<1>9. CASE UNCHANGED vars
  BY <1>9 DEF vars
<1> QED BY <1>1, <1>2, <1>3, <1>4, <1>5, <1>6, <1>7, <1>8, <1>9 DEF Next, Customer, LaterStep

(* Without an override the second succeeded attempt belongs to a closed order. *)
LEMMA StepOneBacker ==
  /\ TypeOK /\ OneBacker /\ CancelledIsUnpaid
  /\ PendingIsUnpaid /\ ClosedIsCancelled /\ FreshAttempts
  /\ [Next]_vars
  => OneBacker'
<1> SUFFICES ASSUME TypeOK, OneBacker, CancelledIsUnpaid, PendingIsUnpaid, ClosedIsCancelled,
       FreshAttempts, [Next]_vars
             PROVE  OneBacker'
  OBVIOUS
<1> USE DEF orderVars, attemptVars, queueVars, ledgerVars, OneBacker, CancelledIsUnpaid,
            PendingIsUnpaid, ClosedIsCancelled, FreshAttempts, Captured, Paid, InFlight
<1>1. CASE TimePasses
  BY <1>1 DEF TimePasses
<1>2. CASE Checkout
  BY RowTypes, <1>2 DEF Checkout, LoadPayable, CloseStale, AssertNoActive, InsertAttempt,
         MarkCreated, PrepayFails, CrashRequest, CanCrash, IdleRequest, Unpaid
<1>3. CASE Payment
  BY RowTypes, <1>3 DEF Payment, UserPays, Notify, BeginQueued, BeginVerify, BeginCallback,
         SettledAgain, CallbackRefused, FailJob, Branch, Unpaid, IdleCallback
<1>4. CASE Settlement
  BY RowTypes, <1>4 DEF Settlement, ConfirmPaid, AnomalousPayment, CallbackFails, FailJob,
         JobAfterCommit, MoveOrder, IdleCallback, Unpaid
<1>5. CASE Customer
  BY RowTypes, <1>5 DEF Customer, PayByBalance, CustomerCancel, CloseUnpaid, MoveOrder, Unpaid
<1>6. CASE Merchant
  BY RowTypes, <1>6 DEF Merchant, Accept, Serve, Complete, ArchiveServed, MerchantCancel,
         UnchangedByMerchant, MoveOrder
<1>7. CASE Rejection
  BY RowTypes, <1>7 DEF Rejection, RejectBalance, BalanceRefund, IsLatestSucceeded, RejectMark,
         RejectTask, RejectSale, MerchantConfirmRefund, CanComplete, CompleteRefund,
         CrashReject, CanCrash, MoveOrder, IdleReject
<1>8. CASE Timeouts
  <2>1. CASE ExpireUnpaid
    BY RowTypes, <2>1 DEF ExpireUnpaid, CloseUnpaid, MoveOrder, Unpaid
  <2>2. CASE TimeoutBalance
    BY RowTypes, <2>2 DEF TimeoutBalance, BalanceRefund, IsLatestSucceeded, MoveOrder,
           TaskAfterSuccess
  <2>3. ASSUME NEW w \in Workers, TimeoutCall(w) \/ RetryCall(w) PROVE OneBacker'
    BY RowTypes, <2>3 DEF TimeoutCall, RetryCall, RefundAtWechat
  <2>4. ASSUME NEW w \in Workers, TimeoutFinish(w) \/ RetryFinish(w) PROVE OneBacker'
    BY RowTypes, <2>4 DEF TimeoutFinish, RetryFinish, CanComplete, CompleteRefund, MoveOrder,
           TaskAfterFailedRetry, IdleWorker
  <2>5. ASSUME NEW w \in Workers, NEW a \in Attempts, TimeoutMark(w, a) PROVE OneBacker'
    BY RowTypes, <2>5 DEF TimeoutMark, MoveOrder, IsLatestSucceeded
  <2>6. ASSUME NEW w \in Workers, \/ TimeoutCallFails(w) \/ RetryCallFails(w) \/ CrashWorker(w)
        PROVE  OneBacker'
    BY RowTypes, <2>6 DEF TimeoutCallFails, RetryCallFails, CrashWorker, IdleWorker,
           TaskAfterFailedRetry
  <2>7. ASSUME NEW w \in Workers, \/ TimeoutTask(w) \/ RetryScan(w) \/ RetryPick(w)
        PROVE  OneBacker'
    BY RowTypes, <2>7 DEF TimeoutTask, RetryScan, RetryPick, IdleWorker, TaskAfterCreate
  <2> QED BY <1>8, <2>1, <2>2, <2>3, <2>4, <2>5, <2>6, <2>7 DEF Timeouts, AutoRefund
<1>9. CASE UNCHANGED vars
  BY <1>9 DEF vars
<1> QED BY <1>1, <1>2, <1>3, <1>4, <1>5, <1>6, <1>7, <1>8, <1>9 DEF Next, Customer, LaterStep

(* Recorded money keeps its order, or the refund task of its closed order. *)
LEMMA StepCaptureAccounted ==
  /\ TypeOK /\ CaptureAccounted /\ OneBacker
  /\ CancelledIsUnpaid /\ PendingIsUnpaid /\ ClosedIsCancelled
  /\ RefundFlows /\ [Next]_vars
  => CaptureAccounted'
<1> SUFFICES ASSUME TypeOK, CaptureAccounted, OneBacker, CancelledIsUnpaid, PendingIsUnpaid,
       ClosedIsCancelled, RefundFlows, [Next]_vars
             PROVE  CaptureAccounted'
  OBVIOUS
<1> USE DEF orderVars, attemptVars, queueVars, ledgerVars, CaptureAccounted, OneBacker,
            CancelledIsUnpaid, PendingIsUnpaid, ClosedIsCancelled, RefundFlows, Captured, Paid,
            InFlight, OpenTask
<1>1. CASE TimePasses
  BY <1>1 DEF TimePasses
<1>2. CASE Checkout
  BY RowTypes, <1>2 DEF Checkout, LoadPayable, CloseStale, AssertNoActive, InsertAttempt,
         MarkCreated, PrepayFails, CrashRequest, CanCrash, IdleRequest, Unpaid
<1>3. CASE Payment
  BY RowTypes, <1>3 DEF Payment, UserPays, Notify, BeginQueued, BeginVerify, BeginCallback,
         SettledAgain, CallbackRefused, FailJob, Branch, Unpaid, IdleCallback
<1>4. CASE Settlement
  <2>1. CASE ConfirmPaid
    BY RowTypes, <2>1 DEF ConfirmPaid, MoveOrder, IdleCallback, Unpaid
  <2>2. CASE AnomalousPayment
    BY RowTypes, <2>2 DEF AnomalousPayment, IdleCallback, TaskAfterCreate
  <2>3. CASE CallbackFails
    BY RowTypes, <2>3 DEF CallbackFails
  <2> QED BY <1>4, <2>1, <2>2, <2>3 DEF Settlement
<1>5. CASE Customer
  BY RowTypes, <1>5 DEF Customer, PayByBalance, CustomerCancel, CloseUnpaid, MoveOrder, Unpaid
<1>6. CASE Merchant
  BY RowTypes, <1>6 DEF Merchant, Accept, Serve, Complete, ArchiveServed, MerchantCancel,
         UnchangedByMerchant, MoveOrder
<1>7. CASE Rejection
  BY RowTypes, <1>7 DEF Rejection, RejectBalance, BalanceRefund, IsLatestSucceeded, RejectMark,
         RejectTask, RejectSale, MerchantConfirmRefund, CanComplete, CompleteRefund,
         CrashReject, CanCrash, MoveOrder, IdleReject
<1>8. CASE Timeouts
  <2>1. CASE ExpireUnpaid
    BY RowTypes, <2>1 DEF ExpireUnpaid, CloseUnpaid, MoveOrder, Unpaid
  <2>2. CASE TimeoutBalance
    BY RowTypes, <2>2 DEF TimeoutBalance, BalanceRefund, IsLatestSucceeded, MoveOrder,
           TaskAfterSuccess
  <2>3. ASSUME NEW w \in Workers, TimeoutCall(w) \/ RetryCall(w) PROVE CaptureAccounted'
    BY RowTypes, <2>3 DEF TimeoutCall, RetryCall, RefundAtWechat
  <2>4. ASSUME NEW w \in Workers, TimeoutFinish(w) \/ RetryFinish(w) PROVE CaptureAccounted'
    BY RowTypes, <2>4 DEF TimeoutFinish, RetryFinish, CanComplete, CompleteRefund, MoveOrder,
           TaskAfterFailedRetry, IdleWorker
  <2>5. ASSUME NEW w \in Workers, NEW a \in Attempts, TimeoutMark(w, a) PROVE CaptureAccounted'
    BY RowTypes, <2>5 DEF TimeoutMark, MoveOrder, IsLatestSucceeded
  <2>6. ASSUME NEW w \in Workers, \/ TimeoutCallFails(w) \/ RetryCallFails(w) \/ CrashWorker(w)
        PROVE  CaptureAccounted'
    BY RowTypes, <2>6 DEF TimeoutCallFails, RetryCallFails, CrashWorker, IdleWorker,
           TaskAfterFailedRetry
  <2>7. ASSUME NEW w \in Workers, \/ TimeoutTask(w) \/ RetryScan(w) \/ RetryPick(w)
        PROVE  CaptureAccounted'
    BY RowTypes, <2>7 DEF TimeoutTask, RetryScan, RetryPick, IdleWorker, TaskAfterCreate
  <2> QED BY <1>8, <2>1, <2>2, <2>3, <2>4, <2>5, <2>6, <2>7 DEF Timeouts, AutoRefund
<1>9. CASE UNCHANGED vars
  BY <1>9 DEF vars
<1> QED BY <1>1, <1>2, <1>3, <1>4, <1>5, <1>6, <1>7, <1>8, <1>9 DEF Next, Customer, LaterStep
=============================================================================
