-------------------------- MODULE ScanOrderBounds --------------------------
(***************************************************************************)
(* How far the flaws of an order reach.  The settlement by a callback and  *)
(* the timeout job act on what they read before other steps; the theorems  *)
(* here say how often that can go wrong, for whom, and that nothing else   *)
(* does.                                                                   *)
(***************************************************************************)
EXTENDS ScanOrderTheorems

-----------------------------------------------------------------------------
(* Settlements and overrides *)

(* A settlement that found the order payable is the first that may overwrite *)
(* it.                                                                       *)
FirstOverride == callback.pc = "payable" => overrides = 0

(* Steps that settle nothing leave the counts alone, keep an unpaid order    *)
(* unpaid and a paid one paid, and start settling unpaid orders only.        *)
SettlesNothing ==
  /\ settled' = settled /\ overrides' = overrides
  /\ payStatus' = "unpaid" <=> payStatus = "unpaid"
  /\ callback'.pc = "payable" => callback.pc = "payable" \/ payStatus = "unpaid"

(* All steps but the two that record a payment settle nothing. *)
LEMMA OtherStepsSettleNothing ==
  [Next]_vars => ConfirmPaid \/ PayByBalance \/ SettlesNothing
<1> SUFFICES ASSUME [Next]_vars, ~ConfirmPaid, ~PayByBalance PROVE SettlesNothing
  OBVIOUS
<1> USE DEF orderVars, attemptVars, queueVars, ledgerVars, SettlesNothing
<1>1. CASE TimePasses
  BY <1>1 DEF TimePasses
<1>2. CASE Checkout
  BY <1>2 DEF Checkout, LoadPayable, CloseStale, AssertNoActive, InsertAttempt, MarkCreated,
         PrepayFails, CrashRequest
<1>3. CASE Payment
  <2> SUFFICES ASSUME NEW a \in Attempts,
                      \/ UserPays(a) \/ Notify(a) \/ BeginQueued(a) \/ BeginVerify(a)
                      \/ SettledAgain(a) \/ CallbackRefused(a)
               PROVE  SettlesNothing
    BY <1>3 DEF Payment
  <2>1. CASE UserPays(a) \/ Notify(a) \/ SettledAgain(a) \/ CallbackRefused(a)
    BY <2>1 DEF UserPays, Notify, SettledAgain, CallbackRefused
  <2>2. CASE BeginQueued(a) \/ BeginVerify(a)
    <3>1. PICK via : BeginCallback(a, via)
      BY <2>2 DEF BeginQueued, BeginVerify
    <3>2. Branch(a) = "payable" => payStatus = "unpaid"
      BY DEF Branch, Unpaid
    <3> QED BY <3>1, <3>2 DEF BeginCallback
  <2> QED BY <2>1, <2>2
<1>4. CASE Settlement
  BY <1>4 DEF Settlement, AnomalousPayment, CallbackFails, IdleCallback
<1>5. CASE CustomerCancel
  BY <1>5 DEF CustomerCancel, CloseUnpaid, MoveOrder
<1>6. CASE Merchant
  BY <1>6 DEF Merchant, Accept, Serve, Complete, ArchiveServed, MerchantCancel,
         UnchangedByMerchant, MoveOrder
<1>7. CASE Rejection
  BY <1>7 DEF Rejection, RejectBalance, BalanceRefund, RejectMark, RejectTask, RejectSale,
         MerchantConfirmRefund, CanComplete, CompleteRefund, CrashReject, MoveOrder
<1>8. CASE Timeouts
  BY <1>8 DEF Timeouts, ExpireUnpaid, CloseUnpaid, TimeoutBalance, BalanceRefund, AutoRefund,
         TimeoutMark, TimeoutTask, TimeoutCall, TimeoutCallFails, TimeoutFinish, RetryScan,
         RetryPick, RetryCall, RetryCallFails, RetryFinish, CrashWorker, CanComplete,
         CompleteRefund, MoveOrder
<1>9. CASE UNCHANGED vars
  BY <1>9 DEF vars
<1> QED BY <1>1, <1>2, <1>3, <1>4, <1>5, <1>6, <1>7, <1>8, <1>9 DEF Next, Customer

(* A payment of an unpaid order is its first; a callback that overwrites an  *)
(* order had none before it that did.                                        *)
LEMMA StepDamage ==
  TypeOK /\ DamageBounded /\ FirstOverride /\ [Next]_vars => DamageBounded' /\ FirstOverride'
<1> SUFFICES ASSUME TypeOK, DamageBounded, FirstOverride, [Next]_vars
             PROVE  DamageBounded' /\ FirstOverride'
  OBVIOUS
<1> USE DEF DamageBounded, FirstOverride
<1>1. settled \in Nat /\ overrides \in Nat
  BY DEF TypeOK
<1>2. CASE ConfirmPaid
  <2>1. /\ settled' = settled + 1 /\ payStatus' = "paid" /\ callback'.pc = "idle"
        /\ overrides' = overrides \/ overrides' = overrides + 1
        /\ overrides' = overrides + 1 \/ payStatus = "unpaid"
        /\ overrides = 0
    BY <1>2 DEF ConfirmPaid, MoveOrder, IdleCallback, Unpaid
  <2> QED BY <1>1, <2>1
<1>3. CASE PayByBalance
  <2>1. /\ settled' = settled + 1 /\ payStatus' = "paid" /\ payStatus = "unpaid"
        /\ overrides' = overrides
    BY <1>3 DEF PayByBalance, MoveOrder, Unpaid
  <2> QED BY <1>1, <2>1
<1>4. CASE SettlesNothing
  BY <1>1, <1>4 DEF SettlesNothing
<1> QED BY <1>2, <1>3, <1>4, OtherStepsSettleNothing

(* Points and consumption are written at most twice, and twice only by the   *)
(* one callback that can overwrite the order: the second payment that the    *)
(* version is meant to stop gets through once, never more often.             *)
THEOREM SettledAtMostTwice == Spec => []DamageBounded
<1>1. Init => DamageBounded /\ FirstOverride
  BY DEF Init, DamageBounded, FirstOverride, IdleCallback
<1>2. IInv /\ DamageBounded /\ FirstOverride /\ [Next]_vars => DamageBounded' /\ FirstOverride'
  BY StepDamage DEF IInv
<1> QED BY <1>1, <1>2, Invariance, PTL DEF Spec

-----------------------------------------------------------------------------
(* Closed orders *)

(* What leaves a cancelled order other than cancelled is a settlement. *)
LEMMA StepClosed ==
  /\ TypeOK /\ DamageBounded /\ RefundFlows /\ FirstOverride /\ [Next]_vars
  => (status = "cancelled" /\ status' # "cancelled" => overrides = 0 /\ overrides' = 1)
<1> SUFFICES ASSUME TypeOK, DamageBounded, RefundFlows, FirstOverride, [Next]_vars,
                    status = "cancelled", status' # "cancelled"
             PROVE  overrides = 0 /\ overrides' = 1
  OBVIOUS
<1> USE DEF orderVars, attemptVars, queueVars, ledgerVars
<1>1. CASE ConfirmPaid
  BY <1>1 DEF ConfirmPaid, FirstOverride, Unpaid
<1>2. CASE TimePasses \/ Checkout \/ Payment
  BY <1>2 DEF TimePasses, Checkout, LoadPayable, CloseStale, AssertNoActive, InsertAttempt,
         MarkCreated, PrepayFails, CrashRequest, Payment, UserPays, Notify, BeginQueued,
         BeginVerify, BeginCallback, SettledAgain, CallbackRefused
<1>3. CASE AnomalousPayment \/ CallbackFails
  BY <1>3 DEF AnomalousPayment, CallbackFails
<1>4. CASE Customer
  BY <1>4 DEF Customer, PayByBalance, CustomerCancel, CloseUnpaid, Unpaid
<1>5. CASE Merchant
  BY <1>5 DEF Merchant, Accept, Serve, Complete, ArchiveServed, MerchantCancel, MoveOrder
<1>6. CASE Rejection
  BY <1>6 DEF Rejection, RejectBalance, RejectMark, RejectTask, RejectSale,
         MerchantConfirmRefund, CanComplete, CrashReject
<1>7. CASE Timeouts
  BY <1>7 DEF Timeouts, ExpireUnpaid, CloseUnpaid, Unpaid, TimeoutBalance, AutoRefund,
         TimeoutMark, TimeoutTask, TimeoutCall, TimeoutCallFails, TimeoutFinish, RetryScan,
         RetryPick, RetryCall, RetryCallFails, RetryFinish, CrashWorker, CanComplete
<1>8. CASE UNCHANGED vars
  BY <1>8 DEF vars
<1> QED BY <1>1, <1>2, <1>3, <1>4, <1>5, <1>6, <1>7, <1>8 DEF Next, Settlement

(* ClosedStaysClosed fails for one step only: a closed order comes back when *)
(* a callback overwrites it, and at most once in its life.                   *)
THEOREM ClosedComesBackOnce ==
  Spec => [][status = "cancelled" /\ status' # "cancelled" => overrides = 0 /\ overrides' = 1]_vars
<1> DEFINE ByOverride ==
      status = "cancelled" /\ status' # "cancelled" => overrides = 0 /\ overrides' = 1
<1>1. Init => FirstOverride
  BY DEF Init, FirstOverride, IdleCallback
<1>2. IInv /\ DamageBounded /\ FirstOverride /\ [Next]_vars => FirstOverride' /\ [ByOverride]_vars
  BY StepDamage, StepClosed DEF IInv, FlowsAgree
<1> QED BY <1>1, <1>2, Invariance, SettledAtMostTwice, PTL DEF Spec

-----------------------------------------------------------------------------
(* Versions held across commits *)

(* The version never falls, and while it stays so does the order, but for    *)
(* the archiving.                                                            *)
VersionKept ==
  \/ version' = version + 1
  \/ /\ version' = version
     /\ \/ status' = status /\ payStatus' = payStatus
        \/ status = "served" /\ status' = "completed"

LEMMA StepVersionKept == [Next]_vars => VersionKept
<1> SUFFICES ASSUME [Next]_vars PROVE version' = version \/ version' = version + 1
  BY StepVersion DEF VersionKept
<1> USE DEF orderVars
<1>1. CASE TimePasses
  BY <1>1 DEF TimePasses
<1>2. CASE Checkout
  BY <1>2 DEF Checkout, LoadPayable, CloseStale, AssertNoActive, InsertAttempt, MarkCreated,
         PrepayFails, CrashRequest
<1>3. CASE Payment
  BY <1>3 DEF Payment, UserPays, Notify, BeginQueued, BeginVerify, BeginCallback, SettledAgain,
         CallbackRefused
<1>4. CASE Settlement
  BY <1>4 DEF Settlement, ConfirmPaid, AnomalousPayment, CallbackFails, MoveOrder
<1>5. CASE Customer
  BY <1>5 DEF Customer, PayByBalance, CustomerCancel, CloseUnpaid, MoveOrder
<1>6. CASE Merchant
  BY <1>6 DEF Merchant, Accept, Serve, Complete, ArchiveServed, MerchantCancel, MoveOrder
<1>7. CASE Rejection
  BY <1>7 DEF Rejection, RejectBalance, BalanceRefund, RejectMark, RejectTask, RejectSale,
         MerchantConfirmRefund, CompleteRefund, CrashReject, MoveOrder
<1>8. CASE Timeouts
  BY <1>8 DEF Timeouts, ExpireUnpaid, CloseUnpaid, TimeoutBalance, BalanceRefund, AutoRefund,
         TimeoutMark, TimeoutTask, TimeoutCall, TimeoutCallFails, TimeoutFinish, RetryScan,
         RetryPick, RetryCall, RetryCallFails, RetryFinish, CrashWorker, CompleteRefund,
         MoveOrder
<1>9. CASE UNCHANGED vars
  BY <1>9 DEF vars
<1> QED BY <1>1, <1>2, <1>3, <1>4, <1>5, <1>6, <1>7, <1>8, <1>9 DEF Next

(* A run of the job goes on with the version it took at its first step: one  *)
(* that its own mark outdates, or one of an order in refunding.              *)
KeepsItsVersion(w) ==
  \/ worker'[w] = worker[w]
  \/ worker'[w].pc = "idle"
  \/ worker'[w].pc = "marked" /\ worker'[w].version = version /\ version' = version + 1
  \/ /\ worker[w].pc \in {"marked", "tasked"} /\ worker'[w].pc \in {"tasked", "called"}
     /\ worker'[w].version = worker[w].version
  \/ /\ worker'[w].pc = "scanned" /\ worker'[w].version = version
     /\ version' = version /\ status' = "refunding" /\ payStatus' = "refunding"
  \/ /\ worker[w].pc \in {"scanned", "picked"} /\ worker'[w].pc \in {"picked", "answered"}
     /\ worker'[w].version = worker[w].version

LEMMA StepKeepsItsVersion ==
  TypeOK /\ [Next]_vars => \A w \in Workers : KeepsItsVersion(w)
<1> SUFFICES ASSUME TypeOK, [Next]_vars, NEW w \in Workers PROVE KeepsItsVersion(w)
  OBVIOUS
<1> USE DEF KeepsItsVersion
<1>1. CASE TimePasses
  BY <1>1 DEF TimePasses
<1>2. CASE Checkout
  BY <1>2 DEF Checkout, LoadPayable, CloseStale, AssertNoActive, InsertAttempt, MarkCreated,
         PrepayFails, CrashRequest
<1>3. CASE Payment
  BY <1>3 DEF Payment, UserPays, Notify, BeginQueued, BeginVerify, BeginCallback, SettledAgain,
         CallbackRefused
<1>4. CASE Settlement
  BY <1>4 DEF Settlement, ConfirmPaid, AnomalousPayment, CallbackFails
<1>5. CASE Customer
  BY <1>5 DEF Customer, PayByBalance, CustomerCancel, CloseUnpaid
<1>6. CASE Merchant
  BY <1>6 DEF Merchant, Accept, Serve, Complete, ArchiveServed, MerchantCancel,
         UnchangedByMerchant
<1>7. CASE Rejection
  BY <1>7 DEF Rejection, RejectBalance, BalanceRefund, RejectMark, RejectTask, RejectSale,
         MerchantConfirmRefund, CrashReject
<1>8. CASE Timeouts
  <2>1. CASE ExpireUnpaid \/ TimeoutBalance
    BY <2>1 DEF ExpireUnpaid, CloseUnpaid, TimeoutBalance, BalanceRefund
  <2>2. SUFFICES ASSUME NEW v \in Workers, AutoRefund(v) \/ CrashWorker(v)
                 PROVE  KeepsItsVersion(w)
    BY <1>8, <2>1 DEF Timeouts
  <2>3. worker \in [Workers -> JobRuns]
    BY FlowTypes
  <2>4. CASE v # w
    BY <2>2, <2>3, <2>4 DEF AutoRefund, TimeoutMark, TimeoutTask, TimeoutCall, TimeoutCallFails,
           TimeoutFinish, RetryScan, RetryPick, RetryCall, RetryCallFails, RetryFinish,
           CrashWorker
  <2>5. CASE v = w
    <3>1. ASSUME NEW a \in Attempts, TimeoutMark(w, a) PROVE KeepsItsVersion(w)
      BY <2>3, <3>1 DEF TimeoutMark, MoveOrder, IdleWorker
    <3>2. CASE TimeoutTask(w) \/ TimeoutCall(w) \/ RetryCall(w)
      BY <2>3, <3>2 DEF TimeoutTask, TimeoutCall, RetryCall, JobRuns
    <3>3. CASE RetryScan(w)
      BY <2>3, <3>3 DEF RetryScan, orderVars
    <3>4. CASE RetryPick(w)
      BY <2>3, <3>4 DEF RetryPick, IdleWorker, JobRuns
    <3>5. CASE \/ TimeoutCallFails(w) \/ TimeoutFinish(w) \/ RetryCallFails(w)
               \/ RetryFinish(w) \/ CrashWorker(w)
      BY <2>3, <3>5 DEF TimeoutCallFails, TimeoutFinish, RetryCallFails, RetryFinish,
             CrashWorker, IdleWorker
    <3> QED BY <2>2, <2>5, <3>1, <3>2, <3>3, <3>4, <3>5 DEF AutoRefund
  <2> QED BY <2>4, <2>5
<1>9. CASE UNCHANGED vars
  BY <1>9 DEF vars
<1> QED BY <1>1, <1>2, <1>3, <1>4, <1>5, <1>6, <1>7, <1>8, <1>9 DEF Next, Customer

LEMMA StepRefundVersions == TypeOK /\ RefundVersions /\ [Next]_vars => RefundVersions'
<1> SUFFICES ASSUME TypeOK, RefundVersions, [Next]_vars, NEW w \in Workers
             PROVE  /\ worker'[w].pc \in {"marked", "tasked", "called"} =>
                         worker'[w].version < version'
                    /\ worker'[w].pc \in {"scanned", "picked", "answered"} =>
                         /\ worker'[w].version <= version'
                         /\ worker'[w].version = version' =>
                              status' = "refunding" /\ payStatus' = "refunding"
  BY DEF RefundVersions
<1>1. version \in Nat /\ worker[w].version \in Nat
  BY FlowTypes DEF TypeOK, JobRuns
<1>2. /\ worker[w].pc \in {"marked", "tasked", "called"} => worker[w].version < version
      /\ worker[w].pc \in {"scanned", "picked", "answered"} =>
           /\ worker[w].version <= version
           /\ worker[w].version = version => status = "refunding" /\ payStatus = "refunding"
  BY DEF RefundVersions
<1>3. VersionKept
  BY StepVersionKept
<1>4. KeepsItsVersion(w)
  BY StepKeepsItsVersion
<1> QED BY <1>1, <1>2, <1>3, <1>4 DEF VersionKept, KeepsItsVersion

(* However many runs of the job overlap, the version the timeout flow holds  *)
(* is outdated by its own mark for ever, and the version a retry holds       *)
(* vouches for an order still in refunding.                                  *)
THEOREM VersionsVouch == Spec => []RefundVersions
<1>1. Init => RefundVersions
  BY DEF Init, RefundVersions, IdleWorker
<1>2. IInv /\ RefundVersions /\ [Next]_vars => RefundVersions'
  BY StepRefundVersions DEF IInv
<1> QED BY <1>1, <1>2, Invariance, PTL DEF Spec

(* The timeout flow never closes the order it refunds, in no interleaving:   *)
(* what TimeoutRefundCloses shows in one behaviour is so in all of them, and *)
(* only the merchant or a retry brings the order to its end.                 *)
THEOREM TimeoutNeverCloses ==
  Spec => [][\A w \in Workers : TimeoutFinish(w) => UNCHANGED <<orderVars, ledgerVars, task>>]_vars
<1> DEFINE NoEffect ==
      \A w \in Workers : TimeoutFinish(w) => UNCHANGED <<orderVars, ledgerVars, task>>
<1>1. ASSUME RefundVersions, IInv, NEW w \in Workers, TimeoutFinish(w)
      PROVE  UNCHANGED <<orderVars, ledgerVars, task>>
  <2>1. version \in Nat /\ worker[w].version \in Nat /\ worker[w].version < version
    BY <1>1, FlowTypes DEF IInv, TypeOK, JobRuns, RefundVersions, TimeoutFinish
  <2>2. ~CanComplete(worker[w].version)
    BY <2>1 DEF CanComplete
  <2> QED BY <1>1, <2>2 DEF TimeoutFinish
<1>2. RefundVersions /\ IInv /\ [Next]_vars => [NoEffect]_vars
  BY <1>1
<1> QED BY <1>2, Invariance, VersionsVouch, PTL DEF Spec

(* A retry whose version still matches ends the refund: with the version the *)
(* statuses match as well, and the order, its sale and its goods go together. *)
THEOREM RetryCloses ==
  Spec => [][\A w \in Workers :
               RetryFinish(w) /\ worker[w].version = version =>
                 status' = "rejected" /\ sale' = "refunded" /\ stock' = "returned"]_vars
<1> DEFINE Closes ==
      \A w \in Workers :
        RetryFinish(w) /\ worker[w].version = version =>
          status' = "rejected" /\ sale' = "refunded" /\ stock' = "returned"
<1>1. RefundVersions /\ [Next]_vars => [Closes]_vars
  BY DEF RefundVersions, RetryFinish, CanComplete, CompleteRefund, MoveOrder
<1> QED BY <1>1, VersionsVouch, PTL DEF Spec
=============================================================================
