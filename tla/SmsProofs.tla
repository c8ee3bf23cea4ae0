----------------------------- MODULE SmsProofs -----------------------------
(***************************************************************************)
(* Proofs about Sms, for any number of recipients, of requests and of      *)
(* attempts: types, the wallet's sum, one credit per recharge, one refund  *)
(* per recipient, and the promise of SmsPromise.                           *)
(***************************************************************************)
EXTENDS Sms, TLAPS, FiniteSetTheorems

\* The amounts of the assumptions that the steps need.
LEMMA ChargeIsNat == Charge \in Nat /\ Cardinality(Recipients) \in Nat
<1>1. Cardinality(Recipients) \in Nat
  BY BroadcastAssumption, FS_CardinalityType
<1>2. QED
  BY <1>1, BroadcastAssumption, SMT DEF Charge

-----------------------------------------------------------------------------
(* The recharge.                                                           *)

\* Before its code is out, an order is neither paid nor polled; a poll that goes
\* on to close the row has closed the order at WeChat Pay.
RechargeShape ==
  /\ placing = "row" => order = "none" /\ trade = "none"
  /\ placing \in {"place", "save"} => order = "pending" /\ trade # "paid"
  /\ placing \in {"row", "place", "save"} => poll = "idle"
  /\ poll = "mark" => trade = "closed"

RInv == RechargeTypeOK /\ RechargeShape /\ CreditedOnce /\ ClosedTakesNoMoney

\* A step of the recharge keeps its invariant and the types of the wallet.
LEMMA RechargeStep ==
  ASSUME WalletTypeOK, RInv, RechargeNext
  PROVE  RInv' /\ WalletTypeOK'
<1> USE AmountAssumption DEF WalletTypeOK, RInv, RechargeTypeOK, RechargeShape,
        CreditedOnce, ClosedTakesNoMoney, walletVars
<1>1. CASE InsertOrder
  BY <1>1 DEF InsertOrder
<1>2. CASE PlaceAtWechat
  BY <1>2 DEF PlaceAtWechat
<1>3. CASE SaveCode
  BY <1>3 DEF SaveCode
<1>4. CASE CreationFails
  BY <1>4 DEF CreationFails, PlacedOrNot
<1>5. CASE CreationDies
  BY <1>5 DEF CreationDies, PlacedOrNot
<1>6. CASE Pay
  BY <1>6 DEF Pay
<1>7. CASE DeclinedCallback
  BY <1>7 DEF DeclinedCallback
<1>8. CASE PaidCallback
  BY <1>8 DEF PaidCallback, Creditable, Credit
<1>9. CASE PollClose
  BY <1>9 DEF PollClose, AfterClose
<1>10. CASE PollMark
  BY <1>10 DEF PollMark
<1>11. QED
  BY <1>1, <1>2, <1>3, <1>4, <1>5, <1>6, <1>7, <1>8, <1>9, <1>10 DEF RechargeNext

\* Whatever else happens to the wallet, the recharge is not touched.
LEMMA RechargeFrame ==
  ASSUME RInv, UNCHANGED rechargeVars, recharged' = recharged
  PROVE  RInv'
BY DEF RInv, RechargeTypeOK, RechargeShape, CreditedOnce, ClosedTakesNoMoney, rechargeVars

-----------------------------------------------------------------------------
(* Types of the broadcast, and what a session holds.                       *)

\* What is written back is an answer, and a computed status is one.
Held ==
  \A s \in Sessions :
    /\ pc[s] = "persist" => \A r \in Recipients : work[s][r] # "send"
    /\ pc[s] = "update" => verdict[s] # "none"

BTypes == BroadcastTypeOK /\ Held

\* The number of rows in a state is a number.
LEMMA CountIsNat ==
  ASSUME NEW x PROVE Cardinality(InState(x)) \in Nat
<1>1. IsFiniteSet(InState(x))
  BY BroadcastAssumption, FS_Subset DEF InState
<1>2. QED
  BY <1>1, FS_CardinalityType

\* A step of the broadcast keeps its types and what sessions hold.
LEMMA TypesStep ==
  ASSUME WalletTypeOK, BTypes, BroadcastNext
  PROVE  BTypes'
<1> USE BroadcastAssumption, ChargeIsNat DEF BTypes, BroadcastTypeOK, Held, taskVars, rowVars,
        sessionVars, outsideVars, Statuses
<1>1. CASE GoStale
  BY <1>1 DEF GoStale
<1>2. CASE StartRecovery
  BY <1>2 DEF StartRecovery, GoTo, Sessions
<1>3. CASE StartReconcile
  BY <1>3 DEF StartReconcile, GoWith, Nothing, Sessions
<1>8. CASE OlderRowStuck
  BY <1>8 DEF OlderRowStuck
<1>4. CASE AskManualRefund
  BY <1>4 DEF AskManualRefund
<1>5. CASE ManualRefund
  <2>1. refunded' \in {refunded, refunded + claim} /\ stale' \in BOOLEAN /\ claim' = 0
    <3>1. CASE NotRefunded
      BY <1>5, <3>1, Zenon DEF ManualRefund
    <3>2. CASE ~NotRefunded
      BY <1>5, <3>2, Zenon DEF ManualRefund
    <3>3. QED
      BY <3>1, <3>2
  <2>2. UNCHANGED <<status, attempts, failedCount, autoRefunded, rowVars, sessionVars, denied,
                    older, mishaps>>
    BY <1>5 DEF ManualRefund
  <2>3. QED
    BY <2>1, <2>2
<1>6. ASSUME NEW s \in Sessions,
             \/ Lookup(s) \/ ChargeTask(s) \/ NotCharged(s) \/ Step(s) \/ Crash(s)
      PROVE  BTypes'
  <2>1. CASE Lookup(s)
    <3>1. CASE GoTo(s, "charge")
      BY <2>1, <3>1 DEF Lookup, GoTo
    <3>2. CASE GoTo(s, "resume")
      BY <2>1, <3>2 DEF Lookup, GoTo
    <3>3. QED
      BY <2>1, <3>1, <3>2 DEF Lookup
  <2>2. CASE ChargeTask(s)
    BY <2>2 DEF ChargeTask, GoWith, Marked
  <2>3. CASE NotCharged(s)
    BY <2>3 DEF NotCharged, End, GoWith, Nothing
  <2>15. CASE LoadTask(s)
    BY <2>15 DEF LoadTask
  <2>4. CASE Resume(s)
    <3>1. PICK place \in {"count", "exhaust", "send"},
               m \in {"none", "dispatch", "converge", "exhaust"},
               w \in [Recipients -> {"none", "send", "success", "failed"}] :
            GoWith(s, place, m, w)
      BY <2>4 DEF Resume, Marked, Nothing
    <3>2. QED
      BY <2>4, <3>1 DEF Resume, GoWith
  <2>5. CASE Send(s)
    <3>1. PICK a \in [Recipients -> Answers] : Told(s, a)
      BY <2>5 DEF Send
    <3>2. [r \in Recipients |-> Recorded(a[r])] \in [Recipients -> {"none", "success", "failed"}]
      BY DEF Recorded, Answers
    <3>3. denied' \subseteq Recipients
      BY <3>1 DEF Told
    <3>4. QED
      BY <3>1, <3>2, <3>3 DEF Told, GoWith
  <2>6. CASE PersistRow(s)
    BY <2>6 DEF PersistRow
  <2>7. CASE Exhaust(s)
    BY <2>7 DEF Exhaust, GoTo
  <2>8. CASE Count(s)
    <3>1. Verdict(s) \in Statuses \ {"none"}
      BY DEF Verdict, Converged
    <3>2. Cardinality(InState("failed")) \in Nat
      BY CountIsNat
    <3>3. QED
      BY <2>8, <3>1, <3>2 DEF Count
  <2>9. CASE UpdateTask(s)
    <3>1. /\ verdict[s] \in Statuses /\ seen[s] \in Nat /\ attempts' \in Nat
          /\ status' = verdict[s] /\ failedCount' = seen[s] /\ stale' = FALSE
          /\ UNCHANGED <<refunded, autoRefunded, rowVars, denied, claim, older, mishaps>>
      BY <2>9 DEF UpdateTask
    <3>2. CASE GoWith(s, "refund", "none", Nothing)
      BY <3>1, <3>2 DEF GoWith, Nothing
    <3>3. CASE End(s)
      BY <3>1, <3>3 DEF End, GoWith, Nothing
    <3>4. QED
      BY <2>9, <3>2, <3>3 DEF UpdateTask
  <2>10. CASE ScanRefunds(s)
    BY <2>10 DEF ScanRefunds, GoWith, Marked
  <2>11. CASE RefundRecipient(s)
    <3>1. PICK r \in Recipients :
            /\ work' = [work EXCEPT ![s][r] = "none"]
            /\ \/ Owed(r) /\ returned' = [returned EXCEPT ![r] = TRUE]
                  /\ refunded' = refunded + RefundAmount
                  /\ autoRefunded' = autoRefunded + RefundAmount /\ stale' = FALSE
               \/ UNCHANGED <<returned, refunded, autoRefunded, stale>>
      BY <2>11 DEF RefundRecipient
    <3>2. Owed(r) => refunded + RefundAmount \in Nat /\ autoRefunded + RefundAmount \in Nat
      BY SMT DEF Owed, RefundAmount
    <3>3. work' \in [Sessions -> [Recipients -> {"none", "send", "success", "failed"}]]
      BY <3>1
    <3>4. QED
      BY <2>11, <3>1, <3>2, <3>3 DEF RefundRecipient
  <2>12. CASE RefundsDone(s)
    BY <2>12 DEF RefundsDone, End, GoWith, Nothing
  <2>13. CASE Crash(s)
    BY <2>13 DEF Crash, End, GoWith, Nothing
  <2>14. QED
    BY <1>6, <2>1, <2>2, <2>3, <2>4, <2>5, <2>6, <2>7, <2>8, <2>9, <2>10, <2>11, <2>12,
       <2>13, <2>15 DEF Step
<1>7. QED
  BY <1>1, <1>2, <1>3, <1>4, <1>5, <1>6, <1>8 DEF BroadcastNext

-----------------------------------------------------------------------------
(* Before the charge nothing has happened.                                 *)

Untouched ==
  status = "none" =>
    /\ refunded = 0 /\ autoRefunded = 0 /\ claim = 0
    /\ \A r \in Recipients : ~returned[r] /\ state[r] = "none"
    /\ \A s \in Sessions : pc[s] \in {"idle", "charge"}

\* The few actions that touch the money, and what the others leave alone.
LEMMA Kinds ==
  ASSUME BTypes, Untouched, BroadcastNext
  PROVE  \/ AskManualRefund \/ ManualRefund
         \/ \E s \in Sessions : ChargeTask(s) \/ RefundRecipient(s)
         \/ /\ UNCHANGED <<walletVars, refunded, autoRefunded, returned, claim>>
            /\ status = "none" <=> status' = "none"
<1> USE DEF BTypes, BroadcastTypeOK, Held, taskVars, rowVars, outsideVars
<1>1. CASE GoStale \/ OlderRowStuck \/ StartRecovery \/ StartReconcile
  BY <1>1 DEF GoStale, OlderRowStuck, StartRecovery, StartReconcile
<1>2. ASSUME NEW s \in Sessions,
             Lookup(s) \/ NotCharged(s) \/ Crash(s) \/ LoadTask(s) \/ Resume(s)
             \/ Send(s) \/ Exhaust(s) \/ Count(s) \/ ScanRefunds(s) \/ RefundsDone(s)
      PROVE  UNCHANGED <<walletVars, refunded, autoRefunded, returned, claim, status>>
  BY <1>2 DEF Lookup, NotCharged, Crash, LoadTask, Resume, Send, Told, Exhaust, Count,
              ScanRefunds, RefundsDone
<1>3. ASSUME NEW s \in Sessions, PersistRow(s)
      PROVE  UNCHANGED <<walletVars, refunded, autoRefunded, returned, claim, status>>
  BY <1>3 DEF PersistRow
<1>4. ASSUME NEW s \in Sessions, UpdateTask(s)
      PROVE  /\ UNCHANGED <<walletVars, refunded, autoRefunded, returned, claim>>
             /\ status # "none" /\ status' # "none"
  BY <1>4 DEF UpdateTask, Untouched
<1>5. QED
  BY <1>1, <1>2, <1>3, <1>4 DEF BroadcastNext, Step

\* Nothing happens before the charge.
LEMMA UntouchedStep ==
  ASSUME BTypes, Untouched, BroadcastNext
  PROVE  Untouched'
<1> USE DEF BTypes, BroadcastTypeOK, Held, taskVars, rowVars, sessionVars, outsideVars
<1>1. SUFFICES ASSUME status' = "none"
               PROVE  Untouched'
  BY DEF Untouched
<1>2. CASE status # "none"
  <2>1. AskManualRefund => status' # "none"
    BY <1>2 DEF AskManualRefund
  <2>2. ManualRefund => status' # "none"
    BY <1>2, Zenon DEF ManualRefund
  <2>3. \A s \in Sessions : ChargeTask(s) => status' # "none"
    BY DEF ChargeTask
  <2>4. \A s \in Sessions : RefundRecipient(s) => status' # "none"
    BY <1>2 DEF RefundRecipient
  <2>5. QED
    BY <1>1, <1>2, <2>1, <2>2, <2>3, <2>4, Kinds
<1>3. CASE status = "none"
  <2>1. /\ ~GoStale /\ ~StartRecovery /\ ~StartReconcile /\ ~AskManualRefund /\ ~ManualRefund
        /\ \A s \in Sessions : ~Step(s) /\ ~ChargeTask(s)
    <3>1. ~GoStale /\ ~AskManualRefund /\ ~ManualRefund
      BY <1>3 DEF GoStale, AskManualRefund, ManualRefund, Untouched, Refundable
    <3>2. ~StartRecovery /\ ~StartReconcile
      BY <1>3 DEF StartRecovery, StartReconcile, Untouched, InState, Unrefunded
    <3>3. \A s \in Sessions : ~Step(s)
      BY <1>3 DEF Untouched, Step, LoadTask, Resume, Send, Told, PersistRow, Exhaust, Count, UpdateTask,
                  ScanRefunds, RefundRecipient, RefundsDone
    <3>4. \A s \in Sessions : ~ChargeTask(s)
      BY <1>1 DEF ChargeTask
    <3>5. QED
      BY <3>1, <3>2, <3>3, <3>4
  <2>6. CASE OlderRowStuck
    BY <1>3, <2>6 DEF OlderRowStuck, Untouched
  <2>7. SUFFICES ASSUME ~OlderRowStuck PROVE Untouched'
    BY <2>6
  <2>2. PICK s \in Sessions : Lookup(s) \/ NotCharged(s) \/ Crash(s)
    BY <2>1, <2>7 DEF BroadcastNext
  <2>3. UNCHANGED <<refunded, autoRefunded, claim, rowVars>>
    BY <2>2 DEF Lookup, NotCharged, Crash
  <2>4. \A x \in Sessions : pc'[x] \in {"idle", "charge"}
    <3>1. CASE Lookup(s)
      BY <1>3, <3>1 DEF Lookup, GoTo, Untouched
    <3>2. CASE NotCharged(s)
      BY <1>3, <3>2 DEF NotCharged, End, GoWith, Untouched
    <3>3. CASE Crash(s)
      BY <1>3, <3>3 DEF Crash, End, GoWith, Untouched
    <3>4. QED
      BY <2>2, <3>1, <3>2, <3>3
  <2>5. QED
    BY <1>3, <2>3, <2>4 DEF Untouched
<1>4. QED
  BY <1>2, <1>3

-----------------------------------------------------------------------------
(* Refunds.                                                                *)

\* A number of whole prices.
Whole(n) == \E k \in Nat : n = Price * k

Money == RefundedOnce /\ Whole(refunded) /\ Whole(claim) /\ claim <= Charge

\* Whole prices add up to whole prices.
LEMMA WholeAdds ==
  ASSUME NEW m \in Nat, NEW n \in Nat, Whole(m), Whole(n)
  PROVE  Whole(m + n)
<1>1. PICK k \in Nat, l \in Nat : m = Price * k /\ n = Price * l
  BY DEF Whole
<1>2. Price * (k + l) = Price * k + Price * l
  BY BroadcastAssumption, SMT
<1>3. k + l \in Nat
  BY SMT
<1>4. QED
  BY <1>1, <1>2, <1>3 DEF Whole

\* What is left of the charge is nothing, or a whole price at least.
LEMMA AmountIsPrice ==
  ASSUME refunded \in Nat, Whole(refunded), refunded <= Charge, RefundAmount > 0
  PROVE  RefundAmount = Price
<1> DEFINE N == Cardinality(Recipients)
<1>1. PICK k \in Nat : refunded = Price * k
  BY DEF Whole
<1>2. Charge = Price * N /\ N \in Nat /\ Charge \in Nat
  BY ChargeIsNat DEF Charge
<1>3. refunded < Charge
  BY <1>2, BroadcastAssumption, SMT DEF RefundAmount
<1> HIDE DEF N
<1>4. k < N
  <2>1. SUFFICES ASSUME N <= k PROVE FALSE
    BY <1>1, <1>2, SMT
  <2>2. Price * N <= Price * k
    BY <1>2, <2>1, BroadcastAssumption, SMT
  <2>3. QED
    BY <1>1, <1>2, <1>3, <2>2, BroadcastAssumption, SMT
<1>5. Price * (k + 1) <= Price * N
  BY <1>2, <1>4, BroadcastAssumption, SMT
<1>6. Price * (k + 1) = Price * k + Price
  BY BroadcastAssumption, SMT
<1>7. Price <= Charge - refunded
  BY <1>1, <1>2, <1>5, <1>6, BroadcastAssumption, SMT
<1>8. QED
  BY <1>7 DEF RefundAmount

\* A step of the broadcast keeps the sums of the refunds.
LEMMA MoneyStep ==
  ASSUME BTypes, Untouched, Money, BroadcastNext
  PROVE  Money'
<1> USE DEF BTypes, BroadcastTypeOK, Money
<1>0. refunded \in Nat /\ autoRefunded \in Nat /\ claim \in Nat /\ failedCount \in Nat
  OBVIOUS
<1>1. CASE AskManualRefund
  <2>1. claim' <= Charge /\ Whole(claim')
    <3>1. Whole(failedCount * Price)
      <4>1. failedCount * Price = Price * failedCount
        BY <1>0, BroadcastAssumption, SMT
      <4>2. QED
        BY <1>0, <4>1 DEF Whole
    <3>2. Whole(Charge)
      BY ChargeIsNat DEF Whole, Charge
    <3>3. QED
      BY <1>0, <1>1, <3>1, <3>2, ChargeIsNat, BroadcastAssumption, SMT DEF AskManualRefund
  <2>2. UNCHANGED <<refunded, autoRefunded, returned>>
    BY <1>1 DEF AskManualRefund, taskVars, rowVars
  <2>3. QED
    BY <2>1, <2>2 DEF RefundedOnce, Whole
<1>2. CASE ManualRefund
  <2>1. claim' = 0 /\ UNCHANGED <<autoRefunded, returned>>
    BY <1>2 DEF ManualRefund, rowVars
  <2>2. Whole(0)
    BY BroadcastAssumption, SMT DEF Whole
  <2>3. CASE NotRefunded
    <3>1. refunded = 0 /\ refunded' = refunded + claim
      BY <1>2, <2>3, Zenon DEF ManualRefund, NotRefunded
    <3>2. refunded' = claim /\ autoRefunded = 0
      BY <1>0, <3>1, SMT DEF RefundedOnce
    <3>3. QED
      BY <1>0, <2>1, <2>2, <3>2, ChargeIsNat DEF RefundedOnce, Whole
  <2>4. CASE ~NotRefunded
    <3>1. UNCHANGED refunded
      BY <1>2, <2>4, Zenon DEF ManualRefund
    <3>2. QED
      BY <2>1, <2>2, <3>1, ChargeIsNat DEF RefundedOnce, Whole
  <2>5. QED
    BY <2>3, <2>4
<1>3. ASSUME NEW s \in Sessions, ChargeTask(s)
      PROVE  Money'
  BY <1>3 DEF ChargeTask, RefundedOnce, Whole, outsideVars
<1>4. ASSUME NEW s \in Sessions, RefundRecipient(s)
      PROVE  Money'
  <2>1. UNCHANGED claim
    BY <1>4 DEF RefundRecipient, outsideVars
  <2>2. PICK r \in Recipients :
          \/ /\ Owed(r)
             /\ returned' = [returned EXCEPT ![r] = TRUE]
             /\ refunded' = refunded + RefundAmount
             /\ autoRefunded' = autoRefunded + RefundAmount
          \/ UNCHANGED <<returned, refunded, autoRefunded>>
    BY <1>4 DEF RefundRecipient
  <2>3. CASE /\ Owed(r)
             /\ returned' = [returned EXCEPT ![r] = TRUE]
             /\ refunded' = refunded + RefundAmount
             /\ autoRefunded' = autoRefunded + RefundAmount
    <3> DEFINE Before == {x \in Recipients : returned[x]}
               After  == {x \in Recipients : returned'[x]}
    <3>1. RefundAmount = Price /\ RefundAmount <= Charge - refunded
      <4>1. RefundAmount = Price
        BY <1>0, <2>3, AmountIsPrice DEF Owed, RefundedOnce
      <4>2. QED
        BY <1>0, <4>1, ChargeIsNat, BroadcastAssumption, SMT DEF RefundAmount
    <3>2. After = Before \union {r} /\ r \notin Before
      BY <2>3 DEF Owed
    <3>3. IsFiniteSet(Before)
      BY BroadcastAssumption, FS_Subset
    <3>4. Cardinality(After) = Cardinality(Before) + 1
      BY <3>2, <3>3, FS_AddElement
    <3>5. Cardinality(Before) \in Nat
      BY <3>3, FS_CardinalityType
    <3>6. autoRefunded = Price * Cardinality(Before) /\ autoRefunded <= refunded
      BY DEF RefundedOnce
    <3> HIDE DEF Before, After
    <3>7. Price * (Cardinality(Before) + 1) = Price * Cardinality(Before) + Price
      BY <3>5, BroadcastAssumption, SMT
    <3>8. autoRefunded' = Price * Cardinality(After)
      BY <2>3, <3>1, <3>4, <3>6, <3>7
    <3>9. autoRefunded' <= refunded' /\ refunded' <= Charge
      BY <1>0, <2>3, <3>1, <3>6, ChargeIsNat, BroadcastAssumption, SMT
    <3>10. Whole(refunded')
      <4>1. Price = Price * 1
        BY BroadcastAssumption, SMT
      <4>2. Whole(Price)
        BY <4>1 DEF Whole
      <4>3. QED
        BY <1>0, <2>3, <3>1, <4>2, WholeAdds, BroadcastAssumption
    <3>11. QED
      BY <2>1, <3>8, <3>9, <3>10, ChargeIsNat DEF RefundedOnce, Whole, After
  <2>4. CASE UNCHANGED <<returned, refunded, autoRefunded>>
    BY <2>1, <2>4 DEF RefundedOnce, Whole
  <2>5. QED
    BY <2>2, <2>3, <2>4
<1>5. CASE UNCHANGED <<refunded, autoRefunded, returned, claim>>
  BY <1>5 DEF RefundedOnce, Whole
<1>6. QED
  BY <1>1, <1>2, <1>3, <1>4, <1>5, Kinds

-----------------------------------------------------------------------------
(* No refund without grounds.                                              *)

Ground(r) == r \in denied \/ attempts >= MaxAttempts

\* What is failed, or is about to be, has its grounds; a session that gives up has
\* read the attempts some time before.
Grounded ==
  /\ RefundHasGrounds
  /\ \A r \in Recipients : state[r] = "failed" => Ground(r)
  /\ \A s \in Sessions :
       /\ pc[s] = "pending" => seen[s] <= attempts
       /\ pc[s] = "exhaust" => attempts >= MaxAttempts
       /\ \A r \in Recipients :
            /\ pc[s] = "persist" /\ work[s][r] = "failed" => r \in denied
            /\ pc[s] = "back" /\ work[s][r] # "none" => Ground(r)

\* Grounds are not lost: nobody is forgotten, and no attempt is taken back.
LEMMA GroundsGrow ==
  ASSUME BTypes, BroadcastNext
  PROVE  denied \subseteq denied' /\ attempts' \in Nat /\ attempts <= attempts'
<1> USE DEF BTypes, BroadcastTypeOK, taskVars
<1>1. CASE GoStale \/ OlderRowStuck \/ StartRecovery \/ StartReconcile \/ AskManualRefund
  BY <1>1 DEF GoStale, OlderRowStuck, StartRecovery, StartReconcile, AskManualRefund
<1>2. CASE ManualRefund
  <2>1. UNCHANGED <<denied, attempts>>
    BY <1>2, Zenon DEF ManualRefund
  <2>2. QED
    BY <2>1
<1>3. ASSUME NEW s \in Sessions,
             \/ Lookup(s) \/ ChargeTask(s) \/ NotCharged(s) \/ Crash(s) \/ LoadTask(s)
             \/ Resume(s) \/ PersistRow(s) \/ Exhaust(s) \/ Count(s) \/ ScanRefunds(s)
             \/ RefundRecipient(s) \/ RefundsDone(s)
      PROVE  UNCHANGED <<denied, attempts>>
  BY <1>3 DEF Lookup, ChargeTask, NotCharged, Crash, LoadTask, Resume, PersistRow, Exhaust,
              Count, ScanRefunds, RefundRecipient, RefundsDone
<1>4. ASSUME NEW s \in Sessions, Send(s)
      PROVE  denied \subseteq denied' /\ attempts' = attempts
  BY <1>4 DEF Send, Told
<1>5. ASSUME NEW s \in Sessions, UpdateTask(s)
      PROVE  denied' = denied /\ attempts' \in {attempts, attempts + 1}
  BY <1>5 DEF UpdateTask
<1>6. QED
  BY <1>1, <1>2, <1>3, <1>4, <1>5 DEF BroadcastNext, Step

\* A row that is newly failed was refused, or given up.
LEMMA FailedStep ==
  ASSUME BTypes, BroadcastNext, NEW r \in Recipients, state'[r] = "failed"
  PROVE  \/ state[r] = "failed"
         \/ \E s \in Sessions : pc[s] = "persist" /\ work[s][r] = "failed"
         \/ \E s \in Sessions : pc[s] = "exhaust"
<1> USE DEF BTypes, BroadcastTypeOK, rowVars
<1>1. CASE GoStale \/ OlderRowStuck \/ StartRecovery \/ StartReconcile \/ AskManualRefund
  BY <1>1 DEF GoStale, OlderRowStuck, StartRecovery, StartReconcile, AskManualRefund
<1>2. CASE ManualRefund
  BY <1>2 DEF ManualRefund
<1>3. ASSUME NEW s \in Sessions,
             Lookup(s) \/ NotCharged(s) \/ Crash(s) \/ LoadTask(s) \/ Resume(s) \/ Send(s)
             \/ Count(s) \/ UpdateTask(s) \/ ScanRefunds(s) \/ RefundRecipient(s) \/ RefundsDone(s)
      PROVE  UNCHANGED state
  BY <1>3 DEF Lookup, NotCharged, Crash, LoadTask, Resume, Send, Told, Count, UpdateTask,
              ScanRefunds, RefundRecipient, RefundsDone
<1>4. ASSUME NEW s \in Sessions, ChargeTask(s)
      PROVE  FALSE
  BY <1>4 DEF ChargeTask
<1>5. ASSUME NEW s \in Sessions, PersistRow(s)
      PROVE  state[r] = "failed" \/ (pc[s] = "persist" /\ work[s][r] = "failed")
  BY <1>5 DEF PersistRow
<1>6. ASSUME NEW s \in Sessions, Exhaust(s)
      PROVE  pc[s] = "exhaust"
  BY <1>6 DEF Exhaust
<1>7. QED
  BY <1>1, <1>2, <1>3, <1>4, <1>5, <1>6 DEF BroadcastNext, Step

\* What a session that does not come from idle goes on with: what it had, or what it
\* has just read or been told.
Comes(s, r) ==
  /\ pc'[s] = "pending" =>
       (pc[s] = "pending" /\ seen'[s] = seen[s]) \/ seen'[s] = attempts
  /\ pc'[s] = "exhaust" =>
       pc[s] = "exhaust" \/ (pc[s] = "pending" /\ seen[s] >= MaxAttempts)
  /\ pc'[s] = "persist" /\ work'[s][r] = "failed" =>
       (pc[s] = "persist" /\ work[s][r] = "failed") \/ r \in denied'
  /\ pc'[s] = "back" /\ work'[s][r] # "none" =>
       (pc[s] = "back" /\ work[s][r] # "none") \/ state[r] = "failed"

\* Every step of the broadcast is such a step of every session.
LEMMA ComesStep ==
  ASSUME BTypes, BroadcastNext, NEW s \in Sessions, NEW r \in Recipients
  PROVE  Comes(s, r)
<1> USE DEF BTypes, BroadcastTypeOK, sessionVars, Comes
<1>1. CASE GoStale \/ OlderRowStuck \/ AskManualRefund
  BY <1>1 DEF GoStale, OlderRowStuck, AskManualRefund
<1>2. CASE ManualRefund
  BY <1>2 DEF ManualRefund
<1>3. CASE StartRecovery \/ StartReconcile
  BY <1>3 DEF StartRecovery, StartReconcile, GoTo, GoWith
<1>4. ASSUME NEW x \in Sessions,
             \/ Lookup(x) \/ ChargeTask(x) \/ NotCharged(x) \/ Step(x) \/ Crash(x)
      PROVE  Comes(s, r)
  <2>1. CASE Lookup(x)
    BY <2>1 DEF Lookup, GoTo
  <2>2. CASE ChargeTask(x) \/ NotCharged(x) \/ Crash(x) \/ RefundsDone(x)
    BY <2>2 DEF ChargeTask, NotCharged, Crash, RefundsDone, GoWith, End
  <2>3. CASE Resume(x)
    <3>1. PICK place \in {"count", "exhaust", "send"},
               m \in {"dispatch", "converge", "exhaust"},
               w \in {Nothing, Marked(InState("pending"), "send")} :
            /\ GoWith(x, place, m, w)
            /\ pc[x] = "pending"
            /\ place = "exhaust" => seen[x] >= MaxAttempts
      BY <2>3 DEF Resume
    <3>2. QED
      BY <3>1 DEF GoWith
  <2>4. CASE Send(x)
    <3>1. PICK a \in [Recipients -> Answers] : Told(x, a)
      BY <2>4 DEF Send
    <3>2. QED
      BY <3>1 DEF Told, GoWith
  <2>5. CASE PersistRow(x) \/ Count(x) \/ LoadTask(x)
    BY <2>5 DEF PersistRow, Count, LoadTask
  <2>6. CASE Exhaust(x)
    BY <2>6 DEF Exhaust, GoTo
  <2>7. CASE UpdateTask(x)
    <3>1. GoWith(x, "refund", "none", Nothing) \/ GoWith(x, "idle", "none", Nothing)
      BY <2>7 DEF UpdateTask, End
    <3>2. QED
      BY <3>1 DEF GoWith
  <2>8. CASE ScanRefunds(x)
    BY <2>8 DEF ScanRefunds, GoWith, Marked, Batch, Unrefunded, InState
  <2>9. CASE RefundRecipient(x)
    BY <2>9 DEF RefundRecipient
  <2>10. QED
    BY <1>4, <2>1, <2>2, <2>3, <2>4, <2>5, <2>6, <2>7, <2>8, <2>9 DEF Step
<1>5. QED
  BY <1>1, <1>2, <1>3, <1>4 DEF BroadcastNext

\* A refund that is new was left to do in some session.
LEMMA ReturnedStep ==
  ASSUME BTypes, Untouched, BroadcastNext, NEW r \in Recipients, returned'[r]
  PROVE  returned[r] \/ \E s \in Sessions : pc[s] = "back" /\ work[s][r] # "none"
<1> USE DEF BTypes, BroadcastTypeOK, rowVars
<1>1. CASE AskManualRefund
  BY <1>1 DEF AskManualRefund
<1>2. CASE ManualRefund
  BY <1>2 DEF ManualRefund
<1>3. ASSUME NEW s \in Sessions, ChargeTask(s)
      PROVE  returned[r]
  BY <1>3 DEF ChargeTask
<1>4. ASSUME NEW s \in Sessions, RefundRecipient(s)
      PROVE  returned[r] \/ (pc[s] = "back" /\ work[s][r] # "none")
  BY <1>4 DEF RefundRecipient
<1>5. CASE UNCHANGED returned
  BY <1>5
<1>6. QED
  BY <1>1, <1>2, <1>3, <1>4, <1>5, Kinds

\* A step of the broadcast keeps the grounds of all that is failed or refunded.
LEMMA GroundedStep ==
  ASSUME BTypes, Untouched, Grounded, BroadcastNext
  PROVE  Grounded'
<1>1. denied \subseteq denied' /\ attempts' \in Nat /\ attempts <= attempts' /\ attempts \in Nat
  BY GroundsGrow DEF BTypes, BroadcastTypeOK
<1>2. ASSUME NEW r \in Recipients, Ground(r)
      PROVE  Ground(r)'
  BY <1>1, <1>2, BroadcastAssumption DEF Ground
<1>3. ASSUME NEW r \in Recipients, state'[r] = "failed"
      PROVE  Ground(r)'
  <2>1. Ground(r)
    BY <1>3, FailedStep DEF Grounded, Ground
  <2>2. QED
    BY <1>2, <2>1
<1>4. ASSUME NEW s \in Sessions, NEW r \in Recipients
      PROVE  /\ pc'[s] = "pending" => seen'[s] <= attempts'
             /\ pc'[s] = "exhaust" => attempts' >= MaxAttempts
             /\ pc'[s] = "persist" /\ work'[s][r] = "failed" => r \in denied'
             /\ pc'[s] = "back" /\ work'[s][r] # "none" => Ground(r)'
  <2>1. Comes(s, r)
    BY ComesStep
  <2>2. seen[s] \in Nat
    BY DEF BTypes, BroadcastTypeOK
  <2>3. pc'[s] = "pending" => seen'[s] <= attempts'
    BY <1>1, <2>1, <2>2 DEF Comes, Grounded
  <2>4. pc'[s] = "exhaust" => attempts' >= MaxAttempts
    BY <1>1, <2>1, <2>2, BroadcastAssumption DEF Comes, Grounded
  <2>5. pc'[s] = "persist" /\ work'[s][r] = "failed" => r \in denied'
    BY <1>1, <2>1 DEF Comes, Grounded
  <2>6. pc'[s] = "back" /\ work'[s][r] # "none" => Ground(r)'
    BY <1>2, <2>1 DEF Comes, Grounded
  <2>7. QED
    BY <2>3, <2>4, <2>5, <2>6
<1>5. ASSUME NEW r \in Recipients, returned'[r]
      PROVE  Ground(r)'
  <2>1. Ground(r)
    BY <1>5, ReturnedStep DEF Grounded, RefundHasGrounds, Ground
  <2>2. QED
    BY <1>2, <2>1
<1>6. Recipients # {}
  BY BroadcastAssumption
<1>7. QED
  BY <1>3, <1>4, <1>5, <1>6 DEF Grounded, RefundHasGrounds, Ground

-----------------------------------------------------------------------------
(* The wallet.                                                             *)

\* A step of the broadcast charges it once, or gives a part back, or leaves the
\* wallet alone.
LEMMA WalletMoves ==
  ASSUME BTypes, Untouched, BroadcastNext
  PROVE  \/ /\ status = "none" /\ status' # "none"
            /\ Affords(Charge) /\ Consume(Charge) /\ refunded' = refunded
         \/ /\ status # "none" /\ status' = status
            /\ \E n \in Nat : GiveBack(n) /\ refunded' = refunded + n
         \/ /\ UNCHANGED <<walletVars, refunded>>
            /\ status = "none" <=> status' = "none"
<1> USE DEF BTypes, BroadcastTypeOK
<1>1. CASE AskManualRefund
  BY <1>1 DEF AskManualRefund, taskVars
<1>2. CASE ManualRefund
  <2>1. status # "none" /\ status' = status
    <3>1. claim > 0 /\ UNCHANGED status
      BY <1>2, Zenon DEF ManualRefund
    <3>2. QED
      BY <3>1 DEF Untouched
  <2>2. CASE NotRefunded
    <3>1. GiveBack(claim) /\ refunded' = refunded + claim
      BY <1>2, <2>2, Zenon DEF ManualRefund
    <3>2. QED
      BY <2>1, <3>1
  <2>3. CASE ~NotRefunded
    <3>1. UNCHANGED walletVars /\ UNCHANGED refunded
      BY <1>2, <2>3, Zenon DEF ManualRefund
    <3>2. QED
      BY <2>1, <3>1
  <2>4. QED
    BY <2>2, <2>3
<1>3. ASSUME NEW s \in Sessions, ChargeTask(s)
      PROVE  /\ status = "none" /\ status' # "none"
             /\ Affords(Charge) /\ Consume(Charge) /\ refunded' = refunded
  <2>1. Affords(Charge) /\ Consume(Charge)
    BY <1>3 DEF ChargeTask
  <2>2. status = "none" /\ status' # "none" /\ refunded' = refunded
    BY <1>3 DEF ChargeTask, KeyIsFree
  <2>3. QED
    BY <2>1, <2>2
<1>4. ASSUME NEW s \in Sessions, RefundRecipient(s)
      PROVE  \/ /\ status # "none" /\ status' = status
                /\ \E n \in Nat : GiveBack(n) /\ refunded' = refunded + n
             \/ /\ UNCHANGED <<walletVars, refunded>>
                /\ status = "none" <=> status' = "none"
  <2>1. status # "none" /\ status' = status
    BY <1>4 DEF RefundRecipient, Untouched
  <2>2. PICK r \in Recipients :
          IF Owed(r)
          THEN GiveBack(RefundAmount) /\ refunded' = refunded + RefundAmount
          ELSE UNCHANGED <<walletVars, refunded>>
    BY <1>4 DEF RefundRecipient
  <2>3. CASE Owed(r)
    <3>1. RefundAmount \in Nat
      BY <2>3, ChargeIsNat, BroadcastAssumption, SMT DEF Owed, RefundAmount
    <3>2. GiveBack(RefundAmount) /\ refunded' = refunded + RefundAmount
      BY <2>2, <2>3, Zenon
    <3>3. QED
      BY <2>1, <3>1, <3>2
  <2>4. CASE ~Owed(r)
    BY <2>1, <2>2, <2>4, Zenon
  <2>5. QED
    BY <2>3, <2>4
<1>5. QED
  BY <1>1, <1>2, <1>3, <1>4, Kinds

\* A step of the broadcast keeps the sum of the wallet.
LEMMA WalletStep ==
  ASSUME WalletTypeOK, BTypes, Untouched, Money, WalletAddsUp, BroadcastNext
  PROVE  WalletTypeOK' /\ WalletAddsUp' /\ recharged' = recharged
<1> USE ChargeIsNat, WalletAssumption DEF WalletTypeOK, WalletAddsUp
<1>0. refunded \in Nat
  BY DEF BTypes, BroadcastTypeOK
<1>1. CASE /\ status = "none" /\ status' # "none"
           /\ Affords(Charge) /\ Consume(Charge) /\ refunded' = refunded
  <2>1. refunded = 0
    BY <1>1 DEF Untouched
  <2>2. QED
    BY <1>1, <2>1, SMT DEF Affords, Consume
<1>2. CASE /\ status # "none" /\ status' = status
           /\ \E n \in Nat : GiveBack(n) /\ refunded' = refunded + n
  BY <1>0, <1>2, SMT DEF GiveBack
<1>3. CASE /\ UNCHANGED <<walletVars, refunded>>
           /\ status = "none" <=> status' = "none"
  BY <1>3 DEF walletVars, Charge
<1>4. QED
  BY <1>1, <1>2, <1>3, WalletMoves

\* The platform's adjustments keep the sum too, the capped reclaim included.
LEMMA AdjustStep ==
  ASSUME WalletTypeOK, WalletAddsUp, UNCHANGED <<rechargeVars, broadcastVars>>,
         NEW amount \in Adjustments, Adjust(amount)
  PROVE  WalletTypeOK' /\ WalletAddsUp' /\ recharged' = recharged
<1>1. amount \in Int /\ UNCHANGED <<status, refunded>>
  BY WalletAssumption DEF broadcastVars, taskVars
<1>2. QED
  BY <1>1, ChargeIsNat, WalletAssumption, SMT DEF WalletTypeOK, WalletAddsUp, Adjust, Actual

-----------------------------------------------------------------------------
(* All of it.                                                              *)

\* What holds of the broadcast by its own steps.
BInv == BTypes /\ Untouched /\ Money /\ Grounded

IInv == WalletTypeOK /\ WalletAddsUp /\ RInv /\ BInv

\* Steps of the recharge and of the platform leave the broadcast alone.
LEMMA BroadcastFrame ==
  ASSUME BInv, UNCHANGED broadcastVars
  PROVE  BInv'
<1> USE DEF BInv, broadcastVars, taskVars, rowVars, sessionVars, outsideVars
<1>1. BTypes'
  BY DEF BTypes, BroadcastTypeOK, Held
<1>2. Untouched'
  BY DEF Untouched
<1>3. Money'
  BY DEF Money, RefundedOnce, Whole
<1>4. Grounded'
  BY DEF Grounded, RefundHasGrounds, Ground
<1>5. QED
  BY <1>1, <1>2, <1>3, <1>4

\* The invariant holds at the start.
LEMMA InitInv == Init => IInv
<1> SUFFICES ASSUME Init
             PROVE  IInv
  OBVIOUS
<1> USE BroadcastAssumption, AmountAssumption, WalletAssumption, ChargeIsNat
        DEF Init, WalletInit, RechargeInit, BroadcastInit, Nothing
<1>1. WalletTypeOK /\ WalletAddsUp
  BY DEF WalletTypeOK, WalletAddsUp
<1>2. RInv
  BY DEF RInv, RechargeTypeOK, RechargeShape, CreditedOnce, ClosedTakesNoMoney
<1>3. BTypes
  <2>1. BroadcastTypeOK
    <3>1. state \in [Recipients -> {"none", "pending", "success", "failed"}]
          /\ returned \in [Recipients -> BOOLEAN]
      OBVIOUS
    <3>2. /\ pc = [s \in Sessions |-> "idle"] /\ mode = [s \in Sessions |-> "none"]
          /\ verdict = [s \in Sessions |-> "none"] /\ seen = [s \in Sessions |-> 0]
          /\ work \in [Sessions -> [Recipients -> {"none", "send", "success", "failed"}]]
      OBVIOUS
    <3>3. status = "none" /\ attempts = 0 /\ failedCount = 0 /\ refunded = 0
          /\ autoRefunded = 0 /\ stale = FALSE /\ claim = 0 /\ mishaps \in 0..MaxMishaps
          /\ denied = {} /\ older \in 0..MaxRefundPerRun
      OBVIOUS
    <3> HIDE DEF BroadcastInit, Init
    <3>4. QED
      BY <3>1, <3>2, <3>3 DEF BroadcastTypeOK, Statuses
  <2>2. Held
    BY DEF Held
  <2>3. QED
    BY <2>1, <2>2 DEF BTypes
<1>4. Untouched
  BY DEF Untouched
<1>5. Money
  <2>1. {r \in Recipients : returned[r]} = {}
    OBVIOUS
  <2>2. Cardinality({r \in Recipients : returned[r]}) = 0
    BY <2>1, FS_EmptySet
  <2>3. Price * 0 = 0
    BY SMT
  <2>4. Whole(0)
    BY <2>3 DEF Whole
  <2>5. QED
    BY <2>2, <2>3, <2>4 DEF Money, RefundedOnce
<1>6. Grounded
  BY DEF Grounded, RefundHasGrounds, Ground
<1>7. QED
  BY <1>1, <1>2, <1>3, <1>4, <1>5, <1>6 DEF IInv, BInv

\* A step of the recharge keeps the wallet's sum.
LEMMA RechargeWallet ==
  ASSUME WalletTypeOK, WalletAddsUp, RechargeNext, UNCHANGED broadcastVars
  PROVE  WalletAddsUp'
<1>1. UNCHANGED <<status, refunded>>
  BY DEF broadcastVars, taskVars
<1>2. Credit(Amount) \/ UNCHANGED walletVars
  BY DEF RechargeNext, InsertOrder, PlaceAtWechat, SaveCode, CreationFails, CreationDies,
         Pay, DeclinedCallback, PaidCallback, PollClose, PollMark
<1>3. QED
  BY <1>1, <1>2, AmountAssumption, SMT
     DEF WalletTypeOK, WalletAddsUp, Credit, walletVars

\* Every step keeps the invariant.
LEMMA NextInv == IInv /\ [Next]_vars => IInv'
<1> SUFFICES ASSUME IInv, [Next]_vars
             PROVE  IInv'
  OBVIOUS
<1> USE DEF IInv
<1>1. ASSUME NEW amount \in Adjustments, Adjust(amount), UNCHANGED <<rechargeVars, broadcastVars>>
      PROVE  IInv'
  BY <1>1, AdjustStep, RechargeFrame, BroadcastFrame
<1>2. CASE RechargeNext /\ UNCHANGED broadcastVars
  BY <1>2, RechargeStep, RechargeWallet, BroadcastFrame
<1>3. CASE BroadcastNext /\ UNCHANGED rechargeVars
  <2>1. WalletTypeOK' /\ WalletAddsUp' /\ recharged' = recharged
    BY <1>3, WalletStep DEF BInv
  <2>2. BInv'
    BY <1>3, TypesStep, UntouchedStep, MoneyStep, GroundedStep DEF BInv
  <2>3. QED
    BY <1>3, <2>1, <2>2, RechargeFrame
<1>4. CASE UNCHANGED vars
  <2>1. UNCHANGED <<walletVars, rechargeVars, broadcastVars>>
    BY <1>4 DEF vars
  <2>2. WalletTypeOK' /\ WalletAddsUp' /\ recharged' = recharged
    BY <2>1 DEF WalletTypeOK, WalletAddsUp, walletVars, broadcastVars, taskVars
  <2>3. QED
    BY <2>1, <2>2, RechargeFrame, BroadcastFrame
<1>5. QED
  BY <1>1, <1>2, <1>3, <1>4 DEF Next

\* The invariant of all of it.
LEMMA Invariance == Spec => []IInv
BY InitInv, NextInv, PTL DEF Spec

\* Every variable keeps its type, for any number of recipients, of requests and
\* of attempts (SmsWallet, SmsRecharge, SmsBroadcast).
THEOREM TypeCorrect == Spec => []TypeOK
<1>1. IInv => TypeOK
  BY DEF IInv, RInv, BInv, BTypes, TypeOK
<1>2. QED
  BY <1>1, Invariance, PTL

\* The balance is the sum of the wallet's log and never negative, whatever
\* recharges, adjustments, charges and refunds come together (sms-broadcast,
\* sms-refund and pulse-sms services).
THEOREM BalanceAddsUp == Spec => []WalletAddsUp
<1>1. IInv => WalletAddsUp
  BY DEF IInv
<1>2. QED
  BY <1>1, Invariance, PTL

\* Any number of callbacks credits a recharge once (creditRecharge).
THEOREM RechargeCreditedOnce == Spec => []CreditedOnce
<1>1. IInv => CreditedOnce
  BY DEF IInv, RInv
<1>2. QED
  BY <1>1, Invariance, PTL

\* A recharge the store sees closed has not taken its money
\* (getRechargeOrderStatus).
THEOREM ClosedRechargeIsFree == Spec => []ClosedTakesNoMoney
<1>1. IInv => ClosedTakesNoMoney
  BY DEF IInv, RInv
<1>2. QED
  BY <1>1, Invariance, PTL

\* Concurrent refunds give each recipient's price back once and never more than
\* the charge: what is left of it is always a whole number of prices, so that no
\* refund per recipient is cut (refundRecipient).
THEOREM RecipientsRefundedOnce == Spec => []RefundedOnce
<1>1. IInv => RefundedOnce
  BY DEF IInv, BInv, Money
<1>2. QED
  BY <1>1, Invariance, PTL

\* Nothing is refunded but what the provider refused, what went down with a failed
\* request, or what was left when the attempts were used up: no race of dispatches
\* with the scan refunds a number that nothing was ever said against
\* (persistResults, resumeDispatch, markDispatchExhausted, refundRecipient).
THEOREM RefundsHaveGrounds == Spec => []RefundHasGrounds
<1>1. IInv => RefundHasGrounds
  BY DEF IInv, BInv, Grounded
<1>2. QED
  BY <1>1, Invariance, PTL

-----------------------------------------------------------------------------
(* The wallet keeps its promise.                                           *)

\* Every step is one of the promise, or changes nothing of it.
LEMMA PromiseStep ==
  ASSUME IInv, IInv', [Next]_vars
  PROVE  [Promise!Next]_<<balance, consumed, status # "none">>
<1> USE DEF Promise!Next
<1>0. balance' \in Int /\ balance' >= 0
  BY DEF IInv, WalletTypeOK, WalletAddsUp
<1>1. ASSUME NEW amount \in Adjustments, Adjust(amount), UNCHANGED <<rechargeVars, broadcastVars>>
      PROVE  Promise!Fund
  BY <1>0, <1>1 DEF Adjust, Promise!Fund, broadcastVars, taskVars
<1>2. CASE RechargeNext /\ UNCHANGED broadcastVars
  <2>1. Credit(Amount) \/ UNCHANGED walletVars
    BY <1>2 DEF RechargeNext, InsertOrder, PlaceAtWechat, SaveCode, CreationFails, CreationDies,
           Pay, DeclinedCallback, PaidCallback, PollClose, PollMark
  <2>2. consumed' = consumed /\ status' = status
    BY <1>2, <2>1 DEF Credit, walletVars, broadcastVars, taskVars
  <2>3. QED
    BY <1>0, <2>2 DEF Promise!Fund
<1>3. CASE BroadcastNext /\ UNCHANGED rechargeVars
  <2>1. CASE /\ status = "none" /\ status' # "none"
             /\ Affords(Charge) /\ Consume(Charge) /\ refunded' = refunded
    <3>1. balance >= Charge /\ balance' = balance - Charge /\ consumed' = consumed + Charge
      BY <2>1 DEF Affords, Consume
    <3>2. consumed = 0
      BY <2>1 DEF IInv, WalletAddsUp
    <3>3. consumed' = Charge
      BY <3>1, <3>2, ChargeIsNat, SMT
    <3>4. QED
      BY <2>1, <3>1, <3>3 DEF Promise!Order
  <2>2. CASE /\ status # "none" /\ status' = status
             /\ \E n \in Nat : GiveBack(n) /\ refunded' = refunded + n
    <3>1. PICK n \in Nat : GiveBack(n)
      BY <2>2
    <3>2. consumed' = consumed - n /\ balance' = balance + n
      BY <3>1 DEF GiveBack
    <3>3. consumed' = Charge - refunded' /\ refunded' <= Charge /\ refunded' \in Nat
      BY <2>2 DEF IInv, WalletAddsUp, BInv, BTypes, BroadcastTypeOK, Money, RefundedOnce
    <3>4. consumed' \in 0..consumed /\ balance' = balance + consumed - consumed'
      <4>1. consumed \in Int /\ balance \in Int
        BY DEF IInv, WalletTypeOK
      <4>2. consumed' \in Int /\ consumed' <= consumed
        BY <3>2, <4>1, SMT
      <4>3. 0 <= consumed'
        <5>1. ASSUME NEW c \in Nat, NEW given \in Nat, given <= c
              PROVE  0 <= c - given
          BY <5>1, SMT
        <5>2. 0 <= Charge - refunded'
          BY <3>3, <5>1, ChargeIsNat, Zenon
        <5>3. QED
          BY <3>3, <5>2, Zenon
      <4>4. balance' = balance + consumed - consumed'
        BY <3>2, <4>1, SMT
      <4>5. QED
        BY <4>1, <4>2, <4>3, <4>4, SMT
    <3>5. QED
      BY <2>2, <3>4 DEF Promise!GiveBack
  <2>3. CASE /\ UNCHANGED <<walletVars, refunded>>
             /\ status = "none" <=> status' = "none"
    BY <2>3 DEF walletVars
  <2>4. QED
    BY <1>3, <2>1, <2>2, <2>3, WalletMoves DEF IInv, BInv
<1>4. CASE UNCHANGED vars
  BY <1>4 DEF vars, walletVars, broadcastVars, taskVars
<1>5. QED
  BY <1>1, <1>2, <1>3, <1>4 DEF Next

\* The wallet, the recharge and the broadcast together implement SmsPromise: the
\* wallet is never overdrawn, the broadcast is paid for once, and what is kept
\* for it only shrinks, by what is added to the balance.
THEOREM WalletKeepsPromise == Spec => KeepsPromise
<1>1. Init => Promise!Init
  BY DEF Init, WalletInit, BroadcastInit, Promise!Init
<1>2. IInv /\ IInv' /\ [Next]_vars => [Promise!Next]_<<balance, consumed, status # "none">>
  BY PromiseStep
<1>3. QED
  BY <1>1, <1>2, Invariance, PTL DEF Spec, KeepsPromise, Promise!Spec
=============================================================================
