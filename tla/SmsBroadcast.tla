---------------------------- MODULE SmsBroadcast ---------------------------
(***************************************************************************)
(* One broadcast of text messages, from its idempotency key to the last    *)
(* refund.  It is charged in one transaction, and sent outside of it: by   *)
(* the request that created it, by a repeated request with the same key,   *)
(* and by the recovery job, which takes a task for stuck when its row has  *)
(* not changed for a minute, whether or not somebody is still sending.     *)
(* What was written down as failed is refunded per recipient, at the end   *)
(* of a dispatch and by the daily scan, so many rows a time; an            *)
(* administrator can refund a task too.                                    *)
(*                                                                         *)
(* A transaction or a statement is one action; a session keeps in work,    *)
(* verdict and seen what it has read or been told and not written yet.     *)
(* Delivery receipts change no status that is read here and no money, and  *)
(* are left out.                                                           *)
(***************************************************************************)
EXTENDS SmsWallet, FiniteSets

CONSTANTS
  Recipients,    \* the ids of the task's rows, one for each number resolved
  Price,         \* price of the text for one recipient
  Requests,      \* requests that carry the task's idempotency key
  Recovery,      \* the job that resumes stuck tasks, one at a time
  Reconcile,     \* the daily refund scan, one at a time
  MaxAttempts,   \* SMS_DISPATCH_MAX_ATTEMPTS
  MaxRefundPerRun, \* MAX_REFUND_PER_RUN
  MaxMishaps     \* bound on the sessions that die or give up on an error

ASSUME BroadcastAssumption ==
  /\ Recipients \subseteq Nat /\ IsFiniteSet(Recipients) /\ Recipients # {}
  /\ Price \in Nat \ {0}
  /\ {Recovery, Reconcile} \cap Requests = {}
  /\ MaxAttempts \in Nat \ {0}
  /\ MaxRefundPerRun \in Nat \ {0}
  /\ MaxMishaps \in Nat

Sessions == Requests \union {Recovery, Reconcile}

\* chargedAmountFen
Charge == Price * Cardinality(Recipients)

VARIABLES
  status,        \* of the task
  attempts,      \* dispatchAttempts
  failedCount,
  refunded,      \* refundedAmountFen, by hand and per recipient
  autoRefunded,  \* autoRefundedFen, per recipient
  stale,         \* whether updatedAt of the task is a minute old
  state,         \* status of each recipient
  returned,      \* whether refundedAt of each recipient is set
  pc,            \* place of each session in the code
  mode,          \* what the session is there for
  work,          \* per session and recipient, what is left to send or to write
  verdict,       \* task status the session has computed
  seen,          \* dispatchAttempts it has read, then the failed count it has computed
  claim,         \* amount of the manual refund that an administrator asked for
  denied,        \* history: numbers the provider refused, or whose request failed
  older,         \* failed rows of earlier tasks that were refunded by hand
  mishaps

taskVars == <<status, attempts, failedCount, refunded, autoRefunded, stale>>
rowVars == <<state, returned>>
sessionVars == <<pc, mode, work, verdict, seen>>
outsideVars == <<claim, older, mishaps>>
broadcastVars == <<taskVars, rowVars, sessionVars, denied, outsideVars>>

Statuses == {"none", "sending", "sent", "partial_failed", "failed"}
Refundable == {"partial_failed", "failed"}

BroadcastTypeOK ==
  /\ status \in Statuses
  /\ attempts \in Nat /\ failedCount \in Nat
  /\ refunded \in Nat /\ autoRefunded \in Nat
  /\ stale \in BOOLEAN
  /\ state \in [Recipients -> {"none", "pending", "success", "failed"}]
  /\ returned \in [Recipients -> BOOLEAN]
  /\ pc \in [Sessions -> {"idle", "charge", "resume", "pending", "send", "persist",
                          "exhaust", "count", "update", "refund", "back"}]
  /\ mode \in [Sessions -> {"none", "dispatch", "converge", "exhaust", "scan"}]
  /\ work \in [Sessions -> [Recipients -> {"none", "send", "success", "failed"}]]
  /\ verdict \in [Sessions -> Statuses]
  /\ seen \in [Sessions -> Nat]
  /\ claim \in Nat
  /\ denied \subseteq Recipients
  /\ older \in 0..MaxRefundPerRun
  /\ mishaps \in 0..MaxMishaps

Nothing == [r \in Recipients |-> "none"]

BroadcastInit ==
  /\ status = "none" /\ attempts = 0 /\ failedCount = 0
  /\ refunded = 0 /\ autoRefunded = 0 /\ stale = FALSE
  /\ state = Nothing
  /\ returned = [r \in Recipients |-> FALSE]
  /\ pc = [s \in Sessions |-> "idle"]
  /\ mode = [s \in Sessions |-> "none"]
  /\ work = [s \in Sessions |-> Nothing]
  /\ verdict = [s \in Sessions |-> "none"]
  /\ seen = [s \in Sessions |-> 0]
  /\ denied = {}
  /\ claim = 0 /\ older = 0 /\ mishaps = 0

-----------------------------------------------------------------------------
(* Where a session goes next.                                              *)

GoTo(s, place) ==
  /\ pc' = [pc EXCEPT ![s] = place]
  /\ UNCHANGED <<mode, work, verdict, seen>>

\* What it had read is not looked at again.
GoWith(s, place, m, w) ==
  /\ pc' = [pc EXCEPT ![s] = place]
  /\ mode' = [mode EXCEPT ![s] = m]
  /\ work' = [work EXCEPT ![s] = w]
  /\ verdict' = [verdict EXCEPT ![s] = "none"]
  /\ seen' = [seen EXCEPT ![s] = 0]

End(s) == GoWith(s, "idle", "none", Nothing)

\* The recipients in W marked as m.
Marked(W, m) == [r \in Recipients |-> IF r \in W THEN m ELSE "none"]

InState(x) == {r \in Recipients : state[r] = x}

-----------------------------------------------------------------------------
(* The request and its charge.                                             *)

\* A repeated request resumes a task that failed or is stuck, and returns the
\* first result of any other.
Lookup(s) ==
  /\ s \in Requests
  /\ pc[s] = "idle"
  /\ \/ status = "none" /\ GoTo(s, "charge")
     \/ (status = "failed" \/ (status = "sending" /\ stale)) /\ GoTo(s, "resume")
  /\ UNCHANGED <<taskVars, rowVars, denied, outsideVars, walletVars>>

\* The key is free, and the balance suffices: one transaction charges the
\* wallet and creates the task and its rows.
KeyIsFree == status = "none"

ChargeTask(s) ==
  /\ pc[s] = "charge"
  /\ KeyIsFree
  /\ Affords(Charge)
  /\ Consume(Charge)
  /\ status' = "sending" /\ stale' = FALSE
  /\ state' = [r \in Recipients |-> "pending"]
  /\ GoWith(s, "send", "dispatch", Marked(Recipients, "send"))
  /\ UNCHANGED <<attempts, failedCount, refunded, autoRefunded, returned, denied, outsideVars>>

\* A duplicate returns the first result; without the balance it is an error.
NotCharged(s) ==
  /\ pc[s] = "charge"
  /\ ~KeyIsFree \/ ~Affords(Charge)
  /\ End(s)
  /\ UNCHANGED <<taskVars, rowVars, denied, outsideVars, walletVars>>

-----------------------------------------------------------------------------
(* Resuming, sending and writing back.                                     *)

StartRecovery ==
  /\ pc[Recovery] = "idle"
  /\ stale
  /\ status = "sending" \/ InState("pending") # {}
  /\ GoTo(Recovery, "resume")
  /\ UNCHANGED <<taskVars, rowVars, denied, outsideVars, walletVars>>

\* The task is read before its pending rows.
LoadTask(s) ==
  /\ pc[s] = "resume"
  /\ pc' = [pc EXCEPT ![s] = "pending"]
  /\ seen' = [seen EXCEPT ![s] = attempts]
  /\ UNCHANGED <<taskVars, rowVars, mode, work, verdict, denied, outsideVars, walletVars>>

Resume(s) ==
  /\ pc[s] = "pending"
  /\ LET pending == InState("pending")
     IN CASE pending = {} -> GoWith(s, "count", "converge", Nothing)
          [] pending # {} /\ seen[s] >= MaxAttempts ->
               GoWith(s, "exhaust", "exhaust", Nothing)
          [] OTHER -> GoWith(s, "send", "dispatch", Marked(pending, "send"))
  /\ UNCHANGED <<taskVars, rowVars, denied, outsideVars, walletVars>>

\* mutant: the code NO_PROVIDER_STATUS is written to the row as well
EveryCode == {"success", "failed", "none", "error", "no_status"}

\* What becomes of a number: the provider takes it, refuses it or does not mention
\* it (NO_PROVIDER_STATUS), or the request fails, of which nobody knows whether
\* the provider took it (REQUEST_FAILED).
Answers == {"success", "failed", "none", "error"}

\* What is written to the row: a request that fails counts as a refusal.
Recorded(a) == IF a = "error" THEN "failed" ELSE a

\* Numbers that go out in requests of their own can fare differently.
Told(s, a) ==
  /\ pc[s] = "send"
  /\ \A r \in Recipients : work[s][r] # "send" => a[r] = "none"
  /\ GoWith(s, "persist", "dispatch", [r \in Recipients |-> Recorded(a[r])])
  /\ denied' = denied \union {r \in Recipients : Recorded(a[r]) = "failed"}
  /\ UNCHANGED <<taskVars, rowVars, outsideVars, walletVars>>

Send(s) == \E a \in [Recipients -> Answers] : Told(s, a)

\* Each row is written by a statement of its own, whatever its status is now.
PersistRow(s) ==
  /\ pc[s] = "persist"
  /\ \E r \in Recipients :
       /\ work[s][r] # "none"
       /\ state' = [state EXCEPT ![r] = work[s][r]]
       /\ work' = [work EXCEPT ![s][r] = "none"]
  /\ UNCHANGED <<taskVars, returned, pc, mode, verdict, seen, denied, outsideVars, walletVars>>

Exhaust(s) ==
  /\ pc[s] = "exhaust"
  /\ state' = [r \in Recipients |-> IF state[r] = "pending" THEN "failed" ELSE state[r]]
  /\ GoTo(s, "count")
  /\ UNCHANGED <<taskVars, returned, denied, outsideVars, walletVars>>

\* The task status that the rows add up to.
Converged ==
  CASE InState("failed") = {} -> "sent"
    [] InState("failed") # {} /\ InState("success") = {} -> "failed"
    [] OTHER -> "partial_failed"

\* Only a dispatch looks at the pending rows.
Verdict(s) ==
  IF mode[s] = "dispatch" /\ InState("pending") # {} THEN "sending" ELSE Converged

Count(s) ==
  /\ pc[s] = "count" \/ (pc[s] = "persist" /\ work[s] = Nothing)
  /\ pc' = [pc EXCEPT ![s] = "update"]
  /\ verdict' = [verdict EXCEPT ![s] = Verdict(s)]
  /\ seen' = [seen EXCEPT ![s] = Cardinality(InState("failed"))]
  /\ UNCHANGED <<taskVars, rowVars, mode, work, denied, outsideVars, walletVars>>

UpdateTask(s) ==
  /\ pc[s] = "update"
  /\ status' = verdict[s] /\ failedCount' = seen[s] /\ stale' = FALSE
  /\ attempts' = IF mode[s] = "dispatch" THEN attempts + 1 ELSE attempts
  /\ IF mode[s] = "exhaust" \/ (mode[s] = "dispatch" /\ verdict[s] \in Refundable)
     THEN GoWith(s, "refund", "none", Nothing)
     ELSE End(s)
  /\ UNCHANGED <<refunded, autoRefunded, rowVars, denied, outsideVars, walletVars>>

-----------------------------------------------------------------------------
(* Refunds.                                                                *)

\* mutant: the scan takes whatever has not arrived
NotDelivered == Recipients \ InState("success")

\* What the scan looks for; the transaction looks at refundedAt alone.
Unrefunded == {r \in InState("failed") : ~returned[r]}

StartReconcile ==
  /\ pc[Reconcile] = "idle"
  /\ Unrefunded # {}
  /\ GoWith(Reconcile, "refund", "scan", Nothing)
  /\ UNCHANGED <<taskVars, rowVars, denied, outsideVars, walletVars>>

\* mutant: the batch is counted with < instead of <=
ShortBatch(n) == {r \in Unrefunded : Cardinality({x \in Unrefunded : x <= r}) < n}

\* The n first of them by id.
Batch(n) == {r \in Unrefunded : Cardinality({x \in Unrefunded : x < r}) < n}

\* A dispatch looks at its own task, the scan at the rows of all tasks: the older
\* ones, which the scan can do nothing for and does not mark, come first.
ScanRefunds(s) ==
  /\ pc[s] = "refund"
  /\ LET room == IF mode[s] = "scan" THEN MaxRefundPerRun - older ELSE MaxRefundPerRun
     IN GoWith(s, "back", "none", Marked(Batch(room), "failed"))
  /\ UNCHANGED <<taskVars, rowVars, denied, outsideVars, walletVars>>

\* Refunds by hand and refunds per recipient share what is left of the charge.
RefundAmount == IF Price <= Charge - refunded THEN Price ELSE Charge - refunded

\* mutant: refundedAt is not looked at again inside the transaction
StillOwed(r) == RefundAmount > 0

Owed(r) == ~returned[r] /\ RefundAmount > 0

RefundRecipient(s) ==
  /\ pc[s] = "back"
  /\ \E r \in Recipients :
       /\ work[s][r] # "none"
       /\ work' = [work EXCEPT ![s][r] = "none"]
       /\ IF Owed(r)
          THEN /\ GiveBack(RefundAmount)
               /\ returned' = [returned EXCEPT ![r] = TRUE]
               /\ refunded' = refunded + RefundAmount
               /\ autoRefunded' = autoRefunded + RefundAmount
               /\ stale' = FALSE
          ELSE UNCHANGED <<walletVars, returned, refunded, autoRefunded, stale>>
  /\ UNCHANGED <<status, attempts, failedCount, state, pc, mode, verdict, seen, denied,
                 outsideVars>>

RefundsDone(s) ==
  /\ pc[s] = "back"
  /\ work[s] = Nothing
  /\ End(s)
  /\ UNCHANGED <<taskVars, rowVars, denied, outsideVars, walletVars>>

\* An administrator asks for the refund of a task: the amount is computed
\* before the transaction.
AskManualRefund ==
  /\ claim = 0
  /\ status \in Refundable /\ refunded = 0 /\ failedCount > 0
  /\ claim' = IF failedCount * Price <= Charge THEN failedCount * Price ELSE Charge
  /\ UNCHANGED <<taskVars, rowVars, sessionVars, denied, older, mishaps, walletVars>>

\* mutant: refundedAmountFen is not read again inside the transaction
RefundedBefore == TRUE

NotRefunded == refunded = 0

\* The rows keep refundedAt as it is.
ManualRefund ==
  /\ claim > 0
  /\ claim' = 0
  /\ IF NotRefunded
     THEN /\ GiveBack(claim)
          /\ refunded' = refunded + claim
          /\ stale' = FALSE
     ELSE UNCHANGED <<walletVars, refunded, stale>>
  /\ UNCHANGED <<status, attempts, failedCount, autoRefunded, rowVars, sessionVars, denied,
                 older, mishaps>>

-----------------------------------------------------------------------------
\* A minute passes without a change of the task's row.
GoStale ==
  /\ status # "none" /\ ~stale
  /\ stale' = TRUE
  /\ UNCHANGED <<status, attempts, failedCount, refunded, autoRefunded, rowVars,
                 sessionVars, denied, outsideVars, walletVars>>

\* The whole charge of an earlier task was given back by hand, or a row of such a
\* task fails: a row that the scan finds again every day.
OlderRowStuck ==
  /\ older < MaxRefundPerRun
  /\ older' = older + 1
  /\ UNCHANGED <<taskVars, rowVars, sessionVars, denied, claim, mishaps, walletVars>>

\* A process dies, or a statement of the session fails and the rest is skipped.
Crash(s) ==
  /\ pc[s] # "idle"
  /\ mishaps < MaxMishaps
  /\ mishaps' = mishaps + 1
  /\ End(s)
  /\ UNCHANGED <<taskVars, rowVars, denied, claim, older, walletVars>>

Step(s) ==
  \/ LoadTask(s) \/ Resume(s) \/ Send(s) \/ PersistRow(s) \/ Exhaust(s)
  \/ Count(s) \/ UpdateTask(s) \/ ScanRefunds(s) \/ RefundRecipient(s) \/ RefundsDone(s)

BroadcastNext ==
  \/ GoStale \/ OlderRowStuck \/ StartRecovery \/ StartReconcile
  \/ AskManualRefund \/ ManualRefund
  \/ \E s \in Sessions :
       Lookup(s) \/ ChargeTask(s) \/ NotCharged(s) \/ Step(s) \/ Crash(s)

-----------------------------------------------------------------------------
(* Properties.                                                             *)

\* A recipient is refunded at most once, by concurrent dispatches, the daily
\* scan and their retries, and with the refunds by hand the task never gives
\* back more than it was charged (refundRecipient, refundAdminSmsBroadcast).
RefundedOnce ==
  /\ autoRefunded = Price * Cardinality({r \in Recipients : returned[r]})
  /\ autoRefunded <= refunded
  /\ refunded <= Charge

\* No refund without grounds: the provider refused the number, or the request that
\* carried it failed, or the task's attempts are used up.  What was sent is not
\* given back, and what the provider has not mentioned only at the end, by
\* sessions that resume, write and refund the same rows
\* (persistResults, resumeDispatch, markDispatchExhausted, refundRecipient).
RefundHasGrounds ==
  \A r \in Recipients : returned[r] => r \in denied \/ attempts >= MaxAttempts

\* Every number that was paid for ends in a text the provider took or in a
\* refund, and the task stops sending: whatever dies on the way, the recovery
\* job and the daily scan finish it, unless the scan's batch is full of rows that
\* it can do nothing for (recoverStuckTasks, refundUndeliveredFailures).
Settled ==
  /\ status # "sending"
  /\ \A r \in Recipients :
       \/ state[r] = "success" \/ returned[r]
       \/ refunded = Charge

ScanIsStuck == older = MaxRefundPerRun

EveryTextSettles == status # "none" ~> Settled \/ ScanIsStuck
=============================================================================
