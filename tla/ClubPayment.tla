---------------------------- MODULE ClubPayment ----------------------------
(***************************************************************************)
(* One club order paid through WeChat Pay, from its creation to its        *)
(* settlement: a stored-value recharge (a Redis draft and a row), a group  *)
(* voucher (a row only) or a service purchase (a draft only).  The order   *)
(* of a membership card takes the steps of a voucher's.  The payment is    *)
(* settled by whichever session gets there first: the worker of the        *)
(* callback queue, a verification that asks WeChat Pay (a customer's poll, *)
(* an administrator, the reconciliation job), or the expiration scan.      *)
(*                                                                         *)
(* Every handler is keyed by one orderNo, so the module has one order.  A  *)
(* PostgreSQL transaction is one action, and so is a Redis command; a      *)
(* session keeps its place and what it has read in pc, snap and confirmed, *)
(* and the other sessions interleave.  The deployment is the production    *)
(* one, where confirming a payment by hand is refused.                     *)
(***************************************************************************)
EXTENDS Integers, FiniteSets

CONSTANTS
  Kinds,        \* kinds of order considered
  Worker,       \* the worker of the callback queue
  Scan,         \* the expiration scan, one at a time while its own lock holds
  Verifiers,    \* the verifications that may run at the same time
  Slow,         \* the sessions that may outlive the lock they took
  NoOne,        \* the value of a free order lock
  Accounts,     \* what the store's account may become: "other" or "none" are not
                \* the account the order was placed with
  MaxTries,     \* attempts of a callback job (5 in the code)
  MaxMishaps,   \* bound on the calls that fail and the processes that die
  MaxRebinds    \* bound on the changes of the store's collection account

ASSUME ClubAssumption ==
  /\ Kinds \subseteq {"recharge", "voucher", "service"}
  /\ Accounts \subseteq {"same", "other", "none"}
  /\ Worker # Scan
  /\ {Worker, Scan} \cap Verifiers = {}
  /\ Slow \subseteq Verifiers \union {Worker, Scan}
  /\ NoOne \notin Verifiers \union {Worker, Scan}
  /\ MaxTries \in Nat \ {0}
  /\ MaxMishaps \in Nat /\ MaxRebinds \in Nat

Sessions == Verifiers \union {Worker, Scan}

VARIABLES
  kind,          \* of the order
  stage,         \* of its creation
  trade,         \* the order on the side of WeChat Pay
  config,        \* the store's account: "same" as when the order was placed, or not
  row,           \* status of the order's row: "pending" is unsettled, "paid" settled
  draft,         \* status of the order's draft in Redis
  due,           \* whether expiresAt has passed
  able,          \* whether the grant can be booked: the member, the stock, the balance
  settled,       \* settlements booked
  lock,          \* the order's lock in Redis
  job, tries,    \* the callback job and its failed tries
  dead,          \* whether its dead letter has been written
  pc,            \* place of each session in the code
  snap,          \* the order status the session has loaded
  confirmed,     \* whether the session holds a confirmed payment
  rebinds, mishaps

orderVars   == <<kind, stage, row, draft, due, able, settled>>
outsideVars == <<trade, config, rebinds>>
queueVars   == <<job, tries, dead>>
sessionVars == <<pc, snap, confirmed>>
vars == <<orderVars, outsideVars, lock, queueVars, sessionVars, mishaps>>

Statuses == {"none", "pending", "paid", "expired"}

TypeOK ==
  /\ kind \in Kinds
  /\ stage \in {"draft", "place", "row", "placed", "failed"}
  /\ trade \in {"none", "open", "paid", "closed"}
  /\ config \in {"same", "other", "none"}
  /\ row \in Statuses /\ draft \in Statuses
  /\ due \in BOOLEAN /\ able \in BOOLEAN
  /\ settled \in Nat
  /\ lock \in Sessions \union {NoOne}
  /\ job \in {"none", "waiting", "active", "done", "failed"}
  /\ tries \in 0..MaxTries
  /\ dead \in BOOLEAN
  /\ pc \in [Sessions -> {"idle", "load", "write", "decide", "commit", "mark",
                          "release", "abandon", "expire"}]
  /\ snap \in [Sessions -> Statuses]
  /\ confirmed \in [Sessions -> BOOLEAN]
  /\ mishaps \in 0..MaxMishaps
  /\ rebinds \in 0..MaxRebinds

\* The first step of creation: the recharge saves its draft before it places
\* the order at WeChat Pay, the other kinds place it first.
FirstStage(k) == IF k = "recharge" THEN "draft" ELSE "place"

Init ==
  /\ kind \in Kinds
  /\ stage = FirstStage(kind)
  /\ trade = "none" /\ config = "same" /\ rebinds = 0
  /\ row = "none" /\ draft = "none"
  /\ due = FALSE /\ able = TRUE /\ settled = 0
  /\ lock = NoOne
  /\ job = "none" /\ tries = 0 /\ dead = FALSE
  /\ pc = [s \in Sessions |-> "idle"]
  /\ snap = [s \in Sessions |-> "none"]
  /\ confirmed = [s \in Sessions |-> FALSE]
  /\ mishaps = 0

-----------------------------------------------------------------------------
(* Creation of the order.  The customer can pay once the response arrives. *)

SaveDraft ==
  /\ stage = "draft"
  /\ draft' = "pending"
  /\ stage' = IF kind = "recharge" THEN "place" ELSE "placed"
  /\ UNCHANGED <<kind, row, due, able, settled, outsideVars, lock, queueVars,
                 sessionVars, mishaps>>

\* The recharge saves its draft again, with the parameters of the payment.
PlaceAtWechat ==
  /\ stage = "place"
  /\ trade' = "open"
  /\ draft' = IF kind = "recharge" THEN "pending" ELSE draft
  /\ stage' = IF kind = "service" THEN "draft" ELSE "row"
  /\ UNCHANGED <<kind, row, due, able, settled, config, rebinds, lock,
                 queueVars, sessionVars, mishaps>>

InsertRow ==
  /\ stage = "row"
  /\ row' = "pending"
  /\ stage' = "placed"
  /\ UNCHANGED <<kind, draft, due, able, settled, outsideVars, lock, queueVars,
                 sessionVars, mishaps>>

\* Where creation stops, WeChat Pay may have got the order all the same.
PlacedOrNot == IF stage = "place" THEN {"none", "open"} ELSE {trade}

\* A failed placement deletes the draft, a failed insertion leaves it.
CreationFails ==
  /\ stage \in {"draft", "place", "row"}
  /\ mishaps < MaxMishaps
  /\ mishaps' = mishaps + 1
  /\ stage' = "failed"
  /\ trade' \in PlacedOrNot
  /\ draft' = IF stage = "place" THEN "none" ELSE draft
  /\ UNCHANGED <<kind, row, due, able, settled, config, rebinds, lock, queueVars,
                 sessionVars>>

CreationDies ==
  /\ stage \in {"draft", "place", "row"}
  /\ mishaps < MaxMishaps
  /\ mishaps' = mishaps + 1
  /\ stage' = "failed"
  /\ trade' \in PlacedOrNot
  /\ UNCHANGED <<kind, row, draft, due, able, settled, config, rebinds, lock,
                 queueVars, sessionVars>>

-----------------------------------------------------------------------------
(* The world around the order.                                             *)

\* The order placed at WeChat Pay has no deadline of ours: it can be paid
\* after expiresAt.
Pay ==
  /\ stage = "placed"
  /\ trade = "open"
  /\ trade' = "paid"
  /\ UNCHANGED <<orderVars, config, rebinds, lock, queueVars, sessionVars, mishaps>>

DuePasses ==
  /\ stage = "placed"
  /\ ~due
  /\ due' = TRUE
  /\ UNCHANGED <<kind, stage, row, draft, able, settled, outsideVars, lock,
                 queueVars, sessionVars, mishaps>>

\* The member is deleted, the product sold out, the balance spent.
Disable ==
  /\ able
  /\ able' = FALSE
  /\ UNCHANGED <<kind, stage, row, draft, due, settled, outsideVars, lock,
                 queueVars, sessionVars, mishaps>>

Rebind(to) ==
  /\ stage = "placed"
  /\ config # to
  /\ rebinds < MaxRebinds
  /\ rebinds' = rebinds + 1
  /\ config' = to
  /\ UNCHANGED <<orderVars, trade, lock, queueVars, sessionVars, mishaps>>

\* Redis restarts, evicts the key, or its two hours are over.
LoseDraft ==
  /\ draft # "none"
  /\ draft' = "none"
  /\ UNCHANGED <<kind, stage, row, due, able, settled, outsideVars, lock,
                 queueVars, sessionVars, mishaps>>

\* Between taking the order's lock and releasing it.
HoldsLock(s) == kind # "voucher" /\ pc[s] \in {"commit", "mark", "release", "abandon"}

\* CLUB_PAYMENT_LOCK_TTL_SECONDS are over: nothing renews the lock of a session
\* that died or that is slow.
LockExpires ==
  /\ lock # NoOne
  /\ lock \in Slow \/ ~HoldsLock(lock)
  /\ lock' = NoOne
  /\ UNCHANGED <<orderVars, outsideVars, queueVars, sessionVars, mishaps>>

-----------------------------------------------------------------------------
(* The callback queue.                                                     *)

\* A callback for another account than the store's is refused; without an
\* account to compare with, or without a store to look it up, it is accepted.
\* The job id is that of the payment: a repeated callback adds nothing.
CallbackArrives ==
  /\ trade = "paid"
  /\ job = "none"
  /\ config = "other" => row = "none" /\ draft = "none"
  /\ job' = "waiting"
  /\ UNCHANGED <<orderVars, outsideVars, lock, tries, dead, sessionVars, mishaps>>

StartWorker ==
  /\ job = "waiting"
  /\ pc[Worker] = "idle"
  /\ job' = "active"
  /\ pc' = [pc EXCEPT ![Worker] = "load"]
  /\ confirmed' = [confirmed EXCEPT ![Worker] = TRUE]
  /\ UNCHANGED <<orderVars, outsideVars, lock, tries, dead, snap, mishaps>>

-----------------------------------------------------------------------------
(* How a session ends, and how the queue takes the end of its worker.      *)

Rest(s) ==
  /\ pc' = [pc EXCEPT ![s] = "idle"]
  /\ snap' = [snap EXCEPT ![s] = "none"]
  /\ confirmed' = [confirmed EXCEPT ![s] = FALSE]

Finished(s) ==
  /\ Rest(s)
  /\ job' = IF s = Worker THEN "done" ELSE job
  /\ UNCHANGED <<tries, dead>>

\* mutant: the job is retried once more after its last try
RetriedOnceMore(n) == IF n > MaxTries THEN "failed" ELSE "waiting"

JobAfterFailure(n) == IF n = MaxTries THEN "failed" ELSE "waiting"

\* The last failure writes a dead letter, if that write succeeds; the failure
\* of any other session is only reported.
Failed(s) ==
  /\ Rest(s)
  /\ IF s # Worker THEN UNCHANGED queueVars
     ELSE /\ tries' = tries + 1
          /\ job' = JobAfterFailure(tries + 1)
          /\ dead' \in IF job' = "failed" THEN {TRUE, dead} ELSE {dead}

\* mutant: the release deletes the key without comparing the token
ReleaseAny(s) == NoOne

\* The script deletes the lock only when its value is the session's token.
Release(s) == IF lock = s THEN NoOne ELSE lock

-----------------------------------------------------------------------------
(* A verification: read the order, ask WeChat Pay, and on a payment read   *)
(* the order again and settle.  The worker settles what the callback says. *)

StartVerify(s) ==
  /\ s \in Verifiers
  /\ stage = "placed"
  /\ pc[s] = "idle"
  /\ pc' = [pc EXCEPT ![s] = "load"]
  /\ UNCHANGED <<orderVars, outsideVars, lock, queueVars, snap, confirmed, mishaps>>

Normalized(status) == IF status = "pending" /\ due THEN "expired" ELSE status

Loaded(s, status, next) ==
  /\ snap' = [snap EXCEPT ![s] = status]
  /\ pc' = [pc EXCEPT ![s] = next]
  /\ UNCHANGED <<orderVars, outsideVars, lock, queueVars, confirmed, mishaps>>

\* The draft when Redis has it, with a write of its own when reading it finds
\* it expired; otherwise the recharge row, with a write to restore the draft.
Load(s) ==
  /\ pc[s] = "load"
  /\ \/ kind = "voucher" /\ row # "none" /\ Loaded(s, row, "decide")
     \/ /\ draft # "none"
        /\ Loaded(s, Normalized(draft),
                  IF Normalized(draft) = draft THEN "decide" ELSE "write")
     \/ kind = "recharge" /\ draft = "none" /\ Loaded(s, row, "write")

\* A service order whose draft is gone cannot be found any more.
LoadMisses(s) ==
  /\ pc[s] = "load"
  /\ row = "none" /\ draft = "none"
  /\ Failed(s)
  /\ UNCHANGED <<orderVars, outsideVars, lock, mishaps>>

WriteBack(s) ==
  /\ pc[s] = "write"
  /\ draft' = snap[s]
  /\ pc' = [pc EXCEPT ![s] = "decide"]
  /\ UNCHANGED <<kind, stage, row, due, able, settled, outsideVars, lock,
                 queueVars, snap, confirmed, mishaps>>

\* mutant: an expired recharge is not worth asking for
OnlyPending == {"pending"}

Verifiable == IF kind = "recharge" THEN {"pending", "expired"} ELSE {"pending"}

\* WeChat Pay is asked as the account the store has now.
Ask(s) ==
  /\ pc[s] = "decide"
  /\ ~confirmed[s]
  /\ IF snap[s] \in Verifiable /\ trade = "paid" /\ config = "same"
     THEN /\ confirmed' = [confirmed EXCEPT ![s] = TRUE]
          /\ pc' = [pc EXCEPT ![s] = "load"]
          /\ UNCHANGED <<queueVars, snap>>
     ELSE Finished(s)
  /\ UNCHANGED <<orderVars, outsideVars, lock, mishaps>>

-----------------------------------------------------------------------------
(* Settlement: completePaidDraft and, for vouchers, completePayment.       *)

\* A recharge that expired before its payment was known is settled all the
\* same.
Payable(s) == snap[s] \in (IF kind = "recharge" THEN {"pending", "expired"} ELSE {"pending"})

\* The draft says paid: only what was observed of the payment is refreshed.
AlreadyPaid(s) ==
  /\ pc[s] = "decide"
  /\ confirmed[s]
  /\ kind # "voucher" /\ snap[s] = "paid"
  /\ draft' \in {draft, "paid"}
  /\ Finished(s)
  /\ UNCHANGED <<kind, stage, row, due, able, settled, outsideVars, lock, mishaps>>

\* mutant: the lock is written whoever has it (no NX)
LockTakenOver == TRUE

LockFree == lock = NoOne

Enter(s) ==
  /\ pc[s] = "decide"
  /\ confirmed[s]
  /\ kind = "voucher" \/ (Payable(s) /\ LockFree)
  /\ lock' = IF kind = "voucher" THEN lock ELSE s
  /\ pc' = [pc EXCEPT ![s] = "commit"]
  /\ UNCHANGED <<orderVars, outsideVars, queueVars, snap, confirmed, mishaps>>

\* Another session holds the order's lock, or the draft is not payable.
Refused(s) ==
  /\ pc[s] = "decide"
  /\ confirmed[s]
  /\ kind # "voucher" /\ snap[s] # "paid"
  /\ ~LockFree \/ ~Payable(s)
  /\ Failed(s)
  /\ UNCHANGED <<orderVars, outsideVars, lock, mishaps>>

\* mutant: a recharge is booked without claiming its row
ClaimsUnguarded == kind = "voucher" => row = "pending"

\* The row is claimed inside the transaction.  A service order has no row, and
\* nothing is read again under the lock.
Claims ==
  CASE kind = "recharge" -> row # "paid"
    [] kind = "voucher"  -> row = "pending"
    [] kind = "service"  -> TRUE

AfterCommit == IF kind = "voucher" THEN "release" ELSE "mark"

Commit(s) ==
  /\ pc[s] = "commit"
  /\ Claims => able
  /\ settled' = IF Claims THEN settled + 1 ELSE settled
  /\ row' = IF Claims /\ kind # "service" THEN "paid" ELSE row
  /\ pc' = [pc EXCEPT ![s] = AfterCommit]
  /\ UNCHANGED <<kind, stage, draft, due, able, outsideVars, lock, queueVars,
                 snap, confirmed, mishaps>>

\* mutant: the failure of the transaction is swallowed
Swallowed == "mark"

AfterRollBack == "abandon"

\* The claim is rolled back with the rest of the transaction.
RollBack(s) ==
  /\ pc[s] = "commit"
  /\ Claims /\ ~able
  /\ pc' = [pc EXCEPT ![s] = AfterRollBack]
  /\ UNCHANGED <<orderVars, outsideVars, lock, queueVars, snap, confirmed, mishaps>>

MarkPaid(s) ==
  /\ pc[s] = "mark"
  /\ draft' = "paid"
  /\ pc' = [pc EXCEPT ![s] = "release"]
  /\ UNCHANGED <<kind, stage, row, due, able, settled, outsideVars, lock,
                 queueVars, snap, confirmed, mishaps>>

Leave(s) ==
  /\ \/ pc[s] = "release" /\ Finished(s)
     \/ pc[s] = "abandon" /\ Failed(s)
  /\ lock' = Release(s)
  /\ UNCHANGED <<orderVars, outsideVars, mishaps>>

\* A call to Redis, PostgreSQL or WeChat Pay fails; the lock taken so far is
\* released in the finally block.
Fault(s) ==
  /\ pc[s] \notin {"idle", "release", "abandon"}
  /\ mishaps < MaxMishaps
  /\ mishaps' = mishaps + 1
  /\ IF HoldsLock(s)
     THEN /\ pc' = [pc EXCEPT ![s] = "abandon"]
          /\ UNCHANGED <<queueVars, snap, confirmed>>
     ELSE Failed(s)
  /\ UNCHANGED <<orderVars, outsideVars, lock>>

\* The process dies.  Its lock stays until the time to live is over, and the
\* queue gives its job to another worker.
Crash(s) ==
  /\ pc[s] # "idle"
  /\ mishaps < MaxMishaps
  /\ mishaps' = mishaps + 1
  /\ Rest(s)
  /\ job' = IF s = Worker THEN "waiting" ELSE job
  /\ UNCHANGED <<orderVars, outsideVars, lock, tries, dead>>

-----------------------------------------------------------------------------
(* The expiration scan of the recharge rows.                               *)

\* mutant: a refused close counts as closed
ClosedAnyway == "expire"

\* WeChat Pay closes an unpaid order and refuses to close a paid one, which is
\* then verified instead.  Without an account, or with an account that has no
\* such order, the order counts as closed.
AfterClose == IF config = "same" /\ trade = "paid" THEN "load" ELSE "expire"

ScanClose ==
  /\ kind = "recharge" /\ row = "pending" /\ due
  /\ pc[Scan] = "idle"
  /\ pc' = [pc EXCEPT ![Scan] = AfterClose]
  /\ trade' = IF config = "same" /\ trade = "open" THEN "closed" ELSE trade
  /\ UNCHANGED <<orderVars, config, rebinds, lock, queueVars, snap, confirmed,
                 mishaps>>

\* mutant: the row is marked expired whatever its status
ExpiredAlways == "expired"

Expired == IF row = "pending" THEN "expired" ELSE row

MarkExpired ==
  /\ pc[Scan] = "expire"
  /\ row' = Expired
  /\ Rest(Scan)
  /\ UNCHANGED <<kind, stage, draft, due, able, settled, outsideVars, lock,
                 queueVars, mishaps>>

-----------------------------------------------------------------------------
Create == SaveDraft \/ PlaceAtWechat \/ InsertRow \/ CreationFails \/ CreationDies

Outside ==
  \/ Pay \/ DuePasses \/ Disable \/ LoseDraft \/ LockExpires
  \/ \E to \in Accounts : Rebind(to)

\* One step of the code a session is in.
Step(s) ==
  \/ Load(s) \/ LoadMisses(s) \/ WriteBack(s) \/ Ask(s)
  \/ AlreadyPaid(s) \/ Enter(s) \/ Refused(s)
  \/ Commit(s) \/ RollBack(s) \/ MarkPaid(s) \/ Leave(s)

Next ==
  \/ Create
  \/ Outside
  \/ CallbackArrives \/ StartWorker
  \/ ScanClose \/ MarkExpired
  \/ \E s \in Sessions : StartVerify(s) \/ Step(s) \/ Fault(s) \/ Crash(s)

\* The clock moves, a lock expires, and the scan runs every minute and does not
\* stop in the middle.  Nothing says that the callback arrives, that its worker
\* gets anywhere, or that anybody verifies.
Fairness ==
  /\ WF_vars(DuePasses)
  /\ WF_vars(LockExpires)
  /\ WF_vars(ScanClose \/ MarkExpired \/ Step(Scan))

Spec == Init /\ [][Next]_vars /\ Fairness

-----------------------------------------------------------------------------
(* Properties.                                                             *)

\* An order with a row is booked exactly once, when its row becomes paid,
\* whatever the interleaving of the callback, the verifications, the scan, the
\* crashes and a lock that expired too early (claimPaid, the voucher's claim).
SettledMatchesRow ==
  kind # "service" => settled = IF row = "paid" THEN 1 ELSE 0

\* The draft shown to the customer is paid only when the settlement has been
\* committed: the draft may lag behind the row, it never runs ahead of it
\* (completePaidDraft marks it after the transaction; stale snapshots are
\* written back later by other sessions).
DraftNeverAhead == draft = "paid" => settled > 0

\* While the store keeps its account, an expired recharge is closed at WeChat
\* Pay and can take no money: a paid and unsettled order keeps a status that
\* the scan and the reconciliation look for, even if its callback and its dead
\* letter are lost (expireOneOrder).
CapturedStaysOpen ==
  rebinds = 0 /\ row = "expired" => trade = "closed"

\* Whoever loses the lock to its time to live never frees the lock of the
\* session that took it next: a lock is freed by its holder's last step or by
\* the time to live (releaseLock compares the token).
LockFreedByHolder ==
  [][lock # NoOne /\ lock' # lock =>
       \/ UNCHANGED pc
       \/ HoldsLock(lock) /\ pc'[lock] = "idle"]_vars

\* A session that settles within the time to live of its lock has the lock all
\* along: a slow session, a crash or a foreign release does not let another one
\* settle beside it (SET NX and the token of releaseLock together).
LockKept == \A s \in Sessions \ Slow : HoldsLock(s) => lock = s

\* A recharge that was paid for is booked, or its member is gone: with the
\* callback lost, its job failed, its dead letter not written and its worker
\* dead, the expiration scan still finds it (expireDueOrders, verifyAndSettle).
CapturedSettles ==
  kind = "recharge" /\ trade = "paid" ~> settled = 1 \/ ~able \/ rebinds > 0

\* What an order with a row promises, without any of the machinery.  The service
\* order, which can be booked twice, has no part in it.
Promise == INSTANCE ClubPaymentPromise WITH
             taken <- trade = "paid",
             granted <- IF kind = "service" THEN 0 ELSE settled

KeepsPromise == Promise!Spec

\* A service order is booked at most once too: the comment on the lock says
\* that concurrent callbacks and confirmations cannot book it twice.
SettledOnce == settled <= 1
=============================================================================
