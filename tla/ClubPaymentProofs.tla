------------------------- MODULE ClubPaymentProofs -------------------------
(***************************************************************************)
(* Proofs about ClubPayment, for every set of verifications and every      *)
(* bound.  The inductive invariant Inv adds to the properties what the     *)
(* code relies on without saying it: a session that holds a confirmed      *)
(* payment was given one by WeChat Pay, a status read as paid was already  *)
(* booked when it was read, only a session that has committed marks the    *)
(* draft, and vouchers never touch the lock.                               *)
(***************************************************************************)
EXTENDS ClubPayment, TLAPS

\* Creation goes through its stages in order, and a row is inserted after the
\* order was placed at WeChat Pay.
CreationInOrder ==
  /\ stage = "place" => trade = "none"
  /\ stage = "draft" /\ kind = "recharge" => trade = "none"
  /\ stage = "row" => trade # "none"
  /\ row # "none" => trade # "none" /\ stage = "placed"
  /\ trade \in {"paid", "closed"} => stage = "placed"

\* A payment that a session or the queue acts on was taken.
ConfirmedWasTaken ==
  /\ job # "none" => trade = "paid"
  /\ \A s \in Sessions : confirmed[s] => trade = "paid"
  /\ \A s \in Sessions : pc[s] = "commit" => confirmed[s]

\* A paid status that was read, and a commit that was passed, stand for a
\* booking.
PaidWasBooked ==
  /\ \A s \in Sessions : snap[s] = "paid" => settled > 0
  /\ \A s \in Sessions : pc[s] = "mark" => settled > 0
  /\ row = "paid" => settled > 0

\* The scan marks an order expired after closing it.
ClosedBeforeExpired ==
  /\ rebinds = 0 => config = "same"
  /\ rebinds = 0 /\ pc[Scan] = "expire" => trade = "closed"

\* A worker runs for an active job, and only an exhausted job has no try left.
QueueCounts ==
  /\ pc[Worker] # "idle" => job = "active"
  /\ job \in {"none", "waiting", "active"} => tries < MaxTries

VouchersTakeNoLock == kind = "voucher" => lock = NoOne

Inv ==
  /\ TypeOK
  /\ CreationInOrder
  /\ ConfirmedWasTaken
  /\ PaidWasBooked
  /\ ClosedBeforeExpired
  /\ QueueCounts
  /\ VouchersTakeNoLock
  /\ SettledMatchesRow
  /\ DraftNeverAhead
  /\ CapturedStaysOpen

\* The invariant holds at the start.
LEMMA InitInv == Init => Inv
<1>. SUFFICES ASSUME Init PROVE Inv  OBVIOUS
<1>. USE DEF Init
<1>1. TypeOK
  <2>1. lock \in Sessions \union {NoOne}  OBVIOUS
  <2>2. stage \in {"draft", "place"}  BY DEF FirstStage
  <2>3. /\ pc \in [Sessions -> {"idle", "load"}]
        /\ snap \in [Sessions -> Statuses]
        /\ confirmed \in [Sessions -> BOOLEAN]
    BY DEF Statuses
  <2>4. tries \in 0..MaxTries /\ mishaps \in 0..MaxMishaps /\ rebinds \in 0..MaxRebinds
    BY ClubAssumption
  <2>. QED  BY <2>1, <2>2, <2>3, <2>4 DEF TypeOK, Statuses
<1>2. CreationInOrder /\ VouchersTakeNoLock
  BY DEF CreationInOrder, VouchersTakeNoLock, FirstStage
<1>3. ConfirmedWasTaken /\ PaidWasBooked
  BY DEF ConfirmedWasTaken, PaidWasBooked
<1>4. ClosedBeforeExpired /\ CapturedStaysOpen /\ QueueCounts
  BY ClubAssumption DEF ClosedBeforeExpired, CapturedStaysOpen, QueueCounts, Sessions
<1>5. SettledMatchesRow /\ DraftNeverAhead
  BY DEF SettledMatchesRow, DraftNeverAhead
<1>. QED  BY <1>1, <1>2, <1>3, <1>4, <1>5 DEF Inv

\* Creation keeps the invariant.
LEMMA CreateInv == Inv /\ Create => Inv'
<1>. USE ClubAssumption DEF Inv, TypeOK, CreationInOrder, ConfirmedWasTaken, PaidWasBooked,
     ClosedBeforeExpired, QueueCounts, VouchersTakeNoLock, SettledMatchesRow, DraftNeverAhead,
     CapturedStaysOpen, Sessions, Statuses, outsideVars, queueVars, sessionVars
<1>1. ASSUME Inv, SaveDraft PROVE Inv'  BY <1>1 DEF SaveDraft
<1>2. ASSUME Inv, PlaceAtWechat PROVE Inv'  BY <1>2 DEF PlaceAtWechat
<1>3. ASSUME Inv, InsertRow PROVE Inv'  BY <1>3 DEF InsertRow
<1>4. ASSUME Inv, CreationFails PROVE Inv'  BY <1>4 DEF CreationFails, PlacedOrNot
<1>5. ASSUME Inv, CreationDies PROVE Inv'  BY <1>5 DEF CreationDies, PlacedOrNot
<1>. QED BY <1>1, <1>2, <1>3, <1>4, <1>5 DEF Create

\* What happens around the order keeps the invariant.
LEMMA OutsideInv == Inv /\ (Outside \/ CallbackArrives) => Inv'
<1>. USE ClubAssumption DEF Inv, TypeOK, CreationInOrder, ConfirmedWasTaken, PaidWasBooked,
     ClosedBeforeExpired, QueueCounts, VouchersTakeNoLock, SettledMatchesRow, DraftNeverAhead,
     CapturedStaysOpen, Sessions, Statuses, orderVars, outsideVars, queueVars, sessionVars
<1>1. ASSUME Inv, Pay PROVE Inv'  BY <1>1 DEF Pay
<1>2. ASSUME Inv, DuePasses PROVE Inv'  BY <1>2 DEF DuePasses
<1>3. ASSUME Inv, Disable PROVE Inv'
  <2>1. able' \in BOOLEAN  BY <1>3 DEF Disable
  <2>. QED  BY <1>3, <2>1 DEF Disable
<1>4. ASSUME Inv, LoseDraft PROVE Inv'  BY <1>4 DEF LoseDraft
<1>5. ASSUME Inv, LockExpires PROVE Inv'  BY <1>5 DEF LockExpires
<1>6. ASSUME Inv, NEW to \in Accounts, Rebind(to) PROVE Inv'
  <2>1. config' \in {"same", "other", "none"}  BY <1>6 DEF Rebind
  <2>2. rebinds' \in 0..MaxRebinds /\ rebinds' # 0  BY <1>6 DEF Rebind
  <2>. QED  BY <1>6, <2>1, <2>2 DEF Rebind
<1>7. ASSUME Inv, CallbackArrives PROVE Inv'  BY <1>7 DEF CallbackArrives
<1>. QED  BY <1>1, <1>2, <1>3, <1>4, <1>5, <1>6, <1>7 DEF Outside

\* A session that ends has read nothing and holds no payment; its job has run
\* out of tries, or has one left.
LEMMA SessionEnds ==
  ASSUME TypeOK, QueueCounts, NEW s \in Sessions, pc[s] # "idle",
         Finished(s) \/ Failed(s)
  PROVE  /\ pc' = [pc EXCEPT ![s] = "idle"]
         /\ snap' = [snap EXCEPT ![s] = "none"]
         /\ confirmed' = [confirmed EXCEPT ![s] = FALSE]
         /\ job' \in {"none", "waiting", "active", "done", "failed"}
         /\ tries' \in 0..MaxTries /\ dead' \in BOOLEAN
         /\ job' # "none" => job # "none"
         /\ s # Worker => job' = job /\ tries' = tries
         /\ job' \in {"none", "waiting", "active"} => tries' < MaxTries
<1>1. CASE Finished(s)
  BY <1>1 DEF Finished, Rest, TypeOK, QueueCounts
<1>2. CASE Failed(s) /\ s # Worker
  BY <1>2 DEF Failed, Rest, TypeOK, QueueCounts, queueVars
<1>3. CASE Failed(s) /\ s = Worker
  <2>1. job = "active" /\ tries < MaxTries  BY <1>3 DEF QueueCounts
  <2>2. tries' = tries + 1 /\ job' = JobAfterFailure(tries + 1) /\ Rest(s)
    BY <1>3 DEF Failed
  <2>3. tries' \in 0..MaxTries  BY <2>1, <2>2, ClubAssumption DEF TypeOK
  <2>4. /\ job' \in {"waiting", "failed"}
        /\ job' = "waiting" => tries' < MaxTries
    BY <2>2, <2>3, ClubAssumption DEF JobAfterFailure
  <2>5. dead' \in BOOLEAN
    BY <1>3 DEF Failed, TypeOK
  <2>. QED  BY <1>3, <2>1, <2>2, <2>3, <2>4, <2>5 DEF Rest
<1>. QED  BY <1>1, <1>2, <1>3

\* What a step that ends a session may change besides: the lock, released, and
\* the draft of a paid order.
Ended(s) ==
  /\ pc[s] # "idle"
  /\ Finished(s) \/ Failed(s)
  /\ UNCHANGED <<kind, stage, row, due, able, settled, outsideVars>>
  /\ mishaps' \in 0..MaxMishaps
  /\ lock' \in {lock, NoOne}
  /\ draft' = draft \/ (draft' = "paid" /\ settled > 0)

\* A session that ends keeps the invariant.
LEMMA EndInv ==
  ASSUME Inv, NEW s \in Sessions, Ended(s)
  PROVE  Inv'
<1>. USE DEF Ended
<1>1. TypeOK /\ QueueCounts  BY DEF Inv
<1>2. /\ pc' = [pc EXCEPT ![s] = "idle"]
      /\ snap' = [snap EXCEPT ![s] = "none"]
      /\ confirmed' = [confirmed EXCEPT ![s] = FALSE]
      /\ job' \in {"none", "waiting", "active", "done", "failed"}
      /\ tries' \in 0..MaxTries /\ dead' \in BOOLEAN
      /\ job' # "none" => job # "none"
      /\ s # Worker => job' = job /\ tries' = tries
      /\ job' \in {"none", "waiting", "active"} => tries' < MaxTries
  BY <1>1, SessionEnds
<1>3. TypeOK'  BY <1>1, <1>2 DEF TypeOK, outsideVars, Statuses
<1>4. QueueCounts'  BY <1>1, <1>2, ClubAssumption DEF TypeOK, QueueCounts, Sessions
<1>5. (ConfirmedWasTaken /\ PaidWasBooked)'
  BY <1>1, <1>2 DEF Inv, TypeOK, ConfirmedWasTaken, PaidWasBooked, outsideVars
<1>6. (ClosedBeforeExpired /\ CapturedStaysOpen)'
  BY <1>1, <1>2, ClubAssumption
  DEF Inv, TypeOK, ClosedBeforeExpired, CapturedStaysOpen, outsideVars, Sessions
<1>7. (CreationInOrder /\ VouchersTakeNoLock /\ SettledMatchesRow /\ DraftNeverAhead)'
  BY DEF Inv, CreationInOrder, VouchersTakeNoLock, SettledMatchesRow, DraftNeverAhead,
         outsideVars
<1>. QED  BY <1>3, <1>4, <1>5, <1>6, <1>7 DEF Inv

\* A session that starts keeps the invariant.
LEMMA StartInv ==
  ASSUME Inv, StartWorker \/ \E s \in Sessions : StartVerify(s)
  PROVE  Inv'
<1>. USE ClubAssumption DEF Inv, TypeOK, CreationInOrder, ConfirmedWasTaken, PaidWasBooked,
     ClosedBeforeExpired, QueueCounts, VouchersTakeNoLock, SettledMatchesRow, DraftNeverAhead,
     CapturedStaysOpen, Sessions, Statuses, orderVars, outsideVars, queueVars, sessionVars
<1>1. CASE StartWorker  BY <1>1 DEF StartWorker
<1>2. ASSUME NEW s \in Sessions, StartVerify(s) PROVE Inv'  BY <1>2 DEF StartVerify
<1>. QED  BY <1>1, <1>2

\* The expiration scan keeps the invariant.
LEMMA ScanInv ==
  ASSUME Inv, ScanClose \/ MarkExpired
  PROVE  Inv'
<1>. USE ClubAssumption DEF Inv, TypeOK, CreationInOrder, ConfirmedWasTaken, PaidWasBooked,
     ClosedBeforeExpired, QueueCounts, VouchersTakeNoLock, SettledMatchesRow, DraftNeverAhead,
     CapturedStaysOpen, Sessions, Statuses, orderVars, outsideVars, queueVars, sessionVars
<1>1. CASE ScanClose
  <2>1. trade' \in {"none", "open", "paid", "closed"} /\ AfterClose \in {"load", "expire"}
    BY <1>1 DEF ScanClose, AfterClose
  <2>2. trade' = "paid" <=> trade = "paid"  BY <1>1 DEF ScanClose
  <2>3. rebinds = 0 /\ AfterClose = "expire" => trade' = "closed"
    BY <1>1 DEF ScanClose, AfterClose
  <2>. QED  BY <1>1, <2>1, <2>2, <2>3 DEF ScanClose
<1>2. CASE MarkExpired
  <2>1. row' \in Statuses /\ (row' = "paid" <=> row = "paid")
        /\ (row' = "expired" /\ rebinds = 0 => trade = "closed")
        /\ (row' = "none" <=> row = "none")
    BY <1>2 DEF MarkExpired, Expired
  <2>. QED  BY <1>2, <2>1 DEF MarkExpired, Rest
<1>. QED  BY <1>1, <1>2

\* Loading the order keeps the invariant.
LEMMA LoadInv ==
  ASSUME Inv, NEW s \in Sessions, Load(s)
  PROVE  Inv'
<1>1. PICK status \in Statuses, next \in {"write", "decide"} :
        /\ Loaded(s, status, next)
        /\ status = "paid" => row = "paid" \/ draft = "paid"
  BY DEF Load, Normalized, Inv, TypeOK, Statuses
<1>2. status = "paid" => settled > 0
  BY <1>1 DEF Inv, PaidWasBooked, DraftNeverAhead
<1>. QED
  BY <1>1, <1>2, ClubAssumption
  DEF Load, Loaded, Inv, TypeOK, CreationInOrder, ConfirmedWasTaken, PaidWasBooked,
      ClosedBeforeExpired, QueueCounts, VouchersTakeNoLock, SettledMatchesRow,
      DraftNeverAhead, CapturedStaysOpen, Sessions, Statuses, orderVars, outsideVars,
      queueVars

\* The steps of a session that move it on without ending it.
LEMMA StepInv ==
  ASSUME Inv, NEW s \in Sessions,
         WriteBack(s) \/ Enter(s) \/ RollBack(s) \/ MarkPaid(s)
  PROVE  Inv'
<1>. USE ClubAssumption DEF Inv, TypeOK, CreationInOrder, ConfirmedWasTaken, PaidWasBooked,
     ClosedBeforeExpired, QueueCounts, VouchersTakeNoLock, SettledMatchesRow, DraftNeverAhead,
     CapturedStaysOpen, Sessions, Statuses, orderVars, outsideVars, queueVars, sessionVars
<1>1. CASE WriteBack(s)  BY <1>1 DEF WriteBack
<1>2. CASE Enter(s)  BY <1>2 DEF Enter
<1>3. CASE RollBack(s)  BY <1>3 DEF RollBack, AfterRollBack
<1>4. CASE MarkPaid(s)  BY <1>4 DEF MarkPaid
<1>. QED  BY <1>1, <1>2, <1>3, <1>4

\* A commit books an order with a row at most once, on a payment that was taken.
LEMMA CommitBooks ==
  ASSUME Inv, NEW s \in Sessions, Commit(s)
  PROVE  /\ trade = "paid" /\ trade' = trade
         /\ settled' \in Nat /\ row' \in {row, "paid"}
         /\ kind # "voucher" => settled' > 0
         /\ row' = "paid" => settled' > 0
         /\ settled > 0 => settled' > 0
         /\ kind # "service" =>
              /\ settled' = IF row' = "paid" THEN 1 ELSE 0
              /\ settled' # settled => settled = 0 /\ settled' = 1
<1>1. trade = "paid" /\ trade' = trade
  BY DEF Commit, Inv, ConfirmedWasTaken, outsideVars
<1>2. kind \in {"recharge", "voucher", "service"} /\ settled \in Nat /\ row \in Statuses
  BY ClubAssumption DEF Inv, TypeOK
<1>3. (kind # "service" => settled = IF row = "paid" THEN 1 ELSE 0)
      /\ (row = "paid" => settled > 0)
  BY DEF Inv, SettledMatchesRow, PaidWasBooked
<1>4. CASE kind = "service"
  <2>1. Claims  BY <1>4 DEF Claims
  <2>. QED  BY <1>1, <1>2, <1>3, <1>4, <2>1 DEF Commit
<1>5. CASE kind = "recharge"
  <2>1. Claims <=> row # "paid"  BY <1>5 DEF Claims
  <2>. QED  BY <1>1, <1>2, <1>3, <1>5, <2>1 DEF Commit
<1>6. CASE kind = "voucher"
  <2>1. Claims <=> row = "pending"  BY <1>6 DEF Claims
  <2>. QED  BY <1>1, <1>2, <1>3, <1>6, <2>1 DEF Commit
<1>. QED  BY <1>2, <1>4, <1>5, <1>6

\* The settlement books once, by claiming the row.
LEMMA CommitInv ==
  ASSUME Inv, NEW s \in Sessions, Commit(s)
  PROVE  Inv'
<1>1. /\ trade = "paid" /\ trade' = trade
      /\ settled' \in Nat /\ row' \in {row, "paid"}
      /\ kind # "voucher" => settled' > 0
      /\ row' = "paid" => settled' > 0
      /\ settled > 0 => settled' > 0
      /\ kind # "service" => settled' = IF row' = "paid" THEN 1 ELSE 0
  BY CommitBooks
<1>2. /\ pc[s] = "commit" /\ pc' = [pc EXCEPT ![s] = AfterCommit]
      /\ UNCHANGED <<kind, stage, draft, due, able, outsideVars, lock, queueVars,
                     snap, confirmed, mishaps>>
  BY DEF Commit
<1>3. AfterCommit \in {"release", "mark"} /\ (AfterCommit = "mark" => kind # "voucher")
  BY DEF AfterCommit
<1>4. TypeOK'  BY <1>1, <1>2, <1>3 DEF Inv, TypeOK, Statuses, outsideVars, queueVars
<1>5. (ConfirmedWasTaken /\ PaidWasBooked)'
  BY <1>1, <1>2, <1>3
  DEF Inv, TypeOK, ConfirmedWasTaken, PaidWasBooked, outsideVars, queueVars
<1>6. (ClosedBeforeExpired /\ QueueCounts /\ CapturedStaysOpen)'
  BY <1>1, <1>2, <1>3, ClubAssumption
  DEF Inv, TypeOK, ClosedBeforeExpired, QueueCounts, CapturedStaysOpen, outsideVars,
      queueVars, Sessions
<1>7. (CreationInOrder /\ VouchersTakeNoLock /\ SettledMatchesRow /\ DraftNeverAhead)'
  BY <1>1, <1>2
  DEF Inv, CreationInOrder, VouchersTakeNoLock, SettledMatchesRow, DraftNeverAhead,
      outsideVars
<1>. QED  BY <1>4, <1>5, <1>6, <1>7 DEF Inv

\* The steps that end a session, and the two that may do so.
LEMMA LastStepInv ==
  ASSUME Inv, NEW s \in Sessions,
         LoadMisses(s) \/ Ask(s) \/ AlreadyPaid(s) \/ Refused(s) \/ Leave(s) \/ Fault(s)
  PROVE  Inv'
<1>. USE DEF orderVars, outsideVars
<1>0. /\ mishaps \in 0..MaxMishaps
      /\ snap[s] = "paid" => settled > 0
  BY DEF Inv, TypeOK, PaidWasBooked
<1>1. CASE LoadMisses(s)
  <2>1. pc[s] # "idle"  BY <1>1 DEF LoadMisses
  <2>2. Ended(s)  BY <1>0, <1>1, <2>1 DEF LoadMisses, Ended
  <2>. QED  BY <2>2, EndInv
<1>2. CASE Ask(s) /\ Finished(s)
  <2>1. pc[s] # "idle"  BY <1>2 DEF Ask
  <2>2. Ended(s)  BY <1>0, <1>2, <2>1 DEF Ask, Ended
  <2>. QED  BY <2>2, EndInv
<1>3. CASE Ask(s) /\ ~Finished(s)
  <2>1. /\ pc[s] = "decide" /\ trade = "paid"
        /\ confirmed' = [confirmed EXCEPT ![s] = TRUE]
        /\ pc' = [pc EXCEPT ![s] = "load"]
        /\ UNCHANGED <<orderVars, outsideVars, lock, queueVars, snap, mishaps>>
    BY <1>3 DEF Ask
  <2>. QED
    BY <2>1, ClubAssumption
    DEF Inv, TypeOK, CreationInOrder, ConfirmedWasTaken, PaidWasBooked,
        ClosedBeforeExpired, QueueCounts, VouchersTakeNoLock, SettledMatchesRow,
        DraftNeverAhead, CapturedStaysOpen, Sessions, Statuses, queueVars
<1>4. CASE AlreadyPaid(s)
  <2>1. pc[s] # "idle" /\ settled > 0  BY <1>0, <1>4 DEF AlreadyPaid
  <2>2. Ended(s)  BY <1>0, <1>4, <2>1 DEF AlreadyPaid, Ended
  <2>. QED  BY <2>2, EndInv
<1>5. CASE Refused(s)
  <2>1. pc[s] # "idle"  BY <1>5 DEF Refused
  <2>2. Ended(s)  BY <1>0, <1>5, <2>1 DEF Refused, Ended
  <2>. QED  BY <2>2, EndInv
<1>6. CASE Leave(s)
  <2>1. pc[s] # "idle" /\ lock' \in {lock, NoOne}  BY <1>6 DEF Leave, Release
  <2>2. Ended(s)  BY <1>0, <1>6, <2>1 DEF Leave, Ended
  <2>. QED  BY <2>2, EndInv
<1>7. CASE Fault(s) /\ ~HoldsLock(s)
  <2>1. pc[s] # "idle" /\ mishaps' \in 0..MaxMishaps
    BY <1>0, <1>7, ClubAssumption DEF Fault
  <2>2. Ended(s)  BY <1>7, <2>1 DEF Fault, Ended
  <2>. QED  BY <2>2, EndInv
<1>8. CASE Fault(s) /\ HoldsLock(s)
  <2>1. pc[s] # "idle" /\ mishaps' \in 0..MaxMishaps
    BY <1>0, <1>8, ClubAssumption DEF Fault
  <2>. QED
    BY <1>8, <2>1, ClubAssumption
    DEF Fault, Inv, TypeOK, CreationInOrder, ConfirmedWasTaken, PaidWasBooked,
        ClosedBeforeExpired, QueueCounts, VouchersTakeNoLock, SettledMatchesRow,
        DraftNeverAhead, CapturedStaysOpen, Sessions, Statuses, queueVars
<1>. QED  BY <1>1, <1>2, <1>3, <1>4, <1>5, <1>6, <1>7, <1>8

\* A worker that dies gives back a job that still has a try left.
LEMMA CrashInv ==
  ASSUME Inv, NEW s \in Sessions, Crash(s)
  PROVE  Inv'
<1>1. mishaps' \in 0..MaxMishaps  BY ClubAssumption DEF Crash, Inv, TypeOK
<1>2. /\ job' \in {job, "waiting"}
      /\ job' # job => s = Worker
      /\ job' # "none" => job # "none"
      /\ s = Worker => job = "active" /\ job' = "waiting"
  BY DEF Crash, Inv, QueueCounts
<1>. QED
  BY <1>1, <1>2, ClubAssumption
  DEF Crash, Rest, Inv, TypeOK, CreationInOrder, ConfirmedWasTaken, PaidWasBooked,
      ClosedBeforeExpired, QueueCounts, VouchersTakeNoLock, SettledMatchesRow,
      DraftNeverAhead, CapturedStaysOpen, Sessions, Statuses, orderVars, outsideVars

\* Every step keeps the invariant.
LEMMA NextInv == Inv /\ [Next]_vars => Inv'
<1>1. CASE UNCHANGED vars
  BY <1>1
  DEF vars, orderVars, outsideVars, queueVars, sessionVars, Inv, TypeOK, CreationInOrder,
      ConfirmedWasTaken, PaidWasBooked, ClosedBeforeExpired, QueueCounts,
      VouchersTakeNoLock, SettledMatchesRow, DraftNeverAhead, CapturedStaysOpen
<1>2. ASSUME Inv, Create PROVE Inv'  BY <1>2, CreateInv
<1>3. ASSUME Inv, Outside \/ CallbackArrives PROVE Inv'  BY <1>3, OutsideInv
<1>4. ASSUME Inv, StartWorker \/ \E s \in Sessions : StartVerify(s) PROVE Inv'
  BY <1>4, StartInv
<1>5. ASSUME Inv, ScanClose \/ MarkExpired PROVE Inv'  BY <1>5, ScanInv
<1>6. ASSUME Inv, NEW s \in Sessions, Step(s) \/ Fault(s) \/ Crash(s) PROVE Inv'
  BY <1>6, LoadInv, StepInv, CommitInv, LastStepInv, CrashInv DEF Step
<1>. QED  BY <1>1, <1>2, <1>3, <1>4, <1>5, <1>6 DEF Next

\* The invariant of every reachable state.
LEMMA Invariance == Spec => []Inv
  BY InitInv, NextInv, PTL DEF Spec

\* Every variable keeps its type.
THEOREM TypeCorrect == Spec => []TypeOK
<1>1. Inv => TypeOK  BY DEF Inv
<1>. QED  BY <1>1, Invariance, PTL

\* A recharge or a voucher is booked exactly once, whichever of the concurrent
\* settlers commits and however often the lock or a process is lost.
THEOREM SettledOnceWithRow == Spec => []SettledMatchesRow
<1>1. Inv => SettledMatchesRow  BY DEF Inv
<1>. QED  BY <1>1, Invariance, PTL

\* Redis never says paid before PostgreSQL does.
THEOREM DraftLagsBehind == Spec => []DraftNeverAhead
<1>1. Inv => DraftNeverAhead  BY DEF Inv
<1>. QED  BY <1>1, Invariance, PTL

\* With the store's account unchanged an expired order can take no money.
THEOREM ExpiredTakesNoMoney == Spec => []CapturedStaysOpen
<1>1. Inv => CapturedStaysOpen  BY DEF Inv
<1>. QED  BY <1>1, Invariance, PTL

\* A session that outlived its lock does not free the next holder's.
THEOREM LockOwnership == Spec => LockFreedByHolder
<1> DEFINE Freed == lock # NoOne /\ lock' # lock =>
                      \/ UNCHANGED pc
                      \/ HoldsLock(lock) /\ pc'[lock] = "idle"
<1>1. ASSUME Inv, [Next]_vars PROVE Freed
  <2>1. ASSUME NEW s \in Sessions, Leave(s), lock # NoOne, lock' # lock
        PROVE  HoldsLock(lock) /\ pc'[lock] = "idle"
    <3>1. lock = s /\ kind # "voucher"
      BY <2>1, <1>1 DEF Leave, Release, Inv, VouchersTakeNoLock
    <3>2. pc[s] \in {"release", "abandon"} /\ Rest(s)
      BY <2>1 DEF Leave, Finished, Failed
    <3>. QED  BY <3>1, <3>2, <1>1 DEF HoldsLock, Rest, Inv, TypeOK
  <2>2. ASSUME NEW s \in Sessions, Enter(s), lock # NoOne PROVE lock' = lock
    BY <2>2 DEF Enter, LockFree
  <2>3. LockExpires => UNCHANGED pc  BY DEF LockExpires, sessionVars
  <2>4. ASSUME NEW s \in Sessions, Step(s), ~Leave(s), ~Enter(s) PROVE lock' = lock
    BY <2>4
    DEF Step, Load, Loaded, LoadMisses, WriteBack, Ask, AlreadyPaid, Refused, Commit,
        RollBack, MarkPaid
  <2>5. ASSUME NEW s \in Sessions, StartVerify(s) \/ Fault(s) \/ Crash(s) PROVE lock' = lock
    BY <2>5 DEF StartVerify, Fault, Crash
  <2>6. Create \/ CallbackArrives \/ StartWorker \/ ScanClose \/ MarkExpired => lock' = lock
    BY DEF Create, SaveDraft, PlaceAtWechat, InsertRow, CreationFails, CreationDies,
           CallbackArrives, StartWorker, ScanClose, MarkExpired
  <2>7. Outside /\ ~LockExpires => lock' = lock
    BY DEF Outside, Pay, DuePasses, Disable, LoseDraft, Rebind
  <2>8. UNCHANGED vars => lock' = lock  BY DEF vars
  <2>. QED  BY <1>1, <2>1, <2>2, <2>3, <2>4, <2>5, <2>6, <2>7, <2>8 DEF Next
<1>2. Freed => [lock # NoOne /\ lock' # lock =>
                  \/ UNCHANGED pc
                  \/ HoldsLock(lock) /\ pc'[lock] = "idle"]_vars
  OBVIOUS
<1>. QED  BY <1>1, <1>2, Invariance, PTL DEF Spec, LockFreedByHolder

\* The lock goes from nobody to the session that enters, and back when the one
\* that holds it leaves or its time to live is over.
LEMMA StepLockKept ==
  ASSUME Inv, LockKept, [Next]_vars
  PROVE  LockKept'
<1>. USE ClubAssumption DEF LockKept, HoldsLock
<1>0. /\ pc \in [Sessions -> {"idle", "load", "write", "decide", "commit", "mark",
                              "release", "abandon", "expire"}]
      /\ Worker \in Sessions /\ Scan \in Sessions /\ NoOne \notin Sessions
  BY DEF Inv, TypeOK, Sessions
<1>1. CASE UNCHANGED <<kind, lock>> /\ \A s \in Sessions : HoldsLock(s)' => HoldsLock(s)
  BY <1>1
<1>2. CASE Create
  BY <1>1, <1>2
  DEF Create, SaveDraft, PlaceAtWechat, InsertRow, CreationFails, CreationDies, sessionVars
<1>3. CASE Outside
  <2>1. CASE LockExpires
    BY <2>1 DEF LockExpires, sessionVars, orderVars
  <2>2. CASE ~LockExpires
    BY <1>1, <1>3, <2>2
    DEF Outside, Pay, DuePasses, Disable, LoseDraft, Rebind, sessionVars, orderVars
  <2>. QED  BY <2>1, <2>2
<1>4. CASE CallbackArrives \/ StartWorker \/ ScanClose \/ MarkExpired
  <2>1. CASE CallbackArrives
    BY <1>1, <2>1 DEF CallbackArrives, sessionVars, orderVars
  <2>2. CASE StartWorker \/ ScanClose \/ MarkExpired
    BY <1>0, <1>1, <2>2 DEF StartWorker, ScanClose, MarkExpired, AfterClose, Rest, orderVars
  <2>. QED  BY <1>4, <2>1, <2>2
<1>5. ASSUME NEW s \in Sessions, StartVerify(s) \/ Fault(s) \/ Crash(s) PROVE LockKept'
  BY <1>0, <1>1, <1>5 DEF StartVerify, Fault, Crash, Failed, Rest, orderVars
<1>6. ASSUME NEW s \in Sessions, Step(s) PROVE LockKept'
  <2>1. CASE Enter(s)
    BY <1>0, <2>1 DEF Enter, LockFree, orderVars
  <2>2. CASE Leave(s)
    BY <1>0, <2>2 DEF Leave, Finished, Failed, Rest, Release, orderVars
  <2>3. CASE Load(s) \/ LoadMisses(s) \/ WriteBack(s) \/ Ask(s) \/ AlreadyPaid(s) \/ Refused(s)
    BY <1>0, <1>1, <2>3
    DEF Load, Loaded, LoadMisses, WriteBack, Ask, AlreadyPaid, Refused, Finished, Failed, Rest,
        orderVars
  <2>4. CASE Commit(s) \/ RollBack(s) \/ MarkPaid(s)
    BY <1>0, <1>1, <2>4 DEF Commit, RollBack, MarkPaid, AfterCommit, AfterRollBack, orderVars
  <2>. QED  BY <1>6, <2>1, <2>2, <2>3, <2>4 DEF Step
<1>7. CASE UNCHANGED vars
  BY <1>7 DEF vars, orderVars, sessionVars
<1>. QED  BY <1>2, <1>3, <1>4, <1>5, <1>6, <1>7 DEF Next

\* A session within the time to live of its lock is never robbed of it.
THEOREM LockIsKept == Spec => []LockKept
<1>1. Init => LockKept  BY DEF Init, LockKept, HoldsLock
<1>2. Inv /\ LockKept /\ [Next]_vars => LockKept'  BY StepLockKept
<1>. QED  BY <1>1, <1>2, Invariance, PTL DEF Spec

\* Two sessions settle an order at the same time only when one of them outlived
\* its lock: what else goes wrong with a service order (it can be booked twice)
\* goes wrong one session after the other, on what was read before the lock.
THEOREM OneSettlesAtATime ==
  Spec => [](\A s, t \in Sessions \ Slow : HoldsLock(s) /\ HoldsLock(t) => s = t)
<1>1. LockKept => \A s, t \in Sessions \ Slow : HoldsLock(s) /\ HoldsLock(t) => s = t
  BY DEF LockKept
<1>. QED  BY <1>1, LockIsKept, PTL

\* What the promise sees of the bookings.
Granted == IF kind = "service" THEN 0 ELSE settled

\* No step changes what was ordered.
LEMMA KindIsFixed ==
  ASSUME [Next]_vars PROVE kind' = kind
<1>1. Create \/ Outside \/ CallbackArrives \/ StartWorker => kind' = kind
  BY DEF Create, SaveDraft, PlaceAtWechat, InsertRow, CreationFails, CreationDies, Outside,
         Pay, DuePasses, Disable, LoseDraft, LockExpires, Rebind, CallbackArrives,
         StartWorker, orderVars
<1>2. ScanClose \/ MarkExpired => kind' = kind
  BY DEF ScanClose, MarkExpired, orderVars
<1>3. ASSUME NEW s \in Sessions, StartVerify(s) \/ Fault(s) \/ Crash(s) PROVE kind' = kind
  BY <1>3 DEF StartVerify, Fault, Crash, orderVars
<1>4. ASSUME NEW s \in Sessions, Step(s) PROVE kind' = kind
  BY <1>4
  DEF Step, Load, Loaded, LoadMisses, WriteBack, Ask, AlreadyPaid, Enter, Refused, Commit,
      RollBack, MarkPaid, Leave, orderVars
<1>5. UNCHANGED vars => kind' = kind
  BY DEF vars, orderVars
<1>. QED  BY <1>1, <1>2, <1>3, <1>4, <1>5 DEF Next

\* Orders with a row keep the promise to the customer: what was paid for is
\* granted once, and nothing is granted unpaid.
THEOREM PaymentKeepsPromise == Spec => KeepsPromise
<1>1. Init => Promise!Init
  BY DEF Init, Promise!Init
<1>2. ASSUME Inv, [Next]_vars PROVE [Promise!Next]_<<trade = "paid", Granted>>
  <2>0. kind' = kind  BY <1>2, KindIsFixed
  <2>1. CASE Pay
    <3>1. trade # "paid" /\ trade' = "paid" /\ settled' = settled
      BY <2>1 DEF Pay, orderVars
    <3>. QED  BY <2>0, <3>1 DEF Promise!Next, Promise!Take, Granted
  <2>2. ASSUME NEW s \in Sessions, Commit(s) PROVE [Promise!Next]_<<trade = "paid", Granted>>
    <3>1. trade = "paid" /\ trade' = trade
      BY <1>2, <2>2, CommitBooks
    <3>2. kind # "service" /\ settled' # settled => settled = 0 /\ settled' = 1
      BY <1>2, <2>2, CommitBooks
    <3>3. Granted' # Granted => Granted = 0 /\ Granted' = 1
      BY <2>0, <3>2 DEF Granted
    <3>. QED  BY <3>1, <3>3 DEF Promise!Next, Promise!Grant, Granted
  <2>3. CASE PlaceAtWechat
    <3>1. trade = "none" /\ trade' = "open" /\ settled' = settled
      BY <1>2, <2>3 DEF PlaceAtWechat, Inv, CreationInOrder
    <3>. QED  BY <2>0, <3>1 DEF Granted
  <2>4. CASE ScanClose
    <3>1. (trade' = "paid" <=> trade = "paid") /\ settled' = settled
      BY <2>4 DEF ScanClose, orderVars
    <3>. QED  BY <2>0, <3>1 DEF Granted
  <2>5. CASE UNCHANGED <<trade, settled>>
    BY <2>0, <2>5 DEF Granted
  <2>6. ASSUME NEW s \in Sessions, Step(s), ~Commit(s) PROVE UNCHANGED <<trade, settled>>
    BY <2>6
    DEF Step, Load, Loaded, LoadMisses, WriteBack, Ask, AlreadyPaid, Enter, Refused,
        RollBack, MarkPaid, Leave, orderVars, outsideVars
  <2>7. ASSUME NEW s \in Sessions, StartVerify(s) \/ Fault(s) \/ Crash(s)
        PROVE  UNCHANGED <<trade, settled>>
    BY <2>7 DEF StartVerify, Fault, Crash, orderVars, outsideVars
  <2>8. CASE Create /\ ~PlaceAtWechat
    <3>1. SaveDraft \/ InsertRow => UNCHANGED <<trade, settled>>
      BY DEF SaveDraft, InsertRow, outsideVars
    <3>2. CreationFails \/ CreationDies =>
            /\ settled' = settled
            /\ trade' = trade \/ (trade = "none" /\ trade' \in {"none", "open"})
      BY <1>2 DEF CreationFails, CreationDies, PlacedOrNot, Inv, CreationInOrder
    <3>. QED  BY <2>0, <2>8, <3>1, <3>2 DEF Create, Granted
  <2>9. CallbackArrives \/ StartWorker \/ MarkExpired => UNCHANGED <<trade, settled>>
    BY DEF CallbackArrives, StartWorker, MarkExpired, orderVars, outsideVars
  <2>10. Outside /\ ~Pay => UNCHANGED <<trade, settled>>
    BY DEF Outside, DuePasses, Disable, LoseDraft, LockExpires, Rebind, orderVars, outsideVars
  <2>11. UNCHANGED vars => UNCHANGED <<trade, settled>>
    BY DEF vars, orderVars, outsideVars
  <2>. QED
    BY <1>2, <2>1, <2>2, <2>3, <2>4, <2>5, <2>6, <2>7, <2>8, <2>9, <2>10, <2>11 DEF Next
<1>. QED  BY <1>1, <1>2, Invariance, PTL DEF Spec, KeepsPromise, Promise!Spec, Granted
=============================================================================
