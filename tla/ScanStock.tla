----------------------------- MODULE ScanStock -----------------------------
(***************************************************************************)
(* The stock of the menu products and how the orders of a store share it:  *)
(* reserved when an order is placed, deducted when it is accepted, released *)
(* or restored when it is closed or refunded.  The row of a menu product   *)
(* has stock_quantity, reserved_quantity and a version; a linked product   *)
(* also draws on the store's shared inventory (products.stock), which no   *)
(* version of the menu row protects.  At most one menu product is linked   *)
(* to a shared one (unique index), so the shared stock is a function of    *)
(* the menu product.                                                       *)
(*                                                                         *)
(* An order has one line per product.  When its status changes is the      *)
(* subject of ScanOrder; here a step may happen in every status in which   *)
(* the code takes it, and Revive is the callback that overwrites an order  *)
(* which moved on.                                                         *)
(*                                                                         *)
(* A transaction that accepts an order or gives its goods back reads the   *)
(* modes of its products first, without a lock (Begin), and then updates   *)
(* the rows one by one at READ COMMITTED.  An update that finds its row    *)
(* keeps the lock until the end, so those updates are one action with the  *)
(* commit.  One that does not find it locks nothing, and what it did not   *)
(* find may be there at the commit: Miss and Skip are actions of their own. *)
(***************************************************************************)
EXTENDS Integers, FiniteSets, FiniteSetsExt

CONSTANTS
  Products, Orders, Linked, Quantity,
  Initial,         \* stock_quantity of every product at the start
  InitialShared,   \* products.stock of every linked product at the start
  EditQuantities,  \* the quantities a merchant may set
  MaxEdits,        \* bound on the merchant's edits
  MaxRevivals      \* bound on the orders a late callback brings back

ASSUME StockAssumption ==
  /\ Linked \subseteq Products
  /\ IsFiniteSet(Orders)
  /\ Quantity \in [Orders -> [Products -> Nat]]
  /\ Initial \in [Products -> Nat] /\ InitialShared \in [Products -> Nat]
  /\ EditQuantities \subseteq Nat /\ MaxEdits \in Nat /\ MaxRevivals \in Nat

VARIABLES
  mode, stock, reserved, version, sales,  \* the menu product's row
  shared,    \* products.stock of the linked product
  phase,     \* where each order is, as far as stock is concerned
  tx,        \* the transaction on each order that has begun and not ended
  seen,      \* the products whose mode that transaction read as finite
  missed,    \* the lines for which it found no reservation
  skipped,   \* those of them whose stock it found not to be finite
  snapshot,  \* what the placing transaction of each order read
  edit,      \* a merchant's edit between its read and its write
  edits,     \* how many edits were made
  base,      \* history: stock + sales when the stock was last set
  budget,    \* history: the goods there were when the stock was last set
  raced,     \* history: products set below what had been reserved meanwhile
  caught,    \* history: per product, the orders caught by the setting of its stock
  revived    \* history: the orders a late callback brought back

rows == <<mode, stock, reserved, version, sales, shared>>
txVars == <<tx, seen, missed, skipped>>
history == <<base, budget, raced, caught, revived>>
vars == <<rows, phase, txVars, snapshot, edit, edits, history>>

Modes == {"finite", "unlimited", "sold_out"}
Phases == {"new", "priced", "reading", "placed", "accepted", "closed", "refunded", "lost"}
Items(o) == {p \in Products : Quantity[o][p] > 0}

(* The quantity the availability check starts from, and what is left of it. *)
BaseStock(p) == IF p \in Linked THEN shared[p] ELSE stock[p]
Free(p) == BaseStock(p) - reserved[p]

NoEdit == [pc |-> "idle", quantity |-> 0]
NoSnapshot == [p \in Products |-> [version |-> 0, mode |-> "finite", free |-> 0]]

Init ==
  /\ mode \in [Products -> {"finite", "unlimited"}]
  /\ stock = [p \in Products |-> IF mode[p] = "finite" THEN Initial[p] ELSE 0]
  /\ reserved = [p \in Products |-> 0]
  /\ version = [p \in Products |-> 0]
  /\ sales = [p \in Products |-> 0]
  /\ shared = InitialShared
  /\ phase = [o \in Orders |-> "new"]
  /\ snapshot = [o \in Orders |-> NoSnapshot]
  /\ edit = [p \in Products |-> NoEdit]
  /\ edits = 0
  /\ base = stock
  /\ budget = [p \in Products |-> BaseStock(p)]
  /\ tx = [o \in Orders |-> "none"]
  /\ seen = [o \in Orders |-> {}]
  /\ missed = [o \in Orders |-> {}]
  /\ skipped = [o \in Orders |-> {}]
  /\ raced = {} /\ revived = {}
  /\ caught = [p \in Products |-> {}]

Goto(o, to) == phase' = [phase EXCEPT ![o] = to]

(* Rows whose product is in ps get a new version. *)
Touch(ps) == version' = [p \in Products |-> IF p \in ps THEN version[p] + 1 ELSE version[p]]

(* Column c moves by sign times the order's quantity on the products of ps. *)
Shift(c, ps, o, sign) ==
  [p \in Products |-> IF p \in ps THEN c[p] + sign * Quantity[o][p] ELSE c[p]]

-----------------------------------------------------------------------------
(* Placing: the cart is priced outside the transaction, which then reads the *)
(* rows again, checks the quantities and updates by version.                 *)

Sellable(o, p) ==
  /\ mode[p] # "sold_out"
  /\ mode[p] = "finite" => Free(p) >= Quantity[o][p]

Price(o) ==
  /\ phase[o] = "new"
  /\ \A p \in Items(o) : Sellable(o, p)
  /\ Goto(o, "priced")
  /\ UNCHANGED <<rows, txVars, snapshot, edit, edits, history>>

ReadStock(o) ==
  /\ phase[o] = "priced"
  /\ snapshot' = [snapshot EXCEPT ![o] =
       [p \in Products |-> [version |-> version[p], mode |-> mode[p], free |-> Free(p)]]]
  /\ Goto(o, "reading")
  /\ UNCHANGED <<rows, txVars, edit, edits, history>>

Enough(o, p) == snapshot[o][p].mode # "unlimited" => snapshot[o][p].free >= Quantity[o][p]
AnyVersion(o, p) == TRUE  \* mutant: the update is by id alone
SameVersion(o, p) == snapshot[o][p].version = version[p]

Reservable(o) == \A p \in Items(o) : Enough(o, p) /\ SameVersion(o, p)

Reserve(o) ==
  /\ phase[o] = "reading"
  /\ Reservable(o)
  /\ reserved' = Shift(reserved, Items(o), o, 1)
  /\ Touch(Items(o))
  /\ Goto(o, "placed")
  /\ snapshot' = [snapshot EXCEPT ![o] = NoSnapshot]
  /\ UNCHANGED <<mode, stock, sales, shared, txVars, edit, edits, history>>

(* The whole transaction rolls back; the customer may order again. *)
Refuse(o) ==
  /\ phase[o] = "reading"
  /\ ~Reservable(o)
  /\ Goto(o, "new")
  /\ snapshot' = [snapshot EXCEPT ![o] = NoSnapshot]
  /\ UNCHANGED <<rows, txVars, edit, edits, history>>

-----------------------------------------------------------------------------
(* The transactions on a placed order.  The first statement of each compares *)
(* and locks the order's own row, so there is one at a time.                 *)

(* Orders that are not known to be paid: those no callback brought back. *)
MayBeUnpaid(o) == phase[o] = "placed" /\ o \notin revived

Finite == {p \in Products : mode[p] = "finite"}

(* The order is locked and its lines are read, with the products' modes. *)
Begin(o, what) ==
  /\ tx[o] = "none"
  /\ tx' = [tx EXCEPT ![o] = what]
  /\ seen' = [seen EXCEPT ![o] = Finite]
  /\ UNCHANGED <<rows, phase, missed, skipped, snapshot, edit, edits, history>>

BeginAccept(o) == phase[o] = "placed" /\ Begin(o, "accept")
BeginClose(o) == MayBeUnpaid(o) /\ Begin(o, "close")
BeginRefund(o) == phase[o] \in {"placed", "accepted"} /\ Begin(o, "refund")

End(o) ==
  /\ tx' = [tx EXCEPT ![o] = "none"]
  /\ seen' = [seen EXCEPT ![o] = {}]
  /\ missed' = [missed EXCEPT ![o] = {}]
  /\ skipped' = [skipped EXCEPT ![o] = {}]

(* An error, a deadlock or too little shared stock: nothing has happened. *)
RollBack(o) ==
  /\ tx[o] # "none"
  /\ End(o)
  /\ UNCHANGED <<rows, phase, snapshot, edit, edits, history>>

(* A line is taken off the reservation while that is as large as the line,   *)
(* whichever order it belongs to.                                            *)
CoveredAlways(o, p) == TRUE  \* mutant: the reservation is not compared
Covered(o, p) == reserved[p] >= Quantity[o][p]

Miss(o, p) ==
  /\ tx[o] # "none"
  /\ p \in Items(o) \ missed[o]
  /\ ~Covered(o, p)
  /\ missed' = [missed EXCEPT ![o] = @ \cup {p}]
  /\ UNCHANGED <<rows, phase, tx, seen, skipped, snapshot, edit, edits, history>>

(* What is not taken off the reservation is put back on a finite stock.      *)
Skip(o, p) ==
  /\ tx[o] \in {"close", "refund"}
  /\ p \in missed[o] \ skipped[o]
  /\ mode[p] # "finite"
  /\ skipped' = [skipped EXCEPT ![o] = @ \cup {p}]
  /\ UNCHANGED <<rows, phase, tx, seen, missed, snapshot, edit, edits, history>>

Hits(o) == Items(o) \ missed[o]
CoversHits(o) == \A p \in Hits(o) : Covered(o, p)

(* Accepting: the lines found are deducted, from the stock by the mode that  *)
(* was read (a stock that is not finite any more is null and stays it).      *)
Accept(o) ==
  LET ps == Hits(o) IN
  /\ tx[o] = "accept"
  /\ CoversHits(o)
  /\ \A p \in ps \cap Linked : shared[p] >= Quantity[o][p]
  /\ reserved' = Shift(reserved, ps, o, -1)
  /\ stock' = Shift(stock, ps \cap seen[o] \cap Finite, o, -1)
  /\ sales' = Shift(sales, ps, o, 1)
  /\ shared' = Shift(shared, ps \cap Linked, o, -1)
  /\ Touch(ps)
  /\ Goto(o, "accepted")
  /\ End(o)
  /\ UNCHANGED <<mode, snapshot, edit, edits, history>>

-----------------------------------------------------------------------------
(* Giving back.  A line is taken off the reservation if that is large        *)
(* enough, else put back on the stock: the row cannot tell whose it is.      *)

PutBack(o) == missed[o] \ skipped[o]

RestoreWithoutSales(o, sharedBack) ==  \* mutant: the sales count is not taken back
  /\ CoversHits(o) /\ PutBack(o) \subseteq Finite
  /\ reserved' = Shift(reserved, Hits(o), o, -1)
  /\ stock' = Shift(stock, PutBack(o), o, 1)
  /\ shared' = Shift(shared, missed[o] \cap sharedBack, o, 1)
  /\ Touch(Hits(o) \cup PutBack(o))
  /\ UNCHANGED <<mode, sales>>

RestoreTwice(o, sharedBack) ==  \* mutant: released, then restored as well
  /\ CoversHits(o) /\ PutBack(o) \subseteq Finite
  /\ reserved' = Shift(reserved, Hits(o), o, -1)
  /\ stock' = Shift(stock, Items(o) \cap Finite, o, 1)
  /\ sales' = Shift(sales, Items(o) \cap Finite, o, -1)
  /\ shared' = Shift(shared, Items(o) \cap sharedBack, o, 1)
  /\ Touch(Items(o))
  /\ UNCHANGED mode

Restore(o, sharedBack) ==
  /\ CoversHits(o) /\ PutBack(o) \subseteq Finite
  /\ reserved' = Shift(reserved, Hits(o), o, -1)
  /\ stock' = Shift(stock, PutBack(o), o, 1)
  /\ sales' = Shift(sales, PutBack(o), o, -1)
  /\ shared' = Shift(shared, missed[o] \cap sharedBack, o, 1)
  /\ Touch(Hits(o) \cup PutBack(o))
  /\ UNCHANGED mode

(* Closing an unpaid order puts shared goods back for the products that were *)
(* read as finite.                                                           *)
Close(o) ==
  /\ tx[o] = "close"
  /\ Restore(o, Linked \cap seen[o])
  /\ Goto(o, "closed")
  /\ End(o)
  /\ UNCHANGED <<snapshot, edit, edits, history>>

(* Rejecting, refunding and the timeouts put them back for all. *)
Refund(o) ==
  /\ tx[o] = "refund"
  /\ Restore(o, Linked)
  /\ Goto(o, "refunded")
  /\ End(o)
  /\ UNCHANGED <<snapshot, edit, edits, history>>

(* The merchant's cancel forgets the reservation. *)
MerchantCancel(o) ==
  /\ MayBeUnpaid(o) /\ tx[o] = "none"
  /\ Goto(o, "lost")
  /\ UNCHANGED <<rows, txVars, snapshot, edit, edits, history>>

(* A payment callback that read the order before it moved on commits: the    *)
(* order waits for its acceptance again, whether its goods are reserved,     *)
(* deducted or back.  It happens once (ScanOrder's DamageBounded).           *)
Revive(o) ==
  /\ phase[o] \in {"accepted", "closed", "refunded", "lost"} /\ tx[o] = "none"
  /\ o \notin revived /\ Cardinality(revived) < MaxRevivals
  /\ revived' = revived \cup {o}
  /\ Goto(o, "placed")
  /\ UNCHANGED <<rows, txVars, snapshot, edit, edits, base, budget, raced, caught>>

-----------------------------------------------------------------------------
(* The merchant's edits and other sales *)

(* The edit checks the reservation it reads ... *)
EditRead(p) ==
  /\ edits < MaxEdits
  /\ edit[p] = NoEdit
  /\ \E q \in EditQuantities :
       /\ q >= reserved[p]
       /\ edit' = [edit EXCEPT ![p] = [pc |-> "read", quantity |-> q]]
  /\ edits' = edits + 1
  /\ UNCHANGED <<rows, phase, txVars, snapshot, history>>

Total(amount, os) == MapThenSumSet(LAMBDA o : amount[o], os)
Ordered(p) == [o \in Orders |-> Quantity[o][p]]
Holders == {o \in Orders : phase[o] \in {"placed", "accepted", "lost"}}
Committed(p) == Total(Ordered(p), Holders)

(* The open transactions that have read or found the product not finite. *)
Unaware(p) == {o \in Orders : tx[o] # "none" /\ (p \notin seen[o] \/ p \in skipped[o])}

(* The history of a product starts anew with the row as it is being set. *)
Rebase(p) ==
  /\ caught' = [caught EXCEPT ![p] = Unaware(p)]
  /\ base' = [base EXCEPT ![p] = stock'[p] + sales[p]]
  /\ budget' = [budget EXCEPT ![p] =
       (IF p \in Linked THEN shared[p] ELSE stock'[p]) - reserved[p] + Committed(p)]

(* ... and writes later, without looking again. *)
EditWrite(p) ==
  /\ edit[p].pc = "read"
  /\ mode' = [mode EXCEPT ![p] = "finite"]
  /\ stock' = [stock EXCEPT ![p] = edit[p].quantity]
  /\ Touch({p})
  /\ edit' = [edit EXCEPT ![p] = NoEdit]
  /\ raced' = IF edit[p].quantity < reserved[p] THEN raced \cup {p} ELSE raced \ {p}
  /\ UNCHANGED <<reserved, sales, shared, phase, txVars, snapshot, edits, revived>>
  /\ Rebase(p)

(* Another mode has no quantity (null). *)
EditMode(p, m) ==
  /\ edits < MaxEdits
  /\ mode' = [mode EXCEPT ![p] = m]
  /\ stock' = [stock EXCEPT ![p] = 0]
  /\ Touch({p})
  /\ edits' = edits + 1
  /\ UNCHANGED <<reserved, sales, shared, phase, txVars, snapshot, edit, raced, revived>>
  /\ Rebase(p)

(* The shared goods are sold at the counter. *)
OtherSale(p) ==
  /\ p \in Linked
  /\ shared[p] > 0
  /\ shared' = [shared EXCEPT ![p] = @ - 1]
  /\ budget' = [budget EXCEPT ![p] = @ - 1]
  /\ UNCHANGED <<mode, stock, reserved, version, sales, phase, txVars, snapshot, edit, edits,
                 base, raced, caught, revived>>

-----------------------------------------------------------------------------
OrderStep(o) ==
  \/ Price(o) \/ ReadStock(o) \/ Reserve(o) \/ Refuse(o)
  \/ BeginAccept(o) \/ BeginClose(o) \/ BeginRefund(o) \/ RollBack(o)
  \/ (\E p \in Products : Miss(o, p) \/ Skip(o, p))
  \/ Accept(o) \/ Close(o) \/ Refund(o) \/ MerchantCancel(o) \/ Revive(o)

StoreStep(p) ==
  \/ EditRead(p) \/ EditWrite(p) \/ OtherSale(p)
  \/ EditMode(p, "unlimited") \/ EditMode(p, "sold_out")

Next == (\E o \in Orders : OrderStep(o)) \/ (\E p \in Products : StoreStep(p))

Spec == Init /\ [][Next]_vars

-----------------------------------------------------------------------------
(* Properties *)

TypeOK ==
  /\ mode \in [Products -> Modes]
  /\ stock \in [Products -> Int] /\ reserved \in [Products -> Nat]
  /\ version \in [Products -> Nat] /\ sales \in [Products -> Int]
  /\ shared \in [Products -> Nat]
  /\ phase \in [Orders -> Phases]
  /\ snapshot \in [Orders -> [Products -> [version : Nat, mode : Modes, free : Int]]]
  /\ edit \in [Products -> [pc : {"idle", "read"}, quantity : Nat]]
  /\ edits \in Nat
  /\ base \in [Products -> Int] /\ budget \in [Products -> Int]
  /\ tx \in [Orders -> {"none", "accept", "close", "refund"}]
  /\ seen \in [Orders -> SUBSET Products]
  /\ missed \in [Orders -> SUBSET Products] /\ skipped \in [Orders -> SUBSET Products]
  /\ raced \subseteq Products /\ revived \subseteq Orders
  /\ caught \in [Products -> SUBSET Orders]

(* Products counted by their own row are never oversold: what is reserved    *)
(* never exceeds the stock, although a release may take another order's      *)
(* reservation and an acceptance may find none.  Only an edit that lost the  *)
(* race with a new order is exempt.                                          *)
NoOversell ==
  \A p \in Products \ Linked : mode[p] = "finite" /\ p \notin raced => Free(p) >= 0

(* The goods add up: those free and those of the orders that hold some are   *)
(* as many as when the stock was last set, whichever path each release and   *)
(* each acceptance took.  Two things put the count wrong, each by no more    *)
(* than an order's own quantity: a late callback that brings the order back, *)
(* and the stock being set while the order's transaction was open that had   *)
(* taken the product for one without a stock.                                *)
GoodsAddUp ==
  \A p \in Products : mode[p] = "finite" =>
    LET goods == Free(p) + Committed(p)
        wrong == Total(Ordered(p), caught[p])
    IN  budget[p] - wrong <= goods /\ goods <= budget[p] + wrong + Total(Ordered(p), revived)

(* The sales count of a finite product is what left its stock, but for the   *)
(* orders that were being accepted when it was set.                          *)
SalesMatchStock ==
  \A p \in Products : mode[p] = "finite" =>
    /\ base[p] <= stock[p] + sales[p]
    /\ stock[p] + sales[p] <= base[p] + Total(Ordered(p), caught[p])

(* One number of free goods stands behind stock, reservation and versions. *)
Promise == INSTANCE ScanStockPromise WITH
  counted <- Finite,
  free <- [p \in Products |-> IF mode[p] = "finite" THEN Free(p) ELSE 0],
  taken <- Holders,
  unaware <- [p \in Products |-> IF mode[p] = "finite" THEN Unaware(p) ELSE {}]

KeepsPromise == Promise!Spec
=============================================================================
