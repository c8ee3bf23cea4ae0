-------------------------- MODULE ScanStockProofs --------------------------
(***************************************************************************)
(* Theorems about ScanStock for any products, orders, quantities and       *)
(* edits.                                                                  *)
(***************************************************************************)
EXTENDS ScanStockTotals

(* What an order read is still true of the rows whose version it would match. *)
FreshReads ==
  \A o \in Orders, p \in Products :
    /\ snapshot[o][p].version <= version[p]
    /\ phase[o] = "reading" /\ snapshot[o][p].version = version[p] =>
         /\ snapshot[o][p].mode = mode[p]
         /\ p \notin Linked => snapshot[o][p].free = Free(p)

(* A transaction holds its order where it found it, and starts from nothing. *)
TxOnOrders ==
  \A o \in Orders :
    /\ tx[o] = "none" => skipped[o] = {}
    /\ tx[o] \in {"accept", "close"} => phase[o] = "placed"
    /\ tx[o] = "refund" => phase[o] \in {"placed", "accepted"}

(* Whoever takes a finite product for another was caught by its last setting. *)
UnawareCaught == \A p \in Products : mode[p] = "finite" => Unaware(p) \subseteq caught[p]

(* Of the orders caught only those that are through have put the counts      *)
(* wrong: the bounds of the properties, less the orders still on their way.  *)
Late(p) == caught[p] \ Unaware(p)

LateSales ==
  \A p \in Products : mode[p] = "finite" =>
    /\ base[p] <= stock[p] + sales[p]
    /\ stock[p] + sales[p] <= base[p] + Total(Ordered(p), Late(p))

LateGoods ==
  \A p \in Products : mode[p] = "finite" =>
    /\ budget[p] - Total(Ordered(p), Late(p)) <= Free(p) + Committed(p)
    /\ Free(p) + Committed(p) <=
         budget[p] + Total(Ordered(p), Late(p)) + Total(Ordered(p), revived)

IInv ==
  /\ TypeOK /\ FreshReads /\ TxOnOrders /\ NoOversell
  /\ UnawareCaught /\ LateSales /\ LateGoods

(* Touched rows get a new version, the others keep theirs. *)
LEMMA TouchVersions ==
  ASSUME TypeOK, NEW ps, Touch(ps)
  PROVE  /\ version' \in [Products -> Nat]
         /\ \A p \in Products : version'[p] = IF p \in ps THEN version[p] + 1 ELSE version[p]
  BY DEF TypeOK, Touch

(* Giving goods back, line by line: off the reservation or onto the stock.   *)
LEMMA RestoreEffect ==
  ASSUME TypeOK, NEW o \in Orders, NEW back \in SUBSET Linked, Restore(o, back)
  PROVE  /\ reserved' \in [Products -> Nat] /\ stock' \in [Products -> Int]
         /\ sales' \in [Products -> Int] /\ shared' \in [Products -> Nat]
         /\ version' \in [Products -> Nat] /\ mode' = mode
         /\ \A p \in Products :
              LET q == Quantity[o][p] IN
              /\ reserved'[p] = IF p \in Hits(o) THEN reserved[p] - q ELSE reserved[p]
              /\ stock'[p] = IF p \in PutBack(o) THEN stock[p] + q ELSE stock[p]
              /\ sales'[p] = IF p \in PutBack(o) THEN sales[p] - q ELSE sales[p]
              /\ shared'[p] = IF p \in missed[o] \cap back THEN shared[p] + q ELSE shared[p]
              /\ version'[p] = IF p \in Hits(o) \cup PutBack(o) THEN version[p] + 1
                               ELSE version[p]
<1> DEFINE hits == Hits(o)
           put == PutBack(o)
           gone == missed[o] \cap back
<1>1. hits \in SUBSET Products /\ put \in SUBSET Products /\ gone \in SUBSET Products
  BY DEF Hits, PutBack, Items, TypeOK
<1>2. /\ reserved \in [Products -> Int] /\ stock \in [Products -> Int]
      /\ sales \in [Products -> Int] /\ shared \in [Products -> Int]
  BY DEF TypeOK
<1>3. /\ reserved' = Shift(reserved, hits, o, -1) /\ stock' = Shift(stock, put, o, 1)
      /\ sales' = Shift(sales, put, o, -1) /\ shared' = Shift(shared, gone, o, 1)
      /\ Touch(hits \cup put) /\ mode' = mode
  BY DEF Restore
<1>4. \A p \in hits : reserved[p] >= Quantity[o][p]
  BY DEF Restore, CoversHits, Covered
<1>5. /\ version' \in [Products -> Nat]
      /\ \A p \in Products :
           version'[p] = IF p \in hits \cup put THEN version[p] + 1 ELSE version[p]
  BY <1>3, TouchVersions
<1> HIDE DEF hits, put, gone
<1>6. /\ stock' \in [Products -> Int]
      /\ \A p \in Products : stock'[p] = IF p \in put THEN stock[p] + Quantity[o][p] ELSE stock[p]
  BY <1>1, <1>2, <1>3, StockAssumption DEF Shift
<1>7. /\ sales' \in [Products -> Int]
      /\ \A p \in Products : sales'[p] = IF p \in put THEN sales[p] - Quantity[o][p] ELSE sales[p]
  BY <1>1, <1>2, <1>3, StockAssumption DEF Shift
<1>8. /\ reserved' \in [Products -> Int]
      /\ \A p \in Products :
           reserved'[p] = IF p \in hits THEN reserved[p] - Quantity[o][p] ELSE reserved[p]
  BY <1>1, <1>2, <1>3, StockAssumption DEF Shift
<1>9. /\ shared' \in [Products -> Int]
      /\ \A p \in Products :
           /\ Quantity[o][p] \in Nat
           /\ shared'[p] = IF p \in gone THEN shared[p] + Quantity[o][p] ELSE shared[p]
  BY <1>1, <1>2, <1>3, StockAssumption DEF Shift
<1>10. reserved' \in [Products -> Nat] /\ shared' \in [Products -> Nat]
  <2>1. \A p \in Products : reserved[p] \in Nat /\ shared[p] \in Nat
    BY DEF TypeOK
  <2>2. \A p \in Products : reserved'[p] \in Nat /\ shared'[p] \in Nat
    BY <1>4, <1>8, <1>9, <2>1
  <2> QED BY <1>8, <1>9, <2>2
<1> QED BY <1>3, <1>5, <1>6, <1>7, <1>8, <1>9, <1>10 DEF hits, put, gone

(* Accepting, line by line: the goods leave reservation and stock together,  *)
(* but for a product that was not read as finite.                            *)
LEMMA AcceptEffect ==
  ASSUME TypeOK, NEW o \in Orders, Accept(o)
  PROVE  /\ reserved' \in [Products -> Nat] /\ stock' \in [Products -> Int]
         /\ sales' \in [Products -> Int] /\ shared' \in [Products -> Nat]
         /\ version' \in [Products -> Nat] /\ mode' = mode
         /\ \A p \in Products :
              LET q == Quantity[o][p] IN
              IF p \in Hits(o)
              THEN /\ reserved'[p] = reserved[p] - q /\ version'[p] = version[p] + 1
                   /\ sales'[p] = sales[p] + q
                   /\ stock'[p] = IF p \in seen[o] \cap Finite THEN stock[p] - q ELSE stock[p]
                   /\ shared'[p] = IF p \in Linked THEN shared[p] - q ELSE shared[p]
              ELSE /\ reserved'[p] = reserved[p] /\ version'[p] = version[p]
                   /\ stock'[p] = stock[p] /\ sales'[p] = sales[p] /\ shared'[p] = shared[p]
<1> DEFINE ps == Hits(o)
           fs == ps \cap seen[o] \cap Finite
<1>1. ps \subseteq Products /\ \A p \in ps : reserved[p] >= Quantity[o][p]
  BY DEF Accept, CoversHits, Covered, Hits, Items
<1>2. \A p \in Products : Quantity[o][p] \in Nat
  BY StockAssumption
<1>3. /\ reserved' = Shift(reserved, ps, o, -1) /\ stock' = Shift(stock, fs, o, -1)
      /\ sales' = Shift(sales, ps, o, 1) /\ shared' = Shift(shared, ps \cap Linked, o, -1)
      /\ Touch(ps) /\ mode' = mode
      /\ \A p \in ps \cap Linked : shared[p] >= Quantity[o][p]
  BY DEF Accept
<1>4. /\ version' \in [Products -> Nat]
      /\ \A p \in Products : version'[p] = IF p \in ps THEN version[p] + 1 ELSE version[p]
  BY <1>3, TouchVersions
<1>5. fs \subseteq ps /\ \A p \in ps : p \in fs <=> p \in seen[o] \cap Finite
  OBVIOUS
<1> HIDE DEF ps, fs
<1>6. /\ stock' \in [Products -> Int] /\ sales' \in [Products -> Int]
      /\ \A p \in Products :
           /\ stock'[p] = IF p \in fs THEN stock[p] - Quantity[o][p] ELSE stock[p]
           /\ sales'[p] = IF p \in ps THEN sales[p] + Quantity[o][p] ELSE sales[p]
  BY <1>2, <1>3 DEF Shift, TypeOK
<1>7. /\ reserved' \in [Products -> Nat]
      /\ \A p \in Products :
           reserved'[p] = IF p \in ps THEN reserved[p] - Quantity[o][p] ELSE reserved[p]
  BY <1>1, <1>2, <1>3 DEF Shift, TypeOK
<1>8. /\ shared' \in [Products -> Nat]
      /\ \A p \in Products :
           shared'[p] = IF p \in ps \cap Linked THEN shared[p] - Quantity[o][p] ELSE shared[p]
  BY <1>2, <1>3 DEF Shift, TypeOK
<1> QED BY <1>3, <1>4, <1>5, <1>6, <1>7, <1>8 DEF ps

(* Reserving, line by line. *)
LEMMA ReserveEffect ==
  ASSUME TypeOK, NEW o \in Orders, Reserve(o)
  PROVE  /\ reserved' \in [Products -> Nat] /\ version' \in [Products -> Nat]
         /\ \A p \in Products :
              IF p \in Items(o)
              THEN /\ reserved'[p] = reserved[p] + Quantity[o][p] /\ version'[p] = version[p] + 1
                   /\ Enough(o, p) /\ SameVersion(o, p)
              ELSE reserved'[p] = reserved[p] /\ version'[p] = version[p]
<1> DEFINE ps == Items(o)
<1>1. \A p \in Products : Quantity[o][p] \in Nat
  BY StockAssumption
<1>2. reserved' = Shift(reserved, ps, o, 1) /\ Touch(ps)
  BY DEF Reserve
<1>3. /\ version' \in [Products -> Nat]
      /\ \A p \in Products : version'[p] = IF p \in ps THEN version[p] + 1 ELSE version[p]
  BY <1>2, TouchVersions
<1>4. \A p \in ps : Enough(o, p) /\ SameVersion(o, p)
  BY DEF Reserve, Reservable
<1> HIDE DEF ps
<1>5. /\ reserved' \in [Products -> Nat]
      /\ \A p \in Products :
           reserved'[p] = IF p \in ps THEN reserved[p] + Quantity[o][p] ELSE reserved[p]
  BY <1>1, <1>2 DEF Shift, TypeOK
<1> QED BY <1>3, <1>4, <1>5 DEF ps

-----------------------------------------------------------------------------
(* The goods of some of the orders are a number, and change by the quantity  *)
(* of an order that joins or leaves.                                         *)
LEMMA OrderedTotals ==
  ASSUME NEW p \in Products, NEW os \in SUBSET Orders
  PROVE  /\ Total(Ordered(p), os) \in Nat
         /\ \A o \in Orders \ os :
              Total(Ordered(p), os \cup {o}) = Total(Ordered(p), os) + Quantity[o][p]
         /\ \A o \in os :
              Total(Ordered(p), os \ {o}) = Total(Ordered(p), os) - Quantity[o][p]
<1> DEFINE q == Ordered(p)
<1>1. \A o \in Orders : q[o] \in Nat /\ q[o] = Quantity[o][p]
  BY StockAssumption DEF Ordered
<1> HIDE DEF q
<1>2. IsFiniteSet(os)
  BY StockAssumption, FS_Subset
<1>3. Total(q, os) \in Nat
  BY <1>1, <1>2, TotalNat
<1>4. ASSUME NEW o \in Orders, o \notin os PROVE Total(q, os \cup {o}) = Total(q, os) + q[o]
  <2>1. \A y \in os \cup {o} : q[y] \in Nat
    BY <1>1
  <2> QED BY <1>2, <1>4, <2>1, TotalAdd
<1>5. ASSUME NEW o \in os PROVE Total(q, os \ {o}) = Total(q, os) - q[o]
  <2>1. Total(q, os) = Total(q, os \ {o}) + q[o]
    BY <1>1, <1>2, TotalRemove
  <2>2. Total(q, os \ {o}) \in Nat /\ q[o] \in Nat
    BY <1>1, <1>2, FS_RemoveElement, TotalNat
  <2> QED BY <2>1, <2>2
<1> QED BY <1>1, <1>3, <1>4, <1>5 DEF q

(* Fewer orders come to no more goods. *)
LEMMA OrderedGrow ==
  ASSUME NEW p \in Products, NEW os \in SUBSET Orders, NEW some \in SUBSET os
  PROVE  /\ Total(Ordered(p), some) \in Nat /\ Total(Ordered(p), os) \in Nat
         /\ Total(Ordered(p), some) <= Total(Ordered(p), os)
<1>1. \A o \in os : Ordered(p)[o] \in Nat
  BY StockAssumption DEF Ordered
<1>2. IsFiniteSet(os)
  BY StockAssumption, FS_Subset
<1>3. Total(Ordered(p), some) <= Total(Ordered(p), os)
  BY <1>1, <1>2, TotalGrows
<1> QED BY <1>3, OrderedTotals

(* What the orders hold at the moment is one of these numbers. *)
LEMMA CommittedIsNat == \A p \in Products : Committed(p) \in Nat
<1>1. Holders \in SUBSET Orders
  BY DEF Holders
<1> QED BY <1>1, OrderedTotals DEF Committed

-----------------------------------------------------------------------------
-----------------------------------------------------------------------------
(* The transactions *)

(* A transaction that ends knows and believes nothing any more. *)
LEMMA EndEffect ==
  ASSUME TypeOK, NEW o \in Orders, End(o)
  PROVE  /\ tx' \in [Orders -> {"none", "accept", "close", "refund"}]
         /\ seen' \in [Orders -> SUBSET Products]
         /\ missed' \in [Orders -> SUBSET Products] /\ skipped' \in [Orders -> SUBSET Products]
         /\ tx'[o] = "none" /\ skipped'[o] = {}
         /\ \A x \in Orders : x # o => /\ tx'[x] = tx[x] /\ seen'[x] = seen[x]
                                       /\ skipped'[x] = skipped[x]
         /\ \A p \in Products : Unaware(p)' = Unaware(p) \ {o}
<1>1. /\ tx' \in [Orders -> {"none", "accept", "close", "refund"}]
      /\ seen' \in [Orders -> SUBSET Products]
      /\ missed' \in [Orders -> SUBSET Products] /\ skipped' \in [Orders -> SUBSET Products]
      /\ tx'[o] = "none" /\ skipped'[o] = {}
      /\ \A x \in Orders : x # o => /\ tx'[x] = tx[x] /\ seen'[x] = seen[x]
                                    /\ skipped'[x] = skipped[x]
  BY DEF End, TypeOK
<1> QED BY <1>1 DEF Unaware

(* An order that is not yet accepted or closed, or only finds out what it    *)
(* cannot touch, takes no finite product for another.                        *)
LEMMA UnawareKept ==
  ASSUME TypeOK, TxOnOrders, NEW o \in Orders,
         \/ BeginAccept(o) \/ BeginClose(o) \/ BeginRefund(o)
         \/ (\E p \in Products : Miss(o, p) \/ Skip(o, p))
         \/ UNCHANGED txVars
  PROVE  \A p \in Products : mode[p] = "finite" => Unaware(p)' = Unaware(p)
<1> SUFFICES ASSUME NEW p \in Products, mode[p] = "finite" PROVE Unaware(p)' = Unaware(p)
  OBVIOUS
<1>1. ASSUME NEW what \in {"accept", "close", "refund"}, Begin(o, what)
      PROVE  Unaware(p)' = Unaware(p)
  <2>1. /\ tx[o] = "none" /\ tx' = [tx EXCEPT ![o] = what] /\ skipped' = skipped
        /\ seen' = [seen EXCEPT ![o] = Finite]
    BY <1>1 DEF Begin
  <2>2. tx'[o] # "none" /\ seen'[o] = Finite /\ skipped'[o] = {}
    BY <1>1, <2>1 DEF TypeOK, TxOnOrders
  <2>3. \A x \in Orders :
          x # o => tx'[x] = tx[x] /\ seen'[x] = seen[x] /\ skipped'[x] = skipped[x]
    BY <2>1 DEF TypeOK
  <2>4. p \in Finite
    BY DEF Finite
  <2> QED BY <2>1, <2>2, <2>3, <2>4 DEF Unaware
<1>2. ASSUME NEW x \in Products, Miss(o, x) PROVE Unaware(p)' = Unaware(p)
  BY <1>2 DEF Miss, Unaware
<1>3. ASSUME NEW x \in Products, Skip(o, x) PROVE Unaware(p)' = Unaware(p)
  <2>1. x # p /\ tx' = tx /\ seen' = seen /\ skipped' = [skipped EXCEPT ![o] = @ \cup {x}]
    BY <1>3 DEF Skip
  <2>2. \A y \in Orders : p \in skipped'[y] <=> p \in skipped[y]
    BY <2>1 DEF TypeOK
  <2> QED BY <2>1, <2>2 DEF Unaware
<1>4. CASE UNCHANGED txVars
  BY <1>4 DEF txVars, Unaware
<1> QED BY <1>1, <1>2, <1>3, <1>4 DEF BeginAccept, BeginClose, BeginRefund

(* When a transaction ends, its order may be one that came too late.         *)
LEMMA LateTotals ==
  ASSUME TypeOK, UnawareCaught, NEW p \in Products, mode[p] = "finite", caught' = caught,
         NEW o \in Orders, Unaware(p)' = Unaware(p) \ {o}
  PROVE  /\ Total(Ordered(p), Late(p)) \in Nat /\ Total(Ordered(p), Late(p)') \in Nat
         /\ o \in Unaware(p) =>
              Total(Ordered(p), Late(p)') = Total(Ordered(p), Late(p)) + Quantity[o][p]
         /\ o \notin Unaware(p) => Total(Ordered(p), Late(p)') = Total(Ordered(p), Late(p))
<1>1. Late(p) \in SUBSET Orders /\ Unaware(p) \subseteq caught[p]
  BY DEF TypeOK, Late, UnawareCaught
<1>2. CASE o \in Unaware(p)
  <2>1. Late(p)' = Late(p) \cup {o} /\ o \notin Late(p)
    BY <1>1, <1>2 DEF Late
  <2> QED BY <1>1, <1>2, <2>1, OrderedTotals
<1>3. CASE o \notin Unaware(p)
  <2>1. Late(p)' = Late(p)
    BY <1>3 DEF Late
  <2> QED BY <1>1, <1>3, <2>1, OrderedTotals
<1> QED BY <1>2, <1>3

(* Transactions begin and end where the orders allow it. *)
LEMMA TxStep == TypeOK /\ TxOnOrders /\ [Next]_vars => TxOnOrders'
<1> SUFFICES ASSUME TypeOK, TxOnOrders, [Next]_vars PROVE TxOnOrders'
  OBVIOUS
<1>1. /\ phase \in [Orders -> Phases] /\ skipped \in [Orders -> SUBSET Products]
      /\ tx \in [Orders -> {"none", "accept", "close", "refund"}]
  BY DEF TypeOK
<1>2. ASSUME NEW o \in Orders, OrderStep(o) PROVE TxOnOrders'
  <2>1. CASE BeginAccept(o) \/ BeginClose(o) \/ BeginRefund(o)
    BY <1>1, <2>1 DEF BeginAccept, BeginClose, BeginRefund, MayBeUnpaid, Begin, TxOnOrders
  <2>2. CASE RollBack(o) \/ Accept(o) \/ Close(o) \/ Refund(o)
    <3>1. End(o) /\ \A x \in Orders : x # o => phase'[x] = phase[x]
      BY <1>1, <2>2 DEF RollBack, Accept, Close, Refund, Goto
    <3>2. \A x \in Orders : x # o => tx'[x] = tx[x] /\ skipped'[x] = skipped[x]
      BY <3>1, EndEffect
    <3>3. tx'[o] = "none" /\ skipped'[o] = {}
      BY <3>1, EndEffect
    <3> QED BY <3>1, <3>2, <3>3 DEF TxOnOrders
  <2>3. ASSUME NEW p \in Products, Miss(o, p) PROVE TxOnOrders'
    BY <2>3 DEF Miss, TxOnOrders
  <2>4. ASSUME NEW p \in Products, Skip(o, p) PROVE TxOnOrders'
    BY <1>1, <2>4 DEF Skip, TxOnOrders
  <2>5. CASE \/ Price(o) \/ ReadStock(o) \/ Reserve(o) \/ Refuse(o)
             \/ MerchantCancel(o) \/ Revive(o)
    <3>1. UNCHANGED txVars /\ \A x \in Orders : x # o => phase'[x] = phase[x]
      BY <1>1, <2>5 DEF Price, ReadStock, Reserve, Refuse, MerchantCancel, Revive, Goto
    <3>2. tx[o] = "none"
      BY <1>1, <2>5
      DEF Price, ReadStock, Reserve, Refuse, MerchantCancel, Revive, TxOnOrders
    <3> QED BY <3>1, <3>2 DEF TxOnOrders, txVars
  <2> QED BY <1>2, <2>1, <2>2, <2>3, <2>4, <2>5 DEF OrderStep
<1>3. ASSUME NEW p \in Products, StoreStep(p) PROVE TxOnOrders'
  BY <1>3 DEF StoreStep, EditRead, EditWrite, EditMode, OtherSale, txVars, TxOnOrders
<1>4. CASE UNCHANGED vars
  BY <1>4 DEF vars, txVars, TxOnOrders
<1> QED BY <1>2, <1>3, <1>4 DEF Next

(* Giving back frees exactly the goods of the order, or none of those of a   *)
(* product it takes for another, and keeps stock and sales in step.          *)
LEMMA RestoreSums ==
  ASSUME TypeOK, NEW o \in Orders, tx[o] # "none",
         NEW back \in SUBSET Linked, Linked \cap seen[o] \subseteq back, Restore(o, back)
  PROVE  \A p \in Products :
           /\ mode[p] = "finite" => /\ \/ Free(p)' = Free(p) + Quantity[o][p]
                                       \/ o \in Unaware(p) /\ Free(p)' = Free(p)
                                    /\ stock'[p] + sales'[p] = stock[p] + sales[p]
           /\ version'[p] >= version[p]
           /\ version'[p] = version[p] /\ p \notin Linked => Free(p)' = Free(p)
<1> SUFFICES ASSUME NEW p \in Products
             PROVE  /\ \/ Free(p)' = Free(p) + Quantity[o][p]
                       \/ o \in Unaware(p) /\ Free(p)' = Free(p)
                    /\ stock'[p] + sales'[p] = stock[p] + sales[p]
                    /\ version'[p] >= version[p]
                    /\ version'[p] = version[p] /\ p \notin Linked => Free(p)' = Free(p)
  OBVIOUS
<1>1. /\ Quantity[o][p] \in Nat /\ version[p] \in Nat
      /\ stock[p] \in Int /\ sales[p] \in Int /\ reserved[p] \in Nat /\ shared[p] \in Nat
  BY StockAssumption DEF TypeOK
<1>2. /\ Free(p) = (IF p \in Linked THEN shared[p] ELSE stock[p]) - reserved[p]
      /\ Free(p)' = (IF p \in Linked THEN shared'[p] ELSE stock'[p]) - reserved'[p]
  BY DEF Free, BaseStock
<1>3. o \in Unaware(p) <=> p \notin seen[o] \/ p \in skipped[o]
  BY DEF Unaware
<1>4. CASE p \in Hits(o)
  <2>1. p \notin missed[o] /\ p \notin PutBack(o)
    BY <1>4 DEF Hits, PutBack
  <2> QED BY <1>1, <1>2, <1>4, <2>1, RestoreEffect
<1>5. CASE p \in missed[o]
  <2>1. p \notin Hits(o) /\ (p \in PutBack(o) <=> p \notin skipped[o])
    BY <1>5 DEF Hits, PutBack
  <2>2. p \in Linked /\ p \notin back => o \in Unaware(p)
    BY <1>3
  <2> QED BY <1>1, <1>2, <1>3, <1>5, <2>1, <2>2, RestoreEffect
<1>6. CASE p \notin Hits(o) /\ p \notin missed[o]
  <2>1. Quantity[o][p] = 0 /\ p \notin PutBack(o)
    BY <1>1, <1>6 DEF Hits, PutBack, Items
  <2> QED BY <1>1, <1>2, <1>6, <2>1, RestoreEffect
<1> QED BY <1>4, <1>5, <1>6

(* Accepting leaves the free goods alone and keeps stock and sales in step,  *)
(* but for the goods of a product that the order takes for another.          *)
LEMMA AcceptSums ==
  ASSUME TypeOK, NEW o \in Orders, Accept(o)
  PROVE  \A p \in Products :
           /\ mode[p] = "finite" =>
                /\ \/ Free(p)' = Free(p)
                   \/ o \in Unaware(p) /\ Free(p)' = Free(p) + Quantity[o][p]
                /\ \/ stock'[p] + sales'[p] = stock[p] + sales[p]
                   \/ o \in Unaware(p) /\ stock'[p] + sales'[p] = stock[p] + sales[p] + Quantity[o][p]
           /\ version'[p] >= version[p]
           /\ version'[p] = version[p] /\ p \notin Linked => Free(p)' = Free(p)
<1> SUFFICES ASSUME NEW p \in Products
             PROVE  /\ mode[p] = "finite" =>
                         /\ \/ Free(p)' = Free(p)
                            \/ o \in Unaware(p) /\ Free(p)' = Free(p) + Quantity[o][p]
                         /\ \/ stock'[p] + sales'[p] = stock[p] + sales[p]
                            \/ /\ o \in Unaware(p)
                               /\ stock'[p] + sales'[p] = stock[p] + sales[p] + Quantity[o][p]
                    /\ version'[p] >= version[p]
                    /\ version'[p] = version[p] /\ p \notin Linked => Free(p)' = Free(p)
  OBVIOUS
<1>1. /\ Quantity[o][p] \in Nat /\ version[p] \in Nat
      /\ stock[p] \in Int /\ sales[p] \in Int /\ reserved[p] \in Nat /\ shared[p] \in Nat
  BY StockAssumption DEF TypeOK
<1>2. /\ Free(p) = (IF p \in Linked THEN shared[p] ELSE stock[p]) - reserved[p]
      /\ Free(p)' = (IF p \in Linked THEN shared'[p] ELSE stock'[p]) - reserved'[p]
  BY DEF Free, BaseStock
<1>3. mode[p] = "finite" /\ p \notin seen[o] => o \in Unaware(p)
  BY DEF Accept, Unaware
<1>4. p \in seen[o] \cap Finite <=> p \in seen[o] /\ mode[p] = "finite"
  BY DEF Finite
<1> QED BY <1>1, <1>2, <1>3, <1>4, AcceptEffect

-----------------------------------------------------------------------------
(* The values the actions assign belong to the types of their variables. *)
LEMMA TypeStep == TypeOK /\ [Next]_vars => TypeOK'
<1> SUFFICES ASSUME TypeOK, [Next]_vars PROVE TypeOK'
  OBVIOUS
<1> USE DEF rows, txVars, history
<1>1. NoSnapshot \in [Products -> [version : Nat, mode : Modes, free : Int]]
  BY DEF NoSnapshot, Modes
<1>2. ASSUME NEW o \in Orders, NEW to \in Phases, Goto(o, to)
      PROVE  phase' \in [Orders -> Phases]
  BY <1>2 DEF Goto, TypeOK
<1>3. {"new", "priced", "reading", "placed", "accepted", "closed", "refunded",
      "lost"} \subseteq Phases
  BY DEF Phases
<1>4. ASSUME NEW o \in Orders, OrderStep(o) PROVE TypeOK'
  <2>1. CASE ReadStock(o)
    <3>1. \A p \in Products : Free(p) \in Int
      BY DEF Free, BaseStock, TypeOK
    <3>2. snapshot' \in [Orders -> [Products -> [version : Nat, mode : Modes, free : Int]]]
      BY <2>1, <3>1 DEF ReadStock, TypeOK
    <3> QED BY <1>2, <1>3, <2>1, <3>2 DEF ReadStock, TypeOK
  <2>2. CASE Reserve(o)
    BY <1>1, <1>2, <1>3, <2>2, ReserveEffect DEF Reserve, TypeOK
  <2>3. CASE Refuse(o)
    BY <1>1, <1>2, <1>3, <2>3 DEF Refuse, TypeOK
  <2>4. CASE Accept(o)
    <3>1. End(o)
      BY <2>4 DEF Accept
    <3> QED BY <1>2, <1>3, <2>4, <3>1, AcceptEffect, EndEffect DEF Accept, TypeOK
  <2>5. CASE Close(o)
    <3>1. Restore(o, Linked \cap seen[o]) /\ Linked \cap seen[o] \in SUBSET Linked /\ End(o)
      BY <2>5 DEF Close
    <3> QED BY <1>2, <1>3, <2>5, <3>1, RestoreEffect, EndEffect DEF Close, TypeOK
  <2>6. CASE Refund(o)
    <3>1. Restore(o, Linked) /\ Linked \in SUBSET Linked /\ End(o)
      BY <2>6 DEF Refund
    <3> QED BY <1>2, <1>3, <2>6, <3>1, RestoreEffect, EndEffect DEF Refund, TypeOK
  <2>7. CASE MerchantCancel(o)
    BY <1>2, <1>3, <2>7 DEF MerchantCancel, TypeOK
  <2>8. CASE Revive(o)
    BY <1>2, <1>3, <2>8 DEF Revive, TypeOK
  <2>9. CASE Price(o)
    BY <1>2, <1>3, <2>9 DEF Price, TypeOK
  <2>10. ASSUME NEW what \in {"accept", "close", "refund"}, Begin(o, what) PROVE TypeOK'
    <3>1. Finite \in SUBSET Products
      BY DEF Finite
    <3> QED BY <2>10, <3>1 DEF Begin, TypeOK
  <2>11. CASE RollBack(o)
    <3>1. End(o)
      BY <2>11 DEF RollBack
    <3> QED BY <2>11, <3>1, EndEffect DEF RollBack, TypeOK
  <2>12. ASSUME NEW p \in Products, Miss(o, p) \/ Skip(o, p) PROVE TypeOK'
    <3>1. /\ [missed EXCEPT ![o] = @ \cup {p}] \in [Orders -> SUBSET Products]
          /\ [skipped EXCEPT ![o] = @ \cup {p}] \in [Orders -> SUBSET Products]
      BY DEF TypeOK
    <3>2. CASE Miss(o, p)
      BY <3>1, <3>2 DEF Miss, TypeOK
    <3>3. CASE Skip(o, p)
      BY <3>1, <3>3 DEF Skip, TypeOK
    <3> QED BY <2>12, <3>2, <3>3
  <2> QED BY <1>4, <2>1, <2>2, <2>3, <2>4, <2>5, <2>6, <2>7, <2>8, <2>9, <2>10, <2>11, <2>12
      DEF OrderStep, BeginAccept, BeginClose, BeginRefund
<1>5. ASSUME NEW p \in Products, StoreStep(p) PROVE TypeOK'
  <2>1. CASE EditRead(p)
    BY <2>1, StockAssumption DEF EditRead, TypeOK
  <2>2. ASSUME stock' \in [Products -> Int], Rebase(p)
        PROVE  /\ base' \in [Products -> Int] /\ budget' \in [Products -> Int]
               /\ caught' \in [Products -> SUBSET Orders]
    <3>1. Unaware(p) \in SUBSET Orders
      BY DEF Unaware
    <3> QED BY <2>2, <3>1, CommittedIsNat DEF Rebase, TypeOK
  <2>3. CASE EditWrite(p)
    <3>1. stock' \in [Products -> Int] /\ version' \in [Products -> Nat]
      BY <2>3, TouchVersions DEF EditWrite, TypeOK
    <3> QED BY <2>2, <2>3, <3>1 DEF EditWrite, TypeOK, Modes, NoEdit
  <2>4. CASE OtherSale(p)
    BY <2>4 DEF OtherSale, TypeOK
  <2>5. ASSUME NEW m \in Modes, EditMode(p, m) PROVE TypeOK'
    <3>1. stock' \in [Products -> Int] /\ version' \in [Products -> Nat]
      BY <2>5, TouchVersions DEF EditMode, TypeOK
    <3> QED BY <2>2, <2>5, <3>1 DEF EditMode, TypeOK
  <2> QED BY <1>5, <2>1, <2>3, <2>4, <2>5 DEF StoreStep, Modes
<1>6. CASE UNCHANGED vars
  BY <1>6 DEF vars, TypeOK
<1> QED BY <1>4, <1>5, <1>6 DEF Next

(* What a placing transaction read stays true of the rows it may reserve. *)
LEMMA FreshStep == TypeOK /\ FreshReads /\ [Next]_vars => FreshReads'
<1> SUFFICES ASSUME TypeOK, FreshReads, [Next]_vars PROVE FreshReads'
  OBVIOUS
<1> USE DEF rows, txVars, history
<1>1. /\ \A p \in Products : version[p] \in Nat
      /\ \A o \in Orders, p \in Products : snapshot[o][p].version \in Nat
      /\ snapshot \in [Orders -> [Products -> [version : Nat, mode : Modes, free : Int]]]
      /\ phase \in [Orders -> Phases]
  BY DEF TypeOK
(* A step that raises the version of every row whose mode or free goods it
   changes, and lets no order start reading, keeps the reads fresh. *)
<1>2. ASSUME \A o \in Orders :
               \/ snapshot'[o] = snapshot[o] /\ (phase'[o] = "reading" => phase[o] = "reading")
               \/ snapshot'[o] = NoSnapshot /\ phase'[o] # "reading",
             \A p \in Products :
               /\ version'[p] \in Nat /\ version'[p] >= version[p]
               /\ version'[p] = version[p] =>
                    mode'[p] = mode[p] /\ (p \notin Linked => Free(p)' = Free(p))
      PROVE  FreshReads'
  <2> SUFFICES ASSUME NEW o \in Orders, NEW p \in Products
               PROVE  /\ snapshot'[o][p].version <= version'[p]
                      /\ phase'[o] = "reading" /\ snapshot'[o][p].version = version'[p] =>
                           /\ snapshot'[o][p].mode = mode'[p]
                           /\ p \notin Linked => snapshot'[o][p].free = Free(p)'
    BY DEF FreshReads
  <2>1. CASE snapshot'[o] = NoSnapshot /\ phase'[o] # "reading"
    BY <1>1, <1>2, <2>1 DEF NoSnapshot
  <2>2. CASE snapshot'[o] = snapshot[o] /\ (phase'[o] = "reading" => phase[o] = "reading")
    BY <1>1, <1>2, <2>2 DEF FreshReads
  <2> QED BY <1>2, <2>1, <2>2
<1>3. ASSUME NEW o \in Orders, OrderStep(o) PROVE FreshReads'
  <2>1. CASE ReadStock(o)
    <3>1. \A p \in Products : Free(p)' = Free(p)
      BY <2>1 DEF ReadStock, Free, BaseStock
    <3>2. /\ \A x \in Orders : x # o => snapshot'[x] = snapshot[x] /\ phase'[x] = phase[x]
          /\ \A p \in Products : /\ snapshot'[o][p].version = version[p]
                                 /\ snapshot'[o][p].mode = mode[p]
                                 /\ snapshot'[o][p].free = Free(p)
          /\ version' = version /\ mode' = mode
      BY <1>1, <2>1 DEF ReadStock, Goto
    <3> QED BY <1>1, <3>1, <3>2 DEF FreshReads
  <2>2. CASE Reserve(o)
    <3>1. \A p \in Products : version'[p] = version[p] => reserved'[p] = reserved[p]
      BY <1>1, <2>2, ReserveEffect
    <3>2. \A p \in Products : version'[p] = version[p] => Free(p)' = Free(p)
      BY <2>2, <3>1 DEF Reserve, Free, BaseStock
    <3>3. \A p \in Products : version'[p] \in Nat /\ version'[p] >= version[p]
      BY <1>1, <2>2, ReserveEffect
    <3>4. mode' = mode
      BY <2>2 DEF Reserve
    <3>5. \A p \in Products :
            /\ version'[p] \in Nat /\ version'[p] >= version[p]
            /\ version'[p] = version[p] =>
                 mode'[p] = mode[p] /\ (p \notin Linked => Free(p)' = Free(p))
      BY <3>2, <3>3, <3>4
    <3>6. \A x \in Orders :
            \/ snapshot'[x] = snapshot[x] /\ (phase'[x] = "reading" => phase[x] = "reading")
            \/ snapshot'[x] = NoSnapshot /\ phase'[x] # "reading"
      <4>1. /\ snapshot' = [snapshot EXCEPT ![o] = NoSnapshot]
            /\ phase' = [phase EXCEPT ![o] = "placed"]
        BY <2>2 DEF Reserve, Goto
      <4>2. snapshot'[o] = NoSnapshot /\ phase'[o] = "placed"
        BY <1>1, <4>1
      <4>3. \A x \in Orders : x # o => snapshot'[x] = snapshot[x] /\ phase'[x] = phase[x]
        BY <1>1, <4>1
      <4> QED BY <4>2, <4>3
    <3> QED BY <1>2, <3>5, <3>6
  <2>3. CASE Price(o) \/ Refuse(o)
    BY <1>1, <1>2, <2>3 DEF Price, Refuse, Goto, Free, BaseStock
  <2>4. CASE Accept(o)
    BY <1>1, <1>2, <2>4, AcceptEffect, AcceptSums DEF Accept, Goto
  <2>5. CASE Close(o) \/ Refund(o)
    <3>1. PICK back \in SUBSET Linked : Linked \cap seen[o] \subseteq back /\ Restore(o, back)
      BY <2>5 DEF Close, Refund
    <3>0. tx[o] # "none"
      BY <2>5 DEF Close, Refund
    <3>2. /\ mode' = mode
          /\ \A p \in Products :
               /\ version'[p] \in Nat /\ version'[p] >= version[p]
               /\ version'[p] = version[p] => (p \notin Linked => Free(p)' = Free(p))
      <4>1. mode' = mode /\ version' \in [Products -> Nat]
        BY <3>1, RestoreEffect
      <4> QED BY <3>0, <3>1, <4>1, RestoreSums
    <3>3. snapshot' = snapshot /\ \A x \in Orders : phase'[x] = "reading" => phase[x] = "reading"
      BY <1>1, <2>5 DEF Close, Refund, Goto
    <3> QED BY <1>2, <3>2, <3>3
  <2>6. CASE MerchantCancel(o) \/ Revive(o)
    BY <1>1, <1>2, <2>6 DEF MerchantCancel, Revive, Goto, Free, BaseStock
  <2>7. CASE \/ BeginAccept(o) \/ BeginClose(o) \/ BeginRefund(o) \/ RollBack(o)
             \/ (\E p \in Products : Miss(o, p) \/ Skip(o, p))
    <3>1. UNCHANGED <<rows, phase, snapshot>>
      BY <2>7 DEF BeginAccept, BeginClose, BeginRefund, Begin, RollBack, Miss, Skip
    <3> QED BY <1>1, <1>2, <3>1 DEF Free, BaseStock
  <2> QED BY <1>3, <2>1, <2>2, <2>3, <2>4, <2>5, <2>6, <2>7 DEF OrderStep
<1>4. ASSUME NEW p \in Products, StoreStep(p) PROVE FreshReads'
  <2>1. CASE EditRead(p)
    BY <1>1, <1>2, <2>1 DEF EditRead, Free, BaseStock
  <2>2. CASE EditWrite(p) \/ \E m \in Modes : EditMode(p, m)
    <3>1. Touch({p}) /\ UNCHANGED <<reserved, shared, phase, snapshot>>
      BY <2>2 DEF EditWrite, EditMode
    <3>2. \A x \in Products : x # p => mode'[x] = mode[x] /\ stock'[x] = stock[x]
      BY <2>2 DEF EditWrite, EditMode, TypeOK
    <3>3. \A x \in Products : x # p => Free(x)' = Free(x)
      BY <3>1, <3>2 DEF Free, BaseStock
    <3> QED BY <1>1, <1>2, <3>1, <3>2, <3>3, TouchVersions
  <2>3. CASE OtherSale(p)
    BY <1>1, <1>2, <2>3 DEF OtherSale, Free, BaseStock
  <2> QED BY <1>4, <2>1, <2>2, <2>3 DEF StoreStep, Modes
<1>5. CASE UNCHANGED vars
  BY <1>5 DEF vars, FreshReads, Free, BaseStock
<1> QED BY <1>3, <1>4, <1>5 DEF Next

(* Products of the menu are not oversold by any step. *)
LEMMA OversellStep == TypeOK /\ FreshReads /\ NoOversell /\ [Next]_vars => NoOversell'
<1> SUFFICES ASSUME TypeOK, FreshReads, NoOversell, [Next]_vars PROVE NoOversell'
  OBVIOUS
<1> USE DEF rows, txVars, history
<1>1. \A p \in Products : Free(p) \in Int
  BY DEF TypeOK, Free, BaseStock
<1>2. ASSUME mode' = mode, raced' = raced,
             \A p \in Products \ Linked :
               mode[p] = "finite" => Free(p)' \in Int /\ (Free(p)' >= Free(p) \/ Free(p)' >= 0)
      PROVE  NoOversell'
  BY <1>1, <1>2 DEF NoOversell
<1>3. ASSUME NEW o \in Orders, OrderStep(o) PROVE NoOversell'
  <2>1. CASE Reserve(o)
    <3>1. ASSUME NEW p \in Products \ Linked, mode[p] = "finite"
          PROVE  Free(p)' \in Int /\ (Free(p)' >= Free(p) \/ Free(p)' >= 0)
      <4>1. stock' = stock
        BY <2>1 DEF Reserve
      <4>2. Free(p) = stock[p] - reserved[p] /\ Free(p)' = stock[p] - reserved'[p]
        BY <4>1 DEF Free, BaseStock
      <4>3. stock[p] \in Int /\ reserved[p] \in Nat /\ Quantity[o][p] \in Nat
        BY StockAssumption DEF TypeOK
      <4>4. CASE p \in Items(o)
        <5>1. snapshot[o][p].mode = "finite" /\ snapshot[o][p].free = Free(p)
          BY <2>1, <3>1, <4>4, ReserveEffect DEF Reserve, FreshReads, SameVersion
        <5>2. Free(p) >= Quantity[o][p]
          BY <2>1, <4>4, <5>1, ReserveEffect DEF Enough
        <5>3. reserved'[p] = reserved[p] + Quantity[o][p]
          BY <2>1, <4>4, ReserveEffect
        <5> QED BY <4>2, <4>3, <5>2, <5>3
      <4>5. CASE p \notin Items(o)
        BY <2>1, <4>2, <4>3, <4>5, ReserveEffect
      <4> QED BY <4>4, <4>5
    <3> QED BY <1>2, <2>1, <3>1 DEF Reserve
  <2>2. CASE Accept(o)
    <3>1. mode' = mode /\ raced' = raced
      BY <2>2 DEF Accept
    <3>2. ASSUME NEW p \in Products \ Linked, mode[p] = "finite"
          PROVE  Free(p)' \in Int /\ Free(p)' >= Free(p)
      <4>1. Free(p)' = Free(p) \/ Free(p)' = Free(p) + Quantity[o][p]
        BY <2>2, <3>2, AcceptSums
      <4>2. Quantity[o][p] \in Nat
        BY StockAssumption
      <4> QED BY <1>1, <4>1, <4>2
    <3> QED BY <1>2, <3>1, <3>2
  <2>3. CASE Close(o) \/ Refund(o)
    <3>1. PICK back \in SUBSET Linked : Linked \cap seen[o] \subseteq back /\ Restore(o, back)
      BY <2>3 DEF Close, Refund
    <3>0. tx[o] # "none"
      BY <2>3 DEF Close, Refund
    <3>2. \A p \in Products : Quantity[o][p] \in Nat
      BY StockAssumption
    <3> QED BY <1>1, <1>2, <2>3, <3>0, <3>1, <3>2, RestoreEffect, RestoreSums DEF Close, Refund
  <2>4. CASE Price(o) \/ ReadStock(o) \/ Refuse(o) \/ MerchantCancel(o) \/ Revive(o)
    BY <1>1, <1>2, <2>4 DEF Price, ReadStock, Refuse, MerchantCancel, Revive, Free, BaseStock
  <2>5. CASE \/ BeginAccept(o) \/ BeginClose(o) \/ BeginRefund(o) \/ RollBack(o)
             \/ (\E p \in Products : Miss(o, p) \/ Skip(o, p))
    <3>1. UNCHANGED <<rows, raced>>
      BY <2>5 DEF BeginAccept, BeginClose, BeginRefund, Begin, RollBack, Miss, Skip
    <3> QED BY <1>1, <1>2, <3>1 DEF Free, BaseStock
  <2> QED BY <1>3, <2>1, <2>2, <2>3, <2>4, <2>5 DEF OrderStep
<1>4. ASSUME NEW p \in Products, StoreStep(p) PROVE NoOversell'
  <2>1. CASE EditRead(p)
    BY <1>1, <1>2, <2>1 DEF EditRead, Free, BaseStock
  <2>2. CASE EditWrite(p)
    <3>1. /\ mode' = [mode EXCEPT ![p] = "finite"]
          /\ stock' = [stock EXCEPT ![p] = edit[p].quantity]
          /\ raced' = IF edit[p].quantity < reserved[p] THEN raced \cup {p} ELSE raced \ {p}
          /\ reserved' = reserved
      BY <2>2 DEF EditWrite
    <3>2. \A x \in Products \ Linked : /\ Free(x) = stock[x] - reserved[x]
                                     /\ Free(x)' = stock'[x] - reserved'[x]
      BY DEF Free, BaseStock
    <3>3. /\ mode \in [Products -> Modes] /\ stock \in [Products -> Int]
          /\ reserved \in [Products -> Nat] /\ edit[p].quantity \in Nat
      BY DEF TypeOK
    <3> QED BY <3>1, <3>2, <3>3 DEF NoOversell
  <2>3. ASSUME NEW m \in {"unlimited", "sold_out"}, EditMode(p, m) PROVE NoOversell'
    <3>1. /\ mode' = [mode EXCEPT ![p] = m] /\ stock' = [stock EXCEPT ![p] = 0]
          /\ raced' = raced /\ reserved' = reserved
      BY <2>3 DEF EditMode
    <3>2. \A x \in Products \ Linked : /\ Free(x) = stock[x] - reserved[x]
                                     /\ Free(x)' = stock'[x] - reserved'[x]
      BY DEF Free, BaseStock
    <3>3. mode \in [Products -> Modes] /\ stock \in [Products -> Int]
      BY DEF TypeOK
    <3> QED BY <3>1, <3>2, <3>3 DEF NoOversell
  <2>4. CASE OtherSale(p)
    BY <1>1, <1>2, <2>4 DEF OtherSale, Free, BaseStock
  <2> QED BY <1>4, <2>1, <2>2, <2>3, <2>4 DEF StoreStep
<1>5. CASE UNCHANGED vars
  BY <1>5 DEF vars, NoOversell, Free, BaseStock
<1> QED BY <1>3, <1>4, <1>5 DEF Next

-----------------------------------------------------------------------------
(* The histories *)

(* What a step of an order does to them: its own transaction may end. *)
LEMMA OrderFrame ==
  ASSUME TypeOK, TxOnOrders, NEW o \in Orders, OrderStep(o)
  PROVE  /\ mode' = mode /\ base' = base /\ budget' = budget /\ caught' = caught
         /\ \/ /\ RollBack(o) \/ Accept(o) \/ Close(o) \/ Refund(o)
               /\ \A p \in Products : Unaware(p)' = Unaware(p) \ {o}
            \/ /\ ~(RollBack(o) \/ Accept(o) \/ Close(o) \/ Refund(o))
               /\ \A p \in Products : mode[p] = "finite" => Unaware(p)' = Unaware(p)
<1> USE DEF rows, history
<1>1. CASE RollBack(o) \/ Accept(o) \/ Close(o) \/ Refund(o)
  <2>1. End(o) /\ mode' = mode /\ base' = base /\ budget' = budget /\ caught' = caught
    BY <1>1 DEF RollBack, Accept, Close, Refund, Restore
  <2> QED BY <1>1, <2>1, EndEffect
<1>2. CASE \/ BeginAccept(o) \/ BeginClose(o) \/ BeginRefund(o)
           \/ (\E p \in Products : Miss(o, p) \/ Skip(o, p))
  <2>1. /\ mode' = mode /\ base' = base /\ budget' = budget /\ caught' = caught
        /\ phase' = phase
    BY <1>2 DEF BeginAccept, BeginClose, BeginRefund, Begin, Miss, Skip
  <2>2. tx'[o] # "none"
    BY <1>2 DEF BeginAccept, BeginClose, BeginRefund, Begin, Miss, Skip, TypeOK
  <2>3. ~(RollBack(o) \/ Accept(o) \/ Close(o) \/ Refund(o))
    <3>1. SUFFICES ASSUME End(o) PROVE FALSE
      BY DEF RollBack, Accept, Close, Refund
    <3> QED BY <2>2, <3>1, EndEffect
  <2> QED BY <1>2, <2>1, <2>3, UnawareKept
<1>3. CASE \/ Price(o) \/ ReadStock(o) \/ Reserve(o) \/ Refuse(o)
           \/ MerchantCancel(o) \/ Revive(o)
  <2>1. /\ mode' = mode /\ base' = base /\ budget' = budget /\ caught' = caught
        /\ UNCHANGED txVars
    BY <1>3 DEF Price, ReadStock, Reserve, Refuse, MerchantCancel, Revive
  <2>2. tx[o] = "none"
    BY <1>3 DEF Price, ReadStock, Reserve, Refuse, MerchantCancel, Revive, TxOnOrders, TypeOK
  <2>3. ~(RollBack(o) \/ Accept(o) \/ Close(o) \/ Refund(o))
    BY <2>2 DEF RollBack, Accept, Close, Refund
  <2> QED BY <2>1, <2>3, UnawareKept
<1> QED BY <1>1, <1>2, <1>3 DEF OrderStep

(* What a step of the store does to them: a product that is set starts anew. *)
LEMMA StoreFrame ==
  ASSUME TypeOK, NEW p \in Products, StoreStep(p)
  PROVE  /\ phase' = phase /\ revived' = revived /\ reserved' = reserved /\ sales' = sales
         /\ \A x \in Products : Unaware(x)' = Unaware(x)
         /\ \A x \in Products : x # p =>
              /\ mode'[x] = mode[x] /\ stock'[x] = stock[x] /\ shared'[x] = shared[x]
              /\ base'[x] = base[x] /\ budget'[x] = budget[x] /\ caught'[x] = caught[x]
         /\ \/ /\ base'[p] = stock'[p] + sales[p] /\ caught'[p] = Unaware(p)
               /\ budget'[p] = Free(p)' + Committed(p)
            \/ /\ mode'[p] = mode[p] /\ stock'[p] = stock[p]
               /\ base'[p] = base[p] /\ caught'[p] = caught[p]
               /\ \/ Free(p)' = Free(p) /\ budget'[p] = budget[p]
                  \/ Free(p)' = Free(p) - 1 /\ budget'[p] = budget[p] - 1
<1> USE DEF rows, txVars, history
<1>1. CASE EditRead(p)
  <2>1. UNCHANGED <<rows, phase, txVars, base, budget, caught, revived>>
    BY <1>1 DEF EditRead
  <2> QED BY <2>1 DEF Unaware, Free, BaseStock
<1>2. CASE OtherSale(p)
  <2>1. /\ UNCHANGED <<mode, stock, reserved, sales, phase, txVars, base, caught, revived>>
        /\ p \in Linked /\ shared' = [shared EXCEPT ![p] = @ - 1]
        /\ budget' = [budget EXCEPT ![p] = @ - 1]
    BY <1>2 DEF OtherSale
  <2>2. shared'[p] = shared[p] - 1 /\ budget'[p] = budget[p] - 1
    BY <2>1 DEF TypeOK
  <2>3. shared[p] \in Nat /\ reserved[p] \in Nat
    BY DEF TypeOK
  <2>4. Free(p)' = Free(p) - 1
    BY <2>1, <2>2, <2>3 DEF Free, BaseStock
  <2> QED BY <2>1, <2>2, <2>4 DEF Unaware, TypeOK
<1>3. CASE EditWrite(p) \/ (\E m \in Modes : EditMode(p, m))
  <2>1. /\ UNCHANGED <<reserved, sales, shared, phase, txVars, revived>> /\ Rebase(p)
    BY <1>3 DEF EditWrite, EditMode
  <2>2. \A x \in Products : x # p => mode'[x] = mode[x] /\ stock'[x] = stock[x]
    BY <1>3 DEF EditWrite, EditMode, TypeOK
  <2>3. \A x \in Products : x # p =>
          base'[x] = base[x] /\ budget'[x] = budget[x] /\ caught'[x] = caught[x]
    BY <2>1 DEF Rebase, TypeOK
  <2>4. /\ base'[p] = stock'[p] + sales[p] /\ caught'[p] = Unaware(p)
        /\ budget'[p] = Free(p)' + Committed(p)
    BY <2>1 DEF Rebase, TypeOK, Free, BaseStock
  <2> QED BY <2>1, <2>2, <2>3, <2>4 DEF Unaware
<1> QED BY <1>1, <1>2, <1>3 DEF StoreStep, Modes

(* A transaction that knows of the last setting keeps knowing of it. *)
LEMMA CaughtStep == TypeOK /\ TxOnOrders /\ UnawareCaught /\ [Next]_vars => UnawareCaught'
<1> SUFFICES ASSUME TypeOK, TxOnOrders, UnawareCaught, [Next]_vars PROVE UnawareCaught'
  OBVIOUS
<1>1. ASSUME NEW o \in Orders, OrderStep(o) PROVE UnawareCaught'
  <2>1. mode' = mode /\ caught' = caught
    BY <1>1, OrderFrame
  <2>2. \A p \in Products : mode[p] = "finite" => Unaware(p)' \subseteq Unaware(p)
    BY <1>1, OrderFrame
  <2> QED BY <2>1, <2>2 DEF UnawareCaught
<1>2. ASSUME NEW p \in Products, StoreStep(p) PROVE UnawareCaught'
  <2>1. \A x \in Products : x # p => /\ mode'[x] = mode[x] /\ caught'[x] = caught[x]
                                     /\ Unaware(x)' = Unaware(x)
    BY <1>2, StoreFrame
  <2>2. Unaware(p)' = Unaware(p)
    BY <1>2, StoreFrame
  <2>3. caught'[p] = Unaware(p) \/ (mode'[p] = mode[p] /\ caught'[p] = caught[p])
    BY <1>2, StoreFrame
  <2> QED BY <2>1, <2>2, <2>3 DEF UnawareCaught
<1>3. CASE UNCHANGED vars
  BY <1>3 DEF vars, rows, txVars, history, UnawareCaught, Unaware
<1> QED BY <1>1, <1>2, <1>3 DEF Next

(* Stock and sales count move together, or start anew together. *)
LEMMA SalesStep ==
  TypeOK /\ TxOnOrders /\ UnawareCaught /\ LateSales /\ [Next]_vars => LateSales'
<1> SUFFICES ASSUME TypeOK, TxOnOrders, UnawareCaught, LateSales, [Next]_vars PROVE LateSales'
  OBVIOUS
<1> USE DEF rows, txVars, history
<1>1. \A p \in Products : /\ stock[p] \in Int /\ sales[p] \in Int /\ base[p] \in Int
                          /\ \A o \in Orders : Quantity[o][p] \in Nat
  BY StockAssumption DEF TypeOK
<1>2. ASSUME NEW o \in Orders, OrderStep(o), NEW p \in Products, mode[p] = "finite"
      PROVE  /\ base[p] <= stock'[p] + sales'[p]
             /\ stock'[p] + sales'[p] <= base[p] + Total(Ordered(p), Late(p)')
  <2>1. /\ base[p] <= stock[p] + sales[p]
        /\ stock[p] + sales[p] <= base[p] + Total(Ordered(p), Late(p))
    BY <1>2 DEF LateSales
  <2>2. mode' = mode /\ caught' = caught
    BY <1>2, OrderFrame
  <2>3. CASE RollBack(o) \/ Accept(o) \/ Close(o) \/ Refund(o)
    <3>1. Unaware(p)' = Unaware(p) \ {o}
      BY <1>2, <2>3, OrderFrame
    <3>2. /\ Total(Ordered(p), Late(p)) \in Nat /\ Total(Ordered(p), Late(p)') \in Nat
          /\ o \in Unaware(p) =>
               Total(Ordered(p), Late(p)') = Total(Ordered(p), Late(p)) + Quantity[o][p]
          /\ o \notin Unaware(p) => Total(Ordered(p), Late(p)') = Total(Ordered(p), Late(p))
      BY <1>2, <2>2, <3>1, LateTotals
    <3>3. \/ stock'[p] + sales'[p] = stock[p] + sales[p]
          \/ o \in Unaware(p) /\ stock'[p] + sales'[p] = stock[p] + sales[p] + Quantity[o][p]
      <4>1. CASE RollBack(o)
        BY <4>1 DEF RollBack
      <4>2. CASE Accept(o)
        BY <1>2, <4>2, AcceptSums
      <4>3. CASE Close(o) \/ Refund(o)
        <5>1. PICK back \in SUBSET Linked : Linked \cap seen[o] \subseteq back /\ Restore(o, back)
          BY <4>3 DEF Close, Refund
        <5>2. tx[o] # "none"
          BY <4>3 DEF Close, Refund
        <5> QED BY <1>2, <5>1, <5>2, RestoreSums
      <4> QED BY <2>3, <4>1, <4>2, <4>3
    <3> QED BY <1>1, <2>1, <3>2, <3>3
  <2>4. CASE ~(RollBack(o) \/ Accept(o) \/ Close(o) \/ Refund(o))
    <3>1. Late(p)' = Late(p)
      BY <1>2, <2>2, <2>4, OrderFrame DEF Late
    <3>2. stock' = stock /\ sales' = sales
      BY <1>2, <2>4 DEF OrderStep, Price, ReadStock, Reserve, Refuse, BeginAccept, BeginClose,
                        BeginRefund, Begin, Miss, Skip, MerchantCancel, Revive
    <3> QED BY <2>1, <3>1, <3>2
  <2> QED BY <2>3, <2>4
<1>3. ASSUME NEW o \in Orders, OrderStep(o) PROVE LateSales'
  <2>1. mode' = mode /\ base' = base
    BY <1>3, OrderFrame
  <2>2. \A p \in Products : Ordered(p)' = Ordered(p)
    BY DEF Ordered
  <2> QED BY <1>2, <1>3, <2>1, <2>2 DEF LateSales
<1>4. ASSUME NEW p \in Products, StoreStep(p) PROVE LateSales'
  <2>1. \A x \in Products : Ordered(x)' = Ordered(x) /\ Unaware(x)' = Unaware(x)
    BY <1>4, StoreFrame DEF Ordered
  <2>2. ASSUME NEW x \in Products, mode'[x] = mode[x], stock'[x] = stock[x],
               base'[x] = base[x], caught'[x] = caught[x], mode'[x] = "finite"
        PROVE  /\ base'[x] <= stock'[x] + sales'[x]
               /\ stock'[x] + sales'[x] <= base'[x] + Total(Ordered(x)', Late(x)')
    <3>1. Late(x)' = Late(x) /\ sales' = sales
      BY <1>4, <2>1, <2>2, StoreFrame DEF Late
    <3> QED BY <2>1, <2>2, <3>1 DEF LateSales
  <2>3. ASSUME base'[p] = stock'[p] + sales[p], caught'[p] = Unaware(p)
        PROVE  /\ base'[p] <= stock'[p] + sales'[p]
               /\ stock'[p] + sales'[p] <= base'[p] + Total(Ordered(p)', Late(p)')
    <3>1. Late(p)' = {} /\ sales' = sales
      BY <1>4, <2>1, <2>3, StoreFrame DEF Late
    <3>2. stock'[p] + sales[p] \in Int
      <4>1. TypeOK'
        BY TypeStep
      <4> QED BY <3>1, <4>1 DEF TypeOK
    <3> QED BY <2>3, <3>1, <3>2, TotalEmpty
  <2>4. \A x \in Products : x # p => /\ mode'[x] = mode[x] /\ stock'[x] = stock[x]
                                     /\ base'[x] = base[x] /\ caught'[x] = caught[x]
    BY <1>4, StoreFrame
  <2>5. \/ base'[p] = stock'[p] + sales[p] /\ caught'[p] = Unaware(p)
        \/ mode'[p] = mode[p] /\ stock'[p] = stock[p] /\ base'[p] = base[p] /\ caught'[p] = caught[p]
    BY <1>4, StoreFrame
  <2> QED BY <2>2, <2>3, <2>4, <2>5 DEF LateSales
<1>5. CASE UNCHANGED vars
  BY <1>5 DEF vars, LateSales, Late, Unaware, Ordered
<1> QED BY <1>3, <1>4, <1>5 DEF Next

(* The goods only change hands.  Placing takes an order's goods and makes it *)
(* a holder, giving back does the reverse; accepting and cancelling leave    *)
(* both sides alone, and a revived order becomes a holder for nothing.  An   *)
(* order that takes a product for another ends as one that came too late.    *)
LEMMA GoodsStep ==
  TypeOK /\ TxOnOrders /\ UnawareCaught /\ LateGoods /\ [Next]_vars => LateGoods'
<1> SUFFICES ASSUME TypeOK, TxOnOrders, UnawareCaught, LateGoods, [Next]_vars PROVE LateGoods'
  OBVIOUS
<1> USE DEF rows, txVars, history
<1>1. /\ Holders \in SUBSET Orders /\ revived \in SUBSET Orders
      /\ \A p \in Products : /\ Free(p) \in Int /\ budget[p] \in Int /\ Committed(p) \in Nat
                            /\ Total(Ordered(p), revived) \in Nat
                            /\ \A o \in Orders : Quantity[o][p] \in Nat
  BY OrderedTotals, CommittedIsNat, StockAssumption DEF TypeOK, Free, BaseStock, Holders
<1>2. ASSUME NEW o \in Orders, NEW to, Goto(o, to)
      PROVE  \A x \in Orders : phase'[x] = IF x = o THEN to ELSE phase[x]
  BY <1>2 DEF Goto, TypeOK
<1>3. ASSUME NEW p \in Products, Holders' = Holders PROVE Committed(p)' = Committed(p)
  BY <1>3 DEF Committed, Ordered
(* The goods of one product, and how far the step may move them. *)
<1>4. ASSUME NEW o \in Orders, OrderStep(o), NEW p \in Products, mode[p] = "finite",
             revived' = revived,
             \/ Free(p)' + Committed(p)' = Free(p) + Committed(p)
             \/ /\ o \in Unaware(p) /\ (RollBack(o) \/ Accept(o) \/ Close(o) \/ Refund(o))
                /\ \/ Free(p)' + Committed(p)' = Free(p) + Committed(p) + Quantity[o][p]
                   \/ Free(p)' + Committed(p)' = Free(p) + Committed(p) - Quantity[o][p]
      PROVE  /\ budget[p] - Total(Ordered(p), Late(p)') <= Free(p)' + Committed(p)'
             /\ Free(p)' + Committed(p)' <=
                  budget[p] + Total(Ordered(p), Late(p)') + Total(Ordered(p), revived')
  <2>1. /\ budget[p] - Total(Ordered(p), Late(p)) <= Free(p) + Committed(p)
        /\ Free(p) + Committed(p) <=
             budget[p] + Total(Ordered(p), Late(p)) + Total(Ordered(p), revived)
    BY <1>4 DEF LateGoods
  <2>2. caught' = caught
    BY <1>4, OrderFrame
  <2>3. CASE RollBack(o) \/ Accept(o) \/ Close(o) \/ Refund(o)
    <3>1. Unaware(p)' = Unaware(p) \ {o}
      BY <1>4, <2>3, OrderFrame
    <3>2. /\ Total(Ordered(p), Late(p)) \in Nat /\ Total(Ordered(p), Late(p)') \in Nat
          /\ o \in Unaware(p) =>
               Total(Ordered(p), Late(p)') = Total(Ordered(p), Late(p)) + Quantity[o][p]
          /\ o \notin Unaware(p) => Total(Ordered(p), Late(p)') = Total(Ordered(p), Late(p))
      BY <1>4, <2>2, <3>1, LateTotals
    <3> QED BY <1>1, <1>4, <2>1, <3>2
  <2>4. CASE ~(RollBack(o) \/ Accept(o) \/ Close(o) \/ Refund(o))
    <3>1. Late(p)' = Late(p)
      BY <1>4, <2>2, <2>4, OrderFrame DEF Late
    <3> QED BY <1>4, <2>1, <2>4, <3>1
  <2> QED BY <2>3, <2>4
<1>5. ASSUME NEW o \in Orders, OrderStep(o) PROVE LateGoods'
  <2>1. mode' = mode /\ budget' = budget /\ \A p \in Products : Ordered(p)' = Ordered(p)
    BY <1>5, OrderFrame DEF Ordered
  <2>2. ASSUME revived' = revived,
               \A p \in Products : mode[p] = "finite" =>
                 \/ Free(p)' + Committed(p)' = Free(p) + Committed(p)
                 \/ /\ o \in Unaware(p) /\ (RollBack(o) \/ Accept(o) \/ Close(o) \/ Refund(o))
                    /\ \/ Free(p)' + Committed(p)' = Free(p) + Committed(p) + Quantity[o][p]
                       \/ Free(p)' + Committed(p)' = Free(p) + Committed(p) - Quantity[o][p]
        PROVE  LateGoods'
    BY <1>4, <1>5, <2>1, <2>2 DEF LateGoods
  <2>3. CASE Reserve(o)
    <3>1. revived' = revived /\ stock' = stock /\ shared' = shared
      BY <2>3 DEF Reserve
    <3>2. o \in Orders \ Holders /\ Holders' = Holders \cup {o}
      BY <1>2, <2>3 DEF Reserve, Holders
    <3>3. \A p \in Products : Committed(p)' = Committed(p) + Quantity[o][p]
      BY <1>1, <3>2, OrderedTotals DEF Committed, Ordered
    <3>4. \A p \in Products : Free(p)' = Free(p) - Quantity[o][p]
      <4>1. \A p \in Products : /\ Free(p) = BaseStock(p) - reserved[p]
                                /\ Free(p)' = BaseStock(p) - reserved'[p]
                                /\ BaseStock(p) \in Int /\ reserved[p] \in Nat
        BY <3>1 DEF Free, BaseStock, TypeOK
      <4>2. \A p \in Products : reserved'[p] = reserved[p] + Quantity[o][p]
        BY <1>1, <2>3, ReserveEffect DEF Items, TypeOK
      <4> QED BY <1>1, <4>1, <4>2
    <3>5. \A p \in Products : Free(p)' + Committed(p)' = Free(p) + Committed(p)
      BY <1>1, <3>3, <3>4
    <3> QED BY <2>2, <3>1, <3>5
  <2>4. CASE Close(o) \/ Refund(o)
    <3>1. PICK back \in SUBSET Linked : Linked \cap seen[o] \subseteq back /\ Restore(o, back)
      BY <2>4 DEF Close, Refund
    <3>2. revived' = revived /\ tx[o] # "none"
      BY <2>4 DEF Close, Refund
    <3>3. o \in Holders /\ Holders' = Holders \ {o}
      BY <1>2, <2>4 DEF Close, Refund, Holders, TxOnOrders
    <3>4. \A p \in Products : Committed(p)' = Committed(p) - Quantity[o][p]
      BY <1>1, <3>3, OrderedTotals DEF Committed, Ordered
    <3>5. \A p \in Products : mode[p] = "finite" =>
            \/ Free(p)' = Free(p) + Quantity[o][p]
            \/ o \in Unaware(p) /\ Free(p)' = Free(p)
      BY <3>1, <3>2, RestoreSums
    <3>6. \A p \in Products : mode[p] = "finite" =>
            \/ Free(p)' + Committed(p)' = Free(p) + Committed(p)
            \/ /\ o \in Unaware(p)
               /\ Free(p)' + Committed(p)' = Free(p) + Committed(p) - Quantity[o][p]
      BY <1>1, <3>4, <3>5
    <3> QED BY <2>2, <2>4, <3>2, <3>6
  <2>5. CASE Accept(o)
    <3>1. revived' = revived
      BY <2>5 DEF Accept
    <3>2. Holders' = Holders
      BY <1>2, <2>5 DEF Accept, Holders, TxOnOrders
    <3>3. \A p \in Products : mode[p] = "finite" =>
            \/ Free(p)' = Free(p)
            \/ o \in Unaware(p) /\ Free(p)' = Free(p) + Quantity[o][p]
      BY <2>5, AcceptSums
    <3>4. \A p \in Products : mode[p] = "finite" =>
            \/ Free(p)' + Committed(p)' = Free(p) + Committed(p)
            \/ /\ o \in Unaware(p)
               /\ Free(p)' + Committed(p)' = Free(p) + Committed(p) + Quantity[o][p]
      BY <1>1, <1>3, <3>2, <3>3
    <3> QED BY <2>2, <2>5, <3>1, <3>4
  <2>6. CASE Revive(o)
    <3>1. /\ UNCHANGED <<rows, txVars>>
          /\ o \in Orders \ revived /\ revived' = revived \cup {o}
      BY <2>6 DEF Revive
    <3>2. Holders' = Holders \cup {o}
      BY <1>2, <2>6 DEF Revive, Holders
    <3>3. \A p \in Products :
            Committed(p)' = Committed(p) \/ Committed(p)' = Committed(p) + Quantity[o][p]
      <4>1. CASE o \in Holders
        <5>1. Holders' = Holders
          BY <3>2, <4>1
        <5> QED BY <5>1 DEF Committed, Ordered
      <4>2. CASE o \in Orders \ Holders
        BY <1>1, <3>2, <4>2, OrderedTotals DEF Committed, Ordered
      <4> QED BY <4>1, <4>2
    <3>4. \A p \in Products :
            Total(Ordered(p), revived') = Total(Ordered(p), revived) + Quantity[o][p]
      BY <1>1, <3>1, OrderedTotals
    <3>5. \A p \in Products : Free(p)' = Free(p) /\ Late(p)' = Late(p)
      <4>1. caught' = caught
        BY <1>5, OrderFrame
      <4> QED BY <3>1, <4>1 DEF Free, BaseStock, Late, Unaware
    <3>6. ASSUME NEW p \in Products, mode[p] = "finite"
          PROVE  /\ budget[p] - Total(Ordered(p), Late(p)') <= Free(p)' + Committed(p)'
                 /\ Free(p)' + Committed(p)' <=
                      budget[p] + Total(Ordered(p), Late(p)') + Total(Ordered(p), revived')
      <4>1. /\ budget[p] - Total(Ordered(p), Late(p)) <= Free(p) + Committed(p)
            /\ Free(p) + Committed(p) <=
                 budget[p] + Total(Ordered(p), Late(p)) + Total(Ordered(p), revived)
        BY <3>6 DEF LateGoods
      <4>2. Total(Ordered(p), Late(p)) \in Nat
        <5>1. Late(p) \in SUBSET Orders
          BY DEF Late, TypeOK
        <5> QED BY <5>1, OrderedTotals
      <4> QED BY <1>1, <3>3, <3>4, <3>5, <4>1, <4>2
    <3> QED BY <2>1, <3>6 DEF LateGoods
  <2>7. CASE \/ Price(o) \/ ReadStock(o) \/ Refuse(o) \/ MerchantCancel(o)
             \/ BeginAccept(o) \/ BeginClose(o) \/ BeginRefund(o) \/ RollBack(o)
             \/ (\E p \in Products : Miss(o, p) \/ Skip(o, p))
    <3>1. UNCHANGED <<rows, revived>>
      BY <2>7 DEF Price, ReadStock, Refuse, MerchantCancel, BeginAccept, BeginClose,
                  BeginRefund, Begin, RollBack, Miss, Skip
    <3>2. Holders' = Holders
      <4>1. CASE Price(o) \/ ReadStock(o) \/ Refuse(o) \/ MerchantCancel(o)
        BY <1>2, <4>1 DEF Price, ReadStock, Refuse, MerchantCancel, MayBeUnpaid, Holders
      <4>2. CASE phase' = phase
        BY <4>2 DEF Holders
      <4> QED BY <2>7, <4>1, <4>2
          DEF BeginAccept, BeginClose, BeginRefund, Begin, RollBack, Miss, Skip
    <3>3. \A p \in Products : Free(p)' + Committed(p)' = Free(p) + Committed(p)
      BY <1>3, <3>1, <3>2 DEF Free, BaseStock
    <3> QED BY <2>2, <3>1, <3>3
  <2> QED BY <1>5, <2>3, <2>4, <2>5, <2>6, <2>7 DEF OrderStep
<1>6. ASSUME NEW p \in Products, StoreStep(p) PROVE LateGoods'
  <2>1. /\ revived' = revived /\ Holders' = Holders
        /\ \A x \in Products : Unaware(x)' = Unaware(x) /\ Ordered(x)' = Ordered(x)
    BY <1>6, StoreFrame DEF Holders, Ordered
  <2>2. \A x \in Products : Committed(x)' = Committed(x)
    BY <1>3, <2>1
  <2>3. ASSUME NEW x \in Products, mode'[x] = mode[x], caught'[x] = caught[x], mode'[x] = "finite",
               \/ Free(x)' = Free(x) /\ budget'[x] = budget[x]
               \/ Free(x)' = Free(x) - 1 /\ budget'[x] = budget[x] - 1
        PROVE  /\ budget'[x] - Total(Ordered(x)', Late(x)') <= Free(x)' + Committed(x)'
               /\ Free(x)' + Committed(x)' <=
                    budget'[x] + Total(Ordered(x)', Late(x)') + Total(Ordered(x)', revived')
    <3>1. Late(x)' = Late(x) /\ Total(Ordered(x), Late(x)) \in Nat
      <4>1. Late(x)' = Late(x) /\ Late(x) \in SUBSET Orders
        BY <2>1, <2>3 DEF Late, TypeOK
      <4> QED BY <4>1, OrderedTotals
    <3>2. /\ budget[x] - Total(Ordered(x), Late(x)) <= Free(x) + Committed(x)
          /\ Free(x) + Committed(x) <=
               budget[x] + Total(Ordered(x), Late(x)) + Total(Ordered(x), revived)
      BY <2>3 DEF LateGoods
    <3> QED BY <1>1, <2>1, <2>2, <2>3, <3>1, <3>2
  <2>4. ASSUME budget'[p] = Free(p)' + Committed(p), caught'[p] = Unaware(p)
        PROVE  /\ budget'[p] - Total(Ordered(p)', Late(p)') <= Free(p)' + Committed(p)'
               /\ Free(p)' + Committed(p)' <=
                    budget'[p] + Total(Ordered(p)', Late(p)') + Total(Ordered(p)', revived')
    <3>1. Late(p)' = {}
      BY <2>1, <2>4 DEF Late
    <3>2. Free(p)' \in Int
      <4>1. TypeOK'
        BY TypeStep
      <4> QED BY <4>1 DEF TypeOK, Free, BaseStock
    <3> QED BY <1>1, <2>1, <2>2, <2>4, <3>1, <3>2, TotalEmpty
  <2>5. \A x \in Products : x # p =>
          /\ mode'[x] = mode[x] /\ caught'[x] = caught[x]
          /\ Free(x)' = Free(x) /\ budget'[x] = budget[x]
    BY <1>6, StoreFrame DEF Free, BaseStock
  <2>6. \/ budget'[p] = Free(p)' + Committed(p) /\ caught'[p] = Unaware(p)
        \/ /\ mode'[p] = mode[p] /\ caught'[p] = caught[p]
           /\ \/ Free(p)' = Free(p) /\ budget'[p] = budget[p]
              \/ Free(p)' = Free(p) - 1 /\ budget'[p] = budget[p] - 1
    BY <1>6, StoreFrame
  <2> QED BY <2>3, <2>4, <2>5, <2>6 DEF LateGoods
<1>7. CASE UNCHANGED vars
  BY <1>7 DEF vars, LateGoods, Late, Unaware, Free, BaseStock, Committed, Holders, Ordered
<1> QED BY <1>5, <1>6, <1>7 DEF Next

-----------------------------------------------------------------------------
(* A store without orders satisfies the invariant. *)
LEMMA InitIInv == Init => IInv
<1> SUFFICES ASSUME Init PROVE IInv
  OBVIOUS
<1>1. /\ mode \in [Products -> Modes] /\ stock \in [Products -> Nat]
      /\ \A p \in Products : stock[p] = IF mode[p] = "finite" THEN Initial[p] ELSE 0
  BY StockAssumption DEF Init, Modes
<1>2. snapshot \in [Orders -> [Products -> [version : Nat, mode : Modes, free : Int]]]
  BY DEF Init, NoSnapshot, Modes
<1>3. TypeOK
  <2>1. budget \in [Products -> Int] /\ base \in [Products -> Int]
    BY <1>1, StockAssumption DEF Init, BaseStock
  <2> QED BY <1>1, <1>2, <2>1, StockAssumption DEF Init, TypeOK, Phases, NoEdit
<1>4. FreshReads /\ TxOnOrders
  BY DEF Init, FreshReads, NoSnapshot, TxOnOrders
<1>5. NoOversell
  BY <1>1 DEF Init, NoOversell, Free, BaseStock
<1>6. \A p \in Products : Unaware(p) = {} /\ Late(p) = {}
  BY DEF Init, Unaware, Late
<1>7. UnawareCaught
  BY <1>6 DEF UnawareCaught
<1>8. LateSales
  <2>1. \A p \in Products : /\ base[p] = stock[p] /\ sales[p] = 0 /\ stock[p] \in Nat
                            /\ Total(Ordered(p), Late(p)) = 0
    BY <1>1, <1>6, TotalEmpty DEF Init
  <2> QED BY <2>1 DEF LateSales
<1>9. LateGoods
  <2>1. Holders = {} /\ revived = {}
    BY DEF Init, Holders
  <2>2. \A p \in Products : Committed(p) = 0 /\ Total(Ordered(p), revived) = 0
    BY <2>1, TotalEmpty DEF Committed
  <2>3. \A p \in Products : Free(p) = budget[p] /\ budget[p] \in Int
    BY <1>1, StockAssumption DEF Init, Free, BaseStock
  <2> QED BY <1>6, <2>2, <2>3, TotalEmpty DEF LateGoods
<1> QED BY <1>3, <1>4, <1>5, <1>7, <1>8, <1>9 DEF IInv

(* Whatever the sizes of the orders and the interleaving of their            *)
(* transactions, edits and late payments, the invariant holds, although an   *)
(* acceptance and a close decide with modes they read without a lock.        *)
THEOREM Invariance == Spec => []IInv
<1>1. Init => IInv
  BY InitIInv
<1>2. IInv /\ [Next]_vars => IInv'
  BY TypeStep, FreshStep, TxStep, OversellStep, CaughtStep, SalesStep, GoodsStep DEF IInv
<1> QED BY <1>1, <1>2, PTL DEF Spec

(* Reserved, shared and version columns never become negative: releasing and *)
(* accepting look before they subtract.                                      *)
THEOREM TypeCorrect == Spec => []TypeOK
<1>1. IInv => TypeOK
  BY DEF IInv
<1> QED BY <1>1, Invariance, PTL

(* No product counted by its own row is sold twice, although releases and    *)
(* acceptances do not know whose reservation they take.                      *)
THEOREM NeverOversold == Spec => []NoOversell
<1>1. IInv => NoOversell
  BY DEF IInv
<1> QED BY <1>1, Invariance, PTL

(* The orders that came too late are among those caught: no less goods. *)
LEMMA LateBound ==
  ASSUME TypeOK, NEW p \in Products
  PROVE  /\ Total(Ordered(p), Late(p)) \in Nat /\ Total(Ordered(p), caught[p]) \in Nat
         /\ Total(Ordered(p), Late(p)) <= Total(Ordered(p), caught[p])
<1>1. caught[p] \in SUBSET Orders /\ Late(p) \in SUBSET caught[p]
  BY DEF TypeOK, Late
<1> QED BY <1>1, OrderedGrow

(* The sales count of a finite product is what left its stock, but for the   *)
(* orders whose open transactions its last setting caught.                   *)
THEOREM SalesAlwaysMatch == Spec => []SalesMatchStock
<1>1. IInv => SalesMatchStock
  <2> SUFFICES ASSUME IInv, NEW p \in Products, mode[p] = "finite"
               PROVE  /\ base[p] <= stock[p] + sales[p]
                      /\ stock[p] + sales[p] <= base[p] + Total(Ordered(p), caught[p])
    BY DEF SalesMatchStock
  <2>1. /\ base[p] <= stock[p] + sales[p]
        /\ stock[p] + sales[p] <= base[p] + Total(Ordered(p), Late(p))
    BY DEF IInv, LateSales
  <2>2. base[p] \in Int /\ stock[p] \in Int /\ sales[p] \in Int
    BY DEF IInv, TypeOK
  <2> QED BY <2>1, <2>2, LateBound DEF IInv
<1> QED BY <1>1, Invariance, PTL

(* What the invariant says of one product's goods. *)
LEMMA GoodsBound ==
  ASSUME IInv, NEW p \in Products, mode[p] = "finite"
  PROVE  /\ Free(p) \in Int /\ budget[p] \in Int /\ Committed(p) \in Nat
         /\ Total(Ordered(p), caught[p]) \in Nat /\ Total(Ordered(p), revived) \in Nat
         /\ budget[p] - Total(Ordered(p), caught[p]) <= Free(p) + Committed(p)
         /\ Free(p) + Committed(p) <=
              budget[p] + Total(Ordered(p), caught[p]) + Total(Ordered(p), revived)
<1>1. /\ budget[p] - Total(Ordered(p), Late(p)) <= Free(p) + Committed(p)
      /\ Free(p) + Committed(p) <=
           budget[p] + Total(Ordered(p), Late(p)) + Total(Ordered(p), revived)
  BY DEF IInv, LateGoods
<1>2. /\ Total(Ordered(p), Late(p)) \in Nat /\ Total(Ordered(p), caught[p]) \in Nat
      /\ Total(Ordered(p), Late(p)) <= Total(Ordered(p), caught[p])
  BY LateBound DEF IInv
<1>3. Free(p) \in Int /\ budget[p] \in Int
  BY DEF IInv, TypeOK, Free, BaseStock
<1>4. Committed(p) \in Nat /\ Total(Ordered(p), revived) \in Nat
  <2>1. revived \in SUBSET Orders
    BY DEF IInv, TypeOK
  <2> QED BY <2>1, CommittedIsNat, OrderedTotals
<1> QED BY <1>1, <1>2, <1>3, <1>4

(* No path of a release or an acceptance creates or loses goods, however     *)
(* many orders share a product: what is free and what the orders hold comes  *)
(* to what there was, but for the orders a late callback revived and those   *)
(* the last setting of the stock caught on their way.                        *)
THEOREM GoodsAlwaysAddUp == Spec => []GoodsAddUp
<1>1. IInv => GoodsAddUp
  BY GoodsBound DEF GoodsAddUp
<1> QED BY <1>1, Invariance, PTL

(* The orders of a product counted by its own row never hold more goods than *)
(* there were when its stock was set, however many place, accept, close and  *)
(* refund at once.  A late callback adds at most the order it brings back,   *)
(* an order caught by the setting at most itself, and only an edit that lost *)
(* its race is exempt.                                                       *)
THEOREM OrdersFitTheStock ==
  Spec => [](\A p \in Products \ Linked :
               mode[p] = "finite" /\ p \notin raced =>
                 Committed(p) <= budget[p] + Total(Ordered(p), caught[p])
                                           + Total(Ordered(p), revived))
<1>1. ASSUME IInv, NEW p \in Products \ Linked, mode[p] = "finite", p \notin raced
      PROVE  Committed(p) <= budget[p] + Total(Ordered(p), caught[p])
                                       + Total(Ordered(p), revived)
  <2>1. Free(p) >= 0
    BY <1>1 DEF IInv, NoOversell
  <2> QED BY <1>1, <2>1, GoodsBound
<1>2. IInv => \A p \in Products \ Linked :
                mode[p] = "finite" /\ p \notin raced =>
                  Committed(p) <= budget[p] + Total(Ordered(p), caught[p])
                                            + Total(Ordered(p), revived)
  BY <1>1
<1> QED BY <1>2, Invariance, PTL

-----------------------------------------------------------------------------
(* The refinement.  FreeGoods is the number the promise keeps for a product, *)
(* Mistaken the orders that may get it wrong.                                *)
FreeGoods == [p \in Products |-> IF mode[p] = "finite" THEN Free(p) ELSE 0]
Mistaken == [p \in Products |-> IF mode[p] = "finite" THEN Unaware(p) ELSE {}]

(* An empty store is one of the promise. *)
LEMMA PromiseInit == Init => Promise!Init
<1> SUFFICES ASSUME Init PROVE Promise!Init
  OBVIOUS
<1>1. FreeGoods \in [Products -> Nat]
  BY StockAssumption DEF Init, FreeGoods, Free, BaseStock
<1>2. Finite \subseteq Products /\ Holders = {} /\ \A p \in Products : Unaware(p) = {}
  BY DEF Init, Finite, Holders, Unaware
<1> QED BY <1>1, <1>2 DEF Promise!Init, FreeGoods, Holders

(* Steps that leave the free goods, the modes, the holders and the orders on *)
(* their way alone stutter.                                                  *)
LEMMA Stutters ==
  ASSUME mode' = mode, Holders' = Holders,
         \A p \in Products : mode[p] = "finite" => Free(p)' = Free(p) /\ Unaware(p)' = Unaware(p)
  PROVE  UNCHANGED Promise!vars
<1>1. Finite' = Finite
  BY DEF Finite
<1>2. FreeGoods' = FreeGoods /\ Mistaken' = Mistaken
  BY DEF FreeGoods, Mistaken
<1> QED BY <1>1, <1>2 DEF Promise!vars, FreeGoods, Mistaken, Holders

(* Setting one product is a reset. *)
LEMMA Resets ==
  ASSUME TypeOK, NEW p \in Products, phase' = phase,
         \A x \in Products : Unaware(x)' = Unaware(x),
         \A x \in Products : x # p => mode'[x] = mode[x] /\ Free(x)' = Free(x)
  PROVE  Promise!Next
<1>1. Finite' \in {Finite \cup {p}, Finite \ {p}}
  <2>1. CASE mode'[p] = "finite"
    BY <2>1 DEF Finite
  <2>2. CASE mode'[p] # "finite"
    BY <2>2 DEF Finite
  <2> QED BY <2>1, <2>2
<1>2. \A x \in Products \ {p} : FreeGoods'[x] = FreeGoods[x] /\ Mistaken'[x] = Mistaken[x]
  BY DEF FreeGoods, Mistaken
<1>3. Holders' = Holders
  BY DEF Holders
<1>4. Mistaken'[p] \subseteq Orders
  BY DEF Mistaken, Unaware
<1> QED BY <1>1, <1>2, <1>3, <1>4 DEF Promise!Next, Promise!Reset, FreeGoods, Mistaken, Holders

(* An order that is through is mistaken about nothing any more. *)
LEMMA IsThrough ==
  ASSUME NEW o \in Orders, mode' = mode, \A p \in Products : Unaware(p)' = Unaware(p) \ {o}
  PROVE  /\ Mistaken' = [p \in Products |-> Mistaken[p] \ {o}]
         /\ Finite' = Finite
         /\ \A p \in Products : p \in Finite /\ o \in Mistaken[p] <=>
                                  mode[p] = "finite" /\ o \in Unaware(p)
<1>1. \A p \in Products : Mistaken'[p] = Mistaken[p] \ {o}
  BY DEF Mistaken
<1> QED BY <1>1 DEF Mistaken, Finite

(* Every step of the rows is a step of the promise, or a stutter. *)
LEMMA PromiseStep == IInv /\ [Next]_vars => [Promise!Next]_(Promise!vars)
<1> SUFFICES ASSUME TypeOK, FreshReads, TxOnOrders, [Next]_vars
             PROVE  [Promise!Next]_(Promise!vars)
  BY DEF IInv
<1> USE DEF rows, txVars, history
<1>0. /\ phase \in [Orders -> Phases]
      /\ \A o \in Orders, p \in Products : Quantity[o][p] \in Nat
      /\ \A p \in Products : Free(p) \in Int
  BY StockAssumption DEF TypeOK, Free, BaseStock
<1>1. ASSUME NEW o \in Orders, OrderStep(o) PROVE [Promise!Next]_(Promise!vars)
  <2>1. CASE Reserve(o)
    <3>1. /\ mode' = mode /\ stock' = stock /\ shared' = shared /\ UNCHANGED txVars
          /\ phase' = [phase EXCEPT ![o] = "placed"]
      BY <2>1 DEF Reserve, Goto
    <3>2. \A p \in Products : Free(p)' = Free(p) - Quantity[o][p]
      <4>1. \A p \in Products : /\ Free(p) = BaseStock(p) - reserved[p]
                                /\ Free(p)' = BaseStock(p) - reserved'[p]
                                /\ BaseStock(p) \in Int /\ reserved[p] \in Nat
        BY <3>1 DEF Free, BaseStock, TypeOK
      <4>2. \A p \in Products : reserved'[p] = reserved[p] + Quantity[o][p]
        BY <1>0, <2>1, ReserveEffect DEF Items, TypeOK
      <4> QED BY <1>0, <4>1, <4>2
    <3>3. /\ o \notin Holders /\ Holders' = Holders \cup {o} /\ Finite' = Finite
          /\ Mistaken' = Mistaken
      BY <1>0, <2>1, <3>1 DEF Reserve, Holders, Finite, Mistaken, Unaware
    <3>4. ASSUME NEW p \in Finite \ Linked, Quantity[o][p] > 0
          PROVE  FreeGoods[p] >= Quantity[o][p]
      <4>1. p \in Items(o) /\ mode[p] = "finite" /\ FreeGoods[p] = Free(p)
        BY <3>4 DEF Items, Finite, FreeGoods
      <4>2. snapshot[o][p].mode = "finite" /\ snapshot[o][p].free = Free(p)
        BY <2>1, <3>4, <4>1, ReserveEffect DEF Reserve, FreshReads, SameVersion, Finite
      <4> QED BY <2>1, <4>1, <4>2, ReserveEffect DEF Enough, Items
    <3>5. FreeGoods' = [p \in Products |-> IF p \in Finite THEN FreeGoods[p] + (-1) * Quantity[o][p]
                                           ELSE FreeGoods[p]]
      BY <1>0, <3>1, <3>2 DEF FreeGoods, Finite
    <3>6. Promise!Take(o)
      BY <3>3, <3>4, <3>5 DEF Promise!Take, Promise!FreeAfter, FreeGoods, Mistaken, Holders
    <3> QED BY <3>6 DEF Promise!Next
  <2>2. CASE Accept(o) \/ RollBack(o)
    <3>1. /\ mode' = mode /\ \A p \in Products : Unaware(p)' = Unaware(p) \ {o}
      BY <1>1, <2>2, OrderFrame
    <3>2. Holders' = Holders
      BY <1>0, <2>2 DEF Accept, RollBack, Goto, Holders, TxOnOrders
    <3>3. \A p \in Products : mode[p] = "finite" =>
            \/ Free(p)' = Free(p)
            \/ o \in Unaware(p) /\ Free(p)' = Free(p) + Quantity[o][p]
      <4>1. CASE Accept(o)
        BY <4>1, AcceptSums
      <4>2. CASE RollBack(o)
        BY <4>2 DEF RollBack, Free, BaseStock
      <4> QED BY <2>2, <4>1, <4>2
    <3> DEFINE wrong == {p \in Finite : o \in Unaware(p) /\ Free(p)' # Free(p)}
    <3>4. wrong \in SUBSET {p \in Finite : o \in Mistaken[p]}
      BY <3>1, IsThrough DEF Finite
    <3>5. FreeGoods' = [p \in Products |-> IF p \in wrong THEN FreeGoods[p] + 1 * Quantity[o][p]
                                           ELSE FreeGoods[p]]
      BY <1>0, <3>1, <3>3 DEF FreeGoods, Finite
    <3> HIDE DEF wrong
    <3>6. Promise!Keep(o)
      BY <3>1, <3>2, <3>4, <3>5, IsThrough
      DEF Promise!Keep, Promise!MayMistake, Promise!Through, Promise!FreeAfter,
          FreeGoods, Mistaken, Holders
    <3> QED BY <3>6 DEF Promise!Next
  <2>3. CASE Close(o) \/ Refund(o)
    <3>1. PICK back \in SUBSET Linked : Linked \cap seen[o] \subseteq back /\ Restore(o, back)
      BY <2>3 DEF Close, Refund
    <3>2. /\ mode' = mode /\ \A p \in Products : Unaware(p)' = Unaware(p) \ {o}
      BY <1>1, <2>3, OrderFrame
    <3>3. o \in Holders /\ Holders' = Holders \ {o} /\ tx[o] # "none"
      BY <1>0, <2>3 DEF Close, Refund, Goto, Holders, TxOnOrders
    <3>4. \A p \in Products : mode[p] = "finite" =>
            \/ Free(p)' = Free(p) + Quantity[o][p]
            \/ o \in Unaware(p) /\ Free(p)' = Free(p)
      BY <3>1, <3>3, RestoreSums
    <3> DEFINE wrong == {p \in Finite : o \in Unaware(p) /\ Free(p)' = Free(p)}
    <3>5. wrong \in SUBSET {p \in Finite : o \in Mistaken[p]}
      BY <3>2, IsThrough DEF Finite
    <3>6. FreeGoods' = [p \in Products |-> IF p \in Finite \ wrong
                                           THEN FreeGoods[p] + 1 * Quantity[o][p]
                                           ELSE FreeGoods[p]]
      BY <1>0, <3>2, <3>4 DEF FreeGoods, Finite
    <3> HIDE DEF wrong
    <3>7. Promise!GiveBack(o)
      BY <3>2, <3>3, <3>5, <3>6, IsThrough
      DEF Promise!GiveBack, Promise!MayMistake, Promise!Through, Promise!FreeAfter,
          FreeGoods, Mistaken, Holders
    <3> QED BY <3>7 DEF Promise!Next
  <2>4. CASE Revive(o)
    <3>1. /\ UNCHANGED <<rows, txVars>> /\ phase[o] \in {"accepted", "closed", "refunded", "lost"}
          /\ phase' = [phase EXCEPT ![o] = "placed"]
      BY <2>4 DEF Revive, Goto
    <3>2. Holders' = Holders \cup {o}
      BY <1>0, <3>1 DEF Holders
    <3>3. mode' = mode /\ \A p \in Products : Free(p)' = Free(p) /\ Unaware(p)' = Unaware(p)
      BY <3>1 DEF Free, BaseStock, Unaware
    <3>4. CASE o \in Holders
      <4>1. Holders' = Holders
        BY <3>2, <3>4
      <4> QED BY <3>3, <4>1, Stutters
    <3>5. CASE o \notin Holders
      <4>1. Finite' = Finite /\ FreeGoods' = FreeGoods /\ Mistaken' = Mistaken
        BY <3>3 DEF Finite, FreeGoods, Mistaken
      <4> QED BY <3>2, <3>5, <4>1
          DEF Promise!Next, Promise!Revive, FreeGoods, Mistaken, Holders
    <3> QED BY <3>4, <3>5
  <2>5. CASE \/ Price(o) \/ ReadStock(o) \/ Refuse(o) \/ MerchantCancel(o)
             \/ BeginAccept(o) \/ BeginClose(o) \/ BeginRefund(o)
             \/ (\E p \in Products : Miss(o, p) \/ Skip(o, p))
    <3>1. UNCHANGED rows
      BY <2>5 DEF Price, ReadStock, Refuse, MerchantCancel, BeginAccept, BeginClose,
                  BeginRefund, Begin, Miss, Skip
    <3>2. Holders' = Holders
      <4>1. CASE Price(o) \/ ReadStock(o) \/ Refuse(o) \/ MerchantCancel(o)
        BY <1>0, <4>1 DEF Price, ReadStock, Refuse, MerchantCancel, MayBeUnpaid, Goto, Holders
      <4>2. CASE phase' = phase
        BY <4>2 DEF Holders
      <4> QED BY <2>5, <4>1, <4>2 DEF BeginAccept, BeginClose, BeginRefund, Begin, Miss, Skip
    <3>3. \A p \in Products : mode[p] = "finite" => Unaware(p)' = Unaware(p)
      <4>1. \/ BeginAccept(o) \/ BeginClose(o) \/ BeginRefund(o)
            \/ (\E p \in Products : Miss(o, p) \/ Skip(o, p))
            \/ UNCHANGED txVars
        BY <2>5 DEF Price, ReadStock, Refuse, MerchantCancel
      <4> QED BY <4>1, UnawareKept
    <3>4. \A p \in Products : Free(p)' = Free(p)
      BY <3>1 DEF Free, BaseStock
    <3> QED BY <3>1, <3>2, <3>3, <3>4, Stutters
  <2> QED BY <1>1, <2>1, <2>2, <2>3, <2>4, <2>5 DEF OrderStep
<1>2. ASSUME NEW p \in Products, StoreStep(p) PROVE [Promise!Next]_(Promise!vars)
  <2>1. /\ phase' = phase /\ \A x \in Products : Unaware(x)' = Unaware(x)
        /\ \A x \in Products : x # p => mode'[x] = mode[x] /\ Free(x)' = Free(x)
    BY <1>2, StoreFrame DEF Free, BaseStock
  <2> QED BY <2>1, Resets
<1>3. CASE UNCHANGED vars
  <2>1. /\ Holders' = Holders /\ mode' = mode
        /\ \A x \in Products : Free(x)' = Free(x) /\ Unaware(x)' = Unaware(x)
    BY <1>3 DEF vars, Holders, Free, BaseStock, Unaware
  <2> QED BY <2>1, Stutters
<1> QED BY <1>1, <1>2, <1>3 DEF Next

(* Two counters, versions and a release that guesses come to one number of   *)
(* free goods per product, which only an order caught by the setting of the  *)
(* stock may get wrong: the rows refine ScanStockPromise.                    *)
THEOREM Refinement == Spec => KeepsPromise
<1>1. Init => Promise!Init
  BY PromiseInit
<1>2. IInv /\ [Next]_vars => [Promise!Next]_(Promise!vars)
  BY PromiseStep
<1> QED BY <1>1, <1>2, Invariance, PTL DEF Spec, KeepsPromise, Promise!Spec
=============================================================================
