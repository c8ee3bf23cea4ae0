-------------------------- MODULE ScanStockPromise --------------------------
(***************************************************************************)
(* What reserving promises: behind the two counters of every counted menu  *)
(* product (stock and reserved), their versions and the two paths of a     *)
(* release, there is one number of free goods.  An order takes its goods   *)
(* once, and gives them back once or keeps them.                           *)
(*                                                                         *)
(* The promise is not kept to orders that are being accepted or closed     *)
(* while the merchant begins to count a product: they may get the free     *)
(* goods of that product wrong, once and by their own quantity.            *)
(***************************************************************************)
EXTENDS Integers

CONSTANTS
  Products, Orders,
  Linked,        \* products whose stock is the store's shared inventory
  Quantity       \* Quantity[o][p]: how many of p the order o wants

VARIABLES
  counted,  \* the products whose goods are counted at the moment
  free,     \* the free goods of every product
  taken,    \* which orders hold goods
  unaware   \* per product, the orders on their way that do not know it is counted

vars == <<counted, free, taken, unaware>>

(* Free goods of the products ps after order o took (sign -1) or gave back   *)
(* (sign 1) its own.                                                         *)
FreeAfter(ps, o, sign) ==
  [p \in Products |-> IF p \in ps THEN free[p] + sign * Quantity[o][p] ELSE free[p]]

(* The products order o may get wrong, and what is left when it is through. *)
MayMistake(o) == {p \in counted : o \in unaware[p]}
Through(o) == unaware' = [p \in Products |-> unaware[p] \ {o}]

Init ==
  /\ counted \subseteq Products
  /\ free \in [Products -> Nat]
  /\ taken = {}
  /\ unaware = [p \in Products |-> {}]

(* Only the goods of the menu itself are sure to be there when taken: other  *)
(* sales may empty the shared inventory meanwhile.                           *)
Take(o) ==
  /\ o \notin taken
  /\ \A p \in counted \ Linked : Quantity[o][p] > 0 => free[p] >= Quantity[o][p]
  /\ taken' = taken \cup {o}
  /\ free' = FreeAfter(counted, o, -1)
  /\ UNCHANGED <<counted, unaware>>

(* An order keeps its goods, but for those it takes off the reservation only. *)
Keep(o) ==
  /\ \E wrong \in SUBSET MayMistake(o) : free' = FreeAfter(wrong, o, 1)
  /\ Through(o)
  /\ UNCHANGED <<counted, taken>>

(* An order gives its goods back, but for those it believes uncounted. *)
GiveBack(o) ==
  /\ o \in taken
  /\ taken' = taken \ {o}
  /\ \E wrong \in SUBSET MayMistake(o) : free' = FreeAfter(counted \ wrong, o, 1)
  /\ Through(o)
  /\ UNCHANGED counted

(* An order that a late payment brings back after it gave its goods back     *)
(* holds goods it did not take again.                                        *)
Revive(o) ==
  /\ o \notin taken
  /\ taken' = taken \cup {o}
  /\ UNCHANGED <<counted, free, unaware>>

(* The merchant sets a product's stock or mode; shared goods are sold elsewhere. *)
Reset(p) ==
  /\ counted' \in {counted \cup {p}, counted \ {p}}
  /\ \A q \in Products \ {p} : free'[q] = free[q] /\ unaware'[q] = unaware[q]
  /\ unaware'[p] \subseteq Orders
  /\ UNCHANGED taken

Next ==
  \/ \E o \in Orders : Take(o) \/ Keep(o) \/ GiveBack(o) \/ Revive(o)
  \/ \E p \in Products : Reset(p)

Spec == Init /\ [][Next]_vars
=============================================================================
