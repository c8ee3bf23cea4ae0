---------------------------- MODULE MCScanStock ----------------------------
(* Two orders of a menu product of its own and of a linked one, of unequal   *)
(* sizes, so that a reservation may cover one order's line and not the other's. *)
EXTENDS ScanStock

CONSTANTS dish, drink, o1, o2

MCProducts == {dish, drink}
MCOrders == {o1, o2}
MCLinked == {drink}
Lines(d, k) == [p \in MCProducts |-> IF p = dish THEN d ELSE k]
MCQuantity == [o \in MCOrders |-> IF o = o1 THEN Lines(1, 2) ELSE Lines(2, 1)]
MCInitial == Lines(3, 3)
MCShared == Lines(0, 3)
MCEditQuantities == {1}
=============================================================================
