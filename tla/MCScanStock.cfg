CONSTANTS
  dish = dish
  drink = drink
  o1 = o1
  o2 = o2
  Products <- MCProducts
  Orders <- MCOrders
  Linked <- MCLinked
  Quantity <- MCQuantity
  Initial <- MCInitial
  InitialShared <- MCShared
  EditQuantities <- MCEditQuantities
  MaxEdits = 1
  MaxRevivals = 1
SPECIFICATION Spec
CHECK_DEADLOCK FALSE
INVARIANTS
  TypeOK
  NoOversell
  GoodsAddUp
  SalesMatchStock
PROPERTIES
  KeepsPromise
