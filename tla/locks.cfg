SPECIFICATION Spec
CONSTANTS
  item1 = item1
  item2 = item2
  NoItem = NoItem
  Items = {item1, item2}
  Sides = {"station", "vehicle"}
  MaxEvents = 3
SYMMETRY AnyItem
INVARIANTS
  ReceiverInEveryDeadlock
  HandlersOfLiveItems
\* The threads may wait for each other for ever.
CHECK_DEADLOCK FALSE
