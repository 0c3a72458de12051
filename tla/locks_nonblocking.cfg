SPECIFICATION Spec
CONSTANTS
  item1 = item1
  item2 = item2
  NoItem = NoItem
  Items = {item1, item2}
  Sides = {"station"}
  MaxEvents = 3
SYMMETRY AnyItem
INVARIANT DownloadIsNonBlocking
\* The threads may wait for each other for ever.
CHECK_DEADLOCK FALSE
