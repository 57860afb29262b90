SPECIFICATION BooksSpec
CONSTANTS
  MaxBatches = 2
  MaxLines = 2
  MaxQty = 2
  MaxShortfall = 1
  PackSize <- MCPackSize
  PackCost <- MCPackCost
  Price = 3
  Discounts = {1}
  MaxTime = 3
  MonthLength = 2
  Behind = 1
  MaxEntries = 4
INVARIANT FiguresAgree
INVARIANT WastageAgrees
INVARIANT TablesExplainSummary
INVARIANT ValueAccountedFor
CHECK_DEADLOCK FALSE
