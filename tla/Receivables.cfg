SPECIFICATION Spec
CONSTANTS
  MaxSales = 2
  MaxPrice = 3
  MaxQty = 2
  Limits = {2}
INVARIANTS BalanceIsSumDue NothingUnallocated RefundsFollowPrice
PROPERTIES OldestFirst
