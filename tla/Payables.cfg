SPECIFICATION PayablesSpec
CONSTANTS
  Suppliers = {s1, s2}
  NoSupplier = NoSupplier
  MaxPurchases = 3
  MaxCost = 2
SYMMETRY SupplierSymmetry
INVARIANTS BalanceExplained NeverOverpaid
CHECK_DEADLOCK FALSE
