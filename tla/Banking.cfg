SPECIFICATION Spec
CONSTANTS
  Requests = {r1, r2}
  MaxLoans = 1
  MaxBills = 1
  MaxAmount = 1
  MaxLoan = 2
  MaxDrawer = 2
  MaxHeld = 1
SYMMETRY RequestSymmetry
INVARIANTS LoansAddUp
PROPERTIES NoOverdraft ImplementsMoneyPosition
CHECK_DEADLOCK FALSE
