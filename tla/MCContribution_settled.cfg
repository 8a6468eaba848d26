SPECIFICATION Spec
CONSTANTS
  Drives = {d1, d2}
  Corrections = {c1, c2}
  Amounts = {1, 2}
  NoLock = NoLock
  Elsewhere = Elsewhere
  Half = 2
  MaxSafe = 9
  Rates = {1, 2, 5, 9}
  MaxLate = 1
INVARIANTS TypeOK BooksAgree CancelledEverywhere CorrectionCanFinish BudgetTakesNearest
PROPERTY SettledForGood
SYMMETRY Symmetry
