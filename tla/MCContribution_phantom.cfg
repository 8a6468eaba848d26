SPECIFICATION Spec
CONSTANTS
  Drives = {d1, d2}
  Corrections = {c1}
  Amounts = {1}
  NoLock = NoLock
  Elsewhere = Elsewhere
  Half = 2
  MaxSafe = 9
  Rates = {1, 2, 5, 9}
  MaxLate = 0
INVARIANT ConfirmedIsPublished
