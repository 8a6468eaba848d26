SPECIFICATION FairSpec
CONSTANTS
  Drives = {d1}
  Corrections = {c1}
  Amounts = {1}
  NoLock = NoLock
  Elsewhere = Elsewhere
  Half = 2
  MaxSafe = 9
  Rates = {1, 2, 5, 9}
  MaxLate = 1
PROPERTIES PendingSettles CorrectionSettles
