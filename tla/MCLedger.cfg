SPECIFICATION Spec
CONSTANTS
  Goals = {g1, g2}
  Flows = {f1, f2}
  Corrections = {c1}
  NoLock = NoLock
  CashAccounts = {"BANK:ARS", "BROKER:ARS"}
  Positions = {"BROKER:BTC"}
  EntryIds = {1, 3, 4, 5, 6, 7, 8}
  Entries <- MixedEntries
  Opening <- OneInBank
  StartDate <- FromStart
  Legacy = {g1}
  MaxTime = 2
INVARIANTS TypeOK LedgerSound PlanStillFits LocksPaired SessionsCurrent PreviewKept
PROPERTIES LockedFrozen PastSealed TransfersNeedOpenGoals DeletedOnlySettles
SYMMETRY Symmetry
