SPECIFICATION BookSpec
CONSTANTS
  g1 = g1
  g2 = g2
  Goals = {g1, g2}
  CashAccounts = {"BANK:ARS"}
  Positions = {"BANK:BTC", "BANK:SPY"}
  EntryIds = {1, 2, 15, 10, 11, 12, 20, 21, 22}
  Entries <- AllEntries
  Opening <- FourUnits
  OpeningCost <- SixCost
  StartDate <- FromStart
  Legacy = {g2}
  Terms <- AllTerms
  Ids = {1, 2}
  LegIds <- LaterFirst
  Worth <- DearAndFree
  Quoted <- OneEach
  OpeningQuoted <- TwoQuoted
  PlatformOf <- OnePlatform
  InOrder = {"BANK:ARS", "BANK:SPY"}
  MaxTime = 2
INVARIANTS CostsProject EmptyPoolFree SummaryStands SummaryAddsUp
PROPERTIES PastKept TransfersKeepValue
CHECK_DEADLOCK FALSE
