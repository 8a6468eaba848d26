SPECIFICATION BookSpec
CONSTANTS
  g1 = g1
  g2 = g2
  Goals = {g1, g2}
  CashAccounts = {"BANK:ARS"}
  Positions = {"BANK:BTC", "BANK:SPY"}
  EntryIds = {1, 2, 15, 10, 11, 12, 20, 21, 22}
  Entries <- OnePurchase
  Opening <- FourUnits
  OpeningCost <- SixCost
  StartDate <- FromStart
  Legacy = {}
  Terms <- HalfTheCoins
  Ids = {1, 2}
  LegIds <- LaterFirst
  Worth <- DearAndFree
  Quoted <- OneEach
  OpeningQuoted <- TwoQuoted
  PlatformOf <- OnePlatform
  InOrder = {}
  MaxTime = 2
INVARIANT CostConserved
CHECK_DEADLOCK FALSE
