SPECIFICATION TransfersSpec
CONSTANTS
  g1 = g1
  g2 = g2
  Goals = {g1, g2}
  OtherFlows = {f1}
  Flows <- AllFlows
  Corrections = {}
  NoLock = NoLock
  EntryIds = {1, 10, 11, 12, 20, 21, 22}
  CashAccounts = {"BANK:ARS"}
  Positions = {"BROKER:BTC"}
  Entries <- LegsOnly
  Opening <- TwoInBank
  StartDate <- FromStart
  Legacy = {}
  MaxTime = 1
  Servers = {s1, s2}
  Requests = {r1, r2}
  Keys = {k1}
  Intents <- TwoIntents
  Ids = {1, 2}
  LegIds <- SmallLegIds
INVARIANTS TransfersTypeOK DoubleEntry OneTransferPerKey
PROPERTIES PromiseKept
SYMMETRY Symmetry
