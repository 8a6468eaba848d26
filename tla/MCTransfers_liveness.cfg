SPECIFICATION FairTransfersSpec
CONSTANTS
  g1 = g1
  g2 = g2
  Goals = {g1}
  OtherFlows = {f1}
  Flows <- AllFlows
  Corrections = {}
  NoLock = NoLock
  EntryIds = {1, 10, 11, 12, 20, 21, 22}
  CashAccounts = {"BANK:ARS", "BROKER:ARS"}
  Positions = {"BROKER:BTC"}
  Entries <- LegsOnly
  Opening <- OneInEach
  StartDate <- FromStart
  Legacy = {}
  MaxTime = 1
  Servers = {s1}
  Requests = {r1}
  Keys = {k1, k2}
  Intents <- WithinGoal
  Ids = {1, 2}
  LegIds <- SmallLegIds
PROPERTY Settles
