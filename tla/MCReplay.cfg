SPECIFICATION ReplaySpec
CONSTANTS
  Goals = {g1, g2}
  CashAccounts = {"BANK:ARS"}
  Positions = {"BANK:BTC"}
  EntryIds = {1, 2, 3, 4, 5, 6, 7, 8, 9, 10}
  Entries <- SmallEntries
  Opening <- SmallOpening
  StartDate <- FromStart
  Legacy = {g2}
  MaxEntries = 4
  Today = 2
INVARIANTS AgreesWithValid BalancesAgree
CHECK_DEADLOCK FALSE
