---------------------------- MODULE LedgerRules ----------------------------
(***************************************************************************)
(* The entries of a goal's ledger and the replay that accepts or refuses a *)
(* set of them (PortfolioLedgerService.validate).                          *)
(*                                                                         *)
(* An entry is a document of goal-movements, investment-operations,        *)
(* transfer-entries or crypto-transfer-entries.  Amounts are whole units   *)
(* (the code rounds to eight decimals) and dates are points of a clock.    *)
(***************************************************************************)
EXTENDS Integers, FiniteSets, FiniteSetsExt

CONSTANTS
  Goals,          \* goals of one user
  CashAccounts,   \* "platform:currency" keys
  Positions,      \* "platform:ticker" keys
  EntryIds,       \* ids of ledger documents
  Entries,        \* the entries the operations may write
  Opening,        \* opening cash and positions of each goal
  StartDate,      \* start date of each goal
  Legacy          \* goals whose trackingMode is 'legacy'

MovementTypes  == {"contribution", "withdrawal"}
OperationTypes == {"buy", "sell"}
CashLegs       == {"cash_in", "cash_out", "cash_fee"}
AssetLegs      == {"asset_in", "asset_out", "asset_fee"}
LegTypes       == CashLegs \cup AssetLegs
EntryTypes     == MovementTypes \cup OperationTypes \cup LegTypes

CashCredits  == {"contribution", "sell", "cash_in"}
CashDebits   == {"withdrawal", "buy", "cash_out", "cash_fee"}
AssetCredits == {"buy", "asset_in"}
AssetDebits  == {"sell", "asset_out", "asset_fee"}

Entry == [id: EntryIds, type: EntryTypes, cash: CashAccounts, asset: Positions,
          amount: Nat, quantity: Nat, at: Nat, cashy: BOOLEAN]

ASSUME EntriesAssumption == Entries \subseteq Entry

ASSUME GoalsAssumption ==
  /\ StartDate \in [Goals -> Nat]
  /\ Legacy \subseteq Goals
  /\ Opening \in [Goals -> [CashAccounts \cup Positions -> Nat]]

\* Balances of cash and of positions are kept apart, as the two Maps of the
\* replay are: a key of one is no key of the other.
ASSUME KindsAssumption == CashAccounts \cap Positions = {}

-----------------------------------------------------------------------------
\* The order of entries of one instant: credits, then buys, sells and debits.
Priority(e) ==
  CASE e.type \in {"asset_in", "cash_in", "contribution"} -> 0
    [] e.type = "buy"  -> 1
    [] e.type = "sell" -> 2
    [] OTHER           -> 3

\* Entries replayed no later than e.  Entries of one instant and priority move
\* an account in one direction, so the id that breaks their tie is irrelevant.
UpTo(E, e) ==
  {d \in E : d.at < e.at \/ (d.at = e.at /\ Priority(d) <= Priority(e))}

CashBalance(g, k, E) ==
  Opening[g][k]
    + MapThenSumSet(LAMBDA e : e.amount,
                    {e \in E : e.cash = k /\ e.type \in CashCredits})
    - MapThenSumSet(LAMBDA e : e.amount,
                    {e \in E : e.cash = k /\ e.type \in CashDebits})

PositionBalance(g, k, E) ==
  Opening[g][k]
    + MapThenSumSet(LAMBDA e : e.quantity,
                    {e \in E : e.asset = k /\ e.type \in AssetCredits})
    - MapThenSumSet(LAMBDA e : e.quantity,
                    {e \in E : e.asset = k /\ e.type \in AssetDebits})

CashCovered(g, E) ==
  \A e \in E, k \in CashAccounts : CashBalance(g, k, UpTo(E, e)) >= 0

PositionsCovered(g, E) ==
  \A e \in E, k \in Positions : PositionBalance(g, k, UpTo(E, e)) >= 0

\* A legacy goal's cash is replayed once it has a cash transfer.
TracksCash(g, E) == g \notin Legacy \/ \E e \in E : e.type \in CashLegs

Dated(g, e, t) == g \notin Legacy => StartDate[g] <= e.at /\ e.at <= t

\* validate() accepts the entries E of goal g at time t.
Valid(g, E, requireCash, t) ==
  /\ \A e \in E : Dated(g, e, t)
  /\ PositionsCovered(g, E)
  /\ requireCash \/ TracksCash(g, E) => CashCovered(g, E)

\* Mutant of AfterTransfers: the date of the transfer itself is still open.
FromTransfers(E, e) == \A leg \in E : leg.type \in LegTypes => leg.at <= e.at

\* The cutoff: an entry dated at or before a transfer of the goal is history.
AfterTransfers(E, e) == \A leg \in E : leg.type \in LegTypes => leg.at < e.at

\* Mutant of Revisable: validate() leaves the excluded entries in the replay.
RevisableKeepingRemoved(g, E, removed, added, requireCash, t) ==
  /\ removed \subseteq E
  /\ \A e \in removed \cup added : AfterTransfers(E, e)
  /\ Valid(g, E \cup added, requireCash, t)

\* validate(goalId, candidate, excluded): revise the entries E.
Revisable(g, E, removed, added, requireCash, t) ==
  /\ removed \subseteq E
  /\ \A e \in removed \cup added : AfterTransfers(E, e)
  /\ Valid(g, (E \ removed) \cup added, requireCash, t)
=============================================================================
