----------------------------- MODULE Summaries -----------------------------
(***************************************************************************)
(* What the user is shown of the ledger (SummariesService): the cash, the  *)
(* open positions, the realized profit and the book value of each goal and *)
(* of the portfolio.  A summary reads one snapshot, so it is a function of *)
(* the state; it projects the entries of all time, by itself.              *)
(***************************************************************************)
EXTENDS BookValue, Functions

CONSTANTS
  Quoted,         \* quantity times unit price of each buy
  OpeningQuoted,  \* the same of the opening positions
  PlatformOf      \* the platform of an account

ASSUME SummariesAssumption ==
  /\ IsFiniteSet(Goals) /\ IsFiniteSet(CashAccounts) /\ IsFiniteSet(Positions)
  /\ Quoted \in [EntryIds -> Nat]
  /\ OpeningQuoted \in [Goals -> [CashAccounts \cup Positions -> Nat]]
  /\ \A e \in Entries : e.at <= MaxTime

Platforms == {PlatformOf[k] : k \in CashAccounts \cup Positions}

EndOfTime == MaxTime

OfType(s, g, types) == {e \in s.entries[g] : e.type \in types}

WorthOf(E) == SumFunction([e \in E |-> Worth[e.id]])

-----------------------------------------------------------------------------
(* calculateInvestments                                                    *)

\* Mutant of AverageValues: every leg of a transfer takes its recorded cost.
AverageValuesOfLegs(s, g) ==
  [i \in {e.id : e \in OfType(s, g, AssetLegs \cup {"buy"})} |->
     IF i \in DOMAIN s.costs THEN s.costs[i] ELSE Quoted[i]]

\* The second projection, of the average cost: buys at their unit price, and
\* of the transfers only what arrives with a recorded cost.
AverageValues(s, g) ==
  [i \in {e.id : e \in OfType(s, g, {"asset_in", "buy"})} |->
     IF i \in DOMAIN s.costs THEN s.costs[i] ELSE Quoted[i]]

\* Mutant of CostBasis: the sale has already left the pool.
CostBasisAfter(s, k, pool, e) ==
  IF e.type = "sell" THEN Slice(Project(k, s.costs, pool, e), e.quantity) ELSE 0

CostBasis(s, k, pool, e) ==
  IF e.type = "sell" THEN Slice(pool, e.quantity) ELSE 0

\* One round of the loop over the events of a position.
Trade(s, g, k, acc, e) ==
  [pool    |-> Project(k, s.costs, acc.pool, e),
   average |-> Project(k, AverageValues(s, g), acc.average, e),
   basis   |-> acc.basis + CostBasis(s, k, acc.pool, e)]

Investment(s, g, k) ==
  Replayed(LAMBDA acc, e : Trade(s, g, k, acc, e),
           [pool |-> Opened(<<g, k>>), basis |-> 0,
            average |-> [Opened(<<g, k>>) EXCEPT !.cost = OpeningQuoted[g][k]]],
           Own(k, s.entries[g]))

\* openPositions: a position of no units is not listed, whatever it cost.
Invested(s, g, k) ==
  LET pool == Investment(s, g, k).pool IN IF pool.units = 0 THEN 0 ELSE pool.cost

-----------------------------------------------------------------------------
(* getGoalSummary                                                          *)

CashPool(s, g, k) == Pool(<<g, k>>, s.entries[g], s.costs, EndOfTime)

\* projectCash() throws.
Overdrawn(s, g) == \E k \in CashAccounts : CashPool(s, g, k).fails

\* Without transfers of cash, an overdrawn history is shown by its rates:
\* calculateCashBalances and calculatePlatformBookValues.
Added(k, value) ==
  LET Of(types) == {e \in DOMAIN value : e.cash = k /\ e.type \in types}
  IN SumFunctionOnSet(value, Of({"contribution", "sell"}))
       - SumFunctionOnSet(value, Of({"withdrawal", "buy"}))

CashUnits(s, g, k) ==
  IF Overdrawn(s, g)
  THEN Opening[g][k] + Added(k, [e \in s.entries[g] |-> e.amount])
  ELSE CashPool(s, g, k).units

CashCost(s, g, k) ==
  IF Overdrawn(s, g)
  THEN OpeningCost[g][k] + Added(k, [e \in s.entries[g] |-> Worth[e.id]])
  ELSE CashPool(s, g, k).cost

NetContributions(s, g) ==
  WorthOf(OfType(s, g, {"contribution"})) - WorthOf(OfType(s, g, {"withdrawal"}))

\* cashBalance
CashValue(s, g) ==
  IF Overdrawn(s, g)
  THEN SumFunctionOnSet(OpeningCost[g], CashAccounts) + NetContributions(s, g)
         - WorthOf(OfType(s, g, {"buy"})) + WorthOf(OfType(s, g, {"sell"}))
  ELSE SumFunction([k \in CashAccounts |-> CashPool(s, g, k).cost])

\* The error is rethrown once the goal has moved cash by a transfer.
SummaryFails(s, g) ==
  \/ Overdrawn(s, g) /\ OfType(s, g, CashLegs) # {}
  \/ \E k \in Positions : Investment(s, g, k).pool.fails \/ Investment(s, g, k).average.fails

PlatformValue(s, g, p) ==
  SumFunction([k \in {k \in CashAccounts : PlatformOf[k] = p} |-> CashCost(s, g, k)])
    + SumFunction([k \in {k \in Positions : PlatformOf[k] = p} |-> Invested(s, g, k)])

\* portfolioBookValue
GoalBookValue(s, g) ==
  CashValue(s, g) + SumFunction([k \in Positions |-> Invested(s, g, k)])

\* What legs were recorded to carry: transferIn, transferOut, transferFees.
Carried(s, E) == SumFunction([e \in E |-> s.costs[e.id]])

\* getPortfolioSummary
TotalBookValue(s) ==
  SumFunction([p \in Platforms |-> SumFunction([g \in Goals |-> PlatformValue(s, g, p)])])

TotalFees(s) ==
  SumFunction([g \in Goals |-> Carried(s, OfType(s, g, {"cash_fee", "asset_fee"}))])

-----------------------------------------------------------------------------
(* Properties.                                                             *)

\* The snapshot a summary asked now reads.
Snapshot == [entries |-> history, costs |-> book]

\* The transfers of the goal's cash run in the order of their dates.
CashInOrder(g) == \A k \in CashAccounts : <<g, k>> \in OrderedPools

\* The summary of a goal never fails: not on a legacy goal that is overdrawn,
\* as it was before cash was tracked, and not on the average costs, a second
\* projection of the same positions at other costs.
SummaryStands == \A g \in Goals : CashInOrder(g) => ~SummaryFails(Snapshot, g)

\* What a position cost, when opened, bought or brought by transfers, is what is
\* invested, what its sales are reported to have cost and what left by transfer.
CostsAccounted(s, g, k) ==
  LET Of(types) == {e \in OfType(s, g, types) : e.asset = k}
  IN OpeningCost[g][k] + WorthOf(Of({"buy"})) + Carried(s, Of({"asset_in"}))
       = Invested(s, g, k) + Investment(s, g, k).basis
           + Carried(s, Of({"asset_out", "asset_fee"}))

\* A transfer "conserves the book value" (transfers.controller.ts): in whatever
\* order transfers are executed, no cost of a position disappears.
CostConserved ==
  \A g \in Goals : \A k \in Positions : CostsAccounted(Snapshot, g, k)

\* The figures of a summary agree, whichever way they were computed: the
\* platforms add up to the book value, the balances are those of the ledger and
\* no cost is lost between positions, sales and transfers, if these run one at
\* a time and in the order of their dates.
SummaryAddsUp ==
  \A g \in Goals :
    /\ SumFunction([p \in Platforms |-> PlatformValue(Snapshot, g, p)])
         = GoalBookValue(Snapshot, g)
    /\ CashInOrder(g) =>
         \A k \in CashAccounts : CashUnits(Snapshot, g, k) = CashBalance(g, k, history[g])
    /\ \A k \in Positions : <<g, k>> \in OrderedPools => CostsAccounted(Snapshot, g, k)

\* The transfer is the last thing that happens to both of its accounts, and
\* theirs run in order, as does all cash of its goals if it moves cash.
IsLast(row) ==
  \A p \in {row.terms.source, row.terms.destination} :
    /\ \A e \in Own(p[2], history[p[1]]) : e.at < row.at
    /\ p \in OrderedPools /\ (IsCash(p[2]) => CashInOrder(p[1]))

\* A transfer moves book value between goals and platforms and makes none: the
\* portfolio loses its commission and nothing else.
TransfersKeepValue ==
  [][LET next == [entries |-> history', costs |-> book']
     IN \A row \in rows :
          /\ row.status = "pending" /\ IsLast(row)
          /\ \E r \in rows' : r.id = row.id /\ r.status = "completed"
          => TotalBookValue(next) + TotalFees(next)
               = TotalBookValue(Snapshot) + TotalFees(Snapshot)]_bookVars
=============================================================================
