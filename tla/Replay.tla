------------------------------- MODULE Replay -------------------------------
(***************************************************************************)
(* The loop of PortfolioLedgerService.validate, entry by entry: entries    *)
(* sorted by date, priority and id move the balances of their accounts and *)
(* the first failing check throws.  LedgerRules!Valid, which the rest of   *)
(* the project uses, is its declarative reference.  The id order is left   *)
(* open, so every order of a tie is explored.                              *)
(***************************************************************************)
EXTENDS LedgerRules

CONSTANTS MaxEntries, Today

VARIABLES
  input,    \* the call: goal, its entries, requireCashBalance
  rest,     \* entries the loop has not reached
  balance,  \* the two Maps, positions and cash
  outcome   \* "running", "accepted" or the exception thrown

replayVars == <<input, rest, balance, outcome>>

Outcomes == {"running", "accepted", "badDate", "insufficient"}

ReplayInit ==
  /\ input \in [goal: Goals, requireCash: BOOLEAN,
                entries: {E \in SUBSET Entries :
                  /\ IsFiniteSet(E) /\ Cardinality(E) <= MaxEntries
                  /\ \A d, e \in E : d.id = e.id => d = e}]
  /\ rest = input.entries
  /\ balance = Opening[input.goal]
  /\ outcome = "running"

\* Mutant of IsNext: the sort compares dates only.
IsNextByDate(e) == \A d \in rest : e.at <= d.at

\* No entry left precedes e.
IsNext(e) ==
  \A d \in rest :
    e.at < d.at \/ (e.at = d.at /\ Priority(e) <= Priority(d))

CashReplayed(e) ==
  /\ e.type \notin AssetLegs
  /\ \/ input.goal \notin Legacy
     \/ input.requireCash
     \/ \E d \in input.entries : d.type \in CashLegs

PositionAfter(e) ==
  balance[e.asset] + (IF e.type \in AssetCredits THEN e.quantity ELSE -e.quantity)

\* Mutant of CashAfter: the proceeds of a sale are charged.
CashAfterChargingSales(e) ==
  balance[e.cash] + (IF e.type \in CashCredits \ {"sell"} THEN e.amount ELSE -e.amount)

CashAfter(e) ==
  balance[e.cash] + (IF e.type \in CashCredits THEN e.amount ELSE -e.amount)

MovesPosition(e) == e.type \in OperationTypes \cup AssetLegs

InDates(e)   == Dated(input.goal, e, Today)
HoldsUnits(e) == MovesPosition(e) => PositionAfter(e) >= 0
HoldsCash(e)  == CashReplayed(e) => CashAfter(e) >= 0

Throw(why) == outcome' = why /\ UNCHANGED <<input, rest, balance>>

\* "Ledger entry date cannot be earlier than the goal start date" or future.
ThrowDate(e) == IsNext(e) /\ ~InDates(e) /\ Throw("badDate")

\* INSUFFICIENT_BALANCE of a position, or else of cash.
ThrowInsufficient(e) ==
  /\ IsNext(e) /\ InDates(e)
  /\ ~HoldsUnits(e) \/ ~HoldsCash(e)
  /\ Throw("insufficient")

\* One iteration that throws no exception.
Advance(e) ==
  /\ IsNext(e) /\ InDates(e) /\ HoldsUnits(e) /\ HoldsCash(e)
  /\ rest' = rest \ {e}
  /\ balance' = [k \in DOMAIN balance |->
       IF MovesPosition(e) /\ k = e.asset THEN PositionAfter(e)
       ELSE IF CashReplayed(e) /\ k = e.cash THEN CashAfter(e)
       ELSE balance[k]]
  /\ UNCHANGED <<input, outcome>>

Return ==
  /\ rest = {}
  /\ outcome' = "accepted"
  /\ UNCHANGED <<input, rest, balance>>

ReplayNext ==
  /\ outcome = "running"
  /\ \/ \E e \in rest : ThrowDate(e) \/ ThrowInsufficient(e) \/ Advance(e)
     \/ Return

ReplaySpec == ReplayInit /\ [][ReplayNext]_replayVars

-----------------------------------------------------------------------------

\* The loop and its reference agree: validate() returns exactly for the entry
\* sets Valid describes, whatever order the ids give to a tie.
AgreesWithValid ==
  outcome # "running" =>
    (outcome = "accepted") =
      Valid(input.goal, input.entries, input.requireCash, Today)

\* Replayed balances are those of the reference sums over the entries passed.
BalancesAgree ==
  LET passed == input.entries \ rest
  IN /\ \A k \in Positions : balance[k] = PositionBalance(input.goal, k, passed)
     /\ \A k \in CashAccounts :
          balance[k] = IF \E e \in input.entries : CashReplayed(e)
                       THEN CashBalance(input.goal, k, passed)
                       ELSE Opening[input.goal][k]
=============================================================================
