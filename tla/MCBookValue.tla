---------------------------- MODULE MCBookValue ----------------------------
(***************************************************************************)
(* Small instances of BookValue and Summaries.                             *)
(***************************************************************************)
EXTENDS Summaries

CONSTANTS g1, g2

Bank == "BANK:ARS"
Coin == "BANK:BTC"
Share == "BANK:SPY"

Money(id, type, amount, at) ==
  [id |-> id, type |-> type, cash |-> Bank, asset |-> Coin,
   amount |-> amount, quantity |-> 0, at |-> at, cashy |-> FALSE]

Lot(k, id, type, quantity, at) ==
  [id |-> id, type |-> type, cash |-> Bank, asset |-> k,
   amount |-> 1, quantity |-> quantity, at |-> at, cashy |-> FALSE]

\* Credits that cost more and less than the opening, in either order, and a
\* debit.  A credit costs nothing in the other currency when it was written
\* without a rate.
MoneyEntries ==
  {Money(1, "contribution", 2, 1), Money(1, "contribution", 2, 2),
   Money(2, "contribution", 2, 2),
   Money(15, "withdrawal", 2, 1), Money(15, "withdrawal", 2, 2)}

UnitEntries ==
  {Lot(Share, 1, "buy", 2, 1), Lot(Share, 1, "buy", 2, 2),
   Lot(Share, 2, "buy", 2, 2),
   Lot(Share, 15, "sell", 2, 1), Lot(Share, 15, "sell", 2, 2)}

DearAndFree ==
  [i \in EntryIds |-> CASE i = 1 -> 5 [] i = 15 -> 1 [] OTHER -> 0]

\* The entries of the later transfer sort first, and the debit between the two.
LaterFirst ==
  [i \in Ids |-> [source |-> 10 * (3 - i) + 2, destination |-> 10 * (3 - i) + 1,
                  commission |-> 10 * (3 - i)]]

\* Unit prices that leave the average cost below the book value.
OneEach == [i \in EntryIds |-> 1]

There(k, n, fee) ==
  [source |-> <<g1, k>>, destination |-> <<g2, k>>, units |-> n, fee |-> fee]

Back(k) ==
  [source |-> <<g2, k>>, destination |-> <<g1, k>>, units |-> 1, fee |-> 1]

MoneyTerms == {There(Bank, 1, 1), Back(Bank)}
UnitTerms == {There(Share, 1, 1), Back(Share), There(Coin, 3, 0)}
AllTerms == MoneyTerms \cup UnitTerms
AllEntries == MoneyEntries \cup UnitEntries \cup {Lot(Coin, 2, "buy", 2, 2)}

\* A credit dearer or cheaper than the opening between two transfers of half of
\* the pool.
OneGift == {Money(2, "contribution", 2, 2)}
OnePurchase == {Lot(Coin, 1, "buy", 2, 2)}
HalfTheMoney == {There(Bank, 3, 0)}
HalfTheCoins == {There(Coin, 3, 0)}

Accounts == {Bank, Coin, Share}
FourUnits == [g \in Goals |-> [k \in Accounts |-> IF g = g1 THEN 4 ELSE 0]]
SixCost == [g \in Goals |-> [k \in Accounts |-> IF g = g1 THEN 6 ELSE 0]]
TwoQuoted == [g \in Goals |-> [k \in Accounts |-> IF g = g1 THEN 2 ELSE 0]]
OnePlatform == [k \in Accounts |-> "BANK"]
FromStart == [g \in Goals |-> 1]
=============================================================================
