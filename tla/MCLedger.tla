------------------------------ MODULE MCLedger ------------------------------
(***************************************************************************)
(* Small instances of Ledger and TransferForm.                             *)
(***************************************************************************)
EXTENDS TransferForm, TLC

Bank == "BANK:ARS"
Broker == "BROKER:ARS"
Coin == "BROKER:BTC"

Money(id, type, account, amount, at) ==
  [id |-> id, type |-> type, cash |-> account, asset |-> Coin,
   amount |-> amount, quantity |-> 0, at |-> at, cashy |-> FALSE]

Lot(id, type, amount, quantity, at) ==
  [id |-> id, type |-> type, cash |-> Bank, asset |-> Coin,
   amount |-> amount, quantity |-> quantity, at |-> at, cashy |-> FALSE]

Linked(e) == [e EXCEPT !.cashy = TRUE]

\* A linked contribution and its corrections, a purchase that may need it, and
\* cash and crypto transfers between the goals, the cash ones with a fee.
MixedEntries ==
  {Linked(Money(1, "contribution", Bank, n, 1)) : n \in 1..2}
    \cup {Lot(3, "buy", 2, 2, t) : t \in 1..2}
    \cup {Money(4, "cash_out", Bank, 1, 2), Money(5, "cash_in", Bank, 1, 2),
          Money(6, "cash_fee", Bank, 1, 2),
          Lot(7, "asset_out", 0, 1, 2), Lot(8, "asset_in", 0, 1, 2)}

Accounts == {Bank, Broker, Coin}
OneInBank == [g \in Goals |-> [k \in Accounts |-> IF k = Bank THEN 1 ELSE 0]]
FromStart == [g \in Goals |-> 1]

Symmetry == Permutations(Flows)
=============================================================================
