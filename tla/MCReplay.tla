------------------------------ MODULE MCReplay ------------------------------
(***************************************************************************)
(* Replays of every small set of these entries: ties of each priority, a   *)
(* date before the start and one in the future.                            *)
(***************************************************************************)
EXTENDS Replay

Item(id, type, amount, quantity, at) ==
  [id |-> id, type |-> type, cash |-> "BANK:ARS", asset |-> "BANK:BTC",
   amount |-> amount, quantity |-> quantity, at |-> at, cashy |-> FALSE]

SmallEntries ==
  {Item(1, "contribution", 2, 0, t) : t \in 1..2}
    \cup {Item(2, "withdrawal", 2, 0, t) : t \in {0, 2}}
    \cup {Item(3, "buy", n, 2, 2) : n \in 1..2}
    \cup {Item(4, "sell", 1, 1, t) : t \in 2..3}
    \cup {Item(5, "cash_out", 1, 0, 2), Item(6, "cash_in", 1, 0, 2),
          Item(7, "cash_fee", 1, 0, 3), Item(8, "asset_out", 0, 1, 2),
          Item(9, "asset_in", 0, 1, 2), Item(10, "asset_fee", 0, 1, 3)}

SmallOpening ==
  [g \in Goals |-> [k \in {"BANK:ARS", "BANK:BTC"} |-> IF k = "BANK:ARS" THEN 1 ELSE 0]]
FromStart == [g \in Goals |-> 1]
=============================================================================
