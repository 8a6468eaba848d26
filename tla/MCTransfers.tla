---------------------------- MODULE MCTransfers ----------------------------
(***************************************************************************)
(* Small instances of Transfers.                                           *)
(***************************************************************************)
EXTENDS Transfers, TLC

CONSTANTS OtherFlows, g1, g2

Bank == "BANK:ARS"
Broker == "BROKER:ARS"
Coin == "BROKER:BTC"

At(g) == [goal |-> g, cash |-> Bank, asset |-> Coin]

CashIntent(units, fee) ==
  [kind |-> "cash", source |-> At(g1), destination |-> At(g2),
   units |-> units, fee |-> fee]

OneIntent  == {CashIntent(1, 1)}
TwoIntents == {CashIntent(1, 1), CashIntent(2, 0)}
\* Between two platforms of one goal, which has what one transfer takes.
WithinGoal ==
  {[CashIntent(1, 0) EXCEPT !.destination = [At(g1) EXCEPT !.cash = Broker]]}

SmallLegIds ==
  [i \in Ids |-> [source |-> 10 * i, destination |-> 10 * i + 1, commission |-> 10 * i + 2]]

AllLegs == UNION {Legs(i, intent, t) : i \in Ids, intent \in Intents, t \in 0..MaxTime}

LegsOnly == AllLegs

AllFlows == Workers \cup OtherFlows

TwoInBank == [g \in Goals |-> [k \in {Bank, Coin} |-> IF k = Bank THEN 2 ELSE 0]]
OneInEach == [g \in Goals |-> [k \in {Bank, Broker, Coin} |-> IF k = Coin THEN 0 ELSE 1]]
FromStart == [g \in Goals |-> 1]

ServerSymmetry == Permutations(Servers)
Symmetry == ServerSymmetry \cup Permutations(Requests)
=============================================================================
