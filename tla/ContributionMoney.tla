-------------------------- MODULE ContributionMoney --------------------------
(***************************************************************************)
(* The amounts of a contribution: minor units of its currency and what it  *)
(* takes from a Cashy budget, which is in pesos.  Rates are integers scaled *)
(* as the code's are, by 10^8; the integers are exact (BigInt) until the    *)
(* result has to be a safe one.                                             *)
(***************************************************************************)
EXTENDS Integers

CONSTANTS
  Half,      \* half of the scale of a rate (50000000 in the code)
  MaxSafe,   \* Number.MAX_SAFE_INTEGER
  Rates      \* rates of pesos per dollar, in units of 1 / Scale

ASSUME MoneyAssumption ==
  Half \in Nat \ {0} /\ MaxSafe \in Nat /\ Rates \subseteq Nat

Scale == 2 * Half

\* Mutant of Converted: no half is added, the division cuts off.
ConvertedCut(minor, rate) == (minor * rate) \div Scale

\* The pesos of an amount at a rate, rounded half up.
Converted(minor, rate) == (minor * rate + Half) \div Scale

\* contributionMoney() refuses what is not positive or not a safe integer.
Accepted(minor, rate) ==
  /\ minor \in 1..MaxSafe /\ rate \in 1..MaxSafe
  /\ Converted(minor, rate) \in 1..MaxSafe

\* n pesos are the nearest to an amount at a rate, the larger of two.
Nearest(n, minor, rate) ==
  -Scale < 2 * (n * Scale - minor * rate) /\ 2 * (n * Scale - minor * rate) <= Scale
=============================================================================
