-------------------------- MODULE TransferPromise --------------------------
(***************************************************************************)
(* What the transfers API promises of an idempotency key: it stands for at *)
(* most one transfer, whose terms are those first accepted, and which      *)
(* either posts all of its sides at once or none ever.                     *)
(***************************************************************************)
EXTENDS Integers

CONSTANTS Keys, Intents, NoIntent, Sides(_)   \* the sides an intent moves

VARIABLES terms, outcome, posted

promiseVars == <<terms, outcome, posted>>

PromiseInit ==
  /\ terms = [k \in Keys |-> NoIntent]
  /\ outcome = [k \in Keys |-> "unknown"]
  /\ posted = [k \in Keys |-> {}]

Accept(k, intent) ==
  /\ outcome[k] = "unknown"
  /\ terms' = [terms EXCEPT ![k] = intent]
  /\ outcome' = [outcome EXCEPT ![k] = "pending"]
  /\ UNCHANGED posted

Complete(k) ==
  /\ outcome[k] = "pending"
  /\ outcome' = [outcome EXCEPT ![k] = "completed"]
  /\ posted' = [posted EXCEPT ![k] = Sides(terms[k])]
  /\ UNCHANGED terms

Refuse(k) ==
  /\ outcome[k] = "pending"
  /\ outcome' = [outcome EXCEPT ![k] = "rejected"]
  /\ UNCHANGED <<terms, posted>>

PromiseNext ==
  \E k \in Keys : Complete(k) \/ Refuse(k) \/ \E intent \in Intents : Accept(k, intent)

PromiseSpec == PromiseInit /\ [][PromiseNext]_promiseVars
=============================================================================
