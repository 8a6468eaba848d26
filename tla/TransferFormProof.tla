------------------------- MODULE TransferFormProof -------------------------
(***************************************************************************)
(* Proofs about TransferForm, for any goals, entries and amounts: what the *)
(* form offers and previews is what the execution posts.                   *)
(***************************************************************************)
EXTENDS TransferForm, LedgerProof, ReplayProof

-----------------------------------------------------------------------------
(* Histories stay finite, so that their sums are defined.                  *)

HistoriesFinite ==
  /\ \A g \in Goals : IsFiniteSet(history[g])
  /\ \A a \in adjustments : IsFiniteSet(a.added)

\* A step adds finitely many entries to a goal, now or with its plans.
AddsFinitely ==
  /\ \A g \in Goals : \E added : IsFiniteSet(added) /\ history'[g] \subseteq history[g] \cup added
  /\ \A a \in adjustments' : a \in adjustments \/ IsFiniteSet(a.added)

LEMMA SmallSets ==
  /\ IsFiniteSet({})
  /\ \A e : IsFiniteSet({e})
  /\ \A S, T : IsFiniteSet(S) /\ IsFiniteSet(T) => IsFiniteSet(S \cup T)
BY FS_EmptySet, FS_Singleton, FS_Union

LEMMA RewriteAdds ==
  ASSUME IInv, NEW f \in Flows, NEW h \in Goals, NEW removed, NEW added, IsFiniteSet(added),
         Rewrite(f, h, removed, added)
  PROVE  AddsFinitely
<1>1. /\ \A g \in Goals : history'[g] \subseteq history[g] \cup added
      /\ adjustments' = adjustments
  BY DEF Rewrite, IInv, TypeOK
<1> QED
  BY <1>1 DEF AddsFinitely

LEMMA SubmitAdds ==
  ASSUME IInv, NEW f \in Flows, NEW h \in Goals, NEW c, NEW removed, NEW added,
         NEW decreases, IsFiniteSet(added),
         SubmitCorrection(f, h, c, removed, added, decreases)
  PROVE  AddsFinitely
<1>1. /\ history' = history
      /\ \A a \in adjustments' : a \in adjustments \/ a.added = added
  BY DEF SubmitCorrection
<1> QED
  BY <1>1, SmallSets DEF AddsFinitely

LEMMA RequestAdds ==
  ASSUME IInv, HistoriesFinite, NEW f \in Flows, RequestStep(f)
  PROVE  AddsFinitely
<1>1. CASE UNCHANGED <<history, adjustments>>
  BY <1>1, SmallSets DEF AddsFinitely
<1>2. ASSUME NEW h \in Goals, EntryStep(f, h)
      PROVE  AddsFinitely
  BY <1>2, RewriteAdds, SmallSets DEF EntryStep, CreateEntry, UpdateEntry, RemoveEntry
<1>3. ASSUME NEW h \in Goals, NEW e \in Entries, PublishContribution(f, h, e)
      PROVE  AddsFinitely
  <2>1. /\ \A g \in Goals : history'[g] \subseteq history[g] \cup {e}
        /\ adjustments' = adjustments
    BY <1>3 DEF PublishContribution, IInv, TypeOK
  <2> QED
    BY <2>1, SmallSets DEF AddsFinitely
<1>4. ASSUME NEW h \in Goals, NEW c \in Corrections, CorrectionStep(f, h, c)
      PROVE  AddsFinitely
  BY <1>4, SubmitAdds, SmallSets
     DEF CorrectionStep, EditContribution, VoidContribution, VoidUnpublished
<1>5. ASSUME NEW a \in adjustments, NEW applied \in BOOLEAN, FinishCorrection(f, a, applied)
      PROVE  AddsFinitely
  <2>1. /\ \A g \in Goals : history'[g] \subseteq history[g] \cup a.added
        /\ adjustments' \subseteq adjustments
    BY <1>5 DEF FinishCorrection, IInv, TypeOK
  <2> QED
    BY <2>1 DEF AddsFinitely, HistoriesFinite
<1> QED
  BY <1>1, <1>2, <1>3, <1>4, <1>5
     DEF RequestStep, Begin, CommitUnchanged, Abandon, UpdateGoal, RemoveGoal

LEMMA TransferAdds ==
  ASSUME IInv, NEW f \in Flows, TransferStep(f)
  PROVE  AddsFinitely
<1>1. PICK src \in Goals, dst \in Goals, leaves \in Entries, arrives \in Entries,
           fees \in {{}} \cup {{fee} : fee \in Entries} :
             PostTransfer(f, src, dst, leaves, arrives, fees)
  BY DEF TransferStep
<1>2. IsFiniteSet({leaves, arrives} \cup fees)
  <2>1. {leaves, arrives} \cup fees = ({leaves} \cup {arrives}) \cup fees
    OBVIOUS
  <2>2. IsFiniteSet(fees)
    BY SmallSets
  <2> QED
    BY <2>1, <2>2, SmallSets
<1>3. /\ \A g \in Goals : history'[g] \subseteq history[g] \cup ({leaves, arrives} \cup fees)
      /\ adjustments' = adjustments
  BY <1>1 DEF PostTransfer, LegsAt
<1> QED
  BY <1>2, <1>3 DEF AddsFinitely

LEMMA FiniteStays == IInv /\ HistoriesFinite /\ [Next]_vars => HistoriesFinite'
<1> SUFFICES ASSUME IInv, HistoriesFinite, [Next]_vars PROVE HistoriesFinite'
  OBVIOUS
<1>1. AddsFinitely
  <2>1. CASE Tick \/ UNCHANGED vars \/ \E g \in Goals, s \in Statuses : CreateGoal(g, s)
    BY <2>1, SmallSets DEF Tick, vars, CreateGoal, AddsFinitely
  <2> QED
    BY <2>1, RequestAdds, TransferAdds DEF Next
<1>2. ASSUME NEW g \in Goals
      PROVE  IsFiniteSet(history'[g])
  <2>1. PICK added : IsFiniteSet(added) /\ history'[g] \subseteq history[g] \cup added
    BY <1>1 DEF AddsFinitely
  <2>2. IsFiniteSet(history[g] \cup added)
    BY <2>1, SmallSets DEF HistoriesFinite
  <2> QED
    BY <2>1, <2>2, FS_Subset
<1> QED
  BY <1>1, <1>2 DEF AddsFinitely, HistoriesFinite

LEMMA LedgerIsFinite == Spec => [](IInv /\ HistoriesFinite)
<1>1. Init => HistoriesFinite
  BY SmallSets DEF Init, HistoriesFinite
<1> QED
  BY <1>1, FiniteStays, Inductive, PTL DEF Spec

-----------------------------------------------------------------------------
(* The transfer the properties speak of.                                   *)

IsCash(i) == i.leaves.type = "cash_out"

\* An intent the form may be asked about and what PreviewKept presumes of it.
Asked(src, dst, i) ==
  /\ src \in Goals /\ dst \in Goals /\ i \in Intents
  /\ src # dst \/ Account(i.leaves) # Account(i.arrives)
  /\ StartDate[dst] <= now /\ NothingAhead(src) /\ NothingAhead(dst)
  /\ DestinationReads(dst, i.leaves)

Added(g, src, dst, i) == LegsAt(g, src, dst, i.leaves, i.arrives, i.fees)

LEMMA IntentFacts ==
  ASSUME NEW i \in Intents
  PROVE  /\ i.leaves \in Entries /\ i.arrives \in Entries
         /\ i.fees = {} \/ \E fee \in Entries : i.fees = {fee}
         /\ i.leaves.type = IF IsCash(i) THEN "cash_out" ELSE "asset_out"
         /\ i.arrives.type = IF IsCash(i) THEN "cash_in" ELSE "asset_in"
         /\ \A fee \in i.fees :
              /\ fee.type = IF IsCash(i) THEN "cash_fee" ELSE "asset_fee"
              /\ fee.cash = i.leaves.cash /\ fee.asset = i.leaves.asset
         /\ \A leg \in {i.leaves, i.arrives} \cup i.fees : leg.at = now /\ Fresh(leg)
         /\ Units(i.leaves) > 0
<1>1. /\ i.leaves \in Entries /\ i.arrives \in Entries
      /\ i.fees = {} \/ \E fee \in Entries : i.fees = {fee}
      /\ i.leaves.at = now /\ LegsOf(i.leaves, i.arrives, i.fees) /\ Units(i.leaves) > 0
      /\ \A leg \in {i.leaves, i.arrives} \cup i.fees : Fresh(leg)
  BY DEF Intents
<1> QED
  BY <1>1 DEF LegsOf, IsCash

\* What is added to a goal is new, of today and finite.
LEMMA AddedFacts ==
  ASSUME IInv, HistoriesFinite, NEW src, NEW dst, NEW i, Asked(src, dst, i),
         NEW g \in {src, dst}
  PROVE  /\ g \in Goals /\ history[g] \in SUBSET Entries /\ IsFiniteSet(history[g])
         /\ now \in Nat /\ \A e \in history[g] : e.at <= now
         /\ Added(g, src, dst, i) \in SUBSET Entries
         /\ IsFiniteSet(Added(g, src, dst, i))
         /\ history[g] \cap ({i.leaves, i.arrives} \cup i.fees) = {}
         /\ \A e \in Added(g, src, dst, i) : e.at = now
<1>1. i \in Intents /\ src \in Goals /\ dst \in Goals
  BY DEF Asked
<1>2. g \in Goals /\ history[g] \in SUBSET Entries /\ IsFiniteSet(history[g]) /\ now \in Nat
  BY <1>1 DEF IInv, TypeOK, HistoriesFinite
<1>3. \A e \in history[g] : e.at <= now
  BY DEF Asked, NothingAhead
<1>4. Added(g, src, dst, i) \subseteq ({i.leaves} \cup i.fees) \cup {i.arrives}
  BY DEF Added, LegsAt
<1>5. IsFiniteSet(({i.leaves} \cup i.fees) \cup {i.arrives})
  <2>1. IsFiniteSet(i.fees)
    BY <1>1, IntentFacts, SmallSets
  <2> QED
    BY <2>1, SmallSets
<1>6. ({i.leaves} \cup i.fees) \cup {i.arrives} \subseteq Entries
  BY <1>1, IntentFacts
<1>7. history[g] \cap ({i.leaves, i.arrives} \cup i.fees) = {}
  BY <1>1, <1>2, IntentFacts DEF Fresh
<1>8. \A e \in Added(g, src, dst, i) : e.at = now
  BY <1>1, <1>4, IntentFacts
<1> QED
  BY <1>2, <1>3, <1>4, <1>5, <1>6, <1>7, <1>8, FS_Subset

-----------------------------------------------------------------------------
(* What leaves the source.                                                 *)

\* The commission is added up like the entries of a balance.
LEMMA UnitsAreTotal ==
  ASSUME NEW T, IsFiniteSet(T)
  PROVE  MapThenSumSet(Units, T) = Total([e \in T |-> Units(e)], T)
<1> DEFINE w == [e \in T |-> Units(e)]
           Chosen(f) == f = [s \in SUBSET T |-> IF s = {} THEN 0
                               ELSE LET x == CHOOSE x \in s : TRUE IN Units(x) + f[s \ {x}]]
           g == CHOOSE f : Chosen(f)
<1>1. MapThenSumSet(Units, T) = g[T]
  BY DEF MapThenSumSet, MapThenFoldSet
<1>2. PICK f : IsSum(w, T, f)
  BY SumExists
<1>3. \A s \in SUBSET T : s # {} => w[Pick(s)] = Units(Pick(s))
  BY PickIn
<1>4. Chosen(f)
  <2>1. \A s \in SUBSET T : Round(w, f, s) =
          IF s = {} THEN 0 ELSE Units(Pick(s)) + f[s \ {Pick(s)}]
    BY <1>3 DEF Round
  <2> QED
    BY <1>2, <2>1 DEF IsSum, Pick
<1>5. Chosen(g)
  BY <1>4
<1>6. IsSum(w, T, g)
  <2>1. \A s \in SUBSET T : Round(w, g, s) =
          IF s = {} THEN 0 ELSE Units(Pick(s)) + g[s \ {Pick(s)}]
    BY <1>3 DEF Round
  <2> QED
    BY <1>5, <2>1 DEF IsSum, Pick
<1> HIDE DEF g, w
<1>7. PICK h : IsSum(w, T, h) /\ Total(w, T) = h[T]
  BY <1>2 DEF Total
<1>8. g = h
  BY <1>6, <1>7, SumUnique
<1> QED
  BY <1>1, <1>7, <1>8 DEF w

Field(i) == IF IsCash(i) THEN "amount" ELSE "quantity"

LEMMA DebitIsSum ==
  ASSUME NEW i \in Intents
  PROVE  Debit(i.leaves, i.fees) = i.leaves[Field(i)] + SumOf(Field(i), i.fees)
<1>1. \A leg \in {i.leaves} \cup i.fees : Units(leg) = leg[Field(i)]
  BY IntentFacts DEF Units, CashLegs, Field
<1>2. IsFiniteSet(i.fees)
  BY IntentFacts, SmallSets
<1> DEFINE v == [e \in i.fees |-> Units(e)]
           w == [e \in i.fees |-> e[Field(i)]]
<1>3. \A e \in i.fees : v[e] = w[e]
  BY <1>1
<1>4. MapThenSumSet(Units, i.fees) = Total(v, i.fees) /\ SumOf(Field(i), i.fees) = Total(w, i.fees)
  BY <1>2, UnitsAreTotal, SumIsTotal
<1> HIDE DEF v, w
<1>5. Total(v, i.fees) = Total(w, i.fees)
  BY <1>2, <1>3, TotalOfEqual
<1> QED
  BY <1>1, <1>4, <1>5 DEF Debit

\* One account of H pays x and the commission F, and another one receives A.
Pays(account, field, k, credits, debits, H, x, F, A) ==
  /\ credits \cap debits = {} /\ IsFiniteSet(H)
  /\ x \notin H /\ x[account] = k /\ x.type \in debits
  /\ F = {} \/ \E fee : F = {fee}
  /\ x \notin F /\ F \cap H = {}
  /\ \A fee \in F : fee[account] = k /\ fee.type \in debits
  /\ A = {} \/ \E a : A = {a}
  /\ x \notin A /\ A \cap (H \cup F) = {}
  /\ \A a \in A : ~(a[account] = k /\ a.type \in credits \cup debits)
  /\ \A e \in H \cup (({x} \cup F) \cup A) : e[field] \in Nat

Paid(field, x, F) == x[field] + SumOf(field, F)

LEMMA NetOfTransfer ==
  ASSUME NEW opening \in Int, NEW account, NEW field, NEW k, NEW credits, NEW debits,
         NEW H, NEW x, NEW F, NEW A, Pays(account, field, k, credits, debits, H, x, F, A)
  PROVE  /\ Net(opening, account, field, k, credits, debits, H) \in Int
         /\ Paid(field, x, F) \in Nat
         /\ Net(opening, account, field, k, credits, debits, H \cup (({x} \cup F) \cup A)) =
              Net(opening, account, field, k, credits, debits, H) - Paid(field, x, F)
<1>0. /\ credits \cap debits = {} /\ IsFiniteSet(H)
      /\ x \notin H /\ x[account] = k /\ x.type \in debits
      /\ F = {} \/ \E fee : F = {fee}
      /\ x \notin F /\ F \cap H = {}
      /\ \A fee \in F : fee[account] = k /\ fee.type \in debits
      /\ A = {} \/ \E a : A = {a}
      /\ x \notin A /\ A \cap (H \cup F) = {}
      /\ \A a \in A : ~(a[account] = k /\ a.type \in credits \cup debits)
      /\ \A e \in H \cup (({x} \cup F) \cup A) : e[field] \in Nat
  BY DEF Pays
<1> DEFINE N(E) == Net(opening, account, field, k, credits, debits, E)
           X == H \cup {x}
           Y == X \cup F
           Z == Y \cup A
<1>1. /\ N(H) \in Int /\ N(X) = N(H) - x[field] /\ N(X) \in Int /\ IsFiniteSet(X)
  <2>1. IsFiniteSet(X) /\ \A e \in H \cup {x} : e[field] \in Nat
    BY <1>0, FS_AddElement
  <2>2. N(H) \in Int /\ N(X) = N(H) + Moves(account, field, k, credits, debits, x)
    BY <1>0, <2>1, NetOfMore
  <2>3. x.type \notin credits /\ x[field] \in Nat
    BY <1>0
  <2>4. Moves(account, field, k, credits, debits, x) = -x[field]
    BY <1>0, <2>3 DEF Moves
  <2> HIDE DEF N, X
  <2> QED
    BY <2>1, <2>2, <2>3, <2>4
<1>2. N(Y) = N(X) - SumOf(field, F) /\ SumOf(field, F) \in Nat /\ IsFiniteSet(Y)
  <2>1. CASE F = {}
    <3>1. Y = X /\ SumOf(field, F) = 0
      BY <2>1, SumOfNone
    <3> HIDE DEF N, X, Y
    <3> QED
      BY <1>1, <3>1
  <2>2. CASE \E fee : F = {fee}
    <3>1. PICK fee : F = {fee}
      BY <2>2
    <3>2. /\ fee \notin X /\ fee[account] = k /\ fee.type \in debits /\ fee.type \notin credits
          /\ fee[field] \in Nat /\ Y = X \cup {fee}
          /\ \A e \in X \cup {fee} : e[field] \in Nat
      BY <1>0, <3>1
    <3>3. SumOf(field, F) = fee[field]
      <4>1. IsFiniteSet({}) /\ {} \cup {fee} = F /\ \A e \in {} \cup {fee} : e[field] \in Nat
        BY <3>1, <3>2, FS_EmptySet
      <4>2. SumOf(field, {} \cup {fee}) = fee[field] + SumOf(field, {})
        BY <4>1, SumOfMore
      <4>3. SumOf(field, F) = SumOf(field, {} \cup {fee})
        BY <4>1
      <4>4. SumOf(field, F) = fee[field] + 0
        BY <4>2, <4>3, SumOfNone
      <4> QED
        BY <3>2, <4>4
    <3>4. IsFiniteSet(Y)
      BY <1>1, <3>2, FS_AddElement
    <3>5. Moves(account, field, k, credits, debits, fee) = -fee[field]
      BY <3>2 DEF Moves
    <3>6. N(Y) = N(X) + Moves(account, field, k, credits, debits, fee)
      <4> HIDE DEF X, Y
      <4> QED
        BY <1>0, <1>1, <3>2, NetOfMore
    <3> HIDE DEF N, X, Y
    <3> QED
      BY <1>1, <3>2, <3>3, <3>4, <3>5, <3>6
  <2> QED
    BY <1>0, <2>1, <2>2
<1>3. N(Z) = N(Y)
  <2>1. CASE A = {}
    BY <2>1
  <2>2. CASE \E a : A = {a}
    <3>1. PICK a : A = {a}
      BY <2>2
    <3>2. credits \cap debits = {} /\ a \notin Y /\ \A e \in Y \cup {a} : e[field] \in Nat
      BY <1>0, <3>1
    <3>3. Moves(account, field, k, credits, debits, a) = 0
      BY <1>0, <3>1 DEF Moves
    <3>4. Z = Y \cup {a}
      BY <3>1
    <3>5. N(Y) \in Int /\ N(Z) = N(Y) + Moves(account, field, k, credits, debits, a)
      <4>1. IsFiniteSet(Y)
        BY <1>2
      <4> HIDE DEF Y, Z
      <4>2. /\ Net(opening, account, field, k, credits, debits, Y) \in Int
            /\ Net(opening, account, field, k, credits, debits, Y \cup {a}) =
                 Net(opening, account, field, k, credits, debits, Y)
                   + Moves(account, field, k, credits, debits, a)
        BY <3>2, <4>1, NetOfMore
      <4> QED
        BY <3>4, <4>2
    <3> HIDE DEF N, Y, Z
    <3> QED
      BY <3>3, <3>5
  <2> QED
    BY <1>0, <2>1, <2>2
<1>4. Z = H \cup (({x} \cup F) \cup A)
  OBVIOUS
<1>5. x[field] \in Nat
  BY <1>0
<1>6. N(Z) = N(H) - Paid(field, x, F) /\ Paid(field, x, F) \in Nat
  <2> HIDE DEF N, X, Y, Z
  <2> QED
    BY <1>1, <1>2, <1>3, <1>5 DEF Paid
<1> QED
  BY <1>1, <1>4, <1>6

\* The balance the source is left with.
LEMMA SourceBalance ==
  ASSUME IInv, HistoriesFinite, NEW src, NEW dst, NEW i, Asked(src, dst, i)
  PROVE  LET after == history[src] \cup Added(src, src, dst, i)
             debit == Debit(i.leaves, i.fees)
         IN /\ debit \in Nat /\ debit > 0
            /\ IsCash(i) =>
                 /\ CashBalance(src, i.leaves.cash, history[src]) \in Int
                 /\ CashBalance(src, i.leaves.cash, after) =
                      CashBalance(src, i.leaves.cash, history[src]) - debit
            /\ ~IsCash(i) =>
                 /\ PositionBalance(src, i.leaves.asset, history[src]) \in Int
                 /\ PositionBalance(src, i.leaves.asset, after) =
                      PositionBalance(src, i.leaves.asset, history[src]) - debit
<1> DEFINE H == history[src]
           x == i.leaves
           F == i.fees
           A == IF src = dst THEN {i.arrives} ELSE {}
           debit == Debit(x, F)
           M == Added(src, src, dst, i)
<1>1. i \in Intents /\ src \in Goals
  BY DEF Asked
<1>2. M = ({x} \cup F) \cup A
  BY DEF Added, LegsAt
<1>3. /\ H \in SUBSET Entries /\ IsFiniteSet(H) /\ M \in SUBSET Entries
      /\ x \notin H /\ F \cap H = {} /\ A \cap H = {}
  BY AddedFacts
<1>4. /\ x \in Entries
      /\ F = {} \/ \E fee : F = {fee}
      /\ A = {} \/ \E a : A = {a}
      /\ x \notin F /\ x \notin A /\ A \cap F = {}
  BY <1>1, IntentFacts
<1>5. \A e \in H \cup (({x} \cup F) \cup A) :
        e["amount"] \in Nat /\ e["quantity"] \in Nat
  BY <1>2, <1>3, EntryFields
<1>6. debit \in Nat /\ debit > 0 /\ debit = x[Field(i)] + SumOf(Field(i), F)
  <2>1. IsFiniteSet(F) /\ \A e \in F : e[Field(i)] \in Nat
    BY <1>1, <1>5, IntentFacts, SmallSets DEF Field
  <2>2. SumOf(Field(i), F) \in Nat
    BY <2>1, SumOfType
  <2>3. x[Field(i)] \in Nat /\ x[Field(i)] = Units(x) /\ Units(x) > 0
    BY <1>1, <1>5, IntentFacts DEF Units, CashLegs, Field
  <2>4. debit = x[Field(i)] + SumOf(Field(i), F)
    BY <1>1, DebitIsSum
  <2> HIDE DEF debit
  <2> QED
    BY <2>2, <2>3, <2>4
<1>7. CASE IsCash(i)
  <2> DEFINE k == x.cash
             o == Opening[src][k]
             account == "cash"
             field == "amount"
  <2>1. o \in Int
    BY <1>1, <1>4, EntryFields, GoalsAssumption
  <2>2. /\ x.type \in CashDebits /\ \A fee \in F : fee["cash"] = k /\ fee.type \in CashDebits
        /\ CashCredits \cap CashDebits = {}
    BY <1>1, <1>7, IntentFacts DEF CashCredits, CashDebits
  <2>3. \A a \in A : ~(a["cash"] = k)
    BY <1>1, <1>7, IntentFacts DEF Asked, Account, CashLegs
  <2>4. x["cash"] = k /\ \A a \in A : ~(a["cash"] = k /\ a.type \in CashCredits \cup CashDebits)
    BY <2>3
  <2>5. /\ Net(o, account, field, k, CashCredits, CashDebits, H) \in Int
        /\ Net(o, account, field, k, CashCredits, CashDebits, H \cup (({x} \cup F) \cup A)) =
             Net(o, account, field, k, CashCredits, CashDebits, H) - Paid(field, x, F)
    <3>1. Pays(account, field, k, CashCredits, CashDebits, H, x, F, A)
      <4>1. \A e \in H \cup (({x} \cup F) \cup A) : e[field] \in Nat
        BY <1>5
      <4>2. A \cap (H \cup F) = {}
        BY <1>3, <1>4
      <4> HIDE DEF H, x, F, A, k
      <4> QED
        BY <1>3, <1>4, <2>2, <2>4, <4>1, <4>2 DEF Pays
    <3> HIDE DEF H, x, F, A, k, o, account, field
    <3> QED
      BY <2>1, <3>1, NetOfTransfer
  <2>6. debit = Paid(field, x, F)
    BY <1>6, <1>7 DEF Field, Paid
  <2>7. /\ CashBalance(src, k, H) \in Int
        /\ CashBalance(src, k, H \cup M) = CashBalance(src, k, H) - debit
    BY <1>2, <2>5, <2>6, BalancesAreNet
  <2> QED
    BY <1>6, <1>7, <2>7
<1>8. CASE ~IsCash(i)
  <2> DEFINE k == x.asset
             o == Opening[src][k]
             account == "asset"
             field == "quantity"
  <2>1. o \in Int
    BY <1>1, <1>4, EntryFields, GoalsAssumption
  <2>2. /\ x.type \in AssetDebits /\ \A fee \in F : fee["asset"] = k /\ fee.type \in AssetDebits
        /\ AssetCredits \cap AssetDebits = {}
    BY <1>1, <1>8, IntentFacts DEF AssetCredits, AssetDebits
  <2>3. \A a \in A : ~(a["asset"] = k)
    BY <1>1, <1>8, IntentFacts DEF Asked, Account, CashLegs
  <2>4. x["asset"] = k /\ \A a \in A : ~(a["asset"] = k /\ a.type \in AssetCredits \cup AssetDebits)
    BY <2>3
  <2>5. /\ Net(o, account, field, k, AssetCredits, AssetDebits, H) \in Int
        /\ Net(o, account, field, k, AssetCredits, AssetDebits, H \cup (({x} \cup F) \cup A)) =
             Net(o, account, field, k, AssetCredits, AssetDebits, H) - Paid(field, x, F)
    <3>1. Pays(account, field, k, AssetCredits, AssetDebits, H, x, F, A)
      <4>1. \A e \in H \cup (({x} \cup F) \cup A) : e[field] \in Nat
        BY <1>5
      <4>2. A \cap (H \cup F) = {}
        BY <1>3, <1>4
      <4> HIDE DEF H, x, F, A, k
      <4> QED
        BY <1>3, <1>4, <2>2, <2>4, <4>1, <4>2 DEF Pays
    <3> HIDE DEF H, x, F, A, k, o, account, field
    <3> QED
      BY <2>1, <3>1, NetOfTransfer
  <2>6. debit = Paid(field, x, F)
    BY <1>6, <1>8 DEF Field, Paid
  <2>7. /\ PositionBalance(src, k, H) \in Int
        /\ PositionBalance(src, k, H \cup M) = PositionBalance(src, k, H) - debit
    BY <1>2, <2>5, <2>6, BalancesAreNet
  <2> QED
    BY <1>6, <1>8, <2>7
<1> QED
  BY <1>7, <1>8

-----------------------------------------------------------------------------
(* What the second validation of the execution finds.                      *)

LEMMA CoveredMeans ==
  ASSUME NEW g, NEW E
  PROVE  /\ CashCovered(g, E) <=> \A k \in CashAccounts :
              Covers(Opening[g][k], "cash", "amount", k, CashCredits, CashDebits, E)
         /\ PositionsCovered(g, E) <=> \A k \in Positions :
              Covers(Opening[g][k], "asset", "quantity", k, AssetCredits, AssetDebits, E)
<1>1. \A k, e : CashBalance(g, k, UpTo(E, e)) =
        Net(Opening[g][k], "cash", "amount", k, CashCredits, CashDebits, UpTo(E, e))
  BY BalancesAreNet
<1>2. \A k, e : PositionBalance(g, k, UpTo(E, e)) =
        Net(Opening[g][k], "asset", "quantity", k, AssetCredits, AssetDebits, UpTo(E, e))
  BY BalancesAreNet
<1> QED
  BY <1>1, <1>2 DEF CashCovered, PositionsCovered, Covers

\* Only the account the transfer leaves can be overdrawn by it.
LEMMA StaysCovered ==
  ASSUME IInv, HistoriesFinite, NEW src, NEW dst, NEW i, Asked(src, dst, i),
         NEW g \in {src, dst}
  PROVE  LET after == history[g] \cup Added(g, src, dst, i)
         IN /\ CashCovered(g, history[g])
               /\ (IsCash(i) /\ g = src => CashBalance(g, i.leaves.cash, after) >= 0)
                 => CashCovered(g, after)
            /\ PositionsCovered(g, history[g])
               /\ (~IsCash(i) /\ g = src => PositionBalance(g, i.leaves.asset, after) >= 0)
                 => PositionsCovered(g, after)
<1> DEFINE H == history[g]
           M == Added(g, src, dst, i)
<1>1. /\ g \in Goals /\ H \in SUBSET Entries /\ IsFiniteSet(H) /\ now \in Nat
      /\ \A e \in H : e.at <= now
      /\ M \in SUBSET Entries /\ IsFiniteSet(M)
      /\ \A e \in M : e.at = now
  BY AddedFacts
<1>2. \A e \in H \cup M : e["amount"] \in Nat /\ e["quantity"] \in Nat
  BY <1>1, EntryFields
<1>3. i \in Intents
  BY DEF Asked
<1>4. \A e \in M : e = i.arrives \/ (g = src /\ e \in {i.leaves} \cup i.fees)
  BY DEF Added, LegsAt
<1>5. i.arrives.type \notin CashDebits \cup AssetDebits
  BY <1>3, IntentFacts DEF CashDebits, AssetDebits
<1>6. \A e \in {i.leaves} \cup i.fees :
        /\ Priority(e) = 3 /\ e.cash = i.leaves.cash /\ e.asset = i.leaves.asset
        /\ e.type \in CashDebits => IsCash(i)
        /\ e.type \in AssetDebits => ~IsCash(i)
  <2>1. ASSUME NEW e \in {i.leaves} \cup i.fees
        PROVE  \/ e.type \in {"cash_out", "cash_fee"} /\ IsCash(i)
               \/ e.type \in {"asset_out", "asset_fee"} /\ ~IsCash(i)
    BY <1>3, IntentFacts
  <2>2. \A e : e.type \in {"cash_out", "cash_fee", "asset_out", "asset_fee"} => Priority(e) = 3
    BY DEF Priority
  <2>3. \A e \in {i.leaves} \cup i.fees : e.cash = i.leaves.cash /\ e.asset = i.leaves.asset
    BY <1>3, IntentFacts
  <2> QED
    BY <2>1, <2>2, <2>3 DEF CashDebits, AssetDebits
<1>7. ASSUME CashCovered(g, H),
             IsCash(i) /\ g = src => CashBalance(g, i.leaves.cash, H \cup M) >= 0,
             NEW k \in CashAccounts
      PROVE  Covers(Opening[g][k], "cash", "amount", k, CashCredits, CashDebits, H \cup M)
  <2> DEFINE o == Opening[g][k]
             account == "cash"
             field == "amount"
  <2>1. o \in Nat /\ Covers(o, account, field, k, CashCredits, CashDebits, H)
    BY <1>1, <1>7, CoveredMeans, GoalsAssumption
  <2>2. \A e \in H \cup M : e[field] \in Nat
    BY <1>2
  <2>3. \A e \in M : e[account] = k /\ e.type \in CashDebits =>
          /\ Priority(e) = 3
          /\ Net(o, account, field, k, CashCredits, CashDebits, H \cup M) >= 0
    <3>1. CashBalance(g, k, H \cup M) = Net(o, account, field, k, CashCredits, CashDebits, H \cup M)
      BY BalancesAreNet
    <3>2. ASSUME NEW e \in M, e[account] = k, e.type \in CashDebits
          PROVE  Priority(e) = 3 /\ CashBalance(g, k, H \cup M) >= 0
      BY <1>4, <1>5, <1>6, <1>7, <3>2
    <3> QED
      BY <3>1, <3>2
  <2> HIDE DEF H, M, o, account, field
  <2>4. Covers(o, account, field, k, CashCredits, CashDebits, H \cup M)
    BY <1>1, <2>1, <2>2, <2>3, CoveredWithLast
  <2> QED
    BY <2>4 DEF o, account, field
<1>8. ASSUME PositionsCovered(g, H),
             ~IsCash(i) /\ g = src => PositionBalance(g, i.leaves.asset, H \cup M) >= 0,
             NEW k \in Positions
      PROVE  Covers(Opening[g][k], "asset", "quantity", k, AssetCredits, AssetDebits, H \cup M)
  <2> DEFINE o == Opening[g][k]
             account == "asset"
             field == "quantity"
  <2>1. o \in Nat /\ Covers(o, account, field, k, AssetCredits, AssetDebits, H)
    BY <1>1, <1>8, CoveredMeans, GoalsAssumption
  <2>2. \A e \in H \cup M : e[field] \in Nat
    BY <1>2
  <2>3. \A e \in M : e[account] = k /\ e.type \in AssetDebits =>
          /\ Priority(e) = 3
          /\ Net(o, account, field, k, AssetCredits, AssetDebits, H \cup M) >= 0
    <3>1. PositionBalance(g, k, H \cup M)
            = Net(o, account, field, k, AssetCredits, AssetDebits, H \cup M)
      BY BalancesAreNet
    <3>2. ASSUME NEW e \in M, e[account] = k, e.type \in AssetDebits
          PROVE  Priority(e) = 3 /\ PositionBalance(g, k, H \cup M) >= 0
      BY <1>4, <1>5, <1>6, <1>8, <3>2
    <3> QED
      BY <3>1, <3>2
  <2> HIDE DEF H, M, o, account, field
  <2>4. Covers(o, account, field, k, AssetCredits, AssetDebits, H \cup M)
    BY <1>1, <2>1, <2>2, <2>3, CoveredWithLast
  <2> QED
    BY <2>4 DEF o, account, field
<1> QED
  BY <1>7, <1>8, CoveredMeans

\* Legs of assets do not make a goal track its cash.
LEMMA TrackingKept ==
  ASSUME NEW src, NEW dst, NEW i, Asked(src, dst, i), ~IsCash(i), NEW g
  PROVE  TracksCash(g, history[g] \cup Added(g, src, dst, i)) => TracksCash(g, history[g])
<1>1. i \in Intents
  BY DEF Asked
<1>2. \A e \in Added(g, src, dst, i) : e.type \in {"asset_out", "asset_in", "asset_fee"}
  BY <1>1, IntentFacts DEF Added, LegsAt
<1>3. \A e \in Added(g, src, dst, i) : e.type \notin CashLegs
  BY <1>2 DEF CashLegs
<1> QED
  BY <1>3 DEF TracksCash

\* What leaves is replayed last, so the balance it leaves is validated.
LEMMA LeavesLast ==
  ASSUME IInv, HistoriesFinite, NEW src, NEW dst, NEW i, Asked(src, dst, i)
  PROVE  LET after == history[src] \cup Added(src, src, dst, i)
         IN /\ IsCash(i) /\ CashCovered(src, after) =>
                 CashBalance(src, i.leaves.cash, after) >= 0
            /\ ~IsCash(i) /\ PositionsCovered(src, after) =>
                 PositionBalance(src, i.leaves.asset, after) >= 0
<1> DEFINE after == history[src] \cup Added(src, src, dst, i)
<1>1. i \in Intents /\ i.leaves \in Entries
  BY IntentFacts DEF Asked
<1>2. after \in SUBSET Entries /\ \A e \in after : e.at <= now
  <2>1. now \in Nat
    BY DEF IInv, TypeOK
  <2> QED
    BY <2>1, AddedFacts
<1>3. i.leaves \in after
  BY DEF Added, LegsAt
<1>4. i.leaves.at = now /\ Priority(i.leaves) = 3
  BY <1>1, IntentFacts DEF Priority
<1>5. UpTo(after, i.leaves) = after
  <2>1. \A e \in after : e.at \in Nat /\ Priority(e) \in 0..3
    BY <1>2, EntryFields
  <2>2. \A e \in after : e.at < now \/ e.at = now
    BY <1>2, <1>3, <1>4, <2>1
  <2> HIDE DEF after
  <2> QED
    BY <1>4, <2>1, <2>2 DEF UpTo
<1>6. i.leaves.cash \in CashAccounts /\ i.leaves.asset \in Positions
  BY <1>1, EntryFields
<1> QED
  BY <1>3, <1>5, <1>6 DEF CashCovered, PositionsCovered

-----------------------------------------------------------------------------
(* The form and the execution.                                             *)

LEMMA NothingHidden ==
  ASSUME NEW src, NEW dst, NEW i, Asked(src, dst, i)
  PROVE  Happened(src) = history[src]
BY DEF Asked, NothingAhead, Happened

\* What the form computes of the account the transfer leaves.
Offered(src, i) ==
  IF IsCash(i) THEN AvailableCash(src, i.leaves.cash)
  ELSE AvailablePosition(src, i.leaves.asset)

IsSource(s, src, i) == s \in Sources(src) /\ s.account = Account(i.leaves)

LEMMA OfferedIsSource ==
  ASSUME IInv, NEW src, NEW dst, NEW i, Asked(src, dst, i)
  PROVE  /\ \A s : IsSource(s, src, i) =>
              Found(src) /\ CanSend(src) /\ s.units > 0 /\ s.units = Offered(src, i)
         /\ Found(src) /\ CanSend(src) /\ Offered(src, i) > 0 =>
              \E s : IsSource(s, src, i)
<1>1. i \in Intents /\ i.leaves \in Entries
  BY IntentFacts DEF Asked
<1>2. i.leaves.cash \in CashAccounts /\ i.leaves.asset \in Positions
  BY <1>1, EntryFields
<1>3. Account(i.leaves) = IF IsCash(i) THEN i.leaves.cash ELSE i.leaves.asset
  BY <1>1, IntentFacts DEF Account, CashLegs
<1> DEFINE CashSources == {[account |-> k, units |-> AvailableCash(src, k)] : k \in CashAccounts}
           UnitSources == {[account |-> k, units |-> AvailablePosition(src, k)] : k \in Positions}
<1>4. \A s : s \in Sources(src) <=>
        s \in CashSources \cup UnitSources /\ Found(src) /\ CanSend(src) /\ s.units > 0
  BY DEF Sources
<1>5. CASE IsCash(i)
  <2>1. \A s \in CashSources \cup UnitSources : s.account = i.leaves.cash =>
          s.units = AvailableCash(src, i.leaves.cash)
    BY <1>2, KindsAssumption
  <2>2. \E s \in CashSources \cup UnitSources :
          s.account = i.leaves.cash /\ s.units = AvailableCash(src, i.leaves.cash)
    <3> DEFINE r == [account |-> i.leaves.cash, units |-> AvailableCash(src, i.leaves.cash)]
    <3>1. r \in CashSources /\ r.account = i.leaves.cash /\ r.units = AvailableCash(src, i.leaves.cash)
      BY <1>2
    <3> HIDE DEF r, CashSources, UnitSources
    <3> QED
      BY <3>1
  <2>3. Offered(src, i) = AvailableCash(src, i.leaves.cash) /\ Account(i.leaves) = i.leaves.cash
    BY <1>3, <1>5 DEF Offered
  <2> HIDE DEF CashSources, UnitSources
  <2>4. ASSUME NEW s, IsSource(s, src, i)
        PROVE  Found(src) /\ CanSend(src) /\ s.units > 0 /\ s.units = Offered(src, i)
    <3>1. s \in Sources(src) /\ s.account = i.leaves.cash
      BY <2>3, <2>4 DEF IsSource
    <3>2. s \in CashSources \cup UnitSources /\ Found(src) /\ CanSend(src) /\ s.units > 0
      BY <1>4, <3>1
    <3> QED
      BY <2>1, <2>3, <3>1, <3>2
  <2>5. ASSUME Found(src), CanSend(src), Offered(src, i) > 0
        PROVE  \E s : IsSource(s, src, i)
    <3>1. PICK s \in CashSources \cup UnitSources :
            s.account = i.leaves.cash /\ s.units = Offered(src, i)
      BY <2>2, <2>3
    <3>2. s.units > 0
      BY <2>5, <3>1
    <3>3. s \in Sources(src)
      BY <1>4, <2>5, <3>2
    <3>4. IsSource(s, src, i)
      BY <2>3, <3>1, <3>3 DEF IsSource
    <3> QED
      BY <3>4
  <2> QED
    BY <2>4, <2>5
<1>6. CASE ~IsCash(i)
  <2>1. \A s \in CashSources \cup UnitSources : s.account = i.leaves.asset =>
          s.units = AvailablePosition(src, i.leaves.asset)
    BY <1>2, KindsAssumption
  <2>2. \E s \in CashSources \cup UnitSources :
          s.account = i.leaves.asset /\ s.units = AvailablePosition(src, i.leaves.asset)
    <3> DEFINE r == [account |-> i.leaves.asset, units |-> AvailablePosition(src, i.leaves.asset)]
    <3>1. r \in UnitSources /\ r.account = i.leaves.asset /\ r.units = AvailablePosition(src, i.leaves.asset)
      BY <1>2
    <3> HIDE DEF r, CashSources, UnitSources
    <3> QED
      BY <3>1
  <2>3. Offered(src, i) = AvailablePosition(src, i.leaves.asset) /\ Account(i.leaves) = i.leaves.asset
    BY <1>3, <1>6 DEF Offered
  <2> HIDE DEF CashSources, UnitSources
  <2>4. ASSUME NEW s, IsSource(s, src, i)
        PROVE  Found(src) /\ CanSend(src) /\ s.units > 0 /\ s.units = Offered(src, i)
    <3>1. s \in Sources(src) /\ s.account = i.leaves.asset
      BY <2>3, <2>4 DEF IsSource
    <3>2. s \in CashSources \cup UnitSources /\ Found(src) /\ CanSend(src) /\ s.units > 0
      BY <1>4, <3>1
    <3> QED
      BY <2>1, <2>3, <3>1, <3>2
  <2>5. ASSUME Found(src), CanSend(src), Offered(src, i) > 0
        PROVE  \E s : IsSource(s, src, i)
    <3>1. PICK s \in CashSources \cup UnitSources :
            s.account = i.leaves.asset /\ s.units = Offered(src, i)
      BY <2>2, <2>3
    <3>2. s.units > 0
      BY <2>5, <3>1
    <3>3. s \in Sources(src)
      BY <1>4, <2>5, <3>2
    <3>4. IsSource(s, src, i)
      BY <2>3, <3>1, <3>3 DEF IsSource
    <3> QED
      BY <3>4
  <2> QED
    BY <2>4, <2>5
<1> QED
  BY <1>5, <1>6

\* Postable, over the state a session opened now reads.
Posts(src, dst, i) ==
  Postable(Seen(src, dst), src, dst, i.leaves, i.arrives, i.fees, now)

LEMMA PostsMeans ==
  ASSUME NEW src, NEW dst, NEW i, Asked(src, dst, i)
  PROVE  Posts(src, dst, i) <=>
           /\ StartDate[src] <= now
           /\ \A g \in {src, dst} :
                /\ Found(g) /\ goal[g].lock = NoLock /\ goal[g].status = "active"
                /\ Valid(g, history[g], IsCash(i), now)
                /\ Valid(g, history[g] \cup Added(g, src, dst, i), IsCash(i), now)
<1>1. i.leaves.at = now /\ StartDate[dst] <= now
  BY IntentFacts DEF Asked
<1>2. \A g \in {src, dst} :
        Seen(src, dst)[g].doc = goal[g] /\ Seen(src, dst)[g].entries = history[g]
  BY DEF Seen
<1> QED
  BY <1>1, <1>2 DEF Posts, Postable, Started, Available, Found, IsCash, Added

\* The source of a posted transfer is offered, with what the transfer takes.
LEMMA PostedIsPreviewed ==
  ASSUME IInv, HistoriesFinite, NEW src, NEW dst, NEW i, Asked(src, dst, i), Posts(src, dst, i)
  PROVE  Previewed(src, dst, i.leaves, i.fees)
<1> DEFINE H == history[src]
           after == H \cup Added(src, src, dst, i)
           debit == Debit(i.leaves, i.fees)
<1>1. /\ StartDate[src] <= now
      /\ \A g \in {src, dst} :
           /\ Found(g) /\ goal[g].lock = NoLock /\ goal[g].status = "active"
           /\ Valid(g, history[g], IsCash(i), now)
           /\ Valid(g, history[g] \cup Added(g, src, dst, i), IsCash(i), now)
  BY PostsMeans
<1>2. dst \in Destinations
  BY <1>1 DEF Destinations, Asked
<1>3. Found(src) /\ CanSend(src)
  BY <1>1 DEF CanSend
<1>4. Happened(src) = H
  BY NothingHidden
<1>5. debit \in Nat /\ debit > 0 /\ Offered(src, i) \in Int /\ debit <= Offered(src, i)
  <2>1. CASE IsCash(i)
    <3>1. CashCovered(src, H) /\ CashCovered(src, after)
      BY <1>1, <2>1 DEF Valid
    <3>2. Offered(src, i) = CashBalance(src, i.leaves.cash, H)
      BY <1>4, <2>1, <3>1 DEF Offered, AvailableCash, CashProjects
    <3>3. CashBalance(src, i.leaves.cash, after) >= 0
      BY <2>1, <3>1, LeavesLast
    <3>4. /\ debit \in Nat /\ debit > 0 /\ CashBalance(src, i.leaves.cash, H) \in Int
          /\ CashBalance(src, i.leaves.cash, after) = CashBalance(src, i.leaves.cash, H) - debit
      BY <2>1, SourceBalance
    <3> HIDE DEF H, after, debit
    <3> QED
      BY <3>2, <3>3, <3>4
  <2>2. CASE ~IsCash(i)
    <3>1. PositionsCovered(src, after)
      BY <1>1 DEF Valid
    <3>2. Offered(src, i) = PositionBalance(src, i.leaves.asset, H)
      BY <1>4, <2>2 DEF Offered, AvailablePosition
    <3>3. PositionBalance(src, i.leaves.asset, after) >= 0
      BY <2>2, <3>1, LeavesLast
    <3>4. /\ debit \in Nat /\ debit > 0 /\ PositionBalance(src, i.leaves.asset, H) \in Int
          /\ PositionBalance(src, i.leaves.asset, after) =
               PositionBalance(src, i.leaves.asset, H) - debit
      BY <2>2, SourceBalance
    <3> HIDE DEF H, after, debit
    <3> QED
      BY <3>2, <3>3, <3>4
  <2> QED
    BY <2>1, <2>2
<1>6. Offered(src, i) > 0
  <2> HIDE DEF debit
  <2> QED
    BY <1>5
<1>7. \E s : IsSource(s, src, i) /\ debit <= s.units
  BY <1>3, <1>5, <1>6, OfferedIsSource
<1> QED
  BY <1>2, <1>7 DEF Previewed, IsSource

\* What the form offers is enough for both histories to be validated twice.
LEMMA PreviewedIsPosted ==
  ASSUME IInv, HistoriesFinite, NEW src, NEW dst, NEW i, Asked(src, dst, i),
         Previewed(src, dst, i.leaves, i.fees)
  PROVE  Posts(src, dst, i)
<1> DEFINE debit == Debit(i.leaves, i.fees)
           After(g) == history[g] \cup Added(g, src, dst, i)
<1>1. PICK s : IsSource(s, src, i) /\ debit <= s.units
  BY DEF Previewed, IsSource
<1>2. /\ Found(src) /\ CanSend(src) /\ Offered(src, i) > 0 /\ debit <= Offered(src, i)
  BY <1>1, OfferedIsSource
<1>3. /\ src \in Goals /\ dst \in Goals /\ i \in Intents
      /\ dst \in Destinations /\ Found(dst) /\ StartDate[src] <= now /\ StartDate[dst] <= now
      /\ \A g \in {src, dst} : goal[g].lock = NoLock /\ goal[g].status = "active"
  BY <1>2 DEF Asked, Previewed, Destinations, CanSend
<1>4. Happened(src) = history[src]
  BY NothingHidden
<1>5. /\ IsCash(i) => CashCovered(src, history[src]) /\ CashCovered(dst, history[dst])
      /\ IsCash(i) => CashBalance(src, i.leaves.cash, After(src)) >= 0
      /\ ~IsCash(i) => PositionBalance(src, i.leaves.asset, After(src)) >= 0
  <2>1. CASE IsCash(i)
    <3>1. CashCovered(src, history[src]) /\ Offered(src, i) = CashBalance(src, i.leaves.cash, history[src])
      BY <1>2, <1>4, <2>1 DEF Offered, AvailableCash, CashProjects
    <3>2. CashCovered(dst, history[dst])
      BY <2>1 DEF Asked, DestinationReads, IsCash
    <3>3. /\ debit \in Nat /\ CashBalance(src, i.leaves.cash, history[src]) \in Int
          /\ CashBalance(src, i.leaves.cash, After(src)) =
               CashBalance(src, i.leaves.cash, history[src]) - debit
      BY <2>1, SourceBalance
    <3>4. CashBalance(src, i.leaves.cash, After(src)) >= 0
      <4> HIDE DEF debit, After
      <4> QED
        BY <1>2, <3>1, <3>3
    <3> QED
      BY <2>1, <3>1, <3>2, <3>4
  <2>2. CASE ~IsCash(i)
    <3>1. Offered(src, i) = PositionBalance(src, i.leaves.asset, history[src])
      BY <1>4, <2>2 DEF Offered, AvailablePosition
    <3>2. /\ debit \in Nat /\ PositionBalance(src, i.leaves.asset, history[src]) \in Int
          /\ PositionBalance(src, i.leaves.asset, After(src)) =
               PositionBalance(src, i.leaves.asset, history[src]) - debit
      BY <2>2, SourceBalance
    <3>3. PositionBalance(src, i.leaves.asset, After(src)) >= 0
      <4> HIDE DEF debit, After
      <4> QED
        BY <1>2, <3>1, <3>2
    <3> QED
      BY <2>2, <3>3
  <2> QED
    BY <2>1, <2>2
<1>6. ASSUME NEW g \in {src, dst}
      PROVE  Valid(g, history[g], IsCash(i), now) /\ Valid(g, After(g), IsCash(i), now)
  <2>1. Valid(g, history[g], FALSE, now)
    BY <1>3 DEF IInv, LedgerSound
  <2>2. Valid(g, history[g], IsCash(i), now)
    BY <1>5, <2>1 DEF Valid
  <2>3. \A e \in After(g) : Dated(g, e, now)
    <3>1. \A e \in Added(g, src, dst, i) : e.at = now
      BY AddedFacts
    <3>2. now \in Nat /\ StartDate[g] <= now
      BY <1>3 DEF IInv, TypeOK
    <3> QED
      BY <2>1, <3>1, <3>2 DEF Valid, Dated
  <2>4. PositionsCovered(g, After(g))
    BY <1>5, <2>1, StaysCovered DEF Valid
  <2>5. IsCash(i) \/ TracksCash(g, After(g)) => CashCovered(g, After(g))
    <3>1. CASE IsCash(i)
      BY <1>5, <3>1, StaysCovered
    <3>2. CASE ~IsCash(i) /\ TracksCash(g, After(g))
      <4>1. CashCovered(g, history[g])
        BY <2>1, <3>2, TrackingKept DEF Valid
      <4> QED
        BY <3>2, <4>1, StaysCovered
    <3> QED
      BY <3>1, <3>2
  <2> QED
    BY <2>2, <2>3, <2>4, <2>5 DEF Valid
<1>7. Found(src) /\ Found(dst)
  BY <1>2, <1>3
<1> QED
  BY <1>3, <1>6, <1>7, PostsMeans

\* For any goals, histories, amounts and commissions: what execute() would post
\* now is offered and previewed by the form, and what preview() accepts is
\* posted if nothing happens in between (TransferFormService, which computes
\* the balances of today, and TransferExecutionService, which replays both
\* histories before and after).
THEOREM PreviewsAreKept == Spec => []PreviewKept
<1>1. ASSUME IInv, HistoriesFinite
      PROVE  PreviewKept
  <2>1. ASSUME NEW src \in Goals, NEW dst \in Goals, NEW i \in Intents,
               src # dst \/ Account(i.leaves) # Account(i.arrives),
               StartDate[dst] <= now, NothingAhead(src), NothingAhead(dst),
               DestinationReads(dst, i.leaves)
        PROVE  Postable(Seen(src, dst), src, dst, i.leaves, i.arrives, i.fees, now)
                 <=> Previewed(src, dst, i.leaves, i.fees)
    <3>1. Asked(src, dst, i)
      BY <2>1 DEF Asked
    <3>2. Posts(src, dst, i) <=> Previewed(src, dst, i.leaves, i.fees)
      BY <1>1, <3>1, PostedIsPreviewed, PreviewedIsPosted
    <3> QED
      BY <3>2 DEF Posts
  <2> QED
    BY <2>1 DEF PreviewKept
<1> QED
  BY <1>1, LedgerIsFinite, PTL
=============================================================================
