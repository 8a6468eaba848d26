--------------------------- MODULE TransfersProof ---------------------------
(***************************************************************************)
(* Proofs about Transfers, for any servers, requests, keys and intents:    *)
(* however transfers are requested, retried, refused and interrupted, the  *)
(* ledger takes only steps of module Ledger, so what is proved of the      *)
(* ledger holds of a system with transfers; the legs in the ledgers are    *)
(* those of the completed rows; and a key keeps what it promises.          *)
(***************************************************************************)
EXTENDS Transfers, LedgerProof

RequestType ==
  {Idle} \cup [phase: {"count", "insert"}, server: Servers, key: Keys,
               intent: Intents, at: 0..MaxTime]

\* What the proof needs to know of a row: its legs are entries.
RowsInv ==
  /\ rows \subseteq Row
  /\ request \in [Requests -> RequestType]
  /\ now \in 1..MaxTime

LEMMA RowFacts ==
  ASSUME RowsInv, NEW row \in rows
  PROVE  /\ row.id \in Ids /\ row.intent \in Intents /\ row.at \in 0..MaxTime
         /\ row.intent.source.goal \in Goals /\ row.intent.destination.goal \in Goals
         /\ GoalsOf(row.intent) \in GoalSets
<1>1. row.id \in Ids /\ row.intent \in Intents /\ row.at \in 0..MaxTime
  BY DEF RowsInv, Row
<1>2. row.intent.source.goal \in Goals /\ row.intent.destination.goal \in Goals
  BY <1>1, TransfersAssumption DEF Intent, Endpoint
<1> QED
  BY <1>1, <1>2 DEF GoalsOf, GoalSets

LEMMA RequestKeepsRows ==
  ASSUME RowsInv, NEW r \in Requests, RequestProgress(r)
  PROVE  RowsInv'
<1>1. request \in [Requests -> RequestType] /\ now \in 0..MaxTime
  BY LedgerAssumption DEF RowsInv
<1>2. ASSUME NEW s \in Servers, NEW k \in Keys, NEW intent \in Intents,
             Submit(r, s, k, intent)
      PROVE  RowsInv'
  <2>1. [phase |-> "count", server |-> s, key |-> k, intent |-> intent, at |-> 0]
          \in RequestType
    BY LedgerAssumption DEF RequestType
  <2> QED
    BY <1>1, <1>2, <2>1 DEF RowsInv, Submit, Answer, RequestType, vars
<1>3. CASE CountGoals(r)
  <2>1. request[r].phase = "count" /\ request[r] \in RequestType
    BY <1>1, <1>3 DEF CountGoals
  <2>2. request[r] # Idle
    BY <2>1 DEF Idle
  <2>3. [request[r] EXCEPT !.phase = "insert", !.at = now] \in RequestType
    BY <1>1, <2>1, <2>2 DEF RequestType
  <2>4. request' = [request EXCEPT ![r] = [@ EXCEPT !.phase = "insert", !.at = now]]
    BY <1>3, <1>1 DEF CountGoals
  <2> QED
    BY <1>1, <1>3, <2>3, <2>4 DEF RowsInv, CountGoals, vars
<1>4. ASSUME NEW i \in Ids, Insert(r, i)
      PROVE  RowsInv'
  <2>1. request[r].phase = "insert" /\ request[r] \in RequestType
    BY <1>1, <1>4 DEF Insert
  <2>2. request[r] # Idle
    BY <2>1 DEF Idle
  <2>3. NewRow(r, i) \in Row
    BY <2>1, <2>2 DEF NewRow, Row, RequestType
  <2>4. rows' = rows \cup {NewRow(r, i)} /\ request' = [request EXCEPT ![r] = Idle]
    BY <1>4 DEF Insert, Answer
  <2> QED
    BY <1>1, <1>4, <2>3, <2>4 DEF RowsInv, RequestType, Insert, vars
<1>5. CASE Duplicate(r)
  BY <1>1, <1>5 DEF RowsInv, Duplicate, Answer, RequestType, vars
<1>6. CASE GiveUp(r)
  BY <1>1, <1>6 DEF RowsInv, GiveUp, RequestType, vars
<1> QED
  BY <1>2, <1>3, <1>4, <1>5, <1>6 DEF RequestProgress

LEMMA WorkKeepsRows ==
  ASSUME RowsInv, NEW w \in Workers, WorkStep(w)
  PROVE  RowsInv'
<1> SUFFICES UNCHANGED <<request, now>> /\ rows' \subseteq Row
  BY DEF RowsInv
<1>1. \A row \in rows : [row EXCEPT !.status = "completed"] \in Row
                       /\ [row EXCEPT !.status = "rejected"] \in Row
  BY DEF RowsInv, Row
<1>2. ASSUME NEW row \in rows, StartWork(w, row) \/ BeginWork(w, row) \/ SkipWork(w, row)
                                \/ Refuse(w, row)
      PROVE  UNCHANGED <<request, now>> /\ rows' = rows
  BY <1>2 DEF StartWork, BeginWork, SkipWork, Refuse, Begin, CommitUnchanged, Abandon, vars
<1>3. ASSUME NEW row \in rows, Post(w, row) \/ Reject(w, row)
      PROVE  UNCHANGED <<request, now>> /\ rows' \subseteq Row
  BY <1>1, <1>3 DEF Post, Completed, Reject, PostTransfer, vars, RowsInv
<1>4. CASE Restart(w) \/ Fail(w) \/ Expire(w)
  BY <1>4 DEF Restart, Fail, Expire, Abandon, vars, transferVars, RowsInv
<1> QED
  BY <1>2, <1>3, <1>4 DEF WorkStep, RowsInv

\* A worker moves the ledger as some writer of module Ledger does, or not at all.
LEMMA WorkIsLedgerStep ==
  ASSUME RowsInv, NEW w \in Workers, WorkStep(w)
  PROVE  [Next]_vars
<1>1. w \in Flows
  BY TransfersAssumption
<1>2. ASSUME NEW row \in rows, StartWork(w, row) \/ Reject(w, row)
      PROVE  UNCHANGED vars
  BY <1>2 DEF StartWork, Reject
<1>3. ASSUME NEW row \in rows, BeginWork(w, row) \/ SkipWork(w, row)
      PROVE  RequestStep(w)
  BY <1>3, RowFacts DEF BeginWork, SkipWork, RequestStep
<1>4. ASSUME NEW row \in rows, Post(w, row)
      PROVE  TransferStep(w)
  <2> DEFINE leaves == Leaves(row.id, row.intent, row.at)
             arrives == Arrives(row.id, row.intent, row.at)
             fees == Fees(row.id, row.intent, row.at)
  <2>1. {leaves, arrives} \cup fees \subseteq Entries
    BY RowFacts, TransfersAssumption DEF Legs
  <2>2. fees \in {{}} \cup {{fee} : fee \in Entries}
    BY <2>1 DEF Fees
  <2>3. PostTransfer(w, row.intent.source.goal, row.intent.destination.goal,
                     leaves, arrives, fees)
    BY <1>4 DEF Post
  <2> HIDE DEF leaves, arrives, fees
  <2> QED
    BY <2>1, <2>2, <2>3, RowFacts DEF TransferStep
<1>5. ASSUME NEW row \in rows, Refuse(w, row)
      PROVE  RequestStep(w)
  BY <1>5 DEF Refuse, RequestStep
<1>6. ASSUME Restart(w) \/ Fail(w) \/ Expire(w)
      PROVE  RequestStep(w) \/ UNCHANGED vars
  BY <1>6 DEF Restart, Fail, Expire, RequestStep
<1> QED
  BY <1>1, <1>2, <1>3, <1>4, <1>5, <1>6 DEF WorkStep, Next

\* Requests do not move the clock.
LEMMA RequestKeepsTime ==
  ASSUME NEW f \in Flows, RequestStep(f)
  PROVE  now' = now
<1>1. ASSUME NEW g \in Goals, EntryStep(f, g)
      PROVE  now' = now
  BY <1>1 DEF EntryStep, CreateEntry, UpdateEntry, RemoveEntry, Rewrite
<1>2. ASSUME NEW g \in Goals, NEW c \in Corrections, CorrectionStep(f, g, c)
      PROVE  now' = now
  BY <1>2 DEF CorrectionStep, EditContribution, VoidContribution, VoidUnpublished,
     SubmitCorrection
<1>3. ASSUME NEW a \in adjustments, NEW applied \in BOOLEAN, FinishCorrection(f, a, applied)
      PROVE  now' = now
  BY <1>3 DEF FinishCorrection, Unlock
<1>4. ASSUME NEW g \in Goals, (\E s \in Statuses : UpdateGoal(f, g, s)) \/ RemoveGoal(f, g)
                                \/ \E e \in Entries : PublishContribution(f, g, e)
      PROVE  now' = now
  BY <1>4 DEF UpdateGoal, RemoveGoal, PublishContribution
<1>5. ASSUME (\E gs \in GoalSets : Begin(f, gs) \/ CommitUnchanged(f, gs)) \/ Abandon(f)
      PROVE  now' = now
  BY <1>5 DEF Begin, CommitUnchanged, Abandon
<1> QED
  BY <1>1, <1>2, <1>3, <1>4, <1>5 DEF RequestStep

\* The same of every other step.
LEMMA StepIsLedgerStep ==
  ASSUME RowsInv, [TransfersNext]_allVars
  PROVE  RowsInv' /\ [Next]_vars
<1>1. ASSUME NEW r \in Requests, RequestProgress(r)
      PROVE  UNCHANGED vars
  BY <1>1 DEF RequestProgress, Submit, CountGoals, Insert, Duplicate, GiveUp
<1>2. CASE \E s \in Servers, row \in rows : Retry(s, row)
  BY <1>2 DEF Retry, RowsInv, vars
<1>3. CASE \E s \in Servers : Crash(s)
  <2>1. PICK s \in Servers : Crash(s)
    BY <1>3
  <2>2. request' = [r \in Requests |->
          IF request[r] # Idle /\ request[r].server = s THEN Idle ELSE request[r]]
    BY <2>1 DEF Crash
  <2>3. request' \in [Requests -> RequestType]
    BY <2>2 DEF RowsInv, RequestType
  <2> QED
    BY <2>1, <2>3 DEF Crash, RowsInv, vars
<1>4. CASE OtherStep
  <2>1. [Next]_vars
    BY <1>4 DEF OtherStep, Next
  <2>2. now' \in 1..MaxTime
    <3>1. CASE \E f \in Flows \ Workers : RequestStep(f)
      BY <3>1, RequestKeepsTime DEF RowsInv
    <3>2. CASE (\E g \in Goals, s \in Statuses : CreateGoal(g, s)) \/ Tick
      BY <3>2, LedgerAssumption DEF CreateGoal, Tick, RowsInv
    <3> QED
      BY <1>4, <3>1, <3>2 DEF OtherStep
  <2> QED
    BY <1>4, <2>1, <2>2 DEF OtherStep, transferVars, RowsInv
<1>5. CASE UNCHANGED allVars
  BY <1>5 DEF allVars, vars, transferVars, RowsInv
<1> QED
  BY <1>1, <1>2, <1>3, <1>4, <1>5, RequestKeepsRows, WorkKeepsRows, WorkIsLedgerStep
     DEF TransfersNext

LEMMA TransfersInitInv == TransfersInit => Init /\ RowsInv
BY LedgerAssumption DEF TransfersInit, Init, RowsInv, RequestType

\* Transfers implement the ledger.
THEOREM TransfersRefineLedger == TransfersSpec => Spec
<1>1. RowsInv /\ [TransfersNext]_allVars => RowsInv' /\ [Next]_vars
  BY StepIsLedgerStep
<1> QED
  BY <1>1, TransfersInitInv, PTL DEF TransfersSpec, Spec

\* A system with transfers keeps every ledger sound.
THEOREM TransfersKeepLedgersSound == TransfersSpec => []LedgerSound
BY TransfersRefineLedger, LedgerIsSound, PTL

-----------------------------------------------------------------------------
(* What a step does to the rows and to the legs in the ledgers.            *)

Moved(E) == {e \in E : e.type \in LegTypes}

LegsKept == \A g \in Goals : Moved(history'[g]) = Moved(history[g])

Accepted ==
  \E row \in Row :
    /\ row.status = "pending"
    /\ \A other \in rows : other.id # row.id /\ other.key # row.key
    /\ rows' = rows \cup {row}

Becomes(row, status) ==
  /\ row.status = "pending"
  /\ rows' = (rows \ {row}) \cup {[row EXCEPT !.status = status]}

Executed(row) ==
  /\ Becomes(row, "completed")
  /\ \A g \in Goals : Moved(history'[g]) = Moved(history[g]) \cup LegsIn(g, row)

RowsStep ==
  \/ LegsKept /\ (rows' = rows \/ Accepted \/ \E row \in rows : Becomes(row, "rejected"))
  \/ \E row \in rows : Executed(row)

\* The cutoff of validate() keeps requests off the legs.
LEMMA RequestKeepsLegs ==
  ASSUME IInv, PlansWriteNoLegs, NEW f \in Flows, RequestStep(f)
  PROVE  LegsKept
<1> SUFFICES ASSUME NEW g \in Goals PROVE Moved(history'[g]) = Moved(history[g])
  BY DEF LegsKept
<1>1. ASSUME NEW removed, NEW added, Revision(g, removed, added)
      PROVE  Moved(history'[g]) = Moved(history[g])
  <2>1. history[g] \in SUBSET Entries
    BY DEF IInv, TypeOK
  <2>2. \A e \in removed : e.type \notin LegTypes
    BY <1>1, <2>1, LegsAreNotRevised DEF Revision
  <2> QED
    BY <1>1, <2>2 DEF Revision, Moved
<1>2. Rewritten(g)
  BY RequestOn
<1> QED
  BY <1>1, <1>2 DEF Rewritten, EntriesKept, Revised, Corrected

\* The legs execute() inserts are those of the row, each in its goal.
LEMMA LegsOfRow ==
  ASSUME RowsInv, NEW row \in rows, NEW g \in Goals
  PROVE  LegsIn(g, row) =
           LegsAt(g, row.intent.source.goal, row.intent.destination.goal,
                  Leaves(row.id, row.intent, row.at), Arrives(row.id, row.intent, row.at),
                  Fees(row.id, row.intent, row.at))
<1> DEFINE leaves == Leaves(row.id, row.intent, row.at)
           arrives == Arrives(row.id, row.intent, row.at)
           fees == Fees(row.id, row.intent, row.at)
           d == LegIds[row.id].destination
<1>1. leaves.id # d /\ arrives.id = d /\ \A fee \in fees : fee.id # d
  <2>1. row.id \in Ids
    BY RowFacts
  <2>2. leaves.id = LegIds[row.id].source /\ arrives.id = d
          /\ \A fee \in fees : fee.id = LegIds[row.id].commission
    BY DEF Leaves, Arrives, Fees, Leg
  <2>3. LegIds[row.id]["source"] # d /\ LegIds[row.id]["commission"] # d
    BY <2>1, LegIdsAssumption DEF AllSides
  <2> HIDE DEF leaves, arrives, fees, d
  <2> QED
    BY <2>2, <2>3
<1>2. Legs(row.id, row.intent, row.at) = {leaves, arrives} \cup fees
  BY DEF Legs
<1> HIDE DEF leaves, arrives, fees, d
<1>3. QED
  BY <1>1, <1>2 DEF LegsIn, LegsAt, d, leaves, arrives, fees

LEMMA LegsAreLegs ==
  ASSUME NEW i, NEW intent, NEW t, NEW leg \in Legs(i, intent, t)
  PROVE  leg.type \in LegTypes
BY DEF Legs, Leaves, Arrives, Fees, Leg, LegTypes, CashLegs, AssetLegs

LEMMA PostExecutes ==
  ASSUME IInv, RowsInv, NEW w \in Workers, NEW row \in rows, Post(w, row)
  PROVE  Executed(row)
<1>1. Becomes(row, "completed")
  BY DEF Post, Completed, Becomes
<1>2. ASSUME NEW g \in Goals
      PROVE  Moved(history'[g]) = Moved(history[g]) \cup LegsIn(g, row)
  <2>1. history'[g] = history[g] \cup LegsIn(g, row)
    BY LegsOfRow DEF Post, PostTransfer
  <2>2. \A leg \in LegsIn(g, row) : leg.type \in LegTypes
    BY LegsAreLegs DEF LegsIn
  <2> QED
    BY <2>1, <2>2 DEF Moved
<1> QED
  BY <1>1, <1>2 DEF Executed

LEMMA EveryRowsStep ==
  ASSUME IInv, PlansWriteNoLegs, RowsInv, [TransfersNext]_allVars
  PROVE  RowsStep
<1> USE DEF RowsStep, LegsKept
<1>1. ASSUME NEW r \in Requests, RequestProgress(r)
      PROVE  RowsStep
  <2>1. UNCHANGED vars
    BY <1>1 DEF RequestProgress, Submit, CountGoals, Insert, Duplicate, GiveUp
  <2>2. ASSUME NEW i \in Ids, Insert(r, i)
        PROVE  Accepted
    <3>1. request[r].phase = "insert" /\ request[r] \in RequestType
      BY <2>2 DEF Insert, RowsInv
    <3>2. request[r] # Idle
      BY <3>1 DEF Idle
    <3>3. NewRow(r, i) \in Row /\ NewRow(r, i).status = "pending"
            /\ NewRow(r, i).id = i /\ NewRow(r, i).key = request[r].key
      BY <3>1, <3>2 DEF NewRow, Row, RequestType
    <3>4. rows' = rows \cup {NewRow(r, i)} /\ \A row \in rows : row.id # i
            /\ row.key # request[r].key
      BY <2>2 DEF Insert, KeyFree, RowsOf
    <3> QED
      BY <3>3, <3>4 DEF Accepted
  <2>3. rows' = rows \/ \E i \in Ids : Insert(r, i)
    BY <1>1 DEF RequestProgress, Submit, CountGoals, Duplicate, GiveUp
  <2> QED
    BY <2>1, <2>2, <2>3 DEF vars
<1>2. CASE \E s \in Servers, row \in rows : Retry(s, row)
  BY <1>2 DEF Retry, vars
<1>3. CASE \E s \in Servers : Crash(s)
  BY <1>3 DEF Crash, vars
<1>4. ASSUME NEW w \in Workers, WorkStep(w)
      PROVE  RowsStep
  <2>1. ASSUME NEW row \in rows, Post(w, row)
        PROVE  RowsStep
    BY <2>1, PostExecutes
  <2>2. ASSUME NEW row \in rows, Reject(w, row)
        PROVE  RowsStep
    BY <2>2 DEF Reject, Becomes, vars
  <2>3. ASSUME NEW row \in rows,
               StartWork(w, row) \/ BeginWork(w, row) \/ SkipWork(w, row) \/ Refuse(w, row)
        PROVE  UNCHANGED <<rows, history>>
    BY <2>3 DEF StartWork, BeginWork, SkipWork, Refuse, Begin, CommitUnchanged, Abandon, vars
  <2>4. CASE Restart(w) \/ Fail(w) \/ Expire(w)
    BY <2>4 DEF Restart, Fail, Expire, Abandon, vars, transferVars
  <2> QED
    BY <1>4, <2>1, <2>2, <2>3, <2>4 DEF WorkStep
<1>5. CASE OtherStep
  <2>1. ASSUME NEW f \in Flows, RequestStep(f)
        PROVE  LegsKept
    BY <2>1, RequestKeepsLegs
  <2> QED
    BY <1>5, <2>1 DEF OtherStep, transferVars, CreateGoal, Tick
<1>6. CASE UNCHANGED allVars
  BY <1>6 DEF allVars, vars, transferVars
<1> QED
  BY <1>1, <1>2, <1>3, <1>4, <1>5, <1>6 DEF TransfersNext

-----------------------------------------------------------------------------
(* Debit, credit and commission are one.                                   *)

\* The ledgers are those of Ledger and the rows hold intents and dates.
BaseInv == IInv /\ PlansWriteNoLegs /\ RowsInv

LEMMA BaseInvariant == TransfersSpec => []BaseInv
<1>1. TransfersInit => RowsInv
  BY TransfersInitInv
<1>2. RowsInv /\ [TransfersNext]_allVars => RowsInv'
  BY StepIsLedgerStep
<1>3. TransfersSpec => []RowsInv
  BY <1>1, <1>2, PTL DEF TransfersSpec
<1> QED
  BY <1>3, TransfersRefineLedger, StepsInductive, PTL DEF BaseInv

\* What the completed rows put into a goal.
LegsDue(R, g) ==
  UNION {LegsIn(g, row) : row \in {r \in R : r.status = "completed" /\ g \in GoalsOf(r.intent)}}

LEMMA LegsDueIs ==
  ASSUME NEW R, NEW g, NEW leg
  PROVE  leg \in LegsDue(R, g) <=>
           \E row \in R : row.status = "completed" /\ leg \in LegsIn(g, row)
<1>1. \A row : LegsIn(g, row) # {} => g \in GoalsOf(row.intent)
  BY DEF LegsIn, GoalsOf
<1> QED
  BY <1>1 DEF LegsDue

\* A row that is settled changes its status and nothing else.
LEMMA BecomesIs ==
  ASSUME RowsInv, NEW row \in rows, NEW s, Becomes(row, s)
  PROVE  \E new : /\ rows' = (rows \ {row}) \cup {new}
                  /\ row.status = "pending" /\ new.status = s
                  /\ new.id = row.id /\ new.key = row.key
                  /\ new.intent = row.intent /\ new.at = row.at
<1>1. row \in Row
  BY DEF RowsInv
<1> WITNESS [row EXCEPT !.status = s]
<1> QED
  BY <1>1 DEF Becomes, Row

LEMMA LegsDueGrows ==
  ASSUME RowsInv, RowsStep, NEW g \in Goals
  PROVE  \/ LegsKept /\ LegsDue(rows', g) = LegsDue(rows, g)
         \/ \E row \in rows : Executed(row)
              /\ LegsDue(rows', g) = LegsDue(rows, g) \cup LegsIn(g, row)
<1>1. CASE rows' = rows /\ LegsKept
  BY <1>1
<1>2. CASE Accepted /\ LegsKept
  <2>1. \A leg : leg \in LegsDue(rows', g) <=> leg \in LegsDue(rows, g)
    BY <1>2, LegsDueIs DEF Accepted
  <2> QED
    BY <1>2, <2>1
<1>3. ASSUME NEW row \in rows, Becomes(row, "rejected"), LegsKept
      PROVE  LegsDue(rows', g) = LegsDue(rows, g)
  <2>1. PICK new : /\ rows' = (rows \ {row}) \cup {new}
                   /\ row.status = "pending" /\ new.status = "rejected"
    BY <1>3, BecomesIs
  <2>2. \A leg : leg \in LegsDue(rows', g) <=> leg \in LegsDue(rows, g)
    BY <2>1, LegsDueIs
  <2> QED
    BY <2>2
<1>4. ASSUME NEW row \in rows, Executed(row)
      PROVE  LegsDue(rows', g) = LegsDue(rows, g) \cup LegsIn(g, row)
  <2>1. PICK new : /\ rows' = (rows \ {row}) \cup {new}
                   /\ row.status = "pending" /\ new.status = "completed"
                   /\ new.id = row.id /\ new.intent = row.intent /\ new.at = row.at
    BY <1>4, BecomesIs DEF Executed
  <2>2. LegsIn(g, new) = LegsIn(g, row)
    BY <2>1 DEF LegsIn
  <2>3. \A leg : leg \in LegsDue(rows', g) <=> leg \in LegsDue(rows, g) \/ leg \in LegsIn(g, row)
    BY <2>1, <2>2, LegsDueIs
  <2> QED
    BY <2>3
<1> QED
  BY <1>1, <1>2, <1>3, <1>4 DEF RowsStep

\* No ledger holds a leg of a transfer that is not completed, and a completed one
\* has all of its legs, each in its goal, whichever servers ran it, how often
\* and whatever they were doing when they died (execute()).
THEOREM AllLegsOrNone == TransfersSpec => []DoubleEntry
<1>1. DoubleEntry <=> \A g \in Goals : Moved(history[g]) = LegsDue(rows, g)
  BY DEF DoubleEntry, Moved, LegsDue
<1>2. TransfersInit => DoubleEntry
  BY <1>1 DEF TransfersInit, Init, Moved, LegsDue
<1>3. BaseInv /\ DoubleEntry /\ [TransfersNext]_allVars => DoubleEntry'
  <2> SUFFICES ASSUME BaseInv, DoubleEntry, [TransfersNext]_allVars, NEW g \in Goals
               PROVE  Moved(history'[g]) = LegsDue(rows', g)
    BY DEF DoubleEntry, Moved, LegsDue
  <2>1. RowsStep
    BY EveryRowsStep DEF BaseInv
  <2> QED
    BY <1>1, <2>1, LegsDueGrows DEF BaseInv, LegsKept, Executed
<1> QED
  BY <1>2, <1>3, BaseInvariant, PTL DEF TransfersSpec

-----------------------------------------------------------------------------
(* A key names one transfer.                                               *)

\* Neither two rows of one id nor two of one key.
RowsApart == \A a, b \in rows : a.id = b.id \/ a.key = b.key => a = b

\* The requests that were answered got the row of their key.
Answered(given) ==
  \E row \in rows : row.key = given.key /\ row.id = given.id /\ row.intent = given.intent

RowsApartInv == RowsApart /\ \A given \in answers : Answered(given)

LEMMA RowsStayApart ==
  ASSUME RowsInv, RowsApart, RowsStep
  PROVE  RowsApart'
<1>1. CASE rows' = rows
  BY <1>1 DEF RowsApart
<1>2. CASE Accepted
  BY <1>2 DEF Accepted, RowsApart
<1>3. ASSUME NEW row \in rows, NEW s, Becomes(row, s)
      PROVE  RowsApart'
  <2>1. PICK new : /\ rows' = (rows \ {row}) \cup {new}
                   /\ new.id = row.id /\ new.key = row.key
    BY <1>3, BecomesIs
  <2> QED
    BY <2>1 DEF RowsApart
<1> QED
  BY <1>1, <1>2, <1>3 DEF RowsStep, Executed

\* A row once inserted keeps its key, id and intent.
LEMMA AnswersHold ==
  ASSUME RowsInv, RowsStep, NEW given, Answered(given)
  PROVE  Answered(given)'
<1>1. ASSUME NEW row \in rows, NEW s, Becomes(row, s)
      PROVE  Answered(given)'
  <2>1. PICK new : /\ rows' = (rows \ {row}) \cup {new}
                   /\ new.id = row.id /\ new.key = row.key /\ new.intent = row.intent
    BY <1>1, BecomesIs
  <2> QED
    BY <2>1 DEF Answered
<1>2. CASE rows' = rows \/ Accepted
  BY <1>2 DEF Accepted, Answered
<1> QED
  BY <1>1, <1>2 DEF RowsStep, Executed

\* Every new answer is of a row that asks the same.
LEMMA NewAnswers ==
  ASSUME [TransfersNext]_allVars, NEW given \in answers' \ answers
  PROVE  Answered(given)'
<1>1. ASSUME NEW r, NEW s, NEW row \in rows', NEW intent, Answer(r, s, row, intent)
      PROVE  Answered(given)'
  BY <1>1 DEF Answer, Answered
<1>2. ASSUME NEW r \in Requests, RequestProgress(r)
      PROVE  Answered(given)'
  <2>1. ASSUME NEW s \in Servers, NEW k \in Keys, NEW intent \in Intents, Submit(r, s, k, intent)
        PROVE  Answered(given)'
    BY <1>1, <2>1 DEF Submit, RowsOf
  <2>2. ASSUME NEW i \in Ids, Insert(r, i)
        PROVE  Answered(given)'
    BY <1>1, <2>2 DEF Insert
  <2>3. CASE Duplicate(r)
    BY <1>1, <2>3 DEF Duplicate, RowsOf
  <2> QED
    BY <1>2, <2>1, <2>2, <2>3 DEF RequestProgress, CountGoals, GiveUp
<1>3. CASE \E s \in Servers, row \in rows : Retry(s, row)
  BY <1>3 DEF Retry
<1>4. ASSUME NEW w \in Workers, WorkStep(w)
      PROVE  answers' = answers
  BY <1>4 DEF WorkStep, StartWork, BeginWork, SkipWork, Post, Refuse, Reject, Restart, Fail,
              Expire, transferVars
<1>5. CASE (\E s \in Servers : Crash(s)) \/ OtherStep \/ UNCHANGED allVars
  BY <1>5 DEF Crash, OtherStep, allVars, transferVars
<1> QED
  BY <1>2, <1>3, <1>4, <1>5 DEF TransfersNext

LEMMA KeysInvariant == TransfersSpec => []RowsApartInv
<1>1. TransfersInit => RowsApartInv
  BY DEF TransfersInit, RowsApartInv, RowsApart
<1>2. BaseInv /\ RowsApartInv /\ [TransfersNext]_allVars => RowsApartInv'
  <2> SUFFICES ASSUME BaseInv, RowsApartInv, [TransfersNext]_allVars
               PROVE  RowsApart' /\ \A given \in answers' : Answered(given)'
    BY DEF RowsApartInv
  <2>1. RowsStep
    BY EveryRowsStep DEF BaseInv
  <2> QED
    BY <2>1, RowsStayApart, AnswersHold, NewAnswers DEF BaseInv, RowsApartInv
<1> QED
  BY <1>1, <1>2, BaseInvariant, PTL DEF TransfersSpec

\* However many requests race with one key, on however many servers, one row
\* stands for it and whoever was answered got that row and what he asked for
\* (accept() and its unique index).
THEOREM KeysAreUnique == TransfersSpec => []OneTransferPerKey
<1>1. RowsApartInv => OneTransferPerKey
  BY DEF RowsApartInv, RowsApart, Answered, OneTransferPerKey
<1> QED
  BY <1>1, KeysInvariant, PTL

-----------------------------------------------------------------------------
(* A key keeps its promise.  What TransferPromise sees of a key is a       *)
(* function of the rows R and the ledgers H; once the legs are those of    *)
(* the completed rows, it is a function of the row of the key.             *)

RowsFor(R, k) == {row \in R : row.key = k}

TermsIn(R) ==
  [k \in Keys |-> IF RowsFor(R, k) = {} THEN NoIntent
                  ELSE (CHOOSE row \in RowsFor(R, k) : TRUE).intent]

OutcomeIn(R) ==
  [k \in Keys |-> IF RowsFor(R, k) = {} THEN "unknown"
                  ELSE (CHOOSE row \in RowsFor(R, k) : TRUE).status]

PostedIn(R, H) ==
  [k \in Keys |->
     {side \in AllSides : \E row \in RowsFor(R, k), g \in Goals : \E e \in H[g] :
        e.id = LegIds[row.id][side]}]

\* The rows are apart and the ledgers hold the legs that are due.
Matching(R, H) ==
  /\ R \subseteq Row /\ H \in [Goals -> SUBSET Entries]
  /\ \A a, b \in R : a.id = b.id \/ a.key = b.key => a = b
  /\ \A g \in Goals : Moved(H[g]) = LegsDue(R, g)

LEMMA LegIdsApart ==
  ASSUME NEW i \in Ids, NEW j \in Ids, NEW a \in AllSides, NEW b \in AllSides,
         LegIds[i][a] = LegIds[j][b]
  PROVE  i = j /\ a = b
BY LegIdsAssumption

LEMMA SidesOfLegs ==
  ASSUME NEW i, NEW intent, NEW t
  PROVE  /\ \A leg \in Legs(i, intent, t) :
              \E side \in SidesOf(intent) : leg.id = LegIds[i][side]
         /\ \A side \in SidesOf(intent) :
              \E leg \in Legs(i, intent, t) : leg.id = LegIds[i][side]
         /\ SidesOf(intent) \subseteq AllSides
<1>1. /\ Leaves(i, intent, t).id = LegIds[i]["source"]
      /\ Arrives(i, intent, t).id = LegIds[i]["destination"]
  BY DEF Leaves, Arrives, Leg
<1>2. CASE intent.fee = 0
  BY <1>1, <1>2 DEF Legs, Fees, SidesOf, AllSides
<1>3. CASE intent.fee # 0
  <2>1. PICK fee : Fees(i, intent, t) = {fee} /\ fee.id = LegIds[i]["commission"]
    <3> DEFINE fee == Leg(LegIds[i].commission, IF IsCash(intent) THEN "cash_fee" ELSE "asset_fee",
                          intent.source, intent.fee, t)
    <3>1. Fees(i, intent, t) = {fee}
      BY <1>3 DEF Fees
    <3>2. fee.id = LegIds[i]["commission"]
      BY DEF Leg
    <3> HIDE DEF fee
    <3> QED
      BY <3>1, <3>2
  <2>2. SidesOf(intent) = AllSides
    BY <1>3 DEF SidesOf, AllSides
  <2>3. Legs(i, intent, t) = {Leaves(i, intent, t), Arrives(i, intent, t), fee}
    BY <2>1 DEF Legs
  <2> QED
    BY <1>1, <2>1, <2>2, <2>3 DEF AllSides
<1> QED
  BY <1>2, <1>3

LEMMA RowTypes ==
  ASSUME NEW row \in Row
  PROVE  /\ row.id \in Ids /\ row.key \in Keys /\ row.intent \in Intents
         /\ row.at \in 0..MaxTime
         /\ row.intent.source.goal \in Goals /\ row.intent.destination.goal \in Goals
<1>1. row.id \in Ids /\ row.key \in Keys /\ row.intent \in Intents /\ row.at \in 0..MaxTime
  BY DEF Row
<1> QED
  BY <1>1, TransfersAssumption DEF Intent, Endpoint

\* A side of a transfer is in some ledger when its row is completed and pays it.
LEMMA SideInLedger ==
  ASSUME NEW R, NEW H, Matching(R, H), NEW row \in R, NEW side \in AllSides
  PROVE  (\E g \in Goals : \E e \in H[g] : e.id = LegIds[row.id][side])
           <=> row.status = "completed" /\ side \in SidesOf(row.intent)
<1>1. row \in Row
  BY DEF Matching
<1>2. ASSUME NEW g \in Goals, NEW e \in H[g], e.id = LegIds[row.id][side]
      PROVE  row.status = "completed" /\ side \in SidesOf(row.intent)
  <2>1. e \in Entries
    BY DEF Matching
  <2>2. e \in LegsDue(R, g)
    BY <1>1, <1>2, <2>1, RowTypes, LegIdsAssumption DEF Matching, Moved
  <2>3. PICK other \in R : other.status = "completed" /\ e \in LegsIn(g, other)
    BY <2>2, LegsDueIs
  <2>4. PICK s \in SidesOf(other.intent) : e.id = LegIds[other.id][s]
    BY <2>3, SidesOfLegs DEF LegsIn
  <2>5. other.id = row.id /\ s = side
    <3>1. other.id \in Ids /\ row.id \in Ids
      BY RowTypes DEF Matching
    <3>2. s \in AllSides
      BY SidesOfLegs
    <3>3. LegIds[other.id][s] = LegIds[row.id][side]
      BY <1>2, <2>4
    <3> QED
      BY <3>1, <3>2, <3>3, LegIdsApart
  <2>6. other = row
    BY <2>5 DEF Matching
  <2> QED
    BY <2>3, <2>4, <2>5, <2>6
<1>3. ASSUME row.status = "completed", side \in SidesOf(row.intent)
      PROVE  \E g \in Goals : \E e \in H[g] : e.id = LegIds[row.id][side]
  <2>1. PICK leg \in Legs(row.id, row.intent, row.at) : leg.id = LegIds[row.id][side]
    BY <1>3, SidesOfLegs
  <2>2. PICK g \in Goals : leg \in LegsIn(g, row)
    BY <1>1, RowTypes DEF LegsIn
  <2>3. leg \in Moved(H[g])
    BY <1>3, <2>2, LegsDueIs DEF Matching
  <2> QED
    BY <2>1, <2>3 DEF Moved
<1> QED
  BY <1>2, <1>3

\* What the promise sees of a key that has a row, and of one that has none.
LEMMA SeenOfKey ==
  ASSUME NEW R, NEW H, Matching(R, H)
  PROVE  /\ \A row \in R :
              /\ TermsIn(R)[row.key] = row.intent
              /\ OutcomeIn(R)[row.key] = row.status
              /\ PostedIn(R, H)[row.key] =
                   IF row.status = "completed" THEN SidesOf(row.intent) ELSE {}
         /\ \A k \in Keys : (\A row \in R : row.key # k) =>
              /\ TermsIn(R)[k] = NoIntent
              /\ OutcomeIn(R)[k] = "unknown"
              /\ PostedIn(R, H)[k] = {}
<1>1. ASSUME NEW row \in R
      PROVE  /\ row.key \in Keys /\ RowsFor(R, row.key) = {row}
             /\ PostedIn(R, H)[row.key] =
                  IF row.status = "completed" THEN SidesOf(row.intent) ELSE {}
  <2>1. row.key \in Keys /\ RowsFor(R, row.key) = {row}
    BY RowTypes DEF Matching, RowsFor
  <2>2. PostedIn(R, H)[row.key] =
          {side \in AllSides : \E g \in Goals : \E e \in H[g] : e.id = LegIds[row.id][side]}
    BY <2>1 DEF PostedIn
  <2>3. \A side \in AllSides : side \in PostedIn(R, H)[row.key]
          <=> row.status = "completed" /\ side \in SidesOf(row.intent)
    BY <2>2, SideInLedger
  <2>4. PostedIn(R, H)[row.key] \subseteq AllSides /\ SidesOf(row.intent) \subseteq AllSides
    BY <2>2, SidesOfLegs
  <2> QED
    BY <2>1, <2>3, <2>4
<1>2. ASSUME NEW k \in Keys, \A row \in R : row.key # k
      PROVE  RowsFor(R, k) = {} /\ PostedIn(R, H)[k] = {}
  BY <1>2 DEF RowsFor, PostedIn
<1>3. \A row \in R : (CHOOSE r \in {row} : TRUE) = row
  OBVIOUS
<1>4. ASSUME NEW row \in R
      PROVE  TermsIn(R)[row.key] = row.intent /\ OutcomeIn(R)[row.key] = row.status
  BY <1>1, <1>3 DEF TermsIn, OutcomeIn
<1>5. ASSUME NEW k \in Keys, \A row \in R : row.key # k
      PROVE  TermsIn(R)[k] = NoIntent /\ OutcomeIn(R)[k] = "unknown"
  BY <1>2, <1>5 DEF TermsIn, OutcomeIn
<1> QED
  BY <1>1, <1>2, <1>4, <1>5

\* The invariant of the refinement.
PromiseInv == BaseInv /\ RowsApartInv /\ DoubleEntry

LEMMA PromiseInvariant == TransfersSpec => []PromiseInv
BY BaseInvariant, KeysInvariant, AllLegsOrNone, PTL DEF PromiseInv

LEMMA PromiseInvMatches ==
  /\ PromiseInv => Matching(rows, history)
  /\ PromiseInv' => Matching(rows', history')
BY DEF PromiseInv, BaseInv, RowsInv, RowsApartInv, RowsApart, DoubleEntry, IInv, TypeOK,
       Matching, Moved, LegsDue

\* What a step shows of the keys: nothing, or one key that is accepted, posted
\* with all of its sides, or refused.
SeenStep(terms, outcome, posted, t, o, p) ==
  \/ t = terms /\ o = outcome /\ p = posted
  \/ \E k \in Keys :
       \/ /\ outcome[k] = "pending"
          /\ o = [outcome EXCEPT ![k] = "completed"]
          /\ p = [posted EXCEPT ![k] = SidesOf(terms[k])] /\ t = terms
       \/ outcome[k] = "pending" /\ o = [outcome EXCEPT ![k] = "rejected"]
            /\ t = terms /\ p = posted
       \/ \E intent \in Intents :
            /\ outcome[k] = "unknown"
            /\ t = [terms EXCEPT ![k] = intent]
            /\ o = [outcome EXCEPT ![k] = "pending"] /\ p = posted

\* What is seen is seen of each key.
OfKeys(f) == f = [k \in Keys |-> f[k]]

LEMMA SeenOfKeys ==
  ASSUME NEW R, NEW H
  PROVE  OfKeys(TermsIn(R)) /\ OfKeys(OutcomeIn(R)) /\ OfKeys(PostedIn(R, H))
<1>1. OfKeys(TermsIn(R))
  BY DEF OfKeys, TermsIn
<1>2. OfKeys(OutcomeIn(R))
  BY DEF OfKeys, OutcomeIn
<1>3. OfKeys(PostedIn(R, H))
  BY DEF OfKeys, PostedIn
<1> QED
  BY <1>1, <1>2, <1>3

LEMMA ChangedAt ==
  ASSUME NEW f, NEW g, OfKeys(f), OfKeys(g), NEW key \in Keys,
         \A k \in Keys \ {key} : g[k] = f[k]
  PROVE  g = [f EXCEPT ![key] = g[key]]
BY DEF OfKeys

\* One key's row changed or appeared.
Replaces(R, S, new) ==
  /\ new \in S /\ S \subseteq R \cup {new}
  /\ \A row \in R \ S : row.key = new.key

Seen(R, H, S, G, new) ==
  /\ TermsIn(S) = [TermsIn(R) EXCEPT ![new.key] = new.intent]
  /\ OutcomeIn(S) = [OutcomeIn(R) EXCEPT ![new.key] = new.status]
  /\ PostedIn(S, G) =
       [PostedIn(R, H) EXCEPT ![new.key] =
          IF new.status = "completed" THEN SidesOf(new.intent) ELSE {}]

LEMMA OneKeyChanges ==
  ASSUME NEW R, NEW H, NEW S, NEW G, Matching(R, H), Matching(S, G),
         NEW new, Replaces(R, S, new)
  PROVE  Seen(R, H, S, G, new)
<1>0. new \in S /\ S \subseteq R \cup {new} /\ \A row \in R \ S : row.key = new.key
  BY DEF Replaces
<1>1. new.key \in Keys
  BY <1>0, RowTypes DEF Matching
<1>2. ASSUME NEW k \in Keys \ {new.key}
      PROVE  /\ TermsIn(S)[k] = TermsIn(R)[k] /\ OutcomeIn(S)[k] = OutcomeIn(R)[k]
             /\ PostedIn(S, G)[k] = PostedIn(R, H)[k]
  <2>1. CASE \A row \in R : row.key # k
    <3>1. \A row \in S : row.key # k
      BY <1>0, <2>1
    <3>2. /\ TermsIn(R)[k] = NoIntent /\ OutcomeIn(R)[k] = "unknown"
          /\ PostedIn(R, H)[k] = {}
      BY <2>1, SeenOfKey
    <3>3. /\ TermsIn(S)[k] = NoIntent /\ OutcomeIn(S)[k] = "unknown"
          /\ PostedIn(S, G)[k] = {}
      BY <3>1, SeenOfKey
    <3> QED
      BY <3>2, <3>3
  <2>2. ASSUME NEW row \in R, row.key = k
        PROVE  /\ TermsIn(S)[k] = TermsIn(R)[k] /\ OutcomeIn(S)[k] = OutcomeIn(R)[k]
               /\ PostedIn(S, G)[k] = PostedIn(R, H)[k]
    <3>1. row \in S
      BY <1>0, <2>2
    <3> QED
      BY <2>2, <3>1, SeenOfKey
  <2> QED
    BY <2>1, <2>2
<1>3. /\ TermsIn(S)[new.key] = new.intent /\ OutcomeIn(S)[new.key] = new.status
      /\ PostedIn(S, G)[new.key] = IF new.status = "completed" THEN SidesOf(new.intent) ELSE {}
  BY <1>0, SeenOfKey
<1>4. /\ OfKeys(TermsIn(R)) /\ OfKeys(OutcomeIn(R)) /\ OfKeys(PostedIn(R, H))
      /\ OfKeys(TermsIn(S)) /\ OfKeys(OutcomeIn(S)) /\ OfKeys(PostedIn(S, G))
  BY SeenOfKeys
<1>5. TermsIn(S) = [TermsIn(R) EXCEPT ![new.key] =
        new.intent]
  <2> DEFINE f == TermsIn(R)
             g == TermsIn(S)
  <2>1. /\ OfKeys(f) /\ OfKeys(g) /\ g[new.key] = new.intent
        /\ \A k \in Keys \ {new.key} : g[k] = f[k]
    BY <1>2, <1>3, <1>4
  <2> HIDE DEF f, g
  <2>2. g = [f EXCEPT ![new.key] = g[new.key]]
    BY <1>1, <2>1, ChangedAt
  <2> QED
    BY <2>1, <2>2 DEF f, g
<1>6. OutcomeIn(S) = [OutcomeIn(R) EXCEPT ![new.key] =
        new.status]
  <2> DEFINE f == OutcomeIn(R)
             g == OutcomeIn(S)
  <2>1. /\ OfKeys(f) /\ OfKeys(g) /\ g[new.key] = new.status
        /\ \A k \in Keys \ {new.key} : g[k] = f[k]
    BY <1>2, <1>3, <1>4
  <2> HIDE DEF f, g
  <2>2. g = [f EXCEPT ![new.key] = g[new.key]]
    BY <1>1, <2>1, ChangedAt
  <2> QED
    BY <2>1, <2>2 DEF f, g
<1>7. PostedIn(S, G) = [PostedIn(R, H) EXCEPT ![new.key] =
        IF new.status = "completed" THEN SidesOf(new.intent) ELSE {}]
  <2> DEFINE f == PostedIn(R, H)
             g == PostedIn(S, G)
  <2>1. /\ OfKeys(f) /\ OfKeys(g) /\ g[new.key] = IF new.status = "completed" THEN SidesOf(new.intent) ELSE {}
        /\ \A k \in Keys \ {new.key} : g[k] = f[k]
    BY <1>2, <1>3, <1>4
  <2> HIDE DEF f, g
  <2>2. g = [f EXCEPT ![new.key] = g[new.key]]
    BY <1>1, <2>1, ChangedAt
  <2> QED
    BY <2>1, <2>2 DEF f, g
<1> QED
  BY <1>5, <1>6, <1>7 DEF Seen

LEMMA SeenAccepted ==
  ASSUME NEW terms, NEW outcome, NEW posted, NEW t, NEW o, NEW p,
         NEW k \in Keys, NEW intent \in Intents, outcome[k] = "unknown",
         t = [terms EXCEPT ![k] = intent], o = [outcome EXCEPT ![k] = "pending"],
         p = posted
  PROVE  SeenStep(terms, outcome, posted, t, o, p)
BY DEF SeenStep

LEMMA SeenCompleted ==
  ASSUME NEW terms, NEW outcome, NEW posted, NEW t, NEW o, NEW p, NEW k \in Keys,
         outcome[k] = "pending", o = [outcome EXCEPT ![k] = "completed"],
         p = [posted EXCEPT ![k] = SidesOf(terms[k])], t = terms
  PROVE  SeenStep(terms, outcome, posted, t, o, p)
BY DEF SeenStep

LEMMA SeenRejected ==
  ASSUME NEW terms, NEW outcome, NEW posted, NEW t, NEW o, NEW p, NEW k \in Keys,
         outcome[k] = "pending", o = [outcome EXCEPT ![k] = "rejected"],
         t = terms, p = posted
  PROVE  SeenStep(terms, outcome, posted, t, o, p)
BY DEF SeenStep

LEMMA PromiseStep ==
  ASSUME PromiseInv, PromiseInv', RowsStep
  PROVE  SeenStep(TermsIn(rows), OutcomeIn(rows), PostedIn(rows, history),
                  TermsIn(rows'), OutcomeIn(rows'), PostedIn(rows', history'))
<1>1. Matching(rows, history) /\ Matching(rows', history')
  BY PromiseInvMatches
<1>2. CASE rows' = rows
  <2>1. ASSUME NEW k \in Keys
        PROVE  PostedIn(rows', history')[k] = PostedIn(rows, history)[k]
    <3>1. CASE \A row \in rows : row.key # k
      <4>1. PostedIn(rows, history)[k] = {}
        BY <1>1, <3>1, SeenOfKey
      <4>2. PostedIn(rows', history')[k] = {}
        BY <1>1, <1>2, <3>1, SeenOfKey
      <4> QED
        BY <4>1, <4>2
    <3>2. ASSUME NEW row \in rows, row.key = k
          PROVE  PostedIn(rows', history')[k] = PostedIn(rows, history)[k]
      <4> DEFINE sides == IF row.status = "completed" THEN SidesOf(row.intent) ELSE {}
      <4>1. PostedIn(rows, history)[row.key] = sides
        BY <1>1, SeenOfKey
      <4>2. PostedIn(rows', history')[row.key] = sides
        BY <1>1, <1>2, SeenOfKey
      <4> QED
        BY <3>2, <4>1, <4>2
    <3> QED
      BY <3>1, <3>2
  <2>2. PostedIn(rows', history') = PostedIn(rows, history)
    BY <2>1 DEF PostedIn
  <2> QED
    BY <1>2, <2>2 DEF SeenStep
<1>3. CASE Accepted
  <2>1. PICK row \in Row : /\ row.status = "pending" /\ rows' = rows \cup {row}
                           /\ \A other \in rows : other.key # row.key
    BY <1>3 DEF Accepted
  <2>2. row.key \in Keys /\ row.intent \in Intents
    BY RowTypes
  <2>3. OutcomeIn(rows)[row.key] = "unknown" /\ PostedIn(rows, history)[row.key] = {}
    BY <1>1, <2>1, <2>2, SeenOfKey
  <2>4. /\ TermsIn(rows') = [TermsIn(rows) EXCEPT ![row.key] = row.intent]
        /\ OutcomeIn(rows') = [OutcomeIn(rows) EXCEPT ![row.key] = "pending"]
        /\ PostedIn(rows', history') = [PostedIn(rows, history) EXCEPT ![row.key] = {}]
    <3>1. Replaces(rows, rows', row)
      BY <2>1 DEF Replaces
    <3>2. Seen(rows, history, rows', history', row)
      BY <1>1, <3>1, OneKeyChanges
    <3> QED
      BY <2>1, <3>2 DEF Seen
  <2>5. PostedIn(rows', history') = PostedIn(rows, history)
    BY <2>3, <2>4 DEF PostedIn
  <2> QED
    BY <2>2, <2>3, <2>4, <2>5, SeenAccepted
<1>4. ASSUME NEW row \in rows, NEW s \in {"completed", "rejected"}, Becomes(row, s)
      PROVE  SeenStep(TermsIn(rows), OutcomeIn(rows), PostedIn(rows, history),
                      TermsIn(rows'), OutcomeIn(rows'), PostedIn(rows', history'))
  <2>1. PICK new : /\ rows' = (rows \ {row}) \cup {new}
                   /\ row.status = "pending" /\ new.status = s
                   /\ new.key = row.key /\ new.intent = row.intent
    BY <1>4, BecomesIs DEF PromiseInv, BaseInv
  <2>2. row.key \in Keys
    BY <1>1, RowTypes DEF Matching
  <2>3. /\ OutcomeIn(rows)[row.key] = "pending" /\ TermsIn(rows)[row.key] = row.intent
        /\ PostedIn(rows, history)[row.key] = {}
    BY <1>1, <2>1, SeenOfKey
  <2>4. /\ TermsIn(rows') = [TermsIn(rows) EXCEPT ![row.key] = row.intent]
        /\ OutcomeIn(rows') = [OutcomeIn(rows) EXCEPT ![row.key] = s]
        /\ PostedIn(rows', history') =
             [PostedIn(rows, history) EXCEPT ![row.key] =
                IF s = "completed" THEN SidesOf(row.intent) ELSE {}]
    <3>1. Replaces(rows, rows', new)
      BY <2>1 DEF Replaces
    <3>2. Seen(rows, history, rows', history', new)
      BY <1>1, <3>1, OneKeyChanges
    <3> QED
      BY <2>1, <3>2 DEF Seen
  <2>5. TermsIn(rows') = TermsIn(rows)
    BY <2>3, <2>4 DEF TermsIn
  <2>6. s = "rejected" => PostedIn(rows', history') = PostedIn(rows, history)
    BY <2>3, <2>4 DEF PostedIn
  <2>7. CASE s = "completed"
    BY <2>2, <2>3, <2>4, <2>5, <2>7, SeenCompleted
  <2>8. CASE s = "rejected"
    BY <2>2, <2>3, <2>4, <2>5, <2>6, <2>8, SeenRejected
  <2> QED
    BY <2>7, <2>8
<1> QED
  BY <1>2, <1>3, <1>4 DEF RowsStep, Executed

\* Requests, workers, retries and crashes implement the promise of a key: terms
\* once, and then all sides posted in one step, or a refusal and none ever.
THEOREM PromiseIsKept == TransfersSpec => PromiseKept
<1>1. TransfersInit => Promise!PromiseInit
  BY DEF TransfersInit, Init, Promise!PromiseInit, RowsOf
<1>2. PromiseInv /\ PromiseInv' /\ [TransfersNext]_allVars =>
        [Promise!PromiseNext]_(Promise!promiseVars)
  <2> SUFFICES ASSUME PromiseInv, PromiseInv', [TransfersNext]_allVars
               PROVE  [Promise!PromiseNext]_(Promise!promiseVars)
    OBVIOUS
  <2>1. RowsStep
    BY EveryRowsStep DEF PromiseInv, BaseInv
  <2>2. SeenStep(TermsIn(rows), OutcomeIn(rows), PostedIn(rows, history),
                 TermsIn(rows'), OutcomeIn(rows'), PostedIn(rows', history'))
    BY <2>1, PromiseStep
  <2> QED
    BY <2>2 DEF SeenStep, TermsIn, OutcomeIn, PostedIn, RowsFor, RowsOf, Promise!PromiseNext,
                Promise!promiseVars, Promise!Accept, Promise!Complete, Promise!Refuse
<1> QED
  BY <1>1, <1>2, PromiseInvariant, PTL DEF TransfersSpec, PromiseKept, Promise!PromiseSpec
-----------------------------------------------------------------------------
(* The type of what the servers remember.                                  *)

WorkerType == [phase: {"none", "queued", "running", "refused"},
               seen: {"none", "pending", "completed", "rejected"}]

AnswerType == [key: Keys, intent: Intents, id: Ids]

ProgressInv == worker \in [Workers -> WorkerType] /\ answers \subseteq AnswerType

LEMMA NoWorkerType == NoWorker \in WorkerType
BY DEF NoWorker, WorkerType

\* process() and the answers to a request keep the types.
LEMMA ProcessKeeps ==
  ASSUME worker \in [Workers -> WorkerType], NEW s, NEW row, Process(s, row)
  PROVE  worker' \in [Workers -> WorkerType]
BY DEF Process, WorkerType

LEMMA AnswerKeeps ==
  ASSUME ProgressInv, NEW r, NEW s, NEW row \in Row, NEW intent \in Intents,
         Answer(r, s, row, intent)
  PROVE  ProgressInv'
<1>1. CASE row.intent = intent
  <2>1. [key |-> row.key, intent |-> intent, id |-> row.id] \in AnswerType
    BY DEF Row, AnswerType
  <2>2. answers' \subseteq AnswerType
    BY <1>1, <2>1 DEF Answer, ProgressInv
  <2>3. Process(s, row)
    BY <1>1 DEF Answer
  <2> QED
    BY <2>2, <2>3, ProcessKeeps DEF ProgressInv
<1>2. CASE row.intent # intent
  BY <1>2 DEF Answer, ProgressInv
<1> QED
  BY <1>1, <1>2

LEMMA WorkKeepsTypes ==
  ASSUME ProgressInv, RowsInv, NEW w \in Workers, WorkStep(w)
  PROVE  ProgressInv'
<1>1. ASSUME EndWork(w), UNCHANGED answers
      PROVE  ProgressInv'
  BY <1>1, NoWorkerType DEF EndWork, ProgressInv
<1>2. CASE UNCHANGED <<worker, answers>>
  BY <1>2 DEF ProgressInv
<1>3. ASSUME NEW phase \in {"running", "refused"}, UNCHANGED answers,
             worker' = [worker EXCEPT ![w].phase = phase]
      PROVE  ProgressInv'
  BY <1>3 DEF ProgressInv, WorkerType
<1>4. ASSUME NEW row \in rows, BeginWork(w, row)
      PROVE  ProgressInv'
  <2>1. row.status \in {"pending", "completed", "rejected"}
    BY DEF RowsInv, Row
  <2> QED
    BY <1>4, <2>1 DEF BeginWork, ProgressInv, WorkerType
<1>5. ASSUME NEW row \in rows,
             \/ StartWork(w, row) \/ SkipWork(w, row) \/ Post(w, row)
             \/ Refuse(w, row) \/ Reject(w, row)
      PROVE  ProgressInv'
  <2>1. CASE StartWork(w, row)
    BY <1>1, <1>3, <2>1 DEF StartWork
  <2>2. CASE SkipWork(w, row)
    BY <1>1, <2>2 DEF SkipWork
  <2>3. CASE Post(w, row)
    BY <1>1, <2>3 DEF Post
  <2>4. CASE Refuse(w, row)
    BY <1>3, <2>4 DEF Refuse
  <2>5. CASE Reject(w, row)
    BY <1>1, <2>5 DEF Reject
  <2> QED
    BY <1>5, <2>1, <2>2, <2>3, <2>4, <2>5
<1>6. CASE Restart(w) \/ Expire(w)
  BY <1>2, <1>6 DEF Restart, Expire, transferVars
<1>7. CASE Fail(w)
  BY <1>1, <1>7 DEF Fail
<1> QED
  BY <1>4, <1>5, <1>6, <1>7 DEF WorkStep

LEMMA RequestKeepsTypes ==
  ASSUME ProgressInv, RowsInv, NEW r \in Requests, RequestProgress(r)
  PROVE  ProgressInv'
<1>1. CASE UNCHANGED <<worker, answers>>
  BY <1>1 DEF ProgressInv
<1>2. request[r] # Idle => request[r].intent \in Intents
  BY DEF RowsInv, RequestType
<1>3. ASSUME NEW s \in Servers, NEW k \in Keys, NEW intent \in Intents,
             Submit(r, s, k, intent)
      PROVE  ProgressInv'
  <2>1. ASSUME NEW row \in RowsOf(k), Answer(r, s, row, intent)
        PROVE  ProgressInv'
    BY <2>1, AnswerKeeps DEF RowsOf, RowsInv
  <2> QED
    BY <1>1, <1>3, <2>1 DEF Submit
<1>4. ASSUME NEW i \in Ids, Insert(r, i)
      PROVE  ProgressInv'
  <2>1. request[r].phase = "insert" /\ request[r] \in RequestType
    BY <1>4 DEF Insert, RowsInv
  <2>2. request[r] # Idle
    BY <2>1 DEF Idle
  <2>3. NewRow(r, i) \in Row /\ request[r].intent \in Intents
    BY <2>1, <2>2 DEF NewRow, Row, RequestType
  <2>4. CASE Answer(r, request[r].server, NewRow(r, i), request[r].intent)
    BY <2>3, <2>4, AnswerKeeps
  <2> QED
    BY <1>1, <1>4, <2>4 DEF Insert
<1>5. CASE Duplicate(r)
  <2>1. request[r].phase = "insert"
    BY <1>5 DEF Duplicate
  <2>2. request[r].intent \in Intents
    BY <1>2, <2>1 DEF Idle
  <2>3. PICK row \in RowsOf(request[r].key) :
          Answer(r, request[r].server, row, request[r].intent)
    BY <1>5 DEF Duplicate
  <2> QED
    BY <2>2, <2>3, AnswerKeeps DEF RowsOf, RowsInv
<1>6. CASE CountGoals(r) \/ GiveUp(r)
  BY <1>1, <1>6 DEF CountGoals, GiveUp
<1> QED
  BY <1>3, <1>4, <1>5, <1>6 DEF RequestProgress

\* Requests, workers and answers hold what process(), accept() and execute()
\* put there, whatever crashes and retries come between.
THEOREM TransfersTypes == TransfersSpec => []TransfersTypeOK
<1>1. TransfersInit => ProgressInv
  BY NoWorkerType DEF TransfersInit, ProgressInv
<1>2. BaseInv /\ ProgressInv /\ [TransfersNext]_allVars => ProgressInv'
  <2> SUFFICES ASSUME BaseInv, ProgressInv, [TransfersNext]_allVars
               PROVE  ProgressInv'
    OBVIOUS
  <2>0. RowsInv
    BY DEF BaseInv
  <2>1. ASSUME NEW r \in Requests, RequestProgress(r)
        PROVE  ProgressInv'
    BY <2>0, <2>1, RequestKeepsTypes
  <2>2. ASSUME NEW s \in Servers, NEW row \in rows, Retry(s, row)
        PROVE  ProgressInv'
    BY <2>2, ProcessKeeps DEF Retry, ProgressInv
  <2>3. ASSUME NEW w \in Workers, WorkStep(w)
        PROVE  ProgressInv'
    BY <2>0, <2>3, WorkKeepsTypes
  <2>4. ASSUME NEW s \in Servers, Crash(s)
        PROVE  ProgressInv'
    BY <2>4, NoWorkerType DEF Crash, ProgressInv
  <2>5. CASE OtherStep \/ UNCHANGED allVars
    BY <2>5 DEF OtherStep, ProgressInv, transferVars, allVars
  <2> QED
    BY <2>1, <2>2, <2>3, <2>4, <2>5 DEF TransfersNext
<1>3. BaseInv /\ ProgressInv => TransfersTypeOK
  BY DEF BaseInv, ProgressInv, RowsInv, RequestType, WorkerType, AnswerType, TransfersTypeOK
<1> QED
  BY <1>1, <1>2, <1>3, BaseInvariant, PTL DEF TransfersSpec
=============================================================================
