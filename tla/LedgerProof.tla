---------------------------- MODULE LedgerProof ----------------------------
(***************************************************************************)
(* Proofs about Ledger, for any goals, entries, flows and clock: the       *)
(* ledger of a goal never fails its own validation, and what a step may    *)
(* never do to its entries.                                                *)
(***************************************************************************)
EXTENDS Ledger, TLAPS

-----------------------------------------------------------------------------
(* Facts about the validation.                                             *)

\* Entries accepted today are accepted later: only the check against the
\* future reads the clock.
LEMMA ValidLater ==
  ASSUME NEW g \in Goals, NEW E \in SUBSET Entries, NEW c \in BOOLEAN,
         NEW t \in Nat, NEW u \in Nat, t <= u, Valid(g, E, c, t)
  PROVE  Valid(g, E, c, u)
<1>1. \A e \in E : e.at \in Nat
  BY EntriesAssumption DEF Entry
<1>2. StartDate[g] \in Nat
  BY GoalsAssumption
<1>3. \A e \in E : Dated(g, e, t) => Dated(g, e, u)
  BY <1>1, <1>2 DEF Dated
<1> QED
  BY <1>3 DEF Valid

\* Requiring the cash balance only adds a check.
LEMMA ValidWithoutCash ==
  ASSUME NEW g, NEW E, NEW c \in BOOLEAN, NEW t, Valid(g, E, c, t)
  PROVE  Valid(g, E, FALSE, t)
BY DEF Valid

-----------------------------------------------------------------------------
(* Sessions.                                                               *)

\* A commit leaves only sessions that read none of the goals it writes.
LEMMA CommitKeepsSessions ==
  ASSUME IInv, NEW f \in Flows, NEW gs \in SUBSET Goals, Commit(f, gs),
         \A g \in Goals \ gs : goal'[g] = goal[g] /\ history'[g] = history[g]
  PROVE  SessionsCurrent' /\ DOMAIN session' = Flows
           /\ \A h \in Flows : \E hs \in SUBSET Goals : session'[h] \in [hs -> Snapshot]
<1>1. DOMAIN session' = Flows
  BY DEF Commit
<1>2. ASSUME NEW h \in Flows
      PROVE  session'[h] = NoSession
               \/ (session'[h] = session[h] /\ DOMAIN session[h] \cap gs = {})
  BY DEF Commit, Conflicts
<1>3. DOMAIN NoSession = {} /\ NoSession \in [{} -> Snapshot]
  BY DEF NoSession
<1>4. \A h \in Flows : DOMAIN session[h] \subseteq Goals
  BY DEF IInv, TypeOK
<1>5. SessionsCurrent'
  <2> SUFFICES ASSUME NEW h \in Flows, NEW g \in DOMAIN session'[h]
               PROVE  /\ session'[h][g] = [doc |-> goal'[g], entries |-> history'[g]]
                      /\ goal'[g].status # "absent"
    BY DEF SessionsCurrent
  <2>1. session'[h] = session[h] /\ g \notin gs /\ g \in Goals
    BY <1>2, <1>3, <1>4
  <2> QED
    BY <2>1 DEF IInv, SessionsCurrent
<1>6. \A h \in Flows : \E hs \in SUBSET Goals : session'[h] \in [hs -> Snapshot]
  BY <1>2, <1>3 DEF IInv, TypeOK
<1> QED
  BY <1>1, <1>5, <1>6

\* What an open session reads is what the collections hold.
LEMMA OpenReadsCurrent ==
  ASSUME IInv, NEW f \in Flows, NEW gs \in SUBSET Goals, Open(f, gs), NEW g \in gs
  PROVE  session[f][g].doc = goal[g] /\ session[f][g].entries = history[g]
<1>1. g \in DOMAIN session[f]
  BY Zenon DEF Open
<1>2. session[f][g] = [doc |-> goal[g], entries |-> history[g]]
  BY <1>1 DEF IInv, SessionsCurrent
<1> QED
  BY <1>2

\* A goal without the lock has no pending correction.
LEMMA UnlockedHasNoPlan ==
  ASSUME IInv, NEW g \in Goals, goal[g].lock = NoLock, NEW a \in adjustments
  PROVE  a.goal # g
BY LedgerAssumption DEF IInv, TypeOK, LocksPaired, Adjustment

-----------------------------------------------------------------------------
(* The steps of the inductive invariant.                                   *)

\* A committed rewrite of unlocked goals to histories that validate.
LEMMA EntriesChange ==
  ASSUME IInv, NEW f \in Flows, NEW gs \in SUBSET Goals, Commit(f, gs),
         UNCHANGED <<goal, adjustments, now>>,
         history' \in [Goals -> SUBSET Entries],
         \A g \in Goals \ gs : history'[g] = history[g],
         \A g \in gs : goal[g].lock = NoLock /\ Valid(g, history'[g], FALSE, now)
  PROVE  IInv'
<1>1. SessionsCurrent' /\ DOMAIN session' = Flows
        /\ \A h \in Flows : \E hs \in SUBSET Goals : session'[h] \in [hs -> Snapshot]
  BY CommitKeepsSessions
<1>2. TypeOK'
  BY <1>1 DEF IInv, TypeOK
<1>3. LedgerSound'
  <2> SUFFICES ASSUME NEW g \in Goals PROVE Valid(g, history'[g], FALSE, now)
    BY DEF LedgerSound
  <2> QED
    BY DEF IInv, LedgerSound
<1>4. PlanStillFits'
  <2>1. \A a \in adjustments : history'[a.goal] = history[a.goal]
    BY UnlockedHasNoPlan DEF IInv, TypeOK, Adjustment
  <2> QED
    BY <2>1 DEF IInv, PlanStillFits
<1>5. LocksPaired'
  BY DEF IInv, LocksPaired
<1> QED
  BY <1>1, <1>2, <1>3, <1>4, <1>5 DEF IInv

\* A committed change of the document of an unlocked goal.
LEMMA DocumentChange ==
  ASSUME IInv, NEW f \in Flows, NEW g \in Goals, Commit(f, {g}),
         UNCHANGED <<history, adjustments, now>>,
         goal' \in [Goals -> GoalDoc],
         goal[g].lock = NoLock, goal'[g].lock = NoLock,
         \A h \in Goals \ {g} : goal'[h] = goal[h]
  PROVE  IInv'
<1>1. SessionsCurrent' /\ DOMAIN session' = Flows
        /\ \A h \in Flows : \E hs \in SUBSET Goals : session'[h] \in [hs -> Snapshot]
  BY CommitKeepsSessions
<1>2. TypeOK'
  BY <1>1 DEF IInv, TypeOK
<1>3. LedgerSound' /\ PlanStillFits'
  BY DEF IInv, LedgerSound, PlanStillFits
<1>4. LocksPaired'
  <2>1. \A a \in adjustments : a.goal # g /\ a.goal \in Goals
    BY UnlockedHasNoPlan DEF IInv, TypeOK, Adjustment
  <2> QED
    BY <2>1 DEF IInv, LocksPaired
<1> QED
  BY <1>1, <1>2, <1>3, <1>4 DEF IInv

LEMMA CreateGoalStep ==
  ASSUME IInv, NEW g \in Goals, NEW s \in Statuses, CreateGoal(g, s)
  PROVE  IInv'
<1>1. goal' = [goal EXCEPT ![g].status = s] /\ goal \in [Goals -> GoalDoc]
  BY DEF IInv, TypeOK, CreateGoal
<1>2. /\ goal' \in [Goals -> GoalDoc]
      /\ \A h \in Goals \ {g} : goal'[h] = goal[h]
      /\ goal'[g].lock = goal[g].lock /\ goal'[g].deleted = goal[g].deleted
      /\ goal'[g].status = s
  BY <1>1 DEF GoalDoc
<1>3. UNCHANGED <<history, adjustments, session, now>> /\ goal[g].status = "absent"
  BY DEF CreateGoal
<1>4. TypeOK'
  BY <1>2, <1>3 DEF IInv, TypeOK
<1>5. LedgerSound' /\ PlanStillFits'
  BY <1>3 DEF IInv, LedgerSound, PlanStillFits
<1>6. LocksPaired'
  BY <1>2, <1>3 DEF IInv, LocksPaired, TypeOK, Adjustment
<1>7. SessionsCurrent'
  <2>1. \A f \in Flows : g \notin DOMAIN session[f] /\ DOMAIN session[f] \subseteq Goals
    BY <1>3 DEF IInv, SessionsCurrent, TypeOK
  <2> QED
    BY <2>1, <1>2, <1>3 DEF IInv, SessionsCurrent
<1> QED
  BY <1>4, <1>5, <1>6, <1>7 DEF IInv

LEMMA UpdateGoalStep ==
  ASSUME IInv, NEW f \in Flows, NEW g \in Goals, NEW s \in Statuses, UpdateGoal(f, g, s)
  PROVE  IInv'
<1>1. goal[g].lock = NoLock
  BY OpenReadsCurrent DEF UpdateGoal, Available
<1>2. /\ goal' \in [Goals -> GoalDoc]
      /\ \A h \in Goals \ {g} : goal'[h] = goal[h]
      /\ goal'[g].lock = goal[g].lock
  BY DEF UpdateGoal, IInv, TypeOK, GoalDoc
<1> QED
  BY <1>1, <1>2, DocumentChange DEF UpdateGoal

LEMMA RemoveGoalStep ==
  ASSUME IInv, NEW f \in Flows, NEW g \in Goals, RemoveGoal(f, g)
  PROVE  IInv'
<1>1. goal[g].lock = NoLock
  BY OpenReadsCurrent DEF RemoveGoal, Available
<1>2. /\ goal' \in [Goals -> GoalDoc]
      /\ \A h \in Goals \ {g} : goal'[h] = goal[h]
      /\ goal'[g].lock = goal[g].lock
  BY DEF RemoveGoal, IInv, TypeOK, GoalDoc
<1> QED
  BY <1>1, <1>2, DocumentChange DEF RemoveGoal

\* What Revisable promises of the history an open session revises.
LEMMA RevisionIsSound ==
  ASSUME IInv, NEW f \in Flows, NEW g \in Goals, Open(f, {g}), NEW c \in BOOLEAN,
         NEW removed, NEW added, Revisable(g, session[f][g].entries, removed, added, c, now)
  PROVE  /\ removed \subseteq history[g]
         /\ \A e \in removed \cup added : AfterTransfers(history[g], e)
         /\ Valid(g, (history[g] \ removed) \cup added, FALSE, now)
<1>1. session[f][g].entries = history[g]
  BY OpenReadsCurrent
<1>2. Valid(g, (history[g] \ removed) \cup added, c, now)
  BY <1>1 DEF Revisable
<1> QED
  BY <1>1, <1>2, ValidWithoutCash DEF Revisable

LEMMA RewriteStep ==
  ASSUME IInv, NEW f \in Flows, NEW g \in Goals, NEW removed,
         NEW added \in SUBSET Entries, Rewrite(f, g, removed, added)
  PROVE  IInv'
<1>1. goal[g].lock = NoLock
  BY OpenReadsCurrent DEF Rewrite, Available
<1>2. Valid(g, (history[g] \ removed) \cup added, FALSE, now)
  BY RevisionIsSound DEF Rewrite
<1>3. /\ history' \in [Goals -> SUBSET Entries]
      /\ history'[g] = (history[g] \ removed) \cup added
      /\ \A h \in Goals \ {g} : history'[h] = history[h]
  BY DEF Rewrite, IInv, TypeOK
<1>4. Commit(f, {g}) /\ UNCHANGED <<goal, adjustments, now>>
  BY DEF Rewrite
<1>5. \A h \in {g} : goal[h].lock = NoLock /\ Valid(h, history'[h], FALSE, now)
  BY <1>1, <1>2, <1>3
<1>6. {g} \in SUBSET Goals
  OBVIOUS
<1> QED
  BY <1>3, <1>4, <1>5, <1>6, EntriesChange

LEMMA EntryStepInv ==
  ASSUME IInv, NEW f \in Flows, NEW g \in Goals, EntryStep(f, g)
  PROVE  IInv'
<1>1. CASE \E e \in Entries : CreateEntry(f, g, e)
  BY <1>1, RewriteStep DEF CreateEntry
<1>2. CASE \E old \in history[g], new \in Entries : UpdateEntry(f, g, old, new)
  BY <1>2, RewriteStep DEF UpdateEntry
<1>3. CASE \E old \in history[g] : RemoveEntry(f, g, old)
  BY <1>3, RewriteStep DEF RemoveEntry
<1> QED
  BY <1>1, <1>2, <1>3 DEF EntryStep

LEMMA PublishStep ==
  ASSUME IInv, NEW f \in Flows, NEW g \in Goals, NEW e \in Entries,
         PublishContribution(f, g, e)
  PROVE  IInv'
<1>1. goal[g].lock = NoLock
  BY OpenReadsCurrent DEF PublishContribution, Available
<1>2. Valid(g, (history[g] \ {}) \cup {e}, FALSE, now)
  BY RevisionIsSound DEF PublishContribution
<1>3. /\ history' \in [Goals -> SUBSET Entries]
      /\ history'[g] = (history[g] \ {}) \cup {e}
      /\ \A h \in Goals \ {g} : history'[h] = history[h]
  BY DEF PublishContribution, IInv, TypeOK
<1>4. Commit(f, {g}) /\ UNCHANGED <<goal, adjustments, now>>
  BY DEF PublishContribution
<1>5. \A h \in {g} : goal[h].lock = NoLock /\ Valid(h, history'[h], FALSE, now)
  BY <1>1, <1>2, <1>3
<1>6. {g} \in SUBSET Goals
  OBVIOUS
<1> QED
  BY <1>3, <1>4, <1>5, <1>6, EntriesChange

LEMMA UnchangedStep ==
  ASSUME IInv, NEW f \in Flows, NEW gs \in SUBSET Goals, CommitUnchanged(f, gs)
  PROVE  IInv'
<1>1. \A g \in gs : goal[g].lock = NoLock
  BY OpenReadsCurrent DEF CommitUnchanged, Available
<1>2. \A g \in gs : Valid(g, history[g], FALSE, now)
  BY DEF IInv, LedgerSound
<1> QED
  BY <1>1, <1>2, EntriesChange DEF CommitUnchanged, IInv, TypeOK

LEMMA PostTransferStep ==
  ASSUME IInv, NEW f \in Flows, NEW src \in Goals, NEW dst \in Goals,
         NEW leaves \in Entries, NEW arrives \in Entries, NEW fees \in SUBSET Entries,
         PostTransfer(f, src, dst, leaves, arrives, fees)
  PROVE  IInv'
<1> DEFINE posted(g) == (IF g = src THEN {leaves} \cup fees ELSE {})
                          \cup (IF g = dst THEN {arrives} ELSE {})
           isCash == leaves.type = "cash_out"
<1>1. /\ Open(f, {src, dst}) /\ Commit(f, {src, dst})
      /\ history' = [g \in Goals |-> history[g] \cup posted(g)]
      /\ UNCHANGED <<goal, adjustments, now>>
  BY DEF PostTransfer, LegsAt
<1>2. ASSUME NEW g \in {src, dst}
      PROVE  /\ Available(session[f][g].doc, NoLock, TRUE, FALSE)
             /\ Valid(g, session[f][g].entries \cup posted(g), isCash, now)
  BY <1>2 DEF PostTransfer, Postable, LegsAt
<1>3. ASSUME NEW g \in {src, dst}
      PROVE  goal[g].lock = NoLock /\ Valid(g, history[g] \cup posted(g), FALSE, now)
  <2>1. session[f][g].doc = goal[g] /\ session[f][g].entries = history[g]
    BY <1>1, OpenReadsCurrent
  <2>2. isCash \in BOOLEAN
    OBVIOUS
  <2>3. Valid(g, history[g] \cup posted(g), isCash, now)
    BY <1>2, <2>1
  <2> HIDE DEF posted, isCash
  <2>4. Valid(g, history[g] \cup posted(g), FALSE, now)
    BY <2>2, <2>3, ValidWithoutCash
  <2> QED
    BY <1>2, <2>1, <2>4 DEF Available
<1>4. /\ history' \in [Goals -> SUBSET Entries]
      /\ \A g \in Goals : history'[g] = history[g] \cup posted(g)
      /\ \A g \in Goals \ {src, dst} : history'[g] = history[g]
  BY <1>1 DEF IInv, TypeOK
<1>5. \A g \in {src, dst} : goal[g].lock = NoLock /\ Valid(g, history'[g], FALSE, now)
  <2> HIDE DEF posted
  <2> QED
    BY <1>3, <1>4
<1>6. {src, dst} \in SUBSET Goals
  OBVIOUS
<1> HIDE DEF posted, isCash
<1> QED
  BY <1>1, <1>4, <1>5, <1>6, EntriesChange

LEMMA SubmitStep ==
  ASSUME IInv, NEW f \in Flows, NEW g \in Goals, NEW c \in Corrections,
         NEW removed, NEW added \in SUBSET Entries, NEW decreases \in BOOLEAN,
         SubmitCorrection(f, g, c, removed, added, decreases)
  PROVE  IInv'
<1> DEFINE row == [id |-> c, goal |-> g, removed |-> removed, added |-> added]
<1>1. goal[g].lock = NoLock /\ ~goal[g].deleted
  BY OpenReadsCurrent DEF SubmitCorrection, Available
<1>2. /\ adjustments' = adjustments \cup {row}
      /\ UNCHANGED <<history, now>> /\ Commit(f, {g}) /\ Open(f, {g})
      /\ \A a \in adjustments : a.id # c
  BY DEF SubmitCorrection
<1>3. /\ goal' \in [Goals -> GoalDoc]
      /\ \A h \in Goals \ {g} : goal'[h] = goal[h]
      /\ goal'[g].lock = c /\ goal'[g].deleted = goal[g].deleted
  BY DEF SubmitCorrection, IInv, TypeOK, GoalDoc
<1>4. /\ removed \subseteq history[g]
      /\ \A e \in removed \cup added : AfterTransfers(history[g], e)
      /\ Valid(g, (history[g] \ removed) \cup added, FALSE, now)
  <2>1. CASE removed \cup added # {}
    BY <2>1, RevisionIsSound DEF SubmitCorrection
  <2>2. CASE removed = {} /\ added = {}
    <3>1. (history[g] \ removed) \cup added = history[g]
      BY <2>2
    <3> QED
      BY <2>2, <3>1 DEF IInv, LedgerSound
  <2> QED
    BY <2>1, <2>2
<1>5. removed \subseteq Entries
  BY <1>4 DEF IInv, TypeOK
<1>6. \A a \in adjustments : a.goal # g /\ a.goal \in Goals
  BY <1>1, UnlockedHasNoPlan DEF IInv, TypeOK, Adjustment
<1>7. SessionsCurrent' /\ DOMAIN session' = Flows
        /\ \A h \in Flows : \E hs \in SUBSET Goals : session'[h] \in [hs -> Snapshot]
  BY <1>2, <1>3, CommitKeepsSessions
<1>8. TypeOK'
  <2>1. row \in Adjustment
    BY <1>5 DEF Adjustment
  <2> QED
    BY <1>2, <1>3, <1>7, <2>1 DEF IInv, TypeOK
<1>9. LedgerSound'
  BY <1>2 DEF IInv, LedgerSound
<1>10. PlanStillFits'
  <2> SUFFICES ASSUME NEW a \in adjustments'
               PROVE  /\ a.removed \subseteq history[a.goal]
                      /\ \A e \in a.removed \cup a.added : AfterTransfers(history[a.goal], e)
                      /\ Valid(a.goal, (history[a.goal] \ a.removed) \cup a.added, FALSE, now)
    BY <1>2 DEF PlanStillFits
  <2>1. CASE a \in adjustments
    BY <2>1 DEF IInv, PlanStillFits
  <2>2. CASE a = row
    <3>1. a.goal = g /\ a.removed = removed /\ a.added = added
      BY <2>2
    <3> QED
      BY <3>1, <1>4
  <2> QED
    BY <1>2, <2>1, <2>2
<1>11. LocksPaired'
  <2>1. \A h \in Goals : goal'[h].lock # NoLock =>
          \E a \in adjustments' : a.goal = h /\ a.id = goal'[h].lock
    <3> SUFFICES ASSUME NEW h \in Goals, goal'[h].lock # NoLock
                 PROVE  \E a \in adjustments' : a.goal = h /\ a.id = goal'[h].lock
      OBVIOUS
    <3>1. CASE h = g
      <4>1. row \in adjustments' /\ row.goal = h /\ row.id = goal'[h].lock
        BY <3>1, <1>2, <1>3
      <4> QED
        BY <4>1
    <3>2. CASE h # g
      BY <3>2, <1>2, <1>3 DEF IInv, LocksPaired
    <3> QED
      BY <3>1, <3>2
  <2>2. \A a \in adjustments' : goal'[a.goal].lock = a.id /\ ~goal'[a.goal].deleted
    BY <1>1, <1>2, <1>3, <1>6 DEF IInv, LocksPaired
  <2>3. \A a, b \in adjustments' : a.id = b.id => a = b
    BY <1>2 DEF IInv, LocksPaired
  <2> QED
    BY <2>1, <2>2, <2>3 DEF LocksPaired
<1> QED
  BY <1>7, <1>8, <1>9, <1>10, <1>11 DEF IInv

LEMMA CorrectionStepInv ==
  ASSUME IInv, NEW f \in Flows, NEW g \in Goals, NEW c \in Corrections,
         CorrectionStep(f, g, c)
  PROVE  IInv'
<1>1. ASSUME NEW old \in history[g], NEW new \in Entries,
             EditContribution(f, g, c, old, new)
      PROVE  IInv'
  <2>1. (new.amount < old.amount) \in BOOLEAN
    OBVIOUS
  <2> QED
    BY <1>1, <2>1, SubmitStep DEF EditContribution
<1>2. CASE \E old \in history[g] : VoidContribution(f, g, c, old)
  BY <1>2, SubmitStep DEF VoidContribution
<1>3. CASE VoidUnpublished(f, g, c)
  BY <1>3, SubmitStep DEF VoidUnpublished
<1> QED
  BY <1>1, <1>2, <1>3 DEF CorrectionStep

LEMMA FinishStep ==
  ASSUME IInv, NEW f \in Flows, NEW a \in adjustments, NEW applied \in BOOLEAN,
         FinishCorrection(f, a, applied)
  PROVE  IInv'
<1> DEFINE g == a.goal
           revised == (history[g] \ a.removed) \cup a.added
<1>1. g \in Goals /\ a.added \subseteq Entries /\ a.id \in Corrections
  BY DEF IInv, TypeOK, Adjustment
<1>2. /\ adjustments' = adjustments \ {a} /\ now' = now /\ Commit(f, {g})
      /\ goal' = [goal EXCEPT ![g].lock = NoLock]
      /\ history' = IF applied THEN [history EXCEPT ![g] = revised] ELSE history
  BY DEF FinishCorrection, Unlock
<1>3. /\ goal' \in [Goals -> GoalDoc]
      /\ \A h \in Goals \ {g} : goal'[h] = goal[h]
      /\ goal'[g].lock = NoLock
  BY <1>1, <1>2 DEF IInv, TypeOK, GoalDoc
<1>4. Valid(g, revised, FALSE, now)
  BY DEF IInv, PlanStillFits
<1>5. /\ history' \in [Goals -> SUBSET Entries]
      /\ \A h \in Goals \ {g} : history'[h] = history[h]
      /\ history'[g] = revised \/ history'[g] = history[g]
  BY <1>1, <1>2 DEF IInv, TypeOK
<1>6. \A b \in adjustments' : b \in adjustments /\ b.goal # g /\ b.goal \in Goals
  BY <1>2 DEF IInv, LocksPaired, TypeOK, Adjustment
<1> HIDE DEF g, revised
<1>7. SessionsCurrent' /\ DOMAIN session' = Flows
        /\ \A h \in Flows : \E hs \in SUBSET Goals : session'[h] \in [hs -> Snapshot]
  BY <1>1, <1>2, <1>3, <1>5, CommitKeepsSessions
<1>8. TypeOK'
  BY <1>2, <1>3, <1>5, <1>7 DEF IInv, TypeOK
<1>9. LedgerSound'
  BY <1>2, <1>4, <1>5 DEF IInv, LedgerSound
<1>10. PlanStillFits'
  BY <1>2, <1>5, <1>6 DEF IInv, PlanStillFits
<1>11. LocksPaired'
  <2>1. \A h \in Goals : goal'[h].lock # NoLock =>
          \E b \in adjustments' : b.goal = h /\ b.id = goal'[h].lock
    <3> SUFFICES ASSUME NEW h \in Goals, goal'[h].lock # NoLock
                 PROVE  \E b \in adjustments' : b.goal = h /\ b.id = goal'[h].lock
      OBVIOUS
    <3>1. h # g /\ goal'[h] = goal[h]
      BY <1>3
    <3>2. PICK b \in adjustments : b.goal = h /\ b.id = goal[h].lock
      BY <3>1 DEF IInv, LocksPaired
    <3>3. b # a
      BY <3>1, <3>2 DEF g
    <3> QED
      BY <1>2, <3>1, <3>2, <3>3
  <2>2. \A b \in adjustments' : goal'[b.goal].lock = b.id /\ ~goal'[b.goal].deleted
    BY <1>3, <1>6 DEF IInv, LocksPaired
  <2>3. \A b, d \in adjustments' : b.id = d.id => b = d
    BY <1>2 DEF IInv, LocksPaired
  <2> QED
    BY <2>1, <2>2, <2>3 DEF LocksPaired
<1> QED
  BY <1>7, <1>8, <1>9, <1>10, <1>11 DEF IInv

LEMMA BeginStep ==
  ASSUME IInv, NEW f \in Flows, NEW gs \in SUBSET Goals, Begin(f, gs)
  PROVE  IInv'
<1> DEFINE snapshot == [g \in gs |-> [doc |-> goal[g], entries |-> history[g]]]
<1>1. /\ UNCHANGED <<goal, history, adjustments, now>>
      /\ \A g \in gs : goal[g].status # "absent"
      /\ DOMAIN session' = Flows /\ session'[f] = snapshot
      /\ \A h \in Flows \ {f} : session'[h] = session[h]
  BY DEF Begin, IInv, TypeOK
<1>2. snapshot \in [gs -> Snapshot]
  BY DEF IInv, TypeOK, Snapshot
<1>3. TypeOK'
  BY <1>1, <1>2 DEF IInv, TypeOK
<1>4. SessionsCurrent'
  <2> SUFFICES ASSUME NEW h \in Flows, NEW g \in DOMAIN session'[h]
               PROVE  /\ session'[h][g] = [doc |-> goal[g], entries |-> history[g]]
                      /\ goal[g].status # "absent"
    BY <1>1 DEF SessionsCurrent
  <2>1. CASE h = f
    BY <1>1, <2>1
  <2>2. CASE h # f
    <3>1. session'[h] = session[h]
      BY <1>1, <2>2
    <3>2. g \in DOMAIN session[h]
      BY <3>1
    <3> QED
      BY <3>1, <3>2 DEF IInv, SessionsCurrent
  <2> QED
    BY <2>1, <2>2
<1> QED
  BY <1>1, <1>3, <1>4 DEF IInv, LedgerSound, PlanStillFits, LocksPaired

LEMMA AbandonStep ==
  ASSUME IInv, NEW f \in Flows, Abandon(f)
  PROVE  IInv'
<1>1. /\ UNCHANGED <<goal, history, adjustments, now>>
      /\ DOMAIN session' = Flows /\ session'[f] = NoSession
      /\ \A h \in Flows \ {f} : session'[h] = session[h]
  BY DEF Abandon, IInv, TypeOK
<1>2. DOMAIN NoSession = {} /\ NoSession \in [{} -> Snapshot]
  BY DEF NoSession
<1>3. TypeOK'
  BY <1>1, <1>2 DEF IInv, TypeOK
<1>4. SessionsCurrent'
  <2> SUFFICES ASSUME NEW h \in Flows, NEW g \in DOMAIN session'[h]
               PROVE  /\ session'[h][g] = [doc |-> goal[g], entries |-> history[g]]
                      /\ goal[g].status # "absent"
    BY <1>1 DEF SessionsCurrent
  <2>1. h # f
    BY <1>1, <1>2
  <2>2. session'[h] = session[h]
    BY <1>1, <2>1
  <2>3. g \in DOMAIN session[h]
    BY <2>2
  <2> QED
    BY <2>2, <2>3 DEF IInv, SessionsCurrent
<1> QED
  BY <1>1, <1>3, <1>4 DEF IInv, LedgerSound, PlanStillFits, LocksPaired

LEMMA TickStep ==
  ASSUME IInv, Tick
  PROVE  IInv'
<1>1. /\ UNCHANGED <<goal, history, adjustments, session>>
      /\ now \in Nat /\ now' \in Nat /\ now <= now'
  BY DEF Tick, IInv, TypeOK
<1>2. TypeOK'
  BY <1>1 DEF IInv, TypeOK
<1>3. LedgerSound'
  <2> SUFFICES ASSUME NEW g \in Goals PROVE Valid(g, history[g], FALSE, now')
    BY <1>1 DEF LedgerSound
  <2> QED
    BY <1>1, ValidLater DEF IInv, TypeOK, LedgerSound
<1>4. PlanStillFits'
  <2> SUFFICES ASSUME NEW a \in adjustments
               PROVE  Valid(a.goal, (history[a.goal] \ a.removed) \cup a.added, FALSE, now')
    BY <1>1 DEF PlanStillFits, IInv
  <2>1. a.goal \in Goals /\ (history[a.goal] \ a.removed) \cup a.added \in SUBSET Entries
    BY DEF IInv, TypeOK, Adjustment
  <2> QED
    BY <1>1, <2>1, ValidLater DEF IInv, PlanStillFits
<1>5. LocksPaired' /\ SessionsCurrent'
  BY <1>1 DEF IInv, LocksPaired, SessionsCurrent
<1> QED
  BY <1>2, <1>3, <1>4, <1>5 DEF IInv

-----------------------------------------------------------------------------
(* Theorems.                                                               *)

LEMMA InitInv == Init => IInv
<1> SUFFICES ASSUME Init PROVE IInv
  OBVIOUS
<1>1. TypeOK
  <2>1. NoSession \in [{} -> Snapshot]
    BY DEF NoSession
  <2> QED
    BY <2>1 DEF Init, TypeOK
<1>2. LedgerSound
  BY DEF Init, LedgerSound, Valid, PositionsCovered, CashCovered
<1>3. PlanStillFits /\ LocksPaired
  BY DEF Init, PlanStillFits, LocksPaired, GoalDoc
<1>4. SessionsCurrent
  BY DEF Init, SessionsCurrent, NoSession
<1> QED
  BY <1>1, <1>2, <1>3, <1>4 DEF IInv

LEMMA NextInv == IInv /\ [Next]_vars => IInv'
<1> SUFFICES ASSUME IInv, [Next]_vars PROVE IInv'
  OBVIOUS
<1>1. ASSUME NEW f \in Flows, RequestStep(f)
      PROVE  IInv'
  <2>1. ASSUME NEW gs \in GoalSets, Begin(f, gs) \/ CommitUnchanged(f, gs)
        PROVE  IInv'
    BY <2>1, BeginStep, UnchangedStep DEF GoalSets
  <2>2. CASE Abandon(f)
    BY <2>2, AbandonStep
  <2>3. ASSUME NEW g \in Goals, \E s \in Statuses : UpdateGoal(f, g, s)
        PROVE  IInv'
    BY <2>3, UpdateGoalStep
  <2>4. ASSUME NEW g \in Goals, RemoveGoal(f, g) \/ EntryStep(f, g)
        PROVE  IInv'
    BY <2>4, RemoveGoalStep, EntryStepInv
  <2>5. ASSUME NEW g \in Goals, \E e \in Entries : PublishContribution(f, g, e)
        PROVE  IInv'
    BY <2>5, PublishStep
  <2>6. ASSUME NEW g \in Goals, \E c \in Corrections : CorrectionStep(f, g, c)
        PROVE  IInv'
    BY <2>6, CorrectionStepInv
  <2>7. ASSUME NEW a \in adjustments, NEW applied \in BOOLEAN,
               FinishCorrection(f, a, applied)
        PROVE  IInv'
    BY <2>7, FinishStep
  <2> QED
    BY <1>1, <2>1, <2>2, <2>3, <2>4, <2>5, <2>6, <2>7 DEF RequestStep
<1>2. ASSUME NEW f \in Flows, TransferStep(f)
      PROVE  IInv'
  <2>1. PICK src \in Goals, dst \in Goals, leaves \in Entries, arrives \in Entries,
             fees \in {{}} \cup {{fee} : fee \in Entries} :
               PostTransfer(f, src, dst, leaves, arrives, fees)
    BY <1>2 DEF TransferStep
  <2>2. fees \in SUBSET Entries
    OBVIOUS
  <2> QED
    BY <2>1, <2>2, PostTransferStep
<1>3. CASE \E g \in Goals, s \in Statuses : CreateGoal(g, s)
  BY <1>3, CreateGoalStep
<1>4. CASE Tick
  BY <1>4, TickStep
<1>5. CASE UNCHANGED vars
  BY <1>5 DEF vars, IInv, TypeOK, LedgerSound, PlanStillFits, LocksPaired, SessionsCurrent
<1> QED
  BY <1>1, <1>2, <1>3, <1>4, <1>5 DEF Next

\* The inductive invariant.
THEOREM Inductive == Spec => []IInv
BY InitInv, NextInv, PTL DEF Spec

\* The types of the variables, for every instance.
THEOREM TypeCorrect == Spec => []TypeOK
BY Inductive, PTL DEF IInv

\* The ledger of every goal always passes its own validation: hand-written
\* entries, published contributions, corrections applied long after they were
\* validated and transfers never leave a negative balance.
THEOREM LedgerIsSound == Spec => []LedgerSound
BY Inductive, PTL DEF IInv

\* What a pending correction will write still validates, although it is written
\* long after it was validated and without validating it again.
THEOREM CorrectionsAreSafe == Spec => []PlanStillFits
BY Inductive, PTL DEF IInv

\* A goal is locked exactly while a correction that owns the lock is pending,
\* the two being rows of different collections.
THEOREM LocksStayPaired == Spec => []LocksPaired
BY Inductive, PTL DEF IInv

\* A session that will be able to commit has read what the ledger holds now:
\* only the bump of ledgerVersion tells it from one that may not.
THEOREM SessionsStayCurrent == Spec => []SessionsCurrent
BY Inductive, PTL DEF IInv

-----------------------------------------------------------------------------
(* What a step may do to the entries of a goal.                            *)

\* A pending correction writes no leg of a transfer.
PlansWriteNoLegs == \A a \in adjustments : \A e \in a.added : e.type \notin LegTypes

\* The ways a step may treat the entries of g.
Revision(g, removed, added) ==
  /\ removed \subseteq history[g]
  /\ \A e \in removed \cup added : AfterTransfers(history[g], e)
  /\ \A e \in added : e.type \notin LegTypes
  /\ history'[g] = (history[g] \ removed) \cup added

Revised(g) ==
  /\ goal[g].lock = NoLock
  /\ \E removed, added :
       /\ Revision(g, removed, added)
       /\ goal[g].deleted => removed = {} /\ \A e \in added : e.cashy

Corrected(g) ==
  /\ ~goal[g].deleted
  /\ \E a \in adjustments \ adjustments' :
       a.goal = g /\ Revision(g, a.removed, a.added)

Posted(g) ==
  /\ goal[g].status = "active" /\ ~goal[g].deleted /\ goal[g].lock = NoLock
  /\ Withdrawn(g) = {} /\ \A e \in Written(g) : e.type \in LegTypes

EntriesKept(g) == history'[g] = history[g]

Rewritten(g) == EntriesKept(g) \/ Revised(g) \/ Corrected(g)

StepOn(g) == Rewritten(g) \/ Posted(g)

-----------------------------------------------------------------------------
(* Every step is one of these on every goal.                               *)

\* The cutoff keeps the legs themselves out of every revision.
LEMMA LegsAreNotRevised ==
  ASSUME NEW E \in SUBSET Entries, NEW e \in E, AfterTransfers(E, e)
  PROVE  e.type \notin LegTypes
<1>1. e.at \in Nat
  BY EntriesAssumption DEF Entry
<1> QED
  BY <1>1 DEF AfterTransfers

LEMMA RewriteOn ==
  ASSUME IInv, NEW f \in Flows, NEW h \in Goals, NEW removed, NEW added,
         Rewrite(f, h, removed, added), \A e \in added : e.type \notin LegTypes,
         NEW g \in Goals
  PROVE  Rewritten(g)
<1>1. CASE g # h
  BY <1>1 DEF Rewrite, IInv, TypeOK, Rewritten, EntriesKept
<1>2. CASE g = h
  <2>1. goal[g].lock = NoLock /\ ~goal[g].deleted
    BY <1>2, OpenReadsCurrent DEF Rewrite, Available
  <2>2. removed \subseteq history[g] /\ \A e \in removed \cup added : AfterTransfers(history[g], e)
    BY <1>2, RevisionIsSound DEF Rewrite
  <2>3. history'[g] = (history[g] \ removed) \cup added
    BY <1>2 DEF Rewrite, IInv, TypeOK
  <2> QED
    BY <2>1, <2>2, <2>3 DEF Rewritten, Revised, Revision
<1> QED
  BY <1>1, <1>2

LEMMA EntryStepOn ==
  ASSUME IInv, NEW f \in Flows, NEW h \in Goals, EntryStep(f, h), NEW g \in Goals
  PROVE  Rewritten(g)
<1>1. \A e : ByHand(e) => e.type \notin LegTypes
  BY DEF ByHand, IsMovement, IsOperation, MovementTypes, OperationTypes, LegTypes,
         CashLegs, AssetLegs
<1>2. CASE \E e \in Entries : CreateEntry(f, h, e)
  BY <1>1, <1>2, RewriteOn DEF CreateEntry
<1>3. CASE \E old \in history[h], new \in Entries : UpdateEntry(f, h, old, new)
  BY <1>1, <1>3, RewriteOn DEF UpdateEntry
<1>4. CASE \E old \in history[h] : RemoveEntry(f, h, old)
  BY <1>4, RewriteOn DEF RemoveEntry
<1> QED
  BY <1>2, <1>3, <1>4 DEF EntryStep

LEMMA PublishOn ==
  ASSUME IInv, NEW f \in Flows, NEW h \in Goals, NEW e \in Entries,
         PublishContribution(f, h, e), NEW g \in Goals
  PROVE  Rewritten(g)
<1>1. CASE g # h
  BY <1>1 DEF PublishContribution, IInv, TypeOK, Rewritten, EntriesKept
<1>2. CASE g = h
  <2>1. goal[g].lock = NoLock
    BY <1>2, OpenReadsCurrent DEF PublishContribution, Available
  <2>2. \A d \in {} \cup {e} : AfterTransfers(history[g], d)
    BY <1>2, RevisionIsSound DEF PublishContribution
  <2>3. history'[g] = (history[g] \ {}) \cup {e}
    BY <1>2 DEF PublishContribution, IInv, TypeOK
  <2>4. e.cashy /\ e.type \notin LegTypes
    BY DEF PublishContribution, LegTypes, CashLegs, AssetLegs
  <2>5. Revision(g, {}, {e})
    BY <2>2, <2>3, <2>4 DEF Revision
  <2> QED
    BY <2>1, <2>4, <2>5 DEF Rewritten, Revised
<1> QED
  BY <1>1, <1>2

LEMMA FinishOn ==
  ASSUME IInv, PlansWriteNoLegs, NEW f \in Flows, NEW a \in adjustments,
         NEW applied \in BOOLEAN, FinishCorrection(f, a, applied), NEW g \in Goals
  PROVE  Rewritten(g)
<1>1. a.goal \in Goals
  BY DEF IInv, TypeOK, Adjustment
<1>2. CASE ~applied \/ g # a.goal
  BY <1>1, <1>2 DEF FinishCorrection, IInv, TypeOK, Rewritten, EntriesKept
<1>3. CASE applied /\ g = a.goal
  <2>1. ~goal[g].deleted
    BY <1>3 DEF IInv, LocksPaired
  <2>2. /\ a.removed \subseteq history[g]
        /\ \A e \in a.removed \cup a.added : AfterTransfers(history[g], e)
    BY <1>3 DEF IInv, PlanStillFits
  <2>3. history'[g] = (history[g] \ a.removed) \cup a.added
    BY <1>3 DEF FinishCorrection, IInv, TypeOK
  <2>4. a \in adjustments \ adjustments'
    BY DEF FinishCorrection
  <2>5. Revision(g, a.removed, a.added)
    BY <2>2, <2>3 DEF PlansWriteNoLegs, Revision
  <2> QED
    BY <1>3, <2>1, <2>4, <2>5 DEF Rewritten, Corrected
<1> QED
  BY <1>2, <1>3

LEMMA PostOn ==
  ASSUME IInv, NEW f \in Flows, NEW src \in Goals, NEW dst \in Goals,
         NEW leaves \in Entries, NEW arrives \in Entries, NEW fees \in SUBSET Entries,
         PostTransfer(f, src, dst, leaves, arrives, fees), NEW g \in Goals
  PROVE  StepOn(g)
<1> DEFINE posted == (IF g = src THEN {leaves} \cup fees ELSE {})
                       \cup (IF g = dst THEN {arrives} ELSE {})
<1>1. history'[g] = history[g] \cup posted
  BY DEF PostTransfer, LegsAt
<1>2. CASE g \notin {src, dst}
  BY <1>1, <1>2 DEF StepOn, Rewritten, EntriesKept
<1>3. CASE g \in {src, dst}
  <2>1. Available(session[f][g].doc, NoLock, TRUE, FALSE) /\ Open(f, {src, dst})
    BY <1>3 DEF PostTransfer, Postable
  <2>2. session[f][g].doc = goal[g]
    BY <1>3, <2>1, OpenReadsCurrent
  <2>3. goal[g].status = "active" /\ ~goal[g].deleted /\ goal[g].lock = NoLock
    BY <2>1, <2>2 DEF Available
  <2>4. \A e \in posted : e.type \in LegTypes
    BY DEF PostTransfer, LegsOf, LegTypes, CashLegs, AssetLegs
  <2> QED
    BY <1>1, <2>3, <2>4 DEF StepOn, Posted, Withdrawn, Written
<1> QED
  BY <1>2, <1>3

\* What requests and drives other than transfers do to the entries of one goal.
LEMMA RequestOn ==
  ASSUME IInv, PlansWriteNoLegs, NEW f \in Flows, RequestStep(f), NEW g \in Goals
  PROVE  Rewritten(g)
<1>1. ASSUME NEW gs \in GoalSets, Begin(f, gs) \/ CommitUnchanged(f, gs)
      PROVE  Rewritten(g)
  BY <1>1 DEF Begin, CommitUnchanged, Rewritten, EntriesKept
<1>2. CASE Abandon(f)
  BY <1>2 DEF Abandon, Rewritten, EntriesKept
<1>3. ASSUME NEW h \in Goals, (\E s \in Statuses : UpdateGoal(f, h, s)) \/ RemoveGoal(f, h)
      PROVE  Rewritten(g)
  BY <1>3 DEF UpdateGoal, RemoveGoal, Rewritten, EntriesKept
<1>4. ASSUME NEW h \in Goals, EntryStep(f, h)
      PROVE  Rewritten(g)
  BY <1>4, EntryStepOn
<1>5. ASSUME NEW h \in Goals, \E e \in Entries : PublishContribution(f, h, e)
      PROVE  Rewritten(g)
  BY <1>5, PublishOn
<1>6. ASSUME NEW h \in Goals, \E c \in Corrections : CorrectionStep(f, h, c)
      PROVE  Rewritten(g)
  BY <1>6 DEF CorrectionStep, EditContribution, VoidContribution, VoidUnpublished,
              SubmitCorrection, Rewritten, EntriesKept
<1>7. ASSUME NEW a \in adjustments, NEW applied \in BOOLEAN,
             FinishCorrection(f, a, applied)
      PROVE  Rewritten(g)
  BY <1>7, FinishOn
<1> QED
  BY <1>1, <1>2, <1>3, <1>4, <1>5, <1>6, <1>7 DEF RequestStep

\* What Next may do to the entries of one goal.
LEMMA EveryStepOn ==
  ASSUME IInv, PlansWriteNoLegs, [Next]_vars, NEW g \in Goals
  PROVE  StepOn(g)
<1>1. ASSUME NEW f \in Flows, RequestStep(f)
      PROVE  StepOn(g)
  BY <1>1, RequestOn DEF StepOn
<1>2. ASSUME NEW f \in Flows, TransferStep(f)
      PROVE  StepOn(g)
  <2>1. PICK src \in Goals, dst \in Goals, leaves \in Entries, arrives \in Entries,
             fees \in {{}} \cup {{fee} : fee \in Entries} :
               PostTransfer(f, src, dst, leaves, arrives, fees)
    BY <1>2 DEF TransferStep
  <2>2. fees \in SUBSET Entries
    OBVIOUS
  <2> QED
    BY <2>1, <2>2, PostOn
<1>3. CASE \E h \in Goals, s \in Statuses : CreateGoal(h, s)
  BY <1>3 DEF CreateGoal, StepOn, Rewritten, EntriesKept
<1>4. CASE Tick \/ UNCHANGED vars
  BY <1>4 DEF Tick, vars, StepOn, Rewritten, EntriesKept
<1> QED
  BY <1>1, <1>2, <1>3, <1>4 DEF Next

-----------------------------------------------------------------------------
(* Plans write no legs.                                                    *)

\* What a submitted correction removes is no leg.
LEMMA SubmitRemovesNoLegs ==
  ASSUME IInv, NEW f \in Flows, NEW g \in Goals, NEW c, NEW removed, NEW added,
         NEW decreases \in BOOLEAN,
         SubmitCorrection(f, g, c, removed, added, decreases), NEW old \in removed
  PROVE  old.type \notin LegTypes
<1>1. /\ Open(f, {g})
      /\ Revisable(g, session[f][g].entries, removed, added, decreases, now)
  BY DEF SubmitCorrection
<1>2. removed \subseteq history[g] /\ AfterTransfers(history[g], old)
  BY <1>1, RevisionIsSound
<1> QED
  BY <1>2, LegsAreNotRevised DEF IInv, TypeOK

LEMMA SubmitNoLegs ==
  ASSUME IInv, PlansWriteNoLegs, NEW f \in Flows, NEW g \in Goals, NEW c \in Corrections,
         CorrectionStep(f, g, c)
  PROVE  PlansWriteNoLegs'
<1>1. ASSUME NEW old \in history[g], NEW new \in Entries,
             EditContribution(f, g, c, old, new)
      PROVE  PlansWriteNoLegs'
  <2>1. SubmitCorrection(f, g, c, {old}, {new}, new.amount < old.amount)
    BY <1>1 DEF EditContribution
  <2>2. (new.amount < old.amount) \in BOOLEAN
    OBVIOUS
  <2>3. old.type \notin LegTypes
    BY <2>1, <2>2, SubmitRemovesNoLegs
  <2>4. new.type = old.type
    <3>1. old \in Entry
      BY EntriesAssumption DEF IInv, TypeOK
    <3> QED
      BY <1>1, <3>1 DEF EditContribution, EditOf, Entry
  <2> QED
    BY <2>1, <2>3, <2>4 DEF SubmitCorrection, PlansWriteNoLegs
<1>2. CASE \E old \in history[g] : VoidContribution(f, g, c, old)
  BY <1>2 DEF VoidContribution, SubmitCorrection, PlansWriteNoLegs
<1>3. CASE VoidUnpublished(f, g, c)
  BY <1>3 DEF VoidUnpublished, SubmitCorrection, PlansWriteNoLegs
<1> QED
  BY <1>1, <1>2, <1>3 DEF CorrectionStep

LEMMA NextNoLegs == IInv /\ PlansWriteNoLegs /\ [Next]_vars => PlansWriteNoLegs'
<1> SUFFICES ASSUME IInv, PlansWriteNoLegs, [Next]_vars PROVE PlansWriteNoLegs'
  OBVIOUS
<1>1. CASE adjustments' \subseteq adjustments
  BY <1>1 DEF PlansWriteNoLegs
<1>2. CASE \E f \in Flows, g \in Goals, c \in Corrections : CorrectionStep(f, g, c)
  BY <1>2, SubmitNoLegs
<1>3. ASSUME NEW f \in Flows, RequestStep(f)
      PROVE  \/ adjustments' \subseteq adjustments
             \/ \E g \in Goals, c \in Corrections : CorrectionStep(f, g, c)
  BY <1>3 DEF RequestStep, Begin, CommitUnchanged, Abandon, UpdateGoal, RemoveGoal,
              EntryStep, CreateEntry, UpdateEntry, RemoveEntry, Rewrite,
              PublishContribution, FinishCorrection
<1>4. ASSUME NEW f \in Flows, TransferStep(f)
      PROVE  adjustments' \subseteq adjustments
  BY <1>4 DEF TransferStep, PostTransfer
<1>5. CASE Tick \/ UNCHANGED vars \/ \E g \in Goals, s \in Statuses : CreateGoal(g, s)
  BY <1>1, <1>5 DEF Tick, vars, CreateGoal
<1> QED
  BY <1>1, <1>2, <1>3, <1>4, <1>5 DEF Next

\* The invariant of the ledger and the one of its plans.
LEMMA StepsInductive == Spec => [](IInv /\ PlansWriteNoLegs)
<1>1. Init => PlansWriteNoLegs
  BY DEF Init, PlansWriteNoLegs
<1> QED
  BY <1>1, NextNoLegs, Inductive, PTL DEF Spec

-----------------------------------------------------------------------------
(* The action properties.                                                  *)

\* No step of any writer touches the past of a transfer: validate()'s cutoff
\* holds at the commit, not only in the snapshot it was evaluated on.
THEOREM PastIsSealed == Spec => PastSealed
<1>1. ASSUME IInv, PlansWriteNoLegs, [Next]_vars, NEW g \in Goals
      PROVE  /\ \A e \in Withdrawn(g) : e.type \notin LegTypes
             /\ \A e \in Written(g) \cup Withdrawn(g) :
                  e.type \in LegTypes
                    \/ \A leg \in history[g] : leg.type \in LegTypes => leg.at < e.at
  <2>1. history[g] \in SUBSET Entries
    BY <1>1 DEF IInv, TypeOK
  <2>2. ASSUME NEW removed, NEW added, Revision(g, removed, added)
        PROVE  /\ \A e \in Withdrawn(g) : e.type \notin LegTypes
               /\ \A e \in Written(g) \cup Withdrawn(g) : AfterTransfers(history[g], e)
    <3>1. Withdrawn(g) \subseteq removed /\ Written(g) \subseteq added
      BY <2>2 DEF Revision, Withdrawn, Written
    <3>2. \A e \in Written(g) \cup Withdrawn(g) : AfterTransfers(history[g], e)
      BY <2>2, <3>1 DEF Revision
    <3> QED
      BY <2>1, <3>2, LegsAreNotRevised DEF Withdrawn
  <2>3. StepOn(g)
    BY <1>1, EveryStepOn
  <2>4. CASE EntriesKept(g)
    BY <2>4 DEF EntriesKept, Withdrawn, Written
  <2>5. CASE Revised(g) \/ Corrected(g)
    BY <2>2, <2>5 DEF Revised, Corrected, AfterTransfers
  <2>6. CASE Posted(g)
    BY <2>6 DEF Posted
  <2> QED
    BY <2>3, <2>4, <2>5, <2>6 DEF StepOn, Rewritten
<1>2. IInv /\ PlansWriteNoLegs /\ [Next]_vars =>
        \A g \in Goals :
          /\ \A e \in Withdrawn(g) : e.type \notin LegTypes
          /\ \A e \in Written(g) \cup Withdrawn(g) :
               e.type \in LegTypes
                 \/ \A leg \in history[g] : leg.type \in LegTypes => leg.at < e.at
  BY <1>1
<1> QED
  BY <1>2, StepsInductive, PTL DEF Spec, PastSealed

\* While a correction is pending nothing but its outcome touches its goal.
THEOREM LocksFreeze == Spec => LockedFrozen
<1>1. ASSUME IInv, PlansWriteNoLegs, [Next]_vars, NEW g \in Goals,
             goal[g].lock # NoLock, history'[g] # history[g]
      PROVE  \E a \in adjustments \ adjustments' :
               a.goal = g /\ history'[g] = (history[g] \ a.removed) \cup a.added
  BY <1>1, EveryStepOn DEF StepOn, Rewritten, EntriesKept, Revised, Corrected, Posted, Revision
<1>2. IInv /\ PlansWriteNoLegs /\ [Next]_vars =>
        \A g \in Goals :
          goal[g].lock # NoLock /\ history'[g] # history[g] =>
            \E a \in adjustments \ adjustments' :
              /\ a.goal = g
              /\ history'[g] = (history[g] \ a.removed) \cup a.added
  BY <1>1
<1> QED
  BY <1>2, StepsInductive, PTL DEF Spec, LockedFrozen

\* A deleted goal only settles contributions accepted before.
THEOREM DeletedSettles == Spec => DeletedOnlySettles
<1>1. ASSUME IInv, PlansWriteNoLegs, [Next]_vars, NEW g \in Goals, goal[g].deleted
      PROVE  Withdrawn(g) = {} /\ \A e \in Written(g) : e.cashy
  <2>1. EntriesKept(g) \/ Revised(g)
    BY <1>1, EveryStepOn DEF StepOn, Rewritten, Corrected, Posted
  <2> QED
    BY <1>1, <2>1 DEF EntriesKept, Revised, Revision, Withdrawn, Written
<1>2. IInv /\ PlansWriteNoLegs /\ [Next]_vars =>
        \A g \in Goals :
          goal[g].deleted => Withdrawn(g) = {} /\ \A e \in Written(g) : e.cashy
  BY <1>1
<1> QED
  BY <1>2, StepsInductive, PTL DEF Spec, DeletedOnlySettles

\* Legs only reach goals that are active, alive and unlocked at the commit.
THEOREM TransfersReachOpenGoals == Spec => TransfersNeedOpenGoals
<1>1. ASSUME IInv, PlansWriteNoLegs, [Next]_vars, NEW g \in Goals,
             \E e \in Written(g) : e.type \in LegTypes
      PROVE  goal[g].status = "active" /\ ~goal[g].deleted /\ goal[g].lock = NoLock
  BY <1>1, EveryStepOn DEF StepOn, Rewritten, EntriesKept, Revised, Corrected, Revision, Posted, Written
<1>2. IInv /\ PlansWriteNoLegs /\ [Next]_vars =>
        \A g \in Goals :
          (\E e \in Written(g) : e.type \in LegTypes) =>
            goal[g].status = "active" /\ ~goal[g].deleted /\ goal[g].lock = NoLock
  BY <1>1
<1> QED
  BY <1>2, StepsInductive, PTL DEF Spec, TransfersNeedOpenGoals
=============================================================================
