------------------------------- MODULE Ledger -------------------------------
(***************************************************************************)
(* Every operation that rewrites a goal or its entries.  Each one runs in  *)
(* a MongoDB snapshot transaction opened by LedgerCoordinator, which bumps *)
(* ledgerVersion on every goal it touches: a session sees the goals of its *)
(* Begin, and is thrown away when another session writes one of them       *)
(* first.                                                                  *)
(***************************************************************************)
EXTENDS LedgerRules

CONSTANTS
  Flows,          \* concurrent requests and background drives
  Corrections,    \* ids of linked-contribution corrections
  NoLock,         \* cashyAdjustmentLock absent or ''
  MaxTime         \* bound on the clock

VARIABLES
  goal,           \* goals collection: status, deletedAt, cashyAdjustmentLock
  history,        \* entries of each goal (voided movements excluded)
  adjustments,    \* pending rows of the corrections collection
  session,        \* MongoDB session of each flow
  now

vars == <<goal, history, adjustments, session, now>>

Statuses == {"active", "paused", "completed"}

GoalDoc == [status: Statuses \cup {"absent"}, deleted: BOOLEAN,
            lock: Corrections \cup {NoLock}]

Adjustment == [id: Corrections, goal: Goals,
               removed: SUBSET Entries, added: SUBSET Entries]

Snapshot == [doc: GoalDoc, entries: SUBSET Entries]

ASSUME LedgerAssumption == NoLock \notin Corrections /\ MaxTime \in Nat \ {0}

-----------------------------------------------------------------------------
(* LedgerCoordinator: sessions.                                            *)

\* The snapshots of the goals a session works on; none when it is closed.
NoSession == [g \in {} |-> {}]

GoalSets == {{g, h} : g, h \in Goals}

Init ==
  /\ goal \in [Goals -> {d \in GoalDoc : d.status \in {"absent", "active"}
                                           /\ ~d.deleted /\ d.lock = NoLock}]
  /\ history = [g \in Goals |-> {}]
  /\ adjustments = {}
  /\ session = [f \in Flows |-> NoSession]
  /\ now = 1

\* connection.transaction(): the callback starts, or starts again after the
\* driver discarded a session that lost a write conflict.
Begin(f, gs) ==
  /\ session[f] = NoSession
  /\ \A g \in gs : goal[g].status # "absent"
  /\ session' = [session EXCEPT ![f] =
       [g \in gs |-> [doc |-> goal[g], entries |-> history[g]]]]
  /\ UNCHANGED <<goal, history, adjustments, now>>

\* Every failure of the callback or the connection: nothing is written.
Abandon(f) ==
  /\ session[f] # NoSession
  /\ session' = [session EXCEPT ![f] = NoSession]
  /\ UNCHANGED <<goal, history, adjustments, now>>

\* Mutants of Available: the filter forgets the lock, deletedAt or the status.
AvailableLocked(doc, lock, requireActive, allowDeleted) ==
  /\ doc.status # "absent"
  /\ allowDeleted \/ ~doc.deleted
  /\ requireActive => doc.status = "active"

AvailableDeleted(doc, lock, requireActive, allowDeleted) ==
  /\ doc.status # "absent"
  /\ doc.lock = lock
  /\ requireActive => doc.status = "active"

AvailablePaused(doc, lock, requireActive, allowDeleted) ==
  /\ doc.status # "absent"
  /\ allowDeleted \/ ~doc.deleted
  /\ doc.lock = lock

\* The filter of the findOneAndUpdate that bumps ledgerVersion.
Available(doc, lock, requireActive, allowDeleted) ==
  /\ doc.status # "absent"
  /\ allowDeleted \/ ~doc.deleted
  /\ doc.lock = lock
  /\ requireActive => doc.status = "active"

Open(f, gs) == DOMAIN session[f] = gs

\* Mutant of Conflicts: the goals are read and their version is not bumped.
NoConflict(h, gs) == FALSE

\* Session h holds a snapshot of a goal that is being written.
Conflicts(h, gs) == DOMAIN session[h] \cap gs # {}

\* The session of f commits its write of the goals gs; those that read one of
\* them earlier can only start again.
Commit(f, gs) ==
  session' = [h \in Flows |->
    IF h = f \/ Conflicts(h, gs) THEN NoSession ELSE session[h]]

\* A callback that returns early (work done by somebody else) still commits
\* the bump of the goals.
CommitUnchanged(f, gs) ==
  /\ Open(f, gs)
  /\ \A g \in gs : Available(session[f][g].doc, NoLock, FALSE, TRUE)
  /\ Commit(f, gs)
  /\ UNCHANGED <<goal, history, adjustments, now>>

-----------------------------------------------------------------------------
(* Goals.                                                                  *)

\* GoalsService.create
CreateGoal(g, status) ==
  /\ goal[g].status = "absent"
  /\ goal' = [goal EXCEPT ![g].status = status]
  /\ UNCHANGED <<history, adjustments, session, now>>

\* GoalsService.update: the status is the part the ledger reads.
UpdateGoal(f, g, status) ==
  /\ Open(f, {g})
  /\ Available(session[f][g].doc, NoLock, FALSE, FALSE)
  /\ goal' = [goal EXCEPT ![g].status = status]
  /\ Commit(f, {g})
  /\ UNCHANGED <<history, adjustments, now>>

\* Mutant of RemoveGoal: removal is written as a status of its own.
RemoveByStatus(f, g) ==
  /\ Open(f, {g})
  /\ Available(session[f][g].doc, NoLock, FALSE, FALSE)
  /\ goal' = [goal EXCEPT ![g].status = "removed"]
  /\ Commit(f, {g})
  /\ UNCHANGED <<history, adjustments, now>>

\* GoalsService.remove
RemoveGoal(f, g) ==
  /\ Open(f, {g})
  /\ Available(session[f][g].doc, NoLock, FALSE, FALSE)
  /\ goal' = [goal EXCEPT ![g].deleted = TRUE]
  /\ Commit(f, {g})
  /\ UNCHANGED <<history, adjustments, now>>

-----------------------------------------------------------------------------
(* Movements and operations written by hand.                               *)

IsMovement(e)  == e.type \in MovementTypes
IsOperation(e) == e.type \in OperationTypes
ByHand(e) == ~e.cashy /\ (IsMovement(e) \/ IsOperation(e))

\* A new document gets an id no document has.
Fresh(e) == \A g \in Goals : \A d \in history[g] : d.id # e.id

\* The body createUnlocked, updateUnlocked and removeUnlocked share.
Rewrite(f, g, removed, added) ==
  /\ Open(f, {g})
  /\ Available(session[f][g].doc, NoLock, FALSE, FALSE)
  /\ Revisable(g, session[f][g].entries, removed, added, FALSE, now)
  /\ history' = [history EXCEPT ![g] = (@ \ removed) \cup added]
  /\ Commit(f, {g})
  /\ UNCHANGED <<goal, adjustments, now>>

CreateEntry(f, g, e) ==
  ByHand(e) /\ Fresh(e) /\ Rewrite(f, g, {}, {e})

UpdateEntry(f, g, old, new) ==
  /\ ByHand(old) /\ ByHand(new)
  /\ old.id = new.id /\ IsMovement(old) = IsMovement(new)
  /\ Rewrite(f, g, {old}, {new})

RemoveEntry(f, g, old) ==
  ByHand(old) /\ Rewrite(f, g, {old}, {})

-----------------------------------------------------------------------------
(* Contributions funded from Cashy.                                        *)

\* ContributionJobService.publish: an accepted contribution is settled even
\* when its goal was deleted meanwhile.
PublishContribution(f, g, e) ==
  /\ e.cashy /\ e.type = "contribution" /\ Fresh(e)
  /\ Open(f, {g})
  /\ Available(session[f][g].doc, NoLock, FALSE, TRUE)
  /\ Revisable(g, session[f][g].entries, {}, {e}, FALSE, now)
  /\ history' = [history EXCEPT ![g] = @ \cup {e}]
  /\ Commit(f, {g})
  /\ UNCHANGED <<goal, adjustments, now>>

\* ContributionAdjustmentService.submit: the revision is validated, recorded
\* and the goal locked until Cashy resolves it.
SubmitCorrection(f, g, c, removed, added, decreases) ==
  /\ \A a \in adjustments : a.id # c
  /\ Open(f, {g})
  /\ Available(session[f][g].doc, NoLock, FALSE, FALSE)
  /\ removed \cup added # {} =>
       Revisable(g, session[f][g].entries, removed, added, decreases, now)
  /\ adjustments' = adjustments \cup
       {[id |-> c, goal |-> g, removed |-> removed, added |-> added]}
  /\ goal' = [goal EXCEPT ![g].lock = c]
  /\ Commit(f, {g})
  /\ UNCHANGED <<history, now>>

\* An edit changes the amount of the movement and nothing the replay sorts by.
EditOf(old, new) ==
  new = [old EXCEPT !.amount = new.amount]

EditContribution(f, g, c, old, new) ==
  /\ old.cashy /\ EditOf(old, new)
  /\ SubmitCorrection(f, g, c, {old}, {new}, new.amount < old.amount)

VoidContribution(f, g, c, old) ==
  old.cashy /\ SubmitCorrection(f, g, c, {old}, {}, TRUE)

\* The void of a contribution whose movement was never published.
VoidUnpublished(f, g, c) == SubmitCorrection(f, g, c, {}, {}, TRUE)

\* Mutant of Unlock: a rejected correction keeps its goal locked.
UnlockApplied(g, applied) ==
  goal' = IF applied THEN [goal EXCEPT ![g].lock = NoLock] ELSE goal

\* Applied or rejected, the correction releases the goal.
Unlock(g, applied) == goal' = [goal EXCEPT ![g].lock = NoLock]

\* ContributionAdjustmentService.finish: the recorded revision is applied, or
\* dropped when Cashy rejected it, without another validation.
FinishCorrection(f, a, applied) ==
  /\ a \in adjustments
  /\ Open(f, {a.goal})
  /\ Available(session[f][a.goal].doc, a.id, FALSE, FALSE)
  /\ history' = IF applied
                THEN [history EXCEPT ![a.goal] = (@ \ a.removed) \cup a.added]
                ELSE history
  /\ adjustments' = adjustments \ {a}
  /\ Unlock(a.goal, applied)
  /\ Commit(f, {a.goal})
  /\ UNCHANGED now

-----------------------------------------------------------------------------
(* Transfers.                                                              *)

\* The legs of one transfer: what leaves the source is what arrives, and the
\* source also pays the fee.
LegsOf(leaves, arrives, fees) ==
  /\ leaves.type \in {"cash_out", "asset_out"}
  /\ arrives.type = IF leaves.type = "cash_out" THEN "cash_in" ELSE "asset_in"
  /\ \A fee \in fees :
       fee.type = IF leaves.type = "cash_out" THEN "cash_fee" ELSE "asset_fee"
  /\ arrives.amount = leaves.amount /\ arrives.quantity = leaves.quantity
  /\ \A leg \in {arrives} \cup fees : leg.at = leaves.at
  /\ \A fee \in fees : fee.cash = leaves.cash /\ fee.asset = leaves.asset

Account(leg) == IF leg.type \in CashLegs THEN leg.cash ELSE leg.asset

\* sourcePool() and positionPool(): no transfer is dated before its source's
\* start, nor a crypto transfer before its destination's, legacy goals included.
Started(src, dst, isCash, t) ==
  StartDate[src] <= t /\ (isCash \/ StartDate[dst] <= t)

\* The entries a transfer adds to the goal g.
LegsAt(g, src, dst, leaves, arrives, fees) ==
  (IF g = src THEN {leaves} \cup fees ELSE {}) \cup (IF g = dst THEN {arrives} ELSE {})

\* What the session has to read for the transfer to be posted at time t: both
\* goals are validated, the legs are inserted, and both are validated again.
Postable(seen, src, dst, leaves, arrives, fees, t) ==
  LET isCash == leaves.type = "cash_out"
  IN /\ Started(src, dst, isCash, leaves.at)
     /\ \A g \in {src, dst} :
          /\ Available(seen[g].doc, NoLock, TRUE, FALSE)
          /\ Valid(g, seen[g].entries, isCash, t)
          /\ Valid(g, seen[g].entries \cup LegsAt(g, src, dst, leaves, arrives, fees),
                   isCash, t)

\* TransferExecutionService.execute
PostTransfer(f, src, dst, leaves, arrives, fees) ==
  /\ LegsOf(leaves, arrives, fees) /\ leaves.at <= now
  /\ src = dst => Account(leaves) # Account(arrives)
  /\ \A leg \in {leaves, arrives} \cup fees : Fresh(leg)
  /\ Open(f, {src, dst})
  /\ Postable(session[f], src, dst, leaves, arrives, fees, now)
  /\ history' = [g \in Goals |-> history[g] \cup LegsAt(g, src, dst, leaves, arrives, fees)]
  /\ Commit(f, {src, dst})
  /\ UNCHANGED <<goal, adjustments, now>>

-----------------------------------------------------------------------------

Tick ==
  /\ now < MaxTime
  /\ now' = now + 1
  /\ UNCHANGED <<goal, history, adjustments, session>>

EntryStep(f, g) ==
  \/ \E e \in Entries : CreateEntry(f, g, e)
  \/ \E old \in history[g], new \in Entries : UpdateEntry(f, g, old, new)
  \/ \E old \in history[g] : RemoveEntry(f, g, old)

CorrectionStep(f, g, c) ==
  \/ \E old \in history[g], new \in Entries : EditContribution(f, g, c, old, new)
  \/ \E old \in history[g] : VoidContribution(f, g, c, old)
  \/ VoidUnpublished(f, g, c)

\* What the requests and drives other than transfers do with a session.
RequestStep(f) ==
  \/ \E gs \in GoalSets : Begin(f, gs) \/ CommitUnchanged(f, gs)
  \/ Abandon(f)
  \/ \E g \in Goals :
       \/ \E s \in Statuses : UpdateGoal(f, g, s)
       \/ RemoveGoal(f, g)
       \/ EntryStep(f, g)
       \/ \E e \in Entries : PublishContribution(f, g, e)
       \/ \E c \in Corrections : CorrectionStep(f, g, c)
  \/ \E a \in adjustments, applied \in BOOLEAN : FinishCorrection(f, a, applied)

TransferStep(f) ==
  \E src, dst \in Goals, leaves, arrives \in Entries,
     fees \in {{}} \cup {{fee} : fee \in Entries} :
    PostTransfer(f, src, dst, leaves, arrives, fees)

Next ==
  \/ \E g \in Goals, s \in Statuses : CreateGoal(g, s)
  \/ \E f \in Flows : RequestStep(f) \/ TransferStep(f)
  \/ Tick

Spec == Init /\ [][Next]_vars

-----------------------------------------------------------------------------
(* Properties.                                                             *)

\* Types of the variables.
TypeOK ==
  /\ goal \in [Goals -> GoalDoc]
  /\ history \in [Goals -> SUBSET Entries]
  /\ adjustments \subseteq Adjustment
  /\ DOMAIN session = Flows
  /\ \A f \in Flows : \E gs \in SUBSET Goals : session[f] \in [gs -> Snapshot]
  /\ now \in Nat

\* The replay of a goal never fails: no balance of any account is negative at
\* any point of its history and no entry is outside the goal's dates, although
\* corrections are applied long after the validation that accepted them and
\* writers validate snapshots (PortfolioLedgerService.validate as invariant).
LedgerSound == \A g \in Goals : Valid(g, history[g], FALSE, now)

\* A pending correction still fits: what finish() writes without validating is
\* still there to be rewritten and would pass the validation again.
PlanStillFits ==
  \A a \in adjustments :
    /\ a.removed \subseteq history[a.goal]
    /\ \A e \in a.removed \cup a.added : AfterTransfers(history[a.goal], e)
    /\ Valid(a.goal, (history[a.goal] \ a.removed) \cup a.added, FALSE, now)

\* A goal is locked exactly while its one correction is pending: no lock is
\* orphaned (the goal would be read-only forever) and no correction waits
\* without the lock that protects its plan.
LocksPaired ==
  /\ \A g \in Goals : goal[g].lock # NoLock =>
       \E a \in adjustments : a.goal = g /\ a.id = goal[g].lock
  /\ \A a \in adjustments : goal[a.goal].lock = a.id /\ ~goal[a.goal].deleted
  /\ \A a, b \in adjustments : a.id = b.id => a = b

\* An open session that would commit reads the goals as they are now: the
\* ledgerVersion bump turns a stale snapshot into a write conflict.
SessionsCurrent ==
  \A f \in Flows : \A g \in DOMAIN session[f] :
    /\ session[f][g] = [doc |-> goal[g], entries |-> history[g]]
    /\ goal[g].status # "absent"

\* What the proof carries from step to step.
IInv == TypeOK /\ LedgerSound /\ PlanStillFits /\ LocksPaired /\ SessionsCurrent

Written(g)  == history'[g] \ history[g]
Withdrawn(g) == history[g] \ history'[g]

\* The past of a transfer is sealed: its legs are never removed, and no entry
\* dated at or before a leg the goal has now is added, changed or removed by
\* any other writer (the ConflictException of validate()).
PastSealed ==
  [][\A g \in Goals :
       /\ \A e \in Withdrawn(g) : e.type \notin LegTypes
       /\ \A e \in Written(g) \cup Withdrawn(g) :
            e.type \in LegTypes
              \/ \A leg \in history[g] : leg.type \in LegTypes => leg.at < e.at]_vars

\* While a correction is pending only its outcome touches the goal's entries.
LockedFrozen ==
  [][\A g \in Goals :
       goal[g].lock # NoLock /\ history'[g] # history[g] =>
         \E a \in adjustments \ adjustments' :
           /\ a.goal = g
           /\ history'[g] = (history[g] \ a.removed) \cup a.added]_vars

\* A deleted goal only settles contributions that were already accepted.
DeletedOnlySettles ==
  [][\A g \in Goals : goal[g].deleted =>
       Withdrawn(g) = {} /\ \A e \in Written(g) : e.cashy]_vars

\* A transfer posts to goals that are active, alive and free of corrections in
\* the state it commits to, not only in the one it read.
TransfersNeedOpenGoals ==
  [][\A g \in Goals : (\E e \in Written(g) : e.type \in LegTypes) =>
       goal[g].status = "active" /\ ~goal[g].deleted /\ goal[g].lock = NoLock]_vars
=============================================================================
