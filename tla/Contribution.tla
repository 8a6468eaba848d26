---------------------------- MODULE Contribution ----------------------------
(***************************************************************************)
(* The life of one contribution funded from Cashy, an external budget      *)
(* service: its job and movement in Growly, its reservation in Cashy, and  *)
(* the corrections of both.  Drives of the job and of its corrections run  *)
(* concurrently (requests, the retry timer, other servers); each request   *)
(* to Cashy may be answered late, after its drive gave up, or never.       *)
(* A ledger transaction is one step: module Ledger shows why it may be.    *)
(***************************************************************************)
EXTENDS ContributionMoney, FiniteSets

CONSTANTS
  Drives,       \* concurrent calls of drive()
  Corrections,  \* ids of the contribution's corrections
  Amounts,      \* amounts of the contribution and of its edits
  NoLock,       \* the goal has no pending correction
  Elsewhere,    \* the goal is locked by a correction of another contribution
  MaxLate       \* bound on the requests whose drive gave up

VARIABLES
  job,          \* row of contribution-jobs
  movement,     \* row of goal-movements
  correction,   \* rows of contribution-adjustments
  lock,         \* cashyAdjustmentLock of the goal
  sealed,       \* a transfer of the goal is dated after the movement
  linked,       \* authorize() can still succeed: no revocation of the link
  lapsed,       \* the preparation expired or its month is over
  cashy,        \* Cashy's record of the contribution and its corrections
  drive,        \* progress of each drive
  wire          \* requests Cashy has not handled

vars == <<job, movement, correction, lock, sealed, linked, lapsed, cashy, drive, wire>>
goalVars == <<lock, sealed, linked, lapsed>>
rowVars  == <<job, movement, correction>>

ASSUME ContributionAssumption ==
  /\ Amounts \subseteq Nat \ {0}
  /\ NoLock \notin Corrections /\ Elsewhere \notin Corrections \cup {NoLock}
  /\ MaxLate \in Nat
  /\ {"none", "job"} \cap Corrections = {} /\ "nobody" \notin Drives

Job == [status: {"none", "pending", "confirmed", "cancelled",
                 "reconciliation-required", "voided"},
        cancelRequested: BOOLEAN, revision: Nat, amount: Nat]

Movement == [state: {"absent", "live", "voided"}, amount: Nat]

Correction == [status: {"none", "pending", "applied", "rejected"},
               kind: {"edit", "void"}, expected: Nat, amount: Nat]

CashyRecord == [status: {"missing", "reserved", "confirmed", "cancelled"},
                amount: Nat, revision: Nat,
                correction: [Corrections -> {"missing", "applied", "rejected"}]]

\* pc is the request a drive waits for, or its next local step.
Drive == [on: {"none", "job"} \cup Corrections,
          pc: {"idle", "picked", "status", "reserve", "confirm", "cancel",
               "adjust", "reject", "publish", "finish", "complete"},
          cancelRequested: BOOLEAN,
          receipt: {"none", "missing", "reserved", "confirmed", "cancelled",
                    "refused", "applied", "rejected", "reconciliation-required"}]

Idle == [on |-> "none", pc |-> "idle", cancelRequested |-> FALSE, receipt |-> "none"]

Request == [from: Drives \cup {"nobody"}, on: {"job"} \cup Corrections,
            action: {"status", "reserve", "confirm", "cancel", "adjust", "reject"}]

Init ==
  /\ \E n \in Amounts :
       job = [status |-> "none", cancelRequested |-> FALSE, revision |-> 1, amount |-> n]
  /\ movement = [state |-> "absent", amount |-> 0]
  /\ correction = [c \in Corrections |->
       [status |-> "none", kind |-> "void", expected |-> 0, amount |-> 0]]
  /\ lock = NoLock
  /\ sealed = FALSE /\ linked = TRUE /\ lapsed = FALSE
  /\ cashy = [status |-> "missing", amount |-> 0, revision |-> 1,
              correction |-> [c \in Corrections |-> "missing"]]
  /\ drive = [d \in Drives |-> Idle]
  /\ wire = {}

-----------------------------------------------------------------------------
(* Requests of the user.                                                   *)

\* ContributionJobService.confirm.  The expiry, the month and the ledger are
\* checked before the row is written, in no transaction: the write may follow a
\* Lapse or a Seal, so it asks for neither.
Confirm ==
  /\ job.status = "none"
  /\ job' = [job EXCEPT !.status = "pending"]
  /\ UNCHANGED <<movement, correction, goalVars, cashy, drive, wire>>

\* cancelPending
CancelPending ==
  /\ job.status = "pending"
  /\ job' = [job EXCEPT !.cancelRequested = TRUE]
  /\ UNCHANGED <<movement, correction, goalVars, cashy, drive, wire>>

\* Mutant of Reconcile: the job gets a status the other handlers do not know.
ReconcileRetrying ==
  /\ job.status = "reconciliation-required"
  /\ job' = [job EXCEPT !.status = "retrying"]
  /\ UNCHANGED <<movement, correction, goalVars, cashy, drive, wire>>

\* reconcile
Reconcile ==
  /\ job.status = "reconciliation-required"
  /\ job' = [job EXCEPT !.status = "pending"]
  /\ UNCHANGED <<movement, correction, goalVars, cashy, drive, wire>>

\* A published movement is corrected within its goal's history; one that never
\* was can only be voided.
FitsJob(kind) ==
  \/ job.status = "confirmed" /\ movement.state = "live" /\ ~sealed
  \/ /\ job.status = "reconciliation-required" /\ kind = "void"
     /\ movement.state = "absent" \/ (movement.state = "live" /\ ~sealed)

\* Mutant of Correctable: another correction may be pending.
CorrectableTwice(kind) == FitsJob(kind)

\* What submit() checks in its transaction; authorize() answered before it, and
\* the link may have been revoked since.
Correctable(kind) == lock = NoLock /\ FitsJob(kind)

\* ContributionAdjustmentService.submit; validate() may also refuse the balance,
\* and then nothing happens.
Submit(c, kind, amount) ==
  /\ correction[c].status = "none" /\ Correctable(kind)
  /\ correction' = [correction EXCEPT ![c] =
       [status |-> "pending", kind |-> kind, expected |-> job.revision,
        amount |-> IF kind = "void" THEN 0 ELSE amount]]
  /\ lock' = c
  /\ UNCHANGED <<job, movement, sealed, linked, lapsed, cashy, drive, wire>>

-----------------------------------------------------------------------------
(* Cashy: every action is idempotent and a cancellation or a rejection is  *)
(* recorded even for what Cashy never saw (the code sends it the whole     *)
(* input for that).                                                        *)

\* What Cashy may answer and what its record becomes.
JobAnswers(action, s) ==
  CASE action = "reserve" /\ s = "missing" ->
         {<<"reserved", "reserved">>, <<"refused", "missing">>}
    [] action = "confirm" /\ s = "reserved" ->
         {<<"confirmed", "confirmed">>, <<"refused", "reserved">>}
    [] action = "confirm" /\ s = "missing" -> {<<"refused", "missing">>}
    [] action = "cancel" /\ s \in {"missing", "reserved"} ->
         {<<"cancelled", "cancelled">>}
    [] OTHER -> {<<s, s>>}

CorrectionAnswers(c, action, s) ==
  CASE action = "adjust" /\ s = "missing" ->
         {<<"rejected", "rejected">>, <<"refused", "missing">>}
           \cup IF cashy.status = "confirmed" /\ cashy.revision = correction[c].expected
                THEN {<<"applied", "applied">>} ELSE {}
    [] action = "reject" /\ s = "missing" -> {<<"rejected", "rejected">>}
    [] OTHER -> {<<s, s>>}

\* The answer reaches the drive that asked, if it still waits.
Reply(m, receipt) ==
  /\ wire' = wire \ {m}
  /\ drive' = IF m.from = "nobody" THEN drive
              ELSE [drive EXCEPT ![m.from].receipt = receipt]

AnswerJob(m) ==
  /\ m.on = "job"
  /\ \E answer \in JobAnswers(m.action, cashy.status) :
       /\ cashy' = [cashy EXCEPT !.status = answer[2],
                                 !.amount = IF answer[2] = "reserved" THEN job.amount ELSE @]
       /\ Reply(m, answer[1])
  /\ UNCHANGED <<rowVars, goalVars>>

AnswerCorrection(m) ==
  /\ m.on \in Corrections
  /\ \E answer \in CorrectionAnswers(m.on, m.action, cashy.correction[m.on]) :
       /\ cashy' =
            IF answer[2] = "applied" /\ cashy.correction[m.on] = "missing"
            THEN [cashy EXCEPT !.correction[m.on] = "applied",
                               !.amount = correction[m.on].amount,
                               !.revision = @ + 1]
            ELSE [cashy EXCEPT !.correction[m.on] = answer[2]]
       /\ Reply(m, answer[1])
  /\ UNCHANGED <<rowVars, goalVars>>

-----------------------------------------------------------------------------
(* ContributionJobService.drive                                            *)

Send(d, action) ==
  /\ drive' = [drive EXCEPT ![d].pc = action, ![d].receipt = "none"]
  /\ wire' = wire \cup {[from |-> d, on |-> drive[d].on, action |-> action]}
  /\ UNCHANGED <<rowVars, goalVars, cashy>>

Goto(d, pc, receipt) ==
  drive' = [drive EXCEPT ![d].pc = pc, ![d].receipt = receipt]

\* A handler or retryPending() reads the row it is going to drive.
PickJob(d) ==
  /\ drive[d] = Idle /\ job.status = "pending"
  /\ drive' = [drive EXCEPT ![d] = [on |-> "job", pc |-> "picked", receipt |-> "none",
                                    cancelRequested |-> job.cancelRequested]]
  /\ UNCHANGED <<rowVars, goalVars, cashy, wire>>

Ask(d) == drive[d].pc = "picked" /\ Send(d, "status")

DrivesJob(d, receipt) == drive[d].on = "job" /\ drive[d].receipt = receipt

\* Cashy does not know the contribution: reserve it, or cancel it because the
\* row says so, it came too late or authorize() was refused.
HandleMissing(d) ==
  /\ DrivesJob(d, "missing") /\ drive[d].pc = "status"
  /\ \/ ~drive[d].cancelRequested /\ ~lapsed /\ linked /\ Send(d, "reserve")
     \/ Send(d, "cancel")

\* Mutant of HandleRefused: a refused request counts as a cancellation.
RefusedIsCancelled(d) ==
  /\ DrivesJob(d, "refused") /\ drive[d].pc \in {"reserve", "confirm"}
  /\ Goto(d, "complete", "cancelled")
  /\ UNCHANGED <<rowVars, goalVars, cashy, wire>>

HandleRefused(d) ==
  /\ DrivesJob(d, "refused") /\ drive[d].pc \in {"reserve", "confirm"}
  /\ Send(d, "cancel")

\* The row is read again; a reservation is confirmed unless the user changed
\* his mind or authorize() was refused.
HandleReserved(d) ==
  /\ DrivesJob(d, "reserved") /\ drive[d].pc \in {"status", "reserve"}
  /\ \/ ~job.cancelRequested /\ linked /\ Send(d, "confirm")
     \/ Send(d, "cancel")

HandleSettled(d) ==
  /\ \/ DrivesJob(d, "confirmed") /\ drive[d].pc # "complete" /\ Goto(d, "publish", "none")
     \/ DrivesJob(d, "cancelled") /\ drive[d].pc # "complete" /\ Goto(d, "complete", "cancelled")
  /\ UNCHANGED <<rowVars, goalVars, cashy, wire>>

\* The filter of settleAccepted(): a deleted goal passes, a locked one does not.
CanSettle == lock = NoLock

\* publish(): a job somebody settled meanwhile is left alone, and the drive
\* goes on as if it had published.
Publish(d) ==
  /\ drive[d].pc = "publish" /\ CanSettle
  /\ \/ job.status # "pending" /\ UNCHANGED <<job, movement>>
     \/ /\ job.status = "pending" /\ ~sealed
        /\ job' = [job EXCEPT !.status = "confirmed"]
        /\ movement' = IF movement.state = "absent"
                       THEN [state |-> "live", amount |-> job.amount] ELSE movement
  /\ Goto(d, "complete", "confirmed")
  /\ UNCHANGED <<correction, goalVars, cashy, wire>>

\* Mutant of PublishRefused: the conflict is retried like an outage.
PublishRetried(d) ==
  /\ drive[d].pc = "publish"
  /\ ~CanSettle \/ (job.status = "pending" /\ sealed)
  /\ drive' = [drive EXCEPT ![d] = Idle]
  /\ UNCHANGED <<rowVars, goalVars, cashy, wire>>

\* publish() throws a ConflictException: the goal is locked or its past sealed.
PublishRefused(d) ==
  /\ drive[d].pc = "publish"
  /\ ~CanSettle \/ (job.status = "pending" /\ sealed)
  /\ Goto(d, "complete", "reconciliation-required")
  /\ UNCHANGED <<rowVars, goalVars, cashy, wire>>

\* Mutant of Completed: the write does not ask for a pending row.
CompletedAnyway(status) == [job EXCEPT !.status = status]

\* complete(), which only touches a pending row.
Completed(status) ==
  IF job.status = "pending" THEN [job EXCEPT !.status = status] ELSE job

Complete(d) ==
  /\ drive[d].pc = "complete"
  /\ job' = Completed(drive[d].receipt)
  /\ drive' = [drive EXCEPT ![d] = Idle]
  /\ UNCHANGED <<movement, correction, goalVars, cashy, wire>>

-----------------------------------------------------------------------------
(* ContributionAdjustmentService.drive                                     *)

PickCorrection(d, c) ==
  /\ drive[d] = Idle /\ correction[c].status = "pending"
  /\ drive' = [drive EXCEPT ![d] = [on |-> c, pc |-> "picked", receipt |-> "none",
                                    cancelRequested |-> FALSE]]
  /\ UNCHANGED <<rowVars, goalVars, cashy, wire>>

DrivesCorrection(d, receipt) ==
  drive[d].on \in Corrections /\ drive[d].receipt = receipt

\* Ask Cashy to adjust, or to reject when authorize() or Cashy says 403.
HandleUnadjusted(d) ==
  /\ DrivesCorrection(d, "missing") /\ drive[d].pc = "status"
  /\ (linked /\ Send(d, "adjust")) \/ Send(d, "reject")

\* Mutant of HandleForbidden: the refusal is retried like an outage.
ForbiddenRetried(d) ==
  /\ DrivesCorrection(d, "refused") /\ drive[d].pc = "adjust"
  /\ drive' = [drive EXCEPT ![d] = Idle]
  /\ UNCHANGED <<rowVars, goalVars, cashy, wire>>

HandleForbidden(d) ==
  DrivesCorrection(d, "refused") /\ drive[d].pc = "adjust" /\ Send(d, "reject")

HandleResolved(d) ==
  /\ \E verdict \in {"applied", "rejected"} :
       /\ DrivesCorrection(d, verdict) /\ drive[d].pc # "finish"
       /\ Goto(d, "finish", verdict)
  /\ UNCHANGED <<rowVars, goalVars, cashy, wire>>

\* Mutant of ApplyCorrection: an annulment forgets the movement.
ApplyToJobOnly(row) ==
  /\ movement' = IF row.kind = "void" THEN movement
                 ELSE [movement EXCEPT !.amount = row.amount]
  /\ job' = [job EXCEPT !.status = IF row.kind = "void" THEN "voided" ELSE "confirmed",
                        !.revision = row.expected + 1]

\* The row, the movement and the job after an applied correction.
ApplyCorrection(row) ==
  /\ row.kind = "edit" => movement.state # "absent"
  /\ movement' = IF movement.state = "absent" THEN movement
                 ELSE IF row.kind = "void" THEN [movement EXCEPT !.state = "voided"]
                 ELSE [movement EXCEPT !.amount = row.amount]
  /\ job' = [job EXCEPT !.status = IF row.kind = "void" THEN "voided" ELSE "confirmed",
                        !.revision = row.expected + 1]

\* finish(), under the lock of the correction.
Finish(d) ==
  LET c == drive[d].on IN
  /\ drive[d].pc = "finish"
  /\ correction[c].status = "pending" /\ lock = c
  /\ job.revision = correction[c].expected
  /\ IF drive[d].receipt = "applied" THEN ApplyCorrection(correction[c])
     ELSE UNCHANGED <<job, movement>>
  /\ correction' = [correction EXCEPT ![c].status = drive[d].receipt]
  /\ lock' = NoLock
  /\ drive' = [drive EXCEPT ![d] = Idle]
  /\ UNCHANGED <<sealed, linked, lapsed, cashy, wire>>

\* finish() finds the correction resolved by another drive.
FinishResolved(d) ==
  /\ drive[d].pc = "finish" /\ correction[drive[d].on].status # "pending"
  /\ drive' = [drive EXCEPT ![d] = Idle]
  /\ UNCHANGED <<rowVars, goalVars, cashy, wire>>

-----------------------------------------------------------------------------

\* A timeout, a 5xx, an incompatible answer, a failed write or a crash: the row
\* stays as it is for the timer.  A request sent may still reach Cashy.
Fail(d) ==
  /\ drive[d] # Idle
  /\ drive' = [drive EXCEPT ![d] = Idle]
  /\ LET sent == {m \in wire : m.from = d}
     IN \/ wire' = wire \ sent
        \/ /\ Cardinality({m \in wire : m.from = "nobody"}) < MaxLate
           /\ wire' = (wire \ sent) \cup {[m EXCEPT !.from = "nobody"] : m \in sent}
  /\ UNCHANGED <<rowVars, goalVars, cashy>>

\* What else happens to the goal, the link and the clock.
LockElsewhere ==
  /\ lock \in {NoLock, Elsewhere}
  /\ lock' = IF lock = NoLock THEN Elsewhere ELSE NoLock
  /\ UNCHANGED <<rowVars, sealed, linked, lapsed, cashy, drive, wire>>

Seal ==
  /\ lock = NoLock /\ ~sealed /\ sealed' = TRUE
  /\ UNCHANGED <<rowVars, lock, linked, lapsed, cashy, drive, wire>>

\* AccountLinkService.revoke, or the same on Cashy's side.
Revoke ==
  /\ linked /\ linked' = FALSE
  /\ UNCHANGED <<rowVars, lock, sealed, lapsed, cashy, drive, wire>>

Lapse ==
  /\ ~lapsed /\ lapsed' = TRUE
  /\ UNCHANGED <<rowVars, lock, sealed, linked, cashy, drive, wire>>

UserStep ==
  \/ Confirm \/ CancelPending \/ Reconcile
  \/ \E c \in Corrections, kind \in {"edit", "void"}, n \in Amounts : Submit(c, kind, n)

CashyStep == \E m \in wire : AnswerJob(m) \/ AnswerCorrection(m)

JobStep(d) ==
  \/ HandleMissing(d) \/ HandleRefused(d) \/ HandleReserved(d) \/ HandleSettled(d)
  \/ Publish(d) \/ PublishRefused(d) \/ Complete(d)

CorrectionStep(d) ==
  \/ HandleUnadjusted(d) \/ HandleForbidden(d) \/ HandleResolved(d)
  \/ Finish(d) \/ FinishResolved(d)

Pick(d) == PickJob(d) \/ \E c \in Corrections : PickCorrection(d, c)

Next ==
  \/ UserStep \/ CashyStep
  \/ \E d \in Drives : Pick(d) \/ Ask(d) \/ JobStep(d) \/ CorrectionStep(d) \/ Fail(d)
  \/ LockElsewhere \/ Seal \/ Revoke \/ Lapse

Spec == Init /\ [][Next]_vars

\* The timer takes up what is pending every minute, after a restart too, what a
\* drive and Cashy can do they do, and outages end: from some time on, a drive
\* only goes idle in one of its own steps.
Fairness ==
  /\ \A d \in Drives :
       /\ SF_vars(PickJob(d)) /\ \A c \in Corrections : SF_vars(PickCorrection(d, c))
       /\ WF_vars(Ask(d) \/ JobStep(d) \/ CorrectionStep(d))
       /\ WF_vars(\E m \in wire : m.from = d /\ (AnswerJob(m) \/ AnswerCorrection(m)))
  /\ <>[][\A d \in Drives : Fail(d) => JobStep(d) \/ CorrectionStep(d)]_vars

FairSpec == Spec /\ Fairness

-----------------------------------------------------------------------------
(* Properties.                                                             *)

TypeOK ==
  /\ job \in Job /\ movement \in Movement
  /\ correction \in [Corrections -> Correction]
  /\ lock \in Corrections \cup {NoLock, Elsewhere}
  /\ sealed \in BOOLEAN /\ linked \in BOOLEAN /\ lapsed \in BOOLEAN
  /\ cashy \in CashyRecord
  /\ drive \in [Drives -> Drive]
  /\ wire \subseteq Request

\* Growly and Cashy agree whenever no correction is under way: a movement in
\* the goal is money Cashy took from the budget, to the cent and at the same
\* revision, and an annulled contribution costs nothing on either side.
BooksAgree ==
  lock \notin Corrections =>
    /\ movement.state = "live" =>
         cashy.status = "confirmed" /\ cashy.amount = movement.amount
    /\ job.status = "voided" => movement.state # "live" /\ cashy.amount = 0
    /\ job.revision = cashy.revision

\* What a published contribution takes from the budget is the nearest amount of
\* pesos to what the goal got, at least a cent, whatever correction it went
\* through (contributionMoney).
BudgetTakesNearest ==
  lock \notin Corrections /\ movement.state = "live" =>
    \A rate \in Rates :
      Accepted(movement.amount, rate) =>
        LET taken == Converted(cashy.amount, rate) IN
        taken > 0 /\ Nearest(taken, movement.amount, rate)

\* A contribution reported as cancelled was and stays cancelled in Cashy, even
\* with requests of abandoned drives still on their way.
CancelledEverywhere ==
  job.status = "cancelled" => cashy.status = "cancelled" /\ movement.state = "absent"

\* Whatever Cashy decides of a pending correction can be carried out: the goal
\* is locked for it, and the job and the movement are those it was made for.
\* Otherwise finish() would throw on each retry with the goal locked for good.
CorrectionCanFinish ==
  \A c \in Corrections : correction[c].status = "pending" =>
    /\ lock = c
    /\ job.revision = correction[c].expected
    /\ correction[c].kind = "edit" => movement.state = "live"

\* A settled job is never reopened by a slower drive, and only a correction
\* changes a confirmed one.
SettledForGood ==
  [][/\ job.status \in {"cancelled", "voided"} => job' = job
     /\ job.status = "confirmed" /\ job' # job =>
          \E c \in Corrections : correction[c].status = "pending"
                                   /\ correction'[c].status = "applied"]_vars

\* "Aporte registrado y presupuesto actualizado": a confirmed job has its
\* movement (submit() takes a missing one for damage to be reviewed).
ConfirmedIsPublished == job.status = "confirmed" => movement.state = "live"

\* A pending contribution is settled or handed to the user for review.
PendingSettles == job.status = "pending" ~> job.status # "pending"

\* A pending correction is resolved, so its goal does not stay locked.
CorrectionSettles ==
  \A c \in Corrections : correction[c].status = "pending" ~> correction[c].status # "pending"
=============================================================================
