------------------------- MODULE ContributionProof -------------------------
(***************************************************************************)
(* Proofs about Contribution, for any number of concurrent drives, of      *)
(* corrections and of abandoned requests: Growly's books and Cashy's agree *)
(* whenever no correction is under way, what is reported is final, and a   *)
(* correction can always be carried out.                                   *)
(***************************************************************************)
EXTENDS Contribution, TLAPS

-----------------------------------------------------------------------------
(* The conversion of ContributionMoney, for every scale and limit.         *)

\* Whatever the amount, the rate and the scale, the pesos a contribution takes
\* from the budget are the nearest to its equivalent (contributionMoney).
THEOREM ConvertedNearest ==
  ASSUME NEW minor \in Nat, NEW rate \in Nat
  PROVE  Nearest(Converted(minor, rate), minor, rate)
<1> DEFINE m == minor * rate
           n == (m + Half) \div Scale
<1>1. m \in Nat /\ Half \in Nat \ {0} /\ Scale \in Nat \ {0} /\ Scale = 2 * Half
  BY MoneyAssumption DEF Scale
<1>2. n \in Int /\ n * Scale <= m + Half /\ m + Half < n * Scale + Scale
  <2> HIDE DEF m
  <2> QED
    BY <1>1, Z3
<1>3. QED
  <2> HIDE DEF m, n
  <2> QED
    BY <1>1, <1>2 DEF Nearest, Converted, m, n

-----------------------------------------------------------------------------

\* What a drive may rely on between two of its steps: what it was told is still
\* so in Cashy, which never takes a decision back.
DriveSound(x) ==
  /\ x.on = "none" => x.pc = "idle"
  /\ x.pc \in {"publish", "complete"} => x.on = "job"
  /\ x.pc = "finish" => x.on \in Corrections /\ x.receipt \in {"applied", "rejected"}
  /\ x.pc = "publish" => cashy.status = "confirmed"
  /\ x.pc = "complete" => x.receipt \in {"confirmed", "cancelled", "reconciliation-required"}
  /\ x.on = "job" /\ x.receipt \in {"confirmed", "cancelled"} => cashy.status = x.receipt
  /\ x.on \in Corrections =>
       /\ correction[x.on].status # "none"
       /\ x.receipt \in {"applied", "rejected"} => cashy.correction[x.on] = x.receipt

\* A request on its way is the one its drive waits for, or nobody's.
RequestSound(m) ==
  /\ m.on \in Corrections => correction[m.on].status # "none"
  /\ m.from # "nobody" =>
       /\ drive[m.from].on = m.on /\ drive[m.from].pc = m.action
       /\ drive[m.from].receipt = "none"

\* A correction holds the lock from its submission to its end, and ends as
\* Cashy decided.
CorrectionSound(c) ==
  /\ correction[c].status = "none" => cashy.correction[c] = "missing"
  /\ correction[c].status \in {"applied", "rejected"} =>
       cashy.correction[c] = correction[c].status
  /\ correction[c].status = "pending" <=> lock = c
  /\ correction[c].status = "pending" =>
       /\ correction[c].expected = job.revision /\ job.status # "voided"
       /\ correction[c].kind = "edit" => movement.state = "live"
       /\ correction[c].kind = "void" => correction[c].amount = 0

JobSound ==
  /\ movement.state = "live" => job.status = "confirmed"
  /\ movement.state = "voided" => job.status = "voided"
  /\ job.status = "voided" => cashy.status = "confirmed"
  /\ job.status = "cancelled" => cashy.status = "cancelled"

\* Cashy applied a correction that Growly has not finished.
Decided(c) == lock = c /\ cashy.correction[c] = "applied"

\* The books agree, but for what a correction Cashy applied will bring.
Books ==
  /\ (\A c \in Corrections : ~Decided(c)) =>
       /\ movement.state = "live" =>
            cashy.status = "confirmed" /\ cashy.amount = movement.amount
       /\ movement.state = "absent" /\ job.status # "voided"
            /\ cashy.status \in {"reserved", "confirmed"} => cashy.amount = job.amount
       /\ job.status = "voided" => cashy.amount = 0
       /\ job.revision = cashy.revision
  /\ \A c \in Corrections : Decided(c) =>
       /\ cashy.status = "confirmed" /\ cashy.amount = correction[c].amount
       /\ cashy.revision = job.revision + 1

IInv ==
  /\ TypeOK
  /\ \A d \in Drives : DriveSound(drive[d])
  /\ \A m \in wire : RequestSound(m)
  /\ \A c \in Corrections : CorrectionSound(c)
  /\ JobSound /\ Books

-----------------------------------------------------------------------------

LEMMA InitSound == Init => IInv
<1> SUFFICES ASSUME Init PROVE IInv
  OBVIOUS
<1>1. TypeOK
  <2>1. job \in Job
    BY ContributionAssumption DEF Init, Job
  <2>2. movement \in Movement /\ correction \in [Corrections -> Correction]
    BY DEF Init, Movement, Correction
  <2>3. cashy \in CashyRecord
    BY DEF Init, CashyRecord
  <2>4. drive \in [Drives -> Drive]
    BY DEF Init, Drive, Idle
  <2> QED
    BY <2>1, <2>2, <2>3, <2>4 DEF Init, TypeOK
<1>2. \A d \in Drives : DriveSound(drive[d])
  BY ContributionAssumption DEF Init, DriveSound, Idle
<1>3. \A c \in Corrections : CorrectionSound(c)
  BY ContributionAssumption DEF Init, CorrectionSound
<1>4. JobSound
  BY DEF Init, JobSound
<1>5. Books
  BY ContributionAssumption DEF Init, Books, Decided
<1> QED
  BY <1>1, <1>2, <1>3, <1>4, <1>5 DEF Init, IInv

\* A drive with an answer, or between two requests, has none on its way.
LEMMA NoneOnItsWay ==
  ASSUME IInv, NEW d \in Drives,
         \/ drive[d].receipt # "none"
         \/ drive[d].pc \in {"idle", "picked", "publish", "finish", "complete"}
  PROVE  \A m \in wire : m.from # d
BY ContributionAssumption DEF IInv, RequestSound, TypeOK, Request

\* Only drives and requests change: it is enough to look at those.
LEMMA RowsStand ==
  ASSUME IInv, UNCHANGED <<rowVars, goalVars, cashy>>,
         drive' \in [Drives -> Drive], wire' \subseteq Request,
         \A d \in Drives : DriveSound(drive[d])', \A m \in wire' : RequestSound(m)'
  PROVE  IInv'
BY DEF IInv, TypeOK, CorrectionSound, JobSound, Books, Decided, rowVars, goalVars

\* One drive goes on, with nothing on its way: it is enough to look at it.
LEMMA DriveGoesOn ==
  ASSUME IInv, NEW d \in Drives, NEW x \in Drive,
         \A m \in wire : m.from # d, DriveSound(x),
         drive' = [drive EXCEPT ![d] = x], UNCHANGED <<rowVars, goalVars, cashy, wire>>
  PROVE  IInv'
<1>1. drive \in [Drives -> Drive] /\ wire \subseteq Request
  BY DEF IInv, TypeOK
<1>2. drive' \in [Drives -> Drive] /\ wire' \subseteq Request
  BY <1>1
<1>3. \A e \in Drives : DriveSound(drive[e])'
  BY <1>1 DEF IInv, DriveSound, rowVars
<1>4. \A m \in wire' : RequestSound(m)'
  BY <1>1 DEF IInv, RequestSound, rowVars
<1> QED
  BY <1>2, <1>3, <1>4, RowsStand

LEMMA IdleIsSound == Idle \in Drive /\ DriveSound(Idle)
BY ContributionAssumption DEF Idle, Drive, DriveSound

\* So it goes when a drive sends a request.
LEMMA SendKeeps ==
  ASSUME IInv, NEW d \in Drives, drive[d].on # "none", \A m \in wire : m.from # d,
         NEW action \in {"status", "reserve", "confirm", "cancel", "adjust", "reject"},
         Send(d, action)
  PROVE  IInv'
<1> DEFINE x == [drive[d] EXCEPT !.pc = action, !.receipt = "none"]
           m == [from |-> d, on |-> drive[d].on, action |-> action]
<1>1. drive \in [Drives -> Drive] /\ wire \subseteq Request /\ drive[d] \in Drive
  BY DEF IInv, TypeOK
<1>2. x \in Drive /\ m \in Request
  BY <1>1 DEF Drive, Request
<1>3. drive' = [drive EXCEPT ![d] = x] /\ wire' = wire \cup {m}
  BY <1>1 DEF Send
<1>4. UNCHANGED <<rowVars, goalVars, cashy>>
  BY DEF Send
<1>5. drive' \in [Drives -> Drive] /\ wire' \subseteq Request
  BY <1>1, <1>2, <1>3
<1>6. DriveSound(drive[d])
  BY DEF IInv
<1>7. DriveSound(x)
  BY <1>1, <1>6 DEF DriveSound, Drive
<1>8. \A e \in Drives : DriveSound(drive[e])'
  BY <1>1, <1>3, <1>4, <1>7 DEF IInv, DriveSound, rowVars
<1>9. \A n \in wire' : RequestSound(n)'
  <2>1. ASSUME NEW n \in wire
        PROVE  RequestSound(n)'
    BY <1>1, <1>3, <1>4, <2>1 DEF IInv, RequestSound, rowVars
  <2>2. RequestSound(m)'
    BY <1>1, <1>3, <1>4, <1>6 DEF RequestSound, DriveSound, rowVars, Drive
  <2> QED
    BY <1>3, <2>1, <2>2
<1> QED
  BY <1>4, <1>5, <1>8, <1>9, RowsStand

\* The steps of a drive that only ask Cashy or decide what to do next.
LEMMA AskingKeeps ==
  ASSUME IInv, NEW d \in Drives,
         \/ Ask(d) \/ HandleMissing(d) \/ HandleRefused(d) \/ HandleReserved(d)
         \/ HandleUnadjusted(d) \/ HandleForbidden(d)
  PROVE  IInv'
<1>1. DriveSound(drive[d]) /\ drive[d] \in Drive
  BY DEF IInv, TypeOK
<1>2. drive[d].on # "none"
  BY <1>1, ContributionAssumption
     DEF DriveSound, Ask, HandleMissing, HandleRefused, HandleReserved, DrivesJob,
         HandleUnadjusted, HandleForbidden, DrivesCorrection
<1>3. drive[d].receipt # "none" \/ drive[d].pc = "picked"
  BY DEF Ask, HandleMissing, HandleRefused, HandleReserved, DrivesJob,
         HandleUnadjusted, HandleForbidden, DrivesCorrection
<1>4. PICK action \in {"status", "reserve", "confirm", "cancel", "adjust", "reject"} :
        Send(d, action)
  BY DEF Ask, HandleMissing, HandleRefused, HandleReserved, HandleUnadjusted, HandleForbidden
<1> QED
  BY <1>2, <1>3, <1>4, NoneOnItsWay, SendKeeps

LEMMA GotoKeeps ==
  ASSUME IInv, NEW d \in Drives, NEW pc, NEW receipt, Goto(d, pc, receipt),
         \A m \in wire : m.from # d, UNCHANGED <<rowVars, goalVars, cashy, wire>>,
         [drive[d] EXCEPT !.pc = pc, !.receipt = receipt] \in Drive,
         DriveSound([drive[d] EXCEPT !.pc = pc, !.receipt = receipt])
  PROVE  IInv'
<1> DEFINE x == [drive[d] EXCEPT !.pc = pc, !.receipt = receipt]
<1>1. drive' = [drive EXCEPT ![d] = x]
  BY DEF Goto, IInv, TypeOK
<1> QED
  BY <1>1, DriveGoesOn

LEMMA DecidingKeeps ==
  ASSUME IInv, NEW d \in Drives,
         HandleSettled(d) \/ HandleResolved(d) \/ PublishRefused(d)
  PROVE  IInv'
<1>1. DriveSound(drive[d]) /\ drive[d] \in Drive
  BY DEF IInv, TypeOK
<1>2. ASSUME NEW pc, NEW receipt, Goto(d, pc, receipt),
             \/ /\ pc = "publish" /\ receipt = "none"
                /\ drive[d].on = "job" /\ drive[d].receipt = "confirmed"
             \/ /\ pc = "complete" /\ receipt = "cancelled"
                /\ drive[d].on = "job" /\ drive[d].receipt = "cancelled"
             \/ /\ pc = "finish" /\ receipt \in {"applied", "rejected"}
                /\ drive[d].on \in Corrections /\ drive[d].receipt = receipt
             \/ /\ pc = "complete" /\ receipt = "reconciliation-required"
                /\ drive[d].pc = "publish",
             UNCHANGED <<rowVars, goalVars, cashy, wire>>
      PROVE  IInv'
  <2>1. \A m \in wire : m.from # d
    BY <1>2, NoneOnItsWay
  <2>2. [drive[d] EXCEPT !.pc = pc, !.receipt = receipt] \in Drive
    BY <1>1, <1>2 DEF Drive
  <2>3. DriveSound([drive[d] EXCEPT !.pc = pc, !.receipt = receipt])
    BY <1>1, <1>2, ContributionAssumption DEF DriveSound, Drive
  <2> QED
    BY <1>2, <2>1, <2>2, <2>3, GotoKeeps
<1>3. CASE HandleSettled(d)
  BY <1>2, <1>3 DEF HandleSettled, DrivesJob
<1>4. CASE HandleResolved(d)
  BY <1>2, <1>4 DEF HandleResolved, DrivesCorrection
<1>5. CASE PublishRefused(d)
  BY <1>2, <1>5 DEF PublishRefused
<1> QED
  BY <1>3, <1>4, <1>5

LEMMA PickKeeps ==
  ASSUME IInv, NEW d \in Drives, Pick(d)
  PROVE  IInv'
<1>1. drive[d] = Idle /\ drive[d].pc = "idle"
  BY DEF Pick, PickJob, PickCorrection, Idle
<1>2. \A m \in wire : m.from # d
  BY <1>1, NoneOnItsWay
<1>3. CASE PickJob(d)
  <2> DEFINE x == [on |-> "job", pc |-> "picked", receipt |-> "none",
                   cancelRequested |-> job.cancelRequested]
  <2>1. x \in Drive /\ DriveSound(x)
    BY ContributionAssumption DEF Drive, DriveSound, IInv, TypeOK, Job
  <2> QED
    BY <1>2, <1>3, <2>1, DriveGoesOn DEF PickJob
<1>4. ASSUME NEW c \in Corrections, PickCorrection(d, c)
      PROVE  IInv'
  <2> DEFINE x == [on |-> c, pc |-> "picked", receipt |-> "none", cancelRequested |-> FALSE]
  <2>1. x \in Drive /\ DriveSound(x)
    BY <1>4, ContributionAssumption DEF Drive, DriveSound, PickCorrection
  <2> QED
    BY <1>2, <1>4, <2>1, DriveGoesOn DEF PickCorrection
<1> QED
  BY <1>3, <1>4 DEF Pick

LEMMA FailKeeps ==
  ASSUME IInv, NEW d \in Drives, Fail(d)
  PROVE  IInv'
<1>1. drive \in [Drives -> Drive] /\ wire \subseteq Request
  BY DEF IInv, TypeOK
<1>2. drive' = [drive EXCEPT ![d] = Idle] /\ UNCHANGED <<rowVars, goalVars, cashy>>
  BY DEF Fail
<1>3. \A m \in wire' : \/ m \in wire /\ m.from # d
                       \/ \E n \in wire : m = [n EXCEPT !.from = "nobody"]
  BY DEF Fail
<1>4. wire' \subseteq Request
  BY <1>1, <1>3 DEF Request
<1>5. \A e \in Drives : DriveSound(drive[e])'
  BY <1>1, <1>2, IdleIsSound DEF IInv, DriveSound, rowVars
<1>6. \A m \in wire' : RequestSound(m)'
  BY <1>1, <1>2, <1>3 DEF IInv, RequestSound, rowVars, Request
<1> QED
  BY <1>1, <1>2, <1>4, <1>5, <1>6, IdleIsSound, RowsStand

\* What happens around the contribution: the lock may go to another one.
LEMMA SurroundingsKeep ==
  ASSUME IInv, LockElsewhere \/ Seal \/ Revoke \/ Lapse
  PROVE  IInv'
<1>1. UNCHANGED <<rowVars, cashy, drive, wire>>
  BY DEF LockElsewhere, Seal, Revoke, Lapse
<1>2. /\ lock' \in Corrections \cup {NoLock, Elsewhere}
      /\ \A c \in Corrections : lock' = c <=> lock = c
      /\ sealed' \in BOOLEAN /\ linked' \in BOOLEAN /\ lapsed' \in BOOLEAN
  BY ContributionAssumption DEF LockElsewhere, Seal, Revoke, Lapse, IInv, TypeOK
<1>3. TypeOK'
  BY <1>1, <1>2 DEF IInv, TypeOK, rowVars
<1>4. \A c \in Corrections : CorrectionSound(c)'
  BY <1>1, <1>2 DEF IInv, CorrectionSound, rowVars
<1>5. Books'
  BY <1>1, <1>2 DEF IInv, Books, Decided, rowVars
<1> QED
  BY <1>1, <1>3, <1>4, <1>5 DEF IInv, DriveSound, RequestSound, JobSound, rowVars

\* The drives as they are, or with one gone idle, which had nothing on its way.
DrivesStand ==
  /\ wire' = wire /\ \/ drive' = drive
                     \/ \E d \in Drives : /\ drive' = [drive EXCEPT ![d] = Idle]
                                          /\ \A m \in wire : m.from # d

LEMMA DrivesStandSound ==
  ASSUME IInv, DrivesStand,
         cashy' = cashy,
         \A c \in Corrections : correction[c].status # "none" => correction'[c].status # "none"
  PROVE  /\ drive' \in [Drives -> Drive] /\ wire' \subseteq Request
         /\ \A d \in Drives : DriveSound(drive[d])'
         /\ \A m \in wire' : RequestSound(m)'
<1>1. drive \in [Drives -> Drive] /\ wire \subseteq Request
  BY DEF IInv, TypeOK
<1>2. Idle \in Drive /\ DriveSound(Idle)'
  BY ContributionAssumption DEF Idle, Drive, DriveSound
<1>3. drive' \in [Drives -> Drive] /\ wire' \subseteq Request
  BY <1>1, <1>2 DEF DrivesStand
<1>4. \A d \in Drives : DriveSound(drive[d])'
  <2>1. \A d \in Drives : drive'[d] = drive[d] \/ drive'[d] = Idle
    BY <1>1 DEF DrivesStand
  <2>2. ASSUME NEW d \in Drives, drive'[d] = drive[d]
        PROVE  DriveSound(drive[d])'
    BY <2>2 DEF IInv, DriveSound
  <2> QED
    BY <1>2, <2>1, <2>2
<1>5. \A m \in wire' : RequestSound(m)'
  BY <1>1 DEF IInv, RequestSound, DrivesStand, Request
<1> QED
  BY <1>3, <1>4, <1>5

\* A job without a movement that is not annulled may change its status, to a
\* cancelled one when Cashy cancelled it.
LEMMA JobMovesOn ==
  ASSUME IInv, DrivesStand, UNCHANGED <<movement, correction, goalVars, cashy>>,
         movement.state = "absent", job.status # "voided",
         job' \in Job, job'.status # "voided",
         job'.revision = job.revision, job'.amount = job.amount,
         job'.status = "cancelled" => cashy.status = "cancelled"
  PROVE  IInv'
<1>1. /\ drive' \in [Drives -> Drive] /\ wire' \subseteq Request
      /\ \A d \in Drives : DriveSound(drive[d])'
      /\ \A m \in wire' : RequestSound(m)'
  BY DrivesStandSound
<1>2. TypeOK'
  BY <1>1 DEF IInv, TypeOK, goalVars
<1>3. \A c \in Corrections : CorrectionSound(c)'
  BY DEF IInv, CorrectionSound, goalVars
<1>4. JobSound'
  BY DEF IInv, JobSound
<1>5. Books'
  BY DEF IInv, Books, Decided, goalVars
<1> QED
  BY <1>1, <1>2, <1>3, <1>4, <1>5 DEF IInv

LEMMA RequestsOfUserKeep ==
  ASSUME IInv, Confirm \/ CancelPending \/ Reconcile
  PROVE  IInv'
<1>1. job.status \in {"none", "pending", "reconciliation-required"} /\ job \in Job
  BY DEF Confirm, CancelPending, Reconcile, IInv, TypeOK
<1>2. movement.state = "absent"
  BY <1>1 DEF IInv, JobSound, TypeOK, Movement
<1>3. /\ job' \in Job /\ job'.status = "pending"
      /\ job'.revision = job.revision /\ job'.amount = job.amount
  BY <1>1 DEF Confirm, CancelPending, Reconcile, Job
<1>4. DrivesStand /\ UNCHANGED <<movement, correction, goalVars, cashy>>
  BY DEF DrivesStand, Confirm, CancelPending, Reconcile
<1> QED
  BY <1>1, <1>2, <1>3, <1>4, JobMovesOn

LEMMA CompleteKeeps ==
  ASSUME IInv, NEW d \in Drives, Complete(d)
  PROVE  IInv'
<1>1. drive[d].pc = "complete" /\ DriveSound(drive[d]) /\ job \in Job
  BY DEF Complete, IInv, TypeOK
<1>2. /\ drive[d].receipt \in {"confirmed", "cancelled", "reconciliation-required"}
      /\ drive[d].receipt = "cancelled" => cashy.status = "cancelled"
  BY <1>1 DEF DriveSound
<1>3. \A m \in wire : m.from # d
  BY <1>1, NoneOnItsWay
<1>4. /\ drive' = [drive EXCEPT ![d] = Idle]
      /\ job' = job \/ (job.status = "pending" /\ job' = [job EXCEPT !.status = drive[d].receipt])
      /\ UNCHANGED <<movement, correction, goalVars, cashy, wire>>
  BY DEF Complete, Completed
<1>5. CASE job' = job
  BY <1>3, <1>4, <1>5, IdleIsSound, DriveGoesOn DEF rowVars
<1>6. CASE job.status = "pending" /\ job' = [job EXCEPT !.status = drive[d].receipt]
  <2>1. movement.state = "absent"
    BY <1>6 DEF IInv, JobSound, TypeOK, Movement
  <2>2. /\ job' \in Job /\ job'.status = drive[d].receipt
        /\ job'.revision = job.revision /\ job'.amount = job.amount
    BY <1>1, <1>2, <1>6 DEF Job
  <2>3. DrivesStand
    BY <1>3, <1>4 DEF DrivesStand
  <2> QED
    BY <1>2, <1>4, <1>6, <2>1, <2>2, <2>3, JobMovesOn
<1> QED
  BY <1>4, <1>5, <1>6

\* Cashy had confirmed what is published: nothing was corrected before that.
LEMMA PublishKeeps ==
  ASSUME IInv, NEW d \in Drives, Publish(d)
  PROVE  IInv'
<1> DEFINE x == [drive[d] EXCEPT !.pc = "complete", !.receipt = "confirmed"]
<1>1. /\ drive[d].pc = "publish" /\ DriveSound(drive[d]) /\ job \in Job
      /\ drive[d] \in Drive /\ drive \in [Drives -> Drive] /\ movement \in Movement
  BY DEF Publish, IInv, TypeOK
<1>2. cashy.status = "confirmed" /\ drive[d].on = "job"
  BY <1>1 DEF DriveSound
<1>3. x \in Drive /\ DriveSound(x)
  BY <1>1, <1>2, ContributionAssumption DEF Drive, DriveSound
<1>4. \A m \in wire : m.from # d
  BY <1>1, NoneOnItsWay
<1>5. CASE UNCHANGED <<job, movement>>
  BY <1>3, <1>4, <1>5, GotoKeeps DEF Publish, rowVars
<1>6. CASE ~UNCHANGED <<job, movement>>
  <2>1. /\ job.status = "pending" /\ job' = [job EXCEPT !.status = "confirmed"]
        /\ lock = NoLock /\ UNCHANGED <<correction, goalVars, cashy, wire>>
        /\ movement.state = "absent" =>
             movement' = [state |-> "live", amount |-> job.amount]
        /\ drive' = [drive EXCEPT ![d] = x]
    BY <1>1, <1>6 DEF Publish, CanSettle, Goto
  <2>2. movement.state = "absent"
    BY <1>1, <2>1 DEF IInv, JobSound, Movement
  <2>3. job' \in Job /\ movement' \in Movement
    BY <1>1, <2>1, <2>2 DEF Job, Movement
  <2>4. \A e \in Drives : DriveSound(drive[e])'
    BY <1>1, <1>3, <2>1 DEF IInv, DriveSound
  <2>5. \A m \in wire' : RequestSound(m)'
    BY <1>1, <1>4, <2>1 DEF IInv, RequestSound
  <2>6. \A c \in Corrections : CorrectionSound(c)'
    BY <2>1, ContributionAssumption DEF IInv, CorrectionSound, goalVars
  <2>7. JobSound'
    BY <1>1, <2>1, <2>2 DEF JobSound, Job
  <2>8. Books'
    BY <1>1, <1>2, <2>1, <2>2, ContributionAssumption DEF IInv, Books, Decided, goalVars, Job
  <2>9. TypeOK'
    BY <1>3, <2>1, <2>3 DEF IInv, TypeOK, goalVars
  <2> QED
    BY <2>4, <2>5, <2>6, <2>7, <2>8, <2>9 DEF IInv
<1> QED
  BY <1>5, <1>6

-----------------------------------------------------------------------------
(* Cashy's answers.                                                        *)

\* What Cashy decided it never takes back.
Lasting ==
  /\ cashy.status \in {"confirmed", "cancelled"} => cashy'.status = cashy.status
  /\ \A c \in Corrections : cashy.correction[c] \in {"applied", "rejected"} =>
       cashy'.correction[c] = cashy.correction[c]

LEMMA JobAnswersAre ==
  ASSUME NEW action, NEW s \in {"missing", "reserved", "confirmed", "cancelled"},
         NEW answer \in JobAnswers(action, s)
  PROVE  /\ answer[1] \in {"missing", "reserved", "confirmed", "cancelled", "refused"}
         /\ answer[2] \in {"missing", "reserved", "confirmed", "cancelled"}
         /\ answer[1] \in {"confirmed", "cancelled"} => answer[2] = answer[1]
         /\ s \in {"confirmed", "cancelled"} => answer[2] = s
         /\ answer[2] = "confirmed" => s \in {"reserved", "confirmed"}
<1>1. CASE action = "reserve" /\ s = "missing"
  BY <1>1 DEF JobAnswers
<1>2. CASE action = "confirm" /\ s = "reserved"
  BY <1>2 DEF JobAnswers
<1>3. CASE action = "confirm" /\ s = "missing"
  BY <1>3 DEF JobAnswers
<1>4. CASE action = "cancel" /\ s \in {"missing", "reserved"}
  BY <1>4 DEF JobAnswers
<1>5. CASE ~ \/ action = "reserve" /\ s = "missing"
             \/ action = "confirm" /\ s \in {"missing", "reserved"}
             \/ action = "cancel" /\ s \in {"missing", "reserved"}
  BY <1>5 DEF JobAnswers
<1> QED
  BY <1>1, <1>2, <1>3, <1>4, <1>5

LEMMA CorrectionAnswersAre ==
  ASSUME NEW c, NEW action, NEW s \in {"missing", "applied", "rejected"},
         NEW answer \in CorrectionAnswers(c, action, s)
  PROVE  /\ answer[1] \in {"missing", "applied", "rejected", "refused"}
         /\ answer[2] \in {"missing", "applied", "rejected"}
         /\ answer[1] \in {"applied", "rejected"} => answer[2] = answer[1]
         /\ s # "missing" => answer[2] = s
         /\ s = "missing" /\ answer[2] = "applied" =>
              cashy.status = "confirmed" /\ cashy.revision = correction[c].expected
<1>1. CASE action = "adjust" /\ s = "missing"
  BY <1>1 DEF CorrectionAnswers
<1>2. CASE action = "reject" /\ s = "missing"
  BY <1>2 DEF CorrectionAnswers
<1>3. CASE ~(action \in {"adjust", "reject"} /\ s = "missing")
  BY <1>3 DEF CorrectionAnswers
<1> QED
  BY <1>1, <1>2, <1>3

\* An answer reaches the drive that waits for it, or nobody.
LEMMA ReplyKeepsDrives ==
  ASSUME IInv, NEW m \in wire, NEW receipt, Reply(m, receipt), UNCHANGED rowVars, Lasting,
         receipt \in {"missing", "reserved", "confirmed", "cancelled", "refused",
                      "applied", "rejected"},
         m.on = "job" /\ receipt \in {"confirmed", "cancelled"} => cashy'.status = receipt,
         m.on \in Corrections /\ receipt \in {"applied", "rejected"} =>
           cashy'.correction[m.on] = receipt
  PROVE  /\ drive' \in [Drives -> Drive] /\ wire' \subseteq Request
         /\ \A d \in Drives : DriveSound(drive[d])'
         /\ \A n \in wire' : RequestSound(n)'
<1>1. /\ drive \in [Drives -> Drive] /\ wire \subseteq Request /\ m \in Request
      /\ wire' = wire \ {m} /\ RequestSound(m)
      /\ \A d \in Drives : DriveSound(drive[d])
  BY DEF IInv, TypeOK, Reply
<1>2. ASSUME NEW x \in Drive, DriveSound(x)
      PROVE  DriveSound(x)'
  BY <1>2 DEF DriveSound, Lasting, rowVars
<1>3. CASE m.from = "nobody"
  <2>1. drive' = drive
    BY <1>3 DEF Reply
  <2>2. \A n \in wire' : RequestSound(n)'
    BY <1>1, <2>1 DEF IInv, RequestSound, rowVars
  <2> QED
    BY <1>1, <1>2, <2>1, <2>2
<1>4. CASE m.from # "nobody"
  <2> DEFINE d == m.from
             x == [drive[d] EXCEPT !.receipt = receipt]
  <2>1. d \in Drives /\ drive[d] \in Drive
    BY <1>1, <1>4 DEF Request
  <2>2. drive[d].on = m.on /\ drive[d].pc = m.action
    BY <1>1, <1>4 DEF RequestSound
  <2>3. drive' = [drive EXCEPT ![d] = x] /\ x \in Drive
    BY <1>1, <1>4, <2>1 DEF Reply, Drive
  <2>4. m.action \in {"status", "reserve", "confirm", "cancel", "adjust", "reject"}
        /\ m.on # "none"
    BY <1>1, ContributionAssumption DEF Request
  <2>5. ASSUME NEW y \in Drive, y = x
        PROVE  DriveSound(y)'
    <3>1. DriveSound(drive[d]) /\ y.on = m.on /\ y.pc = m.action /\ y.receipt = receipt
      BY <1>1, <2>1, <2>2, <2>5 DEF Drive
    <3>2. drive[d].on = "job" \/ drive[d].on \in Corrections
      BY <1>1, <2>2 DEF Request
    <3> QED
      BY <2>2, <2>4, <3>1, <3>2 DEF DriveSound, rowVars
  <2>6. \A e \in Drives : DriveSound(drive[e])'
    BY <1>1, <1>2, <2>1, <2>3, <2>5
  <2>7. ASSUME NEW n \in wire, n # m
        PROVE  n.from # d
    <3>1. n \in Request /\ RequestSound(n)
      BY <1>1 DEF IInv
    <3>2. n.from = d => n.on = m.on /\ n.action = m.action
      BY <1>4, <2>2, <3>1 DEF RequestSound
    <3> QED
      BY <1>1, <2>7, <3>1, <3>2 DEF Request
  <2>8. \A n \in wire' : RequestSound(n)'
    <3> SUFFICES ASSUME NEW n \in wire' PROVE RequestSound(n)'
      OBVIOUS
    <3>1. n \in wire /\ n \in Request /\ n.from # d /\ RequestSound(n)
      BY <1>1, <2>7 DEF IInv
    <3>2. n.from # "nobody" => drive'[n.from] = drive[n.from]
      BY <1>1, <2>1, <2>3, <3>1 DEF Request
    <3> QED
      BY <3>1, <3>2 DEF RequestSound, rowVars
  <2> QED
    BY <1>1, <2>1, <2>3, <2>6, <2>8
<1> QED
  BY <1>3, <1>4

LEMMA AnswerJobKeeps ==
  ASSUME IInv, NEW m \in wire, AnswerJob(m)
  PROVE  IInv'
<1>1. cashy \in CashyRecord /\ job \in Job /\ m.on = "job" /\ m.on \notin Corrections
  BY ContributionAssumption DEF IInv, TypeOK, AnswerJob
<1>2. PICK answer \in JobAnswers(m.action, cashy.status) :
        /\ cashy' = [cashy EXCEPT !.status = answer[2],
                                  !.amount = IF answer[2] = "reserved" THEN job.amount ELSE @]
        /\ Reply(m, answer[1])
  BY DEF AnswerJob
<1>3. /\ answer[1] \in {"missing", "reserved", "confirmed", "cancelled", "refused"}
      /\ answer[2] \in {"missing", "reserved", "confirmed", "cancelled"}
      /\ answer[1] \in {"confirmed", "cancelled"} => answer[2] = answer[1]
      /\ cashy.status \in {"confirmed", "cancelled"} => answer[2] = cashy.status
      /\ answer[2] = "confirmed" => cashy.status \in {"reserved", "confirmed"}
  BY <1>1, JobAnswersAre DEF CashyRecord
<1>4. UNCHANGED <<rowVars, goalVars>>
  BY DEF AnswerJob
<1>5. /\ cashy' \in CashyRecord /\ cashy'.status = answer[2]
      /\ cashy'.revision = cashy.revision /\ cashy'.correction = cashy.correction
      /\ cashy'.amount = IF answer[2] = "reserved" THEN job.amount ELSE cashy.amount
  BY <1>1, <1>2, <1>3 DEF CashyRecord, Job
<1>6. Lasting
  BY <1>3, <1>5 DEF Lasting
<1>7. /\ drive' \in [Drives -> Drive] /\ wire' \subseteq Request
      /\ \A d \in Drives : DriveSound(drive[d])'
      /\ \A n \in wire' : RequestSound(n)'
  BY <1>1, <1>2, <1>3, <1>4, <1>5, <1>6, ReplyKeepsDrives
<1>8. TypeOK'
  BY <1>4, <1>5, <1>7 DEF IInv, TypeOK, rowVars, goalVars
<1>9. \A c \in Corrections : CorrectionSound(c)'
  BY <1>4, <1>5 DEF IInv, CorrectionSound, rowVars, goalVars
<1>10. JobSound'
  BY <1>4, <1>6 DEF IInv, JobSound, Lasting, rowVars
<1>11. Books'
  <2>1. \A c \in Corrections : Decided(c)' <=> Decided(c)
    BY <1>4, <1>5 DEF Decided, goalVars
  <2>2. ASSUME NEW c \in Corrections, Decided(c)
        PROVE  Books'
    BY <1>3, <1>4, <1>5, <2>1, <2>2 DEF IInv, Books, rowVars
  <2>3. CASE \A c \in Corrections : ~Decided(c)
    BY <1>3, <1>4, <1>5, <2>1, <2>3 DEF IInv, Books, JobSound, rowVars
  <2> QED
    BY <2>2, <2>3
<1> QED
  BY <1>7, <1>8, <1>9, <1>10, <1>11 DEF IInv

\* Cashy applies a correction once, while Growly's goal is locked for it.
LEMMA AnswerCorrectionKeeps ==
  ASSUME IInv, NEW m \in wire, AnswerCorrection(m)
  PROVE  IInv'
<1> DEFINE c == m.on
<1>1. cashy \in CashyRecord /\ c \in Corrections /\ c # "job"
  BY ContributionAssumption DEF IInv, TypeOK, AnswerCorrection
<1>2. PICK answer \in CorrectionAnswers(c, m.action, cashy.correction[c]) :
        /\ cashy' =
             IF answer[2] = "applied" /\ cashy.correction[c] = "missing"
             THEN [cashy EXCEPT !.correction[c] = "applied",
                                !.amount = correction[c].amount,
                                !.revision = @ + 1]
             ELSE [cashy EXCEPT !.correction[c] = answer[2]]
        /\ Reply(m, answer[1])
  BY DEF AnswerCorrection
<1>3. /\ answer[1] \in {"missing", "applied", "rejected", "refused"}
      /\ answer[2] \in {"missing", "applied", "rejected"}
      /\ answer[1] \in {"applied", "rejected"} => answer[2] = answer[1]
      /\ cashy.correction[c] # "missing" => answer[2] = cashy.correction[c]
      /\ cashy.correction[c] = "missing" /\ answer[2] = "applied" =>
           cashy.status = "confirmed" /\ cashy.revision = correction[c].expected
  BY <1>1, CorrectionAnswersAre DEF CashyRecord
<1>4. UNCHANGED <<rowVars, goalVars>>
  BY DEF AnswerCorrection
<1> DEFINE applying == answer[2] = "applied" /\ cashy.correction[c] = "missing"
<1>5. correction[c] \in Correction
  BY <1>1 DEF IInv, TypeOK
<1>6. /\ cashy' \in CashyRecord /\ cashy'.status = cashy.status
      /\ cashy'.correction = [cashy.correction EXCEPT ![c] = answer[2]]
      /\ applying => /\ cashy'.amount = correction[c].amount
                     /\ cashy'.revision = cashy.revision + 1
      /\ ~applying => cashy'.amount = cashy.amount /\ cashy'.revision = cashy.revision
  <2>1. [cashy.correction EXCEPT ![c] = answer[2]]
          \in [Corrections -> {"missing", "applied", "rejected"}]
    BY <1>1, <1>3 DEF CashyRecord
  <2>2. CASE applying
    <3>1. cashy' = [cashy EXCEPT !.correction = [@ EXCEPT ![c] = answer[2]],
                                 !.amount = correction[c].amount, !.revision = @ + 1]
      BY <1>1, <1>2, <2>2 DEF CashyRecord
    <3> DEFINE next == cashy.revision + 1
               amount == correction[c].amount
               verdicts == [cashy.correction EXCEPT ![c] = answer[2]]
    <3>2. next \in Nat /\ amount \in Nat
      BY <1>1, <1>5 DEF CashyRecord, Correction
    <3>3. cashy' = [cashy EXCEPT !.correction = verdicts, !.amount = amount, !.revision = next]
      BY <1>1, <3>1 DEF CashyRecord
    <3> HIDE DEF next, amount, verdicts
    <3>4. /\ cashy' \in CashyRecord /\ cashy'.status = cashy.status
          /\ cashy'.correction = verdicts /\ cashy'.amount = amount /\ cashy'.revision = next
      BY <1>1, <2>1, <3>2, <3>3 DEF CashyRecord, verdicts
    <3> QED
      BY <2>2, <3>4 DEF next, amount, verdicts
  <2>3. CASE ~applying
    <3>1. cashy' = [cashy EXCEPT !.correction = [@ EXCEPT ![c] = answer[2]]]
      BY <1>1, <1>2, <2>3 DEF CashyRecord
    <3> QED
      BY <1>1, <2>1, <2>3, <3>1 DEF CashyRecord
  <2> QED
    BY <2>2, <2>3
<1>7. /\ cashy'.correction[c] = answer[2]
      /\ \A other \in Corrections \ {c} : cashy'.correction[other] = cashy.correction[other]
  BY <1>1, <1>6 DEF CashyRecord
<1>8. Lasting
  BY <1>3, <1>6, <1>7 DEF Lasting
<1>9. /\ drive' \in [Drives -> Drive] /\ wire' \subseteq Request
      /\ \A d \in Drives : DriveSound(drive[d])'
      /\ \A n \in wire' : RequestSound(n)'
  BY <1>1, <1>2, <1>3, <1>4, <1>7, <1>8, ReplyKeepsDrives
<1>10. TypeOK'
  BY <1>4, <1>6, <1>9 DEF IInv, TypeOK, rowVars, goalVars
<1>11. correction[c].status # "none"
  BY <1>1 DEF IInv, RequestSound
<1>12. \A other \in Corrections : CorrectionSound(other)'
  BY <1>3, <1>4, <1>7, <1>11 DEF IInv, CorrectionSound, rowVars, goalVars
<1>13. JobSound'
  BY <1>4, <1>6 DEF IInv, JobSound, rowVars
<1>14. Books'
  <2>1. CASE applying
    <3>1. /\ correction[c].status = "pending" /\ lock = c
          /\ correction[c].expected = job.revision
      BY <1>1, <1>5, <1>11, <2>1 DEF IInv, CorrectionSound, Correction
    <3>2. Decided(c)' /\ \A other \in Corrections : Decided(other)' => other = c
      BY <1>4, <1>7, <2>1, <3>1 DEF Decided, goalVars
    <3>3. /\ cashy'.status = "confirmed" /\ cashy'.amount = correction[c].amount
          /\ cashy'.revision = job.revision + 1
      BY <1>3, <1>6, <2>1, <3>1
    <3> QED
      BY <1>1, <1>4, <3>2, <3>3 DEF Books, rowVars
  <2>2. CASE ~applying
    <3>1. \A other \in Corrections : Decided(other)' <=> Decided(other)
      BY <1>3, <1>4, <1>7, <2>2, <1>1 DEF Decided, goalVars, CashyRecord
    <3> QED
      BY <1>4, <1>6, <2>2, <3>1 DEF IInv, Books, rowVars
  <2> QED
    BY <2>1, <2>2
<1> QED
  BY <1>9, <1>10, <1>12, <1>13, <1>14 DEF IInv

-----------------------------------------------------------------------------
(* Corrections in Growly.                                                  *)

LEMMA SubmitKeeps ==
  ASSUME IInv, NEW c \in Corrections, NEW kind \in {"edit", "void"}, NEW n \in Amounts,
         Submit(c, kind, n)
  PROVE  IInv'
<1> DEFINE row == [status |-> "pending", kind |-> kind, expected |-> job.revision,
                   amount |-> IF kind = "void" THEN 0 ELSE n]
<1>1. /\ correction[c].status = "none" /\ lock = NoLock /\ FitsJob(kind)
      /\ correction' = [correction EXCEPT ![c] = row] /\ lock' = c
      /\ UNCHANGED <<job, movement, sealed, linked, lapsed, cashy, drive, wire>>
  BY DEF Submit, Correctable
<1>2. job \in Job /\ correction \in [Corrections -> Correction] /\ row \in Correction
  BY ContributionAssumption DEF IInv, TypeOK, Job, Correction
<1>3. /\ job.status # "voided"
      /\ kind = "edit" => movement.state = "live"
  BY <1>1 DEF FitsJob
<1>4. TypeOK'
  BY <1>1, <1>2 DEF IInv, TypeOK
<1>5. DrivesStand
  BY <1>1 DEF DrivesStand
<1>6. /\ \A d \in Drives : DriveSound(drive[d])'
      /\ \A m \in wire' : RequestSound(m)'
  BY <1>1, <1>2, <1>5, DrivesStandSound
<1>7. \A other \in Corrections : CorrectionSound(other)'
  <2>1. CorrectionSound(c)'
    BY <1>1, <1>2, <1>3 DEF CorrectionSound
  <2>2. ASSUME NEW other \in Corrections \ {c}
        PROVE  CorrectionSound(other)'
    BY <1>1, <1>2, ContributionAssumption DEF IInv, CorrectionSound
  <2> QED
    BY <2>1, <2>2
<1>8. JobSound'
  BY <1>1 DEF IInv, JobSound
<1>9. Books'
  <2>1. cashy.correction[c] = "missing"
    BY <1>1 DEF IInv, CorrectionSound
  <2>2. \A other \in Corrections : ~Decided(other) /\ ~Decided(other)'
    BY <1>1, <2>1, ContributionAssumption DEF Decided
  <2> QED
    BY <1>1, <2>2 DEF IInv, Books
<1> QED
  BY <1>4, <1>6, <1>7, <1>8, <1>9 DEF IInv

\* finish() brings to Growly what Cashy decided.
LEMMA FinishKeeps ==
  ASSUME IInv, NEW d \in Drives, Finish(d)
  PROVE  IInv'
<1>0. PICK c \in Corrections, verdict \in {"applied", "rejected"}, row \in Correction :
        /\ c = drive[d].on /\ verdict = drive[d].receipt /\ row = correction[c]
        /\ cashy.correction[c] = verdict
  <2>1. drive[d].pc = "finish" /\ DriveSound(drive[d])
    BY DEF Finish, IInv
  <2>2. drive[d].on \in Corrections /\ drive[d].receipt \in {"applied", "rejected"}
    BY <2>1 DEF DriveSound
  <2>3. correction[drive[d].on] \in Correction
    BY <2>2 DEF IInv, TypeOK
  <2> QED
    BY <2>1, <2>2, <2>3 DEF DriveSound
<1>1. /\ drive[d].pc = "finish" /\ correction[c].status = "pending" /\ row.status = "pending" /\ lock = c
      /\ job.revision = row.expected
      /\ \/ verdict = "applied" /\ ApplyCorrection(row)
         \/ verdict # "applied" /\ UNCHANGED <<job, movement>>
      /\ correction' = [correction EXCEPT ![c].status = verdict]
      /\ lock' = NoLock /\ drive' = [drive EXCEPT ![d] = Idle]
      /\ UNCHANGED <<sealed, linked, lapsed, cashy, wire>>
  BY <1>0 DEF Finish
<1>3. /\ job \in Job /\ movement \in Movement /\ cashy \in CashyRecord
      /\ correction \in [Corrections -> Correction]
  BY DEF IInv, TypeOK
<1>4. /\ correction' \in [Corrections -> Correction]
      /\ correction'[c].status = verdict
      /\ \A other \in Corrections \ {c} : correction'[other] = correction[other]
  BY <1>1, <1>0, <1>3 DEF Correction
<1>5. DrivesStand
  BY <1>1, NoneOnItsWay DEF DrivesStand
<1>6. /\ drive' \in [Drives -> Drive] /\ wire' \subseteq Request
      /\ \A e \in Drives : DriveSound(drive[e])'
      /\ \A m \in wire' : RequestSound(m)'
  BY <1>1, <1>0, <1>4, <1>5, DrivesStandSound
<1>7. /\ row.kind = "edit" => movement.state = "live"
      /\ row.kind = "void" => row.amount = 0
      /\ job.status # "voided"
  BY <1>1, <1>0 DEF IInv, CorrectionSound
<1>8. \A other \in Corrections : ~Decided(other)'
  BY <1>1, ContributionAssumption DEF Decided
<1>9. ASSUME job' \in Job, movement' \in Movement, JobSound', Books'
      PROVE  IInv'
  <2>1. TypeOK'
    BY <1>1, <1>4, <1>6, <1>9 DEF IInv, TypeOK
  <2>2. CorrectionSound(c)'
    BY <1>1, <1>0, <1>4, ContributionAssumption DEF CorrectionSound
  <2>3. ASSUME NEW other \in Corrections \ {c}
        PROVE  CorrectionSound(other)'
    BY <1>1, <1>0, <1>4, ContributionAssumption DEF IInv, CorrectionSound
  <2> QED
    BY <1>6, <1>9, <2>1, <2>2, <2>3 DEF IInv
<1>10. CASE verdict = "rejected"
  <2>1. \A other \in Corrections : ~Decided(other)
    BY <1>1, <1>0, <1>10 DEF Decided
  <2>2. Books'
    BY <1>1, <1>8, <1>10, <2>1 DEF IInv, Books
  <2>3. JobSound'
    BY <1>1, <1>10 DEF IInv, JobSound
  <2> QED
    BY <1>1, <1>3, <1>9, <1>10, <2>2, <2>3
<1>11. CASE verdict = "applied"
  <2>1. /\ cashy.status = "confirmed" /\ cashy.amount = row.amount
        /\ cashy.revision = job.revision + 1
    BY <1>1, <1>0, <1>11 DEF IInv, Books, Decided
  <2>2. /\ job' = [job EXCEPT !.status = IF row.kind = "void" THEN "voided" ELSE "confirmed",
                              !.revision = row.expected + 1]
        /\ movement' = IF movement.state = "absent" THEN movement
                       ELSE IF row.kind = "void" THEN [movement EXCEPT !.state = "voided"]
                       ELSE [movement EXCEPT !.amount = row.amount]
    BY <1>1, <1>11 DEF ApplyCorrection
  <2>3. CASE row.kind = "void"
    <3>1. /\ job' \in Job /\ job'.status = "voided" /\ job'.revision = job.revision + 1
      <4> DEFINE next == job.revision + 1
      <4>1. next \in Nat /\ row.expected + 1 = next
        BY <1>1, <1>3 DEF Job
      <4> HIDE DEF next
      <4>2. job' = [job EXCEPT !.status = "voided", !.revision = next]
        BY <2>2, <2>3, <4>1
      <4>3. job' \in Job /\ job'.status = "voided" /\ job'.revision = next
        BY <1>3, <4>1, <4>2 DEF Job
      <4> QED
        BY <4>3 DEF next
    <3>2. /\ movement' \in Movement /\ movement'.state # "live"
      BY <1>3, <2>2, <2>3 DEF Movement
    <3>3. JobSound'
      BY <1>1, <2>1, <3>1, <3>2 DEF JobSound
    <3>4. Books'
      BY <1>1, <1>7, <1>8, <2>1, <2>3, <3>1, <3>2 DEF Books
    <3> QED
      BY <1>9, <3>1, <3>2, <3>3, <3>4
  <2>4. CASE row.kind = "edit"
    <3>1. /\ job' \in Job /\ job'.status = "confirmed" /\ job'.revision = job.revision + 1
      <4> DEFINE next == job.revision + 1
      <4>1. next \in Nat /\ row.expected + 1 = next
        BY <1>1, <1>3 DEF Job
      <4> HIDE DEF next
      <4>2. job' = [job EXCEPT !.status = "confirmed", !.revision = next]
        BY <2>2, <2>4, <4>1
      <4>3. job' \in Job /\ job'.status = "confirmed" /\ job'.revision = next
        BY <1>3, <4>1, <4>2 DEF Job
      <4> QED
        BY <4>3 DEF next
    <3>2. /\ movement' \in Movement /\ movement'.state = "live"
          /\ movement'.amount = row.amount
      BY <1>3, <1>7, <2>2, <2>4 DEF Movement, Correction
    <3>3. JobSound'
      BY <1>1, <2>1, <3>1, <3>2 DEF JobSound
    <3>4. Books'
      BY <1>1, <1>8, <2>1, <3>1, <3>2 DEF Books
    <3> QED
      BY <1>9, <3>1, <3>2, <3>3, <3>4
  <2> QED
    BY <1>3, <2>3, <2>4 DEF Correction
<1> QED
  BY <1>0, <1>10, <1>11

LEMMA FinishResolvedKeeps ==
  ASSUME IInv, NEW d \in Drives, FinishResolved(d)
  PROVE  IInv'
<1>1. drive' = [drive EXCEPT ![d] = Idle] /\ UNCHANGED <<rowVars, goalVars, cashy, wire>>
  BY DEF FinishResolved
<1>2. \A m \in wire : m.from # d
  BY NoneOnItsWay DEF FinishResolved
<1> QED
  BY <1>1, <1>2, IdleIsSound, DriveGoesOn

-----------------------------------------------------------------------------

LEMMA StepKeeps == IInv /\ [Next]_vars => IInv'
<1> SUFFICES ASSUME IInv, [Next]_vars PROVE IInv'
  OBVIOUS
<1>1. CASE UserStep
  BY <1>1, RequestsOfUserKeep, SubmitKeeps DEF UserStep
<1>2. CASE CashyStep
  BY <1>2, AnswerJobKeeps, AnswerCorrectionKeeps DEF CashyStep
<1>3. ASSUME NEW d \in Drives, Pick(d) \/ Ask(d) \/ Fail(d)
      PROVE  IInv'
  BY <1>3, PickKeeps, AskingKeeps, FailKeeps
<1>4. ASSUME NEW d \in Drives, JobStep(d)
      PROVE  IInv'
  BY <1>4, AskingKeeps, DecidingKeeps, PublishKeeps, CompleteKeeps DEF JobStep
<1>5. ASSUME NEW d \in Drives, CorrectionStep(d)
      PROVE  IInv'
  BY <1>5, AskingKeeps, DecidingKeeps, FinishKeeps, FinishResolvedKeeps DEF CorrectionStep
<1>6. CASE LockElsewhere \/ Seal \/ Revoke \/ Lapse
  BY <1>6, SurroundingsKeep
<1>7. CASE UNCHANGED vars
  BY <1>7 DEF vars, IInv, TypeOK, DriveSound, RequestSound, CorrectionSound, JobSound,
              Books, Decided
<1> QED
  BY <1>1, <1>2, <1>3, <1>4, <1>5, <1>6, <1>7 DEF Next

LEMMA Invariant == Spec => []IInv
BY InitSound, StepKeeps, PTL DEF Spec

\* The rows, the drives and the requests are what the code takes them for.
THEOREM ContributionTypes == Spec => []TypeOK
<1>1. IInv => TypeOK
  BY DEF IInv
<1> QED
  BY <1>1, Invariant, PTL

\* With no correction under way, a movement of the goal is money Cashy took from
\* the budget, to the cent and at the same revision, and an annulled
\* contribution costs nothing, however drives, retries, late requests and
\* failures interleave.
THEOREM BooksAlwaysAgree == Spec => []BooksAgree
<1>1. IInv => BooksAgree
  BY DEF IInv, JobSound, Books, Decided, BooksAgree
<1> QED
  BY <1>1, Invariant, PTL

\* The budget gives the nearest amount of pesos to what the goal got, for every
\* scale, rate and amount (contributionMoney).
THEOREM BudgetAlwaysTakesNearest == Spec => []BudgetTakesNearest
<1>1. IInv => BudgetTakesNearest
  <2> SUFFICES ASSUME IInv, lock \notin Corrections, movement.state = "live",
                      NEW rate \in Rates, Accepted(movement.amount, rate)
               PROVE  /\ Converted(cashy.amount, rate) > 0
                      /\ Nearest(Converted(cashy.amount, rate), movement.amount, rate)
    BY DEF BudgetTakesNearest
  <2>1. cashy.amount = movement.amount
    BY DEF IInv, Books, Decided
  <2>2. movement.amount \in Nat /\ rate \in Nat
    BY MoneyAssumption DEF IInv, TypeOK, Movement
  <2>3. Converted(movement.amount, rate) \in 1..MaxSafe
    BY DEF Accepted
  <2>4. Converted(movement.amount, rate) > 0
    BY <2>3, MoneyAssumption
  <2>5. Nearest(Converted(movement.amount, rate), movement.amount, rate)
    BY <2>2, ConvertedNearest
  <2> QED
    BY <2>1, <2>4, <2>5
<1> QED
  BY <1>1, Invariant, PTL

\* A contribution reported as cancelled is cancelled in Cashy and has no movement.
THEOREM CancelledForBoth == Spec => []CancelledEverywhere
<1>1. IInv => CancelledEverywhere
  BY DEF IInv, JobSound, TypeOK, Movement, CancelledEverywhere
<1> QED
  BY <1>1, Invariant, PTL

\* A pending correction holds the lock of the goal, and the job and the movement
\* are those it was made for: finish() can carry out any verdict of Cashy's.
THEOREM CorrectionsCanFinish == Spec => []CorrectionCanFinish
<1>1. IInv => CorrectionCanFinish
  BY DEF IInv, CorrectionSound, CorrectionCanFinish
<1> QED
  BY <1>1, Invariant, PTL

\* The answers drives rely on stand: no drive, however slow, reopens a settled
\* job, and only an applied correction changes a confirmed one.
THEOREM JobsSettleForGood == Spec => SettledForGood
<1> DEFINE Settled ==
       /\ job.status \in {"cancelled", "voided"} => job' = job
       /\ job.status = "confirmed" /\ job' # job =>
            \E c \in Corrections : correction[c].status = "pending"
                                     /\ correction'[c].status = "applied"
<1>1. IInv /\ [Next]_vars => [Settled]_vars
  <2> SUFFICES ASSUME IInv, Next, job' # job
               PROVE  Settled
    BY DEF vars
  <2>1. ASSUME NEW d \in Drives, Finish(d)
        PROVE  Settled
    <3> DEFINE c == drive[d].on
    <3>1. /\ c \in Corrections /\ correction[c].status = "pending"
          /\ drive[d].receipt = "applied"
          /\ correction' = [correction EXCEPT ![c].status = "applied"]
          /\ cashy.correction[c] = "applied" /\ lock = c
      BY <2>1 DEF Finish, IInv, DriveSound
    <3>2. job.status # "voided" /\ cashy.status = "confirmed"
      BY <3>1 DEF IInv, CorrectionSound, Books, Decided
    <3>3. job.status # "cancelled"
      BY <3>2 DEF IInv, JobSound
    <3>4. correction'[c].status = "applied"
      BY <3>1 DEF IInv, TypeOK, Correction
    <3> QED
      BY <3>1, <3>2, <3>3, <3>4
  <2>2. CASE UserStep
    BY <2>2 DEF UserStep, Confirm, CancelPending, Reconcile, Submit
  <2>3. ASSUME NEW d \in Drives, Complete(d) \/ Publish(d)
        PROVE  Settled
    BY <2>3 DEF Complete, Completed, Publish
  <2>4. CASE CashyStep \/ LockElsewhere \/ Seal \/ Revoke \/ Lapse
    BY <2>4 DEF CashyStep, AnswerJob, AnswerCorrection, LockElsewhere, Seal, Revoke, Lapse, rowVars
  <2>5. ASSUME NEW d \in Drives, Pick(d) \/ Ask(d) \/ Fail(d)
        PROVE  Settled
    BY <2>5 DEF Pick, PickJob, PickCorrection, Ask, Fail, Send, rowVars
  <2>6. ASSUME NEW d \in Drives, JobStep(d)
        PROVE  Settled
    BY <2>3, <2>6 DEF JobStep, HandleMissing, HandleRefused, HandleReserved, HandleSettled,
                     PublishRefused, Send, rowVars
  <2>7. ASSUME NEW d \in Drives, CorrectionStep(d)
        PROVE  Settled
    BY <2>1, <2>7 DEF CorrectionStep, HandleUnadjusted, HandleForbidden, HandleResolved,
                     FinishResolved, Send, rowVars
  <2> QED
    BY <2>2, <2>4, <2>5, <2>6, <2>7 DEF Next
<1> QED
  BY <1>1, Invariant, PTL DEF Spec, SettledForGood
=============================================================================
