----------------------------- MODULE AccountLink -----------------------------
(***************************************************************************)
(* The link of one Growly user with Cashy: the revocation outbox, the      *)
(* cached projection that offline reads show, and every handler that asks  *)
(* Cashy for a permission.  A handler is a sequence of awaited calls: each *)
(* action below runs from one await to the next.  An integration that is   *)
(* switched off answers like a Cashy that cannot be reached.               *)
(***************************************************************************)
EXTENDS Naturals, FiniteSets

CONSTANTS
  Links,      \* ids Cashy gives to links, one for each time it is approved
  Requests,   \* concurrent requests of the user, or of Cashy in his name
  Timer,      \* the timer that runs retryPending()
  Calls,      \* the operations each request may call
  NoLink

VARIABLES
  cashy,       \* what Cashy knows of each link
  revocation,  \* integration_link_revocations: the row of each link
  projection,  \* integration_link_projections: the user's row
  previews,    \* integration_contribution_previews: links of the live rows
  handler      \* progress of each request and of the timer

vars == <<cashy, revocation, projection, previews, handler>>
rows == <<revocation, projection, previews>>

Processes == Requests \cup {Timer}

Operations == {"status", "revoke", "connect", "allocation", "prepare",
               "portfolio", "identity"}

ASSUME LinkAssumption ==
  /\ Timer \notin Requests /\ NoLink \notin Links
  /\ Calls \in [Requests -> SUBSET Operations]

-----------------------------------------------------------------------------
(* State.                                                                  *)

\* A pending row is due, or waits for its nextAttemptAt.
Pending == {"due", "waiting"}

\* The call a handler waits for.
Points == {"idle",
           "pending?", "ask", "again?", "blocked?", "save", "drop", "offline",
           "row?", "record", "tell", "settle", "forget", "postpone",
           "clear?", "approve",
           "before?", "authorize", "after?",
           "allocate", "revoked?", "create", "summary", "validate",
           "fresh", "granted"}

\* What the caller of status() or authorize() does with the answer.
Continuations == {"return", "record", "permit", "allocate", "allocation",
                  "summary", "create", "release"}

Handler == [op: Operations \cup {"none", "retry"}, at: Points, then: Continuations,
            link: Links \cup {NoLink},  \* the link the operation is about
            seen: Links \cup {NoLink},  \* the active link in Cashy's answer
            queue: SUBSET Links,        \* rows retryPending() has read
            late: SUBSET Links]         \* links with a row when it began

Idle == [op |-> "none", at |-> "idle", then |-> "return", link |-> NoLink,
         seen |-> NoLink, queue |-> {}, late |-> {}]

Init ==
  /\ cashy = [l \in Links |-> "none"]
  /\ revocation = [l \in Links |-> "none"]
  /\ projection = NoLink
  /\ previews = {}
  /\ handler = [p \in Processes |-> Idle]

PendingLinks == {l \in Links : revocation[l] \in Pending}
Recorded == {l \in Links : revocation[l] # "none"}
Active == {l \in Links : cashy[l] = "active"}

At(p, point) == handler[p].at = point

Put(p, h) == handler' = [handler EXCEPT ![p] = h]

Step(p, point) == Put(p, [handler[p] EXCEPT !.at = point])

\* An exception, or the end of a handler whose answer no property is about.
Stop(p) == Put(p, Idle)

-----------------------------------------------------------------------------
(* Cashy.                                                                  *)

\* The user completes in Cashy what Growly approved.
Activate(l) ==
  /\ cashy[l] = "approved" /\ Active = {}
  /\ cashy' = [cashy EXCEPT ![l] = "active"]
  /\ UNCHANGED <<rows, handler>>

\* The user unlinks in Cashy.
PeerRevoke(l) ==
  /\ cashy[l] \in {"approved", "active"}
  /\ cashy' = [cashy EXCEPT ![l] = "revoked"]
  /\ UNCHANGED <<rows, handler>>

-----------------------------------------------------------------------------
(* status()                                                                *)

\* Mutant of Answered: revoke() does not look at the state it got.
AnsweredUnchecked(h, state, l) ==
  CASE h.then = "return" /\ state = "online" -> [h EXCEPT !.at = "fresh", !.link = l, !.seen = NoLink]
    [] h.then = "record" -> [h EXCEPT !.at = "record", !.seen = NoLink]
    [] h.then = "permit" /\ state = "online" ->
         [h EXCEPT !.at = "before?", !.then = "allocation", !.link = l, !.seen = NoLink]
    [] h.then = "allocate" /\ state = "online" /\ h.link \in {NoLink, l} ->
         [h EXCEPT !.at = "allocate", !.link = l, !.seen = NoLink]
    [] OTHER -> Idle

\* What status() returns to whoever called it: the state it found ("none",
\* "pending", "offline", "online") and the link in it.  revoke() takes a cached
\* link too; the others also refuse a paused access (Fail).
Answered(h, state, l) ==
  CASE h.then = "return" /\ state = "online" -> [h EXCEPT !.at = "fresh", !.link = l, !.seen = NoLink]
    [] h.then = "record" /\ state \in {"online", "offline"} /\ l = h.link ->
         [h EXCEPT !.at = "record", !.seen = NoLink]
    [] h.then = "permit" /\ state = "online" ->
         [h EXCEPT !.at = "before?", !.then = "allocation", !.link = l, !.seen = NoLink]
    [] h.then = "allocate" /\ state = "online" /\ h.link \in {NoLink, l} ->
         [h EXCEPT !.at = "allocate", !.link = l, !.seen = NoLink]
    [] OTHER -> Idle

CheckPending(p) ==
  /\ At(p, "pending?")
  /\ IF PendingLinks # {}
     THEN \E l \in PendingLinks : Put(p, Answered(handler[p], "pending", l))
     ELSE Step(p, "ask")
  /\ UNCHANGED <<cashy, rows>>

AskCashy(p) ==
  /\ At(p, "ask")
  /\ \/ \E l \in IF Active = {} THEN {NoLink} ELSE Active :
          Put(p, [handler[p] EXCEPT !.at = "again?", !.seen = l])
     \/ Step(p, "offline")
  /\ UNCHANGED <<cashy, rows>>

CheckPendingAgain(p) ==
  /\ At(p, "again?")
  /\ IF PendingLinks # {}
     THEN \E l \in PendingLinks : Put(p, Answered(handler[p], "pending", l))
     ELSE Step(p, IF handler[p].seen = NoLink THEN "drop" ELSE "blocked?")
  /\ UNCHANGED <<cashy, rows>>

CheckBlocked(p) ==
  /\ At(p, "blocked?")
  /\ Step(p, IF handler[p].seen \in Recorded THEN "offline" ELSE "save")
  /\ UNCHANGED <<cashy, rows>>

SaveProjection(p) ==
  /\ At(p, "save")
  /\ projection' = handler[p].seen
  /\ Put(p, Answered(handler[p], "online", handler[p].seen))
  /\ UNCHANGED <<cashy, revocation, previews>>

\* Mutant of DropProjection: a link Cashy no longer knows stays cached.
DropNothing(p) ==
  /\ At(p, "drop")
  /\ Put(p, Answered(handler[p], "none", NoLink))
  /\ UNCHANGED <<cashy, rows>>

DropProjection(p) ==
  /\ At(p, "drop")
  /\ projection' = NoLink
  /\ Put(p, Answered(handler[p], "none", NoLink))
  /\ UNCHANGED <<cashy, revocation, previews>>

\* offlineState
ReadProjection(p) ==
  /\ At(p, "offline")
  /\ Put(p, IF projection = NoLink THEN Idle
            ELSE Answered(handler[p], "offline", projection))
  /\ UNCHANGED <<cashy, rows>>

-----------------------------------------------------------------------------
(* revoke()                                                                *)

CheckRow(p) ==
  /\ At(p, "row?")
  /\ LET h == handler[p] IN
     Put(p, CASE revocation[h.link] \in Pending -> [h EXCEPT !.at = "tell"]
              [] revocation[h.link] = "completed" -> [h EXCEPT !.at = "pending?"]
              [] OTHER -> [h EXCEPT !.at = "pending?", !.then = "record"])
  /\ UNCHANGED <<cashy, rows>>

\* $setOnInsert
Upserted(row) == IF row = "none" THEN "due" ELSE row

Record(p) ==
  /\ At(p, "record")
  /\ revocation' = [revocation EXCEPT ![handler[p].link] = Upserted(@)]
  /\ Put(p, [handler[p] EXCEPT !.at = "tell", !.then = "return"])
  /\ UNCHANGED <<cashy, projection, previews>>

-----------------------------------------------------------------------------
(* deliverRevocation(), for a request or for the timer.                    *)

\* Mutant of Delivered: the flag retrying is not reset.
DeliveredRetrying(h) ==
  IF h.op # "retry" THEN {[h EXCEPT !.at = "pending?", !.then = "return"]}
  ELSE IF h.queue = {} THEN {[h EXCEPT !.at = "idle"]}
  ELSE {[h EXCEPT !.at = "tell", !.link = l, !.queue = @ \ {l}] : l \in h.queue}

\* The request goes on with status(), the timer with its next row.
Delivered(h) ==
  IF h.op # "retry" THEN {[h EXCEPT !.at = "pending?", !.then = "return"]}
  ELSE IF h.queue = {} THEN {Idle}
  ELSE {[h EXCEPT !.at = "tell", !.link = l, !.queue = @ \ {l}] : l \in h.queue}

\* Cashy revokes the link, known or not, and says so.
TellHeard(p) ==
  /\ At(p, "tell")
  /\ cashy' = [cashy EXCEPT ![handler[p].link] = "revoked"]
  /\ Step(p, "settle")
  /\ UNCHANGED rows

\* Mutant of TellLost: the absence of an answer counts as the receipt.
TellLostSettled(p) ==
  /\ At(p, "tell")
  /\ cashy' \in {cashy, [cashy EXCEPT ![handler[p].link] = "revoked"]}
  /\ Step(p, "settle")
  /\ UNCHANGED rows

\* The request or its receipt is lost.
TellLost(p) ==
  /\ At(p, "tell")
  /\ cashy' \in {cashy, [cashy EXCEPT ![handler[p].link] = "revoked"]}
  /\ Step(p, "postpone")
  /\ UNCHANGED rows

Settle(p) ==
  /\ At(p, "settle")
  /\ revocation' = [revocation EXCEPT ![handler[p].link] =
                      IF @ \in Pending THEN "completed" ELSE @]
  /\ Step(p, "forget")
  /\ UNCHANGED <<cashy, projection, previews>>

Forget(p) ==
  /\ At(p, "forget")
  /\ projection' = IF projection = handler[p].link THEN NoLink ELSE projection
  /\ \E h \in Delivered(handler[p]) : Put(p, h)
  /\ UNCHANGED <<cashy, revocation, previews>>

\* The catch: attempts + 1 and a later nextAttemptAt.
Postpone(p) ==
  /\ At(p, "postpone")
  /\ revocation' = [revocation EXCEPT ![handler[p].link] =
                      IF @ \in Pending THEN "waiting" ELSE @]
  /\ \E h \in Delivered(handler[p]) : Put(p, h)
  /\ UNCHANGED <<cashy, projection, previews>>

\* nextAttemptAt passes.
Elapse(l) ==
  /\ revocation[l] = "waiting"
  /\ revocation' = [revocation EXCEPT ![l] = "due"]
  /\ UNCHANGED <<cashy, projection, previews, handler>>

\* retryPending: one run at a time (the flag retrying).
Retry ==
  LET found == {l \in Links : revocation[l] = "due"} IN
  /\ At(Timer, "idle") /\ handler[Timer].op # "retry" /\ found # {}
  /\ \E h \in Delivered([Idle EXCEPT !.op = "retry", !.queue = found]) : Put(Timer, h)
  /\ UNCHANGED <<cashy, rows>>

-----------------------------------------------------------------------------
(* preview() and approve() of a link token.                                *)

\* Mutant of CheckClear: the pending rows are not looked for.
CheckClearNever(p) ==
  At(p, "clear?") /\ Step(p, "approve") /\ UNCHANGED <<cashy, rows>>

CheckClear(p) ==
  /\ At(p, "clear?")
  /\ IF PendingLinks # {} THEN Stop(p) ELSE Step(p, "approve")
  /\ UNCHANGED <<cashy, rows>>

Approve(p) ==
  /\ At(p, "approve")
  /\ LET l == handler[p].link IN
     cashy' \in {cashy} \cup
       IF cashy[l] = "none" THEN {[cashy EXCEPT ![l] = "approved"]} ELSE {}
  /\ Stop(p)
  /\ UNCHANGED rows

-----------------------------------------------------------------------------
(* authorize(), allocation() and peerIdentity().                           *)

\* Mutant of Barred: Cashy's authorization is enough.
BarredNever(l) == FALSE

\* revocations.exists
Barred(l) == l \in Recorded

CheckBefore(p) ==
  /\ At(p, "before?")
  /\ IF Barred(handler[p].link) THEN Stop(p) ELSE Step(p, "authorize")
  /\ UNCHANGED <<cashy, rows>>

\* Cashy may refuse a permission even for an active link.
Authorize(p) ==
  /\ At(p, "authorize")
  /\ \/ cashy[handler[p].link] = "active" /\ Step(p, "after?")
     \/ Stop(p)
  /\ UNCHANGED <<cashy, rows>>

\* What the caller of authorize() does next.
Permitted(h) ==
  CASE h.then = "allocation" -> [h EXCEPT !.at = "pending?", !.then = "allocate"]
    [] h.then = "summary" -> [h EXCEPT !.at = "summary"]
    [] h.then = "create" -> [h EXCEPT !.at = "create"]
    [] OTHER -> [h EXCEPT !.at = "granted"]

CheckAfter(p) ==
  /\ At(p, "after?")
  /\ IF Barred(handler[p].link) THEN Stop(p) ELSE Put(p, Permitted(handler[p]))
  /\ UNCHANGED <<cashy, rows>>

\* The budget of the month: undefined, or too small for the amount.
Allocate(p) ==
  /\ At(p, "allocate")
  /\ \/ cashy[handler[p].link] = "active" /\ Step(p, "revoked?")
     \/ Stop(p)
  /\ UNCHANGED <<cashy, rows>>

CheckRevoked(p) ==
  /\ At(p, "revoked?")
  /\ LET h == handler[p] IN
     IF Barred(h.link) THEN Stop(p)
     ELSE Put(p, IF h.op = "prepare" THEN [h EXCEPT !.at = "before?", !.then = "create"]
                                     ELSE [h EXCEPT !.at = "granted"])
  /\ UNCHANGED <<cashy, rows>>

\* The end of prepare(), unless the month changed meanwhile.
CreatePreview(p) ==
  /\ At(p, "create")
  /\ \/ previews' = previews \cup {handler[p].link} /\ Step(p, "granted")
     \/ Stop(p) /\ UNCHANGED previews
  /\ UNCHANGED <<cashy, revocation, projection>>

\* The TTL index removes it five minutes later.
Expire(l) ==
  /\ l \in previews /\ previews' = previews \ {l}
  /\ UNCHANGED <<cashy, revocation, projection, handler>>

\* PortfolioController.get reads the summary between two authorizations.
ReadSummary(p) ==
  /\ At(p, "summary")
  /\ Put(p, [handler[p] EXCEPT !.at = "before?", !.then = "release"])
  /\ UNCHANGED <<cashy, rows>>

\* peerIdentity: Cashy's grant and the user's own state, then the row.
Validate(p) ==
  /\ At(p, "validate")
  /\ \/ cashy[handler[p].link] = "active" /\ Step(p, "revoked?")
     \/ Stop(p)
  /\ UNCHANGED <<cashy, rows>>

-----------------------------------------------------------------------------

\* The first call of each operation, and what it is for.
Entry(op) ==
  CASE op = "status"     -> <<"pending?", "return">>
    [] op = "revoke"     -> <<"row?", "return">>
    [] op = "connect"    -> <<"clear?", "return">>
    [] op = "allocation" -> <<"pending?", "allocate">>
    [] op = "prepare"    -> <<"pending?", "permit">>
    [] op = "portfolio"  -> <<"before?", "summary">>
    [] op = "identity"   -> <<"validate", "return">>

Named(op) == op \in {"revoke", "connect", "portfolio", "identity"}

Begin(p, op, l) ==
  /\ p \in Requests /\ At(p, "idle")
  /\ op \in Calls[p] /\ (l = NoLink <=> ~Named(op))
  /\ Put(p, [Idle EXCEPT !.op = op, !.at = Entry(op)[1], !.then = Entry(op)[2],
                         !.link = l, !.late = Recorded])
  /\ UNCHANGED <<cashy, rows>>

\* The answer is sent.
Finish(p) ==
  /\ At(p, "fresh") \/ At(p, "granted")
  /\ Stop(p)
  /\ UNCHANGED <<cashy, rows>>

\* The server restarts or the database fails: what was written stays.
Fail(p) ==
  /\ ~At(p, "idle")
  /\ Stop(p)
  /\ UNCHANGED <<cashy, rows>>

HandlerStep(p) ==
  \/ CheckPending(p) \/ AskCashy(p) \/ CheckPendingAgain(p) \/ CheckBlocked(p)
  \/ SaveProjection(p) \/ DropProjection(p) \/ ReadProjection(p)
  \/ CheckRow(p) \/ Record(p) \/ TellHeard(p) \/ TellLost(p) \/ Settle(p) \/ Forget(p) \/ Postpone(p)
  \/ CheckClear(p) \/ Approve(p)
  \/ CheckBefore(p) \/ Authorize(p) \/ CheckAfter(p)
  \/ Allocate(p) \/ CheckRevoked(p) \/ CreatePreview(p) \/ ReadSummary(p) \/ Validate(p)
  \/ Finish(p)

Environment ==
  \E l \in Links : Activate(l) \/ PeerRevoke(l) \/ Elapse(l) \/ Expire(l)

Next ==
  \/ Environment
  \/ Retry
  \/ \E p \in Processes : HandlerStep(p) \/ Fail(p)
  \/ \E p \in Requests, op \in Operations, l \in Links \cup {NoLink} : Begin(p, op, l)

Spec == Init /\ [][Next]_vars

\* The event loop runs every handler on, the timer fires and time passes.
\* Neither does every request to Cashy get lost, nor does the server fail each
\* time before it notes a receipt.
Fairness ==
  /\ \A p \in Processes : WF_vars(HandlerStep(p))
  /\ SF_vars(Retry)
  /\ \A l \in Links : WF_vars(Elapse(l))
  /\ SF_vars(TellHeard(Timer)) /\ SF_vars(Settle(Timer))

FairSpec == Spec /\ Fairness

-----------------------------------------------------------------------------
(* Properties.                                                             *)

\* Types of the variables.
LinkTypeOK ==
  /\ cashy \in [Links -> {"none", "approved", "active", "revoked"}]
  /\ revocation \in [Links -> {"none", "due", "waiting", "completed"}]
  /\ projection \in Links \cup {NoLink}
  /\ previews \subseteq Links
  /\ handler \in [Processes -> Handler]

\* A revocation is completed in Growly only after Cashy revoked the link, and
\* it stays revoked in both, whoever delivers it and however often.
CompletedIsRevoked ==
  \A l \in Links : revocation[l] = "completed" => cashy[l] = "revoked"

\* A request that begins once the user asked to unlink is neither granted a
\* permission of that link nor told that it is live, although Cashy may not
\* know of the revocation yet (authorize, allocation, peerIdentity, status).
LateRefused ==
  \A p \in Processes :
    At(p, "fresh") \/ At(p, "granted") => handler[p].link \notin handler[p].late

\* Growly approves no link while a revocation that was pending when the request
\* began still is ("Esperá a que termine la desvinculación").
ApprovalWaits ==
  \A p \in Processes :
    At(p, "approve") => handler[p].late \cap PendingLinks = {}

\* What the proof carries from step to step: what each handler learned from the
\* rows it read, and that only a link Cashy activated is ever written down.
Knows(h) ==
  /\ h.late \subseteq Recorded
  /\ h.at = "settle" => h.link \notin Links \/ cashy[h.link] = "revoked"
  /\ h.at = "blocked?" => h.seen \in Links
  /\ h.at = "save" => h.seen \in Links \ h.late
  /\ h.then = "create" \/ h.at \in {"allocate", "validate", "revoked?", "create"} =>
       h.link \in Links
  /\ h.at \in {"create", "summary", "fresh", "granted"} => h.link \notin h.late
  /\ h.at = "approve" => \A l \in h.late : revocation[l] = "completed"
  /\ h.seen \in Links => cashy[h.seen] \in {"active", "revoked"}
  /\ h.at = "record" /\ h.link \in Links => cashy[h.link] \in {"active", "revoked"}

Met ==
  /\ projection \in Links => cashy[projection] \in {"active", "revoked"}
  /\ \A l \in Recorded : cashy[l] \in {"active", "revoked"}

IInv ==
  /\ LinkTypeOK /\ CompletedIsRevoked /\ Met
  /\ \A p \in Processes : Knows(handler[p])

\* The row of a revocation is never removed nor made pending again: two
\* concurrent revoke() of one link, the timer and a restart only advance it.
RevocationsStand ==
  [][\A l \in Links :
       /\ revocation[l] # "none" => revocation'[l] # "none"
       /\ revocation[l] = "completed" => revocation'[l] = "completed"]_vars

\* The life of each link, as Growly and Cashy keep it together.
Life(l) ==
  CASE cashy[l] = "revoked" -> "ended"
    [] cashy[l] \in {"none", "approved"} -> "absent"
    [] cashy[l] = "active" /\ revocation[l] = "none" -> "linked"
    [] cashy[l] = "active" /\ revocation[l] # "none" -> "leaving"

Promise == INSTANCE LinkPromise WITH link <- [l \in Links |-> Life(l)]

\* The outbox implements the promise of unlinking: from the moment it is asked
\* for, a link only ends, and it does end.
PromiseKept == Promise!Spec

\* Every pending revocation reaches Cashy and is completed, whatever was lost
\* before: the outbox of deliverRevocation and retryPending.
PendingDelivered ==
  \A l \in Links : (revocation[l] \in Pending) ~> (revocation[l] = "completed")

\* Cashy's answer to a status() request is written down.
Refresh(p) == handler[p].op = "status" /\ (SaveProjection(p) \/ DropProjection(p))

\* A projection that a slow status() saved after the revocation completed, or
\* that a crash left behind, is corrected while status() is still asked for.
ProjectionRefreshed ==
  []<><<\E p \in Requests : Refresh(p)>>_vars =>
    \A l \in Links : (revocation[l] = "completed") ~> (projection # l)
=============================================================================
