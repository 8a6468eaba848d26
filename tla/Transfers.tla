----------------------------- MODULE Transfers -----------------------------
(***************************************************************************)
(* Transfers between goals: a request is recorded once per idempotency key *)
(* (TransfersRepository.accept) and executed later, by a worker of the     *)
(* server that recorded it or of any server asked to retry it              *)
(* (TransferSubmissionService, TransferExecutionService).  The ledger the  *)
(* workers post to is that of module Ledger, with its other writers.       *)
(***************************************************************************)
EXTENDS Ledger

CONSTANTS
  Servers,    \* processes of the backend
  Requests,   \* concurrent POST requests
  Keys,       \* idempotency keys chosen by clients
  Intents,    \* what may be asked of a key
  Ids,        \* ids drawn by randomUUID
  LegIds      \* the ids of the entries of each transfer

VARIABLES
  rows,       \* the transfers collection
  request,    \* progress of each POST
  worker,     \* progress of process() on each server, per transfer
  answers     \* the keys clients were answered for, with the id they got

transferVars == <<rows, request, worker, answers>>
allVars == <<vars, transferVars>>

Workers == Servers \X Ids

Endpoint == [goal: Goals, cash: CashAccounts, asset: Positions]

Intent == [kind: {"cash", "crypto"}, source: Endpoint, destination: Endpoint,
           units: Nat, fee: Nat]

Row == [id: Ids, key: Keys, intent: Intents, at: 0..MaxTime,
        status: {"pending", "completed", "rejected"}]

Idle == [phase |-> "idle"]
NoWorker == [phase |-> "none", seen |-> "none"]

GoalsOf(intent) == {intent.source.goal, intent.destination.goal}

Leg(id, type, endpoint, n, t) ==
  [id |-> id, type |-> type, cash |-> endpoint.cash, asset |-> endpoint.asset,
   amount |-> IF type \in CashLegs THEN n ELSE 0,
   quantity |-> IF type \in AssetLegs THEN n ELSE 0,
   at |-> t, cashy |-> FALSE]

IsCash(intent) == intent.kind = "cash"

\* The entries CashTransfersService and CryptoTransfersService insert.
Leaves(i, intent, t) ==
  Leg(LegIds[i].source, IF IsCash(intent) THEN "cash_out" ELSE "asset_out",
      intent.source, intent.units, t)

Arrives(i, intent, t) ==
  Leg(LegIds[i].destination, IF IsCash(intent) THEN "cash_in" ELSE "asset_in",
      intent.destination, intent.units, t)

Fees(i, intent, t) ==
  IF intent.fee = 0 THEN {}
  ELSE {Leg(LegIds[i].commission, IF IsCash(intent) THEN "cash_fee" ELSE "asset_fee",
            intent.source, intent.fee, t)}

Legs(i, intent, t) ==
  {Leaves(i, intent, t), Arrives(i, intent, t)} \cup Fees(i, intent, t)

ASSUME TransfersAssumption ==
  /\ Workers \subseteq Flows
  /\ Intents \subseteq Intent
  /\ \A i \in Ids, intent \in Intents, t \in 0..MaxTime :
       Legs(i, intent, t) \subseteq Entries

\* The sides of a transfer, each with an entry of its own.
AllSides == {"source", "destination", "commission"}

\* An entry's id is that of its transfer (a randomUUID) and its side; documents
\* that are no legs have an ObjectId.
ASSUME LegIdsAssumption ==
  /\ \A i, j \in Ids, a, b \in AllSides : LegIds[i][a] = LegIds[j][b] => i = j /\ a = b
  /\ \A e \in Entries : e.type \notin LegTypes =>
       \A i \in Ids, side \in AllSides : e.id # LegIds[i][side]

-----------------------------------------------------------------------------

TransfersInit ==
  /\ Init
  /\ rows = {}
  /\ request = [r \in Requests |-> Idle]
  /\ worker = [w \in Workers |-> NoWorker]
  /\ answers = {}

RowsOf(k) == {row \in rows : row.key = k}

\* TransferSubmissionService.process: one worker per transfer and server.
Process(s, row) ==
  worker' = IF row.status = "pending" /\ worker[<<s, row.id>>].phase = "none"
            THEN [worker EXCEPT ![<<s, row.id>>].phase = "queued"]
            ELSE worker

\* The key already has a row: the client gets it if it asked for the same
\* (replay), and IDEMPOTENCY_CONFLICT if it did not.
Answer(r, s, row, intent) ==
  /\ request' = [request EXCEPT ![r] = Idle]
  /\ IF row.intent = intent
     THEN /\ answers' = answers \cup {[key |-> row.key, intent |-> intent, id |-> row.id]}
          /\ Process(s, row)
     ELSE UNCHANGED <<answers, worker>>

\* accept(): byKey, before anything is written.
Submit(r, s, k, intent) ==
  /\ request[r] = Idle
  /\ \/ /\ RowsOf(k) = {}
        /\ request' = [request EXCEPT ![r] =
             [phase |-> "count", server |-> s, key |-> k, intent |-> intent, at |-> 0]]
        /\ UNCHANGED <<answers, worker>>
     \/ \E row \in RowsOf(k) : Answer(r, s, row, intent)
  /\ UNCHANGED <<vars, rows>>

\* accept(): the goals are counted and the dates of the row taken.
CountGoals(r) ==
  /\ request[r].phase = "count"
  /\ \A g \in GoalsOf(request[r].intent) : Available(goal[g], NoLock, TRUE, FALSE)
  /\ request' = [request EXCEPT ![r].phase = "insert", ![r].at = now]
  /\ UNCHANGED <<vars, rows, worker, answers>>

\* Mutant of KeyFree: the index is not unique.
KeyAlwaysFree(k) == TRUE

\* The unique index on userId and idempotencyKey.
KeyFree(k) == RowsOf(k) = {}

NewRow(r, i) ==
  [id |-> i, key |-> request[r].key, intent |-> request[r].intent,
   at |-> request[r].at, status |-> "pending"]

\* accept(): create() succeeds, and the answer may be lost.
Insert(r, i) ==
  /\ request[r].phase = "insert"
  /\ KeyFree(request[r].key)
  /\ \A row \in rows : row.id # i
  /\ rows' = rows \cup {NewRow(r, i)}
  /\ \/ Answer(r, request[r].server, NewRow(r, i), request[r].intent)
     \/ request' = [request EXCEPT ![r] = Idle] /\ UNCHANGED <<worker, answers>>
  /\ UNCHANGED vars

\* accept(): the index refused the row, somebody else inserted the key first.
Duplicate(r) ==
  /\ request[r].phase = "insert"
  /\ \E row \in RowsOf(request[r].key) :
       Answer(r, request[r].server, row, request[r].intent)
  /\ UNCHANGED <<vars, rows>>

\* GOAL_UNAVAILABLE, RESULT_UNKNOWN, or a client that stopped waiting.
GiveUp(r) ==
  /\ request[r] # Idle
  /\ request' = [request EXCEPT ![r] = Idle]
  /\ UNCHANGED <<vars, rows, worker, answers>>

\* POST transfers/:id/retry
Retry(s, row) ==
  /\ Process(s, row)
  /\ UNCHANGED <<vars, rows, request, answers>>

-----------------------------------------------------------------------------
(* TransferExecutionService.execute, on server w[1] for transfer w[2].     *)

\* Mutant of EndWork: the key is never taken out of the processing set.
EndWorkDone(w) == worker' = [worker EXCEPT ![w].phase = "done"]

EndWork(w) == worker' = [worker EXCEPT ![w] = NoWorker]

\* The read before the transaction.
StartWork(w, row) ==
  /\ worker[w].phase = "queued" /\ row.id = w[2]
  /\ IF row.status = "pending"
     THEN worker' = [worker EXCEPT ![w].phase = "running"]
     ELSE EndWork(w)
  /\ UNCHANGED <<vars, rows, request, answers>>

BeginWork(w, row) ==
  /\ worker[w].phase = "running" /\ row.id = w[2]
  /\ Begin(w, GoalsOf(row.intent))
  /\ worker' = [worker EXCEPT ![w].seen = row.status]
  /\ UNCHANGED <<rows, request, answers>>

Running(w, row) ==
  /\ worker[w].phase = "running" /\ worker[w].seen # "none" /\ row.id = w[2]
  /\ Open(w, GoalsOf(row.intent))

GoalsOpen(w) ==
  \A g \in DOMAIN session[w] : Available(session[w][g].doc, NoLock, TRUE, FALSE)

\* Another worker finished the transfer before this session began.
SkipWork(w, row) ==
  /\ Running(w, row)
  /\ worker[w].seen # "pending" /\ GoalsOpen(w)
  /\ CommitUnchanged(w, GoalsOf(row.intent))
  /\ EndWork(w)
  /\ UNCHANGED <<rows, request, answers>>

\* Mutant of Completed: the row is not updated with its legs.
LeftPending(row) == row

Completed(row) == [row EXCEPT !.status = "completed"]

\* The legs and the completed row commit together; a row somebody rejected
\* since the session began is a write conflict.
Post(w, row) ==
  /\ Running(w, row)
  /\ worker[w].seen = "pending" /\ row.status = "pending"
  /\ PostTransfer(w, row.intent.source.goal, row.intent.destination.goal,
                  Leaves(row.id, row.intent, row.at),
                  Arrives(row.id, row.intent, row.at),
                  Fees(row.id, row.intent, row.at))
  /\ rows' = (rows \ {row}) \cup {Completed(row)}
  /\ EndWork(w)
  /\ UNCHANGED <<request, answers>>

LegsIn(g, row) ==
  {leg \in Legs(row.id, row.intent, row.at) :
     \/ g = row.intent.destination.goal /\ leg.id = LegIds[row.id].destination
     \/ g = row.intent.source.goal /\ leg.id # LegIds[row.id].destination}

\* Both validations of the goals the session reads, and the dates of apply().
Acceptable(w, row) ==
  /\ Started(row.intent.source.goal, row.intent.destination.goal,
             IsCash(row.intent), row.at)
  /\ \A g \in DOMAIN session[w] :
       /\ Valid(g, session[w][g].entries, IsCash(row.intent), now)
       /\ Valid(g, session[w][g].entries \cup LegsIn(g, row), IsCash(row.intent), now)

\* GOAL_UNAVAILABLE or a BadRequestException of the callback.
Refuse(w, row) ==
  /\ Running(w, row)
  /\ ~GoalsOpen(w) \/ (worker[w].seen = "pending" /\ ~Acceptable(w, row))
  /\ Abandon(w)
  /\ worker' = [worker EXCEPT ![w].phase = "refused"]
  /\ UNCHANGED <<rows, request, answers>>

\* Mutant of Reject: the rejection does not ask for a pending row.
RejectAnyway(w, row) ==
  /\ worker[w].phase = "refused" /\ row.id = w[2]
  /\ rows' = (rows \ {row}) \cup {[row EXCEPT !.status = "rejected"]}
  /\ EndWork(w)
  /\ UNCHANGED <<vars, request, answers>>

\* The rejection is written outside the transaction, on a row still pending.
Reject(w, row) ==
  /\ worker[w].phase = "refused" /\ row.id = w[2]
  /\ rows' = IF row.status = "pending"
             THEN (rows \ {row}) \cup {[row EXCEPT !.status = "rejected"]}
             ELSE rows
  /\ EndWork(w)
  /\ UNCHANGED <<vars, request, answers>>

\* The driver discards the session and runs the callback again.
Restart(w) ==
  /\ worker[w].phase = "running"
  /\ Abandon(w)
  /\ UNCHANGED transferVars

\* Mutant of Fail: a failed run keeps its key in the processing set.
FailHoldingKey(w) ==
  /\ worker[w].phase # "none"
  /\ IF session[w] = NoSession THEN UNCHANGED vars ELSE Abandon(w)
  /\ worker' = [worker EXCEPT ![w].phase = "failed"]
  /\ UNCHANGED <<rows, request, answers>>

\* RESULT_UNKNOWN: the error is logged and the key may be processed again.
Fail(w) ==
  /\ worker[w].phase # "none"
  /\ IF session[w] = NoSession THEN UNCHANGED vars ELSE Abandon(w)
  /\ EndWork(w)
  /\ UNCHANGED <<rows, request, answers>>

\* A process dies: its requests and workers are forgotten and nothing in the
\* code takes up its pending rows.  MongoDB expires its sessions later.
Crash(s) ==
  /\ worker' = [w \in Workers |-> IF w[1] = s THEN NoWorker ELSE worker[w]]
  /\ request' = [r \in Requests |->
       IF request[r] # Idle /\ request[r].server = s THEN Idle ELSE request[r]]
  /\ UNCHANGED <<vars, rows, answers>>

Expire(w) ==
  /\ worker[w].seen = "none"
  /\ Abandon(w)
  /\ UNCHANGED transferVars

-----------------------------------------------------------------------------

WorkStep(w) ==
  \/ \E row \in rows :
       \/ StartWork(w, row) \/ BeginWork(w, row) \/ SkipWork(w, row)
       \/ Post(w, row) \/ Refuse(w, row) \/ Reject(w, row)
  \/ Restart(w) \/ Fail(w) \/ Expire(w)

RequestProgress(r) ==
  \/ \E s \in Servers, k \in Keys, intent \in Intents : Submit(r, s, k, intent)
  \/ CountGoals(r)
  \/ \E i \in Ids : Insert(r, i)
  \/ Duplicate(r)
  \/ GiveUp(r)

OtherStep ==
  /\ \/ \E f \in Flows \ Workers : RequestStep(f)
     \/ \E g \in Goals, s \in Statuses : CreateGoal(g, s)
     \/ Tick
  /\ UNCHANGED transferVars

TransfersNext ==
  \/ \E r \in Requests : RequestProgress(r)
  \/ \E s \in Servers, row \in rows : Retry(s, row)
  \/ \E w \in Workers : WorkStep(w)
  \/ \E s \in Servers : Crash(s)
  \/ OtherStep

TransfersSpec == TransfersInit /\ [][TransfersNext]_allVars

\* The client asks again while the row is pending (the guide tells it to), and
\* no step of a worker fails every time it is tried: setImmediate runs what it
\* is given and the outages of the database end.
Fairness ==
  \A w \in Workers :
    /\ SF_allVars(\E row \in rows : row.id = w[2] /\ row.status = "pending"
                                     /\ worker[w].phase = "none" /\ Retry(w[1], row))
    /\ SF_allVars(\E row \in rows : StartWork(w, row))
    /\ SF_allVars(\E row \in rows : BeginWork(w, row))
    /\ SF_allVars(\E row \in rows : SkipWork(w, row) \/ Post(w, row) \/ Refuse(w, row))
    /\ SF_allVars(\E row \in rows : Reject(w, row))
    /\ WF_allVars(Expire(w))

FairTransfersSpec == TransfersSpec /\ Fairness

-----------------------------------------------------------------------------
(* Properties.                                                             *)

TransfersTypeOK ==
  /\ rows \subseteq Row
  /\ request \in [Requests -> {Idle} \cup
       [phase: {"count", "insert"}, server: Servers, key: Keys,
        intent: Intents, at: 0..MaxTime]]
  /\ worker \in [Workers -> [phase: {"none", "queued", "running", "refused"},
                             seen: {"none", "pending", "completed", "rejected"}]]
  /\ answers \subseteq [key: Keys, intent: Intents, id: Ids]

\* Debit, credit and fee are one: the goals hold every leg of a completed
\* transfer, on the right side, and no leg of one that is pending or rejected,
\* however many workers of however many servers ran it
\* ("atomic debit, credit and commission" of the transfers guide).
DoubleEntry ==
  \A g \in Goals :
    {e \in history[g] : e.type \in LegTypes} =
      UNION {LegsIn(g, row) : row \in {r \in rows :
               r.status = "completed" /\ g \in GoalsOf(r.intent)}}

\* A key names one transfer, whoever asked and however often: every client
\* answered for it was given the same row, which asks what the client asked.
OneTransferPerKey ==
  /\ \A a, b \in rows : a.key = b.key => a = b
  /\ \A answer \in answers :
       \E row \in rows : row.key = answer.key /\ row.id = answer.id
                         /\ row.intent = answer.intent

\* What a key promises (TransferPromise), as its row and the entries that bear
\* the row's ids show it.
SidesOf(intent) ==
  {"source", "destination"} \cup (IF intent.fee = 0 THEN {} ELSE {"commission"})

NoIntent == [kind |-> "none"]

Promise ==
  INSTANCE TransferPromise WITH
    Sides   <- SidesOf,
    terms   <- [k \in Keys |-> IF RowsOf(k) = {} THEN NoIntent
                               ELSE (CHOOSE row \in RowsOf(k) : TRUE).intent],
    outcome <- [k \in Keys |-> IF RowsOf(k) = {} THEN "unknown"
                               ELSE (CHOOSE row \in RowsOf(k) : TRUE).status],
    posted  <- [k \in Keys |->
                 {side \in AllSides :
                    \E row \in RowsOf(k), g \in Goals : \E e \in history[g] :
                      e.id = LegIds[row.id][side]}]

\* The executors, their retries and their crashes keep the promise.
PromiseKept == Promise!PromiseSpec

\* A transfer a client keeps asking for is settled, through crashes, failed
\* attempts, write conflicts and workers of other servers.
Settles ==
  \A i \in Ids : (\E row \in rows : row.id = i /\ row.status = "pending")
                  ~> (\E row \in rows : row.id = i /\ row.status # "pending")
=============================================================================
