# Growly ledger: specifications, model checking and proofs

Growly (`src/src`, NestJS and MongoDB) keeps savings goals. Each goal has a
ledger: hand-written movements and investment operations, legs of transfers
between goals, and contributions paid from Cashy, an external budget service
that Growly talks to over HTTP. Several requests, retry timers and server
processes write the same goals at once, so the questions this project asks are
about what they do to each other: may a balance become negative, may a transfer
post half of its legs, may a goal stay locked for good, may the two services
disagree about money or about their link, may a session outlive the password it
was opened with, does the user see what the ledger holds.

Sections 1 and 2 are the inventory and the plan; 3 to 5 describe the modules,
the runs and the proofs; 6 lists what was found and 7 what is left out.

## 1. Inventory

| Component | State | Operations | Talks to | Correct when |
|---|---|---|---|---|
| Ledger replay (`portfolio-ledger.service.ts`) | none: reads the goal and its four collections of entries | `validate(goal, candidate, excluded)` | every writer of a ledger | it accepts an entry set exactly when no account is ever negative and no date is outside the goal |
| Ledger coordination (`common/services/ledger-coordinator.service.ts`, `ledger-context.ts`) | `ledgerVersion` and `cashyAdjustmentLock` of a goal, one MongoDB session per caller | `run`, `runMany`, `settleAccepted`, `finishAdjustment` | all ledger writers | sessions that overlap on a goal are serialised |
| Goals (`goals/`) | status, `deletedAt` | create, update, remove | coordination | a locked or deleted goal is not changed |
| Movements, operations (`goals-movements/`, `investment-operations/`) | entries | create, update, remove | coordination, replay | the past of a transfer and linked contributions are out of reach |
| Transfer requests (`transfer-submission.service.ts`, `transfers.repository.ts`) | `transfers` rows, in-memory `processing` set | accept, replay, retry, process | execution | a key names one transfer |
| Transfer execution (`transfer-execution.service.ts`, `cash-` and `crypto-transfers.service.ts`) | legs, row status | execute | coordination, replay | debit, credit and fee are one |
| Book value (`cash-projection.ts`, `position-projection.ts`) | none | pools and their cost | transfers, summaries | the parts add up to the whole |
| Contributions (`integration/contribution-job.service.ts`) | jobs, retry timer | confirm, cancel, reconcile, drive | Cashy, coordination | Growly and Cashy agree about the money |
| Corrections (`integration/contribution-adjustment.service.ts`) | corrections, the goal's lock | submit, drive, finish | Cashy, coordination | what was promised to Cashy can be carried out |
| Contribution preview and money (`contribution-preview.service.ts`, `contribution-money.ts`) | preparations that expire | prepare, conversion to pesos | account link, Cashy | a preparation is of a live link, and the budget pays the nearest amount |
| Account link (`integration/account-link.service.ts`) | revocation outbox, cached projection, retry timer | preview, approve, deny, status, revoke, authorize, allocation, identity | Cashy | a link the user leaves ends in both services and grants nothing meanwhile |
| Accounts (`common/auth/`) | users, sessions | register, codes, login, recover, refresh, logout, profile, disable | every protected route, e-mail | what was ended stays so, and a blocked account needs a new password |
| Summaries (`summaries/`) | none | goal and portfolio summary | all ledger collections | figures agree with each other and with the ledger, and always exist |
| Transfer form (`transfers/transfer-form.service.ts`) | none | sources, destinations, preview | all ledger collections | it offers what the execution accepts |
| Assets, e-mail, logging, health, configuration, probes | none, or constant | | | no state |

**Interactions.** The coordinator opens a snapshot transaction over one or two
goals, bumps their `ledgerVersion` under a filter (lock, `deletedAt`, status),
runs a callback that replays the ledgers and writes entries, and commits; the
driver runs it again after a write conflict. Transfers record a row first and
execute it later with `setImmediate`. Contributions and corrections are rows
that a handler and a one-minute timer *drive*: each drive asks Cashy for the
status, moves it one action forward and finishes in a ledger transaction. A
correction locks its goal from its submission until Cashy's verdict is applied.
Unlinking from Cashy is a row of an outbox that the request and another timer
deliver, and every permission asks both the outbox and Cashy. Requests about an
account load the user, wait for bcrypt or the mail and save what they loaded.
Summaries and the transfer form compute costs and balances by themselves, from
one snapshot, and not with the code that checks them when they are written.

**What is hard here.** Sessions that read a goal before another one commits;
plans validated when they are submitted and applied, unvalidated, much later;
rejections written outside the transaction that failed; a process dying with
rows that only memory knew were being worked on; HTTP requests that take effect
after their caller timed out; drives that act on a row other drives, the user or
a correction already settled; permissions that overlap an unlinking; documents
saved after another request changed them; the same figure computed in two places. `PROJECT.json` lists each hazard at its line with
the property that would catch it.

## 2. Plan

In this order, each built on those before it: `LedgerRules` and `Replay` (what a
valid ledger is), `Ledger` (who may change one, and when), `Transfers` over
`Ledger` with the abstract `TransferPromise`, `Contribution` (the protocol with
Cashy, over the guarantees of `Ledger`) with `ContributionMoney`, `BookValue`
(cost of the pools), `AccountLink` with the abstract `LinkPromise`, `Accounts`,
and what the user is shown: `TransferForm` over `Ledger` and `Summaries` over
`BookValue`. A module of theorems follows the module it is about.

Left, most important first:

1. *Money*: the second currency and the flag `hasUnconvertedAmounts`, which
   `BookValue` and `Summaries` leave out.
2. *Accounts*: two users that compete for one address, of which `Accounts` sees
   only that a request may fail.

## 3. Modules

| Module | Models | Lines of the source |
|---|---|---|
| `LedgerRules` | entries and the predicate `validate()` decides | `portfolio-ledger.service.ts` 44-229 |
| `Replay` | the loop that decides it | same, 151-219 |
| `Ledger` | all writers of a goal, in sessions | coordinator, goals, movements, operations, contribution publication, corrections, transfer posting |
| `Transfers` | acceptance and execution of transfers on several servers, extending `Ledger` | `transfers/` |
| `TransferPromise` | what an idempotency key promises | abstract |
| `Contribution` | one contribution, its corrections and Cashy | `integration/contribution-*` |
| `ContributionMoney` | minor units and the conversion of an amount | `contribution-money.ts` |
| `BookValue` | cost of the pools of two goals and the transfers that move it | `cash-projection.ts`, `position-projection.ts`, `cash-` and `crypto-transfers.service.ts` |
| `AccountLink` | the link with Cashy: outbox, cached projection, permissions | `account-link.service.ts` and controller, `contribution-preview.service.ts`, `portfolio.controller.ts` |
| `LinkPromise` | what unlinking promises | abstract |
| `Accounts` | one user, his sessions and the requests about them | `common/auth/` |
| `TransferForm` | what the form offers, extending `Ledger` | `transfer-form.service.ts` |
| `Summaries` | the figures shown of goals and portfolio, extending `BookValue` | `summaries/` |
| `LedgerProof`, `TransfersProof`, `ContributionProof`, `AccountLinkProof`, `AccountsProof`, `ReplayProof`, `TransferFormProof`, `BookValueProof` | theorems and proofs | |
| `MC*` | instances | |

**LedgerRules.** An entry carries its kind, account keys (`platform:currency`,
`platform:ticker`), amounts, date and whether it is linked to Cashy.
`Valid(g, E, requireCash, t)` is the verdict of `validate()` on the entries `E`,
`Revisable` the same with a candidate and an excluded entry and the cutoff at the
goal's transfers. A legacy goal's cash counts only from its first cash transfer.
The set form is legitimate because entries that tie on date and priority move an
account in one direction only; `Replay` checks that for every order of ties, and
`ReplayProof` proves it.

**Ledger.** `session[f]` is the MongoDB session of flow `f`: the goals it read
and as they were at `Begin`. Committing a write of a goal discards every other
open session that read it. MongoDB aborts whichever session *writes* the goal
second; letting the first to *commit* win allows every outcome of that and more
(two sessions may both be ready to commit). `Abandon` stands for every failure
of the callback or of the connection. `Available` is the coordinator's filter,
with its three variants (plain, `settleAccepted`, `finishAdjustment`). Actions
have the names of the service methods; `FinishCorrection` applies the recorded
revision without validation, as `finish()` does. Voided movements leave
`history`: the replay does not read them.

**Transfers.** `rows` is the collection, `request[r]` a POST between its reads and
writes (`Submit` looks the key up, `CountGoals` counts goals and takes the dates,
`Insert` or `Duplicate` meets the unique index), `worker[<<s, i>>]` is the entry of
transfer `i` in the `processing` set of server `s`, with the row as the transaction
saw it. The workers are flows of `Ledger` and use its sessions; `Refuse` and
`Reject` are two steps because the code writes the rejection after the
transaction failed. `Crash` clears a server's memory; its sessions stay until
MongoDB expires them. `OtherStep` lets the rest of the system change the goals.
`TransferPromise` knows nothing of rows, sessions or servers: a key gets terms
once, and posts all sides or none.

**Contribution.** One job, its movement, its corrections, the goal's lock, and
Cashy's record. `drive[d]` follows one call of `drive()` (of the job or of a
correction) from row read to answer to next request; `wire` holds requests that
Cashy has not handled. `Fail` is any error or crash of a drive, after which its
request may be lost or may still arrive (`from = "nobody"`). A ledger
transaction is one step here, which `Ledger` justifies; `sealed` says that a
transfer is dated after the movement, so `validate()` refuses to touch it.
Cashy is *external*: it is modelled from how the code calls it and what it does
with the answers — each action idempotent by contribution or correction id, a
cancellation or rejection recorded even for an id never seen (for that the code
sends the whole input), a correction applied only at the expected revision.

**BookValue.** `Replayed` is the loop of `projectCash` and `projectPositions` over the
sorted entries of a goal: the entry the sort puts last is the last to be applied.
`Pool` is its outcome, units and cost: a leg brings or takes the cost recorded with
it (`book`), a hand-written credit brings `Worth`, any other debit takes its share
of the pool (`Slice`, floored). `Execute` is the body
of `execute()`: it projects the source up to the transfer's date, records
`delivered` with both legs and what the total carries beyond it with the
commission, and, for an asset only, projects both positions to today. `Rewrite`
stands for every hand-written change `validate()` accepts. A ledger transaction is
one step, as in `Contribution`. `InOrder` is a hypothesis on the clients of some
accounts: none of their transfers is executed while an earlier one is pending.
`LegIds` gives the entries of a transfer their place in the order of ids, which
breaks ties of the sort: ids are random, so a later transfer may sort first, but
those of one transfer begin alike, so nothing sorts between them. That what is
written moves a positive number, costs nothing negative and that an account opened
with nothing cost nothing (`CostsAssumption`) is what the DTOs check.

**ContributionMoney.** Rates are integers of a scale, as `toFixed(8)` makes them,
and the arithmetic is exact, as `BigInt` is. `Contribution` uses it on the amount a
contribution or a correction carries, at every rate of `Rates`.

**AccountLink.** `handler[p]` is one request, or the timer, between two awaited
calls; `at` names the call it waits for. `status()` and `authorize()` are parts of
other operations, so `then` says who called them (`Answered`, `Permitted`). The row
of a revocation is `due`, `waiting` (its `nextAttemptAt` lies ahead) or `completed`;
the attempt counter only sets how long it waits. `TellLost` is a request, or its
receipt, that got lost: Cashy may have revoked the link. `Fail` is an exception or
a restart at any point. The timer is one process because of the flag `retrying`.
`late` is a history field, the links with a row when the request began. Cashy is
external; an integration switched off behaves as a Cashy that cannot be reached.
`LinkPromise` knows links only: a link the user leaves ends, and does not come back.

**Accounts.** An action runs from one database call to the next and `read` is the
document loaded. `Saved` is what `user.save()` writes: the fields that differ from
what was loaded, so that two requests may mix their changes in one row. bcrypt
compares 72 bytes, so `refresh()` may or may not tell an older token of a session
from its last one, and both outcomes are there. A code, a link or a session that
expires is one that is not used any more; the address of somebody else only makes
a request fail; the `both` update may stop between the password and the end of the
sessions. `due` is a history variable, set by the block and paid by whatever
writes a password.

**TransferForm** and **Summaries** have no actions: both services read one snapshot
transaction, so what they return is a function of the state, and their properties
compare it with what the actions of `Ledger` and `BookValue` accept and record.
`Summaries` follows the code in projecting each position twice, at what was paid
and at the unit prices, and in showing an overdrawn legacy goal by its rates.

## 4. Runs

| Run | Instance | Shows |
|---|---|---|
| `replay` | 2 goals (one legacy), up to 4 entries, every tie order | `AgreesWithValid`, `BalancesAgree`: the loop decides `Valid` and ends with the balances of the set |
| `ledger` | a legacy and a tracked goal, 2 flows, 1 correction id reused, a contribution of 1 or 2, a purchase and cash transfers with fee that may need it, crypto transfers, pauses, removals, publications | soundness; a pending plan still fits; locks and corrections are paired; nothing but the outcome touches a locked goal; open sessions are current; transfers seal the past of cash and positions and need open goals; deleted goals only receive what was accepted; the form offers and previews exactly the transfers the execution would post |
| `transfers_execution` | 2 requests with one key and two contents (one with a fee), 2 servers with crashes, 1 other writer | one transfer per key, each client gets what it asked or a conflict; all legs or none; the abstract promise, by which what is settled stays so |
| `transfers_liveness` | 2 transfers there and back between two platforms of one goal, the second in need of what the first may have taken, 1 server with crashes, 1 other writer, fairness | each transfer a client keeps asking for is settled, also the one that must be refused |
| `book_kept` | a tracked and a legacy goal, 2 transfers of cash or of either of two positions, with or without commission, one way or back, credits dearer and cheaper than the opening, a debit; the transfers of one position in any order | no history stops projecting, of the position in whatever order it moves; an emptied pool has no cost; the past of a transfer keeps its balances and costs; a summary never fails, its figures add up and account for every cost, and a transfer costs the portfolio its commission and nothing else |
| `book_late_cash` | one contribution without cost, two transfers of half of the cash, any order | **violated**, see 6.1 |
| `book_late_asset` | one dear purchase, two transfers of half the position, any order | **violated**, see 6.2 |
| `contribution_settled` | 2 drives, 2 corrections, amounts 1 and 2, 1 late request | books agree, cancellation is final on both sides, corrections can always finish, settled rows stay settled; the budget pays the nearest amount at three rates |
| `contribution_liveness` | 1 drive, 1 correction, fairness | pending jobs and corrections are resolved |
| `contribution_phantom` | 2 drives, 1 correction | **violated**, see 6.3 |
| `link_outbox` | 1 link, 2 requests (one asks for permissions, one connects, both unlink), the timer, lost receipts and crashes anywhere, fairness | completed means revoked in both; no late permission; approvals wait; every revocation is delivered and the cache corrected; the abstract promise |
| `accounts` | 1 session id, 2 requests with complementary operations, a block after 3 wrong passwords | ended sessions stay ended; a new password, a block or a deactivation ends the old ones; a blocked account is not let in with its old password |

**Bounds.** `MaxTime` caps the clock: two instants give "before", "at" and "after"
a transfer, all the cutoff and the dates compare. `MaxEntries` (4) caps the entry
sets replayed: two entries of one instant plus one on each side. `MaxLate` caps
requests that outlive their drive; one is enough to meet a cancellation, a
second drive or a correction. `Entries` is a small set chosen so that each entry
backs or contradicts another (a contribution corrected from 2 to 1 under a purchase
of 2 or a transfer of 1 with a fee of 1, over an opening of 1). Ids are reused after a document is gone, so histories may
be arbitrarily long. Flows, servers, drives and ids have symmetry where nothing
distinguishes them; liveness runs use none. `Ids` (2) is enough for one transfer
to pass another; `Worth` (5 and 0, for 2 units, against 6 for the 4 units of the
opening, the dearer on either date) makes the cost of a unit rise and fall between two
dates, as a changing or missing rate does. With these amounts every floor loses
something, and a debit written on the date of two transfers sorts between them:
replayed there, it may take another part than when they were executed and leave one
unit of the last decimal behind, which is why `EmptyPoolFree` and the accounting of
`SummaryAddsUp` are about pools with one transfer at a time (`OrderedPools`). So is `CostsProject` of cash: three
transfers on one date, out, in at a lower cost and out again, of which the last
sorts before a debit of that date, may leave a history that stops projecting.
`link_outbox` has one
link: rows of different links meet only where a pending row of any link answers
for all, and the proofs hold for every number. `accounts` has one session, which
suffices for the properties, each about one session at a time, and two requests:
every property is about a save over the change of one other request.
`Quoted` and `OpeningQuoted` differ from what was paid, so the two projections of
`Summaries` do too; its snapshot is checked in every state of
`book_kept`.
Two kinds of run do without the deadlock check: the loop of `Replay` ends, and
`BookValue` may stop when its ids are used and its entries written.

**Fairness.** *Transfers*: nothing in the code takes up pending rows after a crash,
so `Settles` assumes the client retries while the row is pending (the guide tells
it to, `src/docs/INTEGRATION_AND_TRANSFERS.md:57`), and strong fairness of each
worker step: an attempt that conflicts or fails may be repeated, but does not
fail for ever. *Contribution*: the timer (`SF` of the picks: a drive slot is free
again and again), weak fairness of the steps of a drive and of Cashy's answers,
and `<>[]` no failure, that is, outages end. No fairness is assumed of users, of
the lock of other corrections, of revocation or of the calendar.
*AccountLink*: weak fairness of every handler, since the event loop runs it on, and
of the passing of `nextAttemptAt`; strong fairness of the timer's scan, of a
delivery that Cashy hears and of the write after it, that is, not every request is
lost and the server does not stop each time before it notes a receipt.
`ProjectionRefreshed` has a hypothesis of its own: that `status()` is asked for
again and again and answered, as nothing but a `status()` corrects what a slow one
cached. *Accounts* states no liveness: nothing in it happens without the user.

## 5. Proofs

`LedgerProof` proves, for all goals, flows, entries, corrections and clocks, under
the named assumptions of `LedgerRules` and `Ledger`. These type the parameters and
say that no key names both a cash account and a position: `validate()` keeps the
two balances in two maps.

- `TypeCorrect`, `LedgerIsSound` (`[]LedgerSound`), `CorrectionsAreSafe`
  (`[]PlanStillFits`), `LocksStayPaired` and `SessionsStayCurrent`.

None of them is inductive alone. `LedgerSound` needs `PlanStillFits`, because
`finish()` writes without validating; `PlanStillFits` needs `LocksPaired`, because
only the lock keeps other writers from the entries of the plan; and every guard is
evaluated on a snapshot, so all need `SessionsCurrent`. The inductive invariant is
their conjunction with the types, `IInv`, whose parts `ledger` checks.
Time needs a lemma of its own (`ValidLater`: a ledger valid now is valid later)
and `VoidUnpublished`, whose plan is empty, needs `LedgerSound` for its base case.

It also proves the action properties `PastSealed`, `LockedFrozen`,
`DeletedOnlySettles` and `TransfersNeedOpenGoals`. `EveryStepOn` says that a step
keeps the entries of a goal, revises them under the cutoff (and then the goal is
unlocked, and if deleted only gains a contribution), carries out a correction, or
posts legs to an open goal; each property follows by cases. The guards are
evaluated on snapshots and the properties speak of the state of the commit, which
is where `IInv` is used. One more invariant is needed, that no plan writes a leg
(`PlansWriteNoLegs`): an edit keeps the type of the entry it replaces, and the
cutoff keeps legs out of what may be replaced.

`ReplayProof` begins with what the proofs about balances share. A balance is the opening and
the sum of the moves of a finite set of entries, and `MapThenSumSet` picks the order
of the sum. That the order does not matter, that a sum splits, grows by an entry and
is the same for weights that agree, is shown by taking a minimal counterexample
among the subsets of the set: the strict subsets of a finite set are well-founded,
which the library states without an operator parameter. On that rest the facts about
histories: entries that tie with one another move an account in one direction only
(`TiesAgree`), and a ledger is covered if it was before its last entry and that
entry does not overdraw (`CoveredWithLast`).

On it rest `ReplayAgreesWithRules` and `ReplayKeepsTheSums`: for any
entries and any order of ties the loop of `validate()` accepts what `Valid` accepts
and its running balances are the sums. So everything proved of `Ledger` in terms of
`Valid` is about the verdict the code computes. The invariant, `ReplayInv`, says
that what was passed comes before what is left, that every balance is the sum of
what was passed, and that the checks made so far hold *in hindsight*, counting also
the ties that came later. The step that needs an argument is the refusal: if the
loop overdraws at a debit, `Valid` looks at the balance after every tie of that
debit, and the ties still to come cannot credit the account, hence it is overdrawn
there too.

`TransfersProof` proves `TransfersRefineLedger`: `TransfersSpec => Spec`, every
behaviour of requests, workers, retries and crashes is one of `Ledger` or a
stutter; `TransfersKeepLedgersSound` follows. The auxiliary invariant `RowsInv`
says that rows and requests hold intents of `Intents` and dates of the clock, so
that the legs of a worker are legs `PostTransfer` allows. On top of it are proved
`AllLegsOrNone` (`DoubleEntry`: a completed transfer has both legs in the ledgers,
any other none), `KeysAreUnique` (`OneTransferPerKey`), the types, and
`PromiseIsKept`: every behaviour implements `TransferPromise`, in which a key has one
transfer that is posted or rejected once and never again. One leg of an identifier
must not be mistaken for another's: the legs of a transfer are named by its random
identifier and the side (`LegIdsAssumption`). `DoubleEntry` holds in every step
because an edit or a delete cannot replace a leg, a plan writes none
(`PlansWriteNoLegs`), and of the workers that saw a row pending only the first one
to commit can settle it, and it inserts the legs in that same commit. `KeysAreUnique`
needs the same of the identifiers of rows (`RowsApart`), and that a client's answer
stays true (`Answered`).

`TransferFormProof` proves `PreviewsAreKept` (`PreviewKept`): whatever the histories,
a transfer the form offers and previews is one the execution posts, and one it
refuses is refused, under the hypotheses of section 7. Intents move a positive
amount, as `transfer.rules.ts:48` demands. The form compares the amount with one
balance, the execution replays the whole history with the legs. They agree because
the legs are dated now, hence replayed last (`LeavesLast`), only the source account
can be overdrawn by them (`StaysCovered`), and the ledger was sound before, which is
`LedgerIsSound`. Sums are of finite sets only, so `HistoriesFinite` is proved first:
a step adds finitely many entries and a plan holds finitely many.

`BookValueProof` is about the loop over a sorted history, for any goals, transfers,
costs and order of ids. The loop is a recursion over sets, from which the entry that
sorts last is removed; `Run` is it as a function on subsets, and `RunRound` one
round of it. There is no induction over data here: what holds at every point of the
loop is shown by a minimal counterexample among the *segments* of the sorted
entries, the sets that hold with an entry all that sort before it (`Segments`).
What was projected up to a date is a segment, and so is what comes before an entry.

What the histories are is `RecordsInv`. Its part `BookInv` says that an entry was
written by hand or posted by a transfer that completed (`HistoriesExplained`), that
ids are given in the order of the dates (`RowsDated`), and that in ordered accounts
no completed transfer has an earlier one pending (`NoneOvertaken`). The others say
that every leg has a cost recorded, under identifiers no other entry has
(`CostsRecorded`), and that no position and no tracked cash is overdrawn
(`HistoriesCovered`).

- `PastIsKept` (`PastKept`): `Project` asks of `book` only the costs of the entries
  it meets, so the loop is the same for two maps that agree on these
  (`RunAgrees`). A hand-written entry comes after the leg, by the cutoff, and a leg
  posted later is not dated before it. The property leaves out the legs dated at the
  very millisecond of the leg, which may sort before it.
- `CostsStayPayable` (`CostsProject`) and `EmptyPoolsAreFree` (`EmptyPoolFree`). That
  a pool does not fail is not inductive: a new debit could take cost that a later
  leg has recorded. The invariant is `PoolsKept`: in an ordered pool, at every point
  of the loop, only a lack of units makes it fail and no cost is left without units
  (`Good`), and a position never fails. With it a covered history is payable
  (`GoodCovered`). Writing by hand is safe because it happens after the last leg, and
  a debit whose cost is not recorded takes a share of what is there
  (`RoundUnrecorded`). Posting is safe at the destination because it adds, and at the
  source because of `SourceHolds`: what sorts after the legs of a transfer is only
  debits of the same instant, hence where the legs sort the pool holds at least what
  `execute()` saw, and exactly that if no unit more; the parts of the delivered and the
  commission add up to no more than one share of it (`TakenIs`), whichever of the two
  sorts first. Positions whose transfers run in any order never fail because the
  crypto executor projects them again before it commits.
- `SummariesStand` (`SummaryStands`): where the goal's cash runs in order it is not
  overdrawn once a transfer moves some, by the above; and the average costs, in which
  every debit takes a share, fail only where the units do (`AverageStands`).
- `SummariesAddUp` (`SummaryAddsUp`): sums by platform are sums by account
  (`TotalByClass`), the units of the loop are the balance of the ledger
  (`UnitsAreBalance`), and what came in equals what is left, sold and sent at every
  point of the loop (`CostsAlong`). A summary projects to the end of time and the
  ledger to now, so the clock must not pass its bound (`ClockBounded`).
- `PortfolioKeepsValue` (`TransfersKeepValue`): a step that completes a row is its
  execution (`CompletedByExecution`). If the transfer is the last thing to happen to
  its accounts, its legs are the last rounds of both loops, and these change the cost
  by what was recorded (`LastArrives`, `LastLeaves`). An account is shown at the cost
  of its pool, also the cash of a legacy goal shown by its rates until then, which
  was payable before because it is afterwards (`MovedUnspent`). What one account loses
  and another gains is carried through the sums over goals and platforms
  (`PortfolioShift`), and the fees grow by the commission (`FeesShift`).

The hypotheses are the assumptions named in `BookValue` and `Summaries`: both pools of
a transfer are cash or both positions, as the two executors each take, leg ids are as
section 3 says, there are finitely many goals and accounts, and costs are as the DTOs
admit them.

`ContributionProof` proves for any number of drives, corrections and abandoned
requests the types and `BooksAlwaysAgree`, `BudgetAlwaysTakesNearest`,
`CancelledForBoth`, `CorrectionsCanFinish` and the action property
`JobsSettleForGood`. `BooksAgree` is not inductive: a drive that writes does so on
what it was told some steps ago. The invariant `IInv` adds what may be relied on
between two steps: a confirmation, cancellation or applied correction a drive was
told of still stands in Cashy (`DriveSound`); a request on the wire is the one its
drive waits for or nobody's, so a late one cannot be taken for the answer of another
(`RequestSound`); the lock is held from the submission of a correction to its end,
and the correction ends as Cashy decided (`CorrectionSound`); and the books agree but
for what a correction that Cashy applied will still bring (`Books`). Cashy never
takes a decision back, which is why these facts outlive the steps of others. TLC
checked `IInv` on the instance of `contribution_settled` before it was proved.
`ConvertedNearest`, in the same module, is about the money: adding half of the scale
before the division gives the nearest integer, for every amount, rate and scale.

`AccountLinkProof` proves, for any links and requests, the three invariants
`link_outbox` checks, the types, `RevocationsStand` (a row of the outbox is never
removed nor reopened) and `PromiseSafe`, the safety half of the
refinement of `LinkPromise`. What each handler learned from the rows it read has to
be carried along (`Knows`): that a link it will save was active and not recorded
when it asked, that what it is told to settle is revoked. Rows and links only
advance (`Evolves`), so such facts outlive what others do (`KnowsStable`), and each
step is then about the one handler that moves. `Met` says that a recorded or cached
link was active once, without which Cashy could approve a link that Growly is
leaving. `StepOne` bounds what a step may change, and each life of a link follows.

`AccountsProof` proves the types and the three properties of `accounts`, for any
sessions, requests and limit. `BlockedMustChange` follows from a stronger fact, `due =>
account.changeRequired`, which needs that a login that waits for bcrypt loaded a
user who could still log in: then the fields its save writes cannot clear the flag,
however old they are. `OldSessionsEnd` needs that a session is opened under an id
never used.

What is proved for every instance is checked on one instance only, for its mutants:
all of `Ledger` and the form on the small one of `ledger`, and the types of
`AccountLink` and `Accounts` by no run.

Only model-checked: liveness (`Settles`, `PendingSettles`, `CorrectionSettles`,
`PendingDelivered`, `ProjectionRefreshed` and the liveness half of the refinement of
`LinkPromise`), which is out of the prover's reach. Every other property of a passing
run is a theorem.

## 6. Findings

1. **A late cash transfer makes its goal's history unprojectable**
   (`book_late_cash`). The date of a transfer is that of its acceptance
   (`transfers.repository.ts:92`), and `execute()` calls `validate()` without
   candidate, so the cutoff does not apply to its legs: two transfers accepted in
   order and executed in reverse leave the first before the second, although
   retroactive dates are "not admitted" (`INTEGRATION_AND_TRANSFERS.md:46`).
   Balances stay sound (`TransfersKeepLedgersSound`); book value does not. The
   late transfer records cost of the pool as of its own date, which the later one
   already recorded as its own; replaying both, the pool's cost becomes negative at
   the later one and `projectCash` throws (`cash-projection.ts:113`). Every later
   cash transfer from the goal is rejected, and the entries involved are sealed.
   In the counterexample the opening carries cost and a later contribution none
   (written without a rate), so the later transfer took part of the opening's;
   costs in the account's own currency equal its amounts and cannot go wrong this
   way. The summary projects the same history and rethrows the error once the goal
   has cash legs (`summaries.service.ts:244`), so the summary of the goal, of the
   portfolio and what Cashy is shown of it fail from then on. The crypto executor projects both positions to today before it commits
   (`crypto-transfers.service.ts:138-146`) and refuses such a transfer
   (`CostsProject` in `book_kept`, proved as `CostsStayPayable`). The run checks
   `CashProjects`, which is the same of cash without the condition on the order.
2. **A late crypto transfer loses cost** (`book_late_asset`). The check of the
   crypto executor only refuses what goes negative. If the later transfer, executed
   first, divided the position at an average that a dearer purchase had raised, the
   parts of both are too small together rather than too large: in the counterexample
   6 units that cost 11 leave for 5 + 4, and the position has no units and a cost of 2.
   `openPositions` skips it (`summaries.service.ts:615`), so the portfolio loses the
   cost with no sale or fee that accounts for it, and the next purchase takes it
   over, although transfers are described as "con costo contable conservado"
   (`transfers.controller.ts:48`). With transfers in the order of their dates no cost
   is lost (`SummaryAddsUp` in `book_kept`).
3. **A job is confirmed without its movement** (`contribution_phantom`). Drives A
   and B find Cashy's confirmation. B's publication is refused because the goal
   is locked, and B moves the job to `reconciliation-required`; A's `publish()` sees
   a job that is not pending and returns (`contribution-job.service.ts:413`). The
   user reconciles, which makes the job pending; A then completes it as
   `confirmed` (364-368) with no movement in the goal, and nothing publishes it
   later. `submit()` takes that state for damage
   (`contribution-adjustment.service.ts:206-209`).

## 7. Abstractions and what is not modelled

- Amounts are integers, in `BookValue` of the last decimal. Book value is a module
  of its own: the refusals for lack of cost it adds to `Execute` are not guards of
  `PostTransfer`, which may therefore post more than the code does.
- `BookValue` computes one of the two costs (ARS, USD), not the flag
  `hasUnconvertedAmounts`, and only goals that are open and track cash.
- One clock; the skew between servers is not modelled.
- `protectCashyContributionHistory` sets a flag outside the transaction and nothing
  in the ledger reads it.
- `Contribution` abstracts the goal's ledger to `sealed`; a refusal for lack of
  balance leaves the state as it was and is covered by not submitting.
- `AccountLink`: the budget of `allocation()` is defined and sufficient or the request
  stops; the permissions of a link and a paused access are ways to be refused.
- `Accounts`: concurrent wrong passwords may count as one, because each saves the
  count it loaded; no property says otherwise. A login that loaded the old password
  before it changed may open its session after the old ones were ended:
  `OldSessionsEnd` promises only the end of those that existed at the write.
- `TransferForm` compares with the execution under three hypotheses, each something
  the form does not look at: an overdraft of the destination while it is a legacy
  goal (`DestinationReads`), entries dated in the future (`NothingAhead`), and the
  identity of the asset behind a ticker. The refusals for lack of cost are those of
  `BookValue`.
- `Summaries` computes one currency at rates that are always given; percentages,
  names, counts and the order of lists are left out.

**Not modelled.** The asset catalogue is constant data and its migration a script
that is run once by hand; the integration probes and checks are tests against a
database and were read as such; e-mail, logging, health, configuration and
bootstrap are input and output without state transitions.
