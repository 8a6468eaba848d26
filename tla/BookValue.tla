----------------------------- MODULE BookValue -----------------------------
(***************************************************************************)
(* The book value of the pools of a goal (projectCash, projectPositions)   *)
(* and what transfers do to it.  A transfer records the part of the cost   *)
(* it moves with its legs; every other debit takes its part again at each  *)
(* replay.  ARS and USD costs are computed alike: one of them stands here. *)
(* A ledger transaction is one step (module Ledger).                       *)
(***************************************************************************)
EXTENDS LedgerRules, Folds

CONSTANTS
  Terms,        \* what transfers may ask for
  Ids,          \* ids of transfers, in the order of their acceptance
  LegIds,       \* ids of the entries of each transfer, by side, in any order
  Worth,        \* cost of each hand-written credit: its amount times its rate
  OpeningCost,  \* cost of the opening balances
  InOrder,      \* accounts whose transfers run in the order of their dates
  MaxTime       \* bound on the clock

VARIABLES
  history,      \* entries of each goal
  book,         \* bookValue of each posted leg, by id
  rows,         \* the transfers collection
  now

bookVars == <<history, book, rows, now>>

Pools == Goals \X (CashAccounts \cup Positions)

ASSUME BookAssumption ==
  /\ Ids \subseteq Nat /\ EntryIds \subseteq Nat
  /\ InOrder \subseteq CashAccounts \cup Positions /\ MaxTime \in Nat \ {0}
  /\ \A terms \in Terms :
       /\ terms.source \in Pools /\ terms.destination \in Pools
       /\ terms.source # terms.destination
       /\ terms.source[2] \in CashAccounts <=> terms.destination[2] \in CashAccounts
       /\ terms.units \in Nat \ {0} /\ terms.fee \in Nat

\* The DTOs refuse amounts and quantities below 0.00000001 and moneyUnits()
\* what is negative; an account opened with nothing cost nothing.
ASSUME CostsAssumption ==
  /\ Worth \in [EntryIds -> Nat]
  /\ OpeningCost \in [Goals -> [CashAccounts \cup Positions -> Nat]]
  /\ \A p \in Pools : Opening[p[1]][p[2]] = 0 => OpeningCost[p[1]][p[2]] = 0
  /\ \A e \in Entries :
       /\ e.type \in MovementTypes \cup OperationTypes => e.amount > 0
       /\ e.type \in OperationTypes => e.quantity > 0

\* The sides of a transfer, each with an entry of its own.
AllSides == {"source", "destination", "commission"}

\* An entry's id is that of its transfer (a randomUUID), a colon and its side, so
\* nothing sorts between the legs of one; documents that are no legs have an
\* ObjectId.
ASSUME LegIdsAssumption ==
  /\ LegIds \in [Ids -> [AllSides -> EntryIds]]
  /\ \A i, j \in Ids, a, b \in AllSides : LegIds[i][a] = LegIds[j][b] => i = j /\ a = b
  /\ \A e \in Entries, i \in Ids, side \in AllSides : e.id # LegIds[i][side]
  /\ \A i \in Ids : \A id \in EntryIds \ {LegIds[i][side] : side \in AllSides} :
       \A a, b \in AllSides : id < LegIds[i][a] <=> id < LegIds[i][b]

-----------------------------------------------------------------------------
(* Projection.                                                             *)

IsCash(k) == k \in CashAccounts

Size(k, e) == IF IsCash(k) THEN e.amount ELSE e.quantity

CreditsTo(k, E) ==
  {e \in E : IF IsCash(k) THEN e.cash = k /\ e.type \in CashCredits
             ELSE e.asset = k /\ e.type \in AssetCredits}

DebitsFrom(k, E) ==
  {e \in E : IF IsCash(k) THEN e.cash = k /\ e.type \in CashDebits
             ELSE e.asset = k /\ e.type \in AssetDebits}

\* sliceBookValue: the part of the pool's cost that n units carry.
Slice(pool, n) == IF pool.units = 0 THEN 0 ELSE (pool.cost * n) \div pool.units

Before(d, e) ==
  \/ d.at < e.at
  \/ d.at = e.at /\ Priority(d) < Priority(e)
  \/ d.at = e.at /\ Priority(d) = Priority(e) /\ d.id < e.id

\* The entry that the sort puts last: the order is total, as ids differ.
Latest(E) == CHOOSE e \in E : \A d \in E \ {e} : Before(d, e)

\* The loop over the entries in the order of the sort.
Replayed(Step(_, _), start, E) ==
  MapThenFoldSet(LAMBDA e, acc : Step(acc, e), start, LAMBDA e : e, Latest, E)

\* One round of the loop; a pool that went below zero throws.
Project(k, values, pool, e) ==
  LET sign == IF e \in CreditsTo(k, {e}) THEN 1 ELSE -1
      cost == IF e.id \in DOMAIN values THEN values[e.id]
              ELSE IF sign = 1 THEN Worth[e.id] ELSE Slice(pool, Size(k, e))
      units == pool.units + sign * Size(k, e)
      left  == pool.cost + sign * cost
  IN IF pool.fails THEN pool
     ELSE [units |-> units, cost |-> left, fails |-> units < 0 \/ left < 0]

\* The entries that count for k.
Own(k, E) == CreditsTo(k, E) \cup DebitsFrom(k, E)

Opened(p) ==
  [units |-> Opening[p[1]][p[2]], cost |-> OpeningCost[p[1]][p[2]], fails |-> FALSE]

\* The pool <<g, k>> as projected from the entries E of g up to a date.
Pool(p, E, values, until) ==
  Replayed(LAMBDA pool, e : Project(p[2], values, pool, e), Opened(p),
           {e \in Own(p[2], E) : e.at <= until})

\* Cash is projected for all accounts of the goal at once, an asset alone.
Projected(p, E, values, until) ==
  {Pool(q, E, values, until) :
     q \in {p} \cup {q \in {p[1]} \X CashAccounts : IsCash(p[2])}}

-----------------------------------------------------------------------------

BookInit ==
  /\ history = [g \in Goals |-> {}]
  /\ book = [i \in {} |-> 0]
  /\ rows = {}
  /\ now = 1

Written(e) == e.type \in MovementTypes \cup OperationTypes

\* Mutant of Sealed: entries may be written before a transfer.
SealedNever(g, removed, added) == TRUE

Sealed(g, removed, added) ==
  \A e \in removed \cup added : AfterTransfers(history[g], e)

\* Movements and operations written, changed or removed by hand.
Rewrite(g, removed, added) ==
  /\ removed \cup added # {} /\ removed \subseteq history[g]
  /\ \A e \in removed \cup added : Written(e)
  /\ \A e \in added : \A h \in Goals : \A d \in history[h] \ removed : d.id # e.id
  /\ Sealed(g, removed, added)
  /\ Valid(g, (history[g] \ removed) \cup added, FALSE, now)
  /\ history' = [history EXCEPT ![g] = (@ \ removed) \cup added]
  /\ UNCHANGED <<book, rows, now>>

\* TransfersRepository.accept: the date of the transfer is that of its row.
Accept(i, terms) ==
  /\ \A row \in rows : row.id < i
  /\ rows' = rows \cup {[id |-> i, terms |-> terms, at |-> now, status |-> "pending"]}
  /\ UNCHANGED <<history, book, now>>

LegId(row, side) == LegIds[row.id][side]

Leg(row, side, type, p, n) ==
  [id |-> LegId(row, side), type |-> type,
   cash |-> IF IsCash(p[2]) THEN p[2] ELSE CHOOSE k \in CashAccounts : TRUE,
   asset |-> IF IsCash(p[2]) THEN CHOOSE k \in Positions : TRUE ELSE p[2],
   amount |-> IF IsCash(p[2]) THEN n ELSE 0,
   quantity |-> IF IsCash(p[2]) THEN 0 ELSE n,
   at |-> row.at, cashy |-> FALSE]

\* The entries of the source: what is delivered and the commission.
Leaving(row) ==
  LET t == row.terms
      cash == IsCash(t.source[2])
      fee == Leg(row, "commission", IF cash THEN "cash_fee" ELSE "asset_fee", t.source, t.fee)
  IN {Leg(row, "source", IF cash THEN "cash_out" ELSE "asset_out", t.source, t.units)}
       \cup (IF t.fee = 0 THEN {} ELSE {fee})

Arriving(row) ==
  {Leg(row, "destination", IF IsCash(row.terms.source[2]) THEN "cash_in" ELSE "asset_in",
       row.terms.destination, row.terms.units)}

\* The entries of each goal with those of the transfer.
Posted(row) ==
  [g \in Goals |->
     history[g] \cup (IF g = row.terms.source[1] THEN Leaving(row) ELSE {})
                \cup (IF g = row.terms.destination[1] THEN Arriving(row) ELSE {})]

SourcePool(row) ==
  Pool(row.terms.source, history[row.terms.source[1]], book, row.at)

\* Mutant of Commission: its own part of the pool, rounded on its own.
CommissionApart(pool, t) == Slice(pool, t.fee)

\* The commission takes what the total carries beyond the delivered part.
Commission(pool, t) == Slice(pool, t.units + t.fee) - Slice(pool, t.units)

Sides(row) == IF row.terms.fee = 0 THEN AllSides \ {"commission"} ELSE AllSides

\* The costs recorded with the legs of a transfer.
Recorded(row, delivered, received) ==
  LET cost == [source |-> delivered, destination |-> received,
               commission |-> Commission(SourcePool(row), row.terms)]
  IN [i \in DOMAIN book \cup {LegId(row, side) : side \in Sides(row)} |->
        IF i \in DOMAIN book THEN book[i]
        ELSE cost[CHOOSE side \in AllSides : i = LegId(row, side)]]

\* Mutant of BookOf: what arrives is also charged the commission's cost.
BookOfWhole(row) ==
  LET t == row.terms
      pool == SourcePool(row)
  IN Recorded(row, Slice(pool, t.units), Slice(pool, t.units + t.fee))

BookOf(row) ==
  LET delivered == Slice(SourcePool(row), row.terms.units)
  IN Recorded(row, delivered, delivered)

\* The pools execute() projects up to the date of the transfer: sourcePool()
\* for cash, both ends for an asset.
Read(row) ==
  IF IsCash(row.terms.source[2]) THEN {row.terms.source}
  ELSE {row.terms.source, row.terms.destination}

\* Mutant of StillProjects: an asset's history is not projected again.
StillProjectsUnread(row) == TRUE

\* CryptoTransfersService projects the whole history of both positions again
\* with the new entries; CashTransfersService does not.
StillProjects(row) ==
  ~IsCash(row.terms.source[2]) =>
    \A p \in Read(row) : ~Pool(p, Posted(row)[p[1]], BookOf(row), now).fails

Acceptable(row) ==
  LET t == row.terms
  IN /\ \A p \in Read(row) :
          /\ StartDate[p[1]] <= row.at
          /\ \A pool \in Projected(p, history[p[1]], book, row.at) : ~pool.fails
     /\ t.units + t.fee <= SourcePool(row).units
     /\ \A g \in {t.source[1], t.destination[1]} :
          /\ Valid(g, history[g], IsCash(t.source[2]), now)
          /\ Valid(g, Posted(row)[g], IsCash(t.source[2]), now)
     /\ StillProjects(row)

\* The clients of some accounts wait for one transfer before the next.
Turn(row) ==
  {row.terms.source[2], row.terms.destination[2]} \cap InOrder # {} =>
    \A r \in rows : r.id < row.id => r.status # "pending"

Settle(row, status) ==
  rows' = (rows \ {row}) \cup {[row EXCEPT !.status = status]}

\* TransferExecutionService.execute
Execute(row) ==
  /\ row.status = "pending" /\ Turn(row) /\ Acceptable(row)
  /\ history' = Posted(row)
  /\ book' = BookOf(row)
  /\ Settle(row, "completed")
  /\ UNCHANGED now

Reject(row) ==
  /\ row.status = "pending" /\ Turn(row) /\ ~Acceptable(row)
  /\ Settle(row, "rejected")
  /\ UNCHANGED <<history, book, now>>

Tick ==
  /\ now < MaxTime
  /\ now' = now + 1
  /\ UNCHANGED <<history, book, rows>>

RewriteStep(g) ==
  \/ \E e \in Entries : Rewrite(g, {}, {e}) \/ Rewrite(g, {e}, {})
  \/ \E old, new \in Entries : old # new /\ old.id = new.id /\ Rewrite(g, {old}, {new})

BookNext ==
  \/ \E g \in Goals : RewriteStep(g)
  \/ \E i \in Ids, terms \in Terms : Accept(i, terms)
  \/ \E row \in rows : Execute(row) \/ Reject(row)
  \/ Tick

BookSpec == BookInit /\ [][BookNext]_bookVars

-----------------------------------------------------------------------------
(* Properties.                                                             *)

\* The cash of a legacy goal may be overdrawn until a transfer moves some of it.
Tracked(p) == IsCash(p[2]) => TracksCash(p[1], history[p[1]])

\* The pools whose transfers run in the order of their dates, one at a time.
OrderedPools ==
  {p \in Goals \X InOrder :
     \A r, s \in rows :
       p \in {r.terms.source, r.terms.destination} \cap {s.terms.source, s.terms.destination}
         /\ r.at = s.at => r = s}

\* No pool ever has a negative quantity or cost when its history is projected
\* to today: recorded costs must still be there when they are replayed.  A pool
\* that had would refuse every later transfer.  Of positions this is so in
\* whatever order transfers run, of cash where they run in that of their dates.
CostsProject ==
  \A p \in OrderedPools \cup (Goals \X Positions) :
    Tracked(p) => ~Pool(p, history[p[1]], book, now).fails

\* The same of all cash: what it costs to give a transfer, executed late, the
\* date of its acceptance, although retroactive dates are "not admitted"
\* (INTEGRATION_AND_TRANSFERS.md).
CashProjects ==
  \A p \in Goals \X CashAccounts :
    Tracked(p) => ~Pool(p, history[p[1]], book, now).fails

\* A pool emptied of units is emptied of cost: rounding and commissions leave
\* nothing behind to be taken for the cost of what enters later.
EmptyPoolFree ==
  \A p \in OrderedPools :
    LET pool == Pool(p, history[p[1]], book, now)
    IN pool.units = 0 => pool.cost = 0

OwnLegs(p) == {e \in Own(p[2], history[p[1]]) : e.type \in LegTypes}

\* What a pool held and had cost at a transfer of its own is never restated (the
\* past of a transfer "conserva sus saldos y costos contables"), where transfers
\* run in the order of their dates.
PastKept ==
  [][\A p \in Goals \X InOrder : \A leg \in OwnLegs(p) :
       (\A e \in history'[p[1]] \ history[p[1]] : e.at # leg.at) =>
         Pool(p, history'[p[1]], book', leg.at) = Pool(p, history[p[1]], book, leg.at)]_bookVars
=============================================================================
