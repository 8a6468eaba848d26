---------------------------- MODULE TransferForm ----------------------------
(***************************************************************************)
(* What the transfer form offers (TransferFormService): the sources a goal *)
(* can transfer from, the goals it can transfer to, and the preview of one *)
(* transfer.  It reads one snapshot and computes what is available by      *)
(* itself: the execution validates whole histories instead.                *)
(***************************************************************************)
EXTENDS Ledger

\* The rows both projections keep: nothing dated after the consultation.
Happened(g) == {e \in history[g] : e.at <= now}

\* One account that goes below zero and the form offers no cash at all.
CashProjects(g) == CashCovered(g, Happened(g))

AvailableCash(g, k) ==
  IF CashProjects(g) THEN CashBalance(g, k, Happened(g)) ELSE 0

AvailablePosition(g, k) == PositionBalance(g, k, Happened(g))

\* The sources are emptied unless the goal is active, available and started.
CanSend(g) ==
  /\ goal[g].status = "active"
  /\ goal[g].lock = NoLock
  /\ StartDate[g] <= now

Found(g) == goal[g].status # "absent" /\ ~goal[g].deleted

Sources(g) ==
  {s \in {[account |-> k, units |-> AvailableCash(g, k)] : k \in CashAccounts}
           \cup {[account |-> k, units |-> AvailablePosition(g, k)] : k \in Positions} :
     Found(g) /\ CanSend(g) /\ s.units > 0}

Destinations ==
  {g \in Goals : Found(g) /\ goal[g].status = "active"
                   /\ goal[g].lock = NoLock /\ StartDate[g] <= now}

Units(leg) == IF leg.type \in CashLegs THEN leg.amount ELSE leg.quantity

\* Mutant of Debit: the commission is not part of what leaves the source.
DebitWithoutFee(leaves, fees) == Units(leaves)

Debit(leaves, fees) == Units(leaves) + MapThenSumSet(Units, fees)

\* preview() of a transfer that would be made now.
Previewed(src, dst, leaves, fees) ==
  /\ dst \in Destinations
  /\ \E s \in Sources(src) :
       s.account = Account(leaves) /\ Debit(leaves, fees) <= s.units

-----------------------------------------------------------------------------
(* Properties.                                                             *)

\* The goals as a session opened now reads them.
Seen(src, dst) == [g \in {src, dst} |-> [doc |-> goal[g], entries |-> history[g]]]

\* The intents of the form: a transfer of something made now, with or without a
\* commission.
Intents ==
  {i \in [leaves : Entries, arrives : Entries,
          fees : {{}} \cup {{fee} : fee \in Entries}] :
     /\ i.leaves.at = now /\ LegsOf(i.leaves, i.arrives, i.fees)
     /\ Units(i.leaves) > 0
     /\ \A leg \in {i.leaves, i.arrives} \cup i.fees : Fresh(leg)}

\* What the destination's history may hold against a transfer and the form does
\* not look at: an overdraft of a legacy goal, an entry dated in the future.
DestinationReads(dst, leaves) ==
  leaves.type = "cash_out" => CashCovered(dst, history[dst])

NothingAhead(g) == \A e \in history[g] : e.at <= now

\* The form and the execution agree on every transfer made now: what execute()
\* would post is offered and previewed, and what preview() accepts is posted if
\* nothing happens in between, although one computes the balances of today and
\* filters on the goals and the other replays two histories twice.
PreviewKept ==
  \A src, dst \in Goals : \A i \in Intents :
    LET posted == Postable(Seen(src, dst), src, dst, i.leaves, i.arrives, i.fees, now)
    IN /\ src # dst \/ Account(i.leaves) # Account(i.arrives)
       /\ StartDate[dst] <= now /\ NothingAhead(src) /\ NothingAhead(dst)
       /\ DestinationReads(dst, i.leaves)
       => (posted <=> Previewed(src, dst, i.leaves, i.fees))
=============================================================================
