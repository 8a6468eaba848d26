-------------------------- MODULE AccountLinkProof --------------------------
(***************************************************************************)
(* The invariants of AccountLink, for every set of links and requests.     *)
(***************************************************************************)
EXTENDS AccountLink, TLAPS

-----------------------------------------------------------------------------
(* What no step undoes.                                                    *)

Evolves ==
  \A l \in Links :
    /\ cashy[l] = "revoked" => cashy'[l] = "revoked"
    /\ cashy[l] = "active" => cashy'[l] \in {"active", "revoked"}
    /\ revocation[l] # "none" => revocation'[l] # "none"
    /\ revocation[l] = "completed" => revocation'[l] = "completed"

\* What a handler learned stays true while it waits.
LEMMA KnowsStable ==
  ASSUME NEW h \in Handler, Knows(h), Evolves
  PROVE  Knows(h)'
BY DEF Knows, Evolves, Recorded, Handler

\* A step of p that leaves its handler as n, with the tables changed by a step
\* that undoes nothing, keeps what every handler knows.
LEMMA PutKnows ==
  ASSUME IInv, NEW p \in Processes, NEW n \in Handler,
         handler' = [handler EXCEPT ![p] = n], Evolves, Knows(n)'
  PROVE  /\ handler' \in [Processes -> Handler]
         /\ \A q \in Processes : Knows(handler[q])'
<1>1. handler \in [Processes -> Handler]
  BY DEF IInv, LinkTypeOK
<1>2. ASSUME NEW q \in Processes, q # p
      PROVE  Knows(handler[q])'
  <2>1. handler[q] \in Handler /\ handler'[q] = handler[q] /\ Knows(handler[q])
    BY <1>1, <1>2 DEF IInv
  <2>2. QED
    BY <2>1, KnowsStable DEF Knows, Recorded, Evolves, Handler
<1>3. handler'[p] = n
  BY <1>1
<1>4. Knows(handler[p])'
  BY <1>3 DEF Knows, Recorded
<1>5. QED
  BY <1>1, <1>2, <1>4

-----------------------------------------------------------------------------
(* Steps that write no row of a revocation and that Cashy does not see.    *)

LEMMA IdleKnows == Idle \in Handler /\ Knows(Idle) /\ Knows(Idle)'
BY LinkAssumption DEF Idle, Handler, Points, Continuations, Knows, Recorded

\* Such a step keeps the invariant when what it writes was met.
LEMMA QuietInv ==
  ASSUME IInv, NEW p \in Processes, NEW n \in Handler, Knows(n),
         Put(p, n), UNCHANGED <<cashy, revocation>>,
         previews' \subseteq Links, projection' \in Links \cup {NoLink},
         projection' \in Links => cashy[projection'] \in {"active", "revoked"}
  PROVE  IInv'
<1>1. Evolves
  BY DEF Evolves
<1>2. Knows(n)'
  BY <1>1, KnowsStable
<1>3. handler' \in [Processes -> Handler] /\ \A q \in Processes : Knows(handler[q])'
  BY <1>1, <1>2, PutKnows DEF Put
<1>4. LinkTypeOK' /\ CompletedIsRevoked' /\ Met'
  BY <1>3 DEF IInv, LinkTypeOK, CompletedIsRevoked, Met, Recorded
<1>5. QED
  BY <1>3, <1>4 DEF IInv

\* A step that writes no table.
LEMMA ReadInv ==
  ASSUME IInv, NEW p \in Processes, NEW n \in Handler, Knows(n),
         Put(p, n), UNCHANGED <<cashy, rows>>
  PROVE  IInv'
BY QuietInv DEF rows, IInv, LinkTypeOK, Met

LEMMA StopInv ==
  ASSUME IInv, NEW p \in Processes, Stop(p), UNCHANGED <<cashy, rows>>
  PROVE  IInv'
BY IdleKnows, ReadInv DEF Stop

\* What a handler does with the answer of status() it may do.
LEMMA AnsweredKnows ==
  ASSUME NEW h \in Handler, Knows(h), NEW state, NEW l \in Links \cup {NoLink},
         state = "online" => l \in Links \ h.late,
         state \in {"online", "offline"} /\ l \in Links =>
           cashy[l] \in {"active", "revoked"}
  PROVE  Answered(h, state, l) \in Handler /\ Knows(Answered(h, state, l))
<1>1. CASE h.then = "return" /\ state = "online"
  <2> DEFINE n == [h EXCEPT !.at = "fresh", !.link = l, !.seen = NoLink]
  <2>1. Answered(h, state, l) = n
    BY <1>1 DEF Answered
  <2>2. n \in Handler
    BY DEF Handler, Points, Continuations
  <2>3. /\ n.at = "fresh" /\ n.then = h.then /\ n.late = h.late /\ n.seen = NoLink
        /\ n.link = l
    BY DEF Handler
  <2>4. Knows(n)
    <3> HIDE DEF n
    <3> QED
      BY <1>1, <2>3, LinkAssumption DEF Knows, Handler
  <2>5. QED
    BY <2>1, <2>2, <2>4
<1>2. CASE h.then = "record" /\ state \in {"online", "offline"} /\ l = h.link
  <2> DEFINE n == [h EXCEPT !.at = "record", !.seen = NoLink]
  <2>1. Answered(h, state, l) = n
    BY <1>2 DEF Answered
  <2>2. n \in Handler
    BY DEF Handler, Points, Continuations
  <2>3. /\ n.at = "record" /\ n.then = h.then /\ n.late = h.late /\ n.seen = NoLink
        /\ n.link = h.link
    BY DEF Handler
  <2>4. Knows(n)
    <3> HIDE DEF n
    <3> QED
      BY <1>2, <2>3, LinkAssumption DEF Knows, Handler
  <2>5. QED
    BY <2>1, <2>2, <2>4
<1>3. CASE h.then = "permit" /\ state = "online"
  <2> DEFINE n == [h EXCEPT !.at = "before?", !.then = "allocation", !.link = l, !.seen = NoLink]
  <2>1. Answered(h, state, l) = n
    BY <1>3 DEF Answered
  <2>2. n \in Handler
    BY DEF Handler, Points, Continuations
  <2>3. /\ n.at = "before?" /\ n.then = "allocation" /\ n.late = h.late /\ n.seen = NoLink
        /\ n.link = l
    BY DEF Handler
  <2>4. Knows(n)
    <3> HIDE DEF n
    <3> QED
      BY <1>3, <2>3, LinkAssumption DEF Knows, Handler
  <2>5. QED
    BY <2>1, <2>2, <2>4
<1>4. CASE h.then = "allocate" /\ state = "online" /\ h.link \in {NoLink, l}
  <2> DEFINE n == [h EXCEPT !.at = "allocate", !.link = l, !.seen = NoLink]
  <2>1. Answered(h, state, l) = n
    BY <1>4 DEF Answered
  <2>2. n \in Handler
    BY DEF Handler, Points, Continuations
  <2>3. /\ n.at = "allocate" /\ n.then = h.then /\ n.late = h.late /\ n.seen = NoLink
        /\ n.link = l
    BY DEF Handler
  <2>4. Knows(n)
    <3> HIDE DEF n
    <3> QED
      BY <1>4, <2>3, LinkAssumption DEF Knows, Handler
  <2>5. QED
    BY <2>1, <2>2, <2>4
<1>5. CASE /\ ~(h.then = "return" /\ state = "online")
           /\ ~(h.then = "record" /\ state \in {"online", "offline"} /\ l = h.link)
           /\ ~(h.then = "permit" /\ state = "online")
           /\ ~(h.then = "allocate" /\ state = "online" /\ h.link \in {NoLink, l})
  BY <1>5, IdleKnows DEF Answered
<1>6. QED
  BY <1>1, <1>2, <1>3, <1>4, <1>5

\* The facts every step of p starts from.
LEMMA HandlerFacts ==
  ASSUME IInv, NEW p \in Processes
  PROVE  /\ handler[p] \in Handler /\ Knows(handler[p])
         /\ PendingLinks \subseteq Recorded /\ Recorded \subseteq Links
BY DEF IInv, LinkTypeOK, PendingLinks, Recorded, Pending

\* A handler may go on to a point whose facts it has established.
LEMMA MoveKnows ==
  ASSUME NEW h \in Handler, Knows(h), NEW point \in Points,
         point = "settle" => h.link \notin Links \/ cashy[h.link] = "revoked",
         point = "blocked?" => h.seen \in Links,
         point = "save" => h.seen \in Links \ h.late,
         point \in {"allocate", "validate", "revoked?", "create"} => h.link \in Links,
         point \in {"create", "summary", "fresh", "granted"} => h.link \notin h.late,
         point = "approve" => \A l \in h.late : revocation[l] = "completed",
         point = "record" /\ h.link \in Links => cashy[h.link] \in {"active", "revoked"}
  PROVE  [h EXCEPT !.at = point] \in Handler /\ Knows([h EXCEPT !.at = point])
<1> DEFINE n == [h EXCEPT !.at = point]
<1>1. n \in Handler
  BY DEF Handler
<1>2. /\ n.at = point /\ n.then = h.then /\ n.late = h.late
        /\ n.seen = h.seen /\ n.link = h.link
  BY DEF Handler
<1>3. Knows(n)
  <2> HIDE DEF n
  <2> QED
    BY <1>2 DEF Knows
<1>4. QED
  BY <1>1, <1>3

\* The points a handler reaches by reading tables or asking Cashy.
LEMMA StepInv ==
  ASSUME IInv, NEW p \in Processes, NEW point \in Points,
         point \notin {"settle", "blocked?", "save", "create", "allocate", "validate",
                      "revoked?", "summary", "fresh", "granted", "approve", "record"},
         Step(p, point), UNCHANGED <<cashy, rows>>
  PROVE  IInv'
BY HandlerFacts, MoveKnows, ReadInv DEF Step

LEMMA StatusInv ==
  ASSUME IInv, NEW p \in Processes,
         \/ CheckPending(p) \/ AskCashy(p) \/ CheckPendingAgain(p)
         \/ CheckBlocked(p) \/ SaveProjection(p) \/ DropProjection(p)
         \/ ReadProjection(p)
  PROVE  IInv'
<1> USE HandlerFacts
<1>1. CASE CheckPending(p)
  <2>1. CASE PendingLinks # {}
    <3>1. PICK l \in PendingLinks : Put(p, Answered(handler[p], "pending", l))
      BY <1>1, <2>1 DEF CheckPending
    <3>2. QED
      BY <1>1, <3>1, AnsweredKnows, ReadInv DEF CheckPending
  <2>2. CASE PendingLinks = {}
    BY <1>1, <2>2, StepInv DEF CheckPending, Points
  <2>3. QED
    BY <2>1, <2>2
<1>2. CASE AskCashy(p)
  <2>1. ASSUME NEW l \in IF Active = {} THEN {NoLink} ELSE Active,
               Put(p, [handler[p] EXCEPT !.at = "again?", !.seen = l])
        PROVE  IInv'
    <3> DEFINE n == [handler[p] EXCEPT !.at = "again?", !.seen = l]
    <3>1. l = NoLink \/ (l \in Links /\ cashy[l] = "active")
      BY <2>1 DEF Active
    <3>2. n \in Handler
      BY <3>1 DEF Handler, Points
    <3>3. /\ n.at = "again?" /\ n.then = handler[p].then
          /\ n.link = handler[p].link /\ n.seen = l /\ n.late = handler[p].late
      BY DEF Handler
    <3>4. Knows(n)
      <4> HIDE DEF n
      <4> QED
        BY <3>1, <3>3, LinkAssumption DEF Knows
    <3>5. QED
      BY <1>2, <2>1, <3>2, <3>4, ReadInv DEF AskCashy
  <2>2. CASE Step(p, "offline")
    BY <1>2, <2>2, StepInv DEF AskCashy, Points
  <2>3. QED
    BY <1>2, <2>1, <2>2 DEF AskCashy
<1>3. CASE CheckPendingAgain(p)
  <2>1. CASE PendingLinks # {}
    <3>1. PICK l \in PendingLinks : Put(p, Answered(handler[p], "pending", l))
      BY <1>3, <2>1 DEF CheckPendingAgain
    <3>2. QED
      BY <1>3, <3>1, AnsweredKnows, ReadInv DEF CheckPendingAgain
  <2>2. CASE PendingLinks = {} /\ handler[p].seen = NoLink
    BY <1>3, <2>2, StepInv DEF CheckPendingAgain, Points
  <2>3. CASE PendingLinks = {} /\ handler[p].seen # NoLink
    <3>1. handler[p].seen \in Links
      BY <2>3 DEF Handler
    <3>2. QED
      BY <1>3, <2>3, <3>1, MoveKnows, ReadInv DEF CheckPendingAgain, Step, Points
  <2>4. QED
    BY <2>1, <2>2, <2>3
<1>4. CASE CheckBlocked(p)
  <2>1. CASE handler[p].seen \in Recorded
    BY <1>4, <2>1, StepInv DEF CheckBlocked, Points
  <2>2. CASE handler[p].seen \notin Recorded
    <3>1. handler[p].seen \in Links \ handler[p].late
      BY <1>4, <2>2 DEF CheckBlocked, At, Knows
    <3>2. QED
      BY <1>4, <2>2, <3>1, MoveKnows, ReadInv DEF CheckBlocked, Step, Points
  <2>3. QED
    BY <2>1, <2>2
<1>5. CASE SaveProjection(p)
  <2> DEFINE l == handler[p].seen
  <2>1. l \in Links \ handler[p].late /\ cashy[l] \in {"active", "revoked"}
    BY <1>5 DEF SaveProjection, At, Knows, Handler
  <2>2. Answered(handler[p], "online", l) \in Handler
        /\ Knows(Answered(handler[p], "online", l))
    BY <2>1, AnsweredKnows
  <2>3. previews' \subseteq Links /\ projection' = l
    BY <1>5 DEF SaveProjection, IInv, LinkTypeOK
  <2>4. QED
    BY <1>5, <2>1, <2>2, <2>3, QuietInv DEF SaveProjection
<1>6. CASE DropProjection(p)
  <2>1. Answered(handler[p], "none", NoLink) \in Handler
        /\ Knows(Answered(handler[p], "none", NoLink))
    BY AnsweredKnows
  <2>2. previews' \subseteq Links /\ projection' = NoLink
    BY <1>6 DEF DropProjection, IInv, LinkTypeOK
  <2>3. QED
    BY <1>6, <2>1, <2>2, QuietInv, LinkAssumption DEF DropProjection
<1>7. CASE ReadProjection(p)
  <2>1. Answered(handler[p], "offline", projection) \in Handler
        /\ Knows(Answered(handler[p], "offline", projection))
    BY AnsweredKnows DEF IInv, LinkTypeOK, Met
  <2>2. QED
    BY <1>7, <2>1, IdleKnows, ReadInv DEF ReadProjection
<1>8. QED
  BY <1>1, <1>2, <1>3, <1>4, <1>5, <1>6, <1>7

-----------------------------------------------------------------------------
(* Reads of the other operations.                                          *)

LEMMA PermitInv ==
  ASSUME IInv, NEW p \in Processes,
         \/ CheckBefore(p) \/ Authorize(p) \/ CheckAfter(p) \/ Allocate(p)
         \/ CheckRevoked(p) \/ ReadSummary(p) \/ Validate(p) \/ Finish(p)
  PROVE  IInv'
<1> USE HandlerFacts
<1> DEFINE h == handler[p]
<1>1. CASE CheckBefore(p)
  BY <1>1, StopInv, StepInv DEF CheckBefore, Points
<1>2. CASE Authorize(p)
  BY <1>2, StopInv, StepInv DEF Authorize, Points
<1>3. CASE CheckAfter(p)
  <2>1. CASE Barred(h.link)
    BY <1>3, <2>1, StopInv DEF CheckAfter
  <2>2. CASE ~Barred(h.link)
    <3>1. h.link \notin h.late
      BY <2>2 DEF Barred, Knows
    <3>2. CASE h.then = "allocation"
      <4> DEFINE n == [h EXCEPT !.at = "pending?", !.then = "allocate"]
      <4>1. n \in Handler /\ Permitted(h) = n
        BY <3>2 DEF Handler, Points, Continuations, Permitted
      <4>2. n.at = "pending?" /\ n.then = "allocate" /\ n.seen = h.seen /\ n.late = h.late
        BY DEF Handler
      <4>3. Knows(n)
        <5> HIDE DEF n
        <5> QED
          BY <4>2 DEF Knows
      <4>4. QED
        BY <1>3, <2>2, <4>1, <4>3, ReadInv DEF CheckAfter
    <3>3. CASE h.then # "allocation"
      <4> DEFINE Go(point) == [h EXCEPT !.at = point]
      <4>1. /\ h.then = "summary" => Permitted(h) = Go("summary")
            /\ h.then = "create" => Permitted(h) = Go("create")
            /\ h.then \notin {"summary", "create"} => Permitted(h) = Go("granted")
        BY <3>3 DEF Permitted
      <4>2. h.then = "create" => h.link \in Links
        BY DEF Knows
      <4>3. /\ Go("summary") \in Handler /\ Knows(Go("summary"))
            /\ h.link \in Links => Go("create") \in Handler /\ Knows(Go("create"))
            /\ Go("granted") \in Handler /\ Knows(Go("granted"))
        BY <3>1, MoveKnows DEF Points
      <4>4. Permitted(h) \in Handler /\ Knows(Permitted(h))
        <5> HIDE DEF Go
        <5> QED
          BY <4>1, <4>2, <4>3
      <4>5. QED
        BY <1>3, <2>2, <4>4, ReadInv DEF CheckAfter
    <3>4. QED
      BY <3>2, <3>3
  <2>3. QED
    BY <2>1, <2>2
<1>4. CASE Allocate(p)
  <2>1. handler[p].link \in Links
    BY <1>4 DEF Allocate, At, Knows
  <2>2. QED
    BY <1>4, <2>1, StopInv, MoveKnows, ReadInv DEF Allocate, Step, Points
<1>5. CASE CheckRevoked(p)
  <2>1. CASE Barred(h.link)
    BY <1>5, <2>1, StopInv DEF CheckRevoked
  <2>2. CASE ~Barred(h.link) /\ h.op = "prepare"
    <3> DEFINE n == [h EXCEPT !.at = "before?", !.then = "create"]
    <3>1. n \in Handler /\ h.link \in Links
      BY <1>5 DEF CheckRevoked, At, Knows, Handler, Points, Continuations
    <3>2. n.at = "before?" /\ n.then = "create" /\ n.link = h.link /\ n.seen = h.seen /\ n.late = h.late
      BY DEF Handler
    <3>3. Knows(n)
      <4> HIDE DEF n
      <4> QED
        BY <3>1, <3>2 DEF Knows
    <3>4. QED
      BY <1>5, <2>2, <3>1, <3>3, ReadInv DEF CheckRevoked
  <2>3. CASE ~Barred(h.link) /\ h.op # "prepare"
    <3>1. h.link \notin h.late
      BY <2>3 DEF Barred, Knows
    <3>2. [h EXCEPT !.at = "granted"] \in Handler /\ Knows([h EXCEPT !.at = "granted"])
      BY <3>1, MoveKnows DEF Points
    <3>3. QED
      BY <1>5, <2>3, <3>2, ReadInv DEF CheckRevoked
  <2>4. QED
    BY <2>1, <2>2, <2>3
<1>6. CASE ReadSummary(p)
  <2> DEFINE n == [h EXCEPT !.at = "before?", !.then = "release"]
  <2>1. n \in Handler
    BY DEF Handler, Points, Continuations
  <2>2. n.at = "before?" /\ n.then = "release" /\ n.link = h.link /\ n.seen = h.seen /\ n.late = h.late
    BY DEF Handler
  <2>3. Knows(n)
    <3> HIDE DEF n
    <3> QED
      BY <2>2 DEF Knows
  <2>4. QED
    BY <1>6, <2>1, <2>3, ReadInv DEF ReadSummary
<1>7. CASE Validate(p)
  <2>1. handler[p].link \in Links
    BY <1>7 DEF Validate, At, Knows
  <2>2. QED
    BY <1>7, <2>1, StopInv, MoveKnows, ReadInv DEF Validate, Step, Points
<1>8. CASE Finish(p)
  BY <1>8, StopInv DEF Finish
<1>9. QED
  BY <1>1, <1>2, <1>3, <1>4, <1>5, <1>6, <1>7, <1>8

LEMMA CreateInv ==
  ASSUME IInv, NEW p \in Processes, CreatePreview(p)
  PROVE  IInv'
<1> USE HandlerFacts
<1>1. CASE previews' = previews \cup {handler[p].link} /\ Step(p, "granted")
  <2>2. handler[p].link \in Links \ handler[p].late
    BY DEF CreatePreview, At, Knows
  <2>3. [handler[p] EXCEPT !.at = "granted"] \in Handler
        /\ Knows([handler[p] EXCEPT !.at = "granted"])
    BY <2>2, MoveKnows DEF Points
  <2>4. previews' \subseteq Links /\ projection' = projection
    BY <1>1, <2>2 DEF CreatePreview, IInv, LinkTypeOK
  <2>5. QED
    BY <1>1, <2>3, <2>4, QuietInv DEF CreatePreview, Step, IInv, LinkTypeOK, Met
<1>2. CASE Stop(p) /\ UNCHANGED previews
  BY <1>2, StopInv DEF CreatePreview, rows
<1>3. QED
  BY <1>1, <1>2 DEF CreatePreview

-----------------------------------------------------------------------------
(* Steps that write the row of a revocation, or change what Cashy knows.   *)

\* What the tables may become.
Sound ==
  /\ Evolves
  /\ cashy' \in [Links -> {"none", "approved", "active", "revoked"}]
  /\ revocation' \in [Links -> {"none", "due", "waiting", "completed"}]
  /\ projection' \in Links \cup {NoLink} /\ previews' \subseteq Links
  /\ CompletedIsRevoked' /\ Met'

LEMMA WriteInv ==
  ASSUME IInv, NEW p \in Processes, NEW n \in Handler, Knows(n)', Put(p, n), Sound
  PROVE  IInv'
<1>1. handler' \in [Processes -> Handler] /\ \A q \in Processes : Knows(handler[q])'
  BY PutKnows DEF Put, Sound
<1>2. QED
  BY <1>1 DEF IInv, LinkTypeOK, Sound

LEMMA EnvironmentInv ==
  ASSUME IInv, Environment
  PROVE  IInv'
<1>1. PICK l \in Links : Activate(l) \/ PeerRevoke(l) \/ Elapse(l) \/ Expire(l)
  BY DEF Environment
<1>2. Sound /\ handler' = handler
  <2>1. CASE Activate(l)
    BY <2>1 DEF Activate, rows, IInv, LinkTypeOK, Sound, Evolves, CompletedIsRevoked, Met, Recorded
  <2>2. CASE PeerRevoke(l)
    BY <2>2 DEF PeerRevoke, rows, IInv, LinkTypeOK, Sound, Evolves, CompletedIsRevoked, Met, Recorded
  <2>3. CASE Elapse(l)
    BY <2>3 DEF Elapse, IInv, LinkTypeOK, Sound, Evolves, CompletedIsRevoked, Met, Recorded
  <2>4. CASE Expire(l)
    BY <2>4 DEF Expire, IInv, LinkTypeOK, Sound, Evolves, CompletedIsRevoked, Met, Recorded
  <2>5. QED
    BY <1>1, <2>1, <2>2, <2>3, <2>4
<1>3. ASSUME NEW q \in Processes
      PROVE  Knows(handler[q])'
  <2>1. handler[q] \in Handler /\ Knows(handler[q]) /\ handler'[q] = handler[q]
    BY <1>2, <1>3 DEF IInv, LinkTypeOK
  <2>2. QED
    BY <1>2, <2>1 DEF Sound, Knows, Recorded, Evolves, Handler
<1>4. QED
  BY <1>2, <1>3 DEF IInv, LinkTypeOK, Sound

\* Whoever delivered a row may go on.
LEMMA DeliveredKnows ==
  ASSUME NEW h \in Handler, Knows(h), NEW n \in Delivered(h)
  PROVE  n \in Handler /\ Knows(n)
<1>1. CASE h.op # "retry"
  <2> DEFINE m == [h EXCEPT !.at = "pending?", !.then = "return"]
  <2>1. n = m
    BY <1>1 DEF Delivered
  <2>2. m \in Handler
    BY DEF Handler, Points, Continuations
  <2>3. m.at = "pending?" /\ m.then = "return" /\ m.late = h.late /\ m.seen = h.seen
    BY DEF Handler
  <2>4. Knows(m)
    <3> HIDE DEF m
    <3> QED
      BY <2>3 DEF Knows
  <2>5. QED
    BY <2>1, <2>2, <2>4
<1>2. CASE h.op = "retry" /\ h.queue = {}
  BY <1>2, IdleKnows DEF Delivered
<1>3. CASE h.op = "retry" /\ h.queue # {}
  <2>1. PICK l \in h.queue : n = [h EXCEPT !.at = "tell", !.link = l, !.queue = @ \ {l}]
    BY <1>3 DEF Delivered
  <2>2. l \in Links /\ n \in Handler
    BY <2>1 DEF Handler, Points
  <2>3. n.at = "tell" /\ n.link = l /\ n.late = h.late /\ n.seen = h.seen
    BY <2>1 DEF Handler
  <2>4. QED
    BY <2>2, <2>3 DEF Knows
<1>4. QED
  BY <1>1, <1>2, <1>3

\* The row of revoke().
LEMMA RowInv ==
  ASSUME IInv, NEW p \in Processes, CheckRow(p) \/ Record(p)
  PROVE  IInv'
<1> USE HandlerFacts
<1> DEFINE h == handler[p]
<1>1. CASE CheckRow(p)
  <2>1. CASE revocation[h.link] \in Pending
    BY <1>1, <2>1, StepInv DEF CheckRow, Step, Points, Pending
  <2>2. CASE revocation[h.link] = "completed"
    BY <1>1, <2>2, StepInv DEF CheckRow, Step, Points, Pending
  <2>3. CASE revocation[h.link] \notin Pending \cup {"completed"}
    <3> DEFINE n == [h EXCEPT !.at = "pending?", !.then = "record"]
    <3>1. n \in Handler
      BY DEF Handler, Points, Continuations
    <3>2. n.at = "pending?" /\ n.then = "record" /\ n.seen = h.seen /\ n.late = h.late
      BY DEF Handler
    <3>3. Knows(n)
      <4> HIDE DEF n
      <4> QED
        BY <3>2 DEF Knows
    <3>4. QED
      BY <1>1, <2>3, <3>1, <3>3, ReadInv DEF CheckRow
  <2>4. QED
    BY <2>1, <2>2, <2>3
<1>2. CASE Record(p)
  <2>1. PICK n \in Handler : n = [h EXCEPT !.at = "tell", !.then = "return"]
    BY DEF Handler, Points, Continuations
  <2>2. n.at = "tell" /\ n.then = "return" /\ n.seen = h.seen /\ n.late = h.late
    BY <2>1 DEF Handler
  <2>3. Knows(n)
    BY <2>2 DEF Knows
  <2>4. h.link \in Links => cashy[h.link] \in {"active", "revoked"}
    BY <1>2 DEF Record, At, Knows
  <2>5. Sound
    BY <1>2, <2>4 DEF Record, Upserted, IInv, LinkTypeOK, Sound, Evolves,
                      CompletedIsRevoked, Met, Recorded
  <2>6. Knows(n)'
    BY <2>1, <2>3, <2>5, KnowsStable DEF Sound
  <2>7. QED
    BY <1>2, <2>1, <2>5, <2>6, WriteInv DEF Record
<1>3. QED
  BY <1>1, <1>2

\* The delivery of a row.
LEMMA DeliveryInv ==
  ASSUME IInv, NEW p \in Processes,
         TellHeard(p) \/ TellLost(p) \/ Settle(p) \/ Forget(p) \/ Postpone(p)
  PROVE  IInv'
<1> USE HandlerFacts
<1> DEFINE h == handler[p]
<1>1. CASE TellHeard(p)
  <2>1. Sound
    BY <1>1 DEF TellHeard, rows, IInv, LinkTypeOK, Sound, Evolves, CompletedIsRevoked, Met, Recorded
  <2>2. PICK n \in Handler, g \in Handler : g = h /\ n = [h EXCEPT !.at = "settle"]
    BY DEF Handler, Points
  <2>3. n.at = "settle" /\ n.then = g.then /\ n.link = g.link /\ n.seen = g.seen /\ n.late = g.late
    BY <2>2 DEF Handler
  <2>4. Knows(g)'
    BY <2>1, <2>2, KnowsStable DEF Sound
  <2>5. n.link \in Links => cashy'[n.link] = "revoked"
    BY <1>1, <2>2, <2>3 DEF TellHeard, IInv, LinkTypeOK
  <2>6. Knows(n)'
    BY <2>3, <2>4, <2>5 DEF Knows, Recorded
  <2>7. QED
    BY <1>1, <2>1, <2>2, <2>6, WriteInv DEF TellHeard, Step
<1>2. CASE TellLost(p)
  <2>1. Sound
    BY <1>2 DEF TellLost, rows, IInv, LinkTypeOK, Sound, Evolves, CompletedIsRevoked, Met, Recorded
  <2>2. PICK n \in Handler : n = [h EXCEPT !.at = "postpone"] /\ Knows(n)
    BY MoveKnows DEF Points
  <2>3. Knows(n)'
    BY <2>1, <2>2, KnowsStable DEF Sound
  <2>4. QED
    BY <1>2, <2>1, <2>2, <2>3, WriteInv DEF TellLost, Step
<1>3. CASE Settle(p)
  <2>1. h.link \in Links => cashy[h.link] = "revoked"
    BY <1>3 DEF Settle, At, Knows
  <2>2. Sound
    BY <1>3, <2>1 DEF Settle, Pending, IInv, LinkTypeOK, Sound, Evolves, CompletedIsRevoked, Met, Recorded
  <2>3. PICK n \in Handler : n = [h EXCEPT !.at = "forget"] /\ Knows(n)
    BY MoveKnows DEF Points
  <2>4. Knows(n)'
    BY <2>2, <2>3, KnowsStable DEF Sound
  <2>5. QED
    BY <1>3, <2>2, <2>3, <2>4, WriteInv DEF Settle, Step
<1>4. CASE Forget(p)
  <2>1. PICK n \in Delivered(h) : Put(p, n)
    BY <1>4 DEF Forget
  <2>2. n \in Handler /\ Knows(n)
    BY DeliveredKnows
  <2>3. /\ projection' \in Links \cup {NoLink} /\ previews' \subseteq Links
        /\ projection' \in Links => cashy[projection'] \in {"active", "revoked"}
    BY <1>4, LinkAssumption DEF Forget, IInv, LinkTypeOK, Met
  <2>4. QED
    BY <1>4, <2>1, <2>2, <2>3, QuietInv DEF Forget
<1>5. CASE Postpone(p)
  <2>1. PICK n \in Delivered(h) : Put(p, n)
    BY <1>5 DEF Postpone
  <2>2. n \in Handler /\ Knows(n)
    BY DeliveredKnows
  <2>3. Sound
    BY <1>5 DEF Postpone, Pending, IInv, LinkTypeOK, Sound, Evolves, CompletedIsRevoked, Met, Recorded
  <2>4. Knows(n)'
    BY <2>2, <2>3, KnowsStable DEF Sound
  <2>5. QED
    BY <2>1, <2>2, <2>3, <2>4, WriteInv
<1>6. QED
  BY <1>1, <1>2, <1>3, <1>4, <1>5

-----------------------------------------------------------------------------
(* The other handlers.                                                     *)

LEMMA ApproveInv ==
  ASSUME IInv, NEW p \in Processes, CheckClear(p) \/ Approve(p)
  PROVE  IInv'
<1> USE HandlerFacts
<1>1. CASE CheckClear(p)
  <2>1. CASE PendingLinks # {}
    BY <1>1, <2>1, StopInv DEF CheckClear
  <2>2. CASE PendingLinks = {}
    <3>1. \A l \in handler[p].late : revocation[l] = "completed"
      BY <2>2 DEF Knows, Recorded, PendingLinks, Pending, IInv, LinkTypeOK
    <3>2. [handler[p] EXCEPT !.at = "approve"] \in Handler
          /\ Knows([handler[p] EXCEPT !.at = "approve"])
      BY <3>1, MoveKnows DEF Points
    <3>3. QED
      BY <1>1, <2>2, <3>2, ReadInv DEF CheckClear, Step
  <2>3. QED
    BY <2>1, <2>2
<1>2. CASE Approve(p)
  <2>1. Sound
    BY <1>2 DEF Approve, rows, IInv, LinkTypeOK, Sound, Evolves, CompletedIsRevoked, Met, Recorded
  <2>2. QED
    BY <1>2, <2>1, IdleKnows, WriteInv DEF Approve, Stop
<1>3. QED
  BY <1>1, <1>2

LEMMA RetryInv ==
  ASSUME IInv, Retry
  PROVE  IInv'
<1> DEFINE h == [Idle EXCEPT !.op = "retry", !.queue = {l \in Links : revocation[l] = "due"}]
<1>1. h \in Handler
  BY LinkAssumption DEF Idle, Handler, Points, Continuations
<1>2. h.at = "idle" /\ h.then = "return" /\ h.late = {} /\ h.seen = NoLink
  BY DEF Idle
<1>3. Knows(h)
  <2> HIDE DEF h
  <2> QED
    BY <1>2, LinkAssumption DEF Knows
<1>4. PICK n \in Delivered(h) : Put(Timer, n) /\ UNCHANGED <<cashy, rows>>
  BY DEF Retry
<1>5. n \in Handler /\ Knows(n)
  BY <1>1, <1>3, <1>4, DeliveredKnows
<1>6. QED
  BY <1>4, <1>5, ReadInv DEF Processes

LEMMA BeginInv ==
  ASSUME IInv, NEW p \in Requests, NEW op \in Operations, NEW l \in Links \cup {NoLink},
         Begin(p, op, l)
  PROVE  IInv'
<1> DEFINE n == [Idle EXCEPT !.op = op, !.at = Entry(op)[1], !.then = Entry(op)[2],
                             !.link = l, !.late = Recorded]
<1>1. /\ Entry(op)[1] \in {"pending?", "row?", "clear?", "before?", "validate"}
      /\ Entry(op)[2] \in {"return", "allocate", "permit", "summary"}
      /\ Entry(op)[1] = "validate" => op = "identity"
  BY DEF Entry, Operations
<1>2. n \in Handler
  BY <1>1 DEF Idle, Handler, Points, Continuations, Recorded
<1>3. /\ n.at = Entry(op)[1] /\ n.then = Entry(op)[2] /\ n.link = l
      /\ n.late = Recorded /\ n.seen = NoLink
  BY DEF Idle
<1>4. op = "identity" => l \in Links
  BY DEF Begin, Named
<1>5. Knows(n)
  <2> HIDE DEF n
  <2> QED
    BY <1>1, <1>3, <1>4, LinkAssumption DEF Knows
<1>6. QED
  BY <1>2, <1>5, ReadInv DEF Begin, Processes

-----------------------------------------------------------------------------
(* The inductive invariant.                                                *)

LEMMA InitInv == Init => IInv
<1> SUFFICES ASSUME Init PROVE IInv
  OBVIOUS
<1>1. LinkTypeOK
  BY IdleKnows DEF Init, LinkTypeOK
<1>2. CompletedIsRevoked /\ Met
  BY LinkAssumption DEF Init, CompletedIsRevoked, Met, Recorded
<1>3. \A p \in Processes : Knows(handler[p])
  BY IdleKnows DEF Init
<1>4. QED
  BY <1>1, <1>2, <1>3 DEF IInv

LEMMA NextInv == IInv /\ [Next]_vars => IInv'
<1> SUFFICES ASSUME IInv, [Next]_vars PROVE IInv'
  OBVIOUS
<1>1. CASE Environment
  BY <1>1, EnvironmentInv
<1>2. CASE Retry
  BY <1>2, RetryInv
<1>3. ASSUME NEW p \in Processes, HandlerStep(p)
      PROVE  IInv'
  BY <1>3, StatusInv, RowInv, DeliveryInv, ApproveInv, PermitInv, CreateInv DEF HandlerStep
<1>4. ASSUME NEW p \in Processes, Fail(p)
      PROVE  IInv'
  BY <1>4, StopInv DEF Fail
<1>5. ASSUME NEW p \in Requests, NEW op \in Operations, NEW l \in Links \cup {NoLink},
             Begin(p, op, l)
      PROVE  IInv'
  BY <1>5, BeginInv
<1>6. CASE UNCHANGED vars
  <2>1. UNCHANGED <<cashy, revocation, projection, previews, handler>>
    BY <1>6 DEF vars
  <2>2. QED
    BY <2>1 DEF IInv, LinkTypeOK, CompletedIsRevoked, Met, Knows, Recorded
<1>7. QED
  BY <1>1, <1>2, <1>3, <1>4, <1>5, <1>6 DEF Next

LEMMA Invariance == Spec => []IInv
BY InitInv, NextInv, PTL DEF Spec

\* The variables of the link keep their types.
THEOREM TypesKept == Spec => []LinkTypeOK
<1>1. IInv => LinkTypeOK
  BY DEF IInv
<1>2. QED
  BY <1>1, Invariance, PTL

\* A revocation is completed only once Cashy revoked the link, for any number
\* of requests and however the timer interleaves with them.
THEOREM CompletionsTrue == Spec => []CompletedIsRevoked
<1>1. IInv => CompletedIsRevoked
  BY DEF IInv
<1>2. QED
  BY <1>1, Invariance, PTL

\* Nobody who asks after the user unlinked gets a permission of that link or
\* hears that it is live.
THEOREM LateRefusedAlways == Spec => []LateRefused
<1>1. IInv => LateRefused
  BY DEF IInv, LateRefused, At, Knows
<1>2. QED
  BY <1>1, Invariance, PTL

\* No link is approved past a revocation that was pending at the start.
THEOREM ApprovalsWait == Spec => []ApprovalWaits
<1>1. IInv => ApprovalWaits
  BY DEF IInv, ApprovalWaits, At, Knows, PendingLinks, Pending
<1>2. QED
  BY <1>1, Invariance, PTL

-----------------------------------------------------------------------------
(* Steps.                                                                  *)

\* A step writes one table about one link at most.
One ==
  \/ UNCHANGED <<cashy, revocation>>
  \/ \E l \in Links, c \in {"approved", "active", "revoked"} :
       cashy' = [cashy EXCEPT ![l] = c] /\ UNCHANGED revocation
  \/ \E l \in Links, r \in {"due", "waiting", "completed"} :
       revocation' = [revocation EXCEPT ![l] = r] /\ UNCHANGED cashy

LEMMA StepOne == IInv /\ [Next]_vars => Evolves /\ One
<1> SUFFICES ASSUME IInv, [Next]_vars PROVE Evolves /\ One
  OBVIOUS
<1>1. ASSUME UNCHANGED <<cashy, revocation>>
      PROVE  Evolves /\ One
  BY <1>1 DEF Evolves, One
<1> USE DEF IInv, LinkTypeOK
<1>2. CASE Environment
  <2>1. PICK l \in Links : Activate(l) \/ PeerRevoke(l) \/ Elapse(l) \/ Expire(l)
    BY <1>2 DEF Environment
  <2>2. CASE Activate(l) \/ PeerRevoke(l)
    BY <2>2 DEF Activate, PeerRevoke, rows, Evolves, One
  <2>3. CASE Elapse(l)
    BY <2>3 DEF Elapse, Evolves, One
  <2>4. CASE Expire(l)
    BY <1>1, <2>4 DEF Expire
  <2>5. QED
    BY <2>1, <2>2, <2>3, <2>4
<1>3. CASE Retry
  BY <1>1, <1>3 DEF Retry, rows
<1>4. ASSUME NEW p \in Processes, HandlerStep(p)
      PROVE  Evolves /\ One
  <2> DEFINE l == handler[p].link
  <2>1. CASE TellHeard(p) \/ TellLost(p)
    <3>1. /\ cashy' \in {cashy, [cashy EXCEPT ![l] = "revoked"]}
          /\ UNCHANGED revocation
      BY <2>1 DEF TellHeard, TellLost, rows
    <3>2. l \notin Links => UNCHANGED cashy
      BY <3>1
    <3>3. QED
      BY <1>1, <3>1, <3>2 DEF Evolves, One
  <2>2. CASE Approve(p)
    <3>1. /\ UNCHANGED revocation
          /\ UNCHANGED cashy \/ (cashy[l] = "none" /\ cashy' = [cashy EXCEPT ![l] = "approved"])
      BY <2>2 DEF Approve, rows
    <3>2. l \notin Links => UNCHANGED cashy
      BY <3>1
    <3>3. QED
      BY <1>1, <3>1, <3>2 DEF Evolves, One
  <2>3. CASE Record(p) \/ Settle(p) \/ Postpone(p)
    <3>1. /\ UNCHANGED cashy
          /\ \/ revocation' = [revocation EXCEPT ![l] = Upserted(@)]
             \/ revocation' = [revocation EXCEPT ![l] = IF @ \in Pending THEN "completed" ELSE @]
             \/ revocation' = [revocation EXCEPT ![l] = IF @ \in Pending THEN "waiting" ELSE @]
      BY <2>3 DEF Record, Settle, Postpone
    <3>2. l \notin Links => UNCHANGED revocation
      BY <3>1
    <3>3. ASSUME l \in Links
          PROVE  \/ UNCHANGED revocation
                 \/ /\ revocation[l] # "completed"
                    /\ \E r \in {"due", "waiting", "completed"} :
                         revocation' = [revocation EXCEPT ![l] = r]
      BY <3>1, <3>3 DEF Upserted, Pending
    <3>4. QED
      BY <1>1, <3>1, <3>2, <3>3 DEF Evolves, One
  <2>4. CASE CheckPending(p) \/ AskCashy(p) \/ CheckPendingAgain(p) \/ CheckBlocked(p)
             \/ SaveProjection(p) \/ DropProjection(p) \/ ReadProjection(p)
    BY <1>1, <2>4 DEF CheckPending, AskCashy, CheckPendingAgain, CheckBlocked,
                      SaveProjection, DropProjection, ReadProjection, rows
  <2>5. CASE CheckRow(p) \/ Forget(p) \/ CheckClear(p) \/ CheckBefore(p) \/ Authorize(p)
             \/ CheckAfter(p) \/ Allocate(p)
    BY <1>1, <2>5 DEF CheckRow, Forget, CheckClear, CheckBefore, Authorize, CheckAfter,
                      Allocate, rows
  <2>6. CASE CheckRevoked(p) \/ CreatePreview(p) \/ ReadSummary(p) \/ Validate(p) \/ Finish(p)
    BY <1>1, <2>6 DEF CheckRevoked, CreatePreview, ReadSummary, Validate, Finish, rows
  <2>7. QED
    BY <1>4, <2>1, <2>2, <2>3, <2>4, <2>5, <2>6 DEF HandlerStep
<1>5. ASSUME NEW p \in Processes, Fail(p)
      PROVE  Evolves /\ One
  BY <1>1, <1>5 DEF Fail, rows
<1>6. ASSUME NEW p \in Requests, NEW op \in Operations, NEW l \in Links \cup {NoLink},
             Begin(p, op, l)
      PROVE  Evolves /\ One
  BY <1>1, <1>6 DEF Begin, rows
<1>7. CASE UNCHANGED vars
  BY <1>1, <1>7 DEF vars
<1>8. QED
  BY <1>2, <1>3, <1>4, <1>5, <1>6, <1>7 DEF Next

\* The outbox never loses a row nor makes a completed one pending again.
THEOREM RevocationsAlwaysStand == Spec => RevocationsStand
<1>1. IInv /\ [Next]_vars =>
        [\A l \in Links :
           /\ revocation[l] # "none" => revocation'[l] # "none"
           /\ revocation[l] = "completed" => revocation'[l] = "completed"]_vars
  BY StepOne DEF Evolves
<1>2. QED
  BY <1>1, Invariance, PTL DEF Spec, RevocationsStand

\* The link as its users see it.
Lives == [l \in Links |-> Life(l)]

LEMMA LifeStep ==
  ASSUME IInv, IInv', Evolves, One
  PROVE  [Promise!Next]_Lives
<1> USE DEF IInv, LinkTypeOK
<1> DEFINE Only(l) == Lives' = [Lives EXCEPT ![l] = Life(l)']
<1>1. CASE UNCHANGED <<cashy, revocation>>
  BY <1>1 DEF Lives, Life
<1>2. ASSUME NEW l \in Links, NEW c \in {"approved", "active", "revoked"},
             cashy' = [cashy EXCEPT ![l] = c], UNCHANGED revocation
      PROVE  [Promise!Next]_Lives
  <2>1. \A k \in Links \ {l} : Life(k)' = Life(k)
    BY <1>2 DEF Life
  <2>2. Only(l)
    BY <2>1 DEF Lives
  <2>3. Lives[l] = Life(l)
    BY DEF Lives
  <2>4. CASE Life(l)' = Life(l)
    BY <2>1, <2>4 DEF Lives
  <2>5. CASE Life(l)' # Life(l)
    <3>1. cashy'[l] = c /\ revocation'[l] = revocation[l] /\ c # cashy[l]
      BY <1>2, <2>5 DEF Life
    <3>2. revocation[l] # "none" => cashy[l] = "active"
      BY <3>1 DEF Met, Recorded, Evolves
    <3>3. \/ Life(l) = "absent" /\ Life(l)' \in {"linked", "ended"}
          \/ Life(l) \in {"linked", "leaving"} /\ Life(l)' = "ended"
      BY <2>5, <3>1, <3>2 DEF Life, Evolves
    <3>4. QED
      BY <2>2, <2>3, <3>3 DEF Promise!Next, Promise!Connect, Promise!End,
                              Promise!EndByCashy, Promise!Become, Lives
  <2>6. QED
    BY <2>4, <2>5
<1>3. ASSUME NEW l \in Links, NEW r \in {"due", "waiting", "completed"},
             revocation' = [revocation EXCEPT ![l] = r], UNCHANGED cashy
      PROVE  [Promise!Next]_Lives
  <2>1. \A k \in Links \ {l} : Life(k)' = Life(k)
    BY <1>3 DEF Life
  <2>2. Only(l)
    BY <2>1 DEF Lives
  <2>3. Lives[l] = Life(l)
    BY DEF Lives
  <2>4. CASE Life(l)' = Life(l)
    BY <2>1, <2>4 DEF Lives
  <2>5. CASE Life(l)' # Life(l)
    <3>1. Life(l) = "linked" /\ Life(l)' = "leaving"
      BY <1>3, <2>5 DEF Life
    <3>2. QED
      BY <2>2, <2>3, <3>1 DEF Promise!Next, Promise!Leave, Promise!Become, Lives
  <2>6. QED
    BY <2>4, <2>5
<1>4. QED
  BY <1>1, <1>2, <1>3 DEF One

\* The outbox implements the promise of LinkPromise, its liveness apart: in
\* every step a link only connects, is left, or ends.
THEOREM PromiseSafe == Spec => Promise!Init /\ [][Promise!Next]_Lives
<1>1. Init => Promise!Init
  BY DEF Init, Promise!Init, Life
<1>2. IInv /\ IInv' /\ [Next]_vars => [Promise!Next]_Lives
  BY StepOne, LifeStep
<1>3. QED
  BY <1>1, <1>2, Invariance, PTL DEF Spec
=============================================================================
