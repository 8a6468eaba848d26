---------------------------- MODULE AccountsProof ----------------------------
(***************************************************************************)
(* The invariants of Accounts, for every set of requests and sessions and  *)
(* whatever number of wrong passwords blocks an account.                   *)
(***************************************************************************)
EXTENDS Accounts, TLAPS

-----------------------------------------------------------------------------
(* Saving a document.                                                      *)

LEMMA SavedType ==
  ASSUME account \in User, NEW read \in User, NEW doc \in User, NEW always
  PROVE  /\ Saved(read, doc, always) \in User
         /\ Saved(read, doc, always).changeRequired =
              IF "changeRequired" \in always \/ doc.changeRequired # read.changeRequired
              THEN doc.changeRequired ELSE account.changeRequired
<1> DEFINE new == Saved(read, doc, always)
<1>1. DOMAIN doc = {"registered", "validated", "disabled", "blocked", "changeRequired",
                    "attempts", "pending", "code", "purpose"}
  BY DEF User
<1>2. QED
  BY <1>1 DEF Saved, User

-----------------------------------------------------------------------------
(* What a step of one request must show.                                   *)

\* Sessions are opened under new ids, and what has ended stays so.
Ends ==
  /\ sessions' \in [Sessions -> {"none", "live", "revoked", "gone"}]
  /\ \A s \in Sessions :
       /\ sessions[s] # "none" => sessions'[s] # "none"
       /\ sessions[s] \in {"revoked", "gone"} => sessions'[s] \in {"revoked", "gone"}

\* What a handler has to remember.
Right(h) ==
  /\ h.at = "compare" => ~h.read.changeRequired
  /\ \A s \in h.had : sessions[s] # "none"
  /\ h.at = "ended" => \A s \in h.had : sessions[s] # "live"

LEMMA HandlerRight ==
  ASSUME IInv, NEW p \in Requests
  PROVE  handler[p] \in Handler /\ Right(handler[p])
BY DEF IInv, AccountsTypeOK, OldSessionsEnd, Kept, Right, At, Live, Handler

LEMMA RightStable ==
  ASSUME AccountsTypeOK, NEW h \in Handler, Right(h), Ends
  PROVE  Right(h)'
BY DEF Right, Ends, Handler, AccountsTypeOK

LEMMA PutInv ==
  ASSUME IInv, NEW p \in Requests, NEW n \in Handler, Put(p, n), Right(n)',
         account' \in User, {reset, recent, ticket, due}' \subseteq BOOLEAN,
         Ends, due' => account'.changeRequired
  PROVE  IInv'
<1>1. handler' \in [Requests -> Handler]
  BY DEF IInv, AccountsTypeOK, Put
<1>2. ASSUME NEW q \in Requests
      PROVE  Right(handler[q])'
  <2>1. CASE q = p
    <3>1. handler'[q] = n
      BY <2>1 DEF IInv, AccountsTypeOK, Put
    <3>2. QED
      BY <3>1 DEF Right
  <2>2. CASE q # p
    <3>1. PICK h \in Handler : h = handler[q] /\ Right(h)
      BY HandlerRight
    <3>2. handler'[q] = h /\ Right(h)'
      <4>1. AccountsTypeOK
        BY DEF IInv
      <4>2. QED
        BY <2>2, <3>1, <4>1, RightStable DEF AccountsTypeOK, Put
    <3>3. QED
      BY <3>2 DEF Right
  <2>3. QED
    BY <2>1, <2>2
<1>3. AccountsTypeOK'
  BY <1>1 DEF AccountsTypeOK, Ends
<1>4. OldSessionsEnd' /\ Kept'
  BY <1>2 DEF OldSessionsEnd, Kept, Right, At, Live
<1>5. QED
  BY <1>3, <1>4 DEF IInv

LEMMA IdleRight == NoUser \in User /\ Idle \in Handler /\ Right(Idle) /\ Right(Idle)'
<1>1. Limit \in Nat
  BY AccountAssumption
<1>2. NoUser \in User
  BY <1>1 DEF NoUser, User, Purposes
<1>3. Idle \in Handler
  BY <1>2 DEF Idle, Handler, Points, Purposes
<1>4. QED
  BY <1>2, <1>3 DEF Right, Idle

\* The fields of the lock.
LEMMA UnlockType ==
  ASSUME NEW user \in User, NEW change \in BOOLEAN
  PROVE  LET doc == [user EXCEPT !.changeRequired = change, !.blocked = FALSE, !.attempts = 0]
         IN  doc \in User /\ doc.changeRequired = change
<1>1. Limit \in Nat
  BY AccountAssumption
<1> DEFINE one == [user EXCEPT !.changeRequired = change]
           two == [one EXCEPT !.blocked = FALSE]
<1>2. one \in User /\ one.changeRequired = change
  BY DEF User
<1>3. two \in User /\ two.changeRequired = change
  <2> HIDE DEF one
  <2> QED
    BY <1>2 DEF User
<1>4. [two EXCEPT !.attempts = 0] \in User /\ [two EXCEPT !.attempts = 0].changeRequired = change
  <2> HIDE DEF two
  <2> QED
    BY <1>1, <1>3 DEF User
<1>5. QED
  BY <1>4

\* A step that leaves the sessions alone.
LEMMA WriteInv ==
  ASSUME IInv, NEW p \in Requests, NEW n \in Handler, Put(p, n), Right(n),
         UNCHANGED sessions, account' \in User,
         {reset, recent, ticket, due}' \subseteq BOOLEAN, due' => account'.changeRequired
  PROVE  IInv'
<1>1. Ends
  BY DEF Ends, IInv, AccountsTypeOK
<1>2. Right(n)'
  BY <1>1, RightStable DEF IInv
<1>3. QED
  BY <1>1, <1>2, PutInv

\* A step that writes no user either.
LEMMA ReadInv ==
  ASSUME IInv, NEW p \in Requests, NEW n \in Handler, Put(p, n), Right(n),
         UNCHANGED <<account, sessions, due>>,
         {reset, recent, ticket}' \subseteq BOOLEAN
  PROVE  IInv'
BY WriteInv DEF IInv, AccountsTypeOK, Kept

LEMMA StopInv ==
  ASSUME IInv, NEW p \in Requests, Stop(p), UNCHANGED <<account, links, sessions, due>>
  PROVE  IInv'
BY IdleRight, ReadInv DEF Stop, links, IInv, AccountsTypeOK

LEMMA MoveRight ==
  ASSUME NEW h \in Handler, Right(h), NEW point \in Points \ {"compare", "ended"}
  PROVE  [h EXCEPT !.at = point] \in Handler /\ Right([h EXCEPT !.at = point])
BY DEF Handler, Right

LEMMA StepInv ==
  ASSUME IInv, NEW p \in Requests, NEW point \in Points \ {"compare", "ended"},
         Step(p, point), UNCHANGED <<account, links, sessions, due>>
  PROVE  IInv'
BY HandlerRight, MoveRight, ReadInv DEF Step, links, IInv, AccountsTypeOK

\* The write of the user that comes before the end of the sessions.
LEMMA RevokeRight ==
  ASSUME IInv, NEW p \in Requests
  PROVE  LET n == [handler[p] EXCEPT !.at = "revoke", !.read = NoUser, !.had = Live]
         IN  n \in Handler /\ Right(n)
BY HandlerRight, IdleRight DEF Handler, Right, Points, Live, Idle

-----------------------------------------------------------------------------
(* Steps that read.                                                        *)

LEMMA PermissionInv ==
  ASSUME IInv, NEW p \in Requests,
         \/ FindSession(p) \/ FindOwner(p) \/ GuardSession(p) \/ GuardUser(p)
         \/ Rotate(p) \/ SignToken(p) \/ AskLink(p) \/ SaveLink(p) \/ Finish(p) \/ Fail(p)
  PROVE  IInv'
<1> USE HandlerRight
<1>1. CASE FindSession(p)
  BY <1>1, StopInv, StepInv DEF FindSession, Points
<1>2. CASE FindOwner(p)
  BY <1>2, StopInv, StepInv DEF FindOwner, Points
<1>3. CASE GuardSession(p)
  BY <1>3, StopInv, StepInv DEF GuardSession, Points
<1>4. CASE GuardUser(p)
  <2>1. ASSUME NEW s \in Sessions, Put(p, [handler[p] EXCEPT !.at = "end", !.session = s])
        PROVE  IInv'
    <3>1. [handler[p] EXCEPT !.at = "end", !.session = s] \in Handler
          /\ Right([handler[p] EXCEPT !.at = "end", !.session = s])
      BY DEF Handler, Right, Points
    <3>2. QED
      BY <1>4, <2>1, <3>1, ReadInv DEF GuardUser, links, IInv, AccountsTypeOK
  <2>2. QED
    BY <1>4, <2>1, StopInv, StepInv DEF GuardUser, Points
<1>5. CASE Rotate(p)
  BY <1>5, StopInv DEF Rotate
<1>6. CASE SignToken(p)
  BY <1>6, IdleRight, ReadInv DEF SignToken, Stop, IInv, AccountsTypeOK
<1>7. CASE AskLink(p)
  <2>1. CASE recent' = TRUE /\ Step(p, "link")
    BY <1>7, <2>1, MoveRight, ReadInv DEF AskLink, Step, Points, IInv, AccountsTypeOK
  <2>2. CASE Stop(p) /\ UNCHANGED recent
    BY <1>7, <2>2, StopInv DEF AskLink, links
  <2>3. QED
    BY <1>7, <2>1, <2>2 DEF AskLink
<1>8. CASE SaveLink(p)
  BY <1>8, IdleRight, ReadInv DEF SaveLink, Stop, IInv, AccountsTypeOK
<1>9. CASE Finish(p) \/ Fail(p)
  BY <1>9, StopInv DEF Finish, Fail
<1>10. QED
  BY <1>1, <1>2, <1>3, <1>4, <1>5, <1>6, <1>7, <1>8, <1>9

LEMMA BeginInv ==
  ASSUME IInv, NEW p \in Requests, NEW op \in Operations, Begin(p, op)
  PROVE  IInv'
<1>1. PICK s \in Sessions \cup {"none"} :
        Put(p, [Idle EXCEPT !.op = op, !.at = Entry(op), !.session = s])
  BY DEF Begin
<1> DEFINE n == [Idle EXCEPT !.op = op, !.at = Entry(op), !.session = s]
<1>2. Entry(op) \in Points \ {"compare", "ended"}
  BY DEF Entry, Operations, Points
<1>3. n \in Handler /\ Right(n)
  BY <1>2, IdleRight DEF Handler, Right, Idle
<1>4. QED
  BY <1>1, <1>3, ReadInv DEF Begin, links, IInv, AccountsTypeOK

LEMMA FindInv ==
  ASSUME IInv, NEW p \in Requests, Find(p)
  PROVE  IInv'
<1> USE HandlerRight
<1> DEFINE h == handler[p] point == Found(h.op, account)
<1>1. CASE point = "idle"
  BY <1>1, StopInv DEF Find
<1>2. CASE point # "idle"
  <2>1. PICK purpose \in Purposes :
          Put(p, [h EXCEPT !.at = point, !.read = account, !.purpose = purpose])
    BY <1>2 DEF Find, Asked, Purposes
  <2> DEFINE n == [h EXCEPT !.at = point, !.read = account, !.purpose = purpose]
  <2>2. point \in {"assign", "verify", "compare", "renew", "update", "disable"}
        /\ (point = "compare" => ~account.changeRequired)
    BY <1>2 DEF Found, Usable
  <2>3. account \in User /\ n \in Handler
    BY <2>2 DEF Handler, Points, IInv, AccountsTypeOK
  <2>4. n.at = point /\ n.read = account /\ n.had = h.had
    BY DEF Handler
  <2>5. Right(n)
    <3> HIDE DEF n
    <3> QED
      BY <2>2, <2>4 DEF Right
  <2>6. QED
    BY <2>1, <2>3, <2>5, ReadInv DEF Find, links, IInv, AccountsTypeOK
<1>3. QED
  BY <1>1, <1>2

-----------------------------------------------------------------------------
(* Steps that write the user.                                              *)

LEMMA UserFacts ==
  ASSUME IInv
  PROVE  /\ account \in User /\ {reset, recent, ticket, due} \subseteq BOOLEAN
         /\ due => account.changeRequired
BY DEF IInv, AccountsTypeOK, Kept

LEMMA CodeInv ==
  ASSUME IInv, NEW p \in Requests, Create(p) \/ Assign(p) \/ VerifyCode(p)
  PROVE  IInv'
<1> USE HandlerRight, IdleRight, UserFacts
<1> DEFINE h == handler[p] read == handler[p].read
<1>1. CASE Create(p)
  <2>1. CASE account.registered
    BY <1>1, <2>1, StopInv DEF Create
  <2>2. CASE ~account.registered
    <3> DEFINE doc == [NoUser EXCEPT !.registered = TRUE]
               n == [h EXCEPT !.at = "assign", !.read = doc, !.purpose = "registration"]
    <3>1. doc \in User
      BY DEF User
    <3>2. n \in Handler
      BY <3>1 DEF Handler, Points, Purposes
    <3>3. n.at = "assign" /\ n.had = h.had
      BY DEF Handler
    <3>4. Right(n)
      <4> HIDE DEF n
      <4> QED
        BY <3>3 DEF Right
    <3>5. QED
      BY <1>1, <2>2, <3>1, <3>2, <3>4, WriteInv DEF Create, links
  <2>3. QED
    BY <2>1, <2>2
<1>2. CASE Assign(p)
  <2> DEFINE doc == [read EXCEPT !.code = TRUE, !.purpose = h.purpose]
  <2>1. read \in User /\ doc \in User /\ doc.changeRequired = read.changeRequired
    BY DEF Handler, User
  <2>2. account' \in User /\ account'.changeRequired = account.changeRequired
    BY <1>2, <2>1, SavedType DEF Assign
  <2>3. QED
    BY <1>2, <2>2, WriteInv DEF Assign, Stop, links
<1>3. CASE VerifyCode(p)
  <2> DEFINE doc == Verified(read)
  <2>0. read \in User /\ Limit \in Nat \ {0}
    BY AccountAssumption DEF Handler
  <2>1. doc \in User /\ (doc.changeRequired = read.changeRequired \/ doc.changeRequired)
    <3> DEFINE used == [read EXCEPT !.code = FALSE, !.purpose = "none"]
    <3>1. used \in User /\ used.changeRequired = read.changeRequired /\ read.purpose \in Purposes
      BY <2>0 DEF User, Purposes
    <3>2. /\ [used EXCEPT !.validated = TRUE] \in User
          /\ [used EXCEPT !.validated = TRUE].changeRequired = used.changeRequired
          /\ [used EXCEPT !.pending = FALSE] \in User
          /\ [used EXCEPT !.pending = FALSE].changeRequired = used.changeRequired
      <4> HIDE DEF used
      <4> QED
        BY <3>1 DEF User
    <3>3. LET unlocked == [used EXCEPT !.changeRequired = TRUE, !.blocked = FALSE, !.attempts = 0]
          IN  unlocked \in User /\ unlocked.changeRequired
      <4> HIDE DEF used
      <4> QED
        BY <3>1, UnlockType
    <3>4. QED
      <4>1. /\ read.purpose = "registration" => doc = [used EXCEPT !.validated = TRUE]
            /\ read.purpose = "email_change" => doc = [used EXCEPT !.pending = FALSE]
            /\ read.purpose = "unblock" =>
                 doc = [used EXCEPT !.changeRequired = TRUE, !.blocked = FALSE, !.attempts = 0]
            /\ read.purpose = "none" => doc = used
        BY DEF Verified
      <4> HIDE DEF used, doc
      <4>2. QED
        BY <3>1, <3>2, <3>3, <4>1 DEF Purposes
  <2>2. account' \in User /\ (account.changeRequired => account'.changeRequired)
    BY <1>3, <2>0, <2>1, SavedType DEF VerifyCode
  <2>3. CASE ThenRevoke(p)
    BY <1>3, <2>2, <2>3, RevokeRight, WriteInv DEF VerifyCode, ThenRevoke, links
  <2>4. CASE Step(p, "token")
    BY <1>3, <2>2, <2>4, MoveRight, WriteInv DEF VerifyCode, Step, links, Points
  <2>5. CASE Stop(p)
    BY <1>3, <2>2, <2>5, WriteInv DEF VerifyCode, Stop, links
  <2>6. QED
    BY <1>3, <2>3, <2>4, <2>5 DEF VerifyCode
<1>4. QED
  BY <1>1, <1>2, <1>3

LEMMA PasswordInv ==
  ASSUME IInv, NEW p \in Requests,
         RightPassword(p) \/ WrongPassword(p) \/ Renew(p) \/ ResetPassword(p)
  PROVE  IInv'
<1> USE HandlerRight, IdleRight, UserFacts
<1> DEFINE h == handler[p] read == handler[p].read
<1>0. read \in User /\ Limit \in Nat \ {0}
  BY AccountAssumption DEF Handler
<1>1. CASE RightPassword(p)
  <2> DEFINE n == [h EXCEPT !.at = "open", !.read = NoUser]
  <2>1. n \in Handler /\ Right(n)
    BY DEF Handler, Right, Points, Idle
  <2>2. [read EXCEPT !.attempts = 0] \in User
        /\ [read EXCEPT !.attempts = 0].changeRequired = read.changeRequired
    BY <1>0 DEF User
  <2>3. account' \in User /\ account'.changeRequired = account.changeRequired
    BY <1>0, <1>1, <2>2, SavedType DEF RightPassword
  <2>4. QED
    BY <1>1, <2>1, <2>3, WriteInv DEF RightPassword, links
<1>2. CASE WrongPassword(p)
  <2> DEFINE k == IF read.attempts < Limit THEN read.attempts + 1 ELSE read.attempts
             counted == [read EXCEPT !.attempts = k]
             locked == [counted EXCEPT !.blocked = TRUE, !.changeRequired = TRUE,
                                       !.code = TRUE, !.purpose = "unblock"]
  <2>1. k \in 0..Limit
    <3>1. read.attempts \in 0..Limit
      BY <1>0 DEF User
    <3>2. QED
      BY <1>0, <3>1
  <2>2. counted \in User /\ counted.changeRequired = read.changeRequired
    <3> HIDE DEF k
    <3> QED
      BY <1>0, <2>1 DEF User
  <2>3. locked \in User /\ locked.changeRequired
    <3> HIDE DEF counted
    <3> QED
      BY <2>2 DEF User, Purposes
  <2>4. CASE read.attempts + 1 < Limit
    <3>1. account' \in User /\ account'.changeRequired = account.changeRequired
      <4>1. account' = Saved(read, counted, {"attempts"})
        BY <1>2, <2>4 DEF WrongPassword
      <4> HIDE DEF counted
      <4>2. QED
        BY <1>0, <2>2, <4>1, SavedType
    <3>2. QED
      BY <1>2, <2>4, <3>1, WriteInv DEF WrongPassword, Stop, links
  <2>5. CASE ~(read.attempts + 1 < Limit)
    <3>1. ~read.changeRequired
      BY <1>2 DEF WrongPassword, At, Right
    <3>2. account' \in User /\ account'.changeRequired
      <4>1. account' = Saved(read, locked, {"attempts", "code"})
        BY <1>2, <2>5 DEF WrongPassword
      <4> HIDE DEF locked
      <4>2. QED
        BY <1>0, <2>3, <3>1, <4>1, SavedType
    <3>3. QED
      BY <1>2, <2>5, <3>2, RevokeRight, WriteInv DEF WrongPassword, ThenRevoke, links
  <2>6. QED
    BY <2>4, <2>5
<1>3. CASE Renew(p)
  <2> DEFINE doc == [read EXCEPT !.changeRequired = FALSE, !.blocked = FALSE, !.attempts = 0]
  <2>1. doc \in User
    BY <1>0, UnlockType
  <2>2. account' \in User
    BY <1>0, <1>3, <2>1, SavedType DEF Renew
  <2>3. QED
    BY <1>3, <2>2, RevokeRight, WriteInv DEF Renew, ThenRevoke, links
<1>4. CASE ResetPassword(p)
  <2>1. CASE reset /\ ~account.disabled
    <3>1. account' \in User
      BY <1>4, <2>1, UnlockType DEF ResetPassword
    <3>2. QED
      BY <1>4, <2>1, <3>1, RevokeRight, WriteInv DEF ResetPassword, ThenRevoke
  <2>2. CASE ~(reset /\ ~account.disabled)
    BY <1>4, <2>2, StopInv DEF ResetPassword, links
  <2>3. QED
    BY <2>1, <2>2
<1>5. QED
  BY <1>1, <1>2, <1>3, <1>4

LEMMA ProfileInv ==
  ASSUME IInv, NEW p \in Requests, Update(p) \/ Disable(p)
  PROVE  IInv'
<1> USE HandlerRight, IdleRight, UserFacts
<1> DEFINE h == handler[p] read == handler[p].read
<1>0. read \in User
  BY DEF Handler
<1>1. CASE Update(p)
  <2> DEFINE doc == [read EXCEPT !.pending = TRUE, !.code = TRUE, !.purpose = "email_change"]
  <2>1. doc \in User /\ doc.changeRequired = read.changeRequired
    BY <1>0 DEF User, Purposes
  <2>2. account' \in User /\ account'.changeRequired = account.changeRequired
    <3>1. CASE UNCHANGED account
      BY <3>1
    <3>2. ASSUME NEW always \in {{"code"}, {"code", "pending"}},
                 account' = Saved(read, doc, always)
          PROVE  account' \in User /\ account'.changeRequired = account.changeRequired
      BY <1>0, <2>1, <3>2, SavedType
    <3>3. QED
      BY <1>1, <3>1, <3>2 DEF Update
  <2>3. CASE Stop(p) /\ UNCHANGED due
    BY <1>1, <2>2, <2>3, WriteInv DEF Update, Stop, links
  <2>4. CASE ThenRevoke(p) /\ due' = FALSE
    BY <1>1, <2>2, <2>4, RevokeRight, WriteInv DEF Update, ThenRevoke, links
  <2>5. QED
    BY <1>1, <2>3, <2>4 DEF Update
<1>2. CASE Disable(p)
  <2> DEFINE doc == [read EXCEPT !.disabled = TRUE]
  <2>1. doc \in User /\ doc.changeRequired = read.changeRequired
    BY <1>0 DEF User
  <2>2. account' \in User /\ account'.changeRequired = account.changeRequired
    BY <1>0, <1>2, <2>1, SavedType DEF Disable
  <2>3. QED
    BY <1>2, <2>2, RevokeRight, WriteInv DEF Disable, ThenRevoke, links
<1>3. QED
  BY <1>1, <1>2

-----------------------------------------------------------------------------
(* Steps that write sessions, and time.                                    *)

LEMMA SessionInv ==
  ASSUME IInv, NEW p \in Requests, OpenSession(p) \/ EndSession(p) \/ RevokeAll(p)
  PROVE  IInv'
<1> USE HandlerRight, IdleRight, UserFacts
<1> DEFINE h == handler[p]
<1>0. sessions \in [Sessions -> {"none", "live", "revoked", "gone"}]
  BY DEF IInv, AccountsTypeOK
<1>1. CASE OpenSession(p)
  <2>1. PICK s \in Sessions :
          /\ sessions[s] = "none" /\ sessions' = [sessions EXCEPT ![s] = "live"]
          /\ Put(p, [h EXCEPT !.at = "rotate", !.session = s])
    BY <1>1 DEF OpenSession
  <2>2. Ends
    BY <1>0, <2>1 DEF Ends
  <2>3. PICK n \in Handler : n = [h EXCEPT !.at = "rotate", !.session = s] /\ Right(n)
    <3> DEFINE m == [h EXCEPT !.at = "rotate", !.session = s]
    <3>1. m \in Handler
      BY DEF Handler, Points
    <3>2. m.at = "rotate" /\ m.had = h.had
      BY DEF Handler
    <3>3. Right(m)
      <4> HIDE DEF m
      <4> QED
        BY <3>2 DEF Right
    <3>4. QED
      BY <3>1, <3>3
  <2>4. Right(n)'
    BY <2>2, <2>3, RightStable DEF IInv
  <2>5. QED
    BY <1>1, <2>1, <2>2, <2>3, <2>4, PutInv DEF OpenSession, links
<1>2. CASE EndSession(p)
  <2>1. Ends
    BY <1>0, <1>2 DEF EndSession, Revoked, Ends
  <2>2. QED
    BY <1>2, <2>1, PutInv DEF EndSession, Stop, links
<1>3. CASE RevokeAll(p)
  <2>1. Ends /\ \A s \in Sessions : sessions'[s] # "live"
    BY <1>0, <1>3 DEF RevokeAll, Revoked, Ends
  <2>2. PICK n \in Handler : n = [h EXCEPT !.at = "ended"] /\ n.at = "ended" /\ n.had = h.had
    <3> DEFINE m == [h EXCEPT !.at = "ended"]
    <3>1. m \in Handler /\ m.at = "ended" /\ m.had = h.had
      BY DEF Handler, Points
    <3>2. QED
      BY <3>1
  <2>3. Right(n)'
    BY <2>1, <2>2 DEF Right, Ends, Handler
  <2>4. QED
    BY <1>3, <2>1, <2>2, <2>3, PutInv DEF RevokeAll, Step, links
<1>4. QED
  BY <1>1, <1>2, <1>3

LEMMA TimeInv ==
  ASSUME IInv, Elapse \/ \E s \in Sessions : ExpireSession(s)
  PROVE  IInv'
<1>1. CASE Elapse
  BY <1>1 DEF Elapse, IInv, AccountsTypeOK, OldSessionsEnd, Kept, At, Live
<1>2. ASSUME NEW s \in Sessions, ExpireSession(s)
      PROVE  IInv'
  BY <1>2 DEF ExpireSession, links, IInv, AccountsTypeOK, OldSessionsEnd, Kept, At, Live
<1>3. QED
  BY <1>1, <1>2

-----------------------------------------------------------------------------
(* The inductive invariant.                                                *)

LEMMA InitInv == Init => IInv
<1> SUFFICES ASSUME Init PROVE IInv
  OBVIOUS
<1>1. AccountsTypeOK
  BY IdleRight DEF Init, AccountsTypeOK
<1>2. OldSessionsEnd /\ Kept
  BY DEF Init, OldSessionsEnd, Kept, At, Idle
<1>3. QED
  BY <1>1, <1>2 DEF IInv

LEMMA NextInv == IInv /\ [Next]_vars => IInv'
<1> SUFFICES ASSUME IInv, [Next]_vars PROVE IInv'
  OBVIOUS
<1>1. ASSUME NEW p \in Requests, NEW op \in Operations, Begin(p, op)
      PROVE  IInv'
  BY <1>1, BeginInv
<1>2. ASSUME NEW p \in Requests, HandlerStep(p) \/ Fail(p)
      PROVE  IInv'
  BY <1>2, PermissionInv, FindInv, CodeInv, PasswordInv, ProfileInv, SessionInv DEF HandlerStep
<1>3. CASE Elapse \/ \E s \in Sessions : ExpireSession(s)
  BY <1>3, TimeInv
<1>4. CASE UNCHANGED vars
  BY <1>4 DEF vars, links, IInv, AccountsTypeOK, OldSessionsEnd, Kept, At, Live
<1>5. QED
  BY <1>1, <1>2, <1>3, <1>4 DEF Next

LEMMA Invariance == Spec => []IInv
BY InitInv, NextInv, PTL DEF Spec

\* The variables of an account keep their types.
THEOREM AccountTypes == Spec => []AccountsTypeOK
<1>1. IInv => AccountsTypeOK
  BY DEF IInv
<1>2. QED
  BY <1>1, Invariance, PTL

\* Nobody is let in again with the password an account was blocked with, for
\* any number of concurrent requests: no save that was loaded before takes the
\* obligation to change it back.
THEOREM BlockedChanges == Spec => []BlockedMustChange
<1>1. IInv => BlockedMustChange
  BY DEF IInv, Kept, BlockedMustChange, Usable
<1>2. QED
  BY <1>1, Invariance, PTL

\* A handler that ends the sessions has ended all that were there.
THEOREM OldSessionsEnded == Spec => []OldSessionsEnd
<1>1. IInv => OldSessionsEnd
  BY DEF IInv
<1>2. QED
  BY <1>1, Invariance, PTL

LEMMA StepEnds ==
  ASSUME IInv, [Next]_vars
  PROVE  \A s \in Sessions : sessions[s] \in {"revoked", "gone"} =>
           sessions'[s] \in {"revoked", "gone"}
<1>0. sessions \in [Sessions -> {"none", "live", "revoked", "gone"}]
  BY DEF IInv, AccountsTypeOK
<1>1. ASSUME NEW p \in Requests, NEW op \in Operations, Begin(p, op)
      PROVE  UNCHANGED sessions
  BY <1>1 DEF Begin
<1>2. ASSUME NEW p \in Requests, HandlerStep(p) \/ Fail(p)
      PROVE  \/ UNCHANGED sessions
             \/ \E s \in Sessions : sessions[s] = "none" /\ sessions' = [sessions EXCEPT ![s] = "live"]
             \/ \E ended \in {Sessions, {handler[p].session}} : sessions' = Revoked(ended)
  <2>1. CASE Create(p) \/ Assign(p) \/ VerifyCode(p) \/ SignToken(p) \/ RightPassword(p)
             \/ WrongPassword(p) \/ Rotate(p) \/ Renew(p)
    BY <2>1 DEF Create, Assign, VerifyCode, SignToken, RightPassword, WrongPassword, Rotate, Renew
  <2>2. CASE AskLink(p) \/ SaveLink(p) \/ ResetPassword(p) \/ FindSession(p) \/ FindOwner(p)
             \/ GuardSession(p) \/ GuardUser(p)
    BY <2>2 DEF AskLink, SaveLink, ResetPassword, FindSession, FindOwner, GuardSession, GuardUser
  <2>3. CASE Update(p) \/ Disable(p) \/ Find(p) \/ Finish(p) \/ Fail(p)
    BY <2>3 DEF Update, Disable, Find, Finish, Fail
  <2>4. CASE OpenSession(p)
    BY <2>4 DEF OpenSession
  <2>5. CASE EndSession(p) \/ RevokeAll(p)
    BY <2>5 DEF EndSession, RevokeAll
  <2>6. QED
    BY <1>2, <2>1, <2>2, <2>3, <2>4, <2>5 DEF HandlerStep
<1>3. QED
  BY <1>0, <1>1, <1>2 DEF Next, Elapse, ExpireSession, vars, Revoked

\* A session that was ended is never accepted again, whatever refresh or login
\* still works on it.
THEOREM EndedAlwaysStays == Spec => EndedStays
<1>1. IInv /\ [Next]_vars =>
        [\A s \in Sessions : sessions[s] \in {"revoked", "gone"} =>
           sessions'[s] \in {"revoked", "gone"}]_vars
  BY StepEnds
<1>2. QED
  BY <1>1, Invariance, PTL DEF Spec, EndedStays
=============================================================================
