------------------------------ MODULE Accounts ------------------------------
(***************************************************************************)
(* The account of one user and its sessions: registration, codes by mail,  *)
(* login and its lock, forgotten passwords, refresh and logout.  A handler *)
(* loads the user, waits (bcrypt, mail, another query) and then saves the  *)
(* document it loaded: each action runs from one write, or read, to the    *)
(* next.  Another account is seen only in what it makes fail.              *)
(***************************************************************************)
EXTENDS Naturals, FiniteSets

CONSTANTS
  Sessions,   \* ids of the sessions that may be opened
  Requests,   \* concurrent requests about the account
  Calls,      \* the operations each request may call
  Limit       \* wrong passwords that block the account

VARIABLES
  account,    \* users: the row, without its password and its reset fields
  reset,      \* a password reset link is valid (passwordResetTokenHash)
  recent,     \* one was asked for in the last minute (passwordResetRequestedAt)
  ticket,     \* an unexpired password_change token was handed out
  sessions,   \* auth_sessions
  handler,    \* progress of each request
  due         \* history: the account was blocked with the password it has

vars == <<account, reset, recent, ticket, sessions, handler, due>>

Operations == {"register", "code", "verify", "login", "change", "forgot", "reset",
               "refresh", "logout", "password", "email", "both", "disable"}

ASSUME AccountAssumption ==
  Limit \in Nat \ {0} /\ Calls \in [Requests -> SUBSET Operations]

-----------------------------------------------------------------------------
(* State.                                                                  *)

Purposes == {"none", "registration", "unblock", "email_change"}

User == [registered: BOOLEAN, validated: BOOLEAN, disabled: BOOLEAN,
         blocked: BOOLEAN, changeRequired: BOOLEAN, attempts: 0..Limit,
         pending: BOOLEAN,  \* pendingEmail is set
         code: BOOLEAN,     \* verificationCodeHash is set and has not expired
         purpose: Purposes]

NoUser == [registered |-> FALSE, validated |-> FALSE, disabled |-> FALSE,
           blocked |-> FALSE, changeRequired |-> FALSE, attempts |-> 0,
           pending |-> FALSE, code |-> FALSE, purpose |-> "none"]

Points == {"idle", "create", "find", "assign", "verify", "token", "compare", "open",
           "rotate", "renew", "gate", "link", "reset", "row", "owner", "reuse",
           "guard", "user?", "end", "update", "disable", "revoke", "ended"}

Handler == [op: Operations \cup {"none"}, at: Points,
            read: User,                      \* the document it loaded
            purpose: Purposes,               \* of the code it assigns
            session: Sessions \cup {"none"},
            had: SUBSET Sessions]            \* live when it wrote the user

Idle == [op |-> "none", at |-> "idle", read |-> NoUser, purpose |-> "none",
         session |-> "none", had |-> {}]

Init ==
  /\ account = NoUser
  /\ reset = FALSE /\ recent = FALSE /\ ticket = FALSE
  /\ sessions = [s \in Sessions |-> "none"]
  /\ handler = [p \in Requests |-> Idle]
  /\ due = FALSE

At(p, point) == handler[p].at = point
Put(p, h) == handler' = [handler EXCEPT ![p] = h]
Step(p, point) == Put(p, [handler[p] EXCEPT !.at = point])
Stop(p) == Put(p, Idle)

Live == {s \in Sessions : sessions[s] = "live"}

\* The write that ends the sessions comes next.
ThenRevoke(p) == Put(p, [handler[p] EXCEPT !.at = "revoke", !.read = NoUser, !.had = Live])

links == <<reset, recent, ticket>>

\* user.save() of a loaded document writes the fields that differ from what was
\* loaded; a hash or a counter is always another one.
Saved(read, doc, always) ==
  [f \in DOMAIN doc |->
     IF f \in always \/ doc[f] # read[f] THEN doc[f] ELSE account[f]]

\* What login, refresh and the guard of protected routes ask of the account.
Usable(user) ==
  user.registered /\ ~user.disabled /\ user.validated /\ ~user.blocked /\ ~user.changeRequired

-----------------------------------------------------------------------------
(* register, requestVerificationCode and verifyCode                        *)

Create(p) ==
  /\ At(p, "create")
  /\ IF account.registered THEN Stop(p) /\ UNCHANGED <<account, due>>
     ELSE LET doc == [NoUser EXCEPT !.registered = TRUE] IN
          /\ account' = doc /\ due' = FALSE
          /\ Put(p, [handler[p] EXCEPT !.at = "assign", !.read = doc, !.purpose = "registration"])
  /\ UNCHANGED <<links, sessions>>

\* The purposes of a code the user may ask for: by the address he gives.
Asked(user) ==
  IF ~user.registered \/ user.disabled THEN {}
  ELSE IF user.blocked THEN {"unblock"}
  ELSE {x \in {"email_change", "registration"} :
          IF x = "email_change" THEN user.pending ELSE ~user.validated}

\* assignVerificationCode
Assign(p) ==
  /\ At(p, "assign")
  /\ LET h == handler[p] IN
     account' = Saved(h.read, [h.read EXCEPT !.code = TRUE, !.purpose = h.purpose], {"code"})
  /\ Stop(p)
  /\ UNCHANGED <<links, sessions, due>>

\* Mutant of Verified: the proof of the address is enough to be let in.
VerifiedUnlocked(user) ==
  LET doc == [user EXCEPT !.code = FALSE, !.purpose = "none"] IN
  CASE user.purpose = "registration" -> [doc EXCEPT !.validated = TRUE]
    [] user.purpose = "email_change" -> [doc EXCEPT !.pending = FALSE]
    [] user.purpose = "unblock" ->
         [doc EXCEPT !.changeRequired = FALSE, !.blocked = FALSE, !.attempts = 0]
    [] user.purpose = "none" -> doc

\* What the right code does to the loaded user.
Verified(user) ==
  LET doc == [user EXCEPT !.code = FALSE, !.purpose = "none"] IN
  CASE user.purpose = "registration" -> [doc EXCEPT !.validated = TRUE]
    [] user.purpose = "email_change" -> [doc EXCEPT !.pending = FALSE]
    [] user.purpose = "unblock" ->
         [doc EXCEPT !.changeRequired = TRUE, !.blocked = FALSE, !.attempts = 0]
    [] user.purpose = "none" -> doc

\* The code is wrong, or the address belongs to somebody else by now (Fail).
VerifyCode(p) ==
  /\ At(p, "verify")
  /\ LET read == handler[p].read IN
     /\ account' = Saved(read, Verified(read), {})
     /\ CASE read.purpose = "email_change" -> ThenRevoke(p)
          [] read.purpose = "unblock" -> Step(p, "token")
          [] OTHER -> Stop(p)
  /\ UNCHANGED <<links, sessions, due>>

\* The answer of verifyCode carries a password_change token.
SignToken(p) ==
  /\ At(p, "token")
  /\ ticket' = TRUE
  /\ Stop(p)
  /\ UNCHANGED <<account, reset, recent, sessions, due>>

-----------------------------------------------------------------------------
(* login and changeBlockedPassword                                         *)

RightPassword(p) ==
  /\ At(p, "compare")
  /\ LET read == handler[p].read IN
     account' = Saved(read, [read EXCEPT !.attempts = 0], {})
  /\ Put(p, [handler[p] EXCEPT !.at = "open", !.read = NoUser])
  /\ UNCHANGED <<links, sessions, due>>

WrongPassword(p) ==
  /\ At(p, "compare")
  /\ LET read == handler[p].read
         counted == [read EXCEPT !.attempts = IF @ < Limit THEN @ + 1 ELSE @]
     IN IF read.attempts + 1 < Limit
        THEN /\ account' = Saved(read, counted, {"attempts"})
             /\ Stop(p) /\ UNCHANGED due
        ELSE /\ account' = Saved(read, [counted EXCEPT !.blocked = TRUE, !.changeRequired = TRUE,
                                                       !.code = TRUE, !.purpose = "unblock"],
                                 {"attempts", "code"})
             /\ ThenRevoke(p) /\ due' = TRUE
  /\ UNCHANGED <<links, sessions>>

\* issueTokenPair
OpenSession(p) ==
  /\ At(p, "open")
  /\ \E s \in Sessions :
       /\ sessions[s] = "none"
       /\ sessions' = [sessions EXCEPT ![s] = "live"]
       /\ Put(p, [handler[p] EXCEPT !.at = "rotate", !.session = s])
  /\ UNCHANGED <<account, links, due>>

\* Mutant of Rotate: the whole document that was loaded is written.
RotateWhole(p) ==
  /\ At(p, "rotate")
  /\ LET s == handler[p].session IN
     sessions' = [sessions EXCEPT ![s] = IF @ = "gone" THEN @ ELSE "live"]
  /\ Stop(p)
  /\ UNCHANGED <<account, links, due>>

\* rotateTokenPair: session.save() writes the new hash and the new expiry of a
\* row that exists, and no other field.
Rotate(p) ==
  /\ At(p, "rotate")
  /\ Stop(p)
  /\ UNCHANGED <<account, links, sessions, due>>

\* A new password was asked for, with a password_change token.
Renew(p) ==
  /\ At(p, "renew")
  /\ LET read == handler[p].read IN
     account' = Saved(read, [read EXCEPT !.changeRequired = FALSE, !.blocked = FALSE,
                                         !.attempts = 0], {})
  /\ due' = FALSE
  /\ ThenRevoke(p)
  /\ UNCHANGED <<links, sessions>>

-----------------------------------------------------------------------------
(* forgotPassword and resetPassword                                        *)

Eligible(user) == user.registered /\ ~user.disabled /\ user.validated

AskLink(p) ==
  /\ At(p, "gate")
  /\ IF Eligible(account) /\ ~recent
     THEN recent' = TRUE /\ Step(p, "link")
     ELSE Stop(p) /\ UNCHANGED recent
  /\ UNCHANGED <<account, reset, ticket, sessions, due>>

\* The second write of forgotPassword, and the mail.
SaveLink(p) ==
  /\ At(p, "link")
  /\ reset' = TRUE
  /\ Stop(p)
  /\ UNCHANGED <<account, recent, ticket, sessions, due>>

\* One findOneAndUpdate: a link is used once.
ResetPassword(p) ==
  /\ At(p, "reset")
  /\ IF reset /\ ~account.disabled
     THEN /\ account' = [account EXCEPT !.changeRequired = FALSE, !.blocked = FALSE, !.attempts = 0]
          /\ reset' = FALSE /\ recent' = FALSE /\ due' = FALSE
          /\ ThenRevoke(p)
     ELSE Stop(p) /\ UNCHANGED <<account, reset, recent, due>>
  /\ UNCHANGED <<ticket, sessions>>

-----------------------------------------------------------------------------
(* refresh and logout                                                      *)

\* A token that is not the last one of its session may be told from it or not:
\* bcrypt compares the first 72 bytes.
FindSession(p) ==
  /\ At(p, "row")
  /\ IF sessions[handler[p].session] = "live"
     THEN Step(p, "owner") \/ Step(p, "reuse")
     ELSE Stop(p)
  /\ UNCHANGED <<account, links, sessions, due>>

FindOwner(p) ==
  /\ At(p, "owner")
  /\ IF Usable(account) THEN Step(p, "rotate") ELSE Stop(p)
  /\ UNCHANGED <<account, links, sessions, due>>

\* A row that is still there is marked.
Revoked(ended) ==
  [s \in Sessions |-> IF s \in ended /\ sessions[s] = "live" THEN "revoked" ELSE sessions[s]]

\* Refresh token reuse, and the update of logout.
EndSession(p) ==
  /\ At(p, "reuse") \/ At(p, "end")
  /\ sessions' = Revoked({handler[p].session})
  /\ Stop(p)
  /\ UNCHANGED <<account, links, due>>

\* validateAccessUser
GuardSession(p) ==
  /\ At(p, "guard")
  /\ IF sessions[handler[p].session] = "live" THEN Step(p, "user?") ELSE Stop(p)
  /\ UNCHANGED <<account, links, sessions, due>>

\* The refresh token of a logout may be of another session of the user.
GuardUser(p) ==
  /\ At(p, "user?")
  /\ IF ~Usable(account) THEN Stop(p)
     ELSE IF handler[p].op # "logout" THEN Step(p, "find")
     ELSE \E s \in {x \in Sessions : sessions[x] # "none"} :
            Put(p, [handler[p] EXCEPT !.at = "end", !.session = s])
  /\ UNCHANGED <<account, links, sessions, due>>

-----------------------------------------------------------------------------
(* updateProfile and disable                                               *)

Update(p) ==
  /\ At(p, "update")
  /\ LET h == handler[p]
         doc == [h.read EXCEPT !.pending = TRUE, !.code = TRUE, !.purpose = "email_change"]
     IN /\ IF h.op = "password" THEN UNCHANGED account
           ELSE \E always \in {{"code"}, {"code", "pending"}} :
                  account' = Saved(h.read, doc, always)
        /\ IF h.op = "email" THEN Stop(p) /\ UNCHANGED due
           ELSE ThenRevoke(p) /\ due' = FALSE
  /\ UNCHANGED <<links, sessions>>

Disable(p) ==
  /\ At(p, "disable")
  /\ LET read == handler[p].read IN
     account' = Saved(read, [read EXCEPT !.disabled = TRUE], {})
  /\ ThenRevoke(p)
  /\ UNCHANGED <<links, sessions, due>>

\* Mutant of RevokeAll: only the session of the request is ended.
RevokeOwn(p) ==
  /\ At(p, "revoke")
  /\ sessions' = Revoked({handler[p].session})
  /\ Step(p, "ended")
  /\ UNCHANGED <<account, links, due>>

\* sessionModel.updateMany, the last write of every handler that has it.
RevokeAll(p) ==
  /\ At(p, "revoke")
  /\ sessions' = Revoked(Sessions)
  /\ Step(p, "ended")
  /\ UNCHANGED <<account, links, due>>

-----------------------------------------------------------------------------

\* The user as each operation needs it, and where it goes on.
Found(op, user) ==
  CASE op = "code" -> IF Asked(user) = {} THEN "idle" ELSE "assign"
    [] op = "verify" -> IF user.code THEN "verify" ELSE "idle"
    [] op = "login" -> IF Usable(user) THEN "compare" ELSE "idle"
    [] op = "change" -> IF user.changeRequired /\ ~user.disabled THEN "renew" ELSE "idle"
    [] op \in {"password", "email", "both"} -> "update"
    [] OTHER -> "disable"

Find(p) ==
  /\ At(p, "find")
  /\ LET h == handler[p] point == Found(h.op, account) IN
     IF point = "idle" THEN Stop(p)
     ELSE \E purpose \in IF h.op = "code" THEN Asked(account) ELSE {"none"} :
            Put(p, [h EXCEPT !.at = point, !.read = account, !.purpose = purpose])
  /\ UNCHANGED <<account, links, sessions, due>>

Entry(op) ==
  CASE op = "register" -> "create"
    [] op \in {"code", "verify", "login", "change"} -> "find"
    [] op = "forgot" -> "gate"
    [] op = "reset" -> "reset"
    [] op = "refresh" -> "row"
    [] op \in {"logout", "password", "email", "both", "disable"} -> "guard"

\* A caller of a protected route, or of refresh, has the tokens of a session;
\* one of changeBlockedPassword or resetPassword what it was given.
Begin(p, op) ==
  /\ At(p, "idle") /\ op \in Calls[p]
  /\ op = "change" => ticket
  /\ op = "reset" => reset
  /\ \E s \in IF Entry(op) \in {"row", "guard"}
              THEN {x \in Sessions : sessions[x] # "none"} ELSE {"none"} :
       Put(p, [Idle EXCEPT !.op = op, !.at = Entry(op), !.session = s])
  /\ UNCHANGED <<account, links, sessions, due>>

Finish(p) ==
  At(p, "ended") /\ Stop(p) /\ UNCHANGED <<account, links, sessions, due>>

\* A wrong code or password, a refused mail, a database that fails, a restart.
Fail(p) ==
  ~At(p, "idle") /\ Stop(p) /\ UNCHANGED <<account, links, sessions, due>>

\* A minute passes.  A code, a link or a ticket that expires is one not used.
Elapse == recent /\ recent' = FALSE /\ UNCHANGED <<account, reset, ticket, sessions, handler, due>>

\* The TTL index of the sessions.
ExpireSession(s) ==
  /\ sessions[s] \in {"live", "revoked"}
  /\ sessions' = [sessions EXCEPT ![s] = "gone"]
  /\ UNCHANGED <<account, links, handler, due>>

HandlerStep(p) ==
  \/ Create(p) \/ Assign(p) \/ VerifyCode(p) \/ SignToken(p)
  \/ RightPassword(p) \/ WrongPassword(p) \/ OpenSession(p) \/ Rotate(p) \/ Renew(p)
  \/ AskLink(p) \/ SaveLink(p) \/ ResetPassword(p)
  \/ FindSession(p) \/ FindOwner(p) \/ EndSession(p) \/ GuardSession(p) \/ GuardUser(p)
  \/ Update(p) \/ Disable(p) \/ RevokeAll(p)
  \/ Find(p) \/ Finish(p)

Next ==
  \/ \E p \in Requests, op \in Operations : Begin(p, op)
  \/ \E p \in Requests : HandlerStep(p) \/ Fail(p)
  \/ Elapse \/ \E s \in Sessions : ExpireSession(s)

Spec == Init /\ [][Next]_vars

-----------------------------------------------------------------------------
(* Properties.                                                             *)

\* Types of the variables.
AccountsTypeOK ==
  /\ account \in User
  /\ {reset, recent, ticket, due} \subseteq BOOLEAN
  /\ sessions \in [Sessions -> {"none", "live", "revoked", "gone"}]
  /\ handler \in [Requests -> Handler]

\* A session that was ended stays so: a refresh, or a login, that loaded it
\* before a logout, a block or a new password does not bring it back.
EndedStays ==
  [][\A s \in Sessions : sessions[s] \in {"revoked", "gone"} =>
       sessions'[s] \in {"revoked", "gone"}]_vars

\* Once a handler that blocks, disables or gives a new password or address is
\* through, no session that existed when it wrote so is accepted any more.
OldSessionsEnd ==
  \A p \in Requests : At(p, "ended") => handler[p].had \cap Live = {}

\* Three wrong passwords "obligan a verificar el correo y cambiar la
\* contraseña": whatever saves interleave, nobody is let in again with the
\* password the account was blocked with (README.md, flow 7).
BlockedMustChange == due => ~Usable(account)

\* What makes it so: the debt is only paid where the password is written, a
\* login loaded a user it could let in, and a session is opened under a new id.
Kept ==
  /\ due => account.changeRequired
  /\ \A p \in Requests :
       /\ At(p, "compare") => ~handler[p].read.changeRequired
       /\ \A s \in handler[p].had : sessions[s] # "none"

IInv == AccountsTypeOK /\ OldSessionsEnd /\ Kept
=============================================================================
