----------------------------- MODULE MCAccounts -----------------------------
(***************************************************************************)
(* Small instances of Accounts.                                            *)
(***************************************************************************)
EXTENDS Accounts

CONSTANTS r1, r2

\* Both requests log in; what one writes the other has loaded.
Split ==
  [r \in Requests |->
     IF r = r1 THEN {"register", "code", "login", "both", "forgot", "reset"}
     ELSE {"login", "verify", "refresh", "logout", "change", "disable"}]
=============================================================================
