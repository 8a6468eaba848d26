---------------------------- MODULE MCAccountLink ----------------------------
(***************************************************************************)
(* Small instances of AccountLink.                                         *)
(***************************************************************************)
EXTENDS AccountLink

CONSTANTS r1, r2

\* One request reads and asks for permissions, the other links; both unlink.
ReadsAndWrites ==
  [r \in Requests |-> IF r = r1 THEN {"status", "allocation", "prepare", "portfolio", "identity", "revoke"}
                      ELSE {"revoke", "connect"}]
=============================================================================
