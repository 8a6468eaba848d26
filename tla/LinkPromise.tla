---------------------------- MODULE LinkPromise ----------------------------
(***************************************************************************)
(* What unlinking promises to the user: a link he leaves does not come     *)
(* back, and both applications are rid of it in the end.                   *)
(***************************************************************************)
CONSTANT Links
VARIABLE link

Init == link = [l \in Links |-> "absent"]

Become(l, from, to) == link[l] \in from /\ link' = [link EXCEPT ![l] = to]

Connect(l) == Become(l, {"absent"}, "linked")
Leave(l)   == Become(l, {"linked"}, "leaving")
End(l)     == Become(l, {"leaving"}, "ended")

\* Cashy may end, or never begin, any link.
EndByCashy(l) == Become(l, {"absent", "linked"}, "ended")

Next == \E l \in Links : Connect(l) \/ Leave(l) \/ End(l) \/ EndByCashy(l)

Spec == Init /\ [][Next]_link /\ \A l \in Links : WF_link(End(l))
=============================================================================
