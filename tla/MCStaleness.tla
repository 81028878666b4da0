----------------------------- MODULE MCStaleness -----------------------------
(***************************************************************************)
(* Instance of Staleness for TLC: two replicas, a primary that falls       *)
(* silent, may come back and may be revoked, a standby, and a slot.        *)
(***************************************************************************)
EXTENDS Staleness, TLC

Happening(seen, s) == [seen |-> seen, role |-> ("a" :> "primary"), revoked |-> {}, slot |-> s]

All == Happening({"a", "b"}, "active")
OnlyB == Happening({"b"}, "inactive")
Neither == Happening({}, "none")

MCStory ==
    << {All},
       {OnlyB, [OnlyB EXCEPT !.revoked = {"a"}]},
       {[OnlyB EXCEPT !.slot = "lost"]},
       {Neither, All},
       {OnlyB},
       {OnlyB} >>
=============================================================================
