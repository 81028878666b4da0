---------------------------- MODULE MCDelivery ----------------------------
(* Instances of Delivery for TLC. *)
EXTENDS Delivery, TLC

\* The first record may be unusable, the others are plain.
FirstBad == [n \in Recs |->
    IF n = 1 THEN {"good", "undecodable", "unencodable"} ELSE {"good"}]

AllModes == {"ok", "down", "throttled", "unauthorized", "revoked", "misrouted",
             "forbidden", "failing"}

FewModes == AllModes \ {"throttled"}
===========================================================================
