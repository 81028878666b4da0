------------------------------ MODULE MCAlerts ------------------------------
(***************************************************************************)
(* Instance of Alerts for TLC: two replicas, one channel, a metric rule,   *)
(* a spell and a stored pulse rule that a silence covers for a while.      *)
(***************************************************************************)
EXTENDS Alerts, TLC

ProcSymmetry == Permutations(Procs)

MCRuleOrder == <<"agent_down", "instance_unreachable", "custom">>

MCRule ==
    [r \in Range(MCRuleOrder) |->
        CASE r = "agent_down" -> [event |-> FALSE, type |-> "", for |-> 1, builtin |-> TRUE,
                                  severity |-> "critical"]
          [] r = "instance_unreachable" -> [event |-> TRUE, type |-> "instance_unreachable",
                                            for |-> 0, builtin |-> TRUE, severity |-> "critical"]
          [] r = "custom" -> [event |-> TRUE, type |-> "orphan_standby", for |-> 0,
                              builtin |-> FALSE, severity |-> "warning"]]

MCSilences ==
    {[startsAt |-> 3, endsAt |-> 4, matchers |->
        {[name |-> "rule_id", value |-> "custom", negate |-> FALSE],
         [name |-> "severity", value |-> "critical", negate |-> TRUE]}]}

\* The instance falls silent and comes back or not; the pulse is seen twice.
Silent(seen) == [reports |-> FALSE, events |-> seen, revoked |-> FALSE, disabled |-> FALSE]
Back == [Silent({}) EXCEPT !.reports = TRUE]

MCStory ==
    << {Silent({"instance_unreachable", "orphan_standby"})},
       {Silent({}), Back},
       {Back},
       {[Back EXCEPT !.events = {"orphan_standby"}],
        [Silent({}) EXCEPT !.revoked = TRUE, !.disabled = TRUE]} >>

MCChannels == <<"slack">>
=============================================================================
