------------------------------ MODULE Commands ------------------------------
(***************************************************************************)
(* The command channel: the queue the server keeps in its store             *)
(* (internal/server/commands.go) and the agent's dispatcher that long-polls  *)
(* it (internal/agent/command.go), over a network that loses requests and    *)
(* answers.  Executors says what the dispatcher's executors do.             *)
(*                                                                          *)
(* Commands are numbered in the order they are created.  A claim happens at *)
(* most once per command, so its token is known by the command.  Time is    *)
(* what each command has left before it expires.                            *)
(***************************************************************************)
EXTENDS Executors, FiniteSets, FiniteSetsExt

CONSTANTS
    MaxCmds,            \* bound: how many commands are created
    Clients,            \* how many API clients enqueue at a time
    Requests,           \* the requests they send: sets of arguments by kind
    ttl,                \* defaultCommandTTL
    commandClaimLease,
    commandQueueLimit,
    Gates,              \* what a refresh may find: sets of {"tier1", "tier2", "analyze", "signal"}
    MaxFaults           \* bound: lost messages, agent restarts and revocations

Ids == 1..MaxCmds

ASSUME CommandsAssumption ==
    /\ MaxCmds \in Nat /\ ttl \in Nat \ {0} /\ commandClaimLease \in Nat \ {0}
    /\ commandQueueLimit \in Nat \ {0} /\ Clients \in Nat /\ MaxFaults \in Nat

VARIABLES
    cmd,       \* the commands table
    audit,     \* how many rows with each outcome command_audit holds for each command
    created,   \* how many commands there are
    counted,   \* requests that have passed the count of the queue
    revoked,   \* agents.revoked_at is set
    polls,     \* poll handlers at the server, by whether their client listens
    pc,        \* the dispatcher: idle, polling, claimed, running, posting
    held,      \* the command the dispatcher has
    posts,     \* result requests on their way or in their handler
    runs,      \* how often each command was executed
    faults     \* faults so far

server == <<cmd, audit, created, counted, revoked>>
dispatcher == <<pc, held, runs>>
vars == <<server, polls, dispatcher, posts, faults, execVars>>

NoCmd == [state |-> "none", left |-> 0, claimed |-> FALSE, req |-> [kind |-> "none", args |-> {}]]
Terminal == {"done", "failed", "expired"}
Outcomes == {"ok", "error", "rejected"}
Entries == {"requested", "expired"} \cup Outcomes

Init ==
    /\ ExecInit
    /\ cmd = [i \in Ids |-> NoCmd] /\ audit = [i \in Ids |-> [o \in Entries |-> 0]] /\ created = 0
    /\ counted = 0 /\ revoked = FALSE /\ polls = {}
    /\ pc = "idle" /\ held = 0 /\ posts = {} /\ runs = [i \in Ids |-> 0] /\ faults = 0

-----------------------------------------------------------------------------
(* What both ends check of a request (internal/command) *)

\* The arguments each kind requires and the others it takes.
Validate(req) ==
    CASE req.kind = "explain" ->
           "queryid" \in req.args /\ req.args \subseteq {"queryid", "datname", "analyze"}
      [] req.kind \in {"cancel", "terminate"} ->
           "pid" \in req.args /\ req.args \subseteq {"pid", "backend_start"}
      [] req.kind = "pgstattuple" ->
           {"schema", "relation"} \subseteq req.args /\ req.args \subseteq {"schema", "relation", "datname"}
      [] OTHER -> FALSE

Allowed(req, gates) ==
    CASE req.kind = "explain" -> "tier1" \in gates /\ ("analyze" \in req.args => "analyze" \in gates)
      [] req.kind \in {"cancel", "terminate"} -> {"tier2", "signal"} \subseteq gates
      [] req.kind = "pgstattuple" -> "tier1" \in gates
      [] OTHER -> FALSE

-----------------------------------------------------------------------------
(* The queue *)

Pending == {i \in Ids : cmd[i].state = "pending" /\ cmd[i].left > 0}
\* Mutant: only what was never claimed expires.
ExpirablePending(t) == {i \in Ids : t[i].state = "pending" /\ t[i].left = 0}
Expirable(t) == {i \in Ids : t[i].state \in {"pending", "claimed"} /\ t[i].left = 0}

Note(a, S, outcome) == [i \in Ids |-> IF i \in S THEN [a[i] EXCEPT ![outcome] = @ + 1] ELSE a[i]]

\* One statement: what is over is expired and audited.
expireCommands ==
    /\ cmd' = [i \in Ids |-> IF i \in Expirable(cmd) THEN [cmd[i] EXCEPT !.state = "expired"] ELSE cmd[i]]
    /\ audit' = Note(audit, Expirable(cmd), "expired")

\* enqueue counts the queue, and inserts in a second statement.
EnqueueCount ==
    /\ counted < Clients /\ created < MaxCmds
    /\ Cardinality(Pending) < commandQueueLimit
    /\ counted' = counted + 1
    /\ UNCHANGED <<cmd, audit, created, revoked, polls, dispatcher, posts, faults, execVars>>

EnqueueInsert ==
    /\ counted > 0 /\ counted' = counted - 1
    /\ \/ created = MaxCmds /\ UNCHANGED <<cmd, audit, created>>
       \/ \E req \in {r \in Requests : Validate(r)} :
            /\ created < MaxCmds /\ created' = created + 1
            /\ cmd' = [cmd EXCEPT ![created + 1] =
                         [state |-> "pending", left |-> ttl, claimed |-> FALSE, req |-> req]]
            /\ audit' = Note(audit, {created + 1}, "requested")
    /\ UNCHANGED <<revoked, polls, dispatcher, posts, faults, execVars>>

\* A read of a command's state expires first.
Get ==
    /\ Expirable(cmd) # {} /\ expireCommands
    /\ UNCHANGED <<created, counted, revoked, polls, dispatcher, posts, faults, execVars>>

Revoke ==
    /\ faults < MaxFaults /\ faults' = faults + 1
    /\ revoked' = ~revoked
    /\ UNCHANGED <<cmd, audit, created, counted, polls, dispatcher, posts, execVars>>

Tick ==
    /\ \E i \in Ids : cmd[i].left > 0 /\ cmd[i].state \in {"pending", "claimed"}
    /\ cmd' = [i \in Ids |-> IF cmd[i].state \in {"pending", "claimed"}
                               THEN [cmd[i] EXCEPT !.left = Max({@ - 1, 0})] ELSE cmd[i]]
    /\ UNCHANGED <<audit, created, counted, revoked, polls, dispatcher, posts, faults, execVars>>

-----------------------------------------------------------------------------
(* Polling *)

\* The request is not refused: the agent is not revoked.
Poll ==
    /\ pc = "idle" /\ ~revoked
    /\ pc' = "polling" /\ polls' = polls \cup {"heard"}
    /\ UNCHANGED <<server, held, runs, posts, faults, execVars>>

\* Each round of the wait expires, then claims the oldest: its lease starts.
Sweep ==
    /\ polls # {} /\ expireCommands
    /\ UNCHANGED <<created, counted, revoked, polls, dispatcher, posts, faults, execVars>>

Claimed(i) == [cmd EXCEPT ![i].state = "claimed", ![i].claimed = TRUE,
                          ![i].left = Max({@, commandClaimLease})]

\* Mutant: any command that is not over can be claimed.
ClaimableAgain == {i \in Ids : cmd[i].state \in {"pending", "claimed"} /\ cmd[i].left > 0}
Claimable == IF revoked THEN {} ELSE Pending

Claim(p) ==
    /\ p \in polls /\ Claimable # {}
    /\ LET i == Min(Claimable) IN
         /\ cmd' = Claimed(i)
         /\ IF p = "heard" THEN pc' = "claimed" /\ held' = i ELSE UNCHANGED <<pc, held>>
    /\ polls' = polls \ {p}
    /\ UNCHANGED <<audit, created, counted, revoked, runs, posts, faults, execVars>>

\* The wait is over, or the handler notices that its client has gone.
PollEmpty(p) ==
    /\ p \in polls /\ polls' = polls \ {p}
    /\ pc' = IF p = "heard" THEN "idle" ELSE pc
    /\ UNCHANGED <<server, held, runs, posts, faults, execVars>>

\* The connection of a poll breaks while its handler waits.
PollLost ==
    /\ faults < MaxFaults /\ faults' = faults + 1
    /\ "heard" \in polls /\ polls' = {"gone"}
    /\ pc' = "idle"
    /\ UNCHANGED <<server, held, runs, posts, execVars>>

-----------------------------------------------------------------------------
(* Dispatching *)

Req == cmd[held].req

\* The result is posted with the command's claim token.
Post(outcome) ==
    /\ pc' = "posting"
    /\ posts' = posts \cup {[id |-> held, outcome |-> outcome, looked |-> FALSE]}

\* The capabilities are refreshed first: a failure is an error, a closed gate
\* or a target it does not monitor a rejection.
Refuse ==
    /\ pc = "claimed"
    /\ \/ (~Validate(Req) \/ \E gates \in Gates : ~Allowed(Req, gates)) /\ Post("rejected")
       \/ Post("error")
    /\ UNCHANGED <<server, polls, held, runs, faults, execVars>>

ExecKind == IF Req.kind \in {"cancel", "terminate"} THEN "signal" ELSE Req.kind

Run ==
    /\ pc = "claimed" /\ Validate(Req) /\ \E gates \in Gates : Allowed(Req, gates)
    /\ BeginExec(ExecKind, "analyze" \in Req.args, IF "backend_start" \in Req.args THEN 1 ELSE 0)
    /\ pc' = "running" /\ runs' = [runs EXCEPT ![held] = @ + 1]
    /\ UNCHANGED <<server, polls, held, posts, faults>>

Execute ==
    /\ pc = "running" /\ ExecStep
    /\ UNCHANGED <<server, polls, dispatcher, posts, faults>>

OtherUsers ==
    /\ pc = "running" /\ Others
    /\ UNCHANGED <<server, polls, dispatcher, posts, faults>>

Executed ==
    /\ pc = "running" /\ EndExec /\ Post(job.outcome)
    /\ UNCHANGED <<server, polls, held, runs, faults>>

\* The answer arrives; the dispatcher polls again, after a wait if it failed.
Posted ==
    /\ pc = "posting" /\ ~\E p \in posts : p.id = held
    /\ pc' = "idle" /\ held' = 0
    /\ UNCHANGED <<server, polls, runs, posts, faults, execVars>>

\* A request is lost on its way; it is not sent again.
PostLost ==
    /\ faults < MaxFaults /\ faults' = faults + 1
    /\ \E p \in posts : ~p.looked /\ posts' = posts \ {p}
    /\ UNCHANGED <<server, polls, dispatcher, execVars>>

\* The agent's process ends; its sessions end with it, its requests need not.
Restart ==
    /\ faults < MaxFaults /\ faults' = faults + 1
    /\ pc' = "idle" /\ held' = 0
    /\ polls' = IF polls = {} THEN {} ELSE {"gone"}
    /\ job' = NoJob /\ session' = Closed /\ pooled' = Closed
    /\ UNCHANGED <<server, runs, posts, backend, name, acted>>

-----------------------------------------------------------------------------
(* Results *)

\* The transaction first reads whether the agent is revoked.
ResultLookup(p) ==
    /\ p \in posts /\ ~p.looked
    /\ posts' = IF revoked THEN posts \ {p} ELSE (posts \ {p}) \cup {[p EXCEPT !.looked = TRUE]}
    /\ UNCHANGED <<server, polls, dispatcher, faults, execVars>>

\* Mutant: a result is taken for a command that was claimed, expired or not.
TakesLate(i) == cmd[i].claimed
Takes(i) == cmd[i].state = "claimed"

\* One that is still claimed takes the result, with its artifact and its audit
\* entry; an expired one only takes the entry.
ResultApply(p) ==
    /\ p \in posts /\ p.looked /\ posts' = posts \ {p}
    /\ \/ /\ Takes(p.id)
          /\ cmd' = [cmd EXCEPT ![p.id].state = IF p.outcome = "ok" THEN "done" ELSE "failed"]
          /\ audit' = Note(audit, {p.id}, p.outcome)
       \/ /\ ~Takes(p.id)
          /\ audit' = IF cmd[p.id].state = "expired" THEN Note(audit, {p.id}, p.outcome) ELSE audit
          /\ UNCHANGED cmd
    /\ UNCHANGED <<created, counted, revoked, polls, dispatcher, faults, execVars>>

-----------------------------------------------------------------------------
Next ==
    \/ EnqueueCount \/ EnqueueInsert
    \/ Get \/ Revoke \/ Tick
    \/ Poll \/ Sweep \/ PollLost \/ \E p \in {"heard", "gone"} : Claim(p) \/ PollEmpty(p)
    \/ Refuse \/ Run \/ Execute \/ OtherUsers \/ Executed \/ Posted \/ PostLost \/ Restart
    \/ \E p \in posts : ResultLookup(p) \/ ResultApply(p)

(***************************************************************************)
(* Time passes, and an operator who waits for a command keeps reading its   *)
(* state.  Nothing is assumed of the agent: it may stop for good.           *)
(***************************************************************************)
Spec == Init /\ [][Next]_vars /\ WF_vars(Tick) /\ WF_vars(Get)

-----------------------------------------------------------------------------
Results(i) == audit[i]["ok"] + audit[i]["error"] + audit[i]["rejected"]

(* The audit tells what became of a command: one request; one result that   *)
(* agrees with the state of a finished command and no expiry; one expiry of *)
(* an expired command, and the agent's own result at most once after it,    *)
(* if the agent had claimed it.  Sweeps of polls and reads, late results    *)
(* and lost answers interleave.                                             *)
AuditComplete ==
    \A i \in Ids :
        /\ audit[i]["requested"] = (IF cmd[i].state = "none" THEN 0 ELSE 1)
        /\ audit[i]["expired"] = (IF cmd[i].state = "expired" THEN 1 ELSE 0)
        /\ cmd[i].state = "done" => audit[i]["ok"] = 1 /\ Results(i) = 1
        /\ cmd[i].state = "failed" => audit[i]["ok"] = 0 /\ Results(i) = 1
        /\ cmd[i].state = "expired" => Results(i) <= (IF cmd[i].claimed THEN 1 ELSE 0)
        /\ cmd[i].state \in {"none", "pending", "claimed"} => Results(i) = 0

(* A command is executed at most once, although polls are repeated after    *)
(* lost answers and restarts, and only by an agent that claimed it.         *)
AtMostOnce == \A i \in Ids : runs[i] <= 1 /\ (runs[i] = 1 => cmd[i].claimed)

(* "overshoots the limit by at most that many" (commands.go): the commands  *)
(* waiting for an agent exceed the limit by the requests in flight at most. *)
QueueBound == Cardinality(Pending) <= commandQueueLimit + Clients - 1

(* Every command comes to an end, whatever becomes of the agent that has    *)
(* claimed it: done, failed or expired, as long as somebody reads.          *)
Settled == \A i \in Ids : [](cmd[i].state \in {"pending", "claimed"} => <>(cmd[i].state \in Terminal))
=============================================================================
