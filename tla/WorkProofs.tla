----------------------------- MODULE WorkProofs -----------------------------
(***************************************************************************)
(* The work an agent is given, of two kinds.  Commands, for every number of *)
(* commands and clients, every limit, lifetime and number of faults.  And   *)
(* checks: rebuilds, revocation and shutdown of the schedulers, for any     *)
(* number of checks, workers and changes of the target.  Nothing relates    *)
(* the two: each has its own variables, specification and theorems.         *)
(***************************************************************************)
EXTENDS Commands, Collector, FiniteSetTheorems, WellFoundedInduction, TLAPS

-----------------------------------------------------------------------------
(* Commands *)

States == {"none", "pending", "claimed", "done", "failed", "expired"}
Command == [state : States, left : Nat, claimed : BOOLEAN, req : Requests \cup {NoCmd.req}]

TableOK == cmd \in [Ids -> Command] /\ created \in 0..MaxCmds

\* What a step of the queue does to the table: nothing, an insert, a claim, or
\* new states and lifetimes for commands that it leaves as claimed as they were.
Inserts ==
    \E req \in Requests :
        /\ created < MaxCmds /\ created' = created + 1
        /\ cmd' = [cmd EXCEPT ![created + 1] = [state |-> "pending", left |-> ttl, claimed |-> FALSE, req |-> req]]
Claims == \E i \in Pending : cmd' = Claimed(i) /\ created' = created
Moves ==
    /\ created' = created /\ cmd' \in [Ids -> Command]
    /\ \A i \in Ids : /\ cmd'[i].claimed = cmd[i].claimed
                      /\ cmd'[i].state = "pending" => cmd[i].state = "pending" /\ cmd'[i].left <= cmd[i].left

\* Why a command runs once.  A claim takes only what waits, and what waits was
\* never claimed; what was never claimed never ran; and the dispatcher holds a
\* command that is claimed and has not run until it starts it.
OnceInv ==
    /\ runs \in [Ids -> {0, 1}]
    /\ \A i \in Ids : cmd[i].state = "pending" => ~cmd[i].claimed
    /\ \A i \in Ids : runs[i] = 1 => cmd[i].claimed
    /\ \A i \in Ids : i > created => cmd[i].state # "pending" /\ ~cmd[i].claimed
    /\ pc = "claimed" => held \in Ids /\ cmd[held].claimed /\ runs[held] = 0

\* What every step but the start of an execution and the answer to a poll does
\* to the dispatcher.
Quiet == runs' = runs /\ (pc' # "claimed" \/ (pc' = pc /\ held' = held))

\* Every request that has passed the count found the queue below its limit, so
\* what waits and what is about to wait stay below the limit plus the clients.
QueueInv ==
    /\ counted \in 0..Clients
    /\ Cardinality(Pending) + counted <= commandQueueLimit + Clients - 1

\* Why the pool stays clean and an act hits what was checked.  Only an EXPLAIN
\* changes its session's role or leaves something in it; outside an execution
\* there is no session; what is about to be scanned was found to be a table, and
\* what is about to be signalled was found to be the session the operator saw.
Sessions == [open : BOOLEAN, tx : BOOLEAN, role : {"own", "read_all_data"}, residue : BOOLEAN]
Going == {"connected", "begin", "guard", "drop", "analyze", "plan", "extension", "resolve", "answer"}
Steps == Going \cup {"none", "connect", "scan", "signal", "done"}
Jobs == [kind : {"none", "explain", "pgstattuple", "signal"}, analyze : BOOLEAN, seen : {0, 1},
         step : Steps, checked : {0, 1, 2}, outcome : Outcomes \cup {"none"}]
Harmless(s) == s.role = "own" /\ ~s.residue
ExecInv ==
    /\ job \in Jobs /\ session \in Sessions /\ name \in {1, 2} /\ backend \in [start : {1, 2}, own : BOOLEAN]
    /\ PoolClean /\ ActsOnWhatWasChecked
    /\ job.step \in {"none", "connect", "done"} => session = Closed
    /\ job.step = "done" => job.outcome \in Outcomes
    /\ job.kind # "explain" => Harmless(session)
    /\ At("pgstattuple", "scan") => job.checked = 1
    /\ At("signal", "signal") => job.seen \in {0, job.checked}

\* Why the audit is right.  Told is AuditComplete for one command c and its rows
\* a; Open says that the agent which claimed c may still report on it.  The
\* dispatcher reports on one command at a time, so each report is the only one.
Row == [Entries -> Nat]
Sum(a) == a["ok"] + a["error"] + a["rejected"]
Told(c, a) ==
    /\ a["requested"] = (IF c.state = "none" THEN 0 ELSE 1)
    /\ a["expired"] = (IF c.state = "expired" THEN 1 ELSE 0)
    /\ c.state = "done" => a["ok"] = 1 /\ Sum(a) = 1
    /\ c.state = "failed" => a["ok"] = 0 /\ Sum(a) = 1
    /\ c.state = "expired" => Sum(a) <= (IF c.claimed THEN 1 ELSE 0)
    /\ c.state \in {"none", "pending", "claimed"} => Sum(a) = 0
Open(c, a) == c.claimed /\ c.state \in {"claimed", "expired"} /\ Sum(a) = 0
Reports == [id : Ids, outcome : Outcomes, looked : BOOLEAN]
AuditInv ==
    /\ audit \in [Ids -> Row] /\ \A i \in Ids : Told(cmd[i], audit[i])
    /\ \A i \in Ids : i > created => cmd[i].state = "none"
    /\ posts \subseteq Reports /\ \A p \in posts : Open(cmd[p.id], audit[p.id])
    /\ \A p, q \in posts : p.id = q.id => p = q
    /\ pc \in {"claimed", "running"} =>
         held \in Ids /\ Open(cmd[held], audit[held]) /\ \A p \in posts : p.id # held

-----------------------------------------------------------------------------
\* The larger of two numbers, as the claim's GREATEST and the clock use it.
LEMMA MaxOfTwo ==
  ASSUME NEW a \in Int, NEW b \in Int
  PROVE  Max({a, b}) = IF a >= b THEN a ELSE b
  BY DEF Max

\* The clock leaves no negative lifetime and prolongs none.
LEMMA TickMoves ==
  ASSUME TableOK, Tick
  PROVE  Moves
  <1> DEFINE t(i) == IF cmd[i].state \in {"pending", "claimed"}
                     THEN [cmd[i] EXCEPT !.left = Max({@ - 1, 0})] ELSE cmd[i]
  <1>1. cmd' = [i \in Ids |-> t(i)] /\ created' = created
    BY Zenon DEF Tick
  <1>2. ASSUME NEW i \in Ids
        PROVE  /\ t(i) \in Command /\ t(i).claimed = cmd[i].claimed
               /\ t(i).state = cmd[i].state /\ t(i).left <= cmd[i].left
    <2>1. cmd[i] \in Command
      BY Zenon DEF TableOK
    <2>2. Max({cmd[i].left - 1, 0}) = IF cmd[i].left - 1 >= 0 THEN cmd[i].left - 1 ELSE 0
      BY <2>1, MaxOfTwo DEF Command, States
    <2> QED
      BY <2>1, <2>2 DEF Command, States
  <1> HIDE DEF t
  <1> QED
    BY <1>1, <1>2, Zenon DEF Moves

\* A sweep (expireCommands) expires commands and makes none wait again.
LEMMA SweepMoves ==
  ASSUME TableOK, expireCommands, created' = created
  PROVE  Moves
  <1> DEFINE t(i) == IF i \in Expirable(cmd) THEN [cmd[i] EXCEPT !.state = "expired"] ELSE cmd[i]
  <1>1. cmd' = [i \in Ids |-> t(i)]
    BY Zenon DEF expireCommands
  <1>2. ASSUME NEW i \in Ids
        PROVE  /\ t(i) \in Command /\ t(i).claimed = cmd[i].claimed
               /\ t(i).state = "pending" => cmd[i].state = "pending" /\ t(i).left <= cmd[i].left
    <2>1. cmd[i] \in Command
      BY Zenon DEF TableOK
    <2>2. PICK e : e = [cmd[i] EXCEPT !.state = "expired"]
      BY Zenon
    <2>3. e \in Command /\ e.claimed = cmd[i].claimed /\ e.state # "pending"
      BY <2>1, <2>2, Zenon DEF Command, States
    <2>4. t(i) = e \/ t(i) = cmd[i]
      BY <2>2, Zenon
    <2>5. cmd[i].left <= cmd[i].left
      BY <2>1 DEF Command, States
    <2> HIDE DEF t
    <2>6. CASE t(i) = e
      BY <2>3, <2>6, Zenon
    <2>7. CASE t(i) = cmd[i]
      BY <2>1, <2>5, <2>7, Zenon
    <2> QED
      BY <2>4, <2>6, <2>7, Zenon
  <1> HIDE DEF t
  <1> QED
    BY <1>1, <1>2, Zenon DEF Moves

\* A result ends its command (CommandService.result) or leaves it alone.
LEMMA ResultMoves ==
  ASSUME TableOK, NEW p \in posts, ResultApply(p)
  PROVE  Moves
  <1>1. created' = created
    BY Zenon DEF ResultApply
  <1>2. CASE cmd' = cmd
    BY <1>1, <1>2 DEF Moves, TableOK, Command
  <1>3. CASE \E st \in States \ {"pending"} : cmd' = [cmd EXCEPT ![p.id].state = st]
    <2>1. PICK st \in States \ {"pending"} : cmd' = [cmd EXCEPT ![p.id].state = st]
      BY <1>3, Zenon
    <2>2. ASSUME NEW i \in Ids
          PROVE  /\ cmd'[i] \in Command /\ cmd'[i].claimed = cmd[i].claimed
                 /\ cmd'[i].state = "pending" => cmd[i].state = "pending" /\ cmd'[i].left <= cmd[i].left
      <3>1. cmd[i] \in Command
        BY Zenon DEF TableOK
      <3>2. cmd'[i] = IF i = p.id THEN [cmd[i] EXCEPT !.state = st] ELSE cmd[i]
        BY <2>1, Zenon DEF TableOK
      <3> QED
        BY <3>1, <3>2 DEF Command, States
    <2>3. cmd' \in [Ids -> Command]
      BY <2>1, <2>2, Zenon DEF TableOK
    <2> QED
      BY <1>1, <2>2, <2>3, Zenon DEF Moves
  <1>4. cmd' = cmd \/ \E st \in States \ {"pending"} : cmd' = [cmd EXCEPT ![p.id].state = st]
    <2>1. "done" \in States \ {"pending"} /\ "failed" \in States \ {"pending"}
      BY Zenon DEF States
    <2>2. \/ cmd' = cmd
          \/ cmd' = [cmd EXCEPT ![p.id].state = IF p.outcome = "ok" THEN "done" ELSE "failed"]
      BY Zenon DEF ResultApply
    <2> QED
      BY <2>1, <2>2, Zenon
  <1> QED
    BY <1>2, <1>3, <1>4, Zenon

\* A set of command numbers that is not empty has a least one, so Min picks a
\* member.
LEMMA MinMember ==
  ASSUME NEW S, S \subseteq Nat, S # {}
  PROVE  Min(S) \in S
  <1> DEFINE R == {ss \in Nat \X Nat : ss[1] < ss[2]}
  <1>1. IsWellFoundedOn(R, Nat)
    BY NatLessThanWellFounded, Zenon DEF OpToRel
  <1>2. PICK x \in S : \A y \in S : ~(<<y, x>> \in R)
    BY <1>1, WFMin, Zenon
  <1>3. \A y \in S : x <= y
    <2> TAKE y \in S
    <2>1. y \in Nat /\ x \in Nat
      BY Zenon
    <2>2. ~(<<y, x>> \in R)
      BY <1>2, Zenon
    <2> QED
      BY <2>1, <2>2
  <1> QED
    BY <1>3, Zenon DEF Min

\* The command a poll hands out is claimed in the same statement that picks it
\* among those that wait.
LEMMA ClaimClaims ==
  ASSUME TableOK, NEW p, Claim(p)
  PROVE  Claims
  <1>1. Claimable # {} /\ Claimable \subseteq Pending /\ Claimable \subseteq Nat
    BY DEF Claim, Claimable, Pending, Ids
  <1>2. Min(Claimable) \in Pending
    BY <1>1, MinMember, Zenon
  <1> QED
    BY <1>2, Zenon DEF Claim, Claims

\* Steps that leave the commands table alone.
LEMMA KeptMoves ==
  ASSUME TableOK, cmd' = cmd, created' = created
  PROVE  Moves
  BY DEF Moves, TableOK, Command

\* A request that passes enqueue's count is inserted as a new row, unless the
\* bound on commands is reached.
LEMMA InsertInserts ==
  ASSUME TableOK, EnqueueInsert
  PROVE  Inserts \/ Moves
  <1>1. CASE UNCHANGED <<cmd, created>>
    BY <1>1, KeptMoves, Zenon
  <1>2. CASE ~UNCHANGED <<cmd, created>>
    BY <1>2, Zenon DEF EnqueueInsert, Inserts
  <1> QED
    BY <1>1, <1>2, Zenon

\* Every step of the system changes the table in one of the three ways.
LEMMA StepKinds ==
  ASSUME TableOK, [Next]_vars
  PROVE  Inserts \/ Claims \/ Moves
  <1>1. CASE cmd' = cmd /\ created' = created
    BY <1>1, KeptMoves, Zenon
  <1>2. CASE EnqueueInsert
    BY <1>2, InsertInserts, Zenon
  <1>3. CASE Get \/ Sweep
    BY <1>3, SweepMoves, Zenon DEF Get, Sweep
  <1>4. CASE Tick
    BY <1>4, TickMoves, Zenon
  <1>5. CASE \E p \in {"heard", "gone"} : Claim(p)
    BY <1>5, ClaimClaims, Zenon
  <1>6. CASE \E p \in posts : ResultApply(p)
    BY <1>6, ResultMoves, Zenon
  <1>7. CASE EnqueueCount \/ Revoke \/ Poll \/ PollLost \/ \E p \in {"heard", "gone"} : PollEmpty(p)
    <2>1. cmd' = cmd /\ created' = created
      BY <1>7, Zenon DEF EnqueueCount, Revoke, Poll, PollLost, PollEmpty, server
    <2> QED
      BY <2>1, KeptMoves, Zenon
  <1>8. CASE Refuse \/ Run \/ Execute \/ OtherUsers \/ Executed \/ Posted \/ PostLost \/ Restart
    <2>1. cmd' = cmd /\ created' = created
      BY <1>8, Zenon DEF Refuse, Run, Execute, OtherUsers, Executed, Posted, PostLost, Restart, server
    <2> QED
      BY <2>1, KeptMoves, Zenon
  <1>9. CASE \E p \in posts : ResultLookup(p)
    <2>1. cmd' = cmd /\ created' = created
      BY <1>9, Zenon DEF ResultLookup, server
    <2> QED
      BY <2>1, KeptMoves, Zenon
  <1>10. CASE UNCHANGED vars
    BY <1>10, KeptMoves, Zenon DEF vars, server
  <1> QED
    BY <1>2, <1>3, <1>4, <1>5, <1>6, <1>7, <1>8, <1>9, <1>10, Zenon DEF Next

\* The table keeps its type: a claim keeps the longer of lease and lifetime.
LEMMA TableKept ==
  ASSUME TableOK, Inserts \/ Claims \/ Moves
  PROVE  TableOK'
  <1>1. CASE Moves
    BY <1>1, Zenon DEF Moves, TableOK
  <1>2. CASE Inserts
    <2>1. PICK req \in Requests :
            /\ created < MaxCmds /\ created' = created + 1
            /\ cmd' = [cmd EXCEPT ![created + 1] = [state |-> "pending", left |-> ttl, claimed |-> FALSE, req |-> req]]
      BY <1>2, Zenon DEF Inserts
    <2>2. [state |-> "pending", left |-> ttl, claimed |-> FALSE, req |-> req] \in Command
      BY CommandsAssumption, Zenon DEF Command, States
    <2>3. PICK c \in Command : cmd' = [cmd EXCEPT ![created + 1] = c]
      BY <2>1, <2>2, Zenon
    <2>4. cmd' \in [Ids -> Command]
      BY <2>3, Zenon DEF TableOK
    <2>5. created' \in 0..MaxCmds
      BY <2>1, CommandsAssumption DEF TableOK
    <2> QED
      BY <2>4, <2>5, Zenon DEF TableOK
  <1>3. CASE Claims
    <2>1. PICK i \in Pending : cmd' = Claimed(i) /\ created' = created
      BY <1>3, Zenon DEF Claims
    <2>2. i \in Ids /\ cmd[i] \in Command
      BY Zenon DEF TableOK, Pending
    <2>3. PICK c1 : c1 = [cmd EXCEPT ![i].state = "claimed"]
      BY Zenon
    <2>4. c1 \in [Ids -> Command] /\ c1[i].left = cmd[i].left
      BY <2>2, <2>3, Zenon DEF TableOK, Command, States
    <2>5. PICK c2 : c2 = [c1 EXCEPT ![i].claimed = TRUE]
      BY Zenon
    <2>6. c2 \in [Ids -> Command] /\ c2[i].left = cmd[i].left
      BY <2>2, <2>4, <2>5, Zenon DEF Command, States
    <2>7. cmd' = [c2 EXCEPT ![i].left = Max({@, commandClaimLease})]
      BY <2>1, <2>3, <2>5, Zenon DEF Claimed
    <2>8. Max({c2[i].left, commandClaimLease}) \in Nat
      BY <2>2, <2>6, MaxOfTwo, CommandsAssumption DEF Command
    <2>9. cmd' \in [Ids -> Command]
      BY <2>2, <2>6, <2>7, <2>8, Zenon DEF Command, States
    <2> QED
      BY <2>1, <2>9, Zenon DEF TableOK
  <1> QED
    BY <1>1, <1>2, <1>3, Zenon

\* The claim's effect, by fields: the row is claimed and no longer waits, and no
\* other row changes.
LEMMA ClaimFields ==
  ASSUME TableOK, NEW i \in Pending, cmd' = Claimed(i)
  PROVE  /\ cmd'[i].state = "claimed" /\ cmd'[i].claimed
         /\ \A j \in Ids \ {i} : cmd'[j] = cmd[j]
  <1>1. i \in Ids /\ cmd[i] \in Command
    BY Zenon DEF TableOK, Pending
  <1>2. PICK c1 : c1 = [cmd EXCEPT ![i].state = "claimed"]
    BY Zenon
  <1>3. /\ c1 \in [Ids -> Command] /\ c1[i].state = "claimed"
        /\ \A j \in Ids \ {i} : c1[j] = cmd[j]
    BY <1>1, <1>2, Zenon DEF TableOK, Command, States
  <1>4. PICK c2 : c2 = [c1 EXCEPT ![i].claimed = TRUE]
    BY Zenon
  <1>5. /\ c2 \in [Ids -> Command] /\ c2[i].state = "claimed" /\ c2[i].claimed
        /\ \A j \in Ids \ {i} : c2[j] = cmd[j]
    BY <1>1, <1>3, <1>4, Zenon DEF Command, States
  <1>6. cmd' = [c2 EXCEPT ![i].left = Max({@, commandClaimLease})]
    BY <1>2, <1>4, Zenon DEF Claimed
  <1> QED
    BY <1>1, <1>5, <1>6 DEF Command

\* The insert's effect, by fields.
LEMMA InsertFields ==
  ASSUME TableOK, Inserts
  PROVE  /\ created + 1 \in Ids /\ created' = created + 1
         /\ ~cmd'[created + 1].claimed
         /\ \A j \in Ids \ {created + 1} : cmd'[j] = cmd[j]
  <1>1. PICK req \in Requests :
          /\ created < MaxCmds /\ created' = created + 1
          /\ cmd' = [cmd EXCEPT ![created + 1] = [state |-> "pending", left |-> ttl, claimed |-> FALSE, req |-> req]]
    BY Zenon DEF Inserts
  <1>2. created + 1 \in Ids
    BY <1>1, CommandsAssumption DEF TableOK, Ids
  <1>3. PICK c : c = [state |-> "pending", left |-> ttl, claimed |-> FALSE, req |-> req]
    BY Zenon
  <1>4. ~c.claimed
    BY <1>3, Zenon
  <1>5. cmd' = [cmd EXCEPT ![created + 1] = c]
    BY <1>1, <1>3, Zenon
  <1> QED
    BY <1>1, <1>2, <1>4, <1>5, Zenon DEF TableOK

\* A step that is quiet for the dispatcher keeps OnceInv, whatever it does to
\* the table.
LEMMA QuietOnce ==
  ASSUME TableOK, OnceInv, Inserts \/ Claims \/ Moves, Quiet
  PROVE  OnceInv'
  <1>1. CASE Moves
    BY <1>1, Zenon DEF OnceInv, Quiet, Moves
  <1>2. CASE Inserts
    <2>1. /\ created + 1 \in Ids /\ created' = created + 1 /\ created \in Nat
          /\ ~cmd'[created + 1].claimed
          /\ \A j \in Ids \ {created + 1} : cmd'[j] = cmd[j]
      BY <1>2, InsertFields DEF TableOK
    <2>2. runs[created + 1] # 1
      BY <2>1 DEF OnceInv
    <2>3. Ids \subseteq Int
      BY DEF Ids
    <2>4. /\ \A i \in Ids : (cmd[i].state = "pending" => ~cmd[i].claimed)'
          /\ \A i \in Ids : (runs[i] = 1 => cmd[i].claimed)'
      BY <2>1, <2>2, Zenon DEF OnceInv, Quiet
    <2>5. \A i \in Ids : (i > created => cmd[i].state # "pending" /\ ~cmd[i].claimed)'
      <3> TAKE i \in Ids
      <3>1. CASE i = created + 1
        BY <2>1, <3>1
      <3>2. CASE i # created + 1
        <4>1. cmd'[i] = cmd[i]
          BY <2>1, <3>2, Zenon
        <4> QED
          BY <2>1, <2>3, <4>1 DEF OnceInv
      <3> QED
        BY <3>1, <3>2, Zenon
    <2>6. (pc = "claimed" => held \in Ids /\ cmd[held].claimed /\ runs[held] = 0)'
      <3>1. SUFFICES ASSUME pc' = "claimed" PROVE held' \in Ids /\ cmd'[held'].claimed /\ runs'[held'] = 0
        BY Zenon
      <3>2. held' = held /\ held \in Ids /\ cmd[held].claimed /\ runs[held] = 0
        BY <3>1, Zenon DEF OnceInv, Quiet
      <3>3. held # created + 1
        BY <2>1, <2>3, <3>2 DEF OnceInv
      <3> QED
        BY <2>1, <3>2, <3>3, Zenon DEF Quiet
    <2>7. (runs \in [Ids -> {0, 1}])'
      BY Zenon DEF OnceInv, Quiet
    <2> QED
      BY <2>4, <2>5, <2>6, <2>7, Zenon DEF OnceInv
  <1>3. CASE Claims
    <2>1. PICK i \in Pending : cmd' = Claimed(i) /\ created' = created
      BY <1>3, Zenon DEF Claims
    <2>2. /\ cmd'[i].state = "claimed" /\ cmd'[i].claimed
          /\ \A j \in Ids \ {i} : cmd'[j] = cmd[j]
      BY <2>1, ClaimFields, Zenon
    <2>3. i \in Ids /\ cmd[i].state = "pending"
      BY Zenon DEF Pending
    <2> QED
      BY <2>1, <2>2, <2>3 DEF OnceInv, Quiet
  <1> QED
    BY <1>1, <1>2, <1>3, Zenon

\* The answer to a poll hands the dispatcher a command that has never run.
LEMMA ClaimOnce ==
  ASSUME TableOK, OnceInv, NEW p, Claim(p)
  PROVE  OnceInv'
  <1>1. PICK i \in Pending : cmd' = Claimed(i) /\ created' = created /\ (Quiet \/ (runs' = runs /\ held' = i))
    <2>1. Claimable # {} /\ Claimable \subseteq Pending /\ Claimable \subseteq Nat
      BY DEF Claim, Claimable, Pending, Ids
    <2>2. Min(Claimable) \in Pending
      BY <2>1, MinMember, Zenon
    <2> QED
      BY <2>2, Zenon DEF Claim, Quiet
  <1>2. /\ cmd'[i].state = "claimed" /\ cmd'[i].claimed
        /\ \A j \in Ids \ {i} : cmd'[j] = cmd[j]
    BY <1>1, ClaimFields, Zenon
  <1>3. i \in Ids /\ cmd[i].state = "pending"
    BY Zenon DEF Pending
  <1>4. CASE Quiet
    BY <1>1, <1>4, QuietOnce, Zenon DEF Claims
  <1>5. CASE runs' = runs /\ held' = i
    <2>1. runs[i] = 0
      BY <1>3, Zenon DEF OnceInv
    <2> QED
      BY <1>1, <1>2, <1>3, <1>5, <2>1 DEF OnceInv
  <1> QED
    BY <1>1, <1>4, <1>5, Zenon

\* The dispatcher starts the command it holds, and holds it as claimed no more.
LEMMA RunOnce ==
  ASSUME TableOK, OnceInv, Run
  PROVE  OnceInv'
  <1>1. /\ pc = "claimed" /\ pc' = "running" /\ cmd' = cmd /\ created' = created
        /\ runs' = [runs EXCEPT ![held] = @ + 1]
    BY Zenon DEF Run, server
  <1>2. runs[held] = 0 /\ held \in Ids /\ cmd[held].claimed
    BY <1>1, Zenon DEF OnceInv
  <1> QED
    BY <1>1, <1>2 DEF OnceInv

\* Every other step is quiet.
LEMMA StepQuiet ==
  ASSUME [Next]_vars
  PROVE  Quiet \/ Run \/ \E p \in {"heard", "gone"} : Claim(p)
  <1>1. CASE EnqueueCount \/ EnqueueInsert \/ Get \/ Revoke \/ Tick \/ Sweep
    BY <1>1, Zenon DEF EnqueueCount, EnqueueInsert, Get, Revoke, Tick, Sweep, dispatcher, Quiet
  <1>2. CASE Poll \/ PollLost \/ \E p \in {"heard", "gone"} : PollEmpty(p)
    BY <1>2, Zenon DEF Poll, PollLost, PollEmpty, Quiet
  <1>3. CASE Refuse \/ Executed
    BY <1>3, Zenon DEF Refuse, Executed, Post, Quiet
  <1>4. CASE Execute \/ OtherUsers \/ Posted \/ PostLost \/ Restart
    BY <1>4, Zenon DEF Execute, OtherUsers, Posted, PostLost, Restart, dispatcher, Quiet
  <1>5. CASE \E p \in posts : ResultLookup(p) \/ ResultApply(p)
    BY <1>5, Zenon DEF ResultLookup, ResultApply, dispatcher, Quiet
  <1>6. CASE UNCHANGED vars
    BY <1>6, Zenon DEF vars, dispatcher, Quiet
  <1> QED
    BY <1>1, <1>2, <1>3, <1>4, <1>5, <1>6, Zenon DEF Next

\* Every step keeps the table's type and OnceInv.
LEMMA OnceStep ==
  ASSUME TableOK, OnceInv, [Next]_vars
  PROVE  TableOK' /\ OnceInv'
  <1>1. Inserts \/ Claims \/ Moves
    BY StepKinds, Zenon
  <1>2. TableOK'
    BY <1>1, TableKept, Zenon
  <1>3. CASE Quiet
    BY <1>1, <1>2, <1>3, QuietOnce, Zenon
  <1>4. CASE Run
    BY <1>2, <1>4, RunOnce, Zenon
  <1>5. CASE \E p \in {"heard", "gone"} : Claim(p)
    BY <1>2, <1>5, ClaimOnce, Zenon
  <1> QED
    BY <1>2, <1>3, <1>4, <1>5, StepQuiet, Zenon

\* The table is empty when the server starts on a new store, and nothing ran.
LEMMA OnceInit ==
  ASSUME Init
  PROVE  TableOK /\ OnceInv
  <1>1. NoCmd \in Command /\ ~NoCmd.claimed /\ NoCmd.state # "pending"
    BY Zenon DEF NoCmd, Command, States
  <1>2. /\ cmd = [i \in Ids |-> NoCmd] /\ created = 0 /\ pc = "idle"
        /\ runs = [i \in Ids |-> 0]
    BY Zenon DEF Init
  <1>3. TableOK
    BY <1>1, <1>2, CommandsAssumption DEF TableOK
  <1>4. OnceInv
    BY <1>1, <1>2 DEF OnceInv
  <1> QED
    BY <1>3, <1>4, Zenon

\* A command is executed at most once, and only after it was claimed, however
\* many polls, restarts, lost answers, sweeps and late results there are
\* (CommandService.claim, Dispatcher.dispatch).
THEOREM ExecutedOnce == Spec => []AtMostOnce
  <1>1. Init => TableOK /\ OnceInv
    BY OnceInit, Zenon
  <1>2. TableOK /\ OnceInv /\ [Next]_vars => (TableOK /\ OnceInv)'
    BY OnceStep, Zenon
  <1>3. OnceInv => AtMostOnce
    BY DEF OnceInv, AtMostOnce
  <1> QED
    BY <1>1, <1>2, <1>3, PTL DEF Spec

-----------------------------------------------------------------------------
\* Pending is a finite set.
LEMMA PendingFinite ==
  IsFiniteSet(Pending) /\ Cardinality(Pending) \in Nat
  <1>1. IsFiniteSet(Ids)
    BY FS_Interval, CommandsAssumption DEF Ids
  <1>2. Pending \subseteq Ids
    BY Zenon DEF Pending
  <1> QED
    BY <1>1, <1>2, FS_Subset, FS_CardinalityType, Zenon

\* Only an insert adds to what waits, and it adds one.
LEMMA PendingGrows ==
  ASSUME TableOK, Inserts \/ Claims \/ Moves
  PROVE  Pending' \subseteq Pending \/ (Inserts /\ Pending' \subseteq Pending \cup {created + 1})
  <1>1. CASE Moves
    <2>1. \A i \in Ids : cmd'[i].left \in Int /\ cmd[i].left \in Int
      BY <1>1 DEF Moves, TableOK, Command
    <2> QED
      BY <1>1, <2>1 DEF Moves, Pending
  <1>2. CASE Inserts
    BY <1>2, InsertFields, Zenon DEF Pending
  <1>3. CASE Claims
    <2>1. PICK i \in Pending : cmd' = Claimed(i) /\ created' = created
      BY <1>3, Zenon DEF Claims
    <2>2. cmd'[i].state = "claimed" /\ \A j \in Ids \ {i} : cmd'[j] = cmd[j]
      BY <2>1, ClaimFields, Zenon
    <2> QED
      BY <2>2, Zenon DEF Pending
  <1> QED
    BY <1>1, <1>2, <1>3, Zenon

\* Who changes the count of requests in flight: enqueue's two statements only.
LEMMA CountSteps ==
  ASSUME [Next]_vars
  PROVE  EnqueueCount \/ EnqueueInsert \/ counted' = counted
  <1>1. CASE Get \/ Revoke \/ Tick \/ Sweep
    BY <1>1, Zenon DEF Get, Revoke, Tick, Sweep
  <1>2. CASE Poll \/ PollLost \/ \E p \in {"heard", "gone"} : Claim(p) \/ PollEmpty(p)
    BY <1>2, Zenon DEF Poll, PollLost, PollEmpty, Claim, server
  <1>3. CASE Refuse \/ Run \/ Execute \/ OtherUsers \/ Executed \/ Posted \/ PostLost \/ Restart
    BY <1>3, Zenon DEF Refuse, Run, Execute, OtherUsers, Executed, Posted, PostLost, Restart, server
  <1>4. CASE \E p \in posts : ResultLookup(p) \/ ResultApply(p)
    BY <1>4, Zenon DEF ResultLookup, ResultApply, server
  <1>5. CASE UNCHANGED vars
    BY <1>5, Zenon DEF vars, server
  <1> QED
    BY <1>1, <1>2, <1>3, <1>4, <1>5, Zenon DEF Next

\* An insert comes from a request that was counted.
LEMMA InsertCounted ==
  ASSUME TableOK, [Next]_vars, Inserts
  PROVE  EnqueueInsert
  <1>1. created' # created
    BY InsertFields DEF TableOK
  <1>2. CASE EnqueueCount \/ Get \/ Revoke \/ Tick \/ Sweep
    BY <1>1, <1>2, Zenon DEF EnqueueCount, Get, Revoke, Tick, Sweep
  <1>3. CASE Poll \/ PollLost \/ \E p \in {"heard", "gone"} : Claim(p) \/ PollEmpty(p)
    BY <1>1, <1>3, Zenon DEF Poll, PollLost, PollEmpty, Claim, server
  <1>4. CASE Refuse \/ Run \/ Execute \/ OtherUsers \/ Executed \/ Posted \/ PostLost \/ Restart
    BY <1>1, <1>4, Zenon DEF Refuse, Run, Execute, OtherUsers, Executed, Posted, PostLost, Restart, server
  <1>5. CASE \E p \in posts : ResultLookup(p) \/ ResultApply(p)
    BY <1>1, <1>5, Zenon DEF ResultLookup, ResultApply, server
  <1>6. CASE UNCHANGED vars
    BY <1>1, <1>6, Zenon DEF vars, server
  <1> QED
    BY <1>2, <1>3, <1>4, <1>5, <1>6, Zenon DEF Next

\* Every step keeps QueueInv.
LEMMA QueueStep ==
  ASSUME TableOK, QueueInv, [Next]_vars
  PROVE  QueueInv'
  <1>0. PICK n, m : n = Cardinality(Pending) /\ m = Cardinality(Pending')
    BY Zenon
  <1>1. /\ IsFiniteSet(Pending) /\ n \in Nat
        /\ IsFiniteSet(Pending') /\ m \in Nat
    <2>1. IsFiniteSet(Ids)
      BY FS_Interval, CommandsAssumption DEF Ids
    <2>2. Pending \subseteq Ids /\ Pending' \subseteq Ids
      BY Zenon DEF Pending
    <2> QED
      BY <1>0, <2>1, <2>2, FS_Subset, FS_CardinalityType, Zenon
  <1>2. Clients \in Nat /\ commandQueueLimit \in Nat \ {0}
    BY CommandsAssumption, Zenon
  <1>3. counted \in 0..Clients /\ n + counted <= commandQueueLimit + Clients - 1
    BY <1>0, Zenon DEF QueueInv
  <1>4. Pending' \subseteq Pending => m <= n
    BY <1>0, <1>1, FS_Subset, Zenon
  <1>5. Pending' \subseteq Pending \cup {created + 1} => m <= n + 1
    <2>1. IsFiniteSet(Pending \cup {created + 1}) /\ Cardinality(Pending \cup {created + 1}) \in {n, n + 1}
      BY <1>0, <1>1, FS_AddElement, Zenon
    <2>2. Pending' \subseteq Pending \cup {created + 1} => Cardinality(Pending') <= Cardinality(Pending \cup {created + 1})
      BY <2>1, FS_Subset, Zenon
    <2> QED
      BY <1>0, <1>1, <2>1, <2>2
  <1>6. Pending' \subseteq Pending \/ (Inserts /\ Pending' \subseteq Pending \cup {created + 1})
    BY StepKinds, PendingGrows, Zenon
  <1> SUFFICES counted' \in 0..Clients /\ m + counted' <= commandQueueLimit + Clients - 1
    BY <1>0, Zenon DEF QueueInv
  <1>7. CASE EnqueueInsert
    <2>1. counted > 0 /\ counted' = counted - 1
      BY <1>7, Zenon DEF EnqueueInsert
    <2>2. m <= n + 1
      BY <1>1, <1>4, <1>5, <1>6, Zenon
    <2> QED
      BY <1>1, <1>2, <1>3, <2>1, <2>2
  <1>8. CASE EnqueueCount
    <2>1. counted < Clients /\ n < commandQueueLimit /\ counted' = counted + 1 /\ cmd' = cmd
      BY <1>0, <1>8, Zenon DEF EnqueueCount
    <2>2. m = n
      BY <1>0, <2>1, Zenon DEF Pending
    <2> QED
      BY <1>1, <1>2, <1>3, <2>1, <2>2
  <1>9. CASE ~EnqueueInsert /\ counted' = counted
    <2>1. m <= n
      BY <1>4, <1>6, <1>9, InsertCounted, Zenon
    <2> QED
      BY <1>1, <1>2, <1>3, <1>9, <2>1
  <1> QED
    BY <1>7, <1>8, <1>9, CountSteps, Zenon

\* The commands that wait for an agent exceed commandQueueLimit by less than
\* the number of requests that count and insert at the same time
\* (CommandService.enqueue).
THEOREM QueueBounded == Spec => []QueueBound
  <1>1. Init => TableOK /\ OnceInv /\ QueueInv
    <2>1. ASSUME Init PROVE QueueInv
      <3>1. \A i \in Ids : cmd[i].state = "none"
        BY <2>1, Zenon DEF Init, NoCmd
      <3>2. Pending = {}
        BY <3>1, Zenon DEF Pending
      <3>3. Cardinality(Pending) = 0
        BY <3>2, FS_EmptySet, Zenon
      <3> QED
        BY <2>1, <3>3, CommandsAssumption DEF Init, QueueInv
    <2> QED
      BY <2>1, OnceInit, Zenon
  <1>2. TableOK /\ OnceInv /\ QueueInv /\ [Next]_vars => (TableOK /\ OnceInv /\ QueueInv)'
    BY OnceStep, QueueStep, Zenon
  <1>3. QueueInv => QueueBound
    BY PendingFinite, CommandsAssumption DEF QueueInv, QueueBound
  <1> QED
    BY <1>1, <1>2, <1>3, PTL DEF Spec
-----------------------------------------------------------------------------
\* The states of the executors' sessions and jobs that the model starts from.
LEMMA ExecTypes == NoJob \in Jobs /\ Closed \in Sessions /\ Fresh \in Sessions /\ Harmless(Closed) /\ Harmless(Fresh)
  <1>1. NoJob \in Jobs
    BY Zenon DEF NoJob, Jobs, Steps, Going, Outcomes
  <1>2. Closed \in Sessions /\ Harmless(Closed)
    BY Zenon DEF Closed, Sessions, Harmless
  <1>3. Fresh \in Sessions /\ Harmless(Fresh)
    BY <1>2, Zenon DEF Fresh, Sessions, Harmless
  <1> QED
    BY <1>1, <1>2, <1>3, Zenon

\* A new session, field by field.
LEMMA FreshFields == Fresh = [open |-> TRUE, tx |-> FALSE, role |-> "own", residue |-> FALSE]
  <1>1. \A s \in Sessions : [s EXCEPT !.open = TRUE] =
          [open |-> TRUE, tx |-> s.tx, role |-> s.role, residue |-> s.residue]
    <2> TAKE s \in Sessions
    <2>1. PICK e : e = [s EXCEPT !.open = TRUE]
      BY Zenon
    <2>2. e = [open |-> TRUE, tx |-> s.tx, role |-> s.role, residue |-> s.residue]
      BY <2>1, Zenon DEF Sessions
    <2> QED
      BY <2>1, <2>2, Zenon
  <1>2. Closed.tx = FALSE /\ Closed.role = "own" /\ Closed.residue = FALSE
    BY Zenon DEF Closed
  <1> QED
    BY <1>1, <1>2, ExecTypes, Zenon DEF Fresh

\* The deferred calls of an executor: whatever it left in its session, what goes
\* back to the pool is closed or as good as new.
LEMMA FinishKeeps ==
  ASSUME ExecInv, NEW outcome \in Outcomes, NEW inTime \in BOOLEAN, Finish(outcome, inTime), acted'.right
  PROVE  ExecInv'
  <1>1. job \in Jobs /\ session \in Sessions /\ pooled \in {Closed, Fresh}
    BY Zenon DEF ExecInv, PoolClean
  <1>2. /\ job' \in Jobs /\ job'.step = "done" /\ job'.kind = job.kind /\ job'.outcome \in Outcomes
    BY <1>1, Zenon DEF Finish, Jobs, Steps, Going, Outcomes
  <1>3. session' = Closed /\ name' = name /\ backend' = backend
    BY Zenon DEF Finish
  <1>4. pooled' \in {Closed, Fresh}
    <2>1. CASE ~session.open
      BY <1>1, <2>1, Zenon DEF Finish
    <2>2. CASE session.open /\ job.kind = "explain"
      BY <2>2, Zenon DEF Finish, CloseExplain
    <2>3. CASE session.open /\ job.kind # "explain"
      <3>1. pooled' = Released(RolledBack(session, inTime))
        BY <2>3, Zenon DEF Finish
      <3>2. Harmless(session)
        BY <2>3, Zenon DEF ExecInv
      <3>3. RolledBack(session, inTime) = session \/ RolledBack(session, inTime) = Fresh
        <4>1. CASE inTime
          <5>1. PICK e : e = [session EXCEPT !.tx = FALSE, !.role = "own"]
            BY Zenon
          <5>2. e = [open |-> session.open, tx |-> FALSE, role |-> "own", residue |-> session.residue]
            BY <1>1, <5>1, Zenon DEF Sessions
          <5>3. session.open = TRUE /\ session.residue = FALSE
            BY <1>1, <2>3, <3>2, Zenon DEF Sessions, Harmless
          <5> QED
            BY <4>1, <5>1, <5>2, <5>3, FreshFields, Zenon DEF RolledBack
        <4>2. CASE ~inTime
          BY <4>2, Zenon DEF RolledBack
        <4> QED
          BY <4>1, <4>2, Zenon
      <3>4. ~session.tx => session = Fresh
        <4> SUFFICES ASSUME ~session.tx PROVE session = Fresh
          BY Zenon
        <4>1. session = [open |-> session.open, tx |-> session.tx, role |-> session.role, residue |-> session.residue]
          BY <1>1, Zenon DEF Sessions
        <4>2. session.open = TRUE /\ session.tx = FALSE /\ session.role = "own" /\ session.residue = FALSE
          BY <1>1, <2>3, <3>2, Zenon DEF Sessions, Harmless
        <4> QED
          BY <4>1, <4>2, FreshFields, Zenon
      <3> QED
        BY <3>1, <3>3, <3>4 DEF Released, Fresh, Closed
    <2> QED
      BY <2>1, <2>2, <2>3, Zenon
  <1> QED
    <2>1. Harmless(session') /\ session' \in Sessions
      BY <1>3, ExecTypes, Zenon
    <2>2. ~At("pgstattuple", "scan")' /\ ~At("signal", "signal")'
      BY <1>2 DEF At
    <2> QED
      BY <1>2, <1>3, <1>4, <2>1, <2>2, Zenon DEF ExecInv, PoolClean, ActsOnWhatWasChecked

\* A failure or a refusal at any round trip.
LEMMA StopsKeep == ASSUME ExecInv, Fails \/ Rejects PROVE ExecInv'
  <1>1. acted' = acted /\ acted'.right
    BY Zenon DEF Fails, Rejects, ExecInv, ActsOnWhatWasChecked
  <1>2. "error" \in Outcomes /\ "rejected" \in Outcomes /\ TRUE \in BOOLEAN
    BY Zenon DEF Outcomes
  <1>3. PICK outcome \in Outcomes, inTime \in BOOLEAN : Finish(outcome, inTime)
    BY <1>2, Zenon DEF Fails, Rejects
  <1> QED
    BY <1>1, <1>3, FinishKeeps, Zenon DEF Outcomes

\* A round trip that refuses, fails, or goes on with the session it leaves.
LEMMA StepKeeps ==
  ASSUME ExecInv, NEW to \in Going,
         NEW s \in Sessions, job.kind # "explain" => Harmless(s), Fails \/ Rejects \/ Advance(to, s)
  PROVE  ExecInv'
  <1>1. CASE Fails \/ Rejects
    BY <1>1, StopsKeep, Zenon
  <1>2. CASE Advance(to, s)
    <2>1. job' \in Jobs /\ job'.step = to /\ job'.kind = job.kind
      BY <1>2, Zenon DEF Advance, ExecInv, Jobs, Steps, Going
    <2>2. to \notin {"none", "connect", "done", "scan", "signal"}
      BY DEF Going
    <2> QED
      BY <1>2, <2>1, <2>2, Zenon DEF Advance, ExecInv, PoolClean, ActsOnWhatWasChecked, At
  <1> QED
    BY <1>1, <1>2, Zenon

\* explain: every step goes through Step with a session of an EXPLAIN.
LEMMA ExplainKeeps ==
  ASSUME ExecInv,
         lookupStatement \/ ExplainBegin \/ guardPlanning \/ dropExplainPrivileges \/ guardAnalyze \/ ExplainRun
  PROVE  ExecInv'
  <1>1. job.kind = "explain" /\ session \in Sessions
    BY Zenon DEF lookupStatement, ExplainBegin, guardPlanning, dropExplainPrivileges, guardAnalyze, ExplainRun, At, ExecInv
  <1>2. /\ [session EXCEPT !.tx = TRUE] \in Sessions /\ [session EXCEPT !.residue = TRUE] \in Sessions
        /\ \A r \in {"own", "read_all_data"} : [session EXCEPT !.role = r] \in Sessions
    BY <1>1, Zenon DEF Sessions
  <1>3. \A priv : [session EXCEPT !.role = IF priv = "plain" THEN "own" ELSE "read_all_data"] \in Sessions
    BY <1>2, Zenon
  <1>4. Fails \/ Rejects \/ \E to \in Going, s \in Sessions : Advance(to, s)
    <2>1. {"begin", "guard", "drop", "analyze", "plan", "answer"} \subseteq Going
      BY Zenon DEF Going
    <2>2. CASE lookupStatement \/ guardPlanning
      BY <1>1, <2>1, <2>2, Zenon DEF lookupStatement, guardPlanning, Step
    <2>3. CASE ExplainBegin \/ guardAnalyze \/ ExplainRun
      BY <1>2, <2>1, <2>3, Zenon DEF ExplainBegin, guardAnalyze, ExplainRun, Step
    <2>4. CASE dropExplainPrivileges
      <3>1. (IF job.analyze THEN "analyze" ELSE "plan") \in Going
        BY <2>1, Zenon
      <3> QED
        BY <1>3, <2>4, <3>1, Zenon DEF dropExplainPrivileges, Step
    <2> QED
      BY <2>2, <2>3, <2>4, Zenon
  <1> QED
    BY <1>1, <1>4, StepKeeps, StopsKeep, Zenon

\* pgstattuple: the scan gets the object that was resolved and found a table.
LEMMA TupleKeeps ==
  ASSUME ExecInv, TupleBegin \/ TupleExtension \/ TupleResolve \/ TupleScan
  PROVE  ExecInv'
  <1>1. /\ job.kind = "pgstattuple" /\ session \in Sessions /\ Harmless(session) /\ job \in Jobs
    BY Zenon DEF TupleBegin, TupleExtension, TupleResolve, TupleScan, At, ExecInv
  <1>2. CASE TupleBegin
    <2>1. [session EXCEPT !.tx = TRUE] \in Sessions /\ Harmless([session EXCEPT !.tx = TRUE])
      BY <1>1, Zenon DEF Sessions, Harmless
    <2>2. Fails \/ Rejects \/ Advance("extension", [session EXCEPT !.tx = TRUE])
      BY <1>2, Zenon DEF TupleBegin, Step
    <2> QED
      BY <2>1, <2>2, StepKeeps, Zenon DEF Going
  <1>3. CASE TupleExtension
    <2>1. Fails \/ Rejects \/ Advance("resolve", session)
      BY <1>3, Zenon DEF TupleExtension, Step
    <2> QED
      BY <1>1, <2>1, StepKeeps, Zenon DEF Going
  <1>4. CASE Fails \/ Rejects
    BY <1>4, StopsKeep, Zenon
  <1>5. CASE TupleResolve /\ ~Fails /\ ~Rejects
    <2>1. /\ name = 1 /\ job' = [job EXCEPT !.step = "scan", !.checked = name]
          /\ UNCHANGED <<session, pooled, backend, name, acted>>
      BY <1>5, Zenon DEF TupleResolve
    <2>2. job' \in Jobs /\ job'.step = "scan" /\ job'.kind = "pgstattuple" /\ job'.checked = 1
      BY <1>1, <2>1, Zenon DEF Jobs, Steps, Going, Outcomes
    <2> QED
      BY <1>1, <2>1, <2>2, Zenon DEF ExecInv, PoolClean, ActsOnWhatWasChecked, At
  <1>6. CASE TupleScan /\ ~Fails
    <2>1. /\ job' = [job EXCEPT !.step = "answer"] /\ acted' = [on |-> "relation", right |-> job.checked = 1]
          /\ UNCHANGED <<session, pooled, backend, name>>
      BY <1>6, Zenon DEF TupleScan
    <2>2. job' \in Jobs /\ job'.step = "answer" /\ job'.kind = "pgstattuple"
      BY <1>1, <2>1, Zenon DEF Jobs, Steps, Going, Outcomes
    <2>3. acted'.right
      BY <1>6, <2>1, Zenon DEF TupleScan, ExecInv
    <2> QED
      BY <1>1, <2>1, <2>2, <2>3, Zenon DEF ExecInv, PoolClean, ActsOnWhatWasChecked, At
  <1> QED
    BY <1>2, <1>3, <1>4, <1>5, <1>6, Zenon

\* cancel and terminate: the statement signals only the session that the check
\* read, and the check let only the session the operator saw through.
LEMMA SignalKeeps ==
  ASSUME ExecInv, SignalCheck \/ signalVerifiedBackend
  PROVE  ExecInv'
  <1>1. job.kind = "signal" /\ session \in Sessions /\ job \in Jobs /\ backend \in [start : {1, 2}, own : BOOLEAN]
    BY Zenon DEF SignalCheck, signalVerifiedBackend, At, ExecInv
  <1>2. CASE Fails \/ Rejects
    BY <1>2, StopsKeep, Zenon
  <1>3. CASE SignalCheck /\ ~Fails /\ ~Rejects
    <2>1. /\ job.seen = 0 \/ backend.start = job.seen
          /\ job' = [job EXCEPT !.step = "signal", !.checked = backend.start]
          /\ UNCHANGED <<session, pooled, backend, name, acted>>
      BY <1>3, Zenon DEF SignalCheck
    <2>2. /\ job' \in Jobs /\ job'.step = "signal" /\ job'.kind = "signal"
          /\ job'.seen \in {0, job'.checked}
      BY <1>1, <2>1, Zenon DEF Jobs, Steps, Going, Outcomes
    <2> QED
      BY <1>1, <2>1, <2>2, Zenon DEF ExecInv, PoolClean, ActsOnWhatWasChecked, At
  <1>4. CASE signalVerifiedBackend /\ ~Fails /\ ~Rejects
    <2>1. /\ StillTheSame /\ Finish("ok", TRUE) /\ job.seen \in {0, job.checked}
          /\ acted' = [on |-> "backend",
                       right |-> ~backend.own /\ (job.seen = 0 \/ backend.start = job.seen)
                                 /\ backend.start = job.checked]
      BY <1>4, Zenon DEF signalVerifiedBackend, ExecInv
    <2>2. acted'.right
      BY <2>1, Zenon DEF StillTheSame
    <2> QED
      BY <2>1, <2>2, FinishKeeps, Zenon DEF Outcomes
  <1> QED
    BY <1>2, <1>3, <1>4, Zenon

\* Every step of an execution, and what others do meanwhile.
LEMMA ExecuteKeeps == ASSUME ExecInv, ExecStep \/ Others PROVE ExecInv'
  <1>1. CASE Connect
    <2>1. CASE Fails
      BY <2>1, StopsKeep, Zenon
    <2>2. CASE Advance("connected", IF pooled.open THEN pooled ELSE Fresh)
      <3>1. (IF pooled.open THEN pooled ELSE Fresh) = Fresh
        <4>1. ~Closed.open /\ pooled \in {Closed, Fresh}
          BY Zenon DEF ExecInv, PoolClean, Closed
        <4> QED
          BY <4>1, Zenon
      <3>2. Advance("connected", Fresh)
        BY <2>2, <3>1, Zenon
      <3> QED
        BY <3>2, ExecTypes, StepKeeps, Zenon DEF Going
    <2> QED
      BY <1>1, <2>1, <2>2, Zenon DEF Connect
  <1>2. CASE Answer
    <2>1. Finish("ok", TRUE) /\ acted'.right
      BY <1>2, Zenon DEF Answer, ExecInv, ActsOnWhatWasChecked
    <2> QED
      BY <2>1, FinishKeeps, Zenon DEF Outcomes
  <1>3. CASE Others
    <2>1. UNCHANGED <<job, session, pooled, acted>>
      BY <1>3, Zenon DEF Others
    <2>2. name' \in {1, 2} /\ backend' \in [start : {1, 2}, own : BOOLEAN]
      BY <1>3 DEF Others, ExecInv
    <2> QED
      BY <2>1, <2>2, Zenon DEF ExecInv, PoolClean, ActsOnWhatWasChecked, At
  <1> QED
    BY <1>1, <1>2, <1>3, ExplainKeeps, TupleKeeps, SignalKeeps, Zenon DEF ExecStep

\* The dispatcher starts an execution, takes its outcome, or dies with it.
LEMMA DispatchKeeps == ASSUME ExecInv, Run \/ Executed \/ Restart PROVE ExecInv'
  <1>1. CASE Run
    <2>1. /\ job.step = "none" /\ Validate(Req)
          /\ job' = [NoJob EXCEPT !.kind = ExecKind, !.analyze = "analyze" \in Req.args,
                                  !.seen = IF "backend_start" \in Req.args THEN 1 ELSE 0, !.step = "connect"]
          /\ backend' = [start |-> 1, own |-> FALSE] /\ name' = 1 /\ acted' = NoAct
          /\ session' = session /\ pooled' = pooled
      BY <1>1, Zenon DEF Run, BeginExec
    <2>2. ExecKind \in {"explain", "pgstattuple", "signal"}
      BY <2>1 DEF Validate, ExecKind
    <2>3. job' \in Jobs /\ job'.step = "connect"
      <3> DEFINE an == "analyze" \in Req.args
                 n == IF "backend_start" \in Req.args THEN 1 ELSE 0
                 k == ExecKind
      <3>1. job' = [NoJob EXCEPT !.kind = k, !.analyze = an, !.seen = n, !.step = "connect"]
        BY <2>1, Zenon
      <3>3. k \in {"explain", "pgstattuple", "signal"} /\ an \in BOOLEAN /\ n \in {0, 1}
        <4>1. an \in BOOLEAN
          BY SMT
        <4>2. n \in {0, 1}
          BY SMT
        <4> QED
          BY <2>2, <4>1, <4>2, Zenon
      <3> HIDE DEF an, n, k
      <3>2. PICK j \in Jobs : job' = [j EXCEPT !.kind = k, !.analyze = an, !.seen = n, !.step = "connect"]
        BY <3>1, ExecTypes, Zenon
      <3> QED
        BY <3>2, <3>3, Zenon DEF Jobs, Steps
    <2>4. session' = Closed /\ acted'.right
      BY <2>1, Zenon DEF ExecInv, NoAct
    <2>5. name' \in {1, 2} /\ backend' \in [start : {1, 2}, own : BOOLEAN]
      BY <2>1
    <2> QED
      BY <2>1, <2>3, <2>4, <2>5, ExecTypes, Zenon DEF ExecInv, PoolClean, ActsOnWhatWasChecked, At
  <1>2. CASE Executed
    <2>1. /\ job.step = "done" /\ job' = NoJob /\ session' = session /\ pooled' = pooled
          /\ backend' = [start |-> 1, own |-> FALSE] /\ name' = 1 /\ acted' = NoAct
      BY <1>2, Zenon DEF Executed, EndExec
    <2>2. session' = Closed /\ acted'.right /\ job'.step = "none"
      BY <2>1, Zenon DEF ExecInv, NoAct, NoJob
    <2>3. name' \in {1, 2} /\ backend' \in [start : {1, 2}, own : BOOLEAN]
      BY <2>1
    <2> QED
      BY <2>1, <2>2, <2>3, ExecTypes, Zenon DEF ExecInv, PoolClean, ActsOnWhatWasChecked, At
  <1>3. CASE Restart
    <2>1. job' = NoJob /\ session' = Closed /\ pooled' = Closed /\ UNCHANGED <<backend, name, acted>>
      BY <1>3, Zenon DEF Restart
    <2>2. job'.step = "none"
      BY <2>1, Zenon DEF NoJob
    <2> QED
      BY <2>1, <2>2, ExecTypes, Zenon DEF ExecInv, PoolClean, ActsOnWhatWasChecked, At
  <1> QED
    BY <1>1, <1>2, <1>3, Zenon

\* Every step keeps ExecInv.
LEMMA ExecNext == ASSUME ExecInv, [Next]_vars PROVE ExecInv'
  <1>1. CASE UNCHANGED <<job, session, pooled, backend, name, acted>>
    BY <1>1, Zenon DEF ExecInv, PoolClean, ActsOnWhatWasChecked, At
  <1>2. CASE Execute \/ OtherUsers
    BY <1>2, ExecuteKeeps, Zenon DEF Execute, OtherUsers
  <1>3. CASE Run \/ Executed \/ Restart
    BY <1>3, DispatchKeeps, Zenon
  <1>4. CASE EnqueueCount \/ EnqueueInsert \/ Get \/ Revoke \/ Tick \/ Poll \/ Sweep
    <2>1. UNCHANGED execVars
      BY <1>4, Zenon DEF EnqueueCount, EnqueueInsert, Get, Revoke, Tick, Poll, Sweep
    <2> QED
      BY <1>1, <2>1, Zenon DEF execVars
  <1>5. CASE PollLost \/ Refuse \/ Posted \/ PostLost \/ \E p \in {"heard", "gone"} : Claim(p) \/ PollEmpty(p)
    <2>1. UNCHANGED execVars
      BY <1>5, Zenon DEF PollLost, Refuse, Posted, PostLost, Claim, PollEmpty
    <2> QED
      BY <1>1, <2>1, Zenon DEF execVars
  <1>6. CASE \E p \in posts : ResultLookup(p) \/ ResultApply(p)
    <2>1. UNCHANGED execVars
      BY <1>6, Zenon DEF ResultLookup, ResultApply
    <2> QED
      BY <1>1, <2>1, Zenon DEF execVars
  <1>7. CASE UNCHANGED vars
    BY <1>1, <1>7, Zenon DEF vars, execVars
  <1> QED
    BY <1>2, <1>3, <1>4, <1>5, <1>6, <1>7, Zenon DEF Next

\* The executors' invariant holds for any commands, arguments, gates and faults.
THEOREM ExecutorsInvariant == Spec => []ExecInv
  <1>1. Init => ExecInv
    <2> SUFFICES ASSUME Init PROVE ExecInv
      BY Zenon
    <2>1. /\ job = NoJob /\ session = Closed /\ pooled = Closed
          /\ backend = [start |-> 1, own |-> FALSE] /\ name = 1 /\ acted = NoAct
      BY Zenon DEF Init, ExecInit
    <2>2. job.step = "none" /\ acted.right
      BY <2>1, Zenon DEF NoJob, NoAct
    <2>3. name \in {1, 2} /\ backend \in [start : {1, 2}, own : BOOLEAN]
      BY <2>1
    <2> QED
      BY <2>1, <2>2, <2>3, ExecTypes, Zenon DEF ExecInv, PoolClean, ActsOnWhatWasChecked, At
  <1>2. ExecInv /\ [Next]_vars => ExecInv'
    BY ExecNext, Zenon
  <1> QED
    BY <1>1, <1>2, PTL DEF Spec

\* No executor gives the pool back a session in a transaction, in another role
\* or with something a statement left, whichever of its round trips failed.
THEOREM PoolStaysClean == Spec => []PoolClean
  <1>1. ExecInv => PoolClean
    BY Zenon DEF ExecInv
  <1> QED
    BY <1>1, ExecutorsInvariant, PTL

\* A signal or a scan hits what was checked, though the PID or the name passes
\* to another session or relation between the round trips.
THEOREM ActsOnTheChecked == Spec => []ActsOnWhatWasChecked
  <1>1. ExecInv => ActsOnWhatWasChecked
    BY Zenon DEF ExecInv
  <1> QED
    BY <1>1, ExecutorsInvariant, PTL
-----------------------------------------------------------------------------
\* What Note does to the rows: one more with the outcome, for the given commands.
LEMMA NoteRows ==
  ASSUME NEW a \in [Ids -> Row], NEW S, NEW o \in Entries, NEW b, b = Note(a, S, o)
  PROVE  /\ b \in [Ids -> Row]
         /\ \A i \in Ids : i \notin S => b[i] = a[i]
         /\ \A i \in Ids : i \in S => b[i][o] = a[i][o] + 1 /\ \A e \in Entries \ {o} : b[i][e] = a[i][e]
  <1>1. \A i \in Ids : a[i] \in Row /\ a[i][o] + 1 \in Nat
    BY DEF Row
  <1>2. \A i \in Ids : /\ [a[i] EXCEPT ![o] = @ + 1] \in Row /\ [a[i] EXCEPT ![o] = @ + 1][o] = a[i][o] + 1
                       /\ \A e \in Entries \ {o} : [a[i] EXCEPT ![o] = @ + 1][e] = a[i][e]
    BY <1>1 DEF Row
  <1> QED
    BY <1>2, Zenon DEF Note

\* The five ways a command and its rows change, one command at a time.  First,
\* it keeps its state and its rows.
LEMMA RowSame ==
  ASSUME NEW c, NEW d, NEW a, Told(c, a), d.state = c.state, d.claimed = c.claimed
  PROVE  Told(d, a) /\ (Open(c, a) => Open(d, a))
  BY Zenon DEF Told, Open

\* It expires while it waits or is claimed.
LEMMA RowExpires ==
  ASSUME NEW c, NEW d, NEW a \in Row, NEW b \in Row, Told(c, a), c.state \in {"pending", "claimed"},
         d.state = "expired", d.claimed = c.claimed,
         b["expired"] = a["expired"] + 1, \A e \in Entries \ {"expired"} : b[e] = a[e]
  PROVE  Told(d, b) /\ (Open(c, a) => Open(d, b))
  <1>1. /\ b["requested"] = a["requested"] /\ b["ok"] = a["ok"] /\ b["error"] = a["error"]
        /\ b["rejected"] = a["rejected"]
    BY DEF Entries, Outcomes
  <1>2. Sum(b) = Sum(a)
    BY <1>1, Zenon DEF Sum
  <1>3. Sum(a) = 0 /\ a["requested"] = 1 /\ a["expired"] = 0
    BY DEF Told
  <1>4. b["requested"] = 1 /\ b["expired"] = 1 /\ Sum(b) = 0
    BY <1>1, <1>2, <1>3
  <1> QED
    BY <1>4 DEF Told, Open

\* It is created.
LEMMA RowRequested ==
  ASSUME NEW c, NEW d, NEW a \in Row, NEW b \in Row, Told(c, a), c.state = "none", d.state = "pending",
         b["requested"] = a["requested"] + 1, \A e \in Entries \ {"requested"} : b[e] = a[e]
  PROVE  Told(d, b)
  <1>1. /\ b["expired"] = a["expired"] /\ b["ok"] = a["ok"] /\ b["error"] = a["error"]
        /\ b["rejected"] = a["rejected"]
    BY DEF Entries, Outcomes
  <1>2. Sum(b) = Sum(a)
    BY <1>1, Zenon DEF Sum
  <1>3. Sum(a) = 0 /\ a["requested"] = 0 /\ a["expired"] = 0
    BY DEF Told
  <1>4. b["requested"] = 1 /\ b["expired"] = 0 /\ Sum(b) = 0
    BY <1>1, <1>2, <1>3
  <1> QED
    BY <1>4 DEF Told

\* It is claimed, and from then on open to one report.
LEMMA RowClaimed ==
  ASSUME NEW c, NEW d, NEW a, Told(c, a), c.state = "pending", d.state = "claimed", d.claimed
  PROVE  Told(d, a) /\ Open(d, a)
  BY DEF Told, Open

\* Its agent reports: it ends, or it had expired and stays so.
LEMMA RowReported ==
  ASSUME NEW c, NEW d, NEW a \in Row, NEW b \in Row, Told(c, a), Open(c, a), NEW o \in Outcomes,
         \/ c.state = "claimed" /\ d.state = (IF o = "ok" THEN "done" ELSE "failed")
         \/ c.state = "expired" /\ d = c,
         b[o] = a[o] + 1, \A e \in Entries \ {o} : b[e] = a[e]
  PROVE  Told(d, b)
  <1>1. /\ b["requested"] = a["requested"] /\ b["expired"] = a["expired"]
    BY DEF Entries, Outcomes
  <1>2. a["ok"] = 0 /\ a["error"] = 0 /\ a["rejected"] = 0
    BY DEF Open, Sum, Row, Entries, Outcomes
  <1>3. Sum(b) = 1 /\ b["ok"] = (IF o = "ok" THEN 1 ELSE 0)
    BY <1>2 DEF Sum, Row, Entries, Outcomes
  <1>4. CASE c.state = "claimed" /\ d.state = (IF o = "ok" THEN "done" ELSE "failed")
    BY <1>1, <1>3, <1>4 DEF Told
  <1>5. CASE c.state = "expired" /\ d = c
    BY <1>1, <1>3, <1>5 DEF Told, Open
  <1> QED
    BY <1>4, <1>5, Zenon

\* A step that keeps every row told and what is open open, and gives nobody a
\* new command to report on.
LEMMA AuditQuiet ==
  ASSUME AuditInv, audit' \in [Ids -> Row],
         \A i \in Ids : Told(cmd'[i], audit'[i]) /\ (Open(cmd[i], audit[i]) => Open(cmd'[i], audit'[i])),
         \A i \in Ids : i > created' => cmd'[i].state = "none",
         posts' \subseteq posts,
         pc' \in {"claimed", "running"} => pc \in {"claimed", "running"} /\ held' = held
  PROVE  AuditInv'
  <1>1. posts' \subseteq Reports /\ \A p \in posts' : p.id \in Ids
    BY Zenon DEF AuditInv, Reports
  <1>2. \A p \in posts' : Open(cmd'[p.id], audit'[p.id])
    BY <1>1, Zenon DEF AuditInv
  <1>3. pc' \in {"claimed", "running"} =>
          held' \in Ids /\ Open(cmd'[held'], audit'[held']) /\ \A p \in posts' : p.id # held'
    BY Zenon DEF AuditInv
  <1>4. \A p, q \in posts' : p.id = q.id => p = q
    BY Zenon DEF AuditInv
  <1> QED
    BY <1>1, <1>2, <1>3, <1>4, Zenon DEF AuditInv

\* The same, for a step that leaves the store's two tables alone.
LEMMA AuditFrame ==
  ASSUME AuditInv, UNCHANGED <<cmd, audit, created>>, posts' \subseteq posts,
         pc' \in {"claimed", "running"} => pc \in {"claimed", "running"} /\ held' = held
  PROVE  AuditInv'
  <1>1. audit' \in [Ids -> Row] /\ \A i \in Ids : i > created' => cmd'[i].state = "none"
    BY Zenon DEF AuditInv
  <1>2. \A i \in Ids : Told(cmd'[i], audit'[i]) /\ (Open(cmd[i], audit[i]) => Open(cmd'[i], audit'[i]))
    BY Zenon DEF AuditInv
  <1> QED
    BY <1>1, <1>2, AuditQuiet, Zenon

\* The clock changes no state and no row.
LEMMA AuditTick == ASSUME TableOK, AuditInv, Tick PROVE AuditInv'
  <1>1. UNCHANGED <<audit, created, pc, held, posts>>
    BY Zenon DEF Tick, dispatcher
  <1>2. \A i \in Ids : cmd'[i].state = cmd[i].state /\ cmd'[i].claimed = cmd[i].claimed
    <2> TAKE i \in Ids
    <2>1. cmd[i] \in Command
      BY Zenon DEF TableOK
    <2>2. cmd'[i] = cmd[i] \/ \E n : cmd'[i] = [cmd[i] EXCEPT !.left = n]
      BY Zenon DEF Tick
    <2> QED
      BY <2>1, <2>2, Zenon DEF Command
  <1>3. \A i \in Ids : Told(cmd'[i], audit'[i]) /\ (Open(cmd[i], audit[i]) => Open(cmd'[i], audit'[i]))
    BY <1>1, <1>2, RowSame, Zenon DEF AuditInv
  <1>4. audit' \in [Ids -> Row] /\ \A i \in Ids : i > created' => cmd'[i].state = "none"
    BY <1>1, <1>2, Zenon DEF AuditInv
  <1> QED
    BY <1>1, <1>3, <1>4, AuditQuiet, Zenon

\* A sweep expires and audits in one statement.
LEMMA AuditSweep == ASSUME TableOK, AuditInv, Get \/ Sweep PROVE AuditInv'
  <1>1. UNCHANGED <<created, pc, held, posts>> /\ expireCommands
    BY Zenon DEF Get, Sweep, dispatcher
  <1>2. /\ audit' = Note(audit, Expirable(cmd), "expired") /\ audit \in [Ids -> Row]
        /\ \A i \in Ids : cmd'[i] = IF i \in Expirable(cmd) THEN [cmd[i] EXCEPT !.state = "expired"] ELSE cmd[i]
    BY <1>1, Zenon DEF expireCommands, AuditInv
  <1>3. "expired" \in Entries
    BY Zenon DEF Entries
  <1>4. /\ audit' \in [Ids -> Row]
        /\ \A i \in Ids : i \notin Expirable(cmd) => audit'[i] = audit[i]
        /\ \A i \in Ids : i \in Expirable(cmd) =>
             audit'[i]["expired"] = audit[i]["expired"] + 1 /\ \A e \in Entries \ {"expired"} : audit'[i][e] = audit[i][e]
    BY <1>2, <1>3, NoteRows
  <1>5. ASSUME NEW i \in Ids
        PROVE  /\ Told(cmd'[i], audit'[i]) /\ (Open(cmd[i], audit[i]) => Open(cmd'[i], audit'[i]))
               /\ cmd[i].state = "none" => cmd'[i].state = "none"
    <2>1. cmd[i] \in Command /\ audit[i] \in Row /\ audit'[i] \in Row /\ Told(cmd[i], audit[i])
      BY <1>2, <1>4, Zenon DEF TableOK, AuditInv
    <2>2. CASE i \in Expirable(cmd)
      <3>1. cmd[i].state \in {"pending", "claimed"}
        BY <2>2, Zenon DEF Expirable
      <3>2. cmd'[i].state = "expired" /\ cmd'[i].claimed = cmd[i].claimed
        BY <1>2, <2>1, <2>2, Zenon DEF Command
      <3>3. Told(cmd'[i], audit'[i]) /\ (Open(cmd[i], audit[i]) => Open(cmd'[i], audit'[i]))
        BY <1>4, <2>1, <2>2, <3>1, <3>2, RowExpires, Zenon
      <3> QED
        BY <3>1, <3>3
    <2>3. CASE i \notin Expirable(cmd)
      BY <1>2, <1>4, <2>1, <2>3, Zenon
    <2> QED
      BY <2>2, <2>3, Zenon
  <1>6. \A i \in Ids : i > created' => cmd'[i].state = "none"
    BY <1>1, <1>5, Zenon DEF AuditInv
  <1> QED
    BY <1>1, <1>4, <1>5, <1>6, AuditQuiet, Zenon

\* A request is inserted with its audit row.
LEMMA AuditInsert == ASSUME TableOK, AuditInv, EnqueueInsert PROVE AuditInv'
  <1>1. UNCHANGED <<pc, held, posts>>
    BY Zenon DEF EnqueueInsert, dispatcher
  <1>2. CASE UNCHANGED <<cmd, audit, created>>
    BY <1>1, <1>2, AuditFrame, Zenon
  <1>3. CASE ~UNCHANGED <<cmd, audit, created>>
    <2> DEFINE k == created + 1
    <2>1. PICK req :
            /\ created < MaxCmds /\ created' = k
            /\ cmd' = [cmd EXCEPT ![k] = [state |-> "pending", left |-> ttl, claimed |-> FALSE, req |-> req]]
            /\ audit' = Note(audit, {k}, "requested")
      BY <1>3, Zenon DEF EnqueueInsert
    <2>2. k \in Ids /\ k > created /\ \A i \in Ids : i > k => i > created
      BY <2>1, CommandsAssumption DEF TableOK, Ids
    <2>3. created' = k
      BY <2>1, Zenon
    <2> HIDE DEF k
    <2>4. PICK c : c = [state |-> "pending", left |-> ttl, claimed |-> FALSE, req |-> req]
      BY Zenon
    <2>5. cmd'[k].state = "pending" /\ \A i \in Ids \ {k} : cmd'[i] = cmd[i]
      BY <2>1, <2>2, <2>4, Zenon DEF TableOK
    <2>6. "requested" \in Entries /\ audit \in [Ids -> Row]
      BY Zenon DEF Entries, AuditInv
    <2>7. /\ audit' \in [Ids -> Row]
          /\ \A i \in Ids : i \notin {k} => audit'[i] = audit[i]
          /\ \A i \in Ids : i \in {k} =>
               /\ audit'[i]["requested"] = audit[i]["requested"] + 1
               /\ \A e \in Entries \ {"requested"} : audit'[i][e] = audit[i][e]
      <3>1. audit' = Note(audit, {k}, "requested")
        BY <2>1, Zenon
      <3> QED
        BY <2>6, <3>1, NoteRows
    <2>8. cmd[k].state = "none" /\ Told(cmd[k], audit[k])
      BY <2>2, Zenon DEF AuditInv
    <2>9. Told(cmd'[k], audit'[k])
      <3>1. /\ audit[k] \in Row /\ audit'[k] \in Row /\ audit'[k]["requested"] = audit[k]["requested"] + 1
            /\ \A e \in Entries \ {"requested"} : audit'[k][e] = audit[k][e]
        BY <2>2, <2>6, <2>7, Zenon
      <3> QED
        BY <2>5, <2>8, <3>1, RowRequested, Zenon
    <2>10. ~Open(cmd[k], audit[k])
      BY <2>8 DEF Open
    <2>11. \A i \in Ids : Told(cmd'[i], audit'[i]) /\ (Open(cmd[i], audit[i]) => Open(cmd'[i], audit'[i]))
      BY <2>5, <2>7, <2>9, <2>10, Zenon DEF AuditInv
    <2>12. \A i \in Ids : i > created' => cmd'[i].state = "none"
      <3> TAKE i \in Ids
      <3>1. i > k => i # k
        BY <2>2 DEF Ids
      <3> QED
        BY <2>2, <2>3, <2>5, <3>1, Zenon DEF AuditInv
    <2> QED
      BY <1>1, <2>7, <2>11, <2>12, AuditQuiet, Zenon
  <1> QED
    BY <1>2, <1>3, Zenon

\* A claim opens its command to a report; nobody had it before.
LEMMA AuditClaim == ASSUME TableOK, OnceInv, AuditInv, NEW p, Claim(p) PROVE AuditInv'
  <1>1. PICK i \in Pending :
          /\ cmd' = Claimed(i) /\ UNCHANGED <<audit, created, posts>>
          /\ (pc' = "claimed" /\ held' = i) \/ UNCHANGED <<pc, held>>
    <2>1. Claimable # {} /\ Claimable \subseteq Pending /\ Claimable \subseteq Nat
      BY DEF Claim, Claimable, Pending, Ids
    <2>2. Min(Claimable) \in Pending
      BY <2>1, MinMember, Zenon
    <2> QED
      BY <2>2, Zenon DEF Claim
  <1>2. /\ cmd'[i].state = "claimed" /\ cmd'[i].claimed
        /\ \A j \in Ids \ {i} : cmd'[j] = cmd[j]
    BY <1>1, ClaimFields, Zenon
  <1>3. i \in Ids /\ cmd[i].state = "pending" /\ ~cmd[i].claimed /\ Told(cmd[i], audit[i])
    BY Zenon DEF Pending, OnceInv, AuditInv
  <1>4. ~Open(cmd[i], audit[i]) /\ ~(i > created)
    <2>1. "pending" # "none"
      BY Zenon
    <2> QED
      BY <1>3, <2>1, Zenon DEF Open, AuditInv
  <1>5. Told(cmd'[i], audit'[i]) /\ Open(cmd'[i], audit'[i])
    BY <1>1, <1>2, <1>3, RowClaimed, Zenon
  <1>6. \A j \in Ids : Told(cmd'[j], audit'[j]) /\ (Open(cmd[j], audit[j]) => Open(cmd'[j], audit'[j]))
    BY <1>1, <1>2, <1>5, Zenon DEF AuditInv
  <1>7. audit' \in [Ids -> Row] /\ \A j \in Ids : j > created' => cmd'[j].state = "none"
    BY <1>1, <1>2, <1>4, Zenon DEF AuditInv
  <1>8. CASE UNCHANGED <<pc, held>>
    BY <1>1, <1>6, <1>7, <1>8, AuditQuiet, Zenon
  <1>9. CASE pc' = "claimed" /\ held' = i
    <2>1. \A q \in posts : q.id \in Ids /\ q.id # i /\ Open(cmd'[q.id], audit'[q.id])
      BY <1>4, <1>6, Zenon DEF AuditInv, Reports
    <2> QED
      BY <1>1, <1>3, <1>5, <1>6, <1>7, <1>9, <2>1, Zenon DEF AuditInv
  <1> QED
    BY <1>1, <1>8, <1>9, Zenon

\* The dispatcher reports on the command it has, once.
LEMMA AuditPost == ASSUME ExecInv, AuditInv, Refuse \/ Executed PROVE AuditInv'
  <1>1. PICK o \in Outcomes : Post(o)
    <2>1. "error" \in Outcomes /\ "rejected" \in Outcomes
      BY Zenon DEF Outcomes
    <2>2. CASE Refuse
      BY <2>1, <2>2, Zenon DEF Refuse
    <2>3. CASE Executed
      BY <2>3, Zenon DEF Executed, EndExec, ExecInv
    <2> QED
      BY <2>2, <2>3, Zenon
  <1>2. /\ UNCHANGED <<cmd, audit, created, held>> /\ pc \in {"claimed", "running"} /\ pc' = "posting"
        /\ posts' = posts \cup {[id |-> held, outcome |-> o, looked |-> FALSE]}
    BY <1>1, Zenon DEF Refuse, Executed, Post, server
  <1>3. held \in Ids /\ Open(cmd[held], audit[held]) /\ \A p \in posts : p.id # held
    BY <1>2, Zenon DEF AuditInv
  <1>4. PICK n : n = [id |-> held, outcome |-> o, looked |-> FALSE]
    BY Zenon
  <1>5. n \in Reports /\ n.id = held
    BY <1>3, <1>4, Zenon DEF Reports
  <1>6. posts' = posts \cup {n}
    BY <1>2, <1>4, Zenon
  <1>7. posts' \subseteq Reports /\ \A p \in posts' : Open(cmd[p.id], audit[p.id])
    BY <1>3, <1>5, <1>6, Zenon DEF AuditInv
  <1>8. \A p, q \in posts' : p.id = q.id => p = q
    BY <1>3, <1>5, <1>6, Zenon DEF AuditInv
  <1>9. pc' \notin {"claimed", "running"}
    BY <1>2
  <1> QED
    BY <1>2, <1>7, <1>8, <1>9, Zenon DEF AuditInv

\* The handler of a report looks its agent up: the report is dropped or goes on.
LEMMA AuditLookup == ASSUME AuditInv, NEW p \in posts, ResultLookup(p) PROVE AuditInv'
  <1>1. UNCHANGED <<cmd, audit, created, pc, held>>
    BY Zenon DEF ResultLookup, server, dispatcher
  <1>2. CASE revoked
    <2>1. posts' \subseteq posts
      BY <1>2, Zenon DEF ResultLookup
    <2> QED
      BY <1>1, <2>1, AuditFrame, Zenon
  <1>3. CASE ~revoked
    <2>1. PICK n : n = [p EXCEPT !.looked = TRUE]
      BY Zenon
    <2>2. n \in Reports /\ n.id = p.id
      BY <2>1, Zenon DEF AuditInv, Reports
    <2>3. posts' = (posts \ {p}) \cup {n}
      BY <1>3, <2>1, Zenon DEF ResultLookup
    <2>4. posts' \subseteq Reports /\ \A q \in posts' : Open(cmd[q.id], audit[q.id])
      BY <2>2, <2>3, Zenon DEF AuditInv
    <2>5. \A q, q2 \in posts' : q.id = q2.id => q = q2
      <3>1. \A q \in posts \ {p} : q.id # n.id
        BY <2>2, Zenon DEF AuditInv
      <3> QED
        BY <2>3, <3>1, Zenon DEF AuditInv
    <2>6. pc \in {"claimed", "running"} =>
            held \in Ids /\ Open(cmd[held], audit[held]) /\ \A q \in posts' : q.id # held
      BY <2>2, <2>3, Zenon DEF AuditInv
    <2> QED
      BY <1>1, <2>4, <2>5, <2>6, Zenon DEF AuditInv
  <1> QED
    BY <1>2, <1>3, Zenon

\* A report is taken, or only noted because its command had expired.
LEMMA AuditApply == ASSUME TableOK, AuditInv, NEW p \in posts, ResultApply(p) PROVE AuditInv'
  <1>1. UNCHANGED <<created, pc, held>> /\ posts' = posts \ {p}
    BY Zenon DEF ResultApply, dispatcher
  <1> DEFINE k == p.id
             o == p.outcome
  <1>2. k \in Ids /\ o \in Outcomes /\ Open(cmd[k], audit[k]) /\ Told(cmd[k], audit[k])
    BY Zenon DEF AuditInv, Reports
  <1>3. cmd[k].state \in {"claimed", "expired"} /\ cmd[k] \in Command /\ cmd \in [Ids -> Command]
    BY <1>2, Zenon DEF Open, TableOK
  <1>4. o \in Entries /\ audit \in [Ids -> Row]
    BY <1>2, Zenon DEF Entries, AuditInv
  <1>5. /\ audit' = Note(audit, {k}, o)
        /\ \/ cmd[k].state = "claimed" /\ cmd' = [cmd EXCEPT ![k].state = IF o = "ok" THEN "done" ELSE "failed"]
           \/ cmd[k].state = "expired" /\ cmd' = cmd
    <2>1. CASE cmd[k].state = "claimed"
      BY <2>1, Zenon DEF ResultApply, Takes
    <2>2. CASE cmd[k].state = "expired"
      <3>1. ~Takes(k)
        BY <2>2 DEF Takes
      <3> QED
        BY <2>2, <3>1, Zenon DEF ResultApply
    <2> QED
      BY <1>3, <2>1, <2>2, Zenon
  <1> HIDE DEF k, o
  <1>6. /\ audit' \in [Ids -> Row]
        /\ \A i \in Ids : i \notin {k} => audit'[i] = audit[i]
        /\ \A i \in Ids : i \in {k} => /\ audit'[i][o] = audit[i][o] + 1
                                       /\ \A e \in Entries \ {o} : audit'[i][e] = audit[i][e]
    BY <1>4, <1>5, NoteRows
  <1>7. /\ audit[k] \in Row /\ audit'[k] \in Row /\ audit'[k][o] = audit[k][o] + 1
        /\ \A e \in Entries \ {o} : audit'[k][e] = audit[k][e]
    BY <1>2, <1>4, <1>6, Zenon
  <1>8. /\ \/ cmd[k].state = "claimed" /\ cmd'[k].state = (IF o = "ok" THEN "done" ELSE "failed")
           \/ cmd[k].state = "expired" /\ cmd'[k] = cmd[k]
        /\ \A i \in Ids \ {k} : cmd'[i] = cmd[i]
    <2>1. CASE cmd' = cmd /\ cmd[k].state = "expired"
      BY <2>1, Zenon
    <2>2. CASE cmd[k].state = "claimed" /\ cmd' = [cmd EXCEPT ![k].state = IF o = "ok" THEN "done" ELSE "failed"]
      <3>1. cmd'[k] = [cmd[k] EXCEPT !.state = IF o = "ok" THEN "done" ELSE "failed"] /\ \A i \in Ids \ {k} : cmd'[i] = cmd[i]
        BY <1>2, <1>3, <2>2, Zenon
      <3> QED
        BY <1>3, <2>2, <3>1, ZenonT(40) DEF Command
    <2> QED
      BY <1>5, <2>1, <2>2, Zenon
  <1>9. Told(cmd'[k], audit'[k])
    <2>1. CASE cmd[k].state = "claimed" /\ cmd'[k].state = (IF o = "ok" THEN "done" ELSE "failed")
      BY <1>2, <1>7, <2>1, RowReported
    <2>2. CASE cmd[k].state = "expired" /\ cmd'[k] = cmd[k]
      BY <1>2, <1>7, <2>2, RowReported
    <2> QED
      BY <1>8, <2>1, <2>2, Zenon
  <1>10. \A i \in Ids \ {k} : Told(cmd'[i], audit'[i]) /\ (Open(cmd[i], audit[i]) => Open(cmd'[i], audit'[i]))
    BY <1>6, <1>8, Zenon DEF AuditInv
  <1>11. \A q \in posts' : q \in Reports /\ q.id \in Ids \ {k} /\ Open(cmd'[q.id], audit'[q.id])
    BY <1>1, <1>10, Zenon DEF AuditInv, Reports, k
  <1>12. \A q, q2 \in posts' : q.id = q2.id => q = q2
    BY <1>1, Zenon DEF AuditInv
  <1>13. pc' \in {"claimed", "running"} =>
           held' \in Ids /\ Open(cmd'[held'], audit'[held']) /\ \A q \in posts' : q.id # held'
    BY <1>1, <1>10, Zenon DEF AuditInv, k
  <1>14. \A i \in Ids : i > created' => cmd'[i].state = "none"
    <2>1. ~(k > created)
      BY <1>2, <1>3 DEF AuditInv
    <2> QED
      BY <1>1, <1>8, <2>1, Zenon DEF AuditInv
  <1> QED
    BY <1>6, <1>9, <1>10, <1>11, <1>12, <1>13, <1>14, Zenon DEF AuditInv

\* Every step keeps AuditInv.
LEMMA AuditNext == ASSUME TableOK, OnceInv, ExecInv, AuditInv, [Next]_vars PROVE AuditInv'
  <1>1. CASE EnqueueCount \/ Revoke \/ Execute \/ OtherUsers \/ UNCHANGED vars
    <2>1. UNCHANGED <<cmd, audit, created, pc, held, posts>>
      BY <1>1, Zenon DEF EnqueueCount, Revoke, Execute, OtherUsers, vars, server, dispatcher
    <2> QED
      BY <2>1, AuditFrame, Zenon
  <1>2. CASE Poll \/ PollLost \/ Posted \/ PostLost \/ Restart \/ \E p \in {"heard", "gone"} : PollEmpty(p)
    <2>1. /\ UNCHANGED <<cmd, audit, created>> /\ posts' \subseteq posts
          /\ pc' \in {"idle", "polling"} \/ (pc' = pc /\ held' = held)
      BY <1>2, Zenon DEF Poll, PollLost, Posted, PostLost, Restart, PollEmpty, server, dispatcher
    <2>2. pc' \in {"idle", "polling"} => pc' \notin {"claimed", "running"}
      BY Zenon
    <2> QED
      BY <2>1, <2>2, AuditFrame, Zenon
  <1>3. CASE Run
    <2>1. UNCHANGED <<cmd, audit, created, held, posts>> /\ pc = "claimed"
      BY <1>3, Zenon DEF Run, server
    <2> QED
      BY <2>1, AuditFrame, Zenon
  <1>4. CASE EnqueueInsert \/ Get \/ Sweep \/ Tick
    BY <1>4, AuditInsert, AuditSweep, AuditTick, Zenon
  <1>5. CASE (\E p \in {"heard", "gone"} : Claim(p)) \/ Refuse \/ Executed
    BY <1>5, AuditClaim, AuditPost, Zenon
  <1>6. CASE \E p \in posts : ResultLookup(p) \/ ResultApply(p)
    BY <1>6, AuditLookup, AuditApply, Zenon
  <1> QED
    BY <1>1, <1>2, <1>3, <1>4, <1>5, <1>6, Zenon DEF Next

\* command_audit tells what became of every command, whatever sweeps, late
\* results, lost answers, restarts and revocations come in between
\* (CommandService.result, expireCommands).
THEOREM AuditTells == Spec => []AuditComplete
  <1>1. Init => AuditInv
    <2> SUFFICES ASSUME Init PROVE AuditInv
      BY Zenon
    <2>1. /\ audit = [i \in Ids |-> [o \in Entries |-> 0]] /\ cmd = [i \in Ids |-> NoCmd]
          /\ posts = {} /\ pc = "idle"
      BY Zenon DEF Init
    <2>2. audit \in [Ids -> Row] /\ \A i \in Ids : Told(cmd[i], audit[i]) /\ cmd[i].state = "none"
      <3>1. [o \in Entries |-> 0] \in Row
        <4>1. 0 \in Nat
          OBVIOUS
        <4> QED
          BY <4>1, Zenon DEF Row
      <3>2. \A i \in Ids : cmd[i].state = "none"
        BY <2>1, Zenon DEF NoCmd
      <3>3. \A i \in Ids : \A e \in Entries : audit[i][e] = 0
        BY <2>1, Zenon
      <3>4. \A i \in Ids : Told(cmd[i], audit[i])
        BY <3>2, <3>3 DEF Told, Sum, Entries, Outcomes
      <3> QED
        BY <2>1, <3>1, <3>2, <3>4, Zenon
    <2>3. pc \notin {"claimed", "running"}
      BY <2>1
    <2> QED
      BY <2>1, <2>2, <2>3, Zenon DEF AuditInv
  <1>2. Init => TableOK /\ OnceInv
    BY OnceInit, Zenon
  <1>3. TableOK /\ OnceInv /\ ExecInv /\ AuditInv /\ [Next]_vars => (TableOK /\ OnceInv /\ AuditInv)'
    BY OnceStep, AuditNext, Zenon
  <1>4. AuditInv => AuditComplete
    BY Zenon DEF AuditInv, AuditComplete, Told, Sum, Results
  <1> QED
    BY <1>1, <1>2, <1>3, <1>4, ExecutorsInvariant, PTL DEF Spec

-----------------------------------------------------------------------------
(* Checks: no scrape is left to send on a closed channel, no check is scraped *)
(* twice at a time, no skip and no result is lost on the way.                *)

\* 1 for a condition that holds.
Unit(x) == IF x THEN 1 ELSE 0

\* The gate the reconciler is on its way to.
nextBuilt == IF seen = "none" THEN gate ELSE seen

Shape ==
    /\ cur \in Nat \ {0} /\ changes \in 0..MaxChanges
    /\ target \in [role : Roles, up : BOOLEAN]
    /\ cached \in Roles \cup {"unknown"} /\ gate \in Roles \cup {"unknown"}
    /\ seen \in Roles \cup {"none"} /\ reconciler \in {"idle", "acquire", "stopping", "add"}
    /\ (seen = "none") = (reconciler \in {"idle", "add"})
    /\ cached = "unknown" => gate = "unknown" /\ reconciler = "idle"
    /\ sched \in [Gens -> [cancelled : BOOLEAN, closed : BOOLEAN]] /\ chan \in [Gens -> Nat]
    /\ loop \in [Gens -> [Checks -> {"off", "tick", "slot"}]]
    /\ scrape \in [Gens -> [Checks -> {"none", "run", "send"}]]
    /\ batch \in [Flushes -> SUBSET (Checks \cup {"idle"})]

\* A change of the target travels through the cached role and the reconciler to
\* the gate, and each one that arrives starts one scheduler.
Generations ==
    cur + Unit(reconciler # "idle") + Unit(cached # nextBuilt) + Unit(target.role # cached)
        <= changes + 2

\* Who is in a critical section holds schedMu, and nobody rebuilds once stopped.
Exclusion ==
    /\ reconciler \in {"stopping", "add"} => schedMu = "reconcile"
    /\ pusher = "stopping" => schedMu = "push"
    /\ main = "stopping" => schedMu = "main"
    /\ schedMu = "reconcile" => ~stopped
    /\ main \notin {"run", "stop"} => stopped

Still(g) == \A c \in Checks : scrape[g][c] = "none" /\ loop[g][c] = "off"

\* A scheduler that has closed its channel is over, and one that was not started
\* has done nothing yet.
Lifecycle ==
    /\ \A g \in Gens : sched[g].closed => g <= cur /\ Still(g)
    /\ \A g \in Gens : g > cur => Still(g) /\ chan[g] = 0

\* Unless a wait ran out of time, the schedulers replaced are over, and the last
\* one is, once stopped.
InTime ==
    /\ \A g \in Gens : g < cur => sched[g].closed
    /\ reconciler = "add" => sched[cur].closed
    /\ stopped /\ schedMu = "free" => sched[cur].closed
    /\ main \in {"flush", "flushing", "exited"} => \A g \in Gens : g <= cur => sched[g].closed /\ chan[g] = 0
    /\ main \in {"flushing", "exited"} => ~collected

\* A batch is of checks, and the last one is the shutdown's.
Batches ==
    /\ pending \subseteq Checks
    /\ \A f \in Flushes : batch[f] = {"idle"} \/ batch[f] \subseteq Checks
    /\ batch["shutdown"] # {"idle"} => main = "flushing"

\* The inductive invariant.
CollectorInv ==
    /\ Shape /\ Generations /\ Exclusion /\ Lifecycle /\ Batches /\ SkipKept
    /\ overran \/ InTime

-----------------------------------------------------------------------------
(* One scheduler *)

\* No scrape of a generation is under way when each of its entries has none.
LEMMA NoneBusy ==
    ASSUME NEW g \in Gens
    PROVE  (Of(g) = {}) <=> \A c \in Checks : scrape[g][c] = "none"
  <1>1. ASSUME NEW c \in Checks, scrape[g][c] # "none" PROVE <<g, c>> \in Of(g)
    BY <1>1 DEF Of, Busy
  <1>2. ASSUME NEW p \in Of(g) PROVE \E c \in Checks : scrape[g][c] # "none"
    BY DEF Of, Busy
  <1> QED
    BY <1>1, <1>2, Zenon

\* The current scheduler is one of those the bound allows, and so is the next
\* one while the reconciler is about to build it.
LEMMA CurrentGeneration ==
    ASSUME Shape, Generations
    PROVE  cur \in Gens /\ (reconciler # "idle" => cur + 1 \in Gens)
  BY CollectorAssumption DEF Shape, Generations, Unit, Gens

\* The variables that the steps of a scheduler leave alone.
Outside == <<target, changes, cached, gate, cur, pending, batch, reported, schedMu, stopped,
             cancelled, reconciler, seen, pusher, main, overran>>

\* Those parts of the invariant hold on.
LEMMA OutsideKept ==
    ASSUME CollectorInv, UNCHANGED Outside
    PROVE  Generations' /\ Exclusion' /\ Batches' /\ SkipKept'
  BY Zenon DEF Outside, CollectorInv, Generations, nextBuilt, Exclusion, Batches, SkipKept, alive

\* A step of an entry of a generation that is not over.
LEMMA EntryKept ==
    ASSUME CollectorInv, UNCHANGED Outside, UNCHANGED <<sched, collected>>, Shape',
           NEW g \in Gens, g <= cur, ~sched[g].closed,
           \A h \in Gens \ {g} : scrape'[h] = scrape[h] /\ loop'[h] = loop[h] /\ chan'[h] = chan[h]
    PROVE  CollectorInv'
  <1>0. g \in Nat
    BY DEF Gens
  <1>1. cur' = cur /\ sched' = sched /\ cur \in Nat /\ g \in Nat
    BY <1>0, Zenon DEF Outside, CollectorInv, Shape
  <1>2. Lifecycle'
    <2>1. \A h \in Gens : h # g => (Still(h) => Still(h)')
      BY Zenon DEF Still
    <2>2. ~(g > cur)
      BY <1>1
    <2> QED
      BY <1>1, <2>1, <2>2, Zenon DEF CollectorInv, Lifecycle
  <1>3. InTime => InTime'
    BY <1>1, Zenon DEF InTime, Outside
  <1> QED
    BY <1>2, <1>3, OutsideKept, Zenon DEF CollectorInv, Outside

\* An entry with a scrape or a loop belongs to a generation that is not over.
LEMMA LiveEntry ==
    ASSUME Shape, Lifecycle, NEW g \in Gens, NEW c \in Checks, loop[g][c] # "off" \/ scrape[g][c] # "none"
    PROVE  g <= cur /\ ~sched[g].closed
  <1>1. ~Still(g)
    BY Zenon DEF Still
  <1>2. ~(g > cur) /\ ~sched[g].closed
    BY <1>1, Zenon DEF Lifecycle
  <1> QED
    BY <1>2 DEF Shape, Gens

\* The loop of an entry: a tick, a slot, its end.
LEMMA LoopSteps ==
    ASSUME CollectorInv, NEW g \in Gens, NEW c \in Checks,
           TickEntry(g, c) \/ GetSlot(g, c) \/ ExitLoop(g, c)
    PROVE  CollectorInv'
  <1>1. /\ UNCHANGED Outside /\ UNCHANGED <<sched, collected, chan>> /\ loop[g][c] # "off"
    BY DEF TickEntry, GetSlot, ExitLoop, Outside, env, flushing, procs
  <1>2. /\ \/ scrape' = scrape
           \/ scrape' = [scrape EXCEPT ![g][c] = "run"]
        /\ \/ loop' = loop
           \/ \E s \in {"off", "tick", "slot"} : loop' = [loop EXCEPT ![g][c] = s]
    BY DEF TickEntry, GetSlot, ExitLoop
  <1>3. Shape /\ Lifecycle
    BY Zenon DEF CollectorInv
  <1>4. /\ scrape' \in [Gens -> [Checks -> {"none", "run", "send"}]]
        /\ loop' \in [Gens -> [Checks -> {"off", "tick", "slot"}]]
        /\ \A h \in Gens \ {g} : scrape'[h] = scrape[h] /\ loop'[h] = loop[h]
    <2>1. /\ scrape \in [Gens -> [Checks -> {"none", "run", "send"}]]
          /\ loop \in [Gens -> [Checks -> {"off", "tick", "slot"}]]
      BY <1>3, Zenon DEF Shape
    <2>2. /\ scrape' \in [Gens -> [Checks -> {"none", "run", "send"}]]
          /\ \A h \in Gens \ {g} : scrape'[h] = scrape[h]
      BY <1>2, <2>1
    <2>3. /\ loop' \in [Gens -> [Checks -> {"off", "tick", "slot"}]]
          /\ \A h \in Gens \ {g} : loop'[h] = loop[h]
      BY <1>2, <2>1
    <2> QED
      BY <2>2, <2>3, Zenon
  <1>5. Shape'
    BY <1>1, <1>3, <1>4, Zenon DEF Shape, Outside
  <1>6. g <= cur /\ ~sched[g].closed
    BY <1>1, <1>3, LiveEntry, Zenon
  <1> QED
    BY <1>1, <1>4, <1>5, <1>6, EntryKept, Zenon

\* A scrape ends and sends its result, drops it, or waits for room.
LEMMA ScrapeSteps ==
    ASSUME CollectorInv, NEW g \in Gens, NEW c \in Checks, scrapeEntry(g, c) \/ SendLater(g, c)
    PROVE  CollectorInv'
  <1>1. UNCHANGED Outside /\ UNCHANGED <<sched, collected, loop>> /\ scrape[g][c] # "none" /\ SendResult(g, c)
    BY DEF scrapeEntry, SendLater, Outside, env, flushing, procs
  <1>2. /\ \E s \in {"none", "send"} : scrape' = [scrape EXCEPT ![g][c] = s]
        /\ chan' = chan \/ chan' = [chan EXCEPT ![g] = chan[g] + 1]
    BY <1>1 DEF SendResult
  <1>3. Shape /\ Lifecycle
    BY Zenon DEF CollectorInv
  <1>4. /\ scrape' \in [Gens -> [Checks -> {"none", "run", "send"}]] /\ chan' \in [Gens -> Nat]
        /\ \A h \in Gens \ {g} : scrape'[h] = scrape[h] /\ chan'[h] = chan[h]
    BY <1>2, <1>3 DEF Shape
  <1>5. Shape'
    BY <1>1, <1>3, <1>4, Zenon DEF Shape, Outside
  <1>6. g <= cur /\ ~sched[g].closed
    BY <1>1, <1>3, LiveEntry, Zenon
  <1> QED
    BY <1>1, <1>4, <1>5, <1>6, EntryKept, Zenon

\* The channel is closed when the loops and the scrapes are gone.
LEMMA CloseStep ==
    ASSUME CollectorInv, NEW g \in Gens, CloseResults(g)
    PROVE  CollectorInv'
  <1>1. /\ UNCHANGED Outside /\ UNCHANGED <<loop, scrape, chan, collected>> /\ g <= cur
        /\ ReadyToClose(g) /\ sched' = [sched EXCEPT ![g].closed = TRUE]
    BY DEF CloseResults, Outside, env, flushing, procs
  <1>2. Still(g)
    BY <1>1, NoneBusy, Zenon DEF ReadyToClose, Still
  <1>3. /\ sched' \in [Gens -> [cancelled : BOOLEAN, closed : BOOLEAN]]
        /\ \A h \in Gens : sched'[h].closed <=> sched[h].closed \/ h = g
    <2>1. sched \in [Gens -> [cancelled : BOOLEAN, closed : BOOLEAN]]
      BY Zenon DEF CollectorInv, Shape
    <2> QED
      BY <1>1, <2>1, Zenon
  <1>4. Shape'
    BY <1>1, <1>3, Zenon DEF CollectorInv, Shape, Outside
  <1>5. Lifecycle'
    <2>1. cur' = cur /\ chan' = chan /\ \A h \in Gens : Still(h)' <=> Still(h)
      BY <1>1, Zenon DEF Still, Outside
    <2> QED
      BY <1>1, <1>2, <1>3, <2>1, Zenon DEF CollectorInv, Lifecycle
  <1>6. cur \in Gens
    BY CurrentGeneration, Zenon DEF CollectorInv
  <1>7. InTime => InTime'
    BY <1>1, <1>3, <1>6, Zenon DEF InTime, Outside
  <1> QED
    BY <1>1, <1>4, <1>5, <1>7, OutsideKept, Zenon DEF CollectorInv, Outside

\* A result goes into pending.
LEMMA ForwardStep ==
    ASSUME CollectorInv, NEW g \in Gens, Forward(g)
    PROVE  CollectorInv'
  <1>1. /\ UNCHANGED Outside /\ UNCHANGED <<sched, loop, scrape>>
        /\ chan[g] > 0 /\ chan' = [chan EXCEPT ![g] = chan[g] - 1]
    BY DEF Forward, Outside, env, procs
  <1>2. chan \in [Gens -> Nat] /\ cur \in Nat /\ g \in Nat
    BY DEF CollectorInv, Shape, Gens
  <1>3. chan' \in [Gens -> Nat] /\ (\A h \in Gens : chan[h] = 0 => chan'[h] = 0) /\ chan[g] # 0
    BY <1>1, <1>2
  <1>4. Shape'
    BY <1>1, <1>3, Zenon DEF CollectorInv, Shape, Outside
  <1>5. Lifecycle'
    BY <1>1, <1>3, Zenon DEF CollectorInv, Lifecycle, Still, Outside
  <1>6. InTime => InTime'
    <2>1. g > cur => chan[g] = 0
      BY Zenon DEF CollectorInv, Lifecycle
    <2>2. g <= cur
      BY <1>2, <1>3, <2>1
    <2>3. InTime => main \notin {"flush", "flushing", "exited"}
      BY <1>3, <2>2 DEF InTime
    <2> QED
      BY <1>1, <2>3 DEF InTime, Outside
  <1> QED
    BY <1>1, <1>4, <1>5, <1>6, OutsideKept, Zenon DEF CollectorInv, Outside

\* Nothing the invariant speaks of changes: time passes for the breakers.
LEMMA AllKept ==
    ASSUME CollectorInv, UNCHANGED Outside, UNCHANGED <<sched, loop, scrape, chan, collected>>
    PROVE  CollectorInv'
  <1>1. Shape'
    BY Zenon DEF CollectorInv, Shape, Outside
  <1>2. Lifecycle'
    <2>1. \A h \in Gens : Still(h)' <=> Still(h)
      BY Zenon DEF Still
    <2> QED
      BY <2>1, Zenon DEF CollectorInv, Lifecycle, Outside
  <1>3. InTime => InTime'
    BY Zenon DEF InTime, Outside
  <1> QED
    BY <1>1, <1>2, <1>3, OutsideKept, Zenon DEF CollectorInv, Outside

-----------------------------------------------------------------------------
(* The schedule set *)

\* Stop returns: the scheduler is closed, or time ran out.
LEMMA StopInTime == ASSUME NEW g, StopReturns(g), ~overran' PROVE sched[g].closed /\ ~overran
  BY DEF StopReturns

\* The reconciler reads the target: at most one change moves on towards the gate.
LEMMA ReadStep == ASSUME CollectorInv, ReconcileRead PROVE CollectorInv'
  <1>1. /\ UNCHANGED <<target, changes, gate, cur, sched, loop, scrape, chan, pending, collected, batch, reported>>
        /\ UNCHANGED <<schedMu, stopped, cancelled, pusher, main, overran>>
        /\ reconciler = "idle" /\ schedMu = "free"
    BY DEF ReconcileRead, env, scheds, flushing
  <1>2. /\ Shape /\ Generations /\ seen = "none"
    BY <1>1 DEF CollectorInv, Shape
  <1>3. /\ \/ cached' = cached
           \/ cached = "unknown" /\ cached' = target.role
        /\ \/ seen' = "none" /\ reconciler' = "idle" /\ (cached' = cached \/ cached' = gate)
           \/ seen' = cached' /\ cached' # gate /\ cached' # "unknown" /\ reconciler' = "acquire"
    BY <1>1, <1>2 DEF ReconcileRead, nextGate, Shape, Roles
  <1>4. Shape'
    BY <1>1, <1>2, <1>3 DEF Shape, Roles
  <1>5. Generations'
    BY <1>1, <1>2, <1>3 DEF Shape, Generations, nextBuilt, Unit, Roles
  <1>6. Exclusion'
    BY <1>1, <1>3 DEF CollectorInv, Exclusion
  <1>7. Lifecycle' /\ Batches'
    BY <1>1, Zenon DEF CollectorInv, Lifecycle, Still, Batches
  <1>8. SkipKept'
    BY <1>1, <1>3 DEF CollectorInv, SkipKept, alive
  <1>9. InTime => InTime'
    BY <1>1, <1>3 DEF InTime
  <1> QED
    BY <1>1, <1>4, <1>5, <1>6, <1>7, <1>8, <1>9, Zenon DEF CollectorInv

\* Cancelling a scheduler closes nothing.
LEMMA CancelKeeps ==
    ASSUME Shape, Lifecycle, cur \in Gens, Cancel(cur), UNCHANGED <<cur, loop, scrape, chan>>
    PROVE  /\ sched' \in [Gens -> [cancelled : BOOLEAN, closed : BOOLEAN]]
           /\ \A h \in Gens : sched'[h].closed = sched[h].closed
           /\ Lifecycle'
  <1>1. sched \in [Gens -> [cancelled : BOOLEAN, closed : BOOLEAN]]
    BY Zenon DEF Shape
  <1>2. /\ sched' \in [Gens -> [cancelled : BOOLEAN, closed : BOOLEAN]]
        /\ \A h \in Gens : sched'[h].closed = sched[h].closed
    BY <1>1, Zenon DEF Cancel
  <1>3. \A h \in Gens : Still(h)' <=> Still(h)
    BY Zenon DEF Still
  <1>4. Lifecycle'
    BY <1>2, <1>3, Zenon DEF Lifecycle
  <1> QED
    BY <1>2, <1>4, Zenon

\* The reconciler takes schedMu and cancels the scheduler, unless stop came first.
LEMMA AcquireStep == ASSUME CollectorInv, ReconcileAcquire PROVE CollectorInv'
  <1>1. /\ UNCHANGED <<target, changes, cached, gate, cur, loop, scrape, chan, pending, collected, batch, reported>>
        /\ UNCHANGED <<stopped, cancelled, pusher, main, overran>>
        /\ reconciler = "acquire" /\ schedMu = "free"
    BY DEF ReconcileAcquire, env, flushing
  <1>2. Shape /\ Generations /\ Lifecycle /\ cur \in Gens /\ cached # "unknown"
    BY <1>1, CurrentGeneration DEF CollectorInv, Shape
  <1>3. \/ reconciler' = "stopping" /\ schedMu' = "reconcile" /\ Cancel(cur) /\ seen' = seen /\ ~stopped
        \/ reconciler' = "idle" /\ seen' = "none" /\ schedMu' = schedMu /\ sched' = sched
    BY DEF ReconcileAcquire, MayRebuild
  <1>4. /\ sched' \in [Gens -> [cancelled : BOOLEAN, closed : BOOLEAN]]
        /\ \A h \in Gens : sched'[h].closed = sched[h].closed
        /\ Lifecycle'
    <2>1. CASE Cancel(cur)
      BY <1>1, <1>2, <2>1, CancelKeeps, Zenon
    <2>2. CASE sched' = sched
      <3>1. \A h \in Gens : Still(h)' <=> Still(h)
        BY <1>1, Zenon DEF Still
      <3> QED
        BY <1>1, <1>2, <2>2, <3>1, Zenon DEF Shape, Lifecycle
    <2> QED
      BY <1>3, <2>1, <2>2, Zenon
  <1>5. Shape'
    BY <1>1, <1>2, <1>3, <1>4 DEF Shape
  <1>6. Generations'
    BY <1>1, <1>2, <1>3 DEF Shape, Generations, nextBuilt, Unit
  <1>7. Exclusion'
    BY <1>1, <1>3, SMTT(30) DEF CollectorInv, Exclusion
  <1>8. Batches' /\ SkipKept'
    BY <1>1, <1>3, Zenon DEF CollectorInv, Batches, SkipKept, alive
  <1>9. InTime => InTime'
    BY <1>1, <1>2, <1>3, <1>4 DEF InTime
  <1> QED
    BY <1>1, <1>4, <1>5, <1>6, <1>7, <1>8, <1>9, Zenon DEF CollectorInv

\* The old scheduler has stopped, and its skips are dropped.
LEMMA DropStep == ASSUME CollectorInv, BuildDrop PROVE CollectorInv'
  <1>1. /\ UNCHANGED <<target, changes, cached, cur, sched, loop, scrape, chan, collected, batch>>
        /\ UNCHANGED <<schedMu, stopped, cancelled, pusher, main>>
        /\ reconciler = "stopping" /\ reconciler' = "add" /\ gate' = seen /\ seen' = "none"
        /\ pending' = {} /\ StopReturns(cur)
    BY DEF BuildDrop, env, scheds
  <1>2. Shape /\ Generations /\ cached # "unknown" /\ seen # "none"
    BY <1>1 DEF CollectorInv, Shape
  <1>3. Shape'
    BY <1>1, <1>2 DEF Shape
  <1>4. Generations'
    BY <1>1, <1>2 DEF Shape, Generations, nextBuilt, Unit
  <1>5. Exclusion'
    BY <1>1 DEF CollectorInv, Exclusion
  <1>6. Lifecycle'
    BY <1>1, Zenon DEF CollectorInv, Lifecycle, Still
  <1>7. Batches' /\ SkipKept'
    BY <1>1 DEF CollectorInv, Batches, SkipKept
  <1>8. overran' \/ InTime'
    <2> SUFFICES ASSUME ~overran' PROVE InTime'
      BY Zenon
    <2>1. sched[cur].closed /\ InTime
      BY <1>1, StopInTime, Zenon DEF CollectorInv
    <2> QED
      BY <1>1, <2>1, Zenon DEF InTime
  <1> QED
    BY <1>3, <1>4, <1>5, <1>6, <1>7, <1>8, Zenon DEF CollectorInv

\* A new scheduler starts, with a skip for every check it leaves out.
LEMMA AddStep == ASSUME CollectorInv, BuildAdd PROVE CollectorInv'
  <1>1. /\ UNCHANGED <<target, changes, cached, gate, sched, scrape, chan, collected, batch, reported>>
        /\ UNCHANGED <<stopped, cancelled, seen, pusher, main, overran>>
        /\ reconciler = "add" /\ reconciler' = "idle" /\ schedMu' = "free" /\ cur' = cur + 1
        /\ pending' = pending \cup (Checks \ ScheduleEntries(gate))
        /\ loop' = [loop EXCEPT ![cur + 1] = [c \in Checks |-> IF c \in ScheduleEntries(gate) THEN "tick" ELSE "off"]]
    BY DEF BuildAdd, env
  <1>2. Shape /\ Generations /\ Lifecycle /\ cur \in Gens /\ cur + 1 \in Gens /\ cur \in Nat /\ cached # "unknown"
    BY <1>1, CurrentGeneration DEF CollectorInv, Shape
  <1>3. /\ loop' \in [Gens -> [Checks -> {"off", "tick", "slot"}]]
        /\ \A h \in Gens \ {cur + 1} : loop'[h] = loop[h]
    BY <1>1, <1>2 DEF Shape
  <1>4. Shape'
    BY <1>1, <1>2, <1>3 DEF Shape
  <1>5. Generations'
    BY <1>1, <1>2 DEF Shape, Generations, nextBuilt, Unit
  <1>6. schedMu = "reconcile" /\ ~stopped /\ main \in {"run", "stop"}
    BY <1>1 DEF CollectorInv, Exclusion
  <1>7. Exclusion'
    BY <1>1, <1>6 DEF CollectorInv, Exclusion
  <1>8. Lifecycle'
    <2>1. \A h \in Gens \ {cur + 1} : Still(h)' <=> Still(h)
      BY <1>1, <1>3, Zenon DEF Still
    <2>2. ~sched[cur + 1].closed
      BY <1>2 DEF Lifecycle
    <2>3. \A h \in Gens : /\ h <= cur => h <= cur + 1 /\ h # cur + 1
                          /\ h > cur + 1 => h > cur /\ h # cur + 1
      BY <1>2 DEF Gens
    <2>4. ~(cur + 1 > cur + 1)
      BY <1>2
    <2>5. \A h \in Gens : sched[h].closed => h <= cur + 1 /\ Still(h)'
      BY <1>2, <2>1, <2>2, <2>3, Zenon DEF Lifecycle
    <2>6. \A h \in Gens : h > cur + 1 => Still(h)' /\ chan[h] = 0
      BY <1>2, <2>1, <2>3, Zenon DEF Lifecycle
    <2> QED
      BY <1>1, <2>5, <2>6, Zenon DEF Lifecycle
  <1>9. Batches' /\ SkipKept'
    BY <1>1 DEF CollectorInv, Batches, SkipKept
  <1>10. InTime => InTime'
    <2>1. \A h \in Gens : h < cur + 1 => h < cur \/ h = cur
      BY <1>2 DEF Gens
    <2> QED
      BY <1>1, <1>6, <2>1 DEF InTime
  <1> QED
    BY <1>1, <1>4, <1>5, <1>7, <1>8, <1>9, <1>10, Zenon DEF CollectorInv

\* The target changes: one more change is on its way.
LEMMA TargetStep == ASSUME CollectorInv, TargetChanges PROVE CollectorInv'
  <1>1. /\ UNCHANGED <<cached, gate, cur, sched, loop, scrape, chan, pending, collected, batch, reported>>
        /\ UNCHANGED <<schedMu, stopped, cancelled, reconciler, seen, pusher, main, overran>>
        /\ changes < MaxChanges /\ changes' = changes + 1
    BY DEF TargetChanges, scheds, flushing, procs
  <1>2. target' \in [role : Roles, up : BOOLEAN]
    BY Zenon DEF TargetChanges, CollectorInv, Shape, Roles
  <1>3. Shape'
    BY <1>1, <1>2, CollectorAssumption DEF CollectorInv, Shape
  <1>4. Generations'
    <2>1. cur \in Nat /\ changes \in Nat
      BY DEF CollectorInv, Shape
    <2>2. \A x \in BOOLEAN : Unit(x) \in {0, 1}
      BY DEF Unit
    <2>3. PICK k : k = Unit(reconciler # "idle")
      BY Zenon
    <2>4. PICK m : m = Unit(cached # nextBuilt)
      BY Zenon
    <2>5. PICK n : n = Unit(target.role # cached)
      BY Zenon
    <2>6. PICK o : o = Unit(target'.role # cached')
      BY Zenon
    <2>7. k \in {0, 1} /\ m \in {0, 1} /\ n \in {0, 1} /\ o \in {0, 1}
      BY <2>2, <2>3, <2>4, <2>5, <2>6, Zenon
    <2>8. cur + k + m + n <= changes + 2
      BY <2>3, <2>4, <2>5, Zenon DEF CollectorInv, Generations
    <2>9. cur + k + m + o <= (changes + 1) + 2
      BY <2>1, <2>7, <2>8
    <2>10. nextBuilt' = nextBuilt
      BY <1>1, Zenon DEF nextBuilt
    <2>11. k = Unit(reconciler' # "idle") /\ m = Unit(cached' # nextBuilt')
      BY <1>1, <2>3, <2>4, <2>10, Zenon
    <2> QED
      BY <1>1, <2>6, <2>9, <2>11, Zenon DEF Generations
  <1>5. Exclusion' /\ Batches' /\ SkipKept' /\ (InTime => InTime')
    BY <1>1, Zenon DEF CollectorInv, Exclusion, Batches, SkipKept, alive, InTime
  <1>6. Lifecycle'
    BY <1>1, Zenon DEF CollectorInv, Lifecycle, Still
  <1> QED
    BY <1>1, <1>3, <1>4, <1>5, <1>6, Zenon DEF CollectorInv

-----------------------------------------------------------------------------
(* The flush *)

\* What a flush may change.
FlushFrame ==
    UNCHANGED <<target, changes, gate, cur, sched, loop, scrape, chan, schedMu, stopped,
                cancelled, reconciler, seen, pusher, overran>>

\* A flush takes what is pending.
LEMMA TakeStep ==
    ASSUME CollectorInv, NEW f \in Flushes, FlushTake(f)
    PROVE  CollectorInv'
  <1>1. /\ FlushFrame /\ UNCHANGED <<cached, reported>> /\ batch[f] = {"idle"} /\ pending' = {}
        /\ batch' = [batch EXCEPT ![f] = pending] /\ ~collected'
        /\ IF f = "shutdown" THEN main = "flush" /\ main' = "flushing" ELSE main' = main
        /\ f = "ticker" \/ f = "shutdown"
    BY DEF FlushTake, FlushFrame, env, scheds, Flushes
  <1>2. /\ batch \in [Flushes -> SUBSET (Checks \cup {"idle"})] /\ pending \subseteq Checks
        /\ \A h \in Flushes : batch[h] = {"idle"} \/ batch[h] \subseteq Checks
        /\ batch["shutdown"] # {"idle"} => main = "flushing"
    BY Zenon DEF CollectorInv, Shape, Batches
  <1>3. /\ batch' \in [Flushes -> SUBSET (Checks \cup {"idle"})] /\ batch'[f] = pending
        /\ \A h \in Flushes \ {f} : batch'[h] = batch[h]
    BY <1>1, <1>2
  <1>4. Shape'
    BY <1>1, <1>3, Zenon DEF CollectorInv, Shape, FlushFrame
  <1>5. Generations'
    BY <1>1, Zenon DEF CollectorInv, Generations, nextBuilt, FlushFrame
  <1>6. Exclusion'
    BY <1>1 DEF CollectorInv, Exclusion, FlushFrame
  <1>7. Lifecycle'
    BY <1>1, Zenon DEF CollectorInv, Lifecycle, Still, FlushFrame
  <1>8. Batches'
    <2>1. "ticker" \in Flushes /\ "shutdown" \in Flushes
      BY DEF Flushes
    <2>2. batch'["shutdown"] # {"idle"} => main' = "flushing"
      BY <1>1, <1>2, <1>3, <2>1
    <2>3. \A h \in Flushes : batch'[h] = {"idle"} \/ batch'[h] \subseteq Checks
      BY <1>2, <1>3, Zenon
    <2> QED
      BY <1>1, <2>2, <2>3, Zenon DEF Batches
  <1>9. SkipKept'
    <2> SUFFICES ASSUME reconciler # "add", alive, NEW c \in Checks \ ScheduleEntries(gate)
                 PROVE  c \in batch'["ticker"] \cup batch'["shutdown"] \cup reported
      BY <1>1 DEF SkipKept, alive, FlushFrame, ScheduleEntries, Supports
    <2>1. "ticker" \in Flushes /\ "shutdown" \in Flushes /\ "ticker" # "shutdown" /\ c # "idle"
      BY CollectorAssumption DEF Flushes
    <2>2. c \in pending \cup reported \cup batch["ticker"] \cup batch["shutdown"]
      BY Zenon DEF CollectorInv, SkipKept
    <2> QED
      BY <1>1, <1>3, <2>1, <2>2, Zenon
  <1>10. InTime => InTime'
    BY <1>1 DEF InTime, FlushFrame
  <1> QED
    BY <1>1, <1>4, <1>5, <1>6, <1>7, <1>8, <1>9, <1>10, Zenon DEF CollectorInv, FlushFrame

\* A flush sends its batch, or gives the skips back; the cached role may follow
\* the target's.
LEMMA SendStep ==
    ASSUME CollectorInv, NEW f \in Flushes, FlushSend(f)
    PROVE  CollectorInv'
  <1>1. /\ FlushFrame /\ collected' = collected /\ batch[f] # {"idle"}
        /\ batch' = [batch EXCEPT ![f] = {"idle"}]
        /\ IF f = "shutdown" THEN main' = "exited" ELSE main' = main
        /\ \/ reported' = reported \cup batch[f] /\ pending' = pending
           \/ reported' = reported /\ pending' = pending \cup batch[f]
        /\ cached' = cached \/ cached' = target.role
        /\ f = "ticker" \/ f = "shutdown"
    BY DEF FlushSend, FlushFrame, env, scheds, Flushes, RefreshRole, requeueSkips
  <1>2. /\ batch \in [Flushes -> SUBSET (Checks \cup {"idle"})] /\ pending \subseteq Checks
        /\ \A h \in Flushes : batch[h] = {"idle"} \/ batch[h] \subseteq Checks
        /\ batch["shutdown"] # {"idle"} => main = "flushing"
    BY Zenon DEF CollectorInv, Shape, Batches
  <1>3. /\ batch' \in [Flushes -> SUBSET (Checks \cup {"idle"})] /\ batch'[f] = {"idle"}
        /\ \A h \in Flushes \ {f} : batch'[h] = batch[h]
    BY <1>1, <1>2
  <1>4. Shape /\ target.role \in Roles /\ (f = "shutdown" => main = "flushing")
    BY <1>1, <1>2 DEF CollectorInv, Shape
  <1>5. Shape'
    <2>1. cached' \in Roles \cup {"unknown"} /\ (cached' = "unknown" => cached = "unknown")
      BY <1>1, <1>4 DEF Shape, Roles
    <2> QED
      BY <1>1, <1>3, <1>4, <2>1, Zenon DEF Shape, FlushFrame
  <1>6. Generations'
    BY <1>1 DEF CollectorInv, Shape, Generations, nextBuilt, FlushFrame, Unit
  <1>7. Exclusion'
    BY <1>1, <1>4 DEF CollectorInv, Exclusion, FlushFrame
  <1>8. Lifecycle'
    BY <1>1, Zenon DEF CollectorInv, Lifecycle, Still, FlushFrame
  <1>9. Batches'
    <2>1. "ticker" \in Flushes /\ "shutdown" \in Flushes
      BY DEF Flushes
    <2>2. batch'["shutdown"] # {"idle"} => main' = "flushing"
      BY <1>1, <1>2, <1>3, <2>1
    <2>3. \A h \in Flushes : batch'[h] = {"idle"} \/ batch'[h] \subseteq Checks
      BY <1>2, <1>3, Zenon
    <2>4. pending' \subseteq Checks
      BY <1>1, <1>2, Zenon
    <2> QED
      BY <2>2, <2>3, <2>4, Zenon DEF Batches
  <1>10. SkipKept'
    <2> SUFFICES ASSUME reconciler # "add", alive, NEW c \in Checks \ ScheduleEntries(gate)
                 PROVE  c \in pending' \cup reported' \cup batch'["ticker"] \cup batch'["shutdown"]
      BY <1>1, <1>4 DEF SkipKept, alive, FlushFrame, ScheduleEntries, Supports
    <2>1. "ticker" \in Flushes /\ "shutdown" \in Flushes /\ "ticker" # "shutdown"
      BY DEF Flushes
    <2>2. c \in pending \cup reported \cup batch["ticker"] \cup batch["shutdown"]
      BY Zenon DEF CollectorInv, SkipKept
    <2> QED
      BY <1>1, <1>3, <2>1, <2>2, Zenon
  <1>11. InTime => InTime'
    BY <1>1, <1>4 DEF InTime, FlushFrame
  <1> QED
    BY <1>1, <1>5, <1>6, <1>7, <1>8, <1>9, <1>10, <1>11, Zenon DEF CollectorInv, FlushFrame

-----------------------------------------------------------------------------
(* Revocation and shutdown *)

\* What a stop leaves alone.
StopFrame ==
    UNCHANGED <<target, changes, cached, gate, cur, loop, scrape, chan, pending, collected, batch,
                reported, reconciler, seen>>

\* What then holds of the parts a stop does not touch.
LEMMA StopKeeps ==
    ASSUME CollectorInv, StopFrame, main' = main \/ main = "run" \/ main \in {"stop", "stopping", "drain"},
           main' # "exited" \/ main = "exited"
    PROVE  Generations' /\ Batches' /\ SkipKept'
  <1>1. Generations'
    BY Zenon DEF CollectorInv, StopFrame, Generations, nextBuilt
  <1>2. Batches'
    BY DEF CollectorInv, StopFrame, Batches
  <1>3. SkipKept'
    BY Zenon DEF CollectorInv, StopFrame, SkipKept, alive
  <1> QED
    BY <1>1, <1>2, <1>3, Zenon

\* The push loop and main, each with schedMu, cancel the scheduler.
LEMMA BeginSteps == ASSUME CollectorInv, PushStop \/ MainStop PROVE CollectorInv'
  <1>1. /\ StopFrame /\ overran' = overran /\ Cancel(cur) /\ schedMu = "free" /\ stopped'
        /\ \/ schedMu' = "push" /\ pusher' = "stopping" /\ main' = main
           \/ schedMu' = "main" /\ pusher' = pusher /\ main = "stop" /\ main' = "stopping"
    BY DEF PushStop, MainStop, StopBegin, StopFrame, env, flushing
  <1>2. Shape /\ Lifecycle /\ cur \in Gens /\ UNCHANGED <<cur, loop, scrape, chan>>
    BY <1>1, CurrentGeneration, Zenon DEF CollectorInv, StopFrame
  <1>3. /\ sched' \in [Gens -> [cancelled : BOOLEAN, closed : BOOLEAN]]
        /\ \A h \in Gens : sched'[h].closed = sched[h].closed
        /\ Lifecycle'
    BY <1>1, <1>2, CancelKeeps, Zenon
  <1>4. Shape'
    BY <1>1, <1>2, <1>3, Zenon DEF Shape, StopFrame
  <1>5. Exclusion'
    BY <1>1, SMTT(30) DEF CollectorInv, Exclusion, StopFrame
  <1>6. InTime => InTime'
    BY <1>1, <1>2, <1>3 DEF InTime, StopFrame
  <1>7. Generations' /\ Batches' /\ SkipKept'
    BY <1>1, StopKeeps
  <1> QED
    BY <1>1, <1>3, <1>4, <1>5, <1>6, <1>7, Zenon DEF CollectorInv

\* The stop is over: the scheduler is closed, or time ran out.
LEMMA StoppedSteps == ASSUME CollectorInv, PushStopped \/ MainStopped PROVE CollectorInv'
  <1>1. /\ StopFrame /\ UNCHANGED <<sched, stopped>> /\ StopReturns(cur) /\ schedMu' = "free"
        /\ \/ pusher = "stopping" /\ pusher' = "done" /\ main' = main
           \/ pusher' = pusher /\ main = "stopping" /\ main' = "drain"
    BY DEF PushStopped, MainStopped, StopFrame, env, scheds, flushing
  <1>2. Shape' /\ Lifecycle'
    <2>1. Shape'
      BY <1>1, Zenon DEF CollectorInv, Shape, StopFrame
    <2>2. Lifecycle'
      BY <1>1, Zenon DEF CollectorInv, Lifecycle, Still, StopFrame
    <2> QED
      BY <2>1, <2>2, Zenon
  <1>3. Exclusion'
    BY <1>1 DEF CollectorInv, Exclusion, StopFrame
  <1>4. overran' \/ InTime'
    <2> SUFFICES ASSUME ~overran' PROVE InTime'
      BY Zenon
    <2>1. sched[cur].closed /\ InTime
      BY <1>1, StopInTime, Zenon DEF CollectorInv
    <2> QED
      BY <1>1, <2>1 DEF InTime, StopFrame
  <1>5. Generations' /\ Batches' /\ SkipKept'
    BY <1>1, StopKeeps
  <1> QED
    BY <1>2, <1>3, <1>4, <1>5, Zenon DEF CollectorInv

\* SIGTERM, and the wait for what the schedulers still hold.
LEMMA MainSteps == ASSUME CollectorInv, Terminate \/ MainDrained PROVE CollectorInv'
  <1>1. /\ StopFrame /\ UNCHANGED <<sched, stopped, schedMu, pusher>>
        /\ \/ main = "run" /\ main' = "stop" /\ overran' = overran
           \/ main = "drain" /\ main' = "flush" /\ Drained /\ overran' = overran
           \/ main = "drain" /\ main' = "flush" /\ overran'
    BY DEF Terminate, MainDrained, StopFrame, env, scheds, flushing
  <1>2. Shape' /\ Lifecycle'
    <2>1. Shape'
      BY <1>1, Zenon DEF CollectorInv, Shape, StopFrame
    <2>2. Lifecycle'
      BY <1>1, Zenon DEF CollectorInv, Lifecycle, Still, StopFrame
    <2> QED
      BY <2>1, <2>2, Zenon
  <1>3. Exclusion'
    BY <1>1 DEF CollectorInv, Exclusion, StopFrame
  <1>4. overran' \/ InTime'
    <2> SUFFICES ASSUME ~overran' PROVE InTime'
      BY Zenon
    <2>1. InTime
      <3>1. overran' = overran
        BY <1>1, Zenon
      <3>2. ~overran
        BY <3>1
      <3> QED
        BY <3>2, Zenon DEF CollectorInv
    <2>2. main = "drain" => \A g \in Gens : g <= cur => sched[g].closed /\ chan[g] = 0
      <3>1. \A g \in Gens : g <= cur => g \in 1..cur
        BY DEF CollectorInv, Shape, Gens
      <3>2. main = "drain" => Drained
        BY <1>1
      <3> QED
        BY <3>1, <3>2, Zenon DEF Drained
    <2> QED
      BY <1>1, <2>1, <2>2 DEF InTime, StopFrame
  <1>5. Generations' /\ Batches' /\ SkipKept'
    BY <1>1, StopKeeps
  <1> QED
    BY <1>2, <1>3, <1>4, <1>5, Zenon DEF CollectorInv

-----------------------------------------------------------------------------
(* The theorems *)

\* The invariant holds when the agent has started.
LEMMA CollectorInit == SchedInit => CollectorInv
  <1> SUFFICES ASSUME SchedInit PROVE CollectorInv
    BY Zenon
  <1>1. 1 \in Gens
    BY CollectorAssumption, SMTT(30) DEF Gens
  <1>2. Shape
    BY CollectorAssumption DEF SchedInit, Shape, Roles, Flushes
  <1>3. Generations
    BY <1>2 DEF SchedInit, Shape, Generations, nextBuilt, Unit
  <1>4. Exclusion /\ InTime
    BY <1>1 DEF SchedInit, Exclusion, InTime, Gens
  <1>5. Lifecycle
    BY <1>1 DEF SchedInit, Lifecycle, Still, Gens
  <1>6. Batches /\ SkipKept
    BY DEF SchedInit, Batches, SkipKept, Flushes
  <1> QED
    BY <1>2, <1>3, <1>4, <1>5, <1>6, Zenon DEF CollectorInv

\* Every step keeps the invariant.
LEMMA CollectorNext == CollectorInv /\ [SchedNext]_schedVars => CollectorInv'
  <1> SUFFICES ASSUME CollectorInv, [SchedNext]_schedVars PROVE CollectorInv'
    BY Zenon
  <1>1. CASE UNCHANGED schedVars
    <2>1. UNCHANGED Outside /\ UNCHANGED <<sched, loop, scrape, chan, collected>>
      BY <1>1, Zenon DEF schedVars, env, scheds, procs, flushing, Outside
    <2> QED
      BY <2>1, AllKept, Zenon
  <1>2. CASE \E c \in Checks : runEntry(c) \/ Scraping(c)
    BY <1>2, LoopSteps, ScrapeSteps, Zenon DEF runEntry, Scraping
  <1>3. CASE ResultsMove
    BY <1>3, CloseStep, ForwardStep, Zenon DEF ResultsMove
  <1>4. CASE BreakerTick
    <2>1. UNCHANGED Outside /\ UNCHANGED <<sched, loop, scrape, chan, collected>>
      BY <1>4 DEF BreakerTick, Outside, env, flushing, procs
    <2> QED
      BY <2>1, AllKept, Zenon
  <1>5. CASE Reconcile
    BY <1>5, ReadStep, AcquireStep, DropStep, AddStep, Zenon DEF Reconcile
  <1>6. CASE \E f \in Flushes : Flush(f)
    BY <1>6, TakeStep, SendStep, Zenon DEF Flush
  <1>7. CASE PushStop \/ PushStopped \/ Terminate \/ Shutdown
    BY <1>7, BeginSteps, StoppedSteps, MainSteps, Zenon DEF Shutdown
  <1>8. CASE TargetChanges
    BY <1>8, TargetStep, Zenon
  <1> QED
    BY <1>1, <1>2, <1>3, <1>4, <1>5, <1>6, <1>7, <1>8, Zenon DEF SchedNext

\* The inductive invariant of the schedulers, the flush and the shutdown holds.
THEOREM CollectorInvariant == SchedSpec => []CollectorInv
  BY CollectorInit, CollectorNext, PTL DEF SchedSpec

\* No send on a closed channel, no check scraped twice at a time, nothing scraped
\* once stop has returned in time: for any number of checks, workers, rebuilds.
THEOREM ScrapesExclusive == SchedSpec => []ScrapesAlone
  <1>1. ASSUME CollectorInv PROVE ScrapesAlone
    <2>1. Shape /\ Lifecycle /\ cur \in Gens
      BY <1>1, CurrentGeneration, Zenon DEF CollectorInv
    <2>2. \A g \in Gens : sched[g].closed => Of(g) = {}
      BY <2>1, NoneBusy, Zenon DEF Lifecycle, Still
    <2>3. ASSUME InTime, NEW p \in Busy PROVE p[1] = cur /\ p[2] \in Checks /\ p = <<p[1], p[2]>>
      <3>1. p[1] \in Gens /\ p[2] \in Checks /\ scrape[p[1]][p[2]] # "none" /\ p = <<p[1], p[2]>>
        BY DEF Busy
      <3>2. p[1] <= cur /\ ~sched[p[1]].closed
        BY <2>1, <3>1, LiveEntry, Zenon
      <3>3. ~(p[1] < cur)
        BY <2>3, <3>1, <3>2, Zenon DEF InTime
      <3> QED
        BY <2>1, <3>1, <3>2, <3>3 DEF Gens, Shape
    <2>4. ASSUME InTime, NEW c \in Checks PROVE Cardinality({p \in Busy : p[2] = c}) <= 1
      <3> DEFINE one == {<<cur, c>>}
                 some == {p \in Busy : p[2] = c}
      <3>1. some \subseteq one
        BY <2>3, <2>4
      <3>2. IsFiniteSet(one) /\ Cardinality(one) = 1
        BY FS_Singleton, Zenon
      <3>3. Cardinality(some) <= Cardinality(one)
        BY <3>1, <3>2, FS_Subset, Zenon
      <3> QED
        BY <3>2, <3>3, Zenon
    <2>5. ASSUME InTime, stopped, schedMu = "free"
          PROVE  Busy = {} /\ \A c \in Checks : loop[cur][c] = "off"
      <3>1. sched[cur].closed
        BY <2>5, Zenon DEF InTime
      <3>2. Still(cur)
        BY <2>1, <3>1, Zenon DEF Lifecycle
      <3>3. ASSUME NEW p \in Busy PROVE FALSE
        BY <2>3, <2>5, <3>2 DEF Busy, Still
      <3> QED
        BY <3>2, <3>3, Zenon DEF Still
    <2>6. overran \/ InTime
      BY <1>1, Zenon DEF CollectorInv
    <2> QED
      BY <2>2, <2>4, <2>5, <2>6, Zenon DEF ScrapesAlone
  <1> QED
    BY <1>1, CollectorInvariant, PTL

\* No skip of the current schedule is lost, whatever flushes fail meanwhile.
THEOREM SkipsKept == SchedSpec => []SkipKept
  <1>1. CollectorInv => SkipKept
    BY Zenon DEF CollectorInv
  <1> QED
    BY <1>1, CollectorInvariant, PTL

\* A shutdown that did not run out of time leaves no result behind.
THEOREM ShutdownLeavesNothing == SchedSpec => []ShutdownFlushes
  <1>1. ASSUME CollectorInv PROVE ShutdownFlushes
    <2> SUFFICES ASSUME main = "exited", ~overran, NEW g \in Gens
                 PROVE  ~collected /\ Of(g) = {} /\ chan[g] = 0
      <3>1. 1 \in Gens
        BY CollectorAssumption DEF Gens
      <3> QED
        BY <3>1, Zenon DEF ShutdownFlushes
    <2>1. InTime /\ Lifecycle
      BY <1>1, Zenon DEF CollectorInv
    <2>2. ~collected /\ (g <= cur => sched[g].closed /\ chan[g] = 0)
      BY <2>1 DEF InTime
    <2>3. g <= cur \/ g > cur
      BY <1>1 DEF CollectorInv, Shape, Gens
    <2>4. Still(g) /\ chan[g] = 0
      BY <2>1, <2>2, <2>3, Zenon DEF Lifecycle
    <2> QED
      BY <2>2, <2>4, NoneBusy, Zenon DEF Still
  <1> QED
    BY <1>1, CollectorInvariant, PTL

=============================================================================
