------------------------------ MODULE Delivery ------------------------------
(***************************************************************************)
(* An envelope's way from the agent's disk queue to the server's store: the *)
(* push loop (internal/agent/pusher.go), the ingest handler                 *)
(* (internal/server/ingest.go), and the network between them.  The queue is *)
(* taken by its promise (RecordQueue); damage on disk is left to Buffer.    *)
(*                                                                          *)
(* A record is the number of its append.  What the server makes of it only  *)
(* depends on its kind, on its age and on the state of the server.          *)
(***************************************************************************)
EXTENDS Integers, FiniteSets, FiniteSetsExt

CONSTANTS
    MaxRecs,              \* bound: how many records are appended
    Kinds,                \* what each record can be to the two ends
    attemptTimeout,       \* the wait of a first attempt
    maxAttemptTimeout,    \* the ceiling of the doubled waits
    maxConcurrentIngest,  \* handlers the server runs at a time
    Modes,                \* the conditions the server goes through
    MaxTurns,             \* bound: how often they change
    MaxExits              \* bound: how often the agent's process ends

Recs == 1..MaxRecs

ASSUME DeliveryAssumption ==
    /\ MaxRecs \in Nat
    /\ Kinds \in [Recs -> SUBSET {"good", "undecodable", "unencodable",
                                   "large", "invalid", "unstorable"}]
    /\ attemptTimeout \in Nat \ {0} /\ maxAttemptTimeout \in Nat \ {0}
    /\ maxConcurrentIngest \in Nat \ {0}
    /\ "ok" \in Modes

VARIABLES
    up, written, owed, offered, consumed, reported,  \* the queue: RecordQueue
    pc,        \* the push loop: idle, drain, attempt, sent, backoff
    cancelled, \* the push context is cancelled: the agent shuts down
    stalls,    \* attempts for this record that timed out at the server
    health,    \* the state healthz shows
    givenUp,   \* records nDropped counts (a history over restarts)
    request,   \* where the attempt is: none, network, handler, or its answer
    late,      \* records with a handler whose client has gone
    kind,      \* what each record is; never changes
    mode,      \* the condition of the server and of what is in front of it
    aged,      \* the records up to this one are older than the server takes
    stored,    \* records the server has committed
    bounds     \* the turns and the exits so far

queue == <<up, written, owed, offered, consumed, reported>>
pusher == <<pc, cancelled, stalls, health, givenUp>>
receiver == <<kind, late, mode, aged, stored>>
pushVars == <<queue, pusher, request, receiver, bounds>>

Queue == INSTANCE RecordQueue WITH unreadable <- {}, atRisk <- {}

Answers == {"202", "400", "401", "401 revoked", "403", "404", "413", "429", "500", "503"}

KindChoices == {k \in [Recs -> UNION {Kinds[n] : n \in Recs}] : \A n \in Recs : k[n] \in Kinds[n]}

PushInit ==
    /\ Queue!Init
    /\ pc = "idle" /\ cancelled = FALSE /\ stalls = 0 /\ health = "ok" /\ givenUp = {}
    /\ request = "none" /\ late = {} /\ mode \in Modes /\ aged = 0 /\ stored = {}
    /\ kind \in KindChoices /\ bounds = [turns |-> 0, exits |-> 0]

-----------------------------------------------------------------------------
(* The agent's process *)

Start ==
    /\ Queue!Start
    /\ pc' = "idle" /\ cancelled' = FALSE /\ stalls' = 0 /\ health' = "ok"
    /\ UNCHANGED <<givenUp, request, receiver, bounds>>

\* The shutdown cancels the push context; the last flush may still queue.
CancelPush ==
    /\ up /\ ~cancelled /\ cancelled' = TRUE
    /\ UNCHANGED <<queue, pc, stalls, health, givenUp, request, receiver, bounds>>

\* The process ends, by itself or killed; an attempt under way loses its client.
Exit ==
    /\ bounds.exits < MaxExits /\ bounds' = [bounds EXCEPT !.exits = @ + 1]
    /\ \E q \in SUBSET Recs : owed' = q
    /\ Queue!Stop
    /\ pc' = "idle" /\ stalls' = 0 /\ request' = "none"
    /\ late' = IF request = "handler" THEN late \cup {offered} ELSE late
    /\ UNCHANGED <<cancelled, health, givenUp, kind, mode, aged, stored>>

QueueRecord ==
    /\ Queue!Put
    /\ UNCHANGED <<pusher, request, receiver, bounds>>

\* The append fails: the envelope is lost, and counted.
QueueError ==
    /\ up /\ written < MaxRecs
    /\ written' = written + 1 /\ givenUp' = givenUp \cup {written + 1}
    /\ UNCHANGED <<up, owed, offered, consumed, reported, pc, cancelled, stalls, health,
                   request, receiver, bounds>>

-----------------------------------------------------------------------------
(* The push loop *)

\* Once a second, until the context is cancelled.
Push ==
    /\ up /\ pc = "idle" /\ ~cancelled /\ pc' = "drain"
    /\ UNCHANGED <<queue, cancelled, stalls, health, givenUp, request, receiver, bounds>>

NextRecord ==
    /\ pc = "drain"
    /\ Queue!Offer /\ pc' = "attempt" /\ stalls' = 0
    /\ UNCHANGED <<cancelled, health, givenUp, request, receiver, bounds>>

BufferDrained ==
    /\ pc = "drain"
    /\ Queue!OfferNone /\ pc' = "idle"
    /\ UNCHANGED <<cancelled, stalls, health, givenUp, request, receiver, bounds>>

\* pushConsumed: the record is acked, whether the server took it or not.
Consume(next) ==
    /\ Queue!Confirm /\ pc' = next

\* pushRetryLater: the record goes back, and the drain ends.
RetryLater ==
    /\ Queue!Return /\ pc' = "idle"

GiveUp(next) ==
    /\ Consume(next) /\ givenUp' = givenUp \cup {offered}

\* A record that does not decode is skipped; one that cannot be encoded ends
\* the drain with an error.
Unusable ==
    /\ pc = "attempt" /\ up
    /\ \/ kind[offered] = "undecodable" /\ GiveUp("drain")
       \/ kind[offered] = "unencodable" /\ GiveUp("idle")
    /\ UNCHANGED <<cancelled, stalls, health, request, receiver, bounds>>

Attempt ==
    /\ pc = "attempt" /\ up /\ kind[offered] \notin {"undecodable", "unencodable"}
    /\ pc' = "sent" /\ request' = "network"
    /\ UNCHANGED <<queue, cancelled, stalls, health, givenUp, receiver, bounds>>

\* The wait before a retry ends, or is cut short by the shutdown.
Backoff ==
    /\ pc = "backoff" /\ up
    /\ \/ pc' = "attempt" /\ UNCHANGED queue
       \/ cancelled /\ RetryLater
    /\ UNCHANGED <<cancelled, stalls, health, givenUp, request, receiver, bounds>>

\* Mutant: a dead network takes the place of a rejection.
UnreachedAlways == health' = "unreachable"

\* A dead network leaves the state a server's answer has put the agent in.
Unreached == health' = IF health \in {"ok", "unreachable"} THEN "unreachable" ELSE health

\* The handler, if there is one, is left without a client.
Abandon ==
    /\ request' = "none"
    /\ late' = IF request = "handler" THEN late \cup {offered} ELSE late

\* The connection fails, before or after the server has the request, or the
\* cancelled context ends it.
ConnectionLost ==
    /\ pc = "sent" /\ up /\ (mode = "down" \/ cancelled)
    /\ Unreached /\ Abandon /\ pc' = "backoff"
    /\ UNCHANGED <<queue, cancelled, stalls, givenUp, kind, mode, aged, stored, bounds>>

\* A timeout before the server had the whole request is never counted.
TimeoutUnsent ==
    /\ pc = "sent" /\ up /\ request = "network" /\ mode = "down"
    /\ Unreached /\ Abandon /\ pc' = "backoff"
    /\ UNCHANGED <<queue, cancelled, stalls, givenUp, kind, mode, aged, stored, bounds>>

\* Doubled with each stall, up to the ceiling.
attemptTimeoutAfter(n) == Min({attemptTimeout * 2^n, maxAttemptTimeout})

\* Mutant: the ceiling is never reached, and the head of the queue never moves.
StallForever ==
    /\ pc = "sent" /\ up /\ request \notin {"none", "network"}
    /\ Unreached /\ Abandon /\ UNCHANGED stalls
    /\ pc' = "backoff" /\ UNCHANGED <<queue, givenUp>>
    /\ UNCHANGED <<cancelled, kind, mode, aged, stored, bounds>>

\* The server has the request and does not answer in time.  At the ceiling the
\* record is given up.
Stall ==
    /\ pc = "sent" /\ up /\ request \notin {"none", "network"}
    /\ Unreached /\ Abandon /\ stalls' = stalls + 1
    /\ IF attemptTimeoutAfter(stalls) >= maxAttemptTimeout
         THEN GiveUp("drain")
         ELSE pc' = "backoff" /\ UNCHANGED <<queue, givenUp>>
    /\ UNCHANGED <<cancelled, kind, mode, aged, stored, bounds>>

\* Mutant: a rejected token costs the record, as it did once.
AnsweredDestructively ==
    /\ pc = "sent" /\ up /\ request \in {"202", "401"} /\ request' = "none"
    /\ health' = "ok" /\ Consume("drain") /\ UNCHANGED givenUp
    /\ UNCHANGED <<cancelled, stalls, receiver, bounds>>

\* Mutant: a record handed back is not offered again before a later one.
AnsweredWithoutRewind ==
    /\ pc = "sent" /\ up /\ request \in {"202", "401"} /\ request' = "none"
    /\ \/ request = "202" /\ health' = "ok" /\ Consume("drain") /\ UNCHANGED givenUp
       \/ /\ request = "401" /\ health' = "unauthorized"
          /\ pc' = "drain" /\ offered' = 0 /\ owed' = owed \ {offered}
          /\ UNCHANGED <<up, written, consumed, reported, givenUp>>
    /\ UNCHANGED <<cancelled, stalls, receiver, bounds>>

\* The client reads the answer.
Answered ==
    /\ pc = "sent" /\ up /\ request \in Answers /\ request' = "none"
    /\ \/ request = "202" /\ health' = "ok" /\ Consume("drain") /\ UNCHANGED givenUp
       \/ request = "400" /\ health' = "incompatible" /\ GiveUp("drain")
       \/ request = "401" /\ health' = "unauthorized" /\ RetryLater /\ UNCHANGED givenUp
       \/ request = "401 revoked" /\ health' = "revoked" /\ RetryLater /\ UNCHANGED givenUp
       \/ request = "404" /\ health' = "incompatible" /\ RetryLater /\ UNCHANGED givenUp
       \/ request \in {"413", "403"} /\ GiveUp("drain") /\ UNCHANGED health
       \/ request \in {"429", "500", "503"} /\ pc' = "backoff" /\ UNCHANGED <<queue, health, givenUp>>
    /\ UNCHANGED <<cancelled, stalls, receiver, bounds>>

-----------------------------------------------------------------------------
(* The server *)

\* An outage outlasts maxSampleAge for the oldest records.
Age ==
    /\ mode = "down" /\ aged < written
    /\ aged' = aged + 1
    /\ UNCHANGED <<queue, pusher, request, kind, late, mode, stored, bounds>>

\* Tokens, revocations, proxies, overload and outages come and go.
Turn ==
    /\ bounds.turns < MaxTurns /\ bounds' = [bounds EXCEPT !.turns = @ + 1]
    /\ \E m \in Modes \ {mode} : mode' = m
    /\ UNCHANGED <<queue, pusher, request, kind, late, aged, stored>>

\* What the handler refuses before it writes anything, in its order; "handler"
\* when it goes on to the store.  A proxy answers 404, 403 and 429.
Refusal(n) ==
    CASE mode = "misrouted" -> "404"
      [] mode = "forbidden" -> "403"
      [] mode = "throttled" -> "429"
      [] mode = "unauthorized" -> "401"
      [] Cardinality(late) >= maxConcurrentIngest -> "503"
      [] kind[n] = "large" -> "413"
      [] kind[n] = "invalid" -> "400"
      [] n <= aged -> "400"
      [] mode = "revoked" -> "401 revoked"
      [] OTHER -> "handler"

Receive ==
    /\ request = "network" /\ mode # "down"
    /\ request' = Refusal(offered)
    /\ UNCHANGED <<queue, pusher, receiver, bounds>>

\* The inventory and the pipeline: all of the record is committed and answered
\* 202, or none of it, and a record the store refuses is a bad request.
Handle ==
    /\ request = "handler"
    /\ \/ kind[offered] = "unstorable" /\ request' = "400" /\ UNCHANGED stored
       \/ mode = "failing" /\ request' = "500" /\ UNCHANGED stored
       \/ /\ kind[offered] # "unstorable" /\ mode # "failing"
          /\ request' = "202" /\ stored' = stored \cup {offered}
    /\ UNCHANGED <<queue, pusher, kind, late, mode, aged, bounds>>

\* A handler whose client has gone commits all the same, or is cancelled with
\* the connection.
HandleLate ==
    /\ \E n \in late :
         /\ late' = late \ {n}
         /\ \/ kind[n] # "unstorable" /\ mode # "failing" /\ stored' = stored \cup {n}
            \/ UNCHANGED stored
    /\ UNCHANGED <<queue, pusher, request, kind, mode, aged, bounds>>

-----------------------------------------------------------------------------
PushStep ==
    Push \/ NextRecord \/ BufferDrained \/ Unusable \/ Attempt \/ Backoff \/ Stall \/ Answered

PushNext ==
    \/ Start \/ CancelPush \/ Exit \/ QueueRecord \/ QueueError
    \/ PushStep \/ ConnectionLost \/ TimeoutUnsent
    \/ Age \/ Turn \/ Receive \/ Handle \/ HandleLate

(***************************************************************************)
(* The push loop, the server and its handlers keep running; nothing is      *)
(* assumed of the environment's turns, of stalls or of the process's life.  *)
(***************************************************************************)
PushFairness ==
    /\ WF_pushVars(Push \/ NextRecord \/ BufferDrained) /\ WF_pushVars(Unusable \/ Attempt)
    /\ WF_pushVars(Backoff) /\ WF_pushVars(Answered) /\ WF_pushVars(ConnectionLost)
    /\ WF_pushVars(Receive) /\ WF_pushVars(Handle) /\ WF_pushVars(HandleLate)

PushSpec == PushInit /\ [][PushNext]_pushVars /\ PushFairness

-----------------------------------------------------------------------------
(* Properties *)

(* A record that leaves the queue is in the store, or is counted: by the   *)
(* pusher that gave it up or by the retention that rolled it off.  A 202 is *)
(* only answered after the commit, and no other answer is an ack in        *)
(* disguise, whatever the order of timeouts, late handlers and restarts.    *)
Accounted == \A n \in 1..written : n \in owed \cup stored \cup givenUp \cup reported

(* Replay is in order: when a record is in the store, every older one is    *)
(* too, or is counted as lost; an outage of the token or of the route does  *)
(* not let a later record overtake an earlier one.                          *)
InOrder ==
    \A n \in stored : \A m \in 1..(n - 1) : m \in stored \cup givenUp \cup reported

(* healthz does not say ok while the last answer was a rejection: the state *)
(* leaves revoked, unauthorized and incompatible only with a 202, another   *)
(* rejection, or a new process; a dead network does not.                    *)
RejectionStands ==
    [][ (health \in {"revoked", "unauthorized", "incompatible"} /\ health' # health)
          => (request \in {"202", "400", "401", "401 revoked", "404"} \/ up # up') ]_pushVars

(* Nothing stays queued once the server takes records again for good: every *)
(* record reaches the store or a count.                                     *)
Calm == up /\ ~cancelled /\ mode = "ok"

Delivered ==
    <>[]Calm => \A n \in Recs : [](n <= written => <>(n \in stored \cup givenUp \cup reported))

(* "a value above zero means data was lost, not only delayed" (README.md):  *)
(* no record that is counted as dropped is in the server's store.           *)
DroppedMeansLost == \A n \in givenUp \cup reported : n \notin stored
=============================================================================
