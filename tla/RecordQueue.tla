---------------------------- MODULE RecordQueue ----------------------------
(***************************************************************************)
(* What the disk buffer promises the pusher, without segments, offsets,    *)
(* checkpoints or bytes: an at-least-once queue.  Records are numbered in   *)
(* the order of the appends.  A record is owed until the consumer confirms  *)
(* it or a later one; it may be owed again after a restart; and it leaves   *)
(* the queue unconfirmed only when it is counted, oldest first, or when it  *)
(* was not yet synced at a power failure.                                   *)
(***************************************************************************)
EXTENDS Integers

CONSTANT MaxRecs  \* bound: how many records are appended

VARIABLES
    up,         \* the process runs
    written,    \* how many records were appended
    owed,       \* records the consumer will still be offered
    offered,    \* the record the consumer holds; 0 for none
    unreadable, \* records whose payload decayed
    consumed,   \* records the consumer confirmed
    reported,   \* records counted as dropped or as corrupt
    atRisk      \* records not yet synced at a power failure

vars == <<up, written, owed, offered, unreadable, consumed, reported, atRisk>>

Init ==
    /\ up = FALSE /\ written = 0 /\ owed = {} /\ offered = 0
    /\ unreadable = {} /\ consumed = {} /\ reported = {} /\ atRisk = {}

\* Retention takes some of the oldest records of S, and counts them.
Retain(S) ==
    \E cut \in 0..MaxRecs :
        /\ reported' = reported \cup {n \in S : n <= cut}
        /\ owed' = {n \in S : n > cut}

Put ==
    /\ up /\ written < MaxRecs /\ written' = written + 1
    /\ UNCHANGED <<up, offered, unreadable, consumed, atRisk>>
    /\ Retain(owed \cup {written + 1})

\* The consumer gets the oldest record that can be read; the ones before it
\* are counted.
Offer ==
    /\ up /\ offered = 0
    /\ \E n \in 1..written :
         /\ offered' = n
         /\ UNCHANGED <<up, written, unreadable, consumed, atRisk>>
         /\ n \in owed \ unreadable
         /\ \A m \in owed : m < n => m \in unreadable
         /\ reported' = reported \cup {m \in owed : m < n}
    /\ UNCHANGED owed

\* Nothing that is owed can be read.
OfferNone ==
    /\ up /\ offered = 0
    /\ UNCHANGED <<up, written, offered, unreadable, consumed, atRisk>>
    /\ owed \subseteq unreadable
    /\ reported' = reported \cup owed
    /\ UNCHANGED owed

Confirm ==
    /\ up /\ offered # 0 /\ offered' = 0
    /\ consumed' = consumed \cup {offered}
    /\ UNCHANGED <<up, written, unreadable, reported, atRisk>>
    /\ owed' = {n \in owed : n > offered}

Return ==
    /\ up /\ offered # 0 /\ offered' = 0
    /\ UNCHANGED <<up, written, unreadable, consumed, reported, atRisk>>
    /\ UNCHANGED owed

\* A stop may make settled records owed again, and those a power failure took for
\* a while; it may come when one more record was written.
Stop ==
    /\ up /\ up' = FALSE /\ offered' = 0
    /\ written' \in {written, written + 1} /\ written' <= MaxRecs
    /\ UNCHANGED <<unreadable, consumed, reported, atRisk>>
    /\ LET all == owed \cup (1..written' \ 1..written)
       IN  all \subseteq owed' /\ owed' \subseteq all \cup consumed \cup reported \cup atRisk

\* A power failure takes no record that was synced and not yet settled; what
\* was settled or taken may come back with an older checkpoint.
PowerLoss ==
    /\ up' = FALSE /\ offered' = 0
    /\ UNCHANGED <<written, unreadable, consumed, reported>>
    /\ atRisk \subseteq atRisk' /\ atRisk' \subseteq 1..written
    /\ LET settled == consumed \cup reported \cup atRisk'
       IN  owed \subseteq owed' \cup settled /\ owed' \subseteq owed \cup settled

Start ==
    /\ ~up /\ up' = TRUE
    /\ UNCHANGED <<written, offered, unreadable, consumed, atRisk>>
    /\ Retain(owed)

Decay ==
    /\ \E n \in 1..written : unreadable' = unreadable \cup {n}
    /\ UNCHANGED <<up, written, offered, consumed, reported, atRisk>>
    /\ UNCHANGED owed

Next ==
    \/ Put \/ Offer \/ OfferNone \/ Confirm \/ Return
    \/ Stop \/ PowerLoss \/ Start \/ Decay

Spec == Init /\ [][Next]_vars
=============================================================================
