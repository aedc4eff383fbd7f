------------------------------ MODULE EventLog ------------------------------
(***************************************************************************)
(* What `events.watch` promises a client that resumes with the `next_seq`  *)
(* of its last answer: it reads the log of published events front to back, *)
(* never twice, and an event it passes without receiving it is one it was  *)
(* told about (`gap`).  Module EventBus implements this.                   *)
(***************************************************************************)
EXTENDS Naturals, Sequences

CONSTANTS
    Topic,      \* event types
    Wanted,     \* the topics the client's filter and scope admit
    None,       \* no position yet: the first call carries no from_seq
    FirstSeqs   \* what a client may start with

VARIABLES
    log,        \* topics of the events published so far; log[k] has seq k
    cursor,     \* the position the client resumes from
    got,        \* seqs received
    missed      \* seqs the client was told it cannot have

logVars == <<log, cursor, got, missed>>

LogInit ==
    /\ log = <<>>
    /\ cursor \in FirstSeqs
    /\ got = {}
    /\ missed = {}

LogPublish(t) ==
    /\ log' = Append(log, t)
    /\ UNCHANGED <<cursor, got, missed>>

WantedBetween(from, to) ==
    {k \in from..(to - 1) : k \in DOMAIN log /\ log[k] \in Wanted}

\* One answer takes the client from `from` to `to`.  What it receives is
\* wanted and lies between the two, and every wanted event between them is
\* received or announced as lost.  A client without a position starts
\* anywhere in the log.
LogAdvance(from, to) ==
    /\ cursor \in {None, from}
    /\ from <= to
    /\ cursor' = to
    /\ got \subseteq got'
    /\ got' \ got \subseteq WantedBetween(from, to)
    /\ WantedBetween(from, to) \subseteq (got' \ got) \cup missed'
    /\ missed \subseteq missed'
    /\ UNCHANGED log

LogNext ==
    \/ \E t \in Topic : LogPublish(t)
    \/ \E from, to \in 0..(Len(log) + 1) : LogAdvance(from, to)

LogSpec == LogInit /\ [][LogNext]_logVars

=============================================================================
