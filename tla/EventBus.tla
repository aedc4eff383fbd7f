------------------------------ MODULE EventBus ------------------------------
(***************************************************************************)
(* The control plane of shux-core's event bus (crates/shux-core/src/bus.rs)*)
(* and the long poll that reads it, `events.watch`                         *)
(* (crates/shux/src/rpc/events.rs).                                        *)
(*                                                                         *)
(* A publish assigns the seq, pushes to the history ring and broadcasts    *)
(* under one lock: one step.  Watchers change nothing in the bus, so one   *)
(* stands for all of them.  Its call subscribes, reads the head, snapshots *)
(* the history and drains its subscription; publishes fall between any two *)
(* of these steps.                                                         *)
(***************************************************************************)
EXTENDS EventLog, FiniteSets

CONSTANTS
    HistoryCapacity,    \* EventBusConfig::history_capacity
    BroadcastCapacity,  \* EventBusConfig::broadcast_capacity
    MaxEvents,          \* the call's max_events
    MaxSeq              \* bound of the exploration: events published

ASSUME HistoryCapacityAssumption == HistoryCapacity \in Nat \ {0}
ASSUME BroadcastCapacityAssumption == BroadcastCapacity \in Nat \ {0}
ASSUME MaxEventsAssumption == MaxEvents \in Nat
ASSUME MaxSeqAssumption == MaxSeq \in Nat
ASSUME WantedAssumption == Wanted \subseteq Topic
ASSUME FirstSeqsAssumption == None \notin Nat /\ FirstSeqs \subseteq {None, 0, 1}

VARIABLES
    oldest,     \* seq of the oldest event in the history ring
    pc,         \* where the watcher's call is
    next,       \* its subscription: the next seq the receiver looks for
    start,      \* where that subscription began
    head,       \* current_seq, read after subscribing
    collected,  \* seqs of the events collected so far
    count,      \* collected.len(): an event in both streams counts twice
    gap         \* the answer's gap

watch == <<pc, next, start, head, collected, count, gap>>
vars == <<logVars, oldest, watch>>

-----------------------------------------------------------------------------
(* The bus                                                                 *)

\* seq_counter: the seq the next event gets
CurrentSeq == Len(log) + 1

\* publish_with_correlation with EventHistory::push: at capacity the oldest
\* event leaves the ring
Publish(t) ==
    /\ Len(log) < MaxSeq
    /\ log' = Append(log, t)
    /\ oldest' = IF CurrentSeq - oldest >= HistoryCapacity THEN oldest + 1 ELSE oldest
    /\ UNCHANGED <<cursor, got, missed, watch>>

\* Mutant: from_seq is taken as the last seq the client has
EventsAround(s) == {k \in oldest..(CurrentSeq - 1) : k + 1 >= s}

\* EventHistory::events_from_seq.  With an empty ring `oldest` reads as 0.
EventsFrom(s) == {k \in oldest..(CurrentSeq - 1) : k >= s}
GapFrom(s) ==
    LET first == IF log = <<>> THEN 0 ELSE oldest
    IN  IF first > s THEN first - s ELSE 0

\* The broadcast channel keeps its last BroadcastCapacity events: a receiver
\* further behind is told so and moved to the oldest one kept
OldestKept == IF Len(log) > BroadcastCapacity THEN CurrentSeq - BroadcastCapacity ELSE 1
Lagging == next < OldestKept

-----------------------------------------------------------------------------
(* events.watch                                                            *)

Init ==
    /\ LogInit
    /\ oldest = 1
    /\ pc = "idle"
    /\ next = 1 /\ start = 1 /\ head = 1
    /\ collected = {} /\ count = 0 /\ gap = 0

Subscribe ==
    /\ pc = "idle"
    /\ pc' = "subscribed"
    /\ next' = CurrentSeq /\ start' = CurrentSeq
    /\ collected' = {} /\ count' = 0 /\ gap' = 0
    /\ UNCHANGED <<logVars, oldest, head>>

ReadHead ==
    /\ pc = "subscribed"
    /\ pc' = "headed"
    /\ head' = CurrentSeq
    /\ UNCHANGED <<logVars, oldest, next, start, collected, count, gap>>

\* Only a call that resumes looks at the history
Snapshot ==
    /\ pc = "headed"
    /\ pc' = "tailing"
    /\ collected' = IF cursor = None THEN {}
                    ELSE {k \in EventsFrom(cursor) : log[k] \in Wanted}
    /\ count' = Cardinality(collected')
    /\ gap' = IF cursor = None THEN 0 ELSE GapFrom(cursor)
    /\ UNCHANGED <<logVars, oldest, next, start, head>>

\* Subscription::recv hands over the next event, skipping what the filter
\* refuses; the scope refuses in the handler
Recv ==
    /\ pc = "tailing"
    /\ count < MaxEvents
    /\ ~Lagging
    /\ next < CurrentSeq
    /\ IF log[next] \in Wanted
       THEN collected' = collected \cup {next} /\ count' = count + 1
       ELSE UNCHANGED <<collected, count>>
    /\ next' = next + 1
    /\ UNCHANGED <<logVars, oldest, pc, start, head, gap>>

\* The n smallest members of S (sort, dedup, truncate)
Smallest(n, S) == {k \in S : Cardinality({j \in S : j <= k}) <= n}

Last(S) == CHOOSE k \in S : \A j \in S : j <= k

\* Mutant: next_seq is taken before the truncation
AnswerBeforeTruncate ==
    /\ pc = "tailing"
    /\ cursor' = IF collected # {} THEN Last(collected) + 1
                 ELSE IF cursor # None THEN cursor ELSE head
    /\ got' = got \cup Smallest(MaxEvents, collected)
    /\ missed' = IF gap = 0 THEN missed ELSE missed \cup cursor..(cursor + gap - 1)
    /\ pc' = "idle"
    /\ UNCHANGED <<log, oldest, next, start, head, collected, count, gap>>

\* The answer, at the deadline, with nothing more queued, with enough
\* collected or on Lagged.  The client resumes from next_seq; `gap` tells it
\* that the events just before the history are gone.
Answer ==
    /\ pc = "tailing"
    /\ LET events == Smallest(MaxEvents, collected)
           next_seq == IF events # {} THEN Last(events) + 1
                       ELSE IF cursor # None THEN cursor ELSE head
       IN  /\ cursor' = next_seq
           /\ got' = got \cup events
    /\ missed' = IF gap = 0 THEN missed ELSE missed \cup cursor..(cursor + gap - 1)
    /\ pc' = "idle"
    /\ UNCHANGED <<log, oldest, next, start, head, collected, count, gap>>

Next ==
    \/ \E t \in Topic : Publish(t)
    \/ Subscribe \/ ReadHead \/ Snapshot \/ Recv \/ Answer

Spec == Init /\ [][Next]_vars

\* The handler runs to its deadline, at most 30 s, and the client calls again
\* with what it got; publishing is not fair, and Recv is not either: an answer
\* may come before anything is received
LiveSpec ==
    /\ Spec
    /\ WF_vars(Subscribe) /\ WF_vars(ReadHead) /\ WF_vars(Snapshot) /\ WF_vars(Answer)

-----------------------------------------------------------------------------
(* Properties                                                              *)

\* The bus and the watcher's call stay within their types, and the history
\* ring never holds more than its capacity
TypeOK ==
    /\ log \in Seq(Topic)
    /\ cursor \in Nat \cup {None}
    /\ got \subseteq Nat \ {0}
    /\ missed \subseteq Nat
    /\ oldest \in Nat \ {0} /\ oldest <= CurrentSeq
    /\ CurrentSeq - oldest <= HistoryCapacity
    /\ pc \in {"idle", "subscribed", "headed", "tailing"}
    /\ next \in Nat \ {0} /\ start \in Nat \ {0} /\ head \in Nat \ {0}
    /\ collected \subseteq 1..Len(log)
    /\ count \in Nat /\ gap \in Nat

\* The overlap of history and subscription, and a client that resumes with
\* next_seq, never deliver an event twice
NeverTwice == pc = "tailing" => collected \cap got = {}

\* Nothing passes the client silently: the answers of `events.watch` implement
\* the resumable log of module EventLog
ResumableLog == LogSpec

\* A client that keeps calling gets, or is told of, every wanted event from its
\* position on: a truncated answer, a lagging receiver or a quiet history never
\* leaves one behind
NothingStranded ==
    \A k \in 1..MaxSeq :
        (cursor # None /\ k \in DOMAIN log /\ log[k] \in Wanted /\ k >= cursor)
            ~> k \in got \cup missed

=============================================================================
