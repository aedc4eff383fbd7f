------------------------------ MODULE WaitExit ------------------------------
(***************************************************************************)
(* `pane.wait_exit` (crates/shux/src/rpc/wait_exit.rs): one call waits for *)
(* the end of one pane's program, whatever it finds of it.  The bus keeps  *)
(* a history ring and a broadcast ring, and both forget.                   *)
(***************************************************************************)
EXTENDS PaneLife

CONSTANTS
    HistoryCapacity,    \* EventBusConfig::history_capacity
    BroadcastCapacity,  \* EventBusConfig::broadcast_capacity
    MaxSeq              \* bound of the exploration: events published

ASSUME CapacityAssumption == HistoryCapacity \in Nat \ {0} /\ BroadcastCapacity \in Nat \ {0}
ASSUME BoundAssumption == MaxSeq \in Nat \ {0}

Answers == {"exited", "killed", "not_reaped", "events_lost", "not_started", "timeout",
            "not_found"}

ASSUME NoAnswerAssumption == None \notin Answers

VARIABLES
    pc,         \* where the call is
    next,       \* its subscription: the next seq the receiver looks for
    knows,      \* wait_exit's own `ran`
    reread,     \* wait_exit's `reread`
    deadline,   \* the call has a timeout: None, "ahead" or "past"
    late,       \* the pane had ended when the call came
    answer

exitCall == <<pc, next, knows, reread, deadline, late, answer>>

ExitInit ==
    /\ pc = "idle" /\ next = 1 /\ knows = FALSE /\ reread = TRUE
    /\ deadline = None /\ late = FALSE /\ answer = None

-----------------------------------------------------------------------------
(* The bus, as the call reads it                                           *)

\* The rest of the daemon publishes too
PublishOther ==
    /\ Len(log) < MaxSeq
    /\ \E e \in {"other", "noise"} : log' = Append(log, e)
    /\ UNCHANGED <<live, exit, pending, ioVars, exitCall>>

CurrentSeq == Len(log) + 1
Least(a, b) == IF a < b THEN a ELSE b
OldestOf(capacity) == CurrentSeq - Least(Len(log), capacity)
History == OldestOf(HistoryCapacity)..Len(log)
Lagging == next < OldestOf(BroadcastCapacity)

\* exit_payload
Payload(e) == IF e = "code" THEN "exited" ELSE "not_reaped"

\* Mutant: the last pane.exited decides, an exit before it does not count
AnnouncedLastExit ==
    LET ends == {k \in History : log[k] \notin {"other", "noise"}}
        last == CHOOSE k \in ends : \A j \in ends : j <= k
    IN  CASE ends = {} -> None
          [] ends # {} /\ log[last] \in Exit -> Payload(log[last])
          [] OTHER -> "killed"

\* announced_exit: back through the history to an exit, or to the creation
AnnouncedExit ==
    LET marks == {k \in History : log[k] \in Exit \cup {"created"}}
        last == CHOOSE k \in marks : \A j \in marks : j <= k
    IN  CASE marks # {} /\ log[last] \in Exit -> Payload(log[last])
          [] marks # {} /\ log[last] = "created" -> "killed"
          [] marks = {} /\ (\E k \in History : log[k] = "removed") -> "events_lost"
          [] OTHER -> None

-----------------------------------------------------------------------------
(* The call                                                                *)

Return(a) == pc' = "answered" /\ answer' = a

\* Before resolving: an exit between the two must still be seen
Subscribe ==
    /\ pc = "idle"
    /\ pc' = "subscribed"
    /\ next' = CurrentSeq
    /\ late' = (exit # None \/ ~live)
    /\ deadline' \in {None, "ahead"}
    /\ UNCHANGED <<paneVars, ioVars, knows, reread, answer>>

Resolve ==
    /\ pc = "subscribed"
    /\ \/ live /\ pc' = "start" /\ UNCHANGED answer
       \/ ~live /\ Return(IF AnnouncedExit = None THEN "not_found" ELSE AnnouncedExit)
    /\ UNCHANGED <<paneVars, ioVars, next, knows, reread, deadline, late>>

\* start(), under the I/O lock, until a program is known to have run
Start ==
    /\ pc = "start"
    /\ \/ /\ knows \/ ran
          /\ knows' = TRUE
          /\ pc' = "look"
          /\ UNCHANGED reread
       \/ /\ ~knows /\ ~ran
          /\ ~failed \/ flight # "no"
          /\ reread' = TRUE
          /\ pc' = "look"
          /\ UNCHANGED knows
       \/ /\ ~knows /\ ~ran /\ failed /\ flight = "no"
          /\ pc' = "failed"
          /\ UNCHANGED <<knows, reread>>
    /\ UNCHANGED <<paneVars, ioVars, next, deadline, late, answer>>

\* A failed spawn of a pane that is there and has no exit is the answer
StartFailed ==
    /\ pc = "failed"
    /\ \/ live /\ exit = None /\ Return("not_started") /\ UNCHANGED reread
       \/ ~(live /\ exit = None) /\ reread' = TRUE /\ pc' = "look" /\ UNCHANGED answer
    /\ UNCHANGED <<paneVars, ioVars, next, knows, deadline, late>>

\* The snapshot is read at first, after a gap, and while nothing has run
Look ==
    /\ pc = "look"
    /\ \/ ~reread /\ pc' = "wait" /\ UNCHANGED answer
       \/ reread /\ ~live /\ Return(IF AnnouncedExit = None THEN "events_lost" ELSE AnnouncedExit)
       \/ reread /\ live /\ exit # None /\ Return(Payload(exit))
       \/ reread /\ live /\ exit = None /\ pc' = "wait" /\ UNCHANGED answer
    /\ UNCHANGED <<paneVars, ioVars, next, knows, reread, deadline, late>>

\* The subscription's filter is pane.exited
Refused(e) == e \in {"created", "noise"}

\* An event that is the pane's is the record: the pane may already be gone
Handle(e) ==
    \/ e \in Exit /\ Return(Payload(e))
    \/ e = "removed" /\ Return("killed")
    \/ e \notin Exit \cup {"removed"} /\ pc' = "start" /\ UNCHANGED answer

\* The subscription hands over the pane's pane.exited, skips what its filter
\* refuses, or says that it lagged and moves on to the oldest event kept
Recv ==
    /\ pc = "wait" /\ next < CurrentSeq
    /\ next' = IF Lagging THEN OldestOf(BroadcastCapacity) ELSE next + 1
    /\ \/ Lagging /\ reread' = TRUE /\ pc' = "start" /\ UNCHANGED answer
       \/ ~Lagging /\ Refused(log[next]) /\ UNCHANGED <<reread, pc, answer>>
       \/ ~Lagging /\ ~Refused(log[next]) /\ reread' = FALSE /\ Handle(log[next])
    /\ UNCHANGED <<paneVars, ioVars, knows, deadline, late>>

\* Mutant: no repoll while no program has run
WakeAtDeadline ==
    /\ pc = "wait" /\ next = CurrentSeq
    /\ deadline = "past" /\ Return("timeout")
    /\ UNCHANGED <<paneVars, ioVars, next, knows, reread, deadline, late>>

\* Nothing is queued when the timer fires, which is asked last: the deadline,
\* or START_REPOLL while no program has run
Wake ==
    /\ pc = "wait" /\ next = CurrentSeq
    /\ \/ deadline = "past" /\ Return("timeout")
       \/ deadline # "past" /\ ~knows /\ pc' = "start" /\ UNCHANGED answer
    /\ UNCHANGED <<paneVars, ioVars, next, knows, reread, deadline, late>>

TimePasses ==
    /\ deadline = "ahead" /\ pc \notin {"idle", "subscribed"}
    /\ deadline' = "past"
    /\ UNCHANGED <<paneVars, ioVars, pc, next, knows, reread, late, answer>>

-----------------------------------------------------------------------------

ExitHandler == Resolve \/ Start \/ StartFailed \/ Look \/ Recv \/ Wake

ExitNext == PublishOther \/ Subscribe \/ ExitHandler \/ TimePasses

-----------------------------------------------------------------------------
(* Properties                                                              *)

\* The types of the call's variables.
ExitTypeOK ==
    /\ pc \in {"idle", "subscribed", "start", "failed", "look", "wait", "answered"}
    /\ next \in 1..CurrentSeq /\ knows \in BOOLEAN /\ reread \in BOOLEAN
    /\ deadline \in {None, "ahead", "past"} /\ late \in BOOLEAN
    /\ answer \in Answers \cup {None}
    /\ (answer # None) = (pc = "answered")

\* The answer is the truth wherever it was read: an exit that was recorded,
\* and as it was recorded; killed only if no exit was; lost only if the
\* history no longer reaches back to the pane's creation; and a timeout, even
\* of 0 ms, only if the program had not ended before the call.
AnswersTruly ==
    /\ answer \in {"exited", "not_reaped"} => exit # None /\ answer = Payload(exit)
    /\ answer = "killed" => ~live /\ exit = None
    /\ answer \in {"events_lost", "not_found"} => ~live /\ Len(log) > HistoryCapacity
    /\ answer = "timeout" => ~late

ExitWaiting == pc \notin {"idle", "answered"}

=============================================================================
