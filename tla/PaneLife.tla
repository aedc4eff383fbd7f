------------------------------ MODULE PaneLife ------------------------------
(***************************************************************************)
(* One pane, as the calls that wait for something of it can see it.        *)
(*                                                                         *)
(* The pane is in three places that change one after the other.  The graph *)
(* task commits an exit or a removal to its snapshot and then fires        *)
(* pane.exited; the event bus keeps events                                 *)
(* (crates/shux-core/src/bus.rs); the pane I/O state says whether a        *)
(* program ever ran, or whether its spawn failed, and holds the program's  *)
(* terminal (crates/shux/src/pane_io.rs, pane_spawn.rs).  A call reads each *)
(* of them between two steps of the others.  Modules EventBus and PanePty  *)
(* model these in full.  PanePty's ExitIsFinal is used: a recorded exit is *)
(* never cleared.                                                          *)
(***************************************************************************)
EXTENDS Naturals, Sequences

CONSTANTS
    MaxSpawns,          \* bound of the exploration: spawns of the pane
    None                \* Option::None

ASSUME SpawnsAssumption == MaxSpawns \in Nat

\* How a program ended: with a code or a signal, or never reaped (-1)
Exit == {"code", "unreaped"}
\* The events of the bus: the pane's own, where an exit is its pane.exited and
\* "removed" one without an exit; "other", the pane.exited of another pane;
\* "noise", all that a call's filter refuses
EventKind == {"created", "removed", "other", "noise"} \cup Exit

ASSUME NoEventAssumption == None \notin EventKind

VARIABLES
    live,       \* the pane is in the graph's snapshot
    exit,       \* its recorded exit, or None
    pending,    \* the event the graph task has committed and not fired yet
    log,        \* events published; log[k] has seq k
    ran,        \* the pane is in incarnations; it has its terminal and revision watch
    failed,     \* the pane is in failed_spawns
    flight,     \* a spawn: "no", "under way" or "over"
    spawns

paneVars == <<live, exit, pending, log>>
ioVars == <<ran, failed, flight, spawns>>

PaneInit ==
    /\ live = TRUE /\ exit = None /\ pending = None
    /\ log = <<"created">>
    /\ ran = FALSE /\ failed = FALSE /\ flight = "no" /\ spawns = 0

\* set_pane_exit: committed first, fired after; the program's output has been
\* drained when it comes
ProgramExits ==
    /\ live /\ ran /\ exit = None /\ pending = None
    /\ exit' \in Exit
    /\ pending' = exit'
    /\ UNCHANGED <<live, log, ioVars>>

\* destroy_pane, by a kill or the rollback of a creation: the event carries
\* no exit, even if one was recorded
Destroy ==
    /\ live /\ pending = None
    /\ live' = FALSE
    /\ pending' = "removed"
    /\ UNCHANGED <<exit, log, ioVars>>

Fire ==
    /\ pending # None
    /\ log' = Append(log, pending)
    /\ pending' = None
    /\ UNCHANGED <<live, exit, ioVars>>

\* spawn_pane_pty_with_recorder: the ticket, the install or the failure, both
\* under the I/O lock, and the end of the ticket
SpawnStarts ==
    /\ flight = "no" /\ ~ran /\ live /\ spawns < MaxSpawns
    /\ flight' = "under way" /\ spawns' = spawns + 1
    /\ UNCHANGED <<paneVars, ran, failed>>

SpawnInstalls ==
    /\ flight = "under way"
    /\ ran' = TRUE /\ failed' = FALSE
    /\ flight' = "over"
    /\ UNCHANGED <<paneVars, spawns>>

SpawnFails ==
    /\ flight = "under way"
    /\ failed' = TRUE
    /\ flight' = "over"
    /\ UNCHANGED <<paneVars, ran, spawns>>

SpawnReturns ==
    /\ flight = "over"
    /\ flight' = "no"
    /\ UNCHANGED <<paneVars, ran, failed, spawns>>

\* teardown_panes after a removal: the terminal and the senders go too
Teardown ==
    /\ ~live /\ (ran \/ failed)
    /\ ran' = FALSE /\ failed' = FALSE
    /\ UNCHANGED <<paneVars, flight, spawns>>

PaneStep ==
    \/ ProgramExits \/ Destroy \/ Fire
    \/ SpawnStarts \/ SpawnInstalls \/ SpawnFails \/ SpawnReturns \/ Teardown

\* The types of the pane's variables.
PaneTypeOK ==
    /\ live \in BOOLEAN /\ exit \in Exit \cup {None}
    /\ pending \in Exit \cup {"removed", None} /\ log \in Seq(EventKind)
    /\ ran \in BOOLEAN /\ failed \in BOOLEAN /\ spawns \in 0..MaxSpawns
    /\ flight \in {"no", "under way", "over"}

=============================================================================
