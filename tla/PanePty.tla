------------------------------ MODULE PanePty -------------------------------
(***************************************************************************)
(* The life of one pane's program: the spawn that starts it                *)
(* (crates/shux/src/pane_spawn.rs), the PTY task that runs it, the kill    *)
(* that ends it (crates/shux/src/rpc/{pane,window,session}.rs), the        *)
(* program status it publishes (crates/shux/src/program_status.rs) and the *)
(* daemon shutdown that drains it (crates/shux/src/daemon_boot.rs).        *)
(*                                                                         *)
(* Two stores hold the pane: the session graph, changed by the graph task  *)
(* one command at a time, and PaneIoState, changed under its lock.  Every  *)
(* step here is one graph command or one hold of the lock; spawns, kills,  *)
(* the PTY task, the status publisher and the shutdown interleave between  *)
(* them.  Panes share nothing but the shutdown, so one stands for all.     *)
(*                                                                         *)
(* Left out: input, resizing, output bytes, recordings, checkpoints, and   *)
(* the process group sweep of a lens scratch.                              *)
(***************************************************************************)
EXTENDS Naturals, Sequences, FiniteSets

CONSTANTS
    Creator,    \* the call that creates the pane and spawns its program
    Attacher,   \* attach clients that find the pane without a program
    None,       \* Option::None
    MaxInc,     \* bound of the exploration: children forked
    MaxGen      \* bound of the exploration: status generations

ASSUME MaxIncAssumption == MaxInc \in Nat \ {0}
ASSUME MaxGenAssumption == MaxGen \in Nat \ {0}
ASSUME SpawnerAssumption == Creator \notin Attacher /\ None \notin Nat \cup {Creator} \cup Attacher

Spawner == {Creator} \cup Attacher
Inc == 1..MaxInc        \* incarnations: one per forked child

VARIABLES
    life,       \* the pane in the graph: "unborn", "live" or "gone"
    owner,      \* the graph's pty_owners entry, 0 if none
    exit,       \* None, or the incarnation whose exit the pane records
    seenGen,    \* the graph's status_generations entry
    graphUp,    \* run_graph_loop serves commands
    io,         \* the pane in PaneIoState
    cancelled,  \* incarnations whose shutdown token is cancelled
    waiters,    \* incarnations in teardown_waiters
    ticket,     \* the spawn in flight: a Spawner, or None
    pc,         \* where each spawner is
    mine,       \* the incarnation each spawner forked
    task,       \* where the PTY task of each incarnation is
    child,      \* the child of each incarnation: "none", "alive" or "dead"
    born,       \* the generation of each incarnation's new terminal
    final,      \* the final status each task took with it, or None
    forked,     \* NEXT_INCARNATION - 1
    gen,        \* the process-wide status generation counter
    writes,     \* status writes on their way to the graph
    killer,     \* where the kill is
    knows,      \* the pane is among the panes the kill will tear down
    down,       \* where the daemon's shutdown is
    awaited     \* the PTY tasks it waits for

graphVars == <<life, owner, exit, seenGen, graphUp>>
ioVars == <<io, cancelled, waiters>>
spawnVars == <<ticket, pc, mine, forked>>
taskVars == <<task, child, born, final, gen>>
killVars == <<killer, knows>>
downVars == <<down, awaited>>
vars == <<graphVars, ioVars, spawnVars, taskVars, writes, killVars, downVars>>

\* inc: incarnations, vts; handles: whose writer, resizer, shutdown token and
\* pty_done are there; vt: the terminal's status generation; slot: the status
\* channel's; sealed: status_sealed; failed: failed_spawns
NoIo == [inc |-> None, handles |-> None, vt |-> None, slot |-> None,
         sealed |-> FALSE, failed |-> FALSE]

Init ==
    /\ life = "unborn" /\ owner = 0 /\ exit = None /\ seenGen = 0 /\ graphUp = TRUE
    /\ io = NoIo /\ cancelled = {} /\ waiters = {}
    /\ ticket = None /\ forked = 0
    /\ pc = [s \in Spawner |-> "idle"]
    /\ mine = [s \in Spawner |-> None]
    /\ task = [n \in Inc |-> "none"] /\ child = [n \in Inc |-> "none"]
    /\ born = [n \in Inc |-> 0] /\ final = [n \in Inc |-> None]
    /\ gen = 0 /\ writes = <<>>
    /\ killer = "idle" /\ knows = FALSE
    /\ down = "no" /\ awaited = {}

\* StatusChannel::publish: the slot keeps the newest value
Newest(slot, g) == IF slot = None \/ g > slot THEN g ELSE slot

\* teardown_panes_collecting with remove_vts, and the PTY tasks to wait for
Teardown ==
    /\ io' = NoIo
    /\ cancelled' = cancelled \cup ({io.handles} \ {None})
Collected == {io.handles} \ {None}

-----------------------------------------------------------------------------
(* A spawn                                                                 *)

\* The graph command of session.create, window.create, pane.split, ...
CreatePane ==
    /\ life = "unborn" /\ graphUp
    /\ pc[Creator] = "idle"
    /\ life' = "live"
    /\ pc' = [pc EXCEPT ![Creator] = "start"]
    /\ UNCHANGED <<owner, exit, seenGen, graphUp, ioVars, ticket, mine, forked, taskVars, writes,
                   killVars, downVars>>

\* handle_attach_connection: a pane without a writer ...
AttachLooks(s) ==
    /\ pc[s] = "idle" /\ life = "live"
    /\ io.handles = None
    /\ pc' = [pc EXCEPT ![s] = "looked"]
    /\ UNCHANGED <<graphVars, ioVars, ticket, mine, forked, taskVars, writes, killVars, downVars>>

\* ... that has not exited is spawned
AttachSpawns(s) ==
    /\ pc[s] = "looked"
    /\ pc' = [pc EXCEPT ![s] = IF life = "live" /\ exit = None THEN "start" ELSE "idle"]
    /\ UNCHANGED <<graphVars, ioVars, ticket, mine, forked, taskVars, writes, killVars, downVars>>

\* Mutant: nothing keeps a second spawn out
TakeNoTicket(s) ==
    /\ pc[s] = "start"
    /\ ticket' = s /\ pc' = [pc EXCEPT ![s] = "ticketed"]
    /\ UNCHANGED <<graphVars, ioVars, mine, forked, taskVars, writes, killVars, downVars>>

\* spawn_pane_pty_with_recorder: a second spawn waits for the one in flight
TakeTicket(s) ==
    /\ pc[s] = "start"
    /\ IF ticket = None
       THEN ticket' = s /\ pc' = [pc EXCEPT ![s] = "ticketed"]
       ELSE pc' = [pc EXCEPT ![s] = "waiting"] /\ UNCHANGED ticket
    /\ UNCHANGED <<graphVars, ioVars, mine, forked, taskVars, writes, killVars, downVars>>

\* What the caller does next: an attach just goes on
Returned(s, ok) ==
    IF s # Creator THEN "idle" ELSE IF ok THEN "over" ELSE "err"

\* SpawnTicket::drop: spawns that wait for this one report its outcome
Release(s, ok) ==
    /\ ticket' = None
    /\ pc' = [x \in Spawner |-> IF x = s \/ pc[x] = "waiting" THEN Returned(x, ok) ELSE pc[x]]

\* Mutant: the early return keeps the ticket
FindsInstalledHoldingTicket(s) ==
    /\ pc[s] = "ticketed"
    /\ pc' = [pc EXCEPT ![s] = IF io.inc # None THEN Returned(s, TRUE) ELSE "forking"]
    /\ UNCHANGED <<graphVars, ioVars, ticket, mine, forked, taskVars, writes, killVars, downVars>>

\* A pane that ever ran a program is left alone
FindsInstalled(s) ==
    /\ pc[s] = "ticketed"
    /\ IF io.inc # None THEN Release(s, TRUE)
       ELSE pc' = [pc EXCEPT ![s] = "forking"] /\ UNCHANGED ticket
    /\ UNCHANGED <<graphVars, ioVars, mine, forked, taskVars, writes, killVars, downVars>>

ForkFails(s) ==
    /\ pc[s] = "forking"
    /\ pc' = [pc EXCEPT ![s] = "failing"]
    /\ UNCHANGED <<graphVars, ioVars, ticket, mine, forked, taskVars, writes, killVars, downVars>>

\* The child, its terminal and its incarnation
Fork(s) ==
    /\ pc[s] = "forking"
    /\ forked < MaxInc
    /\ forked' = forked + 1
    /\ child' = [child EXCEPT ![forked'] = "alive"]
    /\ gen' = gen + 1
    /\ born' = [born EXCEPT ![forked'] = gen']
    /\ mine' = [mine EXCEPT ![s] = forked']
    /\ pc' = [pc EXCEPT ![s] = "forked"]
    /\ UNCHANGED <<graphVars, ioVars, ticket, task, final, writes, killVars, downVars>>

\* discard_child, and what the spawn then reports
Discard(s, where) ==
    /\ child' = [child EXCEPT ![mine[s]] = "dead"]
    /\ pc' = [pc EXCEPT ![s] = where]

\* Mutant: the claim goes out during a shutdown
AdmitAlways(s) ==
    /\ pc[s] = "forked"
    /\ pc' = [pc EXCEPT ![s] = "claiming"]
    /\ UNCHANGED <<graphVars, ioVars, ticket, mine, forked, taskVars, writes, killVars, downVars>>

\* "a claim clears an exited pane's exit": not once the daemon shuts down
Admit(s) ==
    /\ pc[s] = "forked"
    /\ IF down # "no" THEN Discard(s, "failing")
       ELSE pc' = [pc EXCEPT ![s] = "claiming"] /\ UNCHANGED child
    /\ UNCHANGED <<graphVars, ioVars, ticket, mine, forked, task, born, final, gen, writes,
                   killVars, downVars>>

\* SessionGraph::claim_pane_pty
Claim(s) ==
    /\ pc[s] = "claiming"
    /\ CASE life # "live" \/ ~graphUp ->
              Discard(s, "failing") /\ UNCHANGED <<owner, exit>>
         [] life = "live" /\ graphUp /\ owner > mine[s] ->
              Discard(s, "succeeding") /\ UNCHANGED <<owner, exit>>
         [] OTHER ->
              /\ owner' = mine[s]
              /\ exit' = None
              /\ pc' = [pc EXCEPT ![s] = "installing"]
              /\ UNCHANGED child
    /\ UNCHANGED <<life, seenGen, graphUp, ioVars, ticket, mine, forked, task, born, final, gen,
                   writes, killVars, downVars>>

\* The install proper, and tokio::spawn(run_pane_pty_task)
DoInstall(s) ==
    LET n == mine[s]
    IN  /\ io' = [inc |-> n, handles |-> n, vt |-> born[n], slot |-> Newest(io.slot, born[n]),
                  sealed |-> FALSE, failed |-> FALSE]
        /\ cancelled' = cancelled \cup ({io.handles} \ {None})
        /\ task' = [task EXCEPT ![n] = "running"]
        /\ pc' = [pc EXCEPT ![s] = "installed"]
        /\ UNCHANGED child

\* Mutant: the shutdown is not looked at again under the lock
InstallUnchecked(s) ==
    /\ pc[s] = "installing"
    /\ DoInstall(s)
    /\ UNCHANGED <<graphVars, waiters, ticket, mine, forked, born, final, gen, writes, killVars,
                   downVars>>

\* Under the lock: refused once the daemon shuts down, pointless if a newer
\* incarnation is there
Install(s) ==
    /\ pc[s] = "installing"
    /\ CASE down # "no" -> Discard(s, "failing") /\ UNCHANGED <<io, cancelled, task>>
         [] down = "no" /\ io.inc # None /\ io.inc > mine[s] ->
              Discard(s, "succeeding") /\ UNCHANGED <<io, cancelled, task>>
         [] OTHER -> DoInstall(s)
    /\ UNCHANGED <<graphVars, waiters, ticket, mine, forked, born, final, gen, writes, killVars,
                   downVars>>

\* Mutant: the graph is not read again
RecheckNot(s) ==
    /\ pc[s] = "installed"
    /\ pc' = [pc EXCEPT ![s] = "succeeding"]
    /\ UNCHANGED <<graphVars, ioVars, ticket, mine, forked, taskVars, writes, killVars, downVars>>

\* A pane destroyed meanwhile: its destroyer's teardown may have run before
\* the install, so this spawn tears down; it drops the receivers it collects
Recheck(s) ==
    /\ pc[s] = "installed"
    /\ IF life = "gone"
       THEN /\ pc' = [pc EXCEPT ![s] = "failing"]
            /\ IF io.inc = mine[s] THEN Teardown ELSE UNCHANGED <<io, cancelled>>
       ELSE /\ pc' = [pc EXCEPT ![s] = "succeeding"]
            /\ UNCHANGED <<io, cancelled>>
    /\ UNCHANGED <<graphVars, waiters, ticket, mine, forked, taskVars, writes, killVars, downVars>>

\* The failure is recorded before the ticket goes
RecordFailure(s) ==
    /\ pc[s] = "failing"
    /\ io' = [io EXCEPT !.failed = @ \/ io.inc = None]
    /\ pc' = [pc EXCEPT ![s] = "failed"]
    /\ UNCHANGED <<graphVars, cancelled, waiters, ticket, mine, forked, taskVars, writes, killVars,
                   downVars>>

Finish(s) ==
    /\ pc[s] \in {"succeeding", "failed"}
    /\ Release(s, pc[s] = "succeeding")
    /\ UNCHANGED <<graphVars, ioVars, mine, forked, taskVars, writes, killVars, downVars>>

\* The pane leaves the graph: commit_snapshot drops its side maps
LeavesGraph ==
    /\ life' = "gone"
    /\ owner' = 0 /\ exit' = None /\ seenGen' = 0
    /\ UNCHANGED graphUp

\* session.create, undo_split, undo_window_create, lens.run: a creation whose
\* spawn failed is taken back in the graph
Rollback ==
    /\ pc[Creator] = "err" /\ graphUp
    /\ IF life = "live" THEN LeavesGraph ELSE UNCHANGED graphVars
    /\ pc' = [pc EXCEPT ![Creator] = "over"]
    /\ UNCHANGED <<ioVars, ticket, mine, forked, taskVars, writes, killVars, downVars>>

\* state.apply keeps the pane
KeepPane ==
    /\ pc[Creator] = "err"
    /\ pc' = [pc EXCEPT ![Creator] = "over"]
    /\ UNCHANGED <<graphVars, ioVars, ticket, mine, forked, taskVars, writes, killVars, downVars>>

-----------------------------------------------------------------------------
(* The PTY task of incarnation n: run_pane_pty_task                        *)

\* The program's output changes the status its terminal shows
Output(n) ==
    /\ task[n] = "running" /\ child[n] = "alive"
    /\ IF io.inc = n
       THEN /\ gen < MaxGen
            /\ gen' = gen + 1
            /\ io' = [io EXCEPT !.vt = gen', !.slot = Newest(@, gen')]
            /\ UNCHANGED task
       ELSE task' = [task EXCEPT ![n] = "ended"] /\ UNCHANGED <<gen, io>>
    /\ UNCHANGED <<graphVars, cancelled, waiters, spawnVars, child, born, final, writes, killVars,
                   downVars>>

ChildDies(n) ==
    /\ child[n] = "alive" /\ task[n] # "none"
    /\ child' = [child EXCEPT ![n] = "dead"]
    /\ UNCHANGED <<graphVars, ioVars, spawnVars, task, born, final, gen, writes, killVars, downVars>>

\* Mutant: only the daemon's shutdown reaches the task
StoppedByDaemon(n) == down # "no"

\* Its token, or the daemon's above it, or its dropped writer and resizer
Stopped(n) == n \in cancelled \/ down # "no" \/ io.handles # n

\* Out of the loop: stopped, or the terminal closed or broke, whether or not
\* the child is dead
LeaveLoop(n) ==
    /\ task[n] = "running"
    /\ task' = [task EXCEPT ![n] = "ended"]
    /\ UNCHANGED <<graphVars, ioVars, spawnVars, child, born, final, gen, writes, killVars,
                   downVars>>

\* The child is waited for, or its group is ended after the grace
Reap(n) ==
    /\ task[n] = "ended"
    /\ task' = [task EXCEPT ![n] = "reaped"]
    /\ child' = [child EXCEPT ![n] = "dead"]
    /\ UNCHANGED <<graphVars, ioVars, spawnVars, born, final, gen, writes, killVars, downVars>>

\* One hold of the lock: the final status, and nothing after it.  Ending the
\* program's records moves the generation if there were any.
Seal(n) ==
    /\ task[n] = "reaped"
    /\ task' = [task EXCEPT ![n] = "sealed"]
    /\ IF io.inc = n
       THEN \E g \in {io.vt, gen + 1} :
              /\ gen' = IF g > gen THEN g ELSE gen
              /\ io' = [io EXCEPT !.sealed = TRUE, !.vt = g, !.slot = Newest(@, g)]
              /\ final' = [final EXCEPT ![n] = g]
       ELSE UNCHANGED <<io, final, gen>>
    /\ UNCHANGED <<graphVars, cancelled, waiters, spawnVars, child, born, writes, killVars,
                   downVars>>

\* SessionGraph::set_pane_exit_status_owned
Report(n) ==
    /\ task[n] = "sealed"
    /\ task' = [task EXCEPT ![n] = "reported"]
    /\ IF graphUp /\ life = "live" /\ owner = n
       THEN /\ exit' = n
            /\ seenGen' = IF exit = None /\ final[n] # None /\ final[n] > seenGen
                          THEN final[n] ELSE seenGen
       ELSE UNCHANGED <<exit, seenGen>>
    /\ UNCHANGED <<life, owner, graphUp, ioVars, spawnVars, child, born, final, gen, writes,
                   killVars, downVars>>

\* The handles go, the terminal stays; done_tx
ReleaseHandles(n) ==
    /\ task[n] = "reported"
    /\ task' = [task EXCEPT ![n] = "done"]
    /\ io' = IF io.inc = n THEN [io EXCEPT !.handles = None] ELSE io
    /\ UNCHANGED <<graphVars, cancelled, waiters, spawnVars, child, born, final, gen, writes,
                   killVars, downVars>>

-----------------------------------------------------------------------------
(* Program status                                                          *)

\* Mutant: an exited pane's terminal changes too
ApplyEnabledToAll ==
    /\ io.inc # None
    /\ gen < MaxGen
    /\ gen' = gen + 1
    /\ io' = [io EXCEPT !.vt = gen', !.slot = Newest(@, gen')]
    /\ UNCHANGED <<graphVars, cancelled, waiters, spawnVars, task, child, born, final, writes,
                   killVars, downVars>>

\* apply_enabled, after a config reload
ApplyEnabled ==
    /\ io.inc # None /\ ~io.sealed
    /\ gen < MaxGen
    /\ gen' = gen + 1
    /\ io' = [io EXCEPT !.vt = gen', !.slot = Newest(@, gen')]
    /\ UNCHANGED <<graphVars, cancelled, waiters, spawnVars, task, child, born, final, writes,
                   killVars, downVars>>

\* The publisher sends the slot's value.  A write it gives up on (a flush, a
\* timeout) is still in the graph's queue.
SendStatus ==
    /\ io.slot # None
    /\ io.slot > seenGen
    /\ \A i \in DOMAIN writes : writes[i] < io.slot
    /\ writes' = Append(writes, io.slot)
    /\ UNCHANGED <<graphVars, ioVars, spawnVars, taskVars, killVars, downVars>>

\* SessionGraph::set_pane_program_status: nothing follows an exit, and
\* nothing older follows something newer
WriteStatus ==
    /\ writes # <<>> /\ graphUp
    /\ writes' = Tail(writes)
    /\ seenGen' = IF life = "live" /\ exit = None /\ Head(writes) > seenGen
                  THEN Head(writes) ELSE seenGen
    /\ UNCHANGED <<life, owner, exit, graphUp, ioVars, spawnVars, taskVars, killVars, downVars>>

-----------------------------------------------------------------------------
(* pane.kill, window.kill, session.kill, and the cascade of an attach      *)
(* client: read which panes go, destroy them in the graph, tear their I/O  *)
(* down                                                                    *)

KillCollects ==
    /\ killer = "idle"
    /\ killer' = "destroying"
    /\ knows' = (life = "live")
    /\ UNCHANGED <<graphVars, ioVars, spawnVars, taskVars, writes, downVars>>

\* A pane that is not there yet never comes: its parent is gone
KillDestroys ==
    /\ killer = "destroying" /\ graphUp
    /\ IF life = "gone" THEN killer' = "refused" /\ UNCHANGED graphVars
                        ELSE killer' = "tearing" /\ LeavesGraph
    /\ UNCHANGED <<knows, ioVars, spawnVars, taskVars, writes, downVars>>

\* teardown_panes: the receivers become teardown_waiters
KillTearsDown ==
    /\ killer = "tearing"
    /\ killer' = "over"
    /\ IF knows THEN Teardown /\ waiters' = waiters \cup Collected
                ELSE UNCHANGED ioVars
    /\ UNCHANGED <<knows, graphVars, spawnVars, taskVars, writes, downVars>>

-----------------------------------------------------------------------------
(* Daemon shutdown                                                         *)

CancelRoot ==
    /\ down = "no"
    /\ down' = "cancelled"
    /\ UNCHANGED <<awaited, graphVars, ioVars, spawnVars, taskVars, writes, killVars>>

GraphStops ==
    /\ down # "no" /\ graphUp
    /\ graphUp' = FALSE
    /\ UNCHANGED <<life, owner, exit, seenGen, ioVars, spawnVars, taskVars, writes, killVars,
                   downVars>>

\* shutdown_all_pane_io
Drain ==
    /\ down = "cancelled"
    /\ down' = "draining"
    /\ awaited' = Collected \cup waiters
    /\ Teardown /\ waiters' = {}
    /\ UNCHANGED <<graphVars, spawnVars, taskVars, writes, killVars>>

\* Everything awaited is done
Drained ==
    /\ down = "draining"
    /\ \A n \in awaited : task[n] = "done"
    /\ down' = "exited"
    /\ UNCHANGED <<awaited, graphVars, ioVars, spawnVars, taskVars, writes, killVars>>

\* The 3 s are over first
DrainTimesOut ==
    /\ down = "draining"
    /\ \E n \in awaited : task[n] # "done"
    /\ down' = "gave up"
    /\ UNCHANGED <<awaited, graphVars, ioVars, spawnVars, taskVars, writes, killVars>>

-----------------------------------------------------------------------------
Running == down \notin {"exited", "gave up"}

SpawnStep(s) ==
    \/ TakeTicket(s) \/ FindsInstalled(s)
    \/ ForkFails(s) \/ Fork(s)
    \/ Admit(s) \/ Claim(s) \/ Install(s) \/ Recheck(s)
    \/ RecordFailure(s) \/ Finish(s)

TaskStep(n) == (Stopped(n) /\ LeaveLoop(n)) \/ Reap(n) \/ Seal(n) \/ Report(n) \/ ReleaseHandles(n)

KillStep == KillDestroys \/ KillTearsDown

Next ==
    /\ Running
    /\ \/ CreatePane
       \/ \E s \in Attacher : AttachLooks(s) \/ AttachSpawns(s)
       \/ \E s \in Spawner : SpawnStep(s)
       \/ Rollback \/ KeepPane
       \/ \E n \in Inc : Output(n) \/ ChildDies(n) \/ LeaveLoop(n) \/ TaskStep(n)
       \/ ApplyEnabled \/ SendStatus \/ WriteStatus
       \/ KillCollects \/ KillStep
       \/ CancelRoot \/ GraphStops \/ Drain \/ Drained \/ DrainTimesOut

Spec == Init /\ [][Next]_vars

\* The runtime runs every ready task: spawns and kills go on to their end, and
\* so does a PTY task once it is stopped.  A program need not end, nobody need
\* attach, and a fork that neither fails nor succeeds is not fair to assume:
\* SpawnStep covers both.
LiveSpec ==
    /\ Spec
    /\ \A s \in Spawner : WF_vars(Running /\ SpawnStep(s))
    /\ \A n \in Inc : WF_vars(Running /\ TaskStep(n))
    /\ WF_vars(Running /\ KillStep)

-----------------------------------------------------------------------------
(* Properties                                                              *)

\* Where a spawner is while the ticket is its own
Holding == {"ticketed", "forking", "forked", "claiming", "installing", "installed", "succeeding",
            "failing", "failed"}

\* Types, and one lifetime for the incarnation, the terminal and the status
\* slot: they come with the install and go with the teardown, while the
\* handles may go before them
TypeOK ==
    /\ life \in {"unborn", "live", "gone"}
    /\ owner \in 0..MaxInc /\ exit \in Inc \cup {None} /\ seenGen \in Nat /\ graphUp \in BOOLEAN
    /\ io \in [inc : Inc \cup {None}, handles : Inc \cup {None}, vt : Nat \cup {None},
               slot : Nat \cup {None}, sealed : BOOLEAN, failed : BOOLEAN]
    /\ io.handles \in {None, io.inc}
    /\ (io.inc = None) <=> (io.vt = None)
    /\ (io.inc = None) <=> (io.slot = None)
    /\ io.failed => io.inc = None
    /\ cancelled \subseteq Inc /\ waiters \subseteq Inc /\ awaited \subseteq Inc
    /\ ticket \in Spawner \cup {None}
    /\ pc \in [Spawner -> {"idle", "looked", "start", "waiting", "over", "err"} \cup Holding]
    /\ mine \in [Spawner -> Inc \cup {None}]
    /\ task \in [Inc -> {"none", "running", "ended", "reaped", "sealed", "reported", "done"}]
    /\ child \in [Inc -> {"none", "alive", "dead"}]
    /\ born \in [Inc -> Nat] /\ final \in [Inc -> Nat \cup {None}]
    /\ forked \in 0..MaxInc /\ gen \in Nat /\ writes \in Seq(Nat)
    /\ killer \in {"idle", "destroying", "tearing", "over", "refused"} /\ knows \in BOOLEAN
    /\ down \in {"no", "cancelled", "draining", "exited", "gave up"}

\* "a pane runs one program" (wait_exit): however many spawns of a pane race,
\* fail and are retried, at most one child ever gets to run in it
OneProgram ==
    \A m, n \in Inc : task[m] # "none" /\ task[n] # "none" => m = n

\* "An exit is final" (wait_exit): while a pane is there, no spawn, retry or
\* shutdown clears or replaces the exit it records
ExitIsFinal ==
    [][life' = "live" /\ exit # None => exit' = exit]_vars

\* An exited pane's terminal "keeps agreeing with the graph" (apply_enabled):
\* the last status clients are told is the one the program left, whatever
\* status writes and config reloads were under way
StatusAgrees ==
    life = "live" /\ exit # None /\ io.inc # None => seenGen = io.vt

\* "an install after that would go unwaited" (spawn_pane_pty_unshared): once
\* the shutdown has collected the panes to wait for, none is installed
NothingAfterDrain ==
    down \in {"draining", "exited", "gave up"} => io.inc = None

\* A kill that knew the pane leaves no program behind, even one whose spawn was
\* under way: once the kill and the spawns are through, nothing is installed
KilledLeavesNothing ==
    killer = "over" /\ knows /\ (\A s \in Spawner : pc[s] # "installed") => io.inc = None

\* Every spawn returns to its caller, also one that waits for another
EveryCallReturns ==
    \A s \in Spawner :
        (pc[s] \notin {"idle", "looked", "over", "err"})
            ~> (pc[s] \in {"idle", "over", "err"} \/ ~Running)

\* A killed pane's program ends, wherever its spawn or its task was
KilledIsReaped ==
    (killer = "over" /\ knows) ~> (~Running \/ \A n \in Inc : child[n] # "alive")

\* "Tear down every pane that belonged to the session" (session.kill): a kill
\* that went through leaves no pane's program running
KillReachesEveryPane ==
    killer = "over" /\ (\A s \in Spawner : pc[s] # "installed") => io.inc = None

=============================================================================
