--------------------------- MODULE PanePtyProofs ----------------------------
(***************************************************************************)
(* Proofs about module PanePty, for any number of attach clients, of       *)
(* forked children and of status generations: a pane runs one program, its *)
(* recorded exit is final and agrees with its terminal, and neither a kill *)
(* nor the shutdown leaves a program behind.                               *)
(*                                                                         *)
(* The argument is about what a spawn in flight still knows.  Its early    *)
(* return only saw that nothing is installed; by the time it installs, the *)
(* ticket, the two looks at the shutdown and the claim in the graph have   *)
(* turned that into `nothing was ever started' (Fresh).                    *)
(***************************************************************************)
EXTENDS PanePty, TLAPS

\* Some program ran, or runs, in the pane.
Started == \E n \in Inc : task[n] # "none"

\* The pane has no life left in which a program could be started.
Closed == life = "gone" \/ down # "no"

\* The ticket is the spawn's own from when it takes it until it returns, and
\* what it forked is an incarnation.
Tickets ==
    \A s \in Spawner :
        /\ pc[s] \in Holding => ticket = s
        /\ pc[s] \in {"forked", "claiming", "installing", "installed"} => mine[s] \in Inc

\* A spawn goes on past its early return only as long as no program was ever
\* started, or the pane is past having one: what it knows of the two grows
\* weaker the earlier it is.
Fresh ==
    /\ io.inc # None => task[io.inc] # "none"
    /\ Started => io.inc # None \/ Closed
    /\ \A s \in Spawner :
        /\ pc[s] \in {"forking", "forked"} => ~Started \/ Closed
        /\ pc[s] = "claiming" => ~Started \/ life = "gone"
        /\ pc[s] = "installing" => ~Started

\* Only a program that ran and ended is reported as the pane's exit.
Exits == exit # None => life = "live" /\ task[exit] \in {"reported", "done"}

\* A kill has taken the pane out of the graph before it tears it down; until a
\* spawn is past its recheck, what is installed is its own.
Kills ==
    /\ killer \in {"tearing", "over"} => life = "gone"
    /\ \A s \in Spawner : pc[s] = "installed" => io.inc \in {None, mine[s]}

\* No status the graph has seen, or will see, is newer than the terminal's, and
\* the terminal of an ended program keeps the status its task took.
Status ==
    /\ \A n \in Inc : born[n] <= gen
    /\ ~Started => writes = <<>> /\ seenGen = 0 /\ io.inc = None
    /\ io.inc # None =>
        /\ io.slot = io.vt /\ io.vt <= gen /\ seenGen <= io.vt
        /\ \A i \in DOMAIN writes : writes[i] <= io.vt
        /\ task[io.inc] \in {"sealed", "reported", "done"} => io.sealed /\ final[io.inc] = io.vt

\* TypeOK, by the store or the task that the variables belong to.
GraphTypes ==
    /\ life \in {"unborn", "live", "gone"}
    /\ owner \in 0..MaxInc /\ exit \in Inc \cup {None} /\ seenGen \in Nat /\ graphUp \in BOOLEAN
IoTypes ==
    /\ io \in [inc : Inc \cup {None}, handles : Inc \cup {None}, vt : Nat \cup {None},
               slot : Nat \cup {None}, sealed : BOOLEAN, failed : BOOLEAN]
    /\ io.handles \in {None, io.inc}
    /\ (io.inc = None) <=> (io.vt = None)
    /\ (io.inc = None) <=> (io.slot = None)
    /\ io.failed => io.inc = None
    /\ cancelled \subseteq Inc /\ waiters \subseteq Inc
SpawnTypes ==
    /\ ticket \in Spawner \cup {None}
    /\ pc \in [Spawner -> {"idle", "looked", "start", "waiting", "over", "err"} \cup Holding]
    /\ mine \in [Spawner -> Inc \cup {None}] /\ forked \in 0..MaxInc
TaskTypes ==
    /\ task \in [Inc -> {"none", "running", "ended", "reaped", "sealed", "reported", "done"}]
    /\ child \in [Inc -> {"none", "alive", "dead"}]
    /\ born \in [Inc -> Nat] /\ final \in [Inc -> Nat \cup {None}] /\ gen \in Nat
EndTypes ==
    /\ writes \in Seq(Nat)
    /\ killer \in {"idle", "destroying", "tearing", "over", "refused"} /\ knows \in BOOLEAN
    /\ down \in {"no", "cancelled", "draining", "exited", "gave up"} /\ awaited \subseteq Inc

\* The inductive invariant.
IInv ==
    /\ GraphTypes /\ IoTypes /\ SpawnTypes /\ TaskTypes /\ EndTypes
    /\ Tickets /\ Fresh /\ OneProgram /\ Exits /\ NothingAfterDrain
    /\ Kills /\ KilledLeavesNothing /\ Status /\ StatusAgrees

-----------------------------------------------------------------------------
(* What a step leaves alone                                                *)

\* The parts of TypeOK are all of it.
LEMMA TypeParts == TypeOK <=> GraphTypes /\ IoTypes /\ SpawnTypes /\ TaskTypes /\ EndTypes
BY DEF TypeOK, GraphTypes, IoTypes, SpawnTypes, TaskTypes, EndTypes

\* A part of the invariant holds on if no variable it is about changes.
LEMMA Frame ==
  ASSUME IInv
  PROVE  /\ UNCHANGED <<life, owner, exit, seenGen, graphUp>> => GraphTypes'
         /\ UNCHANGED <<io, cancelled, waiters>> => IoTypes'
         /\ UNCHANGED <<ticket, pc, mine, forked>> => SpawnTypes'
         /\ UNCHANGED <<task, child, born, final, gen>> => TaskTypes'
         /\ UNCHANGED <<writes, killer, knows, down, awaited>> => EndTypes'
         /\ UNCHANGED <<pc, ticket, mine>> => Tickets'
         /\ UNCHANGED <<io, task, life, down, pc>> => Fresh'
         /\ UNCHANGED <<task>> => OneProgram'
         /\ UNCHANGED <<exit, life, task>> => Exits'
         /\ UNCHANGED <<down, io>> => NothingAfterDrain'
         /\ UNCHANGED <<killer, life, pc, io, mine>> => Kills'
         /\ UNCHANGED <<killer, knows, pc, io>> => KilledLeavesNothing'
         /\ UNCHANGED <<born, gen, task, writes, seenGen, io, final>> => Status'
         /\ UNCHANGED <<life, exit, io, seenGen>> => StatusAgrees'
<1> USE DEF IInv
<1>1. UNCHANGED <<life, owner, exit, seenGen, graphUp>> => GraphTypes'
  BY DEF GraphTypes
<1>2. UNCHANGED <<io, cancelled, waiters>> => IoTypes'
  BY DEF IoTypes
<1>3. UNCHANGED <<ticket, pc, mine, forked>> => SpawnTypes'
  BY DEF SpawnTypes
<1>4. UNCHANGED <<task, child, born, final, gen>> => TaskTypes'
  BY DEF TaskTypes
<1>5. UNCHANGED <<writes, killer, knows, down, awaited>> => EndTypes'
  BY DEF EndTypes
<1>6. UNCHANGED <<pc, ticket, mine>> => Tickets'
  BY DEF Tickets
<1>7. UNCHANGED <<io, task, life, down, pc>> => Fresh'
  BY DEF Fresh, Started, Closed
<1>8. UNCHANGED <<task>> => OneProgram'
  BY DEF OneProgram
<1>9. UNCHANGED <<exit, life, task>> => Exits'
  BY DEF Exits
<1>10. UNCHANGED <<down, io>> => NothingAfterDrain'
  BY DEF NothingAfterDrain
<1>11. UNCHANGED <<killer, life, pc, io, mine>> => Kills'
  BY DEF Kills
<1>12. UNCHANGED <<killer, knows, pc, io>> => KilledLeavesNothing'
  BY DEF KilledLeavesNothing
<1>13. UNCHANGED <<born, gen, task, writes, seenGen, io, final>> => Status'
  BY DEF Status, Started
<1>14. UNCHANGED <<life, exit, io, seenGen>> => StatusAgrees'
  BY DEF StatusAgrees
<1> QED BY <1>1, <1>2, <1>3, <1>4, <1>5, <1>6, <1>7, <1>8, <1>9, <1>10, <1>11, <1>12, <1>13, <1>14

\* One spawn at a time holds the ticket.
LEMMA OneHolder ==
  ASSUME Tickets, NEW s \in Spawner, pc[s] \in Holding, NEW x \in Spawner, x # s
  PROVE  pc[x] \notin Holding
BY DEF Tickets

\* What a change of the status a terminal shows does to the pane's I/O state:
\* a newer generation is the terminal's and the channel's.
LEMMA Shown ==
  ASSUME IInv, io.inc # None, NEW g \in Nat, io.vt <= g, NEW b \in BOOLEAN,
         io' = [io EXCEPT !.sealed = b, !.vt = g, !.slot = Newest(@, g)]
  PROVE  /\ io'.inc = io.inc /\ io'.vt = g /\ io'.slot = g /\ io'.sealed = b
         /\ UNCHANGED <<cancelled, waiters>> => IoTypes'
<1> USE DEF IInv
<1>1. io.vt \in Nat /\ io.slot = io.vt
  BY DEF IoTypes, Status
<1>2. Newest(io.slot, g) = g
  BY <1>1 DEF Newest
<1>3. io' = [io EXCEPT !.sealed = b, !.vt = g, !.slot = g]
  BY <1>2
<1>4. io'.inc = io.inc /\ io'.vt = g /\ io'.slot = g /\ io'.sealed = b /\ io'.handles = io.handles
      /\ io'.failed = io.failed
  BY <1>3 DEF IoTypes
<1>5. io' \in [inc : Inc \cup {None}, handles : Inc \cup {None}, vt : Nat \cup {None},
               slot : Nat \cup {None}, sealed : BOOLEAN, failed : BOOLEAN]
  BY <1>3 DEF IoTypes
<1> QED BY <1>1, <1>4, <1>5, SpawnerAssumption DEF IoTypes

\* Without a program, the pane's I/O state has nothing.
LEMMA NoIoFields ==
  /\ NoIo.inc = None /\ NoIo.handles = None /\ NoIo.vt = None /\ NoIo.slot = None
  /\ NoIo.sealed = FALSE /\ NoIo.failed = FALSE
  /\ NoIo \in [inc : Inc \cup {None}, handles : Inc \cup {None}, vt : Nat \cup {None},
               slot : Nat \cup {None}, sealed : BOOLEAN, failed : BOOLEAN]
BY DEF NoIo

\* A teardown empties the I/O state, which is well-typed and after a drain all
\* right.
LEMMA Torn ==
  ASSUME IInv, Teardown, waiters' \subseteq Inc
  PROVE  io'.inc = None /\ IoTypes' /\ NothingAfterDrain'
<1>1. io' = NoIo
  BY DEF Teardown
<1>2. cancelled' \subseteq Inc
  BY DEF Teardown, IInv, IoTypes
<1> QED BY <1>1, <1>2, NoIoFields DEF IoTypes, NothingAfterDrain

\* A PTY task moves on between two of the points that no other part of the pane
\* tells apart.
LEMMA Ended ==
  ASSUME IInv, NEW n \in Inc, NEW at \in {"ended", "reaped"},
         task[n] \in {"running", "ended"}, task' = [task EXCEPT ![n] = at],
         UNCHANGED <<life, owner, exit, seenGen, graphUp, io, cancelled, waiters, ticket, pc, mine,
                     forked, born, final, gen, writes, killer, knows, down, awaited>>,
         child' \in [Inc -> {"none", "alive", "dead"}]
  PROVE  IInv'
<1> USE DEF IInv
<1>1. TaskTypes'
  BY DEF TaskTypes
<1>2. \A m \in Inc : task'[m] = IF m = n THEN at ELSE task[m]
  BY DEF TaskTypes
<1>3. \A m \in Inc : (task'[m] = "none") = (task[m] = "none")
  BY <1>2
<1>4. OneProgram' /\ Started' = Started
  BY <1>3 DEF OneProgram, Started
<1>5. Fresh'
  BY <1>3, <1>4 DEF Fresh, Closed, IoTypes
<1>6. Exits'
  BY <1>2 DEF Exits, GraphTypes
<1>7. Status'
  BY <1>2, <1>4 DEF Status, IoTypes
<1> QED BY <1>1, <1>4, <1>5, <1>6, <1>7, Frame

\* A terminal that is not sealed shows another status.
LEMMA Restamped ==
  ASSUME IInv, io.inc # None, task[io.inc] \notin {"sealed", "reported", "done"},
         gen' = gen + 1, io' = [io EXCEPT !.vt = gen + 1, !.slot = Newest(@, gen + 1)],
         UNCHANGED <<life, owner, exit, seenGen, graphUp, cancelled, waiters, ticket, pc, mine,
                     forked, task, child, born, final, writes, killer, knows, down, awaited>>
  PROVE  IInv'
<1> USE DEF IInv
<1>2. gen \in Nat /\ io.sealed \in BOOLEAN
  BY DEF TaskTypes, IoTypes
<1>3. io.vt \in Nat /\ io.vt <= gen
  BY DEF IoTypes, Status
<1>4. io' = [io EXCEPT !.sealed = io.sealed, !.vt = gen + 1, !.slot = Newest(@, gen + 1)]
  BY DEF IoTypes
<1>5. /\ IoTypes' /\ io'.inc = io.inc /\ io'.vt = gen + 1 /\ io'.slot = gen + 1
      /\ io'.sealed = io.sealed
  <2>1. gen + 1 \in Nat /\ io.vt <= gen + 1
    BY <1>2, <1>3
  <2>2. PICK g \in Nat : g = gen + 1
    BY <2>1
  <2>3. PICK b \in BOOLEAN : b = io.sealed
    BY <1>2
  <2>4. io.vt <= g /\ io' = [io EXCEPT !.sealed = b, !.vt = g, !.slot = Newest(@, g)]
    BY <1>4, <2>1, <2>2, <2>3
  <2> HIDE DEF IInv
  <2>5. IoTypes' /\ io'.inc = io.inc /\ io'.vt = g /\ io'.slot = g /\ io'.sealed = b
    BY <2>4, Shown
  <2> QED BY <2>2, <2>3, <2>5
<1>7. TaskTypes' /\ Fresh' /\ NothingAfterDrain' /\ Kills' /\ KilledLeavesNothing'
  <2>1. TaskTypes'
    BY <1>2 DEF TaskTypes
  <2>2. Fresh'
    BY <1>5 DEF Fresh, Started, Closed
  <2> QED BY <1>5, <2>1, <2>2 DEF NothingAfterDrain, Kills, KilledLeavesNothing
<1>8. Status'
  <2>1. \A n \in Inc : born[n] <= gen + 1
    BY <1>2 DEF Status, TaskTypes
  <2>2. seenGen <= gen + 1 /\ \A i \in DOMAIN writes : writes[i] <= gen + 1
    <3>1. seenGen <= io.vt /\ seenGen \in Nat /\ writes \in Seq(Nat)
      BY <1>2 DEF Status, GraphTypes, EndTypes
    <3>2. \A i \in DOMAIN writes : writes[i] <= io.vt /\ writes[i] \in Nat
      BY <1>2, <3>1 DEF Status
    <3> QED BY <1>2, <1>3, <3>1, <3>2
  <2>3. Started
    BY <1>2 DEF Fresh, Started, IoTypes
  <2> QED BY <1>2, <1>5, <2>1, <2>2, <2>3 DEF Status, Started
<1>9. StatusAgrees'
  BY <1>2, <1>5 DEF StatusAgrees, Exits, Fresh, OneProgram, GraphTypes, IoTypes
<1> QED BY <1>5, <1>7, <1>8, <1>9, Frame

\* A pane that is created has not exited.
LEMMA CreatePaneKeeps ==
  ASSUME IInv, CreatePane
  PROVE  IInv'
<1> USE SpawnerAssumption DEF IInv, Inc, Spawner, Holding
<1>1. UNCHANGED <<owner, exit, seenGen, graphUp, io, cancelled, waiters, ticket, mine, forked,
                    task, child, born, final, gen, writes, killer, knows, down, awaited>>
  BY DEF CreatePane, graphVars, ioVars, spawnVars, taskVars, killVars, downVars
<1>2. GraphTypes'
  BY <1>1 DEF CreatePane, GraphTypes
<1>3. SpawnTypes'
  BY <1>1 DEF CreatePane, SpawnTypes
<1>4. Tickets'
  BY <1>1 DEF CreatePane, SpawnTypes, Tickets
<1>5. Fresh'
  BY <1>1 DEF CreatePane, SpawnTypes, Tickets, Fresh, Started, Closed
<1>6. Exits'
  BY <1>1 DEF CreatePane, Exits, TaskTypes, OneProgram, Fresh
<1>7. Kills'
  BY <1>1 DEF CreatePane, Kills, SpawnTypes, Tickets
<1>8. KilledLeavesNothing'
  BY <1>1 DEF CreatePane, KilledLeavesNothing, Kills, SpawnTypes, Tickets
<1>9. StatusAgrees'
  BY <1>1 DEF CreatePane, StatusAgrees, Exits, OneProgram, Status, Fresh, Started
<1> QED BY <1>1, <1>2, <1>3, <1>4, <1>5, <1>6, <1>7, <1>8, <1>9, Frame

\* An attach that looks holds no ticket yet.
LEMMA AttachLooksKeeps ==
  ASSUME IInv, NEW s \in Attacher, AttachLooks(s)
  PROVE  IInv'
<1> USE SpawnerAssumption DEF IInv, Inc, Spawner, Holding
<1>1. UNCHANGED <<life, owner, exit, seenGen, graphUp, io, cancelled, waiters, ticket, mine,
                    forked, task, child, born, final, gen, writes, killer, knows, down, awaited>>
  BY DEF AttachLooks, graphVars, ioVars, spawnVars, taskVars, killVars, downVars
<1>2. SpawnTypes'
  BY <1>1 DEF AttachLooks, SpawnTypes
<1>3. Tickets'
  BY <1>1 DEF AttachLooks, SpawnTypes, Tickets
<1>4. Fresh'
  BY <1>1 DEF AttachLooks, SpawnTypes, Tickets, Fresh, Started, Closed
<1>5. Kills'
  BY <1>1 DEF AttachLooks, Kills, SpawnTypes, Tickets
<1>6. KilledLeavesNothing'
  BY <1>1 DEF AttachLooks, KilledLeavesNothing, Kills, SpawnTypes, Tickets
<1> QED BY <1>1, <1>2, <1>3, <1>4, <1>5, <1>6, Frame

\* Nor does one that goes on to its spawn.
LEMMA AttachSpawnsKeeps ==
  ASSUME IInv, NEW s \in Attacher, AttachSpawns(s)
  PROVE  IInv'
<1> USE SpawnerAssumption DEF IInv, Inc, Spawner, Holding
<1>1. UNCHANGED <<life, owner, exit, seenGen, graphUp, io, cancelled, waiters, ticket, mine,
                    forked, task, child, born, final, gen, writes, killer, knows, down, awaited>>
  BY DEF AttachSpawns, graphVars, ioVars, spawnVars, taskVars, killVars, downVars
<1>2. SpawnTypes'
  BY <1>1 DEF AttachSpawns, SpawnTypes
<1>3. Tickets'
  BY <1>1 DEF AttachSpawns, SpawnTypes, Tickets
<1>4. Fresh'
  BY <1>1 DEF AttachSpawns, SpawnTypes, Tickets, Fresh, Started, Closed
<1>5. Kills'
  BY <1>1 DEF AttachSpawns, Kills, SpawnTypes, Tickets
<1>6. KilledLeavesNothing'
  BY <1>1 DEF AttachSpawns, KilledLeavesNothing, Kills, SpawnTypes, Tickets
<1> QED BY <1>1, <1>2, <1>3, <1>4, <1>5, <1>6, Frame

\* A spawn takes the ticket only if nobody has it.
LEMMA TakeTicketKeeps ==
  ASSUME IInv, NEW s \in Spawner, TakeTicket(s)
  PROVE  IInv'
<1> USE SpawnerAssumption DEF IInv, Inc, Spawner, Holding
<1>1. UNCHANGED <<life, owner, exit, seenGen, graphUp, io, cancelled, waiters, mine, forked, task,
                    child, born, final, gen, writes, killer, knows, down, awaited>>
  BY DEF TakeTicket, graphVars, ioVars, spawnVars, taskVars, killVars, downVars
<1>2. SpawnTypes'
  BY <1>1 DEF TakeTicket, SpawnTypes
<1>3. Tickets'
  BY <1>1 DEF TakeTicket, SpawnTypes, Tickets
<1>4. Fresh'
  BY <1>1 DEF TakeTicket, SpawnTypes, Tickets, Fresh, Started, Closed
<1>5. Kills'
  BY <1>1 DEF TakeTicket, Kills, SpawnTypes, Tickets
<1>6. KilledLeavesNothing'
  BY <1>1 DEF TakeTicket, KilledLeavesNothing, Kills, SpawnTypes, Tickets
<1> QED BY <1>1, <1>2, <1>3, <1>4, <1>5, <1>6, Frame

\* A spawn that goes on found no program: none was started, or the pane is
\* closed.
LEMMA FindsInstalledKeeps ==
  ASSUME IInv, NEW s \in Spawner, FindsInstalled(s)
  PROVE  IInv'
<1> USE SpawnerAssumption DEF IInv, Inc, Spawner, Holding
<1>1. UNCHANGED <<life, owner, exit, seenGen, graphUp, io, cancelled, waiters, mine, forked, task,
                    child, born, final, gen, writes, killer, knows, down, awaited>>
  BY DEF FindsInstalled, graphVars, ioVars, spawnVars, taskVars, killVars, downVars
<1>2. SpawnTypes'
  BY <1>1 DEF FindsInstalled, SpawnTypes, Release, Returned
<1>3. Tickets'
  BY <1>1 DEF FindsInstalled, SpawnTypes, Tickets, Release, Returned
<1>4. Fresh'
  BY <1>1 DEF FindsInstalled, SpawnTypes, Tickets, Fresh, Started, Closed, Release, Returned
<1>5. Kills'
  BY <1>1 DEF FindsInstalled, Kills, SpawnTypes, Tickets, Release, Returned
<1>6. KilledLeavesNothing'
  BY <1>1 DEF FindsInstalled, KilledLeavesNothing, Kills, SpawnTypes, Tickets, Release, Returned
<1> QED BY <1>1, <1>2, <1>3, <1>4, <1>5, <1>6, Frame

\* A fork that fails leaves nothing.
LEMMA ForkFailsKeeps ==
  ASSUME IInv, NEW s \in Spawner, ForkFails(s)
  PROVE  IInv'
<1> USE SpawnerAssumption DEF IInv, Inc, Spawner, Holding
<1>1. UNCHANGED <<life, owner, exit, seenGen, graphUp, io, cancelled, waiters, ticket, mine,
                    forked, task, child, born, final, gen, writes, killer, knows, down, awaited>>
  BY DEF ForkFails, graphVars, ioVars, spawnVars, taskVars, killVars, downVars
<1>2. SpawnTypes'
  BY <1>1 DEF ForkFails, SpawnTypes
<1>3. Tickets'
  BY <1>1 DEF ForkFails, SpawnTypes, Tickets
<1>4. Fresh'
  BY <1>1 DEF ForkFails, SpawnTypes, Tickets, Fresh, Started, Closed
<1>5. Kills'
  BY <1>1 DEF ForkFails, Kills, SpawnTypes, Tickets
<1>6. KilledLeavesNothing'
  BY <1>1 DEF ForkFails, KilledLeavesNothing, Kills, SpawnTypes, Tickets
<1> QED BY <1>1, <1>2, <1>3, <1>4, <1>5, <1>6, Frame

\* A fork makes a child, and no program of the pane yet.
LEMMA ForkKeeps ==
  ASSUME IInv, NEW s \in Spawner, Fork(s)
  PROVE  IInv'
<1> USE SpawnerAssumption DEF IInv, Inc, Spawner, Holding
<1>1. UNCHANGED <<life, owner, exit, seenGen, graphUp, io, cancelled, waiters, ticket, task,
                    final, writes, killer, knows, down, awaited>>
  BY DEF Fork, graphVars, ioVars, spawnVars, taskVars, killVars, downVars
<1>2. SpawnTypes'
  BY <1>1, MaxIncAssumption DEF Fork, SpawnTypes, TaskTypes
<1>3. TaskTypes'
  BY <1>1, MaxIncAssumption DEF Fork, TaskTypes, SpawnTypes
<1>4. Tickets'
  BY <1>1, MaxIncAssumption DEF Fork, SpawnTypes, Tickets
<1>5. Fresh'
  BY <1>1 DEF Fork, SpawnTypes, Tickets, Fresh, Started, Closed
<1>6. Kills'
  BY <1>1 DEF Fork, Kills, SpawnTypes, Tickets
<1>7. KilledLeavesNothing'
  BY <1>1 DEF Fork, KilledLeavesNothing, Kills, SpawnTypes, Tickets
<1>8. Status'
  <2>1. \A n \in Inc : born'[n] <= gen'
    BY <1>1 DEF Fork, Status, TaskTypes
  <2>2. io.inc # None => io.vt <= gen'
    BY DEF Fork, Status, TaskTypes, IoTypes
  <2> QED BY <1>1, <2>1, <2>2 DEF Status, Started
<1> QED BY <1>1, <1>2, <1>3, <1>4, <1>5, <1>6, <1>7, <1>8, Frame

\* A claim goes out only before the shutdown: then a program that was started
\* means that the pane is gone.
LEMMA AdmitKeeps ==
  ASSUME IInv, NEW s \in Spawner, Admit(s)
  PROVE  IInv'
<1> USE SpawnerAssumption DEF IInv, Inc, Spawner, Holding
<1>1. UNCHANGED <<life, owner, exit, seenGen, graphUp, io, cancelled, waiters, ticket, mine,
                    forked, task, born, final, gen, writes, killer, knows, down, awaited>>
  BY DEF Admit, graphVars, ioVars, spawnVars, taskVars, killVars, downVars
<1>2. SpawnTypes'
  BY <1>1 DEF Admit, SpawnTypes, Discard
<1>3. TaskTypes'
  BY <1>1 DEF Admit, TaskTypes, Discard
<1>4. Tickets'
  BY <1>1 DEF Admit, SpawnTypes, Tickets, Discard
<1>5. Fresh'
  BY <1>1 DEF Admit, SpawnTypes, Tickets, Fresh, Started, Closed, Discard
<1>6. Kills'
  BY <1>1 DEF Admit, Kills, SpawnTypes, Tickets, Discard
<1>7. KilledLeavesNothing'
  BY <1>1 DEF Admit, KilledLeavesNothing, Kills, SpawnTypes, Tickets, Discard
<1> QED BY <1>1, <1>2, <1>3, <1>4, <1>5, <1>6, <1>7, Frame

\* A claim that the graph takes is of a pane that is live, and so had no program
\* and no exit to clear.
LEMMA ClaimKeeps ==
  ASSUME IInv, NEW s \in Spawner, Claim(s)
  PROVE  IInv'
<1> USE SpawnerAssumption DEF IInv, Inc, Spawner, Holding
<1>1. UNCHANGED <<life, seenGen, graphUp, io, cancelled, waiters, ticket, mine, forked, task,
                    born, final, gen, writes, killer, knows, down, awaited>>
  BY DEF Claim, graphVars, ioVars, spawnVars, taskVars, killVars, downVars
<1>2. GraphTypes'
  BY <1>1 DEF Claim, GraphTypes, SpawnTypes, Tickets, Discard
<1>3. SpawnTypes'
  BY <1>1 DEF Claim, SpawnTypes, Discard
<1>4. TaskTypes'
  BY <1>1 DEF Claim, TaskTypes, Discard
<1>5. Tickets'
  BY <1>1 DEF Claim, SpawnTypes, Tickets, Discard
<1>6. Fresh'
  BY <1>1 DEF Claim, SpawnTypes, Tickets, Fresh, Started, Closed, Discard
<1>7. Exits'
  BY <1>1 DEF Claim, Exits, TaskTypes, OneProgram, Fresh, Discard
<1>8. Kills'
  BY <1>1 DEF Claim, Kills, SpawnTypes, Tickets, Discard
<1>9. KilledLeavesNothing'
  BY <1>1 DEF Claim, KilledLeavesNothing, Kills, SpawnTypes, Tickets, Discard
<1>10. StatusAgrees'
  BY <1>1 DEF Claim, StatusAgrees, Exits, OneProgram, Status, Fresh, Started, Discard
<1> QED BY <1>1, <1>2, <1>3, <1>4, <1>5, <1>6, <1>7, <1>8, <1>9, <1>10, Frame

\* An install is the first in the pane, and comes before the shutdown.
LEMMA InstallKeeps ==
  ASSUME IInv, NEW s \in Spawner, Install(s)
  PROVE  IInv'
<1> USE DEF IInv
<1>1. UNCHANGED <<life, owner, exit, seenGen, graphUp, waiters, ticket, mine, forked, born, final,
                    gen, writes, killer, knows, down, awaited>>
  BY DEF Install, graphVars, ioVars, spawnVars, taskVars, killVars, downVars
<1>2. pc[s] = "installing" /\ ticket = s /\ mine[s] \in Inc
  BY DEF Install, Tickets, Holding
<1>3. ~Started /\ io.inc = None /\ writes = <<>> /\ seenGen = 0
  BY <1>2 DEF Fresh, Status
<1>4. \A x \in Spawner : x # s => pc[x] \notin Holding
  BY <1>2, OneHolder DEF Holding
<1>5. CASE down # "no"
  <2>1. UNCHANGED <<io, cancelled, task>> /\ Discard(s, "failing")
    BY <1>5 DEF Install
  <2>2. pc' = [pc EXCEPT ![s] = "failing"] /\ child' \in [Inc -> {"none", "alive", "dead"}]
    BY <1>2, <2>1 DEF Discard, TaskTypes
  <2>3. SpawnTypes' /\ TaskTypes'
    BY <1>1, <2>1, <2>2 DEF SpawnTypes, TaskTypes, Holding
  <2>4. pc'[s] = "failing" /\ \A x \in Spawner : x # s => pc'[x] = pc[x]
    BY <2>2 DEF SpawnTypes
  <2>5. Tickets'
    BY <1>1, <1>2, <2>4 DEF Tickets
  <2>6. Fresh'
    BY <1>1, <2>1, <2>4 DEF Fresh, Started, Closed
  <2>7. Kills' /\ KilledLeavesNothing'
    BY <1>1, <1>2, <1>3, <2>1, <2>4 DEF Kills, KilledLeavesNothing
  <2> QED BY <1>1, <2>1, <2>3, <2>5, <2>6, <2>7, Frame
<1>6. CASE down = "no"
  <2> DEFINE n == mine[s]
  <2>1. DoInstall(s)
    BY <1>3, <1>6 DEF Install
  <2>2. born[n] \in Nat /\ born[n] <= gen /\ io.slot = None
    BY <1>2, <1>3 DEF TaskTypes, Status, IoTypes
  <2>3. io' = [inc |-> n, handles |-> n, vt |-> born[n], slot |-> born[n], sealed |-> FALSE,
               failed |-> FALSE]
    BY <2>1, <2>2 DEF DoInstall, Newest
  <2>4. io'.inc = n /\ io'.handles = n /\ io'.vt = born[n] /\ io'.slot = born[n]
        /\ io'.sealed = FALSE /\ io'.failed = FALSE
    BY <2>3
  <2>5. io' \in [inc : Inc \cup {None}, handles : Inc \cup {None}, vt : Nat \cup {None},
                 slot : Nat \cup {None}, sealed : BOOLEAN, failed : BOOLEAN]
    BY <1>2, <2>2, <2>3
  <2>6. n # None /\ born[n] # None
    BY <1>2, <2>2, SpawnerAssumption DEF Inc
  <2>7. cancelled' \subseteq Inc
    BY <2>1 DEF DoInstall, IoTypes
  <2>8. IoTypes'
    BY <1>1, <2>4, <2>5, <2>6, <2>7 DEF IoTypes
  <2>9. pc' = [pc EXCEPT ![s] = "installed"] /\ task' = [task EXCEPT ![n] = "running"]
        /\ UNCHANGED child
    BY <2>1 DEF DoInstall
  <2>10. SpawnTypes' /\ TaskTypes'
    BY <1>1, <1>2, <2>9 DEF SpawnTypes, TaskTypes, Holding
  <2>11. pc'[s] = "installed" /\ \A x \in Spawner : x # s => pc'[x] = pc[x]
    BY <2>9 DEF SpawnTypes
  <2>12. \A m \in Inc : task[m] = "none" /\ task'[m] = IF m = n THEN "running" ELSE "none"
    BY <1>2, <1>3, <2>9 DEF TaskTypes, Started
  <2>13. Started' /\ OneProgram'
    BY <1>2, <2>12 DEF Started, OneProgram
  <2>14. exit = None
    BY <2>12 DEF Exits, GraphTypes
  <2>15. Exits' /\ StatusAgrees' /\ NothingAfterDrain'
    BY <1>1, <1>6, <2>14 DEF Exits, StatusAgrees, NothingAfterDrain
  <2>16. Tickets'
    BY <1>1, <1>2, <2>11 DEF Tickets
  <2>17. Fresh'
    BY <1>1, <1>2, <1>4, <2>4, <2>6, <2>11, <2>12, <2>13 DEF Fresh, Holding
  <2>18. Kills' /\ KilledLeavesNothing'
    BY <1>1, <1>4, <2>4, <2>11 DEF Kills, KilledLeavesNothing, Holding
  <2>19. Status'
    <3>1. \A i \in DOMAIN writes' : writes'[i] <= io'.vt
      BY <1>1, <1>3
    <3> QED BY <1>1, <1>2, <1>3, <2>2, <2>4, <2>12, <2>13, <3>1 DEF Status
  <2> QED BY <1>1, <2>8, <2>10, <2>13, <2>15, <2>16, <2>17, <2>18, <2>19, Frame
<1> QED BY <1>5, <1>6

\* The recheck tears down what a kill could not have seen.
LEMMA RecheckKeeps ==
  ASSUME IInv, NEW s \in Spawner, Recheck(s)
  PROVE  IInv'
<1> USE SpawnerAssumption DEF IInv, Inc, Spawner, Holding
<1>1. UNCHANGED <<life, owner, exit, seenGen, graphUp, waiters, ticket, mine, forked, task, child,
                    born, final, gen, writes, killer, knows, down, awaited>>
  BY DEF Recheck, graphVars, ioVars, spawnVars, taskVars, killVars, downVars
<1>2. IoTypes'
  <2>1. CASE life = "gone" /\ io.inc = mine[s]
    BY <1>1, <2>1, Torn DEF Recheck, IoTypes
  <2>2. CASE ~(life = "gone" /\ io.inc = mine[s])
    BY <1>1, <2>2 DEF Recheck, IoTypes
  <2> QED BY <2>1, <2>2
<1>3. SpawnTypes'
  BY <1>1 DEF Recheck, SpawnTypes, Teardown, NoIo
<1>4. Tickets'
  BY <1>1 DEF Recheck, SpawnTypes, Tickets, Teardown, NoIo
<1>5. Fresh'
  BY <1>1 DEF Recheck, SpawnTypes, Tickets, Fresh, Started, Closed, IoTypes, Kills, Teardown, NoIo
<1>6. NothingAfterDrain'
  <2>1. CASE life = "gone" /\ io.inc = mine[s]
    BY <1>1, <2>1, Torn DEF Recheck, IoTypes
  <2>2. CASE ~(life = "gone" /\ io.inc = mine[s])
    BY <1>1, <2>2 DEF Recheck, NothingAfterDrain
  <2> QED BY <2>1, <2>2
<1>7. Kills'
  BY <1>1 DEF Recheck, Kills, SpawnTypes, Tickets, IoTypes, Teardown, NoIo
<1>8. KilledLeavesNothing'
  BY <1>1 DEF Recheck, KilledLeavesNothing, Kills, SpawnTypes, Tickets, IoTypes, Teardown, NoIo
<1>9. Status'
  BY <1>1 DEF Recheck, Status, Started, Fresh, TaskTypes, IoTypes, Teardown, NoIo
<1>10. StatusAgrees'
  BY <1>1 DEF Recheck, StatusAgrees, Exits, OneProgram, Status, Fresh, Started, IoTypes,
         Teardown, NoIo
<1> QED BY <1>1, <1>2, <1>3, <1>4, <1>5, <1>6, <1>7, <1>8, <1>9, <1>10, Frame

\* A recorded failure changes no program.
LEMMA RecordFailureKeeps ==
  ASSUME IInv, NEW s \in Spawner, RecordFailure(s)
  PROVE  IInv'
<1> USE SpawnerAssumption DEF IInv, Inc, Spawner, Holding
<1>1. UNCHANGED <<life, owner, exit, seenGen, graphUp, cancelled, waiters, ticket, mine, forked,
                    task, child, born, final, gen, writes, killer, knows, down, awaited>>
  BY DEF RecordFailure, graphVars, ioVars, spawnVars, taskVars, killVars, downVars
<1>2. IoTypes'
  BY <1>1 DEF RecordFailure, IoTypes
<1>3. SpawnTypes'
  BY <1>1 DEF RecordFailure, SpawnTypes
<1>4. Tickets'
  BY <1>1 DEF RecordFailure, SpawnTypes, Tickets
<1>5. Fresh'
  BY <1>1 DEF RecordFailure, SpawnTypes, Tickets, Fresh, Started, Closed, IoTypes
<1>6. NothingAfterDrain'
  BY <1>1 DEF RecordFailure, NothingAfterDrain, IoTypes
<1>7. Kills'
  BY <1>1 DEF RecordFailure, Kills, SpawnTypes, Tickets, IoTypes
<1>8. KilledLeavesNothing'
  BY <1>1 DEF RecordFailure, KilledLeavesNothing, Kills, SpawnTypes, Tickets, IoTypes
<1>9. Status'
  BY <1>1 DEF RecordFailure, Status, Started, Fresh, TaskTypes, IoTypes
<1>10. StatusAgrees'
  BY <1>1 DEF RecordFailure, StatusAgrees, Exits, OneProgram, Status, Fresh, Started, IoTypes
<1> QED BY <1>1, <1>2, <1>3, <1>4, <1>5, <1>6, <1>7, <1>8, <1>9, <1>10, Frame

\* The ticket goes with everything that its holder was at.
LEMMA FinishKeeps ==
  ASSUME IInv, NEW s \in Spawner, Finish(s)
  PROVE  IInv'
<1> USE SpawnerAssumption DEF IInv, Inc, Spawner, Holding
<1>1. UNCHANGED <<life, owner, exit, seenGen, graphUp, io, cancelled, waiters, mine, forked, task,
                    child, born, final, gen, writes, killer, knows, down, awaited>>
  BY DEF Finish, graphVars, ioVars, spawnVars, taskVars, killVars, downVars
<1>2. SpawnTypes'
  BY <1>1 DEF Finish, SpawnTypes, Release, Returned
<1>3. Tickets'
  BY <1>1 DEF Finish, SpawnTypes, Tickets, Release, Returned
<1>4. Fresh'
  BY <1>1 DEF Finish, SpawnTypes, Tickets, Fresh, Started, Closed, Release, Returned
<1>5. Kills'
  BY <1>1 DEF Finish, Kills, SpawnTypes, Tickets, Release, Returned
<1>6. KilledLeavesNothing'
  BY <1>1 DEF Finish, KilledLeavesNothing, Kills, SpawnTypes, Tickets, Release, Returned
<1> QED BY <1>1, <1>2, <1>3, <1>4, <1>5, <1>6, Frame

\* A rollback leaves no exit and no status.
LEMMA RollbackKeeps ==
  ASSUME IInv, Rollback
  PROVE  IInv'
<1> USE SpawnerAssumption DEF IInv, Inc, Spawner, Holding
<1>1. UNCHANGED <<graphUp, io, cancelled, waiters, ticket, mine, forked, task, child, born, final,
                    gen, writes, killer, knows, down, awaited>>
  BY DEF Rollback, graphVars, ioVars, spawnVars, taskVars, killVars, downVars, LeavesGraph
<1>2. GraphTypes'
  BY <1>1, MaxIncAssumption DEF Rollback, GraphTypes, LeavesGraph, graphVars
<1>3. SpawnTypes'
  BY <1>1 DEF Rollback, SpawnTypes, LeavesGraph, graphVars
<1>4. Tickets'
  BY <1>1 DEF Rollback, SpawnTypes, Tickets, LeavesGraph, graphVars
<1>5. Fresh'
  BY <1>1 DEF Rollback, SpawnTypes, Tickets, Fresh, Started, Closed, LeavesGraph, graphVars
<1>6. Exits'
  BY <1>1 DEF Rollback, Exits, TaskTypes, OneProgram, Fresh, LeavesGraph, graphVars
<1>7. Kills'
  BY <1>1 DEF Rollback, Kills, SpawnTypes, Tickets, LeavesGraph, graphVars
<1>8. KilledLeavesNothing'
  BY <1>1 DEF Rollback, KilledLeavesNothing, Kills, SpawnTypes, Tickets, LeavesGraph, graphVars
<1>9. Status'
  <2>1. seenGen' \in {0, seenGen}
    BY DEF Rollback, LeavesGraph, graphVars
  <2>2. io.inc # None => 0 <= io.vt
    BY DEF IoTypes
  <2> QED BY <1>1, <2>1, <2>2 DEF Status, Started
<1>10. StatusAgrees'
  BY <1>1 DEF Rollback, StatusAgrees, Exits, OneProgram, Status, Fresh, Started, LeavesGraph,
         graphVars
<1> QED BY <1>1, <1>2, <1>3, <1>4, <1>5, <1>6, <1>7, <1>8, <1>9, <1>10, Frame

\* A creation that keeps its pane holds no ticket.
LEMMA KeepPaneKeeps ==
  ASSUME IInv, KeepPane
  PROVE  IInv'
<1> USE SpawnerAssumption DEF IInv, Inc, Spawner, Holding
<1>1. UNCHANGED <<life, owner, exit, seenGen, graphUp, io, cancelled, waiters, ticket, mine,
                    forked, task, child, born, final, gen, writes, killer, knows, down, awaited>>
  BY DEF KeepPane, graphVars, ioVars, spawnVars, taskVars, killVars, downVars
<1>2. SpawnTypes'
  BY <1>1 DEF KeepPane, SpawnTypes
<1>3. Tickets'
  BY <1>1 DEF KeepPane, SpawnTypes, Tickets
<1>4. Fresh'
  BY <1>1 DEF KeepPane, SpawnTypes, Tickets, Fresh, Started, Closed
<1>5. Kills'
  BY <1>1 DEF KeepPane, Kills, SpawnTypes, Tickets
<1>6. KilledLeavesNothing'
  BY <1>1 DEF KeepPane, KilledLeavesNothing, Kills, SpawnTypes, Tickets
<1> QED BY <1>1, <1>2, <1>3, <1>4, <1>5, <1>6, Frame

\* Output of a program that runs renews the status; one whose pane is gone ends.
LEMMA OutputKeeps ==
  ASSUME IInv, NEW n \in Inc, Output(n)
  PROVE  IInv'
<1>1. UNCHANGED <<life, owner, exit, seenGen, graphUp, cancelled, waiters, ticket, pc, mine, forked,
                    child, born, final, writes, killer, knows, down, awaited>>
  BY DEF Output, graphVars, ioVars, spawnVars, taskVars, killVars, downVars
<1>2. CASE io.inc # n
  <2>1. UNCHANGED <<io, gen>> /\ task[n] = "running" /\ task' = [task EXCEPT ![n] = "ended"]
    BY <1>2 DEF Output
  <2>2. child' \in [Inc -> {"none", "alive", "dead"}]
    BY <1>1 DEF IInv, TaskTypes
  <2> QED BY <1>1, <2>1, <2>2, Ended
<1>3. CASE io.inc = n
  <2>1. task[n] = "running" /\ UNCHANGED task
    BY <1>3 DEF Output
  <2>2. gen' = gen + 1 /\ io' = [io EXCEPT !.vt = gen + 1, !.slot = Newest(@, gen + 1)]
    BY <1>3 DEF Output
  <2>3. io.inc # None
    BY <1>3, SpawnerAssumption DEF Inc
  <2>4. task[io.inc] \notin {"sealed", "reported", "done"}
    BY <1>3, <2>1
  <2> QED BY <1>1, <2>1, <2>2, <2>3, <2>4, Restamped
<1> QED BY <1>2, <1>3

\* A child's death alone changes nothing of the pane.
LEMMA ChildDiesKeeps ==
  ASSUME IInv, NEW n \in Inc, ChildDies(n)
  PROVE  IInv'
<1> USE SpawnerAssumption DEF IInv, Inc, Spawner, Holding
<1>1. UNCHANGED <<life, owner, exit, seenGen, graphUp, io, cancelled, waiters, ticket, pc, mine,
                    forked, task, born, final, gen, writes, killer, knows, down, awaited>>
  BY DEF ChildDies, graphVars, ioVars, spawnVars, taskVars, killVars, downVars
<1>2. TaskTypes'
  BY <1>1 DEF ChildDies, TaskTypes
<1> QED BY <1>1, <1>2, Frame

\* The PTY task leaves its loop.
LEMMA LeaveLoopKeeps ==
  ASSUME IInv, NEW n \in Inc, LeaveLoop(n)
  PROVE  IInv'
<1>1. child' \in [Inc -> {"none", "alive", "dead"}]
  BY DEF LeaveLoop, IInv, TaskTypes
<1> QED BY <1>1, Ended DEF LeaveLoop, graphVars, ioVars, spawnVars, taskVars, killVars, downVars

\* The PTY task has its child reaped.
LEMMA ReapKeeps ==
  ASSUME IInv, NEW n \in Inc, Reap(n)
  PROVE  IInv'
<1>1. child' \in [Inc -> {"none", "alive", "dead"}]
  BY DEF Reap, IInv, TaskTypes
<1> QED BY <1>1, Ended DEF Reap, graphVars, ioVars, spawnVars, taskVars, killVars, downVars

\* The seal fixes the status of the terminal, before any exit is recorded.
LEMMA SealKeeps ==
  ASSUME IInv, NEW n \in Inc, Seal(n)
  PROVE  IInv'
<1> USE DEF IInv
<1>1. UNCHANGED <<life, owner, exit, seenGen, graphUp, cancelled, waiters, ticket, pc, mine, forked,
                    child, born, writes, killer, knows, down, awaited>>
  BY DEF Seal, graphVars, ioVars, spawnVars, taskVars, killVars, downVars
<1>2. task[n] = "reaped" /\ \A m \in Inc : task'[m] = IF m = n THEN "sealed" ELSE task[m]
  BY DEF Seal, TaskTypes
<1>3. OneProgram' /\ Started /\ Started'
  BY <1>2 DEF OneProgram, Started
<1>4. exit = None
  BY <1>2 DEF Exits, OneProgram, GraphTypes
<1>5. Exits' /\ StatusAgrees'
  BY <1>1, <1>4 DEF Exits, StatusAgrees
<1>6. CASE io.inc # n
  <2>1. UNCHANGED <<io, gen, final>>
    BY <1>6 DEF Seal
  <2>2. io.inc = None
    BY <1>2, <1>6 DEF Fresh, OneProgram, IoTypes
  <2>3. TaskTypes'
    BY <1>1, <2>1 DEF Seal, TaskTypes
  <2>4. Fresh'
    BY <1>1, <1>3, <2>1, <2>2 DEF Fresh, Closed
  <2>5. Status'
    BY <1>1, <1>3, <2>1, <2>2 DEF Status
  <2> QED BY <1>1, <1>3, <1>5, <2>1, <2>3, <2>4, <2>5, Frame
<1>7. CASE io.inc = n
  <2>1. io.inc # None /\ io.vt \in Nat /\ gen \in Nat /\ io.vt <= gen
    BY <1>7, SpawnerAssumption DEF Inc, IoTypes, TaskTypes, Status
  <2>2. PICK g \in {io.vt, gen + 1} :
            /\ gen' = IF g > gen THEN g ELSE gen
            /\ io' = [io EXCEPT !.sealed = TRUE, !.vt = g, !.slot = Newest(@, g)]
            /\ final' = [final EXCEPT ![n] = g]
    BY <1>7 DEF Seal
  <2>3. g \in Nat /\ io.vt <= g /\ gen' \in Nat /\ gen <= gen' /\ g <= gen'
    BY <2>1, <2>2
  <2>4. IoTypes' /\ io'.inc = io.inc /\ io'.vt = g /\ io'.slot = g /\ io'.sealed = TRUE
    BY <1>1, <2>1, <2>2, <2>3, Shown
  <2>5. TaskTypes'
    BY <1>1, <2>2, <2>3 DEF Seal, TaskTypes
  <2>6. final'[n] = g
    BY <2>2 DEF TaskTypes
  <2>7. Fresh'
    BY <1>1, <1>2, <1>3, <1>7, <2>1, <2>4 DEF Fresh, Closed
  <2>8. NothingAfterDrain' /\ Kills' /\ KilledLeavesNothing'
    BY <1>1, <2>4 DEF NothingAfterDrain, Kills, KilledLeavesNothing
  <2>9. Status'
    <3>1. \A m \in Inc : born[m] <= gen'
      BY <2>1, <2>3 DEF Status, TaskTypes
    <3>2. seenGen <= io.vt /\ seenGen \in Nat /\ writes \in Seq(Nat)
      BY <2>1 DEF Status, GraphTypes, EndTypes
    <3>3. \A i \in DOMAIN writes : writes[i] <= io.vt /\ writes[i] \in Nat
      BY <2>1, <3>2 DEF Status
    <3>4. seenGen <= g /\ \A i \in DOMAIN writes : writes[i] <= g
      BY <2>1, <2>3, <3>2, <3>3
    <3> QED BY <1>1, <1>3, <1>7, <2>3, <2>4, <2>6, <3>1, <3>4 DEF Status
  <2> QED BY <1>1, <1>3, <1>5, <2>4, <2>5, <2>7, <2>8, <2>9, Frame
<1> QED BY <1>6, <1>7

\* The report makes the graph agree with the sealed terminal.
LEMMA ReportKeeps ==
  ASSUME IInv, NEW n \in Inc, Report(n)
  PROVE  IInv'
<1> USE SpawnerAssumption DEF IInv, Inc, Spawner, Holding
<1>1. UNCHANGED <<life, owner, graphUp, io, cancelled, waiters, ticket, pc, mine, forked, child,
                    born, final, gen, writes, killer, knows, down, awaited>>
  BY DEF Report, graphVars, ioVars, spawnVars, taskVars, killVars, downVars
<1>2. GraphTypes'
  BY <1>1 DEF Report, GraphTypes, TaskTypes
<1>3. TaskTypes'
  BY <1>1 DEF Report, TaskTypes
<1>4. Fresh'
  BY <1>1 DEF Report, SpawnTypes, Tickets, Fresh, Started, Closed
<1>5. OneProgram'
  BY <1>1 DEF Report, OneProgram, Fresh, Started, TaskTypes
<1>6. Exits'
  BY <1>1 DEF Report, Exits, TaskTypes, OneProgram, Fresh
<1>7. Status'
  <2>1. Started /\ Started'
    BY DEF Report, Started, TaskTypes
  <2>2. io.inc # None => io.inc = n
    BY DEF Report, Fresh, OneProgram, IoTypes
  <2>3. io.inc # None => io.sealed /\ final[n] = io.vt
    BY <2>2 DEF Report, Status
  <2>4. io.inc # None => seenGen' <= io.vt
    BY <2>3 DEF Report, Status, IoTypes, GraphTypes
  <2> QED BY <1>1, <2>1, <2>2, <2>3, <2>4 DEF Status, Started
<1>8. StatusAgrees'
  BY <1>1 DEF Report, StatusAgrees, Exits, OneProgram, Status, Fresh, Started, IoTypes,
         GraphTypes, TaskTypes
<1> QED BY <1>1, <1>2, <1>3, <1>4, <1>5, <1>6, <1>7, <1>8, Frame

\* The handles go, the terminal and its status stay.
LEMMA ReleaseHandlesKeeps ==
  ASSUME IInv, NEW n \in Inc, ReleaseHandles(n)
  PROVE  IInv'
<1> USE SpawnerAssumption DEF IInv, Inc, Spawner, Holding
<1>1. UNCHANGED <<life, owner, exit, seenGen, graphUp, cancelled, waiters, ticket, pc, mine,
                    forked, child, born, final, gen, writes, killer, knows, down, awaited>>
  BY DEF ReleaseHandles, graphVars, ioVars, spawnVars, taskVars, killVars, downVars
<1>2. IoTypes'
  BY <1>1 DEF ReleaseHandles, IoTypes
<1>3. TaskTypes'
  BY <1>1 DEF ReleaseHandles, TaskTypes
<1>4. Fresh'
  BY <1>1 DEF ReleaseHandles, SpawnTypes, Tickets, Fresh, Started, Closed, IoTypes
<1>5. OneProgram'
  BY <1>1 DEF ReleaseHandles, OneProgram, Fresh, Started, TaskTypes
<1>6. Exits'
  BY <1>1 DEF ReleaseHandles, Exits, TaskTypes, OneProgram, Fresh
<1>7. NothingAfterDrain'
  BY <1>1 DEF ReleaseHandles, NothingAfterDrain, IoTypes
<1>8. Kills'
  BY <1>1 DEF ReleaseHandles, Kills, SpawnTypes, Tickets, IoTypes
<1>9. KilledLeavesNothing'
  BY <1>1 DEF ReleaseHandles, KilledLeavesNothing, Kills, SpawnTypes, Tickets, IoTypes
<1>10. Status'
  BY <1>1 DEF ReleaseHandles, Status, Started, Fresh, TaskTypes, IoTypes
<1>11. StatusAgrees'
  BY <1>1 DEF ReleaseHandles, StatusAgrees, Exits, OneProgram, Status, Fresh, Started, IoTypes
<1> QED BY <1>1, <1>2, <1>3, <1>4, <1>5, <1>6, <1>7, <1>8, <1>9, <1>10, <1>11, Frame

\* A config reload leaves sealed terminals alone.
LEMMA ApplyEnabledKeeps ==
  ASSUME IInv, ApplyEnabled
  PROVE  IInv'
<1>1. io.inc # None /\ task[io.inc] \notin {"sealed", "reported", "done"}
  BY DEF ApplyEnabled, IInv, Status
<1> QED BY <1>1, Restamped
           DEF ApplyEnabled, graphVars, ioVars, spawnVars, taskVars, killVars, downVars

\* What is sent is the status of the terminal.
LEMMA SendStatusKeeps ==
  ASSUME IInv, SendStatus
  PROVE  IInv'
<1> USE SpawnerAssumption DEF IInv, Inc, Spawner, Holding
<1>1. UNCHANGED <<life, owner, exit, seenGen, graphUp, io, cancelled, waiters, ticket, pc, mine,
                    forked, task, child, born, final, gen, killer, knows, down, awaited>>
  BY DEF SendStatus, graphVars, ioVars, spawnVars, taskVars, killVars, downVars
<1>2. EndTypes'
  <2>1. io.slot \in Nat /\ writes \in Seq(Nat) /\ writes' = Append(writes, io.slot)
    BY DEF SendStatus, IoTypes, EndTypes
  <2>2. writes' \in Seq(Nat)
    BY ONLY <2>1
  <2> QED BY <1>1, <2>2 DEF EndTypes
<1>3. Status'
  <2>1. io.inc # None /\ Started /\ io.slot = io.vt
    BY DEF SendStatus, IoTypes, Fresh, Started, Status
  <2>2. io.slot \in Nat /\ writes \in Seq(Nat)
    BY DEF SendStatus, IoTypes, EndTypes
  <2>3. \A i \in DOMAIN writes' : writes'[i] <= io.vt
    BY <2>1, <2>2 DEF SendStatus, Status
  <2> QED BY <1>1, <2>1, <2>3 DEF Status, Started
<1> QED BY <1>1, <1>2, <1>3, Frame

\* What arrives is no newer than the status of the terminal.
LEMMA WriteStatusKeeps ==
  ASSUME IInv, WriteStatus
  PROVE  IInv'
<1> USE SpawnerAssumption DEF IInv, Inc, Spawner, Holding
<1>1. UNCHANGED <<life, owner, exit, graphUp, io, cancelled, waiters, ticket, pc, mine, forked,
                    task, child, born, final, gen, killer, knows, down, awaited>>
  BY DEF WriteStatus, graphVars, ioVars, spawnVars, taskVars, killVars, downVars
<1>2. GraphTypes'
  <2>1. writes \in Seq(Nat) /\ writes # <<>>
    BY DEF WriteStatus, EndTypes
  <2>2. Head(writes) \in Nat
    BY ONLY <2>1
  <2> QED BY <1>1, <2>2 DEF WriteStatus, GraphTypes
<1>3. EndTypes'
  <2>1. writes \in Seq(Nat) /\ writes # <<>> /\ writes' = Tail(writes)
    BY DEF WriteStatus, EndTypes
  <2>2. writes' \in Seq(Nat)
    BY ONLY <2>1
  <2> QED BY <1>1, <2>2 DEF EndTypes
<1>4. Status'
  <2>1. writes \in Seq(Nat) /\ writes # <<>> /\ writes' = Tail(writes)
    BY DEF WriteStatus, EndTypes
  <2>2. 1 \in DOMAIN writes /\ Head(writes) = writes[1]
    BY <2>1
  <2>3. \A i \in DOMAIN writes' : i + 1 \in DOMAIN writes /\ writes'[i] = writes[i + 1]
    BY <2>1
  <2>4. Started
    BY <2>1 DEF Status
  <2>5. seenGen' \in {seenGen, writes[1]}
    BY <2>2 DEF WriteStatus
  <2>6. io.inc # None => seenGen' <= io.vt
    BY <2>2, <2>5 DEF Status
  <2>7. io.inc # None => \A i \in DOMAIN writes' : writes'[i] <= io.vt
    BY <2>3 DEF Status
  <2> QED BY <1>1, <2>4, <2>6, <2>7 DEF Status, Started
<1>5. StatusAgrees'
  BY <1>1 DEF WriteStatus, StatusAgrees, Exits, OneProgram, Status, Fresh, Started
<1> QED BY <1>1, <1>2, <1>3, <1>4, <1>5, Frame

\* A kill that only reads changes nothing.
LEMMA KillCollectsKeeps ==
  ASSUME IInv, KillCollects
  PROVE  IInv'
<1> USE SpawnerAssumption DEF IInv, Inc, Spawner, Holding
<1>1. UNCHANGED <<life, owner, exit, seenGen, graphUp, io, cancelled, waiters, ticket, pc, mine,
                    forked, task, child, born, final, gen, writes, down, awaited>>
  BY DEF KillCollects, graphVars, ioVars, spawnVars, taskVars, killVars, downVars
<1>2. EndTypes'
  BY <1>1 DEF KillCollects, EndTypes
<1>3. Kills'
  BY <1>1 DEF KillCollects, Kills, SpawnTypes, Tickets
<1>4. KilledLeavesNothing'
  BY <1>1 DEF KillCollects, KilledLeavesNothing, Kills, SpawnTypes, Tickets
<1> QED BY <1>1, <1>2, <1>3, <1>4, Frame

\* A kill leaves no exit and no status.
LEMMA KillDestroysKeeps ==
  ASSUME IInv, KillDestroys
  PROVE  IInv'
<1> USE SpawnerAssumption DEF IInv, Inc, Spawner, Holding
<1>1. UNCHANGED <<graphUp, io, cancelled, waiters, ticket, pc, mine, forked, task, child, born,
                    final, gen, writes, knows, down, awaited>>
  BY DEF KillDestroys, graphVars, ioVars, spawnVars, taskVars, killVars, downVars, LeavesGraph
<1>2. GraphTypes'
  BY <1>1, MaxIncAssumption DEF KillDestroys, GraphTypes, LeavesGraph, graphVars
<1>3. EndTypes'
  BY <1>1 DEF KillDestroys, EndTypes, LeavesGraph, graphVars
<1>4. Fresh'
  BY <1>1 DEF KillDestroys, SpawnTypes, Tickets, Fresh, Started, Closed, LeavesGraph, graphVars
<1>5. Exits'
  BY <1>1 DEF KillDestroys, Exits, TaskTypes, OneProgram, Fresh, LeavesGraph, graphVars
<1>6. Kills'
  BY <1>1 DEF KillDestroys, Kills, SpawnTypes, Tickets, LeavesGraph, graphVars
<1>7. KilledLeavesNothing'
  BY <1>1 DEF KillDestroys, KilledLeavesNothing, Kills, SpawnTypes, Tickets, LeavesGraph,
         graphVars
<1>8. Status'
  <2>1. seenGen' \in {0, seenGen}
    BY DEF KillDestroys, LeavesGraph, graphVars
  <2>2. io.inc # None => 0 <= io.vt
    BY DEF IoTypes
  <2> QED BY <1>1, <2>1, <2>2 DEF Status, Started
<1>9. StatusAgrees'
  BY <1>1 DEF KillDestroys, StatusAgrees, Exits, OneProgram, Status, Fresh, Started,
         LeavesGraph, graphVars
<1> QED BY <1>1, <1>2, <1>3, <1>4, <1>5, <1>6, <1>7, <1>8, <1>9, Frame

\* A kill tears down a pane that is gone.
LEMMA KillTearsDownKeeps ==
  ASSUME IInv, KillTearsDown
  PROVE  IInv'
<1> USE SpawnerAssumption DEF IInv, Inc, Spawner, Holding
<1>1. UNCHANGED <<life, owner, exit, seenGen, graphUp, ticket, pc, mine, forked, task, child,
                    born, final, gen, writes, knows, down, awaited>>
  BY DEF KillTearsDown, graphVars, ioVars, spawnVars, taskVars, killVars, downVars
<1>2. IoTypes'
  <2>1. Collected \subseteq Inc
    BY DEF Collected, IoTypes
  <2>2. CASE knows
    BY <1>1, <2>1, <2>2, Torn DEF KillTearsDown, IoTypes
  <2>3. CASE ~knows
    BY <1>1, <2>3 DEF KillTearsDown, IoTypes, ioVars
  <2> QED BY <2>2, <2>3
<1>3. EndTypes'
  BY <1>1 DEF KillTearsDown, EndTypes, Teardown, NoIo, Collected, ioVars
<1>4. Fresh'
  BY <1>1 DEF KillTearsDown, SpawnTypes, Tickets, Fresh, Started, Closed, IoTypes, Kills,
         Teardown, NoIo, Collected, ioVars
<1>5. NothingAfterDrain'
  <2>1. Collected \subseteq Inc
    BY DEF Collected, IoTypes
  <2>2. CASE knows
    BY <1>1, <2>1, <2>2, Torn DEF KillTearsDown, IoTypes
  <2>3. CASE ~knows
    BY <1>1, <2>3 DEF KillTearsDown, NothingAfterDrain, ioVars
  <2> QED BY <2>2, <2>3
<1>6. Kills'
  BY <1>1 DEF KillTearsDown, Kills, SpawnTypes, Tickets, IoTypes, Teardown, NoIo, Collected,
         ioVars
<1>7. KilledLeavesNothing'
  BY <1>1 DEF KillTearsDown, KilledLeavesNothing, Kills, SpawnTypes, Tickets, IoTypes, Teardown,
         NoIo, Collected, ioVars
<1>8. Status'
  BY <1>1 DEF KillTearsDown, Status, Started, Fresh, TaskTypes, IoTypes, Teardown, NoIo,
         Collected, ioVars
<1>9. StatusAgrees'
  BY <1>1 DEF KillTearsDown, StatusAgrees, Exits, OneProgram, Status, Fresh, Started, IoTypes,
         Teardown, NoIo, Collected, ioVars
<1> QED BY <1>1, <1>2, <1>3, <1>4, <1>5, <1>6, <1>7, <1>8, <1>9, Frame

\* The shutdown begins.
LEMMA CancelRootKeeps ==
  ASSUME IInv, CancelRoot
  PROVE  IInv'
<1> USE SpawnerAssumption DEF IInv, Inc, Spawner, Holding
<1>1. UNCHANGED <<life, owner, exit, seenGen, graphUp, io, cancelled, waiters, ticket, pc, mine,
                    forked, task, child, born, final, gen, writes, killer, knows, awaited>>
  BY DEF CancelRoot, graphVars, ioVars, spawnVars, taskVars, killVars, downVars
<1>2. EndTypes'
  BY <1>1 DEF CancelRoot, EndTypes
<1>3. Fresh'
  BY <1>1 DEF CancelRoot, SpawnTypes, Tickets, Fresh, Started, Closed
<1>4. NothingAfterDrain'
  BY <1>1 DEF CancelRoot, NothingAfterDrain
<1> QED BY <1>1, <1>2, <1>3, <1>4, Frame

\* The graph stops serving.
LEMMA GraphStopsKeeps ==
  ASSUME IInv, GraphStops
  PROVE  IInv'
<1> USE SpawnerAssumption DEF IInv, Inc, Spawner, Holding
<1>1. UNCHANGED <<life, owner, exit, seenGen, io, cancelled, waiters, ticket, pc, mine, forked,
                    task, child, born, final, gen, writes, killer, knows, down, awaited>>
  BY DEF GraphStops, graphVars, ioVars, spawnVars, taskVars, killVars, downVars
<1>2. GraphTypes'
  BY <1>1 DEF GraphStops, GraphTypes
<1> QED BY <1>1, <1>2, Frame

\* The drain leaves no program installed.
LEMMA DrainKeeps ==
  ASSUME IInv, Drain
  PROVE  IInv'
<1> USE SpawnerAssumption DEF IInv, Inc, Spawner, Holding
<1>1. UNCHANGED <<life, owner, exit, seenGen, graphUp, ticket, pc, mine, forked, task, child,
                    born, final, gen, writes, killer, knows>>
  BY DEF Drain, graphVars, ioVars, spawnVars, taskVars, killVars, downVars
<1>2. IoTypes'
  BY <1>1 DEF Drain, IoTypes, Teardown, NoIo, Collected
<1>3. EndTypes'
  BY <1>1 DEF Drain, EndTypes, IoTypes, Teardown, NoIo, Collected
<1>4. Fresh'
  BY <1>1 DEF Drain, SpawnTypes, Tickets, Fresh, Started, Closed, Teardown, NoIo, Collected
<1>5. NothingAfterDrain'
  BY <1>1 DEF Drain, NothingAfterDrain, Teardown, NoIo, Collected
<1>6. Kills'
  BY <1>1 DEF Drain, Kills, SpawnTypes, Tickets, Teardown, NoIo, Collected
<1>7. KilledLeavesNothing'
  BY <1>1 DEF Drain, KilledLeavesNothing, Kills, SpawnTypes, Tickets, Teardown, NoIo, Collected
<1>8. Status'
  BY <1>1 DEF Drain, Status, Started, Fresh, TaskTypes, Teardown, NoIo, Collected
<1>9. StatusAgrees'
  BY <1>1 DEF Drain, StatusAgrees, Exits, OneProgram, Status, Fresh, Started, Teardown, NoIo,
         Collected
<1> QED BY <1>1, <1>2, <1>3, <1>4, <1>5, <1>6, <1>7, <1>8, <1>9, Frame

\* The drain ends.
LEMMA DrainedKeeps ==
  ASSUME IInv, Drained
  PROVE  IInv'
<1> USE SpawnerAssumption DEF IInv, Inc, Spawner, Holding
<1>1. UNCHANGED <<life, owner, exit, seenGen, graphUp, io, cancelled, waiters, ticket, pc, mine,
                    forked, task, child, born, final, gen, writes, killer, knows, awaited>>
  BY DEF Drained, graphVars, ioVars, spawnVars, taskVars, killVars, downVars
<1>2. EndTypes'
  BY <1>1 DEF Drained, EndTypes
<1>3. Fresh'
  BY <1>1 DEF Drained, SpawnTypes, Tickets, Fresh, Started, Closed
<1>4. NothingAfterDrain'
  BY <1>1 DEF Drained, NothingAfterDrain
<1> QED BY <1>1, <1>2, <1>3, <1>4, Frame

\* The drain gives up.
LEMMA DrainTimesOutKeeps ==
  ASSUME IInv, DrainTimesOut
  PROVE  IInv'
<1> USE SpawnerAssumption DEF IInv, Inc, Spawner, Holding
<1>1. UNCHANGED <<life, owner, exit, seenGen, graphUp, io, cancelled, waiters, ticket, pc, mine,
                    forked, task, child, born, final, gen, writes, killer, knows, awaited>>
  BY DEF DrainTimesOut, graphVars, ioVars, spawnVars, taskVars, killVars, downVars
<1>2. EndTypes'
  BY <1>1 DEF DrainTimesOut, EndTypes
<1>3. Fresh'
  BY <1>1 DEF DrainTimesOut, SpawnTypes, Tickets, Fresh, Started, Closed
<1>4. NothingAfterDrain'
  BY <1>1 DEF DrainTimesOut, NothingAfterDrain
<1> QED BY <1>1, <1>2, <1>3, <1>4, Frame

-----------------------------------------------------------------------------
(* The invariant and the theorems                                          *)

\* The invariant holds of a daemon without the pane.
LEMMA InitIInv == Init => IInv
<1> SUFFICES ASSUME Init PROVE IInv
  OBVIOUS
<1> USE MaxIncAssumption, SpawnerAssumption
<1>1. io = NoIo
  BY DEF Init
<1>2. GraphTypes /\ SpawnTypes /\ TaskTypes
  BY DEF Init, GraphTypes, SpawnTypes, TaskTypes, Holding, Inc
<1>3. IoTypes
  BY <1>1, NoIoFields DEF Init, IoTypes
<1>4. EndTypes
  <2>1. writes \in Seq(Nat)
    BY DEF Init
  <2> QED BY <2>1 DEF Init, EndTypes
<1>5. ~Started /\ \A s \in Spawner : pc[s] = "idle"
  BY DEF Init, Started
<1>6. Tickets /\ OneProgram /\ Exits /\ NothingAfterDrain
  BY <1>5 DEF Init, Tickets, OneProgram, Exits, NothingAfterDrain, Holding, Started
<1>7. Fresh
  BY <1>1, <1>5, NoIoFields DEF Fresh
<1>8. Kills /\ KilledLeavesNothing /\ StatusAgrees
  BY <1>5 DEF Init, Kills, KilledLeavesNothing, StatusAgrees
<1>9. Status
  <2>1. \A n \in Inc : born[n] <= gen
    BY DEF Init
  <2> QED BY <1>1, <1>5, <2>1, NoIoFields DEF Init, Status
<1> QED BY <1>2, <1>3, <1>4, <1>6, <1>7, <1>8, <1>9 DEF IInv

\* Every step keeps the invariant.
LEMMA NextIInv == IInv /\ [Next]_vars => IInv'
<1> SUFFICES ASSUME IInv, [Next]_vars PROVE IInv'
  OBVIOUS
<1>1. CASE UNCHANGED vars
  BY <1>1, Frame DEF vars, graphVars, ioVars, spawnVars, taskVars, killVars, downVars, IInv
<1>2. CASE CreatePane
  BY <1>2, CreatePaneKeeps
<1>3. CASE \E s \in Attacher : AttachLooks(s) \/ AttachSpawns(s)
  BY <1>3, AttachLooksKeeps, AttachSpawnsKeeps
<1>4. CASE \E s \in Spawner : SpawnStep(s)
  <2> SUFFICES ASSUME NEW s \in Spawner, SpawnStep(s) PROVE IInv'
    BY <1>4
  <2>1. CASE TakeTicket(s)
    BY <2>1, TakeTicketKeeps
  <2>2. CASE FindsInstalled(s)
    BY <2>2, FindsInstalledKeeps
  <2>3. CASE ForkFails(s)
    BY <2>3, ForkFailsKeeps
  <2>4. CASE Fork(s)
    BY <2>4, ForkKeeps
  <2>5. CASE Admit(s)
    BY <2>5, AdmitKeeps
  <2>6. CASE Claim(s)
    BY <2>6, ClaimKeeps
  <2>7. CASE Install(s)
    BY <2>7, InstallKeeps
  <2>8. CASE Recheck(s)
    BY <2>8, RecheckKeeps
  <2>9. CASE RecordFailure(s)
    BY <2>9, RecordFailureKeeps
  <2>10. CASE Finish(s)
    BY <2>10, FinishKeeps
  <2> QED BY <2>1, <2>2, <2>3, <2>4, <2>5, <2>6, <2>7, <2>8, <2>9, <2>10 DEF SpawnStep
<1>5. CASE Rollback \/ KeepPane
  BY <1>5, RollbackKeeps, KeepPaneKeeps
<1>6. CASE \E n \in Inc : Output(n) \/ ChildDies(n) \/ LeaveLoop(n) \/ TaskStep(n)
  <2> SUFFICES ASSUME NEW n \in Inc, Output(n) \/ ChildDies(n) \/ LeaveLoop(n) \/ TaskStep(n)
               PROVE  IInv'
    BY <1>6
  <2>1. CASE Output(n)
    BY <2>1, OutputKeeps
  <2>2. CASE ChildDies(n)
    BY <2>2, ChildDiesKeeps
  <2>3. CASE LeaveLoop(n)
    BY <2>3, LeaveLoopKeeps
  <2>4. CASE Reap(n)
    BY <2>4, ReapKeeps
  <2>5. CASE Seal(n)
    BY <2>5, SealKeeps
  <2>6. CASE Report(n)
    BY <2>6, ReportKeeps
  <2>7. CASE ReleaseHandles(n)
    BY <2>7, ReleaseHandlesKeeps
  <2> QED BY <2>1, <2>2, <2>3, <2>4, <2>5, <2>6, <2>7 DEF TaskStep
<1>7. CASE ApplyEnabled \/ SendStatus \/ WriteStatus
  BY <1>7, ApplyEnabledKeeps, SendStatusKeeps, WriteStatusKeeps
<1>8. CASE KillCollects \/ KillStep
  BY <1>8, KillCollectsKeeps, KillDestroysKeeps, KillTearsDownKeeps DEF KillStep
<1>9. CASE CancelRoot \/ GraphStops
  BY <1>9, CancelRootKeeps, GraphStopsKeeps
<1>10. CASE Drain \/ Drained \/ DrainTimesOut
  BY <1>10, DrainKeeps, DrainedKeeps, DrainTimesOutKeeps
<1> QED BY <1>1, <1>2, <1>3, <1>4, <1>5, <1>6, <1>7, <1>8, <1>9, <1>10 DEF Next

\* The inductive invariant holds in every reachable state.
LEMMA IInvHolds == Spec => []IInv
<1>1. Init => IInv
  BY InitIInv
<1>2. IInv /\ [Next]_vars => IInv'
  BY NextIInv
<1> QED BY <1>1, <1>2, PTL DEF Spec

\* Every variable keeps its type, and the incarnation, the terminal and the
\* status slot of a pane come and go together.
THEOREM TypeCorrect == Spec => []TypeOK
<1>1. IInv => TypeOK
  BY TypeParts DEF IInv
<1> QED BY <1>1, IInvHolds, PTL

\* However many spawns of a pane race, fail and are retried, at most one child
\* ever gets to run in it (spawn_pane_pty_with_recorder, claim_pane_pty).
THEOREM OneProgramHolds == Spec => []OneProgram
<1>1. IInv => OneProgram
  BY DEF IInv
<1> QED BY <1>1, IInvHolds, PTL

\* The last status that clients are told of an exited pane is the one its
\* terminal shows, whatever writes and reloads were under way (Seal, Report,
\* apply_enabled).
THEOREM StatusAgreesHolds == Spec => []StatusAgrees
<1>1. IInv => StatusAgrees
  BY DEF IInv
<1> QED BY <1>1, IInvHolds, PTL

\* No spawn installs a program once the shutdown has collected the panes to
\* wait for (spawn_pane_pty_unshared, shutdown_all_pane_io).
THEOREM NothingAfterDrainHolds == Spec => []NothingAfterDrain
<1>1. IInv => NothingAfterDrain
  BY DEF IInv
<1> QED BY <1>1, IInvHolds, PTL

\* A kill that knew the pane leaves no program installed, even one whose spawn
\* was under way (teardown_panes, and the recheck of the spawn).
THEOREM KilledLeavesNothingHolds == Spec => []KilledLeavesNothing
<1>1. IInv => KilledLeavesNothing
  BY DEF IInv
<1> QED BY <1>1, IInvHolds, PTL

\* The exit that a pane records changes in three steps: a report that finds
\* none, a claim that finds none, and the pane's removal.
LEMMA ExitStep ==
  ASSUME IInv, Next
  PROVE  life' = "live" /\ exit # None => exit' = exit
<1> USE DEF graphVars
<1>1. CASE CreatePane \/ \E s \in Attacher : AttachLooks(s) \/ AttachSpawns(s)
  BY <1>1 DEF CreatePane, AttachLooks, AttachSpawns
<1>2. CASE \E s \in Spawner : SpawnStep(s)
  <2> SUFFICES ASSUME NEW s \in Spawner, SpawnStep(s) PROVE exit # None => exit' = exit
    BY <1>2
  <2>1. CASE Claim(s)
    <3>1. CASE life = "live"
      <4>1. ~Started
        BY <2>1, <3>1 DEF Claim, IInv, Fresh
      <4>2. exit = None
        BY <4>1 DEF IInv, Exits, Started, GraphTypes
      <4> QED BY <4>2
    <3>2. CASE life # "live"
      BY <2>1, <3>2 DEF Claim
    <3> QED BY <3>1, <3>2
  <2>2. CASE TakeTicket(s) \/ FindsInstalled(s) \/ ForkFails(s) \/ Fork(s) \/ Admit(s)
    BY <2>2 DEF TakeTicket, FindsInstalled, ForkFails, Fork, Admit
  <2>3. CASE Install(s) \/ Recheck(s) \/ RecordFailure(s) \/ Finish(s)
    BY <2>3 DEF Install, Recheck, RecordFailure, Finish
  <2> QED BY <2>1, <2>2, <2>3 DEF SpawnStep
<1>3. CASE Rollback \/ KeepPane
  BY <1>3 DEF Rollback, KeepPane, LeavesGraph
<1>4. CASE \E n \in Inc : Output(n) \/ ChildDies(n) \/ LeaveLoop(n) \/ TaskStep(n)
  <2> SUFFICES ASSUME NEW n \in Inc, Output(n) \/ ChildDies(n) \/ LeaveLoop(n) \/ TaskStep(n)
               PROVE  exit # None => exit' = exit
    BY <1>4
  <2>1. CASE Report(n)
    <3>1. exit = None
      BY <2>1 DEF Report, IInv, Exits, OneProgram, GraphTypes
    <3> QED BY <3>1
  <2>2. CASE Output(n) \/ ChildDies(n) \/ LeaveLoop(n)
    BY <2>2 DEF Output, ChildDies, LeaveLoop
  <2>3. CASE Reap(n) \/ Seal(n) \/ ReleaseHandles(n)
    BY <2>3 DEF Reap, Seal, ReleaseHandles
  <2> QED BY <2>1, <2>2, <2>3 DEF TaskStep
<1>5. CASE ApplyEnabled \/ SendStatus \/ WriteStatus
  BY <1>5 DEF ApplyEnabled, SendStatus, WriteStatus
<1>6. CASE KillCollects \/ KillStep
  BY <1>6 DEF KillCollects, KillStep, KillDestroys, KillTearsDown, LeavesGraph
<1>7. CASE CancelRoot \/ GraphStops \/ Drain \/ Drained \/ DrainTimesOut
  BY <1>7 DEF CancelRoot, GraphStops, Drain, Drained, DrainTimesOut
<1> QED BY <1>1, <1>2, <1>3, <1>4, <1>5, <1>6, <1>7 DEF Next

\* An exit is final: while a pane is there, no spawn, retry or shutdown clears
\* or replaces the exit it records (claim_pane_pty,
\* set_pane_exit_status_owned).
THEOREM ExitIsFinalHolds == Spec => ExitIsFinal
<1>1. IInv /\ [Next]_vars => [life' = "live" /\ exit # None => exit' = exit]_vars
  BY ExitStep
<1> QED BY <1>1, IInvHolds, PTL DEF Spec, ExitIsFinal

=============================================================================
