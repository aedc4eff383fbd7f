# A TLA+ model of shux

shux is a terminal multiplexer: one daemon owns sessions, windows and panes,
runs a program in each pane on a pseudo-terminal, and serves command-line
clients, agents and attached terminals over JSON-RPC. This directory models
the parts of the daemon where state is shared, model-checks them with TLC on
small instances, and proves with TLAPS, for instances of any size, most of the
safety properties that TLC checks: those of the session graph, the event bus,
a pane's program, its recordings and its pastes, of the calls that wait for
something of a pane, and of scratch sessions.

Run a check with `tlc -config MCSessionGraph.cfg MCSessionGraph`, and the
proofs with `tlapm SessionGraphProofs.tla` (likewise the other `*Proofs`). `PROJECT.json` lists the runs, the
source lines behind every definition, the mutants that show each property can
fail, the hazards the properties were written for, and the findings.

## 1. The system

| Component | State | Operations | Hard because |
|---|---|---|---|
| Session graph (`shux-core/src/graph.rs`) | one immutable snapshot of sessions, windows, panes; per-pane owner and status watermark | about thirty commands, run one at a time by `run_graph_loop`; `apply_batch` | cascades, focus and zoom rules, versions, events fired after the commit |
| Layout tree (`shux-core/src/layout.rs`) | a binary tree per window, and a saved one while zoomed | split, remove, resize, swap, zoom, geometry | recursion, rounding, operations on a zoomed window |
| Event bus (`shux-core/src/bus.rs`) | seq counter, history ring, broadcast channel | publish, subscribe, read from a seq | eviction, lagging receivers |
| `events.watch` (`shux/src/rpc/events.rs`) | a subscription and a history snapshot per call | long poll, resumed with `next_seq` | publishers run between its steps |
| Pane spawn and PTY task (`shux/src/pane_spawn.rs`) | a ticket per pane, incarnations | fork, claim, install, recheck; read, reap, seal, report, release | spawns race each other, kills and the shutdown |
| Pane I/O state (`shux/src/pane_io.rs`) | handles, terminals, tokens, waiters, per pane, under one lock | install, teardown, checkpoints, pastes, commands | a second store beside the graph, never changed in one step with it |
| Program status (`shux/src/program_status.rs`) | a slot per pane, a generation counter | publish, send, flush, `apply_enabled` | late and abandoned writes against an exit |
| Kill paths (`shux/src/rpc/{session,window,pane}.rs`, `attach.rs`) | none | read the panes, destroy, tear down | three steps over two stores |
| Shutdown (`shux/src/daemon_boot.rs`) | cancellation tokens | cancel, drain, time out | must wait for what it does not yet know |
| `pane.wait_exit` (`shux/src/rpc/wait_exit.rs`) | a subscription per call | wait with a timeout | it reads three stores that change one after the other, and two of them forget |
| `pane.wait_settled` (`shux/src/settle.rs`, `shux-vt/src/settle.rs`) | a watch receiver and a run of frames per call | wait for a quiet or a still screen | the watch coalesces; a revision between the look and the answer |
| `pane.wait_command` (`shux/src/rpc/wait_command.rs`, `shux-vt/src/commands.rs`) | a ring of ended commands per terminal | wait for the next command's end | the exit and the last output are read one after the other |
| Pane input (`shux/src/pane_input.rs`, `attach.rs`, `rpc/pane_io.rs`) | two byte budgets, slots, the paste open on a pane | reserve, frame, send, write, close | budgets at their limit, pastes in pieces, closing while waiting |
| Recordings (`shux/src/pane_record.rs`) | a registry of live recordings, a channel and a writer each | prepare, commit, admit, stop, drain | failures of the file, abandoned starts, shutdown |
| Lens scratch sessions (`shux/src/lens_scratch.rs`) | a registry with a file behind it, a quota | run, reap, kill, startup reap | crashes, process group ids that are reissued |
| RPC server (`shux-rpc`) | connections | dispatch, drop on disconnect | handlers cut at an await |
| Plugin host (`shux-plugin`) | child processes, grants | handshake, call, restart | timeouts, restarts |
| Terminal emulation (`shux-vt`) | two screens with scrollback, cursor, modes, dirty regions, a revision, a frozen frame | about forty control functions, resize, render | wide characters cut in two, reflow, recycled buffers, changes behind a frozen frame |
| Rasteriser, UI, gate, CLI, config | per-client or none | | sequential |

**Interaction.** RPC handlers and attach clients send commands to the graph
task over a channel and wait for the answer; they read the published snapshot
without a lock. The graph task publishes events on the bus after each commit.
Spawns and kills also change `PaneIoState` under its lock. The two stores are
never changed in one step: everything that is hard about panes comes from
that. The PTY task of a pane reports its exit to the graph as a command. The
status publisher of a pane sends the slot's value to the graph. At shutdown
the root token stops the graph loop, the spawns and the tasks,
`shutdown_all_pane_io` waits for the tasks it has collected, and the
recordings are drained. A PTY task feeds the program's output to the pane's
terminal under the pane lock, tees it to the recordings, and writes the
queued input as far as the program reads; attach clients and RPC callers
reserve room in that queue first. `lens.run` creates a session, spawns its
program and leaves a row in a registry that outlives the daemon.

**What makes each part correct.**
The graph is a forest with unique names and a focus on screen, its versions
tell every change apart and its events tell the same story as its snapshots.
A layout's panes tile the viewport and can all be reached. A watcher that
resumes reads the log once, in order, and is told what it missed. A pane runs
one program, records one exit, shows clients the status its program left, and
leaves no program behind when it is killed, rolled back or shut down.
A call that waits for an exit, a command or a still screen gets a true answer,
and gets one. Input is
bounded and a paste arrives in one piece. A recording that reports no loss has
none. A scratch program ends with its daemon or with the next one, and no
other process is signalled. A screen never shows half a character, and its
dirty regions and its revision say when it changed.

## 2. Modules

```
LayoutLeaves <--- SessionGraph <--- SessionGraphProofs
     ^
LayoutTree
EventLog <--- EventBus (implements LogSpec) <--- EventBusProofs
PanePty <--- PanePtyProofs
PaneLife <--- WaitExit, WaitCommand <--- PaneWaits <--- PaneWaitsProofs
Settle <----------------------------------'
    (PaneLife: what SessionGraph, EventBus and PanePty change)
PaneInput <--- PaneInputProofs
Recordings <--- RecordingsProofs
LensScratch <--- LensScratchProofs
Grid <--- Terminal (implements SyncOutput) <--- TerminalProofs
MC*: instances for TLC
```

| Module | Models | State | Actions |
|---|---|---|---|
| `LayoutLeaves` | what the graph needs of a layout: the order of its leaves, the zoom | - | operators |
| `SessionGraph` | `graph.rs` | `graph` the published snapshot; `batch` the clone of a running `apply_batch`; `outbox` events committed and not fired; `seen` what a subscriber has folded; `used` ids handed out | one per command; `BatchBegin`, `Stage*`, `BatchCommit`, `BatchFail`; `Fire` |
| `LayoutTree` | `layout.rs` | `tree`, `zoom`, and `leaves`, the same layout according to `LayoutLeaves` | `DoSplit`, `DoRemove`, `DoResize`, `DoSwap`, `DoZoom` |
| `EventLog` | the promise of `events.watch` | `log`, `cursor`, `got`, `missed` | publish, advance |
| `EventBus` | `bus.rs`, `rpc/events.rs` | the log, the ring's oldest seq, one watcher's call | `Publish`; `Subscribe`, `ReadHead`, `Snapshot`, `Recv`, `Answer` |
| `PanePty` | `pane_spawn.rs`, `pane_io.rs`, `program_status.rs`, kill and shutdown | the pane in the graph, the pane in `PaneIoState`, spawners, tasks and children by incarnation, status writes in flight, the kill, the shutdown | one per graph command or hold of the lock |
| `PaneLife` | what a waiting call can see of a pane | the pane in the graph, its events, its I/O state | spawn, exit, kill, events, teardown |
| `WaitExit` | `rpc/wait_exit.rs` | one call | the handler's looks, receives and deadline |
| `WaitCommand` | `rpc/wait_command.rs`, `commands.rs` | the terminal's record of commands; one call | a command's start and end; the handler's two looks, its sleep and deadline |
| `Settle` | `settle.rs` (both), the handler in `rpc/pane_io.rs` | the frame and the time of each revision, the clock; one call | output, the clock; the steps of the quiet loop and of the stability loop |
| `PaneWaits` | one call of any of the three methods | `method` | - |
| `PaneInput` | `pane_input.rs`, framing in `attach.rs` and `pane_io.rs`, `PtyInputQueue` | permits, waiting senders, the open paste, the channel, what the PTY task holds, what the program has read | reserve, give up, send, detach; receive, write, reply, close |
| `Recordings` | `pane_record.rs` | the registry, each start, open task, channel, writer, outcome; the files; each pane's PTY task; the shutdown | one per hold of the registry lock or the io lock, one per step of a task |
| `LensScratch` | `lens_scratch.rs`, the scratch side of `session.kill` | process groups, the registry file, the daemon's phase, rows, quota, each run, reaper, killer and kill sequence | one per hold of the registry lock, per probe and per signal; `Crash` |
| `Grid` | `grid.rs`, one screen buffer | - | operators from a buffer to a buffer |
| `Terminal` | `lib.rs`, `parser.rs`, `screen.rs`, `sync.rs` of `shux-vt` | `vt` the terminal, `batch` what a batch read before parsing; what the renderer has drawn and what was last on show | one per control function; `BeginBatch`, `EndBatch`, resize, render, timeout |
| `SyncOutput` | the promise of synchronized output | `open`, `frame`, `history` | draw, begin, hide |

How the code corresponds:

- *Session graph.* The code clones the snapshot, edits the clone and swaps it
  in; `With*(G, ...)` is the edited clone, `Commit` the swap and the list of
  events. The code has the creating operations twice (a command and a staging
  function); the model has one `With*` for both and a guard for each. A
  refused command changes nothing and is no step; `expected_version` only
  refuses. Tags, themes, titles of panes, commands and directories are data no
  property reads, their setters keep their version stamps (`UpdateSession`,
  `UpdatePane`). Of a layout the graph keeps the order of its leaves, its zoom
  and one of two settings of its ratios (`Ratios`), so that a resize changes
  something. `create_pane` adds a pane that no layout shows; it is public
  but only tests call it, and it is left out: with it, destroying a window's
  only shown pane would focus the destroyed pane.
- *Layout.* An `f32` ratio is an exact fraction and `round` is exact, so the
  model does not see a tie that an `f32` product breaks the other way. The
  leaf order that `SessionGraph` assumes is an invariant here (`LeavesAgree`).
- *Event bus.* `publish` assigns the seq, pushes and broadcasts under one
  lock: one step. A watcher changes nothing in the bus, so one stands for all.
  A topic says whether the call's filter and scope admit the event.
- *Pane.* Panes share the graph task, the lock and the shutdown, and nothing
  that a spawn or a kill of another pane changes, so one pane stands for all.
  An incarnation is a forked child with its terminal and task. What the code
  does between two awaits under no lock and no command is local and is folded
  into the next step. `Stopped` covers the three ways a task learns of a
  teardown: its token, the daemon's token, its dropped channels. A program's
  terminal may close while the child lives on, so `LeaveLoop` is also free.
  The status channel's `committed` watermark is replaced by what it stands
  for: a value is sent while it is newer than the graph's and than what is in
  flight; a resent duplicate is refused by the graph and changes nothing.
- *`pane.wait_exit`.* Modules `PanePty` and `EventBus` model the pane's life
  and the bus in full; `PaneLife` keeps of them what the call can read. The
  graph commits an exit or a removal and fires the event in a later step; both
  rings forget. `late` remembers that the program had ended before the call.
- *`pane.wait_command`.* A command is its start stamp. `told` remembers every
  command that ended, also those the ring has dropped. The `commands_ended`
  watch only ends a sleep earlier than `WAIT_REPOLL`, so a sleep may end at any
  time. No caller starts a second program in a pane, so the answer `respawned`
  is left out.
- *`pane.wait_settled`.* A frame's hash is the frame under its masks. The clock
  is a counter that may advance between any two steps, so every wake may be
  late; ready arms of `select!` are taken in either order. Re-subscribing finds
  no publisher, since a terminal that went does not come back.
- *Pane input.* A permit, a byte and a slot are counted; `ChunkCost` is the
  charge the code adds to every chunk. A caller larger than the budget pays
  the whole of it (`Budget::cost`). A byte of text knows the paste it belongs
  to, so that what the program reads can be judged. `Semaphore` permits go to
  waiters in the order they came; that is tokio's, and marked external.
- *Recordings.* A chunk is its number. The pane runs one program, since no
  caller of the daemon respawns a pane. A start looks at the pane under the io
  lock (`Ask`), lets go of it, awaits the path and only then reserves (`Reserve`),
  so it may reserve for a pane whose recordings have been ended already; the
  second look (`Commit`, `CommitRefused`) is what covers that, and without it
  `NoneOutlives` fails. A path names a file and two paths may
  name one; the check by device and inode is `FileTaken`.
- *Lens scratch.* The kernel's groups are part of the state: a group id may be
  reissued when its group is gone, always to a group that has its leader (a
  scratch's own group may outlive its leader). Two races are
  assumed away, as the code must: an id is not reissued between the fork and
  the reading of its start token, nor between a token check and its signal.
  `Crash` may come between any two steps and keeps the file and the groups.
- *Terminal.* The byte stream is parsed already: a control function is one
  step. A cell is what it shows; the joining of grapheme clusters is kept,
  because it changes widths. A window of synchronized output freezes the grid,
  the cursor and the colours one by one, each when first written
  (`PutGrid`, `PutCursor`, `PutColor`). `drawn` and `calm` are history
  variables for the renderer and for the reader of revisions.

## 3. What TLC checks

| Run | Instance | Shows |
|---|---|---|
| `session_graph` | 2 sessions, 3 windows, 4 panes (symmetric), 2 names, 2 titles, 3 panes per session, 2 settings of the ratios, 6 commits; 377,280 states | `Hierarchy`; `FocusOnScreen`; `NamesUnique`; `CatchesUp` of a subscriber; `VersionStamps` |
| `layout_tree` | all layouts of up to 4 panes, ratios at both clamps and even, viewports from 0 to 7 columns; 1,891 states | leaves as assumed; no overlap; arrow keys reach every pane; `fitted` is smallest |
| `event_bus` | ring of 3, channel of 2, 6 events, answers of at most 2, with and without a start; 127,805 states | nothing is received twice; `EventBus` implements `EventLog`; every wanted event ahead of a client is received or announced |
| `pane_pty` | a creating call, an attach client that comes back at will, 2 forks, 3 status generations, one kill, one shutdown; 2.7 million states | one program, final exit, agreeing status, nothing installed after the drain or after a kill |
| `pane_pty_live` | the same with 1 generation beyond the forks' own | every spawn returns; a killed pane's program ends |
| `terminal_edits` | a screen of 2x3 resized to 3x2 and 1x4, one line of scrollback, narrow and wide characters, a regional indicator and a joiner, 37 kinds of input, 4 steps; 2.0 million states | no half characters; dirty regions cover every change; a reflow keeps the text |
| `terminal_screens` | 2x2 resized to 1x2, both screens, synchronized output, colours, a flooded window, reset, 5 steps; 1.8 million states | a recycled buffer is blank; another screen or a changed frame has a new revision; `Terminal` implements `SyncOutput` |
| `recordings` | a `pane.record.start` and one that is also `lens.run`'s cast, on one pane, two names of one file, a channel of 1, 2 chunks; 792,000 states | reported complete means complete; one writer per file; a recording ends with its pane and leaves nothing after the drain; all that must end does |
| `lens_scratch` | 2 runs and an inherited row that does not parse, quota 2, 2 group ids, 1 crash; 3.9 million states | no program forgotten but by a task that gave up or a daemon that died; quota; every row has a keeper; no other group signalled; rows dropped only when their group is gone and audited once |
| `pane_waits` | rings of 2 and 1, 4 events, 2 spawns, with and without a deadline; a ring of 1 command, 6 stamps; 3 revisions of 2 frames, a clock to 4, quiet periods with and without slack, a hold, a run of 3, both; 504,254 states | what `wait_exit`, `wait_command` and `wait_settled` answer is true; every call is answered |
| `pane_input` | 2 clients that paste and type, a caller larger than the budget, 1 slot; 918,000 states | the queue is bounded; nobody waits beside room; pastes arrive in one piece |

Most modules also state a type invariant; TLC finds it true on the same
instances, and those of `SessionGraph`, `PanePty`, `LensScratch` and
`Recordings` are proved.

The bounds. Six commits reach every pair of operations on a session with two
windows and a split one, including a batch that fills a session up; every
command is enabled well before the last one. Four panes are the fewest with
two nested splits of one direction beside another. A ring of 3 against a
channel of 2 lets each be the first to lose an event. Two forks are the fewest
in which a failed or discarded child is followed by a successful one, and a
spawn needs no third to race. In `terminal_edits` every two control functions
can follow a cell pair, a wrap or a resize; three columns are the fewest where
a wide character has a neighbour on either side; five steps of
`terminal_screens` are a window opened, a change, a swap, its return and a
close. Two recordings under two names of one file and a channel of one make
every reader wait and every second start conflict. A quota of 2 against two
runs and an inherited row makes a reservation fail. One crash is enough for
the next daemon to find each state of a row; the row that only an earlier
daemon could have left is in the initial file. In `pane_waits` four events push
the pane's own out of both rings, three commands overrun a ring of one, and
three revisions are a frame, another and the first again. In `pane_input` a client's byte fits the
budget with its markers and a caller's input does not.

`CHECK_DEADLOCK FALSE` is used where the system stops: at a bound (the graph,
the terminal, the pane's input), when the daemon has exited (the pane, the
recordings), when a call has its answer, and when every scratch is reaped.

Fairness. `EventBus!LiveSpec`: a call's own steps run (the handler has a
deadline of at most 30 s) and the client calls again; receiving an event is
not assumed. `PanePty!LiveSpec`: the runtime polls every ready task, so a
spawn that can step does (a fork either fails or succeeds), a stopped PTY task
runs to its end, and a kill that has begun goes on (kills are registered to
run to completion). Nothing is assumed of the program, of attach clients, of
the status publisher or of the shutdown. `Recordings`: opens return and files
take or refuse a write, the open, writer and supervisor tasks and the PTY task
that holds a chunk run, a caller that has its prepared recording commits or
drops it, and the time that a finished recording is kept runs out; nothing is assumed of stops, kills or the shutdown. `PaneWaits`:
a handler is polled, the graph task fires what it has committed, a spawn
returns, and time passes for `wait_settled` and `wait_command`; the deadline of
a `wait_exit` need never pass. A terminal that changes at every look of the
quiet loop would keep it looking; the bound on revisions excludes that.

## 4. Where the code and its comments disagree

`kill_reaches` has a run that TLC must find violated: a pane added between the
reading of the panes and the destruction of its session or window keeps its
program. `PROJECT.json` quotes both sides.

Others met while modelling, which no run states. The models follow the code.

- *Versions.* Splitting or destroying a pane changes the layout but not the
  versions of the window's other panes. The comment of `swap_panes`
  (`graph.rs:2177`) relies on "any layout op in the window bumps every pane's
  version". `VersionStamps` asks it (`SiblingsStamped`) of the operations that
  rearrange the panes a window has, resize, swap, zoom and a focus that ends a
  zoom, and of no other.
- *Resize.* `resize_pane` moves the outermost split of its direction on the
  way to the pane; its comment (`layout.rs:340`) says the nearest.
- *Gap.* Resuming from seq 0 reports a gap of 1 with nothing lost
  (`bus.rs:152`); the comment (`bus.rs:293`) says a gap means events aged out.
- *Shutdown.* A pane destroyed during its spawn is torn down by the spawn,
  which drops the receivers (`pane_spawn.rs:1236`); a shutdown does not wait
  for that task, though `daemon_boot.rs:133` says it waits for all.
- *Rollback.* A rolled back creation leaves the program that an attach has
  started in its pane meanwhile (`rpc/session.rs:189`).
- *Revision.* `process_with_responses` compares the write tallies of whichever
  grid is live before and after a batch (`shux-vt/src/lib.rs:973`). A batch
  that leaves the alternate screen and enters it again compares two different
  buffers, and if their tallies agree the frame changes without a new
  revision. A window that closes by its byte limit shows a hidden change of
  colour without one. `RevisionCovers` therefore leaves out colours, and what
  the screen shows after any batch or window in which the screens were swapped,
  which is more than these two cases; which of the two screens is on show it
  asks of every batch.
- *History.* A frame frozen on the alternate screen is said to have no history
  to read (`shux-vt/src/lib.rs:1080`); after the alternate screen has lost
  rows it has. `HoldsFrame` looks at the history of the primary screen. A
  resize that only takes rows leaves more scrollback than the limit until the
  next scroll.
- *Lens.* The missing group id that `lens_scratch.rs` calls unreachable is
  reached by a `session.kill` between the installation of the pane and the
  reading of the id; the rollback handles it. "Every failure path inside rolls
  back completely" (`lens_scratch.rs:1888`) is true of the reservation and the
  session, which it names: the program of a run that failed is left to its PTY
  task, and if that task gives up on the group (`pane_spawn.rs:616`) no row
  records it. `GroupsKnown` names this case as an exception. For a row without
  a start token, `startup_reap`'s decision table (`lens_scratch.rs:808`), the
  comments at `:588`, `:2021` and `:3488` and `docs/tasks/077-shux-lens.md:777`
  speak of a "liveness-only fallback": a live group would be signalled. The
  kill sequence never signals such a group and keeps its row
  (`lens_scratch.rs:1210`), as the test at `:2509` wants it. The model follows
  the code, and `SparesOthers` would fail of the fallback the comments
  describe.
- *Settling.* In stability mode a revision, or the removal of the pane, that is
  ready together with the hold deadline may lose against it in the unbiased
  `select!` (`settle.rs:314`): the answer is then "settled" with a newer frame
  on the screen, or with no pane, though the comments there and at `:232` say
  "never settle on a dead pane", the one at `:251` rules out settling on a frame
  "that no longer matches the pane", and `shux-vt/src/settle.rs:51` says that a
  change resets the hold. `SettlesTruly` does not
  ask what the code does not do: in stability mode it is about the revisions
  that the loop was given (`StoodStill`, `NothingGivenMissed`). In quiet mode,
  where the answer comes from one look, it is about the screen at that moment
  (`QuietTruly`). There the clock
  is read twice (`rpc/pane_io.rs:1250` and `:1268`); if the deadline passes
  between, the answer is a timeout although the quiet period may end with it,
  which `settle.rs:66` says must settle.
- *Input.* A pane's open paste is forgotten when the program turns paste mode
  off; a program that turns it on again mid-paste can read an end marker that
  has no start. `PasteKept` is about programs that stay in paste mode. A
  program that keeps asking the terminal for replies keeps them ahead of input.

What the models have and no property asks: that a batch cannot take a session
past its pane limit (`HasCapacity`), that every event comes after the one that
created what it is about (`CatchesUp` looks when all have been fired), and that
the control lane of a pane's input always has room for a report.

## 5. What is proved

Every theorem is about `Spec` of its module, holds for every value of the
constants that satisfies the module's named assumptions, and is checked down
to its last leaf. Nothing else is assumed. The assumptions say that capacities
and bounds are natural numbers (positive where the code's constants are), that
requests are of the kind the code accepts, and that `None` is none of the
values it stands in for; `ChunkCostAssumption` says that the fixed charge of a
chunk covers the markers and is less than the budget, `OpaqueAssumption` that
what an earlier daemon left in the registry fits the quota that daemon had
too. TLC evaluates all of them in the runs. The bounds of the runs
(`MaxVersion`, `MaxInc`, `MaxEvents` and so on) are constants of the theorems
like any other, so what is proved holds however large they are.

| Module | Theorems |
|---|---|
| `SessionGraphProofs` | `TypeCorrect`, `HierarchyHolds`, `FocusOnScreenHolds`, `NamesUniqueHolds`, `CatchesUpHolds`, `VersionStampsHolds` |
| `EventBusProofs` | `NeverTwiceHolds`, `ImplementsLog` |
| `PanePtyProofs` | `TypeCorrect`, `OneProgramHolds`, `StatusAgreesHolds`, `NothingAfterDrainHolds`, `KilledLeavesNothingHolds`, `ExitIsFinalHolds` |
| `PaneWaitsProofs` | `AnswersTrulyHolds`, `SettlesTrulyHolds`, `CommandTrulyHolds` |
| `PaneInputProofs` | `PasteKeptHolds`, `BudgetExactHolds` |
| `RecordingsProofs` | `TypeCorrect`, `LosslessHolds`, `FileIntactHolds`, `NoneOutlivesHolds` |
| `LensScratchProofs` | `TypeCorrect`, `GroupsKnownHolds`, `EveryRowHeldHolds`, `QuotaHeldHolds`, `SparesOthersHolds`, `DroppedWhenGoneHolds` |
| `TerminalProofs` | `TypeOKHolds`, `WidePairsHolds`, `DirtyCoversHolds`, `SpareBlankHolds`, `RevisionCoversHolds` |

Each module has an inductive invariant (`IInv`, or `Inv`), a lemma per action
that it is kept, and the theorems as consequences. TLC checked each of them on a small
instance before it was proved. What the invariants add to the properties is
the reason why the properties hold:

*`SessionGraphProofs`.* `Hierarchy` is not inductive: that a fresh window is in
no session, and a fresh pane in no layout, has to be known before it is added,
and a batch's clone has to be good before it is committed. `IInv` says that
every snapshot the graph task holds is well typed and a forest (`Good`), that
all its ids are in `used`, and what a batch record looks like. One lemma per
`With*` operator shows that it keeps `Good`; they rest on two lemmas about
replacing one session or one window record, and on the lemmas at the start of
the module: what inserting, removing and swapping do to the elements and the
injectivity of a sequence of leaves. A second invariant `TInv` adds that every snapshot is
`Tidy` (focus on screen, names unique) and that the clone of a batch is the
published graph or later than it (`Later`): each of its versions is at least
as large, and larger where the entity differs. So a batch that is committed in
one step is as good a step as the commands it is made of, which is what
`VersionStamps` needs. For `CatchesUp` a third invariant, `CInv`, says that the
events still to fire take what the subscriber has seen to the published graph,
and the events a batch has staged take the graph to the batch's clone. That
folding two sequences of events one after the other is folding the one that
joins them is the induction it rests on.

*`EventBusProofs`.* The refinement maps a finished answer to one advance of the
reader of `EventLog`, and every other step of a call to a stutter; the hard
part is that the answer skips nothing it does not announce, though the ring
and the channel lose events while the call runs. `IInv` has four parts: types;
`Bounds`, no position of a call is past the head of the log; `Behind`, what
the client has received lies behind its cursor; `Call`, every wanted event the
call has gone past, or that precedes one it has collected, is collected or
within the gap it will report. An answer that is cut to its limit resumes after
the last event it holds, so `LastIsMax` and `SmallestIsLower` say what the
last and the first of a finite set of seqs are.

*`PanePtyProofs`.* The argument is about what a spawn in flight still knows.
Its early return has only seen that nothing is installed; `Fresh` says how the
ticket, the two looks at the shutdown and the claim in the graph turn that
into "no program was ever started" by the time it installs. `Tickets` makes
the spawn past its early return unique, `Kills` says that a kill has removed
the pane from the graph before it tears it down and whose incarnation is
installed until the recheck, `Exits` and `Status` that an exit comes from a
task that has sealed its terminal and that no status in flight is newer than
the terminal's.

*`PaneWaitsProofs`.* The three calls share the pane and nothing else, so each
has an invariant of its own. For `pane.wait_exit`, `LogTrue` relates the log to
the pane (an exit that is told is the recorded one and precedes the removal;
what is recorded is told or about to be), and `Ahead` says that a call that
will not read the snapshot again still has the exit ahead of its subscription.
For `pane.wait_command`, `Boundaries` says that the ring holds the last of the
commands that ended, in order, and `dropped` the last one forgotten; the
existence of a first command after the floor comes from the well-foundedness
of the naturals. For `wait_settled`, `FrameTrue` says that the run and the
time of the last change that the stability loop keeps cover every revision up
to the one it compares, also those that the watch coalesced.

*`PaneInputProofs`.* `PasteKept` is about what the program reads, and the
framing decides it when the bytes are queued, with an unknown number of chunks
before them. `Stream` therefore says of all that waits that each chunk is well
framed and may follow the one before it, `Reading` that the program is where
the first chunk begins or goes on, `Opened` that the paste the daemon believes
open is the one in which all that waits will leave the program, `Since` that a
paste framed since paste mode was last left finds the program in it still, and
`KeepsReplies` that the PTY task knows when the program is in a paste. `Fits`
is what a chunk must satisfy to be queued, `Push` that it is enough; the three
framing functions are shown to satisfy it. Types need that no permit is
overdrawn, which `SettleEffect` shows of the semaphores: `Served` picks a
longest prefix of the line that the permits are enough for, and `NeedSums` and
`ServedSome` prove that the recursive function it is defined by is what it
says and that there is such a prefix. They use induction over the naturals in
the form that the provers can use: a set that holds 0 and with each number the
next holds them all (`Induct`, from the well-foundedness of `<`).
`BudgetExact` has an invariant of its own, `Ledger`: every byte of the budget
is free, reserved by a sender or held by a chunk, and every slot likewise;
whoever is first in line could not be served (`Pressed`); and a chunk holds at
least what is still to write of it, markers included (`Covered`). Who holds
bytes is kept as a roll, a sequence that names each of them once, so that a sum
over senders is a sum over a sequence; the ledger only says that there is such
a roll, and each action is shown to have one: a sender joins it, leaves it, or
hands its bytes to a chunk, and `Settle` adds the senders it serves.

*`RecordingsProofs`.* `Flow` is the account of a recording's chunks: what was
admitted is in the file, in the channel or in the hands of the PTY task,
unless the writer failed or the outcome says a chunk was dropped. It needs
`Admissions` (a chunk on its way belongs to a started recording of its own
pane, whose writer has not ended), `Ended` (a writer ends when nobody can send
to it, and nobody can from then on), `Stages` (the start, the open, the entry
and the writer go through their stages together) and `Verdicts`. `Holders`
says that no file is open for two recordings, under whatever names, from the
check of the open file until the writer ends.

*`LensScratchProofs`.* `Owners` and `Verdicts` say that a scratch has at most
the group its program was started in and that what is said to be gone is gone,
though ids are reissued; `Runs` and `Books` how the registry in memory, the
file and the two passes of the startup reap agree in each phase of the daemon,
a crash included; `Claims` that a row is claimed by one, who audits it once;
`Slots` that `reserved` is the number of calls of `lens.run` that hold a slot,
which together with the rows are at most the quota.

*`TerminalProofs`.* A control function is a chain of calls, so the proof
follows the calls and not the actions. Each write to a buffer is an edit
(`Onto`): the buffer keeps its shape, no row shows half of a character, the
tally of writes grows or the text is the same (`Later`), and every cell that
changes or was marked is marked (`Dirties`). What a control function does to
the screen is a chain of such edits and motions (`Draws`), and `Feeds` adds the
swaps, the windows and the reset; both compose, so `ControlInv` has one case
per control function and each is a few lines. A reflow is followed row by row
and character by character (`JoinRowType`, `PlaceCellType`, `LayStepType`); the
functions recursive over the rows exist by `RecursionExists`. `Inv` is made of
`Good` (types, the parked buffer exactly while the alternate screen is live,
nothing frozen outside a window, and an alternate or retired buffer without
writes is blank), `Covers` (`DirtyCovers`) and `Accounted`: since the calm moment a change is
counted, waits for the end of its window (`hidden`), or will be seen by the end
of its batch, because the batch knows where it began (`Tracks`); `Sided` says the same of which screen is live. `SpareBlank`
needs that the tally of the live alternate screen can be trusted before it is
retired, `RevisionCovers` what a batch in progress knows, and `DirtyCovers`
that a buffer frozen in mid-batch takes its marks with it.

Only model-checked:

- liveness (`NothingStranded`, `EveryCallReturns`, `KilledIsReaped`, `Settles`,
  `EveryCallAnswered`), which is out of the prover's reach;
- `LayoutTree`: it is recursive over trees with RECURSIVE operators, which
  take the SMT backend away;
- of `Terminal`, `ResizeKeepsText`, which compares the text of two layouts as
  whole sequences and needs an induction over their contents, and `HoldsFrame`,
  the refinement of `SyncOutput`, which needs besides `Inv` an account of the
  scrollback that a frozen frame still refers to while lines are evicted.

## 6. Plan

Done: the graph, the layout, the bus with its watcher, the pane's life, the
waits for its exit, its commands and a still screen, its input, its recordings
and its terminal, scratch sessions with crashes, two abstract specifications,
one of the two refinements proved, and the theorems above, among them every
safety invariant of the runs but those of `LayoutTree`. Next, in this order:

1. `PaneCommand`: `pane.run`, one command per pane, its end, its timeout, a
   pane that goes; and `pane.wait_status`, the last of the waiting calls.
2. `RpcConnection`: handlers dropped on disconnect, or run to completion.
3. The plugin host: handshake, timeouts, restarts.

## 7. Not modelled, and why

The byte-level parser of the terminal and the rasteriser are sequential
functions of large inputs with test corpora of their own; colours, attributes,
character sets, images, titles, tabs and replies change nothing the terminal's
properties tell apart. Rendering, key handling and copy mode are presentation
of one client. Policies, short ids, templates, configuration parsing, the gate
and the command line keep no shared state. PTY handles and the instance lock
are system calls; their effect on a pane is in `PanePty`. `pane.run`,
the RPC server and the plugin host keep state and are in the plan. Most of the
repository's lines are tests, formatting, parsing and rendering, so the map
covers a small share of them.
