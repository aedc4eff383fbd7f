----------------------------- MODULE Recordings -----------------------------
(***************************************************************************)
(* Pane recordings (pane_record.rs): the registry behind pane.record.* and *)
(* the lens.run cast recorder.                                             *)
(*                                                                         *)
(* A start checks its pane, reserves pane and path, opens the file in a    *)
(* task of its own, and is committed by its caller.  From then on every    *)
(* chunk the PTY task reads is admitted to the recording's bounded         *)
(* channel; a writer task empties the channel into the file, and a         *)
(* supervisor publishes the outcome.  Stops, the end of the pane, a kill,  *)
(* a caller that goes away, failing files and daemon shutdown race with    *)
(* all of this.  Each action below is what one hold of the registry lock,  *)
(* or of the pane I/O lock, does.                                          *)
(***************************************************************************)
EXTENDS Naturals, Sequences, FiniteSets

CONSTANTS
  Recs,       \* recording ids
  Panes,
  Paths,
  Files,
  Asks,       \* what each is asked for: a pane, None for lens.run's, and a path
  FileOf,     \* the file each path names: two names may be one file
  Channel,    \* PANE_RECORD_CHANNEL_CAPACITY
  MaxReads,   \* bound: chunks read by a PTY task
  None

ASSUME FileOfAssumption == FileOf \in [Paths -> Files]
ASSUME ChannelAssumption == Channel \in Nat \ {0}
ASSUME MaxReadsAssumption == MaxReads \in Nat

\* A recording in the registry
Entry == [pane : Panes \cup {None}, path : Paths, file : Files \cup {None},
          phase : {"reserved", "accepting", "stopping", "finalized"}, cancelled : BOOLEAN,
          sink : BOOLEAN]

\* A request: the pane, None for lens.run's, and the path
Request == (Panes \cup {None}) \X Paths

ASSUME AsksAssumption == Asks \in [Recs -> SUBSET Request]

ASSUME NoneAssumption == None \notin Panes \cup Files \cup Entry

VARIABLES
  entries,    \* the registry: an entry for each recording, or None
  admitting,  \* new recordings are taken
  start,      \* each start request: what its caller waits for or holds
  ask,        \* what a start that has no reservation yet asks for
  opening,    \* the task that opens the file: "idle", "opening" or "opened"
  chan,       \* chunks between the PTY task and the writer
  writer,     \* "none", "running", "ended" or "failed"
  outcome,    \* what pane.record.wait reports
  files,      \* the contents of the files
  current,    \* the pane has its I/O state: installed and not torn down
  task,       \* the pane's PTY task: a pane runs one program
  tee,        \* the recordings its chunk has still to be sent to
  reads,      \* chunks it has read
  down,       \* daemon shutdown: "no", "cancelled", "closed", "draining", "clean" or "late"
  owed,       \* history: the chunks admitted to each recording
  written     \* history: the chunks its writer put in its file

regVars == <<entries, admitting, start, ask, opening>>
flowVars == <<chan, writer, outcome, files, written>>
paneVars == <<current, task, tee, reads, owed>>
vars == <<regVars, flowVars, paneVars, down>>

Cancelled(p) == down # "no" \/ ~current[p]

(***************************************************************************)
(* The registry                                                            *)
(***************************************************************************)

Known(r) == entries[r] # None
Live(r) == Known(r) /\ entries[r].phase # "finalized"
Accepting(r) == Known(r) /\ entries[r].phase = "accepting"
Remove(r) == entries' = [entries EXCEPT ![r] = None]

NewOutcome == [status |-> "recording", ended |-> None, finalized |-> FALSE]

Init ==
  /\ entries = [r \in Recs |-> None] /\ admitting = TRUE
  /\ start = [r \in Recs |-> "idle"] /\ ask = [r \in Recs |-> None]
  /\ opening = [r \in Recs |-> "idle"]
  /\ chan = [r \in Recs |-> <<>>] /\ writer = [r \in Recs |-> "none"]
  /\ outcome = [r \in Recs |-> NewOutcome]
  /\ files = [f \in Files |-> <<>>]
  /\ current = [p \in Panes |-> FALSE] /\ task = [p \in Panes |-> "none"]
  /\ tee = [p \in Panes |-> {}] /\ reads = [p \in Panes |-> 0]
  /\ down = "no"
  /\ owed = [r \in Recs |-> <<>>] /\ written = [r \in Recs |-> <<>>]

\* pane_takes_input: the PTY task closes its input before it ends recordings.
TakesInput(p) == current[p] /\ task[p] = "reading"

\* The first look of pane.record.start, under the io lock.  The cast recorder
\* of lens.run has no pane yet.
Ask(r, pane, path) ==
  /\ start[r] = "idle"
  /\ pane # None => TakesInput(pane)
  /\ start' = [start EXCEPT ![r] = "asked"]
  /\ ask' = [ask EXCEPT ![r] = <<pane, path>>]
  /\ UNCHANGED <<entries, admitting, opening, flowVars, paneVars, down>>

\* prepare, once path_key has returned: reserve and start the open task, under
\* the registry lock alone.  The pane may have ended since the look.
Reserve(r, pane, path) ==
  /\ start[r] = "asked" /\ ask[r] = <<pane, path>> /\ admitting
  /\ ~ \E o \in Recs : Live(o) /\ pane # None /\ entries[o].pane = pane
  /\ ~ \E o \in Recs : Live(o) /\ entries[o].path = path
  /\ entries' = [entries EXCEPT ![r] =
       [pane |-> pane, path |-> path, file |-> None, phase |-> "reserved", cancelled |-> FALSE,
        sink |-> FALSE]]
  /\ start' = [start EXCEPT ![r] = "waiting"]
  /\ ask' = [ask EXCEPT ![r] = None]
  /\ opening' = [opening EXCEPT ![r] = "opening"]
  /\ UNCHANGED <<admitting, flowVars, paneVars, down>>

\* Until then a start leaves nothing behind: refuse_early, path_key or the
\* reservation refuses it, or its caller goes away.
AskFails(r) ==
  /\ start[r] = "asked"
  /\ start' = [start EXCEPT ![r] = "idle"]
  /\ ask' = [ask EXCEPT ![r] = None]
  /\ UNCHANGED <<entries, admitting, opening, flowVars, paneVars, down>>

\* A start that is not taken is answered, and its reservation is gone.
Refuse(r) ==
  /\ Remove(r)
  /\ opening' = [opening EXCEPT ![r] = "idle"]
  /\ start' = [start EXCEPT ![r] = "over"]
  /\ UNCHANGED <<admitting, ask, flowVars, paneVars, down>>

\* open, while the opener runs: it fails, or its file is another live
\* recording's under another name, or the entry takes the file.
OpenFails(r) == opening[r] = "opening" /\ Refuse(r)

\* Mutant: two names are taken for two files
FileTakenByName(r) == \E o \in Recs \ {r} : Live(o) /\ entries[o].path = entries[r].path

FileTaken(r) ==
  \E o \in Recs \ {r} : Live(o) /\ entries[o].file = FileOf[entries[r].path]

OpenFindsTaken(r) == opening[r] = "opening" /\ FileTaken(r) /\ Refuse(r)

OpenTakesFile(r) ==
  /\ opening[r] = "opening" /\ ~FileTaken(r)
  /\ entries' = [entries EXCEPT ![r].file = FileOf[entries[r].path]]
  /\ opening' = [opening EXCEPT ![r] = "opened"]
  /\ UNCHANGED <<admitting, start, ask, flowVars, paneVars, down>>

TruncateFails(r) == opening[r] = "opened" /\ Refuse(r)

\* The rest of open: empty the file, start writer and supervisor, hand the
\* caller its Prepared.  A caller that went away drops it instead.
Launch(r) ==
  /\ opening[r] = "opened"
  /\ files' = [files EXCEPT ![entries[r].file] = <<>>]
  /\ writer' = [writer EXCEPT ![r] = "running"]
  /\ opening' = [opening EXCEPT ![r] = "idle"]
  /\ IF start[r] = "waiting"
     THEN start' = [start EXCEPT ![r] = "prepared"] /\ UNCHANGED entries
     ELSE entries' = [entries EXCEPT ![r].phase = "stopping"] /\ UNCHANGED start
  /\ UNCHANGED <<admitting, ask, chan, outcome, written, paneVars, down>>

\* The caller's future is dropped: before it has its Prepared, or with it
\* (Drop for Prepared).
Abandon(r) ==
  /\ start[r] \in {"waiting", "prepared"}
  /\ start' = [start EXCEPT ![r] = "over"]
  /\ entries' = IF start[r] = "prepared" /\ Known(r)
                THEN [entries EXCEPT ![r].phase = "stopping"] ELSE entries
  /\ UNCHANGED <<admitting, ask, opening, flowVars, paneVars, down>>

\* Prepared::commit, under the io lock
Commits(r, p) ==
  /\ admitting
  /\ ~ \E o \in Recs \ {r} : Live(o) /\ entries[o].pane = p
  /\ Known(r) /\ entries[r].phase = "reserved" /\ ~entries[r].cancelled

Committed(r, p) ==
  [entries EXCEPT ![r].pane = p, ![r].sink = TRUE, ![r].phase = "accepting"]

\* Mutant: the look before the reservation is taken to be enough
CommitUnchecked(r) ==
  LET p == entries[r].pane
  IN  /\ start[r] = "prepared" /\ Known(r) /\ p # None
      /\ Commits(r, p)
      /\ entries' = Committed(r, p)
      /\ start' = [start EXCEPT ![r] = "started"]
      /\ UNCHANGED <<admitting, ask, opening, flowVars, paneVars, down>>

\* pane.record.start looks at the pane again and commits under one lock.
Commit(r) ==
  LET p == entries[r].pane
  IN  /\ start[r] = "prepared" /\ Known(r) /\ p # None
      /\ TakesInput(p) /\ Commits(r, p)
      /\ entries' = Committed(r, p)
      /\ start' = [start EXCEPT ![r] = "started"]
      /\ UNCHANGED <<admitting, ask, opening, flowVars, paneVars, down>>

\* Anything else drops the Prepared.
CommitRefused(r) ==
  /\ start[r] = "prepared" /\ Known(r) /\ entries[r].pane # None
  /\ ~(TakesInput(entries[r].pane) /\ Commits(r, entries[r].pane))
  /\ Abandon(r)

(***************************************************************************)
(* Ending (Recordings::end): a reservation is cancelled, an accepting      *)
(* recording loses the registry's sender.                                  *)
(***************************************************************************)

\* Mutant: the registry keeps its sender
EndKeepingSender(some, cause) ==
  /\ entries' = [r \in Recs |->
       IF r \in some /\ Accepting(r) THEN [entries[r] EXCEPT !.phase = "stopping"] ELSE entries[r]]
  /\ UNCHANGED outcome

End(some, cause) ==
  /\ entries' = [r \in Recs |->
       IF r \notin some \/ ~Known(r) THEN entries[r]
       ELSE IF entries[r].phase = "reserved" THEN [entries[r] EXCEPT !.cancelled = TRUE]
       ELSE IF entries[r].phase = "accepting"
       THEN [entries[r] EXCEPT !.phase = "stopping", !.sink = FALSE]
       ELSE entries[r]]
  /\ outcome' = [r \in Recs |->
       IF r \in some /\ Accepting(r) /\ ~outcome[r].finalized /\ outcome[r].ended = None
       THEN [outcome[r] EXCEPT !.ended = IF down # "no" THEN "daemon_shutdown" ELSE cause]
       ELSE outcome[r]]

OfPane(p) == {r \in Recs : Known(r) /\ entries[r].pane = p}

\* pane.record.stop; a requested length and an owner's connection closing end
\* a recording the same way, under a cause of their own.
Stop(r) ==
  /\ Known(r)
  /\ End({r}, "stop")
  /\ UNCHANGED <<admitting, start, ask, opening, chan, writer, files, written, paneVars, down>>

(***************************************************************************)
(* The writer and its supervisor                                           *)
(***************************************************************************)

\* A chunk is on its way to the recording: its admission holds a sender.
Admitted(r) == \E p \in Panes : r \in tee[p]
Senders(r) == (Known(r) /\ entries[r].sink) \/ start[r] = "prepared" \/ Admitted(r)

WriteChunk(r) ==
  /\ writer[r] = "running" /\ chan[r] # <<>>
  /\ chan' = [chan EXCEPT ![r] = Tail(@)]
  /\ files' = [files EXCEPT ![entries[r].file] = Append(@, Head(chan[r]))]
  /\ written' = [written EXCEPT ![r] = Append(@, Head(chan[r]))]
  /\ UNCHANGED <<regVars, writer, outcome, paneVars, down>>

\* A failed write or flush, or a panic: the channel goes with the writer.
WriterFails(r) ==
  /\ writer[r] = "running"
  /\ writer' = [writer EXCEPT ![r] = "failed"]
  /\ chan' = [chan EXCEPT ![r] = <<>>]
  /\ UNCHANGED <<regVars, outcome, files, written, paneVars, down>>

WriterEnds(r) ==
  /\ writer[r] = "running" /\ chan[r] = <<>> /\ ~Senders(r)
  /\ writer' = [writer EXCEPT ![r] = "ended"]
  /\ UNCHANGED <<regVars, chan, outcome, files, written, paneVars, down>>

Severity == [recording |-> 0, complete |-> 1, aborted |-> 2, error |-> 3]
Worse(a, b) == IF Severity[a] > Severity[b] THEN a ELSE b

Degrade(o, status) == IF o.finalized THEN o ELSE [o EXCEPT !.status = Worse(status, @)]

Finalize(o, failed) ==
  LET d == IF failed THEN Degrade(o, "error") ELSE o
  IN  [d EXCEPT !.status = Worse("complete", @), !.finalized = TRUE]

\* supervise, once the writer is done: outcome and phase under the lock a stop
\* takes.
Supervise(r) ==
  /\ writer[r] \in {"ended", "failed"} /\ ~outcome[r].finalized
  /\ outcome' = [outcome EXCEPT ![r] = Finalize(@, writer[r] = "failed")]
  /\ entries' = [entries EXCEPT ![r].phase = "finalized", ![r].sink = FALSE]
  /\ UNCHANGED <<admitting, start, ask, opening, chan, writer, files, written, paneVars, down>>

\* The rest of supervise: retention is over, or daemon shutdown drains.  The
\* phase may be "stopping" again, of a Prepared dropped after its writer failed.
Retire(r) ==
  /\ Known(r) /\ outcome[r].finalized
  /\ Remove(r)
  /\ UNCHANGED <<admitting, start, ask, opening, flowVars, paneVars, down>>

(***************************************************************************)
(* The pane: spawns, and the part of the PTY task that records             *)
(***************************************************************************)

\* An install arms the cast recorder under the same lock, before the read task
\* runs.  A cast that cannot be armed is dropped.
Spawn(p, cast) ==
  /\ down = "no" /\ task[p] = "none"
  /\ current' = [current EXCEPT ![p] = TRUE]
  /\ task' = [task EXCEPT ![p] = "reading"]
  /\ IF cast = None THEN UNCHANGED <<entries, start>>
     ELSE /\ start[cast] = "prepared" /\ Known(cast) /\ entries[cast].pane = None
          /\ entries' = IF Commits(cast, p) THEN Committed(cast, p)
                        ELSE [entries EXCEPT ![cast].phase = "stopping"]
          /\ start' = [start EXCEPT ![cast] = IF Commits(cast, p) THEN "started" ELSE "over"]
  /\ UNCHANGED <<admitting, ask, opening, flowVars, tee, reads, owed, down>>

\* A kill takes the pane's I/O state away.
Teardown(p) ==
  /\ current[p]
  /\ current' = [current EXCEPT ![p] = FALSE]
  /\ UNCHANGED <<regVars, flowVars, task, tee, reads, owed, down>>

\* A chunk is admitted to what accepts it, if the task still owns the pane.
Read(p) ==
  LET to == IF current[p] THEN {r \in OfPane(p) : Accepting(r) /\ entries[r].sink} ELSE {}
  IN  /\ task[p] = "reading" /\ tee[p] = {} /\ reads[p] < MaxReads
      /\ reads' = [reads EXCEPT ![p] = @ + 1]
      /\ tee' = [tee EXCEPT ![p] = to]
      /\ owed' = [r \in Recs |-> IF r \in to THEN Append(owed[r], reads'[p]) ELSE owed[r]]
      /\ UNCHANGED <<regVars, flowVars, current, task, down>>

\* send_bytes: the chunk reaches the channel, or finds the writer dead.
Send(p) ==
  \E r \in tee[p] :
    /\ writer[r] = "running" => Len(chan[r]) < Channel
    /\ chan' = IF writer[r] = "running" THEN [chan EXCEPT ![r] = Append(@, reads[p])] ELSE chan
    /\ tee' = [tee EXCEPT ![p] = @ \ {r}]
    /\ UNCHANGED <<regVars, writer, outcome, files, written, current, task, reads, owed, down>>

\* Mutant: the chunks are dropped without a word
DropAdmissionsSilently(p) ==
  /\ tee[p] # {} /\ Cancelled(p)
  /\ tee' = [tee EXCEPT ![p] = {}]
  /\ UNCHANGED <<regVars, flowVars, current, task, reads, owed, down>>

\* Cancelled meanwhile: the admissions are dropped, and say so first.
DropAdmissions(p) ==
  /\ tee[p] # {} /\ Cancelled(p)
  /\ outcome' = [r \in Recs |-> IF r \in tee[p] THEN Degrade(outcome[r], "aborted") ELSE outcome[r]]
  /\ tee' = [tee EXCEPT ![p] = {}]
  /\ UNCHANGED <<regVars, chan, writer, files, written, current, task, reads, owed, down>>

\* The program ends, or the task is cancelled: its input closes.
CloseInput(p) ==
  /\ task[p] = "reading" /\ tee[p] = {}
  /\ task' = [task EXCEPT ![p] = "closing"]
  /\ UNCHANGED <<regVars, flowVars, current, tee, reads, owed, down>>

\* finish_pane_recorders: no successor owns the pane, so its recordings end.
FinishPane(p) ==
  /\ task[p] = "closing"
  /\ task' = [task EXCEPT ![p] = "done"]
  /\ End(OfPane(p), "pane_exit")
  /\ UNCHANGED <<admitting, start, ask, opening, chan, writer, files, written, current, tee, reads,
                 owed, down>>

(***************************************************************************)
(* Daemon shutdown (shutdown_all_pane_io)                                  *)
(***************************************************************************)

Cancel ==
  /\ down = "no" /\ down' = "cancelled"
  /\ UNCHANGED <<regVars, flowVars, paneVars>>

CloseAdmission ==
  /\ down = "cancelled" /\ down' = "closed"
  /\ admitting' = FALSE
  /\ current' = [p \in Panes |-> FALSE]
  /\ UNCHANGED <<entries, start, ask, opening, flowVars, task, tee, reads, owed>>

\* The PTY tasks are done, or three seconds have passed.
StopAll ==
  /\ down = "closed" /\ down' = "draining"
  /\ End(Recs, "daemon_shutdown")
  /\ UNCHANGED <<admitting, start, ask, opening, chan, writer, files, written, paneVars>>

\* The tracker holds the opens, the writers, and the supervisors until they
\* retire their entries.
TrackerEmpty == \A r \in Recs : entries[r] = None /\ opening[r] = "idle" /\ writer[r] # "running"

Drain ==
  /\ down = "draining"
  /\ down' = IF TrackerEmpty THEN "clean" ELSE "late"
  /\ UNCHANGED <<regVars, flowVars, paneVars>>

Next ==
  \/ \E r \in Recs :
       \/ \E q \in Asks[r] : Ask(r, q[1], q[2]) \/ Reserve(r, q[1], q[2])
       \/ AskFails(r)
       \/ OpenFails(r) \/ OpenFindsTaken(r) \/ OpenTakesFile(r) \/ TruncateFails(r) \/ Launch(r)
       \/ Abandon(r) \/ Commit(r) \/ CommitRefused(r) \/ Stop(r)
       \/ WriteChunk(r) \/ WriterFails(r) \/ WriterEnds(r) \/ Supervise(r) \/ Retire(r)
  \/ \E p \in Panes :
       \/ \E cast \in Recs \cup {None} : Spawn(p, cast)
       \/ Teardown(p)
       \/ Read(p) \/ Send(p) \/ DropAdmissions(p) \/ CloseInput(p) \/ FinishPane(p)
  \/ Cancel \/ CloseAdmission \/ StopAll \/ Drain

(***************************************************************************)
(* Fairness: the runtime runs every task; an open returns; files take what *)
(* they are given; retention, a timer, runs out; a caller goes on with     *)
(* what it was handed.  No start, stop, read, kill or shutdown need ever   *)
(* come.                                                                   *)
(***************************************************************************)

TaskStep(r) ==
  \/ OpenFindsTaken(r) \/ OpenTakesFile(r) \/ Launch(r)
  \/ WriteChunk(r) \/ WriterEnds(r) \/ Supervise(r) \/ Retire(r)

CastStep(r) == Abandon(r) \/ \E p \in Panes : Spawn(p, r)

Fairness ==
  /\ \A r \in Recs : WF_vars(TaskStep(r)) /\ WF_vars(Commit(r) \/ CommitRefused(r) \/ CastStep(r))
  /\ \A p \in Panes : WF_vars(Send(p) \/ DropAdmissions(p))

Spec == Init /\ [][Next]_vars /\ Fairness

(***************************************************************************)
(* Properties                                                              *)
(***************************************************************************)

Outcome == [status : DOMAIN Severity, ended : {"stop", "pane_exit", "daemon_shutdown", None},
            finalized : BOOLEAN]

\* Types, and the channel's bound: a reader waits for room, it never adds to a
\* full channel (send_bytes)
TypeOK ==
  /\ entries \in [Recs -> Entry \cup {None}] /\ admitting \in BOOLEAN
  /\ start \in [Recs -> {"idle", "asked", "waiting", "prepared", "started", "over"}]
  /\ ask \in [Recs -> Request \cup {None}]
  /\ opening \in [Recs -> {"idle", "opening", "opened"}]
  /\ writer \in [Recs -> {"none", "running", "ended", "failed"}]
  /\ chan \in [Recs -> Seq(Nat)] /\ \A r \in Recs : Len(chan[r]) <= Channel
  /\ outcome \in [Recs -> Outcome]
  /\ files \in [Files -> Seq(Nat)] /\ written \in [Recs -> Seq(Nat)]
  /\ current \in [Panes -> BOOLEAN]
  /\ task \in [Panes -> {"none", "reading", "closing", "done"}]
  /\ tee \in [Panes -> SUBSET Recs] /\ reads \in [Panes -> Nat] /\ owed \in [Recs -> Seq(Nat)]
  /\ down \in {"no", "cancelled", "closed", "draining", "clean", "late"}

\* "lossless": a recording reported complete has in its file every chunk
\* that was admitted to it, in order, whatever backpressure, cancellation, kill
\* or shutdown came between (PaneRecordStatus::Complete).
Lossless ==
  \A r \in Recs :
    outcome[r].finalized /\ outcome[r].status = "complete" => written[r] = owed[r]

\* A live recording's file holds what it wrote and nothing else: no start
\* empties or writes a file another recording is writing, under whichever
\* name it found it (the (device, inode) check of open).
FileIntact ==
  \A r \in Recs : Live(r) /\ writer[r] = "running" => files[entries[r].file] = written[r]

\* A recording that accepts output has a PTY task that will end it: none
\* outlives its pane, though a start may reserve after the pane's task has ended
\* every recording it found (pane_takes_input, finish_pane_recorders).
PaneWillEnd ==
  \A r \in Recs : Accepting(r) => task[entries[r].pane] \in {"reading", "closing"}

\* A shutdown that reports every recording finished has left none behind:
\* no open or writer is under way and none begins after, however far a start
\* had come when admission closed (Recordings::drain).
NothingAfterDrain == down = "clean" => TrackerEmpty

\* No recording outlives what must end it, its pane or the shutdown's drain
\* (finish_pane_recorders, Recordings::drain).
NoneOutlives == PaneWillEnd /\ NothingAfterDrain

\* Nothing is held for ever: a start that loses its caller, its file or its
\* pane gives pane and path back, and a recording told to end is finalized, its
\* admitted chunks drained and its senders gone (Recordings::end, supervise).
Settles ==
  \A r \in Recs :
    (Live(r) /\ entries[r].phase # "accepting") ~> (~Live(r) \/ entries[r].phase = "accepting")
=============================================================================
