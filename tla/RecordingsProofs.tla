-------------------------- MODULE RecordingsProofs --------------------------
(***************************************************************************)
(* What holds of pane recordings for every set of recordings, panes,       *)
(* paths, files and requests and every channel: a recording reported       *)
(* complete is lossless, a live recording's file is its own, and none      *)
(* outlives its pane or the shutdown's drain.                              *)
(***************************************************************************)
EXTENDS Recordings, TLAPS

(***************************************************************************)
(* The invariant                                                           *)
(***************************************************************************)

\* The registry and the starts
RegTypes ==
  /\ entries \in [Recs -> Entry \cup {None}] /\ admitting \in BOOLEAN
  /\ start \in [Recs -> {"idle", "asked", "waiting", "prepared", "started", "over"}]
  /\ opening \in [Recs -> {"idle", "opening", "opened"}]

\* The channels, the writers and what came of them
FlowTypes ==
  /\ writer \in [Recs -> {"none", "running", "ended", "failed"}]
  /\ chan \in [Recs -> Seq(Nat)] /\ \A r \in Recs : Len(chan[r]) <= Channel
  /\ outcome \in [Recs -> Outcome]
  /\ files \in [Files -> Seq(Nat)] /\ written \in [Recs -> Seq(Nat)]
  /\ owed \in [Recs -> Seq(Nat)]

\* The panes and the shutdown
PaneTypes ==
  /\ current \in [Panes -> BOOLEAN]
  /\ task \in [Panes -> {"none", "reading", "closing", "done"}]
  /\ tee \in [Panes -> SUBSET Recs] /\ reads \in [Panes -> Nat]
  /\ down \in {"no", "cancelled", "closed", "draining", "clean", "late"}

\* The start, the open, the entry and the writer of a recording go through
\* their stages together: nothing is launched without a reservation, and only
\* a start that was answered accepts output.
Stages ==
  \A r \in Recs :
    /\ start[r] \in {"idle", "asked"} => ~Known(r) /\ opening[r] = "idle" /\ writer[r] = "none"
    /\ opening[r] # "idle" =>
         /\ Known(r) /\ entries[r].phase = "reserved"
         /\ writer[r] = "none" /\ start[r] \in {"waiting", "over"}
    /\ opening[r] = "opened" => entries[r].file \in Files
    /\ writer[r] # "none" =>
         start[r] \notin {"idle", "asked", "waiting"} /\ (Known(r) \/ outcome[r].finalized)
    /\ writer[r] = "running" => Live(r) /\ entries[r].file \in Files
    /\ start[r] = "prepared" => writer[r] # "none"
    /\ Known(r) /\ entries[r].sink => entries[r].phase = "accepting"
    /\ Accepting(r) =>
         start[r] = "started" /\ entries[r].pane \in Panes /\ writer[r] # "none"

\* A final outcome is that of the writer, and a failed writer's is an error.
Verdicts ==
  \A r \in Recs :
    /\ outcome[r].finalized =>
         writer[r] = "ended" \/ (writer[r] = "failed" /\ outcome[r].status = "error")
    /\ ~outcome[r].finalized => outcome[r].status \in {"recording", "aborted"}

\* A chunk on its way belongs to a recording of its own pane that was
\* started, and keeps its writer from ending.
Admissions ==
  \A p \in Panes : \A r \in tee[p] :
    /\ writer[r] \in {"running", "failed"} /\ start[r] = "started"
    /\ Known(r) => entries[r].pane = p
    /\ \A q \in Panes : r \in tee[q] => q = p

\* Nothing is lost on the way: what was admitted is in the file, in the
\* channel or in the hands of the PTY task, unless the writer failed or the
\* outcome says that a chunk was dropped.
Flow ==
  \A r \in Recs :
    /\ writer[r] # "running" => chan[r] = <<>>
    /\ writer[r] = "none" => owed[r] = <<>> /\ written[r] = <<>>
    /\ writer[r] # "failed" /\ outcome[r].status # "aborted" =>
         /\ ~Admitted(r) => owed[r] = written[r] \o chan[r]
         /\ \A p \in Panes : r \in tee[p] => owed[r] = Append(written[r] \o chan[r], reads[p])

\* A writer ends when nobody can send to it, and nobody can from then on.
Ended == \A r \in Recs : writer[r] = "ended" => ~Senders(r)

\* The file is open for recording r, to be emptied or written.
Owns(r) == opening[r] = "opened" \/ writer[r] = "running"

\* No file is open for two recordings.
Holders ==
  \A r, o \in Recs : Owns(r) /\ Owns(o) /\ r # o => entries[r].file # entries[o].file

\* Once admission is closed, it stays closed.
Closing == down \in {"closed", "draining", "clean", "late"} => ~admitting

Types == RegTypes /\ FlowTypes /\ PaneTypes

IInv ==
  /\ Types /\ Stages /\ Verdicts /\ Admissions /\ Flow /\ Ended /\ Holders /\ FileIntact
  /\ PaneWillEnd /\ Closing /\ NothingAfterDrain

(***************************************************************************)
(* Sequences                                                               *)
(***************************************************************************)

\* Moving the head of one sequence to the end of another keeps the whole.
LEMMA MoveHead ==
  ASSUME NEW w \in Seq(Nat), NEW c \in Seq(Nat), c # <<>>
  PROVE  Append(w, Head(c)) \o Tail(c) = w \o c
<1>1. /\ Append(w, Head(c)) \in Seq(Nat) /\ Tail(c) \in Seq(Nat)
      /\ Len(Append(w, Head(c))) = Len(w) + 1 /\ Len(Tail(c)) = Len(c) - 1
  OBVIOUS
<1>2. Len(Append(w, Head(c)) \o Tail(c)) = Len(w \o c)
  BY <1>1
<1>3. \A i \in 1..Len(w \o c) : (Append(w, Head(c)) \o Tail(c))[i] = (w \o c)[i]
  BY <1>1
<1>4. Append(w, Head(c)) \o Tail(c) \in Seq(Nat) /\ w \o c \in Seq(Nat)
  BY <1>1
<1> QED BY <1>2, <1>3, <1>4

\* What is added to the end of the second is added to the end of the whole.
LEMMA AddLast ==
  ASSUME NEW w \in Seq(Nat), NEW c \in Seq(Nat), NEW n \in Nat
  PROVE  w \o Append(c, n) = Append(w \o c, n)
<1>1. Len(w \o Append(c, n)) = Len(Append(w \o c, n))
  OBVIOUS
<1>2. \A i \in 1..Len(w \o c) + 1 : (w \o Append(c, n))[i] = Append(w \o c, n)[i]
  OBVIOUS
<1>3. w \o Append(c, n) \in Seq(Nat) /\ Append(w \o c, n) \in Seq(Nat)
  OBVIOUS
<1> QED BY <1>1, <1>2, <1>3

\* An empty channel adds nothing.
LEMMA NothingLeft ==
  ASSUME NEW w \in Seq(Nat)
  PROVE  w \o <<>> = w
OBVIOUS

(***************************************************************************)
(* A part of the invariant that a step does not touch stays true.          *)
(***************************************************************************)

\* RegTypes is about these variables only.
LEMMA KeepRegTypes ==
  ASSUME RegTypes, UNCHANGED <<entries, admitting, start, opening>>
  PROVE  RegTypes'
BY DEF RegTypes

\* FlowTypes is about these variables only.
LEMMA KeepFlowTypes ==
  ASSUME FlowTypes, UNCHANGED <<chan, writer, outcome, files, written, owed>>
  PROVE  FlowTypes'
BY DEF FlowTypes

\* PaneTypes is about these variables only.
LEMMA KeepPaneTypes ==
  ASSUME PaneTypes, UNCHANGED <<current, task, tee, reads, down>>
  PROVE  PaneTypes'
BY DEF PaneTypes

\* Stages is about these variables only.
LEMMA KeepStages ==
  ASSUME Stages, UNCHANGED <<start, entries, opening, writer, outcome>>
  PROVE  Stages'
BY DEF Stages, Known, Live, Accepting

\* Verdicts is about these variables only.
LEMMA KeepVerdicts ==
  ASSUME Verdicts, UNCHANGED <<outcome, writer>>
  PROVE  Verdicts'
BY DEF Verdicts

\* Admissions is about these variables only.
LEMMA KeepAdmissions ==
  ASSUME Admissions, UNCHANGED <<tee, writer, start, entries>>
  PROVE  Admissions'
BY DEF Admissions, Known

\* Flow is about these variables only.
LEMMA KeepFlow ==
  ASSUME Flow, UNCHANGED <<writer, chan, owed, written, outcome, tee, reads>>
  PROVE  Flow'
BY DEF Flow, Admitted

\* Ended is about these variables only.
LEMMA KeepEnded ==
  ASSUME Ended, UNCHANGED <<writer, entries, start, tee>>
  PROVE  Ended'
BY DEF Ended, Senders, Known, Admitted

\* Holders is about these variables only.
LEMMA KeepHolders ==
  ASSUME Holders, UNCHANGED <<opening, writer, entries>>
  PROVE  Holders'
BY DEF Holders, Owns

\* FileIntact is about these variables only.
LEMMA KeepFileIntact ==
  ASSUME FileIntact, UNCHANGED <<entries, writer, files, written>>
  PROVE  FileIntact'
BY DEF FileIntact, Live, Known

\* PaneWillEnd is about these variables only.
LEMMA KeepPaneWillEnd ==
  ASSUME PaneWillEnd, UNCHANGED <<entries, task>>
  PROVE  PaneWillEnd'
BY DEF PaneWillEnd, Accepting, Known

\* Closing is about these variables only.
LEMMA KeepClosing ==
  ASSUME Closing, UNCHANGED <<down, admitting>>
  PROVE  Closing'
BY DEF Closing

\* NothingAfterDrain is about these variables only.
LEMMA KeepNothingAfterDrain ==
  ASSUME NothingAfterDrain, UNCHANGED <<down, entries, opening, writer>>
  PROVE  NothingAfterDrain'
BY DEF NothingAfterDrain, TrackerEmpty

(***************************************************************************)
(* Starts                                                                  *)
(***************************************************************************)

\* Until it reserves, a start holds nothing: not when it asks, nor when it is
\* refused or given up.
LEMMA AskKeeps ==
  ASSUME IInv, NEW r \in Recs, NEW other \in {"idle", "asked"},
         start[r] \in {"idle", "asked"}, start' = [start EXCEPT ![r] = other],
         UNCHANGED <<entries, admitting, opening, flowVars, paneVars, down>>
  PROVE  IInv'
<1> USE DEF IInv, Types
<1>1. UNCHANGED <<entries, admitting, opening, chan, writer, outcome, files, written, current,
                  task, tee, reads, owed, down>>
  BY DEF flowVars, paneVars
<1>2. start'[r] = other /\ \A o \in Recs \ {r} : start'[o] = start[o]
  BY DEF RegTypes
<1>3. /\ FlowTypes' /\ PaneTypes' /\ Verdicts' /\ Flow' /\ Holders' /\ FileIntact' /\ PaneWillEnd'
      /\ Closing' /\ NothingAfterDrain'
  BY <1>1, KeepFlowTypes, KeepPaneTypes, KeepVerdicts, KeepFlow, KeepHolders, KeepFileIntact,
     KeepPaneWillEnd, KeepClosing, KeepNothingAfterDrain
<1>4. RegTypes'
  BY <1>1 DEF RegTypes
<1>5. Stages'
  BY <1>1, <1>2 DEF Stages, Known, Live, Accepting
<1>6. Admissions'
  BY <1>1, <1>2 DEF Admissions, Known, PaneTypes
<1>7. Ended'
  BY <1>1, <1>2 DEF Ended, Senders, Admitted, Known
<1> QED BY <1>3, <1>4, <1>5, <1>6, <1>7

\* A reservation disturbs nothing of the others, though its pane may have ended.
LEMMA ReserveKeeps ==
  ASSUME IInv, NEW r \in Recs, NEW pane \in Panes \cup {None}, NEW path \in Paths,
         Reserve(r, pane, path)
  PROVE  IInv'
<1> USE DEF IInv, Types
<1>1. UNCHANGED <<admitting, chan, writer, outcome, files, written, current, task, tee, reads,
                  owed, down>>
  BY DEF Reserve, regVars, flowVars, paneVars
<1>2. /\ start[r] = "asked" /\ admitting /\ start'[r] = "waiting" /\ opening'[r] = "opening"
      /\ \A o \in Recs \ {r} : start'[o] = start[o] /\ opening'[o] = opening[o]
  BY DEF Reserve, RegTypes
<1>3. /\ entries'[r] \in Entry /\ entries'[r].phase = "reserved" /\ ~entries'[r].sink
      /\ entries'[r] # None /\ \A o \in Recs \ {r} : entries'[o] = entries[o]
  <2>1. entries'[r] = [pane |-> pane, path |-> path, file |-> None, phase |-> "reserved",
                       cancelled |-> FALSE, sink |-> FALSE]
    BY DEF Reserve, RegTypes
  <2>2. entries'[r] \in Entry
    BY <2>1 DEF Entry
  <2> QED BY <2>1, <2>2, NoneAssumption DEF Reserve, RegTypes
<1>4. entries[r] = None /\ opening[r] = "idle" /\ writer[r] = "none"
  BY <1>2 DEF Stages, Known
<1>5. /\ FlowTypes' /\ PaneTypes' /\ Verdicts' /\ Flow' /\ Closing'
  BY <1>1, KeepFlowTypes, KeepPaneTypes, KeepVerdicts, KeepFlow, KeepClosing
<1>6. RegTypes'
  BY <1>2, <1>3 DEF RegTypes, Reserve
<1>7. Stages'
  BY <1>1, <1>2, <1>3, <1>4 DEF Stages, Known, Live, Accepting
<1>8. Admissions'
  BY <1>1, <1>2, <1>3, <1>4 DEF Admissions, Known, PaneTypes
<1>9. Ended'
  BY <1>1, <1>2, <1>3, <1>4 DEF Ended, Senders, Admitted, Known
<1>10. Holders'
  BY <1>1, <1>2, <1>3, <1>4 DEF Holders, Owns
<1>11. FileIntact'
  BY <1>1, <1>2, <1>3, <1>4 DEF FileIntact, Live, Known
<1>12. PaneWillEnd'
  BY <1>1, <1>2, <1>3, <1>4 DEF PaneWillEnd, Accepting, Known
<1>13. NothingAfterDrain'
  BY <1>1, <1>2 DEF NothingAfterDrain, Closing
<1> QED BY <1>5, <1>6, <1>7, <1>8, <1>9, <1>10, <1>11, <1>12, <1>13

\* A start that is not taken leaves no trace.
LEMMA RefuseKeeps ==
  ASSUME IInv, NEW r \in Recs, opening[r] # "idle", Refuse(r)
  PROVE  IInv'
<1> USE DEF IInv, Types
<1>1. UNCHANGED <<admitting, chan, writer, outcome, files, written, current, task, tee, reads,
                  owed, down>>
  BY DEF Refuse, regVars, flowVars, paneVars, Remove
<1>2. /\ start'[r] = "over" /\ opening'[r] = "idle" /\ entries'[r] = None
      /\ \A o \in Recs \ {r} :
           start'[o] = start[o] /\ opening'[o] = opening[o] /\ entries'[o] = entries[o]
  BY DEF Refuse, Remove, RegTypes
<1>3. entries[r] # None /\ writer[r] = "none"
  BY DEF Stages, Known
<1>4. /\ FlowTypes' /\ PaneTypes' /\ Verdicts' /\ Flow' /\ Closing'
  BY <1>1, KeepFlowTypes, KeepPaneTypes, KeepVerdicts, KeepFlow, KeepClosing
<1>5. RegTypes'
  BY DEF RegTypes, Refuse, Remove
<1>6. Stages'
  BY <1>1, <1>2, <1>3 DEF Stages, Known, Live, Accepting
<1>7. Admissions'
  BY <1>1, <1>2, <1>3 DEF Admissions, Known, PaneTypes
<1>8. Ended'
  BY <1>1, <1>2, <1>3 DEF Ended, Senders, Admitted, Known
<1>9. Holders'
  BY <1>1, <1>2, <1>3 DEF Holders, Owns
<1>10. FileIntact'
  BY <1>1, <1>2, <1>3 DEF FileIntact, Live, Known
<1>11. PaneWillEnd'
  BY <1>1, <1>2, <1>3 DEF PaneWillEnd, Accepting, Known
<1>12. NothingAfterDrain'
  BY <1>1, <1>3 DEF NothingAfterDrain, TrackerEmpty
<1> QED BY <1>4, <1>5, <1>6, <1>7, <1>8, <1>9, <1>10, <1>11, <1>12

\* The file taken is no other live recording's.
LEMMA OpenTakesFileKeeps ==
  ASSUME IInv, NEW r \in Recs, OpenTakesFile(r)
  PROVE  IInv'
<1> USE DEF IInv, Types
<1>1. UNCHANGED <<admitting, start, chan, writer, outcome, files, written, current, task, tee,
                  reads, owed, down>>
  BY DEF OpenTakesFile, regVars, flowVars, paneVars
<1>2. /\ opening[r] = "opening" /\ opening'[r] = "opened" /\ ~FileTaken(r)
      /\ \A o \in Recs \ {r} : opening'[o] = opening[o] /\ entries'[o] = entries[o]
  BY DEF OpenTakesFile, RegTypes
<1>3. entries[r] \in Entry /\ entries[r] # None /\ entries[r].phase = "reserved"
  BY <1>2 DEF Stages, Known, RegTypes
<1>4. /\ entries'[r] \in Entry /\ entries'[r] # None /\ entries'[r].phase = "reserved"
      /\ entries'[r].file = FileOf[entries[r].path] /\ entries'[r].file \in Files
      /\ entries'[r].sink = entries[r].sink /\ entries'[r].pane = entries[r].pane
  BY <1>3, NoneAssumption, FileOfAssumption DEF OpenTakesFile, RegTypes, Entry
<1>5. /\ FlowTypes' /\ PaneTypes' /\ Verdicts' /\ Flow' /\ Closing'
  BY <1>1, KeepFlowTypes, KeepPaneTypes, KeepVerdicts, KeepFlow, KeepClosing
<1>6. RegTypes'
  BY <1>2, <1>4 DEF RegTypes, OpenTakesFile
<1>7. Stages'
  BY <1>1, <1>2, <1>3, <1>4 DEF Stages, Known, Live, Accepting
<1>8. Admissions'
  BY <1>1, <1>2, <1>3, <1>4 DEF Admissions, Known, PaneTypes
<1>9. Ended'
  BY <1>1, <1>2, <1>3, <1>4 DEF Ended, Senders, Admitted, Known
<1>10. Holders'
  <2>1. \A o \in Recs \ {r} : Owns(o) => Live(o)
    BY DEF Owns, Stages, Live
  <2>2. \A o \in Recs \ {r} : Owns(o) => entries[o].file # FileOf[entries[r].path]
    BY <1>2, <2>1 DEF FileTaken
  <2> QED BY <1>1, <1>2, <1>4, <2>2 DEF Holders, Owns
<1>11. FileIntact'
  BY <1>1, <1>2, <1>3, <1>4 DEF FileIntact, Live, Known, Stages
<1>12. PaneWillEnd'
  BY <1>1, <1>2, <1>3, <1>4 DEF PaneWillEnd, Accepting, Known
<1>13. NothingAfterDrain'
  BY <1>1, <1>2, <1>3 DEF NothingAfterDrain, TrackerEmpty
<1> QED BY <1>5, <1>6, <1>7, <1>8, <1>9, <1>10, <1>11, <1>12, <1>13

\* The file that is emptied is nobody else's, and nothing is in it yet.
LEMMA LaunchKeeps ==
  ASSUME IInv, NEW r \in Recs, Launch(r)
  PROVE  IInv'
<1> USE DEF IInv, Types
<1>1. UNCHANGED <<admitting, chan, outcome, written, current, task, tee, reads, owed, down>>
  BY DEF Launch, regVars, flowVars, paneVars
<1>2. /\ opening[r] = "opened" /\ opening'[r] = "idle" /\ writer'[r] = "running"
      /\ \A o \in Recs \ {r} :
           /\ opening'[o] = opening[o] /\ writer'[o] = writer[o]
           /\ start'[o] = start[o] /\ entries'[o] = entries[o]
  BY DEF Launch, RegTypes, FlowTypes
<1>3. /\ entries[r] \in Entry /\ entries[r] # None /\ entries[r].phase = "reserved"
      /\ entries[r].file \in Files /\ writer[r] = "none" /\ start[r] \in {"waiting", "over"}
  BY <1>2 DEF Stages, Known, RegTypes
<1>4. /\ entries'[r] \in Entry /\ entries'[r] # None
      /\ entries'[r].phase \in {"reserved", "stopping"}
      /\ entries'[r].file = entries[r].file /\ entries'[r].sink = entries[r].sink
  BY <1>3, NoneAssumption DEF Launch, RegTypes, Entry
<1>5. start'[r] \in {"prepared", "over"}
  BY <1>3 DEF Launch, RegTypes
<1>6. /\ files'[entries[r].file] = <<>>
      /\ \A f \in Files \ {entries[r].file} : files'[f] = files[f]
  BY <1>3 DEF Launch, FlowTypes
<1>7. ~entries[r].sink /\ owed[r] = <<>> /\ written[r] = <<>> /\ chan[r] = <<>>
  BY <1>3 DEF Stages, Flow, Known
<1>8. \A p \in Panes : r \notin tee[p]
  BY <1>3 DEF Admissions
<1>9. /\ PaneTypes' /\ Closing'
  BY <1>1, KeepPaneTypes, KeepClosing
<1>10. RegTypes'
  BY <1>2, <1>4, <1>5 DEF RegTypes, Launch
<1>11. FlowTypes'
  <2>1. files' \in [Files -> Seq(Nat)]
    <3>1. <<>> \in Seq(Nat) /\ files' = [files EXCEPT ![entries[r].file] = <<>>]
      BY DEF Launch
    <3> QED BY <3>1 DEF FlowTypes
  <2>2. writer' \in [Recs -> {"none", "running", "ended", "failed"}]
    BY DEF Launch, FlowTypes
  <2> QED BY <1>1, <2>1, <2>2 DEF FlowTypes
<1>12. Stages'
  BY <1>1, <1>2, <1>3, <1>4, <1>5, <1>7 DEF Stages, Known, Live, Accepting
<1>13. Verdicts'
  BY <1>1, <1>2, <1>3 DEF Verdicts
<1>14. Admissions'
  BY <1>1, <1>2, <1>8 DEF Admissions, Known, PaneTypes
<1>15. Flow'
  <2>1. owed[r] = written[r] \o chan[r]
    BY <1>7, NothingLeft
  <2> QED BY <1>1, <1>2, <1>7, <1>8, <2>1 DEF Flow, Admitted, PaneTypes
<1>16. Ended'
  BY <1>1, <1>2 DEF Ended, Senders, Admitted, Known
<1>17. Holders'
  BY <1>1, <1>2, <1>4 DEF Holders, Owns
<1>18. FileIntact'
  <2>1. \A o \in Recs \ {r} : writer[o] = "running" => entries[o].file # entries[r].file
    BY <1>2 DEF Holders, Owns
  <2>2. \A o \in Recs \ {r} : writer[o] = "running" => entries[o].file \in Files
    BY DEF Stages
  <2> QED BY <1>1, <1>2, <1>4, <1>6, <1>7, <2>1, <2>2 DEF FileIntact, Live, Known
<1>19. PaneWillEnd'
  BY <1>1, <1>2, <1>4 DEF PaneWillEnd, Accepting, Known
<1>20. NothingAfterDrain'
  BY <1>1, <1>2, <1>3 DEF NothingAfterDrain, TrackerEmpty
<1> QED BY <1>9, <1>10, <1>11, <1>12, <1>13, <1>14, <1>15, <1>16, <1>17, <1>18, <1>19, <1>20

\* A Prepared is dropped: its recording, if it is still known, is told to stop.
LEMMA DropEffect ==
  ASSUME IInv, NEW r \in Recs, start[r] = "prepared",
         start' = [start EXCEPT ![r] = "over"],
         entries' = IF Known(r) THEN [entries EXCEPT ![r].phase = "stopping"] ELSE entries,
         UNCHANGED <<admitting, opening, chan, writer, outcome, files, written, tee,
                  reads, owed, down>>
  PROVE  /\ RegTypes' /\ Stages' /\ Admissions' /\ Ended' /\ Holders' /\ FileIntact'
         /\ NothingAfterDrain'
<1> USE DEF IInv, Types
<1>1. /\ start'[r] = "over"
      /\ \A o \in Recs \ {r} : start'[o] = start[o] /\ entries'[o] = entries[o]
  BY DEF RegTypes
<1>2. writer[r] # "none" /\ opening[r] = "idle" /\ (Known(r) => ~entries[r].sink)
  BY DEF Stages, Accepting, Known
<1>3. /\ Known(r) <=> entries'[r] # None
      /\ Known(r) => /\ entries'[r] \in Entry /\ entries'[r].phase = "stopping"
                     /\ entries'[r].pane = entries[r].pane /\ entries'[r].file = entries[r].file
                     /\ ~entries'[r].sink
  BY <1>2, NoneAssumption DEF RegTypes, Entry, Known
<1>4. RegTypes'
  BY <1>3 DEF RegTypes, Known
<1>5. Stages'
  BY <1>1, <1>2, <1>3 DEF Stages, Known, Live, Accepting
<1>6. Admissions'
  BY <1>1, <1>3 DEF Admissions, Known, PaneTypes
<1>7. Ended'
  BY <1>1, <1>3 DEF Ended, Senders, Admitted, Known
<1>8. Holders'
  BY <1>1, <1>2, <1>3 DEF Holders, Owns, Stages, Live
<1>9. FileIntact'
  BY <1>1, <1>3 DEF FileIntact, Live, Known, Stages
<1>10. NothingAfterDrain'
  BY <1>1, <1>3 DEF NothingAfterDrain, TrackerEmpty, Known
<1> QED BY <1>4, <1>5, <1>6, <1>7, <1>8, <1>9, <1>10

\* A Prepared is committed: from here on its recording takes output.
LEMMA CommitEffect ==
  ASSUME IInv, NEW r \in Recs, NEW p \in Panes, start[r] = "prepared",
         Commits(r, p), entries' = Committed(r, p), start' = [start EXCEPT ![r] = "started"],
         UNCHANGED <<admitting, opening, chan, writer, outcome, files, written, tee,
                  reads, owed, down>>
  PROVE  /\ RegTypes' /\ Stages' /\ Admissions' /\ Ended' /\ Holders' /\ FileIntact'
         /\ NothingAfterDrain'
<1> USE DEF IInv, Types
<1>1. /\ start'[r] = "started"
      /\ \A o \in Recs \ {r} : start'[o] = start[o] /\ entries'[o] = entries[o]
  BY DEF RegTypes, Committed
<1>2. /\ writer[r] # "none" /\ opening[r] = "idle" /\ entries[r] # None /\ admitting
      /\ entries[r] \in Entry
  BY DEF Stages, Commits, Known, RegTypes
<1>3. /\ entries'[r] # None /\ entries'[r] \in Entry /\ entries'[r].phase = "accepting"
      /\ entries'[r].pane = p /\ entries'[r].file = entries[r].file
  BY <1>2, NoneAssumption DEF RegTypes, Entry, Committed
<1>4. writer[r] # "ended" /\ \A q \in Panes : r \notin tee[q]
  BY DEF Ended, Senders, Admissions
<1>5. RegTypes'
  BY <1>1, <1>3 DEF RegTypes, Committed
<1>6. Stages'
  BY <1>1, <1>2, <1>3 DEF Stages, Known, Live, Accepting
<1>7. Admissions'
  BY <1>1, <1>4 DEF Admissions, Known, PaneTypes
<1>8. Ended'
  BY <1>1, <1>4 DEF Ended, Senders, Admitted, Known
<1>9. Holders'
  BY <1>1, <1>2, <1>3 DEF Holders, Owns
<1>10. FileIntact'
  BY <1>1, <1>2, <1>3 DEF FileIntact, Live, Known, Commits
<1>11. NothingAfterDrain'
  BY <1>2 DEF NothingAfterDrain, Closing
<1> QED BY <1>5, <1>6, <1>7, <1>8, <1>9, <1>10, <1>11

\* A commit finds a PTY task that will end the recording.
LEMMA CommitKeeps ==
  ASSUME IInv, NEW r \in Recs, Commit(r)
  PROVE  IInv'
<1> USE DEF IInv, Types
<1>1. UNCHANGED <<admitting, opening, chan, writer, outcome, files, written, current, task,
                  tee, reads, owed, down>>
  BY DEF Commit, regVars, flowVars, paneVars
<1>2. entries[r].pane \in Panes /\ task[entries[r].pane] = "reading"
  BY NoneAssumption DEF Commit, RegTypes, Entry, Known, TakesInput
<1>3. /\ entries'[r].pane = entries[r].pane
      /\ \A o \in Recs \ {r} : entries'[o] = entries[o]
  BY NoneAssumption DEF Commit, Committed, RegTypes, Entry, Known
<1>4. /\ RegTypes' /\ Stages' /\ Admissions' /\ Ended' /\ Holders' /\ FileIntact'
      /\ NothingAfterDrain'
  <2>1. /\ start[r] = "prepared" /\ Commits(r, entries[r].pane)
        /\ entries' = Committed(r, entries[r].pane) /\ start' = [start EXCEPT ![r] = "started"]
    BY DEF Commit
  <2> QED BY <1>1, <1>2, <2>1, CommitEffect
<1>5. /\ FlowTypes' /\ PaneTypes' /\ Verdicts' /\ Flow' /\ Closing'
  BY <1>1, KeepFlowTypes, KeepPaneTypes, KeepVerdicts, KeepFlow, KeepClosing
<1>6. PaneWillEnd'
  BY <1>1, <1>2, <1>3 DEF PaneWillEnd, Accepting, Known
<1> QED BY <1>4, <1>5, <1>6

\* A caller that goes away leaves its recording to be stopped, or its open to end.
LEMMA AbandonKeeps ==
  ASSUME IInv, NEW r \in Recs, Abandon(r)
  PROVE  IInv'
<1> USE DEF IInv, Types
<1>1. UNCHANGED <<admitting, opening, chan, writer, outcome, files, written, current, task,
                  tee, reads, owed, down>>
  BY DEF Abandon, regVars, flowVars, paneVars
<1>2. start[r] \in {"waiting", "prepared"} /\ start' = [start EXCEPT ![r] = "over"]
  BY DEF Abandon
<1>3. start[r] = "waiting" =>
        /\ RegTypes' /\ Stages' /\ Admissions' /\ Ended' /\ Holders' /\ FileIntact'
        /\ NothingAfterDrain' /\ PaneWillEnd'
  <2> SUFFICES ASSUME start[r] = "waiting"
               PROVE  /\ RegTypes' /\ Stages' /\ Admissions' /\ Ended' /\ Holders' /\ FileIntact'
                      /\ NothingAfterDrain' /\ PaneWillEnd'
    OBVIOUS
  <2>1. UNCHANGED entries
    BY DEF Abandon
  <2>2. start'[r] = "over" /\ \A o \in Recs \ {r} : start'[o] = start[o]
    BY <1>2 DEF RegTypes
  <2>3. RegTypes'
    BY <1>1, <1>2, <2>1 DEF RegTypes
  <2>4. Stages'
    BY <1>1, <2>1, <2>2 DEF Stages, Known, Live, Accepting
  <2>5. Admissions'
    BY <1>1, <2>1, <2>2 DEF Admissions, Known, PaneTypes
  <2>6. Ended'
    BY <1>1, <2>1, <2>2 DEF Ended, Senders, Admitted, Known
  <2>7. Holders' /\ FileIntact' /\ NothingAfterDrain' /\ PaneWillEnd'
    BY <1>1, <2>1, KeepHolders, KeepFileIntact, KeepNothingAfterDrain, KeepPaneWillEnd
  <2> QED BY <2>3, <2>4, <2>5, <2>6, <2>7
<1>4. start[r] = "prepared" =>
        /\ RegTypes' /\ Stages' /\ Admissions' /\ Ended' /\ Holders' /\ FileIntact'
        /\ NothingAfterDrain' /\ PaneWillEnd'
  <2> SUFFICES ASSUME start[r] = "prepared"
               PROVE  /\ RegTypes' /\ Stages' /\ Admissions' /\ Ended' /\ Holders' /\ FileIntact'
                      /\ NothingAfterDrain' /\ PaneWillEnd'
    OBVIOUS
  <2>1. entries' = IF Known(r) THEN [entries EXCEPT ![r].phase = "stopping"] ELSE entries
    BY DEF Abandon
  <2>2. /\ RegTypes' /\ Stages' /\ Admissions' /\ Ended' /\ Holders' /\ FileIntact'
        /\ NothingAfterDrain'
    BY <1>1, <1>2, <2>1, DropEffect
  <2>3. PaneWillEnd'
    <3>1. \A o \in Recs \ {r} : entries'[o] = entries[o]
      BY <2>1 DEF RegTypes
    <3>2. Known(r) => entries'[r].phase = "stopping"
      BY <2>1 DEF RegTypes, Entry, Known
    <3>3. ~Known(r) => UNCHANGED entries
      BY <2>1
    <3> QED BY <1>1, <3>1, <3>2, <3>3 DEF PaneWillEnd, Accepting, Known
  <2> QED BY <2>2, <2>3
<1>5. /\ RegTypes' /\ Stages' /\ Admissions' /\ Ended' /\ Holders' /\ FileIntact'
      /\ NothingAfterDrain'
  BY <1>2, <1>3, <1>4
<1>6. /\ FlowTypes' /\ PaneTypes' /\ Verdicts' /\ Flow' /\ Closing'
  BY <1>1, KeepFlowTypes, KeepPaneTypes, KeepVerdicts, KeepFlow, KeepClosing
<1>7. PaneWillEnd'
  BY <1>2, <1>3, <1>4
<1> QED BY <1>5, <1>6, <1>7

(***************************************************************************)
(* Ends                                                                    *)
(***************************************************************************)

\* An end takes the registry's sender from what accepts and leaves the rest.
LEMMA EndEntries ==
  ASSUME IInv, NEW some \in SUBSET Recs, NEW cause, End(some, cause), NEW r \in Recs
  PROVE  /\ entries'[r] = None <=> entries[r] = None
         /\ entries[r] # None =>
              /\ entries'[r] \in Entry
              /\ entries'[r].pane = entries[r].pane /\ entries'[r].file = entries[r].file
              /\ \/ entries'[r].phase = entries[r].phase /\ entries'[r].sink = entries[r].sink
                 \/ /\ entries[r].phase = "accepting" /\ entries'[r].phase = "stopping"
                    /\ ~entries'[r].sink
              /\ r \in some => entries'[r].phase # "accepting"
<1> USE DEF IInv, Types
<1>1. entries[r] \in Entry \cup {None}
  BY DEF RegTypes
<1>2. CASE r \notin some \/ ~Known(r)
  <2>1. entries'[r] = entries[r]
    BY <1>2 DEF End
  <2> QED BY <1>1, <1>2, <2>1 DEF Known
<1>3. CASE r \in some /\ Known(r) /\ entries[r].phase = "reserved"
  <2>1. entries'[r] = [entries[r] EXCEPT !.cancelled = TRUE]
    BY <1>3 DEF End
  <2>2. entries'[r] \in Entry
    BY <1>1, <1>3, <2>1 DEF Known, Entry
  <2> QED BY <1>1, <1>3, <2>1, <2>2, NoneAssumption DEF Known, Entry
<1>4. CASE r \in some /\ Known(r) /\ entries[r].phase = "accepting"
  <2>1. entries'[r] = [entries[r] EXCEPT !.phase = "stopping", !.sink = FALSE]
    BY <1>4 DEF End
  <2>2. entries'[r] \in Entry
    BY <1>1, <1>4, <2>1 DEF Known, Entry
  <2> QED BY <1>1, <1>4, <2>1, <2>2, NoneAssumption DEF Known, Entry
<1>5. CASE r \in some /\ Known(r) /\ entries[r].phase \notin {"reserved", "accepting"}
  <2>1. entries'[r] = entries[r]
    BY <1>5 DEF End
  <2> QED BY <1>1, <1>5, <2>1 DEF Known
<1> QED BY <1>2, <1>3, <1>4, <1>5

\* An end notes its cause in the outcome and nothing else.
LEMMA EndOutcome ==
  ASSUME IInv, NEW some \in SUBSET Recs, NEW cause \in {"stop", "pane_exit", "daemon_shutdown"},
         End(some, cause), NEW r \in Recs
  PROVE  /\ outcome'[r] \in Outcome
         /\ outcome'[r].status = outcome[r].status
         /\ outcome'[r].finalized = outcome[r].finalized
<1> USE DEF IInv, Types
<1>1. outcome[r] \in Outcome
  BY DEF FlowTypes
<1>2. CASE outcome'[r] = outcome[r]
  BY <1>1, <1>2
<1>3. CASE outcome'[r] # outcome[r]
  <2>1. PICK why \in {"stop", "pane_exit", "daemon_shutdown"} :
          outcome'[r] = [outcome[r] EXCEPT !.ended = why]
    BY <1>3 DEF End
  <2> QED BY <1>1, <2>1 DEF Outcome
<1> QED BY <1>2, <1>3

\* An end loses nothing that was admitted and frees no file before its writer is done.
LEMMA EndEffect ==
  ASSUME IInv, NEW some \in SUBSET Recs, NEW cause \in {"stop", "pane_exit", "daemon_shutdown"},
         End(some, cause),
         UNCHANGED <<admitting, start, opening, chan, writer, files, written, tee, reads, owed>>
  PROVE  /\ RegTypes' /\ FlowTypes' /\ Stages' /\ Verdicts' /\ Admissions' /\ Flow' /\ Ended'
         /\ Holders' /\ FileIntact'
<1> USE DEF IInv, Types
<1>1. \A r \in Recs :
        /\ entries'[r] = None <=> entries[r] = None
        /\ entries[r] # None =>
             /\ entries'[r] \in Entry
             /\ entries'[r].pane = entries[r].pane /\ entries'[r].file = entries[r].file
             /\ \/ entries'[r].phase = entries[r].phase /\ entries'[r].sink = entries[r].sink
                \/ /\ entries[r].phase = "accepting" /\ entries'[r].phase = "stopping"
                   /\ ~entries'[r].sink
  BY EndEntries
<1>2. \A r \in Recs :
        /\ outcome'[r] \in Outcome /\ outcome'[r].status = outcome[r].status
        /\ outcome'[r].finalized = outcome[r].finalized
  BY EndOutcome
<1>3. RegTypes'
  <2>1. \A r \in Recs : entries'[r] \in Entry \cup {None}
    BY <1>1 DEF RegTypes
  <2>2. entries' \in [Recs -> Entry \cup {None}]
    BY <2>1 DEF End
  <2> QED BY <2>2 DEF RegTypes
<1>4. FlowTypes'
  <2>1. outcome' \in [Recs -> Outcome]
    BY <1>2 DEF End
  <2> QED BY <2>1 DEF FlowTypes
<1>5. Stages'
  BY <1>1, <1>2 DEF Stages, Known, Live, Accepting
<1>6. Verdicts'
  BY <1>2 DEF Verdicts
<1>7. Admissions'
  BY <1>1 DEF Admissions, Known, PaneTypes
<1>8. Flow'
  BY <1>2 DEF Flow, Admitted
<1>9. Ended'
  BY <1>1 DEF Ended, Senders, Admitted, Known
<1>10. Holders'
  BY <1>1 DEF Holders, Owns, Stages, Live, Known
<1>11. FileIntact'
  BY <1>1 DEF FileIntact, Live, Known, Stages
<1> QED BY <1>3, <1>4, <1>5, <1>6, <1>7, <1>8, <1>9, <1>10, <1>11

\* A stop.
LEMMA StopKeeps ==
  ASSUME IInv, NEW r \in Recs, Stop(r)
  PROVE  IInv'
<1> USE DEF IInv, Types
<1>1. UNCHANGED <<admitting, start, opening, chan, writer, files, written, current, task, tee,
                  reads, owed, down>>
  BY DEF Stop, regVars, flowVars, paneVars
<1>2. End({r}, "stop")
  BY DEF Stop
<1>3. \A o \in Recs :
        /\ entries'[o] = None <=> entries[o] = None
        /\ entries[o] # None =>
             /\ entries'[o].pane = entries[o].pane
             /\ entries'[o].phase = "accepting" => entries[o].phase = "accepting"
             /\ o \in {r} => entries'[o].phase # "accepting"
  BY <1>2, EndEntries
<1>4. /\ RegTypes' /\ FlowTypes' /\ Stages' /\ Verdicts' /\ Admissions' /\ Flow' /\ Ended'
      /\ Holders' /\ FileIntact'
  BY <1>1, <1>2, EndEffect
<1>5. /\ PaneTypes' /\ Closing'
  BY <1>1, KeepPaneTypes, KeepClosing
<1>6. PaneWillEnd'
  BY <1>1, <1>3 DEF PaneWillEnd, Accepting, Known
<1>7. NothingAfterDrain'
  BY <1>1, <1>3 DEF NothingAfterDrain, TrackerEmpty
<1> QED BY <1>4, <1>5, <1>6, <1>7

\* The end of a pane leaves none of its recordings accepting.
LEMMA FinishPaneKeeps ==
  ASSUME IInv, NEW p \in Panes, FinishPane(p)
  PROVE  IInv'
<1> USE DEF IInv, Types
<1>1. UNCHANGED <<admitting, start, opening, chan, writer, files, written, current, tee, reads,
                  owed, down>>
  BY DEF FinishPane, regVars, flowVars, paneVars
<1>2. End(OfPane(p), "pane_exit") /\ OfPane(p) \in SUBSET Recs
  BY DEF FinishPane, OfPane
<1>3. \A o \in Recs :
        /\ entries'[o] = None <=> entries[o] = None
        /\ entries[o] # None =>
             /\ entries'[o].pane = entries[o].pane
             /\ entries'[o].phase = "accepting" => entries[o].phase = "accepting"
             /\ o \in OfPane(p) => entries'[o].phase # "accepting"
  BY <1>2, EndEntries
<1>4. task'[p] = "done" /\ \A q \in Panes \ {p} : task'[q] = task[q]
  BY DEF FinishPane, PaneTypes
<1>5. /\ RegTypes' /\ FlowTypes' /\ Stages' /\ Verdicts' /\ Admissions' /\ Flow' /\ Ended'
      /\ Holders' /\ FileIntact'
  BY <1>1, <1>2, EndEffect
<1>6. /\ Closing'
  BY <1>1, KeepClosing
<1>7. PaneTypes'
  BY <1>1 DEF PaneTypes, FinishPane
<1>8. PaneWillEnd'
  BY <1>1, <1>3, <1>4 DEF PaneWillEnd, Accepting, Known, OfPane, Stages
<1>9. NothingAfterDrain'
  BY <1>1, <1>3 DEF NothingAfterDrain, TrackerEmpty
<1> QED BY <1>5, <1>6, <1>7, <1>8, <1>9

\* Shutdown stops every recording.
LEMMA StopAllKeeps ==
  ASSUME IInv, StopAll
  PROVE  IInv'
<1> USE DEF IInv, Types
<1>1. UNCHANGED <<admitting, start, opening, chan, writer, files, written, current, task, tee,
                  reads, owed>>
  BY DEF StopAll, regVars, flowVars, paneVars
<1>2. End(Recs, "daemon_shutdown") /\ Recs \in SUBSET Recs
  BY DEF StopAll
<1>3. \A o \in Recs :
        /\ entries'[o] = None <=> entries[o] = None
        /\ entries[o] # None =>
             /\ entries'[o].pane = entries[o].pane
             /\ entries'[o].phase = "accepting" => entries[o].phase = "accepting"
             /\ o \in Recs => entries'[o].phase # "accepting"
  BY <1>2, EndEntries
<1>4. down = "closed" /\ down' = "draining"
  BY DEF StopAll
<1>5. /\ RegTypes' /\ FlowTypes' /\ Stages' /\ Verdicts' /\ Admissions' /\ Flow' /\ Ended'
      /\ Holders' /\ FileIntact'
  BY <1>1, <1>2, EndEffect
<1>6. PaneTypes'
  BY <1>1, <1>4 DEF PaneTypes
<1>7. PaneWillEnd'
  BY <1>1, <1>3 DEF PaneWillEnd, Accepting, Known
<1>8. Closing'
  BY <1>1, <1>4 DEF Closing
<1>9. NothingAfterDrain'
  BY <1>4 DEF NothingAfterDrain
<1> QED BY <1>5, <1>6, <1>7, <1>8, <1>9

(***************************************************************************)
(* The writer and its supervisor                                           *)
(***************************************************************************)

\* A chunk goes from the channel to the file, which no other writer has.
LEMMA WriteChunkKeeps ==
  ASSUME IInv, NEW r \in Recs, WriteChunk(r)
  PROVE  IInv'
<1> USE DEF IInv, Types
<1>1. UNCHANGED <<entries, admitting, start, opening, writer, outcome, current, task, tee,
                  reads, owed, down>>
  BY DEF WriteChunk, regVars, flowVars, paneVars
<1>2. /\ writer[r] = "running" /\ chan[r] # <<>> /\ chan[r] \in Seq(Nat) /\ written[r] \in Seq(Nat)
      /\ entries[r].file \in Files
  BY DEF WriteChunk, FlowTypes, Stages
<1>3. /\ chan'[r] = Tail(chan[r]) /\ written'[r] = Append(written[r], Head(chan[r]))
      /\ \A o \in Recs \ {r} : chan'[o] = chan[o] /\ written'[o] = written[o]
  BY DEF WriteChunk, FlowTypes
<1>4. /\ files'[entries[r].file] = Append(files[entries[r].file], Head(chan[r]))
      /\ \A f \in Files \ {entries[r].file} : files'[f] = files[f]
  BY <1>2 DEF WriteChunk, FlowTypes
<1>5. Head(chan[r]) \in Nat /\ Tail(chan[r]) \in Seq(Nat) /\ Len(Tail(chan[r])) = Len(chan[r]) - 1
  BY <1>2
<1>6. /\ RegTypes' /\ PaneTypes' /\ Stages' /\ Verdicts' /\ Admissions' /\ Ended' /\ Holders'
      /\ PaneWillEnd' /\ Closing' /\ NothingAfterDrain'
  BY <1>1, KeepRegTypes, KeepPaneTypes, KeepStages, KeepVerdicts, KeepAdmissions, KeepEnded,
     KeepHolders, KeepPaneWillEnd, KeepClosing, KeepNothingAfterDrain
<1>7. FlowTypes'
  <2>1. chan' \in [Recs -> Seq(Nat)]
    BY <1>5 DEF WriteChunk, FlowTypes
  <2>2. \A o \in Recs : Len(chan'[o]) <= Channel
    <3>1. Len(chan[r]) \in Nat /\ Len(chan[r]) <= Channel
      BY <1>2 DEF FlowTypes
    <3>2. Len(chan'[r]) <= Channel
      BY <1>3, <1>5, <3>1, ChannelAssumption
    <3> QED BY <1>3, <3>2 DEF FlowTypes
  <2>3. written' \in [Recs -> Seq(Nat)]
    BY <1>2, <1>5 DEF WriteChunk, FlowTypes
  <2>4. files' \in [Files -> Seq(Nat)]
    BY <1>2, <1>5 DEF WriteChunk, FlowTypes
  <2> QED BY <1>1, <2>1, <2>2, <2>3, <2>4 DEF FlowTypes
<1>8. Flow'
  <2>1. written'[r] \o chan'[r] = written[r] \o chan[r]
    BY <1>2, <1>3, MoveHead
  <2> QED BY <1>1, <1>2, <1>3, <2>1 DEF Flow, Admitted
<1>9. FileIntact'
  <2>1. \A o \in Recs \ {r} :
          writer[o] = "running" => entries[o].file \in Files \ {entries[r].file}
    BY <1>2 DEF Holders, Owns, Stages
  <2> QED BY <1>1, <1>2, <1>3, <1>4, <2>1 DEF FileIntact, Live, Known
<1> QED BY <1>6, <1>7, <1>8, <1>9

\* A failing writer loses its channel; its outcome will be an error.
LEMMA WriterFailsKeeps ==
  ASSUME IInv, NEW r \in Recs, WriterFails(r)
  PROVE  IInv'
<1> USE DEF IInv, Types
<1>1. UNCHANGED <<entries, admitting, start, opening, outcome, files, written, current, task,
                  tee, reads, owed, down>>
  BY DEF WriterFails, regVars, flowVars, paneVars
<1>2. /\ writer[r] = "running" /\ writer'[r] = "failed" /\ chan'[r] = <<>>
      /\ \A o \in Recs \ {r} : chan'[o] = chan[o] /\ writer'[o] = writer[o]
  BY DEF WriterFails, FlowTypes
<1>3. <<>> \in Seq(Nat) /\ Len(<<>>) = 0
  OBVIOUS
<1>4. /\ RegTypes' /\ PaneTypes' /\ PaneWillEnd' /\ Closing'
  BY <1>1, KeepRegTypes, KeepPaneTypes, KeepPaneWillEnd, KeepClosing
<1>5. FlowTypes'
  <2>1. chan' \in [Recs -> Seq(Nat)]
    BY <1>3 DEF WriterFails, FlowTypes
  <2>2. \A o \in Recs : Len(chan'[o]) <= Channel
    <3>1. Len(chan'[r]) <= Channel
      BY <1>2, <1>3, ChannelAssumption
    <3> QED BY <1>2, <3>1 DEF FlowTypes
  <2>3. writer' \in [Recs -> {"none", "running", "ended", "failed"}]
    BY DEF WriterFails, FlowTypes
  <2> QED BY <1>1, <2>1, <2>2, <2>3 DEF FlowTypes
<1>6. Stages'
  BY <1>1, <1>2 DEF Stages, Known, Live, Accepting
<1>7. Verdicts'
  BY <1>1, <1>2 DEF Verdicts
<1>8. Admissions'
  BY <1>1, <1>2 DEF Admissions, Known, PaneTypes
<1>9. Flow'
  BY <1>1, <1>2 DEF Flow, Admitted
<1>10. Ended'
  BY <1>1, <1>2 DEF Ended, Senders, Admitted, Known
<1>11. Holders'
  BY <1>1, <1>2 DEF Holders, Owns
<1>12. FileIntact'
  BY <1>1, <1>2 DEF FileIntact, Live, Known
<1>13. NothingAfterDrain'
  BY <1>1, <1>2 DEF NothingAfterDrain, TrackerEmpty
<1> QED BY <1>4, <1>5, <1>6, <1>7, <1>8, <1>9, <1>10, <1>11, <1>12, <1>13

\* A writer ends with its channel empty and nobody left to send to it.
LEMMA WriterEndsKeeps ==
  ASSUME IInv, NEW r \in Recs, WriterEnds(r)
  PROVE  IInv'
<1> USE DEF IInv, Types
<1>1. UNCHANGED <<entries, admitting, start, opening, chan, outcome, files, written, current,
                  task, tee, reads, owed, down>>
  BY DEF WriterEnds, regVars, flowVars, paneVars
<1>2. /\ writer[r] = "running" /\ writer'[r] = "ended" /\ chan[r] = <<>> /\ ~Senders(r)
      /\ \A o \in Recs \ {r} : writer'[o] = writer[o]
  BY DEF WriterEnds, FlowTypes
<1>3. /\ RegTypes' /\ PaneTypes' /\ PaneWillEnd' /\ Closing'
  BY <1>1, KeepRegTypes, KeepPaneTypes, KeepPaneWillEnd, KeepClosing
<1>4. FlowTypes'
  BY <1>1 DEF FlowTypes, WriterEnds
<1>5. Stages'
  BY <1>1, <1>2 DEF Stages, Known, Live, Accepting
<1>6. Verdicts'
  BY <1>1, <1>2 DEF Verdicts
<1>7. Admissions'
  BY <1>1, <1>2 DEF Admissions, Known, PaneTypes, Senders, Admitted
<1>8. Flow'
  BY <1>1, <1>2 DEF Flow, Admitted
<1>9. Ended'
  BY <1>1, <1>2 DEF Ended, Senders, Admitted, Known
<1>10. Holders'
  BY <1>1, <1>2 DEF Holders, Owns
<1>11. FileIntact'
  BY <1>1, <1>2 DEF FileIntact, Live, Known
<1>12. NothingAfterDrain'
  BY <1>1, <1>2 DEF NothingAfterDrain, TrackerEmpty
<1> QED BY <1>3, <1>4, <1>5, <1>6, <1>7, <1>8, <1>9, <1>10, <1>11, <1>12

\* What the supervisor publishes: final, an error if the writer failed, and
\* complete only if nothing was dropped.
LEMMA FinalOutcome ==
  ASSUME NEW o \in Outcome, ~o.finalized, o.status \in {"recording", "aborted"},
         NEW failed \in BOOLEAN
  PROVE  /\ Finalize(o, failed) \in Outcome /\ Finalize(o, failed).finalized
         /\ failed => Finalize(o, failed).status = "error"
         /\ Finalize(o, failed).status = "aborted" <=> ~failed /\ o.status = "aborted"
<1> DEFINE d == IF failed THEN Degrade(o, "error") ELSE o
<1>1. d \in Outcome /\ d.status = (IF failed THEN "error" ELSE o.status)
  <2>1. CASE failed
    <3>1. Worse("error", o.status) = "error"
      BY DEF Worse, Severity
    <3> QED BY <2>1, <3>1 DEF Degrade, Outcome, Severity
  <2> QED BY <2>1
<1>2. Finalize(o, failed) = [d EXCEPT !.status = Worse("complete", d.status), !.finalized = TRUE]
  BY <1>1 DEF Finalize, Outcome
<1>3. /\ d.status = "error" => Worse("complete", d.status) = "error"
      /\ d.status = "aborted" => Worse("complete", d.status) = "aborted"
      /\ d.status = "recording" => Worse("complete", d.status) = "complete"
  BY DEF Worse, Severity
<1> HIDE DEF d
<1> QED BY <1>1, <1>2, <1>3 DEF Outcome, Severity

\* The supervisor publishes the outcome of a writer that is done.
LEMMA SuperviseKeeps ==
  ASSUME IInv, NEW r \in Recs, Supervise(r)
  PROVE  IInv'
<1> USE DEF IInv, Types
<1>1. UNCHANGED <<admitting, start, opening, chan, writer, files, written, current, task, tee,
                  reads, owed, down>>
  BY DEF Supervise, regVars, flowVars, paneVars
<1>2. /\ writer[r] \in {"ended", "failed"} /\ ~outcome[r].finalized
      /\ outcome[r] \in Outcome /\ outcome[r].status \in {"recording", "aborted"}
      /\ entries[r] \in Entry /\ entries[r] # None
  BY DEF Supervise, FlowTypes, Verdicts, Stages, Known, RegTypes
<1>3. /\ outcome'[r] = Finalize(outcome[r], writer[r] = "failed")
      /\ \A o \in Recs \ {r} : outcome'[o] = outcome[o] /\ entries'[o] = entries[o]
  BY DEF Supervise, FlowTypes, RegTypes
<1>4. /\ outcome'[r] \in Outcome /\ outcome'[r].finalized
      /\ writer[r] = "failed" => outcome'[r].status = "error"
      /\ outcome'[r].status = "aborted" <=> writer[r] # "failed" /\ outcome[r].status = "aborted"
  BY <1>2, <1>3, FinalOutcome
<1>5. /\ entries'[r] \in Entry /\ entries'[r] # None /\ entries'[r].phase = "finalized"
      /\ ~entries'[r].sink /\ entries'[r].pane = entries[r].pane
  BY <1>2, NoneAssumption DEF Supervise, Entry, RegTypes
<1>6. /\ PaneTypes' /\ Closing'
  BY <1>1, KeepPaneTypes, KeepClosing
<1>7. RegTypes'
  BY <1>1, <1>5 DEF RegTypes, Supervise
<1>8. FlowTypes'
  BY <1>1, <1>3, <1>4 DEF FlowTypes, Supervise
<1>9. Stages'
  BY <1>1, <1>2, <1>3, <1>4, <1>5 DEF Stages, Known, Live, Accepting
<1>10. Verdicts'
  BY <1>1, <1>2, <1>3, <1>4 DEF Verdicts
<1>11. Admissions'
  BY <1>1, <1>2, <1>3, <1>5 DEF Admissions, Known, PaneTypes
<1>12. Flow'
  BY <1>1, <1>3, <1>4 DEF Flow, Admitted
<1>13. Ended'
  BY <1>1, <1>3, <1>5 DEF Ended, Senders, Admitted, Known
<1>14. Holders'
  BY <1>1, <1>2, <1>3 DEF Holders, Owns, Stages
<1>15. FileIntact'
  BY <1>1, <1>2, <1>3 DEF FileIntact, Live, Known
<1>16. PaneWillEnd'
  BY <1>1, <1>3, <1>5 DEF PaneWillEnd, Accepting, Known
<1>17. NothingAfterDrain'
  BY <1>1, <1>2 DEF NothingAfterDrain, TrackerEmpty
<1> QED BY <1>6, <1>7, <1>8, <1>9, <1>10, <1>11, <1>12, <1>13, <1>14, <1>15, <1>16, <1>17

\* An entry that is retired has a final outcome and no writer.
LEMMA RetireKeeps ==
  ASSUME IInv, NEW r \in Recs, Retire(r)
  PROVE  IInv'
<1> USE DEF IInv, Types
<1>1. UNCHANGED <<admitting, start, opening, chan, writer, outcome, files, written, current,
                  task, tee, reads, owed, down>>
  BY DEF Retire, regVars, flowVars, paneVars, Remove
<1>2. /\ outcome[r].finalized /\ entries'[r] = None
      /\ \A o \in Recs \ {r} : entries'[o] = entries[o]
  BY DEF Retire, Remove, RegTypes
<1>3. writer[r] \in {"ended", "failed"} /\ opening[r] = "idle"
  BY <1>2 DEF Verdicts, Stages
<1>4. /\ FlowTypes' /\ PaneTypes' /\ Verdicts' /\ Flow' /\ Closing'
  BY <1>1, KeepFlowTypes, KeepPaneTypes, KeepVerdicts, KeepFlow, KeepClosing
<1>5. RegTypes'
  BY <1>1 DEF RegTypes, Retire, Remove
<1>6. Stages'
  BY <1>1, <1>2, <1>3 DEF Stages, Known, Live, Accepting
<1>7. Admissions'
  BY <1>1, <1>2 DEF Admissions, Known, PaneTypes
<1>8. Ended'
  BY <1>1, <1>2 DEF Ended, Senders, Admitted, Known
<1>9. Holders'
  BY <1>1, <1>2, <1>3 DEF Holders, Owns, Stages
<1>10. FileIntact'
  BY <1>1, <1>2 DEF FileIntact, Live, Known
<1>11. PaneWillEnd'
  BY <1>1, <1>2 DEF PaneWillEnd, Accepting, Known
<1>12. NothingAfterDrain'
  BY <1>1, <1>2 DEF NothingAfterDrain, TrackerEmpty
<1> QED BY <1>4, <1>5, <1>6, <1>7, <1>8, <1>9, <1>10, <1>11, <1>12

(***************************************************************************)
(* The panes                                                               *)
(***************************************************************************)

\* A spawn finds no recording of its pane, and arms the cast it is given
\* before its task reads.
LEMMA SpawnKeeps ==
  ASSUME IInv, NEW p \in Panes, NEW cast \in Recs \cup {None}, Spawn(p, cast)
  PROVE  IInv'
<1> USE DEF IInv, Types
<1>1. UNCHANGED <<admitting, opening, chan, writer, outcome, files, written, tee, reads, owed,
                  down>>
  BY DEF Spawn, regVars, flowVars, paneVars
<1>2. /\ task[p] = "none" /\ task'[p] = "reading"
      /\ \A q \in Panes \ {p} : task'[q] = task[q]
  BY DEF Spawn, PaneTypes
<1>3. \A o \in Recs : Accepting(o) => task'[entries[o].pane] \in {"reading", "closing"}
  BY <1>2 DEF PaneWillEnd, Stages
<1>4. cast = None => UNCHANGED <<entries, start>>
  BY DEF Spawn
<1>5. cast # None /\ Commits(cast, p) =>
        /\ start[cast] = "prepared" /\ entries' = Committed(cast, p)
        /\ start' = [start EXCEPT ![cast] = "started"]
  BY DEF Spawn
<1>6. cast # None /\ ~Commits(cast, p) =>
        /\ start[cast] = "prepared" /\ Known(cast) /\ start' = [start EXCEPT ![cast] = "over"]
        /\ entries' = [entries EXCEPT ![cast].phase = "stopping"]
  BY DEF Spawn
<1>7. /\ RegTypes' /\ Stages' /\ Admissions' /\ Ended' /\ Holders' /\ FileIntact'
      /\ NothingAfterDrain'
  <2>1. CASE cast = None
    BY <1>1, <1>4, <2>1, KeepRegTypes, KeepStages, KeepAdmissions, KeepEnded,
       KeepHolders, KeepFileIntact, KeepNothingAfterDrain
  <2>2. CASE cast # None /\ Commits(cast, p)
    BY <1>1, <1>5, <2>2, CommitEffect
  <2>3. CASE cast # None /\ ~Commits(cast, p)
    BY <1>1, <1>6, <2>3, DropEffect
  <2> QED BY <2>1, <2>2, <2>3
<1>8. /\ FlowTypes' /\ Verdicts' /\ Flow' /\ Closing'
  BY <1>1, KeepFlowTypes, KeepVerdicts, KeepFlow, KeepClosing
<1>9. PaneTypes'
  <2>1. current' \in [Panes -> BOOLEAN]
    BY DEF Spawn, PaneTypes
  <2>2. task' \in [Panes -> {"none", "reading", "closing", "done"}]
    BY DEF Spawn, PaneTypes
  <2> QED BY <1>1, <2>1, <2>2 DEF PaneTypes
<1>10. PaneWillEnd'
  <2>1. CASE cast = None
    BY <1>3, <1>4, <2>1 DEF PaneWillEnd, Accepting, Known
  <2>2. CASE cast # None /\ Commits(cast, p)
    <3>1. /\ entries'[cast].pane = p
          /\ \A o \in Recs \ {cast} : entries'[o] = entries[o]
      BY <1>5, <2>2, NoneAssumption DEF Committed, RegTypes, Entry, Commits, Known
    <3> QED BY <1>2, <1>3, <2>2, <3>1 DEF PaneWillEnd, Accepting, Known
  <2>3. CASE cast # None /\ ~Commits(cast, p)
    <3>1. /\ entries'[cast].phase = "stopping"
          /\ \A o \in Recs \ {cast} : entries'[o] = entries[o]
      BY <1>6, <2>3 DEF RegTypes, Entry, Known
    <3> QED BY <1>3, <2>3, <3>1 DEF PaneWillEnd, Accepting, Known
  <2> QED BY <2>1, <2>2, <2>3
<1> QED BY <1>7, <1>8, <1>9, <1>10

\* A kill leaves the recordings to the PTY task.
LEMMA TeardownKeeps ==
  ASSUME IInv, NEW p \in Panes, Teardown(p)
  PROVE  IInv'
<1> USE DEF IInv, Types
<1>1. UNCHANGED <<entries, admitting, start, opening, chan, writer, outcome, files, written,
                  task, tee, reads, owed, down>>
  BY DEF Teardown, regVars, flowVars, paneVars
<1>2. /\ RegTypes' /\ FlowTypes' /\ Stages' /\ Verdicts' /\ Admissions' /\ Flow' /\ Ended'
      /\ Holders' /\ FileIntact' /\ PaneWillEnd' /\ Closing' /\ NothingAfterDrain'
  BY <1>1, KeepRegTypes, KeepFlowTypes, KeepStages, KeepVerdicts, KeepAdmissions, KeepFlow,
     KeepEnded, KeepHolders, KeepFileIntact, KeepPaneWillEnd, KeepClosing, KeepNothingAfterDrain
<1>3. PaneTypes'
  BY <1>1 DEF PaneTypes, Teardown
<1> QED BY <1>2, <1>3

\* A chunk is admitted to the recordings of its own pane that accept, each of which
\* has all that was admitted before it.
LEMMA ReadKeeps ==
  ASSUME IInv, NEW p \in Panes, Read(p)
  PROVE  IInv'
<1> USE DEF IInv, Types
<1>1. UNCHANGED <<entries, admitting, start, opening, chan, writer, outcome, files, written,
                  current, task, down>>
  BY DEF Read, regVars, flowVars, paneVars
<1>2. PICK to \in SUBSET Recs :
        /\ \A r \in to : /\ Known(r) /\ entries[r].pane = p /\ entries[r].sink
                         /\ entries[r].phase = "accepting"
        /\ tee' = [tee EXCEPT ![p] = to]
        /\ owed' = [r \in Recs |-> IF r \in to THEN Append(owed[r], reads'[p]) ELSE owed[r]]
  <2> DEFINE t == IF current[p] THEN {r \in OfPane(p) : Accepting(r) /\ entries[r].sink} ELSE {}
  <2>1. /\ t \in SUBSET Recs
        /\ \A r \in t : /\ Known(r) /\ entries[r].pane = p /\ entries[r].sink
                         /\ entries[r].phase = "accepting"
    BY DEF OfPane, Accepting
  <2>2. /\ tee' = [tee EXCEPT ![p] = t]
        /\ owed' = [r \in Recs |-> IF r \in t THEN Append(owed[r], reads'[p]) ELSE owed[r]]
    BY DEF Read
  <2> HIDE DEF t
  <2> QED BY <2>1, <2>2
<1>3. /\ tee[p] = {} /\ tee'[p] = to /\ reads'[p] = reads[p] + 1 /\ reads'[p] \in Nat
      /\ \A q \in Panes \ {p} : tee'[q] = tee[q] /\ reads'[q] = reads[q]
  BY <1>2 DEF Read, PaneTypes
<1>4. \A r \in to : \A q \in Panes : r \notin tee[q]
  BY <1>2, <1>3 DEF Admissions
<1>5. \A r \in to : writer[r] \in {"running", "failed"} /\ start[r] = "started"
  BY <1>2 DEF Stages, Accepting, Ended, Senders, FlowTypes
<1>6. /\ RegTypes' /\ Stages' /\ Verdicts' /\ Holders' /\ FileIntact' /\ PaneWillEnd' /\ Closing'
      /\ NothingAfterDrain'
  BY <1>1, KeepRegTypes, KeepStages, KeepVerdicts, KeepHolders, KeepFileIntact, KeepPaneWillEnd,
     KeepClosing, KeepNothingAfterDrain
<1>7. FlowTypes'
  <2>1. owed' \in [Recs -> Seq(Nat)]
    BY <1>2, <1>3 DEF FlowTypes
  <2> QED BY <1>1, <2>1 DEF FlowTypes
<1>8. PaneTypes'
  <2>1. tee' \in [Panes -> SUBSET Recs]
    BY <1>2 DEF PaneTypes
  <2>2. reads' \in [Panes -> Nat]
    BY DEF PaneTypes, Read
  <2> QED BY <1>1, <2>1, <2>2 DEF PaneTypes
<1>9. Admissions'
  <2>1. ASSUME NEW q \in Panes, NEW r \in tee'[q]
        PROVE  /\ writer[r] \in {"running", "failed"} /\ start[r] = "started"
               /\ Known(r) => entries[r].pane = q
               /\ \A x \in Panes : r \in tee'[x] => x = q
    <3>1. CASE q = p
      BY <1>2, <1>3, <1>4, <1>5, <3>1
    <3>2. CASE q # p
      BY <1>2, <1>3, <1>4, <3>2 DEF Admissions
    <3> QED BY <3>1, <3>2
  <2> QED BY <1>1, <2>1 DEF Admissions, Known
<1>10. Flow'
  <2> SUFFICES ASSUME NEW r \in Recs
               PROVE  /\ writer[r] # "running" => chan[r] = <<>>
                      /\ writer[r] = "none" => owed'[r] = <<>> /\ written[r] = <<>>
                      /\ writer[r] # "failed" /\ outcome[r].status # "aborted" =>
                           /\ ~(\E q \in Panes : r \in tee'[q]) => owed'[r] = written[r] \o chan[r]
                           /\ \A q \in Panes : r \in tee'[q] =>
                                owed'[r] = Append(written[r] \o chan[r], reads'[q])
    BY <1>1 DEF Flow, Admitted
  <2>1. CASE r \in to
    <3>1. owed'[r] = Append(owed[r], reads'[p])
      BY <1>2, <2>1
    <3>2. \A q \in Panes : r \in tee'[q] <=> q = p
      BY <1>3, <1>4, <2>1
    <3>3. writer[r] # "none"
      BY <1>5, <2>1
    <3>4. writer[r] # "failed" /\ outcome[r].status # "aborted" => owed[r] = written[r] \o chan[r]
      BY <1>4, <2>1 DEF Flow, Admitted
    <3> QED BY <3>1, <3>2, <3>3, <3>4 DEF Flow
  <2>2. CASE r \notin to
    <3>1. owed'[r] = owed[r]
      BY <1>2, <2>2
    <3>2. \A q \in Panes : /\ r \in tee'[q] <=> r \in tee[q]
                           /\ r \in tee[q] => reads'[q] = reads[q]
      BY <1>3, <2>2
    <3> QED BY <3>1, <3>2 DEF Flow, Admitted
  <2> QED BY <2>1, <2>2
<1>11. Ended'
  <2>1. \A r \in Recs : \A q \in Panes : r \in tee'[q] => r \in to \/ r \in tee[q]
    BY <1>3
  <2> QED BY <1>1, <1>5, <2>1 DEF Ended, Senders, Admitted, Known
<1> QED BY <1>6, <1>7, <1>8, <1>9, <1>10, <1>11

\* A chunk moves to the end of its channel, or is dropped by a writer that failed.
LEMMA SendKeeps ==
  ASSUME IInv, NEW p \in Panes, Send(p)
  PROVE  IInv'
<1> USE DEF IInv, Types
<1>1. UNCHANGED <<entries, admitting, start, opening, writer, outcome, files, written, current,
                  task, reads, owed, down>>
  BY DEF Send, regVars, flowVars, paneVars
<1>2. PICK r \in tee[p] :
        /\ writer[r] = "running" => Len(chan[r]) < Channel
        /\ chan' = IF writer[r] = "running" THEN [chan EXCEPT ![r] = Append(@, reads[p])] ELSE chan
        /\ tee' = [tee EXCEPT ![p] = @ \ {r}]
  BY DEF Send
<1>3. /\ r \in Recs /\ writer[r] \in {"running", "failed"}
      /\ reads[p] \in Nat /\ chan[r] \in Seq(Nat) /\ written[r] \in Seq(Nat)
  BY <1>2 DEF PaneTypes, Admissions, FlowTypes
<1>4. /\ tee'[p] = tee[p] \ {r} /\ \A q \in Panes \ {p} : tee'[q] = tee[q]
      /\ \A q \in Panes : r \notin tee'[q]
  BY <1>2 DEF PaneTypes, Admissions
<1>5. /\ \A o \in Recs \ {r} : chan'[o] = chan[o]
      /\ writer[r] = "running" => chan'[r] = Append(chan[r], reads[p])
      /\ writer[r] # "running" => chan' = chan
  BY <1>2, <1>3 DEF FlowTypes
<1>6. \A o \in Recs \ {r} : \A q \in Panes : o \in tee'[q] <=> o \in tee[q]
  BY <1>4
<1>7. /\ RegTypes' /\ Stages' /\ Verdicts' /\ Holders' /\ FileIntact' /\ PaneWillEnd' /\ Closing'
      /\ NothingAfterDrain'
  BY <1>1, KeepRegTypes, KeepStages, KeepVerdicts, KeepHolders, KeepFileIntact, KeepPaneWillEnd,
     KeepClosing, KeepNothingAfterDrain
<1>8. FlowTypes'
  <2>1. chan' \in [Recs -> Seq(Nat)]
    BY <1>2, <1>3 DEF FlowTypes
  <2>2. \A o \in Recs : Len(chan'[o]) <= Channel
    <3>1. writer[r] = "running" => Len(chan'[r]) = Len(chan[r]) + 1 /\ Len(chan[r]) < Channel
      BY <1>2, <1>3, <1>5
    <3>2. Len(chan'[r]) <= Channel
      <4>1. Len(chan[r]) \in Nat
        BY <1>3
      <4> QED BY <1>3, <1>5, <3>1, <4>1, ChannelAssumption DEF FlowTypes
    <3> QED BY <1>5, <3>2 DEF FlowTypes
  <2> QED BY <1>1, <2>1, <2>2 DEF FlowTypes
<1>9. PaneTypes'
  <2>1. tee' \in [Panes -> SUBSET Recs]
    BY <1>2 DEF PaneTypes
  <2> QED BY <1>1, <2>1 DEF PaneTypes
<1>10. Admissions'
  <2>1. \A q \in Panes : \A o \in tee'[q] : o \in tee[q]
    BY <1>4
  <2> QED BY <1>1, <2>1 DEF Admissions, Known
<1>11. Flow'
  <2>1. writer[r] = "running" /\ outcome[r].status # "aborted" => owed[r] = written[r] \o chan'[r]
    <3>1. writer[r] = "running" /\ outcome[r].status # "aborted" =>
            owed[r] = Append(written[r] \o chan[r], reads[p])
      BY <1>2, <1>3 DEF Flow
    <3>2. written[r] \o Append(chan[r], reads[p]) = Append(written[r] \o chan[r], reads[p])
      BY <1>3, AddLast
    <3> QED BY <1>5, <3>1, <3>2
  <2> SUFFICES ASSUME NEW o \in Recs
               PROVE  /\ writer[o] # "running" => chan'[o] = <<>>
                      /\ writer[o] = "none" => owed[o] = <<>> /\ written[o] = <<>>
                      /\ writer[o] # "failed" /\ outcome[o].status # "aborted" =>
                           /\ ~(\E q \in Panes : o \in tee'[q]) => owed[o] = written[o] \o chan'[o]
                           /\ \A q \in Panes : o \in tee'[q] =>
                                owed[o] = Append(written[o] \o chan'[o], reads[q])
    BY <1>1 DEF Flow, Admitted
  <2>2. CASE o = r
    BY <1>3, <1>4, <1>5, <2>1, <2>2 DEF Flow
  <2>3. CASE o # r
    BY <1>5, <1>6, <2>3 DEF Flow, Admitted
  <2> QED BY <2>2, <2>3
<1>12. Ended'
  <2>1. \A o \in Recs : \A q \in Panes : o \in tee'[q] => o \in tee[q]
    BY <1>4
  <2> QED BY <1>1, <2>1 DEF Ended, Senders, Admitted, Known
<1> QED BY <1>7, <1>8, <1>9, <1>10, <1>11, <1>12

\* A chunk that is dropped leaves its mark on the outcome first.
LEMMA DropAdmissionsKeeps ==
  ASSUME IInv, NEW p \in Panes, DropAdmissions(p)
  PROVE  IInv'
<1> USE DEF IInv, Types
<1>1. UNCHANGED <<entries, admitting, start, opening, chan, writer, files, written, current,
                  task, reads, owed, down>>
  BY DEF DropAdmissions, regVars, flowVars, paneVars
<1>2. /\ tee'[p] = {} /\ \A q \in Panes \ {p} : tee'[q] = tee[q]
      /\ \A r \in Recs :
           outcome'[r] = IF r \in tee[p] THEN Degrade(outcome[r], "aborted") ELSE outcome[r]
  BY DEF DropAdmissions, PaneTypes
<1>3. \A r \in tee[p] : outcome[r].finalized => outcome'[r] = outcome[r]
  BY <1>2 DEF Degrade, PaneTypes
<1>4. \A r \in tee[p] : ~outcome[r].finalized =>
        outcome'[r] \in Outcome /\ outcome'[r].status = "aborted" /\ ~outcome'[r].finalized
  <2> SUFFICES ASSUME NEW r \in tee[p], ~outcome[r].finalized
               PROVE  /\ outcome'[r] \in Outcome /\ outcome'[r].status = "aborted"
                      /\ ~outcome'[r].finalized
    OBVIOUS
  <2>1. r \in Recs /\ outcome[r] \in Outcome /\ outcome[r].status \in {"recording", "aborted"}
    BY DEF PaneTypes, FlowTypes, Verdicts
  <2>2. Worse("aborted", outcome[r].status) = "aborted"
    BY <2>1 DEF Worse, Severity
  <2>3. outcome'[r] = [outcome[r] EXCEPT !.status = "aborted"]
    BY <1>2, <2>1, <2>2 DEF Degrade
  <2> QED BY <2>1, <2>3 DEF Outcome, Severity
<1>5. \A r \in tee[p] : outcome[r].finalized => writer[r] = "failed"
  BY DEF Admissions, Verdicts, PaneTypes
<1>6. /\ RegTypes' /\ Holders' /\ FileIntact' /\ PaneWillEnd' /\ Closing' /\ NothingAfterDrain'
  BY <1>1, KeepRegTypes, KeepHolders, KeepFileIntact, KeepPaneWillEnd, KeepClosing,
     KeepNothingAfterDrain
<1>7. FlowTypes'
  <2>1. outcome' \in [Recs -> Outcome]
    <3>1. \A r \in Recs : outcome'[r] \in Outcome
      BY <1>2, <1>3, <1>4 DEF FlowTypes
    <3> QED BY <3>1 DEF DropAdmissions
  <2> QED BY <1>1, <2>1 DEF FlowTypes
<1>8. PaneTypes'
  <2>1. tee' \in [Panes -> SUBSET Recs]
    BY DEF PaneTypes, DropAdmissions
  <2> QED BY <1>1, <2>1 DEF PaneTypes
<1>9. Stages'
  <2>1. \A r \in Recs : outcome'[r].finalized <=> outcome[r].finalized
    BY <1>2, <1>3, <1>4
  <2> QED BY <1>1, <2>1 DEF Stages, Known, Live, Accepting
<1>10. Verdicts'
  BY <1>1, <1>2, <1>3, <1>4 DEF Verdicts
<1>11. Admissions'
  <2>1. \A q \in Panes : \A o \in tee'[q] : o \in tee[q]
    BY <1>2
  <2> QED BY <1>1, <2>1 DEF Admissions, Known
<1>12. Flow'
  <2> SUFFICES ASSUME NEW r \in Recs
               PROVE  /\ writer[r] # "running" => chan[r] = <<>>
                      /\ writer[r] = "none" => owed[r] = <<>> /\ written[r] = <<>>
                      /\ writer[r] # "failed" /\ outcome'[r].status # "aborted" =>
                           /\ ~(\E q \in Panes : r \in tee'[q]) => owed[r] = written[r] \o chan[r]
                           /\ \A q \in Panes : r \in tee'[q] =>
                                owed[r] = Append(written[r] \o chan[r], reads[q])
    BY <1>1 DEF Flow, Admitted
  <2>1. CASE r \in tee[p]
    BY <1>4, <1>5, <2>1 DEF Flow
  <2>2. CASE r \notin tee[p]
    <3>1. /\ outcome'[r] = outcome[r]
          /\ \A q \in Panes : r \in tee'[q] <=> r \in tee[q]
      BY <1>2, <2>2
    <3> QED BY <3>1 DEF Flow, Admitted
  <2> QED BY <2>1, <2>2
<1>13. Ended'
  <2>1. \A o \in Recs : \A q \in Panes : o \in tee'[q] => o \in tee[q]
    BY <1>2
  <2> QED BY <1>1, <2>1 DEF Ended, Senders, Admitted, Known
<1> QED BY <1>6, <1>7, <1>8, <1>9, <1>10, <1>11, <1>12, <1>13

\* A PTY task that closes its input has still to end its recordings.
LEMMA CloseInputKeeps ==
  ASSUME IInv, NEW p \in Panes, CloseInput(p)
  PROVE  IInv'
<1> USE DEF IInv, Types
<1>1. UNCHANGED <<entries, admitting, start, opening, chan, writer, outcome, files, written,
                  current, tee, reads, owed, down>>
  BY DEF CloseInput, regVars, flowVars, paneVars
<1>2. task'[p] = "closing" /\ \A q \in Panes \ {p} : task'[q] = task[q]
  BY DEF CloseInput, PaneTypes
<1>3. /\ RegTypes' /\ FlowTypes' /\ Stages' /\ Verdicts' /\ Admissions' /\ Flow' /\ Ended'
      /\ Holders' /\ FileIntact' /\ Closing' /\ NothingAfterDrain'
  BY <1>1, KeepRegTypes, KeepFlowTypes, KeepStages, KeepVerdicts, KeepAdmissions, KeepFlow,
     KeepEnded, KeepHolders, KeepFileIntact, KeepClosing, KeepNothingAfterDrain
<1>4. PaneTypes'
  BY <1>1 DEF PaneTypes, CloseInput
<1>5. PaneWillEnd'
  BY <1>1, <1>2 DEF PaneWillEnd, Accepting, Known, Stages
<1> QED BY <1>3, <1>4, <1>5

(***************************************************************************)
(* Shutdown                                                                *)
(***************************************************************************)

\* Shutdown begins.
LEMMA CancelKeeps ==
  ASSUME IInv, Cancel
  PROVE  IInv'
<1> USE DEF IInv, Types
<1>1. UNCHANGED <<entries, admitting, start, opening, chan, writer, outcome, files, written,
                  current, task, tee, reads, owed>>
  BY DEF Cancel, regVars, flowVars, paneVars
<1>2. down' = "cancelled"
  BY DEF Cancel
<1>3. /\ RegTypes' /\ FlowTypes' /\ Stages' /\ Verdicts' /\ Admissions' /\ Flow' /\ Ended'
      /\ Holders' /\ FileIntact' /\ PaneWillEnd'
  BY <1>1, KeepRegTypes, KeepFlowTypes, KeepStages, KeepVerdicts, KeepAdmissions, KeepFlow,
     KeepEnded, KeepHolders, KeepFileIntact, KeepPaneWillEnd
<1>4. PaneTypes'
  BY <1>1, <1>2 DEF PaneTypes
<1>5. Closing'
  BY <1>2 DEF Closing
<1>6. NothingAfterDrain'
  BY <1>2 DEF NothingAfterDrain
<1> QED BY <1>3, <1>4, <1>5, <1>6

\* Shutdown takes no more recordings.
LEMMA CloseAdmissionKeeps ==
  ASSUME IInv, CloseAdmission
  PROVE  IInv'
<1> USE DEF IInv, Types
<1>1. UNCHANGED <<entries, start, opening, chan, writer, outcome, files, written, task, tee,
                  reads, owed>>
  BY DEF CloseAdmission, regVars, flowVars, paneVars
<1>2. down' = "closed" /\ admitting' = FALSE /\ current' = [p \in Panes |-> FALSE]
  BY DEF CloseAdmission
<1>3. /\ FlowTypes' /\ Stages' /\ Verdicts' /\ Admissions' /\ Flow' /\ Ended'
         /\ Holders'
      /\ FileIntact' /\ PaneWillEnd'
  BY <1>1, KeepFlowTypes, KeepStages, KeepVerdicts, KeepAdmissions, KeepFlow, KeepEnded,
     KeepHolders, KeepFileIntact, KeepPaneWillEnd
<1>4. RegTypes'
  BY <1>1, <1>2 DEF RegTypes
<1>5. PaneTypes'
  BY <1>1, <1>2 DEF PaneTypes
<1>6. Closing'
  BY <1>2 DEF Closing
<1>7. NothingAfterDrain'
  BY <1>2 DEF NothingAfterDrain
<1> QED BY <1>3, <1>4, <1>5, <1>6, <1>7

\* A shutdown that reports every recording finished has seen the tracker empty.
LEMMA DrainKeeps ==
  ASSUME IInv, Drain
  PROVE  IInv'
<1> USE DEF IInv, Types
<1>1. UNCHANGED <<entries, admitting, start, opening, chan, writer, outcome, files, written,
                  current, task, tee, reads, owed>>
  BY DEF Drain, regVars, flowVars, paneVars
<1>2. /\ down = "draining" /\ down' \in {"clean", "late"}
      /\ down' = "clean" => TrackerEmpty
  BY DEF Drain
<1>3. /\ RegTypes' /\ FlowTypes' /\ Stages' /\ Verdicts' /\ Admissions' /\ Flow' /\ Ended'
      /\ Holders' /\ FileIntact' /\ PaneWillEnd'
  BY <1>1, KeepRegTypes, KeepFlowTypes, KeepStages, KeepVerdicts, KeepAdmissions, KeepFlow,
     KeepEnded, KeepHolders, KeepFileIntact, KeepPaneWillEnd
<1>4. PaneTypes'
  BY <1>1, <1>2 DEF PaneTypes
<1>5. Closing'
  BY <1>1, <1>2 DEF Closing
<1>6. NothingAfterDrain'
  BY <1>1, <1>2 DEF NothingAfterDrain, TrackerEmpty
<1> QED BY <1>3, <1>4, <1>5, <1>6

(***************************************************************************)
(* The theorems                                                            *)
(***************************************************************************)

\* The registry starts empty.
LEMMA InitInv == Init => IInv
<1> SUFFICES ASSUME Init PROVE IInv
  OBVIOUS
<1> USE DEF IInv, Types
<1>1. <<>> \in Seq(Nat) /\ Len(<<>>) = 0
  OBVIOUS
<1>2. RegTypes
  BY DEF Init, RegTypes
<1>3. FlowTypes
  <2>1. NewOutcome \in Outcome
    BY DEF NewOutcome, Outcome, Severity
  <2>2. /\ chan \in [Recs -> Seq(Nat)] /\ written \in [Recs -> Seq(Nat)]
        /\ owed \in [Recs -> Seq(Nat)] /\ files \in [Files -> Seq(Nat)]
    BY <1>1 DEF Init
  <2>3. \A r \in Recs : Len(chan[r]) <= Channel
    BY <1>1, ChannelAssumption DEF Init
  <2>4. outcome \in [Recs -> Outcome] /\ writer \in [Recs -> {"none", "running", "ended", "failed"}]
    BY <2>1 DEF Init
  <2> QED BY <2>2, <2>3, <2>4 DEF FlowTypes
<1>4. PaneTypes
  BY DEF Init, PaneTypes
<1>5. Stages
  BY DEF Init, Stages, Known, Live, Accepting
<1>6. Verdicts /\ Ended
  BY DEF Init, Verdicts, Ended, NewOutcome
<1>7. Admissions
  BY DEF Init, Admissions
<1>8. Flow
  <2>1. <<>> \o <<>> = <<>>
    BY <1>1, NothingLeft
  <2> QED BY <2>1 DEF Init, Flow
<1>9. Holders /\ FileIntact /\ PaneWillEnd
  BY DEF Init, Holders, Owns, FileIntact, Live, PaneWillEnd, Accepting, Known
<1>10. Closing /\ NothingAfterDrain
  BY DEF Init, Closing, NothingAfterDrain
<1> QED BY <1>2, <1>3, <1>4, <1>5, <1>6, <1>7, <1>8, <1>9, <1>10

\* No step breaks the invariant.
LEMMA NextInv == IInv /\ [Next]_vars => IInv'
<1> SUFFICES ASSUME IInv, [Next]_vars PROVE IInv'
  OBVIOUS
<1>1. ASSUME NEW r \in Recs, NEW q \in Asks[r], Reserve(r, q[1], q[2])
      PROVE  IInv'
  <2>1. q[1] \in Panes \cup {None} /\ q[2] \in Paths
    BY AsksAssumption DEF Request
  <2> QED BY <1>1, <2>1, ReserveKeeps
<1>22. ASSUME NEW r \in Recs, NEW q \in Asks[r], Ask(r, q[1], q[2])
       PROVE  IInv'
  <2>1. /\ start[r] \in {"idle", "asked"} /\ start' = [start EXCEPT ![r] = "asked"]
        /\ UNCHANGED <<entries, admitting, opening, flowVars, paneVars, down>>
    BY <1>22 DEF Ask
  <2>2. "asked" \in {"idle", "asked"}
    OBVIOUS
  <2> QED BY <2>1, <2>2, AskKeeps
<1>23. ASSUME NEW r \in Recs, AskFails(r)
       PROVE  IInv'
  <2>1. /\ start[r] \in {"idle", "asked"} /\ start' = [start EXCEPT ![r] = "idle"]
        /\ UNCHANGED <<entries, admitting, opening, flowVars, paneVars, down>>
    BY <1>23 DEF AskFails
  <2>2. "idle" \in {"idle", "asked"}
    OBVIOUS
  <2> QED BY <2>1, <2>2, AskKeeps
<1>2. ASSUME NEW r \in Recs, OpenFails(r) \/ OpenFindsTaken(r) \/ TruncateFails(r)
      PROVE  IInv'
  <2>1. opening[r] # "idle" /\ Refuse(r)
    BY <1>2 DEF OpenFails, OpenFindsTaken, TruncateFails
  <2> QED BY <2>1, RefuseKeeps
<1>3. ASSUME NEW r \in Recs, OpenTakesFile(r) PROVE IInv'
  BY <1>3, OpenTakesFileKeeps
<1>4. ASSUME NEW r \in Recs, Launch(r) PROVE IInv'
  BY <1>4, LaunchKeeps
<1>5. ASSUME NEW r \in Recs, Abandon(r) \/ CommitRefused(r) PROVE IInv'
  BY <1>5, AbandonKeeps DEF CommitRefused
<1>6. ASSUME NEW r \in Recs, Commit(r) PROVE IInv'
  BY <1>6, CommitKeeps
<1>7. ASSUME NEW r \in Recs, Stop(r) PROVE IInv'
  BY <1>7, StopKeeps
<1>8. ASSUME NEW r \in Recs, WriteChunk(r) PROVE IInv'
  BY <1>8, WriteChunkKeeps
<1>9. ASSUME NEW r \in Recs, WriterFails(r) PROVE IInv'
  BY <1>9, WriterFailsKeeps
<1>10. ASSUME NEW r \in Recs, WriterEnds(r) PROVE IInv'
  BY <1>10, WriterEndsKeeps
<1>11. ASSUME NEW r \in Recs, Supervise(r) PROVE IInv'
  BY <1>11, SuperviseKeeps
<1>12. ASSUME NEW r \in Recs, Retire(r) PROVE IInv'
  BY <1>12, RetireKeeps
<1>13. ASSUME NEW p \in Panes, NEW cast \in Recs \cup {None}, Spawn(p, cast) PROVE IInv'
  BY <1>13, SpawnKeeps
<1>14. ASSUME NEW p \in Panes, Teardown(p) PROVE IInv'
  BY <1>14, TeardownKeeps
<1>15. ASSUME NEW p \in Panes, Read(p) PROVE IInv'
  BY <1>15, ReadKeeps
<1>16. ASSUME NEW p \in Panes, Send(p) PROVE IInv'
  BY <1>16, SendKeeps
<1>17. ASSUME NEW p \in Panes, DropAdmissions(p) PROVE IInv'
  BY <1>17, DropAdmissionsKeeps
<1>18. ASSUME NEW p \in Panes, CloseInput(p) PROVE IInv'
  BY <1>18, CloseInputKeeps
<1>19. ASSUME NEW p \in Panes, FinishPane(p) PROVE IInv'
  BY <1>19, FinishPaneKeeps
<1>20. CASE Cancel \/ CloseAdmission \/ StopAll \/ Drain
  BY <1>20, CancelKeeps, CloseAdmissionKeeps, StopAllKeeps, DrainKeeps
<1>21. CASE UNCHANGED vars
  <2>1. UNCHANGED <<entries, admitting, start, opening, chan, writer, outcome, files, written,
                    current, task, tee, reads, owed, down>>
    BY <1>21 DEF vars, regVars, flowVars, paneVars
  <2> QED BY <2>1, KeepRegTypes, KeepFlowTypes, KeepPaneTypes, KeepStages, KeepVerdicts,
             KeepAdmissions, KeepFlow, KeepEnded, KeepHolders, KeepFileIntact, KeepPaneWillEnd,
             KeepClosing, KeepNothingAfterDrain DEF IInv, Types
<1> QED BY <1>1, <1>2, <1>3, <1>4, <1>5, <1>6, <1>7, <1>8, <1>9, <1>10, <1>11, <1>12, <1>13,
           <1>14, <1>15, <1>16, <1>17, <1>18, <1>19, <1>20, <1>21, <1>22, <1>23 DEF Next

\* The invariant holds throughout.
LEMMA Invariance == Spec => []IInv
<1>1. Init => IInv
  BY InitInv
<1>2. IInv /\ [Next]_vars => IInv'
  BY NextInv
<1> QED BY <1>1, <1>2, PTL DEF Spec

\* What a start asks for is a request it may make.
AskTypes == ask \in [Recs -> Request \cup {None}]

\* Only the start itself writes down what it asks for.
LEMMA AskTypesHold == Spec => []AskTypes
<1>1. Init => AskTypes
  BY DEF Init, AskTypes
<1>2. AskTypes /\ [Next]_vars => AskTypes'
  <2> SUFFICES ASSUME AskTypes, [Next]_vars PROVE AskTypes'
    OBVIOUS
  <2>1. ASSUME NEW r \in Recs, NEW q \in Asks[r], Ask(r, q[1], q[2]) PROVE AskTypes'
    <3>1. q \in Request /\ <<q[1], q[2]>> \in Request
      BY AsksAssumption DEF Request
    <3> QED BY <2>1, <3>1 DEF AskTypes, Ask
  <2>2. ASSUME NEW r \in Recs, NEW q \in Asks[r], Reserve(r, q[1], q[2]) PROVE AskTypes'
    BY <2>2 DEF AskTypes, Reserve
  <2>3. ASSUME NEW r \in Recs, AskFails(r) PROVE AskTypes'
    BY <2>3 DEF AskTypes, AskFails
  <2>4. ASSUME NEW r \in Recs,
               \/ OpenFails(r) \/ OpenFindsTaken(r) \/ OpenTakesFile(r) \/ TruncateFails(r)
               \/ Launch(r) \/ Abandon(r) \/ Commit(r) \/ CommitRefused(r) \/ Stop(r)
        PROVE  AskTypes'
    BY <2>4 DEF AskTypes, OpenFails, OpenFindsTaken, OpenTakesFile, TruncateFails, Refuse, Launch,
       Abandon, Commit, CommitRefused, Stop
  <2>5. ASSUME NEW r \in Recs,
               WriteChunk(r) \/ WriterFails(r) \/ WriterEnds(r) \/ Supervise(r) \/ Retire(r)
        PROVE  AskTypes'
    BY <2>5 DEF AskTypes, WriteChunk, WriterFails, WriterEnds, Supervise, Retire, regVars
  <2>6. ASSUME NEW p \in Panes, NEW cast \in Recs \cup {None}, Spawn(p, cast) PROVE AskTypes'
    BY <2>6 DEF AskTypes, Spawn
  <2>7. ASSUME NEW p \in Panes,
               \/ Teardown(p) \/ Read(p) \/ Send(p) \/ DropAdmissions(p) \/ CloseInput(p)
               \/ FinishPane(p)
        PROVE  AskTypes'
    BY <2>7 DEF AskTypes, Teardown, Read, Send, DropAdmissions, CloseInput, FinishPane, regVars
  <2>8. CASE Cancel \/ CloseAdmission \/ StopAll \/ Drain
    BY <2>8 DEF AskTypes, Cancel, CloseAdmission, StopAll, Drain, regVars
  <2>9. CASE UNCHANGED vars
    BY <2>9 DEF AskTypes, vars, regVars
  <2> QED BY <2>1, <2>2, <2>3, <2>4, <2>5, <2>6, <2>7, <2>8, <2>9 DEF Next
<1> QED BY <1>1, <1>2, PTL DEF Spec

\* Whatever the requests, registry, channels, outcomes and panes stay well
\* typed, and a PTY task never adds to a full channel (send_bytes).
THEOREM TypeCorrect == Spec => []TypeOK
<1>1. IInv /\ AskTypes => TypeOK
  BY DEF IInv, Types, RegTypes, FlowTypes, PaneTypes, TypeOK, AskTypes
<1> QED BY <1>1, Invariance, AskTypesHold, PTL

\* "lossless": a recording reported complete has in its file every chunk that
\* was admitted to it, in order, for every channel capacity and whatever
\* backpressure, cancellation, kill or shutdown came between.
THEOREM LosslessHolds == Spec => []Lossless
<1>1. IInv => Lossless
  <2> SUFFICES ASSUME IInv, NEW r \in Recs, outcome[r].finalized, outcome[r].status = "complete"
               PROVE  written[r] = owed[r]
    BY DEF Lossless
  <2> USE DEF IInv, Types
  <2>1. writer[r] = "ended"
    BY DEF Verdicts
  <2>2. chan[r] = <<>> /\ ~Admitted(r)
    BY <2>1 DEF Flow, Ended, Senders
  <2>3. owed[r] = written[r] \o <<>>
    BY <2>1, <2>2 DEF Flow
  <2>4. written[r] \in Seq(Nat)
    BY DEF FlowTypes
  <2> QED BY <2>3, <2>4, NothingLeft
<1> QED BY <1>1, Invariance, PTL

\* A live recording's file holds what it wrote and nothing else, under
\* whichever names the recordings' files were found (the (device, inode) check
\* of open).
THEOREM FileIntactHolds == Spec => []FileIntact
<1>1. IInv => FileIntact
  BY DEF IInv
<1> QED BY <1>1, Invariance, PTL

\* No recording outlives its pane's PTY task or a shutdown that reports every
\* recording finished, even when its reservation was made after the task had
\* ended the pane's recordings (finish_pane_recorders, Recordings::drain).
THEOREM NoneOutlivesHolds == Spec => []NoneOutlives
<1>1. IInv => NoneOutlives
  BY DEF IInv, NoneOutlives
<1> QED BY <1>1, Invariance, PTL

=============================================================================
