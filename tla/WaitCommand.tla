----------------------------- MODULE WaitCommand -----------------------------
(***************************************************************************)
(* `pane.wait_command` (crates/shux/src/rpc/wait_command.rs): one call     *)
(* waits for the first command that started in the pane's shell after a    *)
(* floor, as the shell's OSC 133 marks tell the terminal                   *)
(* (crates/shux-vt/src/commands.rs).                                       *)
(*                                                                         *)
(* The call reads the graph and then the terminal, and between the two the *)
(* shell goes on.  A command that ended must not be reported as a pane     *)
(* that went, nor another command than the one waited for.  The watch      *)
(* commands_ended only ends a wait earlier than WAIT_REPOLL would.  No     *)
(* caller starts a second program in a pane that had one, so the answer    *)
(* "respawned" does not come.                                              *)
(***************************************************************************)
EXTENDS PaneLife, FiniteSets

CONSTANTS
    KeepEnded,          \* KEEP_ENDED, the commands a terminal remembers
    MaxStamp            \* bound of the exploration: stamps handed out

ASSUME KeepAssumption == KeepEnded \in Nat \ {0} /\ MaxStamp \in Nat
ASSUME NoCommandAssumption == None \notin Nat \cup {"exited", "killed"}

VARIABLES
    stamp,      \* GENERATION, the newest stamp handed out
    open,       \* CommandBoundaries: the running command's start, or None,
    kept,       \* the start stamps of the ended commands it remembers,
    dropped,    \* and dropped_through
    told,       \* every command that has ended, by its start stamp
    cpc,        \* where the call is
    floor,      \* the call's floor
    pinned,     \* the call's incarnation is known
    over,       \* the call's `ended`: None, "exited" or "killed"
    due,        \* the deadline is past
    had,        \* the command had ended when the call came
    reply       \* the outcome and the command, by its start stamp

shellVars == <<stamp, open, kept, dropped, told>>
commandCall == <<cpc, floor, pinned, over, due, had, reply>>

CommandInit ==
    /\ stamp = 0 /\ open = None /\ kept = <<>> /\ dropped = 0 /\ told = <<>>
    /\ cpc = "idle" /\ floor = 0 /\ pinned = FALSE /\ over = None /\ due = FALSE
    /\ had = FALSE /\ reply = None

-----------------------------------------------------------------------------
(* The shell, as its terminal reads it                                     *)

\* The pane's task feeds the terminal under the I/O lock; all output is read
\* before the exit is recorded
Reading == ran /\ exit = None

\* CommandBoundaries::close
Close ==
    /\ kept' = IF Len(kept) = KeepEnded THEN Append(Tail(kept), open) ELSE Append(kept, open)
    /\ dropped' = IF Len(kept) = KeepEnded THEN Head(kept) ELSE dropped
    /\ told' = Append(told, open)

\* 133;C: ends a command that never reported, and takes a stamp
CommandStarts ==
    /\ Reading
    /\ \/ open = None /\ stamp' = stamp + 1 /\ UNCHANGED <<kept, dropped, told>>
       \/ open # None /\ stamp' = stamp + 2 /\ Close
    /\ stamp' <= MaxStamp
    /\ open' = stamp'
    /\ UNCHANGED <<paneVars, ioVars, commandCall>>

\* 133;D, or the prompt 133;A; neither does anything between commands
CommandEnds ==
    /\ Reading /\ open # None /\ stamp < MaxStamp
    /\ stamp' = stamp + 1
    /\ Close
    /\ open' = None
    /\ UNCHANGED <<paneVars, ioVars, commandCall>>

-----------------------------------------------------------------------------
(* The call                                                                *)

\* An outcome without a command
Outcome(w) == [what |-> w, command |-> None]

\* Where in s the commands are that started after the floor
After(s, f) == {i \in DOMAIN s : s[i] > f}

\* The first of them
Found(s, f) == s[CHOOSE i \in After(s, f) : \A j \in After(s, f) : i <= j]

\* CommandBoundaries::first_after
FirstAfter(f) ==
    CASE f < dropped -> Outcome("overrun")
      [] f >= dropped /\ After(kept, f) # {}
            -> [what |-> "completed", command |-> Found(kept, f)]
      [] OTHER -> Outcome("pending")

Reply(r) == cpc' = "replied" /\ reply' = r

\* The handler: a pane that is not in the snapshot is not found
Ask ==
    /\ cpc = "idle"
    /\ \/ live /\ cpc' = "pin" /\ UNCHANGED reply
       \/ ~live /\ Reply(Outcome("not_found"))
    /\ UNCHANGED <<paneVars, ioVars, shellVars, floor, pinned, over, due, had>>

\* wait_command, up to its loop: the floor and the incarnation in one hold of
\* the lock.  `after` is a stamp handed out before; without it the newest one
Pin ==
    /\ cpc = "pin"
    /\ floor' \in 0..stamp
    /\ pinned' = ran
    /\ had' = (ran /\ After(told, floor') # {})
    /\ cpc' = "snapshot"
    /\ UNCHANGED <<paneVars, ioVars, shellVars, over, due, reply>>

\* The graph is read before the terminal
ReadEnded ==
    /\ cpc = "snapshot"
    /\ over' = IF ~live THEN "killed" ELSE IF exit # None THEN "exited" ELSE None
    /\ cpc' = "look up"
    /\ UNCHANGED <<paneVars, ioVars, shellVars, floor, pinned, due, had, reply>>

Gone == IF over = None THEN "killed" ELSE over

\* No command is found and the pane has not ended
Undecided ==
    \/ due /\ Reply(Outcome("timeout"))
    \/ ~due /\ cpc' = "asleep" /\ UNCHANGED reply

\* Mutant: the end of the pane decides before its terminal is asked
LookUpLast ==
    /\ cpc = "look up"
    /\ pinned' = (pinned \/ ran)
    /\ \/ over # None /\ Reply(Outcome(over))
       \/ over = None /\ ran /\ FirstAfter(floor).what # "pending" /\ Reply(FirstAfter(floor))
       \/ over = None /\ ran /\ FirstAfter(floor).what = "pending" /\ Undecided
       \/ over = None /\ ~ran /\ pinned /\ Reply(Outcome("killed"))
       \/ over = None /\ ~ran /\ ~pinned /\ Undecided
    /\ UNCHANGED <<paneVars, ioVars, shellVars, floor, over, due, had>>

\* Under the I/O lock: the terminal's answer if there is one, and what its
\* absence means; then the end that was read before, then the deadline
LookUp ==
    /\ cpc = "look up"
    /\ pinned' = (pinned \/ ran)
    /\ \/ ran /\ FirstAfter(floor).what # "pending" /\ Reply(FirstAfter(floor))
       \/ ran /\ FirstAfter(floor).what = "pending" /\ over = None /\ Undecided
       \/ ran /\ FirstAfter(floor).what = "pending" /\ over # None /\ Reply(Outcome(over))
       \/ ~ran /\ (over # None \/ pinned) /\ Reply(Outcome(Gone))
       \/ ~ran /\ over = None /\ ~pinned /\ failed /\ flight = "no" /\ Reply(Outcome("not_started"))
       \/ ~ran /\ over = None /\ ~pinned /\ (~failed \/ flight # "no") /\ Undecided
    /\ UNCHANGED <<paneVars, ioVars, shellVars, floor, over, due, had>>

\* timeout_at: a command's end, WAIT_REPOLL or the deadline
WakeUp ==
    /\ cpc = "asleep"
    /\ cpc' = "snapshot"
    /\ UNCHANGED <<paneVars, ioVars, shellVars, floor, pinned, over, due, had, reply>>

DeadlinePasses ==
    /\ cpc \in {"snapshot", "look up", "asleep"} /\ ~due
    /\ due' = TRUE
    /\ UNCHANGED <<paneVars, ioVars, shellVars, cpc, floor, pinned, over, had, reply>>

CommandHandler == Pin \/ ReadEnded \/ LookUp \/ WakeUp

CommandNext == CommandStarts \/ CommandEnds \/ Ask \/ CommandHandler \/ DeadlinePasses

-----------------------------------------------------------------------------
(* Properties                                                              *)

\* The types of the shell's and the call's variables.
CommandTypeOK ==
    /\ stamp \in 0..MaxStamp /\ open \in 1..MaxStamp \cup {None}
    /\ kept \in Seq(1..MaxStamp) /\ Len(kept) <= KeepEnded
    /\ dropped \in 0..MaxStamp /\ told \in Seq(1..MaxStamp)
    /\ cpc \in {"idle", "pin", "snapshot", "look up", "asleep", "replied"}
    /\ floor \in 0..stamp /\ pinned \in BOOLEAN /\ due \in BOOLEAN /\ had \in BOOLEAN
    /\ over \in {None, "exited", "killed"}
    /\ (reply # None) = (cpc = "replied")

\* The outcome is about the command that was asked for and no other.  The
\* command reported is the first of all that started after the floor, never
\* the one that was running; when that one is no longer remembered the answer
\* says so; a pane is said to have exited without it only if it did, though
\* the last output and the exit come between the call's two looks; and a
\* timeout, even of 0 ms, does not hide a command that had ended
\* (wait_command, CommandBoundaries::first_after).
CommandTruly ==
    reply # None =>
        CASE reply.what = "completed" -> reply.command = Found(told, floor)
          [] reply.what = "overrun" -> Cardinality(After(told, floor)) > KeepEnded
          [] reply.what = "exited" -> exit # None /\ (live => After(told, floor) = {})
          [] reply.what = "killed" -> ~live
          [] reply.what = "timeout" -> ~had
          [] OTHER -> TRUE

CommandWaiting == cpc \notin {"idle", "replied"}

=============================================================================
