------------------------------- MODULE Settle -------------------------------
(***************************************************************************)
(* `pane.wait_settled` (crates/shux/src/rpc/pane_io.rs, settle.rs and      *)
(* crates/shux-vt/src/settle.rs): one call waits until a pane's screen is  *)
(* still, or its timeout.                                                  *)
(*                                                                         *)
(* In quiet mode still means that no revision came for `quiet`; in         *)
(* stability mode that the frame held for `hold`, or over `frames`         *)
(* revisions in a row.  The call reads the revision watch, which keeps the *)
(* last value only, and the frame; the terminal goes on between any two of *)
(* its steps, and so does the clock.  The two arms of select! that are     *)
(* both ready are taken in either order.  That a frame has one revision is *)
(* RevisionCovers of module Terminal.                                      *)
(***************************************************************************)
EXTENDS Naturals, Sequences

CONSTANTS
    Frames,             \* what the masked screen can show
    Blank,              \* what a new terminal shows
    Asks,               \* the parameters a call may have
    MaxRev,             \* bound of the exploration: revisions
    MaxNow,             \* bound of the exploration: the clock
    Unset               \* Option::None

ASSUME BlankAssumption == Blank \in Frames
ASSUME AsksAssumption == Asks \subseteq [quiet : Nat, hold : Nat, frames : Nat, timeout : Nat]
ASSUME ClockAssumption == MaxRev \in Nat \ {0} /\ MaxNow \in Nat
ASSUME UnsetAssumption == Unset \notin [rev : Nat, frame : Frames, run : Nat, change : Nat]

VARIABLES
    term,       \* the pane's terminal and publisher: "none" yet, "up" or "gone"
    now,        \* the monotonic clock
    shown,      \* the frame of each revision so far; the last is on the screen
    since,      \* when each of them came
    spc,        \* where the call is
    ask,        \* its parameters
    until,      \* timeout_deadline
    seen,       \* the receiver's version: the last revision it was given
    looked,     \* when the quiet loop last read the clock
    wake,       \* when the sleep ends
    stable,     \* FrameStability
    verdict     \* the answer

screenVars == <<term, now, shown, since>>
settleCall == <<spc, ask, until, seen, looked, wake, stable, verdict>>

SettleInit ==
    /\ term = "none" /\ now = 0 /\ shown = <<Blank>> /\ since = <<0>>
    /\ spc = "idle" /\ ask = Unset /\ until = 0 /\ seen = 0 /\ looked = 0 /\ wake = 0
    /\ stable = Unset /\ verdict = Unset

Less(a, b) == IF a > b THEN a - b ELSE 0
Sooner(a, b) == IF a < b THEN a ELSE b

-----------------------------------------------------------------------------
(* The terminal                                                            *)

Rev == Len(shown)
Up == term = "up"

\* spawn_pane_pty_unshared and teardown_panes, as far as the call sees them
Install ==
    /\ term = "none"
    /\ term' = "up"
    /\ UNCHANGED <<now, shown, since, settleCall>>

Remove ==
    /\ Up
    /\ term' = "gone"
    /\ UNCHANGED <<now, shown, since, settleCall>>

\* A batch of output, a resize or the end of a window of synchronized output
\* changes the screen and publishes the revision, in one hold of the I/O lock.
\* A new revision may show the frame of the one before.  What comes after the
\* answer is not explored
Output ==
    /\ Up /\ Rev < MaxRev /\ spc # "settled"
    /\ \E f \in Frames : shown' = Append(shown, f)
    /\ since' = Append(since, now)
    /\ UNCHANGED <<term, now, settleCall>>

\* The clock counts from the installation of the terminal
Tick ==
    /\ Up /\ now < MaxNow /\ spc # "settled"
    /\ now' = now + 1
    /\ UNCHANGED <<term, shown, since, settleCall>>

-----------------------------------------------------------------------------
(* The call                                                                *)

\* validate_wait_settled_params, validate_stability_params
Valid(a) ==
    /\ a.quiet > 0 /\ a.quiet <= a.timeout
    /\ a.hold <= a.timeout /\ a.frames >= 1

\* The answer, and what was true when it was given
Verdict(s, r) ==
    /\ spc' = "settled"
    /\ verdict' = [settled |-> s, revision |-> r, at |-> now, newest |-> IF Up THEN Rev ELSE 0]
NotFound == Verdict("not_found", Unset)
Go(p) == spc' = p /\ UNCHANGED verdict

\* The handler, up to its loop: subscribes to the watch under the I/O lock
WaitSettled ==
    /\ spc = "idle"
    /\ \E a \in Asks :
          /\ Valid(a) /\ now + a.timeout <= MaxNow
          /\ ask' = a /\ until' = now + a.timeout
          /\ \/ ~Up /\ NotFound
             \/ Up /\ (a.hold > 0 \/ a.frames >= 2) /\ Go("seed")
             \/ Up /\ a.hold = 0 /\ a.frames = 1 /\ Go("borrow")
    /\ seen' = Rev
    /\ UNCHANGED <<screenVars, looked, wake, stable>>

\* settle_is_quiet of the revision last given, when the clock was last read
Quiet == Less(looked, since[seen]) >= ask.quiet

\* borrow_and_update and the clock
Borrow ==
    /\ spc = "borrow"
    /\ seen' = Rev
    /\ looked' = now
    /\ Go("decide")
    /\ UNCHANGED <<screenVars, ask, until, wake, stable>>

\* has_changed and settle_decide: the publisher may be gone; a revision not
\* read yet restarts the evaluation; quiet comes before the timeout
Decide ==
    /\ spc = "decide"
    /\ \/ ~Up /\ NotFound /\ UNCHANGED wake
       \/ Up /\ Rev # seen /\ Go("borrow") /\ UNCHANGED wake
       \/ Up /\ Rev = seen /\ Quiet /\ Verdict("yes", seen) /\ UNCHANGED wake
       \/ Up /\ Rev = seen /\ ~Quiet /\ now >= until /\ Verdict("no", seen) /\ UNCHANGED wake
       \/ /\ Up /\ Rev = seen /\ ~Quiet /\ now < until
          /\ wake' = Sooner(now + Less(ask.quiet, Less(looked, since[seen])), until)
          /\ Go("sleep")
    /\ UNCHANGED <<screenVars, ask, until, seen, looked, stable>>

\* select!: the watch changed, or its sender is gone and no publisher is back
\* (settle_reacquire_watch), or the time has come
Sleep ==
    /\ spc = "sleep"
    /\ \/ (Rev # seen \/ now >= wake) /\ Go("borrow")
       \/ ~Up /\ Rev = seen /\ NotFound
    /\ UNCHANGED <<screenVars, ask, until, seen, looked, wake, stable>>

\* Seed the frame and the receiver under one lock
Seed ==
    /\ spc = "seed"
    /\ \/ ~Up /\ NotFound /\ UNCHANGED <<seen, stable>>
       \/ /\ Up
          /\ stable' = [rev |-> Rev, frame |-> shown[Rev], run |-> 1, change |-> now]
          /\ seen' = Rev
          /\ Go("top")
    /\ UNCHANGED <<screenVars, ask, until, looked, wake>>

Held == Less(now, stable.change)

\* FrameStability::is_settled
IsSettled == (ask.frames <= 1 \/ stable.run >= ask.frames) /\ (ask.hold = 0 \/ Held >= ask.hold)

\* The top of the loop.  Once the hold is met, or without one, only a revision
\* or the timeout is worth waking for (stability_wake)
Top ==
    /\ spc = "top"
    /\ \/ IsSettled /\ Verdict("yes", stable.rev) /\ UNCHANGED wake
       \/ ~IsSettled /\ now >= until /\ Verdict("no", stable.rev) /\ UNCHANGED wake
       \/ /\ ~IsSettled /\ now < until
          /\ wake' = IF Held < ask.hold THEN Sooner(now + (ask.hold - Held), until) ELSE until
          /\ Go("doze")
    /\ UNCHANGED <<screenVars, ask, until, seen, looked, stable>>

Doze ==
    /\ spc = "doze"
    /\ \/ Rev # seen /\ seen' = Rev /\ Go("read")
       \/ ~Up /\ Rev = seen /\ NotFound /\ UNCHANGED seen
       \/ now >= wake /\ Go("top") /\ UNCHANGED seen
    /\ UNCHANGED <<screenVars, ask, until, looked, wake, stable>>

\* Mutant: a gap between two revisions is not a change
ObserveAcrossGaps(s, rev, frame) ==
    IF rev <= s.rev THEN s
    ELSE [rev |-> rev, frame |-> frame,
          run |-> IF frame = s.frame THEN s.run + 1 ELSE 1,
          change |-> IF frame = s.frame THEN s.change ELSE now]

\* FrameStability::observe: a revision that is not newer is nothing; a skipped
\* one may have shown another frame
Observe(s, rev, frame) ==
    IF rev <= s.rev THEN s
    ELSE LET same == rev = s.rev + 1 /\ frame = s.frame
         IN  [rev |-> rev, frame |-> frame,
              run |-> IF same THEN s.run + 1 ELSE 1,
              change |-> IF same THEN s.change ELSE now]

\* read_frame, under the I/O lock, which may be newer than the watch was
ReadFrame ==
    /\ spc = "read"
    /\ \/ ~Up /\ NotFound /\ UNCHANGED stable
       \/ Up /\ stable' = Observe(stable, Rev, shown[Rev]) /\ Go("top")
    /\ UNCHANGED <<screenVars, ask, until, seen, looked, wake>>

SettleHandler == Borrow \/ Decide \/ Sleep \/ Seed \/ Top \/ Doze \/ ReadFrame

SettleNext == Install \/ Remove \/ Output \/ Tick \/ WaitSettled \/ SettleHandler

-----------------------------------------------------------------------------
(* Properties                                                              *)

\* The types of the screen's and the call's variables.
SettleTypeOK ==
    /\ term \in {"none", "up", "gone"}
    /\ now \in 0..MaxNow /\ shown \in Seq(Frames) /\ since \in [DOMAIN shown -> 0..now]
    /\ spc \in {"idle", "borrow", "decide", "sleep", "seed", "top", "doze", "read", "settled"}
    /\ ask \in Asks \cup {Unset} /\ until \in 0..MaxNow
    /\ seen \in 0..Rev /\ looked \in 0..now /\ wake \in 0..MaxNow
    /\ stable = Unset \/ stable \in [rev : 1..Rev, frame : Frames, run : 1..Rev, change : 0..now]
    /\ (verdict # Unset) = (spc = "settled")

\* In quiet mode an answer is about the screen of that moment: settled only if
\* the pane is there and its newest revision is old enough, whatever came
\* between the reading of the watch and of the clock; a timeout names the
\* newest revision, not before its time, and only if that revision was not
\* quiet yet when the clock was last read, also where quiet and timeout end
\* together (settle_decide).
QuietTruly ==
    spc = "settled" /\ stable = Unset /\ verdict.settled # "not_found" =>
        /\ verdict.revision = verdict.newest
        /\ verdict.settled = "yes" => verdict.at >= since[verdict.newest] + ask.quiet
        /\ verdict.settled = "no" =>
              verdict.at >= until /\ looked < since[verdict.newest] + ask.quiet

\* In stability mode a settled frame really stood still: the last `frames`
\* revisions up to the one reported show it, and so does every revision up to
\* it that was on the screen during the last `hold`, also those that the watch
\* never handed over (FrameStability).
StoodStill ==
    spc = "settled" /\ verdict.settled = "yes" /\ stable # Unset =>
        LET r == verdict.revision
            OnScreen(i) == i < r => since[i + 1] + ask.hold > verdict.at
        IN  /\ r >= ask.frames
            /\ \A i \in 1..r : (i > r - ask.frames \/ (ask.hold > 0 /\ OnScreen(i))) => shown[i] = shown[r]

\* In stability mode an answer has folded every revision the watch handed over
\* since the seed, and a timeout is given only at its time and to a frame that
\* was short of what was asked.  That is all: a newer revision, or the end of
\* the pane, that is ready when the arm of the hold deadline is taken is not
\* looked at, so a settled answer may come with another frame on the screen or
\* with no pane at all (wait_settled_frame_stability).
NothingGivenMissed ==
    spc = "settled" /\ verdict.settled # "not_found" /\ stable # Unset =>
        /\ verdict.revision >= seen
        /\ verdict.settled = "no" =>
              /\ verdict.at >= until
              /\ stable.run < ask.frames \/ verdict.at < stable.change + ask.hold

\* What wait_settled says is true: in quiet mode of the screen at the moment of
\* the answer, in stability mode of the screen up to the revision it names
\* (settle_decide, FrameStability).
SettlesTruly == QuietTruly /\ StoodStill /\ NothingGivenMissed

SettleWaiting == spc \notin {"idle", "settled"}

=============================================================================
