---------------------------- MODULE LensScratch -----------------------------
(***************************************************************************)
(* Scratch sessions (crates/shux/src/lens_scratch.rs): `lens.run` reserves *)
(* a slot of the quota, creates a session, spawns its program and commits  *)
(* a registry row that is mirrored in scratch-registry.json; a reaper or   *)
(* session.kill ends the program's process group and drops the row.  The   *)
(* daemon may die anywhere; the next one reads the file, ends what is left *)
(* and goes on retrying what it could not confirm.                         *)
(*                                                                         *)
(* Process groups are the kernel's: a group id may be reissued once its    *)
(* group is gone.  It is assumed not to be reissued between the fork of a  *)
(* scratch and the reading of its start token, nor between a token check   *)
(* and the signal right after it.  A reissued group that has lost its      *)
(* leader is signalled; the comment of startup_reap accepts that residue.  *)
(*                                                                         *)
(* Left out: failing writes of the registry file, a file that does not     *)
(* parse, the parameters, and the hash chain of the audit log.             *)
(***************************************************************************)
EXTENDS Naturals, FiniteSets

CONSTANTS
    Scratch,    \* scratch sessions
    Opaque,     \* those whose id on disk does not parse: only ever inherited
    Pgid,       \* process group ids
    Quota,      \* SCRATCH_QUOTA
    MaxCrash,   \* bound of the exploration: how often the daemon dies
    None,       \* Option::None
    Foreign     \* the owner of every group that is not a scratch's

ASSUME OpaqueAssumption ==
    Opaque \subseteq Scratch /\ IsFiniteSet(Opaque) /\ Cardinality(Opaque) <= Quota
ASSUME QuotaAssumption == Quota \in Nat \ {0} /\ MaxCrash \in Nat
ASSUME OwnerAssumption ==
    None \notin Scratch \cup Pgid \cup BOOLEAN /\ Foreign \notin Scratch \cup {None}

VARIABLES
    owner,      \* whose group each id names, None when it is free
    led,        \* the group's leader is there, so its start token can be read
    file,       \* scratches with a row in scratch-registry.json
    pgid,       \* the group id of each scratch's program, in its row too
    token,      \* its start token was captured when the row was made
    phase,      \* the daemon: "down", "reaping", "seeding" or "up"
    todo,       \* rows that startup_reap, then seed_unresolved, has to handle
    unresolved, \* rows that startup_reap could not confirm
    rows,       \* the registry's rows in memory
    opaque,     \* opaque_unresolved
    inherited,  \* rows that come from an earlier daemon
    claimed,    \* rows somebody reaps
    reserved,   \* RegistryInner::reserved
    run,        \* where each lens.run is
    session,    \* the session is in the graph
    pids,       \* panes in PaneIoState::pty_pids
    task,       \* the PTY task of each scratch
    ended,      \* what it published about its group
    reaper,     \* where each scratch_reaper is
    killer,     \* where the session.kill of each scratch is
    kill,       \* where each kill sequence is: how far, and the passes left
    audited,    \* scratch.reap entries of this daemon
    crashes

osVars == <<owner, led>>
diskVars == <<file, pgid, token>>
bootVars == <<phase, todo, unresolved, crashes>>
regVars == <<rows, opaque, inherited, claimed, reserved>>
paneVars == <<session, pids, task, ended>>
vars == <<osVars, diskVars, bootVars, regVars, run, paneVars, reaper, killer, kill, audited>>

Off == [at |-> "off", left |-> 0]
Outcome == {"dead", "died", "unconfirmed"}      \* KillOutcome

\* An earlier daemon left the rows that do not parse; their groups may be
\* gone, replaced or running, with or without their leader.
Init ==
    /\ file = Opaque
    /\ pgid \in [Scratch -> Pgid \cup {None}]
    /\ \A s \in Scratch : (s \in file) = (pgid[s] # None)
    /\ \A s, t \in file : s # t => pgid[s] # pgid[t]
    /\ token \in [Scratch -> BOOLEAN]
    /\ \A s \in Scratch \ file : ~token[s]
    /\ owner \in [Pgid -> file \cup {Foreign, None}]
    /\ \A p \in Pgid : owner[p] # None => \E s \in file : pgid[s] = p /\ owner[p] \in {s, Foreign}
    /\ led \in [Pgid -> BOOLEAN]
    /\ \A p \in Pgid : owner[p] \notin file => led[p] = (owner[p] = Foreign)
    /\ run = [s \in Scratch |-> IF s \in file THEN "done" ELSE "idle"]
    /\ phase = "down" /\ crashes = 0
    /\ todo = {} /\ unresolved = {}
    /\ rows = {} /\ opaque = {} /\ inherited = {} /\ claimed = {} /\ reserved = 0
    /\ session = {} /\ pids = {}
    /\ task = [s \in Scratch |-> "none"] /\ ended = [s \in Scratch |-> None]
    /\ reaper = [s \in Scratch |-> "none"] /\ killer = [s \in Scratch |-> "idle"]
    /\ kill = [s \in Scratch |-> Off] /\ audited = [s \in Scratch |-> 0]

Total == Cardinality(rows) + reserved + Cardinality(opaque)

\* Mutant: only rows with a name are written
PersistNamed == file' = rows'

\* ScratchRegistry::persist, whenever rows or opaque_unresolved change
Persist == file' = rows' \cup opaque'

Running(s) == task[s] \in {"running", "ending"}

-----------------------------------------------------------------------------
(* Process groups (external)                                               *)

\* A running PTY task has not reaped the leader, which pins the group
OrphanDies(p) ==
    /\ owner[p] \in Scratch /\ ~Running(owner[p])
    /\ owner' = [owner EXCEPT ![p] = None]
    /\ led' = [led EXCEPT ![p] = FALSE]
    /\ UNCHANGED <<diskVars, bootVars, regVars, run, paneVars, reaper, killer, kill, audited>>

LeaderDies(p) ==
    /\ owner[p] \in Scratch /\ ~Running(owner[p])
    /\ led[p]
    /\ led' = [led EXCEPT ![p] = FALSE]
    /\ UNCHANGED <<owner, diskVars, bootVars, regVars, run, paneVars, reaper, killer, kill,
                   audited>>

\* Somebody else gets an id that a row names; one that no row names is of no
\* interest here
ForeignTakes(p) ==
    /\ owner[p] = None
    /\ \E s \in file : pgid[s] = p
    /\ \A s \in Scratch : run[s] \in {"spawned", "known"} => pgid[s] # p
    /\ owner' = [owner EXCEPT ![p] = Foreign]
    /\ led' = [led EXCEPT ![p] = TRUE]
    /\ UNCHANGED <<diskVars, bootVars, regVars, run, paneVars, reaper, killer, kill, audited>>

ForeignLeaves(p) ==
    /\ owner[p] = Foreign
    /\ owner' = [owner EXCEPT ![p] = None]
    /\ led' = [led EXCEPT ![p] = FALSE]
    /\ UNCHANGED <<diskVars, bootVars, regVars, run, paneVars, reaper, killer, kill, audited>>

-----------------------------------------------------------------------------
(* kill_pgid_lens_sequence: SIGTERM, a grace period, SIGKILL, a bounded    *)
(* wait for the group to be gone.  A denied probe goes on like a live one. *)

Gone(s) == owner[pgid[s]] = None

\* group_is_ours: another start token on the leader's pid proves it is not
GroupIsOurs(s) == ~led[pgid[s]] \/ owner[pgid[s]] = s

Reaches(s, at) == kill' = [kill EXCEPT ![s].at = at]

\* kill_with_retry: an unconfirmed pass is repeated once
Unconfirmed(s) ==
    IF kill[s].left > 0
    THEN kill' = [kill EXCEPT ![s] = [at |-> "probe", left |-> 0]]
    ELSE Reaches(s, "unconfirmed")

Terminate(s) ==
    /\ kill[s].at = "probe"
    /\ \/ Gone(s) /\ Reaches(s, "dead")
       \/ ~Gone(s) /\ ~token[s] /\ Unconfirmed(s)
       \/ ~Gone(s) /\ token[s] /\ ~GroupIsOurs(s) /\ Reaches(s, "dead")
       \/ ~Gone(s) /\ token[s] /\ GroupIsOurs(s) /\ Reaches(s, "grace")
    /\ UNCHANGED <<osVars, diskVars, bootVars, regVars, run, paneVars, reaper, killer, audited>>

\* Mutant: what was checked before SIGTERM is taken to hold
KillUnchecked(s) ==
    /\ kill[s].at = "grace"
    /\ \/ Gone(s) /\ Reaches(s, "died")
       \/ Reaches(s, "confirm")
    /\ UNCHANGED <<osVars, diskVars, bootVars, regVars, run, paneVars, reaper, killer, audited>>

\* The grace period ends: the id may have been reissued during it
Kill(s) ==
    /\ kill[s].at = "grace"
    /\ \/ Gone(s) /\ Reaches(s, "died")
       \/ ~GroupIsOurs(s) /\ Reaches(s, "died")
       \/ GroupIsOurs(s) /\ Reaches(s, "confirm")
    /\ UNCHANGED <<osVars, diskVars, bootVars, regVars, run, paneVars, reaper, killer, audited>>

Confirm(s) ==
    /\ kill[s].at = "confirm"
    /\ \/ Gone(s) /\ Reaches(s, "died")
       \/ Unconfirmed(s)
    /\ UNCHANGED <<osVars, diskVars, bootVars, regVars, run, paneVars, reaper, killer, audited>>

Audit(s) == audited' = [audited EXCEPT ![s] = @ + 1]

-----------------------------------------------------------------------------
(* The daemon starts and dies                                              *)

\* startup_reap reads the file; no file and no rows are the same
Start ==
    /\ phase = "down"
    /\ phase' = "reaping"
    /\ todo' = file
    /\ UNCHANGED <<osVars, diskVars, unresolved, crashes, regVars, run, paneVars, reaper, killer,
                   kill, audited>>

\* startup_reap takes its rows one by one and tries each once;
\* seed_unresolved tries each opaque row again, twice if need be
TakeRow(s) ==
    /\ phase \in {"reaping", "seeding"} /\ s \in todo
    /\ \A t \in todo : kill[t] = Off
    /\ kill' = [kill EXCEPT ![s] = [at |-> "probe",
                                    left |-> IF phase = "reaping" THEN 0 ELSE 1]]
    /\ UNCHANGED <<osVars, diskVars, bootVars, regVars, run, paneVars, reaper, killer, audited>>

StartupResolves(s) ==
    /\ phase = "reaping" /\ s \in todo
    /\ kill[s].at \in Outcome
    /\ kill' = [kill EXCEPT ![s] = Off]
    /\ todo' = todo \ {s}
    /\ \/ kill[s].at = "unconfirmed" /\ unresolved' = unresolved \cup {s} /\ UNCHANGED audited
       \/ kill[s].at # "unconfirmed" /\ Audit(s) /\ UNCHANGED unresolved
    /\ UNCHANGED <<osVars, diskVars, phase, crashes, regVars, run, paneVars, reaper, killer>>

\* The rows left over are written back; seed_unresolved parks them all in
\* memory, arms a reaper for each it can name, and turns to the others
Seed ==
    /\ phase = "reaping" /\ todo = {}
    /\ file' = unresolved
    /\ rows' = unresolved \ Opaque
    /\ inherited' = unresolved \ Opaque
    /\ opaque' = unresolved \cap Opaque
    /\ todo' = unresolved \cap Opaque
    /\ reaper' = [s \in Scratch |-> IF s \in unresolved \ Opaque THEN "armed" ELSE reaper[s]]
    /\ phase' = "seeding"
    /\ UNCHANGED <<osVars, pgid, token, unresolved, crashes, claimed, reserved, run, paneVars,
                   killer, kill, audited>>

\* An opaque row is audited before it is dropped and the file rewritten
SeedAudits(s) ==
    /\ phase = "seeding" /\ s \in todo
    /\ kill[s].at \in {"dead", "died"} /\ audited[s] = 0
    /\ Audit(s)
    /\ UNCHANGED <<osVars, diskVars, bootVars, regVars, run, paneVars, reaper, killer, kill>>

SeedResolves(s) ==
    /\ phase = "seeding" /\ s \in todo
    /\ \/ kill[s].at = "unconfirmed" /\ UNCHANGED <<opaque, file>>
       \/ kill[s].at \in {"dead", "died"} /\ audited[s] > 0
          /\ opaque' = opaque \ {s}
          /\ file' = rows \cup opaque'
    /\ kill' = [kill EXCEPT ![s] = Off]
    /\ todo' = todo \ {s}
    /\ UNCHANGED <<osVars, pgid, token, phase, unresolved, crashes, rows, inherited, claimed,
                   reserved, run, paneVars, reaper, killer, audited>>

\* Only now the RPC server takes calls
Serve ==
    /\ phase = "seeding" /\ todo = {}
    /\ phase' = "up"
    /\ UNCHANGED <<osVars, diskVars, todo, unresolved, crashes, regVars, run, paneVars, reaper,
                   killer, kill, audited>>

\* Memory goes, process groups and the file stay
Crash ==
    /\ phase # "down" /\ crashes < MaxCrash
    /\ phase' = "down" /\ crashes' = crashes + 1
    /\ run' = [s \in Scratch |-> IF run[s] \in {"idle", "done", "failed"} THEN run[s] ELSE "lost"]
    /\ todo' = {} /\ unresolved' = {}
    /\ rows' = {} /\ opaque' = {} /\ inherited' = {} /\ claimed' = {} /\ reserved' = 0
    /\ session' = {} /\ pids' = {}
    /\ task' = [s \in Scratch |-> "none"] /\ ended' = [s \in Scratch |-> None]
    /\ reaper' = [s \in Scratch |-> "none"] /\ killer' = [s \in Scratch |-> "idle"]
    /\ kill' = [s \in Scratch |-> Off] /\ audited' = [s \in Scratch |-> 0]
    /\ UNCHANGED <<osVars, diskVars>>

-----------------------------------------------------------------------------
(* lens.run: spawn_scratch_core, which runs to completion                  *)

\* Mutant: a full registry takes one more
TryReserveEqual(s) ==
    /\ phase = "up" /\ run[s] = "idle"
    /\ Total <= Quota
    /\ reserved' = reserved + 1
    /\ run' = [run EXCEPT ![s] = "reserved"]
    /\ UNCHANGED <<osVars, diskVars, bootVars, rows, opaque, inherited, claimed, paneVars, reaper,
                   killer, kill, audited>>

\* try_reserve; a full registry refuses the call
TryReserve(s) ==
    /\ phase = "up" /\ run[s] = "idle"
    /\ Total < Quota
    /\ reserved' = reserved + 1
    /\ run' = [run EXCEPT ![s] = "reserved"]
    /\ UNCHANGED <<osVars, diskVars, bootVars, rows, opaque, inherited, claimed, paneVars, reaper,
                   killer, kill, audited>>

\* create_session_with_command
CreateSession(s) ==
    /\ run[s] = "reserved"
    /\ session' = session \cup {s}
    /\ run' = [run EXCEPT ![s] = "created"]
    /\ UNCHANGED <<osVars, diskVars, bootVars, regVars, pids, task, ended, reaper, killer, kill,
                   audited>>

\* Dropping the reservation gives its slot back
Release == reserved' = reserved - 1

\* The session, the cast file or the fork failed
RunFails(s) ==
    /\ run[s] \in {"reserved", "created"}
    /\ Release
    /\ session' = session \ {s}
    /\ run' = [run EXCEPT ![s] = "failed"]
    /\ UNCHANGED <<osVars, diskVars, bootVars, rows, opaque, inherited, claimed, pids, task, ended,
                   reaper, killer, kill, audited>>

\* spawn_pane_pty_with_recorder installs the program; if its session was
\* killed meanwhile it tears the program down again and fails
Spawn(s) ==
    /\ run[s] = "created"
    /\ \E p \in Pgid :
        /\ owner[p] = None
        /\ owner' = [owner EXCEPT ![p] = s]
        /\ led' = [led EXCEPT ![p] = TRUE]
        /\ pgid' = [pgid EXCEPT ![s] = p]
    /\ \/ /\ s \in session
          /\ task' = [task EXCEPT ![s] = "running"]
          /\ pids' = pids \cup {s}
          /\ run' = [run EXCEPT ![s] = "spawned"]
          /\ UNCHANGED reserved
       \/ /\ s \notin session
          /\ task' = [task EXCEPT ![s] = "ending"]
          /\ run' = [run EXCEPT ![s] = "failed"]
          /\ Release
          /\ UNCHANGED pids
    /\ UNCHANGED <<file, token, bootVars, rows, opaque, inherited, claimed, session, ended, reaper,
                   killer, kill, audited>>

\* pty_pids is read; a kill may have emptied it, and then all is undone
ReadPid(s) ==
    /\ run[s] = "spawned"
    /\ \/ /\ s \in pids
          /\ run' = [run EXCEPT ![s] = "known"]
          /\ UNCHANGED <<reserved, session, task>>
       \/ /\ s \notin pids
          /\ run' = [run EXCEPT ![s] = "failed"]
          /\ session' = session \ {s}
          /\ task' = [task EXCEPT ![s] = IF @ = "running" THEN "ending" ELSE @]
          /\ Release
    /\ UNCHANGED <<osVars, diskVars, bootVars, rows, opaque, inherited, claimed, pids, ended,
                   reaper, killer, kill, audited>>

\* ScratchReservation::commit, then the reaper starts.  The start token of a
\* leader that is gone, or could not be read, is not recorded.
Commit(s) ==
    /\ run[s] = "known"
    /\ run' = [run EXCEPT ![s] = "done"]
    /\ \E captured \in {FALSE, owner[pgid[s]] = s /\ led[pgid[s]]} :
            token' = [token EXCEPT ![s] = captured]
    /\ rows' = rows \cup {s} /\ opaque' = opaque
    /\ Release
    /\ Persist
    /\ reaper' = [reaper EXCEPT ![s] = "armed"]
    /\ UNCHANGED <<osVars, pgid, bootVars, inherited, claimed, paneVars, killer, kill, audited>>

-----------------------------------------------------------------------------
(* The PTY task of a scratch                                               *)

\* The program exits by itself: its exit is recorded, then its group swept
ProgramExits(s) ==
    /\ task[s] = "running"
    /\ task' = [task EXCEPT ![s] = "ending"]
    /\ UNCHANGED <<osVars, diskVars, bootVars, regVars, run, session, pids, ended, reaper, killer,
                   kill, audited>>

Cancel(s) == task' = [task EXCEPT ![s] = IF @ = "running" THEN "ending" ELSE @]

\* end_group and group_emptied: the task says whether the group is gone
TaskEnds(s) ==
    /\ task[s] = "ending"
    /\ task' = [task EXCEPT ![s] = "done"]
    /\ \/ /\ ended' = [ended EXCEPT ![s] = TRUE]
          /\ owner' = [owner EXCEPT ![pgid[s]] = None]
          /\ led' = [led EXCEPT ![pgid[s]] = FALSE]
       \/ /\ ended' = [ended EXCEPT ![s] = FALSE]
          /\ UNCHANGED osVars
    /\ UNCHANGED <<diskVars, bootVars, regVars, run, session, pids, reaper, killer, kill, audited>>

-----------------------------------------------------------------------------
(* Reaping: scratch_reaper and on_session_killed                           *)

\* Its deadline, or the exit of its program and the TTL after it
ReaperWakes(s) ==
    /\ reaper[s] = "armed"
    /\ reaper' = [reaper EXCEPT ![s] = "due"]
    /\ UNCHANGED <<osVars, diskVars, bootVars, regVars, run, paneVars, killer, kill, audited>>

\* ScratchRegistry::claim: whoever gets the row reaps it
MayClaim(s) == s \in rows /\ s \notin claimed

ReaperClaims(s) ==
    /\ reaper[s] = "due"
    /\ \/ /\ MayClaim(s)
          /\ claimed' = claimed \cup {s}
          /\ \/ /\ s \in inherited      \* no PTY task holds the group
                /\ kill' = [kill EXCEPT ![s] = [at |-> "probe", left |-> 1]]
                /\ reaper' = [reaper EXCEPT ![s] = "killing"]
                /\ UNCHANGED task
             \/ /\ s \notin inherited   \* its PTY task ends the group
                /\ Cancel(s)
                /\ reaper' = [reaper EXCEPT ![s] = "waiting"]
                /\ UNCHANGED kill
       \/ /\ ~MayClaim(s)
          /\ reaper' = [reaper EXCEPT ![s] = "done"]
          /\ UNCHANGED <<claimed, kill, task>>
    /\ UNCHANGED <<osVars, diskVars, bootVars, rows, opaque, inherited, reserved, run, session,
                   pids, ended, killer, audited>>

\* Mutant: any word of the PTY task will do
ConfirmedBySaying(s) ==
    \/ reaper[s] = "waiting" /\ ended[s] # None
    \/ reaper[s] = "killing" /\ kill[s].at \in {"dead", "died"}

Confirmed(s) ==
    \/ reaper[s] = "waiting" /\ ended[s] = TRUE
    \/ reaper[s] = "killing" /\ kill[s].at \in {"dead", "died"}

\* reap_scratch: the PTY task said so, or the kill sequence of an inherited
\* scratch; session and pane go, and the reap is audited
ReapAudits(s) ==
    /\ Confirmed(s)
    /\ session' = session \ {s}
    /\ pids' = pids \ {s}
    /\ kill' = [kill EXCEPT ![s] = Off]
    /\ Audit(s)
    /\ reaper' = [reaper EXCEPT ![s] = "audited"]
    /\ UNCHANGED <<osVars, diskVars, bootVars, regVars, run, task, ended, killer>>

\* It said otherwise, or nothing within peer_patience: the row stays
ReapGivesUp(s) ==
    /\ \/ reaper[s] = "waiting"
       \/ reaper[s] = "killing" /\ kill[s].at = "unconfirmed"
    /\ ~Confirmed(s)
    /\ kill' = [kill EXCEPT ![s] = Off]
    /\ reaper' = [reaper EXCEPT ![s] = "gave up"]
    /\ UNCHANGED <<osVars, diskVars, bootVars, regVars, run, paneVars, killer, audited>>

\* ScratchRegistry::remove
Drop(s) ==
    /\ rows' = rows \ {s} /\ opaque' = opaque
    /\ inherited' = inherited \ {s} /\ claimed' = claimed \ {s}
    /\ Persist

ReapDrops(s) ==
    /\ reaper[s] = "audited"
    /\ Drop(s)
    /\ reaper' = [reaper EXCEPT ![s] = "done"]
    /\ UNCHANGED <<osVars, pgid, token, bootVars, reserved, run, paneVars, killer, kill, audited>>

\* session.kill destroys the session in the graph, ...
KillDestroys(s) ==
    /\ phase = "up" /\ s \in session /\ killer[s] = "idle"
    /\ session' = session \ {s}
    /\ killer' = [killer EXCEPT ![s] = "destroyed"]
    /\ UNCHANGED <<osVars, diskVars, bootVars, regVars, run, pids, task, ended, reaper, kill,
                   audited>>

\* ... tears its pane down ...
KillTearsDown(s) ==
    /\ killer[s] = "destroyed"
    /\ Cancel(s)
    /\ pids' = pids \ {s}
    /\ killer' = [killer EXCEPT ![s] = "torn"]
    /\ UNCHANGED <<osVars, diskVars, bootVars, regVars, run, session, ended, reaper, kill, audited>>

\* Mutant: the call may be dropped once it has claimed the row
KillClaimsDroppable(s) ==
    /\ killer[s] = "torn"
    /\ \/ /\ MayClaim(s)
          /\ claimed' = claimed \cup {s}
          /\ reaper' = [reaper EXCEPT ![s] = IF @ = "armed" THEN "done" ELSE @]
          /\ \E at \in {"waiting", "done"} : killer' = [killer EXCEPT ![s] = at]
       \/ /\ ~MayClaim(s)
          /\ killer' = [killer EXCEPT ![s] = "done"]
          /\ UNCHANGED <<claimed, reaper>>
    /\ UNCHANGED <<osVars, diskVars, bootVars, rows, opaque, inherited, reserved, run, paneVars,
                   kill, audited>>

\* ... and, for a scratch whose row it gets, stops the reaper
KillClaims(s) ==
    /\ killer[s] = "torn"
    /\ \/ /\ MayClaim(s)
          /\ claimed' = claimed \cup {s}
          /\ reaper' = [reaper EXCEPT ![s] = IF @ = "armed" THEN "done" ELSE @]
          /\ killer' = [killer EXCEPT ![s] = "waiting"]
       \/ /\ ~MayClaim(s)
          /\ killer' = [killer EXCEPT ![s] = "done"]
          /\ UNCHANGED <<claimed, reaper>>
    /\ UNCHANGED <<osVars, diskVars, bootVars, rows, opaque, inherited, reserved, run, paneVars,
                   kill, audited>>

KillAudits(s) ==
    /\ killer[s] = "waiting" /\ ended[s] = TRUE
    /\ Audit(s)
    /\ killer' = [killer EXCEPT ![s] = "audited"]
    /\ UNCHANGED <<osVars, diskVars, bootVars, regVars, run, paneVars, reaper, kill>>

KillGivesUp(s) ==
    /\ killer[s] = "waiting" /\ ended[s] # TRUE
    /\ killer' = [killer EXCEPT ![s] = "gave up"]
    /\ UNCHANGED <<osVars, diskVars, bootVars, regVars, run, paneVars, reaper, kill, audited>>

KillDrops(s) ==
    /\ killer[s] = "audited"
    /\ Drop(s)
    /\ killer' = [killer EXCEPT ![s] = "done"]
    /\ UNCHANGED <<osVars, pgid, token, bootVars, reserved, run, paneVars, reaper, kill, audited>>

-----------------------------------------------------------------------------

Next ==
    \/ Start \/ Seed \/ Serve \/ Crash
    \/ \E s \in Scratch :
        \/ Terminate(s) \/ Kill(s) \/ Confirm(s)
        \/ TakeRow(s) \/ StartupResolves(s) \/ SeedAudits(s) \/ SeedResolves(s)
        \/ TryReserve(s) \/ CreateSession(s) \/ RunFails(s) \/ Spawn(s) \/ ReadPid(s)
        \/ Commit(s) \/ ProgramExits(s) \/ TaskEnds(s)
        \/ ReaperWakes(s) \/ ReaperClaims(s) \/ ReapAudits(s) \/ ReapGivesUp(s)
        \/ ReapDrops(s)
        \/ KillDestroys(s) \/ KillTearsDown(s) \/ KillClaims(s) \/ KillAudits(s)
        \/ KillGivesUp(s) \/ KillDrops(s)
    \/ \E p \in Pgid : OrphanDies(p) \/ LeaderDies(p) \/ ForeignTakes(p) \/ ForeignLeaves(p)

Spec == Init /\ [][Next]_vars

-----------------------------------------------------------------------------
(* Properties                                                              *)

\* The variables' types.
TypeOK ==
    /\ owner \in [Pgid -> Scratch \cup {Foreign, None}] /\ led \in [Pgid -> BOOLEAN]
    /\ file \subseteq Scratch /\ pgid \in [Scratch -> Pgid \cup {None}]
    /\ token \in [Scratch -> BOOLEAN]
    /\ phase \in {"down", "reaping", "seeding", "up"} /\ crashes \in 0..MaxCrash
    /\ todo \subseteq Scratch /\ unresolved \subseteq Scratch
    /\ rows \subseteq Scratch \ Opaque /\ opaque \subseteq Opaque
    /\ inherited \subseteq rows /\ claimed \subseteq rows /\ reserved \in 0..Quota
    /\ run \in [Scratch -> {"idle", "reserved", "created", "spawned", "known", "done", "failed",
                            "lost"}]
    /\ session \subseteq Scratch /\ pids \subseteq Scratch
    /\ task \in [Scratch -> {"none", "running", "ending", "done"}]
    /\ ended \in [Scratch -> BOOLEAN \cup {None}]
    /\ reaper \in [Scratch -> {"none", "armed", "due", "waiting", "killing",
                               "audited", "done", "gave up"}]
    /\ killer \in [Scratch -> {"idle", "destroyed", "torn", "waiting", "audited", "done",
                               "gave up"}]
    /\ kill \in [Scratch -> [at : {"off", "probe", "grace", "confirm"} \cup Outcome, left : 0..1]]
    /\ audited \in [Scratch -> Nat]

\* A scratch's group that still runs is in the registry file, or its lens.run
\* is still at work, or its PTY task is ending it after lens.run failed.  Two
\* things, and only they, leave one that nobody will end: the task of a failed
\* run gave up on it (group_emptied), which no row records, and a daemon that
\* died before the commit, or before such a task was done.
GroupsKnown ==
    \A p \in Pgid : owner[p] \in Scratch =>
        LET s == owner[p] IN
        \/ s \in file
        \/ run[s] \in {"spawned", "known"}
        \/ run[s] = "failed" /\ task[s] = "ending"
        \/ run[s] = "failed" /\ task[s] = "done" /\ ended[s] = FALSE
        \/ run[s] \in {"failed", "lost"} /\ task[s] = "none" /\ crashes > 0

\* The kill sequence signals no group that another program leads, even when
\* the id of the row's group has been reissued, at any point of the sequence.
\* A row without a start token is no exception (kill_pgid_lens_sequence), though
\* startup_reap's decision table calls it a liveness-only fallback.
SparesOthers ==
    [][\A s \in Scratch :
        (kill'[s].at # kill[s].at /\ kill'[s].at \in {"grace", "confirm"})
            => owner[pgid[s]] = s \/ ~led[pgid[s]]]_vars

\* A row leaves the registry file only when its group is gone and this daemon
\* has audited the reap, once.
DroppedWhenGone ==
    [][\A s \in file \ file' : audited[s] = 1 /\ \A p \in Pgid : owner[p] # s]_vars

\* Every slot of the quota belongs to a lens.run at work or to a row, and
\* there are never more than the quota, whatever earlier daemons left.
QuotaHeld ==
    /\ reserved = Cardinality({s \in Scratch :
                        run[s] \in {"reserved", "created", "spawned", "known"}})
    /\ Total <= Quota

\* Every row has somebody who will end its group and drop it: a reaper still
\* waiting, or whoever claimed it, unless that one gave up and leaves the row
\* to the next daemon.  No path claims a scratch and forgets it.
EveryRowHeld ==
    \A s \in rows :
        \/ s \notin claimed /\ reaper[s] \in {"armed", "due"}
        \/ s \in claimed /\ reaper[s] \in {"waiting", "killing", "audited", "gave up"}
        \/ s \in claimed /\ killer[s] \in {"waiting", "audited", "gave up"}

=============================================================================
