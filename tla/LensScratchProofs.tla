-------------------------- MODULE LensScratchProofs -------------------------
(***************************************************************************)
(* Proofs about module LensScratch: the quota, the claims and the registry *)
(* file are kept right for any number of scratches, group ids and crashes. *)
(***************************************************************************)
EXTENDS LensScratch, FiniteSetTheorems, TLAPS

-----------------------------------------------------------------------------
(* The inductive invariant                                                 *)

\* The types, in the parts of the state that steps touch.
GroupTypes ==
    /\ owner \in [Pgid -> Scratch \cup {Foreign, None}] /\ led \in [Pgid -> BOOLEAN]
    /\ pgid \in [Scratch -> Pgid \cup {None}] /\ token \in [Scratch -> BOOLEAN]
BookTypes ==
    /\ phase \in {"down", "reaping", "seeding", "up"} /\ crashes \in 0..MaxCrash
    /\ file \subseteq Scratch /\ todo \subseteq Scratch /\ unresolved \subseteq Scratch
    /\ rows \subseteq Scratch \ Opaque /\ opaque \subseteq Opaque
    /\ inherited \subseteq rows /\ claimed \subseteq rows
RunTypes ==
    /\ run \in [Scratch -> {"idle", "reserved", "created", "spawned", "known", "done", "failed",
                            "lost"}]
    /\ session \subseteq Scratch /\ pids \subseteq Scratch
    /\ task \in [Scratch -> {"none", "running", "ending", "done"}]
    /\ ended \in [Scratch -> BOOLEAN \cup {None}]
ReapTypes ==
    /\ reaper \in [Scratch -> {"none", "armed", "due", "waiting", "killing",
                               "audited", "done", "gave up"}]
    /\ killer \in [Scratch -> {"idle", "destroyed", "torn", "waiting", "audited", "done",
                               "gave up"}]
    /\ audited \in [Scratch -> Nat]
KillTypes ==
    kill \in [Scratch -> [at : {"off", "probe", "grace", "confirm"} \cup Outcome, left : 0..1]]
Types == GroupTypes /\ BookTypes /\ RunTypes /\ ReapTypes /\ KillTypes

\* No group is the scratch's.
Absent(s) == \A p \in Pgid : owner[p] # s

\* A scratch has at most the group its program was started in, and none
\* before; what is said to be gone is gone.
Owners ==
    /\ \A p \in Pgid : owner[p] \in Scratch => pgid[owner[p]] = p
    /\ \A s \in Scratch : run[s] \in {"idle", "reserved", "created"} => Absent(s)
    /\ \A s \in Scratch : run[s] \in {"spawned", "known", "done"} => pgid[s] \in Pgid
    /\ \A s \in Scratch : task[s] # "none" => pgid[s] \in Pgid
Verdicts ==
    /\ \A s \in Scratch : ended[s] = TRUE => Absent(s)
    /\ \A s \in Scratch : kill[s].at \in {"dead", "died"} => Absent(s)
    /\ \A s \in Scratch : reaper[s] = "audited" \/ killer[s] = "audited" => Absent(s)

\* Only a scratch whose lens.run is done is in a book or has somebody at work
\* on it.
Runs ==
    /\ \A s \in Opaque : run[s] = "done"
    /\ \A s \in file \cup rows \cup opaque \cup todo \cup unresolved : run[s] = "done"
    /\ \A s \in Scratch : run[s] # "done" =>
            kill[s].at = "off" /\ reaper[s] = "none" /\ audited[s] = 0
    /\ \A s \in Scratch : run[s] \in {"idle", "reserved", "created"} =>
            task[s] = "none" /\ ended[s] = None
    /\ \A s \in Scratch : run[s] = "failed" => task[s] # "running"
    /\ \A s \in Scratch : run[s] \in {"spawned", "known"} => task[s] # "none"
    /\ \A s \in Scratch : task[s] = "done" => ended[s] \in BOOLEAN

\* The registry in memory and its file, in the phases of the daemon.
Books ==
    /\ phase = "down" =>
        /\ todo = {} /\ unresolved = {}
        /\ \A s \in Scratch : audited[s] = 0
    /\ phase \in {"down", "reaping"} =>
        /\ rows = {} /\ opaque = {}
        /\ \A s \in Scratch : reaper[s] = "none" /\ killer[s] = "idle"
    /\ phase = "reaping" =>
        /\ todo \cup unresolved \subseteq file /\ todo \cap unresolved = {}
        /\ \A s \in todo \cup unresolved : audited[s] = 0
        /\ \A s \in file \ (todo \cup unresolved) : audited[s] = 1 /\ Absent(s)
    /\ phase \in {"seeding", "up"} => file = rows \cup opaque
    /\ phase = "seeding" => todo \subseteq opaque /\ \A s \in todo : audited[s] \in {0, 1}
    /\ phase = "up" => todo = {}

\* A row is claimed by one, who audits it once.
Claims ==
    \A s \in Scratch :
        /\ reaper[s] \in {"waiting", "killing", "audited", "gave up"} => s \in claimed
        /\ killer[s] \in {"waiting", "audited", "gave up"} => s \in claimed
        /\ ~ /\ reaper[s] \in {"waiting", "killing", "audited", "gave up"}
             /\ killer[s] \in {"waiting", "audited", "gave up"}
        /\ s \in rows => audited[s] = IF reaper[s] = "audited" \/ killer[s] = "audited" THEN 1 ELSE 0

\* The calls of lens.run that hold a slot; they and the rows share the quota.
Holding == {s \in Scratch : run[s] \in {"reserved", "created", "spawned", "known"}}
Slots ==
    /\ IsFiniteSet(file) /\ IsFiniteSet(Holding) /\ reserved = Cardinality(Holding)
    /\ Cardinality(file) + reserved <= Quota
    /\ phase # "up" => Holding = {}

IInv ==
    /\ Types /\ Owners /\ Verdicts /\ Runs /\ Books /\ Claims /\ Slots
    /\ GroupsKnown /\ EveryRowHeld

(* A part of the invariant that a step does not touch stays true.          *)

\* GroupTypes is about these variables only.
LEMMA KeepGroupTypes ==
  ASSUME GroupTypes, UNCHANGED <<owner, led, pgid, token>>
  PROVE  GroupTypes'
BY DEF GroupTypes

\* BookTypes is about these variables only.
LEMMA KeepBookTypes ==
  ASSUME BookTypes, UNCHANGED <<phase, crashes, file, todo, unresolved, rows, opaque,
                                 inherited, claimed>>
  PROVE  BookTypes'
BY DEF BookTypes

\* RunTypes is about these variables only.
LEMMA KeepRunTypes ==
  ASSUME RunTypes, UNCHANGED <<run, session, pids, task, ended>>
  PROVE  RunTypes'
BY DEF RunTypes

\* ReapTypes is about these variables only.
LEMMA KeepReapTypes ==
  ASSUME ReapTypes, UNCHANGED <<reaper, killer, audited>>
  PROVE  ReapTypes'
BY DEF ReapTypes

\* KillTypes is about these variables only.
LEMMA KeepKillTypes ==
  ASSUME KillTypes, UNCHANGED <<kill>>
  PROVE  KillTypes'
BY DEF KillTypes

\* Owners is about these variables only.
LEMMA KeepOwners ==
  ASSUME Owners, UNCHANGED <<owner, pgid, run, task>>
  PROVE  Owners'
BY DEF Owners, Absent

\* Verdicts is about these variables only.
LEMMA KeepVerdicts ==
  ASSUME Verdicts, UNCHANGED <<owner, ended, kill, reaper, killer>>
  PROVE  Verdicts'
BY DEF Verdicts, Absent

\* Runs is about these variables only.
LEMMA KeepRuns ==
  ASSUME Runs, UNCHANGED <<run, file, rows, opaque, todo, unresolved, kill, reaper, audited,
                            task, ended>>
  PROVE  Runs'
BY DEF Runs

\* Books is about these variables only.
LEMMA KeepBooks ==
  ASSUME Books, UNCHANGED <<phase, todo, unresolved, audited, rows, opaque, reaper, killer,
                             file, owner>>
  PROVE  Books'
BY DEF Books, Absent

\* Claims is about these variables only.
LEMMA KeepClaims ==
  ASSUME Claims, UNCHANGED <<reaper, killer, claimed, rows, audited>>
  PROVE  Claims'
BY DEF Claims

\* Slots is about these variables only.
LEMMA KeepSlots ==
  ASSUME Slots, UNCHANGED <<file, run, reserved, phase>>
  PROVE  Slots'
BY DEF Slots, Holding

\* GroupsKnown is about these variables only.
LEMMA KeepGroupsKnown ==
  ASSUME GroupsKnown, UNCHANGED <<owner, file, run, task, ended, crashes>>
  PROVE  GroupsKnown'
BY DEF GroupsKnown

\* EveryRowHeld is about these variables only.
LEMMA KeepEveryRowHeld ==
  ASSUME EveryRowHeld, UNCHANGED <<rows, claimed, reaper, killer>>
  PROVE  EveryRowHeld'
BY DEF EveryRowHeld

-----------------------------------------------------------------------------
(* Process groups                                                          *)

\* A group that goes, or is somebody else's now, is one less to know of.
LEMMA FewerGroups ==
  ASSUME IInv, owner' \in [Pgid -> Scratch \cup {Foreign, None}], led' \in [Pgid -> BOOLEAN],
         \A q \in Pgid : owner'[q] \in Scratch => owner'[q] = owner[q],
         UNCHANGED <<file, pgid, token, phase, todo, unresolved, crashes, rows, opaque,
                     inherited, claimed, reserved, run, session, pids, task, ended, reaper,
                     killer, kill, audited>>
  PROVE  IInv'
<1> USE DEF IInv, Types
<1>1. UNCHANGED <<file, pgid, token, phase, todo, unresolved, crashes, rows, opaque, inherited,
                  claimed, reserved, run, session, pids, task, ended, reaper, killer, kill,
                  audited>>
  OBVIOUS
<1>2. \A t \in Scratch : Absent(t) => Absent(t)'
  BY DEF Absent
<1>3. /\ BookTypes' /\ RunTypes' /\ ReapTypes' /\ KillTypes' /\ Runs' /\ Claims' /\ Slots'
      /\ EveryRowHeld'
  BY <1>1, KeepBookTypes, KeepRunTypes, KeepReapTypes, KeepKillTypes, KeepRuns, KeepClaims,
     KeepSlots, KeepEveryRowHeld
<1>4. GroupTypes'
  BY <1>1 DEF GroupTypes
<1>5. Owners'
  BY <1>1, <1>2 DEF Owners
<1>6. Verdicts'
  BY <1>1, <1>2 DEF Verdicts
<1>7. Books'
  <2>1. file \subseteq Scratch
    BY DEF BookTypes
  <2> QED BY <1>1, <1>2, <2>1 DEF Books
<1>8. GroupsKnown'
  BY <1>1 DEF GroupsKnown
<1> QED BY <1>3, <1>4, <1>5, <1>6, <1>7, <1>8

\* The kernel's steps.
LEMMA GroupsTrue ==
  ASSUME IInv, NEW p \in Pgid, OrphanDies(p) \/ LeaderDies(p) \/ ForeignTakes(p) \/ ForeignLeaves(p)
  PROVE  IInv'
<1>1. UNCHANGED <<file, pgid, token, phase, todo, unresolved, crashes, rows, opaque, inherited,
                  claimed, reserved, run, session, pids, task, ended, reaper, killer, kill, audited>>
  BY DEF OrphanDies, LeaderDies, ForeignTakes, ForeignLeaves, diskVars, bootVars, regVars, paneVars
<1>2. /\ owner \in [Pgid -> Scratch \cup {Foreign, None}] /\ led \in [Pgid -> BOOLEAN]
      /\ Foreign \notin Scratch /\ None \notin Scratch
  BY OwnerAssumption DEF IInv, Types, GroupTypes
<1>3. \E o \in {owner[p], Foreign, None}, l \in BOOLEAN :
            owner' = [owner EXCEPT ![p] = o] /\ led' = [led EXCEPT ![p] = l]
  BY <1>2 DEF OrphanDies, LeaderDies, ForeignTakes, ForeignLeaves
<1>4. /\ owner' \in [Pgid -> Scratch \cup {Foreign, None}] /\ led' \in [Pgid -> BOOLEAN]
      /\ \A q \in Pgid : owner'[q] \in Scratch => owner'[q] = owner[q]
  BY <1>2, <1>3
<1> QED BY <1>1, <1>4, FewerGroups

-----------------------------------------------------------------------------
(* The kill sequence                                                       *)

\* A kill sequence goes a step further, and says dead only of a group that is.
LEMMA KillMoves ==
  ASSUME IInv, NEW s \in Scratch, run[s] = "done",
         NEW k \in [at : {"off", "probe", "grace", "confirm"} \cup Outcome, left : 0..1],
         k.at \in {"dead", "died"} => Absent(s), kill' = [kill EXCEPT ![s] = k],
         UNCHANGED <<owner, led, file, pgid, token, phase, todo, unresolved, crashes, rows,
                     opaque, inherited, claimed, reserved, run, session, pids, task, ended,
                     reaper, killer, audited>>
  PROVE  IInv'
<1> USE DEF IInv, Types
<1>1. UNCHANGED <<owner, led, file, pgid, token, phase, todo, unresolved, crashes, rows,
                  opaque, inherited, claimed, reserved, run, session, pids, task, ended,
                  reaper, killer, audited>>
  OBVIOUS
<1>2. kill'[s] = k /\ \A t \in Scratch : t # s => kill'[t] = kill[t]
  BY DEF KillTypes
<1>3. /\ GroupTypes' /\ BookTypes' /\ RunTypes' /\ ReapTypes' /\ Owners' /\ Books' /\ Claims'
      /\ Slots' /\ GroupsKnown' /\ EveryRowHeld'
  BY <1>1, KeepGroupTypes, KeepBookTypes, KeepRunTypes, KeepReapTypes, KeepOwners, KeepBooks,
     KeepClaims, KeepSlots, KeepGroupsKnown, KeepEveryRowHeld
<1>4. KillTypes'
  BY DEF KillTypes
<1>5. Verdicts'
  BY <1>1, <1>2 DEF Verdicts, Absent
<1>6. Runs'
  BY <1>1, <1>2 DEF Runs
<1> QED BY <1>3, <1>4, <1>5, <1>6

\* A group that is gone, or that another program leads, is not the scratch's.
LEMMA NotOurs ==
  ASSUME IInv, NEW s \in Scratch, run[s] = "done", Gone(s) \/ ~GroupIsOurs(s)
  PROVE  Absent(s)
<1>1. pgid[s] \in Pgid /\ \A p \in Pgid : owner[p] \in Scratch => pgid[owner[p]] = p
  BY DEF IInv, Owners
<1>2. owner[pgid[s]] # s
  BY OwnerAssumption DEF Gone, GroupIsOurs
<1> QED BY <1>1, <1>2 DEF Absent

\* Terminate, Kill and Confirm.
LEMMA KillTrue ==
  ASSUME IInv, NEW s \in Scratch, Terminate(s) \/ Kill(s) \/ Confirm(s)
  PROVE  IInv'
<1> DEFINE K == [at : {"off", "probe", "grace", "confirm"} \cup Outcome, left : 0..1]
<1>1. UNCHANGED <<owner, led, file, pgid, token, phase, todo, unresolved, crashes, rows, opaque,
                  inherited, claimed, reserved, run, session, pids, task, ended, reaper, killer,
                  audited>>
  BY DEF Terminate, Kill, Confirm, osVars, diskVars, bootVars, regVars, paneVars
<1>2. kill \in [Scratch -> K] /\ kill[s] \in K
  BY DEF IInv, Types, KillTypes
<1>3. run[s] = "done"
  <2>1. kill[s].at # "off"
    BY DEF Terminate, Kill, Confirm
  <2> QED BY <2>1 DEF IInv, Runs
<1>4. Gone(s) \/ ~GroupIsOurs(s) => Absent(s)
  BY <1>3, NotOurs
<1>5. ASSUME NEW a \in {"off", "probe", "grace", "confirm"} \cup Outcome, Reaches(s, a),
             a \in {"dead", "died"} => Absent(s)
      PROVE  IInv'
  <2>1. kill' = [kill EXCEPT ![s] = [kill[s] EXCEPT !.at = a]]
    BY <1>2, <1>5 DEF Reaches
  <2>2. [kill[s] EXCEPT !.at = a] \in K /\ [kill[s] EXCEPT !.at = a].at = a
    BY <1>2
  <2>3. PICK k \in K : k = [kill[s] EXCEPT !.at = a] /\ k.at = a
    BY <2>2
  <2>4. kill' = [kill EXCEPT ![s] = k] /\ (k.at \in {"dead", "died"} => Absent(s))
    BY <1>5, <2>1, <2>3
  <2> QED BY <1>1, <1>3, <2>4, KillMoves
<1>6. ASSUME kill' = [kill EXCEPT ![s] = [at |-> "probe", left |-> 0]]
      PROVE  IInv'
  <2>1. [at |-> "probe", left |-> 0] \in K
    OBVIOUS
  <2>2. PICK k \in K : k = [at |-> "probe", left |-> 0]
    BY <2>1
  <2>3. kill' = [kill EXCEPT ![s] = k] /\ ~(k.at \in {"dead", "died"})
    BY <1>6, <2>2
  <2> QED BY <1>1, <1>3, <2>3, KillMoves
<1>7. Unconfirmed(s) => IInv'
  BY <1>5, <1>6 DEF Unconfirmed, Outcome
<1> HIDE DEF K
<1>8. (Gone(s) \/ ~GroupIsOurs(s)) /\ (Reaches(s, "dead") \/ Reaches(s, "died")) => IInv'
  BY <1>4, <1>5 DEF Outcome
<1>9. Reaches(s, "grace") \/ Reaches(s, "confirm") => IInv'
  BY <1>5
<1>10. \/ (Gone(s) \/ ~GroupIsOurs(s)) /\ (Reaches(s, "dead") \/ Reaches(s, "died"))
       \/ Reaches(s, "grace") \/ Reaches(s, "confirm") \/ Unconfirmed(s)
  BY DEF Terminate, Kill, Confirm
<1> QED BY <1>7, <1>8, <1>9, <1>10

\* A row is taken up: startup_reap and seed_unresolved.
LEMMA TakeRowTrue ==
  ASSUME IInv, NEW s \in Scratch, TakeRow(s)
  PROVE  IInv'
<1>1. UNCHANGED <<owner, led, file, pgid, token, phase, todo, unresolved, crashes, rows, opaque,
                  inherited, claimed, reserved, run, session, pids, task, ended, reaper, killer,
                  audited>>
  BY DEF TakeRow, osVars, diskVars, bootVars, regVars, paneVars
<1>2. run[s] = "done"
  BY DEF TakeRow, IInv, Runs
<1> DEFINE n == IF phase = "reaping" THEN 0 ELSE 1
<1>3. kill' = [kill EXCEPT ![s] = [at |-> "probe", left |-> n]] /\ n \in 0..1
  BY DEF TakeRow
<1> HIDE DEF n
<1>4. [at |-> "probe", left |-> n]
            \in [at : {"off", "probe", "grace", "confirm"} \cup Outcome, left : 0..1]
  BY <1>3
<1>5. PICK k \in [at : {"off", "probe", "grace", "confirm"} \cup Outcome, left : 0..1] :
            k = [at |-> "probe", left |-> n]
  BY <1>4
<1>6. k.at = "probe" /\ kill' = [kill EXCEPT ![s] = k]
  BY <1>3, <1>5
<1> QED BY <1>1, <1>2, <1>6, KillMoves

-----------------------------------------------------------------------------
(* The daemon starts and dies                                              *)

\* startup_reap has every row of the file before it.
LEMMA StartTrue ==
  ASSUME IInv, Start
  PROVE  IInv'
<1> USE DEF IInv, Types
<1>1. UNCHANGED <<owner, led, file, pgid, token, unresolved, crashes, rows, opaque, inherited,
                  claimed, reserved, run, session, pids, task, ended, reaper, killer, kill,
                  audited>>
  BY DEF Start, osVars, diskVars, bootVars, regVars, paneVars
<1>2. phase = "down" /\ phase' = "reaping" /\ todo' = file
  BY DEF Start
<1>3. /\ unresolved = {} /\ rows = {} /\ opaque = {}
      /\ \A s \in Scratch : audited[s] = 0 /\ reaper[s] = "none" /\ killer[s] = "idle"
  BY <1>2 DEF Books
<1>4. file \subseteq Scratch
  BY DEF BookTypes
<1>5. /\ GroupTypes' /\ RunTypes' /\ ReapTypes' /\ KillTypes' /\ Owners' /\ Verdicts' /\ Claims'
      /\ GroupsKnown' /\ EveryRowHeld'
  BY <1>1, KeepGroupTypes, KeepRunTypes, KeepReapTypes, KeepKillTypes, KeepOwners, KeepVerdicts,
     KeepClaims, KeepGroupsKnown, KeepEveryRowHeld
<1>6. BookTypes'
  BY <1>1, <1>2 DEF BookTypes
<1>7. Runs'
  BY <1>1, <1>2 DEF Runs
<1>8. Books'
  <2>1. /\ todo' \cup unresolved' = file' /\ unresolved' = {} /\ rows' = {} /\ opaque' = {}
        /\ \A s \in Scratch : audited'[s] = 0 /\ reaper'[s] = "none" /\ killer'[s] = "idle"
    BY <1>1, <1>2, <1>3
  <2> QED BY <1>2, <1>1, <1>4, <2>1 DEF Books
<1>9. Slots'
  BY <1>1, <1>2 DEF Slots, Holding
<1> QED BY <1>5, <1>6, <1>7, <1>8, <1>9

\* startup_reap is done with a row: confirmed and audited, or left over.
LEMMA StartupResolvesTrue ==
  ASSUME IInv, NEW s \in Scratch, StartupResolves(s)
  PROVE  IInv'
<1> USE DEF IInv, Types
<1>1. UNCHANGED <<owner, led, file, pgid, token, phase, crashes, rows, opaque, inherited,
                  claimed, reserved, run, session, pids, task, ended, reaper, killer>>
  BY DEF StartupResolves, osVars, diskVars, bootVars, regVars, paneVars
<1>2. /\ phase = "reaping" /\ s \in todo /\ todo' = todo \ {s} /\ kill' = [kill EXCEPT ![s] = Off]
      /\ kill[s].at \in Outcome
  BY DEF StartupResolves
<1>3. /\ rows = {} /\ todo \cup unresolved \subseteq file /\ todo \cap unresolved = {}
      /\ \A t \in todo \cup unresolved : audited[t] = 0
      /\ \A t \in file \ (todo \cup unresolved) : audited[t] = 1 /\ Absent(t)
  BY <1>2 DEF Books
<1>4. /\ kill'[s] = Off /\ \A t \in Scratch : t # s => kill'[t] = kill[t]
      /\ Off.at = "off"
  BY <1>2 DEF KillTypes, Off
<1>5. \/ /\ unresolved' = unresolved \cup {s} /\ audited' = audited
      \/ /\ unresolved' = unresolved /\ audited'[s] = 1 /\ Absent(s)
         /\ audited' \in [Scratch -> Nat] /\ \A t \in Scratch : t # s => audited'[t] = audited[t]
  <2>1. CASE kill[s].at = "unconfirmed" /\ unresolved' = unresolved \cup {s} /\ UNCHANGED audited
    BY <2>1
  <2>2. CASE kill[s].at # "unconfirmed" /\ Audit(s) /\ UNCHANGED unresolved
    <3>1. Absent(s)
      BY <1>2, <2>2 DEF Verdicts, Outcome
    <3>2. audited[s] = 0 /\ audited \in [Scratch -> Nat]
      BY <1>2, <1>3 DEF ReapTypes
    <3> QED BY <2>2, <3>1, <3>2 DEF Audit
  <2> QED BY <2>1, <2>2 DEF StartupResolves
<1>6. /\ run[s] = "done" /\ audited \in [Scratch -> Nat]
      /\ todo \subseteq Scratch /\ unresolved \subseteq Scratch /\ file \subseteq Scratch
  BY <1>2 DEF Runs, BookTypes, ReapTypes
<1>7. /\ GroupTypes' /\ RunTypes' /\ Owners' /\ Slots' /\ GroupsKnown' /\ EveryRowHeld'
  BY <1>1, KeepGroupTypes, KeepRunTypes, KeepOwners, KeepSlots, KeepGroupsKnown, KeepEveryRowHeld
<1>8. BookTypes'
  BY <1>1, <1>2, <1>5 DEF BookTypes
<1>9. ReapTypes'
  BY <1>1, <1>5 DEF ReapTypes
<1>10. KillTypes'
  BY <1>2 DEF KillTypes, Off
<1>11. Verdicts'
  BY <1>1, <1>4 DEF Verdicts, Absent
<1>12. Runs'
  <2>1. \A t \in todo' \cup unresolved' : run[t] = "done"
    BY <1>2, <1>5, <1>6 DEF Runs
  <2>2. \A t \in Scratch : run[t] # "done" => kill'[t].at = "off" /\ audited'[t] = 0
    BY <1>4, <1>5, <1>6 DEF Runs
  <2> QED BY <1>1, <2>1, <2>2 DEF Runs
<1>13. Books'
  <2>1. \A t \in Scratch : Absent(t)' <=> Absent(t)
    BY <1>1 DEF Absent
  <2>2. /\ todo' \cup unresolved' \subseteq file /\ todo' \cap unresolved' = {}
        /\ \A t \in todo' \cup unresolved' : audited'[t] = 0
    <3>1. CASE unresolved' = unresolved \cup {s} /\ audited' = audited
      BY <1>2, <1>3, <3>1
    <3>2. CASE /\ unresolved' = unresolved /\ s \notin unresolved
               /\ \A t \in Scratch : t # s => audited'[t] = audited[t]
      BY <1>2, <1>3, <1>6, <3>2
    <3> QED BY <1>2, <1>3, <1>5, <3>1, <3>2
  <2>3. \A t \in file \ (todo' \cup unresolved') : audited'[t] = 1 /\ Absent(t)
    <3>1. CASE unresolved' = unresolved \cup {s} /\ audited' = audited
      BY <1>2, <1>3, <3>1
    <3>2. CASE /\ unresolved' = unresolved /\ audited'[s] = 1 /\ Absent(s)
               /\ \A t \in Scratch : t # s => audited'[t] = audited[t]
      BY <1>2, <1>3, <1>6, <3>2
    <3> QED BY <1>5, <3>1, <3>2
  <2>4. \A t \in file \ (todo' \cup unresolved') : Absent(t)'
    BY <1>6, <2>1, <2>3
  <2> QED BY <1>1, <1>2, <2>2, <2>3, <2>4 DEF Books
<1>14. Claims'
  BY <1>1, <1>3, <1>5 DEF Claims
<1> QED BY <1>7, <1>8, <1>9, <1>10, <1>11, <1>12, <1>13, <1>14

\* What is left over is the registry now, and every row it names has a reaper.
LEMMA SeedTrue ==
  ASSUME IInv, Seed
  PROVE  IInv'
<1> USE DEF IInv, Types
<1>1. UNCHANGED <<owner, led, pgid, token, unresolved, crashes, claimed, reserved, run,
                  session, pids, task, ended, killer, kill, audited>>
  BY DEF Seed, osVars, diskVars, bootVars, regVars, paneVars
<1>2. /\ phase = "reaping" /\ todo = {} /\ file' = unresolved
      /\ rows' = unresolved \ Opaque /\ inherited' = rows' /\ opaque' = unresolved \cap Opaque
      /\ todo' = opaque' /\ phase' = "seeding"
      /\ reaper' = [s \in Scratch |-> IF s \in unresolved \ Opaque THEN "armed" ELSE reaper[s]]
  BY DEF Seed
<1>3. /\ rows = {} /\ unresolved \subseteq file
      /\ \A s \in unresolved : audited[s] = 0
      /\ \A s \in file \ unresolved : Absent(s)
      /\ \A s \in Scratch : reaper[s] = "none" /\ killer[s] = "idle"
  BY <1>2 DEF Books
<1>4. claimed = {} /\ file \subseteq Scratch /\ unresolved \subseteq Scratch
  BY <1>3 DEF BookTypes
<1>5. \A s \in Scratch : reaper'[s] = IF s \in unresolved \ Opaque THEN "armed" ELSE "none"
  BY <1>2, <1>3
<1>6. /\ GroupTypes' /\ RunTypes' /\ KillTypes' /\ Owners'
  BY <1>1, KeepGroupTypes, KeepRunTypes, KeepKillTypes, KeepOwners
<1>7. BookTypes'
  BY <1>1, <1>2, <1>4 DEF BookTypes
<1>8. ReapTypes'
  BY <1>1, <1>2 DEF ReapTypes
<1>9. Verdicts'
  <2>1. \A s \in Scratch : reaper'[s] # "audited"
    BY <1>5
  <2> QED BY <1>1, <2>1 DEF Verdicts, Absent
<1>10. Runs'
  <2>1. \A s \in file' \cup rows' \cup opaque' \cup todo' \cup unresolved' : s \in unresolved
    BY <1>1, <1>2
  <2>2. \A s \in Scratch : run[s] # "done" => reaper'[s] = "none"
    BY <1>5 DEF Runs
  <2> QED BY <1>1, <2>1, <2>2 DEF Runs
<1>11. Books'
  <2>1. file' = rows' \cup opaque' /\ todo' \subseteq opaque'
    BY <1>2
  <2>2. \A s \in todo' : audited'[s] \in {0, 1}
    BY <1>1, <1>2, <1>3
  <2> QED BY <1>2, <2>1, <2>2 DEF Books
<1>12. Claims'
  <2>1. \A s \in Scratch : reaper'[s] \in {"armed", "none"} /\ killer'[s] = "idle"
    BY <1>1, <1>3, <1>5
  <2>2. \A s \in rows' : audited'[s] = 0
    BY <1>1, <1>2, <1>3
  <2> QED BY <2>1, <2>2 DEF Claims
<1>13. Slots'
  <2>1. /\ IsFiniteSet(file) /\ Cardinality(file) + reserved <= Quota /\ Holding = {}
        /\ IsFiniteSet(Holding) /\ reserved = Cardinality(Holding)
    BY <1>2 DEF Slots
  <2>2. Holding' = Holding
    BY <1>1 DEF Holding
  <2>3. reserved \in Nat /\ Cardinality(file) \in Nat /\ Quota \in Nat
    BY <2>1, FS_CardinalityType, QuotaAssumption
  <2>4. file' \in SUBSET file
    BY <1>2, <1>3
  <2>5. IsFiniteSet(file') /\ Cardinality(file') <= Cardinality(file) /\ Cardinality(file') \in Nat
    BY <2>1, <2>4, FS_Subset, FS_CardinalityType
  <2> QED BY <1>1, <2>1, <2>2, <2>3, <2>5 DEF Slots
<1>14. GroupsKnown'
  <2>1. \A p \in Pgid : owner[p] \in file => owner[p] \in file'
    BY <1>2, <1>3 DEF Absent
  <2> QED BY <1>1, <2>1 DEF GroupsKnown
<1>15. EveryRowHeld'
  BY <1>1, <1>2, <1>4, <1>5 DEF EveryRowHeld
<1> QED BY <1>6, <1>7, <1>8, <1>9, <1>10, <1>11, <1>12, <1>13, <1>14, <1>15

\* An opaque row is audited once.
LEMMA SeedAuditsTrue ==
  ASSUME IInv, NEW s \in Scratch, SeedAudits(s)
  PROVE  IInv'
<1> USE DEF IInv, Types
<1>1. UNCHANGED <<owner, led, file, pgid, token, phase, todo, unresolved, crashes, rows,
                  opaque, inherited, claimed, reserved, run, session, pids, task, ended,
                  reaper, killer, kill>>
  BY DEF SeedAudits, osVars, diskVars, bootVars, regVars, paneVars
<1>2. /\ phase = "seeding" /\ s \in todo /\ audited[s] = 0
      /\ audited' = [audited EXCEPT ![s] = @ + 1]
  BY DEF SeedAudits, Audit
<1>3. /\ audited'[s] = 1 /\ audited' \in [Scratch -> Nat]
      /\ \A t \in Scratch : t # s => audited'[t] = audited[t]
  <2>1. audited \in [Scratch -> Nat]
    BY DEF ReapTypes
  <2>2. audited'[s] = audited[s] + 1 /\ audited' \in [Scratch -> Nat]
        /\ \A t \in Scratch : t # s => audited'[t] = audited[t]
    BY <1>2, <2>1
  <2> QED BY <1>2, <2>2
<1>4. s \notin rows /\ run[s] = "done" /\ todo \subseteq Scratch
  BY <1>2 DEF Books, BookTypes, Runs
<1>5. /\ GroupTypes' /\ BookTypes' /\ RunTypes' /\ KillTypes' /\ Owners' /\ Verdicts' /\ Slots'
      /\ GroupsKnown' /\ EveryRowHeld'
  BY <1>1, KeepGroupTypes, KeepBookTypes, KeepRunTypes, KeepKillTypes, KeepOwners, KeepVerdicts,
     KeepSlots, KeepGroupsKnown, KeepEveryRowHeld
<1>6. ReapTypes'
  BY <1>1, <1>3 DEF ReapTypes
<1>7. Runs'
  BY <1>1, <1>3, <1>4 DEF Runs
<1>8. Books'
  <2>1. \A t \in todo : audited'[t] \in {0, 1}
    BY <1>2, <1>3, <1>4 DEF Books
  <2>2. \A t \in Scratch : Absent(t)' <=> Absent(t)
    BY <1>1 DEF Absent
  <2> QED BY <1>1, <1>2, <2>1 DEF Books
<1>9. Claims'
  BY <1>1, <1>3, <1>4 DEF Claims
<1> QED BY <1>5, <1>6, <1>7, <1>8, <1>9

\* An opaque row stays, or it is dropped when its group is gone.
LEMMA SeedResolvesTrue ==
  ASSUME IInv, NEW s \in Scratch, SeedResolves(s)
  PROVE  IInv'
<1> USE DEF IInv, Types
<1>1. UNCHANGED <<owner, led, pgid, token, phase, unresolved, crashes, rows, inherited,
                  claimed, reserved, run, session, pids, task, ended, reaper, killer, audited>>
  BY DEF SeedResolves, osVars, diskVars, bootVars, regVars, paneVars
<1>2. /\ phase = "seeding" /\ s \in todo /\ todo' = todo \ {s} /\ kill' = [kill EXCEPT ![s] = Off]
      /\ \/ kill[s].at = "unconfirmed" /\ opaque' = opaque /\ file' = file
         \/ kill[s].at \in {"dead", "died"} /\ opaque' = opaque \ {s} /\ file' = rows \cup opaque'
  BY DEF SeedResolves
<1>3. /\ file = rows \cup opaque /\ todo \subseteq opaque
      /\ \A t \in todo : audited[t] \in {0, 1}
  BY <1>2 DEF Books
<1>4. /\ kill'[s] = Off /\ \A t \in Scratch : t # s => kill'[t] = kill[t]
      /\ Off.at = "off"
  BY <1>2 DEF KillTypes, Off
<1>5. /\ file' = rows \cup opaque' /\ opaque' \subseteq opaque /\ file' \subseteq file
      /\ todo' \subseteq opaque' /\ todo' \subseteq todo
  BY <1>2, <1>3
<1>6. \A t \in file \ file' : Absent(t)
  BY <1>2, <1>3 DEF Verdicts
<1>7. /\ GroupTypes' /\ RunTypes' /\ ReapTypes' /\ Owners' /\ Claims' /\ EveryRowHeld'
  BY <1>1, KeepGroupTypes, KeepRunTypes, KeepReapTypes, KeepOwners, KeepClaims, KeepEveryRowHeld
<1>8. BookTypes'
  BY <1>1, <1>5 DEF BookTypes
<1>9. KillTypes'
  BY <1>2 DEF KillTypes, Off
<1>10. Verdicts'
  BY <1>1, <1>4 DEF Verdicts, Absent
<1>11. Runs'
  <2>1. \A t \in Scratch : run[t] # "done" => kill'[t].at = "off"
    BY <1>4 DEF Runs
  <2>2. \A t \in file' \cup rows' \cup opaque' \cup todo' \cup unresolved' : run[t] = "done"
    BY <1>1, <1>5 DEF Runs
  <2> QED BY <1>1, <2>1, <2>2 DEF Runs
<1>12. Books'
  BY <1>1, <1>2, <1>3, <1>5 DEF Books
<1>13. Slots'
  <2>1. /\ IsFiniteSet(file) /\ Cardinality(file) + reserved <= Quota
        /\ IsFiniteSet(Holding) /\ reserved = Cardinality(Holding)
    BY DEF Slots
  <2>2. Holding' = Holding /\ (phase # "up" => Holding = {})
    BY <1>1 DEF Holding, Slots
  <2>3. reserved \in Nat /\ Cardinality(file) \in Nat /\ Quota \in Nat
    BY <2>1, FS_CardinalityType, QuotaAssumption
  <2>4. file' \in SUBSET file
    BY <1>5
  <2>5. IsFiniteSet(file') /\ Cardinality(file') <= Cardinality(file) /\ Cardinality(file') \in Nat
    BY <2>1, <2>4, FS_Subset, FS_CardinalityType
  <2> QED BY <1>1, <2>1, <2>2, <2>3, <2>5 DEF Slots
<1>14. GroupsKnown'
  <2>1. \A p \in Pgid : owner[p] \in file => owner[p] \in file'
    BY <1>6 DEF Absent
  <2> QED BY <1>1, <2>1 DEF GroupsKnown
<1> QED BY <1>7, <1>8, <1>9, <1>10, <1>11, <1>12, <1>13, <1>14

\* The RPC server takes calls.
LEMMA ServeTrue ==
  ASSUME IInv, Serve
  PROVE  IInv'
<1> USE DEF IInv, Types
<1>1. UNCHANGED <<owner, led, file, pgid, token, todo, unresolved, crashes, rows, opaque,
                  inherited, claimed, reserved, run, session, pids, task, ended, reaper,
                  killer, kill, audited>>
  BY DEF Serve, osVars, diskVars, bootVars, regVars, paneVars
<1>2. phase = "seeding" /\ todo = {} /\ phase' = "up"
  BY DEF Serve
<1>3. /\ GroupTypes' /\ RunTypes' /\ ReapTypes' /\ KillTypes' /\ Owners' /\ Verdicts' /\ Runs'
      /\ Claims' /\ GroupsKnown' /\ EveryRowHeld'
  BY <1>1, KeepGroupTypes, KeepRunTypes, KeepReapTypes, KeepKillTypes, KeepOwners, KeepVerdicts,
     KeepRuns, KeepClaims, KeepGroupsKnown, KeepEveryRowHeld
<1>4. BookTypes'
  BY <1>1, <1>2 DEF BookTypes
<1>5. Books'
  BY <1>1, <1>2 DEF Books
<1>6. Slots'
  BY <1>1, <1>2 DEF Slots, Holding
<1> QED BY <1>3, <1>4, <1>5, <1>6

\* Memory goes; what is on disk and what runs stays.
LEMMA CrashTrue ==
  ASSUME IInv, Crash
  PROVE  IInv'
<1> USE DEF IInv, Types
<1>1. UNCHANGED <<owner, led, file, pgid, token>>
  BY DEF Crash, osVars, diskVars, bootVars, regVars, paneVars
<1>2. /\ phase' = "down" /\ crashes' = crashes + 1 /\ crashes < MaxCrash
      /\ todo' = {} /\ unresolved' = {} /\ rows' = {} /\ opaque' = {} /\ inherited' = {}
      /\ claimed' = {} /\ reserved' = 0 /\ session' = {} /\ pids' = {}
  BY DEF Crash
<1>3. /\ run' = [s \in Scratch |-> IF run[s] \in {"idle", "done", "failed"} THEN run[s] ELSE "lost"]
      /\ task' = [s \in Scratch |-> "none"] /\ ended' = [s \in Scratch |-> None]
      /\ reaper' = [s \in Scratch |-> "none"] /\ killer' = [s \in Scratch |-> "idle"]
      /\ kill' = [s \in Scratch |-> Off] /\ audited' = [s \in Scratch |-> 0]
  BY DEF Crash
<1>4. \A s \in Scratch : run'[s] = IF run[s] \in {"idle", "done", "failed"} THEN run[s] ELSE "lost"
  BY <1>3
<1>5. /\ \A s \in Scratch : task'[s] = "none" /\ ended'[s] = None /\ reaper'[s] = "none"
      /\ \A s \in Scratch : killer'[s] = "idle" /\ kill'[s] = Off /\ audited'[s] = 0
      /\ Off.at = "off" /\ None # TRUE
  BY <1>3, OwnerAssumption DEF Off
<1>6. \A s \in Scratch : Absent(s)' <=> Absent(s)
  BY <1>1 DEF Absent
<1>7. /\ GroupTypes'
  BY <1>1, KeepGroupTypes
<1>8. BookTypes'
  BY <1>1, <1>2, QuotaAssumption DEF BookTypes
<1>9. RunTypes'
  BY <1>1, <1>2, <1>3 DEF RunTypes
<1>10. ReapTypes'
  BY <1>3 DEF ReapTypes
<1>11. KillTypes'
  BY <1>3 DEF KillTypes, Off
<1>12. Owners'
  BY <1>1, <1>4, <1>5, <1>6 DEF Owners
<1>13. Verdicts'
  <2>1. \A s \in Scratch : ended'[s] # TRUE
    BY <1>5
  <2>2. \A s \in Scratch : kill'[s].at = "off" /\ reaper'[s] # "audited" /\ killer'[s] # "audited"
    BY <1>5
  <2> QED BY <2>1, <2>2 DEF Verdicts
<1>14. Runs'
  <2>1. \A s \in Scratch : kill'[s].at = "off"
    BY <1>5
  <2>2. \A s \in Opaque : s \in Scratch /\ run'[s] = "done"
    BY <1>4, OpaqueAssumption DEF Runs
  <2>3. \A s \in file' \cup rows' \cup opaque' \cup todo' \cup unresolved' : run'[s] = "done"
    <3>1. file \subseteq Scratch /\ \A s \in file : run[s] = "done"
      BY DEF BookTypes, Runs
    <3> QED BY <1>1, <1>2, <1>4, <3>1
  <2>4. \A s \in Scratch : run'[s] \notin {"spawned", "known"}
    BY <1>4
  <2> QED BY <1>5, <2>1, <2>2, <2>3, <2>4 DEF Runs
<1>15. Books'
  BY <1>2, <1>5 DEF Books
<1>16. Claims'
  BY <1>2, <1>5 DEF Claims
<1>17. Slots'
  <2>1. IsFiniteSet(file) /\ Cardinality(file) + reserved <= Quota /\ IsFiniteSet(Holding)
        /\ reserved = Cardinality(Holding)
    BY DEF Slots
  <2>2. Cardinality(file) \in Nat /\ reserved \in Nat /\ Quota \in Nat
    BY <2>1, FS_CardinalityType, QuotaAssumption
  <2>3. Holding' = {}
    BY <1>4 DEF Holding
  <2>4. IsFiniteSet(Holding') /\ reserved' = Cardinality(Holding')
    BY <1>2, <2>3, FS_EmptySet
  <2>5. Cardinality(file') + reserved' <= Quota
    BY <1>1, <1>2, <2>1, <2>2
  <2> QED BY <1>1, <2>1, <2>3, <2>4, <2>5 DEF Slots
<1>18. GroupsKnown'
  <2> SUFFICES ASSUME NEW p \in Pgid, NEW s \in Scratch, owner[p] = s, s \notin file
               PROVE  run'[s] \in {"failed", "lost"} /\ task'[s] = "none" /\ crashes' > 0
    BY <1>1 DEF GroupsKnown
  <2>1. run[s] \in {"spawned", "known", "failed", "lost"}
    BY DEF GroupsKnown
  <2>2. crashes' > 0
    BY <1>2 DEF BookTypes
  <2> QED BY <1>4, <1>5, <2>1, <2>2
<1>19. EveryRowHeld'
  BY <1>2 DEF EveryRowHeld
<1> QED BY <1>7, <1>8, <1>9, <1>10, <1>11, <1>12, <1>13, <1>14, <1>15, <1>16, <1>17, <1>18, <1>19

-----------------------------------------------------------------------------
(* lens.run                                                                *)

\* A call at work is counted, while the daemon serves, and has no books.
LEMMA HoldingCounted ==
  ASSUME IInv, NEW s \in Scratch, run[s] \in {"reserved", "created", "spawned", "known"}
  PROVE  /\ s \in Holding /\ IsFiniteSet(Holding) /\ reserved = Cardinality(Holding)
         /\ reserved \in Nat /\ reserved >= 1 /\ phase = "up"
         /\ s \notin Opaque \cup file \cup rows \cup claimed /\ todo = {}
         /\ kill[s].at = "off" /\ reaper[s] = "none" /\ audited[s] = 0 /\ killer[s] # "audited"
<1>1. s \in Holding /\ IsFiniteSet(Holding) /\ reserved = Cardinality(Holding) /\ phase = "up"
  BY DEF IInv, Slots, Holding
<1>2. reserved \in Nat /\ reserved # 0
  BY <1>1, FS_CardinalityType, FS_EmptySet
<1>3. s \notin Opaque \cup file \cup rows
  BY DEF IInv, Runs
<1>4. s \notin claimed /\ todo = {}
  BY <1>1, <1>3 DEF IInv, Types, BookTypes, Books
<1>5. kill[s].at = "off" /\ reaper[s] = "none" /\ audited[s] = 0
  BY DEF IInv, Runs
<1>6. killer[s] # "audited"
  BY <1>4 DEF IInv, Claims
<1> QED BY <1>1, <1>2, <1>3, <1>4, <1>5, <1>6

\* A call that goes on keeps its slot.
LEMMA SlotKept ==
  ASSUME IInv, NEW s \in Scratch, run[s] \in {"reserved", "created", "spawned", "known"},
         run'[s] \in {"reserved", "created", "spawned", "known"},
         \A t \in Scratch : t # s => run'[t] = run[t], UNCHANGED <<file, reserved, phase>>
  PROVE  Slots'
<1>1. Holding' = Holding
  BY DEF Holding
<1> QED BY <1>1 DEF IInv, Slots

\* A call that ends gives its slot back.
LEMMA SlotReleased ==
  ASSUME IInv, NEW s \in Scratch, run[s] \in {"reserved", "created", "spawned", "known"},
         run'[s] \notin {"reserved", "created", "spawned", "known"}, Release,
         \A t \in Scratch : t # s => run'[t] = run[t], UNCHANGED <<file, phase>>
  PROVE  Slots'
<1>1. /\ s \in Holding /\ IsFiniteSet(Holding) /\ reserved = Cardinality(Holding)
      /\ reserved \in Nat /\ reserved >= 1 /\ phase = "up"
  BY HoldingCounted
<1>2. Holding' = Holding \ {s}
  BY DEF Holding
<1>3. IsFiniteSet(Holding') /\ Cardinality(Holding') = reserved - 1
  BY <1>1, <1>2, FS_RemoveElement
<1>4. IsFiniteSet(file) /\ Cardinality(file) + reserved <= Quota
  BY DEF IInv, Slots
<1>5. Cardinality(file) \in Nat /\ Quota \in Nat
  BY <1>4, FS_CardinalityType, QuotaAssumption
<1>6. reserved' = reserved - 1 /\ Cardinality(file) + (reserved - 1) <= Quota
  BY <1>1, <1>4, <1>5 DEF Release
<1> QED BY <1>1, <1>3, <1>4, <1>6 DEF Slots

\* try_reserve takes a slot that is free.
LEMMA TryReserveTrue ==
  ASSUME IInv, NEW s \in Scratch, TryReserve(s)
  PROVE  IInv'
<1> USE DEF IInv, Types
<1>1. UNCHANGED <<owner, led, file, pgid, token, phase, todo, unresolved, crashes, rows,
                  opaque, inherited, claimed, session, pids, task, ended, reaper, killer, kill,
                  audited>>
  BY DEF TryReserve, osVars, diskVars, bootVars, regVars, paneVars
<1>2. /\ run' \in [Scratch -> {"idle", "reserved", "created", "spawned", "known", "done",
                                "failed", "lost"}]
      /\ run'[s] = "reserved" /\ \A t \in Scratch : t # s => run'[t] = run[t]
  BY DEF TryReserve, RunTypes
<1>3. phase = "up" /\ run[s] = "idle" /\ Total < Quota /\ reserved' = reserved + 1
  BY DEF TryReserve
<1>4. /\ GroupTypes' /\ BookTypes' /\ ReapTypes' /\ KillTypes' /\ Verdicts' /\ Books' /\ Claims'
      /\ EveryRowHeld'
  BY <1>1, KeepGroupTypes, KeepBookTypes, KeepReapTypes, KeepKillTypes, KeepVerdicts, KeepBooks,
     KeepClaims, KeepEveryRowHeld
<1>5. RunTypes'
  BY <1>1, <1>2 DEF RunTypes
<1>6. Owners'
  BY <1>1, <1>2, <1>3 DEF Owners, Absent
<1>7. Runs'
  <2>1. \A t \in Opaque \cup file \cup rows \cup opaque \cup todo \cup unresolved : t \in Scratch /\ t # s
    BY <1>3, OpaqueAssumption DEF Runs, BookTypes
  <2> QED BY <1>1, <1>2, <1>3, <2>1 DEF Runs
<1>8. Slots'
  <2>1. /\ IsFiniteSet(file) /\ IsFiniteSet(Holding) /\ reserved = Cardinality(Holding)
    BY DEF Slots
  <2>2. file = rows \cup opaque /\ rows \cap opaque = {}
    BY <1>3 DEF Books, BookTypes
  <2>3. rows \in SUBSET file /\ opaque \in SUBSET file
    BY <2>2
  <2>4. IsFiniteSet(rows) /\ IsFiniteSet(opaque)
    BY <2>1, <2>3, FS_Subset
  <2>5. /\ Cardinality(rows) \in Nat /\ Cardinality(opaque) \in Nat /\ Cardinality(file) \in Nat
        /\ reserved \in Nat /\ Quota \in Nat
    BY <2>1, <2>4, FS_CardinalityType, QuotaAssumption
  <2>6. Cardinality(rows \cup opaque) =
              Cardinality(rows) + Cardinality(opaque) - Cardinality(rows \cap opaque)
    BY <2>4, FS_Union
  <2>7. Cardinality(rows \cap opaque) = 0
    BY <2>2, FS_EmptySet
  <2>8. Cardinality(file) + reserved < Quota
    BY <1>3, <2>2, <2>5, <2>6, <2>7 DEF Total
  <2>9. Holding' = Holding \cup {s} /\ s \notin Holding
    BY <1>2, <1>3 DEF Holding
  <2>10. IsFiniteSet(Holding') /\ Cardinality(Holding') = reserved + 1
    BY <2>1, <2>9, FS_AddElement
  <2>11. Cardinality(file) + (reserved + 1) <= Quota
    BY <2>5, <2>8
  <2> QED BY <1>1, <1>3, <2>1, <2>10, <2>11 DEF Slots
<1>9. GroupsKnown'
  <2>1. \A p \in Pgid : owner[p] # s
    BY <1>3 DEF Owners, Absent
  <2> QED BY <1>1, <1>2, <2>1 DEF GroupsKnown
<1> QED BY <1>4, <1>5, <1>6, <1>7, <1>8, <1>9

\* The session is made.
LEMMA CreateSessionTrue ==
  ASSUME IInv, NEW s \in Scratch, CreateSession(s)
  PROVE  IInv'
<1> USE DEF IInv, Types
<1>1. UNCHANGED <<owner, led, file, pgid, token, phase, todo, unresolved, crashes, rows,
                  opaque, inherited, claimed, reserved, pids, task, ended, reaper, killer,
                  kill, audited>>
  BY DEF CreateSession, osVars, diskVars, bootVars, regVars, paneVars
<1>2. /\ run' \in [Scratch -> {"idle", "reserved", "created", "spawned", "known", "done",
                                "failed", "lost"}]
      /\ run'[s] = "created" /\ \A t \in Scratch : t # s => run'[t] = run[t]
  BY DEF CreateSession, RunTypes
<1>3. run[s] = "reserved" /\ session' = session \cup {s}
  BY DEF CreateSession
<1>4. \A t \in Opaque \cup file \cup rows \cup opaque \cup todo \cup unresolved : t \in Scratch /\ t # s
  BY <1>3, OpaqueAssumption DEF Runs, BookTypes
<1>5. /\ GroupTypes' /\ BookTypes' /\ ReapTypes' /\ KillTypes' /\ Verdicts' /\ Books' /\ Claims'
      /\ EveryRowHeld'
  BY <1>1, KeepGroupTypes, KeepBookTypes, KeepReapTypes, KeepKillTypes, KeepVerdicts, KeepBooks,
     KeepClaims, KeepEveryRowHeld
<1>6. RunTypes'
  BY <1>1, <1>2, <1>3 DEF RunTypes
<1>7. Owners'
  BY <1>1, <1>2, <1>3 DEF Owners, Absent
<1>8. Runs'
  BY <1>1, <1>2, <1>3, <1>4 DEF Runs
<1>9. Slots'
  BY <1>1, <1>2, <1>3, SlotKept
<1>10. GroupsKnown'
  <2>1. \A p \in Pgid : owner[p] # s
    BY <1>3 DEF Owners, Absent
  <2> QED BY <1>1, <1>2, <2>1 DEF GroupsKnown
<1> QED BY <1>5, <1>6, <1>7, <1>8, <1>9, <1>10

\* The call fails before there is a program.
LEMMA RunFailsTrue ==
  ASSUME IInv, NEW s \in Scratch, RunFails(s)
  PROVE  IInv'
<1> USE DEF IInv, Types
<1>1. UNCHANGED <<owner, led, file, pgid, token, phase, todo, unresolved, crashes, rows,
                  opaque, inherited, claimed, pids, task, ended, reaper, killer, kill, audited>>
  BY DEF RunFails, osVars, diskVars, bootVars, regVars, paneVars
<1>2. /\ run' \in [Scratch -> {"idle", "reserved", "created", "spawned", "known", "done",
                                "failed", "lost"}]
      /\ run'[s] = "failed" /\ \A t \in Scratch : t # s => run'[t] = run[t]
  BY DEF RunFails, RunTypes
<1>3. run[s] \in {"reserved", "created"} /\ session' = session \ {s} /\ Release
  BY DEF RunFails
<1>4. \A t \in Opaque \cup file \cup rows \cup opaque \cup todo \cup unresolved : t \in Scratch /\ t # s
  BY <1>3, OpaqueAssumption DEF Runs, BookTypes
<1>5. /\ GroupTypes' /\ BookTypes' /\ ReapTypes' /\ KillTypes' /\ Verdicts' /\ Books' /\ Claims'
      /\ EveryRowHeld'
  BY <1>1, KeepGroupTypes, KeepBookTypes, KeepReapTypes, KeepKillTypes, KeepVerdicts, KeepBooks,
     KeepClaims, KeepEveryRowHeld
<1>6. RunTypes'
  BY <1>1, <1>2, <1>3 DEF RunTypes
<1>7. Owners'
  BY <1>1, <1>2, <1>3 DEF Owners, Absent
<1>8. Runs'
  BY <1>1, <1>2, <1>3, <1>4 DEF Runs
<1>9. Slots'
  BY <1>1, <1>2, <1>3, SlotReleased
<1>10. GroupsKnown'
  <2>1. \A p \in Pgid : owner[p] # s
    BY <1>3 DEF Owners, Absent
  <2> QED BY <1>1, <1>2, <2>1 DEF GroupsKnown
<1> QED BY <1>5, <1>6, <1>7, <1>8, <1>9, <1>10

\* The program has its group; if the session is gone, its task ends it again.
LEMMA SpawnTrue ==
  ASSUME IInv, NEW s \in Scratch, Spawn(s)
  PROVE  IInv'
<1> USE DEF IInv, Types
<1>1. UNCHANGED <<file, token, phase, todo, unresolved, crashes, rows, opaque, inherited,
                  claimed, session, ended, reaper, killer, kill, audited>>
  BY DEF Spawn, osVars, diskVars, bootVars, regVars, paneVars
<1>2. PICK p \in Pgid : /\ owner[p] = None /\ owner' = [owner EXCEPT ![p] = s]
                        /\ led' = [led EXCEPT ![p] = TRUE] /\ pgid' = [pgid EXCEPT ![s] = p]
  BY DEF Spawn
<1>3. /\ owner \in [Pgid -> Scratch \cup {Foreign, None}] /\ led \in [Pgid -> BOOLEAN]
      /\ pgid \in [Scratch -> Pgid \cup {None}] /\ file \subseteq Scratch
  BY DEF GroupTypes, BookTypes
<1>4. /\ owner'[p] = s /\ \A q \in Pgid : q # p => owner'[q] = owner[q]
      /\ pgid'[s] = p /\ \A t \in Scratch : t # s => pgid'[t] = pgid[t]
  BY <1>2, <1>3
<1>5. /\ run[s] = "created"
      /\ \/ /\ run' = [run EXCEPT ![s] = "spawned"] /\ task' = [task EXCEPT ![s] = "running"]
            /\ pids' = pids \cup {s} /\ reserved' = reserved
         \/ /\ run' = [run EXCEPT ![s] = "failed"] /\ task' = [task EXCEPT ![s] = "ending"]
            /\ pids' = pids /\ Release
  BY DEF Spawn
<1>6. /\ \/ run'[s] = "spawned" /\ task'[s] = "running" /\ reserved' = reserved
         \/ run'[s] = "failed" /\ task'[s] = "ending" /\ Release
      /\ \A t \in Scratch : t # s => run'[t] = run[t] /\ task'[t] = task[t]
  BY <1>5 DEF RunTypes
<1>7. /\ \A q \in Pgid : owner[q] # s
      /\ \A q \in Pgid : owner[q] \in Scratch => pgid[owner[q]] = q
  BY <1>5 DEF Owners, Absent
<1>8. \A t \in Scratch : t # s /\ Absent(t) => Absent(t)'
  BY <1>4 DEF Absent
<1>9. \A t \in Opaque \cup file \cup rows \cup opaque \cup todo \cup unresolved : t \in Scratch /\ t # s
  BY <1>5, OpaqueAssumption DEF Runs, BookTypes
<1>10. kill[s].at = "off" /\ reaper[s] = "none" /\ audited[s] = 0 /\ killer[s] # "audited"
  BY <1>5, HoldingCounted DEF Runs
<1>11. ended[s] = None /\ None # TRUE
  BY <1>5, OwnerAssumption DEF Runs
<1>12. /\ BookTypes' /\ ReapTypes' /\ KillTypes' /\ Claims' /\ EveryRowHeld'
  BY <1>1, KeepBookTypes, KeepReapTypes, KeepKillTypes, KeepClaims, KeepEveryRowHeld
<1>13. GroupTypes'
  BY <1>1, <1>2, <1>3 DEF GroupTypes
<1>14. RunTypes'
  BY <1>1, <1>5 DEF RunTypes
<1>15. Owners'
  <2>1. \A q \in Pgid : owner'[q] \in Scratch => pgid'[owner'[q]] = q
    BY <1>4, <1>7
  <2>2. \A t \in Scratch : run'[t] \in {"idle", "reserved", "created"} => Absent(t)'
    BY <1>6, <1>8 DEF Owners
  <2>3. \A t \in Scratch : run'[t] \in {"spawned", "known", "done"} => pgid'[t] \in Pgid
    BY <1>4, <1>6 DEF Owners
  <2>4. \A t \in Scratch : task'[t] # "none" => pgid'[t] \in Pgid
    BY <1>4, <1>6 DEF Owners
  <2> QED BY <2>1, <2>2, <2>3, <2>4 DEF Owners
<1>16. Verdicts'
  <2>1. \A t \in Scratch : ended'[t] = TRUE => Absent(t)'
    BY <1>1, <1>8, <1>11 DEF Verdicts
  <2>2. \A t \in Scratch : kill'[t].at \in {"dead", "died"} => Absent(t)'
    BY <1>1, <1>8, <1>10 DEF Verdicts
  <2>3. \A t \in Scratch : reaper'[t] = "audited" \/ killer'[t] = "audited" => Absent(t)'
    BY <1>1, <1>8, <1>10 DEF Verdicts
  <2> QED BY <2>1, <2>2, <2>3 DEF Verdicts
<1>17. Runs'
  BY <1>1, <1>5, <1>6, <1>9 DEF Runs
<1>18. Books'
  <2>1. \A t \in file : t # s /\ t \in Scratch
    BY <1>9
  <2>2. phase = "up"
    BY <1>5, HoldingCounted
  <2> QED BY <1>1, <2>2 DEF Books
<1>19. Slots'
  <2>1. CASE run'[s] = "spawned" /\ reserved' = reserved
    BY <1>1, <1>5, <1>6, <2>1, SlotKept
  <2>2. CASE run'[s] = "failed" /\ Release
    BY <1>1, <1>5, <1>6, <2>2, SlotReleased
  <2> QED BY <1>6, <2>1, <2>2
<1>20. GroupsKnown'
  <2> SUFFICES ASSUME NEW q \in Pgid, owner'[q] \in Scratch
               PROVE  \/ owner'[q] \in file' \/ run'[owner'[q]] \in {"spawned", "known"}
                      \/ run'[owner'[q]] = "failed" /\ task'[owner'[q]] = "ending"
                      \/ /\ run'[owner'[q]] = "failed" /\ task'[owner'[q]] = "done"
                         /\ ended'[owner'[q]] = FALSE
                      \/ /\ run'[owner'[q]] \in {"failed", "lost"} /\ task'[owner'[q]] = "none"
                         /\ crashes' > 0
    BY DEF GroupsKnown
  <2>1. CASE q = p
    BY <1>4, <1>6, <2>1
  <2>2. CASE q # p
    BY <1>1, <1>4, <1>6, <1>7, <2>2 DEF GroupsKnown
  <2> QED BY <2>1, <2>2
<1> QED BY <1>12, <1>13, <1>14, <1>15, <1>16, <1>17, <1>18, <1>19, <1>20

\* The pid is read, or all is undone.
LEMMA ReadPidTrue ==
  ASSUME IInv, NEW s \in Scratch, ReadPid(s)
  PROVE  IInv'
<1> USE DEF IInv, Types
<1>1. UNCHANGED <<owner, led, file, pgid, token, phase, todo, unresolved, crashes, rows,
                  opaque, inherited, claimed, pids, ended, reaper, killer, kill, audited>>
  BY DEF ReadPid, osVars, diskVars, bootVars, regVars, paneVars
<1>2. /\ run[s] = "spawned"
      /\ \/ run' = [run EXCEPT ![s] = "known"] /\ UNCHANGED <<reserved, session, task>>
         \/ /\ run' = [run EXCEPT ![s] = "failed"] /\ session' = session \ {s} /\ Release
            /\ task' = [task EXCEPT ![s] = IF @ = "running" THEN "ending" ELSE @]
  BY DEF ReadPid
<1>3. /\ \/ run'[s] = "known" /\ task'[s] = task[s] /\ reserved' = reserved
         \/ run'[s] = "failed" /\ task'[s] # "running" /\ Release
      /\ task'[s] # "none" /\ (task'[s] = "done" => task[s] = "done")
      /\ \A t \in Scratch : t # s => run'[t] = run[t] /\ task'[t] = task[t]
  BY <1>2 DEF RunTypes, Runs
<1>4. \A t \in Opaque \cup file \cup rows \cup opaque \cup todo \cup unresolved : t \in Scratch /\ t # s
  BY <1>2, OpaqueAssumption DEF Runs, BookTypes
<1>5. pgid[s] \in Pgid
  BY <1>2 DEF Owners
<1>6. /\ GroupTypes' /\ BookTypes' /\ ReapTypes' /\ KillTypes' /\ Verdicts' /\ Books' /\ Claims'
      /\ EveryRowHeld'
  BY <1>1, KeepGroupTypes, KeepBookTypes, KeepReapTypes, KeepKillTypes, KeepVerdicts, KeepBooks,
     KeepClaims, KeepEveryRowHeld
<1>7. RunTypes'
  BY <1>1, <1>2 DEF RunTypes
<1>8. Owners'
  <2>1. \A t \in Scratch : run'[t] \in {"idle", "reserved", "created"} => Absent(t)
    BY <1>3 DEF Owners
  <2>2. \A t \in Scratch : Absent(t)' <=> Absent(t)
    BY <1>1 DEF Absent
  <2> QED BY <1>1, <1>3, <1>5, <2>1, <2>2 DEF Owners
<1>9. Runs'
  BY <1>1, <1>2, <1>3, <1>4 DEF Runs
<1>10. Slots'
  <2>1. CASE run'[s] = "known" /\ reserved' = reserved
    BY <1>1, <1>2, <1>3, <2>1, SlotKept
  <2>2. CASE run'[s] = "failed" /\ Release
    BY <1>1, <1>2, <1>3, <2>2, SlotReleased
  <2> QED BY <1>3, <2>1, <2>2
<1>11. GroupsKnown'
  <2> SUFFICES ASSUME NEW q \in Pgid, owner[q] = s, run'[s] = "failed"
               PROVE  task'[s] = "ending" \/ (task'[s] = "done" /\ ended[s] = FALSE)
    BY <1>1, <1>3 DEF GroupsKnown
  <2>1. task'[s] \in {"ending", "done"}
    BY <1>3, <1>7 DEF RunTypes
  <2>2. ended[s] # TRUE
    BY DEF Verdicts, Absent
  <2>3. task[s] = "done" => ended[s] \in BOOLEAN
    BY DEF Runs
  <2> QED BY <1>3, <2>1, <2>2, <2>3
<1> QED BY <1>6, <1>7, <1>8, <1>9, <1>10, <1>11

\* The row takes the slot of the call.
LEMMA CommitTrue ==
  ASSUME IInv, NEW s \in Scratch, Commit(s)
  PROVE  IInv'
<1> USE DEF IInv, Types
<1>1. UNCHANGED <<owner, led, pgid, phase, todo, unresolved, crashes, opaque, inherited,
                  claimed, session, pids, task, ended, killer, kill, audited>>
  BY DEF Commit, osVars, diskVars, bootVars, regVars, paneVars, Release
<1>2. /\ run' \in [Scratch -> {"idle", "reserved", "created", "spawned", "known", "done",
                                "failed", "lost"}]
      /\ run'[s] = "done" /\ \A t \in Scratch : t # s => run'[t] = run[t]
  BY DEF Commit, RunTypes
<1>3. /\ run[s] = "known" /\ rows' = rows \cup {s} /\ opaque' = opaque /\ reserved' = reserved - 1
      /\ file' = rows' \cup opaque' /\ reaper' = [reaper EXCEPT ![s] = "armed"]
      /\ \E captured \in BOOLEAN : token' = [token EXCEPT ![s] = captured]
  BY DEF Commit, Release, Persist
<1>4. /\ s \in Holding /\ IsFiniteSet(Holding) /\ reserved = Cardinality(Holding)
      /\ reserved \in Nat /\ reserved >= 1 /\ phase = "up"
      /\ s \notin Opaque \cup file \cup rows \cup claimed /\ todo = {}
      /\ audited[s] = 0 /\ killer[s] # "audited"
  BY <1>3, HoldingCounted
<1>5. file = rows \cup opaque /\ file' = file \cup {s} /\ claimed \subseteq rows
  BY <1>3, <1>4 DEF Books, BookTypes
<1>6. /\ reaper'[s] = "armed" /\ \A t \in Scratch : t # s => reaper'[t] = reaper[t]
      /\ reaper[s] = "none"
  BY <1>3 DEF ReapTypes, Runs
<1>7. /\ KillTypes'
  BY <1>1, KeepKillTypes
<1>8. GroupTypes'
  BY <1>1, <1>3 DEF GroupTypes
<1>9. BookTypes'
  BY <1>1, <1>3, <1>4, <1>5 DEF BookTypes
<1>10. RunTypes'
  BY <1>1, <1>2 DEF RunTypes
<1>11. ReapTypes'
  BY <1>1, <1>3 DEF ReapTypes
<1>12. Owners'
  BY <1>1, <1>2, <1>3 DEF Owners, Absent
<1>13. Verdicts'
  BY <1>1, <1>6 DEF Verdicts, Absent
<1>14. Runs'
  <2>1. \A t \in Opaque : run'[t] = "done"
    BY <1>2, <1>4, OpaqueAssumption DEF Runs
  <2>2. \A t \in file' \cup rows' \cup opaque' \cup todo' \cup unresolved' : run'[t] = "done"
    <3>1. \A t \in file \cup rows \cup opaque \cup unresolved : t \in Scratch /\ run[t] = "done"
      BY OpaqueAssumption DEF Runs, BookTypes
    <3> QED BY <1>1, <1>2, <1>3, <1>4, <1>5, <3>1
  <2> QED BY <1>1, <1>2, <1>6, <2>1, <2>2 DEF Runs
<1>15. Books'
  BY <1>1, <1>3, <1>4 DEF Books
<1>16. Claims'
  BY <1>1, <1>3, <1>4, <1>6 DEF Claims
<1>17. Slots'
  <2>1. IsFiniteSet(file) /\ Cardinality(file) + reserved <= Quota
    BY DEF Slots
  <2>2. Cardinality(file) \in Nat /\ Quota \in Nat
    BY <2>1, FS_CardinalityType, QuotaAssumption
  <2>3. IsFiniteSet(file') /\ Cardinality(file') = Cardinality(file) + 1
    BY <1>4, <1>5, <2>1, FS_AddElement
  <2>4. Holding' = Holding \ {s}
    BY <1>2 DEF Holding
  <2>5. IsFiniteSet(Holding') /\ Cardinality(Holding') = reserved - 1
    BY <1>4, <2>4, FS_RemoveElement
  <2>6. Cardinality(file') + (reserved - 1) <= Quota
    BY <1>4, <2>1, <2>2, <2>3
  <2> QED BY <1>1, <1>3, <1>4, <2>3, <2>5, <2>6 DEF Slots
<1>18. GroupsKnown'
  BY <1>1, <1>2, <1>5 DEF GroupsKnown
<1>19. EveryRowHeld'
  <2>1. \A t \in rows' : t = s \/ (t \in rows /\ t \in Scratch /\ t # s)
    BY <1>3, <1>4 DEF BookTypes
  <2>2. s \notin claimed' /\ reaper'[s] = "armed"
    BY <1>1, <1>4, <1>6
  <2> QED BY <1>1, <1>6, <2>1, <2>2 DEF EveryRowHeld
<1> QED BY <1>7, <1>8, <1>9, <1>10, <1>11, <1>12, <1>13, <1>14, <1>15, <1>16, <1>17, <1>18, <1>19

-----------------------------------------------------------------------------
(* The PTY task of a scratch                                               *)

\* A program that exits has its group swept by its task.
LEMMA ProgramExitsTrue ==
  ASSUME IInv, NEW s \in Scratch, ProgramExits(s)
  PROVE  IInv'
<1> USE DEF IInv, Types
<1>1. UNCHANGED <<owner, led, file, pgid, token, phase, todo, unresolved, crashes, rows,
                  opaque, inherited, claimed, reserved, run, session, pids, ended, reaper,
                  killer, kill, audited>>
  BY DEF ProgramExits, osVars, diskVars, bootVars, regVars, paneVars
<1>2. task[s] = "running" /\ task' = [task EXCEPT ![s] = "ending"]
  BY DEF ProgramExits
<1>3. /\ task'[s] = "ending" /\ \A t \in Scratch : t # s => task'[t] = task[t]
  BY <1>2 DEF RunTypes
<1>4. /\ GroupTypes' /\ BookTypes' /\ ReapTypes' /\ KillTypes' /\ Verdicts' /\ Books' /\ Claims'
      /\ Slots' /\ EveryRowHeld'
  BY <1>1, KeepGroupTypes, KeepBookTypes, KeepReapTypes, KeepKillTypes, KeepVerdicts, KeepBooks,
     KeepClaims, KeepSlots, KeepEveryRowHeld
<1>5. RunTypes'
  BY <1>1, <1>2 DEF RunTypes
<1>6. Owners'
  BY <1>1, <1>2, <1>3 DEF Owners, Absent
<1>7. Runs'
  BY <1>1, <1>2, <1>3 DEF Runs
<1>8. GroupsKnown'
  BY <1>1, <1>2, <1>3 DEF GroupsKnown
<1> QED BY <1>4, <1>5, <1>6, <1>7, <1>8

\* The task says that the group is gone only when it is.
LEMMA TaskEndsTrue ==
  ASSUME IInv, NEW s \in Scratch, TaskEnds(s)
  PROVE  IInv'
<1> USE DEF IInv, Types
<1>1. UNCHANGED <<file, pgid, token, phase, todo, unresolved, crashes, rows, opaque, inherited,
                  claimed, reserved, run, session, pids, reaper, killer, kill, audited>>
  BY DEF TaskEnds, osVars, diskVars, bootVars, regVars, paneVars
<1>2. /\ task[s] = "ending" /\ task' = [task EXCEPT ![s] = "done"]
      /\ \/ /\ ended' = [ended EXCEPT ![s] = TRUE] /\ owner' = [owner EXCEPT ![pgid[s]] = None]
            /\ led' = [led EXCEPT ![pgid[s]] = FALSE]
         \/ ended' = [ended EXCEPT ![s] = FALSE] /\ owner' = owner /\ led' = led
  BY DEF TaskEnds, osVars
<1>3. /\ owner \in [Pgid -> Scratch \cup {Foreign, None}] /\ led \in [Pgid -> BOOLEAN]
      /\ pgid[s] \in Pgid /\ file \subseteq Scratch
      /\ \A p \in Pgid : owner[p] \in Scratch => pgid[owner[p]] = p
  BY <1>2 DEF GroupTypes, BookTypes, Owners
<1>4. /\ task'[s] = "done" /\ \A t \in Scratch : t # s => task'[t] = task[t]
      /\ \A t \in Scratch : t # s => ended'[t] = ended[t]
  BY <1>2 DEF RunTypes
<1>5. /\ owner' \in [Pgid -> Scratch \cup {Foreign, None}] /\ led' \in [Pgid -> BOOLEAN]
      /\ \A q \in Pgid : owner'[q] \in Scratch => owner'[q] = owner[q]
  BY <1>2, <1>3, OwnerAssumption
<1>6. \A t \in Scratch : Absent(t) => Absent(t)'
  BY <1>5 DEF Absent
<1>7. ended'[s] = TRUE => Absent(s)'
  <2>1. CASE ended' = [ended EXCEPT ![s] = TRUE] /\ owner' = [owner EXCEPT ![pgid[s]] = None]
    <3>1. \A q \in Pgid : owner'[q] # s
      BY <1>3, <1>5, <2>1, OwnerAssumption
    <3> QED BY <3>1 DEF Absent
  <2>2. CASE ended' = [ended EXCEPT ![s] = FALSE]
    <3>1. ended'[s] = FALSE
      BY <2>2 DEF RunTypes
    <3> QED BY <3>1
  <2> QED BY <1>2, <2>1, <2>2
<1>8. /\ BookTypes' /\ ReapTypes' /\ KillTypes' /\ Claims' /\ Slots' /\ EveryRowHeld'
  BY <1>1, KeepBookTypes, KeepReapTypes, KeepKillTypes, KeepClaims, KeepSlots, KeepEveryRowHeld
<1>9. GroupTypes'
  BY <1>1, <1>5 DEF GroupTypes
<1>10. RunTypes'
  <2>1. ended' \in [Scratch -> BOOLEAN \cup {None}]
    BY <1>2 DEF RunTypes
  <2>2. task' \in [Scratch -> {"none", "running", "ending", "done"}]
    BY <1>2 DEF RunTypes
  <2> QED BY <1>1, <2>1, <2>2 DEF RunTypes
<1>11. Owners'
  BY <1>1, <1>3, <1>4, <1>5, <1>6 DEF Owners
<1>12. Verdicts'
  <2>1. \A t \in Scratch : ended'[t] = TRUE => Absent(t)'
    BY <1>4, <1>6, <1>7 DEF Verdicts
  <2> QED BY <1>1, <1>6, <2>1 DEF Verdicts
<1>13. Runs'
  <2>1. \A t \in Scratch : task'[t] = "done" => ended'[t] \in BOOLEAN
    <3>1. ended'[s] \in BOOLEAN
      BY <1>2 DEF RunTypes
    <3> QED BY <1>4, <3>1 DEF Runs
  <2> QED BY <1>1, <1>2, <1>4, <2>1 DEF Runs
<1>14. Books'
  BY <1>1, <1>3, <1>6 DEF Books
<1>15. GroupsKnown'
  <2>1. \A q \in Pgid : owner'[q] = s => ended'[s] = FALSE
    <3>1. ended'[s] \in {TRUE, FALSE}
      BY <1>2 DEF RunTypes
    <3> QED BY <1>7, <3>1 DEF Absent
  <2> SUFFICES ASSUME NEW q \in Pgid, owner'[q] \in Scratch
               PROVE  \/ owner'[q] \in file' \/ run'[owner'[q]] \in {"spawned", "known"}
                      \/ run'[owner'[q]] = "failed" /\ task'[owner'[q]] = "ending"
                      \/ /\ run'[owner'[q]] = "failed" /\ task'[owner'[q]] = "done"
                         /\ ended'[owner'[q]] = FALSE
                      \/ /\ run'[owner'[q]] \in {"failed", "lost"} /\ task'[owner'[q]] = "none"
                         /\ crashes' > 0
    BY DEF GroupsKnown
  <2>2. owner'[q] = owner[q]
    BY <1>5
  <2>3. CASE owner[q] = s
    BY <1>1, <1>2, <1>4, <2>1, <2>2, <2>3 DEF GroupsKnown
  <2>4. CASE owner[q] # s
    BY <1>1, <1>4, <2>2, <2>4 DEF GroupsKnown
  <2> QED BY <2>3, <2>4
<1> QED BY <1>8, <1>9, <1>10, <1>11, <1>12, <1>13, <1>14, <1>15

-----------------------------------------------------------------------------
(* Reaping                                                                 *)

\* A row that somebody has claimed is in the file and was not audited before;
\* the daemon is past its start.
LEMMA ClaimedRow ==
  ASSUME IInv, NEW s \in Scratch, s \in claimed
  PROVE  /\ s \in rows /\ s \in file /\ phase \in {"seeding", "up"} /\ run[s] = "done"
         /\ s \notin opaque /\ s \notin todo /\ file = rows \cup opaque
<1>1. s \in rows /\ s \notin Opaque /\ opaque \subseteq Opaque
  BY DEF IInv, Types, BookTypes
<1>2. phase \in {"seeding", "up"}
  BY <1>1 DEF IInv, Types, BookTypes, Books
<1>3. file = rows \cup opaque /\ s \notin todo
  BY <1>1, <1>2 DEF IInv, Books
<1> QED BY <1>1, <1>2, <1>3 DEF IInv, Runs

\* A reaper is due.
LEMMA ReaperWakesTrue ==
  ASSUME IInv, NEW s \in Scratch, ReaperWakes(s)
  PROVE  IInv'
<1> USE DEF IInv, Types
<1>1. UNCHANGED <<owner, led, file, pgid, token, phase, todo, unresolved, crashes, rows,
                  opaque, inherited, claimed, reserved, run, session, pids, task, ended,
                  killer, kill, audited>>
  BY DEF ReaperWakes, osVars, diskVars, bootVars, regVars, paneVars
<1>2. reaper[s] = "armed" /\ reaper' = [reaper EXCEPT ![s] = "due"]
  BY DEF ReaperWakes
<1>3. /\ reaper'[s] = "due" /\ \A t \in Scratch : t # s => reaper'[t] = reaper[t]
  BY <1>2 DEF ReapTypes
<1>4. run[s] = "done" /\ phase \notin {"down", "reaping"}
  BY <1>2 DEF Runs, Books
<1>5. /\ GroupTypes' /\ BookTypes' /\ RunTypes' /\ KillTypes' /\ Owners' /\ Slots' /\ GroupsKnown'
  BY <1>1, KeepGroupTypes, KeepBookTypes, KeepRunTypes, KeepKillTypes, KeepOwners, KeepSlots,
     KeepGroupsKnown
<1>6. ReapTypes'
  BY <1>1, <1>2 DEF ReapTypes
<1>7. Verdicts'
  BY <1>1, <1>3 DEF Verdicts, Absent
<1>8. Runs'
  BY <1>1, <1>3, <1>4 DEF Runs
<1>9. Books'
  BY <1>1, <1>4 DEF Books
<1>10. Claims'
  BY <1>1, <1>2, <1>3 DEF Claims
<1>11. EveryRowHeld'
  <2>1. rows \subseteq Scratch
    BY DEF BookTypes
  <2> QED BY <1>1, <1>2, <1>3, <2>1 DEF EveryRowHeld
<1> QED BY <1>5, <1>6, <1>7, <1>8, <1>9, <1>10, <1>11

\* A due reaper claims its row, unless it is gone or claimed.
LEMMA ReaperClaimsTrue ==
  ASSUME IInv, NEW s \in Scratch, ReaperClaims(s)
  PROVE  IInv'
<1> USE DEF IInv, Types
<1>1. UNCHANGED <<owner, led, file, pgid, token, phase, todo, unresolved, crashes, rows,
                  opaque, inherited, reserved, run, session, pids, ended, killer, audited>>
  BY DEF ReaperClaims, osVars, diskVars, bootVars, regVars, paneVars
<1>2. /\ reaper[s] = "due"
      /\ \/ /\ s \in rows /\ s \notin claimed /\ claimed' = claimed \cup {s}
            /\ \/ /\ kill' = [kill EXCEPT ![s] = [at |-> "probe", left |-> 1]]
                  /\ reaper' = [reaper EXCEPT ![s] = "killing"] /\ task' = task
               \/ /\ task' = [task EXCEPT ![s] = IF @ = "running" THEN "ending" ELSE @]
                  /\ reaper' = [reaper EXCEPT ![s] = "waiting"] /\ kill' = kill
         \/ /\ ~(s \in rows /\ s \notin claimed) /\ claimed' = claimed /\ kill' = kill
            /\ reaper' = [reaper EXCEPT ![s] = "done"] /\ task' = task
  BY DEF ReaperClaims, MayClaim, Cancel
<1>3. /\ \A t \in Scratch : t # s => reaper'[t] = reaper[t]
      /\ \/ /\ s \in rows /\ s \notin claimed /\ claimed' = claimed \cup {s}
            /\ reaper'[s] \in {"killing", "waiting"}
         \/ ~(s \in rows /\ s \notin claimed) /\ claimed' = claimed /\ reaper'[s] = "done"
  BY <1>2 DEF ReapTypes
<1>4. /\ \A t \in Scratch : t # s => task'[t] = task[t]
      /\ task'[s] = task[s] \/ (task[s] = "running" /\ task'[s] = "ending")
  BY <1>2 DEF RunTypes
<1>5. \A t \in Scratch : kill'[t] = kill[t] \/ (t = s /\ kill'[t].at = "probe")
  BY <1>2 DEF KillTypes
<1>6. run[s] = "done" /\ phase \notin {"down", "reaping"} /\ rows \subseteq Scratch
  BY <1>2 DEF Runs, Books, BookTypes
<1>7. /\ GroupTypes' /\ Slots'
  BY <1>1, KeepGroupTypes, KeepSlots
<1>8. BookTypes'
  BY <1>1, <1>3 DEF BookTypes
<1>9. RunTypes'
  BY <1>1, <1>2 DEF RunTypes
<1>10. ReapTypes'
  BY <1>1, <1>2 DEF ReapTypes
<1>11. KillTypes'
  <2>1. [at |-> "probe", left |-> 1] \in [at : {"off", "probe", "grace", "confirm"} \cup Outcome, left : 0..1]
    OBVIOUS
  <2> QED BY <1>2, <2>1 DEF KillTypes
<1>12. Owners'
  BY <1>1, <1>4 DEF Owners, Absent
<1>13. Verdicts'
  <2>1. \A t \in Scratch : kill'[t].at \in {"dead", "died"} => kill[t].at \in {"dead", "died"}
    BY <1>5
  <2>2. \A t \in Scratch : reaper'[t] = "audited" => reaper[t] = "audited"
    BY <1>3
  <2> QED BY <1>1, <2>1, <2>2 DEF Verdicts, Absent
<1>14. Runs'
  <2>1. \A t \in Scratch : run[t] # "done" => kill'[t].at = "off" /\ reaper'[t] = "none"
    BY <1>3, <1>5, <1>6 DEF Runs
  <2> QED BY <1>1, <1>4, <1>6, <2>1 DEF Runs
<1>15. Books'
  BY <1>1, <1>6 DEF Books
<1>16. Claims'
  <2>1. \A t \in Scratch : t \in claimed' <=> t \in claimed \/ (t = s /\ reaper'[s] # "done")
    BY <1>3
  <2>2. reaper'[s] # "done" => s \in rows /\ s \notin claimed
    BY <1>3
  <2>3. reaper'[s] \in {"killing", "waiting", "done"} /\ reaper[s] = "due"
    BY <1>2, <1>3
  <2> QED BY <1>1, <1>3, <2>1, <2>2, <2>3 DEF Claims
<1>17. GroupsKnown'
  BY <1>1, <1>4 DEF GroupsKnown
<1>18. EveryRowHeld'
  <2> SUFFICES ASSUME NEW t \in rows
               PROVE  \/ t \notin claimed' /\ reaper'[t] \in {"armed", "due"}
                      \/ t \in claimed' /\ reaper'[t] \in {"waiting", "killing", "audited", "gave up"}
                      \/ t \in claimed' /\ killer[t] \in {"waiting", "audited", "gave up"}
    BY <1>1 DEF EveryRowHeld
  <2>1. CASE t # s
    BY <1>3, <1>6, <2>1 DEF EveryRowHeld
  <2>2. CASE t = s
    BY <1>2, <1>3, <2>2 DEF EveryRowHeld
  <2> QED BY <2>1, <2>2
<1> QED BY <1>7, <1>8, <1>9, <1>10, <1>11, <1>12, <1>13, <1>14, <1>15, <1>16, <1>17, <1>18

\* A confirmed reap is audited by the one who claimed the row.
LEMMA ReapAuditsTrue ==
  ASSUME IInv, NEW s \in Scratch, ReapAudits(s)
  PROVE  IInv'
<1> USE DEF IInv, Types
<1>1. UNCHANGED <<owner, led, file, pgid, token, phase, todo, unresolved, crashes, rows,
                  opaque, inherited, claimed, reserved, run, task, ended, killer>>
  BY DEF ReapAudits, osVars, diskVars, bootVars, regVars, paneVars
<1>2. /\ session' = session \ {s} /\ pids' = pids \ {s} /\ kill' = [kill EXCEPT ![s] = Off]
      /\ audited' = [audited EXCEPT ![s] = @ + 1] /\ reaper' = [reaper EXCEPT ![s] = "audited"]
      /\ reaper[s] \in {"waiting", "killing"}
      /\ ended[s] = TRUE \/ kill[s].at \in {"dead", "died"}
  BY DEF ReapAudits, Audit, Confirmed
<1>3. s \in claimed /\ killer[s] \notin {"waiting", "audited", "gave up"}
  BY <1>2 DEF Claims
<1>4. /\ s \in rows /\ s \in file /\ phase \in {"seeding", "up"} /\ run[s] = "done"
      /\ s \notin opaque /\ s \notin todo
  BY <1>3, ClaimedRow
<1>5. /\ audited'[s] = 1 /\ audited' \in [Scratch -> Nat]
      /\ \A t \in Scratch : t # s => audited'[t] = audited[t]
  <2>1. audited \in [Scratch -> Nat] /\ audited[s] = 0
    BY <1>2, <1>3, <1>4 DEF ReapTypes, Claims
  <2>2. audited'[s] = audited[s] + 1 /\ audited' \in [Scratch -> Nat]
        /\ \A t \in Scratch : t # s => audited'[t] = audited[t]
    BY <1>2, <2>1
  <2> QED BY <2>1, <2>2
<1>6. /\ reaper'[s] = "audited" /\ \A t \in Scratch : t # s => reaper'[t] = reaper[t]
  BY <1>2 DEF ReapTypes
<1>7. /\ kill'[s] = Off /\ \A t \in Scratch : t # s => kill'[t] = kill[t]
      /\ Off.at = "off"
  BY <1>2 DEF KillTypes, Off
<1>8. Absent(s)
  BY <1>2 DEF Verdicts
<1>9. /\ GroupTypes' /\ BookTypes' /\ Owners' /\ Slots' /\ GroupsKnown'
  BY <1>1, KeepGroupTypes, KeepBookTypes, KeepOwners, KeepSlots, KeepGroupsKnown
<1>10. RunTypes'
  BY <1>1, <1>2 DEF RunTypes
<1>11. ReapTypes'
  BY <1>1, <1>2, <1>5 DEF ReapTypes
<1>12. KillTypes'
  BY <1>2 DEF KillTypes, Off
<1>13. Verdicts'
  BY <1>1, <1>6, <1>7, <1>8 DEF Verdicts, Absent
<1>14. Runs'
  BY <1>1, <1>4, <1>5, <1>6, <1>7 DEF Runs
<1>15. Books'
  <2>1. phase = "seeding" => \A t \in todo : t \in Scratch /\ t # s /\ audited[t] \in {0, 1}
    BY <1>4 DEF Books, BookTypes
  <2> QED BY <1>1, <1>4, <1>5, <2>1 DEF Books
<1>16. Claims'
  BY <1>1, <1>3, <1>5, <1>6 DEF Claims
<1>17. EveryRowHeld'
  <2>1. rows \subseteq Scratch
    BY DEF BookTypes
  <2> QED BY <1>1, <1>3, <1>6, <2>1 DEF EveryRowHeld
<1> QED BY <1>9, <1>10, <1>11, <1>12, <1>13, <1>14, <1>15, <1>16, <1>17

\* An unconfirmed reap leaves the row with its claim.
LEMMA ReapGivesUpTrue ==
  ASSUME IInv, NEW s \in Scratch, ReapGivesUp(s)
  PROVE  IInv'
<1> USE DEF IInv, Types
<1>1. UNCHANGED <<owner, led, file, pgid, token, phase, todo, unresolved, crashes, rows,
                  opaque, inherited, claimed, reserved, run, session, pids, task, ended,
                  killer, audited>>
  BY DEF ReapGivesUp, osVars, diskVars, bootVars, regVars, paneVars
<1>2. /\ kill' = [kill EXCEPT ![s] = Off] /\ reaper' = [reaper EXCEPT ![s] = "gave up"]
      /\ reaper[s] \in {"waiting", "killing"}
  BY DEF ReapGivesUp
<1>3. s \in claimed /\ killer[s] \notin {"waiting", "audited", "gave up"}
  BY <1>2 DEF Claims
<1>4. /\ s \in rows /\ phase \in {"seeding", "up"} /\ run[s] = "done"
  BY <1>3, ClaimedRow
<1>5. /\ reaper'[s] = "gave up" /\ \A t \in Scratch : t # s => reaper'[t] = reaper[t]
  BY <1>2 DEF ReapTypes
<1>6. /\ kill'[s] = Off /\ \A t \in Scratch : t # s => kill'[t] = kill[t]
      /\ Off.at = "off"
  BY <1>2 DEF KillTypes, Off
<1>7. /\ GroupTypes' /\ BookTypes' /\ RunTypes' /\ Owners' /\ Slots' /\ GroupsKnown'
  BY <1>1, KeepGroupTypes, KeepBookTypes, KeepRunTypes, KeepOwners, KeepSlots, KeepGroupsKnown
<1>8. ReapTypes'
  BY <1>1, <1>2 DEF ReapTypes
<1>9. KillTypes'
  <2>1. Off \in [at : {"off", "probe", "grace", "confirm"} \cup Outcome, left : 0..1]
    BY DEF Off
  <2> QED BY <1>2, <2>1 DEF KillTypes
<1>10. Verdicts'
  BY <1>1, <1>5, <1>6 DEF Verdicts, Absent
<1>11. Runs'
  BY <1>1, <1>4, <1>5, <1>6 DEF Runs
<1>12. Books'
  BY <1>1, <1>4 DEF Books
<1>13. Claims'
  BY <1>1, <1>2, <1>3, <1>5 DEF Claims
<1>14. EveryRowHeld'
  <2>1. rows \subseteq Scratch
    BY DEF BookTypes
  <2> QED BY <1>1, <1>3, <1>5, <2>1 DEF EveryRowHeld
<1> QED BY <1>7, <1>8, <1>9, <1>10, <1>11, <1>12, <1>13, <1>14

\* The row goes when its reap is audited.
LEMMA ReapDropsTrue ==
  ASSUME IInv, NEW s \in Scratch, ReapDrops(s)
  PROVE  IInv'
<1> USE DEF IInv, Types
<1>1. UNCHANGED <<owner, led, pgid, token, phase, todo, unresolved, crashes, opaque, reserved,
                  run, session, pids, task, ended, killer, kill, audited>>
  BY DEF ReapDrops, osVars, diskVars, bootVars, regVars, paneVars, Drop
<1>2. /\ reaper[s] = "audited" /\ reaper' = [reaper EXCEPT ![s] = "done"]
      /\ rows' = rows \ {s} /\ opaque' = opaque /\ inherited' = inherited \ {s}
      /\ claimed' = claimed \ {s} /\ file' = rows' \cup opaque'
  BY DEF ReapDrops, Drop, Persist
<1>3. s \in claimed /\ Absent(s) /\ killer[s] \notin {"waiting", "audited", "gave up"}
  BY <1>2 DEF Claims, Verdicts
<1>4. /\ s \in rows /\ s \in file /\ phase \in {"seeding", "up"} /\ run[s] = "done"
      /\ s \notin opaque /\ s \notin todo /\ file = rows \cup opaque
  BY <1>3, ClaimedRow
<1>5. file' = file \ {s} /\ rows \subseteq Scratch
  BY <1>2, <1>4 DEF BookTypes
<1>6. /\ reaper'[s] = "done" /\ \A t \in Scratch : t # s => reaper'[t] = reaper[t]
  BY <1>2 DEF ReapTypes
<1>7. /\ GroupTypes' /\ RunTypes' /\ KillTypes' /\ Owners'
  BY <1>1, KeepGroupTypes, KeepRunTypes, KeepKillTypes, KeepOwners
<1>8. BookTypes'
  BY <1>1, <1>2, <1>5 DEF BookTypes
<1>9. ReapTypes'
  BY <1>1, <1>2 DEF ReapTypes
<1>10. Verdicts'
  BY <1>1, <1>3, <1>6 DEF Verdicts, Absent
<1>11. Runs'
  BY <1>1, <1>2, <1>4, <1>5, <1>6 DEF Runs
<1>12. Books'
  BY <1>1, <1>2, <1>4 DEF Books
<1>13. Claims'
  BY <1>1, <1>2, <1>3, <1>6 DEF Claims
<1>14. Slots'
  <2>1. IsFiniteSet(file) /\ Cardinality(file) + reserved <= Quota
    BY DEF Slots
  <2>2. IsFiniteSet(Holding) /\ reserved = Cardinality(Holding) /\ Holding' = Holding
        /\ (phase # "up" => Holding = {})
    BY <1>1 DEF Slots, Holding
  <2>3. Cardinality(file) \in Nat /\ reserved \in Nat /\ Quota \in Nat
    BY <2>1, <2>2, FS_CardinalityType, QuotaAssumption
  <2>4. IsFiniteSet(file') /\ Cardinality(file') = Cardinality(file) - 1
    BY <1>4, <1>5, <2>1, FS_RemoveElement
  <2>5. Cardinality(file') + reserved <= Quota
    BY <2>1, <2>3, <2>4
  <2> QED BY <1>1, <2>2, <2>4, <2>5 DEF Slots
<1>15. GroupsKnown'
  <2>1. \A p \in Pgid : owner[p] # s
    BY <1>3 DEF Absent
  <2> QED BY <1>1, <1>5, <2>1 DEF GroupsKnown
<1>16. EveryRowHeld'
  BY <1>1, <1>2, <1>5, <1>6 DEF EveryRowHeld
<1> QED BY <1>7, <1>8, <1>9, <1>10, <1>11, <1>12, <1>13, <1>14, <1>15, <1>16

-----------------------------------------------------------------------------
(* session.kill                                                            *)

\* The session goes first.
LEMMA KillDestroysTrue ==
  ASSUME IInv, NEW s \in Scratch, KillDestroys(s)
  PROVE  IInv'
<1> USE DEF IInv, Types
<1>1. UNCHANGED <<owner, led, file, pgid, token, phase, todo, unresolved, crashes, rows,
                  opaque, inherited, claimed, reserved, run, pids, task, ended, reaper, kill,
                  audited>>
  BY DEF KillDestroys, osVars, diskVars, bootVars, regVars, paneVars
<1>2. /\ phase = "up" /\ killer[s] = "idle" /\ session' = session \ {s}
      /\ killer' = [killer EXCEPT ![s] = "destroyed"]
  BY DEF KillDestroys
<1>3. /\ killer'[s] = "destroyed" /\ \A t \in Scratch : t # s => killer'[t] = killer[t]
  BY <1>2 DEF ReapTypes
<1>4. /\ GroupTypes' /\ BookTypes' /\ KillTypes' /\ Owners' /\ Runs' /\ Slots' /\ GroupsKnown'
  BY <1>1, KeepGroupTypes, KeepBookTypes, KeepKillTypes, KeepOwners, KeepRuns, KeepSlots,
     KeepGroupsKnown
<1>5. RunTypes'
  BY <1>1, <1>2 DEF RunTypes
<1>6. ReapTypes'
  BY <1>1, <1>2 DEF ReapTypes
<1>7. Verdicts'
  BY <1>1, <1>3 DEF Verdicts, Absent
<1>8. Books'
  BY <1>1, <1>2 DEF Books
<1>9. Claims'
  BY <1>1, <1>2, <1>3 DEF Claims
<1>10. EveryRowHeld'
  <2>1. rows \subseteq Scratch
    BY DEF BookTypes
  <2> QED BY <1>1, <1>2, <1>3, <2>1 DEF EveryRowHeld
<1> QED BY <1>4, <1>5, <1>6, <1>7, <1>8, <1>9, <1>10

\* Then its pane.
LEMMA KillTearsDownTrue ==
  ASSUME IInv, NEW s \in Scratch, KillTearsDown(s)
  PROVE  IInv'
<1> USE DEF IInv, Types
<1>1. UNCHANGED <<owner, led, file, pgid, token, phase, todo, unresolved, crashes, rows,
                  opaque, inherited, claimed, reserved, run, session, ended, reaper, kill,
                  audited>>
  BY DEF KillTearsDown, osVars, diskVars, bootVars, regVars, paneVars
<1>2. /\ killer[s] = "destroyed" /\ pids' = pids \ {s} /\ killer' = [killer EXCEPT ![s] = "torn"]
      /\ task' = [task EXCEPT ![s] = IF @ = "running" THEN "ending" ELSE @]
  BY DEF KillTearsDown, Cancel
<1>3. /\ killer'[s] = "torn" /\ \A t \in Scratch : t # s => killer'[t] = killer[t]
  BY <1>2 DEF ReapTypes
<1>4. /\ \A t \in Scratch : t # s => task'[t] = task[t]
      /\ task'[s] = task[s] \/ (task[s] = "running" /\ task'[s] = "ending")
  BY <1>2 DEF RunTypes
<1>5. phase \notin {"down", "reaping"}
  BY <1>2 DEF Books
<1>6. /\ GroupTypes' /\ BookTypes' /\ KillTypes' /\ Slots'
  BY <1>1, KeepGroupTypes, KeepBookTypes, KeepKillTypes, KeepSlots
<1>7. RunTypes'
  BY <1>1, <1>2 DEF RunTypes
<1>8. ReapTypes'
  BY <1>1, <1>2 DEF ReapTypes
<1>9. Owners'
  BY <1>1, <1>4 DEF Owners, Absent
<1>10. Verdicts'
  BY <1>1, <1>3 DEF Verdicts, Absent
<1>11. Runs'
  BY <1>1, <1>4 DEF Runs
<1>12. Books'
  BY <1>1, <1>5 DEF Books
<1>13. Claims'
  BY <1>1, <1>2, <1>3 DEF Claims
<1>14. GroupsKnown'
  BY <1>1, <1>4 DEF GroupsKnown
<1>15. EveryRowHeld'
  <2>1. rows \subseteq Scratch
    BY DEF BookTypes
  <2> QED BY <1>1, <1>2, <1>3, <2>1 DEF EveryRowHeld
<1> QED BY <1>6, <1>7, <1>8, <1>9, <1>10, <1>11, <1>12, <1>13, <1>14, <1>15

\* It claims the row, or somebody else has.
LEMMA KillClaimsTrue ==
  ASSUME IInv, NEW s \in Scratch, KillClaims(s)
  PROVE  IInv'
<1> USE DEF IInv, Types
<1>1. UNCHANGED <<owner, led, file, pgid, token, phase, todo, unresolved, crashes, rows,
                  opaque, inherited, reserved, run, session, pids, task, ended, kill, audited>>
  BY DEF KillClaims, osVars, diskVars, bootVars, regVars, paneVars
<1>2. /\ killer[s] = "torn"
      /\ \/ /\ s \in rows /\ s \notin claimed /\ claimed' = claimed \cup {s}
            /\ reaper' = [reaper EXCEPT ![s] = IF @ = "armed" THEN "done" ELSE @]
            /\ killer' = [killer EXCEPT ![s] = "waiting"]
         \/ /\ ~(s \in rows /\ s \notin claimed) /\ claimed' = claimed /\ reaper' = reaper
            /\ killer' = [killer EXCEPT ![s] = "done"]
  BY DEF KillClaims, MayClaim
<1>3. /\ \A t \in Scratch : t # s => killer'[t] = killer[t] /\ reaper'[t] = reaper[t]
      /\ \/ /\ s \in rows /\ s \notin claimed /\ claimed' = claimed \cup {s}
            /\ killer'[s] = "waiting"
         \/ ~(s \in rows /\ s \notin claimed) /\ claimed' = claimed /\ killer'[s] = "done"
      /\ reaper'[s] = reaper[s] \/ (reaper[s] = "armed" /\ reaper'[s] = "done")
  BY <1>2 DEF ReapTypes
<1>4. phase \notin {"down", "reaping"} /\ rows \subseteq Scratch
  BY <1>2 DEF Books, BookTypes
<1>5. /\ GroupTypes' /\ RunTypes' /\ KillTypes' /\ Owners' /\ Slots' /\ GroupsKnown'
  BY <1>1, KeepGroupTypes, KeepRunTypes, KeepKillTypes, KeepOwners, KeepSlots, KeepGroupsKnown
<1>6. BookTypes'
  BY <1>1, <1>3 DEF BookTypes
<1>7. ReapTypes'
  BY <1>1, <1>2 DEF ReapTypes
<1>8. Verdicts'
  <2>1. \A t \in Scratch : (reaper'[t] = "audited" => reaper[t] = "audited")
                           /\ (killer'[t] = "audited" => killer[t] = "audited")
    BY <1>3
  <2> QED BY <1>1, <2>1 DEF Verdicts, Absent
<1>9. Runs'
  BY <1>1, <1>3 DEF Runs
<1>10. Books'
  BY <1>1, <1>4 DEF Books
<1>11. Claims'
  <2>1. \A t \in Scratch : t \in claimed' <=> t \in claimed \/ (t = s /\ killer'[s] = "waiting")
    BY <1>3
  <2>2. killer'[s] = "waiting" => s \in rows /\ s \notin claimed
    BY <1>3
  <2>3. killer'[s] \in {"waiting", "done"} /\ killer[s] = "torn"
    BY <1>2, <1>3
  <2> QED BY <1>1, <1>3, <2>1, <2>2, <2>3 DEF Claims
<1>12. EveryRowHeld'
  <2> SUFFICES ASSUME NEW t \in rows
               PROVE  \/ t \notin claimed' /\ reaper'[t] \in {"armed", "due"}
                      \/ t \in claimed' /\ reaper'[t] \in {"waiting", "killing", "audited", "gave up"}
                      \/ t \in claimed' /\ killer'[t] \in {"waiting", "audited", "gave up"}
    BY <1>1 DEF EveryRowHeld
  <2>1. CASE t # s
    BY <1>3, <1>4, <2>1 DEF EveryRowHeld
  <2>2. CASE t = s
    BY <1>2, <1>3, <2>2 DEF EveryRowHeld
  <2> QED BY <2>1, <2>2
<1> QED BY <1>5, <1>6, <1>7, <1>8, <1>9, <1>10, <1>11, <1>12

\* It audits the reap that the PTY task confirmed.
LEMMA KillAuditsTrue ==
  ASSUME IInv, NEW s \in Scratch, KillAudits(s)
  PROVE  IInv'
<1> USE DEF IInv, Types
<1>1. UNCHANGED <<owner, led, file, pgid, token, phase, todo, unresolved, crashes, rows,
                  opaque, inherited, claimed, reserved, run, session, pids, task, ended,
                  reaper, kill>>
  BY DEF KillAudits, osVars, diskVars, bootVars, regVars, paneVars
<1>2. /\ killer[s] = "waiting" /\ ended[s] = TRUE
      /\ audited' = [audited EXCEPT ![s] = @ + 1] /\ killer' = [killer EXCEPT ![s] = "audited"]
  BY DEF KillAudits, Audit
<1>3. s \in claimed /\ reaper[s] \notin {"waiting", "killing", "audited", "gave up"}
  BY <1>2 DEF Claims
<1>4. /\ s \in rows /\ s \in file /\ phase \in {"seeding", "up"} /\ run[s] = "done"
      /\ s \notin opaque /\ s \notin todo
  BY <1>3, ClaimedRow
<1>5. /\ audited'[s] = 1 /\ audited' \in [Scratch -> Nat]
      /\ \A t \in Scratch : t # s => audited'[t] = audited[t]
  <2>1. audited \in [Scratch -> Nat] /\ audited[s] = 0
    BY <1>2, <1>3, <1>4 DEF ReapTypes, Claims
  <2>2. audited'[s] = audited[s] + 1 /\ audited' \in [Scratch -> Nat]
        /\ \A t \in Scratch : t # s => audited'[t] = audited[t]
    BY <1>2, <2>1
  <2> QED BY <2>1, <2>2
<1>6. /\ killer'[s] = "audited" /\ \A t \in Scratch : t # s => killer'[t] = killer[t]
  BY <1>2 DEF ReapTypes
<1>7. Absent(s)
  BY <1>2 DEF Verdicts
<1>8. /\ GroupTypes' /\ BookTypes' /\ RunTypes' /\ KillTypes' /\ Owners' /\ Slots' /\ GroupsKnown'
  BY <1>1, KeepGroupTypes, KeepBookTypes, KeepRunTypes, KeepKillTypes, KeepOwners, KeepSlots,
     KeepGroupsKnown
<1>9. ReapTypes'
  BY <1>1, <1>2, <1>5 DEF ReapTypes
<1>10. Verdicts'
  BY <1>1, <1>6, <1>7 DEF Verdicts, Absent
<1>11. Runs'
  BY <1>1, <1>4, <1>5 DEF Runs
<1>12. Books'
  <2>1. phase = "seeding" => \A t \in todo : t \in Scratch /\ t # s /\ audited[t] \in {0, 1}
    BY <1>4 DEF Books, BookTypes
  <2> QED BY <1>1, <1>4, <1>5, <2>1 DEF Books
<1>13. Claims'
  BY <1>1, <1>3, <1>5, <1>6 DEF Claims
<1>14. EveryRowHeld'
  <2>1. rows \subseteq Scratch
    BY DEF BookTypes
  <2> QED BY <1>1, <1>3, <1>6, <2>1 DEF EveryRowHeld
<1> QED BY <1>8, <1>9, <1>10, <1>11, <1>12, <1>13, <1>14

\* Or it leaves the row with its claim.
LEMMA KillGivesUpTrue ==
  ASSUME IInv, NEW s \in Scratch, KillGivesUp(s)
  PROVE  IInv'
<1> USE DEF IInv, Types
<1>1. UNCHANGED <<owner, led, file, pgid, token, phase, todo, unresolved, crashes, rows,
                  opaque, inherited, claimed, reserved, run, session, pids, task, ended,
                  reaper, kill, audited>>
  BY DEF KillGivesUp, osVars, diskVars, bootVars, regVars, paneVars
<1>2. killer[s] = "waiting" /\ killer' = [killer EXCEPT ![s] = "gave up"]
  BY DEF KillGivesUp
<1>3. /\ killer'[s] = "gave up" /\ \A t \in Scratch : t # s => killer'[t] = killer[t]
  BY <1>2 DEF ReapTypes
<1>4. phase \notin {"down", "reaping"} /\ rows \subseteq Scratch
  BY <1>2 DEF Books, BookTypes
<1>5. /\ GroupTypes' /\ BookTypes' /\ RunTypes' /\ KillTypes' /\ Owners' /\ Runs' /\ Slots'
      /\ GroupsKnown'
  BY <1>1, KeepGroupTypes, KeepBookTypes, KeepRunTypes, KeepKillTypes, KeepOwners, KeepRuns,
     KeepSlots, KeepGroupsKnown
<1>6. ReapTypes'
  BY <1>1, <1>2 DEF ReapTypes
<1>7. Verdicts'
  BY <1>1, <1>3 DEF Verdicts, Absent
<1>8. Books'
  BY <1>1, <1>4 DEF Books
<1>9. Claims'
  BY <1>1, <1>2, <1>3 DEF Claims
<1>10. EveryRowHeld'
  BY <1>1, <1>2, <1>3, <1>4 DEF EveryRowHeld
<1> QED BY <1>5, <1>6, <1>7, <1>8, <1>9, <1>10

\* And drops it when the reap is audited.
LEMMA KillDropsTrue ==
  ASSUME IInv, NEW s \in Scratch, KillDrops(s)
  PROVE  IInv'
<1> USE DEF IInv, Types
<1>1. UNCHANGED <<owner, led, pgid, token, phase, todo, unresolved, crashes, opaque, reserved,
                  run, session, pids, task, ended, reaper, kill, audited>>
  BY DEF KillDrops, osVars, diskVars, bootVars, regVars, paneVars, Drop
<1>2. /\ killer[s] = "audited" /\ killer' = [killer EXCEPT ![s] = "done"]
      /\ rows' = rows \ {s} /\ opaque' = opaque /\ inherited' = inherited \ {s}
      /\ claimed' = claimed \ {s} /\ file' = rows' \cup opaque'
  BY DEF KillDrops, Drop, Persist
<1>3. s \in claimed /\ Absent(s) /\ reaper[s] \notin {"waiting", "killing", "audited", "gave up"}
  BY <1>2 DEF Claims, Verdicts
<1>4. /\ s \in rows /\ s \in file /\ phase \in {"seeding", "up"} /\ run[s] = "done"
      /\ s \notin opaque /\ s \notin todo /\ file = rows \cup opaque
  BY <1>3, ClaimedRow
<1>5. file' = file \ {s} /\ rows \subseteq Scratch
  BY <1>2, <1>4 DEF BookTypes
<1>6. /\ killer'[s] = "done" /\ \A t \in Scratch : t # s => killer'[t] = killer[t]
  BY <1>2 DEF ReapTypes
<1>7. /\ GroupTypes' /\ RunTypes' /\ KillTypes' /\ Owners'
  BY <1>1, KeepGroupTypes, KeepRunTypes, KeepKillTypes, KeepOwners
<1>8. BookTypes'
  BY <1>1, <1>2, <1>5 DEF BookTypes
<1>9. ReapTypes'
  BY <1>1, <1>2 DEF ReapTypes
<1>10. Verdicts'
  BY <1>1, <1>3, <1>6 DEF Verdicts, Absent
<1>11. Runs'
  BY <1>1, <1>2, <1>4, <1>5, <1>6 DEF Runs
<1>12. Books'
  BY <1>1, <1>2, <1>4 DEF Books
<1>13. Claims'
  BY <1>1, <1>2, <1>3, <1>6 DEF Claims
<1>14. Slots'
  <2>1. IsFiniteSet(file) /\ Cardinality(file) + reserved <= Quota
    BY DEF Slots
  <2>2. IsFiniteSet(Holding) /\ reserved = Cardinality(Holding) /\ Holding' = Holding
        /\ (phase # "up" => Holding = {})
    BY <1>1 DEF Slots, Holding
  <2>3. Cardinality(file) \in Nat /\ reserved \in Nat /\ Quota \in Nat
    BY <2>1, <2>2, FS_CardinalityType, QuotaAssumption
  <2>4. IsFiniteSet(file') /\ Cardinality(file') = Cardinality(file) - 1
    BY <1>4, <1>5, <2>1, FS_RemoveElement
  <2>5. Cardinality(file') + reserved <= Quota
    BY <2>1, <2>3, <2>4
  <2> QED BY <1>1, <2>2, <2>4, <2>5 DEF Slots
<1>15. GroupsKnown'
  <2>1. \A p \in Pgid : owner[p] # s
    BY <1>3 DEF Absent
  <2> QED BY <1>1, <1>5, <2>1 DEF GroupsKnown
<1>16. EveryRowHeld'
  BY <1>1, <1>2, <1>5, <1>6 DEF EveryRowHeld
<1> QED BY <1>7, <1>8, <1>9, <1>10, <1>11, <1>12, <1>13, <1>14, <1>15, <1>16

-----------------------------------------------------------------------------
(* The invariant, and what it says                                         *)

\* What an earlier daemon left is as a crash leaves it.
LEMMA InitTrue ==
  ASSUME Init
  PROVE  IInv
<1> USE DEF Init
<1>1. Opaque \subseteq Scratch /\ IsFiniteSet(Opaque) /\ Cardinality(Opaque) <= Quota
  BY OpaqueAssumption
<1>2. /\ None \notin Scratch /\ None \notin Pgid /\ None # TRUE /\ Foreign \notin Scratch
  BY OwnerAssumption
<1>3. /\ file = Opaque /\ phase = "down" /\ crashes = 0 /\ todo = {} /\ unresolved = {} /\ rows = {}
      /\ opaque = {} /\ inherited = {} /\ claimed = {} /\ reserved = 0 /\ session = {} /\ pids = {}
  OBVIOUS
<1>4. /\ run = [s \in Scratch |-> IF s \in file THEN "done" ELSE "idle"]
      /\ task = [s \in Scratch |-> "none"] /\ ended = [s \in Scratch |-> None]
      /\ reaper = [s \in Scratch |-> "none"] /\ killer = [s \in Scratch |-> "idle"]
      /\ kill = [s \in Scratch |-> Off] /\ audited = [s \in Scratch |-> 0]
  OBVIOUS
<1>5. /\ owner \in [Pgid -> file \cup {Foreign, None}] /\ led \in [Pgid -> BOOLEAN]
      /\ pgid \in [Scratch -> Pgid \cup {None}] /\ token \in [Scratch -> BOOLEAN]
      /\ \A s \in Scratch : (s \in file) = (pgid[s] # None)
      /\ \A p \in Pgid : owner[p] # None => \E s \in file : pgid[s] = p /\ owner[p] \in {s, Foreign}
  OBVIOUS
<1> USE DEF Off
<1>6. GroupTypes
  BY <1>1, <1>3, <1>5 DEF GroupTypes
<1>7. BookTypes
  BY <1>1, <1>3, QuotaAssumption DEF BookTypes
<1>8. RunTypes
  BY <1>3, <1>4 DEF RunTypes
<1>9. ReapTypes
  BY <1>4 DEF ReapTypes
<1>10. KillTypes
  BY <1>4 DEF KillTypes
<1>11. /\ \A s \in Scratch : run[s] = IF s \in Opaque THEN "done" ELSE "idle"
       /\ \A s \in Scratch : task[s] = "none" /\ ended[s] = None /\ kill[s].at = "off"
       /\ \A s \in Scratch : reaper[s] = "none" /\ killer[s] = "idle" /\ audited[s] = 0
  BY <1>3, <1>4
<1>12. Owners
  <2>1. \A p \in Pgid : owner[p] \in Scratch => owner[p] \in Opaque /\ pgid[owner[p]] = p
    BY <1>1, <1>2, <1>3, <1>5
  <2>2. \A s \in Scratch : run[s] \in {"idle", "reserved", "created"} => Absent(s)
    BY <1>11, <2>1 DEF Absent
  <2>3. \A s \in Scratch : run[s] = "done" => pgid[s] \in Pgid
    BY <1>3, <1>5, <1>11
  <2> QED BY <1>11, <2>1, <2>2, <2>3 DEF Owners
<1>13. Verdicts
  BY <1>2, <1>11 DEF Verdicts
<1>14. Runs
  BY <1>1, <1>3, <1>11 DEF Runs
<1>15. Books /\ Claims
  BY <1>3, <1>11 DEF Books, Claims
<1>16. Slots
  <2>1. Holding = {}
    BY <1>11 DEF Holding
  <2>2. IsFiniteSet(Holding) /\ Cardinality(Holding) = 0
    BY <2>1, FS_EmptySet
  <2>3. Cardinality(file) + reserved <= Quota
    BY <1>1, <1>3, FS_CardinalityType
  <2> QED BY <1>1, <1>3, <2>1, <2>2, <2>3 DEF Slots
<1>17. GroupsKnown /\ EveryRowHeld
  BY <1>2, <1>3, <1>5 DEF GroupsKnown, EveryRowHeld
<1> QED BY <1>6, <1>7, <1>8, <1>9, <1>10, <1>12, <1>13, <1>14, <1>15, <1>16, <1>17 DEF IInv, Types

\* Every step keeps the invariant.
LEMMA NextTrue ==
  ASSUME IInv, [Next]_vars
  PROVE  IInv'
<1>1. CASE UNCHANGED vars
  BY <1>1, KeepGroupTypes, KeepBookTypes, KeepRunTypes, KeepReapTypes, KeepKillTypes, KeepOwners,
     KeepVerdicts, KeepRuns, KeepBooks, KeepClaims, KeepSlots, KeepGroupsKnown, KeepEveryRowHeld
     DEF vars, osVars, diskVars, bootVars, regVars, paneVars, IInv, Types
<1>2. CASE Start \/ Seed \/ Serve \/ Crash
  BY <1>2, StartTrue, SeedTrue, ServeTrue, CrashTrue
<1>3. CASE \E p \in Pgid : OrphanDies(p) \/ LeaderDies(p) \/ ForeignTakes(p) \/ ForeignLeaves(p)
  BY <1>3, GroupsTrue
<1>4. ASSUME NEW s \in Scratch,
             \/ Terminate(s) \/ Kill(s) \/ Confirm(s)
             \/ TakeRow(s) \/ StartupResolves(s) \/ SeedAudits(s) \/ SeedResolves(s)
      PROVE  IInv'
  BY <1>4, KillTrue, TakeRowTrue, StartupResolvesTrue, SeedAuditsTrue, SeedResolvesTrue
<1>5. ASSUME NEW s \in Scratch,
             \/ TryReserve(s) \/ CreateSession(s) \/ RunFails(s) \/ Spawn(s) \/ ReadPid(s)
             \/ Commit(s) \/ ProgramExits(s) \/ TaskEnds(s)
      PROVE  IInv'
  BY <1>5, TryReserveTrue, CreateSessionTrue, RunFailsTrue, SpawnTrue, ReadPidTrue, CommitTrue,
     ProgramExitsTrue, TaskEndsTrue
<1>6. ASSUME NEW s \in Scratch,
             \/ ReaperWakes(s) \/ ReaperClaims(s) \/ ReapAudits(s) \/ ReapGivesUp(s)
             \/ ReapDrops(s)
      PROVE  IInv'
  BY <1>6, ReaperWakesTrue, ReaperClaimsTrue, ReapAuditsTrue, ReapGivesUpTrue, ReapDropsTrue
<1>7. ASSUME NEW s \in Scratch,
             \/ KillDestroys(s) \/ KillTearsDown(s) \/ KillClaims(s) \/ KillAudits(s)
             \/ KillGivesUp(s) \/ KillDrops(s)
      PROVE  IInv'
  BY <1>7, KillDestroysTrue, KillTearsDownTrue, KillClaimsTrue, KillAuditsTrue, KillGivesUpTrue,
     KillDropsTrue
<1> QED BY <1>1, <1>2, <1>3, <1>4, <1>5, <1>6, <1>7 DEF Next

\* The invariant holds of every behaviour.
LEMMA Invariance == Spec => []IInv
<1>1. Init => IInv
  BY InitTrue
<1>2. IInv /\ [Next]_vars => IInv'
  BY NextTrue
<1> QED BY <1>1, <1>2, PTL DEF Spec

\* The variables keep their types, the count of reserved slots its range.
THEOREM TypeCorrect == Spec => []TypeOK
<1>1. IInv => TypeOK
  <2> SUFFICES ASSUME IInv PROVE TypeOK
    OBVIOUS
  <2>1. /\ IsFiniteSet(file) /\ IsFiniteSet(Holding) /\ reserved = Cardinality(Holding)
        /\ Cardinality(file) + reserved <= Quota
    BY DEF IInv, Slots
  <2>2. Cardinality(file) \in Nat /\ reserved \in Nat /\ Quota \in Nat
    BY <2>1, FS_CardinalityType, QuotaAssumption
  <2>3. reserved \in 0..Quota
    BY <2>1, <2>2
  <2>4. GroupTypes /\ BookTypes /\ RunTypes /\ ReapTypes /\ KillTypes
    BY DEF IInv, Types
  <2> QED BY <2>3, <2>4 DEF TypeOK, GroupTypes, BookTypes, RunTypes, ReapTypes, KillTypes
<1> QED BY <1>1, Invariance, PTL

\* Every group that runs is in the registry file, in the hands of its lens.run
\* or of the PTY task that ends it, except one that the task of a failed run
\* gave up on and one that a dead daemon had not committed.
THEOREM GroupsKnownHolds == Spec => []GroupsKnown
<1>1. IInv => GroupsKnown
  BY DEF IInv
<1> QED BY <1>1, Invariance, PTL

\* Every row of the registry has somebody who ends it.
THEOREM EveryRowHeldHolds == Spec => []EveryRowHeld
<1>1. IInv => EveryRowHeld
  BY DEF IInv
<1> QED BY <1>1, Invariance, PTL

\* The books add up to the quota.
LEMMA QuotaAdds ==
  ASSUME IInv
  PROVE  QuotaHeld
<1>1. /\ IsFiniteSet(file) /\ IsFiniteSet(Holding) /\ reserved = Cardinality(Holding)
      /\ Cardinality(file) + reserved <= Quota
  BY DEF IInv, Slots
<1>2. Cardinality(file) \in Nat /\ reserved \in Nat /\ Quota \in Nat
  BY <1>1, FS_CardinalityType, QuotaAssumption
<1>3. CASE phase \in {"down", "reaping"}
  <2>1. rows = {} /\ opaque = {}
    BY <1>3 DEF IInv, Books
  <2>2. Cardinality(rows) = 0 /\ Cardinality(opaque) = 0
    BY <2>1, FS_EmptySet
  <2>3. Total <= Quota
    BY <1>1, <1>2, <2>2 DEF Total
  <2> QED BY <1>1, <2>3 DEF QuotaHeld, Holding
<1>4. CASE phase \in {"seeding", "up"}
  <2>1. file = rows \cup opaque /\ rows \cap opaque = {}
    BY <1>4 DEF IInv, Types, Books, BookTypes
  <2>2. rows \in SUBSET file /\ opaque \in SUBSET file
    BY <2>1
  <2>3. IsFiniteSet(rows) /\ IsFiniteSet(opaque)
    BY <1>1, <2>2, FS_Subset
  <2>4. Cardinality(rows) \in Nat /\ Cardinality(opaque) \in Nat
    BY <2>3, FS_CardinalityType
  <2>5. Cardinality(rows \cup opaque) =
            Cardinality(rows) + Cardinality(opaque) - Cardinality(rows \cap opaque)
    BY <2>3, FS_Union
  <2>6. Cardinality(rows \cap opaque) = 0
    BY <2>1, FS_EmptySet
  <2>7. Total <= Quota
    BY <1>1, <1>2, <2>1, <2>4, <2>5, <2>6 DEF Total
  <2> QED BY <1>1, <2>7 DEF QuotaHeld, Holding
<1> QED BY <1>3, <1>4 DEF IInv, Types, BookTypes

\* The quota of lens.run holds whatever fails, dies or is left over
\* (ScratchRegistry::try_reserve, commit, seed_unresolved).
THEOREM QuotaHeldHolds == Spec => []QuotaHeld
<1>1. IInv => QuotaHeld
  BY QuotaAdds
<1> QED BY <1>1, Invariance, PTL

\* A step of the kill sequence signals only what it has just checked.
LEMMA SparesStep ==
  ASSUME IInv, [Next]_vars, NEW s \in Scratch,
         kill'[s].at # kill[s].at, kill'[s].at \in {"grace", "confirm"}
  PROVE  owner[pgid[s]] = s \/ ~led[pgid[s]]
<1>1. kill \in [Scratch -> [at : {"off", "probe", "grace", "confirm"} \cup Outcome, left : 0..1]]
  BY DEF IInv, Types, KillTypes
<1>2. kill' # kill
  OBVIOUS
<1>3. ASSUME NEW t \in Scratch, NEW k, kill' = [kill EXCEPT ![t] = k],
             k.at \notin {"grace", "confirm"}
      PROVE  FALSE
  BY <1>1, <1>3
<1>4. ASSUME NEW t \in Scratch, NEW a, Reaches(t, a)
      PROVE  t = s /\ kill'[s].at = a
  <2>1. kill' = [kill EXCEPT ![t] = [kill[t] EXCEPT !.at = a]]
    BY <1>1, <1>4 DEF Reaches
  <2>2. t = s
    BY <1>1, <2>1
  <2>3. kill'[s] = [kill[s] EXCEPT !.at = a]
    BY <1>1, <2>1, <2>2
  <2>4. [kill[s] EXCEPT !.at = a].at = a
    BY <1>1
  <2> QED BY <2>2, <2>3, <2>4
<1>5. ASSUME NEW t \in Scratch, Unconfirmed(t)
      PROVE  FALSE
  <2>1. CASE kill' = [kill EXCEPT ![t] = [at |-> "probe", left |-> 0]]
    BY <1>3, <2>1
  <2>2. CASE Reaches(t, "unconfirmed")
    BY <1>4, <2>2
  <2> QED BY <1>5, <2>1, <2>2 DEF Unconfirmed
<1>6. ASSUME NEW t \in Scratch, Terminate(t) \/ Kill(t) \/ Confirm(t)
      PROVE  GroupIsOurs(s)
  <2>1. \/ Reaches(t, "dead") \/ Reaches(t, "died") \/ Unconfirmed(t)
        \/ GroupIsOurs(t) /\ (Reaches(t, "grace") \/ Reaches(t, "confirm"))
    BY <1>6 DEF Terminate, Kill, Confirm
  <2>2. ~Reaches(t, "dead") /\ ~Reaches(t, "died") /\ ~Unconfirmed(t)
    BY <1>4, <1>5
  <2> QED BY <1>4, <2>1, <2>2
<1>7. ASSUME NEW t \in Scratch, TakeRow(t)
      PROVE  FALSE
  <2> DEFINE k == [at |-> "probe", left |-> IF phase = "reaping" THEN 0 ELSE 1]
  <2>1. kill' = [kill EXCEPT ![t] = k] /\ k.at = "probe"
    BY <1>7 DEF TakeRow
  <2> HIDE DEF k
  <2> QED BY <1>3, <2>1
<1>8. ASSUME NEW t \in Scratch, \/ StartupResolves(t) \/ SeedResolves(t) \/ ReapAudits(t)
                               \/ ReapGivesUp(t)
      PROVE  FALSE
  <2>1. kill' = [kill EXCEPT ![t] = Off] /\ Off.at = "off"
    BY <1>8 DEF StartupResolves, SeedResolves, ReapAudits, ReapGivesUp, Off
  <2> QED BY <1>3, <2>1
<1>9. ASSUME NEW t \in Scratch, ReaperClaims(t)
      PROVE  FALSE
  <2>1. kill' = [kill EXCEPT ![t] = [at |-> "probe", left |-> 1]]
    BY <1>2, <1>9 DEF ReaperClaims
  <2> QED BY <1>3, <2>1
<1>10. ~Crash
  <2>1. SUFFICES ASSUME Crash PROVE FALSE
    OBVIOUS
  <2>2. kill'[s] = Off /\ Off.at = "off"
    BY <2>1 DEF Crash, Off
  <2> QED BY <2>2
<1>11. ~(Start \/ Seed \/ Serve) /\ ~UNCHANGED vars
  BY <1>2 DEF Start, Seed, Serve, vars
<1>12. ASSUME NEW t \in Scratch,
              \/ SeedAudits(t) \/ TryReserve(t) \/ CreateSession(t) \/ RunFails(t) \/ Spawn(t)
              \/ ReadPid(t) \/ Commit(t) \/ ProgramExits(t) \/ TaskEnds(t) \/ ReaperWakes(t)
       PROVE  FALSE
  BY <1>2, <1>12 DEF SeedAudits, TryReserve, CreateSession, RunFails, Spawn, ReadPid, Commit,
                     ProgramExits, TaskEnds, ReaperWakes
<1>13. ASSUME NEW t \in Scratch,
              \/ ReapDrops(t) \/ KillDestroys(t) \/ KillTearsDown(t) \/ KillClaims(t)
              \/ KillAudits(t) \/ KillGivesUp(t) \/ KillDrops(t)
       PROVE  FALSE
  BY <1>2, <1>13 DEF ReapDrops, KillDestroys, KillTearsDown, KillClaims, KillAudits, KillGivesUp,
                     KillDrops
<1>14. ASSUME NEW p \in Pgid,
              OrphanDies(p) \/ LeaderDies(p) \/ ForeignTakes(p) \/ ForeignLeaves(p)
       PROVE  FALSE
  BY <1>2, <1>14 DEF OrphanDies, LeaderDies, ForeignTakes, ForeignLeaves
<1>15. GroupIsOurs(s)
  BY <1>6, <1>7, <1>8, <1>9, <1>10, <1>11, <1>12, <1>13, <1>14 DEF Next
<1> QED BY <1>15 DEF GroupIsOurs

\* No group that another program leads is signalled, at any point of the kill
\* sequence (kill_pgid_lens_sequence, group_is_ours).
THEOREM SparesOthersHolds == Spec => SparesOthers
<1>1. IInv /\ [Next]_vars =>
        [\A s \in Scratch : (kill'[s].at # kill[s].at /\ kill'[s].at \in {"grace", "confirm"})
                                => owner[pgid[s]] = s \/ ~led[pgid[s]]]_vars
  BY SparesStep
<1> QED BY <1>1, Invariance, PTL DEF Spec, SparesOthers

\* A step that takes a row out of the file is the end of an audited reap.
LEMMA DropStep ==
  ASSUME IInv, [Next]_vars, NEW s \in file \ file'
  PROVE  audited[s] = 1 /\ \A p \in Pgid : owner[p] # s
<1> USE DEF IInv
<1>1. file' # file /\ s \in Scratch
  BY DEF Types, BookTypes
<1>2. CASE Seed
  <2>1. phase = "reaping" /\ todo = {} /\ file' = unresolved
    BY <1>2 DEF Seed
  <2> QED BY <2>1 DEF Books, Absent
<1>3. ASSUME NEW t \in Scratch, SeedResolves(t)
      PROVE  audited[s] = 1 /\ Absent(s)
  <2>1. /\ phase = "seeding" /\ t \in todo /\ kill[t].at \in {"dead", "died"} /\ audited[t] > 0
        /\ opaque' = opaque \ {t} /\ file' = rows \cup opaque'
    BY <1>1, <1>3 DEF SeedResolves
  <2>2. file = rows \cup opaque /\ audited[t] \in {0, 1}
    BY <2>1 DEF Books
  <2>3. s = t
    BY <2>1, <2>2
  <2>4. audited[s] = 1
    BY <2>1, <2>2, <2>3
  <2> QED BY <2>1, <2>3, <2>4 DEF Verdicts
<1>4. ASSUME NEW t \in Scratch, ReapDrops(t) \/ KillDrops(t)
      PROVE  audited[s] = 1 /\ Absent(s)
  <2>1. /\ reaper[t] = "audited" \/ killer[t] = "audited"
        /\ rows' = rows \ {t} /\ file' = rows' \cup opaque' /\ opaque' = opaque
    BY <1>4 DEF ReapDrops, KillDrops, Drop, Persist
  <2>2. t \in claimed /\ Absent(t)
    BY <2>1 DEF Claims, Verdicts
  <2>3. t \in rows /\ file = rows \cup opaque
    BY <2>2, ClaimedRow
  <2>4. s = t
    BY <2>1, <2>3
  <2> QED BY <2>1, <2>2, <2>3, <2>4 DEF Claims
<1>5. ASSUME NEW t \in Scratch, Commit(t)
      PROVE  FALSE
  <2>1. run[t] = "known" /\ file' = rows \cup {t} \cup opaque
    BY <1>5 DEF Commit, Persist
  <2>2. phase = "up"
    BY <2>1, HoldingCounted
  <2>3. file = rows \cup opaque
    BY <2>2 DEF Books
  <2> QED BY <2>1, <2>3
<1>6. ~(Start \/ Serve \/ Crash) /\ ~UNCHANGED vars
  BY <1>1 DEF Start, Serve, Crash, vars, diskVars
<1>7. ASSUME NEW t \in Scratch,
             \/ Terminate(t) \/ Kill(t) \/ Confirm(t) \/ TakeRow(t) \/ StartupResolves(t)
             \/ SeedAudits(t) \/ TryReserve(t) \/ CreateSession(t) \/ RunFails(t) \/ Spawn(t)
      PROVE  FALSE
  BY <1>1, <1>7 DEF Terminate, Kill, Confirm, TakeRow, StartupResolves, SeedAudits, TryReserve,
                    CreateSession, RunFails, Spawn, diskVars
<1>8. ASSUME NEW t \in Scratch,
             \/ ReadPid(t) \/ ProgramExits(t) \/ TaskEnds(t) \/ ReaperWakes(t) \/ ReaperClaims(t)
             \/ ReapAudits(t) \/ ReapGivesUp(t) \/ KillDestroys(t) \/ KillTearsDown(t)
             \/ KillClaims(t) \/ KillAudits(t) \/ KillGivesUp(t)
      PROVE  FALSE
  BY <1>1, <1>8 DEF ReadPid, ProgramExits, TaskEnds, ReaperWakes, ReaperClaims, ReapAudits,
                    ReapGivesUp, KillDestroys, KillTearsDown, KillClaims, KillAudits, KillGivesUp,
                    diskVars
<1>9. ASSUME NEW p \in Pgid,
             OrphanDies(p) \/ LeaderDies(p) \/ ForeignTakes(p) \/ ForeignLeaves(p)
      PROVE  FALSE
  BY <1>1, <1>9 DEF OrphanDies, LeaderDies, ForeignTakes, ForeignLeaves, diskVars
<1>10. Seed \/ \E t \in Scratch : SeedResolves(t) \/ ReapDrops(t) \/ KillDrops(t)
  BY <1>5, <1>6, <1>7, <1>8, <1>9 DEF Next
<1> QED BY <1>2, <1>3, <1>4, <1>10 DEF Absent

\* A row leaves the registry file only when its group is gone and the reap is
\* audited, once (reap_scratch, on_session_killed, startup_reap,
\* seed_unresolved).
THEOREM DroppedWhenGoneHolds == Spec => DroppedWhenGone
<1>1. IInv /\ [Next]_vars =>
        [\A s \in file \ file' : audited[s] = 1 /\ \A p \in Pgid : owner[p] # s]_vars
  BY DropStep
<1> QED BY <1>1, Invariance, PTL DEF Spec, DroppedWhenGone

=============================================================================
