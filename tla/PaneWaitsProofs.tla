--------------------------- MODULE PaneWaitsProofs --------------------------
(***************************************************************************)
(* Proofs about module PaneWaits: what the three calls that wait for       *)
(* something of a pane say of it is true, for every ring, clock, terminal  *)
(* and parameter.                                                          *)
(***************************************************************************)
EXTENDS PaneWaits, FiniteSetTheorems, WellFoundedInduction, TLAPS

-----------------------------------------------------------------------------
(* pane.wait_settled                                                       *)

\* The types that the argument needs.
ScreenTypes ==
    /\ now \in Nat /\ shown \in Seq(Frames) /\ Len(shown) >= 1
    /\ since \in [DOMAIN shown -> Nat] /\ \A i \in DOMAIN shown : since[i] <= now

\* In quiet mode there is no frame to compare; the revision last given and the
\* clock last read are of the past.
QuietCall ==
    /\ spc \in {"idle", "seed"} => stable = Unset
    /\ spc \in {"borrow", "decide", "sleep"} =>
        stable = Unset /\ ask \in Asks /\ seen \in DOMAIN shown
    /\ spc = "decide" => looked \in Nat /\ looked <= now

\* In stability mode the frame compared is that of its revision; the run and
\* the time of the last change cover every revision before it, also those that
\* were never read.
FrameTrue(s) ==
    /\ s \in [rev : Nat, frame : Frames, run : Nat, change : Nat]
    /\ s.rev \in DOMAIN shown /\ s.run >= 1 /\ s.run <= s.rev
    /\ \A i \in DOMAIN shown : s.rev - s.run < i /\ i <= s.rev => shown[i] = s.frame
    /\ \A i \in DOMAIN shown : i < s.rev /\ since[i + 1] > s.change => shown[i] = s.frame
StableCall ==
    /\ spc = "seed" => ask \in Asks
    /\ spc \in {"top", "doze", "read"} => ask \in Asks /\ FrameTrue(stable) /\ seen \in Nat
    /\ spc \in {"top", "doze"} => stable.rev >= seen
    /\ spc = "read" => Len(shown) >= seen

\* The inductive invariant of the call.
SettleInv == ScreenTypes /\ QuietCall /\ StableCall /\ SettlesTruly

\* The call answers nothing before its end, and what is left alone stays true.
LEMMA SettleFrame ==
  ASSUME SettleInv, UNCHANGED <<screenVars, settleCall>>
  PROVE  SettleInv'
BY DEF SettleInv, ScreenTypes, QuietCall, StableCall, FrameTrue, SettlesTruly, QuietTruly, StoodStill, NothingGivenMissed,
       screenVars, settleCall

\* A revision more changes nothing of the ones before.
LEMMA OutputTrue ==
  ASSUME SettleInv, Output
  PROVE  SettleInv'
<1> USE DEF SettleInv
<1>1. PICK f \in Frames : shown' = Append(shown, f)
  BY DEF Output
<1>2. /\ since' = Append(since, now) /\ spc # "settled"
      /\ UNCHANGED <<term, now, spc, ask, until, seen, looked, wake, stable, verdict>>
  BY DEF Output, settleCall
<1>3. /\ shown' \in Seq(Frames) /\ Len(shown') = Len(shown) + 1 /\ DOMAIN shown = 1..Len(shown)
      /\ DOMAIN shown' = 1..(Len(shown) + 1)
      /\ \A i \in DOMAIN shown : shown'[i] = shown[i]
  BY <1>1 DEF ScreenTypes
<1>4. since \in Seq(Nat) /\ Len(since) = Len(shown)
  BY DEF ScreenTypes
<1>5. /\ DOMAIN since' = DOMAIN shown' /\ since'[Len(shown) + 1] = now
      /\ \A i \in DOMAIN shown : since'[i] = since[i]
  BY <1>2, <1>3, <1>4 DEF ScreenTypes
<1>6. ScreenTypes'
  <2>1. now \in Nat /\ \A i \in 1..Len(shown) : since[i] <= now
    BY <1>3 DEF ScreenTypes
  <2>2. since' \in Seq(Nat) /\ Len(since') = Len(shown)+ 1
    BY <1>2, <1>4, <2>1
  <2>3. since' \in [1..(Len(shown) + 1) -> Nat]
    BY <2>2
  <2>4. \A i \in 1..(Len(shown) + 1) : since'[i] <= now
    BY <1>3, <1>5, <2>1
  <2> QED BY <1>2, <1>3, <2>1, <2>3, <2>4 DEF ScreenTypes
<1>7. QuietCall'
  BY <1>2, <1>3 DEF QuietCall
<1>8. StableCall'
  <2>0. Len(shown) \in Nat /\ (spc = "read" => Len(shown') >= seen)
    BY <1>2, <1>3 DEF StableCall, ScreenTypes
  <2> SUFFICES ASSUME FrameTrue(stable) PROVE FrameTrue(stable)'
    BY <1>2, <2>0 DEF StableCall
  <2>1. stable.rev \in DOMAIN shown /\ stable.rev \in Nat /\ stable.run \in Nat
    BY DEF FrameTrue
  <2>2. \A i \in DOMAIN shown' : i <= stable.rev => i \in DOMAIN shown /\ shown'[i] = shown[i]
    BY <1>3, <2>1
  <2>3. \A i \in DOMAIN shown' : i < stable.rev => since'[i + 1] = since[i + 1]
    BY <1>3, <1>5, <2>1
  <2>4. \A i \in DOMAIN shown' : stable.rev - stable.run < i /\ i <= stable.rev
                                    => shown'[i] = stable.frame
    BY <2>2 DEF FrameTrue
  <2>5. \A i \in DOMAIN shown' : i < stable.rev /\ since'[i + 1] > stable.change
                                    => shown'[i] = stable.frame
    BY <1>3, <2>1, <2>2, <2>3 DEF FrameTrue
  <2>6. /\ stable' \in [rev : Nat, frame : Frames, run : Nat, change : Nat]
        /\ stable'.rev \in DOMAIN shown' /\ stable'.run >= 1 /\ stable'.run <= stable'.rev
    BY <1>2, <1>3, <2>1 DEF FrameTrue
  <2> QED BY <1>2, <2>4, <2>5, <2>6 DEF FrameTrue
<1>9. SettlesTruly'
  BY <1>2 DEF SettlesTruly, QuietTruly, StoodStill, NothingGivenMissed
<1> QED BY <1>6, <1>7, <1>8, <1>9

\* Nor does time.
LEMMA TickTrue ==
  ASSUME SettleInv, Tick
  PROVE  SettleInv'
<1> USE DEF SettleInv
<1>1. /\ now' = now + 1 /\ spc # "settled"
      /\ UNCHANGED <<term, shown, since, spc, ask, until, seen, looked, wake, stable, verdict>>
  BY DEF Tick, settleCall
<1>2. ScreenTypes' /\ QuietCall'
  BY <1>1 DEF ScreenTypes, QuietCall
<1>3. StableCall' /\ SettlesTruly'
  BY <1>1 DEF StableCall, FrameTrue, SettlesTruly, QuietTruly, StoodStill, NothingGivenMissed
<1> QED BY <1>2, <1>3

\* A terminal that comes or goes leaves its revisions.
LEMMA TermTrue ==
  ASSUME SettleInv, Install \/ Remove
  PROVE  SettleInv'
<1>1. UNCHANGED <<now, shown, since, spc, ask, until, seen, looked, wake, stable, verdict>>
  BY DEF Install, Remove, settleCall
<1> QED BY <1>1 DEF SettleInv, ScreenTypes, QuietCall, StableCall, FrameTrue, SettlesTruly,
                    QuietTruly, StoodStill, NothingGivenMissed

\* A call that is not found, or goes on in its mode, says nothing.
LEMMA GoesOn ==
  ASSUME SettleInv, UNCHANGED screenVars, ScreenTypes' => QuietCall' /\ StableCall',
         spc' = "settled" => verdict'.settled = "not_found"
  PROVE  SettleInv'
BY DEF SettleInv, ScreenTypes, SettlesTruly, QuietTruly, StoodStill, NothingGivenMissed, screenVars

\* Not found is said with no claim about the screen.
LEMMA NotFoundSays ==
  ASSUME NotFound
  PROVE  spc' = "settled" /\ verdict'.settled = "not_found"
BY DEF NotFound, Verdict

\* The handler, up to its loop.
LEMMA WaitSettledTrue ==
  ASSUME SettleInv, WaitSettled
  PROVE  SettleInv'
<1>1. PICK a \in Asks :
          /\ ask' = a
          /\ \/ ~Up /\ NotFound
             \/ Up /\ (a.hold > 0 \/ a.frames >= 2) /\ Go("seed")
             \/ Up /\ a.hold = 0 /\ a.frames = 1 /\ Go("borrow")
  BY DEF WaitSettled
<1>2. UNCHANGED <<term, now, shown, since, looked, wake, stable>> /\ spc = "idle" /\ seen' = Len(shown)
  BY DEF WaitSettled, screenVars, Rev
<1>3. spc' \in {"settled", "seed", "borrow"} /\ (spc' = "settled" => verdict'.settled = "not_found")
  BY <1>1, NotFoundSays DEF Go
<1>4. ScreenTypes' => QuietCall' /\ StableCall'
  BY <1>1, <1>2, <1>3 DEF SettleInv, ScreenTypes, QuietCall, StableCall
<1> QED BY <1>2, <1>3, <1>4, GoesOn DEF screenVars

\* borrow_and_update and the clock: both are read now.
LEMMA BorrowTrue ==
  ASSUME SettleInv, Borrow
  PROVE  SettleInv'
<1>1. /\ UNCHANGED <<term, now, shown, since, ask, stable>> /\ spc = "borrow" /\ spc' = "decide"
      /\ seen' = Len(shown) /\ looked' = now
  BY DEF Borrow, screenVars, Rev, Go
<1>2. ScreenTypes' => QuietCall' /\ StableCall'
  BY <1>1 DEF SettleInv, ScreenTypes, QuietCall, StableCall
<1> QED BY <1>1, <1>2, GoesOn DEF screenVars

\* The decision: between the reading of the watch and that of the clock no
\* revision may have come, and then the screen is as old as it was taken for.
LEMMA DecideTrue ==
  ASSUME SettleInv, Decide
  PROVE  SettleInv'
<1>1. /\ UNCHANGED <<term, now, shown, since, ask, until, seen, looked, stable>> /\ spc = "decide"
  BY DEF Decide, screenVars
<1>2. ScreenTypes' /\ ScreenTypes
  BY <1>1 DEF SettleInv, ScreenTypes
<1>3. /\ stable = Unset /\ ask \in Asks /\ ask.quiet \in Nat
      /\ seen \in DOMAIN shown /\ looked \in Nat /\ looked <= now
  BY <1>1, AsksAssumption DEF SettleInv, QuietCall
<1>4. CASE NotFound \/ Go("borrow") \/ Go("sleep")
  <2>1. spc' \in {"settled", "borrow", "sleep"} /\ (spc' = "settled" => verdict'.settled = "not_found")
    BY <1>4, NotFoundSays DEF Go
  <2>2. QuietCall' /\ StableCall'
    BY <1>1, <1>3, <2>1 DEF QuietCall, StableCall
  <2> QED BY <1>1, <2>1, <2>2, GoesOn DEF screenVars
<1>5. CASE /\ Up /\ Len(shown) = seen
           /\ (Quiet /\ Verdict("yes", seen)) \/ (~Quiet /\ now >= until /\ Verdict("no", seen))
  <2>1. /\ spc' = "settled" /\ verdict'.revision = seen /\ verdict'.newest = seen
        /\ verdict'.at = now /\ verdict'.settled \in {"yes", "no"}
        /\ verdict'.settled = "yes" => Quiet
        /\ verdict'.settled = "no" => now >= until /\ ~Quiet
    BY <1>5 DEF Verdict, Rev
  <2>2. IF Quiet THEN now >= since[seen] + ask.quiet ELSE looked < since[seen] + ask.quiet
    BY <1>2, <1>3, ClockAssumption DEF Quiet, Less, ScreenTypes
  <2>3. QuietCall' /\ StableCall'
    BY <2>1 DEF QuietCall, StableCall
  <2>4. QuietTruly' /\ StoodStill' /\ NothingGivenMissed'
    BY <1>1, <1>3, <2>1, <2>2 DEF QuietTruly, StoodStill, NothingGivenMissed
  <2> QED BY <1>2, <2>3, <2>4 DEF SettleInv, SettlesTruly
<1> QED BY <1>4, <1>5 DEF Decide, Rev

\* The sleep ends; the watch may have changed or be gone.
LEMMA SleepTrue ==
  ASSUME SettleInv, Sleep
  PROVE  SettleInv'
<1>1. UNCHANGED <<term, now, shown, since, ask, seen, looked, stable>> /\ spc = "sleep"
  BY DEF Sleep, screenVars
<1>2. spc' \in {"settled", "borrow"} /\ (spc' = "settled" => verdict'.settled = "not_found")
  BY NotFoundSays DEF Sleep, Go
<1>3. QuietCall' /\ StableCall'
  BY <1>1, <1>2 DEF SettleInv, QuietCall, StableCall
<1> QED BY <1>1, <1>2, <1>3, GoesOn DEF screenVars

\* The first frame: it stands since now.
LEMMA SeedTrue ==
  ASSUME SettleInv, Seed
  PROVE  SettleInv'
<1>1. UNCHANGED <<term, now, shown, since, ask, looked>> /\ spc = "seed"
  BY DEF Seed, screenVars
<1>2. ScreenTypes
  BY DEF SettleInv
<1>3. CASE ~Up
  <2>1. spc' = "settled" /\ verdict'.settled = "not_found"
    BY <1>3, NotFoundSays DEF Seed
  <2>2. QuietCall' /\ StableCall'
    BY <2>1 DEF QuietCall, StableCall
  <2> QED BY <1>1, <2>1, <2>2, GoesOn DEF screenVars
<1>4. CASE Up
  <2> DEFINE r == Len(shown)
  <2>1. /\ stable' = [rev |-> r, frame |-> shown[r], run |-> 1, change |-> now]
        /\ spc' = "top" /\ seen' = r
    BY <1>4 DEF Seed, Rev, Go
  <2>2. /\ stable'.rev = r /\ stable'.frame = shown[r] /\ stable'.run = 1 /\ stable'.change = now
        /\ stable' \in [rev : Nat, frame : Frames, run : Nat, change : Nat]
    BY <1>2, <2>1 DEF ScreenTypes
  <2>3. FrameTrue(stable)'
    BY <1>1, <1>2, <2>2 DEF FrameTrue, ScreenTypes
  <2>4. QuietCall' /\ StableCall'
    <3>1. r \in Nat /\ stable'.rev = r
      BY <1>2, <2>2 DEF ScreenTypes
    <3> QED BY <1>1, <2>1, <2>3, <3>1 DEF SettleInv, QuietCall, StableCall
  <2> QED BY <1>1, <2>1, <2>4, GoesOn DEF screenVars
<1> QED BY <1>3, <1>4

\* A frame that is compared is no longer unset.
LEMMA FrameIsSet ==
  ASSUME FrameTrue(stable)
  PROVE  stable # Unset
BY UnsetAssumption DEF FrameTrue

\* The top of the loop: a run and a hold that suffice are those of the screen.
LEMMA TopTrue ==
  ASSUME SettleInv, Top
  PROVE  SettleInv'
<1>1. UNCHANGED <<term, now, shown, since, ask, until, seen, looked, stable>> /\ spc = "top"
  BY DEF Top, screenVars
<1>2. ScreenTypes /\ ScreenTypes'
  BY <1>1 DEF SettleInv, ScreenTypes
<1>3. ask \in Asks /\ FrameTrue(stable) /\ stable # Unset /\ seen \in Nat /\ stable.rev >= seen
  BY <1>1, FrameIsSet DEF SettleInv, StableCall
<1>4. CASE Go("doze")
  <2>1. QuietCall' /\ StableCall' /\ spc' = "doze"
    BY <1>1, <1>3, <1>4 DEF Go, QuietCall, StableCall, FrameTrue
  <2> QED BY <1>1, <2>1, GoesOn DEF screenVars
<1>5. CASE ~IsSettled /\ now >= until /\ Verdict("no", stable.rev)
  <2>1. /\ spc' = "settled" /\ verdict'.settled = "no" /\ verdict'.at = now
        /\ verdict'.revision = stable.rev
    BY <1>5 DEF Verdict
  <2>2. /\ ask.frames \in Nat /\ ask.hold \in Nat /\ stable.run \in Nat /\ stable.run >= 1
        /\ stable.change \in Nat /\ now \in Nat
    BY <1>2, <1>3, AsksAssumption DEF FrameTrue, ScreenTypes
  <2>3. stable.run < ask.frames \/ now < stable.change + ask.hold
    BY <1>5, <2>2 DEF IsSettled, Held, Less
  <2>4. NothingGivenMissed'
    BY <1>1, <1>3, <1>5, <2>1, <2>3 DEF NothingGivenMissed
  <2> QED BY <1>1, <1>2, <1>3, <2>1, <2>4
          DEF SettleInv, QuietCall, StableCall, SettlesTruly, QuietTruly, StoodStill, NothingGivenMissed
<1>6. CASE IsSettled /\ Verdict("yes", stable.rev)
  <2> DEFINE r == stable.rev
  <2>1. spc' = "settled" /\ verdict'.settled = "yes" /\ verdict'.revision = r /\ verdict'.at = now
    BY <1>6 DEF Verdict
  <2>2. ask.frames \in Nat /\ ask.hold \in Nat
    BY <1>3, AsksAssumption
  <2>3. r \in Nat /\ stable.run \in Nat /\ stable.change \in Nat /\ r \in DOMAIN shown
    BY <1>3 DEF FrameTrue
  <2>4. stable.run >= 1 /\ stable.run <= r /\ (ask.frames <= 1 \/ stable.run >= ask.frames)
    BY <1>3, <1>6 DEF IsSettled, FrameTrue
  <2>5. ask.hold > 0 => now >= stable.change + ask.hold
    BY <1>2, <1>6, <2>2, <2>3 DEF IsSettled, Held, Less, ScreenTypes
  <2>6. r >= ask.frames
    BY <2>2, <2>3, <2>4
  <2>7. shown[r] = stable.frame
    BY <1>3, <2>3, <2>4 DEF FrameTrue
  <2>8. ASSUME NEW i \in 1..r, i > r - ask.frames
        PROVE  shown[i] = stable.frame
    <3>1. i \in DOMAIN shown /\ i > r - stable.run
      BY <1>2, <2>2, <2>3, <2>4, <2>8 DEF ScreenTypes
    <3> QED BY <1>3, <2>3, <3>1 DEF FrameTrue
  <2>9. ASSUME NEW i \in 1..r, ask.hold > 0, i < r, since[i + 1] + ask.hold > now
        PROVE  shown[i] = stable.frame
    <3>1. i \in DOMAIN shown /\ i + 1 \in DOMAIN shown
      BY <1>2, <2>3, <2>9 DEF ScreenTypes
    <3>2. since[i + 1] \in Nat
      BY <1>2, <3>1 DEF ScreenTypes
    <3>3. since[i + 1] > stable.change
      BY <1>2, <2>2, <2>3, <2>5, <2>9, <3>2 DEF ScreenTypes
    <3> QED BY <1>3, <2>9, <3>1, <3>3 DEF FrameTrue
  <2>10. StoodStill'
    <3>1. ASSUME NEW i \in 1..r,
                 i > r - ask.frames \/ (ask.hold > 0 /\ (i < r => since[i + 1] + ask.hold > now))
          PROVE  shown[i] = shown[r]
      <4>1. i = r \/ i < r
        BY <2>3
      <4> QED BY <2>7, <2>8, <2>9, <3>1, <4>1
    <3> QED BY <1>1, <2>1, <2>6, <3>1 DEF StoodStill
  <2>11. NothingGivenMissed'
    BY <1>1, <1>3, <2>1 DEF NothingGivenMissed
  <2> QED BY <1>1, <1>2, <1>3, <2>1, <2>10, <2>11
          DEF SettleInv, QuietCall, StableCall, SettlesTruly, QuietTruly
<1> QED BY <1>4, <1>5, <1>6 DEF Top

\* The doze ends; the watch may have changed or be gone.
LEMMA DozeTrue ==
  ASSUME SettleInv, Doze
  PROVE  SettleInv'
<1>1. UNCHANGED <<term, now, shown, since, ask, looked, stable>> /\ spc = "doze"
  BY DEF Doze, screenVars
<1>2. spc' \in {"settled", "read", "top"} /\ (spc' = "settled" => verdict'.settled = "not_found")
  BY NotFoundSays DEF Doze, Go
<1>3. /\ spc' = "read" => seen' = Len(shown) /\ Len(shown) \in Nat
      /\ spc' = "top" => seen' = seen
  BY NotFoundSays DEF Doze, Go, Rev, SettleInv, ScreenTypes
<1>4. ask \in Asks /\ FrameTrue(stable) /\ seen \in Nat /\ stable.rev >= seen
  BY <1>1 DEF SettleInv, StableCall
<1>5. FrameTrue(stable)'
  BY <1>1, <1>4 DEF FrameTrue
<1>6. QuietCall' /\ StableCall'
  BY <1>1, <1>2, <1>3, <1>4, <1>5 DEF QuietCall, StableCall
<1> QED BY <1>1, <1>2, <1>6, GoesOn DEF screenVars

\* FrameStability::observe: a revision that follows the last one extends the
\* run; every other starts anew, since what was skipped is not known.
LEMMA ReadFrameTrue ==
  ASSUME SettleInv, ReadFrame
  PROVE  SettleInv'
<1>1. UNCHANGED <<term, now, shown, since, ask, looked>> /\ spc = "read"
  BY DEF ReadFrame, screenVars
<1>2. ScreenTypes
  BY DEF SettleInv
<1>3. CASE ~Up
  <2>1. spc' = "settled" /\ verdict'.settled = "not_found"
    BY <1>3, NotFoundSays DEF ReadFrame
  <2>2. QuietCall' /\ StableCall'
    BY <2>1 DEF QuietCall, StableCall
  <2> QED BY <1>1, <2>1, <2>2, GoesOn DEF screenVars
<1>4. CASE Up
  <2> DEFINE r == Len(shown)
             same == r = stable.rev + 1 /\ shown[r] = stable.frame
             nextRun == [rev |-> r, frame |-> shown[r],
                       run |-> IF same THEN stable.run + 1 ELSE 1,
                       change |-> IF same THEN stable.change ELSE now]
  <2>1. stable' = (IF r <= stable.rev THEN stable ELSE nextRun) /\ spc' = "top"
    BY <1>4 DEF ReadFrame, Rev, Go, Observe
  <2>2. ask \in Asks /\ FrameTrue(stable)
    BY <1>1 DEF SettleInv, StableCall
  <2>3. stable.rev \in Nat /\ stable.run \in Nat /\ stable.change \in Nat /\ r \in Nat
    BY <1>2, <2>2 DEF FrameTrue, ScreenTypes
  <2> HIDE DEF nextRun
  <2>6. FrameTrue(stable)'
    <3>1. CASE r <= stable.rev
      BY <1>1, <2>1, <2>2, <3>1 DEF FrameTrue
    <3>2. CASE ~(r <= stable.rev)
      <4>1. r \in DOMAIN shown /\ DOMAIN shown = 1..r /\ shown[r] \in Frames /\ now \in Nat
        BY <1>2 DEF ScreenTypes
      <4>2. stable' = nextRun
        BY <2>1, <3>2
      <4>3. /\ stable'.rev = r /\ stable'.frame = shown[r]
            /\ stable'.run = (IF same THEN stable.run + 1 ELSE 1)
            /\ stable'.change = (IF same THEN stable.change ELSE now)
            /\ stable' \in [rev : Nat, frame : Frames, run : Nat, change : Nat]
        BY <2>3, <4>1, <4>2 DEF nextRun
      <4>4. CASE same
        <5>1. /\ stable.rev \in DOMAIN shown /\ shown[stable.rev] = stable.frame
              /\ stable.run >= 1 /\ stable.run <= stable.rev
          BY <2>2, <2>3 DEF FrameTrue
        <5>2. \A i \in 1..r : r - (stable.run + 1) < i /\ i <= r => shown[i] = stable.frame
          BY <2>2, <2>3, <4>1, <4>4 DEF FrameTrue
        <5>3. \A i \in 1..r : i < r /\ since[i + 1] > stable.change => shown[i] = stable.frame
          BY <2>2, <2>3, <4>1, <4>4, <5>1 DEF FrameTrue
        <5>4. /\ stable'.run = stable.run + 1 /\ stable'.change = stable.change
              /\ stable'.frame = stable.frame /\ stable'.run >= 1 /\ stable'.run <= stable'.rev
          BY <2>3, <4>3, <4>4, <5>1
        <5> QED BY <1>1, <4>1, <4>3, <5>2, <5>3, <5>4 DEF FrameTrue
      <4>5. CASE ~same
        <5>1. \A i \in 1..r : r - 1 < i /\ i <= r => i = r
          BY <2>3
        <5>2. \A i \in 1..r : i < r => ~(since[i + 1] > now)
          BY <1>2, <4>1 DEF ScreenTypes
        <5>3. stable'.run = 1 /\ stable'.change = now /\ 1 <= r
          BY <2>3, <4>1, <4>3, <4>5
        <5>4. \A i \in DOMAIN shown' : stable'.rev - stable'.run < i /\ i <= stable'.rev
                                          => shown'[i] = stable'.frame
          BY <1>1, <4>1, <4>3, <5>1, <5>3
        <5>5. \A i \in DOMAIN shown' : i < stable'.rev /\ since'[i + 1] > stable'.change
                                          => shown'[i] = stable'.frame
          BY <1>1, <4>1, <4>3, <5>2, <5>3
        <5> QED BY <1>1, <4>1, <4>3, <5>3, <5>4, <5>5 DEF FrameTrue
      <4> QED BY <4>4, <4>5
    <3> QED BY <3>1, <3>2
  <2>7. QuietCall' /\ StableCall'
    <3>1. seen \in Nat /\ seen' = seen /\ r >= seen
      BY <1>1 DEF SettleInv, StableCall, ReadFrame
    <3>2. stable'.rev >= seen
      BY <2>1, <2>3, <3>1 DEF nextRun
    <3> QED BY <1>1, <2>1, <2>2, <2>6, <3>1, <3>2 DEF QuietCall, StableCall
  <2> QED BY <1>1, <2>1, <2>7, GoesOn DEF screenVars
<1> QED BY <1>3, <1>4

\* Every step of the screen and of the call keeps the invariant.
LEMMA SettleStep ==
  ASSUME SettleInv, [SettleNext]_<<screenVars, settleCall>>
  PROVE  SettleInv'
BY SettleFrame, OutputTrue, TickTrue, TermTrue, WaitSettledTrue, BorrowTrue, DecideTrue, SleepTrue,
   SeedTrue, TopTrue, DozeTrue, ReadFrameTrue
   DEF SettleNext, SettleHandler

-----------------------------------------------------------------------------
(* The pane: what its log says of it                                       *)

\* The types that the argument needs.
PaneTypes ==
    /\ live \in BOOLEAN /\ exit \in Exit \cup {None} /\ ran \in BOOLEAN
    /\ pending \in Exit \cup {"removed", None} /\ log \in Seq(EventKind)

\* The log begins with the pane's creation.  The exit it tells, if any, is the
\* recorded one; what is recorded is told or about to be; a removal comes after
\* it, and after a removal there is no exit.
LogTrue ==
    /\ Len(log) >= 1
    /\ \A k \in 1..Len(log) : (log[k] = "created") <=> (k = 1)
    /\ \A k \in 1..Len(log) : log[k] \in Exit => log[k] = exit
    /\ \A k \in 1..Len(log) : log[k] = "removed" => ~live
    /\ \A j, k \in 1..Len(log) : log[j] \in Exit /\ log[k] = "removed" => j < k
    /\ pending \in Exit => live /\ pending = exit
    /\ pending = "removed" => ~live
    /\ exit # None => pending = exit \/ \E k \in 1..Len(log) : log[k] = exit

\* A program that exited has its terminal as long as the pane is there.
Terminals == live /\ exit # None => ran

\* The inductive invariant of the pane.
PaneInv == PaneTypes /\ LogTrue /\ Terminals

\* The log, one event longer.
LEMMA Appended ==
  ASSUME PaneTypes, NEW e \in EventKind, log' = Append(log, e)
  PROVE  /\ log' \in Seq(EventKind) /\ Len(log') = Len(log) + 1 /\ Len(log) \in Nat
         /\ log'[Len(log) + 1] = e /\ \A k \in 1..Len(log) : log'[k] = log[k]
BY DEF PaneTypes

\* What nobody touches stays true.
LEMMA PaneFrame ==
  ASSUME PaneInv, UNCHANGED <<live, exit, pending, log, ran>>
  PROVE  PaneInv'
BY DEF PaneInv, PaneTypes, LogTrue, Terminals

\* An event of somebody else, too.
LEMMA OtherTrue ==
  ASSUME PaneInv, NEW e \in {"other", "noise"}, log' = Append(log, e),
         UNCHANGED <<live, exit, pending, ran>>
  PROVE  PaneInv'
<1> USE DEF PaneInv
<1>1. e \in EventKind /\ e \notin Exit \cup {"created", "removed"}
  BY DEF EventKind, Exit
<1>2. /\ log' \in Seq(EventKind) /\ Len(log') = Len(log) + 1 /\ Len(log) \in Nat
      /\ log'[Len(log) + 1] = e /\ \A k \in 1..Len(log) : log'[k] = log[k]
  BY <1>1, Appended
<1>3. \A k \in 1..Len(log') : k = Len(log) + 1 \/ k \in 1..Len(log)
  BY <1>2
<1>4. PaneTypes' /\ Terminals'
  BY <1>2 DEF PaneTypes, Terminals
<1>5. LogTrue'
  BY <1>1, <1>2, <1>3 DEF LogTrue
<1> QED BY <1>4, <1>5

\* A recorded exit is about to be told.
LEMMA ProgramExitsTrue ==
  ASSUME PaneInv, ProgramExits
  PROVE  PaneInv'
<1> USE DEF PaneInv
<1>1. /\ live /\ ran /\ exit = None /\ pending = None /\ exit' \in Exit /\ pending' = exit'
      /\ UNCHANGED <<live, log, ran>>
  BY DEF ProgramExits, ioVars
<1>2. None \notin Exit
  BY NoEventAssumption DEF EventKind
<1>3. \A k \in 1..Len(log) : log[k] \notin Exit
  BY <1>1, <1>2 DEF LogTrue
<1>4. "removed" \notin Exit
  BY DEF Exit
<1> QED BY <1>1, <1>2, <1>3, <1>4 DEF PaneTypes, LogTrue, Terminals

\* A removal comes when nothing is about to be told.
LEMMA DestroyTrue ==
  ASSUME PaneInv, Destroy
  PROVE  PaneInv'
<1> USE DEF PaneInv
<1>1. /\ live /\ pending = None /\ live' = FALSE /\ pending' = "removed"
      /\ UNCHANGED <<exit, log, ran>>
  BY DEF Destroy, ioVars
<1>2. None \notin Exit /\ "removed" \notin Exit
  BY NoEventAssumption DEF EventKind, Exit
<1>3. \A k \in 1..Len(log) : log[k] # "removed"
  BY <1>1 DEF LogTrue
<1> QED BY <1>1, <1>2, <1>3 DEF PaneTypes, LogTrue, Terminals

\* What is told was recorded, and in that order.
LEMMA FireTrue ==
  ASSUME PaneInv, Fire
  PROVE  PaneInv'
<1> USE DEF PaneInv
<1>1. /\ pending # None /\ log' = Append(log, pending) /\ pending' = None
      /\ UNCHANGED <<live, exit, ran>>
  BY DEF Fire, ioVars
<1>2. pending \in Exit \cup {"removed"} /\ pending \in EventKind
  BY <1>1 DEF PaneTypes, EventKind
<1>3. /\ log' \in Seq(EventKind) /\ Len(log') = Len(log) + 1 /\ Len(log) \in Nat
      /\ log'[Len(log) + 1] = pending /\ \A k \in 1..Len(log) : log'[k] = log[k]
  BY <1>1, <1>2, Appended
<1>4. \A k \in 1..Len(log') : k = Len(log) + 1 \/ k \in 1..Len(log)
  BY <1>3
<1>5. "removed" \notin Exit /\ "created" \notin Exit /\ None \notin Exit /\ None # "removed"
  BY NoEventAssumption DEF Exit, EventKind
<1>6. PaneTypes' /\ Terminals'
  BY <1>1, <1>3 DEF PaneTypes, Terminals
<1>7. \A j, k \in 1..Len(log') : log'[j] \in Exit /\ log'[k] = "removed" => j < k
  <2> SUFFICES ASSUME NEW j \in 1..Len(log'), NEW k \in 1..Len(log'), log'[j] \in Exit,
                      log'[k] = "removed"
               PROVE  j < k
    OBVIOUS
  <2>1. CASE k = Len(log) + 1
    BY <1>3, <1>4, <1>5, <2>1
  <2>2. CASE k \in 1..Len(log)
    <3>1. ~live
      BY <1>3, <2>2 DEF LogTrue
    <3>2. pending \notin Exit
      BY <3>1 DEF LogTrue
    <3>3. j \in 1..Len(log)
      BY <1>3, <1>4, <3>2
    <3> QED BY <1>3, <2>2, <3>3 DEF LogTrue
  <2> QED BY <1>4, <2>1, <2>2
<1>8. exit # None => \E k \in 1..Len(log') : log'[k] = exit
  <2>1. CASE pending = exit
    BY <1>3, <2>1
  <2>2. CASE pending # exit
    BY <1>3, <2>2 DEF LogTrue
  <2> QED BY <2>1, <2>2
<1>9. LogTrue'
  BY <1>1, <1>2, <1>3, <1>4, <1>5, <1>7, <1>8 DEF LogTrue
<1> QED BY <1>6, <1>9

\* Every step of the pane keeps its invariant.
LEMMA PaneTrue ==
  ASSUME PaneInv, PaneStep
  PROVE  PaneInv'
<1>1. CASE ProgramExits \/ Destroy \/ Fire
  BY <1>1, ProgramExitsTrue, DestroyTrue, FireTrue
<1>2. CASE SpawnStarts \/ SpawnFails \/ SpawnReturns
  BY <1>2, PaneFrame DEF SpawnStarts, SpawnFails, SpawnReturns, paneVars
<1>3. CASE SpawnInstalls
  BY <1>3 DEF SpawnInstalls, paneVars, PaneInv, PaneTypes, LogTrue, Terminals
<1>4. CASE Teardown
  BY <1>4 DEF Teardown, paneVars, PaneInv, PaneTypes, LogTrue, Terminals
<1> QED BY <1>1, <1>2, <1>3, <1>4 DEF PaneStep

-----------------------------------------------------------------------------
(* pane.wait_exit                                                          *)

\* The exit is not told yet where the subscription is.
Ahead == exit # None => pending = exit \/ \E k \in next..Len(log) : log[k] = exit

\* A call that came late reads the snapshot before it waits, and then it has
\* its answer.  One that waits, or that will not read the snapshot again, has
\* the exit still ahead of it.
ExitCall ==
    /\ next \in 1..(Len(log) + 1) /\ reread \in BOOLEAN /\ late \in BOOLEAN
    /\ pc \in {"idle", "subscribed", "start", "failed", "look", "wait", "answered"}
    /\ pc # "answered" => answer = None
    /\ pc \in {"idle", "subscribed"} => reread
    /\ pc = "idle" => ~late
    /\ late => (exit # None \/ ~live) /\ pc # "wait" /\ (pc # "answered" => reread)
    /\ pc = "wait" \/ ~reread => pc = "answered" \/ Ahead

\* The inductive invariant of the call.
ExitInv == PaneInv /\ ExitCall /\ AnswersTruly

\* A set of positions in a sequence has a first and a last (the well-foundedness
\* of <).
LEMMA FirstLast ==
  ASSUME NEW n \in Nat, NEW S \in SUBSET (1..n), S # {}
  PROVE  /\ \E m \in S : \A k \in S : m <= k
         /\ \E m \in S : \A k \in S : k <= m
<1>1. ASSUME NEW T \in SUBSET Nat, T # {}
      PROVE  \E m \in T : \A k \in T : m <= k
  <2> DEFINE R == {ss \in Nat \X Nat : ss[1] < ss[2]}
  <2>1. IsWellFoundedOn(R, Nat)
    BY ONLY NatLessThanWellFounded, Zenon DEF OpToRel
  <2> HIDE DEF R
  <2>2. \E x \in T : \A y \in T : ~ (<<y, x>> \in R)
    BY <1>1, <2>1, WFMin
  <2>3. \A x, y \in Nat : <<y, x>> \notin R => x <= y
    BY SMT DEF R
  <2> QED BY <2>2, <2>3
<1> DEFINE U == {n - k : k \in S}
<1>2. U \in SUBSET Nat /\ U # {}
  <2>1. \A k \in S : k \in 1..n
    OBVIOUS
  <2>2. \A k \in 1..n : n - k \in Nat
    OBVIOUS
  <2> QED BY <2>1, <2>2
<1>3. PICK u \in U : \A v \in U : u <= v
  BY <1>1, <1>2
<1>4. PICK m \in S : u = n - m
  BY <1>3
<1>5. \A k \in S : k <= m
  BY <1>3, <1>4
<1> QED BY <1>1, <1>5

\* The history says of a pane that is gone how its program ended, or it no
\* longer reaches back to the creation (announced_exit).
LEMMA AnnouncedTrue ==
  ASSUME PaneInv, ~live
  PROVE  \/ AnnouncedExit \in {"exited", "not_reaped"} /\ exit # None /\ AnnouncedExit = Payload(exit)
         \/ AnnouncedExit = "killed" /\ exit = None
         \/ AnnouncedExit \in {"events_lost", None} /\ Len(log) > HistoryCapacity
<1> DEFINE marks == {k \in History : log[k] \in Exit \cup {"created"}}
           last == CHOOSE k \in marks : \A j \in marks : j <= k
<1>1. Len(log) \in Nat /\ Len(log) >= 1 /\ HistoryCapacity \in Nat \ {0}
  BY CapacityAssumption DEF PaneInv, PaneTypes, LogTrue
<1> DEFINE oldest == OldestOf(HistoryCapacity)
<1>2. oldest \in Nat /\ oldest >= 1 /\ (Len(log) <= HistoryCapacity => oldest = 1)
  BY <1>1 DEF OldestOf, CurrentSeq, Least
<1>3. History = oldest..Len(log) /\ History \subseteq 1..Len(log)
  <2> HIDE DEF oldest
  <2>1. oldest..Len(log) \subseteq 1..Len(log)
    BY <1>1, <1>2
  <2> QED BY <2>1 DEF History, oldest
<1> HIDE DEF oldest
<1>4. marks \in SUBSET (1..Len(log))
  BY <1>3
<1>5. None \notin Exit /\ "created" \notin Exit
  BY NoEventAssumption DEF EventKind, Exit
<1>6. CASE marks # {}
  <2>1. last \in marks /\ \A j \in marks : j <= last
    BY <1>1, <1>4, <1>6, FirstLast
  <2>2. last \in 1..Len(log) /\ log[last] \in Exit \cup {"created"}
    BY <1>4, <2>1
  <2>3. CASE log[last] \in Exit
    <3>1. AnnouncedExit = Payload(log[last])
      BY <1>5, <1>6, <2>3, Zenon DEF AnnouncedExit
    <3>2. log[last] = exit /\ exit # None
      BY <1>5, <2>2, <2>3 DEF PaneInv, LogTrue
    <3> QED BY <3>1, <3>2 DEF Payload
  <2>4. CASE log[last] = "created"
    <3>1. AnnouncedExit = "killed"
      BY <1>5, <1>6, <2>4 DEF AnnouncedExit
    <3>2. last = 1
      BY <2>2, <2>4 DEF PaneInv, LogTrue
    <3>3. 1 \in History
      BY <2>1, <3>2
    <3>4. History = 1..Len(log)
      BY <1>1, <1>2, <1>3, <3>3
    <3>5. ASSUME exit # None PROVE FALSE
      <4>1. exit \in Exit
        BY <3>5 DEF PaneInv, PaneTypes
      <4>2. PICK k \in 1..Len(log) : log[k] = exit
        BY <3>5, <4>1 DEF PaneInv, LogTrue
      <4>3. k \in marks
        BY <3>4, <4>1, <4>2
      <4>4. k <= 1
        BY <2>1, <3>2, <4>3
      <4>5. k = 1
        BY <1>1, <4>2, <4>4
      <4> QED BY <1>5, <2>4, <3>2, <4>1, <4>2, <4>5
    <3> QED BY <3>1, <3>5
  <2> QED BY <2>2, <2>3, <2>4
<1>7. CASE marks = {}
  <2>1. AnnouncedExit \in {"events_lost", None}
    BY <1>7 DEF AnnouncedExit
  <2>2. 1 \notin History
    <3>1. log[1] = "created"
      BY <1>1 DEF PaneInv, LogTrue
    <3> QED BY <1>7, <3>1
  <2>3. Len(log) > HistoryCapacity
    BY <1>1, <1>2, <1>3, <2>2
  <2> QED BY <2>1, <2>3
<1> QED BY <1>6, <1>7

\* What a step of the pane leaves of the call.
LEMMA ExitPaneTrue ==
  ASSUME ExitInv, PaneStep, UNCHANGED exitCall
  PROVE  ExitInv'
<1> USE DEF ExitInv
<1>1. PaneInv'
  BY PaneTrue
<1>2. UNCHANGED <<pc, next, knows, reread, deadline, late, answer>>
  BY DEF exitCall
<1>3. None \notin Exit
  BY NoEventAssumption DEF EventKind
<1>4. CASE UNCHANGED <<live, exit, pending, log>>
  BY <1>1, <1>2, <1>4 DEF ExitCall, Ahead, AnswersTruly
<1>5. CASE ProgramExits
  <2>1. /\ live /\ exit = None /\ exit' \in Exit /\ pending' = exit' /\ UNCHANGED <<live, log>>
    BY <1>5 DEF ProgramExits
  <2> QED BY <1>1, <1>2, <1>3, <2>1 DEF ExitCall, Ahead, AnswersTruly
<1>6. CASE Destroy
  <2>1. /\ live /\ live' = FALSE /\ pending = None /\ UNCHANGED <<exit, log>>
    BY <1>6 DEF Destroy
  <2>2. Ahead => Ahead'
    BY <1>2, <2>1 DEF Ahead
  <2> QED BY <1>1, <1>2, <2>1, <2>2 DEF ExitCall, AnswersTruly
<1>7. CASE Fire
  <2>1. pending # None /\ log' = Append(log, pending) /\ UNCHANGED <<live, exit>>
    BY <1>7 DEF Fire
  <2>2. pending \in EventKind
    BY <2>1 DEF PaneInv, PaneTypes, EventKind
  <2>3. /\ Len(log') = Len(log) + 1 /\ Len(log) \in Nat
        /\ log'[Len(log) + 1] = pending /\ \A k \in 1..Len(log) : log'[k] = log[k]
    BY <2>1, <2>2, Appended DEF PaneInv
  <2>4. next \in 1..(Len(log) + 1) /\ next \in 1..(Len(log') + 1)
    BY <2>3 DEF ExitCall
  <2>5. Ahead => Ahead'
    BY <1>2, <2>1, <2>3, <2>4 DEF Ahead
  <2>6. AnswersTruly'
    BY <1>2, <2>1, <2>3, CapacityAssumption DEF AnswersTruly
  <2> QED BY <1>1, <1>2, <2>1, <2>4, <2>5, <2>6 DEF ExitCall
<1> QED BY <1>4, <1>5, <1>6, <1>7
        DEF PaneStep, SpawnStarts, SpawnInstalls, SpawnFails, SpawnReturns, Teardown, paneVars

\* An event of somebody else is not the call's.
LEMMA PublishOtherTrue ==
  ASSUME ExitInv, PublishOther
  PROVE  ExitInv'
<1> USE DEF ExitInv
<1>1. PICK e \in {"other", "noise"} : log' = Append(log, e)
  BY DEF PublishOther
<1>2. UNCHANGED <<live, exit, pending, ran, pc, next, knows, reread, deadline, late, answer>>
  BY DEF PublishOther, ioVars, exitCall
<1>3. PaneInv'
  BY <1>1, <1>2, OtherTrue
<1>4. e \in EventKind
  BY DEF EventKind
<1>5. /\ Len(log') = Len(log) + 1 /\ Len(log) \in Nat /\ \A k \in 1..Len(log) : log'[k] = log[k]
  BY <1>1, <1>4, Appended DEF PaneInv
<1>6. next \in 1..(Len(log) + 1) /\ next \in 1..(Len(log') + 1)
  BY <1>5 DEF ExitCall
<1>7. Ahead => Ahead'
  BY <1>2, <1>5, <1>6 DEF Ahead
<1>8. AnswersTruly'
  BY <1>2, <1>5, CapacityAssumption DEF AnswersTruly
<1> QED BY <1>2, <1>3, <1>6, <1>7, <1>8 DEF ExitCall

\* The subscription, before anything is read.
LEMMA SubscribeTrue ==
  ASSUME ExitInv, Subscribe
  PROVE  ExitInv'
<1>1. /\ UNCHANGED <<live, exit, pending, log, ran, knows, reread, answer>> /\ pc = "idle"
      /\ pc' = "subscribed" /\ next' = Len(log) + 1 /\ late' = (exit # None \/ ~live)
  BY DEF Subscribe, paneVars, ioVars, CurrentSeq
<1>2. PaneInv'
  BY <1>1, PaneFrame DEF ExitInv
<1>3. Len(log) \in Nat
  BY DEF ExitInv, PaneInv, PaneTypes
<1>4. reread /\ answer = None
  BY <1>1 DEF ExitInv, ExitCall
<1>5. ExitCall'
  BY <1>1, <1>3, <1>4 DEF ExitInv, ExitCall
<1>6. AnswersTruly'
  BY <1>1, <1>4, NoAnswerAssumption DEF AnswersTruly, Answers
<1> QED BY <1>2, <1>5, <1>6 DEF ExitInv

\* A step that answers, and touches nothing else, has to tell the truth.
LEMMA ReturnTrue ==
  ASSUME ExitInv, NEW a, pc # "answered", Return(a),
         UNCHANGED <<live, exit, pending, log, ran, late>>,
         next' \in 1..(Len(log) + 1), reread' \in BOOLEAN,
         \/ a \in {"exited", "not_reaped"} /\ exit # None /\ a = Payload(exit)
         \/ a = "killed" /\ ~live /\ exit = None
         \/ a \in {"events_lost", "not_found"} /\ ~live /\ Len(log) > HistoryCapacity
         \/ a = "timeout" /\ ~late
         \/ a = "not_started"
  PROVE  ExitInv'
<1>1. PaneInv'
  BY PaneFrame DEF ExitInv
<1>2. pc' = "answered" /\ answer' = a
  BY DEF Return
<1>3. ExitCall'
  BY <1>2 DEF ExitInv, ExitCall
<1>4. AnswersTruly'
  BY <1>2 DEF AnswersTruly
<1> QED BY <1>1, <1>3, <1>4 DEF ExitInv

\* What the history announces of a pane that is gone is an answer.
LEMMA AnnounceTrue ==
  ASSUME ExitInv, NEW lost \in {"events_lost", "not_found"}, pc # "answered", ~live,
         Return(IF AnnouncedExit = None THEN lost ELSE AnnouncedExit),
         UNCHANGED <<live, exit, pending, log, ran, late, next, reread>>
  PROVE  ExitInv'
<1> DEFINE a == IF AnnouncedExit = None THEN lost ELSE AnnouncedExit
<1>1. None \notin Answers
  BY NoAnswerAssumption
<1>2. \/ a \in {"exited", "not_reaped"} /\ exit # None /\ a = Payload(exit)
      \/ a = "killed" /\ ~live /\ exit = None
      \/ a \in {"events_lost", "not_found"} /\ ~live /\ Len(log) > HistoryCapacity
  BY <1>1, AnnouncedTrue DEF ExitInv, Answers
<1>3. next' \in 1..(Len(log) + 1) /\ reread' \in BOOLEAN
  BY DEF ExitInv, ExitCall
<1>4. Return(a)
  OBVIOUS
<1> HIDE DEF a
<1> QED BY <1>2, <1>3, <1>4, ReturnTrue

\* Resolving the pane: it is there, or the history has to know.
LEMMA ResolveTrue ==
  ASSUME ExitInv, Resolve
  PROVE  ExitInv'
<1>1. UNCHANGED <<live, exit, pending, log, ran, next, knows, reread, late>> /\ pc = "subscribed"
  BY DEF Resolve, paneVars, ioVars
<1>2. CASE pc' = "start" /\ UNCHANGED answer
  <2>1. PaneInv'
    BY <1>1, PaneFrame DEF ExitInv
  <2>2. ExitCall' /\ AnswersTruly'
    BY <1>1, <1>2 DEF ExitInv, ExitCall, AnswersTruly
  <2> QED BY <2>1, <2>2 DEF ExitInv
<1>3. CASE ~live /\ Return(IF AnnouncedExit = None THEN "not_found" ELSE AnnouncedExit)
  BY <1>1, <1>3, AnnounceTrue
<1> QED BY <1>2, <1>3 DEF Resolve

\* The start, under the I/O lock: nothing of the graph is read.
LEMMA StartTrue ==
  ASSUME ExitInv, Start
  PROVE  ExitInv'
<1>1. UNCHANGED <<live, exit, pending, log, ran, next, late, answer>> /\ pc = "start"
  BY DEF Start, paneVars, ioVars
<1>2. pc' \in {"look", "failed"} /\ (reread' = reread \/ reread' = TRUE)
  BY DEF Start
<1>3. PaneInv'
  BY <1>1, PaneFrame DEF ExitInv
<1>4. Ahead' <=> Ahead
  BY <1>1 DEF Ahead
<1>5. reread' \in BOOLEAN /\ (reread => reread')
  <2>1. reread \in BOOLEAN
    BY DEF ExitInv, ExitCall
  <2>2. CASE reread' = reread
    BY <2>1, <2>2
  <2>3. CASE reread' = TRUE
    BY <2>3
  <2> QED BY <1>2, <2>2, <2>3
<1>6. ExitCall'
  BY <1>1, <1>2, <1>4, <1>5 DEF ExitInv, ExitCall
<1>7. AnswersTruly'
  BY <1>1 DEF ExitInv, AnswersTruly
<1> QED BY <1>3, <1>6, <1>7 DEF ExitInv

\* A spawn that failed is the answer, or the snapshot is read.
LEMMA StartFailedTrue ==
  ASSUME ExitInv, StartFailed
  PROVE  ExitInv'
<1>1. UNCHANGED <<live, exit, pending, log, ran, next, knows, late>> /\ pc = "failed"
  BY DEF StartFailed, paneVars, ioVars
<1>2. CASE Return("not_started") /\ UNCHANGED reread
  <2>1. next' \in 1..(Len(log) + 1) /\ reread' \in BOOLEAN
    BY <1>1, <1>2 DEF ExitInv, ExitCall
  <2> QED BY <1>1, <1>2, <2>1, ReturnTrue
<1>3. CASE reread' = TRUE /\ pc' = "look" /\ UNCHANGED answer
  <2>1. PaneInv'
    BY <1>1, PaneFrame DEF ExitInv
  <2>2. ExitCall' /\ AnswersTruly'
    BY <1>1, <1>3 DEF ExitInv, ExitCall, AnswersTruly
  <2> QED BY <2>1, <2>2 DEF ExitInv
<1> QED BY <1>2, <1>3 DEF StartFailed

\* The look at the snapshot: past it, the exit is still ahead.
LEMMA LookTrue ==
  ASSUME ExitInv, Look
  PROVE  ExitInv'
<1>1. UNCHANGED <<live, exit, pending, log, ran, next, knows, reread, late>> /\ pc = "look"
  BY DEF Look, paneVars, ioVars
<1>2. next' \in 1..(Len(log) + 1) /\ reread' \in BOOLEAN
  BY <1>1 DEF ExitInv, ExitCall
<1>3. CASE (~reread \/ (live /\ exit = None)) /\ pc' = "wait" /\ UNCHANGED answer
  <2>1. PaneInv'
    BY <1>1, PaneFrame DEF ExitInv
  <2>2. Ahead
    BY <1>1, <1>3 DEF ExitInv, ExitCall, Ahead
  <2>3. Ahead'
    BY <1>1, <2>2 DEF Ahead
  <2>4. ExitCall' /\ AnswersTruly'
    BY <1>1, <1>3, <2>3 DEF ExitInv, ExitCall, AnswersTruly
  <2> QED BY <2>1, <2>4 DEF ExitInv
<1>4. CASE ~live /\ Return(IF AnnouncedExit = None THEN "events_lost" ELSE AnnouncedExit)
  BY <1>1, <1>4, AnnounceTrue
<1>5. CASE exit # None /\ Return(Payload(exit))
  <2>1. Payload(exit) \in {"exited", "not_reaped"}
    BY DEF Payload
  <2> QED BY <1>1, <1>2, <1>5, <2>1, ReturnTrue
<1> QED BY <1>3, <1>4, <1>5 DEF Look

\* An event of the subscription: what it tells of the pane is true, and what it
\* does not tell is still to come.
LEMMA RecvTrue ==
  ASSUME ExitInv, Recv
  PROVE  ExitInv'
<1>1. UNCHANGED <<live, exit, pending, log, ran, knows, late>> /\ pc = "wait"
  BY DEF Recv, paneVars, ioVars
<1>2. Len(log) \in Nat /\ next \in 1..Len(log) /\ log[next] \in EventKind
  BY DEF Recv, CurrentSeq, ExitInv, ExitCall, PaneInv, PaneTypes
<1>3. PaneInv'
  BY <1>1, PaneFrame DEF ExitInv
<1>4. CASE Lagging
  <2>1. /\ next' = OldestOf(BroadcastCapacity) /\ reread' = TRUE /\ pc' = "start"
        /\ UNCHANGED answer
    BY <1>4 DEF Recv
  <2>2. next' \in 1..(Len(log) + 1)
    <3>1. Least(Len(log), BroadcastCapacity) \in 0..Len(log)
      BY <1>2, CapacityAssumption DEF Least
    <3> QED BY <1>2, <2>1, <3>1 DEF OldestOf, CurrentSeq
  <2>3. ExitCall' /\ AnswersTruly'
    BY <1>1, <2>1, <2>2 DEF ExitInv, ExitCall, AnswersTruly
  <2> QED BY <1>3, <2>3 DEF ExitInv
<1>5. CASE ~Lagging
  <2>1. next' = next + 1 /\ next' \in 1..(Len(log) + 1)
    BY <1>2, <1>5 DEF Recv
  <2>2. ~late /\ Ahead
    BY <1>1 DEF ExitInv, ExitCall
  <2>3. CASE log[next] \notin Exit \cup {"removed"}
    <3>1. /\ pc' \in {"wait", "start"} /\ UNCHANGED answer
          /\ reread' = reread \/ reread' = FALSE
      BY <1>5, <2>3 DEF Recv, Refused, Handle
    <3>2. Ahead'
      <4> SUFFICES ASSUME exit # None, pending # exit
                   PROVE  \E k \in (next + 1)..Len(log) : log[k] = exit
        BY <1>1, <2>1 DEF Ahead
      <4>1. PICK k \in next..Len(log) : log[k] = exit
        BY <2>2 DEF Ahead
      <4>2. exit \in Exit
        BY DEF ExitInv, PaneInv, PaneTypes
      <4>3. k # next
        BY <2>3, <4>1, <4>2
      <4>4. k \in (next + 1)..Len(log)
        BY <1>2, <4>3
      <4> QED BY <4>1, <4>4
    <3>3. reread' \in BOOLEAN
      BY <3>1 DEF ExitInv, ExitCall
    <3>4. ExitCall'
      BY <1>1, <2>1, <2>2, <3>1, <3>2, <3>3 DEF ExitInv, ExitCall
    <3>5. AnswersTruly'
      BY <1>1, <3>1 DEF ExitInv, AnswersTruly
    <3> QED BY <1>3, <3>4, <3>5 DEF ExitInv
  <2>4. CASE log[next] \in Exit
    <3>1. reread' = FALSE /\ Return(Payload(log[next]))
      BY <1>5, <2>4 DEF Recv, Refused, Handle, Exit
    <3>2. log[next] = exit /\ exit # None /\ Payload(exit) \in {"exited", "not_reaped"}
      BY <1>2, <2>4, NoEventAssumption DEF ExitInv, PaneInv, LogTrue, EventKind, Payload
    <3> QED BY <1>1, <2>1, <3>1, <3>2, ReturnTrue
  <2>5. CASE log[next] = "removed"
    <3>1. reread' = FALSE /\ Return("killed")
      BY <1>5, <2>5 DEF Recv, Refused, Handle, Exit
    <3>2. ~live
      BY <1>2, <2>5 DEF ExitInv, PaneInv, LogTrue
    <3>3. exit = None
      <4> SUFFICES ASSUME exit # None PROVE FALSE
        OBVIOUS
      <4>1. exit \in Exit
        BY DEF ExitInv, PaneInv, PaneTypes
      <4>2. pending # exit
        BY <3>2, <4>1 DEF ExitInv, PaneInv, LogTrue
      <4>3. PICK k \in next..Len(log) : log[k] = exit
        BY <2>2, <4>2 DEF Ahead
      <4>4. k \in 1..Len(log)
        BY <1>2
      <4>5. k < next
        BY <1>2, <2>5, <4>1, <4>3, <4>4 DEF ExitInv, PaneInv, LogTrue
      <4> QED BY <1>2, <4>3, <4>5
    <3> QED BY <1>1, <2>1, <3>1, <3>2, <3>3, ReturnTrue
  <2> QED BY <2>3, <2>4, <2>5
<1> QED BY <1>4, <1>5

\* A call that came late never waits, so that a timeout is no excuse.
LEMMA WakeTrue ==
  ASSUME ExitInv, Wake
  PROVE  ExitInv'
<1>1. UNCHANGED <<live, exit, pending, log, ran, next, knows, reread, late>> /\ pc = "wait"
  BY DEF Wake, paneVars, ioVars
<1>2. next' \in 1..(Len(log) + 1) /\ reread' \in BOOLEAN /\ ~late /\ Ahead
  BY <1>1 DEF ExitInv, ExitCall
<1>3. CASE Return("timeout")
  BY <1>1, <1>2, <1>3, ReturnTrue
<1>4. CASE pc' = "start" /\ UNCHANGED answer
  <2>1. PaneInv'
    BY <1>1, PaneFrame DEF ExitInv
  <2>2. Ahead'
    BY <1>1, <1>2 DEF Ahead
  <2>3. ExitCall' /\ AnswersTruly'
    BY <1>1, <1>2, <1>4, <2>2 DEF ExitInv, ExitCall, AnswersTruly
  <2> QED BY <2>1, <2>3 DEF ExitInv
<1> QED BY <1>3, <1>4 DEF Wake

\* Time, and whatever leaves the call and the pane alone.
LEMMA ExitFrame ==
  ASSUME ExitInv,
         UNCHANGED <<live, exit, pending, log, ran, pc, next, reread, late, answer>>
  PROVE  ExitInv'
<1>1. PaneInv'
  BY PaneFrame DEF ExitInv
<1>2. Ahead' <=> Ahead
  BY DEF Ahead
<1> QED BY <1>1, <1>2 DEF ExitInv, ExitCall, AnswersTruly

\* Every step of the pane, the bus and the call keeps the invariant.
LEMMA ExitNextTrue ==
  ASSUME ExitInv, ExitNext
  PROVE  ExitInv'
<1>1. CASE TimePasses
  BY <1>1, ExitFrame DEF TimePasses, paneVars, ioVars
<1> QED BY <1>1, PublishOtherTrue, SubscribeTrue, ResolveTrue, StartTrue, StartFailedTrue, LookTrue,
           RecvTrue, WakeTrue
        DEF ExitNext, ExitHandler

-----------------------------------------------------------------------------
(* pane.wait_command                                                       *)

\* The commands that ended, in the order of their stamps; the terminal
\* remembers the last of them, and the stamp of the last one it forgot.
Forgotten == Len(told) - Len(kept)
Boundaries ==
    /\ stamp \in Nat /\ (open # None => open \in Nat /\ open <= stamp)
    /\ told \in Seq(Nat) /\ kept \in Seq(Nat)
    /\ \A i \in 1..Len(told) : told[i] <= stamp /\ (open # None => told[i] < open)
    /\ \A i, j \in 1..Len(told) : i < j => told[i] < told[j]
    /\ Len(kept) <= Len(told) /\ Len(kept) <= KeepEnded
    /\ \A i \in 1..Len(kept) : kept[i] = told[Forgotten + i]
    /\ Forgotten = 0 => dropped = 0
    /\ Forgotten > 0 => Len(kept) = KeepEnded /\ dropped = told[Forgotten]

\* What the call knows of its pane.
CommandCall ==
    /\ floor \in Nat /\ over \in {None, "exited", "killed"} /\ pinned \in BOOLEAN /\ had \in BOOLEAN
    /\ cpc \in {"idle", "pin", "snapshot", "look up", "asleep", "replied"}
    /\ cpc # "replied" => reply = None
    /\ pinned => ran \/ ~live
    /\ over = "exited" => exit # None
    /\ over = "killed" => ~live
    /\ had => pinned /\ After(told, floor) # {}

\* An overrun, said of positions: enough commands have followed.
Overrun == \E m \in 1..Len(told) : told[m] > floor /\ Len(told) - m >= KeepEnded

\* The replies, as CommandTruly has them.
RepliesTruly ==
    cpc = "replied" =>
        /\ reply.what = "completed" => After(told, floor) # {} /\ reply.command = Found(told, floor)
        /\ reply.what = "overrun" => Overrun
        /\ reply.what = "exited" => exit # None /\ (live => After(told, floor) = {})
        /\ reply.what = "killed" => ~live
        /\ reply.what = "timeout" => ~had

\* The inductive invariant of the call.
CommandInv == PaneInv /\ Boundaries /\ CommandCall /\ RepliesTruly

\* What nobody touches stays true.
LEMMA CommandFrame ==
  ASSUME CommandInv,
         UNCHANGED <<live, exit, pending, log, ran, stamp, open, kept, dropped, told, cpc, floor,
                     pinned, over, had, reply>>
  PROVE  CommandInv'
<1>1. PaneInv'
  BY PaneFrame DEF CommandInv
<1>2. Boundaries'
  BY DEF CommandInv, Boundaries, Forgotten
<1>3. CommandCall'
  BY DEF CommandInv, CommandCall, After
<1>4. RepliesTruly'
  BY DEF CommandInv, RepliesTruly, After, Found, Overrun
<1> QED BY <1>1, <1>2, <1>3, <1>4 DEF CommandInv

\* A step of the pane leaves the terminal; what the call knows stays true.
LEMMA CommandPaneTrue ==
  ASSUME CommandInv, PaneStep, UNCHANGED <<shellVars, commandCall>>
  PROVE  CommandInv'
<1>1. PaneInv'
  BY PaneTrue DEF CommandInv
<1>2. UNCHANGED <<stamp, open, kept, dropped, told, cpc, floor, pinned, over, due, had, reply>>
  BY DEF shellVars, commandCall
<1>3. Boundaries'
  BY <1>2 DEF CommandInv, Boundaries, Forgotten
<1>4. /\ After(told, floor)' = After(told, floor) /\ Found(told, floor)' = Found(told, floor)
      /\ Overrun' <=> Overrun
  BY <1>2 DEF After, Found, Overrun
<1>5. /\ exit # None => exit' = exit
      /\ ~live => ~live'
      /\ ran => ran' \/ ~live'
  <2>1. CASE ProgramExits
    BY <2>1 DEF ProgramExits, ioVars
  <2>2. CASE Destroy \/ Fire
    BY <2>2 DEF Destroy, Fire, ioVars
  <2>3. CASE SpawnStarts \/ SpawnFails \/ SpawnReturns
    <3>1. live' = live /\ exit' = exit /\ ran' = ran
      BY <2>3 DEF SpawnStarts, SpawnFails, SpawnReturns, paneVars
    <3> QED BY <3>1
  <2>4. CASE SpawnInstalls
    <3>1. live' = live /\ exit' = exit /\ ran' = TRUE
      BY <2>4 DEF SpawnInstalls, paneVars
    <3> QED BY <3>1
  <2>5. CASE Teardown
    <3>1. live' = live /\ exit' = exit /\ ~live
      BY <2>5 DEF Teardown, paneVars
    <3> QED BY <3>1
  <2> QED BY <2>1, <2>2, <2>3, <2>4, <2>5 DEF PaneStep
<1>6. CommandCall'
  BY <1>2, <1>4, <1>5 DEF CommandInv, CommandCall
<1>7. RepliesTruly'
  BY <1>2, <1>4, <1>5 DEF CommandInv, RepliesTruly
<1> QED BY <1>1, <1>3, <1>6, <1>7 DEF CommandInv

\* The first command found in a sequence is one that started after the floor,
\* and none before it did.
LEMMA FoundFirst ==
  ASSUME NEW s \in Seq(Nat), NEW f \in Nat, After(s, f) # {}
  PROVE  \E m \in 1..Len(s) : Found(s, f) = s[m] /\ s[m] > f /\ \A i \in 1..(m - 1) : s[i] <= f
<1> DEFINE m == CHOOSE i \in After(s, f) : \A j \in After(s, f) : i <= j
<1>1. Len(s) \in Nat /\ After(s, f) \in SUBSET (1..Len(s))
  BY DEF After
<1>2. m \in After(s, f) /\ \A j \in After(s, f) : m <= j
  BY <1>1, FirstLast
<1> HIDE DEF m
<1>3. m \in 1..Len(s) /\ s[m] > f
  BY <1>2 DEF After
<1>4. ASSUME NEW i \in 1..(m - 1) PROVE s[i] <= f
  <2>1. i \in 1..Len(s) /\ ~(m <= i)
    BY <1>3
  <2>2. i \notin After(s, f)
    BY <1>2, <2>1
  <2>3. s[i] \in Nat
    BY <2>1
  <2> QED BY <2>1, <2>2, <2>3 DEF After
<1>5. Found(s, f) = s[m]
  BY DEF Found, m
<1> QED BY <1>3, <1>4, <1>5

\* And it is the only such one.
LEMMA FoundOnly ==
  ASSUME NEW s \in Seq(Nat), NEW f \in Nat, NEW m \in 1..Len(s), s[m] > f,
         \A i \in 1..(m - 1) : s[i] <= f
  PROVE  After(s, f) # {} /\ Found(s, f) = s[m]
<1>1. m \in After(s, f)
  BY DEF After
<1>2. PICK n \in 1..Len(s) : Found(s, f) = s[n] /\ s[n] > f /\ \A i \in 1..(n - 1) : s[i] <= f
  BY <1>1, FoundFirst
<1>3. s[m] \in Nat /\ s[n] \in Nat
  OBVIOUS
<1>4. ~(m < n) /\ ~(n < m)
  BY <1>2, <1>3
<1>5. m = n
  BY <1>4
<1> QED BY <1>1, <1>2, <1>5

\* One command more changes neither the first after the floor nor how many
\* followed it, except to add to them.
LEMMA Longer ==
  ASSUME told \in Seq(Nat), floor \in Nat, NEW e \in Nat, told' = Append(told, e), floor' = floor
  PROVE  /\ After(told, floor) # {} => After(told, floor)' # {}
                                       /\ Found(told, floor)' = Found(told, floor)
         /\ Overrun => Overrun'
<1>1. /\ told' \in Seq(Nat) /\ Len(told') = Len(told) + 1 /\ Len(told) \in Nat
      /\ \A i \in 1..Len(told) : told'[i] = told[i]
  OBVIOUS
<1>2. ASSUME After(told, floor) # {}
      PROVE  After(told', floor) # {} /\ Found(told', floor) = Found(told, floor)
  <2>1. PICK m \in 1..Len(told) : /\ Found(told, floor) = told[m] /\ told[m] > floor
                                  /\ \A i \in 1..(m - 1) : told[i] <= floor
    BY <1>2, FoundFirst
  <2>2. m \in 1..Len(told') /\ told'[m] > floor
    BY <1>1, <2>1
  <2>3. \A i \in 1..(m - 1) : told'[i] <= floor
    BY <1>1, <2>1
  <2>4. After(told', floor) # {} /\ Found(told', floor) = told'[m]
    BY <1>1, <2>2, <2>3, FoundOnly
  <2> QED BY <1>1, <2>1, <2>4
<1>3. /\ After(told, floor)' = After(told', floor)
      /\ Found(told, floor)' = Found(told', floor)
  BY DEF After, Found
<1>4. Overrun => Overrun'
  <2> SUFFICES ASSUME NEW m \in 1..Len(told), told[m] > floor, Len(told) - m >= KeepEnded
               PROVE  Overrun'
    BY DEF Overrun
  <2>1. m \in 1..Len(told') /\ told'[m] > floor
    BY <1>1
  <2>2. Len(told') - m >= KeepEnded
    BY <1>1, KeepAssumption
  <2> QED BY <2>1, <2>2 DEF Overrun
<1> QED BY <1>2, <1>3, <1>4

\* The end of a command keeps the terminal's memory, whether it is full or not.
LEMMA CloseTrue ==
  ASSUME Boundaries, open # None, Close, stamp' \in Nat, stamp' > stamp,
         open' # None => open' = stamp'
  PROVE  Boundaries'
<1> USE KeepAssumption
<1>1. /\ stamp \in Nat /\ open \in Nat /\ open <= stamp /\ told \in Seq(Nat) /\ kept \in Seq(Nat)
      /\ Len(told) \in Nat /\ Len(kept) \in Nat /\ Len(kept) <= Len(told) /\ Len(kept) <= KeepEnded
  BY DEF Boundaries
<1>2. /\ told' \in Seq(Nat) /\ Len(told') = Len(told) + 1 /\ told'[Len(told) + 1] = open
      /\ \A i \in 1..Len(told) : told'[i] = told[i]
  BY <1>1 DEF Close
<1>3. \A i \in 1..Len(told) : told[i] <= stamp /\ told[i] < open
  BY DEF Boundaries
<1>4. \A i, j \in 1..Len(told) : i < j => told[i] < told[j]
  BY DEF Boundaries
<1>5. \A i \in 1..Len(kept) : kept[i] = told[Forgotten + i]
  BY DEF Boundaries
<1>6. \A i \in 1..Len(told') : i = Len(told) + 1 \/ i \in 1..Len(told)
  BY <1>1, <1>2
<1>7. \A i \in 1..Len(told') : told'[i] <= stamp' /\ (open' # None => told'[i] < open')
  <2> SUFFICES ASSUME NEW i \in 1..Len(told') PROVE told'[i] \in Nat /\ told'[i] <= stamp
    BY <1>1
  <2>1. CASE i = Len(told) + 1
    BY <1>1, <1>2, <2>1
  <2>2. CASE i \in 1..Len(told)
    <3>1. told[i] \in Nat
      BY <1>1, <2>2
    <3> QED BY <1>2, <1>3, <2>2, <3>1
  <2> QED BY <1>6, <2>1, <2>2
<1>8. \A i, j \in 1..Len(told') : i < j => told'[i] < told'[j]
  <2> SUFFICES ASSUME NEW i \in 1..Len(told'), NEW j \in 1..Len(told'), i < j
               PROVE  told'[i] < told'[j]
    OBVIOUS
  <2>1. i \in 1..Len(told)
    BY <1>1, <1>2
  <2>2. CASE j = Len(told) + 1
    BY <1>2, <1>3, <2>1, <2>2
  <2>3. CASE j \in 1..Len(told)
    BY <1>2, <1>4, <2>1, <2>3
  <2> QED BY <1>6, <2>2, <2>3
<1>9. CASE Len(kept) = KeepEnded
  <2>1. kept' = Append(Tail(kept), open) /\ dropped' = Head(kept) /\ kept # <<>>
    BY <1>1, <1>9 DEF Close
  <2>2. Tail(kept) \in Seq(Nat) /\ Len(Tail(kept)) = Len(kept) - 1 /\ Head(kept) = kept[1]
    BY <1>1, <2>1
  <2>3. \A i \in 1..(Len(kept) - 1) : Tail(kept)[i] = kept[i + 1]
    BY <1>1, <2>1
  <2>4. kept' \in Seq(Nat) /\ Len(kept') = Len(kept) /\ kept'[Len(kept)] = open
    BY <1>1, <2>1, <2>2
  <2>5. \A i \in 1..(Len(kept) - 1) : kept'[i] = Tail(kept)[i]
    BY <1>1, <2>1, <2>2
  <2>6. Forgotten' = Forgotten + 1 /\ Forgotten \in Nat
    BY <1>1, <1>2, <2>4 DEF Forgotten
  <2>7. Forgotten + Len(kept) = Len(told) /\ Forgotten + 1 + Len(kept) = Len(told) + 1
    BY <1>1 DEF Forgotten
  <2>8. kept[1] = told[Forgotten + 1] /\ told'[Forgotten + 1] = told[Forgotten + 1]
    <3>1. 1 \in 1..Len(kept) /\ Forgotten + 1 \in 1..Len(told)
      BY <1>1, <1>9, <2>6, <2>7
    <3> QED BY <1>2, <1>5, <3>1
  <2>9. \A i \in 1..Len(kept') : kept'[i] = told'[Forgotten' + i]
    <3> SUFFICES ASSUME NEW i \in 1..Len(kept) PROVE kept'[i] = told'[Forgotten + 1 + i]
      BY <2>4, <2>6
    <3>1. CASE i = Len(kept)
      BY <1>2, <2>4, <2>7, <3>1
    <3>2. CASE i # Len(kept)
      <4>1. i \in 1..(Len(kept) - 1) /\ i + 1 \in 1..Len(kept)
        BY <1>1, <3>2
      <4>2. kept'[i] = kept[i + 1] /\ kept[i + 1] = told[Forgotten + (i + 1)]
        BY <1>5, <2>3, <2>5, <4>1
      <4>3. Forgotten + (i + 1) \in 1..Len(told) /\ Forgotten + (i + 1) = Forgotten + 1 + i
        BY <1>1, <2>6, <2>7, <4>1
      <4> QED BY <1>2, <4>2, <4>3
    <3> QED BY <3>1, <3>2
  <2>10. dropped' = told'[Forgotten'] /\ Forgotten' > 0 /\ Len(kept') = KeepEnded
    BY <1>9, <2>1, <2>2, <2>4, <2>6, <2>8
  <2>11. Len(kept') <= Len(told') /\ Len(kept') <= KeepEnded
    BY <1>1, <1>2, <2>4
  <2> QED BY <1>2, <1>7, <1>8, <2>4, <2>9, <2>10, <2>11 DEF Boundaries
<1>10. CASE Len(kept) # KeepEnded
  <2>1. kept' = Append(kept, open) /\ dropped' = dropped
    BY <1>10 DEF Close
  <2>2. kept' \in Seq(Nat) /\ Len(kept') = Len(kept) + 1 /\ kept'[Len(kept) + 1] = open
    BY <1>1, <2>1
  <2>3. \A i \in 1..Len(kept) : kept'[i] = kept[i]
    BY <1>1, <2>1
  <2>4. Forgotten' = Forgotten /\ Forgotten \in Nat /\ Forgotten + Len(kept) = Len(told)
    BY <1>1, <1>2, <2>2 DEF Forgotten
  <2>5. Forgotten = 0 /\ dropped = 0
    BY <1>10, <2>4 DEF Boundaries
  <2>6. \A i \in 1..Len(kept') : kept'[i] = told'[Forgotten' + i]
    <3> SUFFICES ASSUME NEW i \in 1..(Len(kept) + 1) PROVE kept'[i] = told'[i]
      BY <2>2, <2>4, <2>5
    <3>1. CASE i = Len(kept) + 1
      BY <1>2, <2>2, <2>4, <2>5, <3>1, <1>1
    <3>2. CASE i \in 1..Len(kept)
      <4>1. i \in 1..Len(told) /\ Forgotten + i = i
        BY <1>1, <2>5, <3>2
      <4> QED BY <1>2, <1>5, <2>3, <3>2, <4>1
    <3> QED BY <1>1, <3>1, <3>2
  <2>7. Len(kept') <= Len(told') /\ Len(kept') <= KeepEnded
    BY <1>1, <1>2, <1>10, <2>2
  <2>8. Forgotten' = 0 /\ dropped' = 0
    BY <2>1, <2>4, <2>5
  <2> QED BY <1>2, <1>7, <1>8, <2>2, <2>6, <2>7, <2>8 DEF Boundaries
<1> QED BY <1>9, <1>10

\* A shell that goes on: what the call knows and said stays true.
LEMMA ShellTrue ==
  ASSUME CommandInv, CommandStarts \/ CommandEnds
  PROVE  CommandInv'
<1> USE DEF CommandInv
<1>1. /\ UNCHANGED <<live, exit, pending, log, ran>>
      /\ UNCHANGED <<cpc, floor, pinned, over, due, had, reply>>
  BY DEF CommandStarts, CommandEnds, paneVars, ioVars, commandCall
<1>2. PaneInv'
  BY <1>1, PaneFrame
<1>3. ran /\ exit = None
  BY DEF CommandStarts, CommandEnds, Reading
<1>4. stamp \in Nat /\ told \in Seq(Nat) /\ floor \in Nat /\ (open # None => open \in Nat)
  BY DEF Boundaries, CommandCall
<1>5. CASE CommandStarts /\ open = None
  <2>1. /\ stamp' = stamp + 1 /\ open' = stamp'
        /\ UNCHANGED <<kept, dropped, told>>
    BY <1>5 DEF CommandStarts
  <2>2. \A i \in 1..Len(told) : told[i] <= stamp /\ told[i] \in Nat
    BY <1>4 DEF Boundaries
  <2>3. \A i \in 1..Len(told) : told'[i] <= stamp' /\ told'[i] < open'
    BY <1>4, <2>1, <2>2
  <2>4. Boundaries'
    BY <1>4, <2>1, <2>3 DEF Boundaries, Forgotten
  <2>5. CommandCall' /\ RepliesTruly'
    BY <1>1, <2>1 DEF CommandCall, RepliesTruly, After, Found, Overrun
  <2> QED BY <1>2, <2>4, <2>5
<1>6. CASE CommandEnds \/ open # None
  <2>1. /\ open # None /\ Close /\ stamp' \in Nat /\ stamp' > stamp
        /\ open' # None => open' = stamp'
    BY <1>4, <1>6 DEF CommandStarts, CommandEnds
  <2>2. Boundaries'
    BY <2>1, CloseTrue
  <2>3. told' = Append(told, open) /\ floor' = floor /\ open \in Nat
    BY <1>1, <1>4, <2>1 DEF Close
  <2>4. /\ After(told, floor) # {} => After(told, floor)' # {}
                                      /\ Found(told, floor)' = Found(told, floor)
        /\ Overrun => Overrun'
    BY <1>4, <2>3, Longer
  <2>5. CommandCall'
    BY <1>1, <2>4 DEF CommandCall
  <2>6. RepliesTruly'
    BY <1>1, <1>3, <2>4 DEF RepliesTruly
  <2> QED BY <1>2, <2>2, <2>5, <2>6
<1> QED BY <1>5, <1>6

\* What FirstAfter says is true of all the commands that ended, the forgotten
\* ones included.
LEMMA FirstAfterTrue ==
  ASSUME Boundaries, floor \in Nat
  PROVE  /\ FirstAfter(floor).what \in {"overrun", "completed", "pending"}
         /\ FirstAfter(floor).what = "overrun" => Overrun
         /\ FirstAfter(floor).what = "completed" =>
                After(told, floor) # {} /\ FirstAfter(floor).command = Found(told, floor)
         /\ FirstAfter(floor).what = "pending" => After(told, floor) = {}
<1> USE KeepAssumption
<1>1. /\ told \in Seq(Nat) /\ kept \in Seq(Nat) /\ Len(told) \in Nat /\ Len(kept) \in Nat
      /\ Len(kept) <= Len(told) /\ Forgotten \in Nat /\ Forgotten + Len(kept) = Len(told)
  BY DEF Boundaries, Forgotten
<1>2. \A i \in 1..Len(kept) : kept[i] = told[Forgotten + i] /\ Forgotten + i \in 1..Len(told)
  BY <1>1 DEF Boundaries
<1>3. \A i \in 1..Len(told) : told[i] \in Nat
  BY <1>1
<1>4. dropped \in Nat /\ \A i \in 1..Forgotten : told[i] <= dropped
  <2>1. CASE Forgotten = 0
    BY <1>1, <2>1 DEF Boundaries
  <2>2. CASE Forgotten > 0
    <3>1. Forgotten \in 1..Len(told) /\ dropped = told[Forgotten]
      BY <1>1, <2>2 DEF Boundaries
    <3>2. \A i \in 1..Forgotten : i = Forgotten \/ (i < Forgotten /\ i \in 1..Len(told))
      BY <1>1
    <3>3. \A i, j \in 1..Len(told) : i < j => told[i] < told[j]
      BY DEF Boundaries
    <3> QED BY <1>3, <3>1, <3>2, <3>3
  <2> QED BY <1>1, <2>1, <2>2
<1>5. CASE floor < dropped
  <2>1. FirstAfter(floor) = Outcome("overrun")
    BY <1>4, <1>5 DEF FirstAfter
  <2>2. Forgotten # 0
    BY <1>5 DEF Boundaries
  <2>3. Forgotten \in 1..Len(told) /\ dropped = told[Forgotten] /\ Len(kept) = KeepEnded
    BY <1>1, <2>2 DEF Boundaries
  <2>4. told[Forgotten] > floor /\ Len(told) - Forgotten >= KeepEnded
    BY <1>1, <1>3, <1>5, <2>3
  <2>5. Overrun
    BY <2>3, <2>4 DEF Overrun
  <2> QED BY <2>1, <2>5 DEF Outcome
<1>6. CASE ~(floor < dropped) /\ After(kept, floor) # {}
  <2>1. FirstAfter(floor) = [what |-> "completed", command |-> Found(kept, floor)]
    BY <1>4, <1>6 DEF FirstAfter
  <2>2. PICK m \in 1..Len(kept) : /\ Found(kept, floor) = kept[m] /\ kept[m] > floor
                                  /\ \A i \in 1..(m - 1) : kept[i] <= floor
    BY <1>1, <1>6, FoundFirst
  <2>3. PICK n \in 1..Len(told) : n = Forgotten + m /\ kept[m] = told[n]
    BY <1>2
  <2>4. ASSUME NEW i \in 1..(n - 1) PROVE told[i] <= floor
    <3>1. CASE i \in 1..Forgotten
      <4>1. told[i] \in Nat /\ told[i] <= dropped /\ dropped <= floor
        BY <1>1, <1>3, <1>4, <1>6, <3>1
      <4> QED BY <1>4, <4>1
    <3>2. CASE i \notin 1..Forgotten
      <4>1. i - Forgotten \in 1..(m - 1) /\ i - Forgotten \in 1..Len(kept)
            /\ Forgotten + (i - Forgotten) = i
        BY <1>1, <2>3, <3>2
      <4> QED BY <1>2, <2>2, <4>1
    <3> QED BY <3>1, <3>2
  <2>5. After(told, floor) # {} /\ Found(told, floor) = told[n]
    BY <1>1, <2>2, <2>3, <2>4, FoundOnly
  <2> QED BY <2>1, <2>2, <2>3, <2>5
<1>7. CASE ~(floor < dropped) /\ After(kept, floor) = {}
  <2>1. FirstAfter(floor) = Outcome("pending")
    BY <1>4, <1>7 DEF FirstAfter
  <2>2. ASSUME NEW i \in 1..Len(told) PROVE ~(told[i] > floor)
    <3>1. CASE i \in 1..Forgotten
      <4>1. told[i] \in Nat /\ told[i] <= dropped /\ dropped <= floor
        BY <1>1, <1>3, <1>4, <1>7, <3>1
      <4> QED BY <1>4, <4>1
    <3>2. CASE i \notin 1..Forgotten
      <4>1. i - Forgotten \in 1..Len(kept) /\ Forgotten + (i - Forgotten) = i
        BY <1>1, <3>2
      <4>2. ~(kept[i - Forgotten] > floor)
        BY <1>1, <1>7, <4>1 DEF After
      <4> QED BY <1>2, <4>1, <4>2
    <3> QED BY <3>1, <3>2
  <2>3. After(told, floor) = {}
    BY <1>1, <2>2 DEF After
  <2> QED BY <2>1, <2>3 DEF Outcome
<1> QED BY <1>5, <1>6, <1>7

\* The call before its lookup.
LEMMA AskTrue ==
  ASSUME CommandInv, Ask \/ Pin \/ ReadEnded \/ WakeUp \/ DeadlinePasses
  PROVE  CommandInv'
<1> USE DEF CommandInv
<1>1. /\ UNCHANGED <<live, exit, pending, log, ran, stamp, open, kept, dropped, told>>
      /\ cpc # "replied"
  BY DEF Ask, Pin, ReadEnded, WakeUp, DeadlinePasses, paneVars, ioVars, shellVars
<1>2. PaneInv'
  BY <1>1, PaneFrame
<1>3. Boundaries'
  BY <1>1 DEF Boundaries, Forgotten
<1>4. /\ stamp \in Nat /\ reply = None /\ live \in BOOLEAN /\ exit \in Exit \cup {None} /\ ran \in BOOLEAN
  BY <1>1 DEF Boundaries, CommandCall, PaneInv, PaneTypes
<1>5. CASE Ask
  <2>1. UNCHANGED <<floor, pinned, over, due, had>>
    BY <1>5 DEF Ask
  <2>2. \/ cpc' = "pin" /\ reply' = reply
        \/ cpc' = "replied" /\ reply' = Outcome("not_found")
    BY <1>5 DEF Ask, Reply
  <2>3. CommandCall'
    BY <1>1, <1>4, <2>1, <2>2 DEF CommandCall, After
  <2>4. RepliesTruly'
    BY <2>2 DEF RepliesTruly, Outcome
  <2> QED BY <1>2, <1>3, <2>3, <2>4
<1>6. CASE Pin
  <2>1. /\ floor' \in 0..stamp /\ pinned' = ran /\ had' = (ran /\ After(told, floor') # {})
        /\ cpc' = "snapshot" /\ UNCHANGED <<over, due, reply>>
    BY <1>6 DEF Pin
  <2>2. After(told, floor)' = After(told, floor')
    BY <1>1 DEF After
  <2>3. had' => pinned' /\ After(told, floor)' # {}
    BY <2>1, <2>2
  <2>4. pinned' => ran' \/ ~live'
    BY <1>1, <2>1
  <2>5. floor' \in Nat /\ pinned' \in BOOLEAN /\ had' \in BOOLEAN
    BY <1>4, <2>1
  <2>6. CommandCall'
    BY <1>1, <1>4, <2>1, <2>3, <2>4, <2>5 DEF CommandCall
  <2>7. RepliesTruly'
    BY <2>1 DEF RepliesTruly
  <2> QED BY <1>2, <1>3, <2>6, <2>7
<1>7. CASE ReadEnded
  <2>1. /\ over' = IF ~live THEN "killed" ELSE IF exit # None THEN "exited" ELSE None
        /\ cpc' = "look up" /\ UNCHANGED <<floor, pinned, due, had, reply>>
    BY <1>7 DEF ReadEnded
  <2>2. /\ over' \in {None, "exited", "killed"}
        /\ over' = "exited" => exit' # None
        /\ over' = "killed" => ~live'
    BY <1>1, <2>1, NoCommandAssumption
  <2>3. CommandCall'
    BY <1>1, <1>4, <2>1, <2>2 DEF CommandCall, After
  <2>4. RepliesTruly'
    BY <2>1 DEF RepliesTruly
  <2> QED BY <1>2, <1>3, <2>3, <2>4
<1>8. CASE WakeUp \/ DeadlinePasses
  <2>1. /\ cpc' \in {"snapshot", "look up", "asleep"}
        /\ UNCHANGED <<floor, pinned, over, had, reply>>
    BY <1>8 DEF WakeUp, DeadlinePasses
  <2>2. CommandCall'
    BY <1>1, <1>4, <2>1 DEF CommandCall, After
  <2>3. RepliesTruly'
    BY <2>1 DEF RepliesTruly
  <2> QED BY <1>2, <1>3, <2>2, <2>3
<1> QED BY <1>5, <1>6, <1>7, <1>8

\* The lookup says what the terminal says, or what its absence means.
LEMMA LookUpTrue ==
  ASSUME CommandInv, LookUp
  PROVE  CommandInv'
<1> USE DEF CommandInv
<1> DEFINE r == FirstAfter(floor)
<1>1. /\ UNCHANGED <<live, exit, pending, log, ran, stamp, open, kept, dropped, told>>
      /\ UNCHANGED <<floor, over, due, had>>
      /\ cpc = "look up" /\ pinned' = (pinned \/ ran)
  BY DEF LookUp, paneVars, ioVars, shellVars
<1>2. PaneInv' /\ Boundaries'
  BY <1>1, PaneFrame DEF Boundaries, Forgotten
<1>3. /\ floor \in Nat /\ reply = None /\ over \in {None, "exited", "killed"}
      /\ pinned => ran \/ ~live
      /\ over = "exited" => exit # None
      /\ over = "killed" => ~live
      /\ had => pinned /\ After(told, floor) # {}
  BY <1>1 DEF CommandCall
<1>4. live /\ exit # None => ran
  BY DEF PaneInv, Terminals
<1>5. /\ r.what \in {"overrun", "completed", "pending"}
      /\ r.what = "overrun" => Overrun
      /\ r.what = "completed" => After(told, floor) # {} /\ r.command = Found(told, floor)
      /\ r.what = "pending" => After(told, floor) = {}
  BY <1>3, FirstAfterTrue
<1> HIDE DEF r
<1>6. /\ After(told, floor)' = After(told, floor) /\ Found(told, floor)' = Found(told, floor)
      /\ Overrun' <=> Overrun
  BY <1>1 DEF After, Found, Overrun
<1>7. \/ ran /\ r.what # "pending" /\ Reply(r)
      \/ ran /\ r.what = "pending" /\ over = None /\ Undecided
      \/ ran /\ r.what = "pending" /\ over # None /\ Reply(Outcome(over))
      \/ ~ran /\ (over # None \/ pinned) /\ Reply(Outcome(Gone))
      \/ ~ran /\ over = None /\ ~pinned /\ (Reply(Outcome("not_started")) \/ Undecided)
  BY DEF LookUp, r
<1>8. (cpc' = "asleep" /\ reply' = reply) \/ cpc' = "replied"
  BY <1>7 DEF Reply, Undecided
<1>9. CommandCall'
  <2>1. pinned' => ran' \/ ~live'
    BY <1>1, <1>3
  <2>2. had' => pinned' /\ After(told, floor)' # {}
    BY <1>1, <1>3, <1>6
  <2>3. pinned' \in BOOLEAN
    BY <1>1
  <2> QED BY <1>1, <1>3, <1>8, <2>1, <2>2, <2>3 DEF CommandCall
<1>10. RepliesTruly'
  <2> SUFFICES ASSUME cpc' = "replied" PROVE RepliesTruly'
    BY DEF RepliesTruly
  <2>1. CASE ran /\ r.what # "pending" /\ Reply(r)
    BY <1>5, <1>6, <2>1 DEF RepliesTruly, Reply
  <2>2. CASE Undecided /\ ((ran /\ r.what = "pending") \/ ~pinned)
    <3>1. reply' = Outcome("timeout")
      BY <2>2 DEF Undecided, Reply
    <3>2. ~had'
      BY <1>1, <1>3, <1>5, <2>2
    <3> QED BY <3>1, <3>2 DEF RepliesTruly, Outcome
  <2>3. CASE ran /\ r.what = "pending" /\ over # None /\ Reply(Outcome(over))
    <3>1. reply' = Outcome(over) /\ After(told, floor)' = {} /\ over \in {"exited", "killed"}
      BY <1>3, <1>5, <1>6, <2>3 DEF Reply
    <3>2. over = "exited" => exit' # None
      BY <1>1, <1>3
    <3>3. over = "killed" => ~live'
      BY <1>1, <1>3
    <3> QED BY <3>1, <3>2, <3>3 DEF RepliesTruly, Outcome
  <2>4. CASE ~ran /\ (over # None \/ pinned) /\ Reply(Outcome(Gone))
    <3>1. reply' = Outcome(Gone) /\ Gone \in {"exited", "killed"}
      BY <1>3, <2>4 DEF Reply, Gone
    <3>2. Gone = "exited" => over = "exited"
      BY DEF Gone
    <3>3. ~live'
      BY <1>1, <1>3, <1>4, <2>4
    <3>4. Gone = "exited" => exit' # None
      BY <1>1, <1>3, <3>2
    <3> QED BY <3>1, <3>3, <3>4 DEF RepliesTruly, Outcome
  <2>5. CASE Reply(Outcome("not_started"))
    BY <2>5 DEF RepliesTruly, Outcome, Reply
  <2> QED BY <1>7, <2>1, <2>2, <2>3, <2>4, <2>5
<1> QED BY <1>2, <1>9, <1>10

\* Every step of the shell and the call keeps the invariant.
LEMMA CommandNextTrue ==
  ASSUME CommandInv, CommandNext
  PROVE  CommandInv'
BY ShellTrue, AskTrue, LookUpTrue DEF CommandNext, CommandHandler

\* Positions from m on are all after the floor, and there are as many as follow.
LEMMA OverrunMany ==
  ASSUME Boundaries, Overrun, floor \in Nat
  PROVE  Cardinality(After(told, floor)) > KeepEnded
<1>1. PICK m \in 1..Len(told) : told[m] > floor /\ Len(told) - m >= KeepEnded
  BY DEF Overrun
<1>2. told \in Seq(Nat) /\ Len(told) \in Nat
  BY DEF Boundaries
<1>3. \A i \in m..Len(told) : i = m \/ told[m] < told[i]
  BY <1>2 DEF Boundaries
<1>4. \A i \in m..Len(told) : i \in 1..Len(told) /\ told[i] \in Nat /\ told[m] \in Nat
  BY <1>2
<1>5. m..Len(told) \subseteq After(told, floor)
  BY <1>1, <1>2, <1>3, <1>4 DEF After
<1>6. After(told, floor) \subseteq 1..Len(told)
  BY <1>2 DEF After
<1>7. IsFiniteSet(1..Len(told))
  BY <1>2, FS_Interval
<1>8. IsFiniteSet(After(told, floor))
  BY <1>6, <1>7, FS_Subset
<1>9. Cardinality(m..Len(told)) = Len(told) - m + 1
  BY <1>1, <1>2, FS_Interval
<1>10. /\ Cardinality(m..Len(told)) <= Cardinality(After(told, floor))
       /\ Cardinality(After(told, floor)) \in Nat
  BY <1>5, <1>8, FS_Subset, FS_CardinalityType
<1> QED BY <1>1, <1>2, <1>9, <1>10, KeepAssumption

\* The replies are true.
LEMMA CommandSays ==
  ASSUME CommandInv
  PROVE  CommandTruly
<1> SUFFICES ASSUME reply # None PROVE CommandTruly
  BY DEF CommandTruly
<1>1. cpc = "replied" /\ floor \in Nat /\ Boundaries
  BY DEF CommandInv, CommandCall
<1>2. /\ reply.what = "completed" => reply.command = Found(told, floor)
      /\ reply.what = "overrun" => Overrun
      /\ reply.what = "exited" => exit # None /\ (live => After(told, floor) = {})
      /\ reply.what = "killed" => ~live
      /\ reply.what = "timeout" => ~had
  BY <1>1 DEF CommandInv, RepliesTruly
<1>3. reply.what = "overrun" => Cardinality(After(told, floor)) > KeepEnded
  BY <1>1, <1>2, OverrunMany
<1> QED BY <1>2, <1>3 DEF CommandTruly

-----------------------------------------------------------------------------
(* The three of them, with the pane                                        *)

\* The inductive invariant.
IInv == SettleInv /\ ExitInv /\ CommandInv

\* The pane is new and nobody has called.
LEMMA InitTrue ==
  ASSUME Init
  PROVE  IInv
<1>1. SettleInv
  <2>1. /\ now = 0 /\ shown = <<Blank>> /\ since = <<0>> /\ spc = "idle" /\ stable = Unset
    BY DEF Init, SettleInit
  <2>2. /\ shown \in Seq(Frames) /\ Len(shown) = 1 /\ DOMAIN shown = {1} /\ DOMAIN since = {1}
        /\ since[1] = 0
    BY <2>1, BlankAssumption
  <2>3. since \in [{1} -> Nat]
    BY <2>1
  <2>4. ScreenTypes
    BY <2>1, <2>2, <2>3 DEF ScreenTypes
  <2> QED BY <2>1, <2>4 DEF SettleInv, QuietCall, StableCall, SettlesTruly, QuietTruly, StoodStill, NothingGivenMissed
<1>2. PaneInv
  <2>1. /\ live = TRUE /\ exit = None /\ pending = None /\ ran = FALSE
        /\ log = <<"created">>
    BY DEF Init, PaneInit
  <2>2. /\ log \in Seq(EventKind) /\ Len(log) = 1 /\ log[1] = "created"
        /\ "created" \notin Exit \cup {"removed"}
    BY <2>1 DEF EventKind, Exit
  <2>3. None \notin Exit \cup {"removed"}
    BY NoEventAssumption DEF EventKind
  <2>4. PaneTypes
    BY <2>1, <2>2 DEF PaneTypes
  <2>5. /\ Len(log) >= 1 /\ \A k \in 1..Len(log) : k = 1 /\ log[k] = "created"
    BY <2>2
  <2>6. LogTrue
    BY <2>1, <2>2, <2>3, <2>5 DEF LogTrue
  <2>7. Terminals
    BY <2>1 DEF Terminals
  <2> QED BY <2>4, <2>6, <2>7 DEF PaneInv
<1>3. ExitCall /\ AnswersTruly
  <2>1. /\ pc = "idle" /\ next = 1 /\ reread = TRUE /\ late = FALSE /\ answer = None
        /\ Len(log) = 1
    BY DEF Init, PaneInit, ExitInit
  <2>2. AnswersTruly
    BY <2>1, NoAnswerAssumption DEF AnswersTruly, Answers
  <2>3. 1 \in 1..(Len(log) + 1)
    BY <2>1
  <2>4. ExitCall
    BY <2>1, <2>3 DEF ExitCall
  <2> QED BY <2>2, <2>4
<1>4. Boundaries
  <2>1. stamp = 0 /\ open = None /\ kept = <<>> /\ dropped = 0 /\ told = <<>>
    BY DEF Init, CommandInit
  <2>2. <<>> \in Seq(Nat) /\ Len(<<>>) = 0
    OBVIOUS
  <2>3. Forgotten = 0
    BY <2>1, <2>2 DEF Forgotten
  <2> QED BY <2>1, <2>2, <2>3, KeepAssumption DEF Boundaries
<1>5. CommandCall /\ RepliesTruly
  <2>1. /\ cpc = "idle" /\ floor = 0 /\ pinned = FALSE /\ over = None /\ had = FALSE
        /\ reply = None
    BY DEF Init, CommandInit
  <2>2. over # "exited" /\ over # "killed"
    BY <2>1, NoCommandAssumption
  <2> QED BY <2>1, <2>2 DEF CommandCall, RepliesTruly
<1> QED BY <1>1, <1>2, <1>3, <1>4, <1>5 DEF IInv, ExitInv, CommandInv

\* Every step keeps the three: a step of one call leaves the other two, and a
\* step of the pane keeps what is known of it in all.
LEMMA NextTrue ==
  ASSUME IInv, [Next]_vars
  PROVE  IInv'
<1>1. SettleInv /\ ExitInv /\ CommandInv
  BY DEF IInv
<1>2. CASE UNCHANGED vars
  <2>1. /\ UNCHANGED <<screenVars, settleCall>>
        /\ UNCHANGED <<live, exit, pending, log, ran>>
        /\ UNCHANGED <<pc, next, reread, late, answer>>
        /\ UNCHANGED <<stamp, open, kept, dropped, told>>
        /\ UNCHANGED <<cpc, floor, pinned, over, had, reply>>
    BY <1>2 DEF vars, paneVars, ioVars, exitVars, exitCall, settleVars, commandVars, shellVars,
                commandCall
  <2> QED BY <1>1, <2>1, SettleFrame, ExitFrame, CommandFrame DEF IInv
<1>3. CASE Pane(PaneStep)
  <2>1. /\ PaneStep /\ UNCHANGED <<screenVars, settleCall>> /\ UNCHANGED exitCall
        /\ UNCHANGED <<shellVars, commandCall>>
    BY <1>3 DEF Pane, exitVars, settleVars, commandVars
  <2> QED BY <1>1, <2>1, SettleFrame, ExitPaneTrue, CommandPaneTrue DEF IInv
<1>4. CASE Exits(ExitNext)
  <2>1. ExitNext /\ UNCHANGED <<screenVars, settleCall>> /\ UNCHANGED <<shellVars, commandCall>>
    BY <1>4 DEF Exits, settleVars, commandVars
  <2>2. ExitInv'
    BY <1>1, <2>1, ExitNextTrue
  <2>3. UNCHANGED <<live, exit, ran>>
    BY <2>1 DEF ExitNext, ExitHandler, PublishOther, Subscribe, Resolve, Start, StartFailed, Look,
                Recv, Wake, TimePasses, paneVars, ioVars
  <2>4. UNCHANGED <<stamp, open, kept, dropped, told, cpc, floor, pinned, over, due, had, reply>>
    BY <2>1 DEF shellVars, commandCall
  <2>5. Boundaries'
    BY <1>1, <2>4 DEF CommandInv, Boundaries, Forgotten
  <2>6. CommandCall'
    BY <1>1, <2>3, <2>4 DEF CommandInv, CommandCall, After
  <2>7. RepliesTruly'
    BY <1>1, <2>3, <2>4 DEF CommandInv, RepliesTruly, After, Found, Overrun
  <2>8. CommandInv'
    BY <2>2, <2>5, <2>6, <2>7 DEF CommandInv, ExitInv
  <2> QED BY <1>1, <2>1, <2>2, <2>8, SettleFrame DEF IInv
<1>5. CASE Settling(SettleNext)
  <2>1. /\ SettleNext
        /\ UNCHANGED <<live, exit, pending, log, ran>>
        /\ UNCHANGED <<pc, next, reread, late, answer>>
        /\ UNCHANGED <<stamp, open, kept, dropped, told>>
        /\ UNCHANGED <<cpc, floor, pinned, over, had, reply>>
    BY <1>5 DEF Settling, paneVars, ioVars, exitVars, exitCall, commandVars, shellVars, commandCall
  <2> QED BY <1>1, <2>1, SettleStep, ExitFrame, CommandFrame DEF IInv
<1>6. CASE Commands(CommandNext)
  <2>1. CommandNext /\ UNCHANGED <<screenVars, settleCall>> /\ UNCHANGED exitCall
    BY <1>6 DEF Commands, exitVars, settleVars
  <2>2. UNCHANGED <<live, exit, pending, log, ran>>
    BY <2>1 DEF CommandNext, CommandHandler, CommandStarts, CommandEnds, Ask, Pin, ReadEnded, LookUp,
                WakeUp, DeadlinePasses, paneVars, ioVars
  <2>3. UNCHANGED <<pc, next, reread, late, answer>>
    BY <2>1 DEF exitCall
  <2> QED BY <1>1, <2>1, <2>2, <2>3, SettleFrame, ExitFrame, CommandNextTrue DEF IInv
<1> QED BY <1>2, <1>3, <1>4, <1>5, <1>6 DEF Next

\* The invariant holds of every behaviour.
LEMMA Invariance == Spec => []IInv
<1>1. Init => IInv
  BY InitTrue
<1>2. IInv /\ [Next]_vars => IInv'
  BY NextTrue
<1> QED BY <1>1, <1>2, PTL DEF Spec

\* An answer of pane.wait_exit is true of the pane, wherever the subscription
\* was and whatever it missed (wait_exit.rs).
THEOREM AnswersTrulyHolds == Spec => []AnswersTruly
<1>1. IInv => AnswersTruly
  BY DEF IInv, ExitInv
<1> QED BY <1>1, Invariance, PTL

\* pane.wait_settled says settled, in quiet mode, only of a pane that is there
\* and whose newest revision is old enough, and in stability mode only if the
\* screen stood still as asked up to the revision it names, also over revisions
\* that were never read, with none that the watch handed over left out; and it
\* times out only in time and only short of what was asked (settle.rs).
THEOREM SettlesTrulyHolds == Spec => []SettlesTruly
<1>1. IInv => SettlesTruly
  BY DEF IInv, SettleInv
<1> QED BY <1>1, Invariance, PTL

\* An outcome of pane.wait_command is about the first command after the floor,
\* though the terminal forgets commands and the pane goes between the two looks
\* (wait_command.rs, commands.rs).
THEOREM CommandTrulyHolds == Spec => []CommandTruly
<1>1. IInv => CommandTruly
  BY CommandSays DEF IInv
<1> QED BY <1>1, Invariance, PTL

=============================================================================
