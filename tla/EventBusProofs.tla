--------------------------- MODULE EventBusProofs ---------------------------
(***************************************************************************)
(* Proofs about module EventBus, for every capacity of the ring and of the *)
(* channel, every answer size and every log: a client that resumes with    *)
(* next_seq never receives an event twice, and the long poll implements    *)
(* the resumable log of module EventLog.                                   *)
(***************************************************************************)
EXTENDS EventBus, FiniteSetTheorems, WellFoundedInduction, TLAPS

\* Where the answer of the current call begins.
From == IF cursor = None THEN start ELSE cursor

\* No position is past the head of the log.
Bounds ==
    /\ cursor # None => cursor <= CurrentSeq
    /\ head <= CurrentSeq /\ start <= next /\ next <= CurrentSeq

\* What the client has lies before its position.
Behind ==
    /\ cursor = None => got = {}
    /\ cursor # None => \A k \in got : k < cursor

\* The call's own promise: what it collected is wanted and lies ahead of the
\* client, and every wanted event it has gone past, in its subscription or in
\* what it collected, is collected or within the gap it will report.
Covered(k) == k \in collected \/ k < From + gap
Call ==
    /\ pc # "idle" /\ cursor # None => cursor <= start
    /\ pc \in {"subscribed", "headed"} => next = start
    /\ pc = "tailing" =>
        /\ cursor = None => gap = 0
        /\ \A k \in collected : From <= k /\ log[k] \in Wanted
        /\ \A k \in 1..Len(log) :
              From <= k /\ log[k] \in Wanted /\ k < next => Covered(k)
        /\ \A m \in collected : \A k \in 1..m :
              From <= k /\ log[k] \in Wanted => Covered(k)

\* The inductive invariant.
IInv == TypeOK /\ Bounds /\ Behind /\ Call

-----------------------------------------------------------------------------
(* What the truncation of an answer computes                               *)

\* A set of naturals has a least member (the well-foundedness of <).
LEMMA NatMin ==
  ASSUME NEW T \in SUBSET Nat, T # {}
  PROVE  \E m \in T : \A k \in T : m <= k
<1> DEFINE R == {ss \in Nat \X Nat : ss[1] < ss[2]}
<1>1. IsWellFoundedOn(R, Nat)
  BY ONLY NatLessThanWellFounded, Zenon DEF OpToRel
<1> HIDE DEF R
<1>2. \E x \in T : \A y \in T : ~ (<<y, x>> \in R)
  BY <1>1, WFMin
<1>3. \A x, y \in Nat : <<y, x>> \notin R => x <= y
  BY SMT DEF R
<1> QED BY <1>2, <1>3

\* Last is the greatest member of a bounded set: next_seq is well defined.
LEMMA LastIsMax ==
  ASSUME NEW n \in Nat, NEW S \in SUBSET (1..n), S # {}
  PROVE  Last(S) \in S /\ \A j \in S : j <= Last(S)
<1> DEFINE T == {b \in Nat : \A j \in S : j <= b}
<1>1. PICK m \in T : \A k \in T : m <= k
  <2>1. n \in T OBVIOUS
  <2> HIDE DEF T
  <2>2. T \subseteq Nat BY DEF T
  <2> QED BY <2>1, <2>2, NatMin
<1>2. m \in S
  <2> SUFFICES ASSUME m \notin S PROVE FALSE OBVIOUS
  <2>1. \A j \in S : j <= m - 1 OBVIOUS
  <2>2. PICK s \in S : TRUE OBVIOUS
  <2>3. s \in 1..n /\ s <= m - 1 BY <2>1
  <2>4. m - 1 \in T BY <2>1, <2>3
  <2> QED BY <2>4, <1>1
<1> QED BY <1>2, <1>1 DEF Last

\* Truncation keeps a lower part of what was collected: with an event it keeps
\* every collected event before it.
LEMMA SmallestIsLower ==
  ASSUME NEW n \in Nat, NEW S \in SUBSET (1..n), NEW max \in Nat
  PROVE  /\ Smallest(max, S) \subseteq S
         /\ \A l \in Smallest(max, S) : \A k \in S : k <= l => k \in Smallest(max, S)
<1>1. Smallest(max, S) \subseteq S BY DEF Smallest
<1>2. ASSUME NEW l \in Smallest(max, S), NEW k \in S, k <= l
      PROVE  k \in Smallest(max, S)
  <2> DEFINE Upto(x) == {j \in S : j <= x}
  <2>1. IsFiniteSet(S)
    <3>1. IsFiniteSet(1..n) BY FS_Interval
    <3> QED BY <3>1, FS_Subset
  <2>2. IsFiniteSet(Upto(k)) /\ IsFiniteSet(Upto(l))
    <3>1. Upto(k) \in SUBSET S /\ Upto(l) \in SUBSET S OBVIOUS
    <3> HIDE DEF Upto
    <3> QED BY <2>1, <3>1, FS_Subset
  <2>3. Upto(k) \subseteq Upto(l)
    <3>1. l \in S BY <1>1
    <3>2. \A x \in S : x \in Nat OBVIOUS
    <3>3. \A x, y, z \in Nat : x <= y /\ y <= z => x <= z OBVIOUS
    <3> QED BY <3>1, <3>2, <3>3, <1>2
  <2>4. Cardinality(Upto(k)) <= Cardinality(Upto(l)) BY <2>2, <2>3, FS_Subset
  <2>5. Cardinality(Upto(k)) \in Nat /\ Cardinality(Upto(l)) \in Nat
    BY <2>2, FS_CardinalityType
  <2>6. Cardinality(Upto(l)) <= max BY <1>2 DEF Smallest
  <2> HIDE DEF Upto
  <2>7. Cardinality(Upto(k)) <= max BY <2>4, <2>5, <2>6
  <2> QED BY <2>7 DEF Smallest, Upto
<1> QED BY <1>1, <1>2

-----------------------------------------------------------------------------
(* The invariant                                                           *)

LEMMA InitIInv == Init => IInv
<1> SUFFICES ASSUME Init PROVE IInv OBVIOUS
<1> USE FirstSeqsAssumption, HistoryCapacityAssumption DEF Init, LogInit
<1>1. TypeOK BY DEF TypeOK, CurrentSeq
<1>2. Bounds BY DEF Bounds, CurrentSeq
<1>3. Behind BY DEF Behind
<1>4. Call BY DEF Call
<1> QED BY <1>1, <1>2, <1>3, <1>4 DEF IInv

\* A publish appends: what was covered stays covered, and the new event is
\* ahead of every call.
LEMMA PublishIInv ==
  ASSUME IInv, NEW t \in Topic, Publish(t)
  PROVE  IInv'
<1> USE DEF IInv, Publish, logVars, watch
<1>1. /\ log' \in Seq(Topic) /\ Len(log') = Len(log) + 1
      /\ \A k \in 1..Len(log) : log'[k] = log[k]
  BY DEF TypeOK
<1>2. TypeOK'
  BY <1>1, HistoryCapacityAssumption DEF TypeOK, CurrentSeq
<1>3. Bounds' BY <1>1, FirstSeqsAssumption DEF TypeOK, Bounds, CurrentSeq
<1>4. Behind' BY DEF Behind
<1>5. Call'
  <2> USE <1>1 DEF TypeOK, Bounds, CurrentSeq, From, Covered
  <2>1. (pc # "idle" /\ cursor # None => cursor <= start)' BY DEF Call
  <2>2. (pc \in {"subscribed", "headed"} => next = start)' BY DEF Call
  <2>3. ASSUME pc' = "tailing"
        PROVE  /\ (cursor = None => gap = 0)'
               /\ (\A k \in collected : From <= k /\ log[k] \in Wanted)'
    BY <2>3 DEF Call
  <2>4. ASSUME pc' = "tailing", NEW k \in 1..Len(log'), From' <= k, log'[k] \in Wanted, k < next'
        PROVE  Covered(k)'
    <3>1. k \in 1..Len(log) BY <2>4
    <3> QED BY <2>4, <3>1 DEF Call
  <2>5. ASSUME pc' = "tailing", NEW m \in collected', NEW k \in 1..m, From' <= k, log'[k] \in Wanted
        PROVE  Covered(k)'
    <3>1. m \in 1..Len(log) BY <2>5
    <3>2. k \in 1..Len(log) BY <2>5, <3>1
    <3> QED BY <2>5, <3>1, <3>2 DEF Call
  <2> QED BY <2>1, <2>2, <2>3, <2>4, <2>5 DEF Call
<1> QED BY <1>2, <1>3, <1>4, <1>5

\* Subscribing starts an empty call at the head, ahead of the client.
LEMMA SubscribeIInv == IInv /\ Subscribe => IInv'
<1> SUFFICES ASSUME IInv, Subscribe PROVE IInv' OBVIOUS
<1> USE DEF IInv, Subscribe, logVars
<1>1. TypeOK' BY DEF TypeOK, CurrentSeq
<1>2. Bounds' BY DEF TypeOK, Bounds, CurrentSeq
<1>3. Behind' BY DEF Behind
<1>4. Call' BY DEF Bounds, Call, CurrentSeq
<1> QED BY <1>1, <1>2, <1>3, <1>4

LEMMA ReadHeadIInv == IInv /\ ReadHead => IInv'
<1> SUFFICES ASSUME IInv, ReadHead PROVE IInv' OBVIOUS
<1> USE DEF IInv, ReadHead, logVars
<1>1. TypeOK' BY DEF TypeOK, CurrentSeq
<1>2. Bounds' BY DEF TypeOK, Bounds, CurrentSeq
<1>3. Behind' BY DEF Behind
<1>4. Call' BY DEF Call
<1> QED BY <1>1, <1>2, <1>3, <1>4

\* The history has every event from its oldest on; the gap is what lies
\* between the client and that one.
LEMMA SnapshotIInv == IInv /\ Snapshot => IInv'
<1> SUFFICES ASSUME IInv, Snapshot PROVE IInv' OBVIOUS
<1> USE DEF IInv, Snapshot, logVars
<1>1. collected' \subseteq 1..Len(log)
  BY DEF EventsFrom, TypeOK, CurrentSeq
<1>2. count' \in Nat
  <2>1. Len(log) \in Nat BY DEF TypeOK
  <2>2. IsFiniteSet(1..Len(log)) BY <2>1, FS_Interval
  <2>3. IsFiniteSet(collected') BY <1>1, <2>2, FS_Subset
  <2> QED BY <2>3, FS_CardinalityType
<1>3. gap' \in Nat BY FirstSeqsAssumption DEF GapFrom, TypeOK
<1>4. TypeOK' BY <1>1, <1>2, <1>3 DEF TypeOK, CurrentSeq
<1>5. Bounds' BY DEF TypeOK, Bounds, CurrentSeq
<1>6. Behind' BY DEF Behind
<1>7. Call'
  <2> USE <1>1, <1>3 DEF TypeOK, Bounds, CurrentSeq, From, Covered
  <2>1. (pc # "idle" /\ cursor # None => cursor <= start)' BY DEF Call
  <2>2. (pc \in {"subscribed", "headed"} => next = start)' OBVIOUS
  <2>3. (cursor = None => gap = 0)' OBVIOUS
  <2>4. (\A k \in collected : From <= k /\ log[k] \in Wanted)' BY DEF EventsFrom
  <2>5. ASSUME cursor # None, NEW k \in 1..Len(log), cursor <= k, log[k] \in Wanted
        PROVE  Covered(k)'
    <3>1. CASE k >= oldest BY <2>5, <3>1 DEF EventsFrom
    <3>2. CASE k < oldest
      <4>1. log # <<>> BY <2>5
      <4>2. gap' = oldest - cursor BY <2>5, <3>2, <4>1, FirstSeqsAssumption DEF GapFrom
      <4> QED BY <2>5, <3>2, <4>2, FirstSeqsAssumption
    <3> QED BY <3>1, <3>2, <2>5
  <2>6. ASSUME NEW k \in 1..Len(log'), From' <= k, log'[k] \in Wanted, k < next'
        PROVE  Covered(k)'
    <3>1. CASE cursor = None
      <4>1. next = start BY DEF Call
      <4> QED BY <4>1, <3>1, <2>6
    <3>2. CASE cursor # None BY <3>2, <2>5, <2>6
    <3> QED BY <3>1, <3>2
  <2>7. ASSUME NEW m \in collected', NEW k \in 1..m, From' <= k, log'[k] \in Wanted
        PROVE  Covered(k)'
    <3>1. cursor # None BY <2>7
    <3>2. k \in 1..Len(log) BY <2>7
    <3> QED BY <3>1, <3>2, <2>5, <2>7
  <2> QED BY <2>1, <2>2, <2>3, <2>4, <2>6, <2>7 DEF Call
<1> QED BY <1>4, <1>5, <1>6, <1>7

\* The subscription hands over the next event, so it skips none.
LEMMA RecvIInv == IInv /\ Recv => IInv'
<1> SUFFICES ASSUME IInv, Recv PROVE IInv' OBVIOUS
<1> USE DEF IInv, Recv, logVars
<1>1. TypeOK'
  <2>1. next \in 1..Len(log) BY DEF TypeOK, CurrentSeq
  <2>2. collected' \subseteq 1..Len(log) BY <2>1 DEF TypeOK
  <2>3. count' \in Nat BY DEF TypeOK
  <2> QED BY <2>2, <2>3 DEF TypeOK, CurrentSeq
<1>2. Bounds' BY DEF TypeOK, Bounds, CurrentSeq
<1>3. Behind' BY DEF Behind
<1>4. Call'
  <2> USE FirstSeqsAssumption DEF TypeOK, Bounds, CurrentSeq, From
  <2>1. (pc # "idle" /\ cursor # None => cursor <= start)' BY DEF Call
  <2>2. (pc \in {"subscribed", "headed"} => next = start)' OBVIOUS
  <2>3. (cursor = None => gap = 0)' BY DEF Call
  <2>4. From <= next BY DEF Call
  <2>5. (\A k \in collected : From <= k /\ log[k] \in Wanted)' BY <2>4 DEF Call
  <2>6. ASSUME NEW k \in 1..Len(log'), From' <= k, log'[k] \in Wanted, k < next'
        PROVE  Covered(k)'
    <3>1. CASE k = next BY <3>1, <2>6 DEF Covered
    <3>2. CASE k < next BY <3>2, <2>6 DEF Covered, Call
    <3> QED BY <3>1, <3>2, <2>6
  <2>7. ASSUME NEW m \in collected', NEW k \in 1..m, From' <= k, log'[k] \in Wanted
        PROVE  Covered(k)'
    <3>1. CASE m \in collected BY <3>1, <2>7 DEF Covered, Call
    <3>2. CASE m = next BY <3>2, <2>6, <2>7
    <3> QED BY <3>1, <3>2, <2>7
  <2> QED BY <2>1, <2>2, <2>3, <2>5, <2>6, <2>7 DEF Call
<1> QED BY <1>1, <1>2, <1>3, <1>4

\* What an answer returns, and where it leaves the client.
LEMMA AnswerFacts ==
  ASSUME IInv, Answer
  PROVE  LET events == Smallest(MaxEvents, collected) IN
         /\ events \subseteq collected /\ events \subseteq 1..Len(log)
         /\ got' = got \cup events
         /\ events = {} => cursor' = IF cursor # None THEN cursor ELSE head
         /\ events # {} => \E l \in events :
              cursor' = l + 1 /\ \A k \in collected : k \in events <=> k <= l
<1> DEFINE events == Smallest(MaxEvents, collected)
<1> USE MaxEventsAssumption DEF IInv, TypeOK
<1>1. Len(log) \in Nat OBVIOUS
<1>2. events \subseteq collected
  BY <1>1, SmallestIsLower
<1>3. \A l \in events : \A k \in collected : k <= l => k \in events
  BY <1>1, SmallestIsLower
<1>4. events # {} => Last(events) \in events /\ \A j \in events : j <= Last(events)
  BY <1>1, <1>2, LastIsMax
<1> HIDE DEF events
<1>5. /\ got' = got \cup events
      /\ cursor' = IF events # {} THEN Last(events) + 1
                   ELSE IF cursor # None THEN cursor ELSE head
  BY DEF Answer, events
<1> QED BY <1>2, <1>3, <1>4, <1>5 DEF events

\* The answer leaves everything it returned behind the client.
LEMMA AnswerIInv == IInv /\ Answer => IInv'
<1> SUFFICES ASSUME IInv, Answer PROVE IInv' OBVIOUS
<1> DEFINE events == Smallest(MaxEvents, collected)
<1> USE FirstSeqsAssumption DEF IInv
<1>1. /\ events \subseteq collected /\ events \subseteq 1..Len(log)
      /\ got' = got \cup events
      /\ events = {} => cursor' = IF cursor # None THEN cursor ELSE head
      /\ events # {} => \E l \in events :
           cursor' = l + 1 /\ \A k \in collected : k \in events <=> k <= l
  BY AnswerFacts
<1> HIDE DEF events
<1>2. cursor' \in Nat /\ cursor' <= CurrentSeq
  BY <1>1 DEF TypeOK, Bounds, CurrentSeq
<1>3. missed' \subseteq Nat
  BY DEF Answer, TypeOK, Call
<1>4. TypeOK'
  <2>1. got' \subseteq Nat \ {0} BY <1>1 DEF TypeOK
  <2>2. /\ pc' = "idle"
        /\ UNCHANGED <<log, oldest, next, start, head, collected, count, gap>>
    BY DEF Answer
  <2> QED BY <2>1, <2>2, <1>2, <1>3 DEF TypeOK, CurrentSeq
<1>5. Bounds' BY <1>2 DEF Answer, Bounds, CurrentSeq
<1>6. Behind'
  <2>1. cursor' # None BY <1>2
  <2>2. \A k \in got' : k < cursor'
    <3>1. CASE events = {}
      BY <3>1, <1>1 DEF Behind, TypeOK
    <3>2. CASE events # {}
      <4>1. PICK l \in events : cursor' = l + 1 /\ \A k \in collected : k \in events <=> k <= l
        BY <3>2, <1>1
      <4>2. \A k \in events : k < cursor' BY <4>1, <1>1 DEF TypeOK
      <4>3. cursor # None => cursor <= l BY <4>1, <1>1 DEF Answer, Call, From
      <4>4. \A k \in got : k < cursor' BY <4>1, <4>3, <1>1 DEF Behind, TypeOK
      <4> QED BY <4>2, <4>4, <1>1
    <3> QED BY <3>1, <3>2
  <2> QED BY <2>1, <2>2 DEF Behind
<1>7. Call' BY DEF Answer, Call
<1> QED BY <1>4, <1>5, <1>6, <1>7

LEMMA NextIInv == IInv /\ [Next]_vars => IInv'
<1> SUFFICES ASSUME IInv, [Next]_vars PROVE IInv' OBVIOUS
<1>1. CASE \E t \in Topic : Publish(t) BY <1>1, PublishIInv
<1>2. CASE Subscribe BY <1>2, SubscribeIInv
<1>3. CASE ReadHead BY <1>3, ReadHeadIInv
<1>4. CASE Snapshot BY <1>4, SnapshotIInv
<1>5. CASE Recv BY <1>5, RecvIInv
<1>6. CASE Answer BY <1>6, AnswerIInv
<1>7. CASE UNCHANGED vars
  BY <1>7 DEF vars, logVars, watch, IInv, TypeOK, Bounds, Behind, Call, CurrentSeq, From, Covered
<1> QED BY <1>1, <1>2, <1>3, <1>4, <1>5, <1>6, <1>7 DEF Next

LEMMA Invariance == Spec => []IInv
BY InitIInv, NextIInv, PTL DEF Spec

-----------------------------------------------------------------------------
(* The theorems                                                            *)

\* Whatever the capacities, the topics and the answer size, and however
\* publishes fall between the steps of a call, what events.watch collects has
\* not been delivered before: the history snapshot and the subscription overlap
\* in one call only.
THEOREM NeverTwiceHolds == Spec => []NeverTwice
<1>1. IInv => NeverTwice
  <2> SUFFICES ASSUME IInv, pc = "tailing", NEW k \in collected, k \in got PROVE FALSE
    BY DEF NeverTwice
  <2>1. cursor # None BY DEF IInv, Behind
  <2>2. cursor <= k /\ k < cursor BY <2>1 DEF IInv, Behind, Call, From
  <2> QED BY <2>1, <2>2 DEF IInv, TypeOK
<1> QED BY <1>1, Invariance, PTL

\* An answer is an advance of the resumable log: from the client's position, or
\* for a client without one from where it subscribed, to next_seq.
LEMMA AnswerAdvances ==
  ASSUME IInv, Answer
  PROVE  \E from, to \in 0..(Len(log) + 1) : LogAdvance(from, to)
<1> DEFINE events == Smallest(MaxEvents, collected)
           from == IF events = {} THEN cursor' ELSE From
<1> USE FirstSeqsAssumption DEF IInv
<1>1. /\ events \subseteq collected /\ events \subseteq 1..Len(log)
      /\ got' = got \cup events
      /\ events = {} => cursor' = IF cursor # None THEN cursor ELSE head
      /\ events # {} => \E l \in events :
           cursor' = l + 1 /\ \A k \in collected : k \in events <=> k <= l
  BY AnswerFacts
<1>2. events \cap got = {}
  <2> SUFFICES ASSUME NEW k \in events, k \in got PROVE FALSE OBVIOUS
  <2>1. cursor # None BY DEF Behind
  <2>2. cursor <= k /\ k < cursor BY <2>1, <1>1 DEF Answer, Behind, Call, From
  <2> QED BY <2>1, <2>2 DEF TypeOK
<1> HIDE DEF events
<1>3. cursor' \in 0..(Len(log) + 1)
  BY <1>1 DEF TypeOK, Bounds, CurrentSeq
<1>4. from \in 0..(Len(log) + 1)
  BY <1>3 DEF TypeOK, Bounds, CurrentSeq, From
<1>5. cursor \in {None, from} BY <1>1 DEF From
<1>6. missed \subseteq missed' BY DEF Answer
<1>7. from <= cursor' /\ got' \ got \subseteq WantedBetween(from, cursor')
      /\ WantedBetween(from, cursor') \subseteq (got' \ got) \cup missed'
  <2>1. CASE events = {}
    <3>1. WantedBetween(from, cursor') = {} BY <2>1, <1>3 DEF WantedBetween
    <3>2. got' \ got = {} BY <2>1, <1>1
    <3> QED BY <2>1, <3>1, <3>2, <1>3
  <2>2. CASE events # {}
    <3>1. PICK l \in events : cursor' = l + 1 /\ \A k \in collected : k \in events <=> k <= l
      BY <2>2, <1>1
    <3>2. l \in 1..Len(log) /\ l \in collected BY <1>1
    <3>3. from = From /\ From \in Nat BY <2>2 DEF From, TypeOK
    <3>4. \A k \in collected : From <= k /\ log[k] \in Wanted BY DEF Answer, Call
    <3>5. from <= cursor' BY <3>1, <3>2, <3>3, <3>4
    <3>6. events \subseteq WantedBetween(from, cursor')
      BY <3>1, <3>2, <3>3, <3>4, <1>1 DEF WantedBetween, TypeOK
    <3>7. ASSUME NEW k \in WantedBetween(from, cursor')
          PROVE  k \in events \cup missed'
      <4>1. k \in 1..l /\ From <= k /\ log[k] \in Wanted
        BY <3>1, <3>2, <3>3 DEF WantedBetween, TypeOK
      <4>2. Covered(k) BY <4>1, <3>2 DEF Answer, Call
      <4>3. CASE k \in collected BY <4>3, <4>1, <3>1
      <4>4. CASE k < From + gap
        <5>1. gap # 0 BY <4>1, <4>4, <3>3
        <5>2. cursor # None BY <5>1 DEF Answer, Call
        <5>3. missed' = missed \cup cursor..(cursor + gap - 1) BY <5>1 DEF Answer
        <5>4. k \in cursor..(cursor + gap - 1)
          BY <5>2, <4>1, <4>4, <3>3 DEF From, TypeOK
        <5> QED BY <5>3, <5>4
      <4> QED BY <4>2, <4>3, <4>4 DEF Covered
    <3> QED BY <3>5, <3>6, <3>7, <1>1, <1>2
  <2> QED BY <2>1, <2>2
<1>8. LogAdvance(from, cursor')
  BY <1>1, <1>5, <1>6, <1>7 DEF LogAdvance, Answer
<1> HIDE DEF from
<1> QED BY <1>3, <1>4, <1>8

\* events.watch keeps the promise of the resumable log for every capacity of
\* the ring and the channel: nothing passes the client silently, however late
\* it resumes, however far it lags, and wherever its answers are cut.
THEOREM ImplementsLog == Spec => ResumableLog
<1>1. Init => LogInit BY DEF Init
<1>2. IInv /\ [Next]_vars => [LogNext]_logVars
  <2> SUFFICES ASSUME IInv, [Next]_vars PROVE [LogNext]_logVars OBVIOUS
  <2>1. CASE \E t \in Topic : Publish(t)
    BY <2>1 DEF Publish, LogNext, LogPublish
  <2>2. CASE Subscribe \/ ReadHead \/ Snapshot \/ Recv
    BY <2>2 DEF Subscribe, ReadHead, Snapshot, Recv
  <2>3. CASE Answer BY <2>3, AnswerAdvances DEF LogNext
  <2>4. CASE UNCHANGED vars BY <2>4 DEF vars
  <2> QED BY <2>1, <2>2, <2>3, <2>4 DEF Next
<1> QED BY <1>1, <1>2, Invariance, PTL DEF Spec, ResumableLog, LogSpec

=============================================================================
