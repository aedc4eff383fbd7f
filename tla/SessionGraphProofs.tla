------------------------- MODULE SessionGraphProofs -------------------------
(***************************************************************************)
(* The hierarchy of the session graph, for any number of sessions, windows *)
(* and panes.  Good(G) is what makes one snapshot well formed; one lemma   *)
(* per operation shows that it keeps a good snapshot good, and the         *)
(* invariant adds that identifiers in use have been handed out, which is   *)
(* what makes a fresh identifier fresh.  A second layer adds unique names, *)
(* zooms and versions, which need the first and one more fact: a batch's   *)
(* clone is newer than the graph it will replace.  A third is about the    *)
(* events: the ones of each command, fired one by one, take a subscriber   *)
(* from the view of the graph before it to the view after it.              *)
(***************************************************************************)
EXTENDS SessionGraph, SequenceTheorems, FiniteSetTheorems, WellFoundedInduction, TLAPS

-----------------------------------------------------------------------------
(* What the operators of module LayoutLeaves do to the set of leaves.      *)
(* Leaves and windows are listed at most once, so these lemmas are about   *)
(* injective sequences.                                                    *)

\* An element of an injective sequence has one position
LEMMA PositionOfElement ==
    ASSUME NEW S, NEW s \in Seq(S), NEW e \in Range(s)
    PROVE  PositionOf(s, e) \in 1..Len(s) /\ s[PositionOf(s, e)] = e
  BY DEF PositionOf, Range

\* A sequence of one element
LEMMA Singleton ==
    ASSUME NEW e
    PROVE  Range(<<e>>) = {e} /\ IsInjective(<<e>>)
<1>1. DOMAIN <<e>> = {1} /\ <<e>>[1] = e
  OBVIOUS
<1> DEFINE t == <<e>>
<1>2. DOMAIN t = {1} /\ t[1] = e
  BY <1>1
<1> HIDE DEF t
<1>3. Range(t) = {e} /\ IsInjective(t)
  BY <1>2 DEF Range, IsInjective
<1> QED BY <1>3 DEF t

\* Appending a new element (Vec::push in create_window)
LEMMA AppendNew ==
    ASSUME NEW S, NEW s \in Seq(S), NEW e \in S, IsInjective(s), e \notin Range(s)
    PROVE  /\ Append(s, e) \in Seq(S)
           /\ Range(Append(s, e)) = Range(s) \cup {e}
           /\ IsInjective(Append(s, e))
<1> DEFINE t == Append(s, e)
<1>1. t \in Seq(S) /\ Len(t) = Len(s) + 1
  OBVIOUS
<1>2. \A i \in 1..Len(t) : t[i] = IF i = Len(t) THEN e ELSE s[i]
  OBVIOUS
<1>3. Range(t) = Range(s) \cup {e}
  <2>1. \A i \in 1..Len(s) : t[i] = s[i] /\ t[Len(s) + 1] = e
    BY <1>1, <1>2
  <2> HIDE DEF t
  <2>2. DOMAIN s = 1..Len(s) /\ DOMAIN t = 1..(Len(s) + 1) /\ Len(s) \in Nat
    BY <1>1
  <2> QED BY <1>1, <1>2, <2>1, <2>2 DEF Range
<1>4. IsInjective(t)
  <2> HIDE DEF t
  <2> QED BY <1>1, <1>2 DEF IsInjective, Range
<1> QED BY <1>1, <1>3, <1>4

\* Removing an element closes the gap and keeps the others
LEMMA WithoutElement ==
    ASSUME NEW S, NEW s \in Seq(S), NEW e \in Range(s), IsInjective(s)
    PROVE  /\ Without(s, e) \in Seq(S)
           /\ Len(Without(s, e)) = Len(s) - 1
           /\ Range(Without(s, e)) = Range(s) \ {e}
           /\ IsInjective(Without(s, e))
<1> DEFINE i == PositionOf(s, e)
           t == Without(s, e)
<1>1. i \in 1..Len(s) /\ s[i] = e
  BY PositionOfElement
<1>2. t = SubSeq(s, 1, i - 1) \o SubSeq(s, i + 1, Len(s))
  BY DEF Without, RemoveAt
<1> HIDE DEF i, t
<1>3. /\ t \in Seq(S)
      /\ Len(t) = Len(s) - 1
      /\ \A j \in 1..(Len(s) - 1) : t[j] = IF j < i THEN s[j] ELSE s[j + 1]
  <2> DEFINE a == SubSeq(s, 1, i - 1)
             b == SubSeq(s, i + 1, Len(s))
  <2>1. a \in Seq(S) /\ Len(a) = i - 1 /\ \A j \in 1..(i - 1) : a[j] = s[j]
    BY <1>1, SubSeqProperties
  <2>2. b \in Seq(S) /\ Len(b) = Len(s) - i /\ \A j \in 1..(Len(s) - i) : b[j] = s[i + j]
    BY <1>1, SubSeqProperties
  <2> HIDE DEF a, b
  <2>3. /\ a \o b \in Seq(S)
        /\ Len(a \o b) = Len(a) + Len(b)
        /\ \A j \in 1..(Len(a) + Len(b)) :
              (a \o b)[j] = IF j <= Len(a) THEN a[j] ELSE b[j - Len(a)]
    BY <2>1, <2>2, ConcatProperties
  <2>4. t = a \o b
    BY <1>2 DEF a, b
  <2>5. t \in Seq(S) /\ Len(t) = Len(s) - 1
    <3>1. Len(s) \in Nat /\ Len(a) + Len(b) = Len(s) - 1
      BY <1>1, <2>1, <2>2
    <3> QED BY <3>1, <2>3, <2>4
  <2>6. ASSUME NEW j \in 1..(Len(s) - 1)
        PROVE  t[j] = IF j < i THEN s[j] ELSE s[j + 1]
    <3>1. CASE j < i
      BY <3>1, <1>1, <2>1, <2>2, <2>3, <2>4
    <3>2. CASE ~(j < i)
      <4>1. j - Len(a) \in 1..(Len(s) - i) /\ i + (j - Len(a)) = j + 1 /\ ~(j <= Len(a))
        BY <3>2, <1>1, <2>1
      <4>2. t[j] = b[j - Len(a)]
        BY <4>1, <1>1, <2>1, <2>2, <2>3, <2>4
      <4>3. b[j - Len(a)] = s[j + 1]
        BY <4>1, <2>2
      <4> QED BY <3>2, <4>2, <4>3
    <3> QED BY <3>1, <3>2
  <2> QED BY <2>5, <2>6
<1>4. DOMAIN t = 1..(Len(s) - 1) /\ DOMAIN s = 1..Len(s) /\ Len(s) \in Nat
  BY <1>3
<1>5. Range(t) = Range(s) \ {e}
  <2>1. ASSUME NEW j \in DOMAIN t PROVE t[j] \in Range(s) \ {e}
    <3>1. PICK k \in DOMAIN s : t[j] = s[k] /\ k # i
      BY <1>1, <1>3, <1>4
    <3> QED BY <3>1, <1>1, <1>4 DEF IsInjective, Range
  <2>2. ASSUME NEW k \in DOMAIN s, s[k] # e PROVE \E j \in DOMAIN t : t[j] = s[k]
    <3>1. CASE k < i
      BY <3>1, <1>1, <1>3, <1>4
    <3>2. CASE k > i
      <4>1. k - 1 \in DOMAIN t /\ t[k - 1] = s[k]
        BY <3>2, <1>1, <1>3, <1>4
      <4> QED BY <4>1
    <3> QED BY <3>1, <3>2, <1>1, <1>4, <2>2
  <2> QED BY <2>1, <2>2 DEF Range
<1>6. IsInjective(t)
  <2> SUFFICES ASSUME NEW a \in DOMAIN t, NEW b \in DOMAIN t, t[a] = t[b] PROVE a = b
    BY DEF IsInjective
  <2> DEFINE at(k) == IF k < i THEN k ELSE k + 1
  <2>1. at(a) \in DOMAIN s /\ at(b) \in DOMAIN s /\ s[at(a)] = t[a] /\ s[at(b)] = t[b]
    BY <1>1, <1>3, <1>4
  <2>2. at(a) = at(b)
    BY <2>1 DEF IsInjective
  <2> QED BY <2>2, <1>1, <1>4
<1> QED BY <1>3, <1>5, <1>6 DEF t

\* Inserting a new element
LEMMA InsertNew ==
    ASSUME NEW S, NEW s \in Seq(S), NEW e \in S, NEW i \in 1..(Len(s) + 1),
           IsInjective(s), e \notin Range(s)
    PROVE  /\ InsertAt(s, i, e) \in Seq(S)
           /\ Len(InsertAt(s, i, e)) = Len(s) + 1
           /\ Range(InsertAt(s, i, e)) = Range(s) \cup {e}
           /\ IsInjective(InsertAt(s, i, e))
<1> DEFINE t == InsertAt(s, i, e)
<1>1. t = SubSeq(s, 1, i - 1) \o <<e>> \o SubSeq(s, i, Len(s))
  BY DEF InsertAt
<1> HIDE DEF t
<1>2. /\ t \in Seq(S)
      /\ Len(t) = Len(s) + 1
      /\ \A j \in 1..(Len(s) + 1) :
            t[j] = IF j < i THEN s[j] ELSE IF j = i THEN e ELSE s[j - 1]
  <2> DEFINE a == SubSeq(s, 1, i - 1)
             b == SubSeq(s, i, Len(s))
             m == a \o <<e>>
  <2>1. a \in Seq(S) /\ Len(a) = i - 1 /\ \A j \in 1..(i - 1) : a[j] = s[j]
    BY SubSeqProperties
  <2>2. b \in Seq(S) /\ Len(b) = Len(s) - i + 1 /\ \A j \in 1..(Len(s) - i + 1) : b[j] = s[i + j - 1]
    BY SubSeqProperties
  <2> HIDE DEF a, b
  <2>3. <<e>> \in Seq(S) /\ Len(<<e>>) = 1 /\ <<e>>[1] = e
    OBVIOUS
  <2>4. /\ m \in Seq(S)
        /\ Len(m) = i
        /\ \A j \in 1..i : m[j] = IF j < i THEN s[j] ELSE e
    <3>1. /\ m \in Seq(S)
          /\ Len(m) = Len(a) + 1
          /\ \A j \in 1..(Len(a) + 1) : m[j] = IF j <= Len(a) THEN a[j] ELSE <<e>>[j - Len(a)]
      BY <2>1, <2>3, ConcatProperties
    <3>2. \A j \in 1..i : j < i \/ j - Len(a) = 1
      BY <2>1
    <3> QED BY <3>1, <3>2, <2>1, <2>3
  <2> HIDE DEF m
  <2>5. /\ m \o b \in Seq(S)
        /\ Len(m \o b) = Len(m) + Len(b)
        /\ \A j \in 1..(Len(m) + Len(b)) :
              (m \o b)[j] = IF j <= Len(m) THEN m[j] ELSE b[j - Len(m)]
    BY <2>2, <2>4, ConcatProperties
  <2>6. t = m \o b
    BY <1>1 DEF a, b, m
  <2>7. t \in Seq(S) /\ Len(t) = Len(s) + 1
    BY <2>2, <2>4, <2>5, <2>6
  <2>8. ASSUME NEW j \in 1..(Len(s) + 1)
        PROVE  t[j] = IF j < i THEN s[j] ELSE IF j = i THEN e ELSE s[j - 1]
    <3>1. CASE j <= i
      BY <3>1, <2>2, <2>4, <2>5, <2>6
    <3>2. CASE ~(j <= i)
      <4>1. j - Len(m) \in 1..(Len(s) - i + 1) /\ i + (j - Len(m)) - 1 = j - 1 /\ ~(j <= Len(m))
        BY <3>2, <2>4
      <4>2. t[j] = b[j - Len(m)]
        BY <4>1, <2>2, <2>4, <2>5, <2>6
      <4>3. b[j - Len(m)] = s[j - 1]
        BY <4>1, <2>2
      <4> QED BY <3>2, <4>2, <4>3
    <3> QED BY <3>1, <3>2
  <2> QED BY <2>7, <2>8
<1>3. DOMAIN t = 1..(Len(s) + 1) /\ DOMAIN s = 1..Len(s) /\ Len(s) \in Nat
  BY <1>2
<1>4. Range(t) = Range(s) \cup {e}
  <2>1. ASSUME NEW j \in DOMAIN t PROVE t[j] \in Range(s) \cup {e}
    BY <1>2, <1>3 DEF Range
  <2>2. ASSUME NEW k \in DOMAIN s PROVE \E j \in DOMAIN t : t[j] = s[k]
    <3>1. CASE k < i
      BY <3>1, <1>2, <1>3
    <3>2. CASE k >= i
      <4>1. k + 1 \in DOMAIN t /\ t[k + 1] = s[k]
        BY <3>2, <1>2, <1>3
      <4> QED BY <4>1
    <3> QED BY <3>1, <3>2, <1>3
  <2>3. i \in DOMAIN t /\ t[i] = e
    BY <1>2, <1>3
  <2> QED BY <2>1, <2>2, <2>3 DEF Range
<1>5. IsInjective(t)
  <2> SUFFICES ASSUME NEW a \in DOMAIN t, NEW b \in DOMAIN t, t[a] = t[b] PROVE a = b
    BY DEF IsInjective
  <2>1. \A k \in 1..Len(s) : s[k] # e
    BY <1>3 DEF Range
  <2> DEFINE at(k) == IF k < i THEN k ELSE k - 1
  <2>2. \A k \in DOMAIN t : k # i => at(k) \in DOMAIN s /\ s[at(k)] = t[k]
    BY <1>2, <1>3
  <2>3. t[i] = e /\ \A k \in DOMAIN t : t[k] = e => k = i
    BY <1>2, <1>3, <2>1, <2>2
  <2>4. CASE a = i \/ b = i
    BY <2>3, <2>4
  <2>5. CASE a # i /\ b # i
    <3>1. at(a) = at(b)
      BY <2>2, <2>5 DEF IsInjective
    <3> QED BY <3>1, <2>5, <1>3
  <2> QED BY <2>4, <2>5
<1> QED BY <1>2, <1>4, <1>5 DEF t

\* Splitting leaf p adds the new leaf and nothing else
LEMMA SplitLeafFacts ==
    ASSUME NEW S, NEW s \in Seq(S), NEW p \in Range(s), NEW q \in S,
           IsInjective(s), q \notin Range(s)
    PROVE  /\ SplitLeaf(s, p, q) \in Seq(S)
           /\ Range(SplitLeaf(s, p, q)) = Range(s) \cup {q}
           /\ IsInjective(SplitLeaf(s, p, q))
<1>1. PositionOf(s, p) + 1 \in 1..(Len(s) + 1)
  BY PositionOfElement
<1> QED BY <1>1, InsertNew DEF SplitLeaf

\* Swapping two leaves keeps the set of leaves
LEMMA SwapLeavesFacts ==
    ASSUME NEW S, NEW s \in Seq(S), NEW a \in Range(s), NEW b \in Range(s),
           IsInjective(s), a # b
    PROVE  /\ SwapLeaves(s, a, b) \in Seq(S)
           /\ Len(SwapLeaves(s, a, b)) = Len(s)
           /\ Range(SwapLeaves(s, a, b)) = Range(s)
           /\ IsInjective(SwapLeaves(s, a, b))
<1> DEFINE t == SwapLeaves(s, a, b)
<1>1. DOMAIN s = 1..Len(s) /\ Len(s) \in Nat /\ a \in S /\ b \in S
  BY DEF Range
<1>2. /\ DOMAIN t = DOMAIN s
      /\ \A i \in DOMAIN s : t[i] = IF s[i] = a THEN b ELSE IF s[i] = b THEN a ELSE s[i]
  BY DEF SwapLeaves
<1>3. t \in [1..Len(s) -> S]
  <2>1. t = [i \in 1..Len(s) |-> t[i]]
    BY <1>1 DEF SwapLeaves
  <2>2. \A i \in 1..Len(s) : t[i] \in S
    BY <1>1, <1>2
  <2> QED BY <2>1, <2>2
<1> HIDE DEF t
<1>4. t \in Seq(S) /\ Len(t) = Len(s)
  BY <1>1, <1>3
<1>5. Range(t) = Range(s)
  <2>1. PICK i \in DOMAIN s : s[i] = a
    BY DEF Range
  <2>2. PICK j \in DOMAIN s : s[j] = b
    BY DEF Range
  <2>3. \A k \in DOMAIN s : t[k] \in Range(s)
    BY <1>2 DEF Range
  <2>4. \A k \in DOMAIN s : \E m \in DOMAIN s : t[m] = s[k]
    BY <1>2, <2>1, <2>2
  <2>5. DOMAIN t = DOMAIN s
    BY <1>2
  <2>6. Range(t) \subseteq Range(s)
    BY <2>3, <2>5 DEF Range
  <2>7. Range(s) \subseteq Range(t)
    BY <2>4, <2>5 DEF Range
  <2> QED BY <2>6, <2>7
<1>6. IsInjective(t)
  BY <1>2 DEF IsInjective
<1> QED BY <1>4, <1>5, <1>6 DEF t

-----------------------------------------------------------------------------
(* Snapshots                                                               *)

\* What the inductive invariant says of the published snapshot and of the
\* clone a batch works on
Good(G) == SnapshotType(G) /\ SessionsOwnWindows(G) /\ WindowsOwnPanes(G)

-----------------------------------------------------------------------------
(* Maps                                                                    *)

\* Replacing a value keeps the keys
LEMMA PutExisting ==
    ASSUME NEW f, NEW K, NEW V, NEW k \in DOMAIN f, NEW v \in V, IsMap(f, K, V)
    PROVE  /\ IsMap(Put(f, k, v), K, V)
           /\ DOMAIN Put(f, k, v) = DOMAIN f
           /\ \A x \in DOMAIN f : Put(f, k, v)[x] = IF x = k THEN v ELSE f[x]
  BY DEF IsMap, Put

\* Stamping the panes of a window (resize, swap, zoom) moves no pane
LEMMA BumpFacts ==
    ASSUME NEW G, SnapshotType(G), NEW w
    PROVE  /\ IsMap(BumpPanes(G, w), Pane, PaneRecord)
           /\ DOMAIN BumpPanes(G, w) = DOMAIN G.panes
           /\ \A p \in DOMAIN G.panes : BumpPanes(G, w)[p].window = G.panes[p].window
  BY DEF SnapshotType, IsMap, BumpPanes, PaneRecord

\* The records of a good snapshot
LEMMA Records ==
    ASSUME NEW G, Good(G)
    PROVE  /\ \A s \in DOMAIN G.sessions : s \in Session /\ G.sessions[s] \in SessionRecord
           /\ \A w \in DOMAIN G.windows : w \in Window /\ G.windows[w] \in WindowRecord
           /\ \A p \in DOMAIN G.panes : p \in Pane /\ G.panes[p] \in PaneRecord
           /\ IsMap(G.sessions, Session, SessionRecord)
           /\ IsMap(G.windows, Window, WindowRecord)
           /\ IsMap(G.panes, Pane, PaneRecord)
           /\ G.version \in Nat
  BY DEF Good, SnapshotType, IsMap

\* The next version of a record is a version
LEMMA NextVersions ==
    ASSUME NEW G, Good(G)
    PROVE  /\ \A s \in DOMAIN G.sessions : G.sessions[s].version + 1 \in Nat
           /\ \A w \in DOMAIN G.windows : G.windows[w].version + 1 \in Nat
           /\ \A p \in DOMAIN G.panes : G.panes[p].version + 1 \in Nat
  BY Records DEF SessionRecord, WindowRecord, PaneRecord

\* What a good snapshot says of one session and of one window
LEMMA Lists ==
    ASSUME NEW G, Good(G)
    PROVE  /\ \A s \in DOMAIN G.sessions :
                 /\ G.sessions[s].windows \in Seq(Window)
                 /\ IsInjective(G.sessions[s].windows)
                 /\ G.sessions[s].active \in Range(G.sessions[s].windows)
           /\ \A w \in DOMAIN G.windows :
                 /\ G.windows[w].leaves \in Seq(Pane)
                 /\ IsInjective(G.windows[w].leaves)
                 /\ G.windows[w].active \in Range(G.windows[w].leaves)
           /\ \A p \in DOMAIN G.panes :
                 /\ G.panes[p].window \in DOMAIN G.windows
                 /\ p \in Range(G.windows[G.panes[p].window].leaves)
<1>1. \A s \in DOMAIN G.sessions : G.sessions[s].windows \in Seq(Window)
  BY Records DEF SessionRecord
<1>2. \A w \in DOMAIN G.windows : G.windows[w].leaves \in Seq(Pane)
  BY Records DEF WindowRecord
<1> QED BY <1>1, <1>2 DEF Good, SessionsOwnWindows, WindowsOwnPanes, Leaves, PanesOfWindow

\* A snapshot put together from typed maps is typed
LEMMA SnapshotFields ==
    ASSUME NEW S, NEW W, NEW P, NEW v,
           IsMap(S, Session, SessionRecord), IsMap(W, Window, WindowRecord),
           IsMap(P, Pane, PaneRecord), v \in Nat
    PROVE  /\ SnapshotType(Snapshot(S, W, P, v))
           /\ Snapshot(S, W, P, v).sessions = S
           /\ Snapshot(S, W, P, v).windows = W
           /\ Snapshot(S, W, P, v).panes = P
  BY DEF SnapshotType, Snapshot

-----------------------------------------------------------------------------
(* Commands that keep the shape of the forest                              *)

\* A command that replaces one session record
LEMMA SessionUpdate ==
    ASSUME NEW G, Good(G), NEW s \in DOMAIN G.sessions, NEW r \in SessionRecord,
           Range(r.windows) = Range(G.sessions[s].windows),
           IsInjective(r.windows),
           r.active \in Range(r.windows)
    PROVE  Good(Snapshot(Put(G.sessions, s, r), G.windows, G.panes, G.version + 1))
<1> DEFINE S == Put(G.sessions, s, r)
           H == Snapshot(S, G.windows, G.panes, G.version + 1)
<1>0. IsMap(G.sessions, Session, SessionRecord)
  BY Records
<1>1. IsMap(S, Session, SessionRecord) /\ DOMAIN S = DOMAIN G.sessions
  BY <1>0, PutExisting
<1>2. \A x \in DOMAIN G.sessions : S[x] = IF x = s THEN r ELSE G.sessions[x]
  BY <1>0, PutExisting
<1> HIDE DEF S
<1>3. SnapshotType(H) /\ H.sessions = S /\ H.windows = G.windows /\ H.panes = G.panes
  BY <1>1, Records, SnapshotFields
<1> HIDE DEF H
<1>4. SessionsOwnWindows(H)
  BY <1>1, <1>2, <1>3 DEF Good, SessionsOwnWindows
<1>5. WindowsOwnPanes(H)
  BY <1>3 DEF Good, WindowsOwnPanes, Leaves, PanesOfWindow
<1> QED BY <1>3, <1>4, <1>5 DEF Good, H, S

\* A command that replaces one window record and may stamp panes
LEMMA WindowUpdate ==
    ASSUME NEW G, Good(G), NEW w \in DOMAIN G.windows, NEW r \in WindowRecord, NEW P,
           r.session = G.windows[w].session,
           Range(r.leaves) = Range(G.windows[w].leaves),
           IsInjective(r.leaves),
           r.active \in Range(r.leaves),
           IsMap(P, Pane, PaneRecord),
           DOMAIN P = DOMAIN G.panes,
           \A p \in DOMAIN P : P[p].window = G.panes[p].window
    PROVE  Good(Snapshot(G.sessions, Put(G.windows, w, r), P, G.version + 1))
<1> DEFINE W == Put(G.windows, w, r)
           H == Snapshot(G.sessions, W, P, G.version + 1)
<1>0. IsMap(G.windows, Window, WindowRecord)
  BY Records
<1>1. IsMap(W, Window, WindowRecord) /\ DOMAIN W = DOMAIN G.windows
  BY <1>0, PutExisting
<1>2. \A x \in DOMAIN G.windows : W[x] = IF x = w THEN r ELSE G.windows[x]
  BY <1>0, PutExisting
<1> HIDE DEF W
<1>3. SnapshotType(H) /\ H.sessions = G.sessions /\ H.windows = W /\ H.panes = P
  BY <1>1, Records, SnapshotFields
<1> HIDE DEF H
<1>4. \A x \in DOMAIN G.windows : W[x].session = G.windows[x].session
  BY <1>2
<1>5. SessionsOwnWindows(H)
  BY <1>1, <1>3, <1>4 DEF Good, SessionsOwnWindows
<1>6. WindowsOwnPanes(H)
  BY <1>1, <1>2, <1>3 DEF Good, WindowsOwnPanes, Leaves, PanesOfWindow
<1> QED BY <1>3, <1>5, <1>6 DEF Good, H, W

\* rename_session
LEMMA GoodWithSessionName ==
    ASSUME NEW G, Good(G), NEW s \in DOMAIN G.sessions, NEW n \in Name
    PROVE  Good(WithSessionName(G, s, n))
<1> DEFINE r == [G.sessions[s] EXCEPT !.name = n, !.version = @ + 1]
<1>1. WithSessionName(G, s, n) = Snapshot(Put(G.sessions, s, r), G.windows, G.panes, G.version + 1)
  BY DEF WithSessionName
<1>2. G.sessions[s] \in SessionRecord /\ G.sessions[s].version + 1 \in Nat
  BY Records, NextVersions
<1>3. r \in SessionRecord /\ r.windows = G.sessions[s].windows /\ r.active = G.sessions[s].active
  BY <1>2 DEF SessionRecord
<1> HIDE DEF r
<1>4. IsInjective(r.windows) /\ r.active \in Range(r.windows)
  BY <1>3, Lists
<1> QED BY <1>1, <1>3, <1>4, SessionUpdate

\* set_session_tag, set_session_theme
LEMMA GoodWithSessionStamp ==
    ASSUME NEW G, Good(G), NEW s \in DOMAIN G.sessions
    PROVE  Good(WithSessionStamp(G, s))
<1> DEFINE r == [G.sessions[s] EXCEPT !.version = @ + 1]
<1>1. WithSessionStamp(G, s) = Snapshot(Put(G.sessions, s, r), G.windows, G.panes, G.version + 1)
  BY DEF WithSessionStamp
<1>2. G.sessions[s] \in SessionRecord /\ G.sessions[s].version + 1 \in Nat
  BY Records, NextVersions
<1>3. r \in SessionRecord /\ r.windows = G.sessions[s].windows /\ r.active = G.sessions[s].active
  BY <1>2 DEF SessionRecord
<1> HIDE DEF r
<1>4. IsInjective(r.windows) /\ r.active \in Range(r.windows)
  BY <1>3, Lists
<1> QED BY <1>1, <1>3, <1>4, SessionUpdate

\* focus_window, reorder_window
LEMMA GoodWithOrder ==
    ASSUME NEW G, Good(G), NEW s \in DOMAIN G.sessions, NEW ws \in Seq(Window), NEW a \in Window,
           Range(ws) = Range(G.sessions[s].windows), IsInjective(ws), a \in Range(ws)
    PROVE  Good(WithOrder(G, s, ws, a))
<1> DEFINE r == [G.sessions[s] EXCEPT !.windows = ws, !.active = a, !.version = @ + 1]
<1>1. WithOrder(G, s, ws, a) = Snapshot(Put(G.sessions, s, r), G.windows, G.panes, G.version + 1)
  BY DEF WithOrder
<1>2. G.sessions[s] \in SessionRecord /\ G.sessions[s].version + 1 \in Nat
  BY Records, NextVersions
<1>3. r \in SessionRecord /\ r.windows = ws /\ r.active = a
  BY <1>2 DEF SessionRecord
<1> HIDE DEF r
<1> QED BY <1>1, <1>3, SessionUpdate

\* rename_window
LEMMA GoodWithTitle ==
    ASSUME NEW G, Good(G), NEW w \in DOMAIN G.windows, NEW t \in Title
    PROVE  Good(WithTitle(G, w, t))
<1> DEFINE r == [G.windows[w] EXCEPT !.title = t, !.version = @ + 1]
<1>1. WithTitle(G, w, t) = Snapshot(G.sessions, Put(G.windows, w, r), G.panes, G.version + 1)
  BY DEF WithTitle
<1>2. G.windows[w] \in WindowRecord /\ G.windows[w].version + 1 \in Nat
      /\ IsMap(G.panes, Pane, PaneRecord)
  BY Records, NextVersions
<1>3. /\ r \in WindowRecord /\ r.session = G.windows[w].session
      /\ r.leaves = G.windows[w].leaves /\ r.active = G.windows[w].active
  BY <1>2 DEF WindowRecord
<1> HIDE DEF r
<1>4. IsInjective(r.leaves) /\ r.active \in Range(r.leaves)
  BY <1>3, Lists
<1> QED BY <1>1, <1>2, <1>3, <1>4, WindowUpdate

\* focus_pane
LEMMA GoodWithFocus ==
    ASSUME NEW G, Good(G), NEW p \in DOMAIN G.panes
    PROVE  Good(WithFocus(G, p))
<1> DEFINE w == G.panes[p].window
           hidden == G.windows[w].zoom \notin {None, p}
           r == [G.windows[w] EXCEPT !.zoom = IF hidden THEN None ELSE @,
                                     !.active = p, !.version = @ + 1]
           P == IF hidden THEN BumpPanes(G, w) ELSE G.panes
<1>1. WithFocus(G, p) = Snapshot(G.sessions, Put(G.windows, w, r), P, G.version + 1)
  BY DEF WithFocus
<1>2. /\ w \in DOMAIN G.windows /\ p \in Pane /\ p \in Range(G.windows[w].leaves)
      /\ G.windows[w] \in WindowRecord /\ G.windows[w].version + 1 \in Nat
      /\ IsInjective(G.windows[w].leaves)
  BY Lists, Records, NextVersions
<1>3. /\ IsMap(P, Pane, PaneRecord) /\ DOMAIN P = DOMAIN G.panes
      /\ \A q \in DOMAIN P : P[q].window = G.panes[q].window
  <2>1. SnapshotType(G)
    BY DEF Good
  <2> QED BY <2>1, BumpFacts, Records
<1> HIDE DEF w, hidden, P
<1>4. /\ r \in WindowRecord /\ r.session = G.windows[w].session
      /\ r.leaves = G.windows[w].leaves /\ r.active = p
  BY <1>2 DEF WindowRecord
<1> HIDE DEF r
<1> QED BY <1>1, <1>2, <1>3, <1>4, WindowUpdate

\* zoom_pane
LEMMA GoodWithZoom ==
    ASSUME NEW G, Good(G), NEW p \in DOMAIN G.panes
    PROVE  Good(WithZoom(G, p))
<1> DEFINE w == G.panes[p].window
           zoom == ToggleZoom(G.windows[w], p)
           r == [G.windows[w] EXCEPT !.zoom = zoom,
                                     !.active = IF zoom # None THEN p ELSE @,
                                     !.version = @ + 1]
           P == BumpPanes(G, w)
<1>1. WithZoom(G, p) = Snapshot(G.sessions, Put(G.windows, w, r), P, G.version + 1)
  BY DEF WithZoom
<1>2. /\ w \in DOMAIN G.windows /\ p \in Pane /\ p \in Range(G.windows[w].leaves)
      /\ G.windows[w] \in WindowRecord /\ G.windows[w].version + 1 \in Nat
      /\ IsInjective(G.windows[w].leaves) /\ G.windows[w].active \in Range(G.windows[w].leaves)
  BY Lists, Records, NextVersions
<1>3. zoom \in {None, p}
  BY DEF ToggleZoom, ToggledZoom
<1>4. /\ IsMap(P, Pane, PaneRecord) /\ DOMAIN P = DOMAIN G.panes
      /\ \A q \in DOMAIN P : P[q].window = G.panes[q].window
  <2>1. SnapshotType(G)
    BY DEF Good
  <2> QED BY <2>1, BumpFacts
<1> HIDE DEF w, zoom, P
<1>5. /\ r \in WindowRecord /\ r.session = G.windows[w].session
      /\ r.leaves = G.windows[w].leaves /\ r.active \in {p, G.windows[w].active}
  BY <1>2, <1>3 DEF WindowRecord
<1> HIDE DEF r
<1> QED BY <1>1, <1>2, <1>4, <1>5, WindowUpdate

\* resize_pane, swap_panes
LEMMA GoodWithLayout ==
    ASSUME NEW G, Good(G), NEW w \in DOMAIN G.windows, NEW leaves \in Seq(Pane),
           NEW ratios \in Ratios,
           Range(leaves) = Range(G.windows[w].leaves), IsInjective(leaves)
    PROVE  Good(WithLayout(G, w, leaves, ratios))
<1> DEFINE r == [G.windows[w] EXCEPT !.leaves = leaves, !.ratios = ratios,
                                     !.zoom = None, !.version = @ + 1]
           P == BumpPanes(G, w)
<1>1. WithLayout(G, w, leaves, ratios) = Snapshot(G.sessions, Put(G.windows, w, r), P, G.version + 1)
  BY DEF WithLayout
<1>2. /\ G.windows[w] \in WindowRecord /\ G.windows[w].version + 1 \in Nat
      /\ G.windows[w].active \in Range(G.windows[w].leaves)
  BY Lists, Records, NextVersions
<1>3. /\ IsMap(P, Pane, PaneRecord) /\ DOMAIN P = DOMAIN G.panes
      /\ \A q \in DOMAIN P : P[q].window = G.panes[q].window
  <2>1. SnapshotType(G)
    BY DEF Good
  <2> QED BY <2>1, BumpFacts
<1> HIDE DEF P
<1>4. /\ r \in WindowRecord /\ r.session = G.windows[w].session
      /\ r.leaves = leaves /\ r.active = G.windows[w].active
  BY <1>2 DEF WindowRecord
<1> HIDE DEF r
<1> QED BY <1>1, <1>2, <1>3, <1>4, WindowUpdate

\* set_pane_tag, set_pane_theme, set_pane_title, set_pane_osc_title
LEMMA GoodWithPaneStamp ==
    ASSUME NEW G, Good(G), NEW p \in DOMAIN G.panes
    PROVE  Good(WithPaneStamp(G, p))
<1> DEFINE r == [G.panes[p] EXCEPT !.version = @ + 1]
           P == Put(G.panes, p, r)
           H == Snapshot(G.sessions, G.windows, P, G.version + 1)
<1>1. WithPaneStamp(G, p) = H
  BY DEF WithPaneStamp
<1>2. G.panes[p] \in PaneRecord /\ G.panes[p].version + 1 \in Nat
      /\ IsMap(G.panes, Pane, PaneRecord)
  BY Records, NextVersions
<1>3. r \in PaneRecord /\ r.window = G.panes[p].window
  BY <1>2 DEF PaneRecord
<1> HIDE DEF r
<1>4. /\ IsMap(P, Pane, PaneRecord) /\ DOMAIN P = DOMAIN G.panes
      /\ \A q \in DOMAIN G.panes : P[q].window = G.panes[q].window
  <2>1. /\ IsMap(P, Pane, PaneRecord) /\ DOMAIN P = DOMAIN G.panes
        /\ \A q \in DOMAIN G.panes : P[q] = IF q = p THEN r ELSE G.panes[q]
    BY <1>2, <1>3 DEF Put, IsMap
  <2> HIDE DEF P
  <2> QED BY <1>3, <2>1
<1> HIDE DEF P
<1>5. SnapshotType(H) /\ H.sessions = G.sessions /\ H.windows = G.windows /\ H.panes = P
  BY <1>4, Records, SnapshotFields
<1> HIDE DEF H
<1>6. SessionsOwnWindows(H)
  BY <1>5 DEF Good, SessionsOwnWindows
<1>7. WindowsOwnPanes(H)
  BY <1>4, <1>5 DEF Good, WindowsOwnPanes, Leaves, PanesOfWindow
<1> QED BY <1>1, <1>5, <1>6, <1>7 DEF Good

-----------------------------------------------------------------------------
(* Commands that grow the forest                                           *)

\* create_session_with_command, stage_create_session
LEMMA GoodWithSession ==
    ASSUME NEW G, Good(G), NEW n \in Name, NEW t \in Title,
           NEW s \in Session \ DOMAIN G.sessions,
           NEW w \in Window \ DOMAIN G.windows,
           NEW p \in Pane \ DOMAIN G.panes
    PROVE  Good(WithSession(G, s, w, p, n, t))
<1> DEFINE ses == [name |-> n, windows |-> <<w>>, active |-> w, version |-> 1]
           S == Put(G.sessions, s, ses)
           W == Put(G.windows, w, NewWindow(s, t, p))
           P == Put(G.panes, p, NewPane(w))
           H == Snapshot(S, W, P, G.version + 1)
<1>1. WithSession(G, s, w, p, n, t) = H
  BY DEF WithSession
<1>2. /\ ses \in SessionRecord /\ ses.windows = <<w>> /\ ses.active = w
      /\ NewPane(w) \in PaneRecord /\ NewPane(w).window = w
  BY DEF SessionRecord, PaneRecord, NewPane
<1>3. /\ NewWindow(s, t, p) \in WindowRecord /\ NewWindow(s, t, p).session = s
      /\ NewWindow(s, t, p).leaves = <<p>> /\ NewWindow(s, t, p).active = p
  BY DEF WindowRecord, NewWindow, Ratios
<1>4. Range(<<w>>) = {w} /\ IsInjective(<<w>>) /\ Range(<<p>>) = {p} /\ IsInjective(<<p>>)
  BY Singleton
<1> HIDE DEF ses
<1>5. /\ IsMap(G.sessions, Session, SessionRecord) /\ IsMap(G.windows, Window, WindowRecord)
      /\ IsMap(G.panes, Pane, PaneRecord) /\ G.version + 1 \in Nat
  BY Records
<1>6. /\ IsMap(S, Session, SessionRecord) /\ DOMAIN S = DOMAIN G.sessions \cup {s}
      /\ S[s] = ses /\ \A x \in DOMAIN G.sessions : S[x] = G.sessions[x]
  BY <1>2, <1>5 DEF Put, IsMap
<1>7. /\ IsMap(W, Window, WindowRecord) /\ DOMAIN W = DOMAIN G.windows \cup {w}
      /\ W[w] = NewWindow(s, t, p) /\ \A x \in DOMAIN G.windows : W[x] = G.windows[x]
  BY <1>3, <1>5 DEF Put, IsMap
<1>8. /\ IsMap(P, Pane, PaneRecord) /\ DOMAIN P = DOMAIN G.panes \cup {p}
      /\ P[p] = NewPane(w) /\ \A x \in DOMAIN G.panes : P[x] = G.panes[x]
  BY <1>2, <1>5 DEF Put, IsMap
<1> HIDE DEF S, W, P
<1>9. SnapshotType(H) /\ H.sessions = S /\ H.windows = W /\ H.panes = P
  BY <1>5, <1>6, <1>7, <1>8, SnapshotFields
<1> HIDE DEF H
<1>10. SessionsOwnWindows(H)
  <2>1. \A x \in DOMAIN G.windows : G.windows[x].session \in DOMAIN G.sessions
    BY DEF Good, SessionsOwnWindows
  <2>2. \A x \in DOMAIN W : W[x].session \in DOMAIN S
    BY <2>1, <1>3, <1>6, <1>7
  <2>3. {x \in DOMAIN W : W[x].session = s} = {w}
    BY <2>1, <1>3, <1>7
  <2>4. \A y \in DOMAIN G.sessions :
           {x \in DOMAIN W : W[x].session = y} = {x \in DOMAIN G.windows : G.windows[x].session = y}
    BY <1>3, <1>7
  <2>5. ASSUME NEW y \in DOMAIN S
        PROVE  /\ Range(S[y].windows) = {x \in DOMAIN W : W[x].session = y}
               /\ IsInjective(S[y].windows)
               /\ S[y].active \in Range(S[y].windows)
    <3>1. CASE y = s
      BY <3>1, <2>3, <1>2, <1>4, <1>6
    <3>2. CASE y \in DOMAIN G.sessions
      BY <3>2, <2>4, <1>6 DEF Good, SessionsOwnWindows
    <3> QED BY <3>1, <3>2, <1>6
  <2> QED BY <2>2, <2>5, <1>9 DEF SessionsOwnWindows
<1>11. WindowsOwnPanes(H)
  <2>1. \A x \in DOMAIN G.panes : G.panes[x].window \in DOMAIN G.windows
    BY DEF Good, WindowsOwnPanes
  <2>2. \A x \in DOMAIN P : P[x].window \in DOMAIN W
    BY <2>1, <1>2, <1>7, <1>8
  <2>3. {x \in DOMAIN P : P[x].window = w} = {p}
    BY <2>1, <1>2, <1>8
  <2>4. \A y \in DOMAIN G.windows :
           {x \in DOMAIN P : P[x].window = y} = {x \in DOMAIN G.panes : G.panes[x].window = y}
    BY <1>2, <1>8
  <2>5. ASSUME NEW y \in DOMAIN W
        PROVE  /\ Range(W[y].leaves) = {x \in DOMAIN P : P[x].window = y}
               /\ IsInjective(W[y].leaves)
               /\ W[y].active \in Range(W[y].leaves)
    <3>1. CASE y = w
      BY <3>1, <2>3, <1>3, <1>4, <1>7
    <3>2. CASE y \in DOMAIN G.windows
      BY <3>2, <2>4, <1>7 DEF Good, WindowsOwnPanes, Leaves, PanesOfWindow
    <3> QED BY <3>1, <3>2, <1>7
  <2> QED BY <2>2, <2>5, <1>9 DEF WindowsOwnPanes, Leaves, PanesOfWindow
<1> QED BY <1>1, <1>9, <1>10, <1>11 DEF Good

\* create_window_with_command, stage_create_window
LEMMA GoodWithWindow ==
    ASSUME NEW G, Good(G), NEW t \in Title,
           NEW s \in DOMAIN G.sessions,
           NEW w \in Window \ DOMAIN G.windows,
           NEW p \in Pane \ DOMAIN G.panes
    PROVE  Good(WithWindow(G, s, w, p, t))
<1> DEFINE ws == G.sessions[s].windows
           ses == [G.sessions[s] EXCEPT !.windows = Append(@, w), !.active = w, !.version = @ + 1]
           S == Put(G.sessions, s, ses)
           W == Put(G.windows, w, NewWindow(s, t, p))
           P == Put(G.panes, p, NewPane(w))
           H == Snapshot(S, W, P, G.version + 1)
<1>1. WithWindow(G, s, w, p, t) = H
  BY DEF WithWindow
<1>2. /\ NewWindow(s, t, p) \in WindowRecord /\ NewWindow(s, t, p).session = s
      /\ NewWindow(s, t, p).leaves = <<p>> /\ NewWindow(s, t, p).active = p
      /\ NewPane(w) \in PaneRecord /\ NewPane(w).window = w
  <2>1. s \in Session
    BY Records
  <2> QED BY <2>1 DEF WindowRecord, NewWindow, Ratios, PaneRecord, NewPane
<1>3. Range(<<p>>) = {p} /\ IsInjective(<<p>>)
  BY Singleton
<1>4. /\ ws \in Seq(Window) /\ IsInjective(ws)
      /\ Range(ws) = {x \in DOMAIN G.windows : G.windows[x].session = s}
  BY Lists DEF Good, SessionsOwnWindows
<1>5. /\ Append(ws, w) \in Seq(Window) /\ IsInjective(Append(ws, w))
      /\ Range(Append(ws, w)) = Range(ws) \cup {w}
  BY <1>4, AppendNew
<1>6. /\ IsMap(G.sessions, Session, SessionRecord) /\ IsMap(G.windows, Window, WindowRecord)
      /\ IsMap(G.panes, Pane, PaneRecord) /\ G.version + 1 \in Nat
      /\ G.sessions[s] \in SessionRecord /\ G.sessions[s].version + 1 \in Nat
  BY Records, NextVersions
<1>7. ses \in SessionRecord /\ ses.windows = Append(ws, w) /\ ses.active = w
  <2> HIDE DEF S, W, P, H
  <2> QED BY <1>5, <1>6 DEF SessionRecord
<1> HIDE DEF ses, ws
<1>8. /\ IsMap(S, Session, SessionRecord) /\ DOMAIN S = DOMAIN G.sessions
      /\ \A x \in DOMAIN G.sessions : S[x] = IF x = s THEN ses ELSE G.sessions[x]
  BY <1>6, <1>7 DEF Put, IsMap
<1>9. /\ IsMap(W, Window, WindowRecord) /\ DOMAIN W = DOMAIN G.windows \cup {w}
      /\ W[w] = NewWindow(s, t, p) /\ \A x \in DOMAIN G.windows : W[x] = G.windows[x]
  BY <1>2, <1>6 DEF Put, IsMap
<1>10. /\ IsMap(P, Pane, PaneRecord) /\ DOMAIN P = DOMAIN G.panes \cup {p}
       /\ P[p] = NewPane(w) /\ \A x \in DOMAIN G.panes : P[x] = G.panes[x]
  BY <1>2, <1>6 DEF Put, IsMap
<1> HIDE DEF S, W, P
<1>11. SnapshotType(H) /\ H.sessions = S /\ H.windows = W /\ H.panes = P
  BY <1>6, <1>8, <1>9, <1>10, SnapshotFields
<1> HIDE DEF H
<1>12. SessionsOwnWindows(H)
  <2>1. \A x \in DOMAIN W : W[x].session \in DOMAIN S
    BY <1>2, <1>8, <1>9 DEF Good, SessionsOwnWindows
  <2>2. {x \in DOMAIN W : W[x].session = s} = Range(ws) \cup {w}
    BY <1>2, <1>4, <1>9
  <2>3. \A y \in DOMAIN G.sessions : y # s =>
           {x \in DOMAIN W : W[x].session = y} = {x \in DOMAIN G.windows : G.windows[x].session = y}
    BY <1>2, <1>9
  <2>4. ASSUME NEW y \in DOMAIN S
        PROVE  /\ Range(S[y].windows) = {x \in DOMAIN W : W[x].session = y}
               /\ IsInjective(S[y].windows)
               /\ S[y].active \in Range(S[y].windows)
    <3>1. CASE y = s
      <4>1. S[y].windows = Append(ws, w) /\ S[y].active = w
        BY <3>1, <1>7, <1>8
      <4> QED BY <3>1, <4>1, <2>2, <1>5
    <3>2. CASE y # s
      BY <3>2, <2>3, <1>8 DEF Good, SessionsOwnWindows
    <3> QED BY <3>1, <3>2
  <2> QED BY <2>1, <2>4, <1>11 DEF SessionsOwnWindows
<1>13. WindowsOwnPanes(H)
  <2>1. \A x \in DOMAIN G.panes : G.panes[x].window \in DOMAIN G.windows
    BY DEF Good, WindowsOwnPanes
  <2>2. \A x \in DOMAIN P : P[x].window \in DOMAIN W
    BY <2>1, <1>2, <1>9, <1>10
  <2>3. {x \in DOMAIN P : P[x].window = w} = {p}
    BY <2>1, <1>2, <1>10
  <2>4. \A y \in DOMAIN G.windows :
           {x \in DOMAIN P : P[x].window = y} = {x \in DOMAIN G.panes : G.panes[x].window = y}
    BY <1>2, <1>10
  <2>5. ASSUME NEW y \in DOMAIN W
        PROVE  /\ Range(W[y].leaves) = {x \in DOMAIN P : P[x].window = y}
               /\ IsInjective(W[y].leaves)
               /\ W[y].active \in Range(W[y].leaves)
    <3>1. CASE y = w
      BY <3>1, <2>3, <1>2, <1>3, <1>9
    <3>2. CASE y \in DOMAIN G.windows
      BY <3>2, <2>4, <1>9 DEF Good, WindowsOwnPanes, Leaves, PanesOfWindow
    <3> QED BY <3>1, <3>2, <1>9
  <2> QED BY <2>2, <2>5, <1>11 DEF WindowsOwnPanes, Leaves, PanesOfWindow
<1> QED BY <1>1, <1>11, <1>12, <1>13 DEF Good

\* split_pane_with_command, stage_split_pane
LEMMA GoodWithSplit ==
    ASSUME NEW G, Good(G), NEW p \in DOMAIN G.panes, NEW q \in Pane \ DOMAIN G.panes
    PROVE  Good(WithSplit(G, p, q))
<1> DEFINE w == G.panes[p].window
           leaves == SplitLeaf(G.windows[w].leaves, p, q)
           win == [G.windows[w] EXCEPT !.leaves = SplitLeaf(@, p, q), !.zoom = None,
                                       !.active = q, !.version = @ + 1]
           W == Put(G.windows, w, win)
           P == Put(G.panes, q, NewPane(w))
           H == Snapshot(G.sessions, W, P, G.version + 1)
<1>1. WithSplit(G, p, q) = H
  BY DEF WithSplit
<1>2. /\ w \in DOMAIN G.windows /\ p \in Range(G.windows[w].leaves)
      /\ G.windows[w].leaves \in Seq(Pane) /\ IsInjective(G.windows[w].leaves)
  BY Lists
<1>3. Range(G.windows[w].leaves) = {x \in DOMAIN G.panes : G.panes[x].window = w}
  <2> HIDE DEF w
  <2> QED BY <1>2 DEF Good, WindowsOwnPanes, Leaves, PanesOfWindow
<1>4. /\ IsMap(G.sessions, Session, SessionRecord) /\ IsMap(G.windows, Window, WindowRecord)
      /\ IsMap(G.panes, Pane, PaneRecord) /\ G.version + 1 \in Nat /\ w \in Window
      /\ G.windows[w] \in WindowRecord /\ G.windows[w].version + 1 \in Nat
  BY <1>2, Records, NextVersions
<1> HIDE DEF w
<1>5. /\ leaves \in Seq(Pane) /\ IsInjective(leaves)
      /\ Range(leaves) = Range(G.windows[w].leaves) \cup {q}
  BY <1>2, <1>3, SplitLeafFacts
<1>6. NewPane(w) \in PaneRecord /\ NewPane(w).window = w
  BY <1>4 DEF PaneRecord, NewPane
<1>7. /\ win \in WindowRecord /\ win.session = G.windows[w].session
      /\ win.leaves = leaves /\ win.active = q
  <2> HIDE DEF W, P, H
  <2> QED BY <1>4, <1>5 DEF WindowRecord
<1> HIDE DEF win, leaves
<1>8. /\ IsMap(W, Window, WindowRecord) /\ DOMAIN W = DOMAIN G.windows
      /\ \A x \in DOMAIN G.windows : W[x] = IF x = w THEN win ELSE G.windows[x]
  BY <1>2, <1>4, <1>7 DEF Put, IsMap
<1>9. /\ IsMap(P, Pane, PaneRecord) /\ DOMAIN P = DOMAIN G.panes \cup {q}
      /\ P[q] = NewPane(w) /\ \A x \in DOMAIN G.panes : P[x] = G.panes[x]
  BY <1>4, <1>6 DEF Put, IsMap
<1> HIDE DEF W, P
<1>10. SnapshotType(H) /\ H.sessions = G.sessions /\ H.windows = W /\ H.panes = P
  BY <1>4, <1>8, <1>9, SnapshotFields
<1> HIDE DEF H
<1>11. SessionsOwnWindows(H)
  <2>1. \A x \in DOMAIN G.windows : W[x].session = G.windows[x].session
    BY <1>7, <1>8
  <2> QED BY <2>1, <1>8, <1>10 DEF Good, SessionsOwnWindows
<1>12. WindowsOwnPanes(H)
  <2>1. \A x \in DOMAIN P : P[x].window \in DOMAIN W
    BY <1>2, <1>6, <1>8, <1>9 DEF Good, WindowsOwnPanes
  <2>2. {x \in DOMAIN P : P[x].window = w} = Range(leaves)
    BY <1>3, <1>5, <1>6, <1>9
  <2>3. \A y \in DOMAIN G.windows : y # w =>
           {x \in DOMAIN P : P[x].window = y} = {x \in DOMAIN G.panes : G.panes[x].window = y}
    BY <1>6, <1>9
  <2>4. ASSUME NEW y \in DOMAIN W
        PROVE  /\ Range(W[y].leaves) = {x \in DOMAIN P : P[x].window = y}
               /\ IsInjective(W[y].leaves)
               /\ W[y].active \in Range(W[y].leaves)
    <3>1. CASE y = w
      <4>1. W[y].leaves = leaves /\ W[y].active = q
        BY <3>1, <1>7, <1>8
      <4> QED BY <3>1, <4>1, <2>2, <1>5
    <3>2. CASE y # w
      BY <3>2, <2>3, <1>8 DEF Good, WindowsOwnPanes, Leaves, PanesOfWindow
    <3> QED BY <3>1, <3>2
  <2> QED BY <2>1, <2>4, <1>10 DEF WindowsOwnPanes, Leaves, PanesOfWindow
<1> QED BY <1>1, <1>10, <1>11, <1>12 DEF Good

-----------------------------------------------------------------------------
(* Commands that cut the forest                                            *)

\* destroy_session
LEMMA GoodWithoutSession ==
    ASSUME NEW G, Good(G), NEW s \in DOMAIN G.sessions
    PROVE  Good(WithoutSession(G, s))
<1> DEFINE ws == Range(G.sessions[s].windows)
           S == Drop(G.sessions, {s})
           W == Drop(G.windows, ws)
           P == Drop(G.panes, {p \in DOMAIN G.panes : G.panes[p].window \in ws})
           H == Snapshot(S, W, P, G.version + 1)
<1>1. WithoutSession(G, s) = H
  BY DEF WithoutSession
<1>2. ws = {w \in DOMAIN G.windows : G.windows[w].session = s}
  BY DEF Good, SessionsOwnWindows
<1>3. /\ IsMap(G.sessions, Session, SessionRecord) /\ IsMap(G.windows, Window, WindowRecord)
      /\ IsMap(G.panes, Pane, PaneRecord) /\ G.version + 1 \in Nat
  BY Records
<1> HIDE DEF ws
<1>4. /\ IsMap(S, Session, SessionRecord) /\ DOMAIN S = DOMAIN G.sessions \ {s}
      /\ \A x \in DOMAIN S : S[x] = G.sessions[x]
  BY <1>3 DEF Drop, IsMap
<1>5. /\ IsMap(W, Window, WindowRecord) /\ DOMAIN W = DOMAIN G.windows \ ws
      /\ \A x \in DOMAIN W : W[x] = G.windows[x]
  BY <1>3 DEF Drop, IsMap
<1>6. /\ IsMap(P, Pane, PaneRecord)
      /\ DOMAIN P = {p \in DOMAIN G.panes : G.panes[p].window \notin ws}
      /\ \A x \in DOMAIN P : P[x] = G.panes[x]
  BY <1>3 DEF Drop, IsMap
<1> HIDE DEF S, W, P
<1>7. SnapshotType(H) /\ H.sessions = S /\ H.windows = W /\ H.panes = P
  BY <1>3, <1>4, <1>5, <1>6, SnapshotFields
<1> HIDE DEF H
<1>8. SessionsOwnWindows(H)
  <2>1. \A x \in DOMAIN W : W[x].session \in DOMAIN S
    BY <1>2, <1>4, <1>5 DEF Good, SessionsOwnWindows
  <2>2. \A y \in DOMAIN S :
           {x \in DOMAIN W : W[x].session = y} = {x \in DOMAIN G.windows : G.windows[x].session = y}
    BY <1>2, <1>4, <1>5
  <2> QED BY <2>1, <2>2, <1>4, <1>7 DEF Good, SessionsOwnWindows
<1>9. WindowsOwnPanes(H)
  <2>1. \A x \in DOMAIN P : P[x].window \in DOMAIN W
    BY <1>5, <1>6 DEF Good, WindowsOwnPanes
  <2>2. \A y \in DOMAIN W :
           {x \in DOMAIN P : P[x].window = y} = {x \in DOMAIN G.panes : G.panes[x].window = y}
    BY <1>5, <1>6
  <2> QED BY <2>1, <2>2, <1>5, <1>7 DEF Good, WindowsOwnPanes, Leaves, PanesOfWindow
<1> QED BY <1>1, <1>7, <1>8, <1>9 DEF Good

\* The first element of what remains
LEMMA HeadInRange ==
    ASSUME NEW S, NEW s \in Seq(S), Len(s) > 0
    PROVE  Head(s) \in Range(s) /\ Head(s) \in S
<1>1. Head(s) = s[1] /\ 1 \in DOMAIN s
  OBVIOUS
<1> QED BY <1>1 DEF Range

\* destroy_window, which a session's last window refuses
LEMMA GoodWithoutWindow ==
    ASSUME NEW G, Good(G), NEW w \in DOMAIN G.windows,
           Len(G.sessions[G.windows[w].session].windows) > 1
    PROVE  Good(WithoutWindow(G, w))
<1> DEFINE s == G.windows[w].session
           ws == G.sessions[s].windows
           rest == Without(ws, w)
           ses == [G.sessions[s] EXCEPT !.windows = rest,
                                        !.active = IF @ = w THEN Head(rest) ELSE @,
                                        !.version = @ + 1]
           S == Put(G.sessions, s, ses)
           W == Drop(G.windows, {w})
           P == Drop(G.panes, PanesOfWindow(G, w))
           H == Snapshot(S, W, P, G.version + 1)
<1>1. WithoutWindow(G, w) = H
  BY DEF WithoutWindow
<1>2. s \in DOMAIN G.sessions
  BY DEF Good, SessionsOwnWindows
<1>3. /\ ws \in Seq(Window) /\ IsInjective(ws) /\ G.sessions[s].active \in Range(ws)
  BY <1>2, Lists
<1>4. Range(ws) = {x \in DOMAIN G.windows : G.windows[x].session = s} /\ w \in Range(ws)
  <2>1. Range(ws) = {x \in DOMAIN G.windows : G.windows[x].session = s}
    BY <1>2 DEF Good, SessionsOwnWindows
  <2> QED BY <2>1
<1>5. /\ IsMap(G.sessions, Session, SessionRecord) /\ IsMap(G.windows, Window, WindowRecord)
      /\ IsMap(G.panes, Pane, PaneRecord) /\ G.version + 1 \in Nat
      /\ G.sessions[s] \in SessionRecord /\ G.sessions[s].version + 1 \in Nat
  BY <1>2, Records, NextVersions
<1>6. Len(ws) > 1
  OBVIOUS
<1> HIDE DEF ws, s
<1>7. /\ rest \in Seq(Window) /\ Len(rest) = Len(ws) - 1 /\ Range(rest) = Range(ws) \ {w}
      /\ IsInjective(rest)
  BY <1>3, <1>4, WithoutElement
<1> HIDE DEF rest
<1>8. Head(rest) \in Range(rest) /\ Head(rest) \in Window
  <2>1. Len(rest) > 0
    BY <1>3, <1>6, <1>7
  <2> QED BY <2>1, <1>7, HeadInRange
<1>9. ses \in SessionRecord /\ ses.windows = rest /\ ses.active \in Range(rest)
  <2> HIDE DEF S, W, P, H
  <2> QED BY <1>3, <1>5, <1>7, <1>8 DEF SessionRecord
<1> HIDE DEF ses
<1>10. /\ IsMap(S, Session, SessionRecord) /\ DOMAIN S = DOMAIN G.sessions
       /\ \A x \in DOMAIN G.sessions : S[x] = IF x = s THEN ses ELSE G.sessions[x]
  BY <1>2, <1>5, <1>9 DEF Put, IsMap
<1>11. /\ IsMap(W, Window, WindowRecord) /\ DOMAIN W = DOMAIN G.windows \ {w}
       /\ \A x \in DOMAIN W : W[x] = G.windows[x]
  BY <1>5 DEF Drop, IsMap
<1>12. /\ IsMap(P, Pane, PaneRecord)
       /\ DOMAIN P = {p \in DOMAIN G.panes : G.panes[p].window # w}
       /\ \A x \in DOMAIN P : P[x] = G.panes[x]
  BY <1>5 DEF Drop, IsMap, PanesOfWindow
<1> HIDE DEF S, W, P
<1>13. SnapshotType(H) /\ H.sessions = S /\ H.windows = W /\ H.panes = P
  BY <1>5, <1>10, <1>11, <1>12, SnapshotFields
<1> HIDE DEF H
<1>14. SessionsOwnWindows(H)
  <2>1. \A x \in DOMAIN W : W[x].session \in DOMAIN S
    BY <1>10, <1>11 DEF Good, SessionsOwnWindows
  <2>2. {x \in DOMAIN W : W[x].session = s} = Range(rest)
    BY <1>4, <1>7, <1>11
  <2>3. \A y \in DOMAIN G.sessions : y # s =>
           {x \in DOMAIN W : W[x].session = y} = {x \in DOMAIN G.windows : G.windows[x].session = y}
    BY <1>11 DEF s
  <2>4. ASSUME NEW y \in DOMAIN S
        PROVE  /\ Range(S[y].windows) = {x \in DOMAIN W : W[x].session = y}
               /\ IsInjective(S[y].windows)
               /\ S[y].active \in Range(S[y].windows)
    <3>1. CASE y = s
      <4>1. S[y].windows = rest /\ S[y].active \in Range(rest)
        BY <3>1, <1>9, <1>10
      <4> QED BY <3>1, <4>1, <2>2, <1>7
    <3>2. CASE y # s
      BY <3>2, <2>3, <1>10 DEF Good, SessionsOwnWindows
    <3> QED BY <3>1, <3>2
  <2> QED BY <2>1, <2>4, <1>13 DEF SessionsOwnWindows
<1>15. WindowsOwnPanes(H)
  <2>1. \A x \in DOMAIN P : P[x].window \in DOMAIN W
    BY <1>11, <1>12 DEF Good, WindowsOwnPanes
  <2>2. \A y \in DOMAIN W :
           {x \in DOMAIN P : P[x].window = y} = {x \in DOMAIN G.panes : G.panes[x].window = y}
    BY <1>11, <1>12
  <2> QED BY <2>1, <2>2, <1>11, <1>13 DEF Good, WindowsOwnPanes, Leaves, PanesOfWindow
<1> QED BY <1>1, <1>13, <1>14, <1>15 DEF Good

\* destroy_pane, which a window's last pane refuses
LEMMA GoodWithoutPane ==
    ASSUME NEW G, Good(G), NEW p \in DOMAIN G.panes,
           Cardinality(PanesOfWindow(G, G.panes[p].window)) > 1
    PROVE  Good(WithoutPane(G, p))
<1> DEFINE w == G.panes[p].window
           old == G.windows[w].leaves
           rest == RemoveLeaf(old, p)
           win == [G.windows[w] EXCEPT !.leaves = rest, !.zoom = None,
                                       !.active = IF @ = p THEN Head(rest) ELSE @,
                                       !.version = @ + 1]
           W == Put(G.windows, w, win)
           P == Drop(G.panes, {p})
           H == Snapshot(G.sessions, W, P, G.version + 1)
<1>1. WithoutPane(G, p) = H
  BY DEF WithoutPane
<1>2. /\ w \in DOMAIN G.windows /\ p \in Range(old) /\ old \in Seq(Pane) /\ IsInjective(old)
      /\ G.windows[w].active \in Range(old)
  BY Lists
<1>3. Range(old) = PanesOfWindow(G, w)
  BY <1>2 DEF Good, WindowsOwnPanes, Leaves
<1>4. /\ IsMap(G.sessions, Session, SessionRecord) /\ IsMap(G.windows, Window, WindowRecord)
      /\ IsMap(G.panes, Pane, PaneRecord) /\ G.version + 1 \in Nat
      /\ G.windows[w] \in WindowRecord /\ G.windows[w].version + 1 \in Nat
  BY <1>2, Records, NextVersions
<1>5. Cardinality(PanesOfWindow(G, w)) > 1
  OBVIOUS
<1> HIDE DEF w, old
<1>6. Len(old) > 1
  <2> SUFFICES ASSUME Len(old) <= 1 PROVE FALSE
    BY <1>2
  <2>1. DOMAIN old = {1}
    <3>1. DOMAIN old = 1..Len(old) /\ Len(old) \in Nat /\ DOMAIN old # {}
      BY <1>2 DEF Range
    <3> QED BY <3>1
  <2>2. Range(old) = {old[1]}
    BY <2>1 DEF Range
  <2>3. Cardinality({old[1]}) = 1
    BY FS_Singleton
  <2> QED BY <1>3, <1>5, <2>2, <2>3
<1>7. /\ rest \in Seq(Pane) /\ Len(rest) = Len(old) - 1 /\ Range(rest) = Range(old) \ {p}
      /\ IsInjective(rest)
  BY <1>2, <1>6, WithoutElement DEF RemoveLeaf
<1> HIDE DEF rest
<1>8. Head(rest) \in Range(rest) /\ Head(rest) \in Pane
  <2>1. Len(rest) > 0
    BY <1>2, <1>6, <1>7
  <2> QED BY <2>1, <1>7, HeadInRange
<1>9. /\ win \in WindowRecord /\ win.session = G.windows[w].session
      /\ win.leaves = rest /\ win.active \in Range(rest)
  <2> HIDE DEF W, P, H
  <2> QED BY <1>2, <1>4, <1>7, <1>8 DEF WindowRecord
<1> HIDE DEF win
<1>10. /\ IsMap(W, Window, WindowRecord) /\ DOMAIN W = DOMAIN G.windows
       /\ \A x \in DOMAIN G.windows : W[x] = IF x = w THEN win ELSE G.windows[x]
  BY <1>2, <1>4, <1>9 DEF Put, IsMap
<1>11. /\ IsMap(P, Pane, PaneRecord) /\ DOMAIN P = DOMAIN G.panes \ {p}
       /\ \A x \in DOMAIN P : P[x] = G.panes[x]
  BY <1>4 DEF Drop, IsMap
<1> HIDE DEF W, P
<1>12. SnapshotType(H) /\ H.sessions = G.sessions /\ H.windows = W /\ H.panes = P
  BY <1>4, <1>10, <1>11, SnapshotFields
<1> HIDE DEF H
<1>13. SessionsOwnWindows(H)
  <2>1. \A x \in DOMAIN G.windows : W[x].session = G.windows[x].session
    BY <1>9, <1>10
  <2> QED BY <2>1, <1>10, <1>12 DEF Good, SessionsOwnWindows
<1>14. WindowsOwnPanes(H)
  <2>1. \A x \in DOMAIN P : P[x].window \in DOMAIN W
    BY <1>10, <1>11 DEF Good, WindowsOwnPanes
  <2>2. {x \in DOMAIN P : P[x].window = w} = Range(rest)
    BY <1>3, <1>7, <1>11 DEF PanesOfWindow
  <2>3. \A y \in DOMAIN G.windows : y # w =>
           {x \in DOMAIN P : P[x].window = y} = {x \in DOMAIN G.panes : G.panes[x].window = y}
    BY <1>11 DEF w
  <2>4. ASSUME NEW y \in DOMAIN W
        PROVE  /\ Range(W[y].leaves) = {x \in DOMAIN P : P[x].window = y}
               /\ IsInjective(W[y].leaves)
               /\ W[y].active \in Range(W[y].leaves)
    <3>1. CASE y = w
      <4>1. W[y].leaves = rest /\ W[y].active \in Range(rest)
        BY <3>1, <1>9, <1>10
      <4> QED BY <3>1, <4>1, <2>2, <1>7
    <3>2. CASE y # w
      BY <3>2, <2>3, <1>10 DEF Good, WindowsOwnPanes, Leaves, PanesOfWindow
    <3> QED BY <3>1, <3>2
  <2> QED BY <2>1, <2>4, <1>12 DEF WindowsOwnPanes, Leaves, PanesOfWindow
<1> QED BY <1>1, <1>12, <1>13, <1>14 DEF Good

-----------------------------------------------------------------------------
(* Identifiers                                                             *)

IdsOf(G) == DOMAIN G.sessions \cup DOMAIN G.windows \cup DOMAIN G.panes

\* What each operation does to the identifiers in use: only the creations add
\* any, and only the ones they were given
LEMMA IdsGrow ==
    ASSUME NEW G, NEW s, NEW w, NEW p, NEW n, NEW t
    PROVE  /\ IdsOf(WithSession(G, s, w, p, n, t)) \subseteq IdsOf(G) \cup {s, w, p}
           /\ s \in DOMAIN G.sessions =>
                IdsOf(WithWindow(G, s, w, p, t)) \subseteq IdsOf(G) \cup {w, p}
           /\ \A q \in DOMAIN G.panes : G.panes[q].window \in DOMAIN G.windows =>
                IdsOf(WithSplit(G, q, p)) \subseteq IdsOf(G) \cup {p}
  BY DEF IdsOf, WithSession, WithWindow, WithSplit, Snapshot, Put

\* The destroys of sessions, windows and panes hand out no identifier
LEMMA IdsShrink ==
    ASSUME NEW G, Good(G)
    PROVE  /\ \A s \in DOMAIN G.sessions : IdsOf(WithoutSession(G, s)) \subseteq IdsOf(G)
           /\ \A w \in DOMAIN G.windows : IdsOf(WithoutWindow(G, w)) \subseteq IdsOf(G)
           /\ \A p \in DOMAIN G.panes : IdsOf(WithoutPane(G, p)) \subseteq IdsOf(G)
<1>1. /\ \A w \in DOMAIN G.windows : G.windows[w].session \in DOMAIN G.sessions
      /\ \A p \in DOMAIN G.panes : G.panes[p].window \in DOMAIN G.windows
  BY DEF Good, SessionsOwnWindows, WindowsOwnPanes
<1> QED BY <1>1 DEF IdsOf, WithoutSession, WithoutWindow, WithoutPane, Snapshot, Put, Drop

\* The other commands keep the identifiers of the graph
LEMMA IdsStay ==
    ASSUME NEW G, Good(G)
    PROVE  /\ \A s \in DOMAIN G.sessions :
                 /\ \A n : IdsOf(WithSessionName(G, s, n)) = IdsOf(G)
                 /\ \A ws, a : IdsOf(WithOrder(G, s, ws, a)) = IdsOf(G)
                 /\ IdsOf(WithSessionStamp(G, s)) = IdsOf(G)
           /\ \A w \in DOMAIN G.windows :
                 /\ \A t : IdsOf(WithTitle(G, w, t)) = IdsOf(G)
                 /\ \A leaves, ratios : IdsOf(WithLayout(G, w, leaves, ratios)) = IdsOf(G)
           /\ \A p \in DOMAIN G.panes :
                 /\ IdsOf(WithFocus(G, p)) = IdsOf(G)
                 /\ IdsOf(WithZoom(G, p)) = IdsOf(G)
                 /\ IdsOf(WithPaneStamp(G, p)) = IdsOf(G)
<1>1. \A p \in DOMAIN G.panes : G.panes[p].window \in DOMAIN G.windows
  BY DEF Good, WindowsOwnPanes
<1>2. \A w : DOMAIN BumpPanes(G, w) = DOMAIN G.panes
  BY DEF BumpPanes
<1>3. \A s \in DOMAIN G.sessions :
         /\ \A n : IdsOf(WithSessionName(G, s, n)) = IdsOf(G)
         /\ \A ws, a : IdsOf(WithOrder(G, s, ws, a)) = IdsOf(G)
         /\ IdsOf(WithSessionStamp(G, s)) = IdsOf(G)
  BY DEF IdsOf, WithSessionName, WithOrder, WithSessionStamp, Snapshot, Put
<1>4. \A w \in DOMAIN G.windows :
         /\ \A t : IdsOf(WithTitle(G, w, t)) = IdsOf(G)
         /\ \A leaves, ratios : IdsOf(WithLayout(G, w, leaves, ratios)) = IdsOf(G)
  BY <1>2 DEF IdsOf, WithTitle, WithLayout, Snapshot, Put
<1>5. \A p \in DOMAIN G.panes :
         /\ IdsOf(WithFocus(G, p)) = IdsOf(G)
         /\ IdsOf(WithZoom(G, p)) = IdsOf(G)
         /\ IdsOf(WithPaneStamp(G, p)) = IdsOf(G)
  BY <1>1, <1>2 DEF IdsOf, WithFocus, WithZoom, WithPaneStamp, Snapshot, Put
<1> QED BY <1>3, <1>4, <1>5

-----------------------------------------------------------------------------
(* The invariant                                                           *)

\* TypeOK and Hierarchy are inductive only together, and only with the fact
\* that every identifier in either snapshot has been handed out: without it a
\* fresh window could be one that some session already lists.
IInv ==
    /\ \A G \in Snapshots : Good(G) /\ IdsOf(G) \subseteq used
    /\ batch # None => DOMAIN batch = {"snap", "events"}
    /\ used \subseteq Session \cup Window \cup Pane

\* The daemon starts with an empty graph
LEMMA InitIInv == Init => IInv
<1> SUFFICES ASSUME Init PROVE IInv
  OBVIOUS
<1>1. DOMAIN EmptyMap = {}
  BY DEF EmptyMap
<1>2. /\ graph.sessions = EmptyMap /\ graph.windows = EmptyMap /\ graph.panes = EmptyMap
      /\ graph.version = 0 /\ graph = Snapshot(EmptyMap, EmptyMap, EmptyMap, 0)
  BY DEF Init, EmptyGraph, Snapshot
<1>3. \A K, V : IsMap(EmptyMap, K, V)
  <2> SUFFICES ASSUME NEW K, NEW V PROVE IsMap(EmptyMap, K, V)
    OBVIOUS
  <2>1. EmptyMap \in [{} -> V]
    BY DEF EmptyMap
  <2> QED BY <1>1, <2>1 DEF IsMap
<1>4. SnapshotType(graph)
  BY <1>2, <1>3 DEF SnapshotType
<1>5. SessionsOwnWindows(graph) /\ WindowsOwnPanes(graph)
  BY <1>1, <1>2 DEF SessionsOwnWindows, WindowsOwnPanes
<1>6. IdsOf(graph) = {}
  BY <1>1, <1>2 DEF IdsOf
<1> QED BY <1>4, <1>5, <1>6 DEF Init, IInv, Snapshots, Good

\* A commit of a good snapshot keeps the invariant
LEMMA CommitKeeps ==
    ASSUME IInv, NEW H, Good(H), IdsOf(H) \subseteq used',
           used \subseteq used', used' \subseteq Session \cup Window \cup Pane,
           graph' = H, batch = None, batch' = batch
    PROVE  IInv'
  BY DEF IInv, Snapshots

\* Staging a good snapshot keeps it too: the published one stays as it is
LEMMA StageKeeps ==
    ASSUME IInv, NEW H, NEW events, Good(H), IdsOf(H) \subseteq used',
           used \subseteq used', used' \subseteq Session \cup Window \cup Pane,
           graph' = graph, batch' = [snap |-> H, events |-> events]
    PROVE  IInv'
<1>1. batch'.snap = H /\ DOMAIN batch' = {"snap", "events"}
  OBVIOUS
<1>2. Good(graph') /\ IdsOf(graph') \subseteq used'
  BY DEF IInv, Snapshots
<1>3. \A G \in Snapshots' : Good(G) /\ IdsOf(G) \subseteq used'
  BY <1>1, <1>2 DEF Snapshots
<1> QED BY <1>1, <1>3 DEF IInv

\* Creating sessions, windows and panes, by command or in a batch
LEMMA CreateKeeps == IInv /\ Create => IInv'
<1> SUFFICES ASSUME IInv, Create PROVE IInv'
  OBVIOUS
<1> DEFINE Ids == Session \cup Window \cup Pane
<1>1. used \subseteq Ids
  BY DEF IInv
<1>2. ASSUME NEW s \in Fresh(Session), NEW w \in Fresh(Window), NEW p \in Fresh(Pane),
             NEW n \in Name, NEW t \in Title,
             CreateSession(s, w, p, n, t) \/ StageCreateSession(s, w, p, n, t)
      PROVE  IInv'
  <2>1. \A G \in Snapshots :
           /\ Good(WithSession(G, s, w, p, n, t))
           /\ IdsOf(WithSession(G, s, w, p, n, t)) \subseteq used \cup {s, w, p}
    <3> SUFFICES ASSUME NEW G \in Snapshots
                 PROVE  /\ Good(WithSession(G, s, w, p, n, t))
                        /\ IdsOf(WithSession(G, s, w, p, n, t)) \subseteq used \cup {s, w, p}
      OBVIOUS
    <3>1. Good(G) /\ IdsOf(G) \subseteq used
      BY DEF IInv
    <3>2. /\ s \in Session \ DOMAIN G.sessions /\ w \in Window \ DOMAIN G.windows
          /\ p \in Pane \ DOMAIN G.panes
      BY <3>1 DEF Fresh, IdsOf
    <3> QED BY <3>1, <3>2, GoodWithSession, IdsGrow
  <2>2. {s, w, p} \subseteq Ids
    BY DEF Fresh
  <2>3. CASE CreateSession(s, w, p, n, t)
    <3>1. /\ batch = None /\ batch' = batch /\ used' = used \cup {s, w, p}
          /\ graph' = WithSession(graph, s, w, p, n, t) /\ graph \in Snapshots
      BY <2>3 DEF CreateSession, Commit, Idle, Snapshots
    <3> QED BY <1>1, <2>1, <2>2, <3>1, CommitKeeps
  <2>4. CASE StageCreateSession(s, w, p, n, t)
    <3>1. /\ batch # None /\ graph' = graph /\ used' = used \cup {s, w, p}
          /\ \E ev : batch' = [snap |-> WithSession(batch.snap, s, w, p, n, t), events |-> ev]
          /\ batch.snap \in Snapshots
      BY <2>4 DEF StageCreateSession, Stage, Snapshots
    <3> QED BY <1>1, <2>1, <2>2, <3>1, StageKeeps
  <2> QED BY <1>2, <2>3, <2>4
<1>3. ASSUME NEW s \in Session, NEW w \in Fresh(Window), NEW p \in Fresh(Pane), NEW t \in Title,
             CreateWindow(s, w, p, t) \/ StageCreateWindow(s, w, p, t)
      PROVE  IInv'
  <2>1. \A G \in Snapshots : s \in DOMAIN G.sessions =>
           /\ Good(WithWindow(G, s, w, p, t))
           /\ IdsOf(WithWindow(G, s, w, p, t)) \subseteq used \cup {w, p}
    <3> SUFFICES ASSUME NEW G \in Snapshots, s \in DOMAIN G.sessions
                 PROVE  /\ Good(WithWindow(G, s, w, p, t))
                        /\ IdsOf(WithWindow(G, s, w, p, t)) \subseteq used \cup {w, p}
      OBVIOUS
    <3>1. Good(G) /\ IdsOf(G) \subseteq used
      BY DEF IInv
    <3>2. w \in Window \ DOMAIN G.windows /\ p \in Pane \ DOMAIN G.panes
      BY <3>1 DEF Fresh, IdsOf
    <3> QED BY <3>1, <3>2, GoodWithWindow, IdsGrow
  <2>2. {w, p} \subseteq Ids
    BY DEF Fresh
  <2>3. CASE CreateWindow(s, w, p, t)
    <3>1. /\ batch = None /\ batch' = batch /\ used' = used \cup {w, p}
          /\ s \in DOMAIN graph.sessions
          /\ graph' = WithWindow(graph, s, w, p, t) /\ graph \in Snapshots
      BY <2>3 DEF CreateWindow, Commit, Idle, Snapshots
    <3> QED BY <1>1, <2>1, <2>2, <3>1, CommitKeeps
  <2>4. CASE StageCreateWindow(s, w, p, t)
    <3>1. /\ batch # None /\ graph' = graph /\ used' = used \cup {w, p}
          /\ s \in DOMAIN batch.snap.sessions
          /\ \E ev : batch' = [snap |-> WithWindow(batch.snap, s, w, p, t), events |-> ev]
          /\ batch.snap \in Snapshots
      BY <2>4 DEF StageCreateWindow, Stage, Snapshots
    <3> QED BY <1>1, <2>1, <2>2, <3>1, StageKeeps
  <2> QED BY <1>3, <2>3, <2>4
<1>4. ASSUME NEW p \in Pane, NEW q \in Fresh(Pane), SplitPane(p, q) \/ StageSplitPane(p, q)
      PROVE  IInv'
  <2>1. \A G \in Snapshots : p \in DOMAIN G.panes =>
           /\ Good(WithSplit(G, p, q))
           /\ IdsOf(WithSplit(G, p, q)) \subseteq used \cup {q}
    <3> SUFFICES ASSUME NEW G \in Snapshots, p \in DOMAIN G.panes
                 PROVE  /\ Good(WithSplit(G, p, q))
                        /\ IdsOf(WithSplit(G, p, q)) \subseteq used \cup {q}
      OBVIOUS
    <3>1. Good(G) /\ IdsOf(G) \subseteq used
      BY DEF IInv
    <3>2. q \in Pane \ DOMAIN G.panes /\ G.panes[p].window \in DOMAIN G.windows
      BY <3>1 DEF Fresh, IdsOf, Good, WindowsOwnPanes
    <3>3. IdsOf(WithSplit(G, p, q)) \subseteq IdsOf(G) \cup {q}
      BY <3>2, IdsGrow
    <3> QED BY <3>1, <3>2, <3>3, GoodWithSplit
  <2>2. {q} \subseteq Ids
    BY DEF Fresh
  <2>3. CASE SplitPane(p, q)
    <3>1. /\ batch = None /\ batch' = batch /\ used' = used \cup {q}
          /\ p \in DOMAIN graph.panes
          /\ graph' = WithSplit(graph, p, q) /\ graph \in Snapshots
      BY <2>3 DEF SplitPane, Commit, Idle, Snapshots
    <3> QED BY <1>1, <2>1, <2>2, <3>1, CommitKeeps
  <2>4. CASE StageSplitPane(p, q)
    <3>1. /\ batch # None /\ graph' = graph /\ used' = used \cup {q}
          /\ p \in DOMAIN batch.snap.panes
          /\ \E ev : batch' = [snap |-> WithSplit(batch.snap, p, q), events |-> ev]
          /\ batch.snap \in Snapshots
      BY <2>4 DEF StageSplitPane, Stage, Snapshots
    <3> QED BY <1>1, <2>1, <2>2, <3>1, StageKeeps
  <2> QED BY <1>4, <2>3, <2>4
<1> QED BY <1>2, <1>3, <1>4 DEF Create

\* A command that hands out no identifier
LEMMA UpdateKeeps ==
    ASSUME IInv, NEW H, Good(H), IdsOf(H) \subseteq IdsOf(graph),
           graph' = H, batch = None, batch' = batch, used' = used
    PROVE  IInv'
<1>1. IdsOf(graph) \subseteq used /\ used \subseteq Session \cup Window \cup Pane
  BY DEF IInv, Snapshots
<1> QED BY <1>1, CommitKeeps

\* What every command finds when it starts
LEMMA GraphGood == IInv => Good(graph)
  BY DEF IInv, Snapshots

\* destroy_session
LEMMA DestroySessionKeeps ==
    ASSUME IInv, NEW s, DestroySession(s) PROVE IInv'
<1>1. Good(graph) /\ s \in DOMAIN graph.sessions
  BY GraphGood DEF DestroySession
<1>2. /\ graph' = WithoutSession(graph, s) /\ batch = None /\ batch' = batch /\ used' = used
  BY DEF DestroySession, Commit, Idle
<1>3. Good(WithoutSession(graph, s)) /\ IdsOf(WithoutSession(graph, s)) \subseteq IdsOf(graph)
  BY <1>1, GoodWithoutSession, IdsShrink
<1> QED BY <1>2, <1>3, UpdateKeeps

\* destroy_window
LEMMA DestroyWindowKeeps ==
    ASSUME IInv, NEW w, DestroyWindow(w) PROVE IInv'
<1>1. /\ Good(graph) /\ w \in DOMAIN graph.windows
      /\ Len(graph.sessions[graph.windows[w].session].windows) > 1
  BY GraphGood DEF DestroyWindow
<1>2. /\ graph' = WithoutWindow(graph, w) /\ batch = None /\ batch' = batch /\ used' = used
  BY DEF DestroyWindow, Commit, Idle
<1>3. Good(WithoutWindow(graph, w)) /\ IdsOf(WithoutWindow(graph, w)) \subseteq IdsOf(graph)
  BY <1>1, GoodWithoutWindow, IdsShrink
<1> QED BY <1>2, <1>3, UpdateKeeps

\* destroy_pane
LEMMA DestroyPaneKeeps ==
    ASSUME IInv, NEW p, DestroyPane(p) PROVE IInv'
<1>1. /\ Good(graph) /\ p \in DOMAIN graph.panes
      /\ Cardinality(PanesOfWindow(graph, graph.panes[p].window)) > 1
  BY GraphGood DEF DestroyPane
<1>2. /\ graph' = WithoutPane(graph, p) /\ batch = None /\ batch' = batch /\ used' = used
  BY DEF DestroyPane, Commit, Idle
<1>3. Good(WithoutPane(graph, p)) /\ IdsOf(WithoutPane(graph, p)) \subseteq IdsOf(graph)
  BY <1>1, GoodWithoutPane, IdsShrink
<1> QED BY <1>2, <1>3, UpdateKeeps

\* focus_pane
LEMMA FocusPaneKeeps ==
    ASSUME IInv, NEW p, FocusPane(p) PROVE IInv'
<1>1. Good(graph) /\ p \in DOMAIN graph.panes
  BY GraphGood DEF FocusPane
<1>2. /\ graph' = WithFocus(graph, p) /\ batch = None /\ batch' = batch /\ used' = used
  BY DEF FocusPane, Commit, Idle
<1>3. Good(WithFocus(graph, p)) /\ IdsOf(WithFocus(graph, p)) \subseteq IdsOf(graph)
  BY <1>1, GoodWithFocus, IdsStay
<1> QED BY <1>2, <1>3, UpdateKeeps

\* zoom_pane
LEMMA ZoomPaneKeeps ==
    ASSUME IInv, NEW p, ZoomPane(p) PROVE IInv'
<1>1. Good(graph) /\ p \in DOMAIN graph.panes
  BY GraphGood DEF ZoomPane
<1>2. /\ graph' = WithZoom(graph, p) /\ batch = None /\ batch' = batch /\ used' = used
  BY DEF ZoomPane, Commit, Idle
<1>3. Good(WithZoom(graph, p)) /\ IdsOf(WithZoom(graph, p)) \subseteq IdsOf(graph)
  BY <1>1, GoodWithZoom, IdsStay
<1> QED BY <1>2, <1>3, UpdateKeeps

\* The commands on a session
LEMMA SessionCommandKeeps == IInv /\ SessionCommand => IInv'
<1> SUFFICES ASSUME IInv, NEW s \in Session,
                    \/ DestroySession(s)
                    \/ UpdateSession(s)
                    \/ \E n \in Name : RenameSession(s, n)
             PROVE  IInv'
  BY DEF SessionCommand
<1>1. CASE DestroySession(s)
  BY <1>1, DestroySessionKeeps
<1>2. CASE UpdateSession(s)
  <2>1. Good(graph) /\ s \in DOMAIN graph.sessions
    BY <1>2, GraphGood DEF UpdateSession
  <2>2. /\ graph' = WithSessionStamp(graph, s) /\ batch = None /\ batch' = batch /\ used' = used
    BY <1>2 DEF UpdateSession, Commit, Idle
  <2>3. Good(WithSessionStamp(graph, s)) /\ IdsOf(WithSessionStamp(graph, s)) \subseteq IdsOf(graph)
    BY <2>1, GoodWithSessionStamp, IdsStay
  <2> QED BY <2>2, <2>3, UpdateKeeps
<1>3. CASE \E n \in Name : RenameSession(s, n)
  <2>1. PICK n \in Name : RenameSession(s, n)
    BY <1>3
  <2>2. Good(graph) /\ s \in DOMAIN graph.sessions
    BY <2>1, GraphGood DEF RenameSession
  <2>3. /\ graph' = WithSessionName(graph, s, n) /\ batch = None /\ batch' = batch /\ used' = used
    BY <2>1 DEF RenameSession, Commit, Idle
  <2>4. /\ Good(WithSessionName(graph, s, n))
        /\ IdsOf(WithSessionName(graph, s, n)) \subseteq IdsOf(graph)
    BY <2>2, GoodWithSessionName, IdsStay
  <2> QED BY <2>3, <2>4, UpdateKeeps
<1> QED BY <1>1, <1>2, <1>3

\* The commands on a window
LEMMA WindowCommandKeeps == IInv /\ WindowCommand => IInv'
<1> SUFFICES ASSUME IInv, NEW w \in Window,
                    \/ DestroyWindow(w)
                    \/ FocusWindow(w)
                    \/ FocusPaneDirection(w)
                    \/ \E t \in Title : RenameWindow(w, t)
                    \/ \E i \in 1..Cardinality(Window) : ReorderWindow(w, i)
             PROVE  IInv'
  BY DEF WindowCommand
<1> DEFINE s == graph.windows[w].session
           ws == graph.sessions[s].windows
<1>1. Good(graph)
  BY GraphGood
<1>2. ASSUME w \in DOMAIN graph.windows
      PROVE  /\ s \in DOMAIN graph.sessions /\ ws \in Seq(Window) /\ IsInjective(ws)
             /\ w \in Range(ws) /\ graph.sessions[s].active \in Range(ws)
  <2>1. s \in DOMAIN graph.sessions
    BY <1>1, <1>2 DEF Good, SessionsOwnWindows
  <2>2. Range(ws) = {x \in DOMAIN graph.windows : graph.windows[x].session = s}
    BY <1>1, <2>1 DEF Good, SessionsOwnWindows
  <2> QED BY <1>1, <1>2, <2>1, <2>2, Lists
<1>3. CASE DestroyWindow(w)
  BY <1>3, DestroyWindowKeeps
<1>4. CASE FocusWindow(w)
  <2>1. /\ w \in DOMAIN graph.windows
        /\ graph' = WithOrder(graph, s, ws, w) /\ batch = None /\ batch' = batch /\ used' = used
    BY <1>4 DEF FocusWindow, Commit, Idle
  <2>2. Good(WithOrder(graph, s, ws, w)) /\ IdsOf(WithOrder(graph, s, ws, w)) \subseteq IdsOf(graph)
    <3> HIDE DEF s
    <3> QED BY <1>1, <1>2, <2>1, GoodWithOrder, IdsStay
  <2> QED BY <2>1, <2>2, UpdateKeeps
<1>5. CASE FocusPaneDirection(w)
  BY <1>5, FocusPaneKeeps DEF FocusPaneDirection
<1>6. CASE \E t \in Title : RenameWindow(w, t)
  <2>1. PICK t \in Title : RenameWindow(w, t)
    BY <1>6
  <2>2. /\ w \in DOMAIN graph.windows
        /\ graph' = WithTitle(graph, w, t) /\ batch = None /\ batch' = batch /\ used' = used
    BY <2>1 DEF RenameWindow, Commit, Idle
  <2>3. Good(WithTitle(graph, w, t)) /\ IdsOf(WithTitle(graph, w, t)) \subseteq IdsOf(graph)
    BY <1>1, <2>2, GoodWithTitle, IdsStay
  <2> QED BY <2>2, <2>3, UpdateKeeps
<1>7. CASE \E i \in 1..Cardinality(Window) : ReorderWindow(w, i)
  <2>1. PICK i : ReorderWindow(w, i)
    BY <1>7
  <2> DEFINE order == InsertAt(Without(ws, w), i, w)
             a == graph.sessions[s].active
  <2>2. /\ w \in DOMAIN graph.windows /\ i \in DOMAIN ws
        /\ graph' = WithOrder(graph, s, order, a) /\ batch = None /\ batch' = batch /\ used' = used
    BY <2>1 DEF ReorderWindow, Commit, Idle
  <2> HIDE DEF s
  <2>3. /\ Without(ws, w) \in Seq(Window) /\ Len(Without(ws, w)) = Len(ws) - 1
        /\ Range(Without(ws, w)) = Range(ws) \ {w} /\ IsInjective(Without(ws, w))
    <3> HIDE DEF ws
    <3> QED BY <1>2, <2>2, WithoutElement
  <2>4. i \in 1..(Len(Without(ws, w)) + 1)
    <3> HIDE DEF ws
    <3> QED BY <1>2, <2>2, <2>3
  <2>5. /\ order \in Seq(Window) /\ Range(order) = Range(Without(ws, w)) \cup {w} /\ IsInjective(order)
    <3> HIDE DEF ws
    <3> QED BY <2>3, <2>4, InsertNew
  <2>6. Range(order) = Range(ws) /\ a \in Range(order) /\ a \in Window
    <3>1. Range(ws) \subseteq Window
      BY <1>2, <2>2 DEF Range
    <3> HIDE DEF ws, order, a
    <3> QED BY <1>2, <2>2, <2>3, <2>5, <3>1 DEF a
  <2> HIDE DEF order, a
  <2>7. Good(WithOrder(graph, s, order, a)) /\ IdsOf(WithOrder(graph, s, order, a)) \subseteq IdsOf(graph)
    BY <1>1, <1>2, <2>2, <2>5, <2>6, GoodWithOrder, IdsStay
  <2> QED BY <2>2, <2>7, UpdateKeeps
<1> QED BY <1>3, <1>4, <1>5, <1>6, <1>7

\* The commands on a pane
LEMMA PaneCommandKeeps == IInv /\ PaneCommand => IInv'
<1> SUFFICES ASSUME IInv, NEW p \in Pane,
                    \/ DestroyPane(p)
                    \/ DestroyPaneAndEmptyParents(p)
                    \/ FocusPane(p)
                    \/ ResizePane(p)
                    \/ ZoomPane(p)
                    \/ UpdatePane(p)
                    \/ \E q \in Pane : SwapPanes(p, q) \/ ZoomPaneIfFocused(p, q)
             PROVE  IInv'
  BY DEF PaneCommand
<1> DEFINE w == graph.panes[p].window
           leaves == graph.windows[w].leaves
<1>1. Good(graph)
  BY GraphGood
<1>2. ASSUME p \in DOMAIN graph.panes
      PROVE  w \in DOMAIN graph.windows /\ leaves \in Seq(Pane) /\ IsInjective(leaves)
  BY <1>1, <1>2, Lists
<1>3. CASE DestroyPane(p)
  BY <1>3, DestroyPaneKeeps
<1>4. CASE DestroyPaneAndEmptyParents(p)
  BY <1>4, DestroyPaneKeeps, DestroyWindowKeeps, DestroySessionKeeps DEF DestroyPaneAndEmptyParents
<1>5. CASE FocusPane(p)
  BY <1>5, FocusPaneKeeps
<1>6. CASE ResizePane(p)
  <2>1. PICK ratios \in Ratios :
        /\ p \in DOMAIN graph.panes
        /\ graph' = WithLayout(graph, w, leaves, ratios) /\ batch = None /\ batch' = batch /\ used' = used
    BY <1>6 DEF ResizePane, Commit, Idle
  <2>2. Good(WithLayout(graph, w, leaves, ratios)) /\ IdsOf(WithLayout(graph, w, leaves, ratios)) \subseteq IdsOf(graph)
    <3> HIDE DEF w
    <3> QED BY <1>1, <1>2, <2>1, GoodWithLayout, IdsStay
  <2> QED BY <2>1, <2>2, UpdateKeeps
<1>7. CASE ZoomPane(p)
  BY <1>7, ZoomPaneKeeps
<1>8. CASE UpdatePane(p)
  <2>1. /\ p \in DOMAIN graph.panes
        /\ graph' = WithPaneStamp(graph, p) /\ batch = None /\ batch' = batch /\ used' = used
    BY <1>8 DEF UpdatePane, Commit, Idle
  <2>2. Good(WithPaneStamp(graph, p)) /\ IdsOf(WithPaneStamp(graph, p)) \subseteq IdsOf(graph)
    BY <1>1, <2>1, GoodWithPaneStamp, IdsStay
  <2> QED BY <2>1, <2>2, UpdateKeeps
<1>9. CASE \E q \in Pane : SwapPanes(p, q) \/ ZoomPaneIfFocused(p, q)
  <2>1. PICK q \in Pane : SwapPanes(p, q) \/ ZoomPaneIfFocused(p, q)
    BY <1>9
  <2>2. CASE SwapPanes(p, q)
    <3> DEFINE swapped == SwapLeaves(leaves, p, q)
               ratios == graph.windows[w].ratios
    <3>1. /\ p \in DOMAIN graph.panes /\ p # q /\ p \in Range(leaves) /\ q \in Range(leaves)
          /\ graph' = WithLayout(graph, w, swapped, ratios) /\ batch = None /\ batch' = batch /\ used' = used
      BY <2>2 DEF SwapPanes, Commit, Idle, Leaves
    <3>2. swapped \in Seq(Pane) /\ Range(swapped) = Range(leaves) /\ IsInjective(swapped)
      <4> HIDE DEF leaves
      <4> QED BY <1>2, <3>1, SwapLeavesFacts
    <3>3. Good(WithLayout(graph, w, swapped, ratios)) /\ IdsOf(WithLayout(graph, w, swapped, ratios)) \subseteq IdsOf(graph)
      <4>1. p \in DOMAIN graph.panes => ratios \in Ratios
        BY <1>1, <1>2, Records DEF WindowRecord
      <4> HIDE DEF w, swapped, ratios
      <4> QED BY <1>1, <1>2, <3>1, <3>2, <4>1, GoodWithLayout, IdsStay
    <3> QED BY <3>1, <3>3, UpdateKeeps
  <2>3. CASE ZoomPaneIfFocused(p, q)
    BY <2>3, ZoomPaneKeeps DEF ZoomPaneIfFocused
  <2> QED BY <2>1, <2>2, <2>3
<1> QED BY <1>3, <1>4, <1>5, <1>6, <1>7, <1>8, <1>9

\* apply_batch itself, and the fires: both only move what is already good
LEMMA LoopKeeps == IInv /\ (BatchBegin \/ BatchCommit \/ BatchFail \/ Fire) => IInv'
<1> SUFFICES ASSUME IInv, BatchBegin \/ BatchCommit \/ BatchFail \/ Fire PROVE IInv'
  OBVIOUS
<1>1. CASE BatchBegin
  <2>1. /\ graph' = graph /\ used' = used /\ batch' = [snap |-> graph, events |-> <<>>]
        /\ Good(graph) /\ IdsOf(graph) \subseteq used /\ used \subseteq Session \cup Window \cup Pane
    BY <1>1 DEF BatchBegin, IInv, Snapshots
  <2> QED BY <2>1, StageKeeps
<1>2. CASE BatchCommit
  BY <1>2 DEF BatchCommit, IInv, Snapshots
<1>3. CASE BatchFail
  BY <1>3 DEF BatchFail, IInv, Snapshots
<1>4. CASE Fire
  BY <1>4 DEF Fire, IInv, Snapshots
<1> QED BY <1>1, <1>2, <1>3, <1>4

\* Every step of the graph task keeps the invariant
LEMMA NextIInv == IInv /\ [Next]_vars => IInv'
<1> SUFFICES ASSUME IInv, [Next]_vars PROVE IInv'
  OBVIOUS
<1>1. CASE UNCHANGED vars
  BY <1>1 DEF vars, IInv, Snapshots
<1>2. CASE Next
  BY <1>2, CreateKeeps, SessionCommandKeeps, WindowCommandKeeps, PaneCommandKeeps, LoopKeeps DEF Next
<1> QED BY <1>1, <1>2

\* run_graph_loop: every snapshot that is ever published, and every clone an
\* apply_batch works on, is well typed
THEOREM TypeCorrect == Spec => []TypeOK
<1>1. IInv => TypeOK
  BY DEF IInv, TypeOK, Good
<1> QED BY <1>1, InitIInv, NextIInv, PTL DEF Spec

\* The cascades of destroy_session, destroy_window and destroy_pane, the
\* splits, the swaps and the batches keep the graph a forest of non-empty
\* sessions and windows, for any number of identifiers, names and panes
THEOREM HierarchyHolds == Spec => []Hierarchy
<1>1. IInv => Hierarchy
  BY DEF IInv, Hierarchy, Good
<1> QED BY <1>1, InitIInv, NextIInv, PTL DEF Spec

-----------------------------------------------------------------------------
(* Names, zooms and versions                                               *)

\* FocusOnScreen and NamesUnique of one snapshot
ShowsFocus(G) ==
    \A w \in DOMAIN G.windows : G.windows[w].zoom # None =>
        /\ G.windows[w].zoom = G.windows[w].active
        /\ Len(G.windows[w].leaves) > 1

OneName(G) ==
    /\ \A x, y \in DOMAIN G.sessions : G.sessions[x].name = G.sessions[y].name => x = y
    /\ \A x, y \in DOMAIN G.windows :
          G.windows[x].session = G.windows[y].session
          /\ G.windows[x].title = G.windows[y].title => x = y

Tidy(G) == ShowsFocus(G) /\ OneName(G)

\* H is a later snapshot than G
Newer(G, H) ==
    /\ Stamped(G.sessions, H.sessions)
    /\ Stamped(G.windows, H.windows)
    /\ Stamped(G.panes, H.panes)
    /\ SiblingsStamped(G, H)
    /\ H.version > G.version

\* Window w gained panes in H, if it changed
MorePanes(G, H, w) ==
    \/ H.windows[w] = G.windows[w]
    \/ Leaves(G, w) \subseteq Leaves(H, w) /\ Leaves(G, w) # Leaves(H, w)

\* H has all that G has
Grows(G, H) ==
    /\ DOMAIN G.sessions \subseteq DOMAIN H.sessions
    /\ DOMAIN G.windows \subseteq DOMAIN H.windows
    /\ DOMAIN G.panes \subseteq DOMAIN H.panes
    /\ \A w \in DOMAIN G.windows : MorePanes(G, H, w)

\* Windows that keep their records, or whose set of panes changes, ask nothing
\* of the versions of their panes
LEMMA SiblingsSame ==
    ASSUME NEW G, NEW H,
           \A w \in DOMAIN G.windows \cap DOMAIN H.windows :
              H.windows[w] = G.windows[w] \/ Leaves(G, w) # Leaves(H, w)
    PROVE  SiblingsStamped(G, H)
  BY DEF SiblingsStamped, Rearranged

\* A command that replaces one session record
LEMMA SessionStep ==
    ASSUME NEW G, Good(G), Tidy(G), NEW s \in DOMAIN G.sessions, NEW r,
           r.version = G.sessions[s].version + 1,
           \A x \in DOMAIN G.sessions : G.sessions[x].name = r.name => x = s
    PROVE  LET H == Snapshot(Put(G.sessions, s, r), G.windows, G.panes, G.version + 1)
           IN  Tidy(H) /\ Newer(G, H)
<1> DEFINE S == Put(G.sessions, s, r)
           H == Snapshot(S, G.windows, G.panes, G.version + 1)
<1>1. /\ DOMAIN S = DOMAIN G.sessions
      /\ \A x \in DOMAIN G.sessions : S[x] = IF x = s THEN r ELSE G.sessions[x]
  BY DEF Put
<1> HIDE DEF S
<1>2. /\ H.sessions = S /\ H.windows = G.windows /\ H.panes = G.panes
      /\ H.version = G.version + 1 /\ G.version \in Nat
  BY Records DEF Snapshot
<1>3. G.sessions[s].version \in Nat
  BY Records DEF SessionRecord
<1> HIDE DEF H
<1>4. Tidy(H)
  BY <1>1, <1>2 DEF Tidy, ShowsFocus, OneName
<1>5. SiblingsStamped(G, H)
  BY <1>2, SiblingsSame
<1>6. Newer(G, H)
  BY <1>1, <1>2, <1>3, <1>5 DEF Newer, Stamped
<1> QED BY <1>4, <1>6 DEF H, S

\* What a new record r of window w asks of the panes P
Bumped(G, w, P) ==
    \A p \in DOMAIN G.panes \cap DOMAIN P :
        G.panes[p].window = w => P[p].version > G.panes[p].version

Relaid(G, w, r, P) ==
    \/ Range(r.leaves) # Range(G.windows[w].leaves)
    \/ /\ r.leaves = G.windows[w].leaves
       /\ r.ratios = G.windows[w].ratios
       /\ r.zoom = G.windows[w].zoom
    \/ Bumped(G, w, P)

\* A command that replaces one window record and may stamp panes
LEMMA WindowStep ==
    ASSUME NEW G, Good(G), Tidy(G), NEW w \in DOMAIN G.windows, NEW r, NEW P,
           r.version = G.windows[w].version + 1,
           r.session = G.windows[w].session,
           \A x \in DOMAIN G.windows :
              G.windows[x].session = r.session /\ G.windows[x].title = r.title => x = w,
           r.zoom # None => r.zoom = r.active /\ Len(r.leaves) > 1,
           Stamped(G.panes, P), Relaid(G, w, r, P)
    PROVE  LET H == Snapshot(G.sessions, Put(G.windows, w, r), P, G.version + 1)
           IN  Tidy(H) /\ Newer(G, H)
<1> DEFINE W == Put(G.windows, w, r)
           H == Snapshot(G.sessions, W, P, G.version + 1)
<1>1. /\ DOMAIN W = DOMAIN G.windows
      /\ \A x \in DOMAIN G.windows : W[x] = IF x = w THEN r ELSE G.windows[x]
  BY DEF Put
<1> HIDE DEF W
<1>2. /\ H.sessions = G.sessions /\ H.windows = W /\ H.panes = P
      /\ H.version = G.version + 1 /\ G.version \in Nat
  BY Records DEF Snapshot
<1>3. G.windows[w].version \in Nat
  BY Records DEF WindowRecord
<1> HIDE DEF H
<1>4. ShowsFocus(H)
  BY <1>1, <1>2 DEF Tidy, ShowsFocus
<1>5. OneName(H)
  BY <1>1, <1>2 DEF Tidy, OneName
<1>6. SiblingsStamped(G, H)
  BY <1>1, <1>2 DEF SiblingsStamped, Rearranged, Leaves, Relaid, Bumped
<1>7. Newer(G, H)
  BY <1>1, <1>2, <1>3, <1>6 DEF Newer, Stamped
<1> QED BY <1>4, <1>5, <1>7 DEF H, W, Tidy

\* The stamps of the panes of a window
LEMMA BumpStamps ==
    ASSUME NEW G, Good(G), NEW w
    PROVE  /\ Stamped(G.panes, BumpPanes(G, w)) /\ Stamped(G.panes, G.panes)
           /\ Bumped(G, w, BumpPanes(G, w))
<1>1. \A p \in DOMAIN G.panes : G.panes[p] \in [window : Window, version : Nat]
  BY Records DEF PaneRecord
<1> QED BY <1>1 DEF Stamped, BumpPanes, Bumped

\* rename_session, to a name that no session has
LEMMA StepWithSessionName ==
    ASSUME NEW G, Good(G), Tidy(G), NEW s \in DOMAIN G.sessions, NEW n, ~SessionNameExists(G, n)
    PROVE  Tidy(WithSessionName(G, s, n)) /\ Newer(G, WithSessionName(G, s, n))
<1> DEFINE r == [G.sessions[s] EXCEPT !.name = n, !.version = @ + 1]
<1>1. G.sessions[s] \in SessionRecord
  BY Records
<1>2. r.name = n /\ r.version = G.sessions[s].version + 1
  BY <1>1 DEF SessionRecord
<1>3. WithSessionName(G, s, n) = Snapshot(Put(G.sessions, s, r), G.windows, G.panes, G.version + 1)
  BY DEF WithSessionName
<1> HIDE DEF r
<1> QED BY <1>2, <1>3, SessionStep DEF SessionNameExists

\* set_session_tag, set_session_theme, focus_window, reorder_window
LEMMA StepWithOrder ==
    ASSUME NEW G, Good(G), Tidy(G), NEW s \in DOMAIN G.sessions
    PROVE  /\ Tidy(WithSessionStamp(G, s)) /\ Newer(G, WithSessionStamp(G, s))
           /\ \A ws, a : Tidy(WithOrder(G, s, ws, a)) /\ Newer(G, WithOrder(G, s, ws, a))
<1>1. G.sessions[s] \in SessionRecord
  BY Records
<1>2. \A x \in DOMAIN G.sessions : G.sessions[x].name = G.sessions[s].name => x = s
  BY DEF Tidy, OneName
<1>3. Tidy(WithSessionStamp(G, s)) /\ Newer(G, WithSessionStamp(G, s))
  <2> DEFINE r == [G.sessions[s] EXCEPT !.version = @ + 1]
  <2>1. r.name = G.sessions[s].name /\ r.version = G.sessions[s].version + 1
    BY <1>1 DEF SessionRecord
  <2>2. WithSessionStamp(G, s) = Snapshot(Put(G.sessions, s, r), G.windows, G.panes, G.version + 1)
    BY DEF WithSessionStamp
  <2> HIDE DEF r
  <2> QED BY <1>2, <2>1, <2>2, SessionStep
<1>4. ASSUME NEW ws, NEW a
      PROVE  Tidy(WithOrder(G, s, ws, a)) /\ Newer(G, WithOrder(G, s, ws, a))
  <2> DEFINE r == [G.sessions[s] EXCEPT !.windows = ws, !.active = a, !.version = @ + 1]
  <2>1. r.name = G.sessions[s].name /\ r.version = G.sessions[s].version + 1
    BY <1>1 DEF SessionRecord
  <2>2. WithOrder(G, s, ws, a) = Snapshot(Put(G.sessions, s, r), G.windows, G.panes, G.version + 1)
    BY DEF WithOrder
  <2> HIDE DEF r
  <2> QED BY <1>2, <2>1, <2>2, SessionStep
<1> QED BY <1>3, <1>4

\* rename_window, to a title that no other window of its session has
LEMMA StepWithTitle ==
    ASSUME NEW G, Good(G), Tidy(G), NEW w \in DOMAIN G.windows, NEW t,
           \A v \in Range(G.sessions[G.windows[w].session].windows) \ {w} : G.windows[v].title # t
    PROVE  Tidy(WithTitle(G, w, t)) /\ Newer(G, WithTitle(G, w, t))
<1> DEFINE r == [G.windows[w] EXCEPT !.title = t, !.version = @ + 1]
           s == G.windows[w].session
<1>1. G.windows[w] \in WindowRecord
  BY Records
<1>2. /\ r.title = t /\ r.version = G.windows[w].version + 1 /\ r.session = s
      /\ r.zoom = G.windows[w].zoom /\ r.active = G.windows[w].active
      /\ r.leaves = G.windows[w].leaves /\ r.ratios = G.windows[w].ratios
  BY <1>1 DEF WindowRecord
<1>3. WithTitle(G, w, t) = Snapshot(G.sessions, Put(G.windows, w, r), G.panes, G.version + 1)
  BY DEF WithTitle
<1> HIDE DEF r
<1>4. Range(G.sessions[s].windows) = {x \in DOMAIN G.windows : G.windows[x].session = s}
  BY DEF Good, SessionsOwnWindows
<1>5. \A x \in DOMAIN G.windows : G.windows[x].session = r.session /\ G.windows[x].title = r.title => x = w
  BY <1>2, <1>4
<1>6. r.zoom # None => r.zoom = r.active /\ Len(r.leaves) > 1
  BY <1>2 DEF Tidy, ShowsFocus
<1>7. Relaid(G, w, r, G.panes)
  BY <1>2 DEF Relaid
<1> QED BY <1>2, <1>3, <1>5, <1>6, <1>7, BumpStamps, WindowStep

\* The title of the window stays
LEMMA SameTitle ==
    ASSUME NEW G, Tidy(G), NEW w \in DOMAIN G.windows
    PROVE  \A x \in DOMAIN G.windows :
              G.windows[x].session = G.windows[w].session /\ G.windows[x].title = G.windows[w].title
              => x = w
  BY DEF Tidy, OneName

\* focus_pane clears a zoom that hides the pane it focuses
LEMMA StepWithFocus ==
    ASSUME NEW G, Good(G), Tidy(G), NEW p \in DOMAIN G.panes
    PROVE  Tidy(WithFocus(G, p)) /\ Newer(G, WithFocus(G, p))
<1> DEFINE w == G.panes[p].window
           hidden == G.windows[w].zoom \notin {None, p}
           r == [G.windows[w] EXCEPT !.zoom = IF hidden THEN None ELSE @,
                                     !.active = p, !.version = @ + 1]
           P == IF hidden THEN BumpPanes(G, w) ELSE G.panes
<1>1. w \in DOMAIN G.windows /\ G.windows[w] \in WindowRecord
  BY Lists, Records
<1>2. WithFocus(G, p) = Snapshot(G.sessions, Put(G.windows, w, r), P, G.version + 1)
  BY DEF WithFocus
<1>3. Stamped(G.panes, P) /\ (hidden => Bumped(G, w, P))
  BY BumpStamps
<1> HIDE DEF w, P
<1>4. /\ r.title = G.windows[w].title /\ r.version = G.windows[w].version + 1
      /\ r.ratios = G.windows[w].ratios
      /\ r.session = G.windows[w].session /\ r.leaves = G.windows[w].leaves /\ r.active = p
      /\ r.zoom = IF hidden THEN None ELSE G.windows[w].zoom
  BY <1>1 DEF WindowRecord
<1> HIDE DEF r
<1>5. r.zoom # None => r.zoom = r.active /\ Len(r.leaves) > 1
  BY <1>1, <1>4 DEF Tidy, ShowsFocus
<1>6. \A x \in DOMAIN G.windows : G.windows[x].session = r.session /\ G.windows[x].title = r.title => x = w
  BY <1>1, <1>4, SameTitle
<1> HIDE DEF hidden
<1>7. Relaid(G, w, r, P)
  BY <1>3, <1>4 DEF Relaid
<1> QED BY <1>1, <1>2, <1>3, <1>4, <1>5, <1>6, <1>7, WindowStep

\* zoom_pane focuses what it zooms, and only beside another pane
LEMMA StepWithZoom ==
    ASSUME NEW G, Good(G), Tidy(G), NEW p \in DOMAIN G.panes
    PROVE  Tidy(WithZoom(G, p)) /\ Newer(G, WithZoom(G, p))
<1> DEFINE w == G.panes[p].window
           zoom == ToggleZoom(G.windows[w], p)
           r == [G.windows[w] EXCEPT !.zoom = zoom,
                                     !.active = IF zoom # None THEN p ELSE @,
                                     !.version = @ + 1]
<1>1. w \in DOMAIN G.windows /\ G.windows[w] \in WindowRecord
  BY Lists, Records
<1>2. WithZoom(G, p) = Snapshot(G.sessions, Put(G.windows, w, r), BumpPanes(G, w), G.version + 1)
  BY DEF WithZoom
<1>3. Stamped(G.panes, BumpPanes(G, w)) /\ Bumped(G, w, BumpPanes(G, w))
  BY BumpStamps
<1> HIDE DEF w
<1>4. G.windows[w].leaves \in Seq(Pane)
  BY <1>1 DEF WindowRecord
<1>5. zoom # None => zoom = p /\ Len(G.windows[w].leaves) > 1
  BY <1>4 DEF ToggleZoom, ToggledZoom
<1> HIDE DEF zoom
<1>6. /\ r.title = G.windows[w].title /\ r.version = G.windows[w].version + 1
      /\ r.session = G.windows[w].session /\ r.leaves = G.windows[w].leaves
      /\ r.active = (IF zoom # None THEN p ELSE G.windows[w].active) /\ r.zoom = zoom
  BY <1>1 DEF WindowRecord
<1> HIDE DEF r
<1>7. \A x \in DOMAIN G.windows : G.windows[x].session = r.session /\ G.windows[x].title = r.title => x = w
  BY <1>1, <1>6, SameTitle
<1>8. r.zoom # None => r.zoom = r.active /\ Len(r.leaves) > 1
  BY <1>5, <1>6
<1>9. Relaid(G, w, r, BumpPanes(G, w))
  BY <1>3 DEF Relaid
<1> QED BY <1>1, <1>2, <1>3, <1>6, <1>7, <1>8, <1>9, WindowStep

\* resize_pane, swap_panes
LEMMA StepWithLayout ==
    ASSUME NEW G, Good(G), Tidy(G), NEW w \in DOMAIN G.windows, NEW leaves, NEW ratios
    PROVE  Tidy(WithLayout(G, w, leaves, ratios)) /\ Newer(G, WithLayout(G, w, leaves, ratios))
<1> DEFINE r == [G.windows[w] EXCEPT !.leaves = leaves, !.ratios = ratios,
                                     !.zoom = None, !.version = @ + 1]
<1>1. G.windows[w] \in WindowRecord
  BY Records
<1>2. WithLayout(G, w, leaves, ratios) =
         Snapshot(G.sessions, Put(G.windows, w, r), BumpPanes(G, w), G.version + 1)
  BY DEF WithLayout
<1>3. /\ r.title = G.windows[w].title /\ r.version = G.windows[w].version + 1
      /\ r.session = G.windows[w].session /\ r.zoom = None
  BY <1>1 DEF WindowRecord
<1> HIDE DEF r
<1>4. Stamped(G.panes, BumpPanes(G, w)) /\ Relaid(G, w, r, BumpPanes(G, w))
  BY BumpStamps DEF Relaid
<1> QED BY <1>2, <1>3, <1>4, SameTitle, WindowStep

\* set_pane_tag, set_pane_theme, set_pane_title, set_pane_osc_title
LEMMA StepWithPaneStamp ==
    ASSUME NEW G, Good(G), Tidy(G), NEW p \in DOMAIN G.panes
    PROVE  Tidy(WithPaneStamp(G, p)) /\ Newer(G, WithPaneStamp(G, p))
<1> DEFINE r == [G.panes[p] EXCEPT !.version = @ + 1]
           P == Put(G.panes, p, r)
           H == Snapshot(G.sessions, G.windows, P, G.version + 1)
<1>1. G.panes[p] \in [window : Window, version : Nat] /\ G.version \in Nat
  BY Records DEF PaneRecord
<1>2. r.version = G.panes[p].version + 1
  BY <1>1
<1> HIDE DEF r
<1>3. Stamped(G.panes, P)
  BY <1>1, <1>2 DEF Stamped, Put
<1> HIDE DEF P
<1>4. H.sessions = G.sessions /\ H.windows = G.windows /\ H.panes = P /\ H.version = G.version + 1
  BY DEF Snapshot
<1> HIDE DEF H
<1>5. SiblingsStamped(G, H)
  BY <1>4, SiblingsSame
<1>6. Tidy(H) /\ Newer(G, H)
  BY <1>1, <1>3, <1>4, <1>5 DEF Tidy, ShowsFocus, OneName, Newer, Stamped
<1> QED BY <1>6 DEF H, P, r, WithPaneStamp

\* split_pane_with_command, stage_split_pane: the split clears a zoom
LEMMA StepWithSplit ==
    ASSUME NEW G, Good(G), Tidy(G), NEW p \in DOMAIN G.panes, NEW q \in Pane \ DOMAIN G.panes
    PROVE  /\ Tidy(WithSplit(G, p, q)) /\ Newer(G, WithSplit(G, p, q))
           /\ Grows(G, WithSplit(G, p, q))
<1> DEFINE w == G.panes[p].window
           r == [G.windows[w] EXCEPT !.leaves = SplitLeaf(@, p, q), !.zoom = None,
                                     !.active = q, !.version = @ + 1]
           P == Put(G.panes, q, NewPane(w))
           H == Snapshot(G.sessions, Put(G.windows, w, r), P, G.version + 1)
<1>1. w \in DOMAIN G.windows /\ G.windows[w] \in WindowRecord
  BY Lists, Records
<1>2. WithSplit(G, p, q) = H
  BY DEF WithSplit
<1>3. Stamped(G.panes, P)
  BY DEF Stamped, Put
<1>4. /\ DOMAIN H.sessions = DOMAIN G.sessions /\ DOMAIN H.windows = DOMAIN G.windows \cup {w}
      /\ DOMAIN H.panes = DOMAIN G.panes \cup {q}
      /\ \A x \in DOMAIN H.windows : H.windows[x] = IF x = w THEN r ELSE G.windows[x]
  BY DEF Snapshot, Put
<1>a. /\ q \notin Range(G.windows[w].leaves) /\ p \in Range(G.windows[w].leaves)
      /\ G.windows[w].leaves \in Seq(Pane) /\ IsInjective(G.windows[w].leaves)
  BY <1>1, Lists DEF Good, WindowsOwnPanes, Leaves, PanesOfWindow
<1>b. Range(SplitLeaf(G.windows[w].leaves, p, q)) = Range(G.windows[w].leaves) \cup {q}
  <2> HIDE DEF w
  <2> QED BY <1>a, SplitLeafFacts
<1> HIDE DEF w, P
<1>5. /\ r.title = G.windows[w].title /\ r.version = G.windows[w].version + 1
      /\ r.session = G.windows[w].session /\ r.zoom = None
      /\ r.leaves = SplitLeaf(G.windows[w].leaves, p, q)
  BY <1>1 DEF WindowRecord
<1> HIDE DEF r
<1>c. Relaid(G, w, r, P)
  BY <1>5, <1>a, <1>b DEF Relaid
<1>d. Grows(G, H)
  <2> HIDE DEF H
  <2>1. \A x \in DOMAIN G.windows : MorePanes(G, H, x)
    BY <1>1, <1>4, <1>5, <1>a, <1>b DEF MorePanes, Leaves
  <2> QED BY <1>1, <1>4, <2>1 DEF Grows
<1>6. \A x \in DOMAIN G.windows : G.windows[x].session = r.session /\ G.windows[x].title = r.title => x = w
  BY <1>1, <1>5, SameTitle
<1>7. Tidy(H) /\ Newer(G, H)
  BY <1>1, <1>3, <1>5, <1>6, <1>c, WindowStep
<1> QED BY <1>2, <1>7, <1>d

\* destroy_pane: the zoom goes, whichever pane had it
LEMMA StepWithoutPane ==
    ASSUME NEW G, Good(G), Tidy(G), NEW p \in DOMAIN G.panes,
           Cardinality(PanesOfWindow(G, G.panes[p].window)) > 1
    PROVE  Tidy(WithoutPane(G, p)) /\ Newer(G, WithoutPane(G, p))
<1> DEFINE w == G.panes[p].window
           rest == RemoveLeaf(G.windows[w].leaves, p)
           r == [G.windows[w] EXCEPT !.leaves = rest, !.zoom = None,
                                     !.active = IF @ = p THEN Head(rest) ELSE @,
                                     !.version = @ + 1]
           P == Drop(G.panes, {p})
           H == Snapshot(G.sessions, Put(G.windows, w, r), P, G.version + 1)
<1>1. w \in DOMAIN G.windows /\ G.windows[w] \in WindowRecord
  BY Lists, Records
<1>2. WithoutPane(G, p) = H
  BY DEF WithoutPane
<1>3. Stamped(G.panes, P)
  BY DEF Stamped, Drop
<1>4. p \in Range(G.windows[w].leaves) /\ p \notin Range(rest)
  <2>1. p \in Range(G.windows[w].leaves) /\ WindowsOwnPanes(H)
    BY <1>2, Lists, GoodWithoutPane DEF Good
  <2> HIDE DEF w
  <2>2. r.leaves = rest
    BY <1>1 DEF WindowRecord
  <2> HIDE DEF r, rest
  <2>3. H.windows[w].leaves = rest /\ w \in DOMAIN H.windows /\ p \notin DOMAIN H.panes
    BY <2>2 DEF Snapshot, Put, Drop
  <2> HIDE DEF H
  <2> QED BY <2>1, <2>3 DEF WindowsOwnPanes, Leaves, PanesOfWindow
<1> HIDE DEF w, P, rest
<1>5. /\ r.title = G.windows[w].title /\ r.version = G.windows[w].version + 1
      /\ r.session = G.windows[w].session /\ r.zoom = None /\ r.leaves = rest
  BY <1>1 DEF WindowRecord
<1> HIDE DEF r
<1>a. Relaid(G, w, r, P)
  BY <1>4, <1>5 DEF Relaid
<1>6. \A x \in DOMAIN G.windows : G.windows[x].session = r.session /\ G.windows[x].title = r.title => x = w
  BY <1>1, <1>5, SameTitle
<1> QED BY <1>1, <1>2, <1>3, <1>5, <1>6, <1>a, WindowStep

\* create_session_with_command, stage_create_session: the name is new, and so
\* is the session of the new window
LEMMA StepWithSession ==
    ASSUME NEW G, Good(G), Tidy(G), NEW n, NEW t,
           NEW s \in Session \ DOMAIN G.sessions,
           NEW w \in Window \ DOMAIN G.windows,
           NEW p \in Pane \ DOMAIN G.panes,
           ~SessionNameExists(G, n)
    PROVE  /\ Tidy(WithSession(G, s, w, p, n, t)) /\ Newer(G, WithSession(G, s, w, p, n, t))
           /\ Grows(G, WithSession(G, s, w, p, n, t))
<1> DEFINE ses == [name |-> n, windows |-> <<w>>, active |-> w, version |-> 1]
           S == Put(G.sessions, s, ses)
           W == Put(G.windows, w, NewWindow(s, t, p))
           P == Put(G.panes, p, NewPane(w))
           H == Snapshot(S, W, P, G.version + 1)
<1>1. WithSession(G, s, w, p, n, t) = H
  BY DEF WithSession
<1>2. ses.name = n /\ NewWindow(s, t, p).session = s /\ NewWindow(s, t, p).zoom = None
  BY DEF NewWindow
<1> HIDE DEF ses
<1>3. /\ DOMAIN S = DOMAIN G.sessions \cup {s} /\ S[s] = ses
      /\ \A x \in DOMAIN G.sessions : S[x] = G.sessions[x]
  BY DEF Put
<1>4. /\ DOMAIN W = DOMAIN G.windows \cup {w} /\ W[w] = NewWindow(s, t, p)
      /\ \A x \in DOMAIN G.windows : W[x] = G.windows[x]
  BY DEF Put
<1>5. DOMAIN P = DOMAIN G.panes \cup {p} /\ \A x \in DOMAIN G.panes : P[x] = G.panes[x]
  BY DEF Put
<1> HIDE DEF S, W, P
<1>6. H.sessions = S /\ H.windows = W /\ H.panes = P /\ H.version = G.version + 1 /\ G.version \in Nat
  BY Records DEF Snapshot
<1> HIDE DEF H
<1>7. \A x \in DOMAIN G.windows : G.windows[x].session # s
  BY DEF Good, SessionsOwnWindows
<1>8. ShowsFocus(H)
  BY <1>2, <1>4, <1>6 DEF Tidy, ShowsFocus
<1>9. OneName(H)
  <2>1. \A x, y \in DOMAIN S : S[x].name = S[y].name => x = y
    BY <1>2, <1>3 DEF Tidy, OneName, SessionNameExists
  <2>2. \A x, y \in DOMAIN W : W[x].session = W[y].session /\ W[x].title = W[y].title => x = y
    BY <1>2, <1>4, <1>7 DEF Tidy, OneName
  <2> QED BY <1>6, <2>1, <2>2 DEF OneName
<1>10. Newer(G, H) /\ Grows(G, H)
  <2>1. SiblingsStamped(G, H)
    BY <1>4, <1>6, SiblingsSame
  <2>2. \A x \in DOMAIN G.windows : MorePanes(G, H, x)
    BY <1>4, <1>6 DEF MorePanes
  <2>3. Newer(G, H)
    BY <1>3, <1>4, <1>5, <1>6, <2>1 DEF Newer, Stamped
  <2> QED BY <1>3, <1>4, <1>5, <1>6, <2>2, <2>3 DEF Grows
<1> QED BY <1>1, <1>8, <1>9, <1>10 DEF Tidy

\* create_window_with_command, stage_create_window: no window of the session
\* has the title
LEMMA StepWithWindow ==
    ASSUME NEW G, Good(G), Tidy(G), NEW t,
           NEW s \in DOMAIN G.sessions,
           NEW w \in Window \ DOMAIN G.windows,
           NEW p \in Pane \ DOMAIN G.panes,
           ~WindowNameExists(G, s, t)
    PROVE  /\ Tidy(WithWindow(G, s, w, p, t)) /\ Newer(G, WithWindow(G, s, w, p, t))
           /\ Grows(G, WithWindow(G, s, w, p, t))
<1> DEFINE ses == [G.sessions[s] EXCEPT !.windows = Append(@, w), !.active = w, !.version = @ + 1]
           S == Put(G.sessions, s, ses)
           W == Put(G.windows, w, NewWindow(s, t, p))
           P == Put(G.panes, p, NewPane(w))
           H == Snapshot(S, W, P, G.version + 1)
<1>1. WithWindow(G, s, w, p, t) = H
  BY DEF WithWindow
<1>2. /\ NewWindow(s, t, p).session = s /\ NewWindow(s, t, p).zoom = None
      /\ NewWindow(s, t, p).title = t
  BY DEF NewWindow
<1>3. G.sessions[s] \in SessionRecord
  BY Records
<1>4. /\ ses.name = G.sessions[s].name /\ ses.version = G.sessions[s].version + 1
      /\ G.sessions[s].version \in Nat
  <2> HIDE DEF S, W, P, H
  <2> QED BY <1>3 DEF SessionRecord
<1> HIDE DEF ses
<1>5. /\ DOMAIN S = DOMAIN G.sessions
      /\ \A x \in DOMAIN G.sessions : S[x] = IF x = s THEN ses ELSE G.sessions[x]
  BY DEF Put
<1>6. /\ DOMAIN W = DOMAIN G.windows \cup {w} /\ W[w] = NewWindow(s, t, p)
      /\ \A x \in DOMAIN G.windows : W[x] = G.windows[x]
  BY DEF Put
<1>7. DOMAIN P = DOMAIN G.panes \cup {p} /\ \A x \in DOMAIN G.panes : P[x] = G.panes[x]
  BY DEF Put
<1> HIDE DEF S, W, P
<1>8. H.sessions = S /\ H.windows = W /\ H.panes = P /\ H.version = G.version + 1 /\ G.version \in Nat
  BY Records DEF Snapshot
<1> HIDE DEF H
<1>9. \A x \in DOMAIN G.windows : G.windows[x].session = s => G.windows[x].title # t
  BY DEF Good, SessionsOwnWindows, WindowNameExists
<1>10. ShowsFocus(H)
  BY <1>2, <1>6, <1>8 DEF Tidy, ShowsFocus
<1>11. OneName(H)
  <2>1. \A x \in DOMAIN S : S[x].name = G.sessions[x].name
    BY <1>4, <1>5
  <2>2. \A x, y \in DOMAIN S : S[x].name = S[y].name => x = y
    BY <1>5, <2>1 DEF Tidy, OneName
  <2>3. \A x, y \in DOMAIN W : W[x].session = W[y].session /\ W[x].title = W[y].title => x = y
    BY <1>2, <1>6, <1>9 DEF Tidy, OneName
  <2> QED BY <1>8, <2>2, <2>3 DEF OneName
<1>12. Newer(G, H) /\ Grows(G, H)
  <2>1. SiblingsStamped(G, H)
    BY <1>6, <1>8, SiblingsSame
  <2>2. \A x \in DOMAIN G.windows : MorePanes(G, H, x)
    BY <1>6, <1>8 DEF MorePanes
  <2>3. Newer(G, H)
    BY <1>4, <1>5, <1>6, <1>7, <1>8, <2>1 DEF Newer, Stamped
  <2> QED BY <1>4, <1>5, <1>6, <1>7, <1>8, <2>2, <2>3 DEF Grows
<1> QED BY <1>1, <1>10, <1>11, <1>12 DEF Tidy

\* A snapshot with less than G: names stay unique, and nothing left changes
LEMMA StepWithoutSession ==
    ASSUME NEW G, Good(G), Tidy(G), NEW s \in DOMAIN G.sessions
    PROVE  Tidy(WithoutSession(G, s)) /\ Newer(G, WithoutSession(G, s))
<1> DEFINE ws == Range(G.sessions[s].windows)
           S == Drop(G.sessions, {s})
           W == Drop(G.windows, ws)
           P == Drop(G.panes, {p \in DOMAIN G.panes : G.panes[p].window \in ws})
           H == Snapshot(S, W, P, G.version + 1)
<1>1. WithoutSession(G, s) = H
  BY DEF WithoutSession
<1>2. /\ DOMAIN S \subseteq DOMAIN G.sessions /\ \A x \in DOMAIN S : S[x] = G.sessions[x]
      /\ DOMAIN W \subseteq DOMAIN G.windows /\ \A x \in DOMAIN W : W[x] = G.windows[x]
      /\ DOMAIN P \subseteq DOMAIN G.panes /\ \A x \in DOMAIN P : P[x] = G.panes[x]
  BY DEF Drop
<1> HIDE DEF S, W, P
<1>3. H.sessions = S /\ H.windows = W /\ H.panes = P /\ H.version = G.version + 1 /\ G.version \in Nat
  BY Records DEF Snapshot
<1> HIDE DEF H
<1>4. Tidy(H)
  BY <1>2, <1>3 DEF Tidy, ShowsFocus, OneName
<1>5. Newer(G, H)
  <2>1. SiblingsStamped(G, H)
    BY <1>2, <1>3, SiblingsSame
  <2> QED BY <1>2, <1>3, <2>1 DEF Newer, Stamped
<1> QED BY <1>1, <1>4, <1>5

\* destroy_window
LEMMA StepWithoutWindow ==
    ASSUME NEW G, Good(G), Tidy(G), NEW w \in DOMAIN G.windows
    PROVE  Tidy(WithoutWindow(G, w)) /\ Newer(G, WithoutWindow(G, w))
<1> DEFINE s == G.windows[w].session
           rest == Without(G.sessions[s].windows, w)
           ses == [G.sessions[s] EXCEPT !.windows = rest,
                                        !.active = IF @ = w THEN Head(rest) ELSE @,
                                        !.version = @ + 1]
           S == Put(G.sessions, s, ses)
           W == Drop(G.windows, {w})
           P == Drop(G.panes, PanesOfWindow(G, w))
           H == Snapshot(S, W, P, G.version + 1)
<1>1. WithoutWindow(G, w) = H
  BY DEF WithoutWindow
<1>2. s \in DOMAIN G.sessions
  BY DEF Good, SessionsOwnWindows
<1> HIDE DEF s, rest
<1>3. /\ ses.name = G.sessions[s].name /\ ses.version = G.sessions[s].version + 1
      /\ G.sessions[s].version \in Nat
  <2> HIDE DEF S, W, P, H
  <2>1. G.sessions[s] \in SessionRecord
    BY <1>2, Records
  <2> QED BY <2>1 DEF SessionRecord
<1> HIDE DEF ses
<1>4. /\ DOMAIN S = DOMAIN G.sessions
      /\ \A x \in DOMAIN G.sessions : S[x] = IF x = s THEN ses ELSE G.sessions[x]
  BY <1>2 DEF Put
<1>5. /\ DOMAIN W \subseteq DOMAIN G.windows /\ \A x \in DOMAIN W : W[x] = G.windows[x]
      /\ DOMAIN P \subseteq DOMAIN G.panes /\ \A x \in DOMAIN P : P[x] = G.panes[x]
  BY DEF Drop
<1> HIDE DEF S, W, P
<1>6. H.sessions = S /\ H.windows = W /\ H.panes = P /\ H.version = G.version + 1 /\ G.version \in Nat
  BY Records DEF Snapshot
<1> HIDE DEF H
<1>7. \A x \in DOMAIN S : S[x].name = G.sessions[x].name
  BY <1>3, <1>4
<1>8. ShowsFocus(H)
  BY <1>5, <1>6 DEF Tidy, ShowsFocus
<1>9. OneName(H)
  BY <1>4, <1>5, <1>6, <1>7 DEF Tidy, OneName
<1>10. Newer(G, H)
  <2>1. SiblingsStamped(G, H)
    BY <1>5, <1>6, SiblingsSame
  <2> QED BY <1>3, <1>4, <1>5, <1>6, <2>1 DEF Newer, Stamped
<1> QED BY <1>1, <1>8, <1>9, <1>10 DEF Tidy

-----------------------------------------------------------------------------
(* The invariant, with names, zooms and versions                           *)

\* What a batch has made of the graph it started from
Later(G, H) == H = G \/ (Newer(G, H) /\ Grows(G, H))

\* The names, the zooms and the versions of either snapshot; the versions of a
\* batch's clone matter because it is published by one step
TInv ==
    /\ \A G \in Snapshots : Tidy(G)
    /\ batch # None => Later(graph, batch.snap)

\* A command publishes a newer snapshot
Published == batch = None /\ batch' = batch /\ Tidy(graph') /\ Newer(graph, graph')

\* An op of a batch makes the clone newer
Staged ==
    /\ batch # None /\ graph' = graph
    /\ Good(batch'.snap) /\ Tidy(batch'.snap)
    /\ Newer(batch.snap, batch'.snap) /\ Grows(batch.snap, batch'.snap)

\* The batch starts from the graph and stays newer than it.
LEMMA LaterStays ==
    ASSUME NEW G, NEW H, NEW K, Good(G), Good(H), Good(K),
           Later(G, H), Newer(H, K), Grows(H, K)
    PROVE  Newer(G, K) /\ Grows(G, K)
<1>1. /\ G.version \in Nat /\ H.version \in Nat /\ K.version \in Nat
      /\ \A x \in DOMAIN G.sessions : G.sessions[x].version \in Nat
      /\ \A x \in DOMAIN G.windows : G.windows[x].version \in Nat
      /\ \A x \in DOMAIN G.panes : G.panes[x].version \in Nat
      /\ \A x \in DOMAIN H.sessions : H.sessions[x].version \in Nat
      /\ \A x \in DOMAIN H.windows : H.windows[x].version \in Nat
      /\ \A x \in DOMAIN H.panes : H.panes[x].version \in Nat
      /\ \A x \in DOMAIN K.sessions : K.sessions[x].version \in Nat
      /\ \A x \in DOMAIN K.windows : K.windows[x].version \in Nat
      /\ \A x \in DOMAIN K.panes : K.panes[x].version \in Nat
  BY Records DEF SessionRecord, WindowRecord, PaneRecord
<1>2. CASE H = G
  BY <1>2
<1>3. CASE Newer(G, H) /\ Grows(G, H)
  <2>1. Stamped(G.sessions, K.sessions)
    BY <1>1, <1>3 DEF Newer, Grows, Stamped
  <2>2. Stamped(G.windows, K.windows)
    BY <1>1, <1>3 DEF Newer, Grows, Stamped
  <2>3. Stamped(G.panes, K.panes)
    BY <1>1, <1>3 DEF Newer, Grows, Stamped
  <2>4. K.version > G.version
    BY <1>1, <1>3 DEF Newer
  <2>5. \A w \in DOMAIN G.windows : MorePanes(G, K, w)
    BY <1>3 DEF Grows, MorePanes, Leaves
  <2>6. Grows(G, K)
    BY <1>3, <2>5 DEF Grows
  <2>7. SiblingsStamped(G, K)
    BY <2>5, SiblingsSame DEF MorePanes
  <2> QED BY <2>1, <2>2, <2>3, <2>4, <2>6, <2>7 DEF Newer
<1> QED BY <1>2, <1>3 DEF Later

\* Creations, by command or in a batch
LEMMA CreateStep == IInv /\ TInv /\ Create => Published \/ Staged
<1> SUFFICES ASSUME IInv, TInv, Create PROVE Published \/ Staged
  OBVIOUS
<1>1. \A G \in Snapshots : Good(G) /\ Tidy(G) /\ IdsOf(G) \subseteq used
  BY DEF IInv, TInv
<1>2. graph \in Snapshots /\ (batch # None => batch.snap \in Snapshots)
  BY DEF Snapshots
<1>3. ASSUME NEW s \in Fresh(Session), NEW w \in Fresh(Window), NEW p \in Fresh(Pane),
             NEW n \in Name, NEW t \in Title,
             CreateSession(s, w, p, n, t) \/ StageCreateSession(s, w, p, n, t)
      PROVE  Published \/ Staged
  <2>1. ASSUME NEW G \in Snapshots, ~SessionNameExists(G, n)
        PROVE  /\ Good(WithSession(G, s, w, p, n, t)) /\ Tidy(WithSession(G, s, w, p, n, t))
               /\ Newer(G, WithSession(G, s, w, p, n, t)) /\ Grows(G, WithSession(G, s, w, p, n, t))
    <3>1. /\ s \in Session \ DOMAIN G.sessions /\ w \in Window \ DOMAIN G.windows
          /\ p \in Pane \ DOMAIN G.panes
      BY <1>1 DEF Fresh, IdsOf
    <3> QED BY <1>1, <2>1, <3>1, GoodWithSession, StepWithSession
  <2>2. CASE CreateSession(s, w, p, n, t)
    <3>1. /\ batch = None /\ batch' = batch /\ graph' = WithSession(graph, s, w, p, n, t)
          /\ ~SessionNameExists(graph, n)
      BY <2>2 DEF CreateSession, Commit, Idle
    <3> QED BY <1>2, <2>1, <3>1 DEF Published
  <2>3. CASE StageCreateSession(s, w, p, n, t)
    <3>1. /\ batch # None /\ graph' = graph /\ batch'.snap = WithSession(batch.snap, s, w, p, n, t)
          /\ ~SessionNameExists(batch.snap, n)
      BY <2>3 DEF StageCreateSession, Stage
    <3> QED BY <1>2, <2>1, <3>1 DEF Staged
  <2> QED BY <1>3, <2>2, <2>3
<1>4. ASSUME NEW s \in Session, NEW w \in Fresh(Window), NEW p \in Fresh(Pane), NEW t \in Title,
             CreateWindow(s, w, p, t) \/ StageCreateWindow(s, w, p, t)
      PROVE  Published \/ Staged
  <2>1. ASSUME NEW G \in Snapshots, s \in DOMAIN G.sessions, ~WindowNameExists(G, s, t)
        PROVE  /\ Good(WithWindow(G, s, w, p, t)) /\ Tidy(WithWindow(G, s, w, p, t))
               /\ Newer(G, WithWindow(G, s, w, p, t)) /\ Grows(G, WithWindow(G, s, w, p, t))
    <3>1. w \in Window \ DOMAIN G.windows /\ p \in Pane \ DOMAIN G.panes
      BY <1>1 DEF Fresh, IdsOf
    <3> QED BY <1>1, <2>1, <3>1, GoodWithWindow, StepWithWindow
  <2>2. CASE CreateWindow(s, w, p, t)
    <3>1. /\ batch = None /\ batch' = batch /\ graph' = WithWindow(graph, s, w, p, t)
          /\ s \in DOMAIN graph.sessions /\ ~WindowNameExists(graph, s, t)
      BY <2>2 DEF CreateWindow, Commit, Idle
    <3> QED BY <1>2, <2>1, <3>1 DEF Published
  <2>3. CASE StageCreateWindow(s, w, p, t)
    <3>1. /\ batch # None /\ graph' = graph /\ batch'.snap = WithWindow(batch.snap, s, w, p, t)
          /\ s \in DOMAIN batch.snap.sessions /\ ~WindowNameExists(batch.snap, s, t)
      BY <2>3 DEF StageCreateWindow, Stage
    <3> QED BY <1>2, <2>1, <3>1 DEF Staged
  <2> QED BY <1>4, <2>2, <2>3
<1>5. ASSUME NEW p \in Pane, NEW q \in Fresh(Pane), SplitPane(p, q) \/ StageSplitPane(p, q)
      PROVE  Published \/ Staged
  <2>1. ASSUME NEW G \in Snapshots, p \in DOMAIN G.panes
        PROVE  /\ Good(WithSplit(G, p, q)) /\ Tidy(WithSplit(G, p, q))
               /\ Newer(G, WithSplit(G, p, q)) /\ Grows(G, WithSplit(G, p, q))
    <3>1. q \in Pane \ DOMAIN G.panes
      BY <1>1 DEF Fresh, IdsOf
    <3> QED BY <1>1, <2>1, <3>1, GoodWithSplit, StepWithSplit
  <2>2. CASE SplitPane(p, q)
    <3>1. /\ batch = None /\ batch' = batch /\ graph' = WithSplit(graph, p, q)
          /\ p \in DOMAIN graph.panes
      BY <2>2 DEF SplitPane, Commit, Idle
    <3> QED BY <1>2, <2>1, <3>1 DEF Published
  <2>3. CASE StageSplitPane(p, q)
    <3>1. /\ batch # None /\ graph' = graph /\ batch'.snap = WithSplit(batch.snap, p, q)
          /\ p \in DOMAIN batch.snap.panes
      BY <2>3 DEF StageSplitPane, Stage
    <3> QED BY <1>2, <2>1, <3>1 DEF Staged
  <2> QED BY <1>5, <2>2, <2>3
<1> QED BY <1>3, <1>4, <1>5 DEF Create

\* What every command finds when it starts
LEMMA GraphTidy == IInv /\ TInv => Good(graph) /\ Tidy(graph)
  BY DEF IInv, TInv, Snapshots

\* The destroys, which the cascade of destroy_pane_and_empty_parents calls
LEMMA DestroySessionStep ==
    ASSUME IInv, TInv, NEW s, DestroySession(s) PROVE Published
<1>1. /\ s \in DOMAIN graph.sessions /\ graph' = WithoutSession(graph, s)
      /\ batch = None /\ batch' = batch
  BY DEF DestroySession, Commit, Idle
<1> QED BY <1>1, GraphTidy, StepWithoutSession DEF Published

\* destroy_window
LEMMA DestroyWindowStep ==
    ASSUME IInv, TInv, NEW w, DestroyWindow(w) PROVE Published
<1>1. /\ w \in DOMAIN graph.windows /\ graph' = WithoutWindow(graph, w)
      /\ batch = None /\ batch' = batch
  BY DEF DestroyWindow, Commit, Idle
<1> QED BY <1>1, GraphTidy, StepWithoutWindow DEF Published

\* destroy_pane
LEMMA DestroyPaneStep ==
    ASSUME IInv, TInv, NEW p, DestroyPane(p) PROVE Published
<1>1. /\ p \in DOMAIN graph.panes /\ graph' = WithoutPane(graph, p)
      /\ Cardinality(PanesOfWindow(graph, graph.panes[p].window)) > 1
      /\ batch = None /\ batch' = batch
  BY DEF DestroyPane, Commit, Idle
<1> QED BY <1>1, GraphTidy, StepWithoutPane DEF Published

\* focus_pane
LEMMA FocusPaneStep ==
    ASSUME IInv, TInv, NEW p, FocusPane(p) PROVE Published
<1>1. /\ p \in DOMAIN graph.panes /\ graph' = WithFocus(graph, p)
      /\ batch = None /\ batch' = batch
  BY DEF FocusPane, Commit, Idle
<1> QED BY <1>1, GraphTidy, StepWithFocus DEF Published

\* zoom_pane
LEMMA ZoomPaneStep ==
    ASSUME IInv, TInv, NEW p, ZoomPane(p) PROVE Published
<1>1. /\ p \in DOMAIN graph.panes /\ graph' = WithZoom(graph, p)
      /\ batch = None /\ batch' = batch
  BY DEF ZoomPane, Commit, Idle
<1> QED BY <1>1, GraphTidy, StepWithZoom DEF Published

\* Every other command
LEMMA CommandStep ==
    IInv /\ TInv /\ (SessionCommand \/ WindowCommand \/ PaneCommand) => Published
<1> SUFFICES ASSUME IInv, TInv, SessionCommand \/ WindowCommand \/ PaneCommand PROVE Published
  OBVIOUS
<1>1. Good(graph) /\ Tidy(graph)
  BY GraphTidy
<1>2. CASE SessionCommand
  <2>1. PICK s : DestroySession(s) \/ UpdateSession(s) \/ \E n \in Name : RenameSession(s, n)
    BY <1>2 DEF SessionCommand
  <2>2. CASE DestroySession(s)
    BY <2>2, DestroySessionStep
  <2>3. CASE UpdateSession(s)
    <3>1. /\ s \in DOMAIN graph.sessions /\ graph' = WithSessionStamp(graph, s)
          /\ batch = None /\ batch' = batch
      BY <2>3 DEF UpdateSession, Commit, Idle
    <3> QED BY <1>1, <3>1, StepWithOrder DEF Published
  <2>4. CASE \E n \in Name : RenameSession(s, n)
    <3>1. PICK n : /\ s \in DOMAIN graph.sessions /\ ~SessionNameExists(graph, n)
                   /\ graph' = WithSessionName(graph, s, n)
                   /\ batch = None /\ batch' = batch
      BY <2>4 DEF RenameSession, Commit, Idle
    <3> QED BY <1>1, <3>1, StepWithSessionName DEF Published
  <2> QED BY <2>1, <2>2, <2>3, <2>4
<1>3. CASE WindowCommand
  <2>1. PICK w : \/ DestroyWindow(w) \/ FocusWindow(w) \/ FocusPaneDirection(w)
                 \/ \E t \in Title : RenameWindow(w, t)
                 \/ \E i \in 1..Cardinality(Window) : ReorderWindow(w, i)
    BY <1>3 DEF WindowCommand
  <2> DEFINE s == graph.windows[w].session
  <2>2. w \in DOMAIN graph.windows => s \in DOMAIN graph.sessions
    BY <1>1 DEF Good, SessionsOwnWindows
  <2>3. CASE DestroyWindow(w)
    BY <2>3, DestroyWindowStep
  <2>4. CASE FocusWindow(w) \/ \E i \in 1..Cardinality(Window) : ReorderWindow(w, i)
    <3>1. PICK ws, a : /\ w \in DOMAIN graph.windows /\ graph' = WithOrder(graph, s, ws, a)
                       /\ batch = None /\ batch' = batch
      BY <2>4 DEF FocusWindow, ReorderWindow, Commit, Idle
    <3> HIDE DEF s
    <3> QED BY <1>1, <2>2, <3>1, StepWithOrder DEF Published
  <2>5. CASE FocusPaneDirection(w)
    BY <2>5, FocusPaneStep DEF FocusPaneDirection
  <2>6. CASE \E t \in Title : RenameWindow(w, t)
    <3>1. PICK t : /\ w \in DOMAIN graph.windows /\ graph' = WithTitle(graph, w, t)
                   /\ \A v \in Range(graph.sessions[graph.windows[w].session].windows) \ {w} :
                         graph.windows[v].title # t
                   /\ batch = None /\ batch' = batch
      BY <2>6 DEF RenameWindow, Commit, Idle
    <3> QED BY <1>1, <3>1, StepWithTitle DEF Published
  <2> QED BY <2>1, <2>3, <2>4, <2>5, <2>6
<1>4. CASE PaneCommand
  <2>1. PICK p : \/ DestroyPane(p) \/ DestroyPaneAndEmptyParents(p) \/ FocusPane(p)
                 \/ ResizePane(p) \/ ZoomPane(p) \/ UpdatePane(p)
                 \/ \E q \in Pane : SwapPanes(p, q) \/ ZoomPaneIfFocused(p, q)
    BY <1>4 DEF PaneCommand
  <2>2. CASE DestroyPane(p) \/ DestroyPaneAndEmptyParents(p)
    BY <2>2, DestroyPaneStep, DestroyWindowStep, DestroySessionStep DEF DestroyPaneAndEmptyParents
  <2>3. CASE FocusPane(p)
    BY <2>3, FocusPaneStep
  <2>4. CASE ZoomPane(p) \/ \E q \in Pane : ZoomPaneIfFocused(p, q)
    BY <2>4, ZoomPaneStep DEF ZoomPaneIfFocused
  <2>5. CASE UpdatePane(p)
    <3>1. /\ p \in DOMAIN graph.panes /\ graph' = WithPaneStamp(graph, p)
          /\ batch = None /\ batch' = batch
      BY <2>5 DEF UpdatePane, Commit, Idle
    <3> QED BY <1>1, <3>1, StepWithPaneStamp DEF Published
  <2>6. CASE ResizePane(p) \/ \E q \in Pane : SwapPanes(p, q)
    <3>1. PICK w, leaves, ratios : /\ w = graph.panes[p].window /\ p \in DOMAIN graph.panes
                           /\ graph' = WithLayout(graph, w, leaves, ratios)
                           /\ batch = None /\ batch' = batch
      BY <2>6 DEF ResizePane, SwapPanes, Commit, Idle
    <3>2. w \in DOMAIN graph.windows
      BY <1>1, <3>1, Lists
    <3> QED BY <1>1, <3>1, <3>2, StepWithLayout DEF Published
  <2> QED BY <2>1, <2>2, <2>3, <2>4, <2>5, <2>6
<1> QED BY <1>2, <1>3, <1>4

\* What VersionStamps says of one step
VersionStep ==
    /\ Stamped(graph.sessions, graph'.sessions)
    /\ Stamped(graph.windows, graph'.windows)
    /\ Stamped(graph.panes, graph'.panes)
    /\ SiblingsStamped(graph, graph')
    /\ graph' # graph => graph'.version > graph.version

\* A graph that stays has its versions
LEMMA SameVersions == graph' = graph => VersionStep
  BY SiblingsSame DEF VersionStep, Stamped

\* Every step of the graph task keeps names, zooms and versions
LEMMA NextTInv == IInv /\ TInv /\ [Next]_vars => TInv' /\ VersionStep
<1> SUFFICES ASSUME IInv, TInv, [Next]_vars PROVE TInv' /\ VersionStep
  OBVIOUS
<1>1. CASE Published
  BY <1>1 DEF Published, TInv, Snapshots, VersionStep, Newer
<1>2. CASE Staged
  <2>1. Good(graph) /\ Good(batch.snap) /\ Later(graph, batch.snap) /\ Tidy(graph)
    BY <1>2 DEF Staged, IInv, TInv, Snapshots
  <2>2. Newer(graph, batch'.snap) /\ Grows(graph, batch'.snap)
    BY <1>2, <2>1, LaterStays DEF Staged
  <2>3. TInv'
    BY <1>2, <2>1, <2>2 DEF Staged, TInv, Snapshots, Later
  <2> QED BY <1>2, <2>3, SameVersions DEF Staged
<1>3. CASE BatchBegin
  <2>1. graph' = graph /\ batch'.snap = graph /\ Tidy(graph)
    BY <1>3, GraphTidy DEF BatchBegin
  <2> QED BY <2>1, SameVersions DEF TInv, Snapshots, Later
<1>4. CASE BatchCommit
  <2>1. batch # None /\ graph' = batch.snap /\ batch' = None
    BY <1>4 DEF BatchCommit
  <2>2. Tidy(graph') /\ Later(graph, graph')
    BY <2>1 DEF TInv, Snapshots
  <2>3. VersionStep
    BY <2>2, SameVersions DEF Later, Newer, VersionStep
  <2> QED BY <2>1, <2>2, <2>3 DEF TInv, Snapshots
<1>5. CASE BatchFail
  BY <1>5, SameVersions DEF BatchFail, TInv, Snapshots
<1>6. CASE Fire
  BY <1>6, SameVersions DEF Fire, TInv, Snapshots
<1>7. CASE UNCHANGED vars
  BY <1>7, SameVersions DEF vars, TInv, Snapshots
<1> QED BY <1>1, <1>2, <1>3, <1>4, <1>5, <1>6, <1>7, CreateStep, CommandStep DEF Next

\* The empty graph
LEMMA InitTInv == Init => TInv
<1> SUFFICES ASSUME Init PROVE TInv
  OBVIOUS
<1>1. DOMAIN graph.sessions = {} /\ DOMAIN graph.windows = {}
  BY DEF Init, EmptyGraph, Snapshot, EmptyMap
<1> QED BY <1>1 DEF Init, TInv, Snapshots, Tidy, ShowsFocus, OneName

\* Both invariants together
LEMMA TInvHolds == Spec => [](IInv /\ TInv)
<1>1. Init => IInv /\ TInv
  BY InitIInv, InitTInv
<1>2. IInv /\ TInv /\ [Next]_vars => IInv' /\ TInv'
  BY NextIInv, NextTInv
<1> QED BY <1>1, <1>2, PTL DEF Spec

\* focus_pane, zoom_pane, split, swap, resize and destroy never leave a window
\* whose zoom hides its focused pane, or that zooms its only pane
THEOREM FocusOnScreenHolds == Spec => []FocusOnScreen
<1>1. TInv => FocusOnScreen
  BY DEF TInv, Tidy, ShowsFocus, FocusOnScreen
<1> QED BY <1>1, TInvHolds, PTL

\* The checks of create_session, create_window and the renames, each against
\* the snapshot it changes, keep every name and title that addresses an entity
\* unambiguous, also between the ops of one apply_batch
THEOREM NamesUniqueHolds == Spec => []NamesUnique
<1>1. TInv => NamesUnique
  BY DEF TInv, Tidy, OneName, NamesUnique
<1> QED BY <1>1, TInvHolds, PTL

\* commit_snapshot: no command and no batch, however many ops it stages,
\* publishes a changed record under the version it had; and resize_pane,
\* swap_panes, zoom_pane and a focus that unzooms stamp every pane of a window
\* whose panes they arrange otherwise
THEOREM VersionStampsHolds == Spec => VersionStamps
<1>1. IInv /\ TInv /\ [Next]_vars => [VersionStep]_vars
  BY NextTInv
<1>2. [][VersionStep]_vars => VersionStamps
  BY DEF VersionStamps, VersionStep
<1> QED BY <1>1, <1>2, TInvHolds, PTL DEF Spec

-----------------------------------------------------------------------------
(* Events                                                                  *)

\* Events es take the view v to the view u, one by one: vs[i] is what a
\* subscriber holds after i of them
Leads(v, es, u) ==
    /\ \E S : es \in Seq(S)
    /\ \E vs : /\ vs[0] = v /\ vs[Len(es)] = u
               /\ \A i \in 1..Len(es) : vs[i] = Observe(vs[i - 1], es[i])
               /\ DOMAIN vs = 0..Len(es) /\ vs = [i \in 0..Len(es) |-> vs[i]]

\* A set that holds 0 and with each number the next holds them all
LEMMA Induct ==
    ASSUME NEW S, 0 \in S, \A n \in Nat : n \in S => n + 1 \in S
    PROVE  Nat \subseteq S
<1> DEFINE T == Nat \ S
           R == OpToRel(<, Nat)
<1> SUFFICES ASSUME T # {} PROVE FALSE
  OBVIOUS
<1>1. IsWellFoundedOn(R, Nat)
  BY NatLessThanWellFounded
<1>2. T \subseteq Nat
  OBVIOUS
<1>3. PICK x \in T : \A y \in T : ~ (<<y, x>> \in R)
  <2> HIDE DEF T, R
  <2> QED BY <1>1, <1>2, WFMin
<1>4. \A y \in T : ~(y < x)
  BY <1>3 DEF OpToRel
<1>5. x # 0 /\ x - 1 \in Nat /\ x - 1 < x
  BY <1>2
<1>6. x - 1 \in S
  BY <1>4, <1>5
<1> QED BY <1>5, <1>6

\* The views on the way are the ones the fold goes through
LEMMA LeadsFolded ==
    ASSUME NEW v, NEW es, NEW u, Leads(v, es, u)
    PROVE  Folded(v, es) = u
<1> DEFINE n == Len(es)
           Step(f) == f = [i \in 0..n |-> IF i = 0 THEN v ELSE Observe(f[i - 1], es[i])]
           after == CHOOSE f : Step(f)
<1>1. n \in Nat
  BY DEF Leads
<1>2. PICK vs : /\ vs[0] = v /\ vs[n] = u /\ vs = [i \in 0..n |-> vs[i]]
                /\ \A i \in 1..n : vs[i] = Observe(vs[i - 1], es[i])
  BY DEF Leads
<1> HIDE DEF n
<1>3. Step(vs)
  <2>1. ASSUME NEW i \in 0..n
        PROVE  vs[i] = IF i = 0 THEN v ELSE Observe(vs[i - 1], es[i])
    <3>1. i = 0 \/ i \in 1..n
      BY <1>1
    <3> QED BY <1>2, <3>1
  <2> QED BY <1>2, <2>1
<1>4. Step(after)
  <2> HIDE DEF Step
  <2> QED BY <1>3
<1>5. Folded(v, es) = after[n]
  BY DEF Folded, n
<1> HIDE DEF after
<1>6. after[0] = v /\ \A i \in 1..n : after[i] = Observe(after[i - 1], es[i])
  <2>1. \A i \in 0..n : after[i] = IF i = 0 THEN v ELSE Observe(after[i - 1], es[i])
    BY <1>4
  <2> QED BY <1>1, <2>1
<1> DEFINE S == {i \in Nat : i <= n => after[i] = vs[i]}
<1>7. 0 \in S
  BY <1>2, <1>6
<1>8. ASSUME NEW i \in Nat, i \in S PROVE i + 1 \in S
  <2> SUFFICES ASSUME i + 1 <= n PROVE after[i + 1] = vs[i + 1]
    OBVIOUS
  <2>1. i + 1 \in 1..n /\ (i + 1) - 1 = i /\ after[i] = vs[i]
    BY <1>1, <1>8
  <2>2. after[i + 1] = Observe(after[i], es[i + 1]) /\ vs[i + 1] = Observe(vs[i], es[i + 1])
    BY <1>2, <1>6, <2>1
  <2> QED BY <2>1, <2>2
<1>9. n \in S
  <2> HIDE DEF S
  <2> QED BY <1>1, <1>7, <1>8, Induct
<1> QED BY <1>1, <1>2, <1>5, <1>9

\* No event, one event
LEMMA LeadsNone ==
    ASSUME NEW v
    PROVE  Leads(v, <<>>, v)
<1> DEFINE vs == [i \in 0..0 |-> v]
<1>1. <<>> \in Seq({}) /\ Len(<<>>) = 0
  OBVIOUS
<1>2. vs[0] = v /\ vs = [i \in 0..0 |-> vs[i]] /\ DOMAIN vs = 0..0
  OBVIOUS
<1> HIDE DEF vs
<1>3. \A i \in 1..0 : vs[i] = Observe(vs[i - 1], <<>>[i])
  OBVIOUS
<1> QED BY <1>1, <1>2, <1>3 DEF Leads

LEMMA NoneLeads ==
    ASSUME NEW v, NEW u, Leads(v, <<>>, u)
    PROVE  v = u
BY DEF Leads

LEMMA LeadsOne ==
    ASSUME NEW v, NEW e
    PROVE  Leads(v, <<e>>, Observe(v, e))
<1> DEFINE vs == [i \in 0..1 |-> IF i = 0 THEN v ELSE Observe(v, e)]
<1>1. <<e>> \in Seq({e}) /\ Len(<<e>>) = 1 /\ <<e>>[1] = e
  OBVIOUS
<1>2. vs[0] = v /\ vs[1] = Observe(v, e) /\ vs = [i \in 0..1 |-> vs[i]] /\ DOMAIN vs = 0..1
  OBVIOUS
<1> HIDE DEF vs
<1>3. \A i \in 1..1 : vs[i] = Observe(vs[i - 1], <<e>>[i])
  BY <1>1, <1>2
<1> QED BY <1>1, <1>2, <1>3 DEF Leads

\* One list of events after another
LEMMA LeadsThen ==
    ASSUME NEW v, NEW a, NEW u, NEW b, NEW w, Leads(v, a, u), Leads(u, b, w)
    PROVE  Leads(v, a \o b, w)
<1>1. PICK A : a \in Seq(A)
  BY DEF Leads
<1>2. PICK B : b \in Seq(B)
  BY DEF Leads
<1>3. a \in Seq(A \cup B) /\ b \in Seq(A \cup B)
  BY <1>1, <1>2
<1> DEFINE m == Len(a)
           n == Len(b)
           c == a \o b
<1>4. /\ m \in Nat /\ n \in Nat /\ c \in Seq(A \cup B) /\ Len(c) = m + n
      /\ \A i \in 1..(m + n) : c[i] = IF i <= m THEN a[i] ELSE b[i - m]
  BY <1>3, ConcatProperties
<1>5. PICK vs : /\ vs[0] = v /\ vs[m] = u
                /\ \A i \in 1..m : vs[i] = Observe(vs[i - 1], a[i])
  BY DEF Leads
<1>6. PICK us : /\ us[0] = u /\ us[n] = w
                /\ \A i \in 1..n : us[i] = Observe(us[i - 1], b[i])
  BY DEF Leads
<1> DEFINE ws == [i \in 0..(m + n) |-> IF i <= m THEN vs[i] ELSE us[i - m]]
<1> HIDE DEF m, n, c
<1>7. ws[0] = v /\ ws[m + n] = w
  <2>1. CASE n = 0
    BY <1>4, <1>5, <1>6, <2>1
  <2>2. CASE n > 0
    BY <1>4, <1>5, <1>6, <2>2
  <2> QED BY <1>4, <2>1, <2>2
<1>8. ASSUME NEW i \in 1..(m + n) PROVE ws[i] = Observe(ws[i - 1], c[i])
  <2>1. CASE i <= m
    <3>1. i \in 1..m /\ i - 1 <= m /\ i - 1 \in 0..(m + n) /\ i \in 0..(m + n)
      BY <1>4, <2>1
    <3>2. ws[i] = vs[i] /\ ws[i - 1] = vs[i - 1] /\ c[i] = a[i]
      BY <1>4, <2>1, <3>1
    <3> QED BY <1>5, <3>1, <3>2
  <2>2. CASE i = m + 1
    <3>1. 1 \in 1..n /\ ~(i <= m) /\ i - m = 1 /\ i - 1 = m
      BY <1>4, <2>2
    <3>2. ws[i] = us[1] /\ ws[i - 1] = vs[m] /\ c[i] = b[1]
      BY <1>4, <2>2, <3>1
    <3>3. us[1] = Observe(us[0], b[1])
      <4>1. 1 - 1 = 0
        OBVIOUS
      <4> QED BY <1>6, <3>1, <4>1
    <3> QED BY <1>5, <1>6, <3>2, <3>3
  <2>3. CASE i > m + 1
    <3>1. i - m \in 1..n /\ ~(i <= m) /\ ~(i - 1 <= m) /\ (i - 1) - m = (i - m) - 1 /\ i - 1 \in 0..(m + n)
      BY <1>4, <2>3
    <3>2. ws[i] = us[i - m] /\ ws[i - 1] = us[(i - m) - 1] /\ c[i] = b[i - m]
      BY <1>4, <2>3, <3>1
    <3> QED BY <1>6, <3>1, <3>2
  <2> QED BY <1>4, <2>1, <2>2, <2>3
<1>9. ws = [i \in 0..(m + n) |-> ws[i]] /\ DOMAIN ws = 0..(m + n)
  OBVIOUS
<1> HIDE DEF ws
<1> QED BY <1>4, <1>7, <1>8, <1>9 DEF Leads, c

\* The first event is fired
LEMMA LeadsFire ==
    ASSUME NEW v, NEW es, NEW u, Leads(v, es, u), es # <<>>
    PROVE  Leads(Observe(v, Head(es)), Tail(es), u)
<1>1. PICK S : es \in Seq(S)
  BY DEF Leads
<1> DEFINE n == Len(es)
           t == Tail(es)
<1>2. /\ n \in Nat \ {0} /\ t \in Seq(S) /\ Len(t) = n - 1 /\ Head(es) = es[1]
      /\ \A i \in 1..(n - 1) : t[i] = es[i + 1]
  BY <1>1
<1>3. PICK vs : /\ vs[0] = v /\ vs[n] = u
                /\ \A i \in 1..n : vs[i] = Observe(vs[i - 1], es[i])
  BY DEF Leads
<1> HIDE DEF n, t
<1> DEFINE ws == [i \in 0..(n - 1) |-> vs[i + 1]]
<1>4. ws[0] = Observe(v, es[1]) /\ ws[n - 1] = u
  BY <1>2, <1>3
<1>5. ASSUME NEW i \in 1..(n - 1) PROVE ws[i] = Observe(ws[i - 1], t[i])
  <2>1. i + 1 \in 1..n /\ (i + 1) - 1 = i /\ i \in 0..(n - 1) /\ i - 1 \in 0..(n - 1) /\ (i - 1) + 1 = i
    BY <1>2
  <2>2. ws[i] = vs[i + 1] /\ ws[i - 1] = vs[i] /\ t[i] = es[i + 1]
    BY <1>2, <2>1
  <2> QED BY <1>3, <2>1, <2>2
<1>6. ws = [i \in 0..(n - 1) |-> ws[i]] /\ DOMAIN ws = 0..(n - 1)
  OBVIOUS
<1> HIDE DEF ws
<1> QED BY <1>2, <1>4, <1>5, <1>6 DEF Leads, t
-----------------------------------------------------------------------------
(* What the events of a command make of the view                           *)

\* The parts of a view
ViewOf(S, W, P, Z) == [sessions |-> S, windows |-> W, panes |-> P, zoomed |-> Z]
Names(G) == [s \in DOMAIN G.sessions |-> G.sessions[s].name]
Titles(G) == [w \in DOMAIN G.windows |->
                [session |-> G.windows[w].session, title |-> G.windows[w].title]]
Homes(G) == [p \in DOMAIN G.panes |-> G.panes[p].window]
Zooms(G) == {G.windows[w].zoom : w \in DOMAIN G.windows} \ {None}

LEMMA ViewParts ==
    ASSUME NEW G
    PROVE  View(G) = ViewOf(Names(G), Titles(G), Homes(G), Zooms(G))
BY DEF View, ViewOf, Names, Titles, Homes, Zooms

\* Each event changes one part of the view, an exit two
LEMMA SawSessionCreated ==
    ASSUME NEW S, NEW W, NEW P, NEW Z, NEW s, NEW n
    PROVE  Observe(ViewOf(S, W, P, Z), SessionCreated(s, n))
             = ViewOf(Put(S, s, n), W, P, Z)
BY DEF Observe, SessionCreated, ViewOf

LEMMA SawSessionRenamed ==
    ASSUME NEW S, NEW W, NEW P, NEW Z, NEW s, NEW n
    PROVE  Observe(ViewOf(S, W, P, Z), SessionRenamed(s, n))
             = ViewOf(Put(S, s, n), W, P, Z)
BY DEF Observe, SessionRenamed, ViewOf

LEMMA SawSessionKilled ==
    ASSUME NEW S, NEW W, NEW P, NEW Z, NEW s
    PROVE  Observe(ViewOf(S, W, P, Z), SessionKilled(s))
             = ViewOf(Drop(S, {s}), W, P, Z)
BY DEF Observe, SessionKilled, ViewOf

LEMMA SawWindowCreated ==
    ASSUME NEW S, NEW W, NEW P, NEW Z, NEW w, NEW s, NEW t
    PROVE  Observe(ViewOf(S, W, P, Z), WindowCreated(w, s, t))
             = ViewOf(S, Put(W, w, [session |-> s, title |-> t]), P, Z)
BY DEF Observe, WindowCreated, ViewOf

LEMMA SawWindowRenamed ==
    ASSUME NEW S, NEW W, NEW P, NEW Z, NEW w, NEW t
    PROVE  Observe(ViewOf(S, W, P, Z), WindowRenamed(w, t))
             = ViewOf(S, [W EXCEPT ![w].title = t], P, Z)
BY DEF Observe, WindowRenamed, ViewOf

LEMMA SawWindowKilled ==
    ASSUME NEW S, NEW W, NEW P, NEW Z, NEW w
    PROVE  Observe(ViewOf(S, W, P, Z), WindowKilled(w))
             = ViewOf(S, Drop(W, {w}), P, Z)
BY DEF Observe, WindowKilled, ViewOf

LEMMA SawPaneCreated ==
    ASSUME NEW S, NEW W, NEW P, NEW Z, NEW p, NEW w
    PROVE  Observe(ViewOf(S, W, P, Z), PaneCreated(p, w))
             = ViewOf(S, W, Put(P, p, w), Z)
BY DEF Observe, PaneCreated, ViewOf

LEMMA SawPaneKilled ==
    ASSUME NEW S, NEW W, NEW P, NEW Z, NEW p
    PROVE  Observe(ViewOf(S, W, P, Z), PaneKilled(p))
             = ViewOf(S, W, Drop(P, {p}), Z \ {p})
BY DEF Observe, PaneKilled, ViewOf

\* fire_unzoomed
LEMMA LeadsUnzoomed ==
    ASSUME NEW S, NEW W, NEW P, NEW Z, NEW z, None \notin Z
    PROVE  Leads(ViewOf(S, W, P, Z), Unzoomed(z), ViewOf(S, W, P, Z \ {z}))
<1>1. CASE z = None
  <2>1. Z \ {z} = Z /\ Unzoomed(z) = <<>>
    BY <1>1 DEF Unzoomed
  <2> QED BY <2>1, LeadsNone
<1>2. CASE z # None
  <2>1. Unzoomed(z) = <<PaneZoomed(z, FALSE)>>
    BY <1>2 DEF Unzoomed
  <2>2. Observe(ViewOf(S, W, P, Z), PaneZoomed(z, FALSE)) = ViewOf(S, W, P, Z \ {z})
    BY DEF Observe, PaneZoomed, ViewOf
  <2> QED BY <2>1, <2>2, LeadsOne
<1> QED BY <1>1, <1>2

\* Two lists of events, the second of one event
LEMMA LeadsAppend ==
    ASSUME NEW v, NEW es, NEW u, NEW e, Leads(v, es, u)
    PROVE  Leads(v, Append(es, e), Observe(u, e))
<1>1. PICK S : es \in Seq(S)
  BY DEF Leads
<1>2. Append(es, e) = es \o <<e>>
  <2>1. es \in Seq(S \cup {e})
    BY <1>1
  <2> QED BY <2>1
<1> QED BY <1>2, LeadsOne, LeadsThen

\* Events for a list of panes, for a list of windows
LEMMA LeadsPanesKilled ==
    ASSUME NEW S, NEW W, NEW P, NEW Z, NEW A, NEW l \in Seq(A), P = [p \in DOMAIN P |-> P[p]]
    PROVE  Leads(ViewOf(S, W, P, Z), [i \in DOMAIN l |-> PaneKilled(l[i])],
                 ViewOf(S, W, Drop(P, Range(l)), Z \ Range(l)))
<1> DEFINE n == Len(l)
           es == [i \in DOMAIN l |-> PaneKilled(l[i])]
           D(i) == {l[j] : j \in 1..i}
           V(i) == ViewOf(S, W, Drop(P, D(i)), Z \ D(i))
           vs == [i \in 0..n |-> V(i)]
<1>1. n \in Nat /\ DOMAIN l = 1..n /\ es \in Seq({PaneKilled(l[i]) : i \in DOMAIN l}) /\ Len(es) = n
  OBVIOUS
<1>2. V(0) = ViewOf(S, W, P, Z)
  <2>1. D(0) = {}
    OBVIOUS
  <2>2. Drop(P, {}) = P
    BY DEF Drop
  <2> QED BY <2>1, <2>2
<1>3. V(n) = ViewOf(S, W, Drop(P, Range(l)), Z \ Range(l))
  <2>1. D(n) = Range(l)
    BY <1>1 DEF Range
  <2> QED BY <2>1
<1>4. ASSUME NEW i \in 1..n PROVE V(i) = Observe(V(i - 1), es[i])
  <2>1. es[i] = PaneKilled(l[i]) /\ D(i) = D(i - 1) \cup {l[i]}
    BY <1>1
  <2> HIDE DEF D
  <2>2. Drop(Drop(P, D(i - 1)), {l[i]}) = Drop(P, D(i)) /\ (Z \ D(i - 1)) \ {l[i]} = Z \ D(i)
    BY <2>1 DEF Drop
  <2>3. Observe(V(i - 1), PaneKilled(l[i]))
          = ViewOf(S, W, Drop(Drop(P, D(i - 1)), {l[i]}), (Z \ D(i - 1)) \ {l[i]})
    BY SawPaneKilled
  <2> QED BY <2>1, <2>2, <2>3
<1> HIDE DEF V, n, es
<1>5. /\ vs[0] = V(0) /\ vs[n] = V(n) /\ DOMAIN vs = 0..n /\ vs = [i \in 0..n |-> vs[i]]
      /\ \A i \in 1..n : vs[i] = V(i) /\ vs[i - 1] = V(i - 1)
  BY <1>1
<1> HIDE DEF vs
<1>6. \A i \in 1..n : vs[i] = Observe(vs[i - 1], es[i])
  BY <1>4, <1>5
<1> QED BY <1>1, <1>2, <1>3, <1>5, <1>6 DEF Leads, es

LEMMA LeadsWindowsKilled ==
    ASSUME NEW S, NEW W, NEW P, NEW Z, NEW A, NEW l \in Seq(A), W = [w \in DOMAIN W |-> W[w]]
    PROVE  Leads(ViewOf(S, W, P, Z), [i \in DOMAIN l |-> WindowKilled(l[i])],
                 ViewOf(S, Drop(W, Range(l)), P, Z))
<1> DEFINE n == Len(l)
           es == [i \in DOMAIN l |-> WindowKilled(l[i])]
           D(i) == {l[j] : j \in 1..i}
           V(i) == ViewOf(S, Drop(W, D(i)), P, Z)
           vs == [i \in 0..n |-> V(i)]
<1>1. n \in Nat /\ DOMAIN l = 1..n /\ es \in Seq({WindowKilled(l[i]) : i \in DOMAIN l}) /\ Len(es) = n
  OBVIOUS
<1>2. V(0) = ViewOf(S, W, P, Z)
  <2>1. D(0) = {}
    OBVIOUS
  <2>2. Drop(W, {}) = W
    BY DEF Drop
  <2> QED BY <2>1, <2>2
<1>3. V(n) = ViewOf(S, Drop(W, Range(l)), P, Z)
  <2>1. D(n) = Range(l)
    BY <1>1 DEF Range
  <2> QED BY <2>1
<1>4. ASSUME NEW i \in 1..n PROVE V(i) = Observe(V(i - 1), es[i])
  <2>1. es[i] = WindowKilled(l[i]) /\ D(i) = D(i - 1) \cup {l[i]}
    BY <1>1
  <2> HIDE DEF D
  <2>2. Drop(Drop(W, D(i - 1)), {l[i]}) = Drop(W, D(i))
    BY <2>1 DEF Drop
  <2>3. Observe(V(i - 1), WindowKilled(l[i])) = ViewOf(S, Drop(Drop(W, D(i - 1)), {l[i]}), P, Z)
    BY SawWindowKilled
  <2> QED BY <2>1, <2>2, <2>3
<1> HIDE DEF V, n, es
<1>5. /\ vs[0] = V(0) /\ vs[n] = V(n) /\ DOMAIN vs = 0..n /\ vs = [i \in 0..n |-> vs[i]]
      /\ \A i \in 1..n : vs[i] = V(i) /\ vs[i - 1] = V(i - 1)
  BY <1>1
<1> HIDE DEF vs
<1>6. \A i \in 1..n : vs[i] = Observe(vs[i - 1], es[i])
  BY <1>4, <1>5
<1> QED BY <1>1, <1>2, <1>3, <1>5, <1>6 DEF Leads, es

-----------------------------------------------------------------------------
(* The view of what each operation makes of a snapshot                     *)

\* A zoomed pane is a pane of the window that is zoomed on it
LEMMA ZoomHome ==
    ASSUME NEW G, Good(G), ShowsFocus(G), NEW w \in DOMAIN G.windows, G.windows[w].zoom # None
    PROVE  G.windows[w].zoom \in DOMAIN G.panes /\ G.panes[G.windows[w].zoom].window = w
<1>1. G.windows[w].zoom = G.windows[w].active /\ G.windows[w].active \in Leaves(G, w)
  BY DEF Good, ShowsFocus, WindowsOwnPanes
<1> QED BY <1>1 DEF Good, WindowsOwnPanes, PanesOfWindow

\* One window gets another record of the same title
LEMMA ViewWithRecord ==
    ASSUME NEW G, Good(G), ShowsFocus(G), NEW w \in DOMAIN G.windows, NEW r, NEW H,
           r.session = G.windows[w].session, r.title = G.windows[w].title,
           H.sessions = G.sessions, H.windows = Put(G.windows, w, r)
    PROVE  View(H) = ViewOf(Names(G), Titles(G), Homes(H),
                            (Zooms(G) \ {G.windows[w].zoom}) \cup ({r.zoom} \ {None}))
<1>1. DOMAIN H.windows = DOMAIN G.windows
  BY DEF Put
<1>2. \A x \in DOMAIN G.windows : H.windows[x] = IF x = w THEN r ELSE G.windows[x]
  BY DEF Put
<1>3. Names(H) = Names(G)
  BY DEF Names
<1>4. Titles(H) = Titles(G)
  BY <1>1, <1>2 DEF Titles
<1>5. \A x \in DOMAIN G.windows : x # w /\ G.windows[x].zoom # None => G.windows[x].zoom # G.windows[w].zoom
  BY ZoomHome
<1>6. Zooms(H) = (Zooms(G) \ {G.windows[w].zoom}) \cup ({r.zoom} \ {None})
  BY <1>1, <1>2, <1>5 DEF Zooms
<1> QED BY <1>3, <1>4, <1>6, ViewParts
\* split_pane
LEMMA LeadsSplit ==
    ASSUME NEW G, Good(G), ShowsFocus(G), NEW p \in DOMAIN G.panes, NEW q
    PROVE  Leads(View(G), Append(Unzoomed(G.windows[G.panes[p].window].zoom),
                                 PaneCreated(q, G.panes[p].window)),
                 View(WithSplit(G, p, q)))
<1> DEFINE w == G.panes[p].window
           H == WithSplit(G, p, q)
           r == [G.windows[w] EXCEPT !.leaves = SplitLeaf(@, p, q), !.zoom = None,
                                     !.active = q, !.version = @ + 1]
           Z == Zooms(G) \ {G.windows[w].zoom}
<1>1. w \in DOMAIN G.windows /\ G.windows[w] \in WindowRecord
  BY Records DEF Good, WindowsOwnPanes
<1>2. r.session = G.windows[w].session /\ r.title = G.windows[w].title /\ r.zoom = None
  <2> HIDE DEF w
  <2> QED BY <1>1 DEF WindowRecord
<1>3. H.sessions = G.sessions /\ H.windows = Put(G.windows, w, r) /\ H.panes = Put(G.panes, q, NewPane(w))
  BY DEF WithSplit, Snapshot
<1>4. Homes(H) = Put(Homes(G), q, w)
  <2> HIDE DEF H, w
  <2> QED BY <1>3 DEF Homes, Put, NewPane
<1>5. View(H) = ViewOf(Names(G), Titles(G), Put(Homes(G), q, w), Z)
  <2> HIDE DEF H, w, r
  <2>1. (Zooms(G) \ {G.windows[w].zoom}) \cup ({r.zoom} \ {None}) = Z
    BY <1>2
  <2> QED BY <1>1, <1>2, <1>3, <1>4, <2>1, ViewWithRecord
<1>6. Leads(View(G), Unzoomed(G.windows[w].zoom), ViewOf(Names(G), Titles(G), Homes(G), Z))
  <2>1. None \notin Zooms(G)
    BY DEF Zooms
  <2> QED BY <2>1, LeadsUnzoomed, ViewParts
<1> HIDE DEF H, w, r, Z
<1>7. Observe(ViewOf(Names(G), Titles(G), Homes(G), Z), PaneCreated(q, w)) = View(H)
  BY <1>5, SawPaneCreated
<1>8. Leads(View(G), Append(Unzoomed(G.windows[w].zoom), PaneCreated(q, w)), View(H))
  BY <1>6, <1>7, LeadsAppend
<1> QED BY <1>8 DEF H, w

\* destroy_pane
LEMMA LeadsWithoutPane ==
    ASSUME NEW G, Good(G), ShowsFocus(G), NEW p \in DOMAIN G.panes
    PROVE  Leads(View(G), Append(Unzoomed(G.windows[G.panes[p].window].zoom), PaneKilled(p)),
                 View(WithoutPane(G, p)))
<1> DEFINE w == G.panes[p].window
           H == WithoutPane(G, p)
           rest == RemoveLeaf(G.windows[w].leaves, p)
           r == [G.windows[w] EXCEPT !.leaves = rest, !.zoom = None,
                                     !.active = IF @ = p THEN Head(rest) ELSE @,
                                     !.version = @ + 1]
           Z == Zooms(G) \ {G.windows[w].zoom}
<1>1. w \in DOMAIN G.windows /\ G.windows[w] \in WindowRecord
  BY Records DEF Good, WindowsOwnPanes
<1>2. r.session = G.windows[w].session /\ r.title = G.windows[w].title /\ r.zoom = None
  <2> HIDE DEF w, rest
  <2> QED BY <1>1 DEF WindowRecord
<1>3. H.sessions = G.sessions /\ H.windows = Put(G.windows, w, r) /\ H.panes = Drop(G.panes, {p})
  BY DEF WithoutPane, Snapshot
<1>4. Homes(H) = Drop(Homes(G), {p})
  <2> HIDE DEF H, w
  <2> QED BY <1>3 DEF Homes, Drop
<1>5. View(H) = ViewOf(Names(G), Titles(G), Drop(Homes(G), {p}), Z)
  <2> HIDE DEF H, w, r
  <2>1. (Zooms(G) \ {G.windows[w].zoom}) \cup ({r.zoom} \ {None}) = Z
    BY <1>2
  <2> QED BY <1>1, <1>2, <1>3, <1>4, <2>1, ViewWithRecord
<1>6. Leads(View(G), Unzoomed(G.windows[w].zoom), ViewOf(Names(G), Titles(G), Homes(G), Z))
  <2>1. None \notin Zooms(G)
    BY DEF Zooms
  <2> QED BY <2>1, LeadsUnzoomed, ViewParts
<1>7. Z \ {p} = Z
  <2>1. \A x \in DOMAIN G.windows : G.windows[x].zoom # None /\ G.windows[x].zoom = p => x = w
    BY ZoomHome
  <2> HIDE DEF w
  <2> QED BY <2>1 DEF Zooms
<1> HIDE DEF H, w, r, Z
<1>8. Observe(ViewOf(Names(G), Titles(G), Homes(G), Z), PaneKilled(p)) = View(H)
  BY <1>5, <1>7, SawPaneKilled
<1>9. Leads(View(G), Append(Unzoomed(G.windows[w].zoom), PaneKilled(p)), View(H))
  BY <1>6, <1>8, LeadsAppend
<1> QED BY <1>9 DEF H, w

\* Stamping panes moves none of them
LEMMA HomesBumped ==
    ASSUME NEW G, Good(G), NEW H, NEW w, H.panes = BumpPanes(G, w)
    PROVE  Homes(H) = Homes(G)
<1>1. SnapshotType(G)
  BY DEF Good
<1> QED BY <1>1, BumpFacts DEF Homes

\* resize_pane, swap_panes
LEMMA LeadsLayout ==
    ASSUME NEW G, Good(G), ShowsFocus(G), NEW w \in DOMAIN G.windows, NEW l, NEW ratios
    PROVE  Leads(View(G), Unzoomed(G.windows[w].zoom), View(WithLayout(G, w, l, ratios)))
<1> DEFINE H == WithLayout(G, w, l, ratios)
           r == [G.windows[w] EXCEPT !.leaves = l, !.ratios = ratios,
                                     !.zoom = None, !.version = @ + 1]
           Z == Zooms(G) \ {G.windows[w].zoom}
<1>1. G.windows[w] \in WindowRecord
  BY Records
<1>2. r.session = G.windows[w].session /\ r.title = G.windows[w].title /\ r.zoom = None
  BY <1>1 DEF WindowRecord
<1>3. H.sessions = G.sessions /\ H.windows = Put(G.windows, w, r) /\ H.panes = BumpPanes(G, w)
  BY DEF WithLayout, Snapshot
<1>4. Homes(H) = Homes(G)
  <2> HIDE DEF H
  <2> QED BY <1>3, HomesBumped
<1>5. View(H) = ViewOf(Names(G), Titles(G), Homes(G), Z)
  <2> HIDE DEF H, r
  <2>1. (Zooms(G) \ {G.windows[w].zoom}) \cup ({r.zoom} \ {None}) = Z
    BY <1>2
  <2> QED BY <1>1, <1>2, <1>3, <1>4, <2>1, ViewWithRecord
<1>6. None \notin Zooms(G)
  BY DEF Zooms
<1> QED BY <1>5, <1>6, LeadsUnzoomed, ViewParts

\* focus_pane
LEMMA LeadsFocus ==
    ASSUME NEW G, Good(G), ShowsFocus(G), NEW p \in DOMAIN G.panes
    PROVE  LET zoom == G.windows[G.panes[p].window].zoom
           IN  Leads(View(G), IF zoom = p THEN <<>> ELSE Unzoomed(zoom), View(WithFocus(G, p)))
<1> DEFINE w == G.panes[p].window
           zoom == G.windows[w].zoom
           H == WithFocus(G, p)
           hidden == zoom \notin {None, p}
           r == [G.windows[w] EXCEPT !.zoom = IF hidden THEN None ELSE @,
                                     !.active = p, !.version = @ + 1]
<1>1. w \in DOMAIN G.windows /\ G.windows[w] \in WindowRecord
  BY Records DEF Good, WindowsOwnPanes
<1>2. /\ r.session = G.windows[w].session /\ r.title = G.windows[w].title
      /\ r.zoom = IF hidden THEN None ELSE zoom
  <2> HIDE DEF w
  <2> QED BY <1>1 DEF WindowRecord
<1>3. /\ H.sessions = G.sessions /\ H.windows = Put(G.windows, w, r)
      /\ H.panes = IF hidden THEN BumpPanes(G, w) ELSE G.panes
  BY DEF WithFocus, Snapshot
<1>4. Homes(H) = Homes(G)
  <2> HIDE DEF H, hidden
  <2>1. CASE hidden
    BY <1>3, <2>1, HomesBumped
  <2>2. CASE ~hidden
    BY <1>3, <2>2 DEF Homes
  <2> QED BY <2>1, <2>2
<1>5. View(H) = ViewOf(Names(G), Titles(G), Homes(G), (Zooms(G) \ {zoom}) \cup ({r.zoom} \ {None}))
  <2> HIDE DEF H, w, r
  <2> QED BY <1>1, <1>2, <1>3, <1>4, ViewWithRecord
<1>6. None \notin Zooms(G) /\ (zoom # None => zoom \in Zooms(G))
  <2> HIDE DEF w
  <2> QED BY <1>1 DEF Zooms
<1> HIDE DEF H, r, w, zoom
<1>7. CASE hidden
  <2>1. (Zooms(G) \ {zoom}) \cup ({r.zoom} \ {None}) = Zooms(G) \ {zoom} /\ zoom # p
    BY <1>2, <1>7
  <2>2. Leads(View(G), Unzoomed(zoom), View(H))
    BY <1>5, <1>6, <2>1, LeadsUnzoomed, ViewParts
  <2> QED BY <2>1, <2>2 DEF zoom, w, H
<1>8. CASE ~hidden
  <2>1. (Zooms(G) \ {zoom}) \cup ({r.zoom} \ {None}) = Zooms(G)
    BY <1>2, <1>6, <1>8
  <2>2. Leads(View(G), <<>>, View(H))
    BY <1>5, <2>1, LeadsNone, ViewParts
  <2>3. zoom # p => Unzoomed(zoom) = <<>>
    BY <1>8 DEF Unzoomed
  <2> QED BY <2>2, <2>3 DEF zoom, w, H
<1> QED BY <1>7, <1>8

\* zoom_pane
LEMMA LeadsZoom ==
    ASSUME NEW G, Good(G), ShowsFocus(G), NEW p \in DOMAIN G.panes
    PROVE  LET win == G.windows[G.panes[p].window]
               zoom == ToggleZoom(win, p)
           IN  Leads(View(G), Unzoomed(win.zoom)
                                \o (IF zoom = None THEN <<>> ELSE <<PaneZoomed(zoom, TRUE)>>),
                     View(WithZoom(G, p)))
<1> DEFINE w == G.panes[p].window
           old == G.windows[w].zoom
           zoom == ToggleZoom(G.windows[w], p)
           H == WithZoom(G, p)
           r == [G.windows[w] EXCEPT !.zoom = zoom, !.active = IF zoom # None THEN p ELSE @,
                                     !.version = @ + 1]
           Z == Zooms(G) \ {old}
<1>1. w \in DOMAIN G.windows /\ G.windows[w] \in WindowRecord
  BY Records DEF Good, WindowsOwnPanes
<1>2. r.session = G.windows[w].session /\ r.title = G.windows[w].title /\ r.zoom = zoom
  <2> HIDE DEF w, zoom
  <2> QED BY <1>1 DEF WindowRecord
<1>3. H.sessions = G.sessions /\ H.windows = Put(G.windows, w, r) /\ H.panes = BumpPanes(G, w)
  BY DEF WithZoom, Snapshot
<1>4. Homes(H) = Homes(G)
  <2> HIDE DEF H
  <2> QED BY <1>3, HomesBumped
<1>5. View(H) = ViewOf(Names(G), Titles(G), Homes(G), Z \cup ({zoom} \ {None}))
  <2> HIDE DEF H, w, r, zoom
  <2> QED BY <1>1, <1>2, <1>3, <1>4, ViewWithRecord
<1>6. Leads(View(G), Unzoomed(old), ViewOf(Names(G), Titles(G), Homes(G), Z))
  <2>1. None \notin Zooms(G)
    BY DEF Zooms
  <2> QED BY <2>1, LeadsUnzoomed, ViewParts
<1> HIDE DEF H, r, Z, old, zoom
<1> DEFINE then == IF zoom = None THEN <<>> ELSE <<PaneZoomed(zoom, TRUE)>>
           v == ViewOf(Names(G), Titles(G), Homes(G), Z)
<1>7. Leads(v, then, View(H))
  <2>1. CASE zoom = None
    <3>1. Z \cup ({zoom} \ {None}) = Z
      BY <2>1
    <3> QED BY <1>5, <2>1, <3>1, LeadsNone
  <2>2. CASE zoom # None
    <3>1. Z \cup ({zoom} \ {None}) = Z \cup {zoom}
      BY <2>2
    <3>2. Observe(v, PaneZoomed(zoom, TRUE)) = ViewOf(Names(G), Titles(G), Homes(G), Z \cup {zoom})
      BY DEF Observe, PaneZoomed, ViewOf
    <3> HIDE DEF v
    <3>3. Leads(v, <<PaneZoomed(zoom, TRUE)>>, View(H))
      BY <1>5, <3>1, <3>2, LeadsOne
    <3> QED BY <2>2, <3>3
  <2> QED BY <2>1, <2>2
<1> HIDE DEF v, then
<1>8. Leads(View(G), Unzoomed(old) \o then, View(H))
  BY <1>6, <1>7, LeadsThen DEF v
<1> QED BY <1>8 DEF then, old, zoom, H, w
\* rename_session
LEMMA LeadsSessionName ==
    ASSUME NEW G, Good(G), NEW s \in DOMAIN G.sessions, NEW n
    PROVE  Leads(View(G), <<SessionRenamed(s, n)>>, View(WithSessionName(G, s, n)))
<1> DEFINE H == WithSessionName(G, s, n)
<1>1. G.sessions[s] \in SessionRecord
  BY Records
<1>2. Names(H) = Put(Names(G), s, n)
  BY <1>1 DEF Names, WithSessionName, Snapshot, Put, SessionRecord
<1>3. Titles(H) = Titles(G) /\ Homes(H) = Homes(G) /\ Zooms(H) = Zooms(G)
  BY DEF Titles, Homes, Zooms, WithSessionName, Snapshot
<1> HIDE DEF H
<1>4. Observe(View(G), SessionRenamed(s, n)) = View(H)
  BY <1>2, <1>3, ViewParts, SawSessionRenamed
<1> QED BY <1>4, LeadsOne DEF H

\* focus_window, reorder_window and the tags, themes and titles of panes
LEMMA LeadsSame ==
    ASSUME NEW G, Good(G)
    PROVE  /\ \A s \in DOMAIN G.sessions :
                 /\ \A ws, a : Leads(View(G), <<>>, View(WithOrder(G, s, ws, a)))
                 /\ Leads(View(G), <<>>, View(WithSessionStamp(G, s)))
           /\ \A p \in DOMAIN G.panes : Leads(View(G), <<>>, View(WithPaneStamp(G, p)))
<1>1. ASSUME NEW s \in DOMAIN G.sessions, NEW ws, NEW a
      PROVE  Leads(View(G), <<>>, View(WithOrder(G, s, ws, a)))
  <2> DEFINE H == WithOrder(G, s, ws, a)
  <2>1. G.sessions[s] \in SessionRecord
    BY Records
  <2>2. Names(H) = Names(G)
    BY <2>1 DEF Names, WithOrder, Snapshot, Put, SessionRecord
  <2>3. Titles(H) = Titles(G) /\ Homes(H) = Homes(G) /\ Zooms(H) = Zooms(G)
    BY DEF Titles, Homes, Zooms, WithOrder, Snapshot
  <2> HIDE DEF H
  <2>4. View(H) = View(G)
    BY <2>2, <2>3, ViewParts
  <2> QED BY <2>4, LeadsNone DEF H
<1>2. ASSUME NEW s \in DOMAIN G.sessions
      PROVE  Leads(View(G), <<>>, View(WithSessionStamp(G, s)))
  <2> DEFINE H == WithSessionStamp(G, s)
  <2>1. G.sessions[s] \in SessionRecord
    BY Records
  <2>2. Names(H) = Names(G)
    BY <2>1 DEF Names, WithSessionStamp, Snapshot, Put, SessionRecord
  <2>3. Titles(H) = Titles(G) /\ Homes(H) = Homes(G) /\ Zooms(H) = Zooms(G)
    BY DEF Titles, Homes, Zooms, WithSessionStamp, Snapshot
  <2> HIDE DEF H
  <2>4. View(H) = View(G)
    BY <2>2, <2>3, ViewParts
  <2> QED BY <2>4, LeadsNone DEF H
<1>3. ASSUME NEW p \in DOMAIN G.panes
      PROVE  Leads(View(G), <<>>, View(WithPaneStamp(G, p)))
  <2> DEFINE H == WithPaneStamp(G, p)
  <2>1. G.panes[p] \in PaneRecord
    BY Records
  <2>2. Homes(H) = Homes(G)
    BY <2>1 DEF Homes, WithPaneStamp, Snapshot, Put, PaneRecord
  <2>3. Titles(H) = Titles(G) /\ Names(H) = Names(G) /\ Zooms(H) = Zooms(G)
    BY DEF Titles, Names, Zooms, WithPaneStamp, Snapshot
  <2> HIDE DEF H
  <2>4. View(H) = View(G)
    BY <2>2, <2>3, ViewParts
  <2> QED BY <2>4, LeadsNone DEF H
<1> QED BY <1>1, <1>2, <1>3

\* rename_window
LEMMA LeadsTitle ==
    ASSUME NEW G, Good(G), NEW w \in DOMAIN G.windows, NEW t
    PROVE  Leads(View(G), <<WindowRenamed(w, t)>>, View(WithTitle(G, w, t)))
<1> DEFINE H == WithTitle(G, w, t)
<1>1. \A x \in DOMAIN G.windows : G.windows[x] \in WindowRecord
  BY Records
<1>2. /\ DOMAIN H.windows = DOMAIN G.windows /\ H.sessions = G.sessions /\ H.panes = G.panes
      /\ \A x \in DOMAIN G.windows :
           /\ H.windows[x].session = G.windows[x].session /\ H.windows[x].zoom = G.windows[x].zoom
           /\ H.windows[x].title = IF x = w THEN t ELSE G.windows[x].title
  BY <1>1 DEF WithTitle, Snapshot, Put, WindowRecord
<1> HIDE DEF H
<1>3. Titles(H) = [Titles(G) EXCEPT ![w].title = t]
  BY <1>2 DEF Titles
<1>4. Names(H) = Names(G) /\ Homes(H) = Homes(G) /\ Zooms(H) = Zooms(G)
  BY <1>2 DEF Names, Homes, Zooms
<1>5. Observe(View(G), WindowRenamed(w, t)) = View(H)
  BY <1>3, <1>4, ViewParts, SawWindowRenamed
<1> QED BY <1>5, LeadsOne DEF H

\* A new window with its first pane
LEMMA ViewNewWindow ==
    ASSUME NEW G, NEW H, NEW s, NEW w, NEW p, NEW t, w \notin DOMAIN G.windows,
           H.windows = Put(G.windows, w, NewWindow(s, t, p)), H.panes = Put(G.panes, p, NewPane(w))
    PROVE  /\ Titles(H) = Put(Titles(G), w, [session |-> s, title |-> t])
           /\ Homes(H) = Put(Homes(G), p, w)
           /\ Zooms(H) = Zooms(G)
<1>1. /\ DOMAIN H.windows = DOMAIN G.windows \cup {w}
      /\ H.windows[w] = NewWindow(s, t, p)
      /\ \A x \in DOMAIN G.windows : H.windows[x] = G.windows[x]
  BY DEF Put
<1>2. NewWindow(s, t, p).session = s /\ NewWindow(s, t, p).title = t /\ NewWindow(s, t, p).zoom = None
  BY DEF NewWindow
<1>3. Titles(H) = Put(Titles(G), w, [session |-> s, title |-> t])
  BY <1>1, <1>2 DEF Titles, Put
<1>4. Homes(H) = Put(Homes(G), p, w)
  BY DEF Homes, Put, NewPane
<1>5. Zooms(H) = Zooms(G)
  BY <1>1, <1>2 DEF Zooms
<1> QED BY <1>3, <1>4, <1>5

\* Events one by one
LEMMA Appends ==
    ASSUME NEW a, NEW b, NEW c
    PROVE  Append(<<a>>, b) = <<a, b>> /\ Append(<<a, b>>, c) = <<a, b, c>>
<1> DEFINE S == {a, b, c}
<1>1. /\ <<a>> \in Seq(S) /\ Len(<<a>>) = 1 /\ <<a>>[1] = a
      /\ <<a, b>> \in Seq(S) /\ Len(<<a, b>>) = 2 /\ <<a, b>>[1] = a /\ <<a, b>>[2] = b
      /\ <<a, b, c>> \in Seq(S) /\ Len(<<a, b, c>>) = 3
      /\ <<a, b, c>>[1] = a /\ <<a, b, c>>[2] = b /\ <<a, b, c>>[3] = c
  OBVIOUS
<1> DEFINE p == <<a>>
           q == <<a, b>>
           r == <<a, b, c>>
<1>2. a \in S /\ b \in S /\ c \in S
  OBVIOUS
<1> HIDE DEF p, q, r, S
<1>3. Append(p, b) = q
  <2>1. Append(p, b) \in Seq(S) /\ Len(Append(p, b)) = 2 /\ Append(p, b)[1] = a /\ Append(p, b)[2] = b
    BY <1>1, <1>2, AppendProperties DEF p
  <2>2. q \in Seq(S) /\ Len(q) = 2 /\ q[1] = a /\ q[2] = b
    BY <1>1 DEF q
  <2>3. \A i \in 1..2 : i = 1 \/ i = 2
    OBVIOUS
  <2> QED BY <2>1, <2>2, <2>3, SeqEqual
<1>4. Append(q, c) = r
  <2>1. /\ Append(q, c) \in Seq(S) /\ Len(Append(q, c)) = 3
        /\ Append(q, c)[1] = a /\ Append(q, c)[2] = b /\ Append(q, c)[3] = c
    BY <1>1, <1>2, AppendProperties DEF q
  <2>2. r \in Seq(S) /\ Len(r) = 3 /\ r[1] = a /\ r[2] = b /\ r[3] = c
    BY <1>1 DEF r
  <2>3. \A i \in 1..3 : i = 1 \/ i = 2 \/ i = 3
    OBVIOUS
  <2> QED BY <2>1, <2>2, <2>3, SeqEqual
<1> QED BY <1>3, <1>4 DEF p, q, r

\* create_session
LEMMA LeadsSession ==
    ASSUME NEW G, NEW s, NEW w, NEW p, NEW n, NEW t, w \notin DOMAIN G.windows
    PROVE  Leads(View(G), <<SessionCreated(s, n), WindowCreated(w, s, t), PaneCreated(p, w)>>,
                 View(WithSession(G, s, w, p, n, t)))
<1> DEFINE H == WithSession(G, s, w, p, n, t)
           S == Put(Names(G), s, n)
           W == Put(Titles(G), w, [session |-> s, title |-> t])
<1>1. H.windows = Put(G.windows, w, NewWindow(s, t, p)) /\ H.panes = Put(G.panes, p, NewPane(w))
  BY DEF WithSession, Snapshot
<1>2. Names(H) = S
  BY DEF Names, WithSession, Snapshot, Put
<1> HIDE DEF H
<1>3. View(H) = ViewOf(S, W, Put(Homes(G), p, w), Zooms(G))
  BY <1>1, <1>2, ViewNewWindow, ViewParts
<1>4. Leads(View(G), <<SessionCreated(s, n)>>, ViewOf(S, Titles(G), Homes(G), Zooms(G)))
  BY ViewParts, SawSessionCreated, LeadsOne
<1> HIDE DEF S, W
<1>5. Leads(View(G), Append(<<SessionCreated(s, n)>>, WindowCreated(w, s, t)),
            ViewOf(S, W, Homes(G), Zooms(G)))
  BY <1>4, SawWindowCreated, LeadsAppend DEF W
<1>6. Leads(View(G), Append(Append(<<SessionCreated(s, n)>>, WindowCreated(w, s, t)), PaneCreated(p, w)),
            View(H))
  BY <1>3, <1>5, SawPaneCreated, LeadsAppend
<1>7. Append(Append(<<SessionCreated(s, n)>>, WindowCreated(w, s, t)), PaneCreated(p, w))
        = <<SessionCreated(s, n), WindowCreated(w, s, t), PaneCreated(p, w)>>
  BY Appends
<1> QED BY <1>6, <1>7 DEF H

\* create_window
LEMMA LeadsWindow ==
    ASSUME NEW G, Good(G), NEW s \in DOMAIN G.sessions, NEW w, NEW p, NEW t, w \notin DOMAIN G.windows
    PROVE  Leads(View(G), <<WindowCreated(w, s, t), PaneCreated(p, w)>>, View(WithWindow(G, s, w, p, t)))
<1> DEFINE H == WithWindow(G, s, w, p, t)
           W == Put(Titles(G), w, [session |-> s, title |-> t])
<1>1. H.windows = Put(G.windows, w, NewWindow(s, t, p)) /\ H.panes = Put(G.panes, p, NewPane(w))
  BY DEF WithWindow, Snapshot
<1>2. Names(H) = Names(G)
  <2>1. G.sessions[s] \in SessionRecord
    BY Records
  <2> QED BY <2>1 DEF Names, WithWindow, Snapshot, Put, SessionRecord
<1> HIDE DEF H
<1>3. View(H) = ViewOf(Names(G), W, Put(Homes(G), p, w), Zooms(G))
  BY <1>1, <1>2, ViewNewWindow, ViewParts
<1>4. Leads(View(G), <<WindowCreated(w, s, t)>>, ViewOf(Names(G), W, Homes(G), Zooms(G)))
  BY ViewParts, SawWindowCreated, LeadsOne
<1> HIDE DEF W
<1>5. Leads(View(G), Append(<<WindowCreated(w, s, t)>>, PaneCreated(p, w)), View(H))
  BY <1>3, <1>4, SawPaneCreated, LeadsAppend
<1>6. Append(<<WindowCreated(w, s, t)>>, PaneCreated(p, w)) = <<WindowCreated(w, s, t), PaneCreated(p, w)>>
  BY Appends
<1> QED BY <1>5, <1>6 DEF H

\* Any order of a finite set lists all of it
LEMMA OrderLists ==
    ASSUME NEW S, IsFiniteSet(S), NEW l \in SetToSeqs(S)
    PROVE  l \in Seq(S) /\ Range(l) = S
<1> DEFINE n == Cardinality(S)
<1>1. n \in Nat
  BY FS_CardinalityType
<1>2. l \in [1..n -> S] /\ \A i, j \in 1..n : i # j => l[i] # l[j]
  BY DEF SetToSeqs
<1>3. Cardinality(1..n) = n /\ IsFiniteSet(1..n)
  <2> HIDE DEF n
  <2> QED BY <1>1, FS_Interval
<1>4. l \in Injection(1..n, S)
  <2> HIDE DEF n
  <2> QED BY <1>2 DEF Injection, IsInjective
<1>5. l \in Surjection(1..n, S)
  BY <1>3, <1>4, FS_Injection
<1>6. l \in Seq(S) /\ DOMAIN l = 1..n
  <2> HIDE DEF n
  <2> QED BY <1>1, <1>2
<1>7. \A x \in S : \E i \in 1..n : l[i] = x
  BY <1>5 DEF Surjection
<1> HIDE DEF n
<1> QED BY <1>2, <1>6, <1>7 DEF Range

\* destroy_session: the panes exit, the windows close, the session ends
LEMMA LeadsWithoutSession ==
    ASSUME NEW G, Good(G), ShowsFocus(G), IsFiniteSet(DOMAIN G.panes),
           NEW s \in DOMAIN G.sessions, NEW order \in SetToSeqs(PanesOfSession(G, s))
    PROVE  Leads(View(G), [i \in DOMAIN order |-> PaneKilled(order[i])]
                          \o [i \in DOMAIN G.sessions[s].windows |->
                                 WindowKilled(G.sessions[s].windows[i])]
                          \o <<SessionKilled(s)>>,
                 View(WithoutSession(G, s)))
<1> DEFINE H == WithoutSession(G, s)
           ws == G.sessions[s].windows
           ps == PanesOfSession(G, s)
           a == [i \in DOMAIN order |-> PaneKilled(order[i])]
           b == [i \in DOMAIN ws |-> WindowKilled(ws[i])]
           c == <<SessionKilled(s)>>
           S == Names(G)
           W == Titles(G)
           P == Homes(G)
           Z == Zooms(G)
<1>1. ps \subseteq DOMAIN G.panes /\ IsFiniteSet(ps)
  BY FS_Subset DEF PanesOfSession
<1>2. order \in Seq(ps) /\ Range(order) = ps
  BY <1>1, OrderLists
<1>3. ws \in Seq(Window) /\ Range(ws) = {w \in DOMAIN G.windows : G.windows[w].session = s}
  BY Lists DEF Good, SessionsOwnWindows
<1>4. ps = {p \in DOMAIN G.panes : G.panes[p].window \in Range(ws)}
  BY <1>3 DEF PanesOfSession, SessionOf, Good, WindowsOwnPanes
<1> HIDE DEF ws, ps
<1>5. /\ H.sessions = Drop(G.sessions, {s}) /\ H.windows = Drop(G.windows, Range(ws))
      /\ H.panes = Drop(G.panes, ps)
  BY <1>4 DEF WithoutSession, Snapshot, ws
<1> HIDE DEF H
<1>6. Names(H) = Drop(S, {s}) /\ Titles(H) = Drop(W, Range(ws)) /\ Homes(H) = Drop(P, ps)
  BY <1>5 DEF Names, Titles, Homes, Drop
<1>7. Zooms(H) = Z \ ps
  <2>1. DOMAIN H.windows = DOMAIN G.windows \ Range(ws)
        /\ \A w \in DOMAIN G.windows \ Range(ws) : H.windows[w] = G.windows[w]
    BY <1>5 DEF Drop
  <2>2. \A w \in DOMAIN G.windows : G.windows[w].zoom # None =>
           (G.windows[w].zoom \in ps <=> w \in Range(ws))
    BY <1>4, ZoomHome
  <2> QED BY <2>1, <2>2 DEF Zooms
<1>8. P = [p \in DOMAIN P |-> P[p]] /\ W = [w \in DOMAIN W |-> W[w]]
  BY DEF Homes, Titles
<1> HIDE DEF S, W, P, Z
<1>9. Leads(View(G), a, ViewOf(S, W, Drop(P, ps), Z \ ps))
  BY <1>2, <1>8, LeadsPanesKilled, ViewParts DEF S, W, P, Z
<1>10. Leads(ViewOf(S, W, Drop(P, ps), Z \ ps), b, ViewOf(S, Drop(W, Range(ws)), Drop(P, ps), Z \ ps))
  BY <1>3, <1>8, LeadsWindowsKilled
<1>11. Leads(ViewOf(S, Drop(W, Range(ws)), Drop(P, ps), Z \ ps), c, View(H))
  BY <1>6, <1>7, LeadsOne, SawSessionKilled, ViewParts
<1> HIDE DEF a, b, c
<1>12. Leads(View(G), a \o b, ViewOf(S, Drop(W, Range(ws)), Drop(P, ps), Z \ ps))
  BY <1>9, <1>10, LeadsThen
<1>13. Leads(View(G), (a \o b) \o c, View(H))
  BY <1>11, <1>12, LeadsThen
<1> QED BY <1>13 DEF a, b, c, H, ws

\* destroy_window: the panes exit, the window closes
LEMMA LeadsWithoutWindow ==
    ASSUME NEW G, Good(G), ShowsFocus(G), IsFiniteSet(DOMAIN G.panes),
           NEW w \in DOMAIN G.windows, NEW order \in SetToSeqs(PanesOfWindow(G, w))
    PROVE  Leads(View(G), Append([i \in DOMAIN order |-> PaneKilled(order[i])], WindowKilled(w)),
                 View(WithoutWindow(G, w)))
<1> DEFINE H == WithoutWindow(G, w)
           s == G.windows[w].session
           ps == PanesOfWindow(G, w)
           a == [i \in DOMAIN order |-> PaneKilled(order[i])]
           S == Names(G)
           W == Titles(G)
           P == Homes(G)
           Z == Zooms(G)
<1>1. ps \subseteq DOMAIN G.panes /\ IsFiniteSet(ps)
  BY FS_Subset DEF PanesOfWindow
<1>2. order \in Seq(ps) /\ Range(order) = ps
  BY <1>1, OrderLists
<1>3. s \in DOMAIN G.sessions /\ G.sessions[s] \in SessionRecord
  BY Records DEF Good, SessionsOwnWindows
<1>4. /\ \E v : H.sessions = Put(G.sessions, s, v) /\ v.name = G.sessions[s].name
      /\ H.windows = Drop(G.windows, {w}) /\ H.panes = Drop(G.panes, ps)
  <2> DEFINE rest == Without(G.sessions[s].windows, w)
             r == [G.sessions[s] EXCEPT !.windows = rest, !.active = IF @ = w THEN Head(rest) ELSE @,
                                        !.version = @ + 1]
  <2>1. r.name = G.sessions[s].name
    <3> HIDE DEF rest, s
    <3> QED BY <1>3 DEF SessionRecord
  <2>2. H.sessions = Put(G.sessions, s, r) /\ H.windows = Drop(G.windows, {w}) /\ H.panes = Drop(G.panes, ps)
    BY DEF WithoutWindow, Snapshot
  <2> HIDE DEF r
  <2> QED BY <2>1, <2>2
<1> HIDE DEF H, s
<1>5. Names(H) = S /\ Titles(H) = Drop(W, {w}) /\ Homes(H) = Drop(P, ps)
  <2>1. Names(H) = S
    BY <1>3, <1>4 DEF Names, Put
  <2> HIDE DEF ps
  <2> QED BY <1>4, <2>1 DEF Titles, Homes, Drop
<1>6. Zooms(H) = Z \ ps
  <2>1. DOMAIN H.windows = DOMAIN G.windows \ {w}
        /\ \A x \in DOMAIN G.windows \ {w} : H.windows[x] = G.windows[x]
    BY <1>4 DEF Drop
  <2>2. \A x \in DOMAIN G.windows : G.windows[x].zoom # None => (G.windows[x].zoom \in ps <=> x = w)
    BY ZoomHome DEF PanesOfWindow
  <2> HIDE DEF ps
  <2> QED BY <2>1, <2>2 DEF Zooms
<1>7. P = [p \in DOMAIN P |-> P[p]]
  BY DEF Homes
<1> HIDE DEF S, W, P, Z, ps
<1>8. Leads(View(G), a, ViewOf(S, W, Drop(P, ps), Z \ ps))
  BY <1>2, <1>7, LeadsPanesKilled, ViewParts DEF S, W, P, Z
<1>9. Observe(ViewOf(S, W, Drop(P, ps), Z \ ps), WindowKilled(w)) = View(H)
  BY <1>5, <1>6, SawWindowKilled, ViewParts
<1> HIDE DEF a
<1>10. Leads(View(G), Append(a, WindowKilled(w)), View(H))
  BY <1>8, <1>9, LeadsAppend
<1> QED BY <1>10 DEF a, H

-----------------------------------------------------------------------------
(* The invariant, with the events                                          *)

\* The events still to fire take what the subscriber holds to the graph's
\* view, and those a batch has staged take the graph's view to its clone's
CInv ==
    /\ \A G \in Snapshots : IsFiniteSet(DOMAIN G.panes)
    /\ Leads(seen, outbox, View(graph))
    /\ batch # None => outbox = <<>> /\ Leads(View(graph), batch.events, View(batch.snap))

\* A command's events take the view of the graph to that of its result
Announced(G, events) == Leads(View(graph), events, View(G)) /\ IsFiniteSet(DOMAIN G.panes)

\* An op of a batch does the same for the clone
AnnouncedStage(G, events) == Leads(View(batch.snap), events, View(G)) /\ IsFiniteSet(DOMAIN G.panes)

LEMMA CommitAnnounces ==
    ASSUME CInv, NEW G, NEW events, Commit(G, events), Announced(G, events)
    PROVE  CInv'
<1>1. /\ batch = None /\ batch' = None /\ outbox = <<>> /\ seen' = seen
      /\ graph' = G /\ outbox' = events
  BY DEF Commit, Idle
<1>2. seen = View(graph)
  BY <1>1, NoneLeads DEF CInv
<1>3. Leads(seen', outbox', View(graph'))
  BY <1>1, <1>2 DEF Announced
<1>4. Snapshots' = {G}
  BY <1>1 DEF Snapshots
<1> QED BY <1>1, <1>3, <1>4 DEF CInv, Announced

LEMMA StageAnnounces ==
    ASSUME CInv, NEW G, NEW events, NEW ids, batch # None,
           Stage(G, events, ids), AnnouncedStage(G, events)
    PROVE  CInv'
<1>1. /\ batch' = [snap |-> G, events |-> batch.events \o events]
      /\ graph' = graph /\ outbox' = outbox /\ seen' = seen
  BY DEF Stage
<1>2. batch'.snap = G /\ batch'.events = batch.events \o events
  BY <1>1
<1>3. Leads(View(graph), batch.events \o events, View(G))
  BY LeadsThen DEF CInv, AnnouncedStage
<1>4. Snapshots' \subseteq {graph, G} /\ graph \in Snapshots
  BY <1>1, <1>2 DEF Snapshots
<1> QED BY <1>1, <1>2, <1>3, <1>4 DEF CInv, AnnouncedStage
\* A finite map stays finite
LEMMA FinitePut ==
    ASSUME NEW f, NEW k, NEW v, NEW K, IsFiniteSet(DOMAIN f)
    PROVE  IsFiniteSet(DOMAIN Put(f, k, v)) /\ IsFiniteSet(DOMAIN Drop(f, K))
<1>1. DOMAIN Put(f, k, v) = DOMAIN f \cup {k} /\ DOMAIN Drop(f, K) \subseteq DOMAIN f
  BY DEF Put, Drop
<1>2. IsFiniteSet(DOMAIN f \cup {k})
  BY FS_AddElement
<1> QED BY <1>1, <1>2, FS_Subset

\* What every command finds when it starts
LEMMA Finds == IInv /\ TInv /\ CInv =>
    \A G \in Snapshots : Good(G) /\ ShowsFocus(G) /\ IsFiniteSet(DOMAIN G.panes) /\ IdsOf(G) \subseteq used
BY DEF IInv, TInv, CInv, Tidy

\* Creations, by command or in a batch
LEMMA CreateAnnounces == IInv /\ TInv /\ CInv /\ Create => CInv'
<1> SUFFICES ASSUME IInv, TInv, CInv, Create PROVE CInv'
  OBVIOUS
<1>1. \A G \in Snapshots : Good(G) /\ ShowsFocus(G) /\ IsFiniteSet(DOMAIN G.panes) /\ IdsOf(G) \subseteq used
  BY Finds
<1>2. graph \in Snapshots /\ (batch # None => batch.snap \in Snapshots)
  BY DEF Snapshots
<1>3. ASSUME NEW s \in Fresh(Session), NEW w \in Fresh(Window), NEW p \in Fresh(Pane),
             NEW n \in Name, NEW t \in Title,
             CreateSession(s, w, p, n, t) \/ StageCreateSession(s, w, p, n, t)
      PROVE  CInv'
  <2> DEFINE es == <<SessionCreated(s, n), WindowCreated(w, s, t), PaneCreated(p, w)>>
  <2>1. ASSUME NEW G \in Snapshots
        PROVE  /\ Leads(View(G), es, View(WithSession(G, s, w, p, n, t)))
               /\ IsFiniteSet(DOMAIN WithSession(G, s, w, p, n, t).panes)
    <3>1. w \notin DOMAIN G.windows
      BY <1>1 DEF Fresh, IdsOf
    <3>2. WithSession(G, s, w, p, n, t).panes = Put(G.panes, p, NewPane(w))
      BY DEF WithSession, Snapshot
    <3> QED BY <1>1, <3>1, <3>2, LeadsSession, FinitePut
  <2> HIDE DEF es
  <2>2. CASE CreateSession(s, w, p, n, t)
    <3>1. Commit(WithSession(graph, s, w, p, n, t), es)
      BY <2>2 DEF CreateSession, es
    <3>2. Announced(WithSession(graph, s, w, p, n, t), es)
      BY <1>2, <2>1 DEF Announced
    <3> QED BY <3>1, <3>2, CommitAnnounces
  <2>3. CASE StageCreateSession(s, w, p, n, t)
    <3>1. batch # None /\ Stage(WithSession(batch.snap, s, w, p, n, t), es, {s, w, p})
      BY <2>3 DEF StageCreateSession, es
    <3>2. AnnouncedStage(WithSession(batch.snap, s, w, p, n, t), es)
      BY <1>2, <2>1, <3>1 DEF AnnouncedStage
    <3> QED BY <3>1, <3>2, StageAnnounces
  <2> QED BY <1>3, <2>2, <2>3
<1>4. ASSUME NEW s \in Session, NEW w \in Fresh(Window), NEW p \in Fresh(Pane), NEW t \in Title,
             CreateWindow(s, w, p, t) \/ StageCreateWindow(s, w, p, t)
      PROVE  CInv'
  <2> DEFINE es == <<WindowCreated(w, s, t), PaneCreated(p, w)>>
  <2>1. ASSUME NEW G \in Snapshots, s \in DOMAIN G.sessions
        PROVE  /\ Leads(View(G), es, View(WithWindow(G, s, w, p, t)))
               /\ IsFiniteSet(DOMAIN WithWindow(G, s, w, p, t).panes)
    <3>1. w \notin DOMAIN G.windows
      BY <1>1 DEF Fresh, IdsOf
    <3>2. WithWindow(G, s, w, p, t).panes = Put(G.panes, p, NewPane(w))
      BY DEF WithWindow, Snapshot
    <3> QED BY <1>1, <2>1, <3>1, <3>2, LeadsWindow, FinitePut
  <2> HIDE DEF es
  <2>2. CASE CreateWindow(s, w, p, t)
    <3>1. s \in DOMAIN graph.sessions /\ Commit(WithWindow(graph, s, w, p, t), es)
      BY <2>2 DEF CreateWindow, es
    <3>2. Announced(WithWindow(graph, s, w, p, t), es)
      BY <1>2, <2>1, <3>1 DEF Announced
    <3> QED BY <3>1, <3>2, CommitAnnounces
  <2>3. CASE StageCreateWindow(s, w, p, t)
    <3>1. /\ batch # None /\ s \in DOMAIN batch.snap.sessions
          /\ Stage(WithWindow(batch.snap, s, w, p, t), es, {w, p})
      BY <2>3 DEF StageCreateWindow, es
    <3>2. AnnouncedStage(WithWindow(batch.snap, s, w, p, t), es)
      BY <1>2, <2>1, <3>1 DEF AnnouncedStage
    <3> QED BY <3>1, <3>2, StageAnnounces
  <2> QED BY <1>4, <2>2, <2>3
<1>5. ASSUME NEW p \in Pane, NEW q \in Fresh(Pane), SplitPane(p, q) \/ StageSplitPane(p, q)
      PROVE  CInv'
  <2> DEFINE es(G) == Append(Unzoomed(G.windows[G.panes[p].window].zoom),
                             PaneCreated(q, G.panes[p].window))
  <2>1. ASSUME NEW G \in Snapshots, p \in DOMAIN G.panes
        PROVE  /\ Leads(View(G), es(G), View(WithSplit(G, p, q)))
               /\ IsFiniteSet(DOMAIN WithSplit(G, p, q).panes)
    <3>1. WithSplit(G, p, q).panes = Put(G.panes, q, NewPane(G.panes[p].window))
      BY DEF WithSplit, Snapshot
    <3>2. Leads(View(G), es(G), View(WithSplit(G, p, q)))
      BY <1>1, <2>1, LeadsSplit
    <3> QED BY <1>1, <3>1, <3>2, FinitePut
  <2> HIDE DEF es
  <2>2. CASE SplitPane(p, q)
    <3>1. p \in DOMAIN graph.panes /\ Commit(WithSplit(graph, p, q), es(graph))
      BY <2>2 DEF SplitPane, es
    <3>2. Announced(WithSplit(graph, p, q), es(graph))
      BY <1>2, <2>1, <3>1 DEF Announced
    <3> QED BY <3>1, <3>2, CommitAnnounces
  <2>3. CASE StageSplitPane(p, q)
    <3>1. /\ batch # None /\ p \in DOMAIN batch.snap.panes
          /\ Stage(WithSplit(batch.snap, p, q), es(batch.snap), {q})
      BY <2>3 DEF StageSplitPane, es
    <3>2. AnnouncedStage(WithSplit(batch.snap, p, q), es(batch.snap))
      BY <1>2, <2>1, <3>1 DEF AnnouncedStage
    <3> QED BY <3>1, <3>2, StageAnnounces
  <2> QED BY <1>5, <2>2, <2>3
<1> QED BY <1>3, <1>4, <1>5 DEF Create

\* What a command finds of the published graph
LEMMA GraphFinds == IInv /\ TInv /\ CInv =>
    Good(graph) /\ ShowsFocus(graph) /\ IsFiniteSet(DOMAIN graph.panes)
BY Finds DEF Snapshots

\* destroy_session
LEMMA DestroySessionAnnounces ==
    ASSUME IInv, TInv, CInv, NEW s, DestroySession(s) PROVE CInv'
<1>1. Good(graph) /\ ShowsFocus(graph) /\ IsFiniteSet(DOMAIN graph.panes)
  BY GraphFinds
<1>2. s \in DOMAIN graph.sessions
  BY DEF DestroySession
<1> DEFINE es(order) == [i \in DOMAIN order |-> PaneKilled(order[i])]
                        \o [i \in DOMAIN graph.sessions[s].windows |->
                               WindowKilled(graph.sessions[s].windows[i])]
                        \o <<SessionKilled(s)>>
<1>3. PICK order \in SetToSeqs(PanesOfSession(graph, s)) : Commit(WithoutSession(graph, s), es(order))
  BY DEF DestroySession
<1>4. Leads(View(graph), es(order), View(WithoutSession(graph, s)))
  BY <1>1, <1>2, LeadsWithoutSession
<1>5. WithoutSession(graph, s).panes =
        Drop(graph.panes, {p \in DOMAIN graph.panes : graph.panes[p].window \in Range(graph.sessions[s].windows)})
  BY DEF WithoutSession, Snapshot
<1>6. IsFiniteSet(DOMAIN WithoutSession(graph, s).panes)
  BY <1>1, <1>5, FinitePut
<1> HIDE DEF es
<1> QED BY <1>3, <1>4, <1>6, CommitAnnounces DEF Announced

\* destroy_window
LEMMA DestroyWindowAnnounces ==
    ASSUME IInv, TInv, CInv, NEW w, DestroyWindow(w) PROVE CInv'
<1>1. Good(graph) /\ ShowsFocus(graph) /\ IsFiniteSet(DOMAIN graph.panes)
  BY GraphFinds
<1>2. w \in DOMAIN graph.windows
  BY DEF DestroyWindow
<1> DEFINE es(order) == Append([i \in DOMAIN order |-> PaneKilled(order[i])], WindowKilled(w))
<1>3. PICK order \in SetToSeqs(PanesOfWindow(graph, w)) : Commit(WithoutWindow(graph, w), es(order))
  BY DEF DestroyWindow
<1>4. Leads(View(graph), es(order), View(WithoutWindow(graph, w)))
  BY <1>1, <1>2, LeadsWithoutWindow
<1>5. WithoutWindow(graph, w).panes = Drop(graph.panes, PanesOfWindow(graph, w))
  BY DEF WithoutWindow, Snapshot
<1>6. IsFiniteSet(DOMAIN WithoutWindow(graph, w).panes)
  BY <1>1, <1>5, FinitePut
<1> HIDE DEF es
<1> QED BY <1>3, <1>4, <1>6, CommitAnnounces DEF Announced

\* destroy_pane
LEMMA DestroyPaneAnnounces ==
    ASSUME IInv, TInv, CInv, NEW p, DestroyPane(p) PROVE CInv'
<1>1. Good(graph) /\ ShowsFocus(graph) /\ IsFiniteSet(DOMAIN graph.panes)
  BY GraphFinds
<1> DEFINE es == Append(Unzoomed(graph.windows[graph.panes[p].window].zoom), PaneKilled(p))
<1>2. p \in DOMAIN graph.panes /\ Commit(WithoutPane(graph, p), es)
  BY DEF DestroyPane
<1>3. Leads(View(graph), es, View(WithoutPane(graph, p)))
  BY <1>1, <1>2, LeadsWithoutPane
<1>4. WithoutPane(graph, p).panes = Drop(graph.panes, {p})
  BY DEF WithoutPane, Snapshot
<1>5. IsFiniteSet(DOMAIN WithoutPane(graph, p).panes)
  BY <1>1, <1>4, FinitePut
<1> HIDE DEF es
<1> QED BY <1>2, <1>3, <1>5, CommitAnnounces DEF Announced

\* focus_pane
LEMMA FocusPaneAnnounces ==
    ASSUME IInv, TInv, CInv, NEW p, FocusPane(p) PROVE CInv'
<1>1. Good(graph) /\ ShowsFocus(graph) /\ IsFiniteSet(DOMAIN graph.panes)
  BY GraphFinds
<1> DEFINE zoom == graph.windows[graph.panes[p].window].zoom
           es == IF zoom = p THEN <<>> ELSE Unzoomed(zoom)
<1>2. p \in DOMAIN graph.panes /\ Commit(WithFocus(graph, p), es)
  BY DEF FocusPane
<1>3. Leads(View(graph), es, View(WithFocus(graph, p)))
  BY <1>1, <1>2, LeadsFocus
<1>4. DOMAIN WithFocus(graph, p).panes = DOMAIN graph.panes
  BY DEF WithFocus, Snapshot, BumpPanes
<1> HIDE DEF es
<1> QED BY <1>1, <1>2, <1>3, <1>4, CommitAnnounces DEF Announced

\* zoom_pane
LEMMA ZoomPaneAnnounces ==
    ASSUME IInv, TInv, CInv, NEW p, ZoomPane(p) PROVE CInv'
<1>1. Good(graph) /\ ShowsFocus(graph) /\ IsFiniteSet(DOMAIN graph.panes)
  BY GraphFinds
<1> DEFINE win == graph.windows[graph.panes[p].window]
           zoom == ToggleZoom(win, p)
           es == Unzoomed(win.zoom) \o (IF zoom = None THEN <<>> ELSE <<PaneZoomed(zoom, TRUE)>>)
<1>2. p \in DOMAIN graph.panes /\ Commit(WithZoom(graph, p), es)
  BY DEF ZoomPane
<1>3. Leads(View(graph), es, View(WithZoom(graph, p)))
  BY <1>1, <1>2, LeadsZoom
<1>4. DOMAIN WithZoom(graph, p).panes = DOMAIN graph.panes
  BY DEF WithZoom, Snapshot, BumpPanes
<1> HIDE DEF es
<1> QED BY <1>1, <1>2, <1>3, <1>4, CommitAnnounces DEF Announced

\* resize_pane, swap_panes
LEMMA LayoutAnnounces ==
    ASSUME IInv, TInv, CInv, NEW w \in DOMAIN graph.windows, NEW l, NEW ratios,
           Commit(WithLayout(graph, w, l, ratios), Unzoomed(graph.windows[w].zoom))
    PROVE  CInv'
<1>1. Good(graph) /\ ShowsFocus(graph) /\ IsFiniteSet(DOMAIN graph.panes)
  BY GraphFinds
<1>2. Leads(View(graph), Unzoomed(graph.windows[w].zoom), View(WithLayout(graph, w, l, ratios)))
  BY <1>1, LeadsLayout
<1>3. DOMAIN WithLayout(graph, w, l, ratios).panes = DOMAIN graph.panes
  BY DEF WithLayout, Snapshot, BumpPanes
<1> QED BY <1>1, <1>2, <1>3, CommitAnnounces DEF Announced

\* Every other command
LEMMA CommandAnnounces ==
    IInv /\ TInv /\ CInv /\ (SessionCommand \/ WindowCommand \/ PaneCommand) => CInv'
<1> SUFFICES ASSUME IInv, TInv, CInv, SessionCommand \/ WindowCommand \/ PaneCommand PROVE CInv'
  OBVIOUS
<1>1. Good(graph) /\ ShowsFocus(graph) /\ IsFiniteSet(DOMAIN graph.panes)
  BY GraphFinds
<1>2. CASE SessionCommand
  <2>1. PICK s \in Session : DestroySession(s) \/ UpdateSession(s) \/ \E n \in Name : RenameSession(s, n)
    BY <1>2 DEF SessionCommand
  <2>2. CASE DestroySession(s)
    BY <2>2, DestroySessionAnnounces
  <2>3. CASE UpdateSession(s)
    <3>1. s \in DOMAIN graph.sessions /\ Commit(WithSessionStamp(graph, s), <<>>)
      BY <2>3 DEF UpdateSession
    <3>2. WithSessionStamp(graph, s).panes = graph.panes
      BY DEF WithSessionStamp, Snapshot
    <3>3. Leads(View(graph), <<>>, View(WithSessionStamp(graph, s)))
      BY <1>1, <3>1, LeadsSame
    <3> QED BY <1>1, <3>1, <3>2, <3>3, CommitAnnounces DEF Announced
  <2>4. CASE \E n \in Name : RenameSession(s, n)
    <3>1. PICK n \in Name : RenameSession(s, n)
      BY <2>4
    <3>2. s \in DOMAIN graph.sessions /\ Commit(WithSessionName(graph, s, n), <<SessionRenamed(s, n)>>)
      BY <3>1 DEF RenameSession
    <3>3. WithSessionName(graph, s, n).panes = graph.panes
      BY DEF WithSessionName, Snapshot
    <3> QED BY <1>1, <3>2, <3>3, LeadsSessionName, CommitAnnounces DEF Announced
  <2> QED BY <2>1, <2>2, <2>3, <2>4
<1>3. CASE WindowCommand
  <2>1. PICK w \in Window : \/ DestroyWindow(w) \/ FocusWindow(w) \/ FocusPaneDirection(w)
                            \/ \E t \in Title : RenameWindow(w, t)
                            \/ \E i \in 1..Cardinality(Window) : ReorderWindow(w, i)
    BY <1>3 DEF WindowCommand
  <2> DEFINE s == graph.windows[w].session
  <2>2. w \in DOMAIN graph.windows => s \in DOMAIN graph.sessions
    BY <1>1 DEF Good, SessionsOwnWindows
  <2>3. ASSUME w \in DOMAIN graph.windows, NEW ws, NEW a, Commit(WithOrder(graph, s, ws, a), <<>>)
        PROVE  CInv'
    <3>1. WithOrder(graph, s, ws, a).panes = graph.panes
      BY DEF WithOrder, Snapshot
    <3>2. Leads(View(graph), <<>>, View(WithOrder(graph, s, ws, a)))
      <4> HIDE DEF s
      <4> QED BY <1>1, <2>2, <2>3, LeadsSame
    <3> QED BY <1>1, <2>3, <3>1, <3>2, CommitAnnounces DEF Announced
  <2>4. CASE DestroyWindow(w)
    BY <2>4, DestroyWindowAnnounces
  <2>5. CASE FocusWindow(w)
    BY <2>3, <2>5 DEF FocusWindow
  <2>6. CASE FocusPaneDirection(w)
    BY <2>6, FocusPaneAnnounces DEF FocusPaneDirection
  <2>7. CASE \E t \in Title : RenameWindow(w, t)
    <3>1. PICK t \in Title : RenameWindow(w, t)
      BY <2>7
    <3>2. w \in DOMAIN graph.windows /\ Commit(WithTitle(graph, w, t), <<WindowRenamed(w, t)>>)
      BY <3>1 DEF RenameWindow
    <3>3. WithTitle(graph, w, t).panes = graph.panes
      BY DEF WithTitle, Snapshot
    <3> QED BY <1>1, <3>2, <3>3, LeadsTitle, CommitAnnounces DEF Announced
  <2>8. CASE \E i \in 1..Cardinality(Window) : ReorderWindow(w, i)
    BY <2>3, <2>8 DEF ReorderWindow
  <2> QED BY <2>1, <2>4, <2>5, <2>6, <2>7, <2>8
<1>4. CASE PaneCommand
  <2>1. PICK p \in Pane : \/ DestroyPane(p) \/ DestroyPaneAndEmptyParents(p) \/ FocusPane(p)
                          \/ ResizePane(p) \/ ZoomPane(p) \/ UpdatePane(p)
                          \/ \E q \in Pane : SwapPanes(p, q) \/ ZoomPaneIfFocused(p, q)
    BY <1>4 DEF PaneCommand
  <2>2. p \in DOMAIN graph.panes => graph.panes[p].window \in DOMAIN graph.windows
    BY <1>1 DEF Good, WindowsOwnPanes
  <2>3. CASE DestroyPane(p)
    BY <2>3, DestroyPaneAnnounces
  <2>4. CASE DestroyPaneAndEmptyParents(p)
    BY <2>4, DestroyPaneAnnounces, DestroyWindowAnnounces, DestroySessionAnnounces
       DEF DestroyPaneAndEmptyParents
  <2>5. CASE FocusPane(p)
    BY <2>5, FocusPaneAnnounces
  <2>6. CASE ResizePane(p)
    BY <2>2, <2>6, LayoutAnnounces DEF ResizePane
  <2>7. CASE ZoomPane(p)
    BY <2>7, ZoomPaneAnnounces
  <2>8. CASE UpdatePane(p)
    <3>1. p \in DOMAIN graph.panes /\ Commit(WithPaneStamp(graph, p), <<>>)
      BY <2>8 DEF UpdatePane
    <3>2. DOMAIN WithPaneStamp(graph, p).panes = DOMAIN graph.panes
      BY <3>1 DEF WithPaneStamp, Snapshot, Put
    <3>3. Leads(View(graph), <<>>, View(WithPaneStamp(graph, p)))
      BY <1>1, <3>1, LeadsSame
    <3> QED BY <1>1, <3>1, <3>2, <3>3, CommitAnnounces DEF Announced
  <2>9. ASSUME NEW q \in Pane, SwapPanes(p, q) \/ ZoomPaneIfFocused(p, q) PROVE CInv'
    <3>1. CASE SwapPanes(p, q)
      BY <2>2, <3>1, LayoutAnnounces DEF SwapPanes
    <3>2. CASE ZoomPaneIfFocused(p, q)
      BY <3>2, ZoomPaneAnnounces DEF ZoomPaneIfFocused
    <3> QED BY <2>9, <3>1, <3>2
  <2> QED BY <2>1, <2>3, <2>4, <2>5, <2>6, <2>7, <2>8, <2>9
<1> QED BY <1>2, <1>3, <1>4

\* The loop's own steps
LEMMA LoopAnnounces == CInv /\ (BatchBegin \/ BatchCommit \/ BatchFail \/ Fire) => CInv'
<1> SUFFICES ASSUME CInv, BatchBegin \/ BatchCommit \/ BatchFail \/ Fire PROVE CInv'
  OBVIOUS
<1>1. IsFiniteSet(DOMAIN graph.panes) /\ (batch # None => IsFiniteSet(DOMAIN batch.snap.panes))
  BY DEF CInv, Snapshots
<1>2. CASE BatchBegin
  <2>1. /\ batch' = [snap |-> graph, events |-> <<>>] /\ outbox = <<>>
        /\ graph' = graph /\ outbox' = outbox /\ seen' = seen
    BY <1>2 DEF BatchBegin, Idle
  <2>2. batch'.snap = graph /\ batch'.events = <<>>
    BY <2>1
  <2>3. Snapshots' \subseteq {graph}
    BY <2>1, <2>2 DEF Snapshots
  <2>4. Leads(View(graph), <<>>, View(graph))
    BY LeadsNone
  <2> QED BY <1>1, <2>1, <2>2, <2>3, <2>4 DEF CInv
<1>3. CASE BatchCommit
  <2>1. /\ batch # None /\ graph' = batch.snap /\ outbox' = batch.events /\ batch' = None /\ seen' = seen
    BY <1>3 DEF BatchCommit
  <2>2. seen = View(graph)
    BY <2>1, NoneLeads DEF CInv
  <2>3. Leads(seen, batch.events, View(batch.snap))
    BY <2>1, <2>2 DEF CInv
  <2>4. Snapshots' = {batch.snap}
    BY <2>1 DEF Snapshots
  <2> QED BY <1>1, <2>1, <2>3, <2>4 DEF CInv
<1>4. CASE BatchFail
  BY <1>1, <1>4 DEF BatchFail, CInv, Snapshots
<1>5. CASE Fire
  <2>1. /\ outbox # <<>> /\ seen' = Observe(seen, Head(outbox)) /\ outbox' = Tail(outbox)
        /\ graph' = graph /\ batch' = batch
    BY <1>5 DEF Fire
  <2>2. Leads(seen', outbox', View(graph))
    BY <2>1, LeadsFire DEF CInv
  <2>3. batch = None
    BY <2>1 DEF CInv
  <2>4. Snapshots' = {graph}
    BY <2>1, <2>3 DEF Snapshots
  <2> QED BY <1>1, <2>1, <2>2, <2>3, <2>4 DEF CInv
<1> QED BY <1>2, <1>3, <1>4, <1>5

LEMMA NextCInv == IInv /\ TInv /\ CInv /\ [Next]_vars => CInv'
<1>1. CInv /\ UNCHANGED vars => CInv'
  BY DEF CInv, Snapshots, vars
<1> QED BY <1>1, CreateAnnounces, CommandAnnounces, LoopAnnounces DEF Next

LEMMA InitCInv == Init => CInv
<1> SUFFICES ASSUME Init PROVE CInv
  OBVIOUS
<1>1. Snapshots = {graph} /\ graph.panes = EmptyMap /\ DOMAIN EmptyMap = {}
  BY DEF Init, Snapshots, EmptyGraph, Snapshot, EmptyMap
<1>2. IsFiniteSet({})
  BY FS_EmptySet
<1>3. Leads(seen, outbox, View(graph))
  BY LeadsNone DEF Init
<1> QED BY <1>1, <1>2, <1>3 DEF CInv, Init

\* A subscriber that folds every event of every command and batch ends up
\* with the graph's sessions, windows, names, panes and zooms, for any number
\* of them and any length of the event list: no command announces less, more
\* or something else than what it committed (SessionGraph::fire and the
\* events collected by apply_batch)
THEOREM CatchesUpHolds == Spec => []CatchesUp
<1>1. CInv => CatchesUp
  BY LeadsFolded DEF CInv, CatchesUp
<1>2. IInv /\ TInv /\ CInv /\ [Next]_vars => IInv' /\ TInv' /\ CInv'
  BY NextIInv, NextTInv, NextCInv
<1> QED BY <1>1, <1>2, InitIInv, InitTInv, InitCInv, PTL DEF Spec

=============================================================================
