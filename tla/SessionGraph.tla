---------------------------- MODULE SessionGraph ----------------------------
(***************************************************************************)
(* The session graph of shux-core (crates/shux-core/src/graph.rs): the     *)
(* sessions, windows and panes one daemon owns.  A single task             *)
(* (run_graph_loop) executes commands one at a time; readers take the      *)
(* published snapshot without a lock and event subscribers rebuild the     *)
(* graph from the events each command fires AFTER its commit.              *)
(*                                                                         *)
(* Abstracted data: names and titles are members of small sets, a layout   *)
(* tree is the sequence of its leaves (module LayoutTree shows that the    *)
(* tree operations act on it as written here) with one of two settings of  *)
(* its ratios, tags, themes, commands and working directories are left out *)
(* (UpdateSession and UpdatePane keep their version stamps).  Exit and     *)
(* program status are module PanePty.                                      *)
(*                                                                         *)
(* A command that the code refuses changes nothing and is no step here,    *)
(* and neither is create_pane, which nothing but tests calls.              *)
(***************************************************************************)
EXTENDS Naturals, Sequences, FiniteSets, LayoutLeaves

CONSTANTS
    Session, Window, Pane,  \* identifiers (UUIDs: never allocated twice)
    Name,                   \* session names that pass validate_session_name
    Title,                  \* window titles that pass validate_window_title
    None,                   \* Option::None
    MaxPanes,               \* MAX_PANES_PER_SESSION
    MaxVersion              \* bound of the exploration: commits per behaviour

ASSUME MaxPanesAssumption == MaxPanes \in Nat \ {0}
ASSUME MaxVersionAssumption == MaxVersion \in Nat
ASSUME NoneAssumption == None \notin Session \cup Window \cup Pane

VARIABLES
    graph,    \* the published SessionGraphSnapshot (SessionGraph::state)
    batch,    \* apply_batch at work: its private clone and events, or None
    outbox,   \* events of the committed command that are not fired yet
    seen,     \* what a subscriber that folds every event believes
    used      \* identifiers handed out so far

vars == <<graph, batch, outbox, seen, used>>

-----------------------------------------------------------------------------
(* Snapshots                                                               *)

\* f with k mapped to v (HashMap::insert)
Put(f, k, v) == [x \in DOMAIN f \cup {k} |-> IF x = k THEN v ELSE f[x]]

\* f without the keys in S (HashMap::remove)
Drop(f, S) == [x \in DOMAIN f \ S |-> f[x]]

Snapshot(sessions, windows, panes, version) ==
    [sessions |-> sessions, windows |-> windows, panes |-> panes, version |-> version]

EmptyMap == [x \in {} |-> None]
EmptyGraph == Snapshot(EmptyMap, EmptyMap, EmptyMap, 0)

SessionOf(G, p) == G.windows[G.panes[p].window].session
PanesOfWindow(G, w) == {p \in DOMAIN G.panes : G.panes[p].window = w}
PanesOfSession(G, s) == {p \in DOMAIN G.panes : SessionOf(G, p) = s}
Leaves(G, w) == Range(G.windows[w].leaves)

SessionNameExists(G, n) == \E s \in DOMAIN G.sessions : G.sessions[s].name = n
WindowNameExists(G, s, t) ==
    \E w \in Range(G.sessions[s].windows) : G.windows[w].title = t

\* check_session_capacity; the byte budget is not modelled
HasCapacity(G, s) == Cardinality(PanesOfSession(G, s)) < MaxPanes

\* Two settings of the ratios of a layout's splits
Ratios == 1..2

NewWindow(s, t, p) ==
    [session |-> s, title |-> t, leaves |-> <<p>>, ratios |-> 1, zoom |-> None,
     active |-> p, version |-> 1]
NewPane(w) == [window |-> w, version |-> 1]

\* Mutant: a command that changes the layout stamps the window only
BumpPanesNot(G, w) == G.panes

\* Every pane of window w gets a new version
BumpPanes(G, w) ==
    [p \in DOMAIN G.panes |->
        IF G.panes[p].window = w THEN [G.panes[p] EXCEPT !.version = @ + 1]
                                 ELSE G.panes[p]]

-----------------------------------------------------------------------------
(* Events, and the view of the graph a subscriber folds from them          *)

SessionCreated(s, n)    == [type |-> "SessionCreated", session |-> s, name |-> n]
SessionRenamed(s, n)    == [type |-> "SessionRenamed", session |-> s, name |-> n]
SessionKilled(s)        == [type |-> "SessionKilled", session |-> s]
WindowCreated(w, s, t)  == [type |-> "WindowCreated", window |-> w, session |-> s, title |-> t]
WindowRenamed(w, t)     == [type |-> "WindowRenamed", window |-> w, title |-> t]
WindowKilled(w)         == [type |-> "WindowKilled", window |-> w]
PaneCreated(p, w)       == [type |-> "PaneCreated", pane |-> p, window |-> w]
PaneKilled(p)           == [type |-> "PaneExited", pane |-> p]   \* exit_status: None
PaneZoomed(p, on)       == [type |-> "PaneZoomed", pane |-> p, zoomed |-> on]

\* fire_unzoomed: the event that announces a cleared zoom, if there was one
Unzoomed(zoom) == IF zoom = None THEN <<>> ELSE <<PaneZoomed(zoom, FALSE)>>

\* What a subscriber holds after event e
Observe(v, e) ==
    CASE e.type \in {"SessionCreated", "SessionRenamed"} ->
            [v EXCEPT !.sessions = Put(@, e.session, e.name)]
      [] e.type = "SessionKilled" ->
            [v EXCEPT !.sessions = Drop(@, {e.session})]
      [] e.type = "WindowCreated" ->
            [v EXCEPT !.windows = Put(@, e.window, [session |-> e.session, title |-> e.title])]
      [] e.type = "WindowRenamed" ->
            [v EXCEPT !.windows[e.window].title = e.title]
      [] e.type = "WindowKilled" ->
            [v EXCEPT !.windows = Drop(@, {e.window})]
      [] e.type = "PaneCreated" ->
            [v EXCEPT !.panes = Put(@, e.pane, e.window)]
      [] e.type = "PaneExited" ->
            [v EXCEPT !.panes = Drop(@, {e.pane}), !.zoomed = @ \ {e.pane}]
      [] e.type = "PaneZoomed" ->
            [v EXCEPT !.zoomed = IF e.zoomed THEN @ \cup {e.pane} ELSE @ \ {e.pane}]

\* The view after all of es
Folded(v, es) ==
    LET after[i \in 0..Len(es)] == IF i = 0 THEN v ELSE Observe(after[i - 1], es[i])
    IN  after[Len(es)]

\* The same view, read off a snapshot
View(G) ==
    [sessions |-> [s \in DOMAIN G.sessions |-> G.sessions[s].name],
     windows  |-> [w \in DOMAIN G.windows |->
                     [session |-> G.windows[w].session, title |-> G.windows[w].title]],
     panes    |-> [p \in DOMAIN G.panes |-> G.panes[p].window],
     zoomed   |-> {G.windows[w].zoom : w \in DOMAIN G.windows} \ {None}]

-----------------------------------------------------------------------------
(* What each operation makes of a snapshot G.  The three that a batch can  *)
(* stage exist twice in the code (create_session_with_command and          *)
(* stage_create_session, ...) and change the snapshot in the same way.     *)

\* create_session_with_command, stage_create_session
WithSession(G, s, w, p, n, t) ==
    Snapshot(Put(G.sessions, s, [name |-> n, windows |-> <<w>>, active |-> w, version |-> 1]),
             Put(G.windows, w, NewWindow(s, t, p)),
             Put(G.panes, p, NewPane(w)),
             G.version + 1)

\* create_window_with_command, stage_create_window
WithWindow(G, s, w, p, t) ==
    LET ses == G.sessions[s]
    IN  Snapshot(Put(G.sessions, s, [ses EXCEPT !.windows = Append(@, w),
                                                !.active = w,
                                                !.version = @ + 1]),
                 Put(G.windows, w, NewWindow(s, t, p)),
                 Put(G.panes, p, NewPane(w)),
                 G.version + 1)

\* split_pane_with_command, stage_split_pane: q is placed right after p, any
\* zoom is cleared, q gets the focus; no pane version changes
WithSplit(G, p, q) ==
    LET w == G.panes[p].window
        win == G.windows[w]
    IN  Snapshot(G.sessions,
                 Put(G.windows, w, [win EXCEPT !.leaves = SplitLeaf(@, p, q),
                                               !.zoom = None,
                                               !.active = q,
                                               !.version = @ + 1]),
                 Put(G.panes, q, NewPane(w)),
                 G.version + 1)

\* Mutant: the panes of the windows stay behind
WithoutSessionLeavingPanes(G, s) ==
    Snapshot(Drop(G.sessions, {s}), Drop(G.windows, Range(G.sessions[s].windows)), G.panes,
             G.version + 1)

\* destroy_session: the session, its windows and their panes
WithoutSession(G, s) ==
    LET ws == Range(G.sessions[s].windows)
    IN  Snapshot(Drop(G.sessions, {s}),
                 Drop(G.windows, ws),
                 Drop(G.panes, {p \in DOMAIN G.panes : G.panes[p].window \in ws}),
                 G.version + 1)

\* destroy_window: the first remaining window gets the focus if w had it
WithoutWindow(G, w) ==
    LET s == G.windows[w].session
        ses == G.sessions[s]
        rest == Without(ses.windows, w)
    IN  Snapshot(Put(G.sessions, s, [ses EXCEPT !.windows = rest,
                                                !.active = IF @ = w THEN Head(rest) ELSE @,
                                                !.version = @ + 1]),
                 Drop(G.windows, {w}),
                 Drop(G.panes, PanesOfWindow(G, w)),
                 G.version + 1)

\* destroy_pane: any zoom is cleared, and the first leaf gets the focus if p
\* had it
WithoutPane(G, p) ==
    LET w == G.panes[p].window
        win == G.windows[w]
        rest == RemoveLeaf(win.leaves, p)
    IN  Snapshot(G.sessions,
                 Put(G.windows, w, [win EXCEPT !.leaves = rest,
                                               !.zoom = None,
                                               !.active = IF @ = p THEN Head(rest) ELSE @,
                                               !.version = @ + 1]),
                 Drop(G.panes, {p}),
                 G.version + 1)

\* rename_session
WithSessionName(G, s, n) ==
    LET ses == G.sessions[s]
    IN  Snapshot(Put(G.sessions, s, [ses EXCEPT !.name = n, !.version = @ + 1]),
                 G.windows, G.panes, G.version + 1)

\* rename_window
WithTitle(G, w, t) ==
    LET win == G.windows[w]
    IN  Snapshot(G.sessions, Put(G.windows, w, [win EXCEPT !.title = t, !.version = @ + 1]),
                 G.panes, G.version + 1)

\* focus_window, reorder_window: the session's focus and window order
WithOrder(G, s, windows, active) ==
    LET ses == G.sessions[s]
    IN  Snapshot(Put(G.sessions, s, [ses EXCEPT !.windows = windows, !.active = active,
                                                !.version = @ + 1]),
                 G.windows, G.panes, G.version + 1)

\* The zoom of a window after toggling it on p
ToggleZoom(win, p) == ToggledZoom(win.leaves, win.zoom, p, None)

\* Mutant: a zoom that hides the pane stays
WithFocusKeepingZoom(G, p) ==
    LET w == G.panes[p].window
        win == G.windows[w]
    IN  Snapshot(G.sessions, Put(G.windows, w, [win EXCEPT !.active = p, !.version = @ + 1]),
                 G.panes, G.version + 1)

\* focus_pane: focusing a pane that a zoom hides clears the zoom, and then
\* every pane of the window changes
WithFocus(G, p) ==
    LET w == G.panes[p].window
        win == G.windows[w]
        hidden == win.zoom \notin {None, p}
    IN  Snapshot(G.sessions,
                 Put(G.windows, w, [win EXCEPT !.zoom = IF hidden THEN None ELSE @,
                                               !.active = p,
                                               !.version = @ + 1]),
                 IF hidden THEN BumpPanes(G, w) ELSE G.panes,
                 G.version + 1)

\* zoom_pane: zooming p also focuses it
WithZoom(G, p) ==
    LET w == G.panes[p].window
        win == G.windows[w]
        zoom == ToggleZoom(win, p)
    IN  Snapshot(G.sessions,
                 Put(G.windows, w, [win EXCEPT !.zoom = zoom,
                                               !.active = IF zoom # None THEN p ELSE @,
                                               !.version = @ + 1]),
                 BumpPanes(G, w),
                 G.version + 1)

\* resize_pane, swap_panes: a new layout for window w, unzoomed
WithLayout(G, w, leaves, ratios) ==
    LET win == G.windows[w]
    IN  Snapshot(G.sessions,
                 Put(G.windows, w, [win EXCEPT !.leaves = leaves, !.ratios = ratios,
                                               !.zoom = None, !.version = @ + 1]),
                 BumpPanes(G, w),
                 G.version + 1)

\* set_session_tag, set_session_theme
WithSessionStamp(G, s) ==
    LET ses == G.sessions[s]
    IN  Snapshot(Put(G.sessions, s, [ses EXCEPT !.version = @ + 1]),
                 G.windows, G.panes, G.version + 1)

\* set_pane_tag, set_pane_theme, set_pane_title, set_pane_osc_title
WithPaneStamp(G, p) ==
    LET pane == G.panes[p]
    IN  Snapshot(G.sessions, G.windows,
                 Put(G.panes, p, [pane EXCEPT !.version = @ + 1]), G.version + 1)

-----------------------------------------------------------------------------
(* The single-writer loop                                                  *)

Init ==
    /\ graph = EmptyGraph
    /\ batch = None
    /\ outbox = <<>>
    /\ seen = View(EmptyGraph)
    /\ used = {}

\* The loop takes a command when the one before has returned: a batch in
\* progress or events still to fire belong to the running command
Idle == batch = None /\ outbox = <<>>

\* commit_snapshot, then the fires of the command
Commit(G, events) ==
    /\ Idle
    /\ graph.version < MaxVersion
    /\ graph' = G
    /\ outbox' = events
    /\ UNCHANGED <<batch, seen>>

\* EventBus::publish of the next event of the committed command
Fire ==
    /\ outbox # <<>>
    /\ seen' = Observe(seen, Head(outbox))
    /\ outbox' = Tail(outbox)
    /\ UNCHANGED <<graph, batch, used>>

Fresh(S) == S \ used

CreateSession(s, w, p, n, t) ==
    /\ ~SessionNameExists(graph, n)
    /\ Commit(WithSession(graph, s, w, p, n, t),
              <<SessionCreated(s, n), WindowCreated(w, s, t), PaneCreated(p, w)>>)
    /\ used' = used \cup {s, w, p}

CreateWindow(s, w, p, t) ==
    /\ s \in DOMAIN graph.sessions
    /\ ~WindowNameExists(graph, s, t)
    /\ HasCapacity(graph, s)
    /\ Commit(WithWindow(graph, s, w, p, t), <<WindowCreated(w, s, t), PaneCreated(p, w)>>)
    /\ used' = used \cup {w, p}

\* Mutant: the zoom that the split clears is not announced
SplitPaneSilently(p, q) ==
    /\ p \in DOMAIN graph.panes
    /\ p \in Leaves(graph, graph.panes[p].window)
    /\ HasCapacity(graph, SessionOf(graph, p))
    /\ Commit(WithSplit(graph, p, q), <<PaneCreated(q, graph.panes[p].window)>>)
    /\ used' = used \cup {q}

SplitPane(p, q) ==
    /\ p \in DOMAIN graph.panes
    /\ p \in Leaves(graph, graph.panes[p].window)
    /\ HasCapacity(graph, SessionOf(graph, p))
    /\ Commit(WithSplit(graph, p, q),
              Append(Unzoomed(graph.windows[graph.panes[p].window].zoom),
                     PaneCreated(q, graph.panes[p].window)))
    /\ used' = used \cup {q}

\* The panes come out of a HashMap: any order
DestroySession(s) ==
    /\ s \in DOMAIN graph.sessions
    /\ \E order \in SetToSeqs(PanesOfSession(graph, s)) :
          Commit(WithoutSession(graph, s),
                 [i \in DOMAIN order |-> PaneKilled(order[i])]
                 \o [i \in DOMAIN graph.sessions[s].windows |->
                        WindowKilled(graph.sessions[s].windows[i])]
                 \o <<SessionKilled(s)>>)
    /\ UNCHANGED used

DestroyWindow(w) ==
    /\ w \in DOMAIN graph.windows
    /\ Len(graph.sessions[graph.windows[w].session].windows) > 1
    /\ \E order \in SetToSeqs(PanesOfWindow(graph, w)) :
          Commit(WithoutWindow(graph, w),
                 Append([i \in DOMAIN order |-> PaneKilled(order[i])], WindowKilled(w)))
    /\ UNCHANGED used

DestroyPane(p) ==
    /\ p \in DOMAIN graph.panes
    /\ Cardinality(PanesOfWindow(graph, graph.panes[p].window)) > 1
    /\ Commit(WithoutPane(graph, p),
              Append(Unzoomed(graph.windows[graph.panes[p].window].zoom), PaneKilled(p)))
    /\ UNCHANGED used

\* destroy_pane_and_empty_parents: the pane, or the window it would leave
\* empty, or the session that window would leave empty
DestroyPaneAndEmptyParents(p) ==
    /\ p \in DOMAIN graph.panes
    /\ LET w == graph.panes[p].window
           s == graph.windows[w].session
       IN  \/ DestroyPane(p)
           \/ /\ Cardinality(PanesOfWindow(graph, w)) <= 1
              /\ DestroyWindow(w)
           \/ /\ Cardinality(PanesOfWindow(graph, w)) <= 1
              /\ Len(graph.sessions[s].windows) <= 1
              /\ DestroySession(s)

RenameSession(s, n) ==
    /\ s \in DOMAIN graph.sessions
    /\ ~SessionNameExists(graph, n)
    /\ Commit(WithSessionName(graph, s, n), <<SessionRenamed(s, n)>>)
    /\ UNCHANGED used

\* Renaming a window to its own title is allowed
RenameWindow(w, t) ==
    /\ w \in DOMAIN graph.windows
    /\ \A v \in Range(graph.sessions[graph.windows[w].session].windows) \ {w} :
          graph.windows[v].title # t
    /\ Commit(WithTitle(graph, w, t), <<WindowRenamed(w, t)>>)
    /\ UNCHANGED used

FocusWindow(w) ==
    /\ w \in DOMAIN graph.windows
    /\ LET s == graph.windows[w].session
       IN  Commit(WithOrder(graph, s, graph.sessions[s].windows, w), <<>>)
    /\ UNCHANGED used

\* i is the 1-based form of new_index
ReorderWindow(w, i) ==
    /\ w \in DOMAIN graph.windows
    /\ LET s == graph.windows[w].session
           ws == graph.sessions[s].windows
       IN  /\ i \in DOMAIN ws
           /\ Commit(WithOrder(graph, s, InsertAt(Without(ws, w), i, w),
                               graph.sessions[s].active), <<>>)
    /\ UNCHANGED used

\* PaneFocused carries nothing the view holds
FocusPane(p) ==
    /\ p \in DOMAIN graph.panes
    /\ LET zoom == graph.windows[graph.panes[p].window].zoom
       IN  Commit(WithFocus(graph, p), IF zoom = p THEN <<>> ELSE Unzoomed(zoom))
    /\ UNCHANGED used

\* focus_pane_direction: a neighbour in the tree on screen, which is a single
\* leaf while the window is zoomed
FocusPaneDirection(w) ==
    /\ w \in DOMAIN graph.windows
    /\ graph.windows[w].zoom = None
    /\ \E p \in Leaves(graph, w) \ {graph.windows[w].active} : FocusPane(p)

\* resize_pane changes ratios only, and not those already at their limit;
\* without a split in the asked direction above p nothing is committed
ResizePane(p) ==
    /\ p \in DOMAIN graph.panes
    /\ LET w == graph.panes[p].window
       IN  /\ p \in Leaves(graph, w) /\ Len(graph.windows[w].leaves) > 1
           /\ \E ratios \in Ratios :
                 Commit(WithLayout(graph, w, graph.windows[w].leaves, ratios),
                        Unzoomed(graph.windows[w].zoom))
    /\ UNCHANGED used

SwapPanes(a, b) ==
    /\ a # b
    /\ {a, b} \subseteq DOMAIN graph.panes
    /\ graph.panes[a].window = graph.panes[b].window
    /\ LET w == graph.panes[a].window
       IN  /\ {a, b} \subseteq Leaves(graph, w)
           /\ Commit(WithLayout(graph, w, SwapLeaves(graph.windows[w].leaves, a, b),
                                graph.windows[w].ratios),
                     Unzoomed(graph.windows[w].zoom))
    /\ UNCHANGED used

ZoomPane(p) ==
    /\ p \in DOMAIN graph.panes
    /\ LET win == graph.windows[graph.panes[p].window]
           zoom == ToggleZoom(win, p)
       IN  /\ win.zoom # zoom
           /\ Commit(WithZoom(graph, p),
                     Unzoomed(win.zoom)
                     \o (IF zoom = None THEN <<>> ELSE <<PaneZoomed(zoom, TRUE)>>))
    /\ UNCHANGED used

\* zoom_pane_if_focused never clears a zoom
ZoomPaneIfFocused(p, focused) ==
    /\ p \in DOMAIN graph.panes
    /\ LET win == graph.windows[graph.panes[p].window]
       IN win.active = focused /\ win.zoom = None /\ Len(win.leaves) >= 2
    /\ ZoomPane(p)

\* A tag or a theme
UpdateSession(s) ==
    /\ s \in DOMAIN graph.sessions
    /\ Commit(WithSessionStamp(graph, s), <<>>)
    /\ UNCHANGED used

\* A tag, a theme or a title: the event of a title carries nothing the view
\* holds
UpdatePane(p) ==
    /\ p \in DOMAIN graph.panes
    /\ Commit(WithPaneStamp(graph, p), <<>>)
    /\ UNCHANGED used

-----------------------------------------------------------------------------
(* apply_batch: ops run against a private clone, in order; the first that  *)
(* fails drops the clone, otherwise it is committed once.  The graph task  *)
(* is busy meanwhile, readers keep reading the published snapshot.  A      *)
(* back-reference is an id an earlier op of the batch put into the clone.  *)

BatchBegin ==
    /\ Idle
    /\ graph.version < MaxVersion
    /\ batch' = [snap |-> graph, events |-> <<>>]
    /\ UNCHANGED <<graph, outbox, seen, used>>

Stage(G, events, ids) ==
    /\ batch.snap.version < MaxVersion
    /\ batch' = [snap |-> G, events |-> batch.events \o events]
    /\ used' = used \cup ids
    /\ UNCHANGED <<graph, outbox, seen>>

\* Mutant: the name is checked against the published graph, not the clone
StageCreateSessionUnchecked(s, w, p, n, t) ==
    /\ batch # None
    /\ ~SessionNameExists(graph, n)
    /\ Stage(WithSession(batch.snap, s, w, p, n, t),
             <<SessionCreated(s, n), WindowCreated(w, s, t), PaneCreated(p, w)>>,
             {s, w, p})

StageCreateSession(s, w, p, n, t) ==
    /\ batch # None
    /\ ~SessionNameExists(batch.snap, n)
    /\ Stage(WithSession(batch.snap, s, w, p, n, t),
             <<SessionCreated(s, n), WindowCreated(w, s, t), PaneCreated(p, w)>>,
             {s, w, p})

StageCreateWindow(s, w, p, t) ==
    /\ batch # None
    /\ s \in DOMAIN batch.snap.sessions
    /\ ~WindowNameExists(batch.snap, s, t)
    /\ HasCapacity(batch.snap, s)
    /\ Stage(WithWindow(batch.snap, s, w, p, t),
             <<WindowCreated(w, s, t), PaneCreated(p, w)>>, {w, p})

StageSplitPane(p, q) ==
    /\ batch # None
    /\ LET G == batch.snap
       IN  /\ p \in DOMAIN G.panes
           /\ p \in Leaves(G, G.panes[p].window)
           /\ HasCapacity(G, SessionOf(G, p))
           /\ Stage(WithSplit(G, p, q),
                    Append(Unzoomed(G.windows[G.panes[p].window].zoom),
                           PaneCreated(q, G.panes[p].window)), {q})

\* All ops staged; an empty batch is refused
BatchCommit ==
    /\ batch # None
    /\ batch.events # <<>>
    /\ graph' = batch.snap
    /\ outbox' = batch.events
    /\ batch' = None
    /\ UNCHANGED <<seen, used>>

\* An op, a reference or the whole batch is refused: no commit, no event
BatchFail ==
    /\ batch # None
    /\ batch' = None
    /\ UNCHANGED <<graph, outbox, seen, used>>

-----------------------------------------------------------------------------
Create ==
    \/ \E s \in Fresh(Session), w \in Fresh(Window), p \in Fresh(Pane), n \in Name, t \in Title :
          CreateSession(s, w, p, n, t) \/ StageCreateSession(s, w, p, n, t)
    \/ \E s \in Session, w \in Fresh(Window), p \in Fresh(Pane), t \in Title :
          CreateWindow(s, w, p, t) \/ StageCreateWindow(s, w, p, t)
    \/ \E p \in Pane, q \in Fresh(Pane) : SplitPane(p, q) \/ StageSplitPane(p, q)

SessionCommand ==
    \E s \in Session :
        \/ DestroySession(s)
        \/ UpdateSession(s)
        \/ \E n \in Name : RenameSession(s, n)

WindowCommand ==
    \E w \in Window :
        \/ DestroyWindow(w)
        \/ FocusWindow(w)
        \/ FocusPaneDirection(w)
        \/ \E t \in Title : RenameWindow(w, t)
        \/ \E i \in 1..Cardinality(Window) : ReorderWindow(w, i)

PaneCommand ==
    \E p \in Pane :
        \/ DestroyPane(p)
        \/ DestroyPaneAndEmptyParents(p)
        \/ FocusPane(p)
        \/ ResizePane(p)
        \/ ZoomPane(p)
        \/ UpdatePane(p)
        \/ \E q \in Pane : SwapPanes(p, q) \/ ZoomPaneIfFocused(p, q)

\* run_graph_loop
Next ==
    \/ Create
    \/ SessionCommand
    \/ WindowCommand
    \/ PaneCommand
    \/ BatchBegin \/ BatchCommit \/ BatchFail
    \/ Fire

Spec == Init /\ [][Next]_vars

-----------------------------------------------------------------------------
(* Properties                                                              *)

SessionRecord == [name : Name, windows : Seq(Window), active : Window, version : Nat]
WindowRecord ==
    [session : Session, title : Title, leaves : Seq(Pane), ratios : Ratios,
     zoom : Pane \cup {None}, active : Pane, version : Nat]
PaneRecord == [window : Window, version : Nat]

IsMap(f, K, V) == DOMAIN f \subseteq K /\ f \in [DOMAIN f -> V]

SnapshotType(G) ==
    /\ G = Snapshot(G.sessions, G.windows, G.panes, G.version)
    /\ IsMap(G.sessions, Session, SessionRecord)
    /\ IsMap(G.windows, Window, WindowRecord)
    /\ IsMap(G.panes, Pane, PaneRecord)
    /\ G.version \in Nat

\* The snapshots the graph task holds: the published one and a batch's clone
Snapshots == {graph} \cup (IF batch = None THEN {} ELSE {batch.snap})

\* Every state the graph task can be in is a well-typed snapshot, whatever
\* the sequence of commands and batches
TypeOK ==
    /\ \A G \in Snapshots : SnapshotType(G)
    /\ batch # None => DOMAIN batch = {"snap", "events"}
    /\ used \subseteq Session \cup Window \cup Pane

\* A session lists exactly the windows that name it as their session, each
\* once and at least one, and focuses one of them; a window's session exists
SessionsOwnWindows(G) ==
    /\ \A w \in DOMAIN G.windows : G.windows[w].session \in DOMAIN G.sessions
    /\ \A s \in DOMAIN G.sessions :
          /\ Range(G.sessions[s].windows) = {w \in DOMAIN G.windows : G.windows[w].session = s}
          /\ IsInjective(G.sessions[s].windows)
          /\ G.sessions[s].active \in Range(G.sessions[s].windows)

\* A window's layout has exactly the panes that name it as their window, each
\* once and at least one; a pane's window exists
WindowsOwnPanes(G) ==
    /\ \A p \in DOMAIN G.panes : G.panes[p].window \in DOMAIN G.windows
    /\ \A w \in DOMAIN G.windows :
          /\ Leaves(G, w) = PanesOfWindow(G, w)
          /\ IsInjective(G.windows[w].leaves)
          /\ G.windows[w].active \in Leaves(G, w)

\* The graph is a forest: no command, cascade or batch leaves a dangling
\* reference, an entity listed twice, or an empty session or window
Hierarchy == \A G \in Snapshots : SessionsOwnWindows(G) /\ WindowsOwnPanes(G)

\* "The focused pane is never one the window does not show" (focus_pane):
\* input goes to a pane on screen, and a zoom has something to hide
FocusOnScreen ==
    \A G \in Snapshots : \A w \in DOMAIN G.windows :
        G.windows[w].zoom # None =>
            /\ G.windows[w].zoom = G.windows[w].active
            /\ Len(G.windows[w].leaves) > 1

\* Names that address an entity address one: session names are unique, window
\* titles are unique within a session, also between the ops of one batch
NamesUnique ==
    \A G \in Snapshots :
        /\ \A s1, s2 \in DOMAIN G.sessions :
              G.sessions[s1].name = G.sessions[s2].name => s1 = s2
        /\ \A w1, w2 \in DOMAIN G.windows :
              G.windows[w1].session = G.windows[w2].session
              /\ G.windows[w1].title = G.windows[w2].title => w1 = w2

\* A subscriber that folds every event ends up with the graph's sessions,
\* windows, names, panes and zooms once the fires of the command are through
CatchesUp == Folded(seen, outbox) = View(graph)

\* No record of map f changes without a new version
Stamped(f, g) ==
    \A x \in DOMAIN f \cap DOMAIN g : f[x] = g[x] \/ g[x].version > f[x].version

\* Window w has the same panes in G and in H, arranged otherwise
Rearranged(G, H, w) ==
    /\ Leaves(G, w) = Leaves(H, w)
    /\ \/ G.windows[w].leaves # H.windows[w].leaves
       \/ G.windows[w].ratios # H.windows[w].ratios
       \/ G.windows[w].zoom # H.windows[w].zoom

\* "Without this, expected_version checks on a sibling pane after a concurrent
\* resize would silently succeed" (resize_pane): panes that are resized,
\* swapped, hidden or shown again all change, the ones not named included
SiblingsStamped(G, H) ==
    \A w \in DOMAIN G.windows \cap DOMAIN H.windows : Rearranged(G, H, w) =>
        \A p \in DOMAIN G.panes \cap DOMAIN H.panes :
            G.panes[p].window = w => H.panes[p].version > G.panes[p].version

\* Optimistic concurrency rests on this: an id whose version a client still
\* finds unchanged names the very record the client has read, and a pane whose
\* version is unchanged is where the client saw it, unless a split or a kill
\* has changed which panes its window has
VersionStamps ==
    [][/\ Stamped(graph.sessions, graph'.sessions)
       /\ Stamped(graph.windows, graph'.windows)
       /\ Stamped(graph.panes, graph'.panes)
       /\ SiblingsStamped(graph, graph')
       /\ graph' # graph => graph'.version > graph.version]_vars

=============================================================================
