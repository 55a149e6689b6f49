------------------------------ MODULE Windows ------------------------------
(***************************************************************************)
(* The windows, tabs and panes of the Qt front end, on its one GUI thread: *)
(* MainWindow, the application singleton GhosttyApp with its quit timer    *)
(* and teardown, and the undo stacks.  What makes one thread hard are the  *)
(* nested event loops: a confirmation dialog or a tab that is dragged runs *)
(* the events posted meanwhile, closes among them, before its caller goes  *)
(* on.                                                                     *)
(*                                                                         *)
(* The whole state is one record, gui; an operator that takes one and      *)
(* returns one is a function of the source, so that a handler is their     *)
(* composition.  A tab is the set of its panes (surfaces); the current tab *)
(* is any tab, since the user may change it at any time.                   *)
(***************************************************************************)
EXTENDS Naturals, Sequences, FiniteSets, SequencesExt

CONSTANTS
    MaxWindows,    \* bound: windows ever made
    MaxSurfaces,   \* bound: surfaces ever made
    MaxInputs,     \* bound: what the user, the shells and other processes do
    MaxNesting,    \* bound: event loops inside each other
    Cap,           \* kCap, entries in the undo and redo stacks
    Modes,         \* what follows the last window: "now", "delay" or "never"
    Hides,         \* whether windows are hidden and shown again
    Layouts        \* the windows at the start: of each, the tabs, of each its panes

Window == 1..MaxWindows
Surface == 1..MaxSurfaces
Panes(layout) == UNION {UNION ToSet(layout[w]) : w \in DOMAIN layout}

\* Windows and panes are numbered as they were made, and a pane is in one tab.
ASSUME WindowsAssumption ==
    /\ {MaxWindows, MaxSurfaces, MaxInputs, MaxNesting, Cap} \subseteq Nat \ {0}
    /\ Modes \subseteq {"now", "delay", "never"} /\ Hides \in BOOLEAN
    /\ \A layout \in Layouts :
          /\ layout \in Seq(Seq((SUBSET Surface) \ {{}}))
          /\ Len(layout) \in Window
          /\ Panes(layout) = 1..Cardinality(Panes(layout))
          /\ \A v, w \in DOMAIN layout : \A i \in DOMAIN layout[v], j \in DOMAIN layout[w] :
                layout[v][i] \cap layout[w][j] # {} => v = w /\ i = j

NoWindow == 0
App == 0                     \* the receiver qApp

VARIABLE gui

Deletions == {"delete page", "delete window"}
AppEvents == {"new window", "quick terminal", "undo", "redo", "close all", "toggle visibility",
              "quit timer", "quit"}

Event(kind, w, panes, arg, level) ==
    [kind |-> kind, window |-> w, panes |-> panes, arg |-> arg, level |-> level]

\* invokeMethod and deleteLater; a deletion waits for the loop it was posted in.
Post(g, kind, w, panes, arg) ==
    [g EXCEPT !.queue = Append(@, Event(kind, w, panes, arg,
                 IF kind \in Deletions THEN Len(g.stack) ELSE 0))]

IsDue(g, e) == e.kind \in Deletions => e.level >= Len(g.stack)
Due(g) == SelectInSeq(g.queue, LAMBDA e : IsDue(g, e))

\* On the way to the first event that is due, Qt posts the others again, behind.
Requeued(g) == [g EXCEPT !.queue = SubSeq(@, Due(g), Len(@)) \o SubSeq(@, 1, Due(g) - 1)]

Room(g) == g.born < MaxWindows /\ g.made < MaxSurfaces
Registered(g) == UNION {g.registered[w] : w \in Window}

\* The elements of a sequence that are in a set, in their order.
Kept(seq, S) ==
    LET kept[n \in 0..Len(seq)] ==
            IF n = 0 THEN <<>>
            ELSE IF seq[n] \in S THEN Append(kept[n - 1], seq[n]) ELSE kept[n - 1]
    IN  kept[Len(seq)]
IsQuick(g, w) == g.quick = w

\* Windows that are neither closed nor hidden.
Seen(g) == g.open \ g.hidden

\* A nested event loop; its caller goes on when it ends.
Open(g, kind, w, panes, arg) ==
    [g EXCEPT !.stack = Append(@, [kind |-> kind, window |-> w, panes |-> panes, arg |-> arg])]

\* confirmCloseSurfaces: the close goes on, or a dialog asks first.  Which, is
\* up to confirm-close-surface and to what libghostty says of the panes.
Confirmed(g, accepted, asking) ==
    IF Len(g.stack) = MaxNesting THEN {accepted} ELSE {accepted, asking}

-----------------------------------------------------------------------------
(* The core's list of surfaces.                                            *)

\* Mutant: the first surface does not cancel the quit timer.
AddSurfaceQuietly(g, w) ==
    LET s == g.made + 1
    IN  [g EXCEPT !.made = s, !.core = @ \cup {s}, !.running = @ \cup {s},
                  !.registered[w] = @ \cup {s}, !.owner[s] = w]

AddSurface(g, w) ==
    LET s == g.made + 1
    IN  Post([g EXCEPT !.made = s, !.core = @ \cup {s}, !.running = @ \cup {s},
                       !.registered[w] = @ \cup {s}, !.owner[s] = w],
             "quit timer", App, {}, "stop")

\* Freeing the last surface starts the quit timer.
FreeSurfaces(g, panes) ==
    LET freed == [g EXCEPT !.core = @ \ panes, !.running = @ \ panes,
                           !.owner = [s \in Surface |-> IF s \in panes THEN NoWindow ELSE @[s]]]
    IN  IF panes \cap g.core # {} /\ freed.core = {}
            THEN Post(freed, "quit timer", App, {}, "start") ELSE freed

-----------------------------------------------------------------------------
(* Undo.                                                                   *)

Capped(seq) == IF Len(seq) > Cap THEN Tail(seq) ELSE seq

\* Mutant: the stack grows without bound.
PushUndoUncapped(g, entry, redoing) ==
    IF redoing THEN g ELSE [g EXCEPT !.undo = Append(@, entry), !.redo = <<>>]

\* pushTab, pushWindow; an entry is the number of tabs of a window, 0 for a tab.
PushUndo(g, entry, redoing) ==
    IF redoing THEN g ELSE [g EXCEPT !.undo = Capped(Append(@, entry)), !.redo = <<>>]

-----------------------------------------------------------------------------
(* Closing.                                                                *)

HandleQuitTimer(g, start) == IF g.mode = "delay" THEN [g EXCEPT !.timer = start] ELSE g

\* closeEvent accepts: the window is hidden and deleted later, and Qt may quit
\* when this was the last window seen.
AcceptClose(g, w, redoing) ==
    LET undone == IF g.tabs[w] = <<>> \/ IsQuick(g, w) THEN g
                  ELSE PushUndo(g, Len(g.tabs[w]), redoing)
        closed == Post([undone EXCEPT !.open = @ \ {w}], "delete window", w, {}, "")
    IN  IF g.mode = "now" /\ w \notin g.hidden /\ Seen(closed) = {}
            THEN Post(closed, "quit", App, {}, "") ELSE closed

\* m_skipCloseConfirm and close(), which Qt ignores while the window is in
\* closeEvent and once it is closed.
SkipClose(g, w, redoing) ==
    IF w \notin g.open THEN g
    ELSE IF w \in g.closing THEN [g EXCEPT !.skip = @ \cup {w}]
    ELSE AcceptClose([g EXCEPT !.skip = @ \ {w}], w, redoing)

Close(g, w) ==
    IF w \notin g.open \/ w \in g.closing THEN {g}
    ELSE IF w \in g.skip THEN {SkipClose(g, w, FALSE)}
    ELSE Confirmed(g, AcceptClose(g, w, FALSE),
                   Open([g EXCEPT !.closing = @ \cup {w}], "window", w, {}, <<>>))

\* The tab at an index goes, and the window with its last tab.
RemoveTab(g, w, i, panes, redoing) ==
    LET undone == IF Len(g.tabs[w]) > 1 /\ ~IsQuick(g, w) THEN PushUndo(g, 0, redoing) ELSE g
        gone == Post([undone EXCEPT !.registered[w] = @ \ panes, !.tabs[w] = RemoveAt(@, i)],
                     "delete page", NoWindow, g.tabs[w][i], "")
    IN  IF gone.tabs[w] = <<>> THEN SkipClose(gone, w, redoing) ELSE gone

CloseTab(g, w, i, redoing) ==
    IF i \in DOMAIN g.tabs[w] THEN RemoveTab(g, w, i, g.tabs[w][i], redoing) ELSE g

TabOf(g, w, s) == SelectInSeq(g.tabs[w], LAMBDA page : s \in page)

RemoveSurface(g, w, s) ==
    LET i == TabOf(g, w, s)
    IN  IF s \notin g.registered[w] THEN g
        ELSE IF g.tabs[w][i] = {s} THEN RemoveTab(g, w, i, {s}, FALSE)
        ELSE Post([g EXCEPT !.registered[w] = @ \ {s}, !.tabs[w][i] = @ \ {s}],
                  "delete page", NoWindow, {s}, "")

\* Indices in descending order.
CloseTabs(g, w, indices) ==
    LET after[n \in 0..Len(indices)] ==
            IF n = 0 THEN g ELSE CloseTab(after[n - 1], w, indices[n], FALSE)
    IN  after[Len(indices)]

Indices(g, w, i, tabMode) ==
    LET n == Len(g.tabs[w])
        Down(a, b) == [k \in 1..(IF a < b THEN 0 ELSE a - b + 1) |-> a + 1 - k]
    IN  CASE tabMode = "this" -> <<i>>
          [] tabMode = "other" -> Down(n, i + 1) \o Down(i - 1, 1)
          [] tabMode = "right" -> Down(n, i + 1)

CloseTabsByMode(g, w, s, tabMode) ==
    LET i == TabOf(g, w, s)
        indices == Indices(g, w, i, tabMode)
        panes == UNION {g.tabs[w][k] : k \in ToSet(indices)}
    IN  IF i = 0 THEN {g}
        ELSE IF indices = <<>> THEN {g}
        ELSE Confirmed(g, CloseTabs(g, w, indices), Open(g, "tabs", w, panes, indices))

CloseAll(g, thenQuit) ==
    LET after[n \in 0..Len(g.windows)] ==
            IF n = 0 THEN g ELSE SkipClose(after[n - 1], g.windows[n], FALSE)
        closed == after[Len(g.windows)]
    IN  IF thenQuit \/ g.mode = "now" THEN [closed EXCEPT !.phase = "quit"] ELSE closed

CloseAllWindows(g, thenQuit) ==
    IF g.windows = <<>> THEN {CloseAll(g, thenQuit)}
    ELSE Confirmed(g, CloseAll(g, thenQuit),
                   Open(g, IF thenQuit THEN "quit all" ELSE "all", g.windows[1], {}, <<>>))

-----------------------------------------------------------------------------
(* Opening.                                                                *)

NewTab(g, w) ==
    IF g.made = MaxSurfaces THEN g
    ELSE [AddSurface(g, w) EXCEPT !.tabs[w] = Append(@, {g.made + 1})]

SplitSurface(g, w, s) ==
    IF s \notin g.registered[w] \/ g.made = MaxSurfaces THEN g
    ELSE [AddSurface(g, w) EXCEPT !.tabs[w][TabOf(g, w, s)] = @ \cup {g.made + 1}]

\* The constructor and initialize.
Initialize(g, pending) ==
    LET w == g.born + 1
    IN  [g EXCEPT !.born = w, !.app = TRUE, !.windows = Append(@, w), !.open = @ \cup {w},
                  !.pending = IF pending THEN @ \cup {w} ELSE @]

CreateFirstTab(g, w) ==
    IF w \in g.pending THEN NewTab([g EXCEPT !.pending = @ \ {w}], w) ELSE g

\* The first tab is made at once, or later where the scale is not known yet.
Shown(g, w) == {g, CreateFirstTab(g, w)}

NewWindow(g) ==
    IF Room(g) THEN Shown(Initialize(HandleQuitTimer(g, FALSE), TRUE), g.born + 1) ELSE {g}

\* show or hide
Toggled(g, w) ==
    IF ~Hides \/ w \notin g.open THEN g
    ELSE [g EXCEPT !.hidden = IF w \in @ THEN @ \ {w} ELSE @ \cup {w}]

\* If anything is showing everything is hidden, otherwise all of it is shown.
ToggleVisibility(g) ==
    IF ~Hides THEN g ELSE [g EXCEPT !.hidden = IF Seen(g) # {} THEN g.open ELSE {}]

ToggleQuickTerminal(g) ==
    IF g.quick # NoWindow THEN {Toggled(g, g.quick)}
    ELSE IF ~Room(g) THEN {g}
    ELSE Shown([Initialize(g, TRUE) EXCEPT !.quick = g.born + 1], g.born + 1)

\* Mutant: the window that adopts a tab does not take over its panes.
AdoptTabUnregistered(g, src, w, i) ==
    LET page == g.tabs[src][i]
        moved == [g EXCEPT !.registered[src] = @ \ page, !.tabs[src] = RemoveAt(@, i),
                           !.tabs[w] = Append(@, page)]
    IN  IF moved.tabs[src] = <<>> THEN SkipClose(moved, src, FALSE) ELSE moved

AdoptTab(g, src, w, i) ==
    LET page == g.tabs[src][i]
        moved == [g EXCEPT !.registered[src] = @ \ page, !.registered[w] = @ \cup page,
                           !.owner = [s \in Surface |-> IF s \in page THEN w ELSE @[s]],
                           !.tabs[src] = RemoveAt(@, i), !.tabs[w] = Append(@, page)]
    IN  IF moved.tabs[src] = <<>> THEN SkipClose(moved, src, FALSE) ELSE moved

DetachTab(g, w, i) ==
    IF i \notin DOMAIN g.tabs[w] \/ Len(g.tabs[w]) <= 1 \/ g.born = MaxWindows THEN g
    ELSE AdoptTab(Initialize(g, FALSE), w, g.born + 1, i)

\* undoLast, into any window that may be the active one or, as the last resort,
\* the last that is not the quick terminal, be it closed.
UndoLast(g) ==
    LET e == Last(g.undo)
        regular == Kept(g.windows, ToSet(g.windows) \ {g.quick})
        targets == {w \in ToSet(regular) : w \in Seen(g) \/ w = Last(regular)}
        undone == [g EXCEPT !.undo = Front(@)]
        Redoable(h) == [h EXCEPT !.redo = Capped(Append(@, e))]
        Tabs(h) == [h EXCEPT !.queue =
                       @ \o [k \in 1..(e - 1) |-> Event("new tab", g.born + 1, {}, "", 0)]]
    IN  IF g.undo = <<>> THEN {g}
        ELSE IF e = 0 THEN IF targets = {} THEN {undone}
                           ELSE {Redoable(NewTab(undone, w)) : w \in targets}
        ELSE IF ~Room(g) THEN {undone}
        ELSE {Redoable(Tabs(h)) : h \in NewWindow(undone)}

RedoLast(g) ==
    LET e == Last(g.redo)
        targets == {w \in ToSet(g.windows) : w \in Seen(g) \/ w = Last(g.windows)}
        redone == [g EXCEPT !.redo = Front(@)]
    IN  IF g.redo = <<>> \/ targets = {} THEN {g}
        ELSE IF e = 0
            THEN UNION {IF redone.tabs[w] = <<>> THEN {redone}
                        ELSE {CloseTab(redone, w, i, TRUE) : i \in DOMAIN redone.tabs[w]} :
                            w \in targets}
        ELSE {SkipClose(redone, w, TRUE) : w \in targets}

-----------------------------------------------------------------------------
(* The destructor of a window, and the teardown with the last one.         *)

\* An event posted to qApp.
HandleApp(g, e) ==
    CASE e.kind = "new window" -> NewWindow(g)
      [] e.kind = "quick terminal" -> ToggleQuickTerminal(g)
      [] e.kind = "undo" -> UndoLast(g)
      [] e.kind = "redo" -> RedoLast(g)
      [] e.kind = "close all" -> CloseAllWindows(g, e.arg = "quit")
      [] e.kind = "toggle visibility" -> {ToggleVisibility(g)}
      [] e.kind = "quit timer" -> {HandleQuitTimer(g, e.arg = "start")}
      [] e.kind = "quit" -> {[g EXCEPT !.phase = "quit"]}

\* teardown: the timers stop, qApp's events but Qt's own are handled, the app goes.
Teardown(g) ==
    LET own == {e \in ToSet(g.queue) : e.kind \in AppEvents \ {"quit"}}
        mine == Kept(g.queue, own)
        rest == Kept(g.queue, ToSet(g.queue) \ own)
        after[n \in 0..Len(mine)] ==
            IF n = 0 THEN {[g EXCEPT !.timer = FALSE, !.queue = rest]}
            ELSE UNION {HandleApp(h, mine[n]) : h \in after[n - 1]}
    IN  {[h EXCEPT !.app = FALSE] : h \in after[Len(mine)]}

\* Mutant: the quick terminal does not count.
WasLastNotQuick(g) == ToSet(g.windows) \ {g.quick} = {}

WasLast(g) == g.windows = <<>>

\* Mutant: the core's own request is relied upon.
ArmQuitTimerNot(g) == g

ArmQuitTimer(g) == HandleQuitTimer(g, TRUE)

\* The end of the destructor when no window is registered.
LastGone(g) == IF g.mode = "delay" THEN {ArmQuitTimer(g)} ELSE Teardown(g)

\* newWindow when libghostty makes no app: initialize fails before the window is
\* registered, and its destructor finds no other.
UninitializedWindow(g) == IF g.app THEN {} ELSE LastGone(HandleQuitTimer(g, FALSE))

\* The destructor.  Pages and splitters that were removed are not in m_surfaces:
\* they go after its body, by their own deletion or with Qt's child cleanup.
Destroy(g, w) ==
    LET alone == [g EXCEPT !.windows = Kept(@, ToSet(@) \ {w}), !.pending = @ \ {w}, !.skip = @ \ {w},
                           !.quick = IF @ = w THEN NoWindow ELSE @,
                           !.registered[w] = {}, !.tabs[w] = <<>>,
                           !.queue = Kept(@, {e \in ToSet(@) : e.window # w})]
        freed == FreeSurfaces(alone, g.registered[w])
    IN  IF WasLast(freed) THEN LastGone(freed) ELSE {freed}

\* A dialog on the stack of the GUI thread is a child of its window.
DialogLost(g, w) == \E k \in DOMAIN g.stack : g.stack[k].window = w /\ g.stack[k].kind # "drag"

-----------------------------------------------------------------------------
(* Steps.                                                                  *)

Fresh(mode) ==
    [app |-> FALSE, windows |-> <<>>, open |-> {}, tabs |-> [w \in Window |-> <<>>],
     registered |-> [w \in Window |-> {}], owner |-> [s \in Surface |-> NoWindow],
     closing |-> {}, skip |-> {}, pending |-> {}, hidden |-> {}, quick |-> NoWindow, core |-> {},
     running |-> {}, queue |-> <<>>, stack |-> <<>>, timer |-> FALSE, undo |-> <<>>,
     redo |-> <<>>, phase |-> "running", mode |-> mode, born |-> 0, made |-> 0,
     inputs |-> 0]

\* Windows that were opened before, each with its tabs and splits; one without
\* tabs still waits for its scale.
Layout(mode, layout) ==
    LET n == Len(layout)
        panes == Panes(layout)
        tabs == [w \in Window |-> IF w <= n THEN layout[w] ELSE <<>>]
        registered == [w \in Window |-> UNION ToSet(tabs[w])]
    IN  [Fresh(mode) EXCEPT !.app = TRUE, !.windows = [w \in 1..n |-> w], !.open = 1..n,
             !.tabs = tabs, !.registered = registered,
             !.owner = [s \in Surface |-> IF s \in panes
                           THEN CHOOSE w \in Window : s \in registered[w] ELSE NoWindow],
             !.pending = {w \in 1..n : tabs[w] = <<>>}, !.core = panes, !.running = panes,
             !.born = n, !.made = Cardinality(panes)]

\* The first windows may be hidden: toggleVisibility did it before the others
\* were made, or initial-window is false and the first was never shown.
Init ==
    \E mode \in Modes, layout \in Layouts : \E n \in 0..Len(layout) :
        /\ n = 0 \/ Hides
        /\ gui = [Layout(mode, layout) EXCEPT !.hidden = 1..n]

Running == gui.phase = "running"
Alive(w) == w \in ToSet(gui.windows)
Visible == {w \in Window : Alive(w) /\ w \in Seen(gui)}
Depth == Len(gui.stack)
Top == Last(gui.stack)

\* The first event that is due, and the state without it.
Rest == [Requeued(gui) EXCEPT !.queue = RemoveAt(@, 1)]

Receive(kinds) == Running /\ Due(gui) # 0 /\ gui.queue[Due(gui)].kind \in kinds
Received == gui.queue[Due(gui)]

OnApp ==
    /\ Receive(AppEvents)
    /\ gui' \in HandleApp(Rest, Received)

OnNewTab ==
    /\ Receive({"new tab"})
    /\ gui' = NewTab(Rest, Received.window)

OnNewSplit ==
    /\ Receive({"new split"})
    /\ \E s \in Received.panes : gui' = SplitSurface(Rest, Received.window, s)

OnCloseWindow ==
    /\ Receive({"close window"})
    /\ gui' \in Close(Rest, Received.window)

\* A pane that is gone by now is a null QPointer.
OnCloseTab ==
    /\ Receive({"close tab"})
    /\ \E s \in Received.panes :
           gui' \in IF s \in gui.core
                       THEN CloseTabsByMode(Rest, Received.window, s, Received.arg) ELSE {Rest}

OnCloseSurface ==
    /\ Receive({"close surface"})
    /\ \E s \in Received.panes :
           gui' \in IF s \in gui.core
                       THEN Confirmed(Rest, RemoveSurface(Rest, Received.window, s),
                                      Open(Rest, "split", Received.window, {s}, <<>>))
                       ELSE {Rest}

\* A surface is freed into the list of its app.
DeletePage ==
    /\ Receive({"delete page"})
    /\ gui' = IF Received.panes \cap gui.core # {} /\ ~gui.app
                 THEN [gui EXCEPT !.phase = "undefined"] ELSE FreeSurfaces(Rest, Received.panes)

\* The destructor of a window also destroys the dialogs of its callers.
DeleteWindow ==
    /\ Receive({"delete window"})
    /\ IF DialogLost(gui, Received.window) THEN gui' = [gui EXCEPT !.phase = "undefined"]
       ELSE gui' \in Destroy(Rest, Received.window)

\* The innermost loop ends: its dialog is answered with Close.
Accept ==
    LET top == Top
        w == top.window
        back == [gui EXCEPT !.stack = Front(@), !.closing = @ \ (IF top.kind = "window" THEN {w} ELSE {})]
    IN  /\ Running
        /\ Depth > 0
        /\ top.kind # "drag"
        /\ gui' = CASE top.kind = "split" -> RemoveSurface(back, w, CHOOSE s \in top.panes : TRUE)
                     [] top.kind = "tab" -> CloseTab(back, w, top.arg[1], FALSE)
                     [] top.kind = "tabs" -> CloseTabs(back, w, top.arg)
                     [] top.kind = "window" -> AcceptClose(back, w, FALSE)
                     [] top.kind \in {"all", "quit all"} -> CloseAll(back, top.kind = "quit all")

\* ... or with Cancel.
Reject ==
    /\ Running
    /\ Depth > 0
    /\ Top.kind # "drag"
    /\ gui' = [gui EXCEPT !.stack = Front(@),
                          !.closing = @ \ (IF Top.kind = "window" THEN {Top.window} ELSE {})]

\* The drag ends on the desktop, on its own bar, or with its window gone.
EndDrag ==
    LET back == [gui EXCEPT !.stack = Front(@)]
    IN  /\ Running
        /\ Depth > 0
        /\ Top.kind = "drag"
        /\ gui' \in IF Alive(Top.window) THEN {back, DetachTab(back, Top.window, Top.arg[1])}
                    ELSE {back}

\* It ends on the bar of another window, which shows from two tabs on.
Drop(w) ==
    LET back == [gui EXCEPT !.stack = Front(@)]
    IN  /\ Running
        /\ Depth > 0
        /\ Top.kind = "drag"
        /\ Alive(Top.window)
        /\ w \in Visible \ {Top.window}
        /\ Len(gui.tabs[w]) > 1
        /\ \E i \in DOMAIN gui.tabs[Top.window] : gui' = AdoptTab(back, Top.window, w, i)

-----------------------------------------------------------------------------
(* The user, the shells and the desktop.                                   *)

\* A modal dialog or a drag takes the user's input.
Listening == Running /\ Depth = 0 /\ gui.inputs < MaxInputs
Asked == [gui EXCEPT !.inputs = @ + 1]

\* Key bindings of a pane, which the core turns into actions.
PressNewWindow(w) ==
    /\ Listening
    /\ w \in Visible
    /\ gui.registered[w] # {}
    /\ \E kind \in {"new window", "quick terminal", "undo", "redo", "toggle visibility"} :
           /\ kind = "toggle visibility" => Hides
           /\ gui' = Post(Asked, kind, App, {}, "")

PressCloseAll(w) ==
    /\ Listening
    /\ w \in Visible
    /\ gui.registered[w] # {}
    /\ \E arg \in {"", "quit"} : gui' = Post(Asked, "close all", App, {}, arg)

PressInWindow(w) ==
    /\ Listening
    /\ w \in Visible
    /\ gui.registered[w] # {}
    /\ \E kind \in {"new tab", "close window"} : gui' = Post(Asked, kind, w, {}, "")

PressInPane(w, s) ==
    /\ Listening
    /\ w \in Visible
    /\ s \in gui.registered[w]
    /\ \/ gui' = Post(Asked, "new split", w, {s}, "")
       \/ gui' = Post(Asked, "close surface", w, {s}, "")
       \/ \E tabMode \in {"this", "other", "right"} : gui' = Post(Asked, "close tab", w, {s}, tabMode)

\* onTabCloseRequested: the cross of a tab.
ClickTabCross(w, i) ==
    /\ Listening
    /\ w \in Visible
    /\ i \in DOMAIN gui.tabs[w]
    /\ gui' \in Confirmed(Asked, CloseTab(Asked, w, i, FALSE), Open(Asked, "tab", w, gui.tabs[w][i], <<i>>))

ClickWindowCross(w) ==
    /\ Listening
    /\ w \in Visible
    /\ gui' \in Close(Asked, w)

\* startTearOff
StartDrag(w, i) ==
    /\ Listening
    /\ w \in Visible
    /\ i \in DOMAIN gui.tabs[w]
    /\ Len(gui.tabs[w]) > 1
    /\ gui' = Open(Asked, "drag", w, gui.tabs[w][i], <<i>>)

\* The shell of a pane ends, and the core asks to close the pane.
ShellExits(s) ==
    /\ Running
    /\ gui.inputs < MaxInputs
    /\ s \in gui.running
    /\ LET g == [Asked EXCEPT !.running = @ \ {s}]
       IN  gui' = IF s \in Registered(gui)
                    THEN Post(g, "close surface", gui.owner[s], {s}, "") ELSE g

\* The scale of a window is known, from its showEvent on.
ScaleKnown(w) ==
    /\ Running
    /\ Alive(w)
    /\ w \in gui.pending \ gui.hidden
    /\ gui' = CreateFirstTab(gui, w)

\* Another process asks for a window over D-Bus; a global shortcut toggles the
\* quick terminal.  libghostty may fail to make the app anew.
Activate ==
    /\ Running
    /\ gui.inputs < MaxInputs
    /\ gui' \in NewWindow(Asked) \cup ToggleQuickTerminal(Asked) \cup UninitializedWindow(Asked)

\* A global shortcut toggles all windows, or the quick terminal loses the focus.
Hide ==
    /\ Running
    /\ Hides
    /\ gui.inputs < MaxInputs
    /\ \/ gui' = ToggleVisibility(Asked)
       \/ gui.quick \in Visible /\ gui' = Toggled(Asked, gui.quick)

TimerFires ==
    /\ Running
    /\ gui.timer
    /\ gui' = [gui EXCEPT !.phase = "quit"]

-----------------------------------------------------------------------------

OnEvent ==
    \/ OnApp \/ OnNewTab \/ OnNewSplit \/ OnCloseWindow \/ OnCloseTab \/ OnCloseSurface
    \/ DeletePage \/ DeleteWindow

Answered == Accept \/ Reject \/ EndDrag \/ \E w \in Window : Drop(w)

User ==
    \/ \E w \in Window :
          \/ PressNewWindow(w) \/ PressCloseAll(w) \/ PressInWindow(w) \/ ClickWindowCross(w)
          \/ \E s \in Surface : PressInPane(w, s)
          \/ \E i \in DOMAIN gui.tabs[w] : ClickTabCross(w, i) \/ StartDrag(w, i)

Outside == Activate \/ Hide \/ (\E s \in Surface : ShellExits(s)) \/ (\E w \in Window : ScaleKnown(w))

Next == OnEvent \/ Answered \/ User \/ Outside \/ TimerFires

Spec == Init /\ [][Next]_gui

-----------------------------------------------------------------------------
(* Properties.                                                             *)

\* Every part has its type; neither undo stack holds more than kCap entries.
TypeOK ==
    /\ {gui.open, gui.closing, gui.skip, gui.pending, ToSet(gui.windows)} \subseteq SUBSET Window
    /\ {gui.core, gui.running, Registered(gui)} \subseteq SUBSET Surface
    /\ \A w \in Window : ToSet(gui.tabs[w]) \subseteq (SUBSET Surface) \ {{}}
    /\ Len(gui.undo) <= Cap /\ Len(gui.redo) <= Cap
    /\ gui.phase \in {"running", "quit", "undefined"}

\* Each live window lists exactly the panes of its tabs, and each of them knows
\* it as its owner, whatever was dragged, split or closed meanwhile: closes go
\* to the owner, and a pane that no list holds would never be freed with it.
Owned ==
    \A w \in ToSet(gui.windows) :
        /\ gui.registered[w] = UNION ToSet(gui.tabs[w])
        /\ \A s \in gui.registered[w] : gui.owner[s] = w /\ s \in gui.core

\* No window is left without the libghostty app, which the last destructor
\* frees after it has handled what was posted to qApp, new windows included.
AppOutlivesWindows == gui.windows # <<>> => gui.app

\* Every surface is freed before the app.
AppOutlivesSurfaces == gui.core # {} => gui.app

\* The place of the last start or stop in the queue, 0 if there is none.
LastRequest(g) == SelectLastInSeq(g.queue, LAMBDA e : e.kind = "quit timer")

\* With a pane, the quit timer is off or about to be stopped, though starts
\* and stops arrive from the core's queue and from windows directly.
QuitTimerSettles ==
    LET last == LastRequest(gui)
    IN  Registered(gui) # {} =>
            IF last = 0 THEN ~gui.timer ELSE gui.queue[last].arg = "stop"

\* Once no window is left, the end is on its way unless the process was told to
\* stay: a window may be closed before its first surface, when the core has
\* nothing to count, and the last surface may outlive the last window.
HeadlessEnds ==
    LET last == LastRequest(gui)
    IN  Running /\ gui.windows = <<>> =>
            /\ gui.mode = "now" => \E e \in ToSet(gui.queue) : e.kind = "quit"
            /\ gui.mode = "delay" =>
                   \/ \E e \in ToSet(gui.queue) : e.kind = "delete page" /\ e.panes \cap gui.core # {}
                   \/ gui.core = {} /\ last = 0 /\ gui.timer
                   \/ gui.core = {} /\ last # 0 /\ gui.queue[last].arg = "start"

\* Accepting a dialog closes no tab that had none of the panes it asked about.
OnlyCovered ==
    [][Len(gui'.stack) < Len(gui.stack) /\ Top.kind \in {"tab", "tabs"} =>
          \A w \in Window : \A page \in ToSet(gui.tabs[w]) :
              page \subseteq Registered(gui') \/ page \cap Top.panes # {}]_gui
=============================================================================
