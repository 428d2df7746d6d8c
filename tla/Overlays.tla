------------------------------ MODULE Overlays ------------------------------
(***************************************************************************)
(* What lies over the project page: the command palette with what it        *)
(* remembers in sessionStorage, the help and the notices.  Each listens to   *)
(* the keyboard of the whole page for itself.                                *)
(***************************************************************************)
EXTENDS WebPage

CONSTANTS Matching,     \* the windows whose title matches what is typed
          NoPane,       \* activeId when no window is open
          RecentsMax,   \* the windows remembered; the code keeps 8
          RecentsShown, \* the recents listed; the code lists 5
          MaxVisible,   \* MAX_VISIBLE_TOASTS
          MaxNotices    \* bound: notices pushed

ASSUME OverlaysAssumption ==
    /\ IsFiniteSet(Panes) /\ Matching \subseteq Panes /\ NoPane \notin Panes
    /\ RecentsMax \in Nat \ {0} /\ RecentsShown \in Nat
    /\ MaxVisible \in Nat /\ MaxNotices \in Nat

VARIABLES opened, activePane,                \* Workspace
          unread,                            \* unreadByWindow
          recents, lastQuery,                \* sessionStorage
          open, query, hover, recentIds,     \* the palette
          projects,                          \* its projectsLoadedRef, load and allProjects
          helpOpen,
          toasts, armed, pushed              \* ToastHost: shown, with a timer, ever pushed

paletteVars == <<open, query, hover, recentIds, projects>>
pageVars == <<opened, activePane, unread, recents>>
toastVars == <<toasts, armed, pushed>>
overlayVars == <<pageVars, lastQuery, paletteVars, helpOpen, toastVars>>

PaneList == SetToSeq(Panes)

\* The windows, those open first.
AllPanes(shown) == Filtered(PaneList, shown) \o Filtered(PaneList, Panes \ shown)
FirstOf(s, n) == SubSeq(s, 1, IF Len(s) < n THEN Len(s) ELSE n)

\* recentEntries.
RecentEntries(ids, act, text) ==
    IF text # "" THEN <<>>
    ELSE FirstOf(Filtered(ids, Panes \ {act}), RecentsShown)

\* unifiedItems.
Items(shown, ids, act, text) ==
    LET first == RecentEntries(ids, act, text)
    IN  first \o Filtered(AllPanes(shown), (IF text = "" THEN Panes ELSE Matching) \ ToSet(first))
Listed == Items(opened, recentIds, activePane, query)

\* The effect that moves the highlight when the palette is rendered with other
\* items: to the first unread window if nothing is typed.
HoverFalls ==
    LET list == Items(opened', recentIds', activePane', query')
        news == {i \in DOMAIN list : list[i] \in unread'}
    IN  hover' = IF ~open' \/ query' # "" \/ news = {} THEN 0 ELSE Min(news) - 1

OverlaysInit ==
    /\ opened = Panes /\ activePane \in Panes /\ unread = {}
    /\ recents = <<activePane>> /\ lastQuery = "" /\ recentIds = <<>>
    /\ open = FALSE /\ query = "" /\ hover = 0
    /\ projects = "not asked" /\ helpOpen = FALSE
    /\ toasts = 0 /\ armed = 0 /\ pushed = 0

\* The window w is active: Workspace remembers it and tells a palette that is open.
Becomes(w) ==
    /\ activePane' = w
    /\ unread' = unread \ {w}
    /\ recents' = IF w = NoPane THEN recents ELSE UsedLast(recents, w, RecentsMax)

\* wav:recents-changed.
HearsRecents == recentIds' = IF open' THEN recents' ELSE recentIds

\* The palette closes; what was typed stays in sessionStorage.
PaletteCloses ==
    /\ open' = FALSE /\ query' = ""
    /\ projects' = IF projects = "asked" THEN "cancelled" ELSE projects
    /\ UNCHANGED lastQuery

\* A window takes an answer: the active one is remembered anew.
AnswerComes(w) ==
    /\ IF w = activePane THEN Becomes(w) ELSE unread' = unread \cup {w} /\ UNCHANGED <<activePane, recents>>
    /\ UNCHANGED <<opened, lastQuery, open, query, projects, helpOpen, toastVars>>
    /\ HearsRecents /\ HoverFalls

FocusPane(w) ==
    /\ ~open /\ w \in opened /\ w # activePane
    /\ Becomes(w)
    /\ UNCHANGED <<opened, lastQuery, open, query, projects, helpOpen, toastVars>>
    /\ HearsRecents /\ HoverFalls

ClosePane(w) ==
    /\ ~open /\ w \in opened
    /\ opened' = opened \ {w}
    /\ IF w # activePane THEN UNCHANGED <<activePane, unread, recents>>
       ELSE IF opened' = {} THEN Becomes(NoPane)
       ELSE \E v \in opened' : Becomes(v)
    /\ UNCHANGED <<lastQuery, open, query, projects, helpOpen, toastVars>>
    /\ HearsRecents /\ HoverFalls

\* Ctrl+K, or Cmd+K.
TogglePalette ==
    /\ IF open THEN PaletteCloses
       ELSE /\ open' = TRUE /\ query' = lastQuery /\ UNCHANGED lastQuery
            /\ projects' = IF projects = "not asked" THEN "asked" ELSE projects
    /\ recentIds' = IF open' THEN recents ELSE recentIds
    /\ UNCHANGED <<pageVars, helpOpen, toastVars>>
    /\ HoverFalls

\* onChange, with the effect that writes down what was typed.
QueryBecomes(text) == query' = text /\ lastQuery' = text
TypeQuery ==
    /\ open
    /\ \E text \in {"", "typed"} \ {query} : QueryBecomes(text)
    /\ UNCHANGED <<pageVars, open, recentIds, projects, helpOpen, toastVars>>
    /\ HoverFalls

Arrow ==
    /\ open /\ Listed # <<>>
    /\ \E i \in DOMAIN Listed : hover' = i - 1     \* or the pointer
    /\ UNCHANGED <<pageVars, lastQuery, open, query, recentIds, projects, helpOpen, toastVars>>

\* Enter or a click on the highlighted window: focus or reopen.
Choose ==
    /\ open /\ Listed # <<>>
    /\ LET w == Listed[Min({hover + 1, Len(Listed)})]
       IN  /\ opened' = opened \cup {w}
           /\ Becomes(w)
    /\ PaletteCloses
    /\ UNCHANGED <<helpOpen, toastVars>>
    /\ HearsRecents /\ HoverFalls

ClickBackdrop ==
    /\ open /\ PaletteCloses
    /\ UNCHANGED <<pageVars, recentIds, helpOpen, toastVars>>
    /\ HoverFalls

\* fetchProjects settles; the effect was cleaned up if the palette closed before.
ProjectsSettle ==
    /\ projects = "asked"
    /\ projects' \in {"loaded", "failed"}
    /\ UNCHANGED <<pageVars, lastQuery, open, query, recentIds, helpOpen, toastVars>>
    /\ IF projects' = "loaded" THEN HoverFalls ELSE UNCHANGED hover

\* Every listener hears the key: the palette clears its text before it closes,
\* the help closes and all notices go.
Escape ==
    /\ open \/ helpOpen \/ toasts > 0
    /\ IF open /\ query # "" THEN QueryBecomes("") /\ UNCHANGED <<open, projects>>
       ELSE IF open THEN PaletteCloses
       ELSE UNCHANGED <<open, query, lastQuery, projects>>
    /\ helpOpen' = FALSE /\ toasts' = 0 /\ armed' = 0
    /\ UNCHANGED <<pageVars, recentIds, pushed>>
    /\ HoverFalls

ToggleHelp ==
    /\ helpOpen' = ~helpOpen
    /\ UNCHANGED <<pageVars, lastQuery, paletteVars, toastVars>>

\* The timers are set anew for all notices whenever the list changes.
TimersRestart == armed' = toasts'
Pushes == toasts' = Min({toasts + 1, MaxVisible}) /\ TimersRestart

Push ==
    /\ pushed < MaxNotices
    /\ pushed' = pushed + 1 /\ Pushes
    /\ UNCHANGED <<pageVars, lastQuery, paletteVars, helpOpen>>
Dismiss ==
    /\ toasts > 0
    /\ toasts' = toasts - 1 /\ TimersRestart
    /\ UNCHANGED <<pageVars, lastQuery, paletteVars, helpOpen, pushed>>
\* The timers are due together; as many of them run as come before the render.
TimersRun ==
    /\ armed > 0
    /\ \E n \in 1..armed : toasts' = toasts - n
    /\ TimersRestart
    /\ UNCHANGED <<pageVars, lastQuery, paletteVars, helpOpen, pushed>>

OverlaysNext ==
    \/ \E w \in Panes : AnswerComes(w) \/ FocusPane(w) \/ ClosePane(w)
    \/ TogglePalette \/ TypeQuery \/ Arrow \/ Choose \/ ClickBackdrop \/ ProjectsSettle
    \/ Escape \/ ToggleHelp \/ Push \/ Dismiss \/ TimersRun

-----------------------------------------------------------------------------
(* Properties.                                                             *)

\* The palette lists a window once, and all of them when nothing is typed; what
\* it knows of the recents and what is typed agrees with sessionStorage while it
\* is open; every notice shown has a timer.
OverlaysInv ==
    /\ IsInjective(Listed) /\ (query = "" => ToSet(Listed) = Panes)
    /\ IsInjective(recents) /\ Len(recents) <= RecentsMax
    /\ open => recentIds = recents /\ query = lastQuery
    /\ ~open => query = "" /\ hover = 0
    /\ toasts <= MaxVisible /\ armed = toasts
=============================================================================
