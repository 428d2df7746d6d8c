------------------------------- MODULE Stars -------------------------------
(***************************************************************************)
(* The starred messages: the set every mounted ChatWindow keeps and writes  *)
(* to localStorage under the id of its window, the filter that shows only   *)
(* the starred ones, and the list the command palette puts together from    *)
(* the storage.  A message sent has an id the client made up until the      *)
(* call settles: -n for the nth of the window, and n as the API stored it.  *)
(***************************************************************************)
EXTENDS WebPage

CONSTANT MaxSent        \* bound: messages of one window

VARIABLES onCanvas,     \* the windows mounted
          bubbles,      \* the ids of the messages of a window
          sentCount,
          starredIds, showOnlyStarred,   \* of a mounted ChatWindow
          starStore,    \* localStorage
          paletteShown, starredAll       \* the palette and its memo

starVars == <<onCanvas, bubbles, sentCount, starredIds, showOnlyStarred,
              starStore, paletteShown, starredAll>>

StarsInit ==
    /\ onCanvas = Panes
    /\ bubbles = [w \in Panes |-> {}] /\ sentCount = [w \in Panes |-> 0]
    /\ starredIds = [w \in Panes |-> {}] /\ starStore = starredIds
    /\ showOnlyStarred = [w \in Panes |-> FALSE]
    /\ paletteShown = FALSE /\ starredAll = {}

\* What the memo of the palette computes.
StarsRead(rows, store) == UNION {{w} \X (rows[w] \cap store[w]) : w \in Panes}

\* The palette is rendered with other windows or messages.
PaletteRenders == starredAll' = StarsRead(bubbles', starStore')
\* wav:starred-changed reaches the palette only while it is open.
PaletteHears == IF paletteShown THEN PaletteRenders ELSE UNCHANGED starredAll

\* The sets of the windows ws: the effects that follow store them, clear a filter
\* that has nothing left, and tell the others.
StarsBecome(ws, stars) ==
    /\ starredIds' = [w \in Panes |-> IF w \in ws THEN stars[w] ELSE starredIds[w]]
    /\ starStore' = [w \in Panes |-> IF w \in ws THEN stars[w] ELSE starStore[w]]
    /\ showOnlyStarred' = [w \in Panes |-> showOnlyStarred[w] /\ (w \in ws => stars[w] # {})]

Send(w) ==
    /\ w \in onCanvas /\ ~paletteShown /\ sentCount[w] < MaxSent
    /\ \A m \in bubbles[w] : m > 0 \/ -m # sentCount[w]
    /\ sentCount' = [sentCount EXCEPT ![w] = @ + 1]
    /\ bubbles' = [bubbles EXCEPT ![w] = @ \cup {-sentCount'[w]}]
    /\ showOnlyStarred' = [showOnlyStarred EXCEPT ![w] = FALSE]
    /\ UNCHANGED <<onCanvas, starredIds, starStore, paletteShown>>
    /\ PaletteRenders

\* The call settles and the message is shown under the id it is stored by.
Confirm(w) ==
    /\ \E m \in bubbles[w] : m < 0 /\ bubbles' = [bubbles EXCEPT ![w] = (@ \ {m}) \cup {-m}]
    /\ UNCHANGED <<onCanvas, sentCount, starredIds, showOnlyStarred, starStore, paletteShown>>
    /\ PaletteRenders

ToggleStar(w) ==
    /\ w \in onCanvas /\ ~paletteShown
    /\ \E m \in IF showOnlyStarred[w] THEN bubbles[w] \cap starredIds[w] ELSE bubbles[w] :
          LET now == (starredIds[w] \ {m}) \cup ({m} \ starredIds[w])
          IN  StarsBecome({w}, [starredIds EXCEPT ![w] = now])
    /\ UNCHANGED <<onCanvas, bubbles, sentCount, paletteShown>>
    /\ PaletteHears

ToggleFilter(w) ==
    /\ w \in onCanvas /\ ~paletteShown
    /\ showOnlyStarred[w] \/ starredIds[w] # {}
    /\ showOnlyStarred' = [showOnlyStarred EXCEPT ![w] = ~@]
    /\ UNCHANGED <<onCanvas, bubbles, sentCount, starredIds, starStore, paletteShown, starredAll>>

OpenPalette ==
    /\ ~paletteShown /\ paletteShown' = TRUE
    /\ UNCHANGED <<onCanvas, bubbles, sentCount, starredIds, showOnlyStarred, starStore, starredAll>>
ClosePalette ==
    /\ paletteShown /\ paletteShown' = FALSE
    /\ UNCHANGED <<onCanvas, bubbles, sentCount, starredIds, showOnlyStarred, starStore, starredAll>>

\* Mutant: the mounted windows take the event for another window's.
UnstarsStored(ws) ==
    /\ starStore' = [w \in Panes |-> IF w \in ws THEN {} ELSE starStore[w]]
    /\ UNCHANGED <<starredIds, showOnlyStarred>>
\* The storage of the windows listed is removed; the bulk event makes every
\* mounted window read its own again.
Unstars(ws) ==
    /\ starStore' = [w \in Panes |-> IF w \in ws THEN {} ELSE starStore[w]]
    /\ starredIds' = [w \in Panes |-> IF w \in onCanvas THEN starStore'[w] ELSE starredIds[w]]
    /\ showOnlyStarred' = [w \in Panes |->
          showOnlyStarred[w] /\ (w \in onCanvas => starredIds'[w] # {})]

\* The button of the palette.
UnstarAll ==
    /\ paletteShown /\ starredAll # {}
    /\ Unstars({s[1] : s \in starredAll})
    /\ UNCHANGED <<onCanvas, bubbles, sentCount, paletteShown>>
    /\ PaletteRenders

CloseStarred(w) ==
    /\ w \in onCanvas /\ ~paletteShown
    /\ onCanvas' = onCanvas \ {w}
    /\ UNCHANGED <<bubbles, sentCount, starredIds, showOnlyStarred, starStore, paletteShown>>
    /\ PaletteRenders

\* Mutant: the component mounts without what was stored and writes that down.
MountsUnstarred(ws) == StarsBecome(ws, [w \in Panes |-> {}])
\* A component mounts with what was stored.
MountsStarred(ws) == StarsBecome(ws, starStore)

ReopenStarred(w) ==
    /\ w \notin onCanvas
    /\ onCanvas' = onCanvas \cup {w}
    /\ paletteShown' = FALSE      \* by the palette, which closes, or by the sidebar
    /\ MountsStarred({w})
    /\ UNCHANGED <<bubbles, sentCount>>
    /\ PaletteRenders

\* Messages that were never stored are gone.
ReloadStarred ==
    /\ onCanvas' = Panes /\ paletteShown' = FALSE
    /\ bubbles' = [w \in Panes |-> {m \in bubbles[w] : m > 0}]
    /\ MountsStarred(Panes)
    /\ UNCHANGED sentCount
    /\ PaletteRenders

StarsNext ==
    \/ \E w \in Panes :
          \/ Send(w) \/ Confirm(w) \/ ToggleStar(w) \/ ToggleFilter(w)
          \/ CloseStarred(w) \/ ReopenStarred(w)
    \/ OpenPalette \/ ClosePalette \/ UnstarAll \/ ReloadStarred

-----------------------------------------------------------------------------
(* Properties.                                                             *)

\* A mounted window and the storage hold the same stars, and the filter of a
\* window without stars is off.
StarsInv ==
    \A w \in onCanvas :
        /\ starredIds[w] = starStore[w]
        /\ showOnlyStarred[w] => starredIds[w] # {}

\* Stars go one at a time in the window they are in, or all those of the windows
\* the palette lists: never by closing, reopening or reloading.
StarsStay ==
    [][\A w \in Panes :
          \/ starStore[w] \subseteq starStore'[w]
          \/ w \in onCanvas /\ \E m \in bubbles[w] : starStore'[w] = starStore[w] \ {m}
          \/ paletteShown /\ \E s \in starredAll : s[1] = w]_starVars
=============================================================================
