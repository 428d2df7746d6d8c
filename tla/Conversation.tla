---------------------------- MODULE Conversation ----------------------------
(***************************************************************************)
(* What the reader of a workspace has seen: the list of unread answers     *)
(* every mounted ChatWindow keeps, with its badge and its cursor, and the  *)
(* counts Workspace keeps for the sidebar.  The two are computed apart,    *)
(* each from its own time of last sight; times are counts of answers here. *)
(*                                                                         *)
(* An action is a handler with the effects that follow it.                 *)
(***************************************************************************)
EXTENDS WebPage

CONSTANTS MaxAnswers,   \* bound: answers of one conversation
          Nobody        \* activeId when no window is open

ASSUME ConversationAssumption == MaxAnswers \in Nat /\ Nobody \notin Panes

VARIABLES canvas,       \* the windows mounted
          active,
          answers,      \* how many answers the conversation holds
          reader,       \* the refs and the state of a mounted ChatWindow
          told,         \* lastSeenRef of Workspace
          marked,       \* windows marked as read since they were last active
          placed        \* a scroll position is stored for the window

conversationVars == <<canvas, active, answers, reader, told, marked, placed>>

Numbered(from, to) == [i \in 1..(to + 1 - from) |-> from + i - 1]

\* A component is mounted; it is away from the bottom if a position was stored
\* and the text is longer below it.  What it does not know it calls unread.
MountedAt(n, isActive, sticky) ==
    LET ids == IF isActive /\ ~sticky THEN Numbered(1, n) ELSE <<>>
    IN  [sticky |-> sticky, ids |-> ids, badge |-> Len(ids), cursor |-> -1,
         known |-> IF isActive THEN 1..n ELSE {}, seen |-> n]

\* The effect of becoming active.
Activated(r, n) ==
    LET ids == Numbered(r.seen + 1, n)
    IN  [sticky |-> r.sticky /\ ids = <<>>, ids |-> ids, badge |-> Len(ids),
         cursor |-> IF ids = <<>> THEN -1 ELSE 0, known |-> 1..n, seen |-> n]

\* Mutant: the time of last sight moves while the window is in the background.
NoticedAlways(r, n, isActive) ==
    IF isActive
    THEN [r EXCEPT !.known = @ \cup {n}, !.seen = n,
                   !.ids = IF r.sticky THEN @ ELSE Append(@, n),
                   !.badge = IF r.sticky THEN @ ELSE Len(r.ids) + 1]
    ELSE [r EXCEPT !.seen = n]
\* The effects of a new answer.
Noticed(r, n, isActive) ==
    IF isActive
    THEN [r EXCEPT !.known = @ \cup {n}, !.seen = n,
                   !.ids = IF r.sticky THEN @ ELSE Append(@, n),
                   !.badge = IF r.sticky THEN @ ELSE Len(r.ids) + 1]
    ELSE r

ConversationInit ==
    /\ canvas = Panes /\ active \in Panes
    /\ answers \in [Panes -> 0..1]
    /\ reader = [w \in Panes |-> MountedAt(answers[w], w = active, TRUE)]
    /\ told = answers /\ marked = {} /\ placed = {}

Reads(w, r) == reader' = [reader EXCEPT ![w] = r]

\* The active window is w: ChatWindow and Workspace have both seen it.
Sees(w) ==
    /\ active' = w
    /\ told' = IF w = Nobody THEN told ELSE [told EXCEPT ![w] = answers[w]]
    /\ marked' = marked \ {w}

FocusWindow(w) ==
    /\ w \in canvas /\ w # active
    /\ Sees(w) /\ Reads(w, Activated(reader[w], answers[w]))
    /\ UNCHANGED <<canvas, answers, placed>>

\* The window that becomes active is the first that is left.
CloseWindow(w) ==
    /\ w \in canvas
    /\ canvas' = canvas \ {w}
    /\ IF w # active THEN UNCHANGED <<active, told, marked, reader>>
       ELSE IF canvas' = {} THEN Sees(Nobody) /\ UNCHANGED reader
       ELSE \E v \in canvas' : Sees(v) /\ Reads(v, Activated(reader[v], answers[v]))
    /\ UNCHANGED <<answers, placed>>

ReopenWindow(w) ==
    /\ w \notin canvas
    /\ canvas' = canvas \cup {w}
    /\ Sees(w)
    /\ \E sticky \in BOOLEAN :
          /\ w \notin placed => sticky
          /\ Reads(w, MountedAt(answers[w], TRUE, sticky))
    /\ UNCHANGED <<answers, placed>>

ReloadPage ==
    /\ canvas' = Panes
    /\ active' \in Panes
    /\ \E bottom \in [Panes -> BOOLEAN] :
          /\ \A w \in Panes \ placed : bottom[w]
          /\ reader' = [w \in Panes |-> MountedAt(answers[w], w = active', bottom[w])]
    /\ told' = answers /\ marked' = {}
    /\ UNCHANGED <<answers, placed>>

AnswerArrives(w) ==
    /\ answers[w] < MaxAnswers
    /\ answers' = [answers EXCEPT ![w] = @ + 1]
    /\ Reads(w, IF w \in canvas THEN Noticed(reader[w], answers'[w], w = active) ELSE reader[w])
    /\ told' = IF w = active THEN [told EXCEPT ![w] = answers'[w]] ELSE told
    /\ UNCHANGED <<canvas, active, marked, placed>>

\* updateStickiness: coming to the bottom clears what was unread.
Scroll(w, bottom) ==
    /\ w \in canvas
    /\ Reads(w, IF bottom /\ ~reader[w].sticky
                THEN [reader[w] EXCEPT !.sticky = TRUE, !.ids = <<>>, !.badge = 0, !.cursor = -1]
                ELSE [reader[w] EXCEPT !.sticky = bottom])
    /\ placed' = placed \cup {w}
    /\ UNCHANGED <<canvas, active, answers, told, marked>>

\* The button and the key that go to the bottom, and a message sent: the scroll
\* event that follows finds the window at the bottom already.
GoesToBottom(w) ==
    /\ w \in canvas
    /\ Reads(w, [reader[w] EXCEPT !.sticky = TRUE])
    /\ UNCHANGED <<canvas, active, answers, told, marked, placed>>

\* A search, a link to a message or g g leaves the bottom.
LeavesBottom(w) ==
    /\ w \in canvas
    /\ Reads(w, [reader[w] EXCEPT !.sticky = FALSE])
    /\ UNCHANGED <<canvas, active, answers, told, marked, placed>>

\* n and Shift+n.
StepUnread(w) ==
    /\ w = active /\ reader[w].ids # <<>>
    /\ LET r == reader[w]
           n == Len(r.ids)
       IN  \E dir \in {-1, 1} :
              Reads(w, [r EXCEPT !.sticky = FALSE,
                                 !.cursor = IF @ < 0 THEN 0 ELSE (@ + dir + n) % n])
    /\ UNCHANGED <<canvas, active, answers, told, marked, placed>>

ClickBadge(w) ==
    /\ w = active /\ reader[w].badge > 0 /\ reader[w].ids # <<>>
    /\ Reads(w, [reader[w] EXCEPT !.sticky = FALSE, !.ids = <<>>, !.badge = 0, !.cursor = -1])
    /\ UNCHANGED <<canvas, active, answers, told, marked, placed>>

\* unreadCountByWindow.
SidebarCount(w) == IF w = active THEN 0 ELSE answers[w] - told[w]

MarkRead(ws) ==
    /\ ws # {} /\ \A w \in ws : SidebarCount(w) > 0
    /\ told' = [w \in Panes |-> IF w \in ws THEN answers[w] ELSE told[w]]
    /\ marked' = marked \cup ws
    /\ UNCHANGED <<canvas, active, answers, reader, placed>>

ConversationNext ==
    \/ \E w \in Panes :
          \/ FocusWindow(w) \/ CloseWindow(w) \/ ReopenWindow(w) \/ AnswerArrives(w)
          \/ \E bottom \in BOOLEAN : Scroll(w, bottom)
          \/ GoesToBottom(w) \/ LeavesBottom(w) \/ StepUnread(w) \/ ClickBadge(w)
          \/ MarkRead({w})
    \/ MarkRead({w \in Panes : SidebarCount(w) > 0})
    \/ ReloadPage

-----------------------------------------------------------------------------
(* Properties.                                                             *)

\* The badge counts the list the keys step through, which holds no answer twice
\* and none that does not exist; and the active window knows every answer.
ConversationInv ==
    /\ active \in canvas \cup {Nobody}
    /\ \A w \in canvas :
          LET r == reader[w] IN
          /\ r.badge = Len(r.ids) /\ r.cursor < Len(r.ids)
          /\ IsInjective(r.ids) /\ ToSet(r.ids) \subseteq r.known
          /\ r.known \subseteq 1..answers[w]
          /\ w = active => r.known = 1..answers[w]

\* A window of the canvas that becomes active, but for a reload, points at as
\* many unread answers as the sidebar announced, or more if it had been marked
\* as read.
FocusShowsUnread ==
    [][~ReloadPage =>
        \A w \in canvas : w # active /\ active' = w =>
              /\ reader'[w].badge >= SidebarCount(w)
              /\ w \notin marked => reader'[w].badge = SidebarCount(w)]_conversationVars
=============================================================================
