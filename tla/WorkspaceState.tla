---------------------------- MODULE WorkspaceState ----------------------------
(***************************************************************************)
(* useWorkspaceState of apps/web: the chat windows of one workspace as the *)
(* browser shows them, their optimistic creation, renaming and deletion,   *)
(* the calls behind these (requestJson, five seconds each), and the rows   *)
(* the API keeps.  A call that times out may still be carried out later.   *)
(***************************************************************************)
EXTENDS WebPage

CONSTANTS
    Initial,          \* the windows of the workspace when the page is loaded
    MaxCalls,         \* bound: creations, renamings and deletions
    Titles,           \* the titles a window may be given
    DeferredUpdaters  \* TRUE: React may run an updater after setState returns,
                      \* as it does when the component has an update pending

ASSUME WorkspaceStateAssumption ==
    Initial \in Nat /\ MaxCalls \in Nat /\ Titles # {} /\ DeferredUpdaters \in BOOLEAN

Calls == 1..MaxCalls
None == 0                          \* null, for an id
Temp(c) == -c                      \* local-<time>-<counter>
Persisted(c) == Initial + c        \* the id the database gives
IsLocal(id) == id < 0              \* id.startsWith('local-')
Id == (-MaxCalls)..(Initial + MaxCalls) \ {None}
Row == [id : Id, title : Titles]

VARIABLES
    windows,   \* the windows prop: what the page last loaded
    pool, openIds, activeId,
    calls,     \* the calls made, with what their closures remember
    server     \* the rows of chat_windows

viewVars == <<pool, openIds, activeId>>
workspaceVars == <<windows, viewVars, calls, server>>

\* was, at: the row and the open position a failed call puts back.  api: what
\* became of the request.  waiting: the promise has not settled.
Call == [kind : {"none", "create", "first", "rename", "delete"},
         id : Id \cup {None}, title : Titles, was : Titles, at : Nat,
         api : {"none", "pending", "done", "refused"}, waiting : BOOLEAN]

IdsOf(list) == {list[i].id : i \in DOMAIN list}
RowOf(list, id) == list[CHOOSE i \in DOMAIN list : list[i].id = id]
Without(list, id) == Filtered(list, {w \in Row : w.id # id})
Replaced(list, id, row) == [i \in DOMAIN list |-> IF list[i].id = id THEN row ELSE list[i]]
HeadOr(list, other) == IF list = <<>> THEN other ELSE Head(list)
\* pickInitialActive: the window of the URL, or the one last updated.
Picks(list) == IF list = <<>> THEN {None} ELSE IdsOf(list)

Unused == {c \in Calls : calls[c].kind = "none"}
NextCall == CHOOSE c \in Unused : \A d \in Unused : c <= d
Untitled == CHOOSE t \in Titles : TRUE
Eager == IF DeferredUpdaters THEN BOOLEAN ELSE {TRUE}

WorkspaceInit ==
    /\ windows = [i \in 1..Initial |-> [id |-> i, title |-> Untitled]]
    /\ pool = windows
    /\ openIds = [i \in 1..Initial |-> i]
    /\ activeId \in Picks(windows)
    /\ calls = [c \in Calls |-> [kind |-> "none", id |-> None, title |-> Untitled,
                     was |-> Untitled, at |-> 0, api |-> "none", waiting |-> FALSE]]
    /\ server = windows

-----------------------------------------------------------------------------
(* The view.                                                               *)

Closed(id) ==
    LET next == Filtered(openIds, Id \ {id}) IN
    /\ openIds' = next
    /\ activeId' = IF activeId = id THEN HeadOr(next, None) ELSE activeId

Close(id) == id \in ToSet(openIds) /\ Closed(id) /\ UNCHANGED <<windows, pool, calls, server>>

Reopen(id) ==
    /\ id \in IdsOf(pool) \ ToSet(openIds)
    /\ openIds' = Append(openIds, id)
    /\ activeId' = id
    /\ UNCHANGED <<windows, pool, calls, server>>

Focus(id) ==
    /\ id \in ToSet(openIds)
    /\ activeId' = id
    /\ UNCHANGED <<windows, pool, openIds, calls, server>>

\* Everything the page last loaded, and nothing else.
Reset ==
    /\ pool' = windows
    /\ openIds' = [i \in DOMAIN windows |-> windows[i].id]
    /\ activeId' \in Picks(windows)
    /\ UNCHANGED <<windows, calls, server>>

\* The page is rendered again (router.refresh, a new ?window=): a new prop,
\* which useState ignores.
Refresh == windows' = server /\ UNCHANGED <<viewVars, calls, server>>

-----------------------------------------------------------------------------
(* The optimistic operations.                                              *)

Issue(c, call) == calls' = [calls EXCEPT ![c] = call]
NewCall(kind, id, title, was, at) ==
    [kind |-> kind, id |-> id, title |-> title, was |-> was, at |-> at,
     api |-> "pending", waiting |-> TRUE]

\* createWindow.  The id of the workspace is read from the first window of the
\* prop: in a workspace loaded without windows nothing is sent.
Create(title) ==
    /\ Unused # {}
    /\ LET c == NextCall
           call == NewCall("create", Temp(c), title, title, 0)
       IN /\ Issue(c, IF windows # <<>> THEN call
                      ELSE [call EXCEPT !.api = "none", !.waiting = FALSE])
          /\ pool' = Append(pool, [id |-> Temp(c), title |-> title])
          /\ openIds' = Append(openIds, Temp(c))
          /\ activeId' = Temp(c)
    /\ UNCHANGED <<windows, server>>

\* CreateChatWindowModal, offered while the pool is empty: no optimistic window.
CreateFirst(title) ==
    /\ Unused # {} /\ pool = <<>>
    /\ Issue(NextCall, NewCall("first", None, title, title, 0))
    /\ UNCHANGED <<windows, viewVars, server>>

\* renameWindow: previous is undefined unless the updater has already run.
Rename(id, title) ==
    /\ Unused # {} /\ id \in IdsOf(pool)
    /\ RowOf(pool, id).title # title
    /\ pool' = Replaced(pool, id, [id |-> id, title |-> title])
    /\ \E eager \in Eager :
          IF eager /\ ~IsLocal(id)
          THEN Issue(NextCall, NewCall("rename", id, title, RowOf(pool, id).title, 0))
          ELSE UNCHANGED calls
    /\ UNCHANGED <<windows, openIds, activeId, server>>

\* deleteWindow, offered on an open window; removed as previous above.
Delete(id) ==
    /\ Unused # {} /\ id \in ToSet(openIds)
    /\ pool' = Without(pool, id)
    /\ Closed(id)
    /\ \E eager \in Eager :
          IF eager /\ ~IsLocal(id)
          THEN LET title == RowOf(pool, id).title
                   at == CHOOSE i \in DOMAIN openIds : openIds[i] = id
               IN Issue(NextCall, NewCall("delete", id, title, title, at))
          ELSE UNCHANGED calls
    /\ UNCHANGED <<windows, server>>

-----------------------------------------------------------------------------
(* The API.                                                                *)

Handled(c, outcome) == calls' = [calls EXCEPT ![c].api = outcome]

ApiApplies(c) ==
    LET call == calls[c] IN
    /\ call.api = "pending"
    /\ \/ /\ call.kind \in {"create", "first"}
          /\ server' = Append(server, [id |-> Persisted(c), title |-> call.title])
          /\ Handled(c, "done")
       \/ /\ call.kind = "rename" /\ call.id \in IdsOf(server)
          /\ server' = Replaced(server, call.id, [id |-> call.id, title |-> call.title])
          /\ Handled(c, "done")
       \/ /\ call.kind = "delete" /\ call.id \in IdsOf(server)
          /\ server' = Without(server, call.id)
          /\ Handled(c, "done")
    /\ UNCHANGED <<windows, viewVars>>

\* 404 for a row that is gone; 401, 500 or a lost request for any.
ApiRefuses(c) ==
    /\ calls[c].api = "pending"
    /\ Handled(c, "refused")
    /\ UNCHANGED <<windows, viewVars, server>>

-----------------------------------------------------------------------------
(* The settlement of a call.                                               *)

Settled(c) == calls' = [calls EXCEPT ![c].waiting = FALSE]

Swapped(list, old, new) == [i \in DOMAIN list |-> IF list[i] = old THEN new ELSE list[i]]

\* The temporary window becomes the row of the API, wherever it is still shown.
Created(c) ==
    /\ pool' = Replaced(pool, Temp(c), [id |-> Persisted(c), title |-> calls[c].title])
    /\ openIds' = Swapped(openIds, Temp(c), Persisted(c))
    /\ activeId' = IF activeId = Temp(c) THEN Persisted(c) ELSE activeId

\* Mutant: the answer of a renaming puts its window back.
RenamedPutsBack(c) ==
    /\ pool' = Append(Without(pool, calls[c].id), [id |-> calls[c].id, title |-> calls[c].title])
    /\ UNCHANGED <<openIds, activeId>>

Renamed(c) ==
    /\ pool' = Replaced(pool, calls[c].id, [id |-> calls[c].id, title |-> calls[c].title])
    /\ UNCHANGED <<openIds, activeId>>

\* A 2xx answer with a body.  (The 204 of a deletion has none: res.json()
\* rejects, and the deletion settles in Rejected.)
Answered(c) ==
    /\ calls[c].waiting /\ calls[c].api = "done" /\ calls[c].kind # "delete"
    /\ Settled(c)
    /\ \/ calls[c].kind = "create" /\ Created(c)
       \/ calls[c].kind = "first" /\ UNCHANGED viewVars
       \/ calls[c].kind = "rename" /\ Renamed(c)
    /\ UNCHANGED <<windows, server>>

CreateFailed(c) ==
    /\ pool' = Without(pool, Temp(c))
    /\ openIds' = Filtered(openIds, Id \ {Temp(c)})
    /\ activeId' = IF activeId = Temp(c) THEN None ELSE activeId

RenameFailed(c) ==
    /\ pool' = Replaced(pool, calls[c].id, [id |-> calls[c].id, title |-> calls[c].was])
    /\ UNCHANGED <<openIds, activeId>>

\* The window goes back into the pool, and into the open list where it was.
DeleteFailed(c) ==
    LET id == calls[c].id IN
    /\ pool' = IF id \in IdsOf(pool) THEN pool
               ELSE Append(pool, [id |-> id, title |-> calls[c].was])
    /\ openIds' = IF id \in ToSet(openIds) THEN openIds
                  ELSE InsertAt(openIds, IF calls[c].at <= Len(openIds) THEN calls[c].at
                                         ELSE Len(openIds) + 1, id)
    /\ UNCHANGED activeId

\* A refusal, a network error, a time-out, or a body that is not JSON.
Rejected(c) ==
    /\ calls[c].waiting
    /\ Settled(c)
    /\ \/ calls[c].kind = "create" /\ CreateFailed(c)
       \/ calls[c].kind = "first" /\ UNCHANGED viewVars
       \/ calls[c].kind = "rename" /\ RenameFailed(c)
       \/ calls[c].kind = "delete" /\ DeleteFailed(c)
    /\ UNCHANGED <<windows, server>>

WorkspaceNext ==
    \/ \E id \in Id : Close(id) \/ Reopen(id) \/ Focus(id) \/ Delete(id)
    \/ \E id \in Id, t \in Titles : Rename(id, t)
    \/ \E t \in Titles : Create(t) \/ CreateFirst(t)
    \/ Reset \/ Refresh
    \/ \E c \in Calls : ApiApplies(c) \/ ApiRefuses(c) \/ Answered(c) \/ Rejected(c)

-----------------------------------------------------------------------------
(* Properties.                                                             *)

\* Type invariant of the workspace.
WorkspaceTypeOK ==
    /\ windows \in Seq(Row) /\ pool \in Seq(Row) /\ server \in Seq(Row)
    /\ openIds \in Seq(Id)
    /\ activeId \in Id \cup {None}
    /\ calls \in [Calls -> Call]

\* However creations, deletions, resets and late answers interleave, the three
\* pieces of state that are set separately agree: no window is listed twice,
\* every open window is in the pool, and the active one is open.
ViewIsConsistent ==
    /\ Cardinality(IdsOf(pool)) = Len(pool)
    /\ IsInjective(openIds)
    /\ ToSet(openIds) \subseteq IdsOf(pool)
    /\ activeId # None => activeId \in ToSet(openIds)

\* A temporary window lasts as long as its creation: once the call has settled,
\* either way, no part of the view holds the temporary id.
TempsAreInFlight ==
    \A c \in Calls :
        calls[c].kind = "create" /\ calls[c].api # "none" /\ ~calls[c].waiting =>
            Temp(c) \notin IdsOf(pool) \cup ToSet(openIds) \cup {activeId}

\* What was deleted in the view returns only by a reset or by the settlement of
\* its own deletion, never through the late answer of another call.
Returning == IdsOf(pool') \ IdsOf(pool)
OwnSettlementRestores ==
    [][\A id \in Returning :
          \/ IsLocal(id)
          \/ pool' = windows
          \/ \E c \in Calls :
                /\ calls[c].waiting /\ ~calls'[c].waiting
                /\ \/ calls[c].kind = "delete" /\ calls[c].id = id
                   \/ calls[c].kind = "create" /\ Persisted(c) = id /\ Temp(c) \in IdsOf(pool)]_workspaceVars

-----------------------------------------------------------------------------
(* A statement of the source that the code does not keep.                 *)

\* ChatWindow.tsx:861, confirmed by the user: "This removes its messages and
\* cannot be undone."; so once a deletion the API has carried out is settled,
\* the window is no longer shown.
DeletedIsGone ==
    \A c \in Calls :
        calls[c].kind = "delete" /\ calls[c].api = "done" /\ ~calls[c].waiting =>
            calls[c].id \notin IdsOf(pool)
=============================================================================
