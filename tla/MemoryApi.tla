------------------------------ MODULE MemoryApi ------------------------------
(***************************************************************************)
(* The handlers used when no database is configured, over the four arrays  *)
(* of the in-memory services.  Every handler is one action: it waits for   *)
(* the body of its request only, and then runs to its answer.              *)
(*                                                                         *)
(* There is no user and no cascade: what is deleted leaves what hung below *)
(* it behind, unreachable from /v1/state but not by its id.                *)
(***************************************************************************)
EXTENDS Naturals

CONSTANTS MaxId, Names      \* bound: ids ever handed out

ASSUME MemoryAssumption == MaxId \in Nat /\ Names # {}

VARIABLES projects, workspaces, windows, messages,
          lastId,           \* ids are fresh, as a random UUID is
          answer            \* the last answer to GET /v1/state

memoryVars == <<projects, workspaces, windows, messages, lastId, answer>>

Ids(store) == {x.id : x \in store}
Renamed(store, id, name) == {IF x.id = id THEN [x EXCEPT !.name = name] ELSE x : x \in store}
Without(store, id) == {x \in store : x.id # id}
NoAnswer == [workspaces |-> {}, windows |-> {}, messages |-> {}]

\* The seeds of the service, or of /v1/dev/seed.
MemoryInit ==
    /\ projects = {[id |-> 1, name |-> CHOOSE n \in Names : TRUE]}
    /\ workspaces = {} /\ windows = {} /\ messages = {} /\ lastId = 1 /\ answer = NoAnswer

Fresh == lastId < MaxId /\ lastId' = lastId + 1

CreateProject ==
    /\ Fresh
    /\ \E n \in Names : projects' = projects \cup {[id |-> lastId', name |-> n]}
    /\ UNCHANGED <<workspaces, windows, messages, answer>>

\* The project must exist: projectExists.
CreateWorkspace ==
    /\ Fresh
    /\ \E n \in Names, p \in Ids(projects) :
          workspaces' = workspaces \cup
              {[id |-> lastId', project |-> p, name |-> n, windowIds |-> {}]}
    /\ UNCHANGED <<projects, windows, messages, answer>>

\* appendWindowId.
AppendWindowId(ws, id) ==
    workspaces' = {IF w.id = ws THEN [w EXCEPT !.windowIds = @ \cup {id}] ELSE w : w \in workspaces}

CreateWindow ==
    /\ Fresh
    /\ \E n \in Names, ws \in Ids(workspaces) :
          /\ windows' = windows \cup {[id |-> lastId', workspace |-> ws, name |-> n]}
          /\ AppendWindowId(ws, lastId')
    /\ UNCHANGED <<projects, messages, answer>>

CreateMessage ==
    /\ Fresh
    /\ \E w \in Ids(windows) : messages' = messages \cup {[id |-> lastId', window |-> w]}
    /\ UNCHANGED <<projects, workspaces, windows, answer>>

PatchProject ==
    /\ \E id \in Ids(projects), n \in Names : projects' = Renamed(projects, id, n)
    /\ UNCHANGED <<workspaces, windows, messages, lastId, answer>>
PatchWorkspace ==
    /\ \E id \in Ids(workspaces), n \in Names : workspaces' = Renamed(workspaces, id, n)
    /\ UNCHANGED <<projects, windows, messages, lastId, answer>>
PatchWindow ==
    /\ \E id \in Ids(windows), n \in Names : windows' = Renamed(windows, id, n)
    /\ UNCHANGED <<projects, workspaces, messages, lastId, answer>>

DeleteProject ==
    /\ \E id \in Ids(projects) : projects' = Without(projects, id)
    /\ UNCHANGED <<workspaces, windows, messages, lastId, answer>>
DeleteWorkspace ==
    /\ \E id \in Ids(workspaces) : workspaces' = Without(workspaces, id)
    /\ UNCHANGED <<projects, windows, messages, lastId, answer>>
\* The id stays in windowIds of the workspace.
DeleteWindow ==
    /\ \E id \in Ids(windows) : windows' = Without(windows, id)
    /\ UNCHANGED <<projects, workspaces, messages, lastId, answer>>

\* What hangs below the rows of a store: listWorkspaces, listChatWindows and
\* listMessages of each.
ListWorkspaces(ps) == {w \in workspaces : w.project \in Ids(ps)}
ListChatWindows(ws) == {w \in windows : w.workspace \in Ids(ws)}
ListMessages(ws) == {m \in messages : m.window \in Ids(ws)}

\* stateController.
ReadState ==
    /\ answer' = LET ws == ListWorkspaces(projects)
                     cs == ListChatWindows(ws)
                 IN  [workspaces |-> ws, windows |-> cs, messages |-> ListMessages(cs)]
    /\ UNCHANGED <<projects, workspaces, windows, messages, lastId>>

\* devResetController: every store, one after the other, without waiting.
DevReset ==
    /\ projects' = {} /\ workspaces' = {} /\ windows' = {} /\ messages' = {}
    /\ UNCHANGED <<lastId, answer>>

\* devSeedController: a project, a workspace and its window with a message; their
\* ids are the same every time.
DevSeed ==
    LET n == CHOOSE m \in Names : TRUE IN
    /\ projects' = {[id |-> 0, name |-> n]}
    /\ workspaces' = {[id |-> 0, project |-> 0, name |-> n, windowIds |-> {0}]}
    /\ windows' = {[id |-> 0, workspace |-> 0, name |-> n]}
    /\ messages' = {[id |-> 0, window |-> 0]}
    /\ UNCHANGED <<lastId, answer>>

MemoryNext ==
    \/ CreateProject \/ CreateWorkspace \/ CreateWindow \/ CreateMessage
    \/ PatchProject \/ PatchWorkspace \/ PatchWindow
    \/ DeleteProject \/ DeleteWorkspace \/ DeleteWindow
    \/ ReadState \/ DevReset \/ DevSeed

-----------------------------------------------------------------------------
(* Properties.                                                             *)

\* A window is entered in the workspace it is in, whatever was deleted, renamed
\* or seeded since; ids nothing answers to may stay entered.
WindowsAreEntered ==
    \A c \in windows, w \in workspaces : c.workspace = w.id <=> c.id \in w.windowIds

\* The state shows no row whose parent it does not show.
MemoryStateIsClosed ==
    /\ \A c \in answer.windows : c.workspace \in Ids(answer.workspaces)
    /\ \A m \in answer.messages : m.window \in Ids(answer.windows)
    /\ \A c \in answer.windows, w \in answer.workspaces :
          c.workspace = w.id => c.id \in w.windowIds

MemoryInv == WindowsAreEntered /\ MemoryStateIsClosed
=============================================================================
