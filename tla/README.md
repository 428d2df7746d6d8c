# A TLA+ model of WebAppV1

WebAppV1 is a chat workspace: a Node API over PostgreSQL (`src/apps/api`), a
Next.js client (`src/apps/web`) that streams answers of AI providers into
several chat windows, and a set of local tools that drive the project's own
development (`src/tools`, `src/scripts`). This directory holds TLA+ models of
its stateful parts, the TLC configurations that check them on small instances,
and TLAPS proofs of what matters most.

Contents: [Inventory](#inventory), [Modules](#modules), [Runs](#runs),
[Bounds](#bounds), [Fairness](#fairness), [Proofs](#proofs),
[Findings](#findings), [Not modelled](#not-modelled), [Plan](#plan).

## Inventory

### The API (`src/apps/api/src`)

| Component | State | Operations | What makes it correct |
|---|---|---|---|
| Message streaming: `controllers/messages-db.controller.ts`, `db/messages.repo.ts`, `middleware/handle-request.ts`, `index.ts` | per request: where the handler waits, the abort and idle flags, timers, listeners, the text so far; the rows of `messages` | POST `/v1/messages/stream`: eight awaits between synchronous blocks, provider chunks, idle timer, socket close, transaction, process end | an answer is stored whole, with its question or not at all; the last event never misreports what is stored; nothing stays armed; every stream ends |
| Provider clients: `providers/*.ts` | one call: its timer, the rest of a line, where its generator is | verify, completion, stream | every delta is yielded once and in order; only a cause outside cuts a stream |
| Rate limiter: `lib/rate-limiter.ts` | entry per key, time of the last sweep | `check`, `reset`, sweep | `max` grants per window, a true `Retry-After`, bounded memory |
| Authentication: `controllers/auth.controller.ts`, `db/sessions.repo.ts`, `db/users.repo.ts` | users, sessions | sign-up, log-in, log-out, me | one user per address, an ended session authenticates nobody |
| Resources: projects, workspaces, chat windows, messages, provider connections, `/v1/state` | rows with cascading foreign keys; a key per user | create, read, rename, delete behind an ownership walk; verify and store a key; a question without streaming | no row without the one above it; only the owner's requests change a row; an error has stored nothing |
| In-memory stores: `services/*.ts` | arrays | the same without a database | a window is entered in its workspace |
| Request pipeline, configuration, health, logs | none to speak of | routing, origin check, validation | stateless |

### The web client (`src/apps/web/src`)

| Component | State | Operations | What makes it correct |
|---|---|---|---|
| Chat sessions: `features/chat/useChatSessions.ts`, `lib/api/messages.ts` | bubbles, pending id, one AbortController per window | send, retry, regenerate, cancel, unmount; the stream reader | at most one live call per window; no spinner and no locked composer without one; what is shown as answered is stored |
| Workspace state: `features/workspace/useWorkspaceState.ts`, `lib/api/http.ts` | pool of windows, open list, active id | close, reopen, focus, reset; optimistic create, rename, delete | the three lists agree whatever settles when |
| The page around them: `ChatWindow.tsx`, `Workspace*.tsx`, `ToastHost.tsx` | drafts, templates, stars, unread answers, recents, notices; localStorage and sessionStorage | typing, recall, sending, storing templates, starring, reading, the palette, closing and reloading | what a window shows is what a reload will show; drafts and stars are lost by no other gesture than theirs |
| Session context: `features/auth/*.tsx` | status, user, path | load, refresh, log out, the forms, the gate | the status follows the cookie; every wait is backed by a call |
| Provider settings, project page | lists, dialogs, flags of their calls | load, save, delete, test; load with fixtures, rename, delete, create | the list shown is the one stored; API rows and fixtures are not mixed; flags fall |

### The tools (`src/tools`, `src/scripts`)

| Component | State | Operations | What makes it correct |
|---|---|---|---|
| Autopilot: `local-control/autopilot.mjs` | the active run, the child, one suspended loop per run, a file per run | start, the loop, stop, answer, resume, reset | one loop works on the tree; budgets hold; each issue is settled once; a stop is final |
| Console and cockpit: `server.mjs`, `runner.mjs`, `logs.mjs`, `settings.mjs`, `public/app.js` | children and their logs, followers, settings; connection, polls, boxes of the page | run, follow, restart; refresh, poll, save | one command at a time; a follower gets the output whole; the page shows the settings there are |
| Automatic merge: `automerge.mjs` | none | a decision over a snapshot | not modelled; see [Findings](#findings) |
| Questions: `task-questions.mjs`, `notion/sync-questions.mjs` | comments of an issue, rows in Notion | ask, answer, resolve; the bridge both ways | one name per question, one page per question, answers carried over once |
| Issues: `create-github-issues.mjs`, `apply-issue-delta.mjs`, `update-project-fields.mjs`, `task-meta*.mjs` | issues, board items, fields, the block in a body | create, add, fill; parse, render, patch | no issue twice, nothing incomplete without a word, no field lost |
| Mirror: `notion/sync-github-to-notion.mjs` | rows in Notion | read pages, upsert | one row per item, none left out |
| Queue: `task-deps`, `task-score`, `next-task`, `task-runner`, `issue-status` | labels, board status, branches | order, choose, set up | the copies of the rules agree; dependencies come first |

### How the parts interact

* A chat window of the browser calls the stream endpoint with `fetch`; the API
  answers with server-sent events; the connection is the only channel back: an
  aborted `fetch` is a `close` event of the request.
* The API's handlers share nothing in memory except the rate limiters; they
  meet in the database, where a transaction holds the chat window's row
  against its deletion.
* The pages issue calls whose answers arrive in any order and settle against
  the state of that moment; pages render again with fresh rows, which React's
  `useState` ignores.
* Components of one page meet in `localStorage` and `sessionStorage`, of which
  each keeps a copy.
* The tools meet in GitHub, in Notion and in the working tree; none of them
  locks anything.
* `index.ts` ends the process on a signal; in-flight handlers are cut.

### What is hard

Handlers suspended between a check and its use; a timer that fires while its
stream is ending; a client gone before the listener for that was attached; a
failed query after the headers went out; late settlements of superseded calls;
optimistic state undone by the wrong call; calls that time out at the client
and succeed at the server; copies of one stored list; window borders of the
limiter; scripts that die between two calls. `PROJECT.json` lists each at its
line, with the properties that watch it.

## Modules

| Module | Models | Level |
|---|---|---|
| `StreamContract` | what the stream endpoint promises | abstract |
| `MessageStream` | the stream endpoint, any number of requests over one chat window | one action per synchronous block |
| `MessageStreamProofs` | its invariant, safety and refinement, proved | |
| `GeneratorContract` | what `MessageStream` takes a provider's generator to be | abstract |
| `ProviderClient` | the three provider clients: headers, timer, chunks and lines of a body | one action per await |
| `RateLimitContract` | a fixed-window limiter without a map to clean | abstract |
| `RateLimiter` | `lib/rate-limiter.ts` with its sweep | one action per call |
| `DbStore` | the tables of a user's work, their cascades and constraints | operators |
| `ResourceApi` | the handlers over `DbStore` | one action per query |
| `MemoryApi` | the routes without a database | one action per request |
| `Api` | the two of them behind the choice of a back end | composition |
| `ApiProofs` | its invariant, and who writes what, proved | |
| `AuthApi` | accounts and sessions | one action per query |
| `SessionContext` | one tab over `AuthApi`: the context, the forms, the gate | composition, one action per callback |
| `SessionProofs` | its invariant, and what follows for accounts and for the tab, proved | |
| `ChatSession` | `useChatSessions` and `streamMessage` for one window, behind an arbitrary server | one action per callback |
| `ChatProofs` | its invariant and safety, proved | |
| `ChatRoundTrip` | `ChatSession` and `MessageStream` joined by a connection | composition |
| `ChatRoundTripProofs` | that what is shown is stored, proved | |
| `WorkspaceState` | `useWorkspaceState`, `requestJson`, the rows of `chat_windows` | one action per callback or handler |
| `WebPage` | what the following five share | operators |
| `Composer` | drafts, recall of prompts, sending and their copy in localStorage | one action per gesture |
| `TemplateMenu` | the template menus of several windows over one stored list | one action per gesture |
| `Conversation` | unread answers, badges, focus, the sidebar's counts | one action per gesture with its effects |
| `Stars` | stars of messages, the filter, the list in the palette | one action per gesture |
| `Overlays` | palette, recents, shortcuts, notices and their timers | one action per gesture |
| `WebShell` | `WorkspaceState` and these five, one at a time | composition |
| `WebShellProofs` | the invariants of the six, and what their steps may not do, proved | |
| `ProviderPage` | the provider settings with the rows behind them | one action per callback or handler |
| `ProjectPage` | the project page: four loads with fixtures, header, forms | one action per callback or handler |
| `Autopilot` | the engine: runs, loops, children, the files of the runs | one action per block between two awaits |
| `AutopilotProofs` | its invariant, budgets, exclusion, books and ends, proved | |
| `RunConsole` | the commands the console runs, their logs, followers, restarts | one action per callback |
| `Cockpit` | the page over the console's settings | one action per callback |
| `Questions` | questions and answers of an issue, and the bridge to Notion | one action per call |
| `Backlog` | the three scripts that make issues and fill the board | one action per call of `gh` |
| `TaskMeta` | the block of fields in the body of an issue and its backfill | pure operators, and a process |
| `NotionMirror` | the mirror of issues and pull requests | one action per call |
| `TaskDeps` | the dependency report with its search for cycles | one action per step of the search |
| `TaskQueue` | choice and setting up of a task | one action per call |
| `Separate` | the limiter, the clients, the two pages and the tools, one at a time | composition |
| `SeparateProofs` | the invariants of its parts, and the refinements of the limiter and of a client, proved | |
| `MC*.tla` | definitions for TLC where a configuration cannot give a value | |

`PROJECT.json`, under `map`, gives the source lines of every definition.
Definitions whose comment begins with "Mutant" are not part of a
specification: they are broken versions of a definition that follows, and are
kept to show that a property notices them.

`Api`, `WebShell` and `Separate` put parts beside each other of which a
behaviour follows one (`backend`, `part`, `followed`) while the others stay in
their initial state. In the code these parts exchange nothing but a call and its
answer, which each models on its own side; their product would multiply states
and add no behaviour of any of them. Parts that do interact are composed in
earnest: `ChatRoundTrip`, `SessionContext`, `ResourceApi` over `DbStore`,
`ProviderPage` and `WorkspaceState` with the rows they change.

### MessageStream

JavaScript runs a handler to its next `await` without interruption, so each
action is the code between two awaits. `pc[r]` names the await: `auth`,
`window`, `key`, `history` (the four lookups), `streaming` (the `for await`
over the provider), `checking`, `insertUser`, `insertReply`, `commit`,
`committed` (inside `insertMessagePair`), then `returned`, or `threw` when the
promise rejects, or `dead` when the process has gone. Between two blocks the
provider may yield, finish or throw, the idle timer may fire, the client may
disconnect, another request may run, the chat window may be deleted, the
process may end.

* `aborted`, `idleTimedOut`, `idleArmed` are the handler's locals; `attached`
  stands for the keep-alive interval and the two listeners, which are set and
  cleared together.
* Text is counted in deltas; an empty delta changes nothing and is a stutter.
* `wire` is what has been written to a socket that was still open.
* A transaction is the set of rows inserted so far. The foreign key of an
  insert locks the chat window's row, so a deletion waits.
* A rejection after the headers went out makes `handleRequest`'s own error
  answer throw too. Nobody awaits `handleRequest`, so the process ends, unless
  an error reporter listens for unhandled rejections:
  `UnhandledRejectionExits`.
* `Shutdown` is the state at the hard exit: the grace period before it only
  lets handlers go on, which they can do anyway. A restarted process knows
  nothing of the old requests; the database does.

### ProviderClient

One call of one client. `upstream` is what the provider sends, line by line;
`out` counts half lines that have left it and `got` those that were read, so a
chunk ends at any border or within any line. The three clients differ in which
lines end a body and in what is told of a refusal, by `provider`; what a
verification, a completion and a stream have in common is one state machine, by
`kind`. The generator is shown to implement `GeneratorContract`, which is the
assumption `MessageStream` makes of it.

### ResourceApi, MemoryApi

The four tables are one set of rows; a row's parent is what its foreign key
names. A handler walks from the row it is about up to the project, one query a
step, and only then reads or writes: between any two queries another request may
delete what was found. `root` is history, the user at the top when a row was
inserted. `/v1/state` is four queries. The provider's answers, of a key to
verify or a question to answer, are accepted, refused or late. The routes of
`MemoryApi` wait for the body of a request only, so each is one action.

### AuthApi, SessionContext

A request of `AuthApi` is one of the handlers, waiting for one query at a
time; the tab of `SessionContext` sends some of them and may give one up, while
the API goes on with it. A cookie is set when the headers of the answer that
carries it arrive (`HeadersArrive`; the call is `heard`); its body is read
afterwards and may break, and then the call fails although the cookie has changed
(`CallFails`, `client.ts:84-95`). `nav` is the path the router has been asked for
and has not reached. Two variables are history: `misled`, that the last `/me` to
settle was asked with another cookie than the browser holds now, or that a call
failed whose headers had changed the cookie; and `overtaken`, that another call
has led the tab elsewhere than its status, or its form, would have.

### ChatSession and ChatRoundTrip

`messages` is the list of bubbles of one window, `pending` the question that
locks the composer, `controller` the entry of the window in the map of
AbortControllers, `attempt` one record per call of `streamMessage`. Bubbles are
named after the call they belong to, as the code's counters do. `reply` is what
the network has delivered so far. Alone, `ChatSession` lets any server do
anything a stream can; in `ChatRoundTrip` the reply is computed from the state
of `MessageStream`, an aborted call closes its connection, and a closed
connection breaks the body at a point the client cannot choose.

### WorkspaceState and the page

`pool`, `openIds` and `activeId` are the three states of the hook, `windows`
its prop, `calls` the requests with what their closures captured, `server` the
rows. Temporary ids are negative. A call is carried out or refused by the API
and settled by the client independently: a call that timed out may still be
carried out. `DeferredUpdaters` covers React's choice to run an updater inside
`setState` or later, on which `renameWindow` and `deleteWindow` depend.

In the five other parts an action is a gesture with the effects React runs
after it, in their order. Text is the set of kinds of fragments it consists of:
typed, recalled, inserted. `Conversation` keeps the four refs of a mounted
window apart from what the workspace counts; `Stars` keeps a copy per mounted
window, the storage and the palette's memo apart.

### ProviderPage, ProjectPage

A list is a load that was asked, answered by the API in its state of that
moment, and settles later; loads overlap. A page gives a call up after five
seconds (`http.ts:27`), while the API may still verify a key for ten
(`provider-connections.controller.ts:116`) and store it afterwards: what was given
up before it was carried out may be carried out at any later moment (`LatePut`,
`LateDelete`, `LatePatch`, `LateDeletion`, `LateRow`), or never. `overtaken`,
`unheard`, `crossed` and `unseen` are history: an older load was answered after a
newer one; a write the page was told had failed was carried out since the list was
asked for; two calls crossed, one of them a late one perhaps; a row was made that
the page was told had failed. `ProjectPage` loads four levels, each from the API or
from fixtures.

### RateLimiter

`now` is `Date.now()`, a map without an entry is `NoEntry`. `granted` is a
history variable: the times a key was granted since it was last reset.

### Autopilot

`run[r]` is the run object, `loop[r].pc` the await its `_runLifecycle` is at:
`starting` (telling the notifier that the mission has started), `child`, `told`
(telling it the outcome of an issue), `ending` (telling it the mission is over),
`over`. The rest of `loop[r]` are locals of that call. `active` and `child` are
the engine's fields, `alive` the processes that exist: a child whose loop is
gone is an orphan. `saved` is the status in the file of each run; `_persist`
writes the file of the *active* run, whichever loop calls it. Calls of git, gh
and the guard are synchronous, so `Iterate` and `ChildExits` are single steps
of many lines. A run nobody holds any more is reduced to what its file says
(`InFile`). Answering a question and resuming meet in one action, `Resume`; a
failed post is `AnswerFails`. The budget of time may run out at any moment.

### RunConsole, Cockpit

`record` is the console's list of runs, `process` the children, so that a
console that was restarted has forgotten runs whose children live on. A chunk of
output is a number; `log` keeps the last `HistoryMax`, and a follower gets those
and then what comes. In `Cockpit` a refresh is two calls, the settings and the
status, and the timer, the buttons and the form start them independently.

### The task tools

Every script is a process whose steps are its calls of `gh` or Notion, one at a
time; between two of them the owner edits, and any call may fail, may fail after
it was carried out, or be the last. `Questions` runs several `ask` beside one
bridge, `TaskQueue` any number of clones, the others one script at a time. The
bridge sees the comments of an issue only while that is open
(`sync-questions.mjs:124`): it may find it closed each time it looks, and `blind`
says of an answer that its run did.
A file of `Backlog` is any sequence of different entries, of which the run keeps
the positions still to come; issues are named by the entry they were made from: `titled`
says that the title is still that of the entry, `keyed` that the body holds the
key, `excused` and `twin` are history. `gh` lists the newest `ListLimit` issues
(`Recent`) and as many items of the board, in no known order (`Boards`); while
there are no more (`Whole`) that is all of them. `TaskMeta` models a body as a list of
lines, told apart as the parser tells them apart, and the parser, the renderer and
the replacement of the block as operators over it. `TaskDeps` chooses any states
and any dependencies of its tasks, then searches with the code's three colours
and stack. `TaskQueue` holds the copies of one
rule that the code holds, and both forms of a dependency: the field of the metadata,
which the runner reads, and the line of the body, which `task-deps` reads too.

## Runs

Passing runs:

| Run | Shows |
|---|---|
| `stream` | two requests, up to two deltas each, with deletion, failures and restarts. `StreamSafety`: stored pairs are whole and atomic, events are true, what was sent is kept, nothing stays armed. `NothingAfterEnd`, `AbortedStreamIsOver`: an ended response is final and an aborted stream stores nothing. `StreamSettles`: every stream that has begun ends. `ImplementsContract` |
| `chat` | one window, four calls of any outcome. `ChatInv`: one live call, composer and spinners always backed by a call, a retry never races the call it repeats. `OkIsFinal` |
| `roundtrip` | client and API together. `WhatIsShownIsStored`: what is shown as answered is stored with the text shown; a failure over a connection that stayed open stored nothing |
| `roundtrip_live` | `ComposerUnlocks`, as long as a lost rejection ends the process |
| `session` | a tab with three calls after an earlier one, over the account handlers. `AccountsInv`: one account per address, sessions earned, ended sessions dead. `TabInv`: the status follows the cookie unless that changed behind it, waits are backed, strangers are led to the log-in. `PageSettles`: a tab that waits (a spinner, a disabled form, a menu that logs out) comes to wait for nothing |
| `api` | two requests of two users, query by query, over a tree of rows and a key; and the in-memory routes. `ApiInv`: the tree stays whole, answers are of the user's own rows, errors store nothing, keys were accepted, windows are entered. `OnlyTheOwnerWrites` |
| `shell` | the parts of the project page. `ShellInv`: what is shown is what a reload shows, the lists agree, counts count the lists behind them. `OwnSettlementRestores`, `DraftsSurvive`, `OneTemplateAtATime`, `FocusShowsUnread`, `StarsStay` |
| `autopilot` | two missions over two issues, stopped, questioned, resumed, reset and cut by restarts at every await. `EngineSafety`: no two loops mean to work on the tree, a mission that runs has a loop, within the budgets. `LedgerInv`: every attempt is settled once and no issue tried twice. `EndsAsToldInv`: stop reaches the child, stays, and what is shown and saved is how it ended. `StoppedLaunchesNothing`, `LifecycleEnds` |
| `separate` | twelve parts, see below |

The parts of `separate`, with their properties:

| Part | Properties |
|---|---|
| limiter | `LessThanTwiceMax`: no window length sees twice the limit, `StaleEntriesAreDropped`, `ImplementsRateLimit` |
| client | `ProviderInv`: deltas once and in order however the body is cut, done means all, only a cause outside cuts a stream; `ImplementsGenerator`; `CallsEnd` |
| settings, project | `PagesInv`: the list is what is stored unless it was overtaken, or a write told as failed was carried out; API rows never mixed with fixtures, names and rows as the API has them with the same exceptions; `CallsEnd`: no flag and no loading stays |
| runs | `RunsInv`: one command at a time, listed as it is, output whole, its end told |
| cockpit | `CallsEnd`: old settings do not stay on a connected page |
| questions | `QuestionsInv`: names differ, one page each, an open issue is answered once, an answer that stands in Notion when a run turns to GitHub arrives |
| backlog | `BacklogInv`: as long as `gh` lists all issues, none is made twice, nothing left incomplete without a word, nothing left out, an update completes |
| meta | `MetaInv`: what the backfill wrote is read again and the text around it kept |
| mirror | `MirrorInv`: one row each, what was not updated meanwhile is mirrored |
| deps | `DepsInv`: for every graph, cycles reported are real, each knot shows in one, a standstill is explained |
| queue | `QueueInv`: the runner and the display choose alike; what the scorer and the autopilot may take is the same, and the runner accepts it where the dependency report sees nothing in its way |

Many of these hold under a condition the module names as history (`~misled`,
`~overtaken`, `~crossed`, `~unheard`, `~raced`, `~missed`, `~prefixed`): the condition is the case the
code does not handle, and the property says that it is the only one.

Runs that end in a violation show a statement of the repository the code does
not keep; see [Findings](#findings): `roundtrip_errors`, `workspace_delete`,
`autopilot_guard`.

`MCChatSession` uses a view that leaves out what arrived for calls that are
over. No action and no property reads it (`ReaderStep` and `ServerStep` ask for
`Reading`), so states that differ only in it have the same future. It is the only
reduction. `stream` lets the process survive a lost rejection
(`UnhandledRejectionExits = FALSE`): the process may end at any moment anyway
(`Shutdown`), so this is the larger set of behaviours.

`CHECK_DEADLOCK FALSE` appears where the model really stops: once bounded calls,
edits, names or runs are used up and settled, or `MaxTime` is reached;
`autopilot` stops after `MaxRuns` runs, and a plan that was never stopped blocks
the engine for good. The models of the stream never stop: they can always restart.

## Bounds

| Constant | Value | Why it is enough |
|---|---|---|
| `Requests` (`MessageStream`) | 2 | requests meet only in the chat window and the process; two give every meeting of a deletion or a process end with one and another |
| `MaxDeltas` (`MessageStream`) | 2; 1 in the round trips | empty, part and all of an answer |
| `MaxAttempts` | 4 in `chat`, 2 in `roundtrip` | a call, its successor, a retry of the first and one more; every race is between a call and one that superseded it |
| `MaxDeltas` (`ChatSession`) | 1 | a bubble with and without text |
| `Users`, `Requests` (`ResourceApi`) | 2, 2 | an owner and another user; one request between the check and the write of another |
| `MaxId`, `Names` (`MemoryApi`) | 4, 2 | one row of each level; an old and a new name |
| `Requests` (`AuthApi`) | 4 | an earlier one and three: a call, one that overtakes it, one that sees the result |
| `Addresses`, `Passwords` | two spellings of one address, 2 | letter case; right and wrong |
| `Initial`, `MaxCalls` | 2, 2 | a window to fall back on, and two calls that overlap in every way |
| `Titles` | 2 | an old and a new one |
| `Panes`, `Drafting`, `Matching` | 2, 1, 1 | an active window and one in the background; no composer sees another; a title that matches and one that does not |
| `MaxPrompts`, `MaxTemplates`, `MaxAnswers`, `MaxSent` | 2 each | a first and a last in each list |
| `RecentMax`, `RecentsMax`, `RecentsShown`, `MaxVisible`, `MaxNotices` | 2, 2, 1, 2, 3 | each cap is exceeded by one |
| `Max`, `WindowMs`, `SweepMs`, `SecondMs`, `MaxTime` | 2, 3, 2, 2, 7 | two windows and the start of a third, sweeps inside and across windows, seconds that do not divide a window |
| `MaxLines` | 3 | a line before, in and after a chunk's border |
| `MaxKeys`, `MaxLoads`, `MaxNames`, `MaxRows` | 2, 2, 2, 2 | two writes that overlap; the first load and one that overtakes it |
| `MaxLate`, `MaxLateCalls` | 1, 1 | a write that was given up and is carried out between any two steps of the next |
| `MaxRuns`, `Issues`, `MaxErrors`, `MaxPRs` | 2, 2, 2, 1 | a run and its successor beside it; an issue to fail and one to go on with; the budget of pull requests ends a mission with an issue still waiting, that of errors after a turn that did not reach it |
| `Named` | one issue | issues are alike; a caller names one or none |
| `MaxIds`, `MaxChunks`, `HistoryMax`, `MaxAsks`, `Viewers` | 2, 2, 1, 1, 2 | a run and the next, a history that has dropped a chunk, a request whose body is awaited beside another, two followers |
| `MaxRefreshes`, `MaxPatches` | 2, 3 | two refreshes that overtake each other, a change for each and one more |
| `Askers`, `FirstPage`, `MaxComments`, `MaxBridgeRuns` | 2, 2, 3, 2 | two asks at once, a comment beyond the first page, a run and its repetition |
| `NFields`, `MaxNew`, `Entries`, `MaxFile`, `MaxIssues`, `ListLimit` | 2, 2, 2, 2, 2, 2 | a field that fails and one that does not, an entry before and after a failure, in either order; a listing of 500 that is exceeded is outside of the property |
| `MaxBody`, `MaxBackfills` | 4, 1 | an opening mark, a list, an item and a closing mark, or any of them missing |
| `Items`, `PageSize`, `MaxPages`, `SyncLimit`, `MaxUpdates` | 3, 1, 3, 2, 4 | two pages whose border moves and an item behind them; every item is opened, and one updated behind the reader |
| `Tasks` | 3 | every graph of three nodes, with two cycles that share a node |
| `Issues`, `Unknown`, `Clones`, `Ranks`, `MaxEdits` (`TaskQueue`) | 2, 3, 1, {2, 3}, 2 | a dependency and what waits for it, a reference to nothing; one clone: two take one task, see below; two neighbouring ranks; of the candidates left only a review lowers the score, by more than any rank |

What is proved needs no bounds; see [Proofs](#proofs).

## Fairness

`FairSpec` of `MessageStream` is weakly fair to the steps of each handler (the
event loop resumes a promise that has settled; the database answers or fails),
to each armed timer, and to a provider call once it is aborted, since a
`fetch` or a read with an aborted signal rejects. Nothing is assumed of the
provider, which may be silent for ever, of the client, or of the operator.
`TripFairSpec` adds that a request in flight arrives or fails and that the
client's reader runs. `AutopilotFairSpec` assumes that the notifier answers (its
requests time out after six seconds) and that an agent ends by itself, which
nothing in the engine enforces.

`SessionFairSpec` assumes that while calls of the tab are under way one of them
settles, since `apiFetch` gives up after five seconds if no headers have come, and
that the router goes where it was asked to. A tab has finitely many calls in the
model, so that each settles; users are not assumed to do anything, and what
`PageSettles` says holds as soon as they stop making calls.
`SeparateFairSpec` assumes the same of the calls of the two pages, that the
timers of the API run and that what has arrived of a body is read. That a body
follows its headers is assumed too: `apiFetch` clears its timer when the headers
arrive (`client.ts:84`), before the body is read. The cockpit bounds no call; that its calls settle is assumed of the
loopback interface. Each conjunct of `SeparateFairSpec` is fair to one action of
every part, of which one is followed; nothing is assumed of the provider, of a
user, or of what a server refuses. No strong fairness is used.

## Proofs

TLC checks small instances; the theorems below hold for every value of the
constants that the named assumptions allow.

`MessageStreamProofs` holds for every set of requests and every bound on
deltas, from `MessageStreamAssumption` (the bound is positive and the flag a
Boolean). The safety properties are not inductive: `PairsAreAtomic` says nothing
of a transaction that is half written. `StreamInv` adds, per request, that
nothing is armed before the stream starts (`Fresh`), that a response has ended
exactly when its handler has returned (`EndOfHandler`), that a transaction holds
what its handler has inserted and keeps the window alive (`OpenTransaction`),
that only a generator that ran to its end is stored (`StoredSoFar`) and that what
was told is true (`ToldSoFar`). A step of one request leaves the others alone
(`StepOfOne`); the shared steps are the deletion and the end of the process.
Theorems: `Typed`, `Invariant`, `WholeAnswers`, `Atomic`, `EventsAreTrue`,
`NothingSentIsLost`, `CleanAfterEnd`, `StreamIsSafe`, `EndIsFinal`, and
`Implementation`, that every behaviour implements `StreamContract`.

`AbortedStreamsEnd` is the action property that an aborted stream stores nothing
more. `ExchangeInv` says, of a request as its client sees it, how the text it was
sent relates to the text stored; it is what the round trip needs.

`ChatProofs` holds for any number of calls and deltas
(`ChatSessionAssumption`). `ChatIInv` says what makes a window sound under any
server: no two bubbles share a name, so that what a late callback shows or
removes is its own; no two calls under way answer one question, and that question
is the one shown as pending; the controller is that of a call under way; and the
text of a reply is what was read for it. Lists of bubbles are sequences, and the
lemmas on removing, relabelling and appending keep their names apart. Theorems:
`ChatInvariant`, `ChatIsSafe`, `AnswersAreFinal`.

`ChatRoundTripProofs` joins the two sides (`TripAssumption`). A step of the round
trip is a step of the API, of the window, or both, so `TripInv` is the two
invariants, taken over by two-fold `INSTANCE`, with what ties them: a reply that
was confirmed is stored with the text that was read (`ConfirmedIsStored`), and a
call that failed over a connection that stayed open has stored nothing
(`FailedFits`). Theorems: `TripInvariant`, `ShownAnswersAreStored`,
`WindowStaysSafe`.

`ApiProofs` holds for any users, any number of requests and any texts. Its
invariant follows a handler along its walk: the row it has come to is above the
one it set out from, so the user it finds at the top owns both (`OnItsWalk`);
once the walk is over, whatever is still there of the target is the user's
(`OwnTarget`), though it may be gone; what was read stays what it was, since
names are never used again (`Known`); and a request without success has stored
nothing (`Clean`). The in-memory services need that identifiers grow
(`MemoryOK`). Theorems: `ApiInvariant`, `ApiIsSafe`, and `OwnersWrite`, that only
a request of its owner changes a row.

`SessionProofs` holds for any number of requests, any addresses and passwords,
and any function that lowers addresses and is idempotent (`AuthAssumption`;
`None` is an account or a session to nobody). `AccountsInv` is not inductive:
that sessions are earned says nothing of a session that is about to be inserted
by a handler that looked its account up two awaits ago. `SessionInv` adds
`OnItsWay` (where a handler waits it has what its next query needs, and has made
no account and no session before its time), `SessionEarned` for the insertion to
come, `EmailsDiffer` (addresses are stored in lower case, which is why a unique
index on the stored spelling is enough), `TokenKnown` (nobody presents a token
before the request that made it was answered, so a log-out cannot precede the
insertion it undoes; and a token dead on arrival stays dead) and `EndedAreGone`.
That tokens are known to nobody earlier is a fact about the browser, `CookieOK`,
which is why the proof is about the composition and not about `AuthApi` alone. A
step of one request leaves the others sound (`OthersStaySound`).

For `TabInv` the invariant grows by what an answer tells (`Told`: a positive
answer to `/me` names the user of the session of its own cookie, a negative one
comes after that session's end; a log-out that succeeded clears the cookie), by which calls of the tab are requests of which
kind, and that only a form or a log-out has headers that matter (`CallOK`, from
which a new request is no call yet), and by where a disabled form may be
(`PendingOK`). From the headers of a log-in to the end of its body the status says
nothing of the cookie; a body that breaks leaves the tab `misled`, as the code does.
Sessions behind a token that was handed out only age, and answered requests stay
as they are (`RowsStay`, `AnsweredStay`): that is all the tab needs of a step of
the API. Theorems: `SessionInvariant`, `AccountsAreSafe`, `TabIsTrue`.

`AutopilotProofs` holds for any number of runs, any issues and any budgets
(`AutopilotAssumption`). That two loops never mean to work on the tree at once
(`OneLiveLoop`) is not inductive: a start must know that a loop it leaves behind
was stopped. `AutopilotInv` says why: a loop that was not stopped works for the
active run, whose status counts as active (`OwnsEngine`), and start and reset
are refused while there is such a run. `WaitsLast` (a run waits for an answer
only once its loop is leaving for that) keeps a failed answer from adding an
error behind a child that is still out, and `InHand` (a child is launched
within both budgets) keeps the exit of a child from overrunning them. `Sound`
restates the invariant run by run, so that a step of a loop has one obligation:
the record and the loop it writes are sound (`StepOfRun`). Theorems:
`EngineInvariant`, `BudgetsHold`, `LoopsExclude`, `RunningIsWorkedOn`,
`EngineIsSafe`, and `StopEndsLaunches`, an action property.

The books of a run need more: `LedgerAgrees` does not say that the issue in hand
is new, nor that a loop that may try again has not been asked for an issue.
`BooksKept` does (a loop that starts has tried nothing; one that was asked for an
issue is still starting; the issue of a child is in neither set), `StopKept`
ties a stop to the status shown and rules out a loop for a plan, and
`LedgerIInv` joins them with `StopReachesChild` and `OverIsSaved`, which are
inductive once loops exclude each other: a second child that is out would be of
the active run, too, unless a run was stopped, and while a child of a run that
was not stopped is out no start can forget who was. Theorems: `LedgerInvariant`,
`LedgerIsKept`, `EndsAreAsTold`.

`SeparateProofs` proves each part of `Separate` from an invariant of its own
and the named assumption of its module, and lifts the result (`PartsStep`: a step
of the composition is one of a part or leaves it alone).

* The limiter comes first, on its own: for every set of keys and every positive
  limit, window, sweep interval and length of a second (`RateLimiterAssumption`),
  and for a clock that does not go back. `LimiterInv` relates an entry to the
  history of its key: the entry counts the last grants, the first of these opened
  the window, and what was granted `Max` grants earlier is at least a window
  older. From it follow `Typed`, `LessThanTwice` (no window length sees `2 * Max`
  grants), `StaleDropped` and `Implementation`: with the sweep the limiter still
  implements `RateLimitContract`, and `Retry-After` is the shortest number of
  seconds that suffices. `LimiterRuns`: within the composition it is the same.
* `ClientsYieldWhatIsSent`, `ClientsAreGenerators`: the buffer of a client holds
  the half of a line that was read and not yet taken, for every way to cut the
  lines into chunks; what was yielded are the text lines among those taken
  (`LinesFit`). Every step is a yield, an abort, an end or a stutter of
  `GeneratorContract`, which `MessageStream` is proved with.
* `RunsAreTrue`: what the console keeps of a run, and what a follower has, are
  ends of what the run wrote (`OutputFits`), through the histories that drop their
  first and through restarts.
* `ChoicesAgree`: the ranks of `next-task` and the points of the runner order alike,
  penalties apart, and two such orders have the same first (`Foremost`); a first
  exists because natural numbers are well founded. The runner does not refuse for
  its score what the scorer calls autonomous, whatever the rank; and where the
  dependency report, which reads both forms, sees nothing open, the metadata name
  nothing open either.
* `CyclesAreReported`: the stack is a way through the graph (`StackFits`); a
  neighbour that was looked at is not white, and a cycle through it was reported
  if it was grey (`LookedAt`); of a knot with a finished issue a cycle was
  reported, unless an issue of it is still on the stack (`KnotsAreSeen`). That a
  standstill is explained takes an issue that reaches fewest others: it is on a
  cycle.
* `TheMirrorIsWhole`: an item that was not updated only moves backwards in the
  list, so it is behind what was read or among it, no further back than it is now
  (`ReadFits`); the attempt to prove it for any number of items replaced an
  assumption that a run takes them all by the condition `InReach` in the property.

* `PagesAreTrue`: the load asked for last is under way or was answered last
  (`LoadsFit`), and unless a write that was told as failed is carried out meanwhile
  it brings what the API has (`LastIsFresh`); a level of a project page that came
  from the API hangs below one that did (`SourcesFit`), and while no call crossed,
  the one renaming under way knows the name to go back to (`NameFits`), which a
  late one ends (`LateFits`); the rows are those made, unless one was made unseen
  (`RowsFit`).
* `QuestionsAreKept`: a bridge knows the rows of the questions it has yet to
  mirror (`MirrorFits`), and what it read as answered it does not answer again
  (`AnswersFit`), of an issue it saw open. That an answered question is not answered
  twice was at first stated of the first page of comments only; the proof showed that
  no run answers twice at all, which `AnsweredOnce` now says of closed issues, too.
  A free number exists since there are fewer comments than numbers (`NewNumber`, by
  the pigeonhole principle).
* `IssuesAreMadeOnce`: what a run has still to create is not among the issues, and
  what it has not is (`CreateFits`); the issue being made is the only one under its
  title and has the fields set so far (`MadeFits`), so that the one found by title
  is the one meant; what an update has still to do is what lacks a field
  (`UpdateFits`). No two issues share a title (`TitlesDiffer`), which the scripts
  bring about and the owner, who only renames away, leaves so. All of it holds while
  `gh` lists all issues; issues are never taken away, so a listing that has become
  too short stays so, and a script that began beyond it never comes back within
  (`BacklogWhole`).
* `FieldsSurvive`: what is patched was made of what was read, and is the body until
  the owner's next edit (`MetaIInv`); the rest is about the operators, for bodies
  and lists of any length. A body with a written block has its first opening mark
  there, as none stands before it, and its first closing mark behind that, as no
  line of a field is one (`BlockIsFound`, `UpsertIsRead`). The parser, a recursive
  function over the lines, has the fields again at the end of the block
  (`LinesAreRead`: the function exists; `ScalarIsRead`, `ListIsRead`, `BlockIsRead`:
  what it holds after each field), and what it reads from any body can be written
  again (`ParsedIsMeta`). So task-meta may be run over what it wrote any number of
  times, and nothing moves (`WrittenBackTheSame`).

`WebShellProofs` does the same for `WebShell`, for any windows, titles, prompts,
templates, messages and bounds (`WorkspaceStateAssumption`, `ComposerAssumption`,
`TemplateMenuAssumption`, `ConversationAssumption`, `OverlaysAssumption`).
`ThePageIsTrue` is its invariant `ShellInv`; five action properties follow part by
part. Several parts filter a list, and `Filtered` of `WebPage` says what that is by
the places of the elements, as `SelectSeq` is recursive: a filtered list has the
elements that are kept, in their order, each as often as before (`FilterKeeps`).

* The windows: `ViewIsConsistent` and `TempsAreInFlight` hold only because late
  answers bring nothing that is there already. `CallFits` says so, call by call: a
  temporary window is in the view only while its creation is not settled, the id a
  creation will be given is unknown until the API has made it, and the view or a
  call that names it has seen the temporary window go. So a creation that settles
  replaces a window or none (`Creating`), and a failed deletion puts one back only
  where it is missing (`DeleteFailing`), whether React ran the updaters at once or
  later (`DeferredUpdaters`). `SettlementsAreOwn`.
* Composers: `ShellInv` needs that a recalled prompt is never mixed with typed
  text and that a busy window has a prompt to take back. `DraftsAreKept`.
* Template menus: every list has templates of ids handed out, each once. A menu
  writes its whole list back, so that it changes one template only if it lists
  what is stored. An open menu does (`NothingMissed`), for it hears of every change;
  one that was closed while the storage changed has missed it, as opening reads
  nothing, until another change is told to it (`MissedKept`). Then saving, changing
  and deleting touch one id (`OneChanges`). `TemplatesAreKept`.
* Unread answers: the list of new answers names answers that the window knows,
  each once, and the active window knows all (`ReaderKnows`). `FocusIsTrue`.
* Stars: the invariant is inductive but for the domains. `StarsAreKept`.
* The palette: recents are distinct and bounded, and the hovered place is a
  number, from which an arrow starts (`PaletteFits`).

Induction over data is not available as such: the theorems that state it take an
operator. Where a property of the code needs it (cycles, orders, the lines of a
body), a least counterexample over the natural numbers does (`Smallest`,
`LineAfterLine`), and so even what the recursive parser of `TaskMeta` computes is
proved. Every safety invariant and action property of the passing runs is stated
by a theorem.

Only model-checked is liveness (`StreamSettles`, `ComposerUnlocks`, `LifecycleEnds`,
`PageSettles`, `CallsEnd`), which rests on fairness and `ENABLED` and is out of the
prover's reach.

## Findings

1. `roundtrip_errors`: the API sends `{error: "text"}`, the client expects an
   object; an error event ends as an answered question.
2. `workspace_delete`: the `204` of a deletion has no body, the client parses
   it, fails and shows the deleted window again. Deletions of workspaces and
   projects go through the same code and are reported as failed too (`http.ts:55`,
   `lib/http.ts:90` of the API).
3. `autopilot_guard`: a BLOCK of the task guard is taken for a pass.

Each is quoted with its source in `PROJECT.json`. More disagreements were met
while modelling and are visible in the modules, without a run of their own.

The API:

* A client that leaves while the handler still looks up session, window, key or
  history is not noticed: the listener is attached at
  `messages-db.controller.ts:408`, after these awaits, against the comment at 402.
* When storing the pair fails the handler is left without its cleanup; with an
  error reporter that keeps the process alive the response is never ended and
  the client waits, against "instead of waiting forever"
  (`messages-db.controller.ts:335`). `HandlerRejects` models it.
* Up to `2 * max - 1` attempts pass the rate limiter within one window length,
  where `auth.controller.ts:53` says "10 attempts per IP per 15 minutes";
  `LessThanTwiceMax` is the bound that holds.
* The two rows of a pair share `created_at`, by which lists are ordered
  (`messages.repo.ts:35`); a deleted in-memory window stays in `windowIds`; the
  API answers for thirty seconds to a client that gives up after five
  (`client.ts:50`).
* `StatusFollowsCookie` holds only unless the cookie has changed since the last
  `/me` to settle was asked (`misled`): nothing orders its answer and a log-in
  (`SessionContext.tsx:77`). A log-in or a log-out whose answer breaks after its
  headers is shown as failed, and the status stays what it was, although the
  browser has stored the new cookie, or dropped the old one (`client.ts:84-95`).
* A log-out that is answered after the user has gone back to the log-in page and
  logged in again replaces the form's way home by its own to the log-in page
  (`SessionContext.tsx:122` after `AuthForm.tsx:92`); the tab is there already,
  and the form, which frees itself on failure only, stays disabled. It takes
  five calls, one more than the run has: the attempt to prove `WaitsAreBacked`
  and `StrangersAreLed` for any number of calls showed that both need
  `~overtaken`.

The page:

* `Regenerate` re-sends the question above the reply it removes, where the
  button says "re-sends last user message" (`ChatWindow.tsx:1740`).
* `Reset` returns to the windows the page was loaded with, where its
  confirmation says it "reopens every closed window" (`WorkspaceSidebar.tsx:367`).
* Two open template menus overwrite each other's changes. A draft typed in a
  window that has only a temporary id is lost when the window gets its own
  (`WorkspaceCanvas.tsx:72`), and a star set there belongs to nothing afterwards
  (`ChatWindow.tsx:588-590`). Escape that closes a menu also erases the draft;
  inserted text does not survive a recall (497-500); sending by button does not
  reset the recall.
* A window reopened above its end counts old answers as new; scrolling to the end
  leaves the badge; marking as read in the sidebar does not reach the window.
* The palette's starred list is stale while it is open (239); its list of
  projects stays empty if it was closed before the answer (62-65); each change of
  the list of notices starts all their timers anew.
* On the project page the answer of a renaming overwrites what is being typed
  next, and two renamings may cross; an API error of windows or messages is shown as
  an empty list. A save, a renaming or a deletion that is shown as failed may be
  carried out afterwards, for the page gives up before the API does (`http.ts:27`),
  and nothing loads the page again. On the provider page an older load may overwrite a newer one.

The tools:

* A plan that threw and a run resumed after its question was answered are shown as
  running with nothing behind them (`autopilot.mjs:621`, `:872`); both keep the
  engine from starting another run until they are stopped. The option to skip stale
  issues has no effect: `task-score --queue` prints neither of the fields it asks for
  (`autopilot.mjs:61-65`).
* After the exit of a stopped run's child, `stop` no longer knows the child of
  the run that followed; a mission that ends after its successor was started keeps
  the status "running" in its file (`Persist`); a single attempt stopped while
  its outcome is being told is marked completed or failed (`OutcomeTold`).
* The stream of a run that was ended by a signal, or that a restarted console has
  forgotten, never ends; a cockpit that went offline stops polling; a poll
  overwrites what is being edited in its form.
* The automatic merge never merges. It reads a field `allow` (`automerge.mjs:41`)
  that the guard does not print (`task-guard.mjs:187-193` prints `violations` and
  `safe`), so every pull request is refused, where `docs/ops/automerge-policy.md:16`
  has "`task:guard` returns ALLOW for the PR diff" among the conditions of a merge;
  its test hands it an `allow` of its own making (`automerge.test.mjs:18`). It also
  does not check every label the policy lists (22-29).
* In its default mode the bridge writes the status `pending` over a row before it
  reads answers from there (`sync-questions.mjs:162`), so that an answer marked in
  Notion is lost from its row unless the run is one of `ONLY_NOTION_TO_GH`, where
  `scripts/notion/questions-schema.md:36-38` promises the comment for every mark.
  `AnswerArrives` says what is left of the promise.
* The bridge lists open issues only (`sync-questions.mjs:124`), yet posts what is
  marked for any: the answer to a question of a closed issue is posted again by every
  run, where the schema has "a single `claude-answer` comment". Comments beyond the
  first page of 30 or 100 are not seen, and a question among them is asked again.
* `apply-issue-delta` looks keys up by substring, leaves an incomplete issue as it
  is, and doubles issues when run twice at once. Beyond five hundred
  issues (`create-github-issues.mjs:108`, `apply-issue-delta.mjs:160`) an entry whose
  issue is not among the newest is made again. `update-project-fields` resets
  the status of tasks that were begun.
* The backfill of `task-meta` overwrites a block that names no known field, and an
  edit made between listing and patching, against "NEVER overwritten" in its header.
  An opening mark without its end swallows the text up to the new block.
* `task-runner` reads dependencies from the metadata only (`task-runner.mjs:124`),
  where `docs/ops/task-runner.md:130-143` says that the line `Depends on:` counts as
  well: it takes a task that waits for an open issue. It stops at a blocked candidate
  although a ready one waits, and marks nothing: two clones take the same task. A
  set-up that is cut off leaves the issue In Progress without a branch, where
  `project-memory/AI-ISSUE-EXECUTION-PROTOCOL.md` has none stay there unworked.

## Not modelled

* Pure computation and pure I/O: password hashes, tokens, the key cipher,
  rendering, Markdown, layout, logging, error reports, configuration, exports.
* `stale-check`, `task-doctor`, `update-memory.sh`: they print reports. The
  notifications and n8n exports of `local-control/integrations`: calls nobody
  waits for. `public/lib/mission.js`: it draws the run `Autopilot` models and
  sends that engine its commands.
* The guest mode, in which the client is built without an API; the mode of chat without
  streaming, which no page mounts; pins, which are written to `localStorage` and
  read from `sessionStorage` (`ChatWindow.tsx:1856-1864`, `WorkspaceSidebar.tsx:1181`)
  and can therefore not be seen; renaming in place, search in a conversation and export.
* HTTP keep-alive, and `close` on response end, are not distinguished from an
  orderly end. The limiter's clock is assumed not to go back.
* The automatic merge: a decision over one snapshot, without a state, that refuses
  every pull request.
* One run of the bridge at a time; one clone in the instance of `TaskQueue`.

## Plan

What a next step would take, in order of weight:

1. Two clones of `TaskQueue` and two bridges of `Questions`, with properties
   that say what still holds.
2. The mission view and pins, once they keep state of their own.
