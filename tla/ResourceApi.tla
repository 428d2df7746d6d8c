----------------------------- MODULE ResourceApi -----------------------------
(***************************************************************************)
(* The handlers over DbStore: listing, creating, reading, changing and     *)
(* deleting projects, workspaces, chat windows and messages, the whole     *)
(* state, a question put without streaming, and provider connections; and  *)
(* the request pipeline before them (handle-request.ts, csrf.ts,           *)
(* router.ts).                                                             *)
(*                                                                         *)
(* An action is a handler's code from one await to the next: one query, or *)
(* one call of a provider.                                                 *)
(***************************************************************************)
EXTENDS DbStore

CONSTANTS Requests      \* bound: the requests ever made

ASSUME ResourceAssumption ==
    /\ Requests \subseteq Nat \ {0}
    /\ Users # {} /\ Texts # {}
    /\ Users \cap ((Requests \cup {0}) \X Nat) = {}

VARIABLES
    request,        \* the requests and where their handlers wait
    accepted,       \* history: the keys the provider has accepted
    testedNow       \* providerTestLimiter: the users whose connection was tested in
                    \* the running minute

apiVars == <<tables, request, accepted, testedNow>>

\* The routes: methods, and what their handlers are about.
Routes ==
    [op : {"list", "create", "get"}, level : Levels] \cup
    [op : {"patch", "delete"}, level : {Project, Workspace, Window}] \cup
    [op : {"post"}, level : {Message}] \cup
    [op : {"state", "connections", "connect", "disconnect", "test"}, level : {0}]

\* The rows a request may name: the parent of what it lists or makes, the row it
\* is about, or one that never was.
Targets(route) ==
    LET level == IF route.op \in {"list", "create", "post"} THEN route.level - 1 ELSE route.level
    IN  IF level = 0 THEN {<<0, 0>>}
        ELSE {<<0, 0>>} \cup {row.id : row \in {x \in rows : x.level = level}}

Idle == [op |-> "none", level |-> 0, user |-> 0, target |-> 0, own |-> TRUE, pc |-> "none",
         next |-> "none", at |-> 0, found |-> {}, read |-> {}, keys |-> {}, status |-> "none"]

ResourceInit ==
    /\ DbInit
    /\ request = [r \in Requests |-> Idle]
    /\ accepted = {0} /\ testedNow = {}

-----------------------------------------------------------------------------
(* Steps of a handler.                                                     *)

Becomes(r, record) == request' = [request EXCEPT ![r] = record]
Waits(r, pc) == Becomes(r, [request[r] EXCEPT !.pc = pc])
Answers(r, status) == Becomes(r, [request[r] EXCEPT !.pc = "answered", !.status = status])
Reads(r, read, status) ==
    Becomes(r, [request[r] EXCEPT !.pc = "answered", !.status = status, !.read = read])
Unwritten == UNCHANGED <<tables, accepted, testedNow>>

\* Starts the walk from a row up to its project (findChatWindowById,
\* findWorkspaceById, findProjectById), after which the handler goes on.
WalkFrom(record, id, next) == [record EXCEPT !.pc = "walk", !.at = id, !.next = next]

\* What follows authentication and, where there is one, the body.
Begin(record) ==
    CASE record.op = "list" -> IF record.level = Project THEN [record EXCEPT !.pc = "select"]
                               ELSE WalkFrom(record, record.target, "select")
      [] record.op = "create" -> IF record.level = Project THEN [record EXCEPT !.pc = "insert"]
                                 ELSE WalkFrom(record, record.target, "insert")
      [] record.op = "get" -> WalkFrom(record, record.target, "found")
      [] record.op \in {"patch", "delete"} ->
            IF record.level = Project THEN [record EXCEPT !.pc = record.op]
            ELSE WalkFrom(record, record.target, record.op)
      [] record.op = "post" -> WalkFrom(record, record.target, "getKey")
      [] record.op = "state" -> [record EXCEPT !.pc = "projects"]
      [] record.op = "connect" -> [record EXCEPT !.pc = "verify"]
      [] OTHER -> [record EXCEPT !.pc = record.op]

Bodied == {"create", "patch", "post", "connect"}
Safe == {"list", "get", "state", "connections"}

\* checkCsrf: safe methods pass; others must come from an allowed origin.
Csrf(route, own) == route.op \in Safe \/ own

\* handleRequest: a request that is refused before its handler is not heard of
\* again; another one reaches its handler, which asks who it is (requireUser).
Receives(r) ==
    /\ request[r].op = "none"
    /\ \A q \in Requests : q < r => request[q].op # "none"
    /\ \E route \in Routes, u \in Users, own \in BOOLEAN :
          /\ Csrf(route, own)
          /\ \E id \in Targets(route) :
                Becomes(r, [Idle EXCEPT !.op = route.op, !.level = route.level, !.user = u,
                                        !.target = id, !.own = own, !.pc = "auth"])
    /\ Unwritten

Authenticates(r) ==
    /\ request[r].pc = "auth"
    /\ \/ Answers(r, "denied")
       \/ Becomes(r, IF request[r].op \in Bodied THEN [request[r] EXCEPT !.pc = "body"]
                     ELSE Begin(request[r]))
    /\ Unwritten

\* parseJsonBody.
ReadsBody(r) ==
    /\ request[r].pc = "body"
    /\ \/ Answers(r, "refused")
       \/ Becomes(r, Begin(request[r]))
    /\ Unwritten

\* A query fails: the handler rejects and the pipeline answers.
Fails(r) ==
    /\ request[r].pc \notin {"none", "answered", "body", "generate", "verify", "ping"}
    /\ Answers(r, "failed")
    /\ Unwritten

\* Mutant: the walk ends at the first row that is there.
WalksOneStep(r) ==
    LET q == request[r] IN
    /\ q.pc = "walk"
    /\ \/ ~Exists(q.at) /\ Answers(r, "missing")
       \/ \E row \in Find(q.at) :
             Becomes(r, [q EXCEPT !.pc = q.next, !.found = IF @ = {} THEN {row} ELSE @])
    /\ Unwritten
\* Nothing of the user's is there: not found; a question goes on without history.
Missing(r) ==
    IF request[r].next = "history" THEN Becomes(r, [request[r] EXCEPT !.pc = "generate"])
    ELSE Answers(r, "missing")

\* One query of the walk: the row is not there, or is a project of somebody else,
\* or its parent is next, or the walk has reached the user's project.
Walks(r) ==
    LET q == request[r]
        keep(row) == IF q.found = {} THEN {row} ELSE q.found
    IN  /\ q.pc = "walk"
        /\ \/ ~Exists(q.at) /\ Missing(r)
           \/ \E row \in Find(q.at) :
                 \/ /\ row.level = Project /\ row.parent # q.user
                    /\ Missing(r)
                 \/ /\ row.level = Project /\ row.parent = q.user
                    /\ Becomes(r, [q EXCEPT !.pc = q.next, !.found = keep(row)])
                 \/ /\ row.level > Project
                    /\ Becomes(r, [q EXCEPT !.at = row.parent, !.found = keep(row)])
        /\ Unwritten

\* listProjectsByUserId, or the rows of the parent the walk has found.  A
\* workspace is answered with the ids of its windows, which are asked for next.
Selects(r) ==
    LET q == request[r]
        selected == IF q.level = Project THEN Children(q.user) ELSE Children(q.target)
    IN  /\ q.pc = "select"
        /\ IF q.level = Workspace
           THEN Becomes(r, [q EXCEPT !.pc = "windowIds", !.read = selected])
           ELSE Reads(r, selected, "ok")
        /\ Unwritten

\* The row the walk began with is answered as it was found.
Gets(r) ==
    LET q == request[r] IN
    /\ q.pc = "found"
    /\ IF q.level = Workspace
       THEN Becomes(r, [q EXCEPT !.pc = "windowIds", !.read = q.found])
       ELSE Reads(r, q.found, "ok")
    /\ Unwritten

\* listWindowIdsByWorkspaceIds.
ReadsWindowIds(r) ==
    LET q == request[r] IN
    /\ q.pc = "windowIds"
    /\ Reads(r, q.read \cup UNION {Children(ws.id) : ws \in q.read}, "ok")
    /\ Unwritten

\* A row of the body's text; a message that is no question is stored as it is.
Creates(r) ==
    LET q == request[r]
        parent == IF q.level = Project THEN q.user ELSE q.target
        root == IF q.level = Project THEN q.user ELSE (CHOOSE p \in rows : p.id = q.target).root
    IN  /\ q.pc = "insert"
        /\ q.level = Project \/ Exists(q.target)
        /\ \E t \in Texts :
              LET new == Row(<<r, 1>>, q.level, parent, t, root) IN
              CanInsert({new}) /\ Insert({new}) /\ Reads(r, {new}, "ok")
        /\ UNCHANGED <<connections, accepted, testedNow>>

\* update ... returning: a project by its user, another row by its id alone.
Patches(r) ==
    LET q == request[r]
        hit == {row \in Find(q.target) : q.level > Project \/ row.parent = q.user}
    IN  /\ q.pc = "patch"
        /\ \/ hit = {} /\ Answers(r, "missing") /\ UNCHANGED tables
           \/ \E row \in hit, t \in Texts :
                 /\ Update(q.target, t)
                 /\ IF q.level = Workspace
                    THEN Becomes(r, [q EXCEPT !.pc = "windowIds", !.read = {[row EXCEPT !.text = t]}])
                    ELSE Reads(r, {[row EXCEPT !.text = t]}, "ok")
                 /\ UNCHANGED connections
        /\ UNCHANGED <<accepted, testedNow>>

\* delete: a project by its user, another row by its id alone.
Deletes(r) ==
    LET q == request[r]
        hit == {row \in Find(q.target) : q.level > Project \/ row.parent = q.user}
    IN  /\ q.pc = "delete"
        /\ IF hit = {} /\ q.level = Project
           THEN Answers(r, "missing") /\ UNCHANGED tables
           ELSE /\ IF hit = {} THEN UNCHANGED rows ELSE Delete(q.target)
                /\ Answers(r, "ok") /\ UNCHANGED connections
        /\ UNCHANGED <<accepted, testedNow>>

-----------------------------------------------------------------------------
(* A question put without streaming (createMessageDbController).           *)

\* getDecryptedApiKey; the history is read after another walk.
GetsKey(r) ==
    LET q == request[r] IN
    /\ q.pc = "getKey"
    /\ IF connections[q.user] = {} THEN Answers(r, "unconfigured")
       ELSE Becomes(r, WalkFrom([q EXCEPT !.keys = connections[q.user]], q.target, "history"))
    /\ Unwritten

ReadsHistory(r) ==
    /\ request[r].pc = "history"
    /\ Becomes(r, [request[r] EXCEPT !.pc = "generate", !.read = Children(request[r].target)])
    /\ Unwritten

\* The provider answers; or it fails or is too late, and withTimeout settles for
\* good.
Generates(r) ==
    /\ request[r].pc = "generate"
    /\ \/ Answers(r, "providerError")
       \/ Becomes(r, WalkFrom(request[r], request[r].target, "storePair"))
    /\ Unwritten

\* insertMessagePair: question and answer in one transaction.
StoresPair(r) ==
    LET q == request[r] IN
    /\ q.pc = "storePair"
    /\ Exists(q.target)
    /\ \E t \in Texts :
          LET root == (CHOOSE w \in rows : w.id = q.target).root
              pair == {Row(<<r, n>>, Message, q.target, t, root) : n \in {1, 2}}
          IN  CanInsert(pair) /\ Insert(pair) /\ Reads(r, pair, "ok")
    /\ UNCHANGED <<connections, accepted, testedNow>>

-----------------------------------------------------------------------------
(* The whole state (loadUserState): four queries, each for the children of *)
(* the rows the one before it found.                                       *)

StateQueries == [projects |-> "workspaces", workspaces |-> "windows", windows |-> "messages"]

LoadsState(r) ==
    LET q == request[r]
        newest == IF q.pc = "projects" THEN Children(q.user)
                  ELSE UNION {Children(row.id) : row \in q.found}
    IN  /\ q.pc \in {"projects", "workspaces", "windows", "messages"}
        /\ IF newest = {} \/ q.pc = "messages"
           THEN Reads(r, q.read \cup newest, "ok")
           ELSE Becomes(r, [q EXCEPT !.pc = StateQueries[q.pc], !.found = newest,
                                     !.read = @ \cup newest])
        /\ Unwritten

-----------------------------------------------------------------------------
(* Provider connections; one provider.                                     *)

\* Mutant: a provider that cannot be reached is taken for one that accepts.
VerifiesReachable(r) ==
    /\ request[r].pc = "verify"
    /\ \/ Answers(r, "refused") /\ UNCHANGED accepted
       \/ Waits(r, "upsert") /\ UNCHANGED accepted
       \/ Waits(r, "upsert") /\ accepted' = accepted \cup {r}
    /\ UNCHANGED <<tables, testedNow>>
\* verifyProviderKey of the key of the body, which is named after its request.
Verifies(r) ==
    /\ request[r].pc = "verify"
    /\ \/ Answers(r, "refused") /\ UNCHANGED accepted
       \/ Answers(r, "providerError") /\ UNCHANGED accepted
       \/ Waits(r, "upsert") /\ accepted' = accepted \cup {r}
    /\ UNCHANGED <<tables, testedNow>>

\* upsertProviderConnection.
Upserts(r) ==
    /\ request[r].pc = "upsert"
    /\ Upsert(request[r].user, {r}) /\ Answers(r, "ok")
    /\ UNCHANGED <<rows, accepted, testedNow>>

Disconnects(r) ==
    /\ request[r].pc = "disconnect"
    /\ Upsert(request[r].user, {}) /\ Answers(r, "ok")
    /\ UNCHANGED <<rows, accepted, testedNow>>

\* listConnections and getConnection: without the key.
ReadsConnections(r) ==
    /\ request[r].pc = "connections"
    /\ \/ Answers(r, "ok")
       \/ connections[request[r].user] = {} /\ Answers(r, "missing")
    /\ Unwritten

\* getDecryptedApiKeyById, then providerTestLimiter.
Tests(r) ==
    LET q == request[r] IN
    /\ q.pc = "test"
    /\ IF connections[q.user] = {} THEN Answers(r, "missing") /\ UNCHANGED testedNow
       ELSE IF q.user \in testedNow THEN Answers(r, "refused") /\ UNCHANGED testedNow
       ELSE /\ Becomes(r, [q EXCEPT !.pc = "ping", !.keys = connections[q.user]])
            /\ testedNow' = testedNow \cup {q.user}
    /\ UNCHANGED <<tables, accepted>>

\* pingProvider: what it says of the key is answered, whatever it is.
Pings(r) == request[r].pc = "ping" /\ Answers(r, "ok") /\ Unwritten

MinutePasses ==
    /\ testedNow # {} /\ testedNow' = {} /\ UNCHANGED <<tables, request, accepted>>

-----------------------------------------------------------------------------
HandlerStep(r) ==
    \/ Receives(r) \/ Authenticates(r) \/ ReadsBody(r) \/ Fails(r) \/ Walks(r) \/ Selects(r)
    \/ Gets(r) \/ ReadsWindowIds(r) \/ Creates(r) \/ Patches(r) \/ Deletes(r)
    \/ GetsKey(r) \/ ReadsHistory(r) \/ Generates(r) \/ StoresPair(r) \/ LoadsState(r)
    \/ Verifies(r) \/ Upserts(r) \/ Disconnects(r) \/ ReadsConnections(r) \/ Tests(r) \/ Pings(r)

ResourceNext == (\E r \in Requests : HandlerStep(r)) \/ MinutePasses

-----------------------------------------------------------------------------
(* Properties.                                                             *)

\* An answer shows a user rows of their own tree only, each with the row above it
\* where the state is asked for, although the queries of one answer see
\* different states of the tables.
AnswersAreOwn ==
    \A r \in Requests : request[r].status = "ok" =>
        /\ \A row \in request[r].read : row.root = request[r].user
        /\ request[r].op = "state" => \A row \in request[r].read :
               row.level > Project => \E p \in request[r].read : p.id = row.parent

\* A request whose answer is an error has stored nothing: no message of a
\* generation that failed or came too late, no half of a pair, no row or key of a
\* refused body.
ErrorsStoreNothing ==
    \A r \in Requests : request[r].status \notin {"ok", "none"} =>
        /\ \A row \in rows : row.id[1] # r
        /\ \A u \in Users : r \notin connections[u]

\* A stored key is one the provider has accepted.
StoredKeysWereAccepted == \A u \in Users : connections[u] \subseteq accepted

ResourceInv ==
    /\ DbTypeOK /\ TreeIsWhole
    /\ AnswersAreOwn /\ ErrorsStoreNothing /\ StoredKeysWereAccepted

\* A row or a connection is made, changed or removed by a request of the user at
\* its root only, sent from an origin that is allowed to; between the walk that
\* looked for the owner and the query that changes the row anything may happen.
OnlyTheOwnerWrites ==
    [][\E r \in Requests \cup {0} :
          /\ \A row \in (rows \ rows') \cup (rows' \ rows) :
                r # 0 /\ row.root = request[r].user /\ request[r].own
          /\ \A u \in Users : connections'[u] # connections[u] =>
                r # 0 /\ u = request[r].user /\ request[r].own
          /\ r # 0 => request[r].pc # request'[r].pc]_apiVars
=============================================================================
