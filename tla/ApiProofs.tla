------------------------------ MODULE ApiProofs ------------------------------
(***************************************************************************)
(* The routes of Api, for any users, any number of requests and any texts: *)
(* the inductive invariant of the handlers over the tables, query by       *)
(* query, and of the in-memory services; ApiInv and OnlyTheOwnerWrites     *)
(* from them.                                                              *)
(***************************************************************************)
EXTENDS Api, FiniteSetTheorems, TLAPS

RowIds == (Requests \cup {0}) \X Nat
RowType == [id : RowIds, level : Levels, parent : RowIds \cup Users, text : Texts, root : Users]

Walked == {"list", "create", "get", "patch", "delete", "post"}
Ops == Walked \cup {"none", "state", "connections", "connect", "disconnect", "test"}

\* Where a handler of an operation may wait, and what its walk leads to.
Stages == [list |-> {"select", "windowIds"}, create |-> {"insert"}, get |-> {"found", "windowIds"},
           patch |-> {"patch", "windowIds"}, delete |-> {"delete"},
           post |-> {"getKey", "history", "generate", "storePair"},
           state |-> {"projects", "workspaces", "windows", "messages"},
           connections |-> {"connections"}, connect |-> {"verify", "upsert"},
           disconnect |-> {"disconnect"}, test |-> {"test", "ping"}]
Nexts == [list |-> {"select"}, create |-> {"insert"}, get |-> {"found"}, patch |-> {"patch"},
          delete |-> {"delete"}, post |-> {"getKey", "history", "storePair"}]
Pcs == {"none", "answered", "auth", "body", "walk", "select", "windowIds", "insert", "found",
        "patch", "delete", "getKey", "history", "generate", "storePair", "projects",
        "workspaces", "windows", "messages", "connections", "verify", "upsert", "disconnect",
        "test", "ping"}

RequestType ==
    [op : Ops, level : 0..4, user : Users \cup {0}, target : RowIds \cup {0}, own : BOOLEAN,
     pc : Pcs, next : Pcs, at : RowIds \cup {0}, found : SUBSET RowType, read : SUBSET RowType,
     keys : SUBSET Nat,
     status : {"none", "ok", "denied", "refused", "failed", "missing", "unconfigured",
               "providerError"}]

TargetLevel(q) == IF q.op \in {"list", "create", "post"} THEN q.level - 1 ELSE q.level

\* No row of this name will be inserted any more.
Known(id) == id \in RowIds /\ (id[1] # 0 => request[id[1]].pc = "answered")

-----------------------------------------------------------------------------
(* The invariant.                                                          *)

\* The tree: names differ, and every row has its parent, of its root.
RowsOK ==
    /\ rows \subseteq RowType
    /\ \A a, b \in rows : a.id = b.id => a = b
    /\ \A row \in rows : Known(row.id) /\ row.id # <<0, 0>>
    /\ \A row \in rows :
          IF row.level = Project THEN row.parent = row.root
          ELSE /\ row.parent \in RowIds
               /\ \E p \in rows : p.id = row.parent /\ p.level = row.level - 1 /\ p.root = row.root

KeysOK ==
    /\ connections \in [Users -> SUBSET Nat] /\ accepted \subseteq Nat
    /\ \A u \in Users : connections[u] = {} \/ \E k \in accepted : connections[u] = {k}

\* A request is under way as its route has it.
OnItsRoute(q) ==
    /\ q.op = "none" <=> q.pc = "none"
    /\ q.pc # "answered" => q.status = "none"
    /\ q.op # "none" =>
          /\ [op |-> q.op, level |-> q.level] \in Routes
          /\ q.user \in Users /\ Known(q.target)
          /\ q.op \notin Safe => q.own
          /\ q.pc \in {"answered", "auth"} \/ (q.pc = "body" /\ q.op \in Bodied)
             \/ (q.pc = "walk" /\ q.op \in Walked /\ q.next \in Nexts[q.op])
             \/ q.pc \in Stages[q.op]
          /\ \A row \in rows : row.id = q.target => row.level = TargetLevel(q)

\* Once the walk has reached the user's project, what the handler is about is in
\* the user's tree, as long as it is there.
OwnTarget(q) ==
    q.pc \in {"select", "insert", "patch", "delete", "getKey", "history", "storePair"}
    /\ q.level # Project
    => \A row \in rows : row.id = q.target => row.root = q.user

\* On the way there: the row it has come to is above the one it set out from.
OnItsWalk(q) ==
    q.pc = "walk" =>
        /\ Known(q.at) /\ (q.found = {} => q.at = q.target)
        /\ \A p \in rows : p.id = q.at =>
              \A t \in rows \cup q.found : t.id = q.target => t.root = p.root

\* What was read belongs to the user, and is known still.
OwnRead(q) ==
    /\ \A row \in q.read : row.root = q.user
    /\ q.pc = "found" => \A row \in q.found : row.root = q.user
    /\ q.op # "state" => \A row \in q.found : row.id = q.target
    /\ q.pc # "answered" => \A row \in q.read \cup q.found :
          Known(row.id) /\ \A p \in rows : p.id = row.id => p.root = row.root
    /\ q.pc \in {"auth", "body"} => q.read = {} /\ q.found = {}
    /\ q.op = "state" =>
          /\ q.pc = "projects" => q.read = {} /\ q.found = {}
          /\ q.found \subseteq q.read
          /\ \A row \in q.read : row.level > Project => \E p \in q.read : p.id = row.parent

\* A request that has not succeeded has stored nothing.
Clean(r, q) ==
    q.status # "ok" => /\ \A row \in rows : row.id[1] # r
                       /\ \A u \in Users : r \notin connections[u]

Sound(r, q) ==
    /\ q \in RequestType
    /\ OnItsRoute(q) /\ OwnTarget(q) /\ OnItsWalk(q) /\ OwnRead(q) /\ Clean(r, q)

DbOK ==
    /\ RowsOK /\ KeysOK
    /\ request \in [Requests -> RequestType]
    /\ \A r \in Requests :
          Sound(r, request[r]) /\ (request[r].pc = "upsert" => r \in accepted)

MemoryOK ==
    /\ lastId \in Nat
    /\ projects \subseteq [id : 0..lastId, name : Names]
    /\ workspaces \subseteq [id : 0..lastId, project : 0..lastId, name : Names,
                             windowIds : SUBSET (0..lastId)]
    /\ windows \subseteq [id : 0..lastId, workspace : 0..lastId, name : Names]
    /\ messages \subseteq [id : 0..lastId, window : 0..lastId]
    /\ MemoryInv

ApiOK == DbOK /\ MemoryOK

-----------------------------------------------------------------------------
(* The tree.                                                               *)

\* The columns of a row.
LEMMA RowFields ==
    ASSUME NEW x \in RowType
    PROVE  /\ x.id \in RowIds /\ x.level \in Levels /\ x.parent \in RowIds \cup Users
           /\ x.text \in Texts /\ x.root \in Users
           /\ x.id[1] \in Requests \cup {0} /\ x.level \in 1..4
BY DEF RowType, RowIds, Levels, Project, Message

\* What hangs below a row has it for its parent in the tree.
LEMMA ChildHasParent ==
    ASSUME RowsOK, NEW x \in rows, x.parent \in RowIds
    PROVE  /\ x.level > Project
           /\ \E p \in rows : p.id = x.parent /\ p.level = x.level - 1 /\ p.root = x.root
<1>1. x \in RowType
  BY DEF RowsOK
<1>2. x.level # Project
  BY <1>1, RowFields, ResourceAssumption DEF RowsOK, RowIds
<1> QED BY <1>1, <1>2, RowFields DEF RowsOK, Project

\* What hangs below nothing but a user is one of that user's projects.
LEMMA ChildOfUser ==
    ASSUME RowsOK, NEW x \in rows, x.parent \in Users
    PROVE  x.level = Project /\ x.root = x.parent
BY ResourceAssumption DEF RowsOK, RowIds

\* The children of a row are of its root.
LEMMA ChildrenAreOwn ==
    ASSUME RowsOK, NEW id \in RowIds, NEW u, \A p \in rows : p.id = id => p.root = u,
           NEW x \in Children(id)
    PROVE  x \in rows /\ x.parent = id /\ x.level > Project /\ x.root = u
<1>1. x \in rows /\ x.parent = id
  BY DEF Children
<1> QED BY <1>1, ChildHasParent

-----------------------------------------------------------------------------
(* Steps that store nothing.                                               *)

LEMMA Facts ==
    ASSUME DbOK, NEW r \in Requests
    PROVE  /\ RowsOK /\ KeysOK /\ request \in [Requests -> RequestType]
           /\ request[r] \in RequestType /\ Sound(r, request[r])
           /\ request[r].pc = "upsert" => r \in accepted
           /\ r # 0 /\ r \in Nat
BY ResourceAssumption DEF DbOK

\* A step of a request that was not answered disturbs no other, if it keeps of the
\* rows what they are and adds none but in its own name.
LEMMA OthersStaySound ==
    ASSUME DbOK, NEW r \in Requests, request[r].pc # "answered",
           \A s \in Requests \ {r} : request'[s] = request[s],
           \A x \in rows' : x.id[1] = r \/ \E y \in rows :
               y.id = x.id /\ y.root = x.root /\ y.level = x.level,
           \A u \in Users : connections'[u] \subseteq connections[u] \cup {r},
           NEW s \in Requests \ {r}
    PROVE  Sound(s, request[s])'
<1> DEFINE q == request[s]
<1>1. Sound(s, q) /\ r # 0 /\ request'[s] = q
  BY Facts
<1>2. ASSUME NEW id, Known(id) PROVE Known(id)' /\ id[1] # r
  BY <1>1, <1>2 DEF Known, RowIds
<1>3. ASSUME NEW id, Known(id), NEW x \in rows', x.id = id
      PROVE  \E y \in rows : y.id = id /\ y.root = x.root /\ y.level = x.level
  BY <1>2, <1>3
<1>4. OnItsRoute(q)'
  <2>1. q.op # "none" => Known(q.target)
    BY <1>1 DEF Sound, OnItsRoute
  <2>2. q.op # "none" => \A x \in rows' : x.id = q.target => x.level = TargetLevel(q)
    BY <1>1, <1>3, <2>1 DEF Sound, OnItsRoute
  <2> QED BY <1>1, <1>2, <2>1, <2>2 DEF Sound, OnItsRoute, TargetLevel
<1>5. q.op # "none" \/ q.pc = "none"
  BY <1>1 DEF Sound, OnItsRoute
<1>6. OwnTarget(q)'
  BY <1>1, <1>3, <1>5 DEF Sound, OnItsRoute, OwnTarget
<1>7. OnItsWalk(q)'
  <2> SUFFICES ASSUME q.pc = "walk"
               PROVE  /\ Known(q.at)' /\ (q.found = {} => q.at = q.target)
                      /\ \A p \in rows' : p.id = q.at =>
                            \A t \in rows' \cup q.found : t.id = q.target => t.root = p.root
    BY <1>1 DEF OnItsWalk
  <2>1. Known(q.at) /\ Known(q.target)
    BY <1>1, <1>5 DEF Sound, OnItsRoute, OnItsWalk
  <2>2. ASSUME NEW p \in rows', p.id = q.at, NEW t \in rows' \cup q.found, t.id = q.target
        PROVE  t.root = p.root
    <3>1. PICK y \in rows : y.id = q.at /\ y.root = p.root
      BY <1>3, <2>1, <2>2
    <3>2. \E z \in rows \cup q.found : z.id = q.target /\ z.root = t.root
      BY <1>3, <2>1, <2>2
    <3> QED BY <1>1, <3>1, <3>2 DEF Sound, OnItsWalk
  <2> QED BY <1>1, <1>2, <2>1, <2>2 DEF Sound, OnItsWalk
<1>8. OwnRead(q)'
  BY <1>1, <1>2, <1>3 DEF Sound, OwnRead
<1>9. Clean(s, q)'
  BY <1>1 DEF Sound, Clean
<1> QED BY <1>1, <1>4, <1>6, <1>7, <1>8, <1>9 DEF Sound

\* A step that reads.
LEMMA StepOfReader ==
    ASSUME DbOK, NEW r \in Requests, request[r].pc # "answered", NEW rec, Becomes(r, rec),
           UNCHANGED tables, accepted \subseteq accepted', accepted' \subseteq Nat,
           rec.pc = "upsert" => r \in accepted',
           Sound(r, rec)
    PROVE  DbOK'
<1>1. /\ RowsOK /\ KeysOK /\ rec \in RequestType /\ request \in [Requests -> RequestType]
      /\ rows' = rows /\ connections' = connections
      /\ request'[r] = rec /\ \A s \in Requests \ {r} : request'[s] = request[s]
      /\ request' \in [Requests -> RequestType]
  BY Facts DEF Becomes, Sound, tables
<1>2. ASSUME NEW s \in Requests \ {r} PROVE Sound(s, request[s])'
  BY <1>1, OthersStaySound
<1>3. \A s \in Requests \ {r} : request'[s].pc = "upsert" => s \in accepted'
  BY <1>1, Facts
<1>4. ASSUME NEW id, Known(id) PROVE Known(id)'
  BY <1>1, <1>4, ResourceAssumption DEF Known, RowIds
<1>5. Sound(r, request[r])'
  <2>1. OnItsRoute(rec)' /\ OwnRead(rec)' /\ OnItsWalk(rec)'
    BY <1>1, <1>4 DEF Sound, OnItsRoute, OwnRead, OnItsWalk, TargetLevel
  <2> QED BY <1>1, <2>1 DEF Sound, OwnTarget, Clean
<1>6. RowsOK'
  BY <1>1, <1>4 DEF RowsOK
<1>7. KeysOK'
  BY <1>1 DEF KeysOK
<1> QED BY <1>1, <1>2, <1>3, <1>5, <1>6, <1>7 DEF DbOK

-----------------------------------------------------------------------------
(* Answers.                                                                *)

Statuses == {"ok", "denied", "refused", "failed", "missing", "unconfigured", "providerError"}

\* What may be answered: rows of the user's, whole where the state is asked for.
Answerable(q, read) ==
    /\ read \subseteq RowType /\ \A row \in read : row.root = q.user
    /\ q.op = "state" =>
          /\ q.found \subseteq read
          /\ \A row \in read : row.level > Project => \E p \in read : p.id = row.parent

\* A request that has arrived and was not answered.
Open(r) == request[r].pc \notin {"none", "answered"}

LEMMA OpenFacts ==
    ASSUME DbOK, NEW r \in Requests, Open(r)
    PROVE  LET q == request[r] IN
           /\ q \in RequestType /\ Sound(r, q) /\ q.op # "none" /\ q.status = "none"
           /\ q.pc # "answered" /\ q.user \in Users /\ Known(q.target) /\ q.target \in RowIds
           /\ [op |-> q.op, level |-> q.level] \in Routes
           /\ Answerable(q, q.read)
<1>1. request[r] \in RequestType /\ Sound(r, request[r])
  BY Facts
<1>2. request[r].op # "none"
  BY <1>1 DEF Sound, OnItsRoute, Open
<1>3. Answerable(request[r], request[r].read)
  BY <1>1 DEF Sound, OwnRead, Answerable, RequestType
<1> QED BY <1>1, <1>2, <1>3 DEF Sound, OnItsRoute, Open, Known

\* The record of an answered request is sound, if nothing is told that is not the
\* user's.
LEMMA AnsweredSoundly ==
    ASSUME DbOK, NEW r \in Requests, Open(r), NEW st \in Statuses, NEW read,
           Answerable(request[r], read)
    PROVE  Sound(r, [request[r] EXCEPT !.pc = "answered", !.status = st, !.read = read])
<1> DEFINE q == request[r]
           rec == [q EXCEPT !.pc = "answered", !.status = st, !.read = read]
<1>1. /\ q \in RequestType /\ Sound(r, q) /\ q.op # "none" /\ q.status = "none"
  BY OpenFacts
<1>2. rec \in RequestType
  BY <1>1 DEF RequestType, Answerable, Statuses, Pcs
<1>3. /\ rec.op = q.op /\ rec.level = q.level /\ rec.user = q.user /\ rec.target = q.target
      /\ rec.own = q.own /\ rec.pc = "answered" /\ rec.next = q.next /\ rec.at = q.at
      /\ rec.found = q.found /\ rec.read = read /\ rec.status = st
  BY <1>1 DEF RequestType
<1> HIDE DEF rec
<1>4. OnItsRoute(rec)
  BY <1>1, <1>3 DEF Sound, OnItsRoute, TargetLevel, Statuses
<1>5. OwnTarget(rec) /\ OnItsWalk(rec)
  BY <1>3 DEF OwnTarget, OnItsWalk
<1>6. OwnRead(rec)
  BY <1>1, <1>3 DEF Sound, OwnRead, Answerable
<1>7. Clean(r, rec)
  BY <1>1, <1>3 DEF Sound, Clean
<1>8. QED BY <1>2, <1>4, <1>5, <1>6, <1>7 DEF Sound, rec

\* A request is answered with rows that were read, or with nothing.
LEMMA Answering ==
    ASSUME DbOK, NEW r \in Requests, Open(r), NEW st \in Statuses, NEW read,
           Answerable(request[r], read), Reads(r, read, st),
           UNCHANGED tables, accepted \subseteq accepted', accepted' \subseteq Nat
    PROVE  DbOK'
<1> DEFINE rec == [request[r] EXCEPT !.pc = "answered", !.status = st, !.read = read]
<1>1. request[r] \in RequestType /\ request[r].pc # "answered"
  BY OpenFacts
<1>2. Becomes(r, rec)
  BY DEF Reads
<1>3. Sound(r, rec)
  BY AnsweredSoundly
<1>4. rec.pc = "answered"
  BY <1>1 DEF RequestType
<1> HIDE DEF rec
<1> QED BY <1>1, <1>2, <1>3, <1>4, StepOfReader

LEMMA AnsweringOnly ==
    ASSUME DbOK, NEW r \in Requests, Open(r), NEW st \in Statuses, Answers(r, st),
           UNCHANGED tables, accepted \subseteq accepted', accepted' \subseteq Nat
    PROVE  DbOK'
<1>1. request[r] \in RequestType /\ Answerable(request[r], request[r].read)
  BY OpenFacts
<1>2. Reads(r, request[r].read, st)
  BY <1>1 DEF Answers, Reads, RequestType
<1> QED BY <1>1, <1>2, Answering

\* The tables stay as they are, and so does what the provider accepted.
LEMMA Quiet ==
    ASSUME DbOK, Unwritten
    PROVE  UNCHANGED tables /\ accepted \subseteq accepted' /\ accepted' \subseteq Nat
BY DEF Unwritten, DbOK, KeysOK

-----------------------------------------------------------------------------
(* Steps on the way.                                                       *)

\* A record that has gone on along the route of the request.
Follows(q, rec) ==
    /\ rec \in RequestType
    /\ rec.op = q.op /\ rec.level = q.level /\ rec.user = q.user /\ rec.target = q.target
    /\ rec.own = q.own /\ rec.status = q.status
    /\ \/ rec.pc = "body" /\ q.op \in Bodied
       \/ rec.pc = "walk" /\ q.op \in Walked /\ rec.next \in Nexts[q.op]
       \/ rec.pc \in Stages[q.op]

LEMMA StageNames ==
    ASSUME NEW op \in Ops \ {"none"}, NEW pc \in Stages[op]
    PROVE  /\ pc \in Pcs \ {"none", "answered", "auth", "body", "walk"}
           /\ (op # "state" => pc \notin {"projects", "workspaces", "windows", "messages"})
           /\ (op = "state" => pc \in {"projects", "workspaces", "windows", "messages"})
BY DEF Ops, Walked, Stages, Pcs

LEMMA NextNames ==
    ASSUME NEW op \in Walked, NEW nxt \in Nexts[op]
    PROVE  nxt \in Pcs /\ nxt \in Stages[op] /\ op \in Ops \ {"none"} /\ op # "state"
BY DEF Ops, Walked, Nexts, Stages, Pcs

LEMMA GoingOn ==
    ASSUME DbOK, NEW r \in Requests, Open(r), NEW rec, Follows(request[r], rec),
           OwnTarget(rec), OnItsWalk(rec), OwnRead(rec),
           Becomes(r, rec), UNCHANGED tables, accepted \subseteq accepted', accepted' \subseteq Nat,
           rec.pc = "upsert" => r \in accepted'
    PROVE  DbOK'
<1> DEFINE q == request[r]
<1>1. /\ q \in RequestType /\ Sound(r, q) /\ q.op # "none" /\ q.status = "none"
      /\ q.op \in Ops \ {"none"}
  BY OpenFacts DEF RequestType
<1>2. rec.pc \notin {"none", "answered"}
  BY <1>1, StageNames DEF Follows
<1>3. OnItsRoute(rec)
  BY <1>1, <1>2 DEF Sound, OnItsRoute, Follows, TargetLevel
<1>4. Clean(r, rec)
  BY <1>1 DEF Sound, Clean, Follows
<1>5. Sound(r, rec)
  BY <1>3, <1>4 DEF Sound, Follows
<1>6. q.pc # "answered"
  BY DEF Open
<1> QED BY <1>5, <1>6, StepOfReader

\* A walk begins at what the request is about.
LEMMA WalkBegins ==
    ASSUME DbOK, NEW r \in Requests, Open(r), request[r].op \in Walked,
           NEW nxt \in Nexts[request[r].op], NEW keys \in SUBSET Nat,
           Becomes(r, WalkFrom([request[r] EXCEPT !.keys = keys], request[r].target, nxt)),
           Unwritten
    PROVE  DbOK'
<1>0. \A op \in Walked : Nexts[op] \subseteq Pcs
  BY DEF Walked, Nexts, Pcs
<1> DEFINE q == request[r]
           k == [q EXCEPT !.keys = keys]
           rec == WalkFrom(k, q.target, nxt)
<1>1. /\ q \in RequestType /\ Sound(r, q) /\ q.pc # "answered"
      /\ Known(q.target) /\ q.target \in RowIds /\ q.op # "none" /\ q.op # "state"
  BY OpenFacts DEF Walked
<1>2. nxt \in Pcs
  BY <1>0
<1>k. /\ k.op = q.op /\ k.level = q.level /\ k.user = q.user /\ k.target = q.target
      /\ k.own = q.own /\ k.status = q.status /\ k.found = q.found /\ k.read = q.read
      /\ k \in RequestType
  BY <1>1 DEF RequestType
<1> HIDE DEF k
<1>3. /\ rec.op = q.op /\ rec.level = q.level /\ rec.user = q.user /\ rec.target = q.target
      /\ rec.own = q.own /\ rec.status = q.status /\ rec.pc = "walk" /\ rec.next = nxt
      /\ rec.at = q.target /\ rec.found = q.found /\ rec.read = q.read
      /\ rec \in RequestType
  <2>1. "walk" \in Pcs
    BY DEF Pcs
  <2> HIDE DEF q
  <2> QED BY <1>1, <1>2, <1>k, <2>1 DEF RequestType, WalkFrom
<1> HIDE DEF rec
<1>4. Follows(q, rec)
  BY <1>3 DEF Follows
<1>5. OwnTarget(rec)
  BY <1>3 DEF OwnTarget
<1>6. OnItsWalk(rec)
  <2>1. ASSUME NEW p \in rows, p.id = q.target, NEW t \in rows \cup q.found, t.id = q.target
        PROVE  t.root = p.root
    <3>1. CASE t \in rows
      BY <2>1, <3>1, Facts DEF RowsOK
    <3>2. CASE t \in q.found
      BY <1>1, <2>1, <3>2 DEF Sound, OwnRead
    <3> QED BY <2>1, <3>1, <3>2
  <2> QED BY <1>1, <1>3, <2>1 DEF OnItsWalk
<1>7. OwnRead(rec)
  BY <1>1, <1>3 DEF Sound, OwnRead
<1>8. Becomes(r, rec)
  BY DEF k, rec
<1> QED BY <1>3, <1>4, <1>5, <1>6, <1>7, <1>8, Quiet, GoingOn

\* A stage is entered for which nothing has to be known of the target.
LEMMA Entering ==
    ASSUME DbOK, NEW r \in Requests, Open(r), NEW pc \in Pcs, NEW keys \in SUBSET Nat,
           \/ pc = "body" /\ request[r].op \in Bodied
           \/ pc \in Stages[request[r].op],
           pc \in {"select", "insert", "patch", "delete", "getKey", "history", "storePair"}
              => request[r].level = Project,
           pc \notin {"found", "walk"}, request[r].pc # "auth" => pc # "body",
           pc = "projects" => request[r].pc \in {"auth", "body"},
           Becomes(r, [request[r] EXCEPT !.pc = pc, !.keys = keys]),
           UNCHANGED tables, accepted \subseteq accepted', accepted' \subseteq Nat,
           pc = "upsert" => r \in accepted'
    PROVE  DbOK'
<1> DEFINE q == request[r]
           rec == [q EXCEPT !.pc = pc, !.keys = keys]
<1>1. /\ q \in RequestType /\ Sound(r, q) /\ q.pc # "answered" /\ q.op \in Ops \ {"none"}
  BY OpenFacts DEF RequestType
<1>3. /\ rec.op = q.op /\ rec.level = q.level /\ rec.user = q.user /\ rec.target = q.target
      /\ rec.own = q.own /\ rec.status = q.status /\ rec.pc = pc /\ rec.next = q.next
      /\ rec.at = q.at /\ rec.found = q.found /\ rec.read = q.read
      /\ rec \in RequestType
  BY <1>1 DEF RequestType
<1>4. Becomes(r, rec)
  OBVIOUS
<1> HIDE DEF rec
<1>5. Follows(q, rec) /\ OwnTarget(rec) /\ OnItsWalk(rec)
  BY <1>3 DEF Follows, OwnTarget, OnItsWalk
<1>6. OwnRead(rec)
  <2>1. q.pc \in {"auth", "body"} => q.read = {} /\ q.found = {}
    BY <1>1 DEF Sound, OwnRead
  <2>2. pc \in {"auth", "body"} => q.pc = "auth"
    BY <1>1, StageNames DEF Open
  <2> QED BY <1>1, <1>3, <2>1, <2>2 DEF Sound, OwnRead
<1> QED BY <1>3, <1>4, <1>5, <1>6, GoingOn

\* What follows authentication, or the body.
LEMMA Beginning ==
    ASSUME DbOK, NEW r \in Requests, request[r].pc \in {"auth", "body"},
           Becomes(r, Begin(request[r])), Unwritten
    PROVE  DbOK'
<1> DEFINE q == request[r]
<1>1. /\ q \in RequestType /\ q.op \in Ops \ {"none"} /\ Open(r) /\ q.keys \in SUBSET Nat
      /\ [op |-> q.op, level |-> q.level] \in Routes
  BY OpenFacts DEF RequestType, Open
<1>2. q = [q EXCEPT !.keys = q.keys]
  BY <1>1 DEF RequestType
<1>3. ASSUME q.op \in Walked, NEW nxt \in Nexts[q.op], Begin(q) = WalkFrom(q, q.target, nxt)
      PROVE  DbOK'
  <2>1. Becomes(r, WalkFrom([q EXCEPT !.keys = q.keys], q.target, nxt))
    BY <1>2, <1>3
  <2> QED BY <1>1, <1>3, <2>1, WalkBegins
<1>4. ASSUME NEW pc \in Stages[q.op] \ {"found", "body", "walk", "upsert"},
             Begin(q) = [q EXCEPT !.pc = pc],
             pc \in {"select", "insert", "patch", "delete", "getKey", "history", "storePair"}
                => q.level = Project
      PROVE  DbOK'
  <2>1. [q EXCEPT !.pc = pc] = [q EXCEPT !.pc = pc, !.keys = q.keys]
    BY <1>1 DEF RequestType
  <2>2. Becomes(r, [q EXCEPT !.pc = pc, !.keys = q.keys])
    BY <1>4, <2>1
  <2>3. pc \in Pcs
    BY <1>1, StageNames
  <2> QED BY <1>1, <1>4, <2>2, <2>3, Quiet, Entering
<1>5. CASE q.op = "list"
  BY <1>3, <1>4, <1>5 DEF Begin, Walked, Nexts, Stages
<1>6. CASE q.op = "create"
  BY <1>3, <1>4, <1>6 DEF Begin, Walked, Nexts, Stages
<1>7. CASE q.op = "get"
  BY <1>3, <1>7 DEF Begin, Walked, Nexts
<1>8. CASE q.op = "patch"
  BY <1>3, <1>4, <1>8 DEF Begin, Walked, Nexts, Stages
<1>9. CASE q.op = "delete"
  BY <1>3, <1>4, <1>9 DEF Begin, Walked, Nexts, Stages
<1>10. CASE q.op = "post"
  BY <1>3, <1>10 DEF Begin, Walked, Nexts
<1>11. CASE q.op \in {"state", "connect", "connections", "disconnect", "test"}
  BY <1>4, <1>11 DEF Begin, Stages
<1> QED BY <1>1, <1>5, <1>6, <1>7, <1>8, <1>9, <1>10, <1>11 DEF Ops, Walked

\* The operation of a request that waits at a stage.
LEMMA WhoWaits ==
    ASSUME DbOK, NEW r \in Requests, Open(r)
    PROVE  LET q == request[r] IN
           /\ q.pc = "walk" => q.op \in Walked /\ q.next \in Nexts[q.op]
           /\ q.pc = "select" => q.op = "list"
           /\ q.pc = "insert" => q.op = "create"
           /\ q.pc = "patch" => q.op = "patch"
           /\ q.pc = "delete" => q.op = "delete"
           /\ q.pc = "found" => q.op = "get"
           /\ q.pc = "windowIds" => q.op \in {"list", "get", "patch"}
           /\ q.pc \in {"getKey", "history", "generate", "storePair"} => q.op = "post"
           /\ q.pc \in {"projects", "workspaces", "windows", "messages"} => q.op = "state"
           /\ q.pc \in {"verify", "upsert"} => q.op = "connect"
           /\ q.pc = "disconnect" => q.op = "disconnect"
           /\ q.pc \in {"test", "ping"} => q.op = "test"
<1> DEFINE q == request[r]
<1>1. q.op \in Ops \ {"none"} /\ Sound(r, q)
  BY OpenFacts DEF RequestType
<1>2. \/ q.pc \in {"auth", "body"}
      \/ q.pc = "walk" /\ q.op \in Walked /\ q.next \in Nexts[q.op]
      \/ q.pc \in Stages[q.op]
  BY <1>1 DEF Sound, OnItsRoute, Open
<1>3. CASE q.pc \in Stages[q.op]
  BY <1>1, <1>3 DEF Ops, Walked, Stages
<1> QED BY <1>2, <1>3

-----------------------------------------------------------------------------
(* The handlers, query by query.                                           *)

\* A request arrives, about a row there is or a row that never was.
LEMMA Receiving == ASSUME DbOK, NEW r \in Requests, Receives(r) PROVE DbOK'
<1> DEFINE q == request[r]
<1>1. /\ q.op = "none" /\ q.pc = "none" /\ Sound(r, q) /\ RowsOK /\ KeysOK
  BY Facts DEF Receives, Sound, OnItsRoute
<1>2. PICK route \in Routes, u \in Users, own \in BOOLEAN :
         /\ Csrf(route, own)
         /\ \E id \in Targets(route) :
               Becomes(r, [Idle EXCEPT !.op = route.op, !.level = route.level, !.user = u,
                                       !.target = id, !.own = own, !.pc = "auth"])
  BY DEF Receives
<1>3. PICK id \in Targets(route) :
         Becomes(r, [Idle EXCEPT !.op = route.op, !.level = route.level, !.user = u,
                                 !.target = id, !.own = own, !.pc = "auth"])
  BY <1>2
<1> DEFINE rec == [Idle EXCEPT !.op = route.op, !.level = route.level, !.user = u,
                               !.target = id, !.own = own, !.pc = "auth"]
           top == IF route.op \in {"list", "create", "post"} THEN route.level - 1 ELSE route.level
<1>4. route.op \in Ops \ {"none"} /\ route.level \in 0..4 /\ top \in 0..4
      /\ route = [op |-> route.op, level |-> route.level]
  BY DEF Routes, Ops, Walked, Levels, Project, Workspace, Window, Message
<1>5. id = <<0, 0>> \/ \E x \in rows : x.id = id /\ x.level = top
  BY <1>3 DEF Targets
<1>6. Known(id) /\ \A x \in rows : x.id = id => x.level = top
  BY <1>1, <1>5 DEF RowsOK, Known, RowIds
<1>7. id \in RowIds
  BY <1>6 DEF Known
<1>8. /\ rec.op = route.op /\ rec.level = route.level /\ rec.user = u /\ rec.target = id
      /\ rec.own = own /\ rec.pc = "auth" /\ rec.next = "none" /\ rec.at = 0
      /\ rec.found = {} /\ rec.read = {} /\ rec.keys = {} /\ rec.status = "none"
      /\ rec \in RequestType
  BY <1>4, <1>7 DEF Idle, RequestType, Pcs
<1>9. Becomes(r, rec)
  BY <1>3
<1> HIDE DEF rec
<1>10. OnItsRoute(rec)
  BY <1>2, <1>4, <1>6, <1>8 DEF OnItsRoute, TargetLevel, Csrf
<1>11. OwnTarget(rec) /\ OnItsWalk(rec) /\ OwnRead(rec)
  BY <1>8 DEF OwnTarget, OnItsWalk, OwnRead
<1>12. Clean(r, rec)
  BY <1>1, <1>8 DEF Sound, Clean, OnItsRoute
<1>13. Sound(r, rec)
  BY <1>8, <1>10, <1>11, <1>12 DEF Sound
<1> QED BY <1>1, <1>8, <1>9, <1>13, Quiet, StepOfReader DEF Receives

\* The pipeline before a handler, and a query that fails.
LEMMA Entrance ==
    ASSUME DbOK, NEW r \in Requests, Authenticates(r) \/ ReadsBody(r) \/ Fails(r)
    PROVE  DbOK'
<1> DEFINE q == request[r]
<1>1. Unwritten /\ Open(r)
  BY DEF Authenticates, ReadsBody, Fails, Open
<1>2. q \in RequestType
  BY Facts
<1>3. ASSUME NEW st \in {"denied", "refused", "failed"}, Answers(r, st) PROVE DbOK'
  BY <1>1, <1>3, Quiet, AnsweringOnly DEF Statuses
<1>4. ASSUME q.pc = "auth", q.op \in Bodied, Becomes(r, [q EXCEPT !.pc = "body"]) PROVE DbOK'
  <2>1. [q EXCEPT !.pc = "body"] = [q EXCEPT !.pc = "body", !.keys = q.keys]
    BY <1>2 DEF RequestType
  <2>2. Becomes(r, [q EXCEPT !.pc = "body", !.keys = q.keys]) /\ q.keys \in SUBSET Nat
    BY <1>2, <1>4, <2>1 DEF RequestType
  <2>3. "body" \in Pcs
    BY DEF Pcs
  <2> QED BY <1>1, <1>4, <2>2, <2>3, Quiet, Entering
<1> QED BY <1>1, <1>3, <1>4, Beginning DEF Authenticates, ReadsBody, Fails

\* Nothing of the user's is there.
LEMMA MissingSoundly ==
    ASSUME DbOK, NEW r \in Requests, request[r].pc = "walk", Missing(r), Unwritten
    PROVE  DbOK'
<1> DEFINE q == request[r]
<1>1. /\ q \in RequestType /\ Open(r) /\ q.op \in Walked /\ q.next \in Nexts[q.op]
  BY Facts, WhoWaits DEF Open
<1>2. CASE q.next # "history"
  BY <1>1, <1>2, Quiet, AnsweringOnly DEF Missing, Statuses
<1>3. CASE q.next = "history"
  <2>1. "generate" \in Stages[q.op]
    BY <1>1, <1>3 DEF Walked, Nexts, Stages
  <2>2. [q EXCEPT !.pc = "generate"] = [q EXCEPT !.pc = "generate", !.keys = q.keys]
    BY <1>1 DEF RequestType
  <2>3. Becomes(r, [q EXCEPT !.pc = "generate", !.keys = q.keys]) /\ q.keys \in SUBSET Nat
    BY <1>1, <1>3, <2>2 DEF Missing, RequestType
  <2>4. "generate" \in Pcs
    BY DEF Pcs
  <2> QED BY <1>1, <2>1, <2>3, <2>4, Quiet, Entering
<1> QED BY <1>2, <1>3

\* One query of the walk.
LEMMA Walking == ASSUME DbOK, NEW r \in Requests, Walks(r) PROVE DbOK'
<1> DEFINE q == request[r]
           Keep(row) == IF q.found = {} THEN {row} ELSE q.found
<1>1. /\ q.pc = "walk" /\ Unwritten /\ Open(r) /\ q \in RequestType /\ Sound(r, q) /\ RowsOK
      /\ q.op \in Walked /\ q.next \in Nexts[q.op]
      /\ q.next \in Pcs /\ q.next \in Stages[q.op] /\ q.op # "state" /\ q.op \in Ops \ {"none"}
  <2>1. q.pc = "walk" /\ Open(r) /\ Unwritten
    BY DEF Walks, Open
  <2>2. q.op \in Walked /\ q.next \in Nexts[q.op]
    BY <2>1, WhoWaits
  <2> QED BY <2>1, <2>2, Facts, NextNames
<1>2. ASSUME Missing(r) PROVE DbOK'
  BY <1>1, <1>2, MissingSoundly
<1>3. ASSUME NEW row \in Find(q.at)
      PROVE  /\ row \in rows /\ row.id = q.at /\ row \in RowType
             /\ Keep(row) # {} /\ Keep(row) \subseteq RowType
             /\ \A f \in Keep(row) :
                   /\ f.id = q.target /\ f.root = row.root /\ Known(f.id)
                   /\ \A p \in rows : p.id = f.id => p.root = f.root
             /\ \A t \in rows : t.id = q.target => t.root = row.root
  <2>1. row \in rows /\ row.id = q.at /\ row \in RowType
    BY <1>1, <1>3 DEF Find, RowsOK
  <2>2. Keep(row) # {} /\ Keep(row) \subseteq RowType
    BY <1>1, <2>1 DEF RequestType
  <2>3. \A f \in Keep(row) : f.id = q.target
    BY <1>1, <2>1 DEF Sound, OwnRead, OnItsWalk
  <2>4. \A f \in Keep(row) : f.root = row.root
    BY <1>1, <2>1, <2>3 DEF Sound, OnItsWalk
  <2>5. \A f \in Keep(row) : Known(f.id) /\ \A p \in rows : p.id = f.id => p.root = f.root
    BY <1>1, <2>1 DEF Sound, OwnRead, RowsOK
  <2>6. \A t \in rows : t.id = q.target => t.root = row.root
    BY <1>1, <2>1 DEF Sound, OnItsWalk
  <2> QED BY <2>1, <2>2, <2>3, <2>4, <2>5, <2>6
<1> HIDE DEF Keep
<1>4. ASSUME NEW row \in Find(q.at), row.level = Project, row.parent = q.user,
             Becomes(r, [q EXCEPT !.pc = q.next, !.found = Keep(row)])
      PROVE  DbOK'
  <2> DEFINE rec == [q EXCEPT !.pc = q.next, !.found = Keep(row)]
  <2>1. /\ rec.op = q.op /\ rec.level = q.level /\ rec.user = q.user /\ rec.target = q.target
        /\ rec.own = q.own /\ rec.status = q.status /\ rec.pc = q.next /\ rec.next = q.next
        /\ rec.at = q.at /\ rec.found = Keep(row) /\ rec.read = q.read
        /\ rec \in RequestType
    BY <1>1, <1>3 DEF RequestType
  <2>2. Becomes(r, rec)
    BY <1>4
  <2> HIDE DEF rec
  <2>3. row.root = q.user
    BY <1>1, <1>3, <1>4 DEF RowsOK
  <2>4. rec.pc \notin {"none", "auth", "body", "walk", "answered", "projects", "upsert"}
    BY <1>1, <2>1 DEF Walked, Nexts
  <2>5. Follows(q, rec)
    BY <1>1, <2>1 DEF Follows
  <2>6. OwnTarget(rec) /\ OnItsWalk(rec)
    BY <1>3, <2>1, <2>3, <2>4 DEF OwnTarget, OnItsWalk
  <2>7. OwnRead(rec)
    BY <1>1, <1>3, <2>1, <2>3, <2>4 DEF Sound, OwnRead
  <2> QED BY <1>1, <2>2, <2>4, <2>5, <2>6, <2>7, Quiet, GoingOn
<1>5. ASSUME NEW row \in Find(q.at), row.level > Project,
             Becomes(r, [q EXCEPT !.at = row.parent, !.found = Keep(row)])
      PROVE  DbOK'
  <2> DEFINE rec == [q EXCEPT !.at = row.parent, !.found = Keep(row)]
  <2>1. PICK p \in rows : p.id = row.parent /\ p.root = row.root /\ row.parent \in RowIds
    BY <1>1, <1>3, <1>5 DEF RowsOK, Project
  <2>2. Known(row.parent) /\ \A x \in rows : x.id = row.parent => x.root = row.root
    BY <1>1, <2>1 DEF RowsOK
  <2>3. /\ rec.op = q.op /\ rec.level = q.level /\ rec.user = q.user /\ rec.target = q.target
        /\ rec.own = q.own /\ rec.status = q.status /\ rec.pc = "walk" /\ rec.next = q.next
        /\ rec.at = row.parent /\ rec.found = Keep(row) /\ rec.read = q.read
        /\ rec \in RequestType
    BY <1>1, <1>3, <2>1 DEF RequestType
  <2>4. Becomes(r, rec)
    BY <1>5
  <2> HIDE DEF rec
  <2>5. Follows(q, rec) /\ OwnTarget(rec)
    BY <1>1, <2>3 DEF Follows, OwnTarget
  <2>6. OnItsWalk(rec)
    BY <1>3, <2>2, <2>3 DEF OnItsWalk
  <2>7. OwnRead(rec)
    BY <1>1, <1>3, <2>3 DEF Sound, OwnRead
  <2> QED BY <1>1, <2>3, <2>4, <2>5, <2>6, <2>7, Quiet, GoingOn
<1> QED BY <1>1, <1>2, <1>4, <1>5 DEF Walks, Keep

-----------------------------------------------------------------------------
(* Queries that read rows.                                                 *)

\* Rows of a user's, which no other row will be taken for.
Owned(u, set) ==
    /\ set \subseteq RowType
    /\ \A x \in set : /\ x.root = u /\ Known(x.id)
                      /\ \A p \in rows : p.id = x.id => p.root = x.root

LEMMA RowsAreOwned ==
    ASSUME RowsOK, NEW u, NEW set \in SUBSET rows, \A x \in set : x.root = u
    PROVE  Owned(u, set)
BY DEF RowsOK, Owned

\* What has been read already.
LEMMA ReadIsOwned ==
    ASSUME DbOK, NEW r \in Requests, Open(r)
    PROVE  /\ Owned(request[r].user, request[r].read)
           /\ request[r].pc = "found" => Owned(request[r].user, request[r].found)
<1>1. request[r] \in RequestType /\ Sound(r, request[r]) /\ request[r].pc # "answered"
  BY OpenFacts
<1> QED BY <1>1 DEF Sound, OwnRead, Owned, RequestType

ReadStages == {"windowIds", "generate", "workspaces", "windows", "messages"}

\* A query whose rows are the user's is followed by another one.
LEMMA ReadingOn ==
    ASSUME DbOK, NEW r \in Requests, Open(r), NEW rec \in RequestType, Becomes(r, rec), Unwritten,
           rec.op = request[r].op, rec.level = request[r].level, rec.user = request[r].user,
           rec.target = request[r].target, rec.own = request[r].own,
           rec.status = request[r].status,
           rec.pc \in ReadStages, rec.pc \in Stages[rec.op], Owned(rec.user, rec.read),
           rec.op # "state" => rec.found = request[r].found,
           rec.op = "state" =>
               /\ rec.found \subseteq rec.read
               /\ \A x \in rec.read : x.level > Project => \E p \in rec.read : p.id = x.parent
    PROVE  DbOK'
<1> DEFINE q == request[r]
<1>1. /\ q \in RequestType /\ Sound(r, q) /\ q.pc # "answered" /\ q.op # "none"
  BY OpenFacts
<1>2. Follows(q, rec) /\ OwnTarget(rec) /\ OnItsWalk(rec)
  BY DEF ReadStages, Follows, OwnTarget, OnItsWalk
<1>3. OwnRead(rec)
  <2>1. CASE rec.op = "state"
    BY <1>1, <2>1 DEF ReadStages, Owned, OwnRead
  <2>2. CASE rec.op # "state"
    BY <1>1, <2>2 DEF ReadStages, Owned, Sound, OwnRead
  <2> QED BY <2>1, <2>2
<1>4. rec.pc # "upsert"
  BY DEF ReadStages
<1> QED BY <1>2, <1>3, <1>4, Quiet, GoingOn

\* Rows of the user's are answered.
LEMMA AnsweringRows ==
    ASSUME DbOK, NEW r \in Requests, Open(r), request[r].op # "state",
           NEW read, Owned(request[r].user, read), Reads(r, read, "ok"), Unwritten
    PROVE  DbOK'
<1>1. Answerable(request[r], read)
  BY DEF Owned, Answerable
<1>2. "ok" \in Statuses
  BY DEF Statuses
<1> QED BY <1>1, <1>2, Quiet, Answering

LEMMA ChildrenOwned ==
    ASSUME RowsOK, NEW u, NEW set, Owned(u, set), NEW x \in set
    PROVE  Owned(u, Children(x.id))
<1>1. x.id \in RowIds /\ \A p \in rows : p.id = x.id => p.root = u
  BY RowFields DEF Owned
<1>2. Children(x.id) \in SUBSET rows
  BY DEF Children
<1>3. \A y \in Children(x.id) : y.root = u
  BY <1>1, ChildrenAreOwn
<1> QED BY <1>2, <1>3, RowsAreOwned

LEMMA ProjectsOwned ==
    ASSUME RowsOK, NEW u \in Users
    PROVE  Owned(u, Children(u)) /\ \A x \in Children(u) : x.level = Project
<1>1. Children(u) \in SUBSET rows /\ \A x \in Children(u) : x.root = u /\ x.level = Project
  BY ChildOfUser DEF Children
<1> QED BY <1>1, RowsAreOwned

LEMMA OfTarget ==
    ASSUME DbOK, NEW r \in Requests, Open(r),
           request[r].pc \in {"select", "insert", "patch", "delete", "getKey", "history", "storePair"},
           request[r].level # Project
    PROVE  Owned(request[r].user, Children(request[r].target))
<1> DEFINE q == request[r]
<1>1. RowsOK /\ Sound(r, q) /\ q.target \in RowIds
  BY Facts, OpenFacts
<1>2. \A p \in rows : p.id = q.target => p.root = q.user
  BY <1>1 DEF Sound, OwnTarget
<1>3. Children(q.target) \in SUBSET rows
  BY DEF Children
<1>4. \A x \in Children(q.target) : x.root = q.user
  BY <1>1, <1>2, ChildrenAreOwn
<1> QED BY <1>1, <1>3, <1>4, RowsAreOwned

LEMMA Selecting == ASSUME DbOK, NEW r \in Requests, Selects(r) PROVE DbOK'
<1> DEFINE q == request[r]
           selected == IF q.level = Project THEN Children(q.user) ELSE Children(q.target)
<1>1. /\ q.pc = "select" /\ Open(r) /\ q \in RequestType /\ RowsOK /\ Unwritten
      /\ q.op = "list"
  BY Facts, WhoWaits DEF Selects, Open
<1>2. q.user \in Users
  BY <1>1, OpenFacts
<1>3. Owned(q.user, selected)
  BY <1>1, <1>2, ProjectsOwned, OfTarget
<1>4. CASE q.level = Workspace
  <2> DEFINE rec == [q EXCEPT !.pc = "windowIds", !.read = selected]
  <2>1. Becomes(r, rec)
    BY <1>4 DEF Selects
  <2>2. "windowIds" \in Pcs /\ "windowIds" \in ReadStages /\ "windowIds" \in Stages[q.op]
      /\ q.op # "state"
    BY <1>1 DEF Pcs, ReadStages, Stages
  <2>3. /\ rec.op = q.op /\ rec.level = q.level /\ rec.user = q.user /\ rec.target = q.target
        /\ rec.own = q.own /\ rec.status = q.status /\ rec.found = q.found
        /\ rec.pc = "windowIds" /\ rec.read = selected /\ rec \in RequestType
    BY <1>1, <1>3, <2>2 DEF RequestType, Owned
  <2> HIDE DEF rec, selected
  <2> QED BY <1>1, <1>3, <2>1, <2>2, <2>3, ReadingOn
<1>5. CASE q.level # Workspace
  <2>1. Reads(r, selected, "ok")
    BY <1>5 DEF Selects
  <2> HIDE DEF selected
  <2> QED BY <1>1, <1>3, <2>1, AnsweringRows
<1> QED BY <1>4, <1>5

LEMMA Getting == ASSUME DbOK, NEW r \in Requests, Gets(r) PROVE DbOK'
<1> DEFINE q == request[r]
<1>1. /\ q.pc = "found" /\ Open(r) /\ q \in RequestType /\ Unwritten /\ q.op = "get"
  BY Facts, WhoWaits DEF Gets, Open
<1>2. Owned(q.user, q.found)
  BY <1>1, ReadIsOwned
<1>3. CASE q.level = Workspace
  <2> DEFINE rec == [q EXCEPT !.pc = "windowIds", !.read = q.found]
  <2>1. Becomes(r, rec)
    BY <1>3 DEF Gets
  <2>2. "windowIds" \in Pcs /\ "windowIds" \in ReadStages /\ "windowIds" \in Stages[q.op]
      /\ q.op # "state"
    BY <1>1 DEF Pcs, ReadStages, Stages
  <2>3. /\ rec.op = q.op /\ rec.level = q.level /\ rec.user = q.user /\ rec.target = q.target
        /\ rec.own = q.own /\ rec.status = q.status /\ rec.found = q.found
        /\ rec.pc = "windowIds" /\ rec.read = q.found /\ rec \in RequestType
    BY <1>1, <1>2, <2>2 DEF RequestType, Owned
  <2> HIDE DEF rec
  <2> QED BY <1>1, <1>2, <2>1, <2>2, <2>3, ReadingOn
<1>4. CASE q.level # Workspace
  BY <1>1, <1>2, <1>4, AnsweringRows DEF Gets
<1> QED BY <1>3, <1>4

LEMMA ReadingWindowIds == ASSUME DbOK, NEW r \in Requests, ReadsWindowIds(r) PROVE DbOK'
<1> DEFINE q == request[r]
           ids == UNION {Children(ws.id) : ws \in q.read}
<1>1. /\ q.pc = "windowIds" /\ Open(r) /\ RowsOK /\ Unwritten /\ q.op # "state"
      /\ Reads(r, q.read \cup ids, "ok")
  BY Facts, WhoWaits DEF ReadsWindowIds, Open
<1>2. Owned(q.user, q.read)
  BY <1>1, ReadIsOwned
<1>3. Owned(q.user, ids)
  <2>1. \A ws \in q.read : Owned(q.user, Children(ws.id))
    BY <1>1, <1>2, ChildrenOwned
  <2> QED BY <2>1 DEF Owned
<1> HIDE DEF ids
<1>4. Owned(q.user, q.read \cup ids)
  BY <1>2, <1>3 DEF Owned
<1> QED BY <1>1, <1>4, AnsweringRows

-----------------------------------------------------------------------------
(* A question put without streaming, the whole state, and connections.     *)

LEMMA GettingKey == ASSUME DbOK, NEW r \in Requests, GetsKey(r) PROVE DbOK'
<1> DEFINE q == request[r]
           keys == connections[q.user]
<1>1. /\ q.pc = "getKey" /\ Open(r) /\ q \in RequestType /\ Unwritten /\ q.op = "post"
  BY Facts, WhoWaits DEF GetsKey, Open
<1>2. keys \in SUBSET Nat
  BY <1>1, OpenFacts, Facts DEF KeysOK
<1>3. CASE keys = {}
  BY <1>1, <1>3, Quiet, AnsweringOnly DEF GetsKey, Statuses
<1>4. CASE keys # {}
  <2>1. Becomes(r, WalkFrom([q EXCEPT !.keys = keys], q.target, "history"))
    BY <1>4 DEF GetsKey
  <2>2. "history" \in Nexts[q.op] /\ q.op \in Walked
    BY <1>1 DEF Nexts, Walked
  <2> QED BY <1>1, <1>2, <2>1, <2>2, WalkBegins
<1> QED BY <1>3, <1>4

LEMMA ReadingHistory == ASSUME DbOK, NEW r \in Requests, ReadsHistory(r) PROVE DbOK'
<1> DEFINE q == request[r]
           rec == [q EXCEPT !.pc = "generate", !.read = Children(q.target)]
<1>1. /\ q.pc = "history" /\ Open(r) /\ q \in RequestType /\ Unwritten /\ q.op = "post"
      /\ Becomes(r, rec)
  BY Facts, WhoWaits DEF ReadsHistory, Open
<1>2. q.level # Project
  BY <1>1, OpenFacts DEF Routes, Project, Message
<1>3. Owned(q.user, Children(q.target))
  BY <1>1, <1>2, OfTarget
<1>4. "generate" \in Pcs /\ "generate" \in ReadStages /\ "generate" \in Stages[q.op]
      /\ q.op # "state"
  BY <1>1 DEF Pcs, ReadStages, Stages
<1>5. /\ rec.op = q.op /\ rec.level = q.level /\ rec.user = q.user /\ rec.target = q.target
      /\ rec.own = q.own /\ rec.status = q.status /\ rec.found = q.found
      /\ rec.pc = "generate" /\ rec.read = Children(q.target) /\ rec \in RequestType
  BY <1>1, <1>3, <1>4 DEF RequestType, Owned
<1> HIDE DEF rec
<1> QED BY <1>1, <1>3, <1>4, <1>5, ReadingOn

LEMMA Generating == ASSUME DbOK, NEW r \in Requests, Generates(r) PROVE DbOK'
<1> DEFINE q == request[r]
<1>1. /\ q.pc = "generate" /\ Open(r) /\ q \in RequestType /\ Unwritten /\ q.op = "post"
  BY Facts, WhoWaits DEF Generates, Open
<1>2. CASE Answers(r, "providerError")
  BY <1>1, <1>2, Quiet, AnsweringOnly DEF Statuses
<1>3. CASE Becomes(r, WalkFrom(q, q.target, "storePair"))
  <2>1. q.keys \in SUBSET Nat /\ q = [q EXCEPT !.keys = q.keys]
    BY <1>1 DEF RequestType
  <2>2. Becomes(r, WalkFrom([q EXCEPT !.keys = q.keys], q.target, "storePair"))
    BY <1>3, <2>1
  <2>3. "storePair" \in Nexts[q.op] /\ q.op \in Walked
    BY <1>1 DEF Nexts, Walked
  <2> QED BY <1>1, <2>1, <2>2, <2>3, WalkBegins
<1> QED BY <1>2, <1>3 DEF Generates

\* One of the four queries of the whole state.
LEMMA LoadingState == ASSUME DbOK, NEW r \in Requests, LoadsState(r) PROVE DbOK'
<1> DEFINE q == request[r]
           newest == IF q.pc = "projects" THEN Children(q.user)
                     ELSE UNION {Children(row.id) : row \in q.found}
           all == q.read \cup newest
           rec == [q EXCEPT !.pc = StateQueries[q.pc], !.found = newest, !.read = @ \cup newest]
<1>1. /\ q.pc \in {"projects", "workspaces", "windows", "messages"}
      /\ Open(r) /\ q \in RequestType /\ Unwritten /\ RowsOK /\ Sound(r, q)
      /\ q.op = "state"
  BY Facts, WhoWaits DEF LoadsState, Open
<1>2. q.user \in Users
  BY <1>1, OpenFacts
<1>3. /\ Owned(q.user, q.read) /\ q.found \subseteq q.read
      /\ q.pc = "projects" => q.read = {}
      /\ \A row \in q.read : row.level > Project => \E p \in q.read : p.id = row.parent
  BY <1>1, ReadIsOwned DEF Sound, OwnRead
<1>4. Owned(q.user, newest)
      /\ \A row \in newest : row.level > Project => \E p \in q.read : p.id = row.parent
  <2>1. CASE q.pc = "projects"
    BY <1>1, <1>2, <2>1, ProjectsOwned DEF Project
  <2>2. CASE q.pc # "projects"
    <3>1. \A row \in q.found : Owned(q.user, Children(row.id))
      BY <1>1, <1>3, ChildrenOwned
    <3>2. Owned(q.user, newest)
      BY <2>2, <3>1 DEF Owned
    <3>3. \A row \in newest : \E p \in q.read : p.id = row.parent
      BY <1>3, <2>2 DEF Children
    <3> QED BY <3>2, <3>3
  <2> QED BY <2>1, <2>2
<1>5. Becomes(r, rec) \/ Reads(r, all, "ok")
  BY DEF LoadsState
<1>6. (newest = {} \/ q.pc = "messages" => Reads(r, all, "ok"))
      /\ (q.pc # "messages" => Becomes(r, rec) \/ Reads(r, all, "ok"))
  BY <1>1 DEF LoadsState
<1> HIDE DEF newest
<1>7. Owned(q.user, all) /\ newest \subseteq all /\ q.found \subseteq all
      /\ \A row \in all : row.level > Project => \E p \in all : p.id = row.parent
  BY <1>3, <1>4 DEF Owned
<1>8. CASE Reads(r, all, "ok")
  <2>1. Answerable(q, all)
    BY <1>7 DEF Answerable, Owned
  <2>2. "ok" \in Statuses
    BY DEF Statuses
  <2> HIDE DEF all
  <2> QED BY <1>1, <1>8, <2>1, <2>2, Quiet, Answering
<1>9. CASE q.pc # "messages" /\ Becomes(r, rec)
  <2> DEFINE pc == StateQueries[q.pc]
  <2>1. pc \in ReadStages /\ pc \in Pcs /\ pc \in Stages[q.op]
    BY <1>1, <1>9 DEF StateQueries, ReadStages, Pcs, Stages
  <2> HIDE DEF pc
  <2>2. rec = [q EXCEPT !.pc = pc, !.found = newest, !.read = all]
    BY <1>1 DEF RequestType, pc
  <2>3. /\ rec.op = q.op /\ rec.level = q.level /\ rec.user = q.user /\ rec.target = q.target
        /\ rec.own = q.own /\ rec.status = q.status /\ rec.found = newest
        /\ rec.pc = pc /\ rec.read = all /\ rec \in RequestType
    <3> HIDE DEF rec, all
    <3> QED BY <1>1, <1>4, <1>7, <2>1, <2>2 DEF RequestType, Owned
  <2>4. Becomes(r, rec)
    BY <1>9
  <2> HIDE DEF rec, all
  <2> QED BY <1>1, <1>7, <2>1, <2>3, <2>4, ReadingOn
<1> QED BY <1>5, <1>6, <1>8, <1>9

\* The key of the body, the connections without it, the test of a key.
LEMMA OfConnections ==
    ASSUME DbOK, NEW r \in Requests,
           Verifies(r) \/ ReadsConnections(r) \/ Tests(r) \/ Pings(r)
    PROVE  DbOK'
<1> DEFINE q == request[r]
<1>1. /\ Open(r) /\ q \in RequestType /\ UNCHANGED tables
      /\ accepted \subseteq accepted' /\ accepted' \subseteq Nat
  BY Facts DEF Verifies, ReadsConnections, Tests, Pings, Unwritten, Open, KeysOK, DbOK
<1>2. ASSUME NEW st \in Statuses, Answers(r, st) PROVE DbOK'
  BY <1>1, <1>2, AnsweringOnly
<1>3. ASSUME NEW pc \in Pcs, pc \in {"upsert", "ping"}, NEW keys \in SUBSET Nat,
             pc \in Stages[q.op], Becomes(r, [q EXCEPT !.pc = pc, !.keys = keys]),
             pc = "upsert" => r \in accepted'
      PROVE  DbOK'
  <2>1. /\ pc \notin {"select", "insert", "patch", "delete", "getKey", "history", "storePair"}
        /\ pc \notin {"found", "walk"} /\ pc # "body" /\ pc # "projects"
    BY <1>3
  <2> QED BY <1>1, <1>3, <2>1, Entering, Zenon
<1>4. CASE Verifies(r)
  <2>1. CASE Answers(r, "refused") \/ Answers(r, "providerError")
    BY <1>2, <2>1 DEF Statuses
  <2>2. CASE Waits(r, "upsert") /\ accepted' = accepted \cup {r}
    <3>1. [q EXCEPT !.pc = "upsert"] = [q EXCEPT !.pc = "upsert", !.keys = q.keys]
      BY <1>1 DEF RequestType
    <3>2. Becomes(r, [q EXCEPT !.pc = "upsert", !.keys = q.keys]) /\ q.keys \in SUBSET Nat
      BY <1>1, <2>2, <3>1 DEF Waits, RequestType
    <3>3. q.op = "connect"
      BY <1>1, <1>4, WhoWaits DEF Verifies
    <3>4. "upsert" \in Stages[q.op] /\ "upsert" \in Pcs
      BY <3>3 DEF Stages, Pcs
    <3> QED BY <1>3, <2>2, <3>2, <3>4, Zenon
  <2> QED BY <1>4, <2>1, <2>2 DEF Verifies
<1>5. CASE ReadsConnections(r) \/ Pings(r)
  BY <1>2, <1>5 DEF ReadsConnections, Pings, Statuses
<1>6. CASE Tests(r)
  <2>1. CASE Answers(r, "missing") \/ Answers(r, "refused")
    BY <1>2, <2>1 DEF Statuses
  <2>2. CASE Becomes(r, [q EXCEPT !.pc = "ping", !.keys = connections[q.user]])
    <3>1. connections[q.user] \in SUBSET Nat
      BY <1>1, OpenFacts, Facts DEF KeysOK
    <3>2. q.op = "test"
      BY <1>1, <1>6, WhoWaits DEF Tests
    <3>3. "ping" \in Stages[q.op] /\ "ping" \in Pcs
      BY <3>2 DEF Stages, Pcs
    <3> QED BY <1>3, <2>2, <3>1, <3>3, Zenon
  <2> QED BY <1>6, <2>1, <2>2 DEF Tests
<1> QED BY <1>4, <1>5, <1>6

\* A minute of the limiter passes.
LEMMA PassingMinute == ASSUME DbOK, MinutePasses PROVE DbOK'
<1>1. UNCHANGED <<rows, connections, request, accepted>>
  BY DEF MinutePasses, tables
<1> QED BY <1>1 DEF DbOK, RowsOK, KeysOK, Sound, OnItsRoute, OwnTarget, OnItsWalk, OwnRead, Clean,
        Known, TargetLevel

-----------------------------------------------------------------------------
(* Steps that store.                                                       *)

\* What a step leaves of the tables when it adds in its own name only.
AddsOnly(r) ==
    /\ \A x \in rows' : x.id[1] = r \/ \E y \in rows :
           y.id = x.id /\ y.root = x.root /\ y.level = x.level
    /\ \A u \in Users : connections'[u] \subseteq connections[u] \cup {r}

\* The record of a request whose query has stored something.
Stored(q, rec) ==
    /\ rec \in RequestType
    /\ rec.op = q.op /\ rec.level = q.level /\ rec.user = q.user /\ rec.target = q.target
    /\ rec.own = q.own /\ rec.found = q.found /\ q.op # "state"
    /\ \A x \in rec.read : x.root = q.user
    /\ \/ rec.pc = "answered" /\ rec.status \in Statuses
       \/ rec.pc = "windowIds" /\ q.op = "patch" /\ rec.status = "none"

LEMMA StepOfWriter ==
    ASSUME DbOK, NEW r \in Requests, Open(r), NEW rec, Stored(request[r], rec), Becomes(r, rec),
           RowsOK', KeysOK', accepted' = accepted, AddsOnly(r),
           rec.status # "ok" => /\ \A x \in rows' : x.id[1] # r
                                /\ \A u \in Users : r \notin connections'[u],
           rec.pc = "windowIds" => \A x \in rec.read \cup rec.found :
               /\ Known(x.id)
               /\ \A p \in rows : p.id = x.id => p.root = x.root
    PROVE  DbOK'
<1> DEFINE q == request[r]
<1>1. /\ q \in RequestType /\ Sound(r, q) /\ q.op # "none" /\ q.pc # "answered"
      /\ Known(q.target) /\ r # 0
  BY OpenFacts, Facts
<1>2. /\ request \in [Requests -> RequestType] /\ request' \in [Requests -> RequestType]
      /\ request'[r] = rec /\ \A s \in Requests \ {r} : request'[s] = request[s]
      /\ rec \in RequestType
  BY Facts DEF Becomes, Stored
<1>3. ASSUME NEW s \in Requests \ {r} PROVE Sound(s, request[s])'
  BY <1>1, <1>2, OthersStaySound DEF AddsOnly
<1>4. \A s \in Requests \ {r} : request'[s].pc = "upsert" => s \in accepted'
  BY <1>2, Facts
<1>5. ASSUME NEW id, Known(id) PROVE Known(id)' /\ id[1] # r
  BY <1>1, <1>2, <1>5 DEF Known, RowIds
<1>6. ASSUME NEW id, Known(id), NEW x \in rows', x.id = id
      PROVE  \E y \in rows : y.id = id /\ y.root = x.root /\ y.level = x.level
  BY <1>5, <1>6 DEF AddsOnly
<1>7. Sound(r, request[r])'
  <2>1. OnItsRoute(rec)'
    <3>1. \A x \in rows' : x.id = rec.target => x.level = TargetLevel(rec)
      BY <1>1, <1>6 DEF Sound, OnItsRoute, Stored, TargetLevel
    <3>2. Known(rec.target)'
      BY <1>1, <1>5 DEF Stored
    <3>3. rec.pc = "windowIds" => rec.pc \in Stages[rec.op]
      BY DEF Stored, Stages
    <3> QED BY <1>1, <3>1, <3>2, <3>3 DEF Sound, OnItsRoute, Stored, TargetLevel, Statuses
  <2>2. OwnTarget(rec)' /\ OnItsWalk(rec)'
    BY DEF Stored, OwnTarget, OnItsWalk
  <2>3. OwnRead(rec)'
    <3>1. rec.pc = "windowIds" => \A x \in rec.read \cup rec.found :
             Known(x.id)' /\ \A p \in rows' : p.id = x.id => p.root = x.root
      BY <1>5, <1>6
    <3> QED BY <1>1, <3>1 DEF Sound, OwnRead, Stored
  <2>4. Clean(r, rec)'
    BY DEF Clean
  <2> QED BY <1>2, <2>1, <2>2, <2>3, <2>4 DEF Sound
<1>8. request'[r].pc # "upsert"
  BY <1>2 DEF Stored
<1> QED BY <1>2, <1>3, <1>4, <1>7, <1>8 DEF DbOK

\* Keys are stored, or removed, for the user of the request alone.
LEMMA Connecting ==
    ASSUME DbOK, NEW r \in Requests, Upserts(r) \/ Disconnects(r)
    PROVE  DbOK'
<1> DEFINE q == request[r]
           rec == [q EXCEPT !.pc = "answered", !.status = "ok"]
<1>1. /\ Open(r) /\ q \in RequestType /\ rows' = rows /\ accepted' = accepted /\ Becomes(r, rec)
      /\ RowsOK /\ KeysOK /\ Answerable(q, q.read) /\ q.op # "state" /\ q.user \in Users
  <2>1. Open(r) /\ q.pc \in {"upsert", "disconnect"}
    BY DEF Upserts, Disconnects, Open
  <2> QED BY <2>1, Facts, OpenFacts, WhoWaits DEF Upserts, Disconnects, Answers
<1>2. /\ rec.op = q.op /\ rec.level = q.level /\ rec.user = q.user /\ rec.target = q.target
      /\ rec.own = q.own /\ rec.status = "ok" /\ rec.found = q.found
      /\ rec.pc = "answered" /\ rec.read = q.read /\ rec \in RequestType
  BY <1>1 DEF RequestType, Pcs
<1>3. request' = [request EXCEPT ![r] = rec] /\ request \in [Requests -> RequestType]
  BY <1>1, Facts DEF Becomes
<1> HIDE DEF rec
<1>4. Stored(q, rec)
  BY <1>1, <1>2 DEF Stored, Answerable, Statuses
<1>5. PICK keys \in {{}, {r}} : Upsert(q.user, keys) /\ (keys = {r} => r \in accepted)
  BY Facts DEF Upserts, Disconnects
<1>6. connections' = [connections EXCEPT ![q.user] = keys]
  BY <1>5 DEF Upsert
<1>7. KeysOK'
  <2>1. connections' \in [Users -> SUBSET Nat] /\ accepted' \subseteq Nat
    BY <1>1, <1>5, <1>6, Facts DEF KeysOK
  <2>2. ASSUME NEW u \in Users PROVE connections'[u] = {} \/ \E k \in accepted' : connections'[u] = {k}
    BY <1>1, <1>5, <1>6 DEF KeysOK
  <2> QED BY <2>1, <2>2 DEF KeysOK
<1>8. \A id : Known(id) => Known(id)'
  BY <1>1, <1>2, <1>3, ResourceAssumption DEF Known, RowIds
<1>9. RowsOK'
  BY <1>1, <1>8 DEF RowsOK
<1>10. AddsOnly(r)
  BY <1>1, <1>5, <1>6 DEF AddsOnly, KeysOK
<1> QED BY <1>1, <1>2, <1>4, <1>7, <1>9, <1>10, StepOfWriter

\* New rows, of the request's name and its user's root, below a row that is there.
LEMMA Inserting ==
    ASSUME DbOK, NEW r \in Requests, Open(r), request[r].op # "state",
           NEW new \in SUBSET RowType,
           \A x \in new : x.id[1] = r /\ x.root = request[r].user,
           \A a, b \in new : a.id = b.id => a = b,
           \A x \in new :
              IF x.level = Project THEN x.parent = x.root
              ELSE /\ x.parent \in RowIds
                   /\ \E p \in rows : p.id = x.parent /\ p.level = x.level - 1 /\ p.root = x.root,
           rows' = rows \cup new, UNCHANGED <<connections, accepted>>, Reads(r, new, "ok")
    PROVE  DbOK'
<1> DEFINE q == request[r]
           rec == [q EXCEPT !.pc = "answered", !.status = "ok", !.read = new]
<1>1. /\ q \in RequestType /\ q.pc # "answered" /\ q.status = "none" /\ RowsOK /\ KeysOK
      /\ Becomes(r, rec) /\ Sound(r, q) /\ r # 0
  BY OpenFacts, Facts DEF Reads
<1>2. /\ rec.op = q.op /\ rec.level = q.level /\ rec.user = q.user /\ rec.target = q.target
      /\ rec.own = q.own /\ rec.status = "ok" /\ rec.found = q.found
      /\ rec.pc = "answered" /\ rec.read = new /\ rec \in RequestType
  BY <1>1 DEF RequestType, Pcs
<1>3. /\ request' = [request EXCEPT ![r] = rec] /\ request \in [Requests -> RequestType]
  BY <1>1, Facts DEF Becomes
<1> HIDE DEF rec
<1>4. Stored(q, rec)
  BY <1>1, <1>2 DEF Stored, Statuses
<1>5. KeysOK'
  BY <1>1 DEF KeysOK
<1>6. \A x \in rows : x.id[1] # r
  BY <1>1 DEF Sound, Clean
<1>7. \A id : Known(id) => Known(id)'
  BY <1>1, <1>2, <1>3, ResourceAssumption DEF Known, RowIds
<1>8. \A x \in new : Known(x.id)' /\ x.id # <<0, 0>>
  BY <1>1, <1>2, <1>3, RowFields DEF Known, RowIds
<1>9. RowsOK'
  <2>1. rows' \subseteq RowType /\ \A x \in rows' : Known(x.id)' /\ x.id # <<0, 0>>
    BY <1>1, <1>7, <1>8 DEF RowsOK
  <2>2. \A a, b \in rows' : a.id = b.id => a = b
    BY <1>1, <1>6 DEF RowsOK
  <2>3. ASSUME NEW x \in rows'
        PROVE  IF x.level = Project THEN x.parent = x.root
               ELSE /\ x.parent \in RowIds
                    /\ \E p \in rows' :
                          p.id = x.parent /\ p.level = x.level - 1 /\ p.root = x.root
    BY <1>1, <2>3 DEF RowsOK
  <2> QED BY <2>1, <2>2, <2>3 DEF RowsOK
<1>10. AddsOnly(r)
  BY <1>1 DEF AddsOnly, KeysOK
<1> QED BY <1>1, <1>2, <1>4, <1>5, <1>9, <1>10, StepOfWriter

\* The row a handler reads the root of.
LEMMA RootOfTarget ==
    ASSUME DbOK, NEW r \in Requests, Open(r), Exists(request[r].target),
           request[r].pc \in {"insert", "storePair"}, request[r].level # Project
    PROVE  LET q == request[r] IN
           /\ (CHOOSE p \in rows : p.id = q.target).root = q.user
           /\ \E p \in rows : p.id = q.target /\ p.level = q.level - 1 /\ p.root = q.user
<1> DEFINE q == request[r]
<1>1. Sound(r, q) /\ q.op # "none" /\ q.op \in {"create", "post"}
  BY OpenFacts, WhoWaits
<1>2. \E p \in rows : p.id = q.target
  BY DEF Exists, Find
<1>3. \A p \in rows : p.id = q.target => p.root = q.user /\ p.level = q.level - 1
  BY <1>1 DEF Sound, OwnTarget, OnItsRoute, TargetLevel
<1>4. (CHOOSE p \in rows : p.id = q.target) \in rows
      /\ (CHOOSE p \in rows : p.id = q.target).id = q.target
  BY <1>2
<1> QED BY <1>2, <1>3, <1>4

LEMMA Creating == ASSUME DbOK, NEW r \in Requests, Creates(r) PROVE DbOK'
<1> DEFINE q == request[r]
           parent == IF q.level = Project THEN q.user ELSE q.target
           root == IF q.level = Project THEN q.user
                   ELSE (CHOOSE p \in rows : p.id = q.target).root
<1>1. /\ q.pc = "insert" /\ Open(r) /\ q.op = "create" /\ UNCHANGED <<connections, accepted>>
      /\ q.user \in Users /\ q.target \in RowIds /\ q.level \in Levels
      /\ (q.level = Project \/ Exists(q.target))
  <2>1. q.pc = "insert" /\ Open(r) /\ q.op = "create"
    BY WhoWaits DEF Creates, Open
  <2>2. [op |-> q.op, level |-> q.level] \in Routes /\ q.user \in Users /\ q.target \in RowIds
    BY <2>1, OpenFacts
  <2> QED BY <2>1, <2>2 DEF Creates, Routes
<1>2. /\ root = q.user
      /\ q.level # Project =>
            \E p \in rows : p.id = q.target /\ p.level = q.level - 1 /\ p.root = q.user
  BY <1>1, RootOfTarget
<1>3. PICK t \in Texts : /\ Insert({Row(<<r, 1>>, q.level, parent, t, root)})
                         /\ Reads(r, {Row(<<r, 1>>, q.level, parent, t, root)}, "ok")
  BY DEF Creates
<1> DEFINE x == Row(<<r, 1>>, q.level, parent, t, root)
<1>4. x \in RowType /\ x.id[1] = r /\ x.root = q.user /\ x.level = q.level /\ x.parent = parent
  <2>1. root \in Users
    BY <1>1, <1>2
  <2>2. parent \in RowIds \cup Users
    BY <1>1
  <2>3. q.level \in Levels /\ root = q.user
    BY <1>1, <1>2
  <2> HIDE DEF parent, root, q
  <2>4. <<r, 1>> \in RowIds
    BY DEF RowIds
  <2> QED BY <2>1, <2>2, <2>3, <2>4 DEF Row, RowType
<1>5. rows' = rows \cup {x} /\ Reads(r, {x}, "ok")
  BY <1>3 DEF Insert
<1> HIDE DEF x, root
<1> QED BY <1>1, <1>2, <1>4, <1>5, Inserting

LEMMA StoringPair == ASSUME DbOK, NEW r \in Requests, StoresPair(r) PROVE DbOK'
<1> DEFINE q == request[r]
           root == (CHOOSE w \in rows : w.id = q.target).root
<1>1. /\ q.pc = "storePair" /\ Open(r) /\ q.op = "post" /\ UNCHANGED <<connections, accepted>>
      /\ q.user \in Users /\ q.target \in RowIds /\ q.level = Message
      /\ Exists(q.target)
  <2>1. q.pc = "storePair" /\ Open(r) /\ q.op = "post"
    BY WhoWaits DEF StoresPair, Open
  <2>2. [op |-> q.op, level |-> q.level] \in Routes /\ q.user \in Users /\ q.target \in RowIds
    BY <2>1, OpenFacts
  <2> QED BY <2>1, <2>2 DEF StoresPair, Routes
<1>2. /\ root = q.user
      /\ \E p \in rows : p.id = q.target /\ p.level = q.level - 1 /\ p.root = q.user
  BY <1>1, RootOfTarget DEF Message, Project
<1>3. PICK t \in Texts :
         /\ Insert({Row(<<r, n>>, Message, q.target, t, root) : n \in {1, 2}})
         /\ Reads(r, {Row(<<r, n>>, Message, q.target, t, root) : n \in {1, 2}}, "ok")
  BY DEF StoresPair
<1> DEFINE pair == {Row(<<r, n>>, Message, q.target, t, root) : n \in {1, 2}}
<1>4. \A x \in pair : /\ x \in RowType /\ x.id[1] = r /\ x.root = q.user
                      /\ x.level = Message /\ x.parent = q.target
  BY <1>1, <1>2 DEF Row, RowType, RowIds, Levels, Message, Project
<1>5. \A a, b \in pair : a.id = b.id => a = b
  BY DEF Row
<1>6. rows' = rows \cup pair /\ Reads(r, pair, "ok")
  BY <1>3 DEF Insert
<1> HIDE DEF pair, root
<1>7. Message # Project
  BY DEF Message, Project
<1> QED BY <1>1, <1>2, <1>4, <1>5, <1>6, <1>7, Inserting

\* The rows a change or a deletion hits are the user's.
LEMMA HitIsOwn ==
    ASSUME DbOK, NEW r \in Requests, Open(r), request[r].pc \in {"patch", "delete"},
           NEW x \in Find(request[r].target),
           request[r].level > Project \/ x.parent = request[r].user
    PROVE  /\ x \in rows /\ x.id = request[r].target
           /\ \A p \in rows : p.id = request[r].target => p.root = request[r].user
<1> DEFINE q == request[r]
<1>1. Sound(r, q) /\ RowsOK /\ q.op = q.pc /\ q.op # "none" /\ q.user \in Users
  BY OpenFacts, Facts, WhoWaits
<1>2. x \in rows /\ x.id = q.target /\ \A p \in rows : p.id = q.target => p = x
  BY <1>1 DEF Find, RowsOK
<1>3. CASE q.level = Project
  <2>1. x.level = Project /\ x.parent = q.user
    BY <1>1, <1>2, <1>3 DEF Sound, OnItsRoute, TargetLevel, Project
  <2> QED BY <1>1, <1>2, <2>1 DEF RowsOK
<1>4. CASE q.level # Project
  BY <1>1, <1>2, <1>4 DEF Sound, OwnTarget
<1> QED BY <1>2, <1>3, <1>4

\* A change keeps of every row all but its text.
LEMMA UpdateKeeps ==
    ASSUME RowsOK, NEW id, NEW t \in Texts, Update(id, t)
    PROVE  /\ rows' \subseteq RowType
           /\ \A x \in rows' : \E y \in rows :
                 /\ y.id = x.id /\ y.level = x.level /\ y.parent = x.parent /\ y.root = x.root
                 /\ (x.id # id => x = y) /\ (x.id = id => x = [y EXCEPT !.text = t])
           /\ \A y \in rows : \E x \in rows' :
                 /\ y.id = x.id /\ y.level = x.level /\ y.parent = x.parent /\ y.root = x.root
<1> DEFINE Changed(y) == IF y.id = id THEN [y EXCEPT !.text = t] ELSE y
<1>1. rows' = {Changed(y) : y \in rows}
  BY DEF Update
<1>2. ASSUME NEW y \in rows
      PROVE  /\ Changed(y) \in RowType
             /\ Changed(y).id = y.id /\ Changed(y).level = y.level
             /\ Changed(y).parent = y.parent /\ Changed(y).root = y.root
             /\ (y.id # id => Changed(y) = y) /\ (y.id = id => Changed(y) = [y EXCEPT !.text = t])
  BY DEF RowsOK, RowType
<1> HIDE DEF Changed
<1> QED BY <1>1, <1>2

\* Nothing is known less when a request that was not answered goes on.
LEMMA StillKnown ==
    ASSUME DbOK, NEW r \in Requests, Open(r), NEW rec, Becomes(r, rec), NEW id, Known(id)
    PROVE  Known(id)'
<1>1. request \in [Requests -> RequestType] /\ request[r].pc # "answered"
  BY Facts, OpenFacts
<1>2. \A s \in Requests \ {r} : request'[s] = request[s]
  BY <1>1 DEF Becomes
<1> QED BY <1>1, <1>2, ResourceAssumption DEF Known, RowIds

LEMMA Patching == ASSUME DbOK, NEW r \in Requests, Patches(r) PROVE DbOK'
<1> DEFINE q == request[r]
           hit == {row \in Find(q.target) : q.level > Project \/ row.parent = q.user}
<1>1. /\ q.pc = "patch" /\ Open(r) /\ q.op = "patch" /\ q \in RequestType /\ Sound(r, q)
      /\ RowsOK /\ KeysOK /\ accepted' = accepted /\ accepted' \subseteq Nat
      /\ q.status = "none" /\ q.pc # "answered"
  <2>1. q.pc = "patch" /\ Open(r) /\ accepted' = accepted
    BY DEF Patches, Open
  <2> QED BY <2>1, WhoWaits, OpenFacts, Facts DEF KeysOK
<1>2. CASE Answers(r, "missing") /\ UNCHANGED tables
  BY <1>1, <1>2, AnsweringOnly DEF Statuses
<1>3. ASSUME NEW row \in hit, NEW t \in Texts, Update(q.target, t), UNCHANGED connections,
             NEW rec, Becomes(r, rec),
             \/ rec = [q EXCEPT !.pc = "windowIds", !.read = {[row EXCEPT !.text = t]}]
             \/ rec = [q EXCEPT !.pc = "answered", !.status = "ok",
                                !.read = {[row EXCEPT !.text = t]}]
      PROVE  DbOK'
  <2> DEFINE x == [row EXCEPT !.text = t]
  <2>1. /\ row \in rows /\ row.id = q.target /\ row.root = q.user /\ row \in RowType
        /\ \A p \in rows : p.id = q.target => p.root = q.user
    BY <1>1, <1>3, HitIsOwn DEF RowsOK
  <2>2. x \in RowType /\ x.id = row.id /\ x.root = row.root
    BY <2>1 DEF RowType
  <2> HIDE DEF x
  <2>3. \/ rec = [q EXCEPT !.pc = "windowIds", !.read = {x}]
        \/ rec = [q EXCEPT !.pc = "answered", !.status = "ok", !.read = {x}]
    BY <1>3 DEF x
  <2>4. /\ rec.op = q.op /\ rec.level = q.level /\ rec.user = q.user /\ rec.target = q.target
        /\ rec.own = q.own /\ rec.found = q.found /\ rec.read = {x} /\ rec \in RequestType
        /\ \/ rec.pc = "answered" /\ rec.status = "ok"
           \/ rec.pc = "windowIds" /\ rec.status = "none"
    <3>1. CASE rec = [q EXCEPT !.pc = "windowIds", !.read = {x}]
      BY <1>1, <2>2, <3>1 DEF RequestType, Pcs
    <3>2. CASE rec = [q EXCEPT !.pc = "answered", !.status = "ok", !.read = {x}]
      BY <1>1, <2>2, <3>2 DEF RequestType, Pcs
    <3> QED BY <2>3, <3>1, <3>2
  <2>5. Stored(q, rec)
    BY <1>1, <2>1, <2>2, <2>4 DEF Stored, Statuses
  <2>6. /\ rows' \subseteq RowType
        /\ \A z \in rows' : \E y \in rows :
              /\ y.id = z.id /\ y.level = z.level /\ y.parent = z.parent /\ y.root = z.root
              /\ (z.id # q.target => z = y) /\ (z.id = q.target => z = [y EXCEPT !.text = t])
        /\ \A y \in rows : \E z \in rows' :
              /\ y.id = z.id /\ y.level = z.level /\ y.parent = z.parent /\ y.root = z.root
    BY <1>1, <1>3, UpdateKeeps
  <2>7. RowsOK'
    <3>1. \A a, b \in rows' : a.id = b.id => a = b
      <4> SUFFICES ASSUME NEW a \in rows', NEW b \in rows', a.id = b.id PROVE a = b
        OBVIOUS
      <4>1. PICK c \in rows : c.id = a.id /\ (a.id # q.target => a = c)
                              /\ (a.id = q.target => a = [c EXCEPT !.text = t])
        BY <2>6
      <4>2. PICK d \in rows : d.id = b.id /\ (b.id # q.target => b = d)
                              /\ (b.id = q.target => b = [d EXCEPT !.text = t])
        BY <2>6
      <4>3. c = d
        BY <1>1, <4>1, <4>2 DEF RowsOK
      <4> QED BY <4>1, <4>2, <4>3
    <3>2. \A z \in rows' : Known(z.id)' /\ z.id # <<0, 0>>
      BY <1>1, <1>3, <2>6, StillKnown DEF RowsOK
    <3>3. ASSUME NEW z \in rows'
          PROVE  IF z.level = Project THEN z.parent = z.root
                 ELSE /\ z.parent \in RowIds
                      /\ \E p \in rows' :
                            p.id = z.parent /\ p.level = z.level - 1 /\ p.root = z.root
      <4>1. PICK y \in rows : /\ y.level = z.level /\ y.parent = z.parent /\ y.root = z.root
        BY <2>6
      <4>2. CASE y.level = Project
        BY <1>1, <4>1, <4>2 DEF RowsOK
      <4>3. CASE y.level # Project
        <5>1. y.parent \in RowIds
              /\ \E p \in rows : p.id = y.parent /\ p.level = y.level - 1 /\ p.root = y.root
          BY <1>1, <4>3 DEF RowsOK
        <5>2. \E p \in rows' : p.id = y.parent /\ p.level = y.level - 1 /\ p.root = y.root
          BY <2>6, <5>1
        <5> QED BY <4>1, <4>3, <5>1, <5>2
      <4> QED BY <4>2, <4>3
    <3> QED BY <2>6, <3>1, <3>2, <3>3 DEF RowsOK
  <2>8. KeysOK'
    BY <1>1, <1>3 DEF KeysOK
  <2>9. AddsOnly(r)
    BY <1>1, <1>3, <2>6 DEF AddsOnly, KeysOK
  <2>10. rec.status # "ok" => /\ \A z \in rows' : z.id[1] # r
                              /\ \A u \in Users : r \notin connections'[u]
    BY <1>1, <1>3, <2>6 DEF Sound, Clean
  <2>11. \A z \in rec.read \cup rec.found :
            Known(z.id) /\ \A p \in rows : p.id = z.id => p.root = z.root
    BY <1>1, <2>1, <2>2, <2>4 DEF Sound, OwnRead, RowsOK
  <2> QED BY <1>1, <1>3, <2>5, <2>7, <2>8, <2>9, <2>10, <2>11, StepOfWriter
<1>4. CASE \E row \in hit, t \in Texts :
              /\ Update(q.target, t) /\ UNCHANGED connections
              /\ IF q.level = Workspace
                 THEN Becomes(r, [q EXCEPT !.pc = "windowIds", !.read = {[row EXCEPT !.text = t]}])
                 ELSE Reads(r, {[row EXCEPT !.text = t]}, "ok")
  <2>1. PICK row \in hit, t \in Texts :
           /\ Update(q.target, t) /\ UNCHANGED connections
           /\ IF q.level = Workspace
              THEN Becomes(r, [q EXCEPT !.pc = "windowIds", !.read = {[row EXCEPT !.text = t]}])
              ELSE Reads(r, {[row EXCEPT !.text = t]}, "ok")
    BY <1>4
  <2> DEFINE on == [q EXCEPT !.pc = "windowIds", !.read = {[row EXCEPT !.text = t]}]
             ok == [q EXCEPT !.pc = "answered", !.status = "ok",
                             !.read = {[row EXCEPT !.text = t]}]
  <2>2. Becomes(r, on) \/ Becomes(r, ok)
    BY <2>1 DEF Reads
  <2> QED BY <1>3, <2>1, <2>2, Zenon
<1>5. \/ Answers(r, "missing") /\ UNCHANGED tables
      \/ \E row \in hit, t \in Texts :
            /\ Update(q.target, t) /\ UNCHANGED connections
            /\ IF q.level = Workspace
               THEN Becomes(r, [q EXCEPT !.pc = "windowIds", !.read = {[row EXCEPT !.text = t]}])
               ELSE Reads(r, {[row EXCEPT !.text = t]}, "ok")
  BY Zenon DEF Patches
<1> QED BY <1>2, <1>4, <1>5

-----------------------------------------------------------------------------
(* What a deletion takes with it.                                          *)

Down(s) == s \cup {row.id : row \in {x \in rows : x.parent \in s}}

LEMMA BelowIsDown == \A ids : Below(ids) = Down(Down(Down(ids)))
BY DEF Below, Down

\* A step down from names of rows: the rows that are new to it hang below them.
LEMMA DownFacts ==
    ASSUME RowsOK, NEW s, s \subseteq RowIds
    PROVE  /\ s \subseteq Down(s) /\ Down(s) \subseteq RowIds
           /\ \A x \in rows : x.id \in Down(s) /\ x.id \notin s => x.parent \in s
           /\ \A x \in rows : x.parent \in s => x.id \in Down(s)
<1>1. \A x \in rows : x.id \in RowIds
  BY RowFields DEF RowsOK
<1>2. s \subseteq Down(s) /\ Down(s) \subseteq RowIds
  BY <1>1 DEF Down
<1>3. ASSUME NEW x \in rows, x.id \in Down(s), x.id \notin s PROVE x.parent \in s
  <2>1. PICK y \in rows : y.id = x.id /\ y.parent \in s
    BY <1>3 DEF Down
  <2> QED BY <2>1 DEF RowsOK
<1>4. \A x \in rows : x.parent \in s => x.id \in Down(s)
  BY DEF Down
<1> QED BY <1>2, <1>3, <1>4

\* If the rows named are a user's, so are the ones below.
LEMMA DownIsOwn ==
    ASSUME RowsOK, NEW s, s \subseteq RowIds, NEW u, \A x \in rows : x.id \in s => x.root = u
    PROVE  \A x \in rows : x.id \in Down(s) => x.root = u
<1> SUFFICES ASSUME NEW x \in rows, x.id \in Down(s), x.id \notin s PROVE x.root = u
  OBVIOUS
<1>1. x.parent \in s
  BY DownFacts
<1>2. x.parent \in RowIds
  BY <1>1
<1>3. PICK p \in rows : p.id = x.parent /\ p.root = x.root
  BY <1>2, ChildHasParent
<1> QED BY <1>1, <1>3

LEMMA BelowIsOwn ==
    ASSUME RowsOK, NEW id \in RowIds, NEW u, \A x \in rows : x.id = id => x.root = u
    PROVE  \A x \in rows : x.id \in Below({id}) => x.root = u
<1>1. {id} \subseteq RowIds /\ \A x \in rows : x.id \in {id} => x.root = u
  OBVIOUS
<1>2. Down({id}) \subseteq RowIds /\ \A x \in rows : x.id \in Down({id}) => x.root = u
  BY <1>1, DownFacts, DownIsOwn
<1>3. /\ Down(Down({id})) \subseteq RowIds
      /\ \A x \in rows : x.id \in Down(Down({id})) => x.root = u
  BY <1>2, DownFacts, DownIsOwn
<1>4. \A x \in rows : x.id \in Down(Down(Down({id}))) => x.root = u
  BY <1>3, DownIsOwn
<1> QED BY <1>4, BelowIsDown

\* The tree has four levels, so three steps down reach all of it: what hangs below
\* a row that is taken is taken.
LEMMA BelowIsClosed ==
    ASSUME RowsOK, NEW id \in RowIds, NEW x \in rows, x.parent \in Below({id})
    PROVE  x.id \in Below({id})
<1> DEFINE one == Down({id})
           two == Down(one)
           three == Down(two)
<1>1. {id} \subseteq RowIds /\ one \subseteq RowIds /\ two \subseteq RowIds /\ three \subseteq RowIds
      /\ {id} \subseteq one /\ one \subseteq two /\ two \subseteq three
  <2>1. {id} \subseteq RowIds
    OBVIOUS
  <2>2. {id} \subseteq one /\ one \subseteq RowIds
    BY <2>1, DownFacts
  <2> HIDE DEF one
  <2>3. one \subseteq two /\ two \subseteq RowIds
    BY <2>2, DownFacts
  <2> HIDE DEF two
  <2>4. two \subseteq three /\ three \subseteq RowIds
    BY <2>3, DownFacts
  <2> QED BY <2>1, <2>2, <2>3, <2>4
<1>2. Below({id}) = three
  BY BelowIsDown
<1>3. \A y \in rows : y.level \in 1..4
  BY RowFields DEF RowsOK
<1>4. ASSUME NEW y \in rows, y.id \in one, y.id \notin {id} PROVE y.level >= 2
  <2>1. y.parent \in RowIds
    BY <1>1, <1>4, DownFacts
  <2> QED BY <1>3, <2>1, ChildHasParent DEF Project
<1> HIDE DEF one
<1>5. ASSUME NEW y \in rows, y.id \in two, y.id \notin one PROVE y.level >= 3
  <2>1. y.parent \in one /\ y.parent \in RowIds /\ y.parent \notin {id}
    <3>1. y.parent \in one
      BY <1>1, <1>5, DownFacts
    <3>2. y.parent \in {id} => y.id \in one
      BY DEF one, Down
    <3> QED BY <1>1, <1>5, <3>1, <3>2
  <2>2. PICK p \in rows : p.id = y.parent /\ p.level = y.level - 1
    BY <2>1, ChildHasParent
  <2> QED BY <1>3, <1>4, <2>1, <2>2
<1>6. \A y \in rows : y.parent \in one => y.id \in two
  BY <1>1, DownFacts
<1> HIDE DEF two
<1>7. ASSUME NEW y \in rows, y.id \in three, y.id \notin two PROVE y.level >= 4
  <2>1. y.parent \in two /\ y.parent \in RowIds /\ y.parent \notin one
    BY <1>1, <1>6, <1>7, DownFacts
  <2>2. PICK p \in rows : p.id = y.parent /\ p.level = y.level - 1
    BY <2>1, ChildHasParent
  <2> QED BY <1>3, <1>5, <2>1, <2>2
<1>8. \A y \in rows : y.parent \in two => y.id \in three
  BY <1>1, DownFacts
<1> HIDE DEF three
<1>9. x.parent \in two
  <2> SUFFICES ASSUME x.parent \notin two PROVE FALSE
    OBVIOUS
  <2>1. x.parent \in three /\ x.parent \in RowIds
    BY <1>1, <1>2
  <2>2. PICK p \in rows : p.id = x.parent /\ p.level = x.level - 1
    BY <2>1, ChildHasParent
  <2> QED BY <1>3, <1>7, <2>1, <2>2
<1> QED BY <1>2, <1>8, <1>9

LEMMA Deleting == ASSUME DbOK, NEW r \in Requests, Deletes(r) PROVE DbOK'
<1> DEFINE q == request[r]
           hit == {row \in Find(q.target) : q.level > Project \/ row.parent = q.user}
           rec == [q EXCEPT !.pc = "answered", !.status = "ok"]
<1>1. /\ q.pc = "delete" /\ Open(r) /\ q.op = "delete" /\ q \in RequestType /\ q.target \in RowIds
      /\ RowsOK /\ KeysOK /\ accepted' = accepted /\ accepted' \subseteq Nat
      /\ Answerable(q, q.read)
  <2>1. q.pc = "delete" /\ Open(r) /\ accepted' = accepted
    BY DEF Deletes, Open
  <2> QED BY <2>1, WhoWaits, OpenFacts, Facts DEF KeysOK
<1>2. CASE Answers(r, "missing") /\ UNCHANGED tables
  BY <1>1, <1>2, AnsweringOnly DEF Statuses
<1>3. CASE UNCHANGED <<rows, connections>> /\ Answers(r, "ok")
  BY <1>1, <1>3, AnsweringOnly DEF Statuses, tables
<1>4. CASE Delete(q.target) /\ UNCHANGED connections /\ Answers(r, "ok")
  <2>1. rows' = {row \in rows : row.id \notin Below({q.target})} /\ Becomes(r, rec)
    BY <1>4 DEF Delete, Answers
  <2>2. /\ rec.op = q.op /\ rec.level = q.level /\ rec.user = q.user /\ rec.target = q.target
        /\ rec.own = q.own /\ rec.status = "ok" /\ rec.found = q.found
        /\ rec.pc = "answered" /\ rec.read = q.read /\ rec \in RequestType
    BY <1>1 DEF RequestType, Pcs
  <2> HIDE DEF rec
  <2>3. Stored(q, rec)
    BY <1>1, <2>2 DEF Stored, Answerable, Statuses
  <2>4. RowsOK'
    <3>1. \A x \in rows' : Known(x.id)' /\ x.id # <<0, 0>>
      BY <1>1, <2>1, StillKnown DEF RowsOK
    <3>2. ASSUME NEW x \in rows'
          PROVE  IF x.level = Project THEN x.parent = x.root
                 ELSE /\ x.parent \in RowIds
                      /\ \E p \in rows' :
                            p.id = x.parent /\ p.level = x.level - 1 /\ p.root = x.root
      <4>1. x \in rows /\ x.id \notin Below({q.target})
        BY <2>1
      <4>2. x.parent \notin Below({q.target})
        BY <1>1, <4>1, BelowIsClosed
      <4> QED BY <1>1, <2>1, <4>1, <4>2 DEF RowsOK
    <3> QED BY <1>1, <2>1, <3>1, <3>2 DEF RowsOK
  <2>5. KeysOK'
    BY <1>1, <1>4 DEF KeysOK
  <2>6. AddsOnly(r)
    BY <1>1, <1>4, <2>1 DEF AddsOnly, KeysOK
  <2> QED BY <1>1, <2>1, <2>2, <2>3, <2>4, <2>5, <2>6, StepOfWriter
<1>5. \/ Answers(r, "missing") /\ UNCHANGED tables
      \/ UNCHANGED <<rows, connections>> /\ Answers(r, "ok")
      \/ Delete(q.target) /\ UNCHANGED connections /\ Answers(r, "ok")
  BY Zenon DEF Deletes
<1> QED BY <1>2, <1>3, <1>4, <1>5

-----------------------------------------------------------------------------
(* Who writes.                                                             *)

\* The step of a request changes what its user has, sent from an allowed origin.
WritesOwn(r) ==
    /\ \A row \in (rows \ rows') \cup (rows' \ rows) :
          row.root = request[r].user /\ request[r].own
    /\ \A u \in Users : connections'[u] # connections[u] => u = request[r].user /\ request[r].own
    /\ request[r].pc # request'[r].pc

\* A request at a query that writes was let in as one that may.
LEMMA WriterIsLetIn ==
    ASSUME DbOK, NEW r \in Requests,
           request[r].pc \in {"insert", "storePair", "patch", "delete", "upsert", "disconnect"}
    PROVE  /\ Open(r) /\ request[r].own /\ request[r].user \in Users
           /\ request[r].target \in RowIds /\ Sound(r, request[r])
           /\ \A st : Answers(r, st) => request[r].pc # request'[r].pc
           /\ \A st, read : Reads(r, read, st) => request[r].pc # request'[r].pc
<1> DEFINE q == request[r]
<1>1. Open(r)
  BY DEF Open
<1>2. q.op \notin Safe /\ q.op # "none" /\ Sound(r, q)
  BY <1>1, WhoWaits, OpenFacts DEF Safe
<1>3. q.own
  BY <1>2 DEF Sound, OnItsRoute
<1>4. q \in RequestType /\ request \in [Requests -> RequestType]
  BY Facts
<1>5. ASSUME NEW st, Answers(r, st) PROVE request[r].pc # request'[r].pc
  BY <1>4, <1>5 DEF Answers, Becomes, RequestType
<1>6. ASSUME NEW st, NEW read, Reads(r, read, st) PROVE request[r].pc # request'[r].pc
  BY <1>4, <1>6 DEF Reads, Becomes, RequestType
<1> QED BY <1>1, <1>2, <1>3, <1>5, <1>6, OpenFacts

LEMMA InsertsOwn ==
    ASSUME DbOK, NEW r \in Requests, Creates(r) \/ StoresPair(r)
    PROVE  WritesOwn(r)
<1> DEFINE q == request[r]
<1>1. q.pc \in {"insert", "storePair"} /\ connections' = connections
  BY DEF Creates, StoresPair
<1>2. /\ Open(r) /\ q.own
      /\ \A st, read : Reads(r, read, st) => request[r].pc # request'[r].pc
  BY <1>1, WriterIsLetIn
<1>3. CASE Creates(r)
  <2> DEFINE parent == IF q.level = Project THEN q.user ELSE q.target
             root == IF q.level = Project THEN q.user
                     ELSE (CHOOSE p \in rows : p.id = q.target).root
  <2>1. root = q.user
    BY <1>1, <1>2, <1>3, RootOfTarget DEF Creates
  <2>2. PICK t \in Texts : /\ rows' = rows \cup {Row(<<r, 1>>, q.level, parent, t, root)}
                           /\ Reads(r, {Row(<<r, 1>>, q.level, parent, t, root)}, "ok")
    BY <1>3 DEF Creates, Insert
  <2>3. Row(<<r, 1>>, q.level, parent, t, root).root = q.user
    BY <2>1 DEF Row
  <2> QED BY <1>1, <1>2, <2>2, <2>3 DEF WritesOwn
<1>4. CASE StoresPair(r)
  <2> DEFINE root == (CHOOSE w \in rows : w.id = q.target).root
             pair(t) == {Row(<<r, n>>, Message, q.target, t, root) : n \in {1, 2}}
  <2>1. root = q.user
    <3>1. q.pc = "storePair" /\ Exists(q.target)
      BY <1>4 DEF StoresPair
    <3>2. q.level # Project
      BY <1>2, <3>1, WhoWaits, OpenFacts DEF Routes, Project, Message
    <3> QED BY <1>1, <1>2, <3>1, <3>2, RootOfTarget
  <2>2. PICK t \in Texts : rows' = rows \cup pair(t) /\ Reads(r, pair(t), "ok")
    BY <1>4 DEF StoresPair, Insert
  <2>3. \A x \in pair(t) : x.root = q.user
    BY <2>1 DEF Row
  <2> HIDE DEF pair
  <2> QED BY <1>1, <1>2, <2>2, <2>3 DEF WritesOwn
<1> QED BY <1>3, <1>4

LEMMA ChangesOwn ==
    ASSUME DbOK, NEW r \in Requests, Patches(r) \/ Deletes(r)
    PROVE  WritesOwn(r)
<1> DEFINE q == request[r]
           hit == {row \in Find(q.target) : q.level > Project \/ row.parent = q.user}
<1>1. q.pc \in {"patch", "delete"} /\ connections' = connections
  BY Zenon DEF Patches, Deletes, tables
<1>2. /\ Open(r) /\ q.own /\ q.target \in RowIds
      /\ \A st : Answers(r, st) => request[r].pc # request'[r].pc
      /\ \A st, read : Reads(r, read, st) => request[r].pc # request'[r].pc
      /\ q \in RequestType /\ request \in [Requests -> RequestType] /\ RowsOK
  BY <1>1, WriterIsLetIn, Facts
<1>3. ASSUME NEW x \in hit PROVE \A p \in rows : p.id = q.target => p.root = q.user
  BY <1>1, <1>2, <1>3, HitIsOwn
<1>4. CASE rows' = rows
  <2>1. request[r].pc # request'[r].pc
    <3>1. \/ \E st : Answers(r, st)
          \/ \E st, read : Reads(r, read, st)
          \/ \E read : Becomes(r, [q EXCEPT !.pc = "windowIds", !.read = read])
      BY Zenon DEF Patches, Deletes
    <3>2. ASSUME NEW read, Becomes(r, [q EXCEPT !.pc = "windowIds", !.read = read])
          PROVE  request[r].pc # request'[r].pc
      BY <1>1, <1>2, <3>2 DEF Becomes, RequestType
    <3> QED BY <1>2, <3>1, <3>2
  <2> QED BY <1>1, <1>4, <2>1 DEF WritesOwn
<1>5. CASE Patches(r) /\ rows' # rows
  <2>1. PICK row \in hit, t \in Texts :
           /\ Update(q.target, t)
           /\ IF q.level = Workspace
              THEN Becomes(r, [q EXCEPT !.pc = "windowIds", !.read = {[row EXCEPT !.text = t]}])
              ELSE Reads(r, {[row EXCEPT !.text = t]}, "ok")
    BY <1>5, Zenon DEF Patches, tables
  <2>2. request[r].pc # request'[r].pc
    <3>1. CASE Becomes(r, [q EXCEPT !.pc = "windowIds", !.read = {[row EXCEPT !.text = t]}])
      <4> DEFINE read == {[row EXCEPT !.text = t]}
      <4>1. Becomes(r, [q EXCEPT !.pc = "windowIds", !.read = read])
        BY <3>1
      <4> HIDE DEF read
      <4> QED BY <1>1, <1>2, <4>1 DEF Becomes, RequestType
    <3>2. CASE Reads(r, {[row EXCEPT !.text = t]}, "ok")
      BY <1>2, <3>2
    <3> QED BY <2>1, <3>1, <3>2
  <2>3. \A p \in rows : p.id = q.target => p.root = q.user
    BY <1>3
  <2>4. \A x \in rows' : \E y \in rows :
           y.id = x.id /\ y.root = x.root /\ (x.id # q.target => x = y)
    BY <1>2, <2>1, UpdateKeeps
  <2>5. \A y \in rows : y.id # q.target => y \in rows'
    BY <2>1 DEF Update
  <2>6. \A x \in (rows \ rows') \cup (rows' \ rows) : x.root = q.user
    BY <2>3, <2>4, <2>5
  <2> QED BY <1>1, <1>2, <2>2, <2>6 DEF WritesOwn
<1>6. CASE Deletes(r) /\ rows' # rows
  <2>1. Delete(q.target) /\ Answers(r, "ok") /\ hit # {}
    BY <1>6, Zenon DEF Deletes, tables
  <2>2. \A p \in rows : p.id = q.target => p.root = q.user
    BY <1>3, <2>1
  <2>3. \A x \in rows : x.id \in Below({q.target}) => x.root = q.user
    BY <1>2, <2>2, BelowIsOwn
  <2>4. \A x \in (rows \ rows') \cup (rows' \ rows) : x.root = q.user
    BY <2>1, <2>3 DEF Delete
  <2> QED BY <1>1, <1>2, <2>1, <2>4 DEF WritesOwn
<1> QED BY <1>4, <1>5, <1>6

LEMMA ConnectsOwn ==
    ASSUME DbOK, NEW r \in Requests, Upserts(r) \/ Disconnects(r)
    PROVE  WritesOwn(r)
<1> DEFINE q == request[r]
<1>1. /\ q.pc \in {"upsert", "disconnect"} /\ rows' = rows /\ Answers(r, "ok")
      /\ connections' = [connections EXCEPT ![q.user] = {r}]
         \/ connections' = [connections EXCEPT ![q.user] = {}]
  BY DEF Upserts, Disconnects, Upsert
<1>2. q.own /\ request[r].pc # request'[r].pc
  BY <1>1, WriterIsLetIn
<1>3. connections \in [Users -> SUBSET Nat]
  BY Facts DEF KeysOK
<1> QED BY <1>1, <1>2, <1>3 DEF WritesOwn

\* Every other step leaves the tables alone.
LEMMA Writers ==
    ASSUME DbOK, NEW r \in Requests, HandlerStep(r)
    PROVE  WritesOwn(r) \/ UNCHANGED tables
<1>1. CASE \/ Receives(r) \/ Authenticates(r) \/ ReadsBody(r) \/ Fails(r) \/ Walks(r)
           \/ Selects(r) \/ Gets(r) \/ ReadsWindowIds(r) \/ GetsKey(r) \/ ReadsHistory(r)
           \/ Generates(r) \/ LoadsState(r) \/ Verifies(r) \/ ReadsConnections(r)
           \/ Tests(r) \/ Pings(r)
  BY <1>1 DEF Receives, Authenticates, ReadsBody, Fails, Walks, Selects, Gets, ReadsWindowIds,
              GetsKey, ReadsHistory, Generates, LoadsState, Verifies, ReadsConnections, Tests,
              Pings, Unwritten
<1>2. CASE Creates(r) \/ StoresPair(r) \/ Patches(r) \/ Deletes(r) \/ Upserts(r) \/ Disconnects(r)
  BY <1>2, InsertsOwn, ChangesOwn, ConnectsOwn
<1> QED BY <1>1, <1>2 DEF HandlerStep

-----------------------------------------------------------------------------
(* The in-memory services.                                                 *)

\* Every handler of the in-memory services keeps the windows entered, and what the
\* last answer showed is as it was.
LEMMA MemoryStep ==
    ASSUME MemoryOK, MemoryNext
    PROVE  MemoryOK'
<1> USE DEF MemoryOK, MemoryInv, WindowsAreEntered, MemoryStateIsClosed
<1>1. CASE CreateProject
  BY <1>1 DEF CreateProject, Fresh
<1>2. CASE CreateWorkspace
  BY <1>2 DEF CreateWorkspace, Fresh, Ids
<1>3. CASE CreateWindow
  BY <1>3 DEF CreateWindow, Fresh, Ids, AppendWindowId
<1>4. CASE CreateMessage
  BY <1>4 DEF CreateMessage, Fresh, Ids
<1>5. CASE PatchProject \/ PatchWorkspace \/ PatchWindow
  BY <1>5 DEF PatchProject, PatchWorkspace, PatchWindow, Renamed
<1>6. CASE DeleteProject \/ DeleteWorkspace \/ DeleteWindow
  BY <1>6 DEF DeleteProject, DeleteWorkspace, DeleteWindow, Without
<1>7. CASE ReadState
  BY <1>7 DEF ReadState, ListWorkspaces, ListChatWindows, ListMessages, Ids
<1>8. CASE DevReset
  BY <1>8 DEF DevReset
<1>9. CASE DevSeed
  BY <1>9, MemoryAssumption DEF DevSeed
<1> QED BY <1>1, <1>2, <1>3, <1>4, <1>5, <1>6, <1>7, <1>8, <1>9 DEF MemoryNext

-----------------------------------------------------------------------------
(* The invariant, from the first state on.                                 *)

LEMMA ApiStart == Init => ApiOK
<1> SUFFICES ASSUME Init PROVE ApiOK
  OBVIOUS
<1> DEFINE u == CHOOSE v \in Users : TRUE
           t == CHOOSE x \in Texts : TRUE
           first == [l \in Levels |->
                       Row(<<0, l>>, l, IF l = Project THEN u ELSE <<0, l - 1>>, t, u)]
<1>1. u \in Users /\ t \in Texts
  BY ResourceAssumption
<1>2. /\ rows = {first[l] : l \in Levels}
      /\ connections = [v \in Users |-> IF v = u THEN {0} ELSE {}]
      /\ request = [r \in Requests |-> Idle] /\ accepted = {0}
  BY DEF Init, ResourceInit, DbInit
<1> HIDE DEF u, t
<1>3. ASSUME NEW l \in Levels
      PROVE  /\ first[l] \in RowType /\ first[l].id = <<0, l>> /\ first[l].level = l
             /\ first[l].root = u
             /\ first[l].parent = IF l = Project THEN u ELSE <<0, l - 1>>
             /\ l \in 1..4
  BY <1>1 DEF Row, RowType, RowIds, Levels, Project, Message
<1> HIDE DEF first
<1>0. ASSUME NEW l \in Levels
      PROVE  /\ first[l].id[1] = 0 /\ first[l].id # <<0, 0>> /\ Known(first[l].id)
             /\ l # Project => first[l].parent \in RowIds
  <2>1. l \in 1..4 /\ first[l].id = <<0, l>>
    BY <1>3
  <2>2. <<0, l>> \in RowIds /\ <<0, l>>[1] = 0 /\ <<0, l>> # <<0, 0>>
    BY <2>1 DEF RowIds
  <2>3. l # Project => <<0, l - 1>> \in RowIds
    BY <2>1 DEF RowIds
  <2> QED BY <1>3, <2>1, <2>2, <2>3 DEF Known
<1>4. RowsOK
  <2>1. rows \subseteq RowType
    BY <1>2, <1>3
  <2>0. ASSUME NEW a \in rows, NEW b \in rows, a.id = b.id PROVE a = b
    <3>1. PICK l \in Levels : a = first[l]
      BY <1>2
    <3>2. PICK m \in Levels : b = first[m]
      BY <1>2
    <3>3. <<0, l>> = <<0, m>>
      BY <1>3, <2>0, <3>1, <3>2
    <3>4. l = m
      BY <3>3
    <3> QED BY <3>1, <3>2, <3>4
  <2>2. \A row \in rows : Known(row.id) /\ row.id # <<0, 0>>
    BY <1>0, <1>2
  <2>3. ASSUME NEW l \in Levels, l # Project
        PROVE  /\ first[l].parent \in RowIds
               /\ first[l - 1] \in rows /\ first[l - 1].id = first[l].parent
               /\ first[l - 1].level = first[l].level - 1 /\ first[l - 1].root = first[l].root
    <3>1. l - 1 \in Levels
      BY <2>3 DEF Levels, Project, Message
    <3>2. first[l - 1] \in rows /\ first[l - 1].id = <<0, l - 1>>
          /\ first[l - 1].level = l - 1 /\ first[l - 1].root = u
      BY <1>2, <1>3, <3>1
    <3> QED BY <1>0, <1>3, <2>3, <3>2
  <2>4. ASSUME NEW row \in rows
        PROVE  IF row.level = Project THEN row.parent = row.root
               ELSE /\ row.parent \in RowIds
                    /\ \E p \in rows :
                          p.id = row.parent /\ p.level = row.level - 1 /\ p.root = row.root
    <3>1. PICK l \in Levels : row = first[l]
      BY <1>2
    <3>2. row.level = l
      BY <1>3, <3>1
    <3>3. CASE l = Project
      BY <1>3, <3>1, <3>2, <3>3
    <3>4. CASE l # Project
      BY <2>3, <3>1, <3>2, <3>4
    <3> QED BY <3>3, <3>4
  <2>5. \A a, b \in rows : a.id = b.id => a = b
    BY <2>0
  <2> QED BY <2>1, <2>2, <2>4, <2>5 DEF RowsOK
<1>5. KeysOK
  BY <1>2 DEF KeysOK
<1>6. ASSUME NEW r \in Requests PROVE Sound(r, Idle)
  <2>1. Idle \in RequestType
    BY DEF Idle, RequestType, Ops, Pcs
  <2>2. OnItsRoute(Idle) /\ OwnTarget(Idle) /\ OnItsWalk(Idle) /\ OwnRead(Idle)
    BY DEF Idle, OnItsRoute, OwnTarget, OnItsWalk, OwnRead
  <2>3. Clean(r, Idle)
    <3>1. r # 0
      BY ResourceAssumption
    <3>2. \A row \in rows : row.id[1] = 0
      BY <1>0, <1>2
    <3>3. \A v \in Users : r \notin connections[v]
      BY <1>2, <3>1
    <3> QED BY <3>1, <3>2, <3>3 DEF Clean
  <2> QED BY <2>1, <2>2, <2>3 DEF Sound
<1>7. DbOK
  <2>1. Idle.pc = "none"
    BY DEF Idle
  <2> QED BY <1>2, <1>4, <1>5, <1>6, <2>1 DEF DbOK, Sound
<1>8. MemoryOK
  BY MemoryAssumption DEF Init, MemoryInit, MemoryOK, MemoryInv, WindowsAreEntered,
     MemoryStateIsClosed, NoAnswer
<1> QED BY <1>7, <1>8 DEF ApiOK

LEMMA DbStep == ASSUME DbOK, ResourceNext PROVE DbOK'
<1>1. ASSUME NEW r \in Requests, HandlerStep(r) PROVE DbOK'
  BY <1>1, Receiving, Entrance, Walking, Selecting, Getting, ReadingWindowIds, Creating, Patching,
     Deleting, GettingKey, ReadingHistory, Generating, StoringPair, LoadingState, OfConnections,
     Connecting DEF HandlerStep
<1> QED BY <1>1, PassingMinute DEF ResourceNext

LEMMA DbStutters == ASSUME DbOK, UNCHANGED apiVars PROVE DbOK'
BY DEF apiVars, tables, DbOK, RowsOK, KeysOK, Sound, OnItsRoute, OwnTarget, OnItsWalk, OwnRead,
       Clean, Known, TargetLevel

LEMMA MemoryStutters == ASSUME MemoryOK, UNCHANGED memoryVars PROVE MemoryOK'
BY DEF memoryVars, MemoryOK, MemoryInv, WindowsAreEntered, MemoryStateIsClosed, Ids

\* What the handlers rely on holds in every state.
THEOREM ApiInvariant == Spec => []ApiOK
<1>1. ApiOK /\ [Next]_<<apiVars, memoryVars, backend>> => ApiOK'
  <2> SUFFICES ASSUME ApiOK, [Next]_<<apiVars, memoryVars, backend>> PROVE ApiOK'
    OBVIOUS
  <2>1. DbOK /\ MemoryOK
    BY DEF ApiOK
  <2>2. (ResourceNext \/ UNCHANGED apiVars) /\ (MemoryNext \/ UNCHANGED memoryVars)
    BY DEF Next
  <2> QED BY <2>1, <2>2, DbStep, DbStutters, MemoryStep, MemoryStutters DEF ApiOK
<1> QED BY <1>1, ApiStart, PTL DEF Spec

\* Whichever backend answers: the tree is whole, answers show the user's own rows,
\* errors store nothing, stored keys were accepted, and the in-memory windows are
\* entered in their workspaces.
THEOREM ApiIsSafe == Spec => []ApiInv
<1>1. ApiOK => ApiInv
  <2> SUFFICES ASSUME ApiOK PROVE ApiInv
    OBVIOUS
  <2>1. RowsOK /\ KeysOK /\ MemoryInv
    BY DEF ApiOK, DbOK, MemoryOK
  <2>2. DbTypeOK
    <3>1. ASSUME NEW u \in Users
          PROVE  connections[u] \subseteq Nat /\ Cardinality(connections[u]) <= 1
      <4>1. CASE connections[u] = {}
        BY <4>1, FS_EmptySet
      <4>2. CASE connections[u] # {}
        <5>1. PICK k \in accepted : connections[u] = {k}
          BY <2>1, <4>2 DEF KeysOK
        <5>2. Cardinality({k}) = 1 /\ k \in Nat
          BY <2>1, FS_Singleton DEF KeysOK
        <5> QED BY <5>1, <5>2
      <4> QED BY <4>1, <4>2
    <3>2. \A row \in rows : row.level \in Levels /\ row.text \in Texts /\ row.root \in Users
      BY <2>1, RowFields DEF RowsOK
    <3> QED BY <2>1, <3>1, <3>2 DEF RowsOK, DbTypeOK
  <2>3. TreeIsWhole
    BY <2>1 DEF RowsOK, TreeIsWhole, Find
  <2>4. ASSUME NEW r \in Requests
        PROVE  /\ request[r].status = "ok" =>
                     /\ \A row \in request[r].read : row.root = request[r].user
                     /\ request[r].op = "state" => \A row \in request[r].read :
                           row.level > Project => \E p \in request[r].read : p.id = row.parent
               /\ request[r].status \notin {"ok", "none"} =>
                     /\ \A row \in rows : row.id[1] # r
                     /\ \A u \in Users : r \notin connections[u]
    <3>1. Sound(r, request[r])
      BY Facts DEF ApiOK
    <3> QED BY <3>1 DEF Sound, OwnRead, Clean
  <2>5. AnswersAreOwn /\ ErrorsStoreNothing
    BY <2>4 DEF AnswersAreOwn, ErrorsStoreNothing
  <2>6. StoredKeysWereAccepted
    BY <2>1 DEF KeysOK, StoredKeysWereAccepted
  <2> QED BY <2>1, <2>2, <2>3, <2>5, <2>6 DEF ApiInv, ResourceInv
<1> QED BY <1>1, ApiInvariant, PTL

\* Whatever happens between the walk that looked for the owner and the query that
\* writes, only a request of the user's, from an allowed origin, makes, changes or
\* removes what is the user's.
THEOREM OwnersWrite == Spec => OnlyTheOwnerWrites
<1> DEFINE A == \E r \in Requests \cup {0} :
                   /\ \A row \in (rows \ rows') \cup (rows' \ rows) :
                         r # 0 /\ row.root = request[r].user /\ request[r].own
                   /\ \A u \in Users : connections'[u] # connections[u] =>
                         r # 0 /\ u = request[r].user /\ request[r].own
                   /\ r # 0 => request[r].pc # request'[r].pc
<1>1. ApiOK /\ [Next]_<<apiVars, memoryVars, backend>> => [A]_apiVars
  <2> SUFFICES ASSUME ApiOK, ResourceNext PROVE A
    BY DEF Next
  <2>1. DbOK
    BY DEF ApiOK
  <2>2. CASE UNCHANGED tables
    BY <2>2 DEF tables
  <2>3. ASSUME NEW r \in Requests, WritesOwn(r) PROVE A
    BY <2>3, ResourceAssumption DEF WritesOwn
  <2>4. CASE MinutePasses
    BY <2>2, <2>4 DEF MinutePasses
  <2>5. ASSUME NEW r \in Requests, HandlerStep(r) PROVE A
    BY <2>1, <2>2, <2>3, <2>5, Writers
  <2> QED BY <2>4, <2>5 DEF ResourceNext
<1> QED BY <1>1, ApiInvariant, PTL DEF Spec, OnlyTheOwnerWrites
=============================================================================
