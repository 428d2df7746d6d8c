------------------------------- MODULE DbStore -------------------------------
(***************************************************************************)
(* The tables a user's work is in, and the queries of the repositories over*)
(* them: projects, their workspaces, their chat windows, their messages,   *)
(* and the provider connections.                                           *)
(*                                                                         *)
(* The four tables are one set of rows: a row's parent is the row its      *)
(* foreign key names, and a project's parent is its user.  Row ids are     *)
(* pairs of the request that inserted the row and a number, so they are    *)
(* fresh as a random UUID is.                                              *)
(***************************************************************************)
EXTENDS Naturals, FiniteSets

CONSTANTS Users, Texts

VARIABLES
    rows,           \* the rows of projects, workspaces, chat_windows, messages
    connections     \* provider_connections: by user, the keys stored, one at most

tables == <<rows, connections>>

Project == 1  Workspace == 2  Window == 3  Message == 4
Levels == Project..Message

\* A row; "root" is history: the user at the top when it was inserted.
Row(id, level, parent, text, root) ==
    [id |-> id, level |-> level, parent |-> parent, text |-> text, root |-> root]

Find(id) == {row \in rows : row.id = id}
Exists(id) == Find(id) # {}
Children(id) == {row \in rows : row.parent = id}

\* What a deletion takes with it: onDelete 'cascade', table by table.
Below(ids) ==
    LET down(s) == s \cup {row.id : row \in {x \in rows : x.parent \in s}} IN
    down(down(down(ids)))

\* insert ... values: the foreign key must name a row, or the insert fails.
CanInsert(new) == \A row \in new : row.level = Project \/ Exists(row.parent)
Insert(new) == rows' = rows \cup new
Update(id, text) == rows' = {IF row.id = id THEN [row EXCEPT !.text = text] ELSE row : row \in rows}
Delete(id) == rows' = {row \in rows : row.id \notin Below({id})}

\* insert ... onConflictDoUpdate on (user_id, provider), and delete.
Upsert(user, keys) == connections' = [connections EXCEPT ![user] = keys]

\* One user has a project with a workspace, a window and a message, and a key.
DbInit ==
    LET u == CHOOSE v \in Users : TRUE
        t == CHOOSE x \in Texts : TRUE
    IN  /\ rows = {Row(<<0, l>>, l, IF l = Project THEN u ELSE <<0, l - 1>>, t, u) : l \in Levels}
        /\ connections = [v \in Users |-> IF v = u THEN {0} ELSE {}]

-----------------------------------------------------------------------------
(* Properties.                                                             *)

DbTypeOK ==
    /\ \A row \in rows : row.level \in Levels /\ row.text \in Texts /\ row.root \in Users
    /\ \A a, b \in rows : a.id = b.id => a = b
    /\ \A u \in Users : connections[u] \subseteq Nat /\ Cardinality(connections[u]) <= 1

\* Every row hangs in the tree, under the user it was made for: neither a
\* deletion nor an insertion that overlaps it leaves an orphan.
TreeIsWhole ==
    \A row \in rows :
        IF row.level = Project THEN row.parent = row.root
        ELSE \E p \in Find(row.parent) : p.level = row.level - 1 /\ p.root = row.root
=============================================================================
