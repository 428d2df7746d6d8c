----------------------------- MODULE NotionMirror -----------------------------
(***************************************************************************)
(* The hourly mirror of GitHub issues in Notion, scripts/notion/            *)
(* sync-github-to-notion.mjs: the list of issues is read page by page, the  *)
(* last updated first, while issues go on being updated; then each issue    *)
(* read is looked for in Notion and written.  The workflow that runs it     *)
(* excludes a second run.                                                  *)
(***************************************************************************)
EXTENDS Naturals, Sequences

CONSTANTS
    Items,          \* issues and pull requests
    PageSize,       \* items in a page of the list; 100
    MaxPages,       \* pages a run reads; 10
    SyncLimit,      \* items a run takes; 200
    MaxUpdates      \* bound: updates on GitHub

ASSUME MirrorAssumption ==
    /\ PageSize \in Nat \ {0} /\ MaxPages \in Nat \ {0} /\ SyncLimit \in Nat
    /\ MaxUpdates \in Nat

VARIABLES
    recent,         \* the items there are, the last updated first
    closed,         \* those of them that are closed
    updates,        \* updates so far
    sync,           \* the run
    mirrored        \* the rows of the database, in order of creation

mirrorVars == <<recent, closed, updates, sync, mirrored>>

NoSync == [at |-> "idle", page |-> 0, read |-> <<>>, todo |-> <<>>, found |-> 0,
           failed |-> FALSE, touched |-> {}]

Elements(s) == {s[i] : i \in DOMAIN s}
\* s without its one x.
Without(s, x) ==
    IF x \in Elements(s)
    THEN LET at == CHOOSE i \in DOMAIN s : s[i] = x
         IN  [i \in 1..(Len(s) - 1) |-> IF i < at THEN s[i] ELSE s[i + 1]]
    ELSE s
Upto(n, len) == IF n < len THEN n ELSE len

MirrorInit ==
    /\ recent = <<>> /\ closed = {} /\ updates = 0
    /\ sync = NoSync /\ mirrored = <<>>

\* An item is opened, closed, opened again, or changed in what is not modelled.
\* Every update brings it to the front of the list.
Updates(x) ==
    /\ updates < MaxUpdates
    /\ updates' = updates + 1
    /\ recent' = <<x>> \o Without(recent, x)
    /\ \/ closed' = closed
       \/ x \in Elements(recent) /\ closed' = closed \cup {x}
       \/ x \in closed /\ closed' = closed \ {x}
    /\ sync' = [sync EXCEPT !.touched = IF sync.at = "idle" THEN {} ELSE @ \cup {x}]
    /\ UNCHANGED mirrored

-----------------------------------------------------------------------------
(* The run.                                                                *)

Syncs(run) == sync' = run /\ UNCHANGED <<recent, closed, updates, mirrored>>

SyncStarts == sync.at \in {"idle", "ended"} /\ Syncs([NoSync EXCEPT !.at = "list"])

\* Mutant: the items that were not updated for longest come first.
ListedOldestFirst(s) == [i \in DOMAIN s |-> s[Len(s) + 1 - i]]
\* sort=updated, direction=desc.
Listed(s) == s

\* One page, as the list is at this moment; a page that is not full is the last,
\* or when there are enough items or pages.
ReadsPage ==
    /\ sync.at = "list"
    /\ LET first == sync.page * PageSize
           page == SubSeq(Listed(recent), first + 1, Upto(first + PageSize, Len(recent)))
           read == sync.read \o [i \in DOMAIN page |->
                                    [item |-> page[i], closed |-> page[i] \in closed]]
       IN IF Len(page) < PageSize \/ Len(read) >= SyncLimit \/ sync.page + 1 = MaxPages
          THEN Syncs([sync EXCEPT !.at = "upsert", !.read = <<>>, !.page = 0,
                                  !.todo = SubSeq(read, 1, Upto(SyncLimit, Len(read)))])
          ELSE Syncs([sync EXCEPT !.read = read, !.page = @ + 1])

\* The row of the item, by its "GitHub ID".
FindsRow ==
    /\ sync.at = "upsert" /\ sync.todo # <<>>
    /\ LET x == Head(sync.todo).item
           hits == {i \in DOMAIN mirrored : mirrored[i].item = x}
       IN Syncs([sync EXCEPT !.at = "write",
                    !.found = IF hits = {} THEN 0 ELSE CHOOSE i \in hits : TRUE])

Written == IF sync.found = 0 THEN Append(mirrored, Head(sync.todo))
                             ELSE [mirrored EXCEPT ![sync.found] = Head(sync.todo)]

WritesRow ==
    /\ sync.at = "write"
    /\ mirrored' = Written
    /\ sync' = [sync EXCEPT !.at = "upsert", !.todo = Tail(@), !.found = 0]
    /\ UNCHANGED <<recent, closed, updates>>

\* The query or the write is refused: the run goes on and fails at its end.  A
\* write may have been accepted all the same.
UpsertFails ==
    /\ sync.at \in {"upsert", "write"} /\ sync.todo # <<>>
    /\ mirrored' = mirrored \/ (sync.at = "write" /\ mirrored' = Written)
    /\ sync' = [sync EXCEPT !.at = "upsert", !.todo = Tail(@), !.found = 0, !.failed = TRUE]
    /\ UNCHANGED <<recent, closed, updates>>

\* Reading GitHub fails, or the run is cancelled after its ten minutes.
SyncDies == sync.at \notin {"idle", "ended"} /\ Syncs(NoSync)

SyncEnds ==
    /\ sync.at = "upsert" /\ sync.todo = <<>>
    /\ Syncs([NoSync EXCEPT !.at = "ended", !.failed = sync.failed, !.touched = sync.touched])

MirrorNext ==
    \/ \E x \in Items : Updates(x)
    \/ SyncStarts \/ ReadsPage \/ FindsRow \/ WritesRow \/ UpsertFails \/ SyncDies \/ SyncEnds

-----------------------------------------------------------------------------
(* Properties.                                                             *)

\* An item has one row, though the list may hand it out on two pages and any
\* run may have failed or been cancelled half way.
OneRowEach == \A i, j \in DOMAIN mirrored : mirrored[i].item = mirrored[j].item => i = j

\* A run without failure leaves a row, as the item is, for every item that was
\* not updated while it ran and is among those a run takes: the pages of a list
\* that shifts under the reader may hand an item out twice but leave none of those
\* out.
InReach(i) == i <= SyncLimit /\ i <= MaxPages * PageSize
UntouchedAreMirrored ==
    sync.at = "ended" /\ ~sync.failed =>
        \A i \in DOMAIN recent : InReach(i) /\ recent[i] \notin sync.touched =>
            [item |-> recent[i], closed |-> recent[i] \in closed] \in Elements(mirrored)

MirrorInv == OneRowEach /\ UntouchedAreMirrored

MirrorSpec == MirrorInit /\ [][MirrorNext]_mirrorVars
=============================================================================
