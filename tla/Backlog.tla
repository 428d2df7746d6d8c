------------------------------- MODULE Backlog -------------------------------
(***************************************************************************)
(* The scripts that turn entries of a file into GitHub issues:              *)
(* tools/create-github-issues.mjs, for the backlog, and                    *)
(* tools/apply-issue-delta.mjs, for what an agent proposes, which also puts *)
(* the issue on the project board and fills its fields; and the one that    *)
(* fills the fields for the backlog afterwards, update-project-fields.mjs.  *)
(* Each call of gh is an action; any may fail, fail after it was accepted,  *)
(* or be the last before the script is interrupted.  All may be run again;  *)
(* two at once, which nothing excludes and which double the issues, are     *)
(* left out.                                                               *)
(***************************************************************************)
EXTENDS Naturals, Sequences, FiniteSets

CONSTANTS
    NFields,        \* single-select fields of the board; four
    MaxNew,         \* entries of a delta; MAX_NEW
    ListLimit,      \* what gh lists of the issues, or of the board; 500
    Entries,        \* what a file may have
    MaxFile,        \* bound: the length of a file
    MaxIssues       \* bound: issues on GitHub

ASSUME BacklogAssumption ==
    /\ NFields \in Nat \ {0} /\ MaxNew \in Nat /\ ListLimit \in Nat
    /\ MaxFile \in Nat /\ MaxIssues \in Nat /\ Entries \subseteq Nat

VARIABLES
    prefixed,       \* the externalKey of an entry is the beginning of those of later ones
    issues,         \* on GitHub, in order of creation
    script          \* the run

backlogVars == <<prefixed, issues, script>>

\* todo: positions in the file, or the issues to be updated.
NoScript == [at |-> "idle", delta |-> FALSE, entries |-> <<>>, todo |-> {},
             made |-> 0, target |-> 0, nth |-> 0, failed |-> FALSE,
             updated |-> FALSE]                \* history: it has filled the fields

BacklogInit ==
    /\ prefixed \in BOOLEAN
    /\ issues = <<>>
    /\ script = NoScript

Busy == script.at \notin {"idle", "ended"}

\* There is nothing that the lists leave out.
Whole == Len(issues) <= ListLimit

\* The newest issues are listed; of the items of a larger board it is left
\* open which, for the owner may put them in another order.
Recent == {i \in DOMAIN issues : Len(issues) < i + ListLimit}
Boards == LET items == {i \in DOMAIN issues : issues[i].item}
          IN {shown \in SUBSET items : Whole => shown = items}

\* An issue made by a delta carries the key of its entry; its title may be
\* changed by the owner.
TitleExists(e) == \E i \in Recent : issues[i].entry = e /\ issues[i].titled

\* The body of an issue is searched for the key, not for a whole word.
KeyExists(e) == \E i \in Recent :
    issues[i].keyed /\ (issues[i].entry = e \/ (prefixed /\ e < issues[i].entry))

\* Mutant: a delta is compared by title alone.
DuplicateByTitle(delta, e) == TitleExists(e)
Duplicate(delta, e) == TitleExists(e) \/ (delta /\ KeyExists(e))

-----------------------------------------------------------------------------
(* A run.                                                                  *)

\* validateDelta: no entry twice, no more than the cap.  The backlog is not
\* validated in this respect, and has no entry twice.
Valid(delta, entries) ==
    /\ \A i, j \in DOMAIN entries : entries[i] = entries[j] => i = j
    /\ delta => Len(entries) \in 1..MaxNew

Files == UNION {[1..n -> Entries] : n \in 0..MaxFile}

ScriptStarts ==
    /\ ~Busy
    /\ \E delta \in BOOLEAN, entries \in Files :
          /\ Valid(delta, entries)
          /\ script' = [NoScript EXCEPT !.at = "list", !.delta = delta, !.entries = entries]
    /\ UNCHANGED <<prefixed, issues>>

\* The duplicates are sorted out once, before anything is created.
Lists ==
    /\ script.at = "list"
    /\ script' = [script EXCEPT !.at = "create",
                     !.todo = {n \in DOMAIN script.entries :
                                  ~Duplicate(script.delta, script.entries[n])}]
    /\ UNCHANGED <<prefixed, issues>>

Continues(changed) ==
    /\ script' = changed
    /\ UNCHANGED prefixed

\* On to the next entry; what went wrong with this one is listed at the end.
NextEntry(failing) ==
    Continues([script EXCEPT !.at = "create", !.made = 0, !.target = 0, !.nth = 0,
                             !.failed = @ \/ failing])

Excuse(i) == [issues EXCEPT ![i].excused = issues[i].keyed]

\* What a script could have recognised: the title, or the key of its entry.
HasIssue(delta, e) == \E i \in DOMAIN issues :
    issues[i].entry = e /\ (issues[i].titled \/ (delta /\ issues[i].keyed))

Position == CHOOSE n \in script.todo : \A k \in script.todo : n <= k
Created == LET e == script.entries[Position] IN
    [entry |-> e, titled |-> TRUE, keyed |-> script.delta, item |-> FALSE, fields |-> {},
     twin |-> HasIssue(script.delta, e),       \* history: it had an issue already
     excused |-> FALSE]                        \* history: what a delta left out was told

CreatesIssue ==
    /\ script.at = "create" /\ script.todo # {} /\ Len(issues) < MaxIssues
    /\ issues' = Append(issues, Created)
    /\ Continues([script EXCEPT !.at = "add", !.made = Len(issues) + 1,
                             !.todo = @ \ {Position}])

\* gh issue create is refused, or accepted and reported as failed.
CreateFails ==
    /\ script.at = "create" /\ script.todo # {}
    /\ \/ UNCHANGED issues
       \/ /\ Len(issues) < MaxIssues
          /\ issues' = Append(issues, [Created EXCEPT !.excused = script.delta])
    /\ Continues([script EXCEPT !.todo = @ \ {Position}, !.failed = TRUE])

\* The item may be added and its id not be told.  The backlog's script ends
\* there with a warning.
AddsToProject ==
    /\ script.at = "add"
    /\ \E added, told \in BOOLEAN :
          /\ told => added
          /\ LET i == script.made
                 on == [issues EXCEPT ![i].item = added]
             IN IF ~script.delta
                THEN issues' = on /\ NextEntry(FALSE)
                ELSE /\ issues' = on
                     /\ Continues([script EXCEPT !.at = IF told THEN "fields" ELSE "resolve",
                                                 !.target = IF told THEN i ELSE 0, !.nth = 1])

\* Otherwise the item is looked for by the title of the entry.
ResolvesItem ==
    /\ script.at = "resolve"
    /\ \E shown \in Boards :
          LET hits == {i \in shown : /\ issues[i].titled
                                     /\ issues[i].entry = issues[script.made].entry}
          IN IF hits = {}
             THEN issues' = Excuse(script.made) /\ NextEntry(TRUE)
             ELSE /\ \E i \in hits : Continues([script EXCEPT !.at = "fields", !.target = i])
                  /\ UNCHANGED issues

SetsField ==
    /\ script.at = "fields" /\ script.nth <= NFields
    /\ issues' = [issues EXCEPT ![script.target].fields = @ \cup {script.nth}]
    /\ Continues([script EXCEPT !.nth = @ + 1])

\* A field that fails does not keep the others from being set; it may be set.
FieldFails ==
    /\ script.at = "fields" /\ script.nth <= NFields
    /\ issues' \in {Excuse(script.made),
                    [Excuse(script.made) EXCEPT ![script.target].fields = @ \cup {script.nth}]}
    /\ Continues([script EXCEPT !.nth = @ + 1, !.failed = TRUE])

FieldsEnd ==
    /\ script.at = "fields" /\ script.nth > NFields
    /\ NextEntry(FALSE) /\ UNCHANGED issues

ScriptEnds ==
    /\ script.at = "create" /\ script.todo = {}
    /\ Continues(IF script.failed THEN NoScript
                 ELSE [NoScript EXCEPT !.at = "ended", !.entries = script.entries])
    /\ UNCHANGED issues

-----------------------------------------------------------------------------
(* update-project-fields.  The board is taken to have every field and       *)
(* option: what it lacks is left out of the plan.                          *)

UpdateStarts ==
    /\ ~Busy
    /\ script' = [NoScript EXCEPT !.at = "plan"]
    /\ UNCHANGED <<prefixed, issues>>

InProject(shown, e) == {i \in shown : issues[i].titled /\ issues[i].entry = e}

\* The items of the board that bear the title of an entry; of two the last.
PlansUpdate ==
    /\ script.at = "plan"
    /\ \E shown \in Boards :
          Continues([script EXCEPT !.at = "update", !.nth = 1,
                       !.todo = {i \in shown :
                          /\ i \in InProject(shown, issues[i].entry)
                          /\ \A j \in InProject(shown, issues[i].entry) : j <= i}])
    /\ UNCHANGED issues

\* In the order of the entries.
NextItem == CHOOSE i \in script.todo : \A j \in script.todo : issues[i].entry <= issues[j].entry

\* The field of one item, or a failure that is counted; then the next.
UpdatesField ==
    /\ script.at = "update" /\ script.todo # {}
    /\ LET last == script.nth = NFields
           next == [script EXCEPT !.nth = IF last THEN 1 ELSE @ + 1,
                                  !.todo = IF last THEN @ \ {NextItem} ELSE @]
           set == [issues EXCEPT ![NextItem].fields = @ \cup {script.nth}]
       IN  \/ issues' = set /\ Continues(next)
           \/ issues' \in {issues, set} /\ Continues([next EXCEPT !.failed = TRUE])

UpdateEnds ==
    /\ script.at = "update" /\ script.todo = {}
    /\ Continues(IF script.failed THEN NoScript
                 ELSE [NoScript EXCEPT !.at = "ended", !.updated = TRUE])
    /\ UNCHANGED issues

-----------------------------------------------------------------------------

\* An interrupt, or a reading call that fails: the script dies and says so.
Dies ==
    /\ Busy
    /\ issues' = IF script.made = 0 THEN issues ELSE Excuse(script.made)
    /\ Continues(NoScript)

OwnerRenames ==
    /\ \E i \in DOMAIN issues :
          issues[i].titled /\ issues' = [issues EXCEPT ![i].titled = FALSE]
    /\ UNCHANGED <<prefixed, script>>

ScriptStep ==
    \/ ScriptStarts \/ Lists \/ CreatesIssue \/ CreateFails \/ AddsToProject
    \/ ResolvesItem \/ SetsField \/ FieldFails \/ FieldsEnd \/ ScriptEnds
    \/ UpdateStarts \/ PlansUpdate \/ UpdatesField \/ UpdateEnds \/ Dies

BacklogNext == OwnerRenames \/ ScriptStep

-----------------------------------------------------------------------------
(* Properties.                                                             *)

\* However often the scripts are run, interrupted and run again, an entry that
\* a script recognises among the issues is not created a second time; a delta
\* recognises its own even under another title.
OneIssueEach == \A i \in DOMAIN issues : ~issues[i].twin

\* What a delta left incomplete, off the board or without a field, was told to
\* whoever ran it: the next run skips the issue as a duplicate.
IncompleteIsTold ==
    \A i \in DOMAIN issues :
        issues[i].keyed /\ script.made # i =>
            issues[i].excused \/ (issues[i].item /\ issues[i].fields = 1..NFields)

\* A run that tells of no failure leaves an issue for every entry, unless the
\* key of one entry is the beginning of the key of another.
NothingIsLeftOut ==
    ~prefixed /\ script.at = "ended" =>
        \A n \in DOMAIN script.entries : \E i \in DOMAIN issues : issues[i].entry = script.entries[n]

\* After an update without failure every item under a title of the backlog has
\* all its fields, whatever the runs before left it with.
UpdateCompletes ==
    script.at = "ended" /\ script.updated =>
        \A i \in DOMAIN issues :
            issues[i].item /\ issues[i].titled => issues[i].fields = 1..NFields

\* What the scripts make of the entries of a file: an issue each, complete or
\* told, for as long as gh lists all the issues there are.  An entry whose issue is
\* older than the five hundred newest is created again.
BacklogInv ==
    Whole => OneIssueEach /\ IncompleteIsTold /\ NothingIsLeftOut /\ UpdateCompletes

BacklogSpec == BacklogInit /\ [][BacklogNext]_backlogVars
=============================================================================
