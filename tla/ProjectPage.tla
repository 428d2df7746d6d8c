---------------------------- MODULE ProjectPage ----------------------------
(***************************************************************************)
(* The page of a project: the four loads that put it together on the       *)
(* server, each with its fallback to the mock data, and then the name in    *)
(* the header, which is renamed before the API answers, the deletion of the *)
(* project and the form that creates a row of it.  Each write is given up    *)
(* after five seconds, and the API may carry it out afterwards.              *)
(***************************************************************************)
EXTENDS Integers, FiniteSets

CONSTANTS MaxNames,     \* bound: names given
          MaxLateCalls, \* bound: writes given up that the API may still carry out
          MaxRows       \* bound: rows created

VARIABLES stage, base, ofMock,     \* what is loaded next; the request
          source,                           \* of each level loaded
          apiName, name, field, patches, headerBusy, given,     \* ProjectHeader
          crossed,                          \* calls overlapped, or an answer was not heard
          leaving,                          \* its deletion
          late,                             \* renamings, and a deletion, given up that
                                            \* the API may still carry out
          rows, rowsShown, form,            \* of the API; on the page; the modal
          lateRows,                         \* creations given up in the same way
          unseen                            \* a row was made since the page was built, and
                                            \* its answer not received

loadVars == <<stage, base, ofMock, source>>
nameVars == <<apiName, name, field, patches, headerBusy, given, crossed, leaving,
              late>>
formVars == <<rows, rowsShown, form, lateRows, unseen>>
projectVars == <<loadVars, nameVars, formVars>>

LevelSet == {"project", "workspaces", "windows", "messages"}
NextStage(l) == CASE l = "project" -> "workspaces" [] l = "workspaces" -> "windows"
                  [] l = "windows" -> "messages" [] OTHER -> "page"
NoModal == "closed"
NotEdited == -1
NoRow == -1

ProjectInit ==
    /\ stage = "project" /\ base \in BOOLEAN
    /\ ofMock \in BOOLEAN              \* the id is one of the fixtures'
    /\ source = [l \in LevelSet |-> "none"]
    /\ apiName = 0 /\ name = 0 /\ field = NotEdited /\ patches = {} /\ headerBusy = FALSE
    /\ given = 0 /\ crossed = FALSE /\ leaving = "no"
    /\ late = {} /\ rows = 0 /\ rowsShown = 0 /\ form = NoModal /\ lateRows = 0 /\ unseen = FALSE

Parent(l) == CASE l = "workspaces" -> "project" [] l = "windows" -> "workspaces"
               [] OTHER -> "windows"
\* Only what came from the API has anything below it there.
AsksApi(l) == base /\ (l = "project" \/ source[Parent(l)] = "api")

Loaded(l, s) == source' = [source EXCEPT ![l] = s]
\* The fixtures have something to show for their own ids only.
Fallback(l) == IF ofMock THEN Loaded(l, "mock") ELSE Loaded(l, "empty")

LoadProject ==
    /\ stage = "project"
    /\ \/ /\ ~AsksApi("project") /\ Fallback("project")
          /\ stage' = IF ofMock THEN "workspaces" ELSE "not found"
       \/ /\ AsksApi("project") /\ ~ofMock
          /\ Loaded("project", "api") /\ stage' = "workspaces"
       \/ \* 404
          /\ AsksApi("project")
          /\ Loaded("project", "none") /\ stage' = "error panel"
       \/ \* any other failure
          /\ AsksApi("project") /\ Fallback("project")
          /\ stage' = IF ofMock THEN "workspaces" ELSE "error panel"
    /\ UNCHANGED <<base, ofMock, nameVars, formVars>>

\* The first workspace, or the one asked for if it is among those loaded.
LoadWorkspaces ==
    /\ stage = "workspaces"
    /\ \/ AsksApi("workspaces") /\ source' \in {[source EXCEPT !["workspaces"] = s] : s \in {"api", "empty"}}
       \/ Fallback("workspaces")       \* not asked, or failed
    /\ stage' \in IF source'["workspaces"] = "empty" THEN {"no workspace"}
                  ELSE {"windows", "wrong workspace"}
    /\ UNCHANGED <<base, ofMock, nameVars, formVars>>

\* Windows, and the messages of all of them at once.
LoadBelow ==
    /\ stage \in {"windows", "messages"}
    /\ \/ AsksApi(stage) /\ source' \in {[source EXCEPT ![stage] = s] : s \in {"api", "empty"}}
       \/ Fallback(stage)
    /\ stage' = NextStage(stage)
    /\ UNCHANGED <<base, ofMock, nameVars, formVars>>

InPage == stage = "page" /\ leaving # "left"
MoreLateCalls == Cardinality(late) + lateRows < MaxLateCalls
Remote == ~ofMock       \* the id is not one of the fixtures', which are renamed here only

EditName ==
    /\ InPage /\ field = NotEdited
    /\ field' = name
    /\ UNCHANGED <<loadVars, apiName, name, patches, headerBusy, given, crossed, leaving, late, formVars>>
CancelEdit ==
    /\ InPage /\ field # NotEdited
    /\ field' = NotEdited
    /\ UNCHANGED <<loadVars, apiName, name, patches, headerBusy, given, crossed, leaving, late, formVars>>

\* commit: the name is shown at once, and the one before it is remembered.
CommitName ==
    /\ InPage /\ field # NotEdited /\ given < MaxNames
    /\ given' = given + 1 /\ name' = given' /\ field' = NotEdited
    /\ IF Remote
       THEN /\ patches' = patches \cup {[to |-> given', prev |-> name, st |-> "sent"]}
            /\ headerBusy' = TRUE /\ crossed' = (crossed \/ patches # {})
       ELSE UNCHANGED <<patches, headerBusy, crossed>>
    /\ UNCHANGED <<loadVars, apiName, leaving, late, formVars>>

ServePatch ==
    /\ \E p \in patches :
          /\ p.st = "sent" /\ apiName # NoRow
          /\ patches' = (patches \ {p}) \cup {[p EXCEPT !.st = "done"]}
          /\ apiName' = p.to
    /\ UNCHANGED <<loadVars, name, field, headerBusy, given, crossed, leaving, late, formVars>>

\* The answer sets the name and what is being typed; the flag falls with it,
\* whatever else is under way.
PatchAnswered ==
    /\ \E p \in patches :
          /\ p.st = "done"
          /\ patches' = patches \ {p}
          /\ name' = p.to
          /\ field' = IF field = NotEdited THEN NotEdited ELSE p.to
    /\ headerBusy' = FALSE
    /\ UNCHANGED <<loadVars, apiName, given, crossed, leaving, late, formVars>>

\* Mutant: the name given stays.
KeepsName(p) == UNCHANGED name
\* The catch of commit.
RollsBack(p) == name' = p.prev
\* Refused, or not answered in five seconds, carried out or not yet.
PatchFails ==
    /\ \E p \in patches :
          /\ patches' = patches \ {p}
          /\ RollsBack(p)
          /\ crossed' = (crossed \/ p.st = "done")
          /\ late' \in {late} \cup (IF p.st = "sent" /\ MoreLateCalls THEN {late \cup {p.to}} ELSE {})
          /\ field' = IF field = NotEdited THEN NotEdited ELSE p.prev
    /\ headerBusy' = FALSE
    /\ UNCHANGED <<loadVars, apiName, given, leaving, formVars>>

LatePatch ==
    /\ apiName # NoRow
    /\ \E to \in late \ {NoRow} : apiName' = to /\ late' = late \ {to}
    /\ crossed' = TRUE
    /\ UNCHANGED <<loadVars, name, field, patches, headerBusy, given, leaving, formVars>>

DeleteProject ==
    /\ InPage /\ ~headerBusy
    /\ IF Remote THEN leaving' = "sent" /\ headerBusy' = TRUE
       ELSE leaving' = "left" /\ UNCHANGED headerBusy
    /\ UNCHANGED <<loadVars, apiName, name, field, patches, given, crossed, late, formVars>>
ServeDeletion ==
    /\ leaving = "sent" /\ apiName # NoRow
    /\ apiName' = NoRow
    /\ UNCHANGED <<loadVars, name, field, patches, headerBusy, given, crossed, leaving, late, formVars>>
\* The promise is always rejected: a deletion carried out is answered without a
\* body, which the client cannot parse.
DeleteSettles ==
    /\ leaving = "sent"
    /\ leaving' = "no" /\ headerBusy' = FALSE
    /\ crossed' = (crossed \/ apiName = NoRow)
    /\ late' \in {late} \cup (IF apiName # NoRow /\ MoreLateCalls THEN {late \cup {NoRow}} ELSE {})
    /\ UNCHANGED <<loadVars, apiName, name, field, patches, given, formVars>>
LateDeletion ==
    /\ NoRow \in late
    /\ apiName' = NoRow /\ late' = late \ {NoRow} /\ crossed' = TRUE
    /\ UNCHANGED <<loadVars, name, field, patches, headerBusy, given, leaving, formVars>>

\* CreateWorkspaceModal, CreateChatWindowModal and CreateProjectModal.
OpenForm ==
    /\ stage \in {"no workspace", "page"} /\ leaving # "left" /\ form = NoModal
    /\ form' = "filled in"
    /\ UNCHANGED <<loadVars, nameVars, rows, rowsShown, lateRows, unseen>>
CloseForm ==
    /\ form = "filled in"
    /\ form' = NoModal
    /\ UNCHANGED <<loadVars, nameVars, rows, rowsShown, lateRows, unseen>>
SubmitForm ==
    /\ form = "filled in" /\ rows + lateRows < MaxRows
    /\ form' = "submitting"
    /\ UNCHANGED <<loadVars, nameVars, rows, rowsShown, lateRows, unseen>>
ServeForm ==
    /\ form = "submitting"
    /\ form' = "created" /\ rows' = rows + 1
    /\ UNCHANGED <<loadVars, nameVars, rowsShown, lateRows, unseen>>
\* onClose and router.refresh.
CreatedThenRefresh == form' = NoModal /\ rowsShown' = rows /\ unseen' = FALSE
FormAnswered ==
    /\ form = "created"
    /\ CreatedThenRefresh
    /\ UNCHANGED <<loadVars, nameVars, rows, lateRows>>
\* Refused, or not answered in time: the form stays, to be sent again.
FormFails ==
    /\ form \in {"submitting", "created"}
    /\ form' = "filled in"
    /\ unseen' = (unseen \/ form = "created")
    /\ lateRows' \in {lateRows} \cup (IF form = "submitting" /\ MoreLateCalls THEN {lateRows + 1} ELSE {})
    /\ UNCHANGED <<loadVars, nameVars, rows, rowsShown>>
LateRow ==
    /\ lateRows > 0
    /\ lateRows' = lateRows - 1 /\ rows' = rows + 1 /\ unseen' = TRUE
    /\ UNCHANGED <<loadVars, nameVars, rowsShown, form>>

PageAnswers == PatchAnswered \/ PatchFails \/ DeleteSettles \/ FormAnswered \/ FormFails
ProjectNext ==
    \/ LoadProject \/ LoadWorkspaces \/ LoadBelow
    \/ EditName \/ CancelEdit \/ CommitName \/ ServePatch
    \/ DeleteProject \/ ServeDeletion
    \/ OpenForm \/ CloseForm \/ SubmitForm \/ ServeForm
    \/ LatePatch \/ LateDeletion \/ LateRow
    \/ PageAnswers

-----------------------------------------------------------------------------
(* Properties.                                                             *)

\* What is shown below an API row came from the API, or nothing is shown; fixtures
\* are shown for their own ids only.  When nothing is under way on the page, the
\* header shows the name the API has, unless calls crossed or a write was carried
\* out that the page was told had failed; and the page shows the rows the API has,
\* unless such a write made one since.
ProjectInv ==
    /\ \A l \in LevelSet \ {"project"} : source[l] = "api" => source[Parent(l)] = "api"
    /\ \A l \in LevelSet : source[l] = "mock" => ofMock
    /\ InPage /\ Remote /\ patches = {} /\ leaving = "no" /\ ~crossed => name = apiName
    /\ form = NoModal /\ ~unseen => rowsShown = rows
=============================================================================
