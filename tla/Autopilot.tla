------------------------------ MODULE Autopilot ------------------------------
(***************************************************************************)
(* The autopilot of src/tools/local-control/autopilot.mjs: an engine that  *)
(* lets an agent work on issues, one child process after another, in the   *)
(* working tree of the repository.                                         *)
(*                                                                         *)
(* Every action is a block of JavaScript between two awaits.  A lifecycle  *)
(* loop waits for the notifier ("starting", "told", "ending") or for its   *)
(* child; every call of git, gh and the guard is synchronous and belongs   *)
(* to the block that makes it.  The handlers of server.mjs run in between. *)
(***************************************************************************)
EXTENDS Naturals, FiniteSets

CONSTANTS
    MaxRuns,        \* bound: runs started
    Issues,         \* what the queue can hold
    Named,          \* bound: the issues a caller of start may name
    MaxErrors,      \* settings.maxErrors
    MaxPRs,         \* settings.maxPrsPerRun
    None

ASSUME AutopilotAssumption ==
    /\ MaxRuns \in Nat /\ MaxErrors \in Nat \ {0} /\ MaxPRs \in Nat \ {0}
    /\ Named \subseteq Issues
    /\ None \notin Issues \cup 1..MaxRuns

VARIABLES
    run,        \* the run records
    loop,       \* per run: where its _runLifecycle waits, and for which issue
    active,     \* engine.activeRun
    child,      \* engine.activeChild, named by the run that launched it
    alive,      \* runs whose child process exists
    onMain,     \* the working tree is on main, not on the branch of an issue
    saved       \* the status in the file of each run

engineVars == <<run, loop, active, child, saved>>
apVars == <<run, loop, active, child, alive, onMain, saved>>

Runs == 1..MaxRuns
Modes == {"plan", "exec", "loop"}
Statuses == {"unused", "running", "waiting", "completed", "failed", "stopped"}
Pcs == {"none", "starting", "child", "told", "ending", "over"}

NewRun == [mode |-> "plan", status |-> "unused", stop |-> FALSE, resumed |-> FALSE,
           errors |-> 0, prs |-> 0,
           completed |-> {}, failed |-> {},
           attempts |-> [i \in Issues |-> 0]]
NewLoop == [pc |-> "none", asked |-> None, issue |-> None, verdict |-> "none", outcome |-> "none"]

AutopilotInit ==
    /\ run = [r \in Runs |-> NewRun]
    /\ loop = [r \in Runs |-> NewLoop]
    /\ active = None /\ child = None
    /\ alive = {} /\ onMain = TRUE
    /\ saved = [r \in Runs |-> "unused"]

-----------------------------------------------------------------------------
(* Helpers.                                                                *)

\* One attempt more; they matter up to two.
Attempted(r, i) == [run[r].attempts EXCEPT ![i] = IF @ < 2 THEN @ + 1 ELSE @]

\* Mutant: a run that waits for an answer does not count.
HasActiveRunning == active # None /\ run[active].status = "running"
HasActive == active # None /\ run[active].status \in {"running", "waiting"}

\* _persist saves the active run, whichever run the caller works for.
Persist ==
    saved' = IF active' = None THEN saved
             ELSE [saved EXCEPT ![active'] = run'[active'].status]

\* Mutant: issues that failed are picked again.
CandidatesWithFailed(r) == Issues \ run[r].completed
\* What _pickIssue may choose from: the queue holds any of the issues, less
\* those the run is done with.
Candidates(r) == Issues \ (run[r].completed \cup run[r].failed)

\* A lifecycle that may still touch the working tree.
Live(r) == loop[r].pc \in {"starting", "child", "told"}

\* The loop is left, and its locals with it; mission_completed is being told.
Leaves(r) == loop' = [loop EXCEPT ![r] = [NewLoop EXCEPT !.pc = "ending"]]

LeavesWith(r, status, errors) ==
    /\ run' = [run EXCEPT ![r] = [@ EXCEPT !.status = status, !.errors = errors]]
    /\ Leaves(r)

-----------------------------------------------------------------------------
(* The lifecycle of run r.                                                 *)

Exhausted(r) == run[r].errors >= MaxErrors \/ run[r].prs >= MaxPRs

\* The head of the loop: a stop, the time budget (which may be over at any
\* moment), the budget of errors and the budget of pull requests.
Halts(r) ==
    /\ \/ LeavesWith(r, "stopped", run[r].errors)
       \/ /\ ~run[r].stop /\ run[r].errors >= MaxErrors
          /\ LeavesWith(r, "failed", run[r].errors)
    /\ UNCHANGED <<child, alive, onMain, saved>>

\* The queue cannot be read, or holds nothing the run may take.
NothingPicked(r) ==
    /\ loop[r].asked = None
    /\ \E e \in {run[r].errors, run[r].errors + 1} : LeavesWith(r, "stopped", e)
    /\ Persist
    /\ UNCHANGED <<child, alive, onMain>>

\* An answer of the queue that chooseSafeTask cannot read: start's catch.
PickThrows(r) ==
    /\ loop[r].asked = None
    /\ run' = [run EXCEPT ![r] = [@ EXCEPT !.status = "failed", !.errors = run[r].errors + 1]]
    /\ loop' = [loop EXCEPT ![r] = [NewLoop EXCEPT !.pc = "over"]]
    /\ Persist
    /\ UNCHANGED <<child, alive, onMain>>

Picks(r) == IF loop[r].asked = None THEN Candidates(r) ELSE {loop[r].asked}

\* git switch main, git pull, git switch -c or the launch fails: the run ends.
AttemptFails(r, i) ==
    /\ run' = [run EXCEPT ![r] = [@ EXCEPT !.status = "failed", !.errors = run[r].errors + 1,
                                           !.attempts = Attempted(r, i)]]
    /\ Leaves(r)
    /\ onMain' \in BOOLEAN
    /\ Persist
    /\ UNCHANGED <<child, alive>>

Launches(r, i) ==
    /\ run' = [run EXCEPT ![r] = [@ EXCEPT !.attempts = Attempted(r, i)]]
    /\ loop' = [loop EXCEPT ![r] = [NewLoop EXCEPT !.pc = "child", !.issue = i]]
    /\ onMain' = FALSE
    /\ alive' = alive \cup {r} /\ child' = r
    /\ Persist

\* Mutant: the loop does not look whether it was asked to stop.
IterateUnasked(r) ==
    \/ Halts(r)
    \/ /\ ~Exhausted(r)
       /\ \/ NothingPicked(r) \/ PickThrows(r)
          \/ \E i \in Picks(r) : AttemptFails(r, i) \/ Launches(r, i)
\* One turn of the loop of run r, from its head to the next await.
Iterate(r) ==
    \/ Halts(r)
    \/ /\ ~run[r].stop /\ ~Exhausted(r)
       /\ \/ NothingPicked(r) \/ PickThrows(r)
          \/ \E i \in Picks(r) : AttemptFails(r, i) \/ Launches(r, i)

MissionStarted(r) == loop[r].pc = "starting" /\ UNCHANGED active /\ Iterate(r)

\* The issue in hand is settled so; the notifier is being told.
Tells(r, verdict, outcome, record) ==
    /\ run' = [run EXCEPT ![r] = record]
    /\ loop' = [loop EXCEPT ![r] =
                 [@ EXCEPT !.pc = "told", !.verdict = verdict, !.outcome = outcome]]

Failing(r, errors) ==
    [run[r] EXCEPT !.errors = errors, !.failed = @ \cup {loop[r].issue}]

\* recordPR and recordIssueCompleted.
PullRequest(r) ==
    [run[r] EXCEPT !.prs = @ + 1, !.completed = @ \cup {loop[r].issue}]

\* What follows a guard that answered so: a pull request on the branch, else a
\* question on the issue, else an error decides.
Looks(r, verdict) ==
    \/ Tells(r, verdict, "pr", PullRequest(r))
    \/ Tells(r, verdict, "waiting", [run[r] EXCEPT !.status = "waiting"])
    \/ Tells(r, verdict, "failed", Failing(r, run[r].errors + 1))

\* The child of run r has exited.  runTaskGuard answers ok for an exit code of
\* 1, which is BLOCK, so only a guard that cannot run fails the issue, and that
\* is not counted as an error.
ChildExits(r) ==
    /\ loop[r].pc = "child" /\ r \in alive
    /\ alive' = alive \ {r} /\ child' = None
    /\ IF run[r].stop
       THEN LeavesWith(r, "stopped", run[r].errors)
       ELSE \/ Tells(r, "none", "failed", Failing(r, run[r].errors + 1))
            \/ Tells(r, "error", "failed", Failing(r, run[r].errors))
            \/ \E verdict \in {"PASS", "BLOCK"} : Looks(r, verdict)
    /\ UNCHANGED <<active, onMain>>
    /\ Persist

\* Mutant: a break always marks the run completed.
BreaksCompleted(r) == LeavesWith(r, "completed", run[r].errors)
\* After a break, a run that is still running is marked completed.
Breaks(r) ==
    LeavesWith(r, IF run[r].status = "running" THEN "completed" ELSE run[r].status,
               run[r].errors)

\* Mutant: the loop waits for the answer, too.
OutcomeToldWaits(r) ==
    /\ loop[r].pc = "told"
    /\ run[r].status # "waiting"
    /\ UNCHANGED active
    /\ IF loop[r].outcome # "waiting" /\ run[r].mode = "loop"
       THEN Iterate(r)
       ELSE /\ CASE loop[r].outcome = "waiting" -> Breaks(r)
                 [] loop[r].outcome = "pr" -> LeavesWith(r, "completed", run[r].errors)
                 [] OTHER -> LeavesWith(r, "failed", run[r].errors)
            /\ UNCHANGED <<child, alive, onMain, saved>>
\* The notifier has been told of the outcome: the run waits for its answer, the
\* loop goes on, or a single attempt decides the run, whatever was asked of it
\* meanwhile.
OutcomeTold(r) ==
    /\ loop[r].pc = "told"
    /\ UNCHANGED active
    /\ IF loop[r].outcome # "waiting" /\ run[r].mode = "loop"
       THEN Iterate(r)
       ELSE /\ CASE loop[r].outcome = "waiting" -> Breaks(r)
                 [] loop[r].outcome = "pr" -> LeavesWith(r, "completed", run[r].errors)
                 [] OTHER -> LeavesWith(r, "failed", run[r].errors)
            /\ UNCHANGED <<child, alive, onMain, saved>>

\* mission_completed has been told.
LifecycleReturns(r) ==
    /\ loop[r].pc = "ending"
    /\ loop' = [loop EXCEPT ![r] = [NewLoop EXCEPT !.pc = "over"]]
    /\ UNCHANGED <<run, active, child, alive, onMain>>
    /\ Persist

-----------------------------------------------------------------------------
(* The handlers.                                                           *)

\* What is left of a run that neither the engine nor a loop holds.
InFile(r) == [NewRun EXCEPT !.status = saved[r]]

\* A record as start leaves it.
Started(mode, status, errors) ==
    [NewRun EXCEPT !.mode = mode, !.status = status, !.errors = errors]

Starts(r, record, lp) ==
    /\ run' = [s \in Runs |-> IF s = r THEN record
                              ELSE IF loop[s].pc \in {"none", "over"} THEN InFile(s) ELSE run[s]]
    /\ loop' = [loop EXCEPT ![r] = lp]
    /\ active' = r
    /\ Persist
    /\ UNCHANGED <<child, alive, onMain>>

\* Preflight refuses a dirty tree, a missing setting and, always, a tree that is
\* not on main.  A plan picks an issue and then fails: _pickIssue answers with a
\* record, buildIssuePrompt throws for anything but a number, and start's caller
\* gets the exception while the run stays as it is.
Start(r) ==
    /\ run[r].status = "unused" /\ \A s \in 1..(r - 1) : run[s].status # "unused"
    /\ ~HasActive
    /\ \E mode \in Modes, issue \in Named \cup {None} :
          \/ Starts(r, Started(mode, "failed", 0), NewLoop)
          \/ /\ onMain /\ mode # "plan"
             /\ Starts(r, Started(mode, "running", 0),
                       [NewLoop EXCEPT !.pc = "starting", !.asked = issue])
          \/ /\ onMain /\ mode = "plan" /\ issue = None
             /\ \E e \in 0..1 : Starts(r, Started(mode, "stopped", e), NewLoop)
          \/ /\ onMain /\ mode = "plan"
             /\ Starts(r, Started(mode, "running", 0), NewLoop)

\* stop ends any active run, in whatever status, and sends SIGTERM to the child
\* launched last, which exits in its own time.
Stop ==
    /\ active # None
    /\ run' = [run EXCEPT ![active] = [@ EXCEPT !.stop = TRUE, !.status = "stopped"]]
    /\ UNCHANGED <<loop, active, child, alive, onMain>>
    /\ Persist

\* resume, called by its own handler or after answerQuestion has posted the
\* answer.
Resume ==
    /\ active # None /\ run[active].status = "waiting"
    /\ run' = [run EXCEPT ![active] = [@ EXCEPT !.status = "running", !.resumed = TRUE]]
    /\ UNCHANGED <<loop, active, child, alive, onMain>>
    /\ Persist

\* answerQuestion cannot post the answer (bound: not beyond the budget, as the
\* loop of a waiting run counts no more errors).
AnswerFails ==
    /\ active # None /\ run[active].status = "waiting" /\ run[active].errors < MaxErrors
    /\ run' = [run EXCEPT ![active] = [@ EXCEPT !.errors = run[active].errors + 1]]
    /\ UNCHANGED <<loop, active, child, alive, onMain>>
    /\ Persist

Reset ==
    /\ active # None /\ ~HasActive
    /\ active' = None
    /\ UNCHANGED <<run, loop, child, alive, onMain, saved>>

-----------------------------------------------------------------------------
(* Around the engine.                                                      *)

\* The console's process ends and is started again: what is left of the runs is
\* what their files say; their children go on.
Restart ==
    /\ \E r \in Runs : run[r].status # "unused"
    /\ run' = [r \in Runs |-> InFile(r)]
    /\ loop' = [r \in Runs |-> IF loop[r].pc = "none" THEN loop[r] ELSE [NewLoop EXCEPT !.pc = "over"]]
    /\ active' = None /\ child' = None
    /\ UNCHANGED <<alive, onMain, saved>>

\* A child nobody waits for any more.
OrphanExits(r) ==
    /\ r \in alive /\ loop[r].pc # "child"
    /\ alive' = alive \ {r}
    /\ UNCHANGED <<engineVars, onMain>>

\* Preflight wants main; nothing in the engine goes back to it after a run.
OwnerReturnsToMain == ~onMain /\ onMain' = TRUE /\ UNCHANGED <<engineVars, alive>>

LifecycleStep(r) == MissionStarted(r) \/ OutcomeTold(r) \/ LifecycleReturns(r)

AutopilotNext ==
    \/ \E r \in Runs : LifecycleStep(r) \/ ChildExits(r) \/ Start(r) \/ OrphanExits(r)
    \/ Stop \/ Resume \/ AnswerFails \/ Reset
    \/ Restart \/ OwnerReturnsToMain

AutopilotSpec == AutopilotInit /\ [][AutopilotNext]_apVars

\* The notifier answers (its requests have time-outs) and an agent ends by
\* itself: nothing in the engine bounds the life of a child.
AutopilotFairSpec ==
    /\ AutopilotSpec
    /\ \A r \in Runs : WF_apVars(LifecycleStep(r)) /\ WF_apVars(ChildExits(r))

-----------------------------------------------------------------------------
(* Properties.                                                             *)

RunType ==
    [mode : Modes, status : Statuses, stop : BOOLEAN, resumed : BOOLEAN,
     errors : 0..MaxErrors, prs : 0..MaxPRs,
     completed : SUBSET Issues, failed : SUBSET Issues, attempts : [Issues -> 0..2]]
LoopType ==
    [pc : Pcs, asked : Issues \cup {None}, issue : Issues \cup {None},
     verdict : {"none", "PASS", "BLOCK", "error"}, outcome : {"none", "pr", "failed", "waiting"}]

\* The budgets of the settings are never overrun, and the rest is well typed.
AutopilotTypeOK ==
    /\ run \in [Runs -> RunType] /\ loop \in [Runs -> LoopType]
    /\ active \in Runs \cup {None} /\ child \in Runs \cup {None}
    /\ alive \subseteq Runs /\ onMain \in BOOLEAN
    /\ saved \in [Runs -> Statuses]

\* Start is refused while a run is active, and a run that is not active has left
\* its loop or was asked to: no two loops mean to work on the one working tree.
OneLiveLoop ==
    \A r, s \in Runs : r # s /\ Live(r) /\ Live(s) => run[r].stop \/ run[s].stop

\* A run shown as running has a loop that works on it.  Plans and resumed runs
\* are the exception: nothing goes on with them until they are stopped.
RunningHasLoop ==
    \A r \in Runs :
        /\ active = r /\ run[r].status = "running" /\ run[r].mode # "plan" /\ ~run[r].resumed
        => Live(r)

\* The inductive invariant behind these.  A loop that was not stopped works for
\* the active run, which counts as active; a run waits for an answer only once
\* its loop is leaving for that reason; a child is launched within the budgets.
OwnsEngine(r) ==
    Live(r) /\ ~run[r].stop => active = r /\ run[r].status \in {"running", "waiting"}
WaitsLast(r) ==
    Live(r) /\ run[r].status = "waiting" => loop[r].pc = "told" /\ loop[r].outcome = "waiting"
InHand(r) == loop[r].pc = "child" => loop[r].issue \in Issues /\ ~Exhausted(r)
RunInv(r) == OwnsEngine(r) /\ WaitsLast(r) /\ InHand(r)
AutopilotInv == AutopilotTypeOK /\ RunningHasLoop /\ \A r \in Runs : RunInv(r)

\* The engine, at every await of its loops: one of them works on the tree, for the
\* active run, within the budgets.
EngineSafety == AutopilotInv /\ OneLiveLoop

\* What a loop tried it has settled, once and in one way, but for the issue in
\* hand: the mission report, which is built from these sets, leaves none out.
LedgerAgrees ==
    \A r \in Runs : Live(r) =>
        LET tried == {i \in Issues : run[r].attempts[i] > 0}
            inHand == IF loop[r].pc = "child" \/ loop[r].outcome = "waiting"
                      THEN {loop[r].issue} ELSE {}
        IN  /\ tried = run[r].completed \cup run[r].failed \cup inHand
            /\ run[r].completed \cap run[r].failed = {}
            /\ Cardinality(run[r].completed) = run[r].prs

\* docs/ops/autopilot.md:121: the attempts at an issue are capped, whatever is
\* asked for, fails and is picked later.
AttemptsCapped == \A r \in Runs, i \in Issues : run[r].attempts[i] <= 1

\* The books of a mission: nothing tried is unaccounted for or tried again.
LedgerInv == LedgerAgrees /\ AttemptsCapped

\* As long as no run has been stopped, stop has the child of a running loop to
\* send SIGTERM to: exits and launches keep activeChild in step.  (Afterwards
\* the exit of a stopped run's child clears the entry of its successor's.)
StopReachesChild ==
    \A r \in Runs : loop[r].pc = "child" => child = r \/ \E s \in Runs : run[s].stop

\* A run that was asked to stop launches nothing any more, wherever its loop was.
StoppedLaunchesNothing ==
    [][\A r \in Runs : run[r].stop => r \notin alive' \ alive]_apVars

\* A stopped mission of several issues is shown as stopped, whatever its loop
\* was doing.  (A single attempt may overwrite it: OutcomeTold.)
StoppedStaysStopped ==
    \A r \in Runs : run[r].stop /\ run[r].mode # "exec" => run[r].status = "stopped"

\* The file of the active run says how the run ended, once its loop is over:
\* markStopped saves nothing, the return of the lifecycle does.
OverIsSaved ==
    \A r \in Runs : active = r /\ loop[r].pc = "over" => saved[r] = run[r].status

\* Stopping reaches the child, stays, and what is shown of a run, and what its
\* file says, is how it ended.
EndsAsToldInv == StopReachesChild /\ StoppedStaysStopped /\ OverIsSaved

\* A loop comes to its end.
LifecycleEnds == \A r \in Runs : loop[r].pc = "starting" ~> loop[r].pc = "over"

-----------------------------------------------------------------------------
(* A statement of the source that the code does not keep.                  *)

\* docs/ops/autopilot.md:67: an issue whose diff the guard answers BLOCK for is
\* abandoned.
GuardBlockAborts ==
    \A r \in Runs : loop[r].verdict = "BLOCK" => loop[r].outcome = "failed"
=============================================================================
