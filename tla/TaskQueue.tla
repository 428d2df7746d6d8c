------------------------------- MODULE TaskQueue -------------------------------
(***************************************************************************)
(* The choice of the next task and its setting up: tools/next-task.mjs,     *)
(* task-score.mjs and task-runner.mjs, the autopilot's choice, and          *)
(* issue-status.mjs, which moves a task on the board, while the owner edits *)
(* the issues.  The labels ai:autonomous and risk:safe, which all of them    *)
(* require together, are one here; so are risk:destructive and              *)
(* ai:human-checkpoint, which all exclude.                                  *)
(***************************************************************************)
EXTENDS Integers, FiniteSets

CONSTANTS
    Issues,         \* numbers of the issues
    Unknown,        \* a number that no issue has
    Clones,         \* each with one runner at a time
    Ranks,          \* priorities in use: 1 is P0-now, 4 is P3-backlog, 5 is none
    MaxEdits        \* bound: edits by the owner

ASSUME QueueAssumption ==
    /\ Issues \subseteq Nat \ {0} /\ IsFiniteSet(Issues) /\ Unknown \in Nat \ Issues
    /\ Ranks \subseteq 1..5 /\ MaxEdits \in Nat

VARIABLES
    priority,       \* of each issue
    needs,          \* dependsOn in the metadata of each issue
    lineNeeds,      \* the line "Depends on:" of each issue
    flags,          \* per issue: its labels, and whether it is assigned or closed
    edits,          \* edits so far
    board,          \* per issue: "runner" if one has set it In Progress, or "other"
    clone           \* per clone: the step of its runner, the task, the branches

queueVars == <<priority, needs, lineNeeds, flags, edits, board, clone>>

Flags == {"autonomous", "excluded", "review", "assigned", "closed"}

QueueInit ==
    /\ priority \in [Issues -> Ranks]
    /\ needs \in [Issues -> SUBSET (Issues \cup {Unknown})]
    /\ lineNeeds \in [Issues -> SUBSET (Issues \cup {Unknown})]
    /\ \A n \in Issues : \A deps \in {needs[n], lineNeeds[n]} :
          deps = {} \/ (n > 1 /\ deps \in {{n - 1}, {Unknown}})
    /\ flags = [n \in Issues |-> {"autonomous"}]
    /\ edits = 0
    /\ board = [n \in Issues |-> "other"]
    /\ clone = [k \in Clones |-> [at |-> "idle", task |-> 0, branches |-> {}]]

Has(n, flag) == flag \in flags[n]
OpenIssues == {n \in Issues : ~Has(n, "closed")}

-----------------------------------------------------------------------------
(* Choosing.  Each of the programs has its own copy of the rules.          *)

\* What every one of them sorts by: the one of the least weight, of two the
\* older, 0 when there is none.
FirstBy(list, weight) ==
    IF list = {} THEN 0
    ELSE CHOOSE n \in list :
            \A m \in list : weight[n] < weight[m] \/ (weight[n] = weight[m] /\ n <= m)

\* next-task: by rank.
NextTask == FirstBy(
    {n \in OpenIssues : /\ Has(n, "autonomous") /\ ~Has(n, "excluded") /\ ~Has(n, "review")
                        /\ ~Has(n, "assigned")},
    priority)

\* Mutant: two ranks in the wrong order.
PointsSwapped(n) == <<100, 30, 60, 10, 0>>[priority[n]]
Points(n) == <<100, 60, 30, 10, 0>>[priority[n]]
If(flag, n, amount) == IF Has(n, flag) THEN amount ELSE 0

\* Of the two labels that exclude, the penalty of the milder.
Penalties(n) == If("excluded", n, 200) + If("review", n, 150) + If("assigned", n, 50)

\* task-runner: by points.
RunnerScore(n) == Points(n) + If("autonomous", n, 60) - Penalties(n)
IsEligible(n) == Has(n, "autonomous") /\ ~Has(n, "excluded") /\ ~Has(n, "assigned")
PickCandidate == FirstBy({n \in OpenIssues : IsEligible(n)},
                         [n \in Issues |-> -RunnerScore(n)])

\* task-score, which calls a task autonomous and recommends the runner for it
\* unless too little care was taken of the issue.
IsAutonomous(n) == n \in OpenIssues /\ IsEligible(n) /\ ~Has(n, "review")

\* What the autopilot may take, from the queue of task-score: it is told neither
\* of assignees nor, whatever its setting, of age.
SafeTasks == {n \in OpenIssues : Has(n, "autonomous") /\ ~Has(n, "excluded") /\ ~Has(n, "review")}

\* What task-deps does not call blocked: it reads both forms of a dependency.
IsReady(n) == needs[n] \cup lineNeeds[n] \subseteq Issues \ OpenIssues

\* checkDeps, which reads the metadata alone, checkSafety and the last refusals of
\* the runner.
DepsClosed(n) == needs[n] \subseteq Issues \ OpenIssues
IsSafe(n) == Has(n, "autonomous") /\ ~Has(n, "excluded")
Accepts(n) == IsSafe(n) /\ DepsClosed(n) /\ RunnerScore(n) > 0

-----------------------------------------------------------------------------
(* Setting up, with --exec, in a clean working tree.                       *)

Moves(k, at, n) ==
    clone' = [clone EXCEPT ![k] = [at |-> at, task |-> n, branches |-> @.branches]]

\* All that is decided is decided on one list of the issues.  A task may be
\* pinned; a refusal, also for a word in the body of the issue, changes nothing.
PlansTask(k) ==
    /\ clone[k].at = "idle"
    /\ \E n \in {PickCandidate} \cup OpenIssues :
          n # 0 /\ Accepts(n) /\ Moves(k, "mark", n)
    /\ UNCHANGED <<priority, needs, lineNeeds, flags, edits, board>>

\* issue-status; the runner continues when it fails.
MarksInProgress(k) ==
    /\ clone[k].at = "mark"
    /\ board' \in {board, [board EXCEPT ![clone[k].task] = "runner"]}
    /\ Moves(k, "branch", clone[k].task)
    /\ UNCHANGED <<priority, needs, lineNeeds, flags, edits>>

CreatesBranch(k) ==
    /\ clone[k].at = "branch"
    /\ clone' = [clone EXCEPT ![k] = [at |-> "idle", task |-> 0,
                                      branches |-> @.branches \cup {clone[k].task}]]
    /\ UNCHANGED <<priority, needs, lineNeeds, flags, edits, board>>

\* The branch exists: its name is made of the issue.
BranchExists(k) ==
    /\ clone[k].at = "branch" /\ clone[k].task \in clone[k].branches
    /\ Moves(k, "idle", 0)
    /\ UNCHANGED <<priority, needs, lineNeeds, flags, edits, board>>

\* git fails otherwise, or the runner is interrupted; the issue stays where it is
\* on the board.
SetUpFails(k) ==
    /\ clone[k].at # "idle"
    /\ Moves(k, "idle", 0)
    /\ UNCHANGED <<priority, needs, lineNeeds, flags, edits, board>>

-----------------------------------------------------------------------------
(* The owner.                                                              *)

Edits(n) ==
    /\ edits < MaxEdits
    /\ edits' = edits + 1
    /\ \E flag \in Flags :
          flags' = [flags EXCEPT ![n] = IF flag \in @ THEN @ \ {flag} ELSE @ \cup {flag}]
    /\ UNCHANGED <<priority, needs, lineNeeds, board, clone>>

\* issue-status by hand; what the owner sets In Progress himself counts as other.
SetsStatus(n) ==
    /\ board[n] # "other"
    /\ board' = [board EXCEPT ![n] = "other"]
    /\ UNCHANGED <<priority, needs, lineNeeds, flags, edits, clone>>

QueueNext ==
    \/ \E k \in Clones : \/ PlansTask(k) \/ MarksInProgress(k) \/ CreatesBranch(k)
                         \/ BranchExists(k) \/ SetUpFails(k)
    \/ \E n \in Issues : Edits(n) \/ SetsStatus(n)

-----------------------------------------------------------------------------
(* Properties.                                                             *)

\* What next-task shows is what the runner picks, so long as no open issue asks
\* for a review: the two rank by different numbers to the same order.
SameChoice == (\A n \in OpenIssues : ~Has(n, "review")) => NextTask = PickCandidate

\* Four copies of the rules: what the queue calls autonomous is what the autopilot
\* may take and nobody is assigned to; and where task-deps sees nothing in its way
\* the runner accepts it, but for the words of the body, which none of the others
\* looks at.  The converse does not hold: the runner accepts what waits for an
\* issue that only the line names.
AutonomousIsAccepted == \A n \in Issues :
    /\ IsAutonomous(n) <=> n \in SafeTasks /\ ~Has(n, "assigned")
    /\ IsAutonomous(n) /\ IsReady(n) => Accepts(n)

\* The scripts agree on what comes next and on what may be taken.
QueueInv == SameChoice /\ AutonomousIsAccepted

QueueSpec == QueueInit /\ [][QueueNext]_queueVars
=============================================================================
