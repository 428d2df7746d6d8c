------------------------------- MODULE TaskDeps -------------------------------
(***************************************************************************)
(* tools/task-deps.mjs: which open issues wait for which, what is ready,    *)
(* and which wait for each other.  The search for cycles is the code's      *)
(* depth-first search with three colours, one look at a neighbour a step,   *)
(* on every graph the issues may declare.                                  *)
(***************************************************************************)
EXTENDS Naturals, Sequences, FiniteSets

CONSTANT Tasks      \* numbers, of issues or not

ASSUME DepsAssumption == Tasks \subseteq Nat /\ IsFiniteSet(Tasks)

VARIABLES
    tracker,        \* state of each number on GitHub; "none": there is no such issue
    declared,       \* what each open issue says it depends on
    color,          \* of the open issues
    path,           \* the stack of the search: nodes, with the neighbours to look at
    cycles          \* found

depsVars == <<tracker, declared, color, path, cycles>>

Opened == {n \in Tasks : tracker[n] = "OPEN"}

\* The plain line and the block of metadata, united.
ParsesDependsOn ==
    /\ declared \in [Tasks -> SUBSET Tasks]
    /\ \A n \in Tasks \ Opened : declared[n] = {}

\* Only open issues that wait for open issues.
CycleGraph == [n \in Opened |-> declared[n] \cap Opened]

DepsInit ==
    /\ tracker \in [Tasks -> {"OPEN", "CLOSED", "none"}]
    /\ ParsesDependsOn
    /\ color = [n \in Tasks |-> "WHITE"]
    /\ path = <<>> /\ cycles = {}

-----------------------------------------------------------------------------
(* detectCycles.                                                           *)

Top == path[Len(path)]
Nodes == [i \in DOMAIN path |-> path[i].node]

\* Mutant: a node on the way is told from one that is done no more.
VisitsBlack(n, below) ==
    /\ color' = [color EXCEPT ![n] = "BLACK"]
    /\ path' = Append(below, [node |-> n, rest |-> CycleGraph[n]])
    /\ UNCHANGED cycles
Visits(n, below) ==
    /\ color' = [color EXCEPT ![n] = "GRAY"]
    /\ path' = Append(below, [node |-> n, rest |-> CycleGraph[n]])
    /\ UNCHANGED cycles

\* The issues come in the order of the list, which GitHub chooses.
Roots == \E n \in Opened :
    /\ path = <<>> /\ color[n] = "WHITE"
    /\ Visits(n, <<>>)

\* Neighbours are looked at in the order of their numbers.
Looks ==
    /\ path # <<>> /\ Top.rest # {}
    /\ LET next == CHOOSE d \in Top.rest : \A e \in Top.rest : d <= e
           below == [path EXCEPT ![Len(path)].rest = @ \ {next}]
       IN \/ color[next] = "WHITE" /\ Visits(next, below)
          \/ /\ color[next] = "GRAY"
             /\ LET i == CHOOSE i \in DOMAIN path : path[i].node = next
                IN cycles' = cycles \cup {SubSeq(Nodes, i, Len(path)) \o <<next>>}
             /\ path' = below /\ UNCHANGED color
          \/ /\ color[next] = "BLACK"
             /\ path' = below /\ UNCHANGED <<color, cycles>>

Leaves ==
    /\ path # <<>> /\ Top.rest = {}
    /\ color' = [color EXCEPT ![Top.node] = "BLACK"]
    /\ path' = SubSeq(path, 1, Len(path) - 1)
    /\ UNCHANGED cycles

DepsNext == (Roots \/ Looks \/ Leaves) /\ UNCHANGED <<tracker, declared>>

-----------------------------------------------------------------------------
(* What is printed.                                                        *)

NoDeps == {n \in Opened : declared[n] = {}}
OpenDeps(n) == declared[n] \cap Opened
MissingDeps(n) == {d \in declared[n] : tracker[d] = "none"}
ReadyTasks == {n \in Opened \ NoDeps : OpenDeps(n) = {} /\ MissingDeps(n) = {}}
BlockedTasks == Opened \ (NoDeps \cup ReadyTasks)

Searched == path = <<>> /\ \A n \in Opened : color[n] # "WHITE"

-----------------------------------------------------------------------------
(* Properties.                                                             *)

\* m is in the least set that holds what n waits for and, with an issue, what
\* that one waits for.
Reaches(n, m) == \A S \in SUBSET Opened :
    CycleGraph[n] \subseteq S /\ (\A s \in S : CycleGraph[s] \subseteq S) => m \in S

\* What is reported is a way along declared dependencies of open issues that
\* ends where it began and passes no other issue twice.
CyclesAreReal == \A c \in cycles :
    /\ c[1] = c[Len(c)] /\ Len(c) > 1
    /\ \A i \in 1..(Len(c) - 1) : c[i + 1] \in CycleGraph[c[i]]
    /\ \A i, j \in 2..Len(c) : c[i] = c[j] => i = j

\* A search that is through has reported, for every issue that waits for
\* itself in the end, a cycle among those that wait for it and it for them.
KnotsAreFound == Searched =>
    \A n \in Opened : Reaches(n, n) =>
        \E c \in cycles : Reaches(n, c[1]) /\ Reaches(c[1], n)

\* When everything open waits for something and nothing is ready, the report
\* says why: an unknown reference or a cycle.
StandstillIsExplained ==
    Searched /\ Opened # {} /\ NoDeps = {} /\ ReadyTasks = {} =>
        cycles # {} \/ \E n \in BlockedTasks : MissingDeps(n) # {}

DepsInv == CyclesAreReal /\ KnotsAreFound /\ StandstillIsExplained

DepsSpec == DepsInit /\ [][DepsNext]_depsVars
=============================================================================
