----------------------------- MODULE RunConsole -----------------------------
(***************************************************************************)
(* The runs of the local console: tools/local-control/server.mjs starts a   *)
(* command through runner.mjs, logs.mjs keeps its output and its fate, and  *)
(* any number of pages follow it as a stream of events.                     *)
(*                                                                         *)
(* An action is what one event makes the process do: a request whose body   *)
(* is complete, a chunk or the end of a child, a connection that goes.      *)
(***************************************************************************)
EXTENDS Naturals, Sequences, FiniteSets

CONSTANTS
    MaxIds,         \* bound: runs started
    MaxChunks,      \* bound: chunks a run writes
    HistoryMax,     \* chunks kept in memory; 5000 in logs.mjs
    MaxAsks,        \* bound: requests whose body is on its way
    Viewers         \* bound: pages that follow a run

ASSUME ConsoleAssumption ==
    /\ MaxIds \in Nat /\ MaxChunks \in Nat /\ HistoryMax \in Nat \ {0} /\ MaxAsks \in Nat

VARIABLES
    record,     \* what StateStore tells of a run
    process,    \* per run: its child
    running,    \* runner.active
    history,    \* LogStore.history, chunks by their number
    written,    \* chunks a run has written, all of them in its file
    viewer,     \* the streams of events
    asks,       \* requests to start a run whose body is awaited
    crashed     \* the console has been restarted

consoleVars == <<record, process, running, history, written, viewer, asks, crashed>>

Ids == 1..MaxIds
NoViewer == [at |-> "off", run |-> 0, got |-> <<>>]

ConsoleInit ==
    /\ record = [r \in Ids |-> "none"]
    /\ process = [r \in Ids |-> "none"]
    /\ running = {}
    /\ history = [r \in Ids |-> <<>>]
    /\ written = [r \in Ids |-> 0]
    /\ viewer = [v \in Viewers |-> NoViewer]
    /\ asks = 0
    /\ crashed = FALSE

Follows(v, r) == viewer[v].at = "open" /\ viewer[v].run = r

-----------------------------------------------------------------------------
(* Starting and stopping.                                                  *)

Asks ==
    /\ asks < MaxAsks
    /\ asks' = asks + 1
    /\ UNCHANGED <<record, process, running, history, written, viewer, crashed>>

\* Every endpoint that starts a run looks once its body has been read, and
\* starts before it waits for anything else.
MayStart == running = {}

Launched(r) ==
    /\ record[r] = "none"
    /\ \A q \in Ids : record[q] = "none" => r <= q
    /\ record' = [record EXCEPT ![r] = "running"]
    /\ process' = [process EXCEPT ![r] = "alive"]
    /\ running' = running \cup {r}

\* A body that cannot be parsed (422), a run that is active (409), or a start.
BodyArrives ==
    /\ asks > 0
    /\ asks' = asks - 1
    /\ \/ UNCHANGED <<record, process, running>>
       \/ MayStart /\ \E r \in Ids : Launched(r)
    /\ UNCHANGED <<history, written, viewer, crashed>>

\* The doctor and the plan of a task need no body.
StartsAtOnce ==
    /\ MayStart
    /\ \E r \in Ids : Launched(r)
    /\ UNCHANGED <<history, written, viewer, asks, crashed>>

Stops(r) ==
    /\ r \in running
    /\ process' = [process EXCEPT ![r] = "signalled"]
    /\ UNCHANGED <<record, running, history, written, viewer, asks, crashed>>

-----------------------------------------------------------------------------
(* What a child says.                                                      *)

\* The last chunks, as many as are kept.
Kept(chunks) == SubSeq(chunks, IF Len(chunks) > HistoryMax THEN 2 ELSE 1, Len(chunks))

\* A failed spawn is told in the same way, and then closes with a code.
Writes(r) ==
    /\ r \in running /\ written[r] < MaxChunks
    /\ LET n == written[r] + 1 IN
       /\ written' = [written EXCEPT ![r] = n]
       /\ history' = [history EXCEPT ![r] = Kept(Append(history[r], n))]
       /\ viewer' = [v \in Viewers |->
                        IF Follows(v, r) THEN [viewer[v] EXCEPT !.got = Append(viewer[v].got, n)]
                        ELSE viewer[v]]
    /\ UNCHANGED <<record, process, running, asks, crashed>>

\* A child ended by a signal has no exit code.
Closes(r) ==
    /\ r \in running
    /\ \E fate \in {"done", "error"} \cup (IF process[r] = "signalled" THEN {"signal"} ELSE {}) :
          record' = [record EXCEPT ![r] = fate]
    /\ process' = [process EXCEPT ![r] = "gone"]
    /\ running' = running \ {r}
    /\ viewer' = [v \in Viewers |->
                     IF Follows(v, r) THEN [viewer[v] EXCEPT !.at = "ended"] ELSE viewer[v]]
    /\ UNCHANGED <<history, written, asks, crashed>>

-----------------------------------------------------------------------------
(* Following a run.                                                        *)

\* Mutant: the exit code is tested for being true.
HasEndedTruthy(r) == record[r] = "error"
\* exitCode is null as long as the run goes on, and for good after a signal.
HasEnded(r) == record[r] \in {"done", "error"}

\* What is replayed: the chunks in memory, or the file of a run that the
\* process does not know, whose last writes may be missing.
Replays(r) ==
    IF record[r] # "forgotten" THEN {history[r]}
    ELSE {[i \in 1..n |-> i] : n \in 0..written[r]}

OpensStream(v, r) ==
    /\ viewer[v].at = "off"
    /\ record[r] # "none"
    /\ \E chunks \in Replays(r) :
          viewer' = [viewer EXCEPT ![v] = [at |-> IF HasEnded(r) THEN "ended" ELSE "open",
                                           run |-> r, got |-> chunks]]
    /\ UNCHANGED <<record, process, running, history, written, asks, crashed>>

LeavesStream(v) ==
    /\ viewer[v].at # "off"
    /\ viewer' = [viewer EXCEPT ![v] = NoViewer]
    /\ UNCHANGED <<record, process, running, history, written, asks, crashed>>

-----------------------------------------------------------------------------
(* The console is restarted: launch.mjs kills whatever holds its port.      *)

Crash ==
    /\ ~crashed
    /\ crashed' = TRUE
    /\ record' = [r \in Ids |-> IF record[r] = "none" THEN "none" ELSE "forgotten"]
    /\ process' = [r \in Ids |-> IF r \in running THEN "orphan" ELSE process[r]]
    /\ running' = {}
    /\ history' = [r \in Ids |-> <<>>]
    /\ viewer' = [v \in Viewers |-> IF viewer[v].at = "open" THEN NoViewer ELSE viewer[v]]
    /\ asks' = 0
    /\ UNCHANGED written

\* A child outlives the console that started it.
OrphanEnds(r) ==
    /\ process[r] = "orphan"
    /\ process' = [process EXCEPT ![r] = "gone"]
    /\ UNCHANGED <<record, running, history, written, viewer, asks, crashed>>

ConsoleNext ==
    \/ Asks \/ BodyArrives \/ StartsAtOnce \/ Crash
    \/ \E r \in Ids : Stops(r) \/ Writes(r) \/ Closes(r) \/ OrphanEnds(r)
    \/ \E v \in Viewers : LeavesStream(v) \/ \E r \in Ids : OpensStream(v, r)

-----------------------------------------------------------------------------
(* Properties.                                                             *)

RecordTypeOK ==
    /\ record \in [Ids -> {"none", "running", "done", "error", "signal", "forgotten"}]
    /\ process \in [Ids -> {"none", "alive", "signalled", "gone", "orphan"}]
    /\ viewer \in [Viewers -> [at : {"off", "open", "ended"}, run : 0..MaxIds,
                               got : UNION {[1..n -> 1..MaxChunks] : n \in 0..MaxChunks}]]

\* However their bodies arrive, one command at a time works in the repository
\* for one console.
OneRun == Cardinality(running) <= 1

\* A run is listed as running while its child is.
ListedAsItIs ==
    \A r \in Ids : record[r] = "running" <=> process[r] \in {"alive", "signalled"}

\* Who follows a run this console started has its output from some chunk on
\* without a gap, a repetition or a change of order, up to the last one.
OutputIsWhole ==
    \A v \in Viewers :
        LET s == viewer[v] IN
        s.at # "off" /\ record[s.run] # "forgotten" =>
            \A i \in DOMAIN s.got : s.got[i] = written[s.run] - Len(s.got) + i

\* Nobody waits for the end of a run that is over, unless a signal ended it or
\* it belonged to an earlier console: those streams stay open.
EndIsTold ==
    \A v \in Viewers :
        viewer[v].at = "open" => record[viewer[v].run] \in {"running", "signal", "forgotten"}

\* The console never loses count of what it runs, and tells it right.
RunsInv == RecordTypeOK /\ OneRun /\ ListedAsItIs /\ OutputIsWhole /\ EndIsTold
=============================================================================
