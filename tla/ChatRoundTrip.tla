---------------------------- MODULE ChatRoundTrip ----------------------------
(***************************************************************************)
(* One chat window of the web client (ChatSession) talking to the API      *)
(* (MessageStream): each call of streamMessage is one request, what the    *)
(* controller writes is what the reader reads, an aborted fetch drops the  *)
(* connection, and a dropped connection or a dead process breaks the body. *)
(***************************************************************************)
EXTENDS Naturals, Sequences

CONSTANTS
    MaxAttempts,            \* bound: the calls of streamMessage
    MaxDeltas,              \* bound: the deltas of one reply
    UnhandledRejectionExits \* as in MessageStream

ASSUME TripAssumption ==
    /\ MaxAttempts \in Nat /\ MaxDeltas \in Nat \ {0}
    /\ UnhandledRejectionExits \in BOOLEAN

VARIABLES up, pc, aborted, idleTimedOut, idleArmed, attached, content, upstream,
          socket, ended, wire, status, cwExists, rows, tx
VARIABLES messages, pending, controller, attempt, mounted

serverVars == <<up, pc, aborted, idleTimedOut, idleArmed, attached, content, upstream,
                socket, ended, wire, status, cwExists, rows, tx>>
uiVars == <<messages, pending, controller, attempt, mounted>>
tripVars == <<serverVars, uiVars>>

Calls == 1..MaxAttempts

Api == INSTANCE MessageStream WITH Requests <- Calls

\* The connection as the browser sees it.  Once the client has aborted or the
\* process has died nothing more is certain to arrive: the body may be broken.
Received(a) ==
    [kind |-> IF upstream[a] # "none" THEN "stream"
              ELSE IF status[a] # 0 THEN "refused" ELSE "none",
     deltas |-> wire[a].deltas,
     event |-> IF wire[a].event \in {"none", "done"} THEN wire[a].event ELSE "errorText",
     closed |-> IF socket[a] = "closed" THEN "lost"
                ELSE IF wire[a].sentinel THEN "end" ELSE "no"]

Web == INSTANCE ChatSession WITH reply <- [a \in Calls |-> Received(a)]

TripInit == Api!Init /\ Web!ChatInit

\* The request reaches the API while its call is in flight; a call aborted
\* before that may or may not have been sent.
RequestArrives(a) ==
    /\ attempt[a].phase # "unused"
    /\ attempt[a].phase # "inflight" => attempt[a].cut
    /\ Api!Arrive(a)
    /\ UNCHANGED uiVars

\* fetch fails when no process listens.
ConnectFails(a) ==
    /\ ~up /\ pc[a] = "idle" /\ Web!Reading(a)
    /\ Web!Fail(a, "failed")
    /\ UNCHANGED serverVars

\* The process keeps running while it is up; these are its steps.
ApiWorks(a) ==
    /\ Api!HandlerStep(a) \/ Api!ProviderStep(a) \/ Api!IdleFires(a)
    /\ UNCHANGED uiVars

\* abort() on the client closes the connection.
AbortCloses(a) == attempt[a].cut /\ Api!ClientDisconnects(a) /\ UNCHANGED uiVars

\* So does the network, at any time.
NetworkDrops(a) == ~attempt[a].cut /\ Api!ClientDisconnects(a) /\ UNCHANGED uiVars

ClientReads(a) == Web!ReaderStep(a) /\ UNCHANGED serverVars

UserActs == Web!UserStep /\ UNCHANGED serverVars

Others == (Api!DeleteWindow \/ Api!Shutdown \/ Api!Restart) /\ UNCHANGED uiVars

TripNext ==
    \/ \E a \in Calls :
          \/ RequestArrives(a) \/ ConnectFails(a) \/ ApiWorks(a)
          \/ AbortCloses(a) \/ NetworkDrops(a) \/ ClientReads(a)
    \/ UserActs
    \/ Others

TripSpec == TripInit /\ [][TripNext]_tripVars

\* The event loops of both programs, the database and the timers run, an aborted
\* fetch settles, a request in flight arrives or fails.  Nothing is assumed of
\* the provider, the network, the user or the operator.
TripFairSpec ==
    /\ TripSpec
    /\ \A a \in Calls :
          /\ WF_tripVars(RequestArrives(a) \/ ConnectFails(a))
          /\ WF_tripVars(Api!HandlerStep(a) /\ UNCHANGED uiVars)
          /\ WF_tripVars(Api!IdleFires(a) /\ UNCHANGED uiVars)
          /\ WF_tripVars(/\ aborted[a]
                         /\ \/ Api!LateChunk(a) \/ Api!GeneratorReturns(a)
                            \/ Api!GeneratorThrows(a)
                         /\ UNCHANGED uiVars)
          /\ WF_tripVars(ClientReads(a))

-----------------------------------------------------------------------------
(* Properties.                                                             *)

Stored(a) == Api!RowsOf(a) # {}

\* A question and answer shown with the server's rows are in the database (or
\* were, when their window has been deleted), and the text shown is the text
\* stored: what the user reads now is what a reload will show.
ConfirmedIsStored ==
    \A a \in Calls : attempt[a].phase = "confirmed" => Stored(a) \/ ~cwExists

ShownIsStored ==
    \A i \in DOMAIN messages :
        LET m == messages[i] IN
        m.role = "assistant" /\ ~m.temp /\ cwExists =>
            [req |-> m.id, role |-> "assistant", deltas |-> m.text] \in rows

\* A question whose call was refused, failed or told of an error, on a
\* connection that stayed open to the end, left nothing in the database: a
\* retry of it does not store it twice.
FailedOverOpenConnection ==
    \A a \in Calls :
        attempt[a].phase = "failed" /\ socket[a] = "open" => ~Stored(a)

\* What the user is shown of his questions is what became of them.
WhatIsShownIsStored == ConfirmedIsStored /\ ShownIsStored /\ FailedOverOpenConnection

\* The composer does not stay locked.
ComposerUnlocks == Web!PendingEnds

-----------------------------------------------------------------------------
(* Statements of the source that the code does not keep.                   *)

\* messages-db.controller.ts:333: an explicit error event lets the client show a
\* real failure; so a question shown as answered was not answered by an error.
ErrorsAreShown ==
    \A a \in Calls :
        attempt[a].phase \in {"confirmed", "unconfirmed"} => wire[a].event \in {"none", "done"}
=============================================================================
