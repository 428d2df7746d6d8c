---------------------------- MODULE MessageStream ----------------------------
(***************************************************************************)
(* POST /v1/messages/stream of apps/api: streamMessageDbController, the    *)
(* provider generator it iterates, the transaction that stores the         *)
(* question and its answer, and the request wrapper around it.             *)
(*                                                                         *)
(* One process per request.  The controller is a sequence of synchronous   *)
(* blocks separated by awaits; each block is one action, and timers,       *)
(* socket events, other requests, the deletion of the chat window and the  *)
(* end of the process happen between blocks.                               *)
(***************************************************************************)
EXTENDS Naturals

CONSTANTS
    Requests,               \* the requests the process may receive
    MaxDeltas,              \* bound: the non-empty deltas a provider sends
    UnhandledRejectionExits \* TRUE: Node's default.  FALSE: the Sentry SDK is
                            \* on and its listener keeps the process alive

ASSUME MessageStreamAssumption ==
    /\ MaxDeltas \in Nat \ {0}
    /\ UnhandledRejectionExits \in BOOLEAN

VARIABLES
    \* the process
    up,             \* the Node process runs
    pc,             \* the await each handler is at
    aborted,        \* let aborted: set with every upstreamAbort.abort()
    idleTimedOut,   \* let idleTimedOut
    idleArmed,      \* idleTimer # null
    attached,       \* keepalive interval running, close/error listeners on
    content,        \* assistantContent, as the number of deltas in it
    upstream,       \* how the provider's generator stands
    \* the HTTP exchange
    socket,         \* the connection to the client
    ended,          \* res.writableEnded
    wire,           \* what the client has been sent
    status,         \* the httpStatus of the handler's result, 0 before it
    \* the database
    cwExists,       \* the chat window's row
    rows,           \* the committed rows of messages
    tx              \* the rows of each open transaction

handlerVars == <<pc, aborted, idleTimedOut, idleArmed, attached, content, upstream>>
httpVars == <<socket, ended, wire, status>>
dbVars == <<cwExists, rows, tx>>
vars == <<up, handlerVars, httpVars, dbVars>>

Preparing == {"auth", "window", "key", "history"}
Storing == {"checking", "insertUser", "insertReply", "commit", "committed"}
Running == Preparing \cup {"streaming"} \cup Storing
Settled == {"returned", "threw", "dead"}

ErrorEvents == {"idle_timeout", "provider_error", "empty_response", "chat_window_not_found"}
Events == {"none", "done"} \cup ErrorEvents
Statuses == {0, 200, 400, 401, 404, 412, 499, 500, 502, 504}

\* The rows of messages, by the request that wrote them and the text they hold.
UserRow(r) == [req |-> r, role |-> "user", deltas |-> 0]
\* Mutant: the last delta is missing from the stored text.
ReplyRowCutShort(r) == [req |-> r, role |-> "assistant", deltas |-> content[r] - 1]
ReplyRow(r) == [req |-> r, role |-> "assistant", deltas |-> content[r]]
Rows == [req : Requests, role : {"user", "assistant"}, deltas : 0..MaxDeltas]
RowsOf(r) == {row \in rows : row.req = r}

Init ==
    /\ up = TRUE
    /\ pc = [r \in Requests |-> "idle"]
    /\ aborted = [r \in Requests |-> FALSE]
    /\ idleTimedOut = [r \in Requests |-> FALSE]
    /\ idleArmed = [r \in Requests |-> FALSE]
    /\ attached = [r \in Requests |-> FALSE]
    /\ content = [r \in Requests |-> 0]
    /\ upstream = [r \in Requests |-> "none"]
    /\ socket = [r \in Requests |-> "none"]
    /\ ended = [r \in Requests |-> FALSE]
    /\ wire = [r \in Requests |-> [deltas |-> 0, event |-> "none", sentinel |-> FALSE]]
    /\ status = [r \in Requests |-> 0]
    /\ cwExists = TRUE
    /\ rows = {}
    /\ tx = [r \in Requests |-> {}]

-----------------------------------------------------------------------------
(* Effects the handler's blocks share.                                     *)

\* Bytes written after the socket has closed are dropped by the stream.
Write(r, w) == wire' = [wire EXCEPT ![r] = IF socket[r] = "open" THEN w ELSE @]

\* cleanup(): both timers cleared, both listeners off.
Cleanup(r) ==
    /\ idleArmed' = [idleArmed EXCEPT ![r] = FALSE]
    /\ attached' = [attached EXCEPT ![r] = FALSE]

\* Mutant: the return after res.end() is missing.
ReturnFallsThrough(r, st) ==
    /\ ended' = [ended EXCEPT ![r] = TRUE]
    /\ status' = [status EXCEPT ![r] = st]
    /\ UNCHANGED pc

\* res.end() and the return of the handler with code st.
Return(r, st) ==
    /\ ended' = [ended EXCEPT ![r] = TRUE]
    /\ status' = [status EXCEPT ![r] = st]
    /\ pc' = [pc EXCEPT ![r] = "returned"]

\* A branch that ends the event stream: cleanup, the last event, [DONE], end.
EndStream(r, st, ev) ==
    /\ Cleanup(r)
    /\ Write(r, [wire[r] EXCEPT !.event = ev, !.sentinel = TRUE])
    /\ Return(r, st)

\* A response sent before the stream starts, through writeJson.
Refuse(r, st) ==
    /\ Return(r, st)
    /\ UNCHANGED <<up, aborted, idleTimedOut, idleArmed, attached, content, upstream,
                   socket, wire, dbVars>>

Goto(r, label) == pc' = [pc EXCEPT ![r] = label]

\* The process ends: its sockets close, its open transactions roll back and
\* every handler still running is gone.
ProcessEnds ==
    LET lost == {r \in Requests : pc[r] \in Running \cup {"threw"}} IN
    /\ up' = FALSE
    /\ pc' = [r \in Requests |-> IF r \in lost THEN "dead" ELSE pc[r]]
    /\ socket' = [r \in Requests |-> IF socket[r] = "none" THEN "none" ELSE "closed"]
    /\ idleArmed' = [r \in Requests |-> FALSE]
    /\ attached' = [r \in Requests |-> FALSE]
    /\ tx' = [r \in Requests |-> {}]
    /\ UNCHANGED <<aborted, idleTimedOut, content, upstream, ended, wire, status,
                   cwExists, rows>>

-----------------------------------------------------------------------------
(* The request wrapper and the checks before the stream.                   *)

Arrive(r) ==
    /\ up /\ pc[r] = "idle"
    /\ Goto(r, "auth")
    /\ socket' = [socket EXCEPT ![r] = "open"]
    /\ UNCHANGED <<up, aborted, idleTimedOut, idleArmed, attached, content, upstream,
                   ended, wire, status, dbVars>>

\* An await before the headers rejects: handleRequest's catch answers 500.
PrepareThrows(r) == pc[r] \in Preparing /\ Refuse(r, 500)

Authenticate(r) ==
    /\ pc[r] = "auth"
    /\ \/ \E st \in {401, 400} : Refuse(r, st)
       \/ /\ Goto(r, "window")
          /\ UNCHANGED <<up, aborted, idleTimedOut, idleArmed, attached, content, upstream,
                         httpVars, dbVars>>

FindWindow(r) ==
    /\ pc[r] = "window"
    /\ \/ ~cwExists /\ Refuse(r, 404)
       \/ cwExists /\ Refuse(r, 412)      \* no adapter for its provider
       \/ /\ cwExists
          /\ Goto(r, "key")
          /\ UNCHANGED <<up, aborted, idleTimedOut, idleArmed, attached, content, upstream,
                         httpVars, dbVars>>

GetKey(r) ==
    /\ pc[r] = "key"
    /\ \/ Refuse(r, 412)                  \* no connection for the provider
       \/ /\ Goto(r, "history")
          /\ UNCHANGED <<up, aborted, idleTimedOut, idleArmed, attached, content, upstream,
                         httpVars, dbVars>>

\* Mutant: the idle timer is armed only by the first delta.
StartStreamUnarmed(r) ==
    /\ pc[r] = "history"
    /\ Goto(r, "streaming")
    /\ attached' = [attached EXCEPT ![r] = TRUE]
    /\ upstream' = [upstream EXCEPT ![r] = "open"]
    /\ UNCHANGED <<up, aborted, idleTimedOut, idleArmed, content, httpVars, dbVars>>

\* The history is read (a null history is an empty one), the headers go out,
\* keepalive and listeners are set, the idle timer armed and the generator
\* entered: one block.  A socket that has closed already emits no more 'close'.
StartStream(r) ==
    /\ pc[r] = "history"
    /\ Goto(r, "streaming")
    /\ attached' = [attached EXCEPT ![r] = TRUE]
    /\ idleArmed' = [idleArmed EXCEPT ![r] = TRUE]
    /\ upstream' = [upstream EXCEPT ![r] = "open"]
    /\ UNCHANGED <<up, aborted, idleTimedOut, content, httpVars, dbVars>>

-----------------------------------------------------------------------------
(* The loop over the provider's chunks.                                    *)

\* After the loop: idle time-out, then abort or empty answer, then storing.
AfterLoop(r) ==
    IF idleTimedOut[r] THEN EndStream(r, 504, "idle_timeout") /\ UNCHANGED <<up, socket>>
    ELSE IF aborted[r] THEN EndStream(r, 499, "none") /\ UNCHANGED <<up, socket>>
    ELSE IF content[r] = 0 THEN EndStream(r, 502, "empty_response") /\ UNCHANGED <<up, socket>>
    ELSE Goto(r, "checking") /\ UNCHANGED <<up, idleArmed, attached, httpVars>>

\* Mutant: no "if (aborted) break".
DeltaAfterAbort(r) ==
    /\ pc[r] = "streaming"
    /\ content[r] < MaxDeltas
    /\ content' = [content EXCEPT ![r] = @ + 1]
    /\ Write(r, [wire[r] EXCEPT !.deltas = @ + 1])
    /\ idleArmed' = [idleArmed EXCEPT ![r] = TRUE]
    /\ UNCHANGED <<up, pc, aborted, idleTimedOut, attached, upstream, socket, ended, status,
                   dbVars>>

\* A delta that carries text: forwarded, kept, and the idle timer re-armed.
\* (An empty delta changes nothing: it is a stuttering step.)
Delta(r) ==
    /\ pc[r] = "streaming" /\ ~aborted[r]
    /\ content[r] < MaxDeltas
    /\ content' = [content EXCEPT ![r] = @ + 1]
    /\ Write(r, [wire[r] EXCEPT !.deltas = @ + 1])
    /\ idleArmed' = [idleArmed EXCEPT ![r] = TRUE]
    /\ UNCHANGED <<up, pc, aborted, idleTimedOut, attached, upstream, socket, ended, status,
                   dbVars>>

\* A chunk that was already read when the call was aborted: the loop breaks.
LateChunk(r) ==
    /\ pc[r] = "streaming" /\ aborted[r]
    /\ upstream' = [upstream EXCEPT ![r] = "abandoned"]
    /\ AfterLoop(r)
    /\ UNCHANGED <<aborted, idleTimedOut, content, dbVars>>

\* The generator yields its 'done' chunk and returns.
GeneratorReturns(r) ==
    /\ pc[r] = "streaming"
    /\ upstream' = [upstream EXCEPT ![r] = "returned"]
    /\ AfterLoop(r)
    /\ UNCHANGED <<aborted, idleTimedOut, content, dbVars>>

\* The generator throws, by itself or because the call was aborted.
GeneratorThrows(r) ==
    /\ pc[r] = "streaming"
    /\ upstream' = [upstream EXCEPT ![r] = "threw"]
    /\ \/ idleTimedOut[r] /\ EndStream(r, 504, "idle_timeout")
       \/ ~idleTimedOut[r] /\ aborted[r] /\ Cleanup(r) /\ Return(r, 499) /\ UNCHANGED wire
       \/ ~idleTimedOut[r] /\ ~aborted[r] /\ EndStream(r, 502, "provider_error")
    /\ UNCHANGED <<up, aborted, idleTimedOut, content, socket, dbVars>>

-----------------------------------------------------------------------------
(* Timers and socket events.                                               *)

IdleFires(r) ==
    /\ idleArmed[r]
    /\ idleArmed' = [idleArmed EXCEPT ![r] = FALSE]
    /\ IF ended[r]
       THEN UNCHANGED <<aborted, idleTimedOut>>
       ELSE /\ idleTimedOut' = [idleTimedOut EXCEPT ![r] = TRUE]
            /\ aborted' = [aborted EXCEPT ![r] = TRUE]
    /\ UNCHANGED <<up, pc, attached, content, upstream, httpVars, dbVars>>

\* The client drops the connection: 'close', or 'error' and then 'close', runs
\* the listener if it is attached.
ClientDisconnects(r) ==
    /\ socket[r] = "open" /\ ~ended[r]
    /\ socket' = [socket EXCEPT ![r] = "closed"]
    /\ IF attached[r]
       THEN Cleanup(r) /\ aborted' = [aborted EXCEPT ![r] = TRUE]
       ELSE UNCHANGED <<idleArmed, attached, aborted>>
    /\ UNCHANGED <<up, pc, idleTimedOut, content, upstream, ended, wire, status, dbVars>>

-----------------------------------------------------------------------------
(* insertMessagePair: the ownership check, then one transaction.           *)

\* The promise of persistMessagePair rejects.  The headers are out, so the 500
\* of handleRequest's catch throws too and nobody awaits handleRequest.
HandlerRejects(r) ==
    IF UnhandledRejectionExits
    THEN ProcessEnds
    ELSE /\ Goto(r, "threw")
         /\ tx' = [tx EXCEPT ![r] = {}]
         /\ UNCHANGED <<up, aborted, idleTimedOut, idleArmed, attached, content, upstream,
                        httpVars, cwExists, rows>>

CheckWindow(r) ==
    /\ pc[r] = "checking"
    /\ IF cwExists
       THEN Goto(r, "insertUser") /\ UNCHANGED <<idleArmed, attached, ended, wire, status>>
       ELSE EndStream(r, 404, "chat_window_not_found")
    /\ UNCHANGED <<up, aborted, idleTimedOut, content, upstream, socket, dbVars>>

\* Mutant: the first insert is made outside the transaction.
InsertUserAlone(r) ==
    /\ pc[r] = "insertUser" /\ cwExists
    /\ rows' = rows \cup {UserRow(r)}
    /\ Goto(r, "insertReply")
    /\ UNCHANGED <<up, aborted, idleTimedOut, idleArmed, attached, content, upstream, httpVars,
                   cwExists, tx>>

\* The first insert: its foreign key takes a lock on the chat window's row.
InsertUser(r) ==
    /\ pc[r] = "insertUser" /\ cwExists
    /\ tx' = [tx EXCEPT ![r] = @ \cup {UserRow(r)}]
    /\ Goto(r, "insertReply")
    /\ UNCHANGED <<up, aborted, idleTimedOut, idleArmed, attached, content, upstream, httpVars,
                   cwExists, rows>>

\* Mutant: the client is told before the transaction commits.
InsertReplyTellsFirst(r) ==
    /\ pc[r] = "insertReply"
    /\ tx' = [tx EXCEPT ![r] = {}]
    /\ EndStream(r, 200, "done")
    /\ UNCHANGED <<up, aborted, idleTimedOut, content, upstream, socket, cwExists, rows>>

InsertReply(r) ==
    /\ pc[r] = "insertReply"
    /\ tx' = [tx EXCEPT ![r] = @ \cup {ReplyRow(r)}]
    /\ Goto(r, "commit")
    /\ UNCHANGED <<up, aborted, idleTimedOut, idleArmed, attached, content, upstream, httpVars,
                   cwExists, rows>>

Commit(r) ==
    /\ pc[r] = "commit"
    /\ rows' = rows \cup tx[r]
    /\ tx' = [tx EXCEPT ![r] = {}]
    /\ Goto(r, "committed")
    /\ UNCHANGED <<up, aborted, idleTimedOut, idleArmed, attached, content, upstream, httpVars,
                   cwExists>>

\* A query fails (the foreign key, the connection), or the answer to the
\* commit is lost after the commit.
StoreThrows(r) == pc[r] \in Storing /\ HandlerRejects(r)

\* The pair is stored: cleanup, the final event, [DONE], end.  Neither flag is
\* looked at again.
Complete(r) ==
    /\ pc[r] = "committed"
    /\ EndStream(r, 200, "done")
    /\ UNCHANGED <<up, aborted, idleTimedOut, content, upstream, socket, dbVars>>

-----------------------------------------------------------------------------
(* The rest of the system.                                                 *)

\* DELETE /v1/chat-windows/:id: the row goes and its messages cascade.  It
\* waits for the transactions that hold the row's lock.
DeleteWindow ==
    /\ cwExists
    /\ \A r \in Requests : tx[r] = {}
    /\ cwExists' = FALSE
    /\ rows' = {}
    /\ UNCHANGED <<up, handlerVars, httpVars, tx>>

\* A signal: in-flight handlers are cut when the hard exit of shutdown fires.
Shutdown == up /\ ProcessEnds

Restart ==
    /\ ~up
    /\ up' = TRUE
    /\ UNCHANGED <<handlerVars, httpVars, dbVars>>

HandlerStep(r) ==
    \/ PrepareThrows(r) \/ Authenticate(r) \/ FindWindow(r) \/ GetKey(r) \/ StartStream(r)
    \/ CheckWindow(r) \/ InsertUser(r) \/ InsertReply(r) \/ Commit(r) \/ StoreThrows(r)
    \/ Complete(r)

ProviderStep(r) == Delta(r) \/ LateChunk(r) \/ GeneratorReturns(r) \/ GeneratorThrows(r)

RequestStep(r) ==
    Arrive(r) \/ HandlerStep(r) \/ ProviderStep(r) \/ IdleFires(r) \/ ClientDisconnects(r)

Next ==
    \/ \E r \in Requests : RequestStep(r)
    \/ DeleteWindow
    \/ Shutdown
    \/ Restart

Spec == Init /\ [][Next]_vars

\* The event loop resumes a handler whose await has settled, the database
\* answers or fails, timers fire, and a fetch whose signal is aborted settles.
\* Nothing is assumed of the provider, the client or the operator.
Fairness ==
    \A r \in Requests :
        /\ WF_vars(HandlerStep(r))
        /\ WF_vars(IdleFires(r))
        /\ WF_vars(aborted[r] /\ (LateChunk(r) \/ GeneratorReturns(r) \/ GeneratorThrows(r)))

FairSpec == Spec /\ Fairness
-----------------------------------------------------------------------------
(* Properties.                                                             *)

\* Type invariant of the stream controller, the exchange and the database.
TypeOK ==
    /\ up \in BOOLEAN
    /\ pc \in [Requests -> {"idle"} \cup Running \cup Settled]
    /\ aborted \in [Requests -> BOOLEAN]
    /\ idleTimedOut \in [Requests -> BOOLEAN]
    /\ idleArmed \in [Requests -> BOOLEAN]
    /\ attached \in [Requests -> BOOLEAN]
    /\ content \in [Requests -> 0..MaxDeltas]
    /\ upstream \in [Requests -> {"none", "open", "returned", "threw", "abandoned"}]
    /\ socket \in [Requests -> {"none", "open", "closed"}]
    /\ ended \in [Requests -> BOOLEAN]
    /\ wire \in [Requests -> [deltas : Nat, event : Events, sentinel : BOOLEAN]]
    /\ status \in [Requests -> Statuses]
    /\ cwExists \in BOOLEAN
    /\ rows \in SUBSET Rows
    /\ tx \in [Requests -> SUBSET Rows]

\* A stored answer is a whole answer: the generator ran to its end, something
\* was said, the row holds every delta, and the stream was neither idle nor
\* cut before the loop ended ("do NOT persist a half-baked pair").
OnlyWholeAnswersStored ==
    \A row \in rows :
        /\ upstream[row.req] = "returned"
        /\ content[row.req] > 0
        /\ row.role = "assistant" => row.deltas = content[row.req]

\* Question and answer are visible together or not at all, whatever fails
\* between the two inserts, and nothing outlives its chat window.
PairsAreAtomic ==
    /\ \A r \in Requests : RowsOf(r) \in {{}, {UserRow(r), ReplyRow(r)}}
    /\ ~cwExists => rows = {}

\* What the final event says of the database is true: "done" only for a pair
\* that was stored (and perhaps deleted since with its window), an error event
\* only when nothing was.
EventMatchesStore ==
    \A r \in Requests :
        /\ wire[r].event = "done" => RowsOf(r) # {} \/ ~cwExists
        /\ wire[r].event \in ErrorEvents => RowsOf(r) = {}

\* Every delta the client was sent is in the text kept for storing, and a
\* connected client has been sent all of it.
SentIsKept ==
    \A r \in Requests :
        /\ wire[r].deltas <= content[r]
        /\ socket[r] = "open" => wire[r].deltas = content[r]

\* No timer and no listener survives the end of the response: cleanup ran on
\* the way out and nothing re-armed the idle timer afterwards.
NothingLeftArmed ==
    \A r \in Requests : ended[r] => ~idleArmed[r] /\ ~attached[r]

\* The response is final once ended: no event, no delta, no second end.
NothingAfterEnd ==
    [][\A r \in Requests : ended[r] => wire'[r] = wire[r] /\ ended'[r] /\ status'[r] = status[r]]_vars

\* A stream that was cut or timed out before the loop ended forwards no more
\* text and never goes on to store its pair.
AbortedStreamIsOver ==
    [][\A r \in Requests :
          pc[r] = "streaming" /\ aborted[r] =>
              wire'[r].deltas = wire[r].deltas /\ pc'[r] \notin Storing]_vars

\* However the provider, the client and the database behave, a handler that
\* has started to stream comes to an end: a silent provider trips the idle
\* timer and the aborted call settles.
StreamSettles ==
    \A r \in Requests : pc[r] = "streaming" ~> pc[r] \in Settled

\* The controller implements the contract of StreamContract.
StoredPairs == {r \in Requests : RowsOf(r) # {}}
ToldClients == [r \in Requests |-> IF wire[r].event = "none" THEN "nothing"
                                   ELSE IF wire[r].event = "done" THEN "done" ELSE "error"]
Contract == INSTANCE StreamContract WITH
    stored <- StoredPairs, told <- ToldClients, exists <- cwExists
ImplementsContract == Contract!ContractSpec

-----------------------------------------------------------------------------
(* The inductive invariant behind the safety properties.                   *)

\* Before the stream starts nothing has been received, sent or armed.
Fresh(r) ==
    pc[r] \in {"idle"} \cup Preparing =>
        /\ content[r] = 0 /\ upstream[r] = "none"
        /\ ~idleArmed[r] /\ ~attached[r]

\* The handler is past its last block exactly when the response has ended, and
\* only then can the client have been sent a final event.
EndOfHandler(r) ==
    /\ ended[r] <=> pc[r] = "returned"
    /\ ended[r] => ~idleArmed[r] /\ ~attached[r]
    /\ ~ended[r] => wire[r].event = "none"

\* The transaction holds what the handler has inserted so far, and keeps the
\* chat window from being deleted.
OpenTransaction(r) ==
    /\ tx[r] = IF pc[r] = "insertReply" THEN {UserRow(r)}
               ELSE IF pc[r] = "commit" THEN {UserRow(r), ReplyRow(r)} ELSE {}
    /\ tx[r] # {} => cwExists

\* A handler stores only what a generator that ran to its end has said, and
\* rows exist only behind the commit.
StoredSoFar(r) ==
    /\ pc[r] \in Storing => upstream[r] = "returned" /\ content[r] > 0
    /\ RowsOf(r) \in {{}, {UserRow(r), ReplyRow(r)}}
    /\ RowsOf(r) # {} =>
          /\ pc[r] \in {"committed"} \cup Settled
          /\ upstream[r] = "returned" /\ content[r] > 0
    /\ pc[r] = "committed" => RowsOf(r) # {} \/ ~cwExists

\* What the client has been told and sent, of one request.
ToldSoFar(r) ==
    /\ wire[r].event = "done" => RowsOf(r) # {} \/ ~cwExists
    /\ wire[r].event \in ErrorEvents => RowsOf(r) = {}
    /\ wire[r].deltas <= content[r]
    /\ socket[r] = "open" => wire[r].deltas = content[r]

RequestInv(r) ==
    Fresh(r) /\ EndOfHandler(r) /\ OpenTransaction(r) /\ StoredSoFar(r) /\ ToldSoFar(r)

StreamInv ==
    /\ TypeOK
    /\ \A r \in Requests : RequestInv(r)
    /\ ~cwExists => rows = {}

\* What a stream may never leave behind, at any step, whatever fails: a stored
\* fragment, half a pair, an event that misreports the database, a delta sent and
\* not kept, a timer or a listener of an ended response.
StreamSafety ==
    /\ StreamInv
    /\ OnlyWholeAnswersStored /\ PairsAreAtomic /\ EventMatchesStore
    /\ SentIsKept /\ NothingLeftArmed
=============================================================================
