------------------------- MODULE MessageStreamProofs -------------------------
(***************************************************************************)
(* Theorems about MessageStream, for every set of requests and every bound *)
(* on the deltas.                                                          *)
(***************************************************************************)
EXTENDS MessageStream, TLAPS

\* The final events and the statuses the handler uses.
LEMMA Codes ==
    /\ {"none", "done", "idle_timeout", "provider_error", "empty_response",
        "chat_window_not_found"} = Events
    /\ {200, 400, 401, 404, 412, 499, 500, 502, 504} \subseteq Statuses
    BY DEF Events, ErrorEvents, Statuses

\* The end of the process leaves everything well typed.
LEMMA ProcessEndsTypes ==
    ASSUME TypeOK, ProcessEnds
    PROVE  TypeOK'
<1> USE DEF TypeOK, ProcessEnds
<1>1. pc' \in [Requests -> {"idle"} \cup Running \cup Settled]
    BY DEF Settled
<1>2. socket' \in [Requests -> {"none", "open", "closed"}]
    OBVIOUS
<1>3. /\ idleArmed' \in [Requests -> BOOLEAN]
      /\ attached' \in [Requests -> BOOLEAN]
      /\ tx' \in [Requests -> SUBSET Rows]
    OBVIOUS
<1>4. QED
    BY <1>1, <1>2, <1>3 DEF Rows

\* So does a response sent before the stream starts.
LEMMA RefuseTypes ==
    ASSUME TypeOK, NEW r \in Requests, NEW st \in Statuses, Refuse(r, st)
    PROVE  TypeOK'
    BY DEF TypeOK, Refuse, Return, Settled, Rows, dbVars

\* What a branch that ends the event stream does to the variables it changes.
LEMMA EndStreamTypes ==
    ASSUME TypeOK, NEW r \in Requests, NEW st \in Statuses, NEW ev \in Events,
           EndStream(r, st, ev)
    PROVE  /\ pc' \in [Requests -> {"idle"} \cup Running \cup Settled]
           /\ idleArmed' \in [Requests -> BOOLEAN]
           /\ attached' \in [Requests -> BOOLEAN]
           /\ ended' \in [Requests -> BOOLEAN]
           /\ status' \in [Requests -> Statuses]
           /\ wire' \in [Requests -> [deltas : Nat, event : Events, sentinel : BOOLEAN]]
<1> USE DEF TypeOK, EndStream
<1>1. pc' \in [Requests -> {"idle"} \cup Running \cup Settled] /\ ended' \in [Requests -> BOOLEAN] /\ status' \in [Requests -> Statuses]
    BY DEF Return, Settled
<1>2. idleArmed' \in [Requests -> BOOLEAN] /\ attached' \in [Requests -> BOOLEAN]
    BY DEF Cleanup
<1>3. wire' \in [Requests -> [deltas : Nat, event : Events, sentinel : BOOLEAN]]
  <2>1. [wire[r] EXCEPT !.event = ev, !.sentinel = TRUE]
            \in [deltas : Nat, event : Events, sentinel : BOOLEAN]
    OBVIOUS
  <2>2. QED
    BY <2>1 DEF Write
<1>4. QED
    BY <1>1, <1>2, <1>3

\* The blocks after the loop change the same variables, and no others.
LEMMA AfterLoopTypes ==
    ASSUME TypeOK, NEW r \in Requests, AfterLoop(r)
    PROVE  /\ pc' \in [Requests -> {"idle"} \cup Running \cup Settled]
           /\ idleArmed' \in [Requests -> BOOLEAN]
           /\ attached' \in [Requests -> BOOLEAN]
           /\ ended' \in [Requests -> BOOLEAN]
           /\ status' \in [Requests -> Statuses]
           /\ wire' \in [Requests -> [deltas : Nat, event : Events, sentinel : BOOLEAN]]
           /\ socket' = socket /\ up' = up
<1>1. CASE EndStream(r, 504, "idle_timeout") /\ UNCHANGED <<up, socket>>
    BY <1>1, EndStreamTypes, Codes
<1>2. CASE EndStream(r, 499, "none") /\ UNCHANGED <<up, socket>>
    BY <1>2, EndStreamTypes, Codes
<1>3. CASE EndStream(r, 502, "empty_response") /\ UNCHANGED <<up, socket>>
    BY <1>3, EndStreamTypes, Codes
<1>4. CASE Goto(r, "checking") /\ UNCHANGED <<up, idleArmed, attached, httpVars>>
    BY <1>4 DEF TypeOK, Goto, httpVars, Running, Storing
<1>5. QED
    BY <1>1, <1>2, <1>3, <1>4 DEF AfterLoop

\* Every step of one request keeps the types.
LEMMA RequestTypes ==
    ASSUME TypeOK, NEW r \in Requests,
           RequestStep(r)
    PROVE  TypeOK'
<1> USE DEF TypeOK
<1>1. CASE Arrive(r)
    BY <1>1 DEF Arrive, Goto, Running, Preparing, Rows, dbVars
<1>2. CASE PrepareThrows(r)
    BY <1>2, RefuseTypes, Codes DEF PrepareThrows
<1>3. CASE Authenticate(r)
  <2>1. CASE \E st \in {401, 400} : Refuse(r, st)
    BY <2>1, RefuseTypes, Codes
  <2>2. CASE pc' = [pc EXCEPT ![r] = "window"] /\ UNCHANGED <<up, aborted, idleTimedOut,
               idleArmed, attached, content, upstream, httpVars, dbVars>>
    BY <2>2 DEF Running, Preparing, Rows, httpVars, dbVars
  <2>3. QED
    BY <1>3, <2>1, <2>2 DEF Authenticate, Goto
<1>4. CASE FindWindow(r)
  <2>1. CASE \E st \in {404, 412} : Refuse(r, st)
    BY <2>1, RefuseTypes, Codes
  <2>2. CASE pc' = [pc EXCEPT ![r] = "key"] /\ UNCHANGED <<up, aborted, idleTimedOut,
               idleArmed, attached, content, upstream, httpVars, dbVars>>
    BY <2>2 DEF Running, Preparing, Rows, httpVars, dbVars
  <2>3. QED
    BY <1>4, <2>1, <2>2 DEF FindWindow, Goto
<1>5. CASE GetKey(r)
  <2>1. CASE Refuse(r, 412)
    BY <2>1, RefuseTypes, Codes
  <2>2. CASE pc' = [pc EXCEPT ![r] = "history"] /\ UNCHANGED <<up, aborted, idleTimedOut,
               idleArmed, attached, content, upstream, httpVars, dbVars>>
    BY <2>2 DEF Running, Preparing, Rows, httpVars, dbVars
  <2>3. QED
    BY <1>5, <2>1, <2>2 DEF GetKey, Goto
<1>6. CASE StartStream(r)
    BY <1>6 DEF StartStream, Goto, Running, Rows, httpVars, dbVars
<1>7. CASE Delta(r)
  <2>1. content' \in [Requests -> 0..MaxDeltas]
    BY <1>7, MessageStreamAssumption DEF Delta
  <2>2. wire' \in [Requests -> [deltas : Nat, event : Events, sentinel : BOOLEAN]]
    BY <1>7 DEF Delta, Write
  <2>3. idleArmed' \in [Requests -> BOOLEAN]
    BY <1>7 DEF Delta
  <2>4. UNCHANGED <<up, pc, aborted, idleTimedOut, attached, upstream, socket, ended,
                    status, cwExists, rows, tx>>
    BY <1>7 DEF Delta, dbVars
  <2>5. QED
    BY <2>1, <2>2, <2>3, <2>4 DEF Rows
<1>8. CASE LateChunk(r)
    BY <1>8, AfterLoopTypes DEF LateChunk, Rows, dbVars
<1>9. CASE GeneratorReturns(r)
    BY <1>9, AfterLoopTypes DEF GeneratorReturns, Rows, dbVars
<1>10. CASE GeneratorThrows(r)
  <2>1. CASE EndStream(r, 504, "idle_timeout")
    BY <1>10, <2>1, EndStreamTypes, Codes DEF GeneratorThrows, Rows, dbVars
  <2>2. CASE EndStream(r, 502, "provider_error")
    BY <1>10, <2>2, EndStreamTypes, Codes DEF GeneratorThrows, Rows, dbVars
  <2>3. CASE Cleanup(r) /\ Return(r, 499) /\ UNCHANGED wire
    BY <1>10, <2>3, Codes DEF GeneratorThrows, Cleanup, Return, Settled, Rows, dbVars
  <2>4. QED
    BY <1>10, <2>1, <2>2, <2>3 DEF GeneratorThrows
<1>11. CASE IdleFires(r)
    BY <1>11 DEF IdleFires, Rows, httpVars, dbVars
<1>12. CASE ClientDisconnects(r)
    BY <1>12 DEF ClientDisconnects, Cleanup, Rows, dbVars
<1>13. CASE CheckWindow(r)
  <2>1. CASE EndStream(r, 404, "chat_window_not_found")
    BY <1>13, <2>1, EndStreamTypes, Codes DEF CheckWindow, Rows, dbVars
  <2>2. CASE Goto(r, "insertUser") /\ UNCHANGED <<idleArmed, attached, ended, wire, status>>
    BY <1>13, <2>2 DEF CheckWindow, Goto, Running, Storing, Rows, dbVars
  <2>3. QED
    BY <1>13, <2>1, <2>2 DEF CheckWindow
<1>14. CASE InsertUser(r)
    BY <1>14, MessageStreamAssumption DEF InsertUser, Goto, UserRow, Running, Storing, Rows, httpVars
<1>15. CASE InsertReply(r)
    BY <1>15 DEF InsertReply, Goto, ReplyRow, Running, Storing, Rows, httpVars
<1>16. CASE Commit(r)
    BY <1>16 DEF Commit, Goto, Running, Storing, Rows, httpVars
<1>17. CASE StoreThrows(r)
  <2>1. CASE ProcessEnds
    BY <2>1, ProcessEndsTypes
  <2>2. CASE ~UnhandledRejectionExits
    BY <1>17, <2>2 DEF StoreThrows, HandlerRejects, Goto, Settled, Rows, httpVars
  <2>3. QED
    BY <1>17, <2>1, <2>2 DEF StoreThrows, HandlerRejects
<1>18. CASE Complete(r)
    BY <1>18, EndStreamTypes, Codes DEF Complete, Rows, dbVars
<1>19. QED
    BY <1>1, <1>2, <1>3, <1>4, <1>5, <1>6, <1>7, <1>8, <1>9, <1>10, <1>11, <1>12, <1>13,
       <1>14, <1>15, <1>16, <1>17, <1>18 DEF RequestStep, HandlerStep, ProviderStep

\* Every step of the system keeps the types.
LEMMA TypeStep == TypeOK /\ [Next]_vars => TypeOK'
<1> SUFFICES ASSUME TypeOK, [Next]_vars PROVE TypeOK'
    OBVIOUS
<1>1. CASE DeleteWindow
    BY <1>1 DEF TypeOK, DeleteWindow, handlerVars, httpVars
<1>2. CASE Shutdown
    BY <1>2, ProcessEndsTypes DEF Shutdown
<1>3. CASE Restart
    BY <1>3 DEF TypeOK, Restart, handlerVars, httpVars, dbVars, Rows
<1>4. CASE UNCHANGED vars
    BY <1>4 DEF TypeOK, vars, handlerVars, httpVars, dbVars, Rows
<1>5. QED
    BY <1>1, <1>2, <1>3, <1>4, RequestTypes DEF Next

-----------------------------------------------------------------------------
(* The inductive invariant.                                                *)

\* Request s is as it was, in the handler, on the wire and in the database.
SameFor(s) ==
    /\ pc'[s] = pc[s] /\ content'[s] = content[s] /\ upstream'[s] = upstream[s]
    /\ idleArmed'[s] = idleArmed[s] /\ attached'[s] = attached[s] /\ ended'[s] = ended[s]
    /\ wire'[s] = wire[s] /\ socket'[s] = socket[s] /\ tx'[s] = tx[s]
    /\ RowsOf(s)' = RowsOf(s)

\* A request no step touches keeps its part of the invariant.
LEMMA SameKeeps ==
    ASSUME NEW s \in Requests, RequestInv(s), SameFor(s), cwExists' = cwExists
    PROVE  RequestInv(s)'
<1> USE DEF SameFor
<1>1. Fresh(s)' /\ EndOfHandler(s)'
    BY DEF RequestInv, Fresh, EndOfHandler
<1>2. OpenTransaction(s)' /\ StoredSoFar(s)' /\ ToldSoFar(s)'
    BY DEF RequestInv, OpenTransaction, StoredSoFar, ToldSoFar, UserRow, ReplyRow
<1>3. QED
    BY <1>1, <1>2 DEF RequestInv

\* So a step of request r keeps the invariant if it keeps r's part of it.
LEMMA StepOfOne ==
    ASSUME StreamInv, TypeOK', NEW r \in Requests, RequestInv(r)',
           \A s \in Requests \ {r} : SameFor(s),
           cwExists' = cwExists, ~cwExists => rows' = {}
    PROVE  StreamInv'
    BY SameKeeps DEF StreamInv

\* Rows that do not change are the same rows for every request.
LEMMA SameRows == ASSUME rows' = rows PROVE \A s \in Requests : RowsOf(s)' = RowsOf(s)
    BY DEF RowsOf

\* The branches that end the event stream keep the invariant if what they tell
\* the client is true.
LEMMA EndStreamKeeps ==
    ASSUME StreamInv, TypeOK', NEW r \in Requests, NEW st \in Statuses, NEW ev \in Events,
           EndStream(r, st, ev),
           ev \in ErrorEvents => pc[r] # "committed",
           ev = "done" => pc[r] = "committed",
           pc[r] \in {"streaming", "checking", "committed"},
           pc[r] = "streaming" \/ upstream' = upstream,
           \A s \in Requests \ {r} : upstream'[s] = upstream[s],
           UNCHANGED <<content, socket, dbVars>>
    PROVE  StreamInv'
<1> USE DEF EndStream, Cleanup, Return, Write, dbVars
<1>1. \A s \in Requests \ {r} : SameFor(s)
    BY SameRows DEF SameFor, StreamInv, TypeOK
<1>2. RowsOf(r)' = RowsOf(r) /\ tx'[r] = tx[r] /\ content'[r] = content[r]
    BY SameRows
<1>3. /\ pc'[r] = "returned" /\ ended'[r] /\ ~idleArmed'[r] /\ ~attached'[r]
      /\ socket'[r] = socket[r] /\ wire'[r].deltas = wire[r].deltas
      /\ wire'[r].event \in {wire[r].event, ev}
    BY DEF StreamInv, TypeOK
<1>4. RequestInv(r)'
  <2>1. Fresh(r)' /\ EndOfHandler(r)'
    BY <1>3 DEF Fresh, EndOfHandler, Preparing
  <2>2. OpenTransaction(r)'
    BY <1>2, <1>3 DEF OpenTransaction, StreamInv, RequestInv
  <2>3. StoredSoFar(r)'
    BY <1>2, <1>3 DEF StoredSoFar, StreamInv, RequestInv, TypeOK, UserRow, ReplyRow, Storing, Settled
  <2>4. ToldSoFar(r)'
    BY <1>2, <1>3 DEF StoredSoFar, ToldSoFar, StreamInv, RequestInv, ErrorEvents, Storing, Settled, EndOfHandler
  <2>5. QED
    BY <2>1, <2>2, <2>3, <2>4 DEF RequestInv
<1>5. QED
    BY <1>1, <1>4, StepOfOne DEF StreamInv

\* A response sent before the stream starts keeps it.
LEMMA RefuseKeeps ==
    ASSUME StreamInv, NEW r \in Requests, NEW st \in Statuses, Refuse(r, st),
           pc[r] \in Preparing
    PROVE  StreamInv'
<1> USE DEF Refuse, Return, dbVars
<1>1. TypeOK'
    BY RefuseTypes DEF StreamInv
<1>2. \A s \in Requests \ {r} : SameFor(s)
    BY SameRows DEF SameFor, StreamInv, TypeOK
<1>3. pc'[r] = "returned" /\ ended'[r] /\ RowsOf(r)' = RowsOf(r)
    BY SameRows DEF StreamInv, TypeOK
<1>4. RequestInv(r)'
    BY <1>3, SMTT(60) DEF StreamInv, RequestInv, Fresh, EndOfHandler, OpenTransaction, StoredSoFar, ToldSoFar,
       UserRow, ReplyRow, Preparing, Storing, Settled
<1>5. QED
    BY <1>1, <1>2, <1>4, StepOfOne DEF StreamInv

\* The handler moves on to its next await and changes nothing else.
LEMMA MoveKeeps ==
    ASSUME StreamInv, TypeOK', NEW r \in Requests, NEW l, Goto(r, l),
           \/ pc[r] \in Preparing /\ l \in Preparing
           \/ pc[r] = "checking" /\ l = "insertUser",
           UNCHANGED <<up, aborted, idleTimedOut, idleArmed, attached, content, upstream, httpVars, dbVars>>
    PROVE  StreamInv'
<1> USE DEF Goto, httpVars, dbVars
<1>1. \A s \in Requests \ {r} : SameFor(s)
    BY SameRows DEF SameFor, StreamInv, TypeOK
<1>2. pc'[r] = l /\ RowsOf(r)' = RowsOf(r)
    BY SameRows DEF StreamInv, TypeOK
<1>3. RequestInv(r)'
    BY <1>2 DEF StreamInv, RequestInv, Fresh, EndOfHandler, OpenTransaction, StoredSoFar, ToldSoFar,
       UserRow, ReplyRow, Preparing, Storing, Settled
<1>4. QED
    BY <1>1, <1>3, StepOfOne DEF StreamInv

\* The end of the process keeps it: what was open rolls back, what was stored stays.
LEMMA ProcessEndsKeeps == StreamInv /\ ProcessEnds => StreamInv'
<1> SUFFICES ASSUME StreamInv, ProcessEnds PROVE StreamInv'
    OBVIOUS
<1> USE DEF ProcessEnds
<1>1. TypeOK'
    BY ProcessEndsTypes DEF StreamInv
<1>2. ASSUME NEW r \in Requests PROVE RequestInv(r)'
  <2>1. /\ RowsOf(r)' = RowsOf(r)
        /\ pc'[r] = IF pc[r] \in Running \cup {"threw"} THEN "dead" ELSE pc[r]
        /\ ~idleArmed'[r] /\ ~attached'[r] /\ tx'[r] = {}
        /\ socket'[r] # "open"
    BY SameRows DEF StreamInv, TypeOK
  <2>2. Fresh(r)' /\ EndOfHandler(r)' /\ OpenTransaction(r)'
    BY <2>1 DEF StreamInv, RequestInv, Fresh, EndOfHandler, OpenTransaction, Running, Storing,
       Preparing
  <2>3. StoredSoFar(r)'
    BY <2>1 DEF StreamInv, RequestInv, StoredSoFar, UserRow, ReplyRow, Running, Storing, Settled
  <2>4. ToldSoFar(r)'
    BY <2>1 DEF StreamInv, RequestInv, ToldSoFar
  <2>5. QED
    BY <2>2, <2>3, <2>4 DEF RequestInv
<1>3. QED
    BY <1>1, <1>2 DEF StreamInv

\* The blocks after the loop keep it.
LEMMA AfterLoopKeeps ==
    ASSUME StreamInv, TypeOK', NEW r \in Requests, AfterLoop(r), pc[r] = "streaming",
           NEW u \in {"returned", "abandoned"}, upstream' = [upstream EXCEPT ![r] = u],
           u = "returned" \/ aborted[r],
           UNCHANGED <<content, dbVars>>
    PROVE  StreamInv'
<1> \A s \in Requests \ {r} : upstream'[s] = upstream[s]
    BY DEF StreamInv, TypeOK
<1>1. CASE EndStream(r, 504, "idle_timeout") /\ UNCHANGED <<up, socket>>
    BY <1>1, EndStreamKeeps, Codes
<1>2. CASE EndStream(r, 499, "none") /\ UNCHANGED <<up, socket>>
    BY <1>2, EndStreamKeeps, Codes DEF ErrorEvents
<1>3. CASE EndStream(r, 502, "empty_response") /\ UNCHANGED <<up, socket>>
    BY <1>3, EndStreamKeeps, Codes
<1>4. CASE /\ ~aborted[r] /\ content[r] # 0
           /\ Goto(r, "checking") /\ UNCHANGED <<up, idleArmed, attached, httpVars>>
  <2> USE DEF Goto, httpVars, dbVars
  <2>1. \A s \in Requests \ {r} : SameFor(s)
    BY <1>4, SameRows DEF SameFor, StreamInv, TypeOK
  <2>2. pc'[r] = "checking" /\ upstream'[r] = "returned" /\ RowsOf(r)' = RowsOf(r)
    BY <1>4, SameRows DEF StreamInv, TypeOK
  <2>3. RequestInv(r)'
    BY <1>4, <2>2 DEF StreamInv, RequestInv, Fresh, EndOfHandler, OpenTransaction, StoredSoFar,
       ToldSoFar, UserRow, ReplyRow, Preparing, Storing, Settled, TypeOK
  <2>4. QED
    BY <2>1, <2>3, StepOfOne DEF StreamInv
<1>5. QED
    BY <1>1, <1>2, <1>3, <1>4 DEF AfterLoop

\* Every step of one request keeps the invariant.
LEMMA RequestKeeps ==
    ASSUME StreamInv, NEW r \in Requests,
           RequestStep(r)
    PROVE  StreamInv'
<1>0. TypeOK'
    BY RequestTypes DEF StreamInv
<1> USE <1>0
<1>1. CASE Arrive(r)
  <2> USE <1>1 DEF Arrive, Goto, dbVars
  <2>1. \A s \in Requests \ {r} : SameFor(s)
    BY SameRows DEF SameFor, StreamInv, TypeOK
  <2>2. RowsOf(r)' = RowsOf(r) /\ pc'[r] = "auth" /\ socket'[r] = "open"
    BY SameRows DEF StreamInv, TypeOK
  <2>3. RequestInv(r)'
    BY <2>2, SMTT(60) DEF StreamInv, RequestInv, Fresh, EndOfHandler, OpenTransaction, StoredSoFar,
       ToldSoFar, UserRow, ReplyRow, Preparing, Storing, Settled, TypeOK
  <2>4. QED
    BY <2>1, <2>3, StepOfOne DEF StreamInv
<1>2. CASE PrepareThrows(r)
    BY <1>2, RefuseKeeps, Codes DEF PrepareThrows
<1>3. CASE Authenticate(r)
    BY <1>3, RefuseKeeps, MoveKeeps, Codes DEF Authenticate, Preparing
<1>4. CASE FindWindow(r)
    BY <1>4, RefuseKeeps, MoveKeeps, Codes DEF FindWindow, Preparing
<1>5. CASE GetKey(r)
    BY <1>5, RefuseKeeps, MoveKeeps, Codes DEF GetKey, Preparing
<1>6. CASE StartStream(r)
  <2> USE <1>6 DEF StartStream, Goto, httpVars, dbVars
  <2>1. \A s \in Requests \ {r} : SameFor(s)
    BY SameRows DEF SameFor, StreamInv, TypeOK
  <2>2. RowsOf(r)' = RowsOf(r) /\ pc'[r] = "streaming"
    BY SameRows DEF StreamInv, TypeOK
  <2>3. RequestInv(r)'
    BY <2>2, SMTT(60) DEF StreamInv, RequestInv, Fresh, EndOfHandler, OpenTransaction, StoredSoFar,
       ToldSoFar, UserRow, ReplyRow, Preparing, Storing, Settled, TypeOK
  <2>4. QED
    BY <2>1, <2>3, StepOfOne DEF StreamInv
<1>7. CASE Delta(r)
  <2> USE <1>7 DEF Delta, Write, dbVars
  <2>1. \A s \in Requests \ {r} : SameFor(s)
    BY SameRows DEF SameFor, StreamInv, TypeOK
  <2>2. RowsOf(r)' = RowsOf(r) /\ wire'[r].event = wire[r].event /\ content'[r] = content[r] + 1
        /\ wire'[r].deltas = IF socket[r] = "open" THEN wire[r].deltas + 1 ELSE wire[r].deltas
    BY SameRows DEF StreamInv, TypeOK
  <2>3. RequestInv(r)'
    BY <2>2, SMTT(60) DEF StreamInv, RequestInv, Fresh, EndOfHandler, OpenTransaction, StoredSoFar,
       ToldSoFar, UserRow, ReplyRow, Preparing, Storing, Settled, TypeOK
  <2>4. QED
    BY <2>1, <2>3, StepOfOne DEF StreamInv
<1>8. CASE LateChunk(r)
    BY <1>8, AfterLoopKeeps DEF LateChunk
<1>9. CASE GeneratorReturns(r)
    BY <1>9, AfterLoopKeeps DEF GeneratorReturns
<1>10. CASE GeneratorThrows(r)
  <2>0. \A s \in Requests \ {r} : upstream'[s] = upstream[s]
    BY <1>10 DEF GeneratorThrows, StreamInv, TypeOK
  <2>1. CASE EndStream(r, 504, "idle_timeout")
    BY <1>10, <2>0, <2>1, EndStreamKeeps, Codes DEF GeneratorThrows
  <2>2. CASE EndStream(r, 502, "provider_error")
    BY <1>10, <2>0, <2>2, EndStreamKeeps, Codes DEF GeneratorThrows
  <2>3. CASE Cleanup(r) /\ Return(r, 499) /\ UNCHANGED wire
    <3> USE <1>10, <2>3 DEF GeneratorThrows, Cleanup, Return, dbVars
    <3>1. \A s \in Requests \ {r} : SameFor(s)
      BY SameRows DEF SameFor, StreamInv, TypeOK
    <3>2. /\ RowsOf(r)' = RowsOf(r) /\ pc[r] = "streaming" /\ pc'[r] = "returned" /\ ended'[r]
          /\ ~idleArmed'[r] /\ ~attached'[r]
      BY SameRows DEF StreamInv, TypeOK
    <3>3. RequestInv(r)'
      BY <3>2, SMTT(60) DEF StreamInv, RequestInv, Fresh, EndOfHandler, OpenTransaction, StoredSoFar,
       ToldSoFar, UserRow, ReplyRow, Preparing, Storing, Settled, TypeOK
    <3>4. QED
      BY <3>1, <3>3, StepOfOne DEF StreamInv
  <2>4. QED
    BY <1>10, <2>1, <2>2, <2>3 DEF GeneratorThrows
<1>11. CASE IdleFires(r)
  <2> USE <1>11 DEF IdleFires, httpVars, dbVars
  <2>1. \A s \in Requests \ {r} : SameFor(s)
    BY SameRows DEF SameFor, StreamInv, TypeOK
  <2>2. RowsOf(r)' = RowsOf(r) /\ ~idleArmed'[r]
    BY SameRows DEF StreamInv, TypeOK
  <2>3. RequestInv(r)'
    BY <2>2, SMTT(60) DEF StreamInv, RequestInv, Fresh, EndOfHandler, OpenTransaction, StoredSoFar,
       ToldSoFar, UserRow, ReplyRow, Preparing, Storing, Settled, TypeOK
  <2>4. QED
    BY <2>1, <2>3, StepOfOne DEF StreamInv
<1>12. CASE ClientDisconnects(r)
  <2> USE <1>12 DEF ClientDisconnects, Cleanup, dbVars
  <2>1. \A s \in Requests \ {r} : SameFor(s)
    BY SameRows DEF SameFor, StreamInv, TypeOK
  <2>2. /\ RowsOf(r)' = RowsOf(r) /\ socket'[r] = "closed" /\ ~ended[r]
        /\ idleArmed'[r] => idleArmed[r]
        /\ attached'[r] => attached[r]
    BY SameRows DEF StreamInv, TypeOK
  <2>3. RequestInv(r)'
    BY <2>2, SMTT(60) DEF StreamInv, RequestInv, Fresh, EndOfHandler, OpenTransaction, StoredSoFar,
       ToldSoFar, UserRow, ReplyRow, Preparing, Storing, Settled, TypeOK
  <2>4. QED
    BY <2>1, <2>3, StepOfOne DEF StreamInv
<1>13. CASE CheckWindow(r)
  <2>1. CASE EndStream(r, 404, "chat_window_not_found")
    BY <1>13, <2>1, EndStreamKeeps, Codes DEF CheckWindow
  <2>2. CASE Goto(r, "insertUser") /\ UNCHANGED <<idleArmed, attached, ended, wire, status>>
    BY <1>13, <2>2, MoveKeeps DEF CheckWindow, httpVars
  <2>3. QED
    BY <1>13, <2>1, <2>2 DEF CheckWindow
<1>14. CASE InsertUser(r)
  <2> USE <1>14 DEF InsertUser, Goto, httpVars
  <2>1. \A s \in Requests \ {r} : SameFor(s)
    BY SameRows DEF SameFor, StreamInv, TypeOK
  <2>2. RowsOf(r)' = RowsOf(r) /\ pc'[r] = "insertReply" /\ tx'[r] = tx[r] \cup {UserRow(r)}
    BY SameRows DEF StreamInv, TypeOK
  <2>3. RequestInv(r)'
    BY <2>2, SMTT(60) DEF StreamInv, RequestInv, Fresh, EndOfHandler, OpenTransaction, StoredSoFar,
       ToldSoFar, UserRow, ReplyRow, Preparing, Storing, Settled, TypeOK
  <2>4. QED
    BY <2>1, <2>3, StepOfOne DEF StreamInv
<1>15. CASE InsertReply(r)
  <2> USE <1>15 DEF InsertReply, Goto, httpVars
  <2>1. \A s \in Requests \ {r} : SameFor(s)
    BY SameRows DEF SameFor, StreamInv, TypeOK
  <2>2. RowsOf(r)' = RowsOf(r) /\ pc'[r] = "commit" /\ tx'[r] = tx[r] \cup {ReplyRow(r)}
    BY SameRows DEF StreamInv, TypeOK
  <2>3. OpenTransaction(r)'
    BY <2>2 DEF StreamInv, RequestInv, OpenTransaction, UserRow, ReplyRow
  <2>4. Fresh(r)' /\ EndOfHandler(r)' /\ ToldSoFar(r)'
    BY <2>2 DEF StreamInv, RequestInv, Fresh, EndOfHandler, ToldSoFar, Preparing
  <2>5. StoredSoFar(r)'
    BY <2>2 DEF StreamInv, RequestInv, StoredSoFar, UserRow, ReplyRow, Storing, Settled
  <2>6. QED
    BY <2>1, <2>3, <2>4, <2>5, StepOfOne DEF StreamInv, RequestInv
<1>16. CASE Commit(r)
  <2> USE <1>16 DEF Commit, Goto, httpVars
  <2>1. tx[r] = {UserRow(r), ReplyRow(r)} /\ cwExists /\ RowsOf(r) = {}
    BY DEF StreamInv, RequestInv, OpenTransaction, StoredSoFar, Storing, Settled
  <2>2. \A s \in Requests \ {r} : RowsOf(s)' = RowsOf(s)
    BY <2>1 DEF RowsOf, UserRow, ReplyRow
  <2>3. RowsOf(r)' = {UserRow(r), ReplyRow(r)}
    BY <2>1 DEF RowsOf, UserRow, ReplyRow
  <2>4. \A s \in Requests \ {r} : SameFor(s)
    BY <2>2 DEF SameFor, StreamInv, TypeOK
  <2>5. pc'[r] = "committed" /\ tx'[r] = {}
    BY DEF StreamInv, TypeOK
  <2>6. UserRow(r)' = UserRow(r) /\ ReplyRow(r)' = ReplyRow(r)
    BY DEF UserRow, ReplyRow
  <2>7. Fresh(r)' /\ EndOfHandler(r)' /\ OpenTransaction(r)'
    BY <2>5 DEF StreamInv, RequestInv, Fresh, EndOfHandler, OpenTransaction, Preparing
  <2>8. StoredSoFar(r)'
    BY <2>3, <2>5, <2>6 DEF StreamInv, RequestInv, StoredSoFar, Storing
  <2>9. ToldSoFar(r)'
    BY <2>3, <2>5 DEF StreamInv, RequestInv, ToldSoFar, EndOfHandler, ErrorEvents
  <2>10. QED
    BY <2>1, <2>4, <2>7, <2>8, <2>9, StepOfOne DEF StreamInv, RequestInv
<1>17. CASE StoreThrows(r)
  <2>1. CASE ProcessEnds
    BY <2>1, ProcessEndsKeeps
  <2>2. CASE ~UnhandledRejectionExits
    <3> USE <1>17, <2>2 DEF StoreThrows, HandlerRejects, Goto, httpVars
    <3>1. \A s \in Requests \ {r} : SameFor(s)
      BY SameRows DEF SameFor, StreamInv, TypeOK
    <3>2. RowsOf(r)' = RowsOf(r) /\ pc'[r] = "threw" /\ tx'[r] = {} /\ pc[r] \in Storing
      BY SameRows DEF StreamInv, TypeOK
    <3>3. RequestInv(r)'
      BY <3>2, SMTT(60) DEF StreamInv, RequestInv, Fresh, EndOfHandler, OpenTransaction, StoredSoFar,
       ToldSoFar, UserRow, ReplyRow, Preparing, Storing, Settled, TypeOK
    <3>4. QED
      BY <3>1, <3>3, StepOfOne DEF StreamInv
  <2>3. QED
    BY <1>17, <2>1, <2>2 DEF StoreThrows, HandlerRejects
<1>18. CASE Complete(r)
    BY <1>18, EndStreamKeeps, Codes DEF Complete, ErrorEvents
<1>19. QED
    BY <1>1, <1>2, <1>3, <1>4, <1>5, <1>6, <1>7, <1>8, <1>9, <1>10, <1>11, <1>12, <1>13,
       <1>14, <1>15, <1>16, <1>17, <1>18 DEF RequestStep, HandlerStep, ProviderStep

\* The deletion of the chat window takes every row with it.
LEMMA DeleteKeeps == StreamInv /\ DeleteWindow => StreamInv'
<1> SUFFICES ASSUME StreamInv, DeleteWindow PROVE StreamInv'
    OBVIOUS
<1> USE DEF DeleteWindow, handlerVars, httpVars
<1>1. TypeOK'
    BY TypeStep DEF StreamInv, Next
<1>2. ASSUME NEW s \in Requests PROVE RequestInv(s)'
  <2>1. RowsOf(s)' = {}
    BY DEF RowsOf
  <2>2. QED
    BY <2>1 DEF StreamInv, RequestInv, Fresh, EndOfHandler, OpenTransaction, StoredSoFar,
       ToldSoFar, UserRow, ReplyRow
<1>3. QED
    BY <1>1, <1>2 DEF StreamInv

\* A step that leaves handlers, exchange and database alone keeps the invariant.
LEMMA StutterKeeps == StreamInv /\ TypeOK' /\ UNCHANGED <<handlerVars, httpVars, dbVars>> => StreamInv'
<1> SUFFICES ASSUME StreamInv, TypeOK', UNCHANGED <<handlerVars, httpVars, dbVars>> PROVE StreamInv'
    OBVIOUS
<1>1. \A s \in Requests : SameFor(s)
    BY SameRows DEF SameFor, handlerVars, httpVars, dbVars
<1>2. QED
    BY <1>1, SameKeeps DEF StreamInv, dbVars

\* StreamInv is inductive.
LEMMA InvStep == StreamInv /\ [Next]_vars => StreamInv'
<1> SUFFICES ASSUME StreamInv, [Next]_vars PROVE StreamInv'
    OBVIOUS
<1>0. TypeOK'
    BY TypeStep DEF StreamInv
<1>1. CASE DeleteWindow
    BY <1>1, DeleteKeeps
<1>2. CASE Shutdown
    BY <1>2, ProcessEndsKeeps DEF Shutdown
<1>3. CASE Restart
    BY <1>0, <1>3, StutterKeeps DEF Restart
<1>4. CASE UNCHANGED vars
    BY <1>0, <1>4, StutterKeeps DEF vars
<1>5. QED
    BY <1>1, <1>2, <1>3, <1>4, RequestKeeps DEF Next

LEMMA InvInit == Init => StreamInv
<1> SUFFICES ASSUME Init PROVE StreamInv
    OBVIOUS
<1>1. TypeOK
    BY MessageStreamAssumption DEF Init, TypeOK, Events, Statuses
<1>2. ASSUME NEW r \in Requests PROVE RequestInv(r)
    BY DEF Init, RequestInv, Fresh, EndOfHandler, OpenTransaction, StoredSoFar, ToldSoFar, RowsOf,
       Preparing, Storing, ErrorEvents
<1>3. QED
    BY <1>1, <1>2 DEF StreamInv, Init

-----------------------------------------------------------------------------
(* Theorems.                                                               *)

\* The controller, the exchange and the database stay well typed.
THEOREM Typed == Spec => []TypeOK
<1>1. Init => TypeOK
    BY InvInit DEF StreamInv
<1>2. QED
    BY <1>1, TypeStep, PTL DEF Spec

\* The inductive invariant holds of every reachable state, for any number of
\* requests, any number of deltas and either reaction to a lost rejection.
THEOREM Invariant == Spec => []StreamInv
    BY InvInit, InvStep, PTL DEF Spec

\* Whatever fails and whoever disconnects, only the whole answer of a generator
\* that ran to its end is ever stored by streamMessageDbController.
THEOREM WholeAnswers == Spec => []OnlyWholeAnswersStored
<1>1. StreamInv => OnlyWholeAnswersStored
  <2> SUFFICES ASSUME StreamInv, NEW row \in rows
               PROVE  /\ upstream[row.req] = "returned" /\ content[row.req] > 0
                      /\ row.role = "assistant" => row.deltas = content[row.req]
    BY DEF OnlyWholeAnswersStored
  <2>1. row.req \in Requests /\ row \in RowsOf(row.req)
    BY DEF StreamInv, TypeOK, Rows, RowsOf
  <2>2. QED
    BY <2>1 DEF StreamInv, RequestInv, StoredSoFar, UserRow, ReplyRow
<1>2. QED
    BY <1>1, Invariant, PTL

\* insertMessagePair stores a question and its answer together or not at all.
THEOREM Atomic == Spec => []PairsAreAtomic
<1>1. StreamInv => PairsAreAtomic
    BY DEF StreamInv, RequestInv, StoredSoFar, PairsAreAtomic
<1>2. QED
    BY <1>1, Invariant, PTL

\* The final event of the stream never misreports what is stored.
THEOREM EventsAreTrue == Spec => []EventMatchesStore
<1>1. StreamInv => EventMatchesStore
    BY DEF StreamInv, RequestInv, ToldSoFar, EventMatchesStore
<1>2. QED
    BY <1>1, Invariant, PTL

\* Nothing the client was sent is missing from the text kept for storing.
THEOREM NothingSentIsLost == Spec => []SentIsKept
<1>1. StreamInv => SentIsKept
    BY DEF StreamInv, RequestInv, ToldSoFar, SentIsKept
<1>2. QED
    BY <1>1, Invariant, PTL

\* cleanup ran before every res.end() of the stream, and nothing re-arms later.
THEOREM CleanAfterEnd == Spec => []NothingLeftArmed
<1>1. StreamInv => NothingLeftArmed
    BY DEF StreamInv, RequestInv, EndOfHandler, NothingLeftArmed
<1>2. QED
    BY <1>1, Invariant, PTL

\* All of it together: no fragment, no half pair, no false event, no delta lost,
\* no timer left, for any number of concurrent streams.
THEOREM StreamIsSafe == Spec => []StreamSafety
<1>1. StreamInv /\ OnlyWholeAnswersStored /\ PairsAreAtomic /\ EventMatchesStore
      /\ SentIsKept /\ NothingLeftArmed => StreamSafety
    BY DEF StreamSafety
<1>2. QED
    BY <1>1, Invariant, WholeAnswers, Atomic, EventsAreTrue, NothingSentIsLost,
       CleanAfterEnd, PTL

\* What a step of request q may do to the response of request r.
LEMMA ResponseStep ==
    ASSUME TypeOK, NEW q \in Requests, NEW r \in Requests, RequestStep(q),
           r # q \/ pc[r] = "returned"
    PROVE  \/ wire'[r] = wire[r] /\ ended'[r] = ended[r] /\ status'[r] = status[r]
           \/ IdleFires(r) \/ ClientDisconnects(r)
<1> USE DEF TypeOK
<1> DEFINE Same == wire'[r] = wire[r] /\ ended'[r] = ended[r] /\ status'[r] = status[r]
<1>1. CASE ProcessEnds
    BY <1>1 DEF ProcessEnds
<1>2. ASSUME NEW st \in Statuses, Return(q, st), r # q PROVE ended'[r] = ended[r] /\ status'[r] = status[r]
    BY <1>2 DEF Return
<1>3. ASSUME NEW w, Write(q, w), r # q PROVE wire'[r] = wire[r]
    BY <1>3 DEF Write
<1>4. ASSUME NEW st \in Statuses, NEW ev \in Events, EndStream(q, st, ev), r # q PROVE Same
    BY <1>2, <1>3, <1>4 DEF EndStream
<1>5. ASSUME NEW st \in Statuses, Refuse(q, st), r # q PROVE Same
    BY <1>2, <1>5 DEF Refuse
<1>6. CASE AfterLoop(q) /\ r # q
    BY <1>4, <1>6, Codes DEF AfterLoop, httpVars
<1>7. CASE UNCHANGED <<ended, wire, status>>
    BY <1>7
<1>8. CASE PrepareThrows(q) \/ Authenticate(q) \/ FindWindow(q) \/ GetKey(q)
    BY <1>5, <1>7, <1>8, Codes
       DEF PrepareThrows, Authenticate, FindWindow, GetKey, httpVars, Preparing
<1>9. CASE Arrive(q) \/ StartStream(q) \/ InsertUser(q) \/ InsertReply(q) \/ Commit(q)
           \/ IdleFires(q) \/ ClientDisconnects(q)
    BY <1>7, <1>9 DEF Arrive, StartStream, InsertUser, InsertReply, Commit, IdleFires,
       ClientDisconnects, httpVars
<1>10. CASE StoreThrows(q)
    BY <1>1, <1>7, <1>10 DEF StoreThrows, HandlerRejects, httpVars
<1>11. CASE Delta(q) \/ LateChunk(q) \/ GeneratorReturns(q)
    BY <1>3, <1>6, <1>11 DEF Delta, LateChunk, GeneratorReturns
<1>12. CASE GeneratorThrows(q)
    BY <1>2, <1>4, <1>12, Codes DEF GeneratorThrows
<1>13. CASE CheckWindow(q) \/ Complete(q)
    BY <1>4, <1>7, <1>13, Codes DEF CheckWindow, Complete
<1>14. QED
    BY <1>8, <1>9, <1>10, <1>11, <1>12, <1>13 DEF RequestStep, HandlerStep, ProviderStep

\* Nothing is written to, and nothing ends, a response that has ended.
THEOREM EndIsFinal == Spec => NothingAfterEnd
<1>1. ASSUME StreamInv, [Next]_vars, NEW r \in Requests, ended[r]
      PROVE  wire'[r] = wire[r] /\ ended'[r] /\ status'[r] = status[r]
  <2>1. TypeOK /\ pc[r] = "returned" /\ ~idleArmed[r]
    BY <1>1 DEF StreamInv, RequestInv, EndOfHandler
  <2>2. CASE \E q \in Requests : RequestStep(q)
    BY <1>1, <2>1, <2>2, ResponseStep DEF IdleFires, ClientDisconnects
  <2>3. CASE DeleteWindow \/ Restart \/ UNCHANGED vars
    BY <1>1, <2>3 DEF DeleteWindow, Restart, vars, httpVars
  <2>4. CASE Shutdown
    BY <1>1, <2>4 DEF Shutdown, ProcessEnds
  <2>5. QED
    BY <1>1, <2>2, <2>3, <2>4 DEF Next
<1>2. StreamInv /\ [Next]_vars => [\A r \in Requests :
          ended[r] => wire'[r] = wire[r] /\ ended'[r] /\ status'[r] = status[r]]_vars
    BY <1>1
<1>3. QED
    BY <1>2, Invariant, PTL DEF Spec, NothingAfterEnd

-----------------------------------------------------------------------------
(* The controller implements its contract.                                 *)

\* What a step of request q may do to the database.
LEMMA StoreStep ==
    ASSUME NEW q \in Requests, RequestStep(q)
    PROVE  cwExists' = cwExists /\ (rows' = rows \/ Commit(q))
<1> USE DEF dbVars
<1>1. CASE Arrive(q) \/ IdleFires(q) \/ ClientDisconnects(q) \/ ProviderStep(q)
    BY <1>1 DEF Arrive, IdleFires, ClientDisconnects, ProviderStep, Delta, LateChunk,
       GeneratorReturns, GeneratorThrows
<1>2. CASE HandlerStep(q)
    BY <1>2 DEF HandlerStep, PrepareThrows, Authenticate, FindWindow, GetKey, Refuse, StartStream,
       CheckWindow, InsertUser, InsertReply, Commit, StoreThrows, HandlerRejects, ProcessEnds,
       Complete
<1>3. QED
    BY <1>1, <1>2 DEF RequestStep

\* A client is told one thing: the event of a request changes only from "none".
LEMMA TellOnce ==
    ASSUME StreamInv, NEW q \in Requests, RequestStep(q)
    PROVE  /\ \A r \in Requests \ {q} : wire'[r] = wire[r]
           /\ wire'[q].event = wire[q].event \/ wire[q].event = "none"
<1>1. \A r \in Requests \ {q} : wire'[r] = wire[r]
    BY ResponseStep DEF StreamInv, IdleFires, ClientDisconnects, httpVars
<1>2. CASE ended[q]
    BY <1>2, ResponseStep DEF StreamInv, RequestInv, EndOfHandler, IdleFires, ClientDisconnects,
       httpVars
<1>3. CASE ~ended[q]
  <2>1. EndOfHandler(q)
    BY DEF StreamInv, RequestInv
  <2>2. wire[q].event = "none"
    BY <1>3, <2>1 DEF EndOfHandler
  <2>3. QED
    BY <1>1, <2>2
<1>4. QED
    BY <1>1, <1>2, <1>3

\* A step of one request stores a pair, tells its client something true, or is
\* invisible to the contract.
LEMMA ContractStep ==
    ASSUME StreamInv, StreamInv', NEW q \in Requests, RequestStep(q)
    PROVE  [Contract!ContractNext]_(Contract!contractVars)
<1>1. CASE Commit(q)
  <2>0. RequestInv(q) /\ pc[q] = "commit" /\ rows' = rows \cup tx[q]
    BY <1>1 DEF Commit, StreamInv
  <2>1. tx[q] = {UserRow(q), ReplyRow(q)} /\ cwExists /\ RowsOf(q) = {} /\ wire[q].event = "none"
    BY <2>0 DEF RequestInv, OpenTransaction, StoredSoFar, EndOfHandler, Settled
  <2>2. ASSUME NEW r \in Requests PROVE RowsOf(r)' # {} <=> RowsOf(r) # {} \/ r = q
    <3>1. RowsOf(r)' = RowsOf(r) \cup {row \in tx[q] : row.req = r}
      BY <2>0 DEF RowsOf
    <3>2. \A row \in tx[q] : row.req = q
      BY <2>1 DEF UserRow, ReplyRow
    <3>3. tx[q] # {}
      BY <2>1
    <3>4. QED
      BY <3>1, <3>2, <3>3
  <2>3. StoredPairs' = StoredPairs \cup {q} /\ q \notin StoredPairs
    BY <2>1, <2>2 DEF StoredPairs
  <2>4. ToldClients' = ToldClients /\ ToldClients[q] = "nothing" /\ cwExists' = cwExists
    BY <1>1, <2>1 DEF ToldClients, Commit, httpVars
  <2>5. Contract!Store(q)
    BY <2>1, <2>3, <2>4 DEF Contract!Store
  <2>6. QED
    BY <2>5 DEF Contract!ContractNext
<1>2. CASE rows' = rows
  <2>1. cwExists' = cwExists /\ StoredPairs' = StoredPairs
    BY <1>2, StoreStep, SameRows DEF StoredPairs, Commit
  <2>2. \A r \in Requests \ {q} : wire'[r] = wire[r]
    BY TellOnce
  <2>3. ToldClients' = [ToldClients EXCEPT ![q] = ToldClients'[q]]
    BY <2>2 DEF ToldClients
  <2>4. CASE wire'[q].event = wire[q].event
    BY <2>1, <2>2, <2>4 DEF ToldClients, Contract!contractVars
  <2>5. CASE wire[q].event = "none" /\ wire'[q].event = "done"
    <3>1. q \in StoredPairs \/ ~cwExists
      BY <2>1, <2>5 DEF StreamInv, RequestInv, ToldSoFar, StoredPairs
    <3>2. Contract!TellDone(q)
      BY <2>1, <2>3, <2>5, <3>1 DEF ToldClients, Contract!TellDone
    <3>3. QED
      BY <3>2 DEF Contract!ContractNext
  <2>6. CASE wire[q].event = "none" /\ wire'[q].event \in ErrorEvents
    <3>1. q \notin StoredPairs
      BY <2>1, <2>6 DEF StreamInv, RequestInv, ToldSoFar, StoredPairs
    <3>2. ToldClients[q] = "nothing" /\ ToldClients'[q] = "error"
      BY <2>6 DEF ToldClients, ErrorEvents
    <3>3. Contract!TellError(q)
      BY <2>1, <2>3, <3>1, <3>2 DEF Contract!TellError
    <3>4. QED
      BY <3>3 DEF Contract!ContractNext
  <2>7. wire'[q].event \in {"none", "done"} \cup ErrorEvents
    BY DEF StreamInv, TypeOK, Events
  <2>8. QED
    BY <2>4, <2>5, <2>6, <2>7, TellOnce
<1>3. QED
    BY <1>1, <1>2, StoreStep

\* streamMessageDbController, with its timers, listeners and transaction,
\* implements what StreamContract promises the caller of POST /v1/messages/stream.
THEOREM Implementation == Spec => ImplementsContract
<1>1. Init => Contract!ContractInit
    BY DEF Init, Contract!ContractInit, StoredPairs, ToldClients, RowsOf
<1>2. ASSUME StreamInv, StreamInv', [Next]_vars PROVE [Contract!ContractNext]_(Contract!contractVars)
  <2>1. CASE \E q \in Requests : RequestStep(q)
    BY <1>2, <2>1, ContractStep
  <2>2. CASE DeleteWindow
    <3>1. ToldClients' = ToldClients /\ StoredPairs' = {}
      BY <2>2 DEF DeleteWindow, httpVars, ToldClients, StoredPairs, RowsOf
    <3>2. QED
      BY <2>2, <3>1 DEF DeleteWindow, Contract!ContractNext, Contract!DeleteAll
  <2>3. CASE UNCHANGED <<wire, rows, cwExists>>
    <3>1. ToldClients' = ToldClients /\ StoredPairs' = StoredPairs
      BY <2>3 DEF ToldClients, StoredPairs, RowsOf
    <3>2. QED
      BY <2>3, <3>1 DEF Contract!contractVars
  <2>4. CASE Shutdown \/ Restart \/ UNCHANGED vars
    BY <2>3, <2>4 DEF Shutdown, ProcessEnds, Restart, vars, httpVars, dbVars
  <2>5. QED
    BY <1>2, <2>1, <2>2, <2>4 DEF Next
<1>3. QED
    BY <1>1, <1>2, Invariant, PTL DEF Spec, ImplementsContract, Contract!ContractSpec

-----------------------------------------------------------------------------
(* The exchange of one request, as its client sees it.                     *)

\* A connection exists from the arrival on, a status only with the end, and a
\* client that is told "done" was sent every delta kept.
ExchangeInv(s) ==
    /\ pc[s] = "idle" => socket[s] = "none"
    /\ status[s] # 0 => ended[s]
    /\ wire[s].event = "done" => wire[s].deltas = content[s]

\* A step only adds to what was sent, and changes nothing after the end.
Flows(s) ==
    /\ wire[s].deltas <= wire'[s].deltas
    /\ pc[s] # "idle" => pc'[s] # "idle"
    /\ socket[s] = "closed" => socket'[s] = "closed"
    /\ ended[s] => /\ ended'[s] /\ status'[s] = status[s] /\ wire'[s] = wire[s]
                   /\ content'[s] = content[s] /\ upstream'[s] = upstream[s]

\* A request whose exchange a step leaves alone, or only disconnects.
LEMMA Untouched ==
    ASSUME StreamInv, NEW s \in Requests, ExchangeInv(s),
           pc'[s] = pc[s] \/ (pc[s] # "idle" /\ pc'[s] # "idle"),
           socket'[s] = socket[s] \/ (socket[s] # "none" /\ socket'[s] = "closed"),
           ended'[s] = ended[s], status'[s] = status[s], wire'[s] = wire[s],
           content'[s] = content[s], ended[s] => upstream'[s] = upstream[s]
    PROVE  ExchangeInv(s)' /\ Flows(s)
BY DEF ExchangeInv, Flows, StreamInv, TypeOK

\* The branches that end the event stream.
LEMMA EndStreamFlows ==
    ASSUME StreamInv, NEW q \in Requests, NEW st \in Statuses, NEW ev \in Events,
           EndStream(q, st, ev), UNCHANGED <<content, socket>>,
           pc[q] \in {"streaming", "checking", "committed"},
           \A s \in Requests \ {q} : upstream'[s] = upstream[s],
           NEW s \in Requests, ExchangeInv(s)
    PROVE  ExchangeInv(s)' /\ Flows(s)
<1> USE DEF EndStream, Return, Write, StreamInv, TypeOK
<1>1. CASE s # q
    BY <1>1, Untouched
<1>2. CASE s = q
  <2>1. ~ended[q] /\ wire[q].event = "none" /\ (socket[q] = "open" => wire[q].deltas = content[q])
    BY DEF RequestInv, EndOfHandler, ToldSoFar
  <2>2. /\ pc'[q] = "returned" /\ ended'[q] /\ socket'[q] = socket[q] /\ content'[q] = content[q]
        /\ wire'[q].deltas = wire[q].deltas
        /\ socket[q] # "open" => wire'[q] = wire[q]
    OBVIOUS
  <2> QED BY <1>2, <2>1, <2>2 DEF ExchangeInv, Flows
<1> QED BY <1>1, <1>2

\* A response sent before the stream starts.
LEMMA RefuseFlows ==
    ASSUME StreamInv, NEW q \in Requests, NEW st \in Statuses, Refuse(q, st),
           pc[q] \in Preparing, NEW s \in Requests, ExchangeInv(s)
    PROVE  ExchangeInv(s)' /\ Flows(s)
<1> USE DEF Refuse, Return, StreamInv, TypeOK
<1>1. CASE s # q
    BY <1>1, Untouched
<1>2. CASE s = q
  <2>1. ~ended[q] /\ wire[q].event = "none" /\ pc[q] # "idle"
    BY DEF RequestInv, EndOfHandler, Preparing
  <2>2. /\ pc'[q] = "returned" /\ ended'[q] /\ socket'[q] = socket[q] /\ wire'[q] = wire[q]
    OBVIOUS
  <2> QED BY <1>2, <2>1, <2>2 DEF ExchangeInv, Flows
<1> QED BY <1>1, <1>2

\* The end of the process.
LEMMA EndFlows ==
    ASSUME StreamInv, ProcessEnds, NEW s \in Requests, ExchangeInv(s)
    PROVE  ExchangeInv(s)' /\ Flows(s)
<1>1. /\ pc'[s] = pc[s] \/ (pc[s] # "idle" /\ pc'[s] # "idle")
      /\ socket'[s] = socket[s] \/ (socket[s] # "none" /\ socket'[s] = "closed")
    BY DEF ProcessEnds, Running, Preparing, Storing
<1>2. UNCHANGED <<content, upstream, ended, wire, status>>
    BY DEF ProcessEnds
<1> QED BY <1>1, <1>2, Untouched

\* Every step of one request.
LEMMA RequestFlows ==
    ASSUME StreamInv, NEW q \in Requests, RequestStep(q), NEW s \in Requests, ExchangeInv(s)
    PROVE  ExchangeInv(s)' /\ Flows(s)
<1>1. CASE Arrive(q)
  <2>1. CASE s # q
    BY <1>1, <2>1, Untouched DEF Arrive, Goto, StreamInv, TypeOK
  <2>2. CASE s = q
    BY <1>1, <2>2 DEF Arrive, Goto, StreamInv, TypeOK, ExchangeInv, Flows
  <2> QED BY <2>1, <2>2
<1>2. CASE PrepareThrows(q)
    BY <1>2, RefuseFlows, Codes DEF PrepareThrows
<1>3. ASSUME NEW l \in Running, Goto(q, l), pc[q] # "idle", UNCHANGED <<content, httpVars>>,
             ended[s] => upstream'[s] = upstream[s]
      PROVE  ExchangeInv(s)' /\ Flows(s)
  <2>1. pc'[s] = pc[s] \/ (pc[s] # "idle" /\ pc'[s] # "idle")
    BY <1>3 DEF Goto, StreamInv, TypeOK, Running, Preparing, Storing
  <2> QED BY <1>3, <2>1, Untouched DEF httpVars
<1>4. CASE Authenticate(q)
    BY <1>3, <1>4, RefuseFlows, Codes DEF Authenticate, Running, Preparing
<1>5. CASE FindWindow(q)
    BY <1>3, <1>5, RefuseFlows, Codes DEF FindWindow, Running, Preparing
<1>6. CASE GetKey(q)
    BY <1>3, <1>6, RefuseFlows, Codes DEF GetKey, Running, Preparing
<1>7. CASE StartStream(q)
  <2>1. ~ended[q]
    BY <1>7 DEF StartStream, StreamInv, RequestInv, EndOfHandler
  <2>2. ended[s] => upstream'[s] = upstream[s]
    BY <1>7, <2>1 DEF StartStream, StreamInv, TypeOK
  <2> QED BY <1>3, <1>7, <2>2 DEF StartStream, Running
<1>8. CASE Delta(q)
  <2>1. ~ended[q] /\ wire[q].event = "none"
    BY <1>8 DEF Delta, StreamInv, RequestInv, EndOfHandler
  <2>2. CASE s # q
    BY <1>8, <2>2, Untouched DEF Delta, Write, StreamInv, TypeOK
  <2>3. CASE s = q
    <3>1. /\ wire[q].deltas \in Nat /\ wire'[q].event = "none"
          /\ wire'[q].deltas \in {wire[q].deltas, wire[q].deltas + 1}
      BY <1>8, <2>1 DEF Delta, Write, StreamInv, TypeOK
    <3>2. pc'[q] = pc[q] /\ socket'[q] = socket[q] /\ status'[q] = status[q] /\ ended'[q] = ended[q]
      BY <1>8 DEF Delta
    <3> QED BY <2>1, <2>3, <3>1, <3>2 DEF ExchangeInv, Flows
  <2> QED BY <2>2, <2>3
<1>9. ASSUME AfterLoop(q), pc[q] = "streaming", UNCHANGED content,
             \A r \in Requests \ {q} : upstream'[r] = upstream[r]
      PROVE  ExchangeInv(s)' /\ Flows(s)
  <2>1. ~ended[q]
    BY <1>9 DEF StreamInv, RequestInv, EndOfHandler
  <2>2. CASE Goto(q, "checking") /\ UNCHANGED <<up, idleArmed, attached, httpVars>>
    BY <1>3, <1>9, <2>1, <2>2 DEF Running, Storing
  <2>3. CASE \E st \in {499, 502, 504}, ev \in {"idle_timeout", "none", "empty_response"} :
                EndStream(q, st, ev) /\ UNCHANGED <<up, socket>>
    BY <1>9, <2>3, EndStreamFlows, Codes
  <2> QED BY <1>9, <2>2, <2>3 DEF AfterLoop
<1>10. CASE LateChunk(q) \/ GeneratorReturns(q)
  <2>1. \A r \in Requests \ {q} : upstream'[r] = upstream[r]
    BY <1>10 DEF LateChunk, GeneratorReturns, StreamInv, TypeOK
  <2> QED BY <1>9, <1>10, <2>1 DEF LateChunk, GeneratorReturns
<1>11. CASE GeneratorThrows(q)
  <2>1. /\ \A r \in Requests \ {q} : upstream'[r] = upstream[r]
        /\ pc[q] = "streaming" /\ UNCHANGED <<content, socket>>
    BY <1>11 DEF GeneratorThrows, StreamInv, TypeOK
  <2>2. CASE \E st \in {502, 504}, ev \in {"idle_timeout", "provider_error"} : EndStream(q, st, ev)
    BY <2>1, <2>2, EndStreamFlows, Codes
  <2>3. CASE Cleanup(q) /\ Return(q, 499) /\ UNCHANGED wire
    <3>1. ~ended[q] /\ wire[q].event = "none"
      BY <2>1 DEF StreamInv, RequestInv, EndOfHandler
    <3>2. CASE s # q
      BY <2>1, <2>3, <3>2, Untouched DEF Return, StreamInv, TypeOK
    <3>3. CASE s = q
      BY <2>1, <2>3, <3>1, <3>3 DEF Return, StreamInv, TypeOK, ExchangeInv, Flows
    <3> QED BY <3>2, <3>3
  <2> QED BY <1>11, <2>2, <2>3 DEF GeneratorThrows
<1>12. CASE IdleFires(q)
    BY <1>12, Untouched DEF IdleFires, httpVars
<1>13. CASE ClientDisconnects(q)
    BY <1>13, Untouched DEF ClientDisconnects, StreamInv, TypeOK
<1>14. CASE CheckWindow(q)
  <2>1. CASE EndStream(q, 404, "chat_window_not_found")
    BY <1>14, <2>1, EndStreamFlows, Codes DEF CheckWindow
  <2>2. CASE Goto(q, "insertUser") /\ UNCHANGED <<idleArmed, attached, ended, wire, status>>
    BY <1>3, <1>14, <2>2 DEF CheckWindow, httpVars, Running, Storing
  <2> QED BY <1>14, <2>1, <2>2 DEF CheckWindow
<1>15. CASE InsertUser(q) \/ InsertReply(q) \/ Commit(q)
    BY <1>3, <1>15 DEF InsertUser, InsertReply, Commit, Running, Storing
<1>16. CASE StoreThrows(q)
  <2>1. CASE ProcessEnds
    BY <2>1, EndFlows
  <2>2. CASE Goto(q, "threw") /\ UNCHANGED <<content, upstream, httpVars>>
    <3>1. pc'[s] = pc[s] \/ (pc[s] # "idle" /\ pc'[s] # "idle")
      BY <1>16, <2>2 DEF StoreThrows, Goto, StreamInv, TypeOK, Storing
    <3> QED BY <2>2, <3>1, Untouched DEF httpVars
  <2> QED BY <1>16, <2>1, <2>2 DEF StoreThrows, HandlerRejects
<1>17. CASE Complete(q)
    BY <1>17, EndStreamFlows, Codes DEF Complete
<1> QED BY <1>1, <1>2, <1>4, <1>5, <1>6, <1>7, <1>8, <1>10, <1>11, <1>12, <1>13, <1>14, <1>15,
           <1>16, <1>17 DEF RequestStep, HandlerStep, ProviderStep

\* Every step of the API only adds to an exchange, and nothing after its end.
LEMMA ExchangeStep ==
    ASSUME StreamInv, [Next]_vars, NEW s \in Requests, ExchangeInv(s)
    PROVE  /\ ExchangeInv(s)' /\ Flows(s)
           /\ cwExists' => cwExists /\ rows \subseteq rows'
<1>1. CASE \E q \in Requests : RequestStep(q)
    BY <1>1, RequestFlows, StoreStep DEF Commit
<1>2. CASE Shutdown
    BY <1>2, EndFlows DEF Shutdown, ProcessEnds
<1>3. CASE DeleteWindow \/ Restart \/ UNCHANGED vars
    BY <1>3, Untouched DEF DeleteWindow, Restart, vars, handlerVars, httpVars, dbVars
<1> QED BY <1>1, <1>2, <1>3 DEF Next

\* A client of the stream told "done" was sent every delta of the stored answer,
\* and a status is reported only with the end of the response.
THEOREM ExchangesAreWhole == Spec => [](StreamInv /\ \A s \in Requests : ExchangeInv(s))
<1>1. Init => StreamInv /\ \A s \in Requests : ExchangeInv(s)
    BY InvInit DEF Init, ExchangeInv
<1>2. /\ StreamInv /\ \A s \in Requests : ExchangeInv(s)
      /\ [Next]_vars
      => (StreamInv /\ \A s \in Requests : ExchangeInv(s))'
    BY InvStep, ExchangeStep
<1> QED BY <1>1, <1>2, PTL DEF Spec

-----------------------------------------------------------------------------
(* A stream that was cut.                                                  *)

\* A step of one request leaves the handlers of the others where they were.
LEMMA OthersStay ==
    ASSUME TypeOK, NEW q \in Requests, RequestStep(q), NEW r \in Requests \ {q}
    PROVE  pc'[r] = pc[r] \/ (pc[r] # "idle" /\ pc'[r] = "dead")
<1> USE DEF TypeOK, Goto, Return
<1>1. CASE ProcessEnds
    BY <1>1 DEF ProcessEnds, Running, Preparing, Storing
<1>2. ASSUME NEW st, NEW ev, EndStream(q, st, ev) PROVE pc'[r] = pc[r]
    BY <1>2 DEF EndStream
<1>3. CASE AfterLoop(q)
    BY <1>2, <1>3 DEF AfterLoop
<1>4. CASE PrepareThrows(q) \/ Authenticate(q) \/ FindWindow(q) \/ GetKey(q)
    BY <1>4 DEF PrepareThrows, Authenticate, FindWindow, GetKey, Refuse
<1>5. CASE Arrive(q) \/ StartStream(q) \/ InsertUser(q) \/ InsertReply(q) \/ Commit(q)
           \/ IdleFires(q) \/ ClientDisconnects(q) \/ Delta(q)
    BY <1>5 DEF Arrive, StartStream, InsertUser, InsertReply, Commit, IdleFires,
       ClientDisconnects, Delta
<1>6. CASE StoreThrows(q)
    BY <1>1, <1>6 DEF StoreThrows, HandlerRejects
<1>7. CASE LateChunk(q) \/ GeneratorReturns(q)
    BY <1>3, <1>7 DEF LateChunk, GeneratorReturns
<1>8. CASE GeneratorThrows(q)
    BY <1>2, <1>8 DEF GeneratorThrows
<1>9. CASE CheckWindow(q) \/ Complete(q)
    BY <1>2, <1>9 DEF CheckWindow, Complete
<1> QED BY <1>4, <1>5, <1>6, <1>7, <1>8, <1>9 DEF RequestStep, HandlerStep, ProviderStep

\* A request begins by its arrival only.
LEMMA IdleStays ==
    ASSUME TypeOK, NEW q \in Requests, NEW r \in Requests, pc[r] = "idle",
           \/ HandlerStep(q) \/ ProviderStep(q) \/ IdleFires(q) \/ ClientDisconnects(q)
           \/ Arrive(q) /\ r # q
    PROVE  pc'[r] = "idle"
<1>1. CASE r # q
    BY <1>1, OthersStay DEF RequestStep
<1>2. CASE r = q
    BY <1>2 DEF HandlerStep, PrepareThrows, Authenticate, FindWindow, GetKey, StartStream,
       CheckWindow, InsertUser, InsertReply, Commit, StoreThrows, Complete, ProviderStep, Delta,
       LateChunk, GeneratorReturns, GeneratorThrows, IdleFires, ClientDisconnects, Preparing,
       Storing
<1> QED BY <1>1, <1>2

\* An aborted stream can only end: no more text, and no step towards storing.
LEMMA AbortedStep ==
    ASSUME StreamInv, NEW r \in Requests, RequestStep(r), pc[r] = "streaming", aborted[r]
    PROVE  wire'[r].deltas = wire[r].deltas /\ pc'[r] \notin Storing
<1>1. CASE pc'[r] = pc[r] /\ wire' = wire
    BY <1>1 DEF Storing
<1>2. ASSUME NEW st, NEW ev, EndStream(r, st, ev)
      PROVE  wire'[r].deltas = wire[r].deltas /\ pc'[r] = "returned"
    BY <1>2 DEF EndStream, Return, Write, StreamInv, TypeOK
<1>3. CASE AfterLoop(r)
    BY <1>2, <1>3 DEF AfterLoop, Storing
<1>4. CASE LateChunk(r) \/ GeneratorReturns(r)
    BY <1>3, <1>4 DEF LateChunk, GeneratorReturns
<1>5. CASE GeneratorThrows(r)
  <2>1. CASE Return(r, 499) /\ UNCHANGED wire
    BY <2>1 DEF Return, StreamInv, TypeOK, Storing
  <2> QED BY <1>2, <1>5, <2>1 DEF GeneratorThrows, Storing
<1>6. CASE IdleFires(r) \/ ClientDisconnects(r)
    BY <1>1, <1>6 DEF IdleFires, ClientDisconnects, httpVars
<1> QED BY <1>4, <1>5, <1>6 DEF RequestStep, Arrive, HandlerStep, PrepareThrows, Authenticate,
           FindWindow, GetKey, StartStream, CheckWindow, InsertUser, InsertReply, Commit,
           StoreThrows, Complete, ProviderStep, Delta, Preparing, Storing

\* A client that went away, or a provider that fell silent, before the loop over
\* the chunks ended gets no more text and no stored pair, in streamMessageDbController.
THEOREM AbortedStreamsEnd == Spec => AbortedStreamIsOver
<1>1. ASSUME StreamInv, [Next]_vars, NEW r \in Requests, pc[r] = "streaming", aborted[r]
      PROVE  wire'[r].deltas = wire[r].deltas /\ pc'[r] \notin Storing
  <2>1. CASE RequestStep(r)
    BY <1>1, <2>1, AbortedStep
  <2>2. ASSUME NEW q \in Requests, RequestStep(q), q # r
        PROVE  wire'[r].deltas = wire[r].deltas /\ pc'[r] \notin Storing
    BY <1>1, <2>2, TellOnce, OthersStay DEF StreamInv, Storing
  <2>3. CASE Shutdown
    BY <1>1, <2>3 DEF Shutdown, ProcessEnds, Storing
  <2>4. CASE DeleteWindow \/ Restart \/ UNCHANGED vars
    BY <1>1, <2>4 DEF DeleteWindow, Restart, vars, handlerVars, httpVars, Storing
  <2> QED BY <1>1, <2>1, <2>2, <2>3, <2>4 DEF Next
<1>2. StreamInv /\ [Next]_vars => [\A r \in Requests : pc[r] = "streaming" /\ aborted[r] =>
          wire'[r].deltas = wire[r].deltas /\ pc'[r] \notin Storing]_vars
    BY <1>1
<1> QED BY <1>2, Invariant, PTL DEF Spec, AbortedStreamIsOver
====
