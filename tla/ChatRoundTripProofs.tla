-------------------------- MODULE ChatRoundTripProofs --------------------------
(***************************************************************************)
(* Theorems about ChatRoundTrip, for every number of calls and of deltas:  *)
(* the invariants of the two sides, put together.                          *)
(***************************************************************************)
EXTENDS ChatRoundTrip, TLAPS

\* The two sides with the lemmas proved about each of them.
ApiP == INSTANCE MessageStreamProofs WITH Requests <- Calls
WebP == INSTANCE ChatProofs WITH reply <- [a \in Calls |-> Received(a)]

\* A call fails for good: its connection broke, it never reached the API, or the
\* API refused it.  No cut call counts as failed.
FailedFits(a) ==
    attempt[a].phase = "failed" =>
        /\ ~attempt[a].cut
        /\ \/ socket[a] = "closed"
           \/ pc[a] = "idle"
           \/ ended[a] /\ upstream[a] = "none"

\* Each side keeps its own invariant, and what the browser has settled is true
\* of the database.
TripInv ==
    /\ ApiP!StreamInv /\ \A a \in Calls : ApiP!ExchangeInv(a)
    /\ WebP!ChatIInv
    /\ ConfirmedIsStored /\ ShownIsStored
    /\ \A a \in Calls : FailedFits(a)

-----------------------------------------------------------------------------
(* The steps of the round trip are steps of the two sides.                 *)

\* The two sides take their constants from here.
LEMMA Bounds ==
    /\ ApiP!MessageStreamAssumption /\ WebP!ChatSessionAssumption
    /\ WebP!Attempts = Calls
    BY TripAssumption DEF ApiP!MessageStreamAssumption, WebP!ChatSessionAssumption,
       WebP!Attempts, Calls

\* MessageStream is instantiated twice, here and by the theorems about it; these
\* say that it is the same system.
LEMMA SameProcess ==
    /\ Api!ProcessEnds <=> ApiP!ProcessEnds
    BY DEF Api!ProcessEnds, ApiP!ProcessEnds, Api!Running, ApiP!Running, Api!Preparing,
       ApiP!Preparing, Api!Storing, ApiP!Storing

\* The steps before the stream.
LEMMA SamePreparing ==
    ASSUME NEW a \in Calls
    PROVE  /\ Api!Arrive(a) <=> ApiP!Arrive(a)
           /\ Api!StartStream(a) <=> ApiP!StartStream(a)
           /\ Api!PrepareThrows(a) <=> ApiP!PrepareThrows(a)
           /\ Api!Authenticate(a) <=> ApiP!Authenticate(a)
           /\ Api!FindWindow(a) <=> ApiP!FindWindow(a)
           /\ Api!GetKey(a) <=> ApiP!GetKey(a)
    BY DEF Api!Arrive, ApiP!Arrive, Api!StartStream, ApiP!StartStream, Api!PrepareThrows,
       ApiP!PrepareThrows, Api!Authenticate, ApiP!Authenticate, Api!FindWindow, ApiP!FindWindow,
       Api!GetKey, ApiP!GetKey, Api!Refuse, ApiP!Refuse, Api!Return, ApiP!Return, Api!Preparing,
       ApiP!Preparing, Api!Goto, ApiP!Goto, Api!httpVars, ApiP!httpVars, Api!dbVars, ApiP!dbVars

\* The steps of the stream.
LEMMA SameStreaming ==
    ASSUME NEW a \in Calls
    PROVE  /\ Api!Delta(a) <=> ApiP!Delta(a)
           /\ Api!LateChunk(a) <=> ApiP!LateChunk(a)
           /\ Api!GeneratorReturns(a) <=> ApiP!GeneratorReturns(a)
           /\ Api!GeneratorThrows(a) <=> ApiP!GeneratorThrows(a)
           /\ Api!IdleFires(a) <=> ApiP!IdleFires(a)
           /\ Api!ClientDisconnects(a) <=> ApiP!ClientDisconnects(a)
    BY DEF Api!Delta, ApiP!Delta, Api!LateChunk, ApiP!LateChunk, Api!GeneratorReturns,
       ApiP!GeneratorReturns, Api!GeneratorThrows, ApiP!GeneratorThrows, Api!IdleFires,
       ApiP!IdleFires, Api!ClientDisconnects, ApiP!ClientDisconnects, Api!AfterLoop,
       ApiP!AfterLoop, Api!EndStream, ApiP!EndStream, Api!Cleanup, ApiP!Cleanup, Api!Write,
       ApiP!Write, Api!Return, ApiP!Return, Api!Goto, ApiP!Goto, Api!httpVars, ApiP!httpVars,
       Api!dbVars, ApiP!dbVars

\* The steps after the loop.
LEMMA SameStoring ==
    ASSUME NEW a \in Calls
    PROVE  /\ Api!CheckWindow(a) <=> ApiP!CheckWindow(a)
           /\ Api!InsertUser(a) <=> ApiP!InsertUser(a)
           /\ Api!InsertReply(a) <=> ApiP!InsertReply(a)
           /\ Api!Commit(a) <=> ApiP!Commit(a)
           /\ Api!StoreThrows(a) <=> ApiP!StoreThrows(a)
           /\ Api!Complete(a) <=> ApiP!Complete(a)
    BY SameProcess DEF Api!CheckWindow, ApiP!CheckWindow, Api!InsertUser, ApiP!InsertUser,
       Api!InsertReply, ApiP!InsertReply, Api!Commit, ApiP!Commit, Api!StoreThrows,
       ApiP!StoreThrows, Api!Complete, ApiP!Complete, Api!HandlerRejects, ApiP!HandlerRejects,
       Api!UserRow, ApiP!UserRow, Api!ReplyRow, ApiP!ReplyRow, Api!Storing, ApiP!Storing,
       Api!EndStream, ApiP!EndStream, Api!Cleanup, ApiP!Cleanup, Api!Write, ApiP!Write,
       Api!Return, ApiP!Return, Api!Goto, ApiP!Goto, Api!httpVars, ApiP!httpVars, Api!dbVars,
       ApiP!dbVars

\* The steps of no request.
LEMMA SameRest ==
    /\ Api!DeleteWindow <=> ApiP!DeleteWindow
    /\ Api!Shutdown <=> ApiP!Shutdown
    /\ Api!Restart <=> ApiP!Restart
    BY SameProcess DEF Api!DeleteWindow, ApiP!DeleteWindow, Api!Shutdown, ApiP!Shutdown,
       Api!Restart, ApiP!Restart, Api!handlerVars, ApiP!handlerVars, Api!httpVars,
       ApiP!httpVars, Api!dbVars, ApiP!dbVars

\* What the API does of the round trip is a step of MessageStream.
LEMMA ApiMoves ==
    ASSUME \/ \E a \in Calls : \/ RequestArrives(a) \/ ApiWorks(a)
                               \/ AbortCloses(a) \/ NetworkDrops(a)
           \/ Others
    PROVE  ApiP!Next /\ UNCHANGED uiVars
<1>1. ASSUME NEW a \in Calls,
             RequestArrives(a) \/ ApiWorks(a) \/ AbortCloses(a) \/ NetworkDrops(a)
      PROVE  ApiP!RequestStep(a) /\ UNCHANGED uiVars
  <2>1. CASE Api!HandlerStep(a) /\ UNCHANGED uiVars
    BY <2>1, SamePreparing, SameStoring
       DEF Api!HandlerStep, ApiP!HandlerStep, ApiP!RequestStep
  <2>2. CASE Api!ProviderStep(a) /\ UNCHANGED uiVars
    BY <2>2, SameStreaming DEF Api!ProviderStep, ApiP!ProviderStep, ApiP!RequestStep
  <2> QED BY <1>1, <2>1, <2>2, SamePreparing, SameStreaming
             DEF RequestArrives, ApiWorks, AbortCloses, NetworkDrops, ApiP!RequestStep
<1>2. CASE Others
    BY <1>2, SameRest DEF Others, ApiP!Next
<1> QED BY <1>1, <1>2 DEF ApiP!Next


\* ChatSession likewise.
LEMMA SameUser == Web!UserStep <=> WebP!UserStep
    BY DEF Web!UserStep, WebP!UserStep, Web!Send, WebP!Send, Web!Retry, WebP!Retry,
       Web!Regenerate, WebP!Regenerate, Web!Cancel, WebP!Cancel, Web!Unmount, WebP!Unmount,
       Web!Dispatch, WebP!Dispatch, Web!NextAttempt, WebP!NextAttempt, Web!CanDispatch,
       WebP!CanDispatch, Web!Question, WebP!Question, Web!Placeholder, WebP!Placeholder,
       Web!Without, WebP!Without, Web!Show, WebP!Show, Web!None, WebP!None, Web!Attempts,
       WebP!Attempts

\* The steps of the reader.
LEMMA SameReader ==
    ASSUME NEW a \in Calls
    PROVE  /\ Web!ReaderStep(a) <=> WebP!ReaderStep(a)
           /\ \A outcome : Web!Fail(a, outcome) <=> WebP!Fail(a, outcome)
           /\ Web!Reading(a) <=> WebP!Reading(a)
    BY DEF Web!ReaderStep, WebP!ReaderStep, Web!ReadDelta, WebP!ReadDelta, Web!ReadDone,
       WebP!ReadDone, Web!ReadEnd, WebP!ReadEnd, Web!ReadError, WebP!ReadError, Web!ReadAborted,
       WebP!ReadAborted, Web!Reading, WebP!Reading, Web!AllRead, WebP!AllRead, Web!Finalize,
       WebP!Finalize, Web!Fail, WebP!Fail, Web!Settle, WebP!Settle, Web!Without, WebP!Without,
       Web!IsUser, WebP!IsUser, Web!IsPlaceholder, WebP!IsPlaceholder, Web!InFlight,
       WebP!InFlight, Web!None, WebP!None, Web!Show, WebP!Show, Web!Map, WebP!Map

\* What the browser does of the round trip is a step of ChatSession, in which the
\* network stands still, or the failure of a call that never reached the API.
LEMMA WebMoves ==
    ASSUME UserActs \/ \E a \in Calls : ClientReads(a)
    PROVE  WebP!ClientNext /\ UNCHANGED serverVars
BY SameUser, SameReader, Bounds DEF UserActs, ClientReads, WebP!ClientNext

\* A connection that fails.
LEMMA Connecting ==
    ASSUME NEW a \in Calls, ConnectFails(a)
    PROVE  /\ WebP!Reading(a) /\ WebP!Fail(a, "failed") /\ pc[a] = "idle"
           /\ UNCHANGED serverVars
BY SameReader DEF ConnectFails

\* What the API leaves alone brings nothing to the browser.
LEMMA NothingArrives ==
    ASSUME UNCHANGED serverVars
    PROVE  UNCHANGED [a \in Calls |-> Received(a)]
BY DEF serverVars, Received

-----------------------------------------------------------------------------
(* What the two sides know of each other.                                  *)

\* The types of what is cited below.
LEMMA TripTypes ==
    ASSUME TripInv, NEW a \in Calls
    PROVE  /\ content[a] \in 0..MaxDeltas /\ MaxDeltas \in Nat
           /\ wire[a] \in [deltas : Nat, event : ApiP!Events, sentinel : BOOLEAN]
           /\ wire[a].deltas <= content[a]
           /\ attempt[a] \in WebP!Attempt
           /\ attempt[a].read \in Nat
    BY TripAssumption, Bounds
       DEF TripInv, ApiP!StreamInv, ApiP!TypeOK, ApiP!RequestInv, ApiP!ToldSoFar,
           WebP!ChatIInv, WebP!ChatTypeOK, WebP!Attempt

\* What the connection brings is a reply of ChatSession.
LEMMA ReceivedTypes ==
    ASSUME NEW a \in Calls, content[a] \in 0..MaxDeltas, MaxDeltas \in Nat,
           wire[a].deltas \in Nat, wire[a].deltas <= content[a]
    PROVE  Received(a) \in WebP!Reply
<1>1. Received(a).deltas \in 0..MaxDeltas
    BY DEF Received
<1> QED BY <1>1 DEF Received, WebP!Reply

\* The row of an answer that was received to the end holds the text received.
LEMMA AnsweredIsStored ==
    ASSUME TripInv, NEW a \in Calls, WebP!ReadDone(a)
    PROVE  /\ Stored(a) \/ ~cwExists
           /\ cwExists =>
                 [req |-> a, role |-> "assistant", deltas |-> attempt[a].read] \in rows
<1>1. wire[a].event = "done" /\ attempt[a].read = wire[a].deltas
    BY DEF WebP!ReadDone, WebP!AllRead, Received
<1>2. wire[a].deltas = content[a]
    BY <1>1 DEF TripInv, ApiP!ExchangeInv
<1>3. /\ ApiP!RowsOf(a) # {} \/ ~cwExists
      /\ ApiP!RowsOf(a) \in {{}, {ApiP!UserRow(a), ApiP!ReplyRow(a)}}
    BY <1>1 DEF TripInv, ApiP!StreamInv, ApiP!RequestInv, ApiP!ToldSoFar, ApiP!StoredSoFar
<1>4. cwExists => ApiP!ReplyRow(a) \in rows
    BY <1>3 DEF ApiP!RowsOf
<1> QED BY <1>1, <1>2, <1>3, <1>4 DEF ApiP!ReplyRow, Stored, ApiP!RowsOf, Api!RowsOf

\* A failed call over a connection that stayed open has stored nothing.
LEMMA FailedIsUnstored ==
    ASSUME TripInv
    PROVE  FailedOverOpenConnection
<1> SUFFICES ASSUME NEW a \in Calls, attempt[a].phase = "failed", socket[a] = "open"
             PROVE  ~Stored(a)
    BY DEF FailedOverOpenConnection
<1>1. ended[a] /\ upstream[a] = "none"
    BY DEF TripInv, FailedFits, ApiP!ExchangeInv
<1>2. ApiP!RowsOf(a) = {}
    BY <1>1 DEF TripInv, ApiP!StreamInv, ApiP!RequestInv, ApiP!StoredSoFar
<1> QED BY <1>2 DEF Stored, ApiP!RowsOf, Api!RowsOf

-----------------------------------------------------------------------------
(* The steps.                                                              *)

\* More text arriving disturbs nothing the client has.
LEMMA Arriving ==
    ASSUME TripInv, UNCHANGED uiVars,
           \A a \in Calls : /\ Received(a)' \in WebP!Reply
                            /\ wire[a].deltas <= wire'[a].deltas
                            /\ wire[a].deltas \in Nat /\ wire'[a].deltas \in Nat
    PROVE  WebP!ChatIInv'
<1> USE DEF TripInv, uiVars, WebP!ChatIInv
<1>1. WebP!ChatTypeOK'
    BY Bounds DEF WebP!ChatTypeOK
<1>2. WebP!TextFits'
  <2>1. ASSUME NEW a \in Calls PROVE attempt[a].read <= wire'[a].deltas
    <3>1. attempt[a].read \in Nat
      BY <2>1, TripTypes
    <3>2. attempt[a].read <= wire[a].deltas
      BY <2>1, Bounds DEF WebP!TextFits, Received
    <3> QED BY <2>1, <3>1, <3>2
  <2> QED BY <2>1, Bounds DEF WebP!TextFits, Received, WebP!Made
<1> QED BY <1>1, <1>2
       DEF WebP!BubblesFit, WebP!Distinct, WebP!Made, WebP!CallsFit, WebP!InFlight,
           WebP!ControllerFits, WebP!OneLiveAttempt, WebP!Reading, WebP!NoStuckBubble,
           WebP!QuestionsWait

\* A step of the API.
LEMMA ApiKeeps ==
    ASSUME TripInv, ApiP!Next, UNCHANGED uiVars,
           \A a \in Calls : pc[a] = "idle" /\ pc'[a] # "idle" => attempt[a].phase # "failed"
    PROVE  TripInv'
<1>1. ApiP!StreamInv'
    BY ApiP!InvStep, Bounds DEF TripInv
<1>2. \A a \in Calls : ApiP!ExchangeInv(a)' /\ ApiP!Flows(a)
    BY ApiP!ExchangeStep, Bounds DEF TripInv
<1>3. cwExists' => cwExists /\ rows \subseteq rows'
  <2>1. CASE \E a \in Calls : TRUE
    BY <2>1, ApiP!ExchangeStep, Bounds DEF TripInv
  <2>2. CASE ~\E a \in Calls : TRUE
    BY <2>2 DEF ApiP!Next, ApiP!DeleteWindow, ApiP!Shutdown, ApiP!Restart, ApiP!ProcessEnds,
       ApiP!dbVars
  <2> QED BY <2>1, <2>2
<1>4. \A a \in Calls : /\ content'[a] \in 0..MaxDeltas /\ wire'[a].deltas \in Nat
                       /\ wire'[a].deltas <= content'[a]
    BY <1>1 DEF ApiP!StreamInv, ApiP!TypeOK, ApiP!RequestInv, ApiP!ToldSoFar
<1>5. WebP!ChatIInv'
  <2>1. ASSUME NEW a \in Calls PROVE Received(a)' \in WebP!Reply
    BY <1>4, TripTypes DEF Received, WebP!Reply
  <2>2. \A a \in Calls : wire[a].deltas <= wire'[a].deltas /\ wire[a].deltas \in Nat
    BY <1>2, TripTypes DEF ApiP!Flows
  <2> QED BY <1>4, <2>1, <2>2, Arriving
<1>6. ConfirmedIsStored'
    BY <1>3 DEF TripInv, ConfirmedIsStored, Stored, Api!RowsOf, uiVars
<1>7. ShownIsStored'
    BY <1>3 DEF TripInv, ShownIsStored, uiVars
<1>8. ASSUME NEW a \in Calls PROVE FailedFits(a)'
    BY <1>2 DEF TripInv, FailedFits, ApiP!Flows, uiVars
<1> QED BY <1>1, <1>2, <1>5, <1>6, <1>7, <1>8 DEF TripInv

\* A step of the browser: what it confirms is stored, what it fails is not.
LEMMA WebKeeps ==
    ASSUME TripInv, UNCHANGED serverVars, WebP!ChatIInv', WebP!RepliesStay,
           \A a \in Calls :
              /\ attempt'[a].phase = "confirmed" =>
                    attempt[a].phase = "confirmed" \/ WebP!ReadDone(a)
              /\ attempt[a].phase = "failed" => attempt'[a] = attempt[a]
              /\ attempt'[a].phase = "failed" /\ attempt[a].phase # "failed" =>
                    ~attempt'[a].cut /\ (WebP!ReadError(a) \/ pc[a] = "idle")
    PROVE  TripInv'
<1>1. /\ ApiP!StreamInv' /\ ApiP!vars' = ApiP!vars
      /\ \A a \in Calls : ApiP!ExchangeInv(a)'
  <2>1. UNCHANGED ApiP!vars
    BY DEF serverVars, ApiP!vars, ApiP!handlerVars, ApiP!httpVars, ApiP!dbVars
  <2>2. ApiP!StreamInv'
    BY <2>1, ApiP!InvStep, Bounds DEF TripInv
  <2>3. \A a \in Calls : ApiP!ExchangeInv(a)'
    BY <2>1, ApiP!ExchangeStep, Bounds DEF TripInv
  <2> QED BY <2>1, <2>2, <2>3
<1>2. ConfirmedIsStored'
  <2>1. ASSUME NEW a \in Calls, attempt'[a].phase = "confirmed"
        PROVE  Stored(a) \/ ~cwExists
    BY <2>1, AnsweredIsStored DEF TripInv, ConfirmedIsStored
  <2>2. cwExists' = cwExists /\ \A a \in Calls : Stored(a)' = Stored(a)
    BY DEF serverVars, Stored, Api!RowsOf
  <2> QED BY <2>1, <2>2 DEF ConfirmedIsStored
<1>3. ShownIsStored'
  <2> SUFFICES ASSUME NEW k \in DOMAIN messages', messages'[k].role = "assistant",
                      ~messages'[k].temp, cwExists
               PROVE  [req |-> messages'[k].id, role |-> "assistant",
                       deltas |-> messages'[k].text] \in rows
    BY DEF ShownIsStored, serverVars
  <2>1. PICK j \in DOMAIN messages :
            /\ messages[j].role = "assistant" /\ messages[j].id = messages'[k].id
            /\ messages[j].text = messages'[k].text
            /\ messages[j].temp => /\ attempt[messages[j].id].phase = "inflight"
                                   /\ attempt'[messages[j].id].phase = "confirmed"
    BY DEF WebP!RepliesStay, WebP!InFlight
  <2>2. CASE ~messages[j].temp
    BY <2>1, <2>2 DEF TripInv, ShownIsStored
  <2>3. CASE messages[j].temp
    <3>1. messages[j].id \in Calls
      BY WebP!ElementTypes, Bounds DEF TripInv, WebP!ChatIInv, WebP!Bubble
    <3>2. WebP!ReadDone(messages[j].id)
      BY <2>1, <2>3, <3>1
    <3>3. messages[j].text = attempt[messages[j].id].read
      BY <2>1, <2>3 DEF TripInv, WebP!ChatIInv, WebP!TextFits
    <3> QED BY <2>1, <3>1, <3>2, <3>3, AnsweredIsStored
  <2> QED BY <2>2, <2>3
<1>4. ASSUME NEW a \in Calls PROVE FailedFits(a)'
  <2>1. CASE attempt[a].phase = "failed"
    BY <2>1 DEF TripInv, FailedFits, serverVars
  <2>2. CASE attempt'[a].phase = "failed" /\ attempt[a].phase # "failed"
    <3>1. WebP!ReadError(a) =>
             \/ upstream[a] = "none" /\ status[a] # 0
             \/ socket[a] = "closed"
      BY DEF WebP!ReadError, Received
    <3>2. status[a] # 0 => ended[a]
      BY DEF TripInv, ApiP!ExchangeInv
    <3> QED BY <2>2, <3>1, <3>2 DEF FailedFits, serverVars
  <2> QED BY <2>1, <2>2 DEF FailedFits
<1> QED BY <1>1, <1>2, <1>3, <1>4 DEF TripInv

\* TripInv is inductive.
LEMMA TripStarts == TripInit => TripInv
<1> SUFFICES ASSUME TripInit PROVE TripInv
    OBVIOUS
<1>1. Api!Init <=> ApiP!Init
    BY DEF Api!Init, ApiP!Init
<1>2. ApiP!StreamInv
    BY <1>1, ApiP!InvInit, Bounds DEF TripInit
<1>3. \A a \in Calls : ApiP!ExchangeInv(a)
    BY <1>1 DEF TripInit, ApiP!Init, ApiP!ExchangeInv
<1>4. WebP!ChatIInv
  <2>1. WebP!ChatInit
    BY DEF TripInit, Web!ChatInit, WebP!ChatInit, Web!None, WebP!None, Web!Attempts, WebP!Attempts
  <2>2. [a \in Calls |-> Received(a)] = [a \in WebP!Attempts |->
            [kind |-> "none", deltas |-> 0, event |-> "none", closed |-> "no"]]
    BY <1>1, Bounds DEF TripInit, ApiP!Init, Received
  <2> QED BY <2>1, <2>2, WebP!StartsWell, Bounds DEF WebP!SessionInit
<1>5. /\ messages = <<>> /\ \A a \in Calls : attempt[a].phase = "unused"
    BY DEF TripInit, Web!ChatInit, Web!Attempts, Calls
<1> QED BY <1>2, <1>3, <1>4, <1>5 DEF TripInv, ConfirmedIsStored, ShownIsStored, FailedFits

\* Every step of the round trip keeps TripInv.
LEMMA TripStep == TripInv /\ [TripNext]_tripVars => TripInv'
<1> SUFFICES ASSUME TripInv, [TripNext]_tripVars PROVE TripInv'
    OBVIOUS
<1>1. ApiP!TypeOK
    BY DEF TripInv, ApiP!StreamInv
<1>2. CASE \E a \in Calls : RequestArrives(a)
  <2>1. PICK a \in Calls : RequestArrives(a)
    BY <1>2
  <2>2. ApiP!Next /\ UNCHANGED uiVars
    BY <1>2, ApiMoves
  <2>3. ASSUME NEW b \in Calls, pc[b] = "idle", pc'[b] # "idle"
        PROVE  attempt[b].phase # "failed"
    <3>1. a = b
      BY <1>1, <2>1, <2>3, ApiP!IdleStays, Bounds, SamePreparing DEF RequestArrives
    <3> QED BY <2>1, <3>1 DEF RequestArrives, TripInv, FailedFits
  <2> QED BY <2>2, <2>3, ApiKeeps
<1>3. CASE \/ \E a \in Calls : ApiWorks(a) \/ AbortCloses(a) \/ NetworkDrops(a)
           \/ Others
  <2>1. ApiP!Next /\ UNCHANGED uiVars
    BY <1>3, ApiMoves
  <2>2. ASSUME NEW b \in Calls, pc[b] = "idle" PROVE pc'[b] = "idle"
    <3>1. ASSUME NEW a \in Calls, ApiWorks(a) \/ AbortCloses(a) \/ NetworkDrops(a)
          PROVE  \/ ApiP!HandlerStep(a) \/ ApiP!ProviderStep(a)
                 \/ ApiP!IdleFires(a) \/ ApiP!ClientDisconnects(a)
      BY <3>1, SamePreparing, SameStreaming, SameStoring
         DEF ApiWorks, AbortCloses, NetworkDrops, Api!HandlerStep, ApiP!HandlerStep,
             Api!ProviderStep, ApiP!ProviderStep
    <3>2. CASE Others
      BY <1>1, <2>2, <3>2, SameRest
         DEF Others, ApiP!DeleteWindow, ApiP!Shutdown, ApiP!Restart, ApiP!ProcessEnds,
             ApiP!handlerVars, ApiP!Running, ApiP!Preparing, ApiP!Storing
    <3> QED BY <1>1, <1>3, <2>2, <3>1, <3>2, ApiP!IdleStays, Bounds
  <2> QED BY <2>1, <2>2, ApiKeeps
<1>4. CASE UserActs \/ \E a \in Calls : ClientReads(a)
  <2>1. WebP!ClientNext /\ UNCHANGED serverVars
    BY <1>4, WebMoves
  <2>2. UNCHANGED [a \in Calls |-> Received(a)]
    BY <2>1, NothingArrives
  <2>3. WebP!ChatIInv' /\ WebP!Onward
    BY <2>1, <2>2, WebP!StepsWell, Bounds DEF TripInv, WebP!ChatNext
  <2>4. ASSUME NEW b \in Calls
        PROVE  /\ attempt'[b].phase = "confirmed" =>
                     attempt[b].phase = "confirmed" \/ WebP!ReadDone(b)
               /\ attempt'[b].phase = "failed" =>
                     attempt[b].phase = "failed" \/ WebP!ReadError(b)
               /\ WebP!ReadError(b) /\ attempt'[b].phase = "failed" => ~attempt'[b].cut
    BY <2>1, <2>2, WebP!OutcomesAreEarned, Bounds DEF TripInv
  <2>5. ASSUME NEW b \in Calls, attempt[b].phase = "failed" PROVE attempt'[b] = attempt[b]
    BY <2>3, <2>5, Bounds DEF WebP!Onward, WebP!SettledStay, WebP!Made, WebP!InFlight
  <2> QED BY <2>1, <2>3, <2>4, <2>5, WebKeeps DEF WebP!Onward
<1>5. CASE \E a \in Calls : ConnectFails(a)
  <2>1. PICK a \in Calls : ConnectFails(a)
    BY <1>5
  <2>2. /\ WebP!Reading(a) /\ WebP!Fail(a, "failed") /\ pc[a] = "idle"
        /\ UNCHANGED serverVars /\ UNCHANGED [b \in Calls |-> Received(b)]
    BY <2>1, Connecting, NothingArrives
  <2>3. WebP!ChatIInv' /\ WebP!Onward
    BY <2>2, WebP!Failing, Bounds DEF TripInv, WebP!Reading, WebP!Outcomes
  <2>4. /\ attempt' = [attempt EXCEPT ![a].phase = "failed"]
        /\ ~attempt[a].cut /\ attempt \in [Calls -> WebP!Attempt]
    BY <2>2, Bounds DEF WebP!Fail, WebP!Settle, WebP!Reading, TripInv, WebP!ChatIInv,
       WebP!ChatTypeOK
  <2>5. ASSUME NEW b \in Calls
        PROVE  /\ attempt'[b].phase = "confirmed" => attempt[b].phase = "confirmed"
               /\ attempt[b].phase = "failed" => attempt'[b] = attempt[b]
               /\ attempt'[b].phase = "failed" /\ attempt[b].phase # "failed" =>
                     ~attempt'[b].cut /\ pc[b] = "idle"
    BY <2>2, <2>4 DEF WebP!Attempt, WebP!Reading, WebP!InFlight
  <2> QED BY <2>2, <2>3, <2>5, WebKeeps DEF WebP!Onward
<1>6. CASE UNCHANGED tripVars
  <2>1. UNCHANGED <<serverVars, uiVars>>
    BY <1>6 DEF tripVars
  <2>2. UNCHANGED [a \in Calls |-> Received(a)]
    BY <2>1, NothingArrives
  <2>3. WebP!ChatIInv' /\ WebP!Onward
    BY <2>1, <2>2, WebP!StepsWell, Bounds
       DEF TripInv, uiVars, WebP!chatVars, WebP!clientVars
  <2> QED BY <2>1, <2>3, WebKeeps DEF WebP!Onward, uiVars
<1> QED BY <1>2, <1>3, <1>4, <1>5, <1>6 DEF TripNext

-----------------------------------------------------------------------------
(* Theorems.                                                               *)

\* The two sides keep their invariants when put together, and agree.
THEOREM TripInvariant == TripSpec => []TripInv
    BY TripStarts, TripStep, PTL DEF TripSpec

\* Whatever is sent, retried, cancelled, lost on the network or cut by the end of
\* the process: a question shown by useChatSessions with the server's rows is in
\* the database with the text shown, unless its window was deleted, and a question
\* offered for retry over an intact connection has not been stored.
THEOREM ShownAnswersAreStored == TripSpec => []WhatIsShownIsStored
<1>1. TripInv => WhatIsShownIsStored
    BY FailedIsUnstored DEF TripInv, WhatIsShownIsStored
<1> QED BY <1>1, TripInvariant, PTL

\* Behind the API too, one call at most is live, and what is under way or offered
\* for retry has its call, or has none.
THEOREM WindowStaysSafe == TripSpec => [](WebP!ChatInv)
<1>1. TripInv => WebP!ChatInv
    BY Bounds, WebP!InvariantIsSafe DEF TripInv
<1> QED BY <1>1, TripInvariant, PTL
=============================================================================
