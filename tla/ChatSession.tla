----------------------------- MODULE ChatSession -----------------------------
(***************************************************************************)
(* useChatSessions of apps/web for one chat window, with streaming on (as  *)
(* Workspace.tsx mounts it): the optimistic bubbles of the conversation,   *)
(* the one AbortController of the window, and streamMessage, the reader of *)
(* the event stream.  What the network brings is the variable reply, which *)
(* no action of the client changes: ChatRoundTrip puts the API behind it,  *)
(* and Spec below an arbitrary server.                                     *)
(***************************************************************************)
EXTENDS Naturals, Sequences

CONSTANTS
    MaxAttempts,   \* bound: the calls of streamMessage
    MaxDeltas      \* bound: the deltas of one reply

ASSUME ChatSessionAssumption == MaxAttempts \in Nat /\ MaxDeltas \in Nat

Attempts == 1..MaxAttempts
None == 0

VARIABLES
    messages,     \* the bubbles, oldest first
    pending,      \* pendingTempId: the attempt that created the user bubble
    controller,   \* the window's entry in controllers: an attempt, or None
    attempt,      \* the calls of streamMessage
    mounted,      \* the hook is mounted
    reply         \* what the network has delivered for each attempt

clientVars == <<messages, pending, controller, attempt, mounted>>
chatVars == <<clientVars, reply>>

\* A user bubble is named after the attempt that first sent it (nextTempId), a
\* placeholder after its own attempt (nextStreamAssistantId).  temp: the bubble
\* still carries its clientTempId, no row of the server has replaced it.
Bubble == [role : {"user", "assistant"}, id : Attempts, temp : BOOLEAN,
           status : {"pending", "streaming", "ok", "failed"}, text : 0..MaxDeltas]

Outcomes == {"confirmed", "unconfirmed", "failed", "canceled"}
Attempt == [phase : {"unused", "inflight"} \cup Outcomes,
            user : Attempts \cup {None}, cut : BOOLEAN, read : 0..MaxDeltas]

\* event: the last event of the stream.  The API writes {error: "text"}; the
\* reader knows {error: {code, message}} as well.  closed: "end" after [DONE] or
\* an orderly end of the body, "lost" after a reset.
Reply == [kind : {"none", "refused", "stream"}, deltas : 0..MaxDeltas,
          event : {"none", "done", "errorText", "errorObject"}, closed : {"no", "end", "lost"}]

ChatInit ==
    /\ messages = <<>>
    /\ pending = None
    /\ controller = None
    /\ attempt = [a \in Attempts |->
                     [phase |-> "unused", user |-> None, cut |-> FALSE, read |-> 0]]
    /\ mounted = TRUE

InFlight(a) == attempt[a].phase = "inflight"
\* A fresh name: nextTempId and nextStreamAssistantId count up.
NextAttempt == CHOOSE a \in Attempts : attempt[a].phase = "unused"
CanDispatch == \E a \in Attempts : attempt[a].phase = "unused"

\* setSessions: a state update after the unmount has no effect.
Show(list) == messages' = IF mounted THEN list ELSE messages
Map(Op(_)) == [i \in DOMAIN messages |-> Op(messages[i])]

\* messages.filter by a name: the bubble at a place of gone goes.  No two
\* bubbles share a name, so gone has one place at most.
Without(list, gone) ==
    LET i == CHOOSE i \in gone : TRUE
    IN IF gone = {} THEN list
       ELSE SubSeq(list, 1, i - 1) \o SubSeq(list, i + 1, Len(list))

IsUser(m, n) == m.role = "user" /\ m.id = n /\ m.temp
IsPlaceholder(m, a) == m.role = "assistant" /\ m.id = a /\ m.temp

-----------------------------------------------------------------------------
(* Dispatch and settlement of one call of streamMessage.                   *)

Placeholder(a) ==
    [role |-> "assistant", id |-> a, temp |-> TRUE, status |-> "streaming", text |-> 0]

\* Mutant: the previous call of the window is left running.
DispatchBeside(n, list) ==
    LET a == NextAttempt IN
    /\ controller' = a
    /\ attempt' = [attempt EXCEPT ![a].phase = "inflight", ![a].user = n]
    /\ pending' = n
    /\ Show(Append(list, Placeholder(a)))
    /\ UNCHANGED mounted

\* dispatchStream: the window's previous call is aborted, a placeholder appended.
Dispatch(n, list) ==
    LET a == NextAttempt IN
    /\ controller' = a
    /\ attempt' = [b \in Attempts |->
          IF b = a THEN [attempt[a] EXCEPT !.phase = "inflight", !.user = n]
          ELSE IF b = controller THEN [attempt[b] EXCEPT !.cut = TRUE] ELSE attempt[b]]
    /\ pending' = n
    /\ Show(Append(list, Placeholder(a)))
    /\ UNCHANGED mounted

Settle(a, outcome) ==
    /\ attempt' = [attempt EXCEPT ![a].phase = outcome]
    /\ controller' = IF controller = a THEN None ELSE controller
    /\ pending' = IF mounted /\ pending = attempt[a].user THEN None ELSE pending
    /\ UNCHANGED mounted

\* finalizeStream: both bubbles become ok, with or without the server's rows.
Finalize(a, rows) ==
    LET Final(m) ==
          IF IsUser(m, attempt[a].user) \/ IsPlaceholder(m, a)
          THEN [m EXCEPT !.status = "ok", !.temp = ~rows]
          ELSE m
    IN Settle(a, IF rows THEN "confirmed" ELSE "unconfirmed") /\ Show(Map(Final))

\* dropStreamingPlaceholder, then fulfillError.
Fail(a, outcome) ==
    LET Failed(m) == IF IsUser(m, attempt[a].user) THEN [m EXCEPT !.status = "failed"] ELSE m
        list == Map(Failed)
    IN Settle(a, outcome)
       /\ Show(Without(list, {i \in DOMAIN list : IsPlaceholder(list[i], a)}))

-----------------------------------------------------------------------------
(* The user.                                                               *)

\* submit of ChatWindow (refused while the window is pending) and
\* sendUserMessage: an optimistic bubble, then a dispatch.
Question(n) ==
    [role |-> "user", id |-> n, temp |-> TRUE, status |-> "pending", text |-> 0]

Send ==
    /\ mounted /\ CanDispatch /\ pending = None
    /\ Dispatch(NextAttempt, Append(messages, Question(NextAttempt)))

\* Mutant: a retry of any bubble.
RetryOfAny ==
    /\ mounted /\ CanDispatch
    /\ \E i \in DOMAIN messages :
          /\ messages[i].temp /\ messages[i].role = "user"
          /\ Dispatch(messages[i].id, [messages EXCEPT ![i].status = "pending"])

\* retry: of a failed bubble, under the name it has, pending or not.
Retry ==
    /\ mounted /\ CanDispatch
    /\ \E i \in DOMAIN messages :
          /\ messages[i].temp /\ messages[i].status = "failed"
          /\ Dispatch(messages[i].id, [messages EXCEPT ![i].status = "pending"])

\* regenerate: the reply goes and the nearest question above it, if there is
\* one, is sent anew under a new name.
Regenerate ==
    /\ mounted /\ CanDispatch /\ pending = None
    /\ \E i \in DOMAIN messages :
          /\ messages[i].role = "assistant" /\ messages[i].status = "ok"
          /\ \E j \in 1..i : messages[j].role = "user"
          /\ LET gone == {j \in DOMAIN messages :
                             messages[j].role = "assistant" /\ messages[j].id = messages[i].id}
             IN Dispatch(NextAttempt, Append(Without(messages, gone), Question(NextAttempt)))

Cancel ==
    /\ mounted /\ controller # None /\ ~attempt[controller].cut
    /\ attempt' = [attempt EXCEPT ![controller].cut = TRUE]
    /\ UNCHANGED <<messages, pending, controller, mounted>>

\* The effect's cleanup: every controller aborted, the map emptied.
Unmount ==
    /\ mounted
    /\ mounted' = FALSE
    /\ controller' = None
    /\ attempt' = [a \in Attempts |->
          IF a = controller THEN [attempt[a] EXCEPT !.cut = TRUE] ELSE attempt[a]]
    /\ UNCHANGED <<messages, pending>>

-----------------------------------------------------------------------------
(* The reader.                                                             *)

Reading(a) == InFlight(a) /\ ~attempt[a].cut
AllRead(a) == attempt[a].read = reply[a].deltas

\* appendStreamDelta
ReadDelta(a) ==
    /\ Reading(a) /\ reply[a].kind = "stream" /\ ~AllRead(a)
    /\ attempt' = [attempt EXCEPT ![a].read = @ + 1]
    /\ LET Grown(m) == IF IsPlaceholder(m, a) THEN [m EXCEPT !.text = @ + 1] ELSE m
       IN Show(Map(Grown))
    /\ UNCHANGED <<pending, controller, mounted>>

\* {done, userMessage, assistantMessage}: both rows are known.
ReadDone(a) ==
    /\ Reading(a) /\ AllRead(a) /\ reply[a].event = "done"
    /\ Finalize(a, TRUE)

\* [DONE] or the end of the body with no rows: an error event whose error is a
\* string has been passed over.
ReadEnd(a) ==
    /\ Reading(a) /\ AllRead(a)
    /\ reply[a].kind = "stream" /\ reply[a].closed = "end"
    /\ reply[a].event \in {"none", "errorText"}
    /\ Finalize(a, FALSE)

\* A refusal, an error event with an object, or a broken connection: rejects.
ReadError(a) ==
    /\ Reading(a)
    /\ \/ reply[a].kind = "refused"
       \/ AllRead(a) /\ reply[a].event = "errorObject"
       \/ reply[a].closed = "lost"
    /\ Fail(a, "failed")

\* fetch or read rejects with AbortError after abort().
ReadAborted(a) == InFlight(a) /\ attempt[a].cut /\ Fail(a, "canceled")

ReaderStep(a) ==
    ReadDelta(a) \/ ReadDone(a) \/ ReadEnd(a) \/ ReadError(a) \/ ReadAborted(a)

UserStep == Send \/ Retry \/ Regenerate \/ Cancel \/ Unmount

ClientNext == UserStep \/ \E a \in Attempts : ReaderStep(a)

-----------------------------------------------------------------------------
(* An arbitrary server: any prefix of any reply, in the order of a stream. *)

\* (What arrives for an aborted call is never read.)
Open(a) == Reading(a) /\ reply[a].closed = "no" /\ reply[a].kind # "refused"

ServerStep(a) ==
    /\ Open(a)
    /\ \/ reply[a].kind = "none" /\ \E k \in {"refused", "stream"} :
             reply' = [reply EXCEPT ![a].kind = k]
       \/ /\ reply[a].kind = "stream" /\ reply[a].event = "none"
          /\ reply[a].deltas < MaxDeltas
          /\ reply' = [reply EXCEPT ![a].deltas = @ + 1]
       \/ /\ reply[a].kind = "stream" /\ reply[a].event = "none"
          /\ \E e \in {"done", "errorText", "errorObject"} :
                reply' = [reply EXCEPT ![a].event = e]
       \/ reply[a].kind = "stream" /\ reply' = [reply EXCEPT ![a].closed = "end"]
       \/ reply' = [reply EXCEPT ![a].closed = "lost"]
    /\ UNCHANGED clientVars

SessionInit == ChatInit /\ reply = [a \in Attempts |->
    [kind |-> "none", deltas |-> 0, event |-> "none", closed |-> "no"]]

ChatNext ==
    \/ ClientNext /\ UNCHANGED reply
    \/ \E a \in Attempts : ServerStep(a)

ChatSpec == SessionInit /\ [][ChatNext]_chatVars

-----------------------------------------------------------------------------
(* Properties.                                                             *)

\* Type invariant of the client.
ChatTypeOK ==
    /\ messages \in Seq(Bubble)
    /\ pending \in Attempts \cup {None}
    /\ controller \in Attempts \cup {None}
    /\ attempt \in [Attempts -> Attempt]
    /\ mounted \in BOOLEAN
    /\ reply \in [Attempts -> Reply]

\* Whatever is sent, retried, cancelled or regenerated while an earlier answer
\* is still on its way, one call at most is live, and it is the one the window
\* holds the controller of: Stop always reaches it.
OneLiveAttempt ==
    \A a \in Attempts : Reading(a) => controller = a

\* The composer is locked only for a question whose call is in flight: the late
\* settlement of a superseded call neither unlocks it early nor leaves it locked.
PendingIsServed ==
    mounted /\ pending # None =>
        controller # None /\ InFlight(controller) /\ attempt[controller].user = pending

\* No spinner without a call behind it: a pending question or a growing reply
\* belongs to a call in flight.
NoStuckBubble ==
    mounted => \A i \in DOMAIN messages :
        LET m == messages[i] IN
        /\ m.status = "pending" =>
              \E a \in Attempts : InFlight(a) /\ attempt[a].user = m.id
        /\ m.status = "streaming" => InFlight(m.id)

\* A question offered for retry has no call in flight, so that a retry never
\* races the call it repeats.
FailedIsSettled ==
    mounted => \A i \in DOMAIN messages :
        messages[i].status = "failed" =>
            \A a \in Attempts : InFlight(a) => attempt[a].user # messages[i].id

\* In any order of sends, retries, cancels and late settlements, what a window
\* shows as under way has one call behind it, Stop reaches that call, and what
\* it offers for retry has none.
ChatInv ==
    /\ ChatTypeOK
    /\ OneLiveAttempt /\ PendingIsServed /\ NoStuckBubble /\ FailedIsSettled

\* A question shown as answered stays so: no late settlement of another call,
\* and no retry, turns it back.
UserStatus(list, n) == {list[i].status : i \in {i \in DOMAIN list : list[i].role = "user" /\ list[i].id = n}}
OkIsFinal ==
    [][\A n \in Attempts : UserStatus(messages, n) = {"ok"} => UserStatus(messages', n) = {"ok"}]_chatVars

\* Every lock of the composer is released.  (Checked in ChatRoundTrip, behind
\* the API.)
PendingEnds == (mounted /\ pending # None) ~> (~mounted \/ pending = None)
=============================================================================
