--------------------------- MODULE ProviderClient ---------------------------
(***************************************************************************)
(* One call of a provider client of apps/api (openai.provider.ts,          *)
(* anthropic.provider.ts, perplexity.provider.ts): a key is verified, a    *)
(* completion is asked for, or an answer is streamed by the generator the  *)
(* controller of MessageStream iterates.                                   *)
(*                                                                         *)
(* The body of a streamed answer is lines, and a line arrives in halves,   *)
(* the newline with the second: a chunk the reader gets begins and ends    *)
(* anywhere.  Lines are named by their number.                             *)
(***************************************************************************)
EXTENDS Naturals, Sequences, FiniteSets

CONSTANT MaxLines       \* bound: the lines of a body

ASSUME ProviderAssumption == MaxLines \in Nat

VARIABLES
    provider, kind,     \* the client and what it was asked for
    phase,              \* where the call stands
    armed,              \* its timer runs: connectTimer, or AbortSignal.timeout
    timedOut,           \* the timer's signal is aborted
    callerAborted,      \* opts.signal is aborted
    sent, out,          \* the lines of the body by kind, and the halves sent of them
    upstream,           \* the provider's side of the connection
    got, buf,           \* the halves read, and let buf: those of no line yet
    yields,             \* the lines whose deltas were yielded, 0 for the done chunk
    result              \* what a call that is no stream settles with; the error's code

reply == <<sent, out, upstream>>
clientVars == <<provider, kind, phase, armed, timedOut, callerAborted, reply, got, buf, yields, result>>

Providers == {"openai", "anthropic", "perplexity"}
Statuses == {"ok", "unauthorized", "forbidden", "error"}
LineKinds == {"text", "other", "broken"}    \* "other" yields nothing: meta data, an empty
                                            \* delta, [DONE], an event of an error
Over == {"returned", "threw", "abandoned"}

Half(i) == [line |-> (i + 1) \div 2, last |-> i % 2 = 0]
Halves(first, last) == [i \in 1..(last + 1 - first) |-> Half(first + i - 1)]
Complete == {n \in 1..Len(sent) : 2 * n <= out}

ClientInit ==
    /\ provider \in Providers
    /\ kind \in {"verify", "completion", "stream"}
    /\ phase = "connecting" /\ armed = TRUE
    /\ timedOut = FALSE /\ callerAborted = FALSE
    /\ sent = <<>> /\ out = 0 /\ upstream = "open"
    /\ got = 0 /\ buf = <<>> /\ yields = <<>> /\ result = "none"

-----------------------------------------------------------------------------
(* The provider and the caller.                                            *)

SendsHalf ==
    /\ kind = "stream" /\ phase \in {"reading", "framing", "yielding"} /\ upstream = "open"
    /\ IF out % 2 = 1 THEN UNCHANGED sent
       ELSE Len(sent) < MaxLines /\ \E k \in LineKinds : sent' = Append(sent, k)
    /\ out' = out + 1
    /\ UNCHANGED <<provider, kind, phase, armed, timedOut, callerAborted, upstream, got, buf,
                   yields, result>>

UpstreamEnds ==
    /\ upstream = "open" /\ phase \notin Over
    /\ upstream' \in {"ended", "broken"}
    /\ UNCHANGED <<provider, kind, phase, armed, timedOut, callerAborted, sent, out, got, buf,
                   yields, result>>

CallerAborts ==
    /\ kind = "stream" /\ ~callerAborted /\ phase \notin Over
    /\ callerAborted' = TRUE
    /\ UNCHANGED <<provider, kind, phase, armed, timedOut, reply, got, buf, yields, result>>

TimerFires ==
    /\ armed /\ armed' = FALSE /\ timedOut' = TRUE
    /\ UNCHANGED <<provider, kind, phase, callerAborted, reply, got, buf, yields, result>>

-----------------------------------------------------------------------------
(* The call.                                                               *)

Settles(how, what) ==
    /\ phase' = how /\ result' = what /\ armed' = FALSE
    /\ UNCHANGED <<provider, kind, timedOut, callerAborted, reply, got, buf, yields>>

Cut == timedOut \/ callerAborted

\* fetch rejects: no connection, or one of the signals it was given is aborted.
FetchRejects ==
    /\ phase = "connecting" /\ (Cut \/ upstream # "open")
    /\ IF kind = "verify" THEN Settles("returned", "provider_error")
       ELSE Settles("threw", "api_error")

\* What the headers say of a key.
Verdict(status) ==
    IF status = "ok" THEN "ok"
    ELSE IF status = "unauthorized" \/ (status = "forbidden" /\ provider = "perplexity")
         THEN "unauthorized" ELSE "provider_error"

\* The headers are there: the connect timer of a stream is cleared, the time-out
\* of a completion runs on over the body.
HeadersArrive ==
    /\ phase = "connecting" /\ ~Cut /\ upstream = "open"
    /\ \E status \in Statuses :
          IF kind = "verify" THEN Settles("returned", Verdict(status))
          ELSE /\ phase' = IF status # "ok" THEN "refused"
                           ELSE IF kind = "stream" THEN "reading" ELSE "body"
               /\ armed' = (armed /\ kind # "stream")
               /\ UNCHANGED <<provider, kind, timedOut, callerAborted, reply, got, buf, yields,
                              result>>

\* The body of an error is read for its message, whatever comes of that.
RefusalIsRead ==
    /\ phase = "refused" /\ (Cut \/ upstream # "open")
    /\ Settles("threw", "api_error")

\* A completion's body: with text, with none, or not what it should be; only
\* OpenAI's client takes an answer of no characters.
BodyIsRead ==
    /\ phase = "body" /\ (Cut \/ upstream # "open")
    /\ \/ Settles("threw", "invalid_response")
       \/ ~Cut /\ upstream = "ended" /\ Settles("returned", "content")
       \/ ~Cut /\ upstream = "ended" /\ provider = "openai" /\ Settles("returned", "empty")

\* Mutant: what was left of the chunk before is forgotten.
ReadsAnew ==
    /\ phase = "reading" /\ ~callerAborted /\ upstream # "broken"
    /\ \E last \in (got + 1)..out : buf' = Halves(got + 1, last) /\ got' = last
    /\ phase' = "framing"
    /\ UNCHANGED <<provider, kind, armed, timedOut, callerAborted, reply, yields, result>>
\* reader.read() resolves with some of what was sent.
Reads ==
    /\ phase = "reading" /\ ~callerAborted /\ upstream # "broken"
    /\ \E last \in (got + 1)..out : buf' = buf \o Halves(got + 1, last) /\ got' = last
    /\ phase' = "framing"
    /\ UNCHANGED <<provider, kind, armed, timedOut, callerAborted, reply, yields, result>>

LineEnds == {i \in DOMAIN buf : buf[i].last}

\* One turn of the while over buf: no newline is left in it; or the first line is
\* taken, and skipped, yielded, or found to be no JSON.
TakesLine ==
    /\ phase = "framing"
    /\ IF LineEnds = {} THEN phase' = "reading" /\ UNCHANGED <<buf, yields, result>>
       ELSE LET end == CHOOSE i \in LineEnds : \A j \in LineEnds : i <= j
                n == buf[end].line
                whole == end = 2 /\ buf[1].line = n
            IN  /\ buf' = SubSeq(buf, end + 1, Len(buf))
                /\ IF ~whole \/ sent[n] = "broken"
                   THEN phase' = "threw" /\ result' = "invalid_response" /\ UNCHANGED yields
                   ELSE /\ phase' = IF sent[n] = "text" THEN "yielding" ELSE "framing"
                        /\ yields' = IF sent[n] = "text" THEN Append(yields, n) ELSE yields
                        /\ UNCHANGED result
    /\ UNCHANGED <<provider, kind, armed, timedOut, callerAborted, reply, got>>

\* The consumer asks for the next chunk, or, having aborted, breaks its loop.
ConsumerGoesOn ==
    /\ phase = "yielding"
    /\ phase' = IF callerAborted THEN "abandoned" ELSE "framing"
    /\ UNCHANGED <<provider, kind, armed, timedOut, callerAborted, reply, got, buf, yields,
                   result>>

\* Mutant: a body that breaks off is asked for again, from its beginning.
ReadFailsRetries ==
    /\ phase = "reading" /\ (callerAborted \/ upstream = "broken")
    /\ IF callerAborted THEN Settles("threw", "failed")
       ELSE /\ phase' = "reading" /\ got' = 0 /\ buf' = <<>> /\ yields' = <<>>
            /\ upstream' = "open" /\ sent' = <<>> /\ out' = 0
            /\ UNCHANGED <<provider, kind, armed, timedOut, callerAborted, result>>
\* reader.read() rejects: the connection broke, or the caller aborted.
ReadFails ==
    /\ phase = "reading" /\ (callerAborted \/ upstream = "broken")
    /\ Settles("threw", "failed")

\* The body has ended: what buf still holds is dropped, done is yielded.
BodyEnds ==
    /\ phase = "reading" /\ ~callerAborted /\ upstream = "ended" /\ got = out
    /\ phase' = "returned" /\ yields' = Append(yields, 0)
    /\ UNCHANGED <<provider, kind, armed, timedOut, callerAborted, reply, got, buf, result>>

Works ==
    \/ FetchRejects \/ HeadersArrive \/ RefusalIsRead \/ BodyIsRead
    \/ Reads \/ TakesLine \/ ConsumerGoesOn \/ ReadFails \/ BodyEnds

ClientNext == SendsHalf \/ UpstreamEnds \/ CallerAborts \/ TimerFires \/ Works

-----------------------------------------------------------------------------
(* Properties.                                                             *)

ProviderTypeOK ==
    /\ phase \in {"connecting", "refused", "body", "reading", "framing", "yielding"} \cup Over
    /\ sent \in Seq(LineKinds) /\ got <= out /\ out <= 2 * Len(sent)
    /\ result \in {"none", "ok", "unauthorized", "provider_error", "content", "empty",
                   "api_error", "invalid_response", "failed"}

\* What was yielded before the done chunk, which comes last.
Deltas ==
    IF yields # <<>> /\ yields[Len(yields)] = 0 THEN SubSeq(yields, 1, Len(yields) - 1) ELSE yields

\* However the body was cut into chunks, the deltas yielded are lines of text the
\* provider sent, each once and in order, and none before one of them is left out.
YieldedAsSent ==
    /\ \A i, j \in DOMAIN Deltas : i < j => Deltas[i] < Deltas[j]
    /\ \A i \in DOMAIN Deltas : sent[Deltas[i]] = "text"
    /\ \A i \in DOMAIN Deltas : \A n \in 1..Deltas[i] :
          sent[n] = "text" => \E j \in 1..i : Deltas[j] = n

\* A generator that is done has yielded all the text whose lines were sent whole,
\* and says so once.
DoneIsAll ==
    /\ phase = "returned" /\ kind = "stream" =>
          /\ \A n \in Complete : sent[n] = "text" => \E i \in DOMAIN yields : yields[i] = n
          /\ yields[Len(yields)] = 0
    /\ \A i \in DOMAIN yields : yields[i] = 0 => i = Len(yields) /\ phase = "returned"

\* A stream that has begun is cut by its caller, its provider or a line that is
\* no JSON: never by the timer, and never by where a chunk ended.
StreamsAreCutForCause ==
    /\ kind = "stream" /\ (timedOut \/ armed) => phase \in {"connecting", "threw"} /\ got = 0
    /\ phase = "threw" /\ got > 0 =>
          callerAborted \/ upstream = "broken" \/ \E n \in Complete : sent[n] = "broken"

ProviderInv == ProviderTypeOK /\ YieldedAsSent /\ DoneIsAll /\ StreamsAreCutForCause

\* A verification, a completion, or a stream whose caller has aborted it.
MustEnd == (kind # "stream" \/ callerAborted) /\ phase \notin Over

\* The generator is what MessageStream takes it to be.
Generator == INSTANCE GeneratorContract WITH
    stage <- IF phase \in Over THEN phase ELSE "open",
    deltas <- Len(Deltas),
    cut <- callerAborted
ImplementsGenerator == Generator!ContractSpec
=============================================================================
