------------------------------ MODULE RateLimiter ------------------------------
(***************************************************************************)
(* lib/rate-limiter.ts of apps/api: the fixed-window limiter of the sign-up *)
(* and log-in routes (per client address) and of the provider test, with   *)
(* its sweep of elapsed entries.  check and reset are synchronous.         *)
(***************************************************************************)
EXTENDS Integers, Sequences

CONSTANTS
    Keys,       \* the keys that are limited
    Max,        \* max
    WindowMs,   \* windowMs
    SweepMs,    \* SWEEP_INTERVAL_MS
    SecondMs,   \* 1000
    MaxTime     \* bound: the latest time

ASSUME RateLimiterAssumption ==
    /\ Max \in Nat \ {0} /\ WindowMs \in Nat \ {0}
    /\ SweepMs \in Nat \ {0} /\ SecondMs \in Nat \ {0} /\ MaxTime \in Nat

VARIABLES
    now,          \* Date.now(), assumed not to go back
    store,        \* the entry of each key
    lastSweepAt,
    answer,       \* what the last check returned
    granted       \* history: when each key was granted since it was last reset

rateVars == <<now, store, lastSweepAt, answer, granted>>

\* A key the map does not hold.
NoEntry == [count |-> 0, resetAt |-> 0]
Entry == [count : 0..Max, resetAt : Nat]
Elapsed(entry) == now >= entry.resetAt

Init ==
    /\ now = SweepMs
    /\ store = [k \in Keys |-> NoEntry]
    /\ lastSweepAt = 0
    /\ answer = [ok |-> TRUE, retryAfterSecs |-> 0]
    /\ granted = [k \in Keys |-> <<>>]

Tick ==
    /\ now < MaxTime
    /\ \E t \in (now + 1)..MaxTime : now' = t
    /\ UNCHANGED <<store, lastSweepAt, answer, granted>>

-----------------------------------------------------------------------------
\* Mutant: Math.floor.
SecondsRoundedDown(ms) == ms \div SecondMs
\* Math.ceil(ms / 1000)
Seconds(ms) == (ms + SecondMs - 1) \div SecondMs

\* maybeSweep: at most once per SweepMs, every elapsed entry is dropped.
Due == now - lastSweepAt >= SweepMs

\* Mutant: the sweep drops the entries that are still running.
SweptRunning == IF Due THEN [k \in Keys |-> NoEntry] ELSE store
Swept == IF Due THEN [k \in Keys |-> IF Elapsed(store[k]) THEN NoEntry ELSE store[k]]
         ELSE store

\* Mutant: the time of the sweep is set before the sweep is known to be due.
SweepTimeAlways == now
SweepTime == IF Due THEN now ELSE lastSweepAt

Full(entry) == entry.count >= Max

Granted(k) ==
    /\ answer' = [ok |-> TRUE, retryAfterSecs |-> 0]
    /\ granted' = [granted EXCEPT ![k] = Append(@, now)]

Check(k) ==
    LET entry == Swept[k] IN
    /\ lastSweepAt' = SweepTime
    /\ \/ /\ Elapsed(entry)            \* no entry, or an elapsed one
          /\ store' = [Swept EXCEPT ![k] = [count |-> 1, resetAt |-> now + WindowMs]]
          /\ Granted(k)
       \/ /\ ~Elapsed(entry) /\ Full(entry)
          /\ store' = Swept
          /\ answer' = [ok |-> FALSE, retryAfterSecs |-> Seconds(entry.resetAt - now)]
          /\ UNCHANGED granted
       \/ /\ ~Elapsed(entry) /\ ~Full(entry)
          /\ store' = [Swept EXCEPT ![k].count = @ + 1]
          /\ Granted(k)
    /\ UNCHANGED now

\* reset: called after a successful sign-up or log-in.
Reset(k) ==
    /\ store' = [store EXCEPT ![k] = NoEntry]
    /\ granted' = [granted EXCEPT ![k] = <<>>]
    /\ UNCHANGED <<now, lastSweepAt, answer>>

Next == Tick \/ \E k \in Keys : Check(k) \/ Reset(k)

Spec == Init /\ [][Next]_rateVars

-----------------------------------------------------------------------------
(* Properties.                                                             *)

\* Type invariant of the limiter.
RateTypeOK ==
    /\ now \in Nat /\ lastSweepAt \in Nat
    /\ store \in [Keys -> Entry]
    /\ answer \in [ok : BOOLEAN, retryAfterSecs : Nat]
    /\ granted \in [Keys -> Seq(Nat)]

\* The sweep keeps the map small without a timer of its own: after a check no
\* entry has been elapsed for SweepMs or longer.
StaleEntriesAreDropped ==
    [][\A k \in Keys : Check(k) =>
          \A j \in Keys : store'[j] # NoEntry => now - store'[j].resetAt < SweepMs]_rateVars

\* Across the border of two windows a key is granted less than twice Max times
\* within any WindowMs.
LessThanTwiceMax ==
    \A k \in Keys : \A i \in DOMAIN granted[k] :
        i + 2 * Max - 1 \in DOMAIN granted[k] =>
            granted[k][i + 2 * Max - 1] >= granted[k][i] + WindowMs

\* A limiter that drops entries behaves like one that never does: the contract
\* of RateLimitContract, under the view that an elapsed entry is no entry.
Used == [k \in Keys |-> IF Elapsed(store[k]) THEN 0 ELSE store[k].count]
Ends == [k \in Keys |-> IF Elapsed(store[k]) THEN 0 ELSE store[k].resetAt]
Contract == INSTANCE RateLimitContract WITH clock <- now, used <- Used, ends <- Ends
ImplementsRateLimit == Contract!RateSpec

-----------------------------------------------------------------------------
(* The inductive invariant.                                                *)

\* An entry outlives the sweep that could have dropped it, is never fuller than
\* Max nor ends later than a window from now; no entry has no end.
EntryInv(k) ==
    /\ store[k].count = 0 => store[k].resetAt = 0
    /\ store[k] # NoEntry => store[k].resetAt > lastSweepAt /\ store[k].count > 0
    /\ store[k].resetAt <= now + WindowMs

\* The grants of a key are in order.  While its entry runs, the entry's count is
\* that of the last grants, the first of them opened the window, and the window
\* before it, Max grants long at most, had ended by then.  When no entry runs,
\* whatever was granted Max grants ago was granted a window ago.
HistoryInv(k) ==
    LET g == granted[k]
        n == Len(g)
        entry == store[k]
    IN
    /\ \A i, j \in 1..n : i <= j => g[i] <= g[j]
    /\ \A i \in 1..n : g[i] <= now
    /\ ~Elapsed(entry) =>
          /\ entry.count \in 1..n
          /\ g[n - entry.count + 1] = entry.resetAt - WindowMs
          /\ \A j \in 1..n : j <= n - entry.count + 1 - Max =>
                g[j] + WindowMs <= entry.resetAt - WindowMs
    /\ Elapsed(entry) => \A j \in 1..n : j <= n + 1 - Max => g[j] + WindowMs <= now
    /\ \A i, j \in 1..n : j = i + 2 * Max - 1 => g[j] >= g[i] + WindowMs

LimiterInv ==
    /\ RateTypeOK
    /\ now > 0 /\ lastSweepAt <= now
    /\ \A k \in Keys : EntryInv(k) /\ HistoryInv(k)
=============================================================================
