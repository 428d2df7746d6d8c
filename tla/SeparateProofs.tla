--------------------------- MODULE SeparateProofs ---------------------------
(***************************************************************************)
(* Theorems about the components of Separate, for every value of the       *)
(* constants.  Each part has an invariant of its own, inductive under the  *)
(* part's Next; the theorems at the end lift them to the specification.    *)
(***************************************************************************)
EXTENDS Separate, SequenceTheorems, FiniteSetTheorems, WellFoundedInduction, TLAPS

-----------------------------------------------------------------------------
(* The rate limiter: its inductive invariant, the bound on the grants of   *)
(* any window, the bound on stale entries, and the proof that it           *)
(* implements RateLimitContract.                                           *)

\* A wait told in seconds is the shortest that is long enough.
LEMMA Ceiling ==
    ASSUME NEW x \in Nat \ {0}, NEW s \in Nat \ {0}, NEW w, w = (x + s - 1) \div s
    PROVE  w \in Nat \ {0} /\ w * s >= x /\ (w - 1) * s < x
<1>1. w \in Int /\ w * s <= x + s - 1 /\ x + s - 1 < (w + 1) * s
  OBVIOUS
<1>2. w >= 1
  BY <1>1
<1> QED BY <1>1, <1>2

\* The retryAfterSecs of a refusal is such a wait.
LEMMA Waiting ==
    ASSUME NEW ms \in Nat \ {0}
    PROVE  /\ Seconds(ms) \in Nat \ {0}
           /\ Seconds(ms) * SecondMs >= ms
           /\ (Seconds(ms) - 1) * SecondMs < ms
BY Ceiling, RateLimiterAssumption DEF Seconds

\* The sweep drops elapsed entries only, and all of them when it is due.
LEMMA Sweeping ==
    ASSUME LimiterInv
    PROVE  /\ Swept \in [Keys -> Entry]
           /\ \A j \in Keys : Swept[j] = store[j] \/ (Swept[j] = NoEntry /\ Elapsed(store[j]))
           /\ \A j \in Keys : Elapsed(Swept[j]) <=> Elapsed(store[j])
           /\ \A j \in Keys : ~Elapsed(store[j]) => Swept[j] = store[j]
           /\ SweepTime \in Nat /\ SweepTime <= now
           /\ now - SweepTime < SweepMs
           /\ \A j \in Keys : Swept[j] # NoEntry => Swept[j].resetAt > SweepTime /\ Swept[j].count > 0
<1> USE RateLimiterAssumption
<1>1. NoEntry \in Entry
  BY DEF NoEntry, Entry
<1>2. /\ now \in Nat /\ lastSweepAt \in Nat /\ now > 0 /\ lastSweepAt <= now
      /\ store \in [Keys -> Entry]
      /\ \A j \in Keys : store[j] # NoEntry => store[j].resetAt > lastSweepAt /\ store[j].count > 0
  BY DEF LimiterInv, RateTypeOK, EntryInv
<1>3. CASE Due
  <2>1. Swept = [j \in Keys |-> IF Elapsed(store[j]) THEN NoEntry ELSE store[j]] /\ SweepTime = now
    BY <1>3 DEF Swept, SweepTime
  <2>2. Elapsed(NoEntry)
    BY <1>2 DEF Elapsed, NoEntry
  <2>3. \A j \in Keys : store[j].resetAt \in Nat
    BY <1>2 DEF Entry
  <2>4. \A j \in Keys : ~Elapsed(store[j]) => store[j].resetAt > now
    BY <2>3, <1>2 DEF Elapsed
  <2>5. \A j \in Keys : Swept[j] # NoEntry => Swept[j] = store[j] /\ ~Elapsed(store[j])
    BY <2>1
  <2> QED BY <1>1, <1>2, <2>1, <2>2, <2>4, <2>5
<1>4. CASE ~Due
  <2>1. Swept = store /\ SweepTime = lastSweepAt
    BY <1>4 DEF Swept, SweepTime
  <2> QED BY <1>2, <1>4, <2>1 DEF Due
<1> QED BY <1>3, <1>4

-----------------------------------------------------------------------------
(* The invariant.                                                          *)

\* An empty store satisfies the invariant.
LEMMA InitInv == Init => LimiterInv
BY RateLimiterAssumption DEF Init, LimiterInv, RateTypeOK, EntryInv, HistoryInv, NoEntry, Entry, Elapsed

\* A grant is put at the end of the history of its key.
LEMMA Appending ==
    ASSUME NEW g \in Seq(Nat), NEW t \in Nat
    PROVE  /\ Append(g, t) \in Seq(Nat)
           /\ Len(g) \in Nat
           /\ Len(Append(g, t)) = Len(g) + 1
           /\ \A i \in 1..Len(g) : Append(g, t)[i] = g[i] /\ g[i] \in Nat
           /\ Append(g, t)[Len(g) + 1] = t
OBVIOUS

\* So does a store that time passes over: a window that ends leaves its grants
\* old enough.
LEMMA TickKeepsInv == LimiterInv /\ Tick => LimiterInv'
<1> SUFFICES ASSUME LimiterInv, Tick PROVE LimiterInv'
  OBVIOUS
<1> USE RateLimiterAssumption
<1>1. /\ now' \in Nat /\ now' > now /\ now \in Nat
      /\ store' = store /\ lastSweepAt' = lastSweepAt /\ answer' = answer /\ granted' = granted
  BY DEF Tick, LimiterInv, RateTypeOK
<1>2. RateTypeOK' /\ now' > 0 /\ lastSweepAt' <= now'
  BY <1>1 DEF LimiterInv, RateTypeOK
<1>3. ASSUME NEW k \in Keys PROVE EntryInv(k)'
  BY <1>1 DEF LimiterInv, EntryInv, RateTypeOK, Entry
<1>4. ASSUME NEW k \in Keys PROVE HistoryInv(k)'
  <2> DEFINE g == granted[k]
             n == Len(g)
             entry == store[k]
  <2>1. HistoryInv(k) /\ g \in Seq(Nat) /\ entry \in Entry /\ n \in Nat
    BY DEF LimiterInv, RateTypeOK
  <2>2. \A i \in 1..n : g[i] \in Nat
    BY <2>1
  <2>3. entry.resetAt \in Nat /\ entry.count \in 0..Max
    BY <2>1 DEF Entry
  <2>4. granted'[k] = g /\ store'[k] = entry
    BY <1>1
  <2>5. \A i \in 1..n : g[i] <= now'
    <3>1. \A i \in 1..n : g[i] <= now
      BY <2>1 DEF HistoryInv
    <3> HIDE DEF g, n
    <3> QED BY <3>1, <2>2, <1>1
  <2>6. ASSUME ~Elapsed(entry), now' >= entry.resetAt, NEW j \in 1..n, j <= n + 1 - Max
        PROVE  g[j] + WindowMs <= now'
    <3>1. entry.count \in 1..n /\ g[n - entry.count + 1] = entry.resetAt - WindowMs
      BY <2>6, <2>1 DEF HistoryInv
    <3> DEFINE c == entry.count
               first == g[n - c + 1]
    <3>2. c \in 0..Max /\ c \in 1..n /\ n \in Nat /\ j \in Nat /\ Max \in Nat
      BY <2>3, <3>1, <2>1
    <3>3. first \in Nat /\ g[j] \in Nat /\ entry.resetAt \in Nat /\ first = entry.resetAt - WindowMs
      <4> HIDE DEF c, n
      <4>1. n - c + 1 \in 1..n
        BY <3>2
      <4> QED BY <4>1, <3>1, <2>2, <2>3 DEF c
    <3>4. j <= n - entry.count + 1 /\ n - entry.count + 1 \in 1..n
      <4> HIDE DEF c, n
      <4>1. j <= n - c + 1 /\ n - c + 1 \in 1..n
        BY <3>2, <2>6
      <4> QED BY <4>1 DEF c
    <3>5. g[j] <= g[n - entry.count + 1]
      BY <3>4, <2>1 DEF HistoryInv
    <3> HIDE DEF first
    <3>6. g[j] <= first
      BY <3>5 DEF first
    <3> QED
      <4> HIDE DEF g, entry
      <4> QED BY <3>6, <3>3, <2>6, <1>1
  <2>7. ASSUME Elapsed(entry), NEW j \in 1..n, j <= n + 1 - Max
        PROVE  g[j] + WindowMs <= now'
    <3>1. g[j] + WindowMs <= now
      BY <2>7, <2>1 DEF HistoryInv
    <3> HIDE DEF g, n
    <3> QED BY <3>1, <2>2, <1>1
  <2>8. Elapsed(entry)' <=> now' >= entry.resetAt
    BY <2>4 DEF Elapsed
  <2>9. Elapsed(entry)' => \A j \in 1..n : j <= n + 1 - Max => g[j] + WindowMs <= now'
    BY <2>6, <2>7, <2>8
  <2>10. ~Elapsed(entry)' => ~Elapsed(entry)
    <3> HIDE DEF entry
    <3> QED BY <2>8, <2>3, <1>1 DEF Elapsed
  <2>11. QED
    BY <2>4, <2>5, <2>9, <2>10, <2>1, Zenon DEF HistoryInv
<1> QED BY <1>2, <1>3, <1>4 DEF LimiterInv

\* So does a store from which a key was deleted.
LEMMA ResetKeepsInv == \A k \in Keys : LimiterInv /\ Reset(k) => LimiterInv'
<1> SUFFICES ASSUME NEW k \in Keys, LimiterInv, Reset(k) PROVE LimiterInv'
  OBVIOUS
<1> USE RateLimiterAssumption
<1>1. /\ now' = now /\ lastSweepAt' = lastSweepAt /\ answer' = answer
      /\ store' = [store EXCEPT ![k] = NoEntry] /\ granted' = [granted EXCEPT ![k] = <<>>]
      /\ store \in [Keys -> Entry] /\ granted \in [Keys -> Seq(Nat)] /\ now \in Nat /\ now > 0
  BY DEF Reset, LimiterInv, RateTypeOK
<1>2. NoEntry \in Entry /\ NoEntry.count = 0 /\ NoEntry.resetAt = 0
  BY DEF NoEntry, Entry
<1>3. RateTypeOK' /\ now' > 0 /\ lastSweepAt' <= now'
  BY <1>1, <1>2 DEF LimiterInv, RateTypeOK
<1>4. ASSUME NEW j \in Keys PROVE EntryInv(j)' /\ HistoryInv(j)'
  <2>1. CASE j = k
    <3>1. store'[j] = NoEntry /\ granted'[j] = <<>>
      BY <2>1, <1>1
    <3>2. Elapsed(store[j])'
      BY <3>1, <1>1, <1>2 DEF Elapsed
    <3> QED BY <3>1, <3>2, <1>1, <1>2 DEF EntryInv, HistoryInv
  <2>2. CASE j # k
    BY <2>2, <1>1 DEF LimiterInv, EntryInv, HistoryInv, Elapsed
  <2> QED BY <2>1, <2>2
<1> QED BY <1>3, <1>4 DEF LimiterInv

\* A grant that comes a window after the grants that are Max before it keeps the
\* history in order and its spans long enough.
LEMMA Spans ==
    ASSUME NEW g \in Seq(Nat), NEW t \in Nat,
           \A i, j \in 1..Len(g) : i <= j => g[i] <= g[j],
           \A i \in 1..Len(g) : g[i] <= t,
           \A i, j \in 1..Len(g) : j = i + 2 * Max - 1 => g[j] >= g[i] + WindowMs,
           \A i \in 1..Len(g) : i <= Len(g) + 2 - 2 * Max => g[i] + WindowMs <= t,
           NEW h, h = Append(g, t)
    PROVE  /\ \A i, j \in 1..Len(h) : i <= j => h[i] <= h[j]
           /\ \A i \in 1..Len(h) : h[i] <= t
           /\ \A i, j \in 1..Len(h) : j = i + 2 * Max - 1 => h[j] >= h[i] + WindowMs
<1> USE RateLimiterAssumption
<1> DEFINE n == Len(g)
<1>1. /\ n \in Nat /\ Len(h) = n + 1 /\ h[n + 1] = t
      /\ \A i \in 1..n : h[i] = g[i] /\ g[i] \in Nat
  BY Appending
<1>2. \A i \in 1..(n + 1) : i \in 1..n \/ i = n + 1
  BY <1>1
<1>3. \A i \in 1..n : g[i] <= t
  OBVIOUS
<1>4. ASSUME NEW i \in 1..(n + 1), NEW j \in 1..(n + 1), i <= j PROVE h[i] <= h[j]
  <2>1. CASE j \in 1..n
    <3>1. i \in 1..n
      BY <2>1, <1>4, <1>1
    <3> QED BY <3>1, <2>1, <1>4, <1>1
  <2>2. CASE j = n + 1
    BY <2>2, <1>1, <1>2, <1>3
  <2> QED BY <2>1, <2>2, <1>2
<1>5. ASSUME NEW i \in 1..(n + 1), NEW j \in 1..(n + 1), j = i + 2 * Max - 1
      PROVE  h[j] >= h[i] + WindowMs
  <2>1. i \in 1..n
    BY <1>5, <1>1
  <2>2. CASE j \in 1..n
    BY <2>1, <2>2, <1>5, <1>1
  <2>3. CASE j = n + 1
    <3>1. i <= n + 2 - 2 * Max
      BY <2>3, <1>5, <1>1
    <3>2. g[i] + WindowMs <= t
      BY <3>1, <2>1
    <3> QED BY <3>2, <2>1, <2>3, <1>1
  <2> QED BY <2>2, <2>3, <1>2
<1>6. ASSUME NEW i \in 1..(n + 1) PROVE h[i] <= t
  BY <1>1, <1>2, <1>3
<1> QED
  <2>1. 1..Len(h) = 1..(n + 1)
    BY <1>1
  <2> HIDE DEF n
  <2> QED BY ONLY <2>1, <1>4, <1>5, <1>6

\* A check keeps the invariant, whether it opens a window, refuses or counts one
\* more grant (lib/rate-limiter.ts, check).
LEMMA CheckKeepsInv == \A k \in Keys : LimiterInv /\ Check(k) => LimiterInv'
<1> SUFFICES ASSUME NEW k \in Keys, LimiterInv, Check(k) PROVE LimiterInv'
  OBVIOUS
<1> USE RateLimiterAssumption
<1> DEFINE g == granted[k]
           n == Len(g)
           entry == Swept[k]
           opened == [count |-> 1, resetAt |-> now + WindowMs]
           counted == [Swept EXCEPT ![k].count = @ + 1]
<1>1. /\ now' = now /\ now \in Nat /\ now > 0 /\ lastSweepAt' = SweepTime
      /\ store \in [Keys -> Entry] /\ granted \in [Keys -> Seq(Nat)]
      /\ answer \in [ok : BOOLEAN, retryAfterSecs : Nat]
  BY DEF Check, LimiterInv, RateTypeOK
<1>2. /\ Swept \in [Keys -> Entry] /\ SweepTime \in Nat /\ SweepTime <= now
      /\ \A j \in Keys : Swept[j] = store[j] \/ (Swept[j] = NoEntry /\ Elapsed(store[j]))
      /\ \A j \in Keys : Elapsed(Swept[j]) <=> Elapsed(store[j])
      /\ \A j \in Keys : ~Elapsed(store[j]) => Swept[j] = store[j]
      /\ \A j \in Keys : Swept[j] # NoEntry => Swept[j].resetAt > SweepTime /\ Swept[j].count > 0
  BY Sweeping
<1>3. /\ \A j \in Keys : EntryInv(j) /\ HistoryInv(j)
      /\ NoEntry \in Entry /\ NoEntry.count = 0 /\ NoEntry.resetAt = 0
  BY DEF LimiterInv, NoEntry, Entry
<1>4. \A j \in Keys : Swept[j].resetAt <= now + WindowMs
                     /\ (Swept[j].count = 0 => Swept[j].resetAt = 0)
  BY <1>1, <1>2, <1>3 DEF EntryInv
<1>5. /\ entry \in Entry /\ entry.count \in 0..Max /\ entry.resetAt \in Nat
      /\ g \in Seq(Nat) /\ n \in Nat /\ \A i \in 1..n : g[i] \in Nat
  BY <1>1, <1>2 DEF Entry
<1>6. /\ \A i, j \in 1..n : i <= j => g[i] <= g[j]
      /\ \A i \in 1..n : g[i] <= now
      /\ \A i, j \in 1..n : j = i + 2 * Max - 1 => g[j] >= g[i] + WindowMs
  BY <1>3 DEF HistoryInv
\* The entries and histories of the other keys, and of k when it is refused.
<1>7. ASSUME NEW j \in Keys, store'[j] = Swept[j], granted'[j] = granted[j]
      PROVE  EntryInv(j)' /\ HistoryInv(j)'
  <2>1. EntryInv(j)'
    BY <1>7, <1>1, <1>2, <1>4 DEF EntryInv, NoEntry
  <2>2. CASE Elapsed(store[j])
    <3>1. Elapsed(store[j])'
      BY <2>2, <1>7, <1>1, <1>2 DEF Elapsed
    <3> QED BY <3>1, <2>1, <2>2, <1>7, <1>1, <1>3 DEF HistoryInv
  <2>3. CASE ~Elapsed(store[j])
    <3>1. store'[j] = store[j] /\ ~Elapsed(store[j])'
      BY <2>3, <1>7, <1>1, <1>2 DEF Elapsed
    <3> QED BY <3>1, <2>1, <2>3, <1>7, <1>1, <1>3 DEF HistoryInv
  <2> QED BY <2>2, <2>3
\* A window is opened.
<1>8. CASE /\ Elapsed(entry) /\ Granted(k)
           /\ store' = [Swept EXCEPT ![k] = opened]
  <2>1. opened \in Entry /\ opened.count = 1 /\ opened.resetAt = now + WindowMs
    BY <1>1 DEF Entry
  <2>2. /\ store' \in [Keys -> Entry] /\ store'[k] = opened
        /\ \A j \in Keys \ {k} : store'[j] = Swept[j]
    BY <2>1, <1>8, <1>2
  <2>3. /\ granted' \in [Keys -> Seq(Nat)] /\ granted'[k] = Append(g, now)
        /\ \A j \in Keys \ {k} : granted'[j] = granted[j]
        /\ answer' \in [ok : BOOLEAN, retryAfterSecs : Nat]
    BY <1>8, <1>1, <1>5, Appending DEF Granted
  <2>4. \A j \in 1..n : j <= n + 1 - Max => g[j] + WindowMs <= now
    BY <1>8, <1>2, <1>3 DEF HistoryInv
  <2>5. \A i \in 1..n : i <= n + 2 - 2 * Max => g[i] + WindowMs <= now
    <3> HIDE DEF n, g
    <3> QED BY <2>4, <1>5
  <2>6. EntryInv(k)'
    BY <2>1, <2>2, <1>1, <1>2 DEF EntryInv, NoEntry
  <2>7. HistoryInv(k)'
    <3> DEFINE h == Append(g, now)
    <3>1. /\ \A i, j \in 1..Len(h) : i <= j => h[i] <= h[j]
          /\ \A i \in 1..Len(h) : h[i] <= now
          /\ \A i, j \in 1..Len(h) : j = i + 2 * Max - 1 => h[j] >= h[i] + WindowMs
      BY Spans, <1>1, <1>5, <1>6, <2>5
    <3>2. Len(h) = n + 1 /\ h[n + 1] = now /\ \A i \in 1..n : h[i] = g[i]
      BY Appending, <1>1, <1>5
    <3>3. ~Elapsed(store[k])'
      BY <2>1, <2>2, <1>1 DEF Elapsed
    <3>4. ASSUME NEW j \in 1..(n + 1), j <= n + 1 - Max PROVE h[j] + WindowMs <= now
      <4>1. j \in 1..n
        <5> HIDE DEF n
        <5> QED BY <3>4, <1>5
      <4> QED BY <4>1, <3>4, <3>2, <2>4
    <3> HIDE DEF h
    <3>5. granted'[k] = h
      BY <2>3 DEF h
    <3>6. /\ store'[k].count = 1 /\ store'[k].resetAt - WindowMs = now
          /\ Len(h) - store'[k].count + 1 = n + 1
      <4> HIDE DEF n
      <4> QED BY <2>1, <2>2, <3>2, <1>1, <1>5
    <3> QED
      <4> HIDE DEF n
      <4> QED BY <3>1, <3>2, <3>3, <3>4, <3>5, <3>6, <1>1, <1>5 DEF HistoryInv
  <2>8. RateTypeOK' /\ lastSweepAt' <= now'
    BY <2>2, <2>3, <1>1, <1>2 DEF RateTypeOK
  <2> QED BY <2>2, <2>3, <2>6, <2>7, <2>8, <1>1, <1>7 DEF LimiterInv
\* The check is refused.
<1>9. CASE /\ ~Elapsed(entry) /\ store' = Swept /\ UNCHANGED granted
           /\ answer' = [ok |-> FALSE, retryAfterSecs |-> Seconds(entry.resetAt - now)]
  <2>1. entry.resetAt - now \in Nat \ {0}
    BY <1>9, <1>1, <1>5 DEF Elapsed
  <2>2. answer' \in [ok : BOOLEAN, retryAfterSecs : Nat]
    BY <2>1, <1>9, Waiting
  <2>3. RateTypeOK' /\ lastSweepAt' <= now'
    BY <2>2, <1>9, <1>1, <1>2 DEF RateTypeOK
  <2> QED BY <2>3, <1>9, <1>1, <1>7 DEF LimiterInv
\* One more grant in a running window.
<1>10. CASE /\ ~Elapsed(entry) /\ ~Full(entry) /\ Granted(k)
            /\ store' = counted
  <2>1. entry = store[k] /\ entry.count < Max /\ entry.resetAt > now
    BY <1>10, <1>1, <1>2, <1>5 DEF Full, Elapsed
  <2>2. /\ store' \in [Keys -> Entry]
        /\ store'[k].count = entry.count + 1 /\ store'[k].resetAt = entry.resetAt
        /\ \A j \in Keys \ {k} : store'[j] = Swept[j]
    BY <2>1, <1>10, <1>2, <1>5 DEF Entry
  <2>3. /\ granted' \in [Keys -> Seq(Nat)] /\ granted'[k] = Append(g, now)
        /\ \A j \in Keys \ {k} : granted'[j] = granted[j]
        /\ answer' \in [ok : BOOLEAN, retryAfterSecs : Nat]
    BY <1>10, <1>1, <1>5, Appending DEF Granted
  <2>4. /\ entry.count \in 1..n
        /\ g[n - entry.count + 1] = entry.resetAt - WindowMs
        /\ \A j \in 1..n : j <= n - entry.count + 1 - Max =>
              g[j] + WindowMs <= entry.resetAt - WindowMs
    BY <2>1, <1>10, <1>3 DEF HistoryInv
  <2>5. entry.resetAt - WindowMs <= now
    BY <1>4, <1>1, <1>5
  <2>6. ASSUME NEW i \in 1..n, i <= n + 2 - 2 * Max PROVE g[i] + WindowMs <= now
    <3>1. i <= n - entry.count + 1 - Max
      <4> DEFINE c == entry.count
      <4>1. c \in Nat /\ c < Max /\ n \in Nat /\ i \in Nat
        BY <2>1, <1>5
      <4> HIDE DEF c, n
      <4>2. i <= n - c + 1 - Max
        BY <4>1, <2>6
      <4> QED BY <4>2 DEF c
    <3>2. g[i] \in Nat /\ g[i] + WindowMs <= entry.resetAt - WindowMs
      BY <3>1, <2>4, <1>5
    <3> QED
      <4> HIDE DEF g, entry
      <4> QED BY <3>2, <2>5, <1>1, <1>5
  <2>7. EntryInv(k)'
    BY <2>1, <2>2, <1>1, <1>2, <1>4, <1>5 DEF EntryInv, NoEntry
  <2>8. HistoryInv(k)'
    <3> DEFINE h == Append(g, now)
               c == entry.count
    <3>1. /\ \A i, j \in 1..Len(h) : i <= j => h[i] <= h[j]
          /\ \A i \in 1..Len(h) : h[i] <= now
          /\ \A i, j \in 1..Len(h) : j = i + 2 * Max - 1 => h[j] >= h[i] + WindowMs
      BY Spans, <1>1, <1>5, <1>6, <2>6
    <3>2. Len(h) = n + 1 /\ h[n + 1] = now /\ \A i \in 1..n : h[i] = g[i]
      BY Appending, <1>1, <1>5
    <3>3. ~Elapsed(store[k])'
      <4>1. store'[k].resetAt > now'
        BY <2>1, <2>2, <1>1
      <4>2. store'[k].resetAt \in Nat /\ now' \in Nat
        BY <2>2, <1>1, <1>5
      <4> QED BY <4>1, <4>2 DEF Elapsed
    <3>a. c \in 1..n /\ n \in Nat /\ store'[k].count = c + 1
      BY <2>2, <2>4, <1>5
    <3>4. /\ c + 1 \in 1..(n + 1) /\ (n + 1) - (c + 1) + 1 = n - c + 1
          /\ n - c + 1 \in 1..n /\ \A j \in 1..(n + 1) : j <= n - c + 1 - Max => j \in 1..n
      <4> HIDE DEF n, c
      <4> QED BY <3>a
    <3>5. /\ h[n - c + 1] = entry.resetAt - WindowMs
          /\ \A j \in 1..(n + 1) : j <= n - c + 1 - Max => h[j] + WindowMs <= entry.resetAt - WindowMs
      BY <3>2, <3>4, <2>4
    <3>6. granted'[k] = h
      BY <2>3
    <3> QED
      <4> HIDE DEF n, c, h, entry
      <4> QED BY <3>1, <3>2, <3>3, <3>a, <3>4, <3>5, <3>6, <2>2, <1>1 DEF HistoryInv
  <2>9. RateTypeOK' /\ lastSweepAt' <= now'
    BY <2>2, <2>3, <1>1, <1>2 DEF RateTypeOK
  <2> QED BY <2>2, <2>3, <2>7, <2>8, <2>9, <1>1, <1>7 DEF LimiterInv
<1> QED BY <1>8, <1>9, <1>10 DEF Check

\* LimiterInv is inductive, and so holds of every state of the limiter.
THEOREM Invariant == Spec => []LimiterInv
<1>1. LimiterInv /\ [Next]_rateVars => LimiterInv'
  <2> SUFFICES ASSUME LimiterInv, [Next]_rateVars PROVE LimiterInv'
    OBVIOUS
  <2>1. CASE UNCHANGED rateVars
    BY <2>1 DEF rateVars, LimiterInv, RateTypeOK, EntryInv, HistoryInv, Elapsed
  <2> QED BY <2>1, TickKeepsInv, CheckKeepsInv, ResetKeepsInv DEF Next
<1> QED BY <1>1, InitInv, PTL DEF Spec

-----------------------------------------------------------------------------
(* What follows from it.                                                   *)

\* The limiter is type correct: no count is ever above Max.
THEOREM Typed == Spec => []RateTypeOK
<1>1. LimiterInv => RateTypeOK
  BY DEF LimiterInv
<1> QED BY <1>1, Invariant, PTL

\* Whatever the borders of its windows, check grants a key less than twice Max
\* times within a window's length.
THEOREM LessThanTwice == Spec => []LessThanTwiceMax
<1>1. LimiterInv => LessThanTwiceMax
  <2> SUFFICES ASSUME LimiterInv, NEW k \in Keys, NEW i \in DOMAIN granted[k],
                      i + 2 * Max - 1 \in DOMAIN granted[k]
               PROVE  granted[k][i + 2 * Max - 1] >= granted[k][i] + WindowMs
    BY DEF LessThanTwiceMax
  <2>1. DOMAIN granted[k] = 1..Len(granted[k])
    BY DEF LimiterInv, RateTypeOK
  <2> QED BY <2>1 DEF LimiterInv, HistoryInv
<1> QED BY <1>1, Invariant, PTL

\* After a check no entry has been elapsed for a sweep interval: maybeSweep bounds
\* what the map holds.
THEOREM StaleDropped == Spec => StaleEntriesAreDropped
<1>1. LimiterInv /\ [Next]_rateVars =>
         [\A k \in Keys : Check(k) =>
            \A j \in Keys : store'[j] # NoEntry => now - store'[j].resetAt < SweepMs]_rateVars
  <2> SUFFICES ASSUME LimiterInv, NEW k \in Keys, Check(k), NEW j \in Keys, store'[j] # NoEntry
               PROVE  now - store'[j].resetAt < SweepMs
    OBVIOUS
  <2>1. /\ Swept \in [Keys -> Entry] /\ now \in Nat /\ SweepTime \in Nat
        /\ now - SweepTime < SweepMs
        /\ Swept[j] # NoEntry => Swept[j].resetAt > SweepTime
    BY Sweeping DEF LimiterInv, RateTypeOK
  <2>2. Swept[j].resetAt \in Nat
    BY <2>1 DEF Entry
  <2>3. \/ store'[j] = Swept[j]
        \/ store'[j].resetAt = Swept[j].resetAt /\ Swept[j] # NoEntry
        \/ store'[j].resetAt = now + WindowMs
    <3>1. CASE Elapsed(Swept[k])
      BY <3>1, <2>1 DEF Check
    <3>2. CASE ~Elapsed(Swept[k])
      <4>1. Swept[k] # NoEntry
        BY <3>2, <2>1 DEF Elapsed, NoEntry
      <4>2. store' = Swept \/ store' = [Swept EXCEPT ![k].count = @ + 1]
        BY <3>2 DEF Check
      <4> QED BY <4>1, <4>2, <2>1 DEF Entry
    <3> QED BY <3>1, <3>2
  <2> QED BY <2>1, <2>2, <2>3, RateLimiterAssumption
<1> QED BY <1>1, Invariant, PTL DEF Spec, StaleEntriesAreDropped

-----------------------------------------------------------------------------
(* The refinement.                                                         *)

\* A running entry is seen as it is, an elapsed one as none.
LEMMA Seen ==
    ASSUME LimiterInv, NEW k \in Keys
    PROVE  /\ now \in Nat /\ store[k] \in Entry
           /\ store[k].count \in 0..Max /\ store[k].resetAt \in Nat
           /\ Elapsed(store[k]) => Used[k] = 0 /\ Ends[k] = 0
           /\ ~Elapsed(store[k]) => Used[k] = store[k].count /\ Ends[k] = store[k].resetAt
           /\ ~Elapsed(store[k]) => store[k].count > 0
BY DEF LimiterInv, RateTypeOK, EntryInv, Entry, Used, Ends, NoEntry, Elapsed

\* Time passing, a grant, a refusal and a reset of the limiter are those of the
\* contract; a sweep cannot be seen in it.
THEOREM Implementation == Spec => ImplementsRateLimit
<1> USE RateLimiterAssumption
<1>1. Init => Contract!RateInit
  BY DEF Init, Contract!RateInit, Used, Ends, Elapsed, NoEntry
<1>2. LimiterInv /\ [Next]_rateVars => [Contract!RateNext]_(Contract!contractVars)
  <2> SUFFICES ASSUME LimiterInv, [Next]_rateVars
               PROVE  Contract!RateNext \/ UNCHANGED Contract!contractVars
    OBVIOUS
  <2>1. CASE UNCHANGED rateVars
    BY <2>1 DEF rateVars, Contract!contractVars, Used, Ends, Elapsed
  <2>2. CASE Tick
    <3>1. /\ now' \in Nat /\ now' > now /\ now \in Nat
          /\ store' = store /\ answer' = answer
      BY <2>2 DEF Tick, LimiterInv, RateTypeOK
    <3>2. /\ Used' = [k \in Keys |-> IF now' >= store[k].resetAt THEN 0 ELSE store[k].count]
          /\ Ends' = [k \in Keys |-> IF now' >= store[k].resetAt THEN 0 ELSE store[k].resetAt]
      BY <3>1 DEF Used, Ends, Elapsed
    <3>3. \A k \in Keys :
             /\ (IF now' >= Ends[k] THEN 0 ELSE Used[k])
                  = (IF now' >= store[k].resetAt THEN 0 ELSE store[k].count)
             /\ (IF now' >= Ends[k] THEN 0 ELSE Ends[k])
                  = (IF now' >= store[k].resetAt THEN 0 ELSE store[k].resetAt)
      BY <3>1, Seen DEF Elapsed
    <3>4. Contract!Pass
      BY <3>1, <3>2, <3>3 DEF Contract!Pass
    <3> QED BY <3>4 DEF Contract!RateNext
  <2>3. ASSUME NEW k \in Keys, Reset(k) PROVE Contract!RateNext
    <3>1. /\ now' = now /\ answer' = answer /\ now \in Nat
          /\ store' = [store EXCEPT ![k] = NoEntry] /\ store \in [Keys -> Entry]
      BY <2>3 DEF Reset, LimiterInv, RateTypeOK
    <3>2. Used' = [Used EXCEPT ![k] = 0] /\ Ends' = [Ends EXCEPT ![k] = 0]
      BY <3>1 DEF Used, Ends, Elapsed, NoEntry
    <3>3. Contract!Forget(k)
      BY <3>1, <3>2 DEF Contract!Forget
    <3> QED BY <3>3 DEF Contract!RateNext
  <2>4. ASSUME NEW k \in Keys, Check(k) PROVE Contract!RateNext
    <3>1. /\ now' = now /\ now \in Nat /\ Swept \in [Keys -> Entry]
          /\ \A j \in Keys : Elapsed(Swept[j]) <=> Elapsed(store[j])
          /\ \A j \in Keys : ~Elapsed(store[j]) => Swept[j] = store[j]
      BY <2>4, Sweeping DEF Check, LimiterInv, RateTypeOK
    \* The sweep changes nothing of the view.
    <3>2. /\ Used = [j \in Keys |-> IF Elapsed(Swept[j]) THEN 0 ELSE Swept[j].count]
          /\ Ends = [j \in Keys |-> IF Elapsed(Swept[j]) THEN 0 ELSE Swept[j].resetAt]
      BY <3>1 DEF Used, Ends
    <3>3. /\ Used' = [j \in Keys |-> IF now >= store'[j].resetAt THEN 0 ELSE store'[j].count]
          /\ Ends' = [j \in Keys |-> IF now >= store'[j].resetAt THEN 0 ELSE store'[j].resetAt]
      BY <3>1 DEF Used, Ends, Elapsed
    <3>4. CASE /\ Elapsed(Swept[k]) /\ Granted(k)
               /\ store' = [Swept EXCEPT ![k] = [count |-> 1, resetAt |-> now + WindowMs]]
      <4>1. Used[k] = 0
        BY <3>2, <3>4
      <4>2. /\ store'[k].count = 1 /\ store'[k].resetAt = now + WindowMs
            /\ ~(now >= now + WindowMs)
            /\ \A j \in Keys \ {k} : store'[j] = Swept[j]
        BY <3>1, <3>4
      <4>3. \A j \in Keys : /\ Used'[j] = IF j = k THEN Used[k] + 1 ELSE Used[j]
                           /\ Ends'[j] = IF j = k THEN now + WindowMs ELSE Ends[j]
        BY <4>1, <4>2, <3>2, <3>3 DEF Elapsed
      <4>4. /\ Used' = [Used EXCEPT ![k] = @ + 1]
            /\ Ends' = [Ends EXCEPT ![k] = IF Used[k] = 0 THEN now + WindowMs ELSE @]
        BY <4>1, <4>3, <3>2, <3>3
      <4>5. Contract!Grant(k)
        BY <4>1, <4>4, <3>1, <3>4 DEF Contract!Grant, Granted
      <4> QED BY <4>5 DEF Contract!RateNext
    <3>5. CASE /\ ~Elapsed(Swept[k]) /\ Full(Swept[k]) /\ store' = Swept
               /\ answer' = [ok |-> FALSE, retryAfterSecs |-> Seconds(Swept[k].resetAt - now)]
      <4>1. /\ Used[k] = Max /\ Ends[k] = Swept[k].resetAt
            /\ Swept[k].resetAt - now \in Nat \ {0} /\ Ends[k] \in Nat
        BY <3>1, <3>5, Seen DEF Full, Elapsed
      <4>2. Used' = Used /\ Ends' = Ends
        BY <3>1, <3>2, <3>3, <3>5 DEF Elapsed
      <4> DEFINE ms == Swept[k].resetAt - now
                 secs == Seconds(ms)
      <4>3. /\ secs \in Nat \ {0} /\ secs * SecondMs >= ms /\ (secs - 1) * SecondMs < ms
        BY <4>1, Waiting
      <4>4. answer' = [ok |-> FALSE, retryAfterSecs |-> secs]
        BY <3>5
      <4> HIDE DEF secs
      <4>5. /\ now + secs * SecondMs >= Ends[k]
            /\ now + (secs - 1) * SecondMs < Ends[k]
        <5> DEFINE a == secs * SecondMs
                   b == (secs - 1) * SecondMs
        <5>1. a \in Int /\ b \in Int
          BY <4>3
        <5> HIDE DEF a, b
        <5>2. now + a >= Ends[k] /\ now + b < Ends[k]
          BY <5>1, <4>1, <4>3, <3>1 DEF a, b
        <5> QED BY <5>2 DEF a, b
      <4>6. Contract!Refuse(k)
        BY <4>1, <4>2, <4>3, <4>4, <4>5, <3>1 DEF Contract!Refuse
      <4> QED BY <4>6 DEF Contract!RateNext
    <3>6. CASE /\ ~Elapsed(Swept[k]) /\ ~Full(Swept[k]) /\ Granted(k)
               /\ store' = [Swept EXCEPT ![k].count = @ + 1]
      <4>1. Used[k] < Max /\ Used[k] # 0 /\ Used[k] = Swept[k].count
        BY <3>1, <3>6, Seen DEF Full, Elapsed
      <4>2. Used' = [Used EXCEPT ![k] = @ + 1] /\ Ends' = Ends
        BY <3>1, <3>2, <3>3, <3>6 DEF Elapsed, Entry
      <4>3. Contract!Grant(k)
        BY <4>1, <4>2, <3>1, <3>6 DEF Contract!Grant, Granted, Used, Ends
      <4> QED BY <4>3 DEF Contract!RateNext
    <3> QED BY <2>4, <3>4, <3>5, <3>6 DEF Check
  <2> QED BY <2>1, <2>2, <2>3, <2>4 DEF Next
<1> QED BY <1>1, <1>2, Invariant, PTL DEF Spec, ImplementsRateLimit, Contract!RateSpec

-----------------------------------------------------------------------------
(* The clients of the providers.                                           *)

Piece == [line : Nat, last : BOOLEAN]

\* The halves of a line.
LEMMA HalvesOfLine ==
    ASSUME NEW t \in Nat
    PROVE  /\ Half(2 * t + 1).line = t + 1 /\ ~Half(2 * t + 1).last
           /\ Half(2 * t + 2).line = t + 1 /\ Half(2 * t + 2).last
<1>1. (2 * t + 1 + 1) \div 2 = t + 1 /\ (2 * t + 2 + 1) \div 2 = t + 1
  OBVIOUS
<1>2. (2 * t + 1) % 2 = 1 /\ (2 * t + 2) % 2 = 0
  OBVIOUS
<1>3. \A n : Half(n).line = (n + 1) \div 2 /\ (Half(n).last <=> n % 2 = 0)
  BY Zenon DEF Half
<1>4. Half(2 * t + 1).line = t + 1 /\ Half(2 * t + 2).line = t + 1
  BY <1>1, <1>3
<1>5. ~((2 * t + 1) % 2 = 0) /\ (2 * t + 2) % 2 = 0
  BY <1>2
<1>6. ~Half(2 * t + 1).last /\ Half(2 * t + 2).last
  BY <1>3, <1>5, Zenon
<1> QED BY <1>4, <1>6

LEMMA HalvesAre ==
    ASSUME NEW f \in Nat, NEW g \in Nat, f <= g
    PROVE  /\ Halves(f + 1, g) \in Seq(Piece) /\ Len(Halves(f + 1, g)) = g - f
           /\ \A i \in 1..(g - f) : Halves(f + 1, g)[i] = Half(f + i)
<1> DEFINE h == Halves(f + 1, g)
<1>1. ASSUME NEW i \in Nat PROVE Half(i) \in Piece
  <2>1. (i + 1) \div 2 \in Nat /\ (i % 2 = 0) \in BOOLEAN
    OBVIOUS
  <2> QED BY <2>1 DEF Half, Piece
<1>2. h = [i \in 1..(g - f) |-> Half(f + i)]
  <2>1. \A i \in 1..(g - f) : (f + 1) + i - 1 = f + i
    OBVIOUS
  <2>2. g + 1 - (f + 1) = g - f
    OBVIOUS
  <2> QED BY <2>1, <2>2 DEF Halves
<1> HIDE DEF h
<1>3. \A i \in 1..(g - f) : Half(f + i) \in Piece
  BY <1>1
<1>4. h \in Seq(Piece) /\ Len(h) = g - f /\ \A i \in 1..(g - f) : h[i] = Half(f + i)
  BY <1>2, <1>3
<1> QED BY <1>4 DEF h

\* Two sequences of pieces with the same length and elements are one.
LEMMA SamePieces ==
    ASSUME NEW a \in Seq(Piece), NEW b \in Seq(Piece), Len(a) = Len(b),
           \A i \in 1..Len(a) : a[i] = b[i]
    PROVE  a = b
<1>1. DOMAIN a = DOMAIN b /\ DOMAIN a = 1..Len(a)
  BY LenProperties
<1>2. a = [i \in DOMAIN a |-> a[i]] /\ b = [i \in DOMAIN b |-> b[i]]
  OBVIOUS
<1> QED BY <1>1, <1>2

\* What is read is put behind what there is.
LEMMA HalvesJoin ==
    ASSUME NEW f \in Nat, NEW g \in Nat, NEW l \in Nat, f <= g, g <= l
    PROVE  Halves(f + 1, g) \o Halves(g + 1, l) = Halves(f + 1, l)
<1> DEFINE a == Halves(f + 1, g)
           b == Halves(g + 1, l)
           c == Halves(f + 1, l)
<1>1. /\ a \in Seq(Piece) /\ Len(a) = g - f /\ \A i \in 1..(g - f) : a[i] = Half(f + i)
      /\ b \in Seq(Piece) /\ Len(b) = l - g /\ \A i \in 1..(l - g) : b[i] = Half(g + i)
      /\ c \in Seq(Piece) /\ Len(c) = l - f /\ \A i \in 1..(l - f) : c[i] = Half(f + i)
  BY HalvesAre
<1> HIDE DEF a, b, c
<1>2. a \o b \in Seq(Piece) /\ Len(a \o b) = l - f
      /\ \A i \in 1..(l - f) : (a \o b)[i] = IF i <= g - f THEN a[i] ELSE b[i - (g - f)]
  <2>1. /\ a \o b \in Seq(Piece) /\ Len(a \o b) = Len(a) + Len(b)
        /\ \A i \in 1..(Len(a) + Len(b)) : (a \o b)[i] = IF i <= Len(a) THEN a[i] ELSE b[i - Len(a)]
    BY <1>1, ConcatProperties, Zenon
  <2>2. Len(a) + Len(b) = l - f
    BY <1>1
  <2> QED BY <1>1, <2>1, <2>2
<1>3. ASSUME NEW i \in 1..(l - f) PROVE (a \o b)[i] = c[i]
  <2>1. CASE i <= g - f
    BY <1>1, <1>2, <2>1
  <2>2. CASE i > g - f
    <3>1. i - (g - f) \in 1..(l - g) /\ g + (i - (g - f)) = f + i
      BY <2>2
    <3> QED BY <1>1, <1>2, <2>2, <3>1
  <2>3. i <= g - f \/ i > g - f
    OBVIOUS
  <2> QED BY <2>1, <2>2, <2>3, Zenon
<1>4. a \o b = c
  <2> DEFINE ab == a \o b
  <2> HIDE DEF ab
  <2>1. ab = c
    BY <1>1, <1>2, <1>3, SamePieces DEF ab
  <2> QED BY <2>1 DEF ab
<1> QED BY <1>4 DEF a, b, c

\* And of a line that is whole both halves are taken.
LEMMA HalvesLeft ==
    ASSUME NEW f \in Nat, NEW g \in Nat, f + 2 <= g
    PROVE  SubSeq(Halves(f + 1, g), 3, Len(Halves(f + 1, g))) = Halves(f + 2 + 1, g)
<1> DEFINE a == Halves(f + 1, g)
           c == Halves(f + 2 + 1, g)
           r == SubSeq(a, 3, Len(a))
<1>0. f <= g /\ f + 2 \in Nat
  OBVIOUS
<1>1. /\ a \in Seq(Piece) /\ Len(a) = g - f /\ \A i \in 1..(g - f) : a[i] = Half(f + i)
      /\ c \in Seq(Piece) /\ Len(c) = g - (f + 2)
      /\ \A i \in 1..(g - (f + 2)) : c[i] = Half(f + 2 + i)
  BY <1>0, HalvesAre
<1> HIDE DEF a, c
<1>2. r \in Seq(Piece) /\ Len(r) = g - f - 2 /\ \A i \in 1..(g - f - 2) : r[i] = a[i + 2]
  BY <1>1, SubSeqProperties
<1> HIDE DEF r
<1>3. ASSUME NEW i \in 1..(g - f - 2) PROVE r[i] = c[i]
  <2>1. i + 2 \in 1..(g - f) /\ f + (i + 2) = f + 2 + i /\ g - (f + 2) = g - f - 2
    OBVIOUS
  <2> QED BY <1>1, <1>2, <2>1
<1>4. r = c
  BY <1>1, <1>2, <1>3, SamePieces
<1> QED BY <1>4 DEF a, c, r

-----------------------------------------------------------------------------
Working == {"reading", "framing", "yielding"}
IsDone == phase = "returned" /\ kind = "stream"

\* d: the lines of text among the first t, in order.
Texts(d, t) ==
    /\ d \in Seq(Nat)
    /\ \A i \in DOMAIN d : d[i] \in 1..t /\ sent[d[i]] = "text"
    /\ \A i, j \in DOMAIN d : i < j => d[i] < d[j]
    /\ \A n \in 1..t : sent[n] = "text" => \E i \in DOMAIN d : d[i] = n

\* The first t lines have been taken, d was yielded, and the rest of what was
\* read waits in buf.
Taken(t, d) ==
    /\ 2 * t <= got /\ buf = Halves(2 * t + 1, got)
    /\ Texts(d, t)
    /\ yields = IF IsDone THEN Append(d, 0) ELSE d
    /\ phase = "reading" \/ IsDone => got <= 2 * t + 1

ClientTypes ==
    /\ kind \in {"verify", "completion", "stream"}
    /\ phase \in {"connecting", "refused", "body"} \cup Working \cup Over
    /\ sent \in Seq(LineKinds) /\ out \in Nat /\ got \in Nat
    /\ got <= out /\ out <= 2 * Len(sent)
    /\ armed \in BOOLEAN /\ timedOut \in BOOLEAN /\ callerAborted \in BOOLEAN
    /\ upstream \in {"open", "ended", "broken"}
    /\ result \in {"none", "ok", "unauthorized", "provider_error", "content", "empty",
                   "api_error", "invalid_response", "failed"}

PhaseFits ==
    /\ kind = "stream" => phase # "body"
    /\ phase \in Working => kind = "stream"
    /\ phase \in {"connecting", "refused", "body"} => got = 0
    /\ IsDone => got = out

LinesFit == \E t \in Nat : \E d \in Seq(Nat) : Taken(t, d)

ProviderIInv == ClientTypes /\ PhaseFits /\ StreamsAreCutForCause /\ LinesFit

\* What Deltas makes of the yields.
Before(y) == IF y # <<>> /\ y[Len(y)] = 0 THEN SubSeq(y, 1, Len(y) - 1) ELSE y

LEMMA BeforeDone ==
    ASSUME NEW d \in Seq(Nat), \A i \in DOMAIN d : d[i] # 0
    PROVE  Before(d) = d /\ Before(Append(d, 0)) = d
<1>1. DOMAIN d = 1..Len(d) /\ Len(d) \in Nat
  BY LenProperties
<1>2. Before(d) = d
  <2>1. CASE d = <<>>
    BY <2>1 DEF Before
  <2>2. CASE d # <<>>
    <3>1. Len(d) \in DOMAIN d
      BY <1>1, <2>2, EmptySeq
    <3> QED BY <3>1 DEF Before
  <2> QED BY <2>1, <2>2
<1> DEFINE a == Append(d, 0)
<1>3. /\ a \in Seq(Nat) /\ Len(a) = Len(d) + 1 /\ a[Len(d) + 1] = 0
      /\ \A i \in 1..Len(d) : a[i] = d[i]
  BY AppendProperties
<1>4. a # <<>>
  <2> HIDE DEF a
  <2> QED BY <1>1, <1>3, EmptySeq
<1> HIDE DEF a
<1> DEFINE b == SubSeq(a, 1, Len(d))
<1>5. b \in Seq(Nat) /\ Len(b) = Len(d) /\ \A i \in 1..Len(d) : b[i] = d[i]
  BY <1>1, <1>3, SubSeqProperties
<1> HIDE DEF b
<1>6. b = d
  <2>1. DOMAIN b = DOMAIN d /\ b = [i \in DOMAIN b |-> b[i]] /\ d = [i \in DOMAIN d |-> d[i]]
    BY <1>1, <1>5, LenProperties
  <2> QED BY <1>1, <1>5, <2>1
<1>7. Before(a) = b
  <2>1. Len(a) - 1 = Len(d) /\ a[Len(a)] = 0
    BY <1>1, <1>3
  <2> QED BY <1>4, <2>1 DEF Before, b
<1> QED BY <1>2, <1>6, <1>7 DEF a

LEMMA DeltasAreTaken ==
    ASSUME NEW t \in Nat, NEW d \in Seq(Nat), Taken(t, d)
    PROVE  Deltas = d
<1>1. \A i \in DOMAIN d : d[i] # 0
  BY DEF Taken, Texts
<1>2. Before(d) = d /\ Before(Append(d, 0)) = d
  BY <1>1, BeforeDone
<1>3. Deltas = Before(yields) /\ yields \in {d, Append(d, 0)}
  BY DEF Deltas, Before, Taken
<1> QED BY <1>2, <1>3

\* The invariant is as strong as what is checked.
LEMMA ProviderIsSafe == ASSUME ProviderIInv PROVE ProviderInv
<1>1. PICK t \in Nat, d \in Seq(Nat) : Taken(t, d)
  BY DEF ProviderIInv, LinesFit
<1>2. Deltas = d /\ Texts(d, t) /\ DOMAIN d = 1..Len(d) /\ Len(d) \in Nat
  BY <1>1, DeltasAreTaken, LenProperties DEF Taken
<1>3. ProviderTypeOK
  BY DEF ProviderIInv, ClientTypes, Working, ProviderTypeOK
<1>4. YieldedAsSent
  <2>1. ASSUME NEW i \in DOMAIN d, NEW n \in 1..d[i], sent[n] = "text"
        PROVE  \E j \in 1..i : d[j] = n
    <3>1. d[i] \in 1..t /\ n \in 1..t
      BY <1>2 DEF Texts
    <3>2. PICK j \in DOMAIN d : d[j] = n
      BY <1>2, <2>1, <3>1 DEF Texts
    <3>3. ~(i < j)
      BY <1>2, <3>1, <3>2 DEF Texts
    <3> QED BY <1>2, <3>2, <3>3
  <2> QED BY <1>2, <2>1 DEF YieldedAsSent, Texts
<1>5. DoneIsAll
  <2>1. CASE IsDone
    <3>1. /\ yields = Append(d, 0) /\ got = out /\ got <= 2 * t + 1
      BY <1>1, <2>1 DEF Taken, ProviderIInv, PhaseFits
    <3>2. /\ Len(yields) = Len(d) + 1 /\ yields[Len(d) + 1] = 0 /\ DOMAIN yields = 1..(Len(d) + 1)
          /\ \A i \in 1..Len(d) : yields[i] = d[i]
      BY <3>1, AppendProperties, LenProperties
    <3>3. ASSUME NEW n \in Complete, sent[n] = "text" PROVE \E i \in DOMAIN yields : yields[i] = n
      <4>1. n \in 1..t
        BY <3>1 DEF Complete, ProviderIInv, ClientTypes
      <4> QED BY <1>2, <3>2, <3>3, <4>1 DEF Texts
    <3>4. \A i \in DOMAIN yields : yields[i] = 0 => i = Len(yields)
      BY <1>2, <3>2 DEF Texts
    <3> QED BY <1>2, <2>1, <3>2, <3>3, <3>4 DEF DoneIsAll, IsDone
  <2>2. CASE ~IsDone
    <3>1. yields = d /\ \A i \in DOMAIN d : d[i] # 0
      BY <1>1, <1>2, <2>2 DEF Taken, Texts
    <3> QED BY <2>2, <3>1 DEF DoneIsAll, IsDone
  <2> QED BY <2>1, <2>2
<1> QED BY <1>3, <1>4, <1>5 DEF ProviderIInv, ProviderInv

LEMMA ProviderStart == ASSUME ClientInit PROVE ProviderIInv
<1> USE DEF ClientInit
<1>1. Halves(0 + 1, 0) = <<>>
  <2>1. Halves(0 + 1, 0) \in Seq(Piece) /\ Len(Halves(0 + 1, 0)) = 0
    BY HalvesAre
  <2> QED BY <2>1, EmptySeq
<1>2. Texts(<<>>, 0)
  BY DEF Texts
<1>3. Taken(0, <<>>)
  BY <1>1, <1>2 DEF Taken, IsDone
<1>4. LinesFit
  <2>1. 0 \in Nat /\ <<>> \in Seq(Nat)
    OBVIOUS
  <2> HIDE DEF ClientInit
  <2> QED BY <1>3, <2>1, Zenon DEF LinesFit
<1>5. ClientTypes
  <2>1. <<>> \in Seq(LineKinds) /\ Len(<<>>) = 0
    BY EmptySeq
  <2>2. /\ sent \in Seq(LineKinds) /\ Len(sent) = 0 /\ out = 0 /\ got = 0
        /\ phase \in {"connecting", "refused", "body"}
        /\ armed \in BOOLEAN /\ timedOut \in BOOLEAN /\ callerAborted \in BOOLEAN
        /\ kind \in {"verify", "completion", "stream"} /\ upstream = "open" /\ result = "none"
    BY <2>1, Zenon
  <2> HIDE DEF ClientInit
  <2>3. out \in Nat /\ got \in Nat /\ got <= out /\ out <= 2 * Len(sent)
    BY <2>2
  <2> QED BY <2>2, <2>3, Zenon DEF ClientTypes
<1>6. PhaseFits /\ StreamsAreCutForCause
  BY DEF PhaseFits, IsDone, Working, StreamsAreCutForCause
<1> QED BY <1>4, <1>5, <1>6 DEF ProviderIInv

\* Nothing is taken.
LEMMA NothingTaken ==
    ASSUME NEW t \in Nat, NEW d \in Seq(Nat), Taken(t, d), \A n \in 1..t : sent'[n] = sent[n],
           got' = got, buf' = buf, yields' = yields, ~IsDone, ~IsDone',
           phase' = "reading" => phase = "reading" \/ got <= 2 * t + 1
    PROVE  LinesFit'
<1>1. Texts(d, t)'
  BY DEF Texts, Taken
<1>2. Taken(t, d)'
  BY <1>1 DEF Taken
<1> QED BY <1>2 DEF LinesFit

\* The provider and the caller.
LEMMA OthersKeep ==
    ASSUME ProviderIInv, SendsHalf \/ UpstreamEnds \/ CallerAborts \/ TimerFires
    PROVE  ProviderIInv'
<1>1. PICK t \in Nat, d \in Seq(Nat) : Taken(t, d)
  BY DEF ProviderIInv, LinesFit
<1>2. t <= Len(sent) /\ Len(sent) \in Nat
  BY <1>1 DEF Taken, ProviderIInv, ClientTypes
<1>3. CASE SendsHalf
  <2>1. UNCHANGED <<provider, kind, phase, armed, timedOut, callerAborted, upstream, got, buf,
                    yields, result>> /\ phase \in Working /\ kind = "stream"
    BY <1>3 DEF SendsHalf, Working
  <2>2. CASE out % 2 = 1
    <3>1. UNCHANGED sent /\ out' = out + 1
      BY <1>3, <2>2 DEF SendsHalf
    <3>2. out # 2 * Len(sent)
      BY <1>2, <2>2
    <3>3. ClientTypes'
      BY <1>2, <2>1, <3>1, <3>2 DEF ProviderIInv, ClientTypes
    <3>4. StreamsAreCutForCause' /\ PhaseFits'
      BY <2>1, <3>1 DEF ProviderIInv, StreamsAreCutForCause, PhaseFits, IsDone, Working
    <3>5. LinesFit'
      BY <1>1, <2>1, <3>1, NothingTaken DEF IsDone, Working
    <3> QED BY <3>3, <3>4, <3>5 DEF ProviderIInv
  <2>3. CASE out % 2 # 1
    <3>1. PICK k \in LineKinds : sent' = Append(sent, k)
      BY <1>3, <2>3 DEF SendsHalf
    <3>2. /\ sent' \in Seq(LineKinds) /\ Len(sent') = Len(sent) + 1
          /\ \A n \in 1..Len(sent) : sent'[n] = sent[n]
      BY <3>1, AppendProperties DEF ProviderIInv, ClientTypes
    <3>3. ClientTypes'
      BY <1>2, <1>3, <2>1, <3>2 DEF ProviderIInv, ClientTypes, SendsHalf
    <3>4. StreamsAreCutForCause' /\ PhaseFits'
      BY <2>1, <3>2 DEF ProviderIInv, StreamsAreCutForCause, PhaseFits, IsDone, Working
    <3>5. LinesFit'
      <4>1. \A n \in 1..t : sent'[n] = sent[n]
        BY <1>2, <3>2
      <4>2. ~IsDone /\ ~IsDone'
        BY <2>1 DEF IsDone, Working
      <4> QED BY <1>1, <2>1, <4>1, <4>2, NothingTaken
    <3> QED BY <3>3, <3>4, <3>5 DEF ProviderIInv
  <2> QED BY <2>2, <2>3
<1>4. CASE UpstreamEnds
  <2> USE DEF UpstreamEnds
  <2>1. ClientTypes' /\ PhaseFits'
    BY <1>4 DEF ProviderIInv, ClientTypes, PhaseFits, IsDone
  <2>2. StreamsAreCutForCause'
    BY <1>4 DEF ProviderIInv, StreamsAreCutForCause, Over
  <2>3. LinesFit'
    BY <1>1, <1>4, NothingTaken DEF IsDone, Over
  <2> QED BY <2>1, <2>2, <2>3 DEF ProviderIInv
<1>5. CASE CallerAborts
  <2> USE DEF CallerAborts, reply
  <2>1. ClientTypes' /\ PhaseFits'
    BY <1>5 DEF ProviderIInv, ClientTypes, PhaseFits, IsDone
  <2>2. StreamsAreCutForCause'
    BY <1>5 DEF ProviderIInv, StreamsAreCutForCause
  <2>3. LinesFit'
    BY <1>1, <1>5, NothingTaken DEF IsDone, Over
  <2> QED BY <2>1, <2>2, <2>3 DEF ProviderIInv
<1>6. CASE TimerFires
  <2> USE DEF TimerFires, reply
  <2>1. ClientTypes' /\ PhaseFits'
    BY <1>6 DEF ProviderIInv, ClientTypes, PhaseFits, IsDone
  <2>2. StreamsAreCutForCause'
    BY <1>6 DEF ProviderIInv, StreamsAreCutForCause, Complete
  <2>3. LinesFit'
    BY <1>6 DEF ProviderIInv, LinesFit, Taken, Texts, IsDone
  <2> QED BY <2>1, <2>2, <2>3 DEF ProviderIInv
<1> QED BY <1>3, <1>4, <1>5, <1>6

\* The call is over, as it is told.
LEMMA SettlesKeeps ==
    ASSUME ProviderIInv, NEW how \in {"returned", "threw"},
           NEW what \in {"ok", "unauthorized", "provider_error", "content", "empty",
                         "api_error", "invalid_response", "failed"},
           Settles(how, what), phase \notin Over, how = "returned" => kind # "stream",
           got > 0 => callerAborted \/ upstream = "broken"
    PROVE  ProviderIInv'
<1> USE DEF Settles, reply
<1>1. ClientTypes'
  BY DEF ProviderIInv, ClientTypes, Over
<1>2. ~IsDone /\ ~IsDone'
  BY DEF IsDone, Over
<1>3. PhaseFits'
  BY <1>2 DEF ProviderIInv, PhaseFits, Working
<1>4. StreamsAreCutForCause'
  BY DEF ProviderIInv, StreamsAreCutForCause, ClientTypes
<1>5. LinesFit'
  BY <1>2, NothingTaken DEF ProviderIInv, LinesFit
<1> QED BY <1>1, <1>3, <1>4, <1>5 DEF ProviderIInv

LEMMA CallKeeps ==
    ASSUME ProviderIInv, FetchRejects \/ RefusalIsRead \/ BodyIsRead \/ ReadFails
    PROVE  ProviderIInv'
<1>1. phase \in {"connecting", "refused", "body"} => got = 0 /\ ~(got > 0)
  BY DEF ProviderIInv, PhaseFits
<1>2. CASE FetchRejects
  BY <1>1, <1>2, SettlesKeeps DEF FetchRejects, Over
<1>3. CASE RefusalIsRead
  BY <1>1, <1>3, SettlesKeeps DEF RefusalIsRead, Over
<1>4. CASE BodyIsRead
  BY <1>1, <1>4, SettlesKeeps DEF BodyIsRead, Over, ProviderIInv, PhaseFits
<1>5. CASE ReadFails
  BY <1>5, SettlesKeeps DEF ReadFails, Over
<1> QED BY <1>2, <1>3, <1>4, <1>5

LEMMA HeadersKeep == ASSUME ProviderIInv, HeadersArrive PROVE ProviderIInv'
<1>0. phase = "connecting" /\ got = 0 /\ ~(got > 0) /\ ~timedOut
  BY DEF HeadersArrive, ProviderIInv, PhaseFits, Cut
<1>1. PICK status \in Statuses :
         IF kind = "verify" THEN Settles("returned", Verdict(status))
         ELSE /\ phase' = IF status # "ok" THEN "refused"
                          ELSE IF kind = "stream" THEN "reading" ELSE "body"
              /\ armed' = (armed /\ kind # "stream")
              /\ UNCHANGED <<provider, kind, timedOut, callerAborted, reply, got, buf, yields, result>>
  BY DEF HeadersArrive
<1>2. CASE kind = "verify"
  BY <1>0, <1>1, <1>2, SettlesKeeps DEF Verdict, Over
<1>3. CASE kind # "verify"
  <2>1. /\ phase' \in {"refused", "reading", "body"}
        /\ phase' = "reading" => kind = "stream"
        /\ phase' = "body" => kind # "stream"
        /\ kind = "stream" => armed' = FALSE
        /\ armed' \in BOOLEAN
        /\ UNCHANGED <<provider, kind, timedOut, callerAborted, sent, out, upstream, got, buf,
                       yields, result>>
    BY <1>1, <1>3 DEF reply
  <2>2. ~IsDone /\ ~IsDone'
    BY <1>0, <2>1 DEF IsDone
  <2>3. ClientTypes'
    BY <2>1 DEF ProviderIInv, ClientTypes, Working
  <2>4. PhaseFits'
    BY <1>0, <2>1, <2>2 DEF PhaseFits, Working
  <2>5. StreamsAreCutForCause'
    BY <1>0, <2>1 DEF StreamsAreCutForCause
  <2>6. LinesFit'
    BY <1>0, <2>1, <2>2, NothingTaken DEF ProviderIInv, LinesFit
  <2> QED BY <2>3, <2>4, <2>5, <2>6 DEF ProviderIInv
<1> QED BY <1>2, <1>3

LEMMA ReadsKeeps == ASSUME ProviderIInv, Reads PROVE ProviderIInv'
<1>1. PICK t \in Nat, d \in Seq(Nat) : Taken(t, d)
  BY DEF ProviderIInv, LinesFit
<1>2. PICK last \in (got + 1)..out : buf' = buf \o Halves(got + 1, last) /\ got' = last
  BY DEF Reads
<1>3. /\ phase = "reading" /\ phase' = "framing" /\ kind = "stream"
      /\ UNCHANGED <<provider, kind, armed, timedOut, callerAborted, sent, out, upstream, yields,
                     result>>
  BY DEF Reads, reply, ProviderIInv, PhaseFits, Working
<1>4. /\ got \in Nat /\ out \in Nat /\ got' \in Nat /\ got <= got' /\ got' <= out
      /\ 2 * t \in Nat /\ 2 * t <= got
  BY <1>1, <1>2 DEF ProviderIInv, ClientTypes, Taken
<1>5. ~IsDone /\ ~IsDone'
  BY <1>3 DEF IsDone
<1>6. ClientTypes'
  BY <1>3, <1>4 DEF ProviderIInv, ClientTypes, Working
<1>7. PhaseFits'
  BY <1>3, <1>5 DEF PhaseFits, Working
<1>8. StreamsAreCutForCause'
  BY <1>3 DEF ProviderIInv, StreamsAreCutForCause
<1>9. buf' = Halves(2 * t + 1, got')
  <2>1. Halves(2 * t + 1, got) \o Halves(got + 1, got') = Halves(2 * t + 1, got')
    BY <1>4, HalvesJoin
  <2> QED BY <1>1, <1>2, <2>1 DEF Taken
<1>10. Texts(d, t)'
  BY <1>1, <1>3 DEF Taken, Texts
<1>11. Taken(t, d)'
  BY <1>1, <1>3, <1>4, <1>5, <1>9, <1>10 DEF Taken
<1> QED BY <1>6, <1>7, <1>8, <1>11 DEF ProviderIInv, LinesFit

\* One turn of the while over buf, when a line is whole: it is the next one.
LEMMA NextLine ==
    ASSUME ProviderIInv, NEW t \in Nat, NEW d \in Seq(Nat), Taken(t, d)
    PROVE  /\ LineEnds = {} => got <= 2 * t + 1
           /\ LineEnds # {} =>
                /\ 2 * (t + 1) <= got /\ t + 1 \in 1..Len(sent)
                /\ \A end : end \in LineEnds /\ (\A j \in LineEnds : end <= j) =>
                      /\ end = 2 /\ buf[end].line = t + 1 /\ buf[1].line = t + 1
                      /\ SubSeq(buf, end + 1, Len(buf)) = Halves(2 * (t + 1) + 1, got)
                /\ 2 \in LineEnds /\ \A j \in LineEnds : 2 <= j
<1>1. got \in Nat /\ 2 * t \in Nat /\ 2 * t <= got /\ buf = Halves(2 * t + 1, got)
      /\ got <= out /\ out \in Nat /\ out <= 2 * Len(sent) /\ Len(sent) \in Nat
  BY LenProperties DEF Taken, ProviderIInv, ClientTypes
<1>2. /\ DOMAIN buf = 1..(got - 2 * t) /\ Len(buf) = got - 2 * t
      /\ \A i \in 1..(got - 2 * t) : buf[i] = Half(2 * t + i)
  BY <1>1, HalvesAre, LenProperties
<1>3. CASE got <= 2 * t + 1
  <2>1. \A i \in DOMAIN buf : i = 1
    BY <1>1, <1>2, <1>3
  <2>2. \A i \in DOMAIN buf : ~buf[i].last
    BY <1>2, <2>1, HalvesOfLine
  <2> QED BY <1>3, <2>2 DEF LineEnds
<1>4. CASE got > 2 * t + 1
  <2>1. 1 \in 1..(got - 2 * t) /\ 2 \in 1..(got - 2 * t) /\ 2 * (t + 1) <= got /\ t + 1 \in 1..Len(sent)
    BY <1>1, <1>4
  <2>2. buf[1].line = t + 1 /\ ~buf[1].last /\ buf[2].line = t + 1 /\ buf[2].last
    BY <1>2, <2>1, HalvesOfLine
  <2>3. 2 \in LineEnds /\ \A j \in LineEnds : 2 <= j
    <3>1. 2 \in LineEnds /\ 1 \notin LineEnds
      BY <1>2, <2>1, <2>2 DEF LineEnds
    <3>2. LineEnds \subseteq 1..(got - 2 * t)
      BY <1>2 DEF LineEnds
    <3> QED BY <1>1, <3>1, <3>2
  <2>4. SubSeq(buf, 3, Len(buf)) = Halves(2 * (t + 1) + 1, got)
    <3>1. 2 * t + 2 <= got /\ 2 * t + 2 + 1 = 2 * (t + 1) + 1
      BY <1>1, <1>4
    <3>2. SubSeq(Halves(2 * t + 1, got), 3, Len(Halves(2 * t + 1, got))) = Halves(2 * t + 2 + 1, got)
      BY <1>1, <3>1, HalvesLeft
    <3> QED BY <1>1, <3>1, <3>2
  <2>5. ASSUME NEW end, end \in LineEnds, \A j \in LineEnds : end <= j
        PROVE  end = 2
    <3>1. end <= 2 /\ 2 <= end /\ end \in Int
      <4>1. LineEnds \subseteq Int
        BY <1>2 DEF LineEnds
      <4> QED BY <2>3, <2>5, <4>1
    <3> QED BY <3>1
  <2>6. 2 + 1 = 3
    OBVIOUS
  <2> QED BY <1>4, <2>1, <2>2, <2>3, <2>4, <2>5, <2>6
<1> QED BY <1>1, <1>3, <1>4

\* The lines of text among one more.
LEMMA OneLineMore ==
    ASSUME NEW t \in Nat, NEW d \in Seq(Nat), Texts(d, t)
    PROVE  /\ sent[t + 1] # "text" => Texts(d, t + 1)
           /\ sent[t + 1] = "text" => Texts(Append(d, t + 1), t + 1)
<1>0. DOMAIN d = 1..Len(d) /\ Len(d) \in Nat
  BY LenProperties
<1>1. sent[t + 1] # "text" => Texts(d, t + 1)
  BY DEF Texts
<1>2. ASSUME sent[t + 1] = "text" PROVE Texts(Append(d, t + 1), t + 1)
  <2> DEFINE a == Append(d, t + 1)
  <2>1. /\ a \in Seq(Nat) /\ Len(a) = Len(d) + 1 /\ a[Len(d) + 1] = t + 1
        /\ \A i \in 1..Len(d) : a[i] = d[i]
    BY AppendProperties
  <2> HIDE DEF a
  <2>2. DOMAIN a = 1..(Len(d) + 1)
    BY <2>1, LenProperties
  <2>3. \A i \in DOMAIN a : i \in DOMAIN d \/ i = Len(d) + 1
    BY <1>0, <2>2
  <2>4. \A i \in DOMAIN a : a[i] \in 1..(t + 1) /\ sent[a[i]] = "text"
    BY <1>0, <1>2, <2>1, <2>3 DEF Texts
  <2>5. ASSUME NEW i \in DOMAIN a, NEW j \in DOMAIN a, i < j PROVE a[i] < a[j]
    <3>1. i \in DOMAIN d
      BY <1>0, <2>2, <2>5
    <3>2. CASE j \in DOMAIN d
      BY <1>0, <2>1, <2>5, <3>1, <3>2 DEF Texts
    <3>3. CASE j = Len(d) + 1
      BY <1>0, <2>1, <3>1, <3>3 DEF Texts
    <3> QED BY <2>3, <3>2, <3>3
  <2>6. ASSUME NEW n \in 1..(t + 1), sent[n] = "text" PROVE \E i \in DOMAIN a : a[i] = n
    <3>1. CASE n = t + 1
      BY <1>0, <2>1, <2>2, <3>1
    <3>2. CASE n # t + 1
      <4>1. n \in 1..t
        BY <3>2
      <4>2. PICK i \in DOMAIN d : d[i] = n
        BY <2>6, <4>1 DEF Texts
      <4> QED BY <1>0, <2>1, <2>2, <4>2
    <3> QED BY <3>1, <3>2
  <2>7. Texts(a, t + 1)
    BY <2>1, <2>4, <2>5, <2>6 DEF Texts
  <2> QED BY <2>7 DEF a
<1> QED BY <1>1, <1>2

\* What a turn of the while does.
LEMMA LineTaken ==
    ASSUME ProviderIInv, NEW t \in Nat, NEW d \in Seq(Nat), Taken(t, d), TakesLine
    PROVE  \/ /\ phase' = "reading" /\ UNCHANGED <<buf, yields, result>> /\ got <= 2 * t + 1
           \/ /\ 2 * (t + 1) <= got /\ t + 1 \in 1..Len(sent)
              /\ buf' = Halves(2 * (t + 1) + 1, got)
              /\ \/ /\ sent[t + 1] = "broken" /\ phase' = "threw" /\ result' = "invalid_response"
                    /\ UNCHANGED yields
                 \/ /\ sent[t + 1] \notin {"broken", "text"} /\ phase' = "framing"
                    /\ UNCHANGED <<yields, result>>
                 \/ /\ sent[t + 1] = "text" /\ phase' = "yielding"
                    /\ yields' = Append(yields, t + 1) /\ UNCHANGED result
<1>1. CASE LineEnds = {}
  BY <1>1, NextLine DEF TakesLine
<1>2. CASE LineEnds # {}
  <2> DEFINE end == CHOOSE i \in LineEnds : \A j \in LineEnds : i <= j
  <2>1. end \in LineEnds /\ \A j \in LineEnds : end <= j
    <3>1. \E i \in LineEnds : \A j \in LineEnds : i <= j
      BY <1>2, NextLine
    <3> QED BY <3>1, Zenon
  <2>2. LET n == buf[end].line
            whole == end = 2 /\ buf[1].line = n
        IN  /\ buf' = SubSeq(buf, end + 1, Len(buf))
            /\ IF ~whole \/ sent[n] = "broken"
               THEN phase' = "threw" /\ result' = "invalid_response" /\ UNCHANGED yields
               ELSE /\ phase' = IF sent[n] = "text" THEN "yielding" ELSE "framing"
                    /\ yields' = IF sent[n] = "text" THEN Append(yields, n) ELSE yields
                    /\ UNCHANGED result
    BY <1>2, Zenon DEF TakesLine
  <2> HIDE DEF end
  <2>3. /\ end = 2 /\ buf[end].line = t + 1 /\ buf[1].line = t + 1
        /\ SubSeq(buf, end + 1, Len(buf)) = Halves(2 * (t + 1) + 1, got)
        /\ 2 * (t + 1) <= got /\ t + 1 \in 1..Len(sent)
    BY <1>2, <2>1, NextLine
  <2>4. buf' = Halves(2 * (t + 1) + 1, got)
    BY <2>2, <2>3
  <2>5. IF sent[t + 1] = "broken"
        THEN phase' = "threw" /\ result' = "invalid_response" /\ UNCHANGED yields
        ELSE /\ phase' = IF sent[t + 1] = "text" THEN "yielding" ELSE "framing"
             /\ yields' = IF sent[t + 1] = "text" THEN Append(yields, t + 1) ELSE yields
             /\ UNCHANGED result
    BY <2>2, <2>3
  <2> QED BY <2>3, <2>4, <2>5
<1> QED BY <1>1, <1>2

LEMMA TakesKeeps == ASSUME ProviderIInv, TakesLine PROVE ProviderIInv'
<1>1. PICK t \in Nat, d \in Seq(Nat) : Taken(t, d)
  BY DEF ProviderIInv, LinesFit
<1>2. /\ phase = "framing" /\ kind = "stream"
      /\ UNCHANGED <<provider, kind, armed, timedOut, callerAborted, sent, out, upstream, got>>
  BY DEF TakesLine, reply, ProviderIInv, PhaseFits, Working
<1>3. ~IsDone /\ ~timedOut /\ ~armed
  BY <1>2 DEF IsDone, ProviderIInv, StreamsAreCutForCause
<1>4. got \in Nat /\ out \in Nat /\ got <= out /\ t + 1 \in Nat
  BY DEF ProviderIInv, ClientTypes
<1>5. Texts(d, t) /\ yields = d
  BY <1>1, <1>3 DEF Taken
<1>6. CASE phase' = "reading" /\ UNCHANGED <<buf, yields, result>> /\ got <= 2 * t + 1
  <2>1. ~IsDone'
    BY <1>6 DEF IsDone
  <2>2. ClientTypes' /\ PhaseFits' /\ StreamsAreCutForCause'
    BY <1>2, <1>3, <1>6, <2>1
       DEF ProviderIInv, ClientTypes, PhaseFits, Working, StreamsAreCutForCause
  <2>3. LinesFit'
    BY <1>1, <1>2, <1>3, <1>6, <2>1, NothingTaken
  <2> QED BY <2>2, <2>3 DEF ProviderIInv
<1>7. ASSUME 2 * (t + 1) <= got, t + 1 \in 1..Len(sent), buf' = Halves(2 * (t + 1) + 1, got),
             \/ /\ sent[t + 1] = "broken" /\ phase' = "threw" /\ result' = "invalid_response"
                /\ UNCHANGED yields
             \/ /\ sent[t + 1] \notin {"broken", "text"} /\ phase' = "framing"
                /\ UNCHANGED <<yields, result>>
             \/ /\ sent[t + 1] = "text" /\ phase' = "yielding"
                /\ yields' = Append(yields, t + 1) /\ UNCHANGED result
      PROVE  ProviderIInv'
  <2>1. ~IsDone' /\ phase' \in {"threw", "framing", "yielding"}
    BY <1>7 DEF IsDone
  <2>2. ClientTypes'
    BY <1>2, <1>7 DEF ProviderIInv, ClientTypes, Working, Over
  <2>3. PhaseFits'
    BY <1>2, <2>1 DEF PhaseFits, Working
  <2>4. StreamsAreCutForCause'
    <3>1. t + 1 \in Complete
      BY <1>4, <1>7 DEF Complete
    <3>2. phase' = "threw" => \E n \in Complete' : sent'[n] = "broken"
      BY <1>2, <1>7, <3>1 DEF Complete
    <3> QED BY <1>2, <1>3, <3>2 DEF StreamsAreCutForCause
  <2>5. \E e \in Seq(Nat) : yields' = e /\ Texts(e, t + 1)
    <3>1. CASE sent[t + 1] = "text"
      <4>1. Append(d, t + 1) \in Seq(Nat) /\ Texts(Append(d, t + 1), t + 1)
        BY <1>4, <1>5, <3>1, OneLineMore, AppendProperties
      <4>2. yields' = Append(d, t + 1)
        BY <1>5, <1>7, <3>1
      <4> QED BY <4>1, <4>2
    <3>2. CASE sent[t + 1] # "text"
      BY <1>5, <1>7, <3>2, OneLineMore
    <3> QED BY <3>1, <3>2
  <2>6. PICK e \in Seq(Nat) : yields' = e /\ Texts(e, t + 1)
    BY <2>5
  <2>7. Texts(e, t + 1)'
    BY <1>2, <2>6 DEF Texts
  <2>8. Taken(t + 1, e)'
    BY <1>2, <1>7, <2>1, <2>6, <2>7 DEF Taken
  <2>9. LinesFit'
    BY <1>4, <2>8 DEF LinesFit
  <2> QED BY <2>2, <2>3, <2>4, <2>9 DEF ProviderIInv
<1> QED BY <1>1, <1>6, <1>7, LineTaken

LEMMA ConsumerKeeps == ASSUME ProviderIInv, ConsumerGoesOn PROVE ProviderIInv'
<1>1. /\ phase = "yielding" /\ phase' \in {"abandoned", "framing"} /\ kind = "stream"
      /\ UNCHANGED <<provider, kind, armed, timedOut, callerAborted, sent, out, upstream, got, buf,
                     yields, result>>
  BY DEF ConsumerGoesOn, reply, ProviderIInv, PhaseFits, Working
<1>2. ~IsDone /\ ~IsDone'
  BY <1>1 DEF IsDone
<1>3. ClientTypes' /\ PhaseFits' /\ StreamsAreCutForCause'
  BY <1>1, <1>2
     DEF ProviderIInv, ClientTypes, PhaseFits, Working, Over, StreamsAreCutForCause
<1>4. LinesFit'
  BY <1>1, <1>2, NothingTaken DEF ProviderIInv, LinesFit
<1> QED BY <1>3, <1>4 DEF ProviderIInv

LEMMA EndKeeps == ASSUME ProviderIInv, BodyEnds PROVE ProviderIInv'
<1>1. PICK t \in Nat, d \in Seq(Nat) : Taken(t, d)
  BY DEF ProviderIInv, LinesFit
<1>2. /\ phase = "reading" /\ phase' = "returned" /\ kind = "stream" /\ got = out
      /\ UNCHANGED <<provider, kind, armed, timedOut, callerAborted, sent, out, upstream, got, buf,
                     result>> /\ yields' = Append(yields, 0)
  BY DEF BodyEnds, reply, ProviderIInv, PhaseFits, Working
<1>3. ~IsDone /\ IsDone'
  BY <1>2 DEF IsDone
<1>4. ClientTypes' /\ PhaseFits' /\ StreamsAreCutForCause'
  BY <1>2, <1>3
     DEF ProviderIInv, ClientTypes, PhaseFits, Working, Over, StreamsAreCutForCause
<1>5. Texts(d, t)'
  BY <1>1, <1>2 DEF Taken, Texts
<1>6. Taken(t, d)'
  BY <1>1, <1>2, <1>3, <1>5 DEF Taken
<1> QED BY <1>4, <1>6 DEF ProviderIInv, LinesFit

\* ProviderIInv is inductive.
LEMMA ProviderStep ==
    ASSUME ProviderIInv, [ClientNext]_clientVars
    PROVE  ProviderIInv'
<1>1. CASE UNCHANGED clientVars
  <2>1. PICK t \in Nat, d \in Seq(Nat) : Taken(t, d)
    BY DEF ProviderIInv, LinesFit
  <2>2. UNCHANGED <<provider, kind, phase, armed, timedOut, callerAborted, sent, out, upstream,
                    got, buf, yields, result>>
    BY <1>1 DEF clientVars, reply
  <2>3. ClientTypes' /\ PhaseFits' /\ StreamsAreCutForCause'
    <3>1. Complete' = Complete /\ IsDone' = IsDone
      BY <2>2 DEF Complete, IsDone
    <3> QED BY <2>2, <3>1 DEF ProviderIInv, ClientTypes, PhaseFits, StreamsAreCutForCause
  <2>4. Texts(d, t)'
    BY <2>1, <2>2 DEF Taken, Texts
  <2>5. Taken(t, d)'
    BY <2>1, <2>2, <2>4 DEF Taken, IsDone
  <2> QED BY <2>3, <2>5 DEF ProviderIInv, LinesFit
<1> QED BY <1>1, OthersKeep, CallKeeps, HeadersKeep, ReadsKeeps, TakesKeeps, ConsumerKeeps,
           EndKeeps DEF ClientNext, Works

-----------------------------------------------------------------------------
(* The generator of MessageStream.                                         *)

Stage == IF phase \in Over THEN phase ELSE "open"

LEMMA GeneratorStarts == ASSUME ClientInit PROVE Generator!ContractInit
<1>1. Deltas = <<>> /\ Len(<<>>) = 0
  BY EmptySeq DEF ClientInit, Deltas
<1> QED BY <1>1 DEF ClientInit, Generator!ContractInit, Over

\* A step yields a delta, ends the generator, aborts it, or changes nothing.
LEMMA GeneratorGoesOn ==
    ASSUME ProviderIInv, [ClientNext]_clientVars
    PROVE  [Generator!Yield \/ Generator!Abort \/ Generator!End]_(Generator!contractVars)
<1> DEFINE Held == Len(Deltas') = Len(Deltas)
<1>1. yields' = yields => Held
  BY DEF Deltas
<1>2. callerAborted \in BOOLEAN
  BY DEF ProviderIInv, ClientTypes
<1>3. CASE UNCHANGED clientVars \/ SendsHalf \/ UpstreamEnds \/ TimerFires \/ Reads
  <2>1. UNCHANGED <<yields, callerAborted>> /\ Stage' = Stage
    BY <1>3 DEF clientVars, SendsHalf, UpstreamEnds, TimerFires, Reads, Stage, Over
  <2> QED BY <1>1, <2>1 DEF Generator!contractVars, Stage
<1>4. CASE CallerAborts
  <2>1. UNCHANGED yields /\ callerAborted' = TRUE /\ Stage' = Stage
    BY <1>4 DEF CallerAborts, Stage
  <2> QED BY <1>1, <2>1 DEF Generator!Abort, Stage
<1>5. CASE FetchRejects \/ RefusalIsRead \/ BodyIsRead \/ ReadFails \/ HeadersArrive
  <2>1. UNCHANGED <<yields, callerAborted>> /\ phase \notin Over
    BY <1>5 DEF FetchRejects, RefusalIsRead, BodyIsRead, ReadFails, HeadersArrive, Settles, Over
  <2>2. phase' \in Over => phase' \in {"returned", "threw"}
    BY <1>5 DEF FetchRejects, RefusalIsRead, BodyIsRead, ReadFails, HeadersArrive, Settles, Over
  <2>3. CASE phase' \in Over
    BY <1>1, <2>1, <2>2, <2>3 DEF Generator!End
  <2>4. CASE phase' \notin Over
    BY <1>1, <2>1, <2>4 DEF Generator!contractVars
  <2> QED BY <2>3, <2>4
<1>6. CASE ConsumerGoesOn
  <2>1. UNCHANGED <<yields, callerAborted>> /\ phase \notin Over
        /\ phase' = IF callerAborted THEN "abandoned" ELSE "framing"
    BY <1>6 DEF ConsumerGoesOn, Over
  <2>2. CASE callerAborted
    BY <1>1, <2>1, <2>2 DEF Generator!End, Over
  <2>3. CASE ~callerAborted
    BY <1>1, <2>1, <2>3 DEF Generator!contractVars, Over
  <2> QED BY <2>2, <2>3
<1>7. CASE TakesLine
  <2>1. PICK t \in Nat, d \in Seq(Nat) : Taken(t, d)
    BY DEF ProviderIInv, LinesFit
  <2>2. phase = "framing" /\ UNCHANGED callerAborted
    BY <1>7 DEF TakesLine
  <2>3. yields = d /\ Deltas = d /\ \A i \in DOMAIN d : d[i] # 0
    <3>1. Deltas = d
      BY <2>1, DeltasAreTaken
    <3>2. yields = d /\ \A i \in DOMAIN d : d[i] # 0
      BY <2>1, <2>2 DEF Taken, IsDone, Texts
    <3> QED BY <3>1, <3>2
  <2>4. CASE yields' = yields /\ phase' \in {"threw", "framing", "reading"}
    <3>1. CASE phase' = "threw"
      BY <1>1, <2>2, <2>4, <3>1 DEF Generator!End, Over
    <3>2. CASE phase' # "threw"
      BY <1>1, <2>2, <2>4, <3>2 DEF Generator!contractVars, Over
    <3> QED BY <3>1, <3>2
  <2>5. CASE phase' = "yielding" /\ yields' = Append(yields, t + 1)
    <3> DEFINE e == Append(d, t + 1)
    <3>1. /\ e \in Seq(Nat) /\ Len(e) = Len(d) + 1 /\ DOMAIN e = 1..Len(e)
          /\ e[Len(d) + 1] = t + 1 /\ \A i \in 1..Len(d) : e[i] = d[i]
      BY AppendProperties, LenProperties
    <3>2. DOMAIN d = 1..Len(d) /\ Len(d) \in Nat
      BY LenProperties
    <3> HIDE DEF e
    <3>3. \A i \in DOMAIN e : e[i] # 0
      BY <2>3, <3>1, <3>2
    <3>4. Before(e) = e
      BY <3>1, <3>3, BeforeDone
    <3>5. Deltas' = e
      BY <2>3, <2>5, <3>4 DEF Deltas, Before, e
    <3>6. Len(Deltas') = Len(Deltas) + 1
      BY <2>3, <3>1, <3>5
    <3> QED BY <2>2, <2>5, <3>6 DEF Generator!Yield, Over
  <2> QED BY <1>7, <2>1, <2>4, <2>5, LineTaken
<1>8. CASE BodyEnds
  <2>1. PICK t \in Nat, d \in Seq(Nat) : Taken(t, d)
    BY DEF ProviderIInv, LinesFit
  <2>2. phase = "reading" /\ phase' = "returned" /\ UNCHANGED callerAborted
        /\ yields' = Append(yields, 0)
    BY <1>8 DEF BodyEnds
  <2>3. yields = d /\ Deltas = d /\ \A i \in DOMAIN d : d[i] # 0
    <3>1. Deltas = d
      BY <2>1, DeltasAreTaken
    <3>2. yields = d /\ \A i \in DOMAIN d : d[i] # 0
      BY <2>1, <2>2 DEF Taken, IsDone, Texts
    <3> QED BY <3>1, <3>2
  <2>4. Before(Append(d, 0)) = d
    BY <2>3, BeforeDone
  <2>5. Deltas' = Before(Append(d, 0))
    BY <2>2, <2>3 DEF Deltas, Before
  <2> QED BY <2>2, <2>3, <2>4, <2>5 DEF Generator!End, Over
<1> QED BY <1>3, <1>4, <1>5, <1>6, <1>7, <1>8 DEF ClientNext, Works

-----------------------------------------------------------------------------
(* The runs of the local console.                                          *)

\* The last n of w chunks, for some n.
LastOnes(w) == {[i \in 1..n |-> w - n + i] : n \in 0..w}

\* Some chunks of a run.
SomeChunks == UNION {[1..n -> 1..MaxChunks] : n \in 0..MaxChunks}

RunTypes ==
    /\ record \in [Ids -> {"none", "running", "done", "error", "signal", "forgotten"}]
    /\ process \in [Ids -> {"none", "alive", "signalled", "gone", "orphan"}]
    /\ written \in [Ids -> 0..MaxChunks]
    /\ viewer \in [Viewers -> [at : {"off", "open", "ended"}, run : 0..MaxIds, got : SomeChunks]]
    /\ history \in [Ids -> Seq(Nat)]

\* One run at most, the one listed as running and whose child lives.
RunningFits ==
    /\ running = {r \in Ids : record[r] = "running"}
    /\ \A q, r \in running : q = r
    /\ \A r \in Ids : r \in running <=> process[r] \in {"alive", "signalled"}

\* What is kept, and what a viewer of a run of this console has, is the end of
\* what was written.
OutputFits ==
    /\ \A r \in Ids : record[r] # "forgotten" => history[r] \in LastOnes(written[r])
    /\ \A v \in Viewers :
          LET s == viewer[v] IN
          s.at # "off" =>
             /\ s.run \in Ids /\ record[s.run] # "none"
             /\ record[s.run] # "forgotten" => s.got \in LastOnes(written[s.run])

\* A stream is open while there is something to wait for, and after a signal.
ViewersFit == \A v \in Viewers :
    LET s == viewer[v] IN
    /\ s.at = "open" => record[s.run] \in {"running", "signal", "forgotten"}
    /\ s.at = "ended" => record[s.run] # "running"

RunsIInv == RunTypes /\ RunningFits /\ OutputFits /\ ViewersFit

\* The end of what was written, with the next chunk, is the end of that.
LEMMA OneMore ==
    ASSUME NEW w \in Nat, NEW s \in LastOnes(w)
    PROVE  /\ Append(s, w + 1) \in LastOnes(w + 1) /\ Append(s, w + 1) # <<>>
           /\ s \in Seq(Nat)
<1>1. PICK n \in 0..w : s = [i \in 1..n |-> w - n + i]
    BY DEF LastOnes
<1>2. s \in Seq(Nat) /\ Len(s) = n
    BY <1>1
<1>3. Append(s, w + 1) = [i \in 1..(n + 1) |-> (w + 1) - (n + 1) + i]
  <2>1. /\ Append(s, w + 1) \in Seq(Nat) /\ Len(Append(s, w + 1)) = n + 1
        /\ \A i \in 1..n : Append(s, w + 1)[i] = s[i]
        /\ Append(s, w + 1)[n + 1] = w + 1
    BY <1>2, AppendProperties
  <2> DEFINE t == Append(s, w + 1)
  <2>2. DOMAIN t = 1..(n + 1) /\ t = [i \in DOMAIN t |-> t[i]]
    BY <2>1
  <2>3. \A i \in 1..(n + 1) : t[i] = (w + 1) - (n + 1) + i
    BY <1>1, <2>1
  <2> HIDE DEF t
  <2>4. t = [i \in 1..(n + 1) |-> (w + 1) - (n + 1) + i]
    BY <2>2, <2>3
  <2> QED BY <2>4 DEF t
<1>4. n + 1 \in 0..(w + 1)
    OBVIOUS
<1>5. Append(s, w + 1) # <<>>
  <2> DEFINE t == Append(s, w + 1)
  <2>1. t \in Seq(Nat) /\ Len(t) = n + 1 /\ n + 1 # 0
    BY <1>2, AppendProperties
  <2> HIDE DEF t
  <2> QED BY <2>1, EmptySeq DEF t
<1> QED BY <1>2, <1>3, <1>4, <1>5 DEF LastOnes

\* And so is it without its first chunk.
LEMMA OneLess ==
    ASSUME NEW w \in Nat, NEW s \in LastOnes(w), s # <<>>
    PROVE  SubSeq(s, 2, Len(s)) \in LastOnes(w)
<1>1. PICK n \in 0..w : s = [i \in 1..n |-> w - n + i]
    BY DEF LastOnes
<1>2. s \in Seq(Nat) /\ Len(s) = n /\ n # 0
    BY <1>1
<1>3. SubSeq(s, 2, n) = [i \in 1..(n - 1) |-> w - (n - 1) + i]
  <2> DEFINE t == SubSeq(s, 2, n)
  <2>1. /\ t \in Seq(Nat) /\ Len(t) = n - 1
        /\ \A i \in 1..(n - 1) : t[i] = s[i + 1]
    BY <1>2, SubSeqProperties
  <2>2. DOMAIN t = 1..(n - 1) /\ t = [i \in DOMAIN t |-> t[i]]
    BY <1>2, <2>1
  <2>3. \A i \in 1..(n - 1) : t[i] = w - (n - 1) + i
    BY <1>1, <1>2, <2>1
  <2> HIDE DEF t
  <2>4. t = [i \in 1..(n - 1) |-> w - (n - 1) + i]
    BY <2>2, <2>3
  <2> QED BY <2>4 DEF t
<1>4. n - 1 \in 0..w
    BY <1>2
<1> QED BY <1>2, <1>3, <1>4 DEF LastOnes

LEMMA LastOnesTypes ==
    ASSUME NEW w \in 0..MaxChunks, MaxChunks \in Nat
    PROVE  /\ LastOnes(w) \subseteq SomeChunks
           /\ LastOnes(w) \subseteq Seq(Nat)
           /\ <<>> \in LastOnes(w)
<1>1. ASSUME NEW s \in LastOnes(w) PROVE s \in SomeChunks /\ s \in Seq(Nat)
  <2>1. PICK n \in 0..w : s = [i \in 1..n |-> w - n + i]
    BY DEF LastOnes
  <2>2. s \in [1..n -> 1..MaxChunks] /\ n \in 0..MaxChunks
    BY <2>1
  <2> QED BY <2>1, <2>2 DEF SomeChunks
<1>2. <<>> = [i \in 1..0 |-> w - 0 + i]
    OBVIOUS
<1> QED BY <1>1, <1>2 DEF LastOnes

LEMMA KeptFits ==
    ASSUME NEW w \in Nat, NEW s \in LastOnes(w), s # <<>>, s \in Seq(Nat)
    PROVE  Kept(s) \in LastOnes(w)
<1>1. SubSeq(s, 1, Len(s)) = s
  <2> DEFINE t == SubSeq(s, 1, Len(s))
  <2>1. t \in Seq(Nat) /\ Len(t) = Len(s) /\ \A i \in 1..Len(s) : t[i] = s[i]
    BY SubSeqProperties, LenProperties
  <2>2. DOMAIN t = DOMAIN s /\ t = [i \in DOMAIN t |-> t[i]] /\ s = [i \in DOMAIN s |-> s[i]]
        /\ \A i \in DOMAIN s : t[i] = s[i]
    BY <2>1, LenProperties
  <2> HIDE DEF t
  <2>3. t = s
    BY <2>2
  <2> QED BY <2>3 DEF t
<1> QED BY <1>1, OneLess DEF Kept

-----------------------------------------------------------------------------
LEMMA RunsStart == ASSUME ConsoleAssumption, ConsoleInit PROVE RunsIInv
<1> USE DEF ConsoleInit, NoViewer, ConsoleAssumption
<1>1. <<>> \in LastOnes(0) /\ <<>> \in SomeChunks /\ <<>> \in Seq(Nat)
    BY LastOnesTypes
<1>2. RunTypes
    BY <1>1 DEF RunTypes
<1> QED BY <1>1, <1>2 DEF RunsIInv, RunningFits, OutputFits, ViewersFit

LEMMA Launching ==
    ASSUME ConsoleAssumption, RunsIInv, MayStart, NEW r \in Ids, Launched(r),
           UNCHANGED <<history, written, viewer>>
    PROVE  RunsIInv'
<1> USE DEF RunsIInv, Launched, MayStart
<1>1. RunTypes'
    BY DEF RunTypes
<1>2. record' = [record EXCEPT ![r] = "running"] /\ record[r] = "none"
      /\ \A q \in Ids \ {r} : record'[q] = record[q]
    BY DEF RunTypes
<1>3. RunningFits'
    BY <1>2 DEF RunTypes, RunningFits
<1>4. OutputFits'
    BY <1>2 DEF RunTypes, OutputFits
<1>5. ViewersFit'
    BY <1>2 DEF RunTypes, OutputFits, ViewersFit
<1> QED BY <1>1, <1>3, <1>4, <1>5

LEMMA StopsKeeps ==
    ASSUME ConsoleAssumption, RunsIInv, NEW r \in Ids, Stops(r)
    PROVE  RunsIInv'
BY DEF RunsIInv, Stops, RunTypes, RunningFits, OutputFits, ViewersFit

LEMMA WritesKeeps ==
    ASSUME ConsoleAssumption, RunsIInv, NEW r \in Ids, Writes(r)
    PROVE  RunsIInv'
<1> USE DEF RunsIInv, Writes
<1> DEFINE n == written[r] + 1
<1>0. /\ record[r] = "running" /\ written[r] \in 0..MaxChunks /\ MaxChunks \in Nat
      /\ n \in 0..MaxChunks /\ n \in 1..MaxChunks /\ written[r] \in Nat
    BY DEF RunTypes, RunningFits, ConsoleAssumption
<1>1. /\ written' = [written EXCEPT ![r] = n] /\ record' = record
      /\ history' = [history EXCEPT ![r] = Kept(Append(history[r], n))]
      /\ viewer' = [v \in Viewers |->
                        IF Follows(v, r) THEN [viewer[v] EXCEPT !.got = Append(viewer[v].got, n)]
                        ELSE viewer[v]]
    OBVIOUS
<1>2. Kept(Append(history[r], n)) \in LastOnes(n)
  <2>1. history[r] \in LastOnes(written[r])
    BY <1>0 DEF OutputFits
  <2>2. Append(history[r], n) \in LastOnes(n) /\ Append(history[r], n) # <<>>
    BY <1>0, <2>1, OneMore
  <2> HIDE DEF n
  <2>3. LastOnes(n) \subseteq Seq(Nat)
    BY <1>0, LastOnesTypes
  <2>4. n \in Nat /\ Append(history[r], n) \in Seq(Nat)
    <3> DEFINE t == Append(history[r], n)
    <3>1. t \in LastOnes(n)
      BY <2>2
    <3> HIDE DEF t
    <3>2. t \in Seq(Nat)
      BY <2>3, <3>1
    <3> QED BY <1>0, <3>2 DEF t
  <2> QED BY <2>4, <1>0, <2>2, <2>3, KeptFits
<1>3. ASSUME NEW v \in Viewers, Follows(v, r)
      PROVE  Append(viewer[v].got, n) \in LastOnes(n)
  <2>1. viewer[v].got \in LastOnes(written[r])
    BY <1>0, <1>3 DEF OutputFits, Follows
  <2> QED BY <1>0, <2>1, OneMore
<1> HIDE DEF n
<1>4. LastOnes(n) \subseteq SomeChunks /\ LastOnes(n) \subseteq Seq(Nat)
    BY <1>0, LastOnesTypes
<1>5. ASSUME NEW v \in Viewers
      PROVE  /\ viewer'[v].at = viewer[v].at /\ viewer'[v].run = viewer[v].run
             /\ viewer'[v].got = IF Follows(v, r) THEN Append(viewer[v].got, n)
                                 ELSE viewer[v].got
             /\ viewer'[v] \in [at : {"off", "open", "ended"}, run : 0..MaxIds, got : SomeChunks]
  <2>1. viewer[v] \in [at : {"off", "open", "ended"}, run : 0..MaxIds, got : SomeChunks]
    BY DEF RunTypes
  <2>2. CASE Follows(v, r)
    <3> DEFINE more == Append(viewer[v].got, n)
    <3>1. more \in SomeChunks
      BY <1>3, <1>4, <2>2
    <3>2. viewer'[v] = [viewer[v] EXCEPT !.got = more]
      BY <1>1, <2>2
    <3> HIDE DEF more
    <3>3. /\ viewer'[v].at = viewer[v].at /\ viewer'[v].run = viewer[v].run
          /\ viewer'[v].got = more
          /\ viewer'[v] \in [at : {"off", "open", "ended"}, run : 0..MaxIds, got : SomeChunks]
      BY <2>1, <3>1, <3>2
    <3> QED BY <2>2, <3>3 DEF more
  <2>3. CASE ~Follows(v, r)
    BY <1>1, <2>1, <2>3
  <2> QED BY <2>2, <2>3
<1>6. RunTypes'
  <2>1. history' \in [Ids -> Seq(Nat)]
    BY <1>1, <1>2, <1>4 DEF RunTypes
  <2>2. written' \in [Ids -> 0..MaxChunks]
    BY <1>0, <1>1 DEF RunTypes
  <2> DEFINE some == [at : {"off", "open", "ended"}, run : 0..MaxIds, got : SomeChunks]
  <2>3. viewer' \in [Viewers -> some]
    <3>1. viewer' = [v \in Viewers |-> viewer'[v]]
      BY <1>1
    <3>2. \A v \in Viewers : viewer'[v] \in some
      BY <1>5
    <3> HIDE DEF some
    <3> QED BY <3>1, <3>2
  <2> QED BY <2>1, <2>2, <2>3 DEF RunTypes
<1>7. RunningFits' /\ ViewersFit'
    BY <1>5 DEF RunningFits, ViewersFit
<1>8. OutputFits'
  <2>1. \A q \in Ids : /\ written'[q] = IF q = r THEN n ELSE written[q]
                       /\ history'[q] = IF q = r THEN Kept(Append(history[r], n)) ELSE history[q]
    BY <1>1 DEF RunTypes
  <2>2. \A q \in Ids : record'[q] # "forgotten" => history'[q] \in LastOnes(written'[q])
    BY <1>1, <1>2, <2>1 DEF OutputFits
  <2>3. ASSUME NEW v \in Viewers, viewer'[v].at # "off"
        PROVE  /\ viewer'[v].run \in Ids /\ record'[viewer'[v].run] # "none"
               /\ record'[viewer'[v].run] # "forgotten" =>
                     viewer'[v].got \in LastOnes(written'[viewer'[v].run])
    <3>1. viewer[v].run \in Ids /\ record[viewer[v].run] # "none" /\ viewer[v].at # "off"
      BY <1>5, <2>3 DEF OutputFits
    <3>2. CASE Follows(v, r)
      <4>1. viewer[v].run = r /\ Append(viewer[v].got, n) \in LastOnes(n)
        BY <1>3, <3>2 DEF Follows
      <4>2. viewer'[v].run = r /\ viewer'[v].got = Append(viewer[v].got, n)
        BY <1>5, <3>2, <4>1
      <4>3. viewer'[v].got \in LastOnes(written'[r]) /\ record'[r] = "running"
        <5>1. written'[r] = n /\ record'[r] = "running"
          BY <1>0, <1>1, <2>1
        <5> QED BY <4>1, <4>2, <5>1, Zenon
      <4> QED BY <4>2, <4>3
    <3>3. CASE ~Follows(v, r)
      <4>0. viewer[v].at \in {"open", "ended"}
        BY <3>1 DEF RunTypes
      <4>1. viewer[v].run # r
        BY <1>0, <3>3, <4>0 DEF Follows, ViewersFit
      <4> QED BY <1>1, <1>5, <2>1, <3>1, <3>3, <4>1 DEF OutputFits
    <3> QED BY <3>2, <3>3
  <2> QED BY <2>2, <2>3 DEF OutputFits
<1> QED BY <1>6, <1>7, <1>8

LEMMA ClosesKeeps ==
    ASSUME ConsoleAssumption, RunsIInv, NEW r \in Ids, Closes(r)
    PROVE  RunsIInv'
<1> USE DEF RunsIInv, Closes
<1>1. PICK fate \in {"done", "error", "signal"} : record' = [record EXCEPT ![r] = fate]
    OBVIOUS
<1>2. record[r] = "running" /\ \A q \in Ids : record'[q] = IF q = r THEN fate ELSE record[q]
    BY <1>1 DEF RunTypes, RunningFits
<1>3. ASSUME NEW v \in Viewers
      PROVE  /\ viewer'[v].at = IF Follows(v, r) THEN "ended" ELSE viewer[v].at
             /\ viewer'[v].run = viewer[v].run /\ viewer'[v].got = viewer[v].got
             /\ viewer'[v] \in [at : {"off", "open", "ended"}, run : 0..MaxIds, got : SomeChunks]
    BY DEF RunTypes
<1>4. RunTypes'
    BY <1>1, <1>3 DEF RunTypes
<1>5. RunningFits'
    BY <1>1, <1>2 DEF RunTypes, RunningFits
<1>6. OutputFits'
    BY <1>2, <1>3 DEF OutputFits, Follows
<1>7. ViewersFit'
    BY <1>2, <1>3 DEF OutputFits, ViewersFit, Follows
<1> QED BY <1>4, <1>5, <1>6, <1>7

LEMMA OpensKeeps ==
    ASSUME ConsoleAssumption, RunsIInv, NEW v \in Viewers, NEW r \in Ids, OpensStream(v, r)
    PROVE  RunsIInv'
<1> USE DEF RunsIInv, OpensStream
<1>1. PICK chunks \in Replays(r) :
          viewer' = [viewer EXCEPT ![v] = [at |-> IF HasEnded(r) THEN "ended" ELSE "open",
                                           run |-> r, got |-> chunks]]
    OBVIOUS
<1>2. /\ chunks \in SomeChunks
      /\ record[r] # "forgotten" => chunks \in LastOnes(written[r])
  <2>1. written[r] \in 0..MaxChunks /\ MaxChunks \in Nat
    BY DEF RunTypes, ConsoleAssumption
  <2>2. CASE record[r] # "forgotten"
    BY <2>1, <2>2, LastOnesTypes DEF Replays, OutputFits
  <2>3. CASE record[r] = "forgotten"
    <3>1. PICK n \in 0..written[r] : chunks = [i \in 1..n |-> i]
      BY <2>3 DEF Replays
    <3>2. chunks \in [1..n -> 1..MaxChunks] /\ n \in 0..MaxChunks
      BY <2>1, <3>1
    <3> QED BY <2>3, <3>2 DEF SomeChunks
  <2> QED BY <2>2, <2>3
<1>3. /\ viewer'[v].run = r /\ viewer'[v].got = chunks
      /\ viewer'[v].at = IF HasEnded(r) THEN "ended" ELSE "open"
      /\ \A w \in Viewers \ {v} : viewer'[w] = viewer[w]
    BY <1>1 DEF RunTypes
<1>4. RunTypes'
    BY <1>1, <1>2 DEF RunTypes, Ids, ConsoleAssumption
<1>5. RunningFits'
    BY DEF RunningFits
<1>6. OutputFits'
    BY <1>2, <1>3 DEF OutputFits
<1>7. ViewersFit'
    BY <1>3 DEF ViewersFit, HasEnded, RunTypes
<1> QED BY <1>4, <1>5, <1>6, <1>7

LEMMA LeavesKeeps ==
    ASSUME ConsoleAssumption, RunsIInv, NEW v \in Viewers, LeavesStream(v)
    PROVE  RunsIInv'
<1> USE DEF RunsIInv, LeavesStream
<1>1. <<>> \in SomeChunks
    BY LastOnesTypes DEF ConsoleAssumption
<1>2. viewer'[v] = NoViewer /\ \A w \in Viewers \ {v} : viewer'[w] = viewer[w]
    BY DEF RunTypes
<1>3. RunTypes'
    BY <1>1 DEF RunTypes, NoViewer, ConsoleAssumption
<1> QED BY <1>2, <1>3 DEF RunningFits, OutputFits, ViewersFit, NoViewer

LEMMA CrashKeeps ==
    ASSUME ConsoleAssumption, RunsIInv, Crash
    PROVE  RunsIInv'
<1> USE DEF RunsIInv, Crash
<1>1. <<>> \in SomeChunks
    BY LastOnesTypes DEF ConsoleAssumption
<1>2. \A r \in Ids : record'[r] = IF record[r] = "none" THEN "none" ELSE "forgotten"
    OBVIOUS
<1>3. \A v \in Viewers : viewer'[v] = IF viewer[v].at = "open" THEN NoViewer ELSE viewer[v]
    OBVIOUS
<1>4. RunTypes'
    BY <1>1 DEF RunTypes, NoViewer, ConsoleAssumption
<1>5. RunningFits'
    BY <1>2 DEF RunningFits, RunTypes
<1>6. OutputFits'
  <2>1. \A r \in Ids : history'[r] = <<>> /\ written'[r] = written[r]
    OBVIOUS
  <2>2. ASSUME NEW r \in Ids PROVE <<>> \in LastOnes(written[r])
    BY <2>2, LastOnesTypes DEF RunTypes, ConsoleAssumption
  <2> QED BY <1>2, <1>3, <2>1, <2>2 DEF OutputFits, NoViewer
<1>7. ViewersFit'
    BY <1>2, <1>3 DEF ViewersFit, OutputFits, NoViewer
<1> QED BY <1>4, <1>5, <1>6, <1>7

\* RunsIInv is inductive.
LEMMA RunsStep ==
    ASSUME ConsoleAssumption, RunsIInv, [ConsoleNext]_consoleVars
    PROVE  RunsIInv'
<1>1. CASE UNCHANGED <<record, process, running, history, written, viewer>>
    BY <1>1 DEF RunsIInv, RunTypes, RunningFits, OutputFits, ViewersFit
<1>2. CASE Asks \/ UNCHANGED consoleVars
    BY <1>1, <1>2 DEF Asks, consoleVars
<1>3. CASE BodyArrives \/ StartsAtOnce
    BY <1>1, <1>3, Launching DEF BodyArrives, StartsAtOnce
<1>4. ASSUME NEW r \in Ids, OrphanEnds(r) PROVE RunsIInv'
    BY <1>4 DEF OrphanEnds, RunsIInv, RunTypes, RunningFits, OutputFits, ViewersFit
<1> QED BY <1>2, <1>3, <1>4, CrashKeeps, StopsKeeps, WritesKeeps, ClosesKeeps, LeavesKeeps,
           OpensKeeps DEF ConsoleNext

LEMMA RunsAreSafe == ASSUME ConsoleAssumption, RunsIInv PROVE RunsInv
<1> USE DEF RunsIInv
<1>1. RecordTypeOK
    BY DEF RunTypes, RecordTypeOK, SomeChunks
<1>2. OneRun
  <2>1. CASE running = {}
    BY <2>1, FS_EmptySet DEF OneRun
  <2>2. CASE running # {}
    <3>1. PICK r \in running : running = {r}
      BY <2>2 DEF RunningFits
    <3>2. Cardinality({r}) = 1
      BY FS_Singleton
    <3> QED BY <3>1, <3>2 DEF OneRun
  <2> QED BY <2>1, <2>2
<1>3. ListedAsItIs
    BY DEF ListedAsItIs, RunningFits
<1>4. OutputIsWhole
  <2> SUFFICES ASSUME NEW v \in Viewers, viewer[v].at # "off",
                      record[viewer[v].run] # "forgotten", NEW i \in DOMAIN viewer[v].got
               PROVE  viewer[v].got[i] = written[viewer[v].run] - Len(viewer[v].got) + i
    BY DEF OutputIsWhole
  <2>1. viewer[v].run \in Ids /\ viewer[v].got \in LastOnes(written[viewer[v].run])
    BY DEF OutputFits
  <2>2. PICK n \in 0..written[viewer[v].run] :
            viewer[v].got = [k \in 1..n |-> written[viewer[v].run] - n + k]
    BY <2>1 DEF LastOnes
  <2>3. Len(viewer[v].got) = n
    BY <2>1, <2>2 DEF RunTypes
  <2> QED BY <2>2, <2>3
<1>5. EndIsTold
    BY DEF EndIsTold, ViewersFit
<1> QED BY <1>1, <1>2, <1>3, <1>4, <1>5 DEF RunsInv

-----------------------------------------------------------------------------
(* The choice of the next task.                                            *)

Runner == [at : {"idle", "mark", "branch"}, task : Issues \cup {0}, branches : SUBSET Issues]

QueueTypes ==
    /\ priority \in [Issues -> Ranks]
    /\ flags \in [Issues -> SUBSET Flags]

-----------------------------------------------------------------------------
(* Choosing.                                                               *)

Foremost(list, weight, n) ==
    /\ n \in list
    /\ \A m \in list : weight[n] < weight[m] \/ (weight[n] = weight[m] /\ n <= m)

\* Two orders of the same sense have the same first.
LEMMA FirstBySense ==
    ASSUME NEW list, NEW weight, NEW other,
           \A n \in list : Foremost(list, weight, n) <=> Foremost(list, other, n)
    PROVE  FirstBy(list, weight) = FirstBy(list, other)
<1>1. \A n \in list :
         (\A m \in list : weight[n] < weight[m] \/ (weight[n] = weight[m] /\ n <= m))
         <=> (\A m \in list : other[n] < other[m] \/ (other[n] = other[m] /\ n <= m))
  BY Zenon DEF Foremost
<1>2. (CHOOSE n \in list :
          \A m \in list : weight[n] < weight[m] \/ (weight[n] = weight[m] /\ n <= m))
      = (CHOOSE n \in list :
          \A m \in list : other[n] < other[m] \/ (other[n] = other[m] /\ n <= m))
  BY <1>1, Zenon
<1>3. CASE list = {}
  BY <1>3 DEF FirstBy
<1>4. CASE list # {}
  <2>1. FirstBy(list, weight) = CHOOSE n \in list :
            \A m \in list : weight[n] < weight[m] \/ (weight[n] = weight[m] /\ n <= m)
    BY <1>4, Zenon DEF FirstBy
  <2>2. FirstBy(list, other) = CHOOSE n \in list :
            \A m \in list : other[n] < other[m] \/ (other[n] = other[m] /\ n <= m)
    BY <1>4, Zenon DEF FirstBy
  <2> QED BY <1>2, <2>1, <2>2, Zenon
<1> QED BY <1>3, <1>4

\* Naturals have a least among them.
LEMMA Smallest ==
    ASSUME NEW S \in SUBSET Nat, S # {}
    PROVE  \E n \in S : \A m \in S : n <= m
<1> DEFINE R == OpToRel(<, Nat)
<1>1. \E x \in S : \A y \in S : ~ (<<y, x>> \in R)
  <2>1. IsWellFoundedOn(R, Nat)
    BY NatLessThanWellFounded
  <2> HIDE DEF R
  <2> QED BY <2>1, WFMin
<1>2. \A x, y \in S : y < x => <<y, x>> \in R
  BY DEF OpToRel
<1>3. PICK x \in S : \A y \in S : ~ (<<y, x>> \in R)
  BY <1>1
<1> HIDE DEF R
<1>4. \A y \in S : ~(y < x)
  BY <1>2, <1>3
<1>5. \A y \in S : x <= y
  BY <1>4
<1> QED BY <1>5

\* Where no open issue asks for a review, both programs have the same list and
\* an order of the same sense.
LEMMA SameOrder ==
    ASSUME QueueAssumption, QueueTypes, \A n \in OpenIssues : ~Has(n, "review")
    PROVE  NextTask = PickCandidate
<1> DEFINE list == {n \in OpenIssues : IsEligible(n)}
           score == [n \in Issues |-> -RunnerScore(n)]
<1>1. list = {n \in OpenIssues : /\ Has(n, "autonomous") /\ ~Has(n, "excluded") /\ ~Has(n, "review")
                                 /\ ~Has(n, "assigned")}
  BY DEF IsEligible
<1>2. NextTask = FirstBy(list, priority) /\ PickCandidate = FirstBy(list, score)
  BY <1>1 DEF NextTask, PickCandidate
<1>3. list \in SUBSET Nat /\ list \subseteq Issues
  BY DEF OpenIssues, QueueAssumption
<1>4. ASSUME NEW n \in list
      PROVE  /\ priority[n] \in 1..5
             /\ score[n] = -(<<100, 60, 30, 10, 0>>[priority[n]] + 60)
  <2>1. n \in Issues /\ priority[n] \in 1..5
    BY <1>3 DEF QueueTypes, QueueAssumption
  <2>2. If("autonomous", n, 60) = 60 /\ Penalties(n) = 0
    BY <1>1 DEF If, Penalties
  <2>3. Points(n) \in Int
    BY <2>1 DEF Points
  <2> QED BY <2>1, <2>2, <2>3 DEF RunnerScore, Points
<1> HIDE DEF list, score
<1>5. ASSUME NEW n \in list, NEW m \in list
      PROVE  /\ score[n] < score[m] <=> priority[n] < priority[m]
             /\ score[n] = score[m] <=> priority[n] = priority[m]
  BY <1>4
<1>6. \A n \in list : Foremost(list, priority, n) <=> Foremost(list, score, n)
  BY <1>5 DEF Foremost
<1> QED BY <1>2, <1>6, FirstBySense

LEMMA Accepted ==
    ASSUME QueueAssumption, QueueTypes PROVE AutonomousIsAccepted
<1> SUFFICES ASSUME NEW n \in Issues
             PROVE  /\ IsAutonomous(n) <=> n \in SafeTasks /\ ~Has(n, "assigned")
                    /\ IsAutonomous(n) /\ IsReady(n) => Accepts(n)
  BY DEF AutonomousIsAccepted
<1>1. IsAutonomous(n) <=> n \in SafeTasks /\ ~Has(n, "assigned")
  BY DEF IsAutonomous, SafeTasks, IsEligible
<1>2. ASSUME IsAutonomous(n) PROVE IsSafe(n) /\ RunnerScore(n) > 0
  <2>1. priority[n] \in 1..5
    BY DEF QueueTypes, QueueAssumption
  <2>2. Points(n) \in Nat
    BY <2>1 DEF Points
  <2>3. If("autonomous", n, 60) = 60 /\ Penalties(n) = 0
    BY <1>2 DEF IsAutonomous, IsEligible, If, Penalties
  <2> QED BY <1>2, <2>2, <2>3 DEF IsAutonomous, IsEligible, IsSafe, RunnerScore
<1>3. IsReady(n) => DepsClosed(n)
  BY DEF IsReady, DepsClosed
<1> QED BY <1>1, <1>2, <1>3 DEF Accepts

LEMMA QueueIsSafe == ASSUME QueueAssumption, QueueTypes PROVE QueueInv
BY SameOrder, Accepted DEF QueueInv, SameChoice

\* The owner may edit what he likes; a runner changes nothing of it.
LEMMA QueueStart == ASSUME QueueInit PROVE QueueTypes
BY DEF QueueInit, QueueTypes, Flags

LEMMA QueueStep ==
    ASSUME QueueTypes, [QueueNext]_queueVars
    PROVE  QueueTypes'
<1>1. CASE UNCHANGED <<priority, flags>>
  BY <1>1 DEF QueueTypes
<1>2. ASSUME NEW k \in Clones,
             PlansTask(k) \/ MarksInProgress(k) \/ CreatesBranch(k) \/ BranchExists(k) \/ SetUpFails(k)
      PROVE  UNCHANGED <<priority, flags>>
  BY <1>2 DEF PlansTask, MarksInProgress, CreatesBranch, BranchExists, SetUpFails
<1>3. ASSUME NEW n \in Issues, Edits(n)
      PROVE  QueueTypes'
  BY <1>3 DEF Edits, QueueTypes
<1>4. ASSUME NEW n \in Issues, SetsStatus(n)
      PROVE  UNCHANGED <<priority, flags>>
  BY <1>4 DEF SetsStatus
<1> QED BY <1>1, <1>2, <1>3, <1>4 DEF QueueNext, queueVars

-----------------------------------------------------------------------------
(* The search for cycles.                                                  *)

Frame == [node : Opened, rest : SUBSET Opened]

Found(v) == \E c \in cycles : c[1] = v

DepsTypes ==
    /\ tracker \in [Tasks -> {"OPEN", "CLOSED", "none"}]
    /\ ParsesDependsOn
    /\ color \in [Tasks -> {"WHITE", "GRAY", "BLACK"}]
    /\ path \in Seq(Frame)
    /\ \A c \in cycles : c \in Seq(Opened) /\ Len(c) > 1

\* The stack is a way through the graph, and holds what is grey.
StackFits ==
    /\ \A n \in Opened : color[n] = "GRAY" <=> \E i \in DOMAIN path : path[i].node = n
    /\ \A i, j \in DOMAIN path : path[i].node = path[j].node => i = j
    /\ \A i \in DOMAIN path : path[i].rest \subseteq CycleGraph[path[i].node]
    /\ \A i \in DOMAIN path : i > 1 => path[i].node \in CycleGraph[path[i - 1].node]

\* A neighbour that was looked at is not white, and a cycle was reported if it
\* was grey then.
LookedAt ==
    /\ \A i \in DOMAIN path : \A v \in CycleGraph[path[i].node] \ path[i].rest :
          color[v] # "WHITE" /\ \A j \in 1..i : path[j].node = v => Found(v)
    /\ \A u \in Opened : color[u] = "BLACK" =>
          \A v \in CycleGraph[u] : color[v] # "WHITE" /\ (color[v] = "GRAY" => Found(v))

\* Of a knot that holds a black issue a cycle was reported, unless an issue of it
\* is still on the stack.
KnotsAreSeen ==
    \A n \in Opened : color[n] = "BLACK" /\ Reaches(n, n) =>
        \E m \in Opened : /\ Reaches(n, m) /\ Reaches(m, n)
                          /\ color[m] = "GRAY" \/ Found(m)

DepsIInv == DepsTypes /\ StackFits /\ LookedAt /\ KnotsAreSeen /\ CyclesAreReal

-----------------------------------------------------------------------------
(* Reaching.                                                               *)

LEMMA GraphTyped ==
    ASSUME DepsTypes
    PROVE  /\ Opened \subseteq Tasks /\ Opened \subseteq Nat
           /\ CycleGraph \in [Opened -> SUBSET Opened]
BY DepsAssumption DEF DepsTypes, ParsesDependsOn, CycleGraph, Opened, DepsAssumption

LEMMA ReachesOpened == ASSUME DepsTypes, NEW n \in Opened, NEW m, Reaches(n, m) PROVE m \in Opened
<1>1. CycleGraph[n] \subseteq Opened /\ \A s \in Opened : CycleGraph[s] \subseteq Opened
  BY GraphTyped
<1> QED BY <1>1 DEF Reaches

LEMMA ReachesNext ==
    ASSUME DepsTypes, NEW n \in Opened, NEW m \in CycleGraph[n] PROVE Reaches(n, m)
BY DEF Reaches

LEMMA ReachesOn ==
    ASSUME DepsTypes, NEW n \in Opened, NEW s \in Opened, NEW m \in CycleGraph[s], Reaches(n, s)
    PROVE  Reaches(n, m)
BY DEF Reaches

LEMMA ReachesFar ==
    ASSUME DepsTypes, NEW n \in Opened, NEW s \in Opened, NEW m, Reaches(n, s), Reaches(s, m)
    PROVE  Reaches(n, m)
BY DEF Reaches

\* The last issue before m.
LEMMA ReachesThrough ==
    ASSUME DepsTypes, NEW n \in Opened, NEW m, Reaches(n, m)
    PROVE  m \in CycleGraph[n] \/ \E u \in Opened : Reaches(n, u) /\ m \in CycleGraph[u]
<1> DEFINE S == {x \in Opened : x \in CycleGraph[n]
                                \/ \E u \in Opened : Reaches(n, u) /\ x \in CycleGraph[u]}
<1>1. CycleGraph[n] \subseteq S
  BY GraphTyped
<1>2. ASSUME NEW s \in S PROVE CycleGraph[s] \subseteq S
  <2>1. Reaches(n, s)
    BY ReachesNext, ReachesOn
  <2> QED BY <2>1, GraphTyped
<1>3. m \in S
  <2> HIDE DEF S
  <2>1. S \in SUBSET Opened
    BY DEF S
  <2> QED BY <1>1, <1>2, <2>1 DEF Reaches
<1> QED BY <1>3

LEMMA GraphStays ==
    ASSUME UNCHANGED <<tracker, declared>>
    PROVE  /\ Opened' = Opened /\ CycleGraph' = CycleGraph /\ Frame' = Frame
           /\ \A n, m : Reaches(n, m)' <=> Reaches(n, m)
<1>1. Opened' = Opened
  BY DEF Opened
<1>2. CycleGraph' = CycleGraph
  BY <1>1 DEF CycleGraph
<1>3. Frame' = Frame
  BY <1>1 DEF Frame
<1>4. ASSUME NEW n, NEW m PROVE Reaches(n, m)' <=> Reaches(n, m)
  BY <1>1, <1>2 DEF Reaches
<1> QED BY <1>1, <1>2, <1>3, <1>4

-----------------------------------------------------------------------------
(* The steps of the search.                                                *)

LEMMA DepsStart == ASSUME DepsInit PROVE DepsIInv
<1> USE DEF DepsInit
<1>1. DepsTypes
  BY EmptySeq DEF DepsTypes
<1>2. \A n \in Opened : color[n] = "WHITE"
  BY DEF Opened
<1>3. DOMAIN path = {}
  OBVIOUS
<1> QED BY <1>1, <1>2, <1>3
        DEF DepsIInv, StackFits, LookedAt, KnotsAreSeen, CyclesAreReal

\* A node that was not seen is put on the stack, under which at most that node was
\* taken from the neighbours of the top.
LEMMA VisitKeeps ==
    ASSUME DepsIInv, UNCHANGED <<tracker, declared>>, NEW n \in Opened, color[n] = "WHITE",
           NEW below \in Seq(Frame), Len(below) = Len(path),
           \A i \in 1..Len(path) : /\ below[i].node = path[i].node
                                   /\ below[i].rest \subseteq path[i].rest
                                   /\ path[i].rest \ {n} \subseteq below[i].rest,
           path # <<>> => n \in CycleGraph[Top.node],
           Visits(n, below)
    PROVE  DepsIInv'
<1> DEFINE f == [node |-> n, rest |-> CycleGraph[n]]
           l == Len(path)
<1>1. l \in Nat /\ DOMAIN path = 1..l /\ \A i \in 1..l : path[i] \in Frame
  BY LenProperties DEF DepsIInv, DepsTypes
<1>2. f \in Frame /\ CycleGraph \in [Opened -> SUBSET Opened]
  BY GraphTyped DEF Frame, DepsIInv
<1>3. /\ path' \in Seq(Frame) /\ DOMAIN path' = 1..(l + 1)
      /\ \A i \in 1..l : path'[i] = below[i]
      /\ path'[l + 1] = f
  <2>1. path' = Append(below, f)
    BY DEF Visits
  <2> HIDE DEF f
  <2> QED BY <1>2, <2>1, AppendProperties, LenProperties
<1>4. /\ \A i \in 1..l : path'[i].node = path[i].node /\ path'[i].rest \subseteq path[i].rest
                         /\ path[i].rest \ {n} \subseteq path'[i].rest
      /\ path'[l + 1].node = n /\ path'[l + 1].rest = CycleGraph[n]
  BY <1>1, <1>3
<1>5. /\ color' = [color EXCEPT ![n] = "GRAY"] /\ cycles' = cycles
      /\ \A v : Found(v)' <=> Found(v)
  BY DEF Visits, Found
<1>6. /\ Opened' = Opened /\ CycleGraph' = CycleGraph /\ Frame' = Frame
      /\ \A a, b : Reaches(a, b)' <=> Reaches(a, b)
  BY GraphStays
<1>7. n \in Tasks /\ \A m \in Opened : color'[m] = IF m = n THEN "GRAY" ELSE color[m]
  BY <1>5, GraphTyped DEF DepsIInv, DepsTypes
<1> HIDE DEF f, l
<1>8. DepsTypes'
  BY <1>3, <1>5, <1>6, <1>7 DEF DepsIInv, DepsTypes, ParsesDependsOn
<1>9. StackFits'
  <2>1. \A i \in 1..l : path[i].node # n /\ path[i].node \in Opened
    BY <1>1 DEF DepsIInv, StackFits, Frame
  <2>2. \A m \in Opened : color'[m] = "GRAY" <=> \E i \in 1..(l + 1) : path'[i].node = m
    <3>1. \A m \in Opened : color[m] = "GRAY" <=> \E i \in 1..l : path[i].node = m
      BY <1>1 DEF DepsIInv, StackFits
    <3>2. 1..(l + 1) = 1..l \cup {l + 1}
      BY <1>1
    <3> QED BY <1>4, <1>7, <2>1, <3>1, <3>2
  <2>3. \A i, j \in 1..(l + 1) : path'[i].node = path'[j].node => i = j
    <3>1. \A i, j \in 1..l : path[i].node = path[j].node => i = j
      BY <1>1 DEF DepsIInv, StackFits
    <3> QED BY <1>1, <1>4, <2>1, <3>1
  <2>4. \A i \in 1..(l + 1) : path'[i].rest \subseteq CycleGraph[path'[i].node]
    <3>1. \A i \in 1..l : path[i].rest \subseteq CycleGraph[path[i].node]
      BY <1>1 DEF DepsIInv, StackFits
    <3> QED BY <1>1, <1>4, <3>1
  <2>5. \A i \in 1..(l + 1) : i > 1 => path'[i].node \in CycleGraph[path'[i - 1].node]
    <3>1. \A i \in 1..l : i > 1 => path[i].node \in CycleGraph[path[i - 1].node]
      BY <1>1 DEF DepsIInv, StackFits
    <3>2. l > 0 => n \in CycleGraph[path[l].node]
      BY <1>1 DEF Top, l
    <3>3. \A i \in 1..l : i > 1 => i - 1 \in 1..l
      BY <1>1
    <3>4. \A i \in 1..(l + 1) : i \in 1..l \/ (i = l + 1 /\ i - 1 = l)
      BY <1>1
    <3>5. l > 0 => l \in 1..l
      BY <1>1
    <3>6. l + 1 > 1 => l > 0
      BY <1>1
    <3> QED BY <1>4, <3>1, <3>2, <3>3, <3>4, <3>5, <3>6
  <2> QED BY <1>3, <1>6, <2>2, <2>3, <2>4, <2>5 DEF StackFits
<1>10. LookedAt'
  <2>1. ASSUME NEW i \in 1..(l + 1), NEW v \in CycleGraph[path'[i].node] \ path'[i].rest
        PROVE  color'[v] # "WHITE" /\ \A j \in 1..i : path'[j].node = v => Found(v)
    <3>1. i \in 1..l /\ path'[i].node = path[i].node /\ path[i].node \in Opened /\ v \in Opened
      BY <1>1, <1>2, <1>4, <2>1 DEF Frame
    <3>2. CASE v = n
      <4>1. \A j \in 1..l : path[j].node \in Opened /\ color[path[j].node] = "GRAY"
        BY <1>1 DEF DepsIInv, StackFits, Frame
      <4>2. \A j \in 1..i : j \in 1..l
        BY <1>1, <3>1
      <4>3. \A j \in 1..i : path'[j].node # n
        BY <1>4, <4>1, <4>2
      <4> QED BY <1>7, <3>2, <4>3
    <3>3. CASE v # n
      <4>1. v \in CycleGraph[path[i].node] \ path[i].rest
        BY <1>4, <2>1, <3>1, <3>3
      <4>2. color[v] # "WHITE" /\ \A j \in 1..i : path[j].node = v => Found(v)
        BY <1>1, <3>1, <4>1 DEF DepsIInv, LookedAt
      <4>3. \A j \in 1..i : j \in 1..l
        BY <1>1, <3>1
      <4> QED BY <1>4, <1>7, <3>1, <3>3, <4>2, <4>3
    <3> QED BY <3>2, <3>3
  <2>2. ASSUME NEW u \in Opened, color'[u] = "BLACK", NEW v \in CycleGraph[u]
        PROVE  color'[v] # "WHITE" /\ (color'[v] = "GRAY" => Found(v))
    <3>1. color[u] = "BLACK" /\ v \in Opened
      BY <1>2, <1>7, <2>2
    <3>2. color[v] # "WHITE" /\ (color[v] = "GRAY" => Found(v))
      BY <3>1 DEF DepsIInv, LookedAt
    <3> QED BY <1>7, <3>1, <3>2
  <2> QED BY <1>3, <1>5, <1>6, <2>1, <2>2 DEF LookedAt
<1>11. KnotsAreSeen'
  <2> SUFFICES ASSUME NEW m \in Opened, color'[m] = "BLACK", Reaches(m, m)
               PROVE  \E k \in Opened : /\ Reaches(m, k) /\ Reaches(k, m)
                                        /\ color'[k] = "GRAY" \/ Found(k)
    BY <1>5, <1>6 DEF KnotsAreSeen
  <2>1. color[m] = "BLACK"
    BY <1>7
  <2>2. PICK k \in Opened : Reaches(m, k) /\ Reaches(k, m) /\ (color[k] = "GRAY" \/ Found(k))
    BY <2>1 DEF DepsIInv, KnotsAreSeen
  <2> QED BY <1>7, <2>2
<1>12. CyclesAreReal'
  BY <1>5, <1>6 DEF DepsIInv, CyclesAreReal
<1> QED BY <1>8, <1>9, <1>10, <1>11, <1>12 DEF DepsIInv

LEMMA RootsKeep == ASSUME DepsIInv, Roots, UNCHANGED <<tracker, declared>> PROVE DepsIInv'
<1>1. PICK n \in Opened : path = <<>> /\ color[n] = "WHITE" /\ Visits(n, <<>>)
  BY DEF Roots
<1>2. <<>> \in Seq(Frame) /\ Len(<<>>) = 0
  BY EmptySeq
<1> QED BY <1>1, <1>2, VisitKeeps

\* What is taken from the neighbours of the top.
LEMMA BelowIs ==
    ASSUME DepsIInv, path # <<>>, NEW n \in Top.rest
    PROVE  /\ [path EXCEPT ![Len(path)].rest = @ \ {n}] \in Seq(Frame)
           /\ Len([path EXCEPT ![Len(path)].rest = @ \ {n}]) = Len(path)
           /\ \A i \in 1..Len(path) :
                 [path EXCEPT ![Len(path)].rest = @ \ {n}][i] =
                    IF i = Len(path) THEN [node |-> path[i].node, rest |-> path[i].rest \ {n}]
                                     ELSE path[i]
<1> DEFINE l == Len(path)
           e == [node |-> path[l].node, rest |-> path[l].rest \ {n}]
<1>1. l \in Nat /\ l \in 1..l /\ path \in Seq(Frame)
  BY LenProperties, EmptySeq DEF DepsIInv, DepsTypes
<1>2. path[l] \in Frame
  BY <1>1
<1>3. e \in Frame
  BY <1>2 DEF Frame
<1>4. [path EXCEPT ![l].rest = @ \ {n}] = [path EXCEPT ![l] = e]
  <2> DEFINE r == path[l]
             d == [r EXCEPT !.rest = r.rest \ {n}]
  <2>1. r \in Frame
    BY <1>2
  <2> HIDE DEF r
  <2>2. d \in Frame /\ d.node = r.node /\ d.rest = r.rest \ {n}
    BY <2>1 DEF Frame
  <2>3. e.node = r.node /\ e.rest = r.rest \ {n}
    BY DEF r
  <2> HIDE DEF d, e
  <2>4. \A x \in Frame : x = [node |-> x.node, rest |-> x.rest]
    BY DEF Frame
  <2>5. d = e
    BY <1>3, <2>2, <2>3, <2>4, Zenon
  <2> QED BY <2>5 DEF d, r
<1> DEFINE q == [path EXCEPT ![l].rest = @ \ {n}]
<1> HIDE DEF e
<1>5. q \in Seq(Frame) /\ Len(q) = l /\ \A i \in 1..l : q[i] = IF i = l THEN e ELSE path[i]
  <2>1. /\ [path EXCEPT ![l] = e] \in Seq(Frame) /\ Len([path EXCEPT ![l] = e]) = l
        /\ \A i \in 1..l : [path EXCEPT ![l] = e][i] = IF i = l THEN e ELSE path[i]
    BY <1>1, <1>3, ExceptSeq
  <2>2. q = [path EXCEPT ![l] = e]
    BY <1>4
  <2> HIDE DEF q
  <2> QED BY <2>1, <2>2
<1> HIDE DEF q
<1>6. \A i \in 1..l : q[i] = IF i = l THEN [node |-> path[i].node, rest |-> path[i].rest \ {n}]
                                   ELSE path[i]
  BY <1>5 DEF e
<1> QED BY <1>5, <1>6 DEF q

\* A neighbour that is not white: it was reported if it is grey.
LEMMA LooksOn ==
    ASSUME DepsIInv, UNCHANGED <<tracker, declared, color>>, path # <<>>, NEW n \in Top.rest,
           path' = [path EXCEPT ![Len(path)].rest = @ \ {n}], color[n] # "WHITE",
           \A v : Found(v) => Found(v)', color[n] = "GRAY" => Found(n)',
           CyclesAreReal', \A c \in cycles' : c \in Seq(Opened) /\ Len(c) > 1
    PROVE  DepsIInv'
<1> DEFINE l == Len(path)
<1>1. l \in Nat /\ l \in 1..l /\ DOMAIN path = 1..l /\ \A i \in 1..l : path[i] \in Frame
  BY LenProperties, EmptySeq DEF DepsIInv, DepsTypes
<1>2. /\ path' \in Seq(Frame) /\ DOMAIN path' = 1..l
      /\ \A i \in 1..l : path'[i] = IF i = l THEN [node |-> path[i].node, rest |-> path[i].rest \ {n}]
                                             ELSE path[i]
  BY BelowIs, LenProperties
<1>3. /\ \A i \in 1..l : /\ path'[i].node = path[i].node /\ path'[i].rest \subseteq path[i].rest
                         /\ path[i].rest \ {n} \subseteq path'[i].rest
  BY <1>2
<1>4. /\ Opened' = Opened /\ CycleGraph' = CycleGraph /\ Frame' = Frame
      /\ \A a, b : Reaches(a, b)' <=> Reaches(a, b)
  BY GraphStays
<1>5. CycleGraph \in [Opened -> SUBSET Opened]
  BY GraphTyped DEF DepsIInv
<1>6. DepsTypes'
  BY <1>2, <1>4 DEF DepsIInv, DepsTypes, ParsesDependsOn
<1>7. StackFits'
  <2>1. \A i \in 1..l : i > 1 => i - 1 \in 1..l
    BY <1>1
  <2> QED BY <1>1, <1>2, <1>3, <1>4, <2>1 DEF DepsIInv, StackFits
<1>8. LookedAt'
  <2>1. ASSUME NEW i \in 1..l, NEW v \in CycleGraph[path'[i].node] \ path'[i].rest
        PROVE  color[v] # "WHITE" /\ \A j \in 1..i : path'[j].node = v => Found(v)'
    <3>1. CASE v = n
      <4>1. ASSUME NEW j \in 1..i, path'[j].node = n PROVE color[n] = "GRAY"
        <5>1. j \in 1..l /\ path[j].node = n /\ n \in Opened
          BY <1>1, <1>3, <4>1 DEF Frame
        <5> QED BY <1>1, <5>1 DEF DepsIInv, StackFits
      <4> QED BY <3>1, <4>1
    <3>2. CASE v # n
      <4>1. v \in CycleGraph[path[i].node] \ path[i].rest
        BY <1>3, <2>1, <3>2
      <4>2. color[v] # "WHITE" /\ \A j \in 1..i : path[j].node = v => Found(v)
        BY <1>1, <4>1 DEF DepsIInv, LookedAt
      <4>3. \A j \in 1..i : j \in 1..l
        BY <1>1
      <4> QED BY <1>3, <4>2, <4>3
    <3> QED BY <3>1, <3>2
  <2>2. ASSUME NEW u \in Opened, color[u] = "BLACK", NEW v \in CycleGraph[u]
        PROVE  color[v] # "WHITE" /\ (color[v] = "GRAY" => Found(v)')
    BY <2>2 DEF DepsIInv, LookedAt
  <2> QED BY <1>2, <1>4, <2>1, <2>2 DEF LookedAt
<1>9. KnotsAreSeen'
  <2> SUFFICES ASSUME NEW m \in Opened, color[m] = "BLACK", Reaches(m, m)
               PROVE  \E k \in Opened : /\ Reaches(m, k) /\ Reaches(k, m)
                                        /\ color[k] = "GRAY" \/ Found(k)'
    BY <1>4 DEF KnotsAreSeen
  <2> QED BY DEF DepsIInv, KnotsAreSeen
<1> QED BY <1>6, <1>7, <1>8, <1>9 DEF DepsIInv

\* The cycle that is reported: from the neighbour up the stack, and back to it.
LEMMA CycleIsReal ==
    ASSUME DepsIInv, path # <<>>, NEW n \in CycleGraph[Top.node], NEW i \in DOMAIN path,
           path[i].node = n
    PROVE  LET c == SubSeq(Nodes, i, Len(path)) \o <<n>> IN
           /\ c \in Seq(Opened) /\ Len(c) > 1 /\ c[1] = n /\ c[Len(c)] = n
           /\ \A k \in 1..(Len(c) - 1) : c[k + 1] \in CycleGraph[c[k]]
           /\ \A k, m \in 2..Len(c) : c[k] = c[m] => k = m
<1> DEFINE l == Len(path)
           s == SubSeq(Nodes, i, l)
           c == s \o <<n>>
           h == l - i + 1
<1>1. l \in Nat /\ l \in 1..l /\ DOMAIN path = 1..l /\ \A k \in 1..l : path[k] \in Frame
  BY LenProperties, EmptySeq DEF DepsIInv, DepsTypes
<1>2. i \in 1..l /\ h \in Nat /\ h >= 1 /\ i + h - 1 = l
  BY <1>1
<1>3. n \in Opened
  BY <1>1, <1>2 DEF Frame
<1>4. \A k \in i..l : Nodes[k] = path[k].node /\ Nodes[k] \in Opened
  BY <1>1, <1>2 DEF Nodes, Frame
<1>5. /\ s \in Seq(Opened) /\ Len(s) = h /\ \A k \in 1..h : s[k] = Nodes[i + k - 1]
  <2>1. i \in Int /\ l \in Int /\ i <= l
    BY <1>1, <1>2
  <2> QED BY <1>4, <2>1, SubSeqProperties
<1>6. \A k \in 1..h : i + k - 1 \in i..l /\ i + k - 1 \in 1..l
  BY <1>1, <1>2
<1>7. \A k \in 1..h : s[k] = path[i + k - 1].node
  BY <1>4, <1>5, <1>6
<1> HIDE DEF s, h
<1>8. /\ c \in Seq(Opened) /\ Len(c) = h + 1
      /\ \A k \in 1..h : c[k] = path[i + k - 1].node
      /\ c[h + 1] = n
  <2>1. c = Append(s, n)
    BY <1>3, <1>5, AppendIsConcat
  <2> HIDE DEF c
  <2>2. c \in Seq(Opened) /\ Len(c) = h + 1 /\ c[h + 1] = n /\ \A k \in 1..h : c[k] = s[k]
    BY <1>3, <1>5, <2>1, AppendProperties
  <2> QED BY <1>7, <2>2
<1> HIDE DEF c
<1>9. c[1] = n /\ Len(c) > 1 /\ c[Len(c)] = n
  <2>1. i + 1 - 1 = i /\ 1 \in 1..h
    BY <1>2
  <2> QED BY <1>2, <1>8, <2>1
<1>10. ASSUME NEW k \in 1..h PROVE c[k + 1] \in CycleGraph[c[k]]
  <2>1. CASE k = h
    <3>1. c[k] = path[l].node /\ c[k + 1] = n
      BY <1>2, <1>8, <2>1
    <3> QED BY <3>1 DEF Top, l
  <2>2. CASE k # h
    <3>1. k + 1 \in 1..h /\ i + (k + 1) - 1 = i + k /\ i + k \in 1..l /\ i + k > 1
          /\ i + k - 1 \in 1..l
      BY <1>1, <1>2, <2>2
    <3>2. c[k + 1] = path[i + k].node /\ c[k] = path[i + k - 1].node
      BY <1>8, <3>1
    <3> QED BY <1>1, <3>1, <3>2 DEF DepsIInv, StackFits
  <2> QED BY <2>1, <2>2
<1>11. ASSUME NEW k \in 2..(h + 1), NEW m \in 2..(h + 1), c[k] = c[m] PROVE k = m
  <2>1. \A a, b \in 1..l : path[a].node = path[b].node => a = b
    BY <1>1 DEF DepsIInv, StackFits
  <2>2. CASE k # h + 1 /\ m # h + 1
    <3>1. k \in 1..h /\ m \in 1..h /\ i + k - 1 \in 1..l /\ i + m - 1 \in 1..l
      BY <1>1, <1>2, <2>2
    <3>2. i + k - 1 = i + m - 1
      BY <1>8, <1>11, <2>1, <3>1
    <3> QED BY <1>2, <3>2
  <2>3. ASSUME NEW a \in 2..(h + 1), a # h + 1, c[a] = n PROVE FALSE
    <3>1. a \in 1..h /\ i + a - 1 \in 1..l /\ i + a - 1 # i
      BY <1>1, <1>2, <2>3
    <3>2. path[i + a - 1].node = path[i].node
      BY <1>8, <2>3, <3>1
    <3> QED BY <1>2, <2>1, <3>1, <3>2
  <2> QED BY <1>8, <1>11, <2>2, <2>3
<1>12. Len(c) - 1 = h /\ Len(c) = h + 1
  BY <1>2, <1>8
<1> QED BY <1>8, <1>9, <1>10, <1>11, <1>12 DEF c, s

LEMMA LooksKeep == ASSUME DepsIInv, Looks, UNCHANGED <<tracker, declared>> PROVE DepsIInv'
<1> DEFINE l == Len(path)
           Less(d) == \A e \in Top.rest : d <= e
           Below(d) == [path EXCEPT ![Len(path)].rest = @ \ {d}]
           Back(d) == SubSeq(Nodes, CHOOSE i \in DOMAIN path : path[i].node = d, Len(path)) \o <<d>>
<1>1. PICK n :
      /\ path # <<>> /\ Top.rest # {} /\ n = CHOOSE d \in Top.rest : Less(d)
      /\ \/ color[n] = "WHITE" /\ Visits(n, Below(n))
         \/ /\ color[n] = "GRAY" /\ cycles' = cycles \cup {Back(n)}
            /\ path' = Below(n) /\ UNCHANGED color
         \/ color[n] = "BLACK" /\ path' = Below(n) /\ UNCHANGED <<color, cycles>>
  BY Zenon DEF Looks
<1> DEFINE below == Below(n)
<1>2. l \in Nat /\ l \in 1..l /\ DOMAIN path = 1..l /\ Top = path[l] /\ Top \in Frame
  <2>1. path \in Seq(Frame) /\ path # <<>>
    BY <1>1 DEF DepsIInv, DepsTypes
  <2>2. l \in Nat /\ l \in 1..l /\ DOMAIN path = 1..l
    BY <2>1, LenProperties, EmptySeq
  <2>3. Top = path[l]
    BY DEF Top
  <2> HIDE DEF l
  <2> QED BY <2>1, <2>2, <2>3
<1>3. Top.rest \in SUBSET Nat /\ Top.rest \subseteq Opened
      /\ Top.rest \subseteq CycleGraph[Top.node]
  <2>1. Top.rest \subseteq Opened
    BY <1>2 DEF Frame
  <2>2. Opened \subseteq Nat
    BY GraphTyped DEF DepsIInv
  <2>3. Top.rest \subseteq CycleGraph[Top.node]
    BY <1>2 DEF DepsIInv, StackFits
  <2> QED BY <2>1, <2>2, <2>3
<1>4. n \in Top.rest
  <2>1. \E d \in Top.rest : Less(d)
    BY <1>1, <1>3, Smallest
  <2> HIDE DEF Less
  <2> QED BY <1>1, <2>1, Zenon
<1>5. /\ below \in Seq(Frame) /\ Len(below) = l
      /\ \A i \in 1..l : below[i] = IF i = l THEN [node |-> path[i].node, rest |-> path[i].rest \ {n}]
                                             ELSE path[i]
  BY <1>1, <1>4, BelowIs
<1> HIDE DEF below
<1>6. CASE color[n] = "WHITE" /\ Visits(n, below)
  <2>1. \A i \in 1..l : /\ below[i].node = path[i].node /\ below[i].rest \subseteq path[i].rest
                        /\ path[i].rest \ {n} \subseteq below[i].rest
    <3> SUFFICES ASSUME NEW i \in 1..l
                 PROVE  /\ below[i].node = path[i].node /\ below[i].rest \subseteq path[i].rest
                        /\ path[i].rest \ {n} \subseteq below[i].rest
      OBVIOUS
    <3>1. CASE i = l
      <4>1. below[i] = [node |-> path[i].node, rest |-> path[i].rest \ {n}]
        BY <1>5, <3>1
      <4> QED BY <4>1
    <3>2. CASE i # l
      BY <1>5, <3>2
    <3> QED BY <3>1, <3>2
  <2>2. n \in Opened /\ n \in CycleGraph[Top.node]
    BY <1>3, <1>4
  <2> QED BY <1>5, <1>6, <2>1, <2>2, VisitKeeps
<1>7. CASE color[n] = "BLACK" /\ path' = below /\ UNCHANGED <<color, cycles>>
  <2>1. CyclesAreReal' /\ \A c \in cycles' : c \in Seq(Opened) /\ Len(c) > 1
    BY <1>7, GraphStays DEF DepsIInv, DepsTypes, CyclesAreReal
  <2>2. color[n] # "WHITE" /\ (color[n] = "GRAY" => Found(n)')
    BY <1>7
  <2>3. \A v : Found(v) => Found(v)'
    BY <1>7 DEF Found
  <2> QED BY <1>1, <1>4, <1>7, <2>1, <2>2, <2>3, LooksOn DEF below
<1>8. CASE color[n] = "GRAY" /\ cycles' = cycles \cup {Back(n)} /\ path' = below /\ UNCHANGED color
  <2> DEFINE i == CHOOSE i \in DOMAIN path : path[i].node = n
             c == SubSeq(Nodes, i, Len(path)) \o <<n>>
  <2>1. i \in DOMAIN path /\ path[i].node = n
    <3>1. \E k \in DOMAIN path : path[k].node = n
      BY <1>3, <1>4, <1>8 DEF DepsIInv, StackFits
    <3> QED BY <3>1, Zenon
  <2>2. cycles' = cycles \cup {c}
    BY <1>8
  <2> HIDE DEF i
  <2>3. /\ c \in Seq(Opened) /\ Len(c) > 1 /\ c[1] = n /\ c[Len(c)] = n
        /\ \A k \in 1..(Len(c) - 1) : c[k + 1] \in CycleGraph[c[k]]
        /\ \A k, m \in 2..Len(c) : c[k] = c[m] => k = m
    BY <1>1, <1>3, <1>4, <2>1, CycleIsReal
  <2> HIDE DEF c
  <2>4. /\ CyclesAreReal' /\ \A d \in cycles' : d \in Seq(Opened) /\ Len(d) > 1
    BY <2>2, <2>3, GraphStays DEF DepsIInv, DepsTypes, CyclesAreReal
  <2>5. c \in cycles' /\ c[1] = n /\ cycles \subseteq cycles'
    BY <2>2, <2>3
  <2>6. Found(n)' /\ \A v : Found(v) => Found(v)'
    BY <2>5, Zenon DEF Found
  <2>7. path' = [path EXCEPT ![Len(path)].rest = @ \ {n}]
    BY <1>8 DEF below
  <2>8. UNCHANGED <<tracker, declared, color>> /\ path # <<>> /\ color[n] # "WHITE"
    BY <1>1, <1>8
  <2> HIDE <1>1, <1>8
  <2> QED BY <1>4, <2>4, <2>6, <2>7, <2>8, LooksOn
<1> QED BY <1>1, <1>6, <1>7, <1>8, Zenon DEF below

\* The top, with all its neighbours looked at, is done.  If it is the last of its
\* knot on the stack, every way out of it and back to it ends with an issue that
\* is done or with itself, and that one saw it grey: a cycle was reported.
LEMMA KnotIsSeen ==
    ASSUME DepsIInv, path # <<>>, Top.rest = {}, Reaches(Top.node, Top.node)
    PROVE  \E m \in Opened : /\ Reaches(Top.node, m) /\ Reaches(m, Top.node)
                             /\ (color[m] = "GRAY" /\ m # Top.node) \/ Found(m)
<1> DEFINE t == Top.node
           l == Len(path)
<1>1. /\ l \in Nat /\ l \in 1..l /\ DOMAIN path = 1..l /\ Top = path[l] /\ Top \in Frame
      /\ DepsTypes
  BY LenProperties, EmptySeq DEF DepsIInv, DepsTypes, Top
<1>2. t \in Opened /\ CycleGraph \in [Opened -> SUBSET Opened] /\ color[t] = "GRAY"
  BY <1>1, GraphTyped DEF Frame, DepsIInv, StackFits
<1>3. \A v \in CycleGraph[t] : color[v] # "WHITE" /\ (v = t => Found(t))
  BY <1>1 DEF DepsIInv, LookedAt
<1>4. \A u \in Opened : color[u] = "BLACK" =>
          \A v \in CycleGraph[u] : color[v] # "WHITE" /\ (color[v] = "GRAY" => Found(v))
  BY DEF DepsIInv, LookedAt
<1>5. \A v \in Opened : color[v] \in {"WHITE", "GRAY", "BLACK"}
  BY <1>1, GraphTyped DEF DepsTypes
<1> HIDE DEF t, l
<1>6. Reaches(t, t)
  BY DEF t
<1> SUFFICES ASSUME \A m \in Opened : Reaches(t, m) /\ Reaches(m, t) =>
                        ~(color[m] = "GRAY" /\ m # t) /\ ~Found(m)
             PROVE  FALSE
  BY DEF t
<1> DEFINE S == {x \in Opened : Reaches(t, x) /\ (Reaches(x, t) => color[x] = "BLACK" \/ x = t)}
<1>7. CycleGraph[t] \subseteq S
  <2> SUFFICES ASSUME NEW x \in CycleGraph[t] PROVE x \in S
    OBVIOUS
  <2>1. x \in Opened /\ Reaches(t, x)
    BY <1>1, <1>2, ReachesNext
  <2>2. Reaches(x, t) => color[x] = "BLACK" \/ x = t
    BY <1>3, <1>5, <2>1
  <2> QED BY <2>1, <2>2
<1>8. ASSUME NEW s \in S, NEW x \in CycleGraph[s] PROVE x \in S
  <2>1. x \in Opened /\ Reaches(t, x)
    BY <1>1, <1>2, <1>8, ReachesOn
  <2>2. ASSUME Reaches(x, t) PROVE color[x] = "BLACK" \/ x = t
    <3>1. Reaches(s, x)
      BY <1>1, <1>8, ReachesNext
    <3>2. Reaches(s, t)
      BY <1>1, <1>2, <1>8, <2>1, <2>2, <3>1, ReachesFar
    <3>3. color[x] # "WHITE"
      BY <1>3, <1>4, <1>8, <3>2
    <3> QED BY <1>5, <2>1, <2>2, <3>3
  <2> QED BY <2>1, <2>2
<1>9. \A x : Reaches(t, x) => x \in S
  <2>1. S \in SUBSET Opened
    OBVIOUS
  <2> HIDE DEF S
  <2>2. \A s \in S : CycleGraph[s] \subseteq S
    BY <1>8
  <2> QED BY <1>7, <2>1, <2>2 DEF Reaches
<1>10. t \in CycleGraph[t] \/ \E u \in Opened : Reaches(t, u) /\ t \in CycleGraph[u]
  BY <1>1, <1>2, <1>6, ReachesThrough
<1>11. CASE t \in CycleGraph[t]
  BY <1>2, <1>3, <1>6, <1>11
<1>12. ASSUME NEW u \in Opened, Reaches(t, u), t \in CycleGraph[u] PROVE FALSE
  <2>1. Reaches(u, t)
    BY <1>1, <1>12, ReachesNext
  <2>2. color[u] = "BLACK" \/ u = t
    BY <1>9, <1>12, <2>1
  <2>3. CASE u = t
    BY <1>11, <1>12, <2>3
  <2>4. CASE color[u] = "BLACK"
    <3>1. Found(t)
      BY <1>2, <1>4, <1>12, <2>4
    <3> QED BY <1>2, <1>6, <3>1
  <2> QED BY <2>2, <2>3, <2>4
<1> QED BY <1>10, <1>11, <1>12

LEMMA LeavesKeep == ASSUME DepsIInv, Leaves, UNCHANGED <<tracker, declared>> PROVE DepsIInv'
<1> DEFINE t == Top.node
           l == Len(path)
<1>1. /\ l \in Nat /\ l \in 1..l /\ DOMAIN path = 1..l /\ Top = path[l] /\ Top \in Frame
      /\ DepsTypes /\ \A i \in 1..l : path[i] \in Frame
  BY LenProperties, EmptySeq DEF DepsIInv, DepsTypes, Top, Leaves
<1>2. t \in Opened /\ t \in Tasks /\ CycleGraph \in [Opened -> SUBSET Opened] /\ color[t] = "GRAY"
      /\ path[l].node = t
  BY <1>1, GraphTyped DEF Frame, DepsIInv, StackFits
<1>3. /\ path # <<>> /\ Top.rest = {} /\ cycles' = cycles
      /\ color' = [color EXCEPT ![t] = "BLACK"] /\ path' = SubSeq(path, 1, l - 1)
  BY DEF Leaves
<1>4. /\ path' \in Seq(Frame) /\ DOMAIN path' = 1..(l - 1)
      /\ \A i \in 1..(l - 1) : path'[i] = path[i] /\ i \in 1..l
  <2>1. \A i \in 1..(l - 1) : i \in 1..l /\ path[i] \in Frame /\ 1 + i - 1 = i
    BY <1>1
  <2>2. /\ SubSeq(path, 1, l - 1) \in Seq(Frame)
        /\ Len(SubSeq(path, 1, l - 1)) = IF 1 <= l - 1 THEN l - 1 - 1 + 1 ELSE 0
        /\ \A i \in 1..(l - 1 - 1 + 1) : SubSeq(path, 1, l - 1)[i] = path[1 + i - 1]
    BY <1>1, <2>1, SubSeqProperties
  <2>3. l - 1 - 1 + 1 = l - 1 /\ (IF 1 <= l - 1 THEN l - 1 - 1 + 1 ELSE 0) = l - 1
    BY <1>1
  <2>4. path' \in Seq(Frame) /\ Len(path') = l - 1
    BY <1>3, <2>2, <2>3
  <2>5. DOMAIN path' = 1..(l - 1)
    BY <2>4, LenProperties
  <2>6. \A i \in 1..(l - 1) : path'[i] = path[1 + i - 1]
    BY <1>3, <2>2, <2>3
  <2> QED BY <2>1, <2>4, <2>5, <2>6
<1>5. /\ Opened' = Opened /\ CycleGraph' = CycleGraph /\ Frame' = Frame
      /\ \A a, b : Reaches(a, b)' <=> Reaches(a, b)
      /\ \A v : Found(v)' <=> Found(v)
  BY <1>3, GraphStays DEF Found
<1>6. \A m \in Opened : color'[m] = IF m = t THEN "BLACK" ELSE color[m]
  BY <1>1, <1>2, <1>3, GraphTyped DEF DepsTypes
<1>7. \A u \in Opened : color[u] = "BLACK" =>
          \A v \in CycleGraph[u] : color[v] # "WHITE" /\ (color[v] = "GRAY" => Found(v))
  BY DEF DepsIInv, LookedAt
<1>8. \A v \in CycleGraph[t] : color[v] # "WHITE" /\ (color[v] = "GRAY" => Found(v))
  <2> SUFFICES ASSUME NEW v \in CycleGraph[t]
               PROVE  color[v] # "WHITE" /\ (color[v] = "GRAY" => Found(v))
    OBVIOUS
  <2>1. color[v] # "WHITE" /\ \A j \in 1..l : path[j].node = v => Found(v)
    BY <1>1, <1>3 DEF DepsIInv, LookedAt
  <2>2. color[v] = "GRAY" => \E j \in 1..l : path[j].node = v
    BY <1>1, <1>2 DEF DepsIInv, StackFits
  <2> QED BY <2>1, <2>2
<1>9. path # <<>> /\ Top.rest = {} /\ (Reaches(t, t) =>
          \E m \in Opened : /\ Reaches(t, m) /\ Reaches(m, t)
                            /\ (color[m] = "GRAY" /\ m # t) \/ Found(m))
  BY <1>3, KnotIsSeen
<1> HIDE DEF t, l
<1>10. DepsTypes'
  BY <1>1, <1>2, <1>3, <1>4, <1>5 DEF DepsTypes, ParsesDependsOn
<1>11. StackFits'
  <2>1. \A i, j \in 1..l : path[i].node = path[j].node => i = j
    BY <1>1 DEF DepsIInv, StackFits
  <2>2. \A n \in Opened : color[n] = "GRAY" <=> \E i \in 1..l : path[i].node = n
    BY <1>1 DEF DepsIInv, StackFits
  <2>3. \A i \in 1..l : i \in 1..(l - 1) \/ i = l
    BY <1>1
  <2>4. \A i \in 1..(l - 1) : path[i].node # t
    <3>1. \A i \in 1..(l - 1) : i # l
      BY <1>1
    <3> QED BY <1>1, <1>2, <1>4, <2>1, <3>1
  <2>5. \A n \in Opened : color'[n] = "GRAY" <=> \E i \in 1..(l - 1) : path'[i].node = n
    BY <1>2, <1>4, <1>6, <2>2, <2>3, <2>4
  <2>6. \A i, j \in 1..(l - 1) : path'[i].node = path'[j].node => i = j
    BY <1>4, <2>1
  <2>7. \A i \in 1..(l - 1) : path'[i].rest \subseteq CycleGraph[path'[i].node]
    BY <1>1, <1>4 DEF DepsIInv, StackFits
  <2>8. \A i \in 1..(l - 1) : i > 1 => path'[i].node \in CycleGraph[path'[i - 1].node]
    <3>1. \A i \in 1..(l - 1) : i > 1 => i - 1 \in 1..(l - 1)
      BY <1>1
    <3> QED BY <1>1, <1>4, <3>1 DEF DepsIInv, StackFits
  <2> QED BY <1>4, <1>5, <2>5, <2>6, <2>7, <2>8 DEF StackFits
<1>12. LookedAt'
  <2>1. ASSUME NEW i \in 1..(l - 1), NEW v \in CycleGraph[path'[i].node] \ path'[i].rest
        PROVE  color'[v] # "WHITE" /\ \A j \in 1..i : path'[j].node = v => Found(v)
    <3>1. path'[i] = path[i] /\ i \in 1..l /\ v \in Opened
      BY <1>1, <1>2, <1>4, <2>1 DEF Frame
    <3>2. color[v] # "WHITE" /\ \A j \in 1..i : path[j].node = v => Found(v)
      BY <1>1, <2>1, <3>1 DEF DepsIInv, LookedAt
    <3>3. \A j \in 1..i : path'[j] = path[j]
      <4>1. \A j \in 1..i : j \in 1..(l - 1)
        BY <1>1
      <4> QED BY <1>4, <4>1
    <3> QED BY <1>6, <3>1, <3>2, <3>3
  <2>2. ASSUME NEW u \in Opened, color'[u] = "BLACK", NEW v \in CycleGraph[u]
        PROVE  color'[v] # "WHITE" /\ (color'[v] = "GRAY" => Found(v))
    <3>1. v \in Opened /\ (color[u] = "BLACK" \/ u = t)
      BY <1>2, <1>6, <2>2
    <3>2. color[v] # "WHITE" /\ (color[v] = "GRAY" => Found(v))
      BY <1>7, <1>8, <2>2, <3>1
    <3> QED BY <1>6, <3>1, <3>2
  <2> QED BY <1>4, <1>5, <2>1, <2>2 DEF LookedAt
<1>13. KnotsAreSeen'
  <2> SUFFICES ASSUME NEW n \in Opened, color'[n] = "BLACK", Reaches(n, n)
               PROVE  \E k \in Opened : /\ Reaches(n, k) /\ Reaches(k, n)
                                        /\ color'[k] = "GRAY" \/ Found(k)
    BY <1>5 DEF KnotsAreSeen
  <2>1. ASSUME Reaches(n, t), Reaches(t, n)
        PROVE  \E k \in Opened : /\ Reaches(n, k) /\ Reaches(k, n)
                                 /\ color'[k] = "GRAY" \/ Found(k)
    <3>1. Reaches(t, t)
      BY <1>1, <1>2, <2>1, ReachesFar
    <3>2. PICK k \in Opened : /\ Reaches(t, k) /\ Reaches(k, t)
                              /\ (color[k] = "GRAY" /\ k # t) \/ Found(k)
      BY <1>9, <3>1
    <3>3. Reaches(n, k) /\ Reaches(k, n)
      BY <1>1, <1>2, <2>1, <3>2, ReachesFar
    <3> QED BY <1>6, <3>2, <3>3
  <2>2. CASE n = t
    BY <2>1, <2>2
  <2>3. CASE n # t
    <3>1. color[n] = "BLACK"
      BY <1>6, <2>3
    <3>2. PICK k \in Opened : Reaches(n, k) /\ Reaches(k, n) /\ (color[k] = "GRAY" \/ Found(k))
      BY <3>1 DEF DepsIInv, KnotsAreSeen
    <3>3. CASE k = t
      BY <2>1, <3>2, <3>3
    <3>4. CASE k # t
      BY <1>6, <3>2, <3>4
    <3> QED BY <3>3, <3>4
  <2> QED BY <2>2, <2>3
<1>14. CyclesAreReal'
  BY <1>3, <1>5 DEF DepsIInv, CyclesAreReal
<1> QED BY <1>10, <1>11, <1>12, <1>13, <1>14 DEF DepsIInv

\* DepsIInv is inductive.
LEMMA DepsStep == ASSUME DepsIInv, [DepsNext]_depsVars PROVE DepsIInv'
<1>1. CASE UNCHANGED depsVars
  <2>1. UNCHANGED <<tracker, declared, color, path, cycles>>
    BY <1>1 DEF depsVars
  <2>2. /\ Opened' = Opened /\ CycleGraph' = CycleGraph /\ Frame' = Frame
        /\ \A a, b : Reaches(a, b)' <=> Reaches(a, b)
        /\ \A v : Found(v)' <=> Found(v)
    BY <2>1, GraphStays DEF Found
  <2>3. DepsTypes' /\ StackFits'
    BY <2>1, <2>2 DEF DepsIInv, DepsTypes, ParsesDependsOn, StackFits
  <2>4. LookedAt' /\ KnotsAreSeen' /\ CyclesAreReal'
    BY <2>1, <2>2 DEF DepsIInv, LookedAt, KnotsAreSeen, CyclesAreReal
  <2> QED BY <2>3, <2>4 DEF DepsIInv
<1>2. CASE DepsNext
  BY <1>2, RootsKeep, LooksKeep, LeavesKeep DEF DepsNext
<1> QED BY <1>1, <1>2

-----------------------------------------------------------------------------
(* What the report says.                                                   *)

\* In a finite graph where each waits for one, someone waits for itself: take an
\* issue that reaches the fewest; the next one reaches no fewer, and so itself.
LEMMA SomeoneReachesItself ==
    ASSUME DepsTypes, Opened # {}, \A n \in Opened : CycleGraph[n] # {}
    PROVE  \E n \in Opened : Reaches(n, n)
<1> DEFINE Ahead(n) == {m \in Opened : Reaches(n, m)}
           Sizes == {Cardinality(Ahead(n)) : n \in Opened}
<1>1. IsFiniteSet(Opened) /\ CycleGraph \in [Opened -> SUBSET Opened]
  BY DepsAssumption, GraphTyped, FS_Subset DEF DepsAssumption
<1>2. \A n \in Opened : IsFiniteSet(Ahead(n)) /\ Cardinality(Ahead(n)) \in Nat
  BY <1>1, FS_Subset, FS_CardinalityType
<1>3. PICK n \in Opened : \A m \in Opened : Cardinality(Ahead(n)) <= Cardinality(Ahead(m))
  <2>1. Sizes \in SUBSET Nat /\ Sizes # {}
    BY <1>2
  <2>2. \E a \in Sizes : \A b \in Sizes : a <= b
    <3> HIDE DEF Sizes
    <3> QED BY <2>1, Smallest
  <2> QED BY <2>2
<1>4. PICK s \in CycleGraph[n] : TRUE
  OBVIOUS
<1>5. s \in Opened /\ Reaches(n, s)
  BY <1>1, ReachesNext
<1>6. Ahead(s) \subseteq Ahead(n)
  BY <1>5, ReachesFar
<1>7. Cardinality(Ahead(s)) <= Cardinality(Ahead(n))
      /\ (Cardinality(Ahead(n)) = Cardinality(Ahead(s)) => Ahead(n) = Ahead(s))
  BY <1>2, <1>6, FS_Subset
<1>8. Cardinality(Ahead(n)) = Cardinality(Ahead(s))
  <2> HIDE DEF Ahead
  <2> QED BY <1>2, <1>3, <1>5, <1>7
<1>9. s \in Ahead(n) /\ Ahead(n) = Ahead(s)
  BY <1>5, <1>7, <1>8
<1> QED BY <1>5, <1>9

LEMMA DepsAreSafe == ASSUME DepsIInv PROVE DepsInv
<1> USE DEF DepsIInv
<1>1. KnotsAreFound
  <2> SUFFICES ASSUME Searched, NEW n \in Opened, Reaches(n, n)
               PROVE  \E c \in cycles : Reaches(n, c[1]) /\ Reaches(c[1], n)
    BY DEF KnotsAreFound
  <2>1. \A m \in Opened : color[m] = "BLACK"
    <3>1. \A m \in Opened : color[m] \in {"WHITE", "GRAY", "BLACK"}
      BY GraphTyped DEF DepsTypes
    <3>2. DOMAIN path = {}
      BY DEF Searched
    <3> QED BY <3>1, <3>2 DEF StackFits, Searched
  <2>2. PICK m \in Opened : Reaches(n, m) /\ Reaches(m, n) /\ (color[m] = "GRAY" \/ Found(m))
    BY <2>1 DEF KnotsAreSeen
  <2> QED BY <2>1, <2>2 DEF Found
<1>2. StandstillIsExplained
  <2> SUFFICES ASSUME Searched, Opened # {}, NoDeps = {}, ReadyTasks = {},
                      \A n \in BlockedTasks : MissingDeps(n) = {}
               PROVE  cycles # {}
    BY DEF StandstillIsExplained
  <2>1. \A n \in Opened : CycleGraph[n] # {}
    BY DEF BlockedTasks, ReadyTasks, OpenDeps, CycleGraph
  <2>2. PICK n \in Opened : Reaches(n, n)
    BY <2>1, SomeoneReachesItself
  <2> QED BY <1>1, <2>2 DEF KnotsAreFound
<1> QED BY <1>1, <1>2 DEF DepsInv

-----------------------------------------------------------------------------
(* The mirror of the issues.                                               *)

Row == [item : Items, closed : BOOLEAN]
Sync == [at : {"idle", "list", "upsert", "write", "ended"}, page : Nat, read : Seq(Row),
         todo : Seq(Row), found : Nat, failed : BOOLEAN, touched : SUBSET Items]

Current(x) == [item |-> x, closed |-> x \in closed]

MirrorTypes ==
    /\ recent \in Seq(Items) /\ \A i, j \in DOMAIN recent : recent[i] = recent[j] => i = j
    /\ closed \in SUBSET Items /\ sync \in Sync /\ mirrored \in Seq(Row)

\* A row that was read of an item that was not updated since is as the item is.
RowsAreTrue(rs) == \A k \in DOMAIN rs :
    rs[k].item \notin sync.touched => rs[k] = Current(rs[k].item)

\* What was not updated while the list was read only moves backwards in it: it is
\* behind what was read, or among it, no further back than it is now.
ReadFits == sync.at = "list" =>
    /\ Len(sync.read) = sync.page * PageSize /\ RowsAreTrue(sync.read)
    /\ \A i \in DOMAIN recent : recent[i] \notin sync.touched /\ i <= sync.page * PageSize =>
          \E k \in 1..i : k <= Len(sync.read) /\ sync.read[k] = Current(recent[i])

TodoFits == sync.at \in {"upsert", "write"} =>
    /\ RowsAreTrue(sync.todo)
    /\ ~sync.failed => \A i \in DOMAIN recent : InReach(i) /\ recent[i] \notin sync.touched =>
          Current(recent[i]) \in Elements(mirrored) \cup Elements(sync.todo)

FoundFits == sync.at = "write" =>
    /\ sync.todo # <<>>
    /\ IF sync.found = 0 THEN \A i \in DOMAIN mirrored : mirrored[i].item # Head(sync.todo).item
       ELSE sync.found \in DOMAIN mirrored /\ mirrored[sync.found].item = Head(sync.todo).item

MirrorIInv == MirrorTypes /\ ReadFits /\ TodoFits /\ FoundFits /\ MirrorInv

-----------------------------------------------------------------------------
(* The list.                                                               *)

LEMMA WithoutIt ==
    ASSUME NEW s \in Seq(Items), \A i, j \in DOMAIN s : s[i] = s[j] => i = j, NEW x
    PROVE  /\ Without(s, x) \in Seq(Items) /\ Len(Without(s, x)) <= Len(s)
           /\ \A i \in 1..Len(Without(s, x)) :
                 \E j \in 1..Len(s) : j <= i + 1 /\ Without(s, x)[i] = s[j] /\ s[j] # x
           /\ \A i, j \in 1..Len(Without(s, x)) : Without(s, x)[i] = Without(s, x)[j] => i = j
<1> DEFINE w == Without(s, x)
           l == Len(s)
<1>1. l \in Nat /\ DOMAIN s = 1..l /\ \A i \in 1..l : s[i] \in Items
  BY LenProperties
<1>2. CASE x \notin Elements(s)
  <2>1. w = s /\ \A i \in 1..l : s[i] # x
    BY <1>1, <1>2 DEF Without, Elements
  <2> QED BY <1>1, <2>1
<1>3. CASE x \in Elements(s)
  <2> DEFINE at == CHOOSE i \in DOMAIN s : s[i] = x
             d == [i \in 1..(l - 1) |-> IF i < at THEN s[i] ELSE s[i + 1]]
  <2>1. at \in 1..l /\ s[at] = x
    <3>1. \E i \in DOMAIN s : s[i] = x
      BY <1>3 DEF Elements
    <3>2. at \in DOMAIN s /\ s[at] = x
      BY <3>1, Zenon
    <3> QED BY <1>1, <3>2
  <2>2. w = d
    BY <1>3, Zenon DEF Without
  <2> HIDE DEF at
  <2>3. d \in Seq(Items) /\ Len(d) = l - 1
    <3>1. \A i \in 1..(l - 1) : (IF i < at THEN s[i] ELSE s[i + 1]) \in Items
      BY <1>1, <2>1
    <3> QED BY <1>1, <2>1, <3>1
  <2>4. \A i \in 1..(l - 1) : d[i] = s[IF i < at THEN i ELSE i + 1]
    OBVIOUS
  <2> HIDE DEF d
  <2>5. ASSUME NEW i \in 1..(l - 1)
        PROVE  \E j \in 1..l : /\ j = IF i < at THEN i ELSE i + 1
                               /\ j <= i + 1 /\ d[i] = s[j] /\ s[j] # x
    <3>1. CASE i < at
      BY <1>1, <2>1, <2>4, <3>1
    <3>2. CASE ~(i < at)
      <4>1. i + 1 \in 1..l /\ i + 1 # at /\ d[i] = s[i + 1]
        BY <1>1, <2>1, <2>4, <3>2
      <4>2. s[i + 1] # x
        BY <1>1, <2>1, <4>1
      <4> QED BY <3>2, <4>1, <4>2
    <3> QED BY <3>1, <3>2
  <2>6. ASSUME NEW i \in 1..(l - 1), NEW j \in 1..(l - 1), d[i] = d[j] PROVE i = j
    <3>1. (IF i < at THEN i ELSE i + 1) = (IF j < at THEN j ELSE j + 1)
      BY <1>1, <2>5, <2>6
    <3> QED BY <1>1, <2>1, <3>1
  <2> QED BY <1>1, <2>2, <2>3, <2>5, <2>6
<1> QED BY <1>2, <1>3

\* What is in the list after an update was there before, no further back.
LEMMA UpdatedSeq ==
    ASSUME NEW old \in Seq(Items), \A i, j \in DOMAIN old : old[i] = old[j] => i = j,
           NEW y \in Items
    PROVE  \E new \in Seq(Items) :
              /\ new = <<y>> \o Without(old, y)
              /\ \A i, j \in DOMAIN new : new[i] = new[j] => i = j
              /\ \A i \in DOMAIN new : new[i] # y =>
                    \E j \in DOMAIN old : j <= i /\ new[i] = old[j]
<1> PICK new : new = <<y>> \o Without(old, y)
  BY Zenon
<1>0. /\ Without(old, y) \in Seq(Items)
      /\ \A i, j \in 1..Len(Without(old, y)) : Without(old, y)[i] = Without(old, y)[j] => i = j
      /\ \A i \in 1..Len(Without(old, y)) :
            \E j \in 1..Len(old) : j <= i + 1 /\ Without(old, y)[i] = old[j] /\ old[j] # y
  BY WithoutIt, Zenon
<1>1. PICK rest \in Seq(Items) :
          /\ rest = Without(old, y)
          /\ \A i, j \in 1..Len(rest) : rest[i] = rest[j] => i = j
          /\ \A i \in 1..Len(rest) :
                \E j \in 1..Len(old) : j <= i + 1 /\ rest[i] = old[j] /\ old[j] # y
  BY <1>0, Zenon
<1>2. <<y>> \in Seq(Items) /\ Len(<<y>>) = 1 /\ <<y>>[1] = y
  OBVIOUS
<1>3. PICK front \in Seq(Items) : front = <<y>> /\ Len(front) = 1 /\ front[1] = y
  BY <1>2, Zenon
<1>4. /\ new \in Seq(Items) /\ Len(new) = 1 + Len(rest)
      /\ \A i \in 1..(1 + Len(rest)) : new[i] = IF i <= 1 THEN front[i] ELSE rest[i - 1]
  <2>1. PICK both : /\ both = front \o rest /\ both \in Seq(Items) /\ Len(both) = 1 + Len(rest)
                    /\ \A i \in 1..(1 + Len(rest)) : both[i] = IF i <= 1 THEN front[i] ELSE rest[i - 1]
    <3>1. /\ front \o rest \in Seq(Items) /\ Len(front \o rest) = Len(front) + Len(rest)
          /\ \A i \in 1..(Len(front) + Len(rest)) :
                (front \o rest)[i] = IF i <= Len(front) THEN front[i] ELSE rest[i - Len(front)]
      BY ConcatProperties, Zenon
    <3>2. PICK both : /\ both = front \o rest /\ both \in Seq(Items) /\ Len(both) = Len(front) + Len(rest)
                      /\ \A i \in 1..(Len(front) + Len(rest)) :
                            both[i] = IF i <= Len(front) THEN front[i] ELSE rest[i - Len(front)]
      BY <3>1, Zenon
    <3> QED BY <1>3, <3>2
  <2>2. new = both
    BY <1>1, <1>3, <2>1, Zenon
  <2> QED BY <2>1, <2>2
<1> DEFINE l == Len(rest)
<1>5. l \in Nat /\ DOMAIN new = 1..(1 + l)
  BY <1>1, <1>4, LenProperties
<1>6. \A i \in 1..(1 + l) : \/ i = 1 /\ new[i] = y
                            \/ i # 1 /\ i - 1 \in 1..l /\ new[i] = rest[i - 1]
  <2> SUFFICES ASSUME NEW i \in 1..(1 + l)
               PROVE  \/ i = 1 /\ new[i] = y
                      \/ i # 1 /\ i - 1 \in 1..l /\ new[i] = rest[i - 1]
    OBVIOUS
  <2>1. CASE i = 1
    BY <1>2, <1>4, <2>1
  <2>2. CASE i # 1
    BY <1>4, <1>5, <2>2
  <2> QED BY <2>1, <2>2
<1>7. \A i \in 1..l : rest[i] # y
  BY <1>1
<1>8. ASSUME NEW i \in 1..(1 + l), NEW j \in 1..(1 + l), new[i] = new[j] PROVE i = j
  <2>1. CASE i = 1 \/ j = 1
    BY <1>6, <1>7, <1>8, <2>1
  <2>2. CASE i # 1 /\ j # 1
    <3>1. i - 1 \in 1..l /\ j - 1 \in 1..l /\ rest[i - 1] = rest[j - 1]
      BY <1>6, <1>8, <2>2
    <3> DEFINE p == i - 1
               q == j - 1
    <3>2. p = q
      <4>1. p \in 1..l /\ q \in 1..l /\ rest[p] = rest[q]
        BY <3>1
      <4> HIDE DEF p, q
      <4> QED BY <1>1, <4>1
    <3> QED BY <1>5, <3>2
  <2> QED BY <2>1, <2>2
<1>9. ASSUME NEW i \in 1..(1 + l), new[i] # y
      PROVE  \E j \in DOMAIN old : j <= i /\ new[i] = old[j]
  <2>1. i - 1 \in 1..l /\ new[i] = rest[i - 1] /\ i - 1 + 1 = i
    BY <1>5, <1>6, <1>9
  <2>2. PICK j \in 1..Len(old) : j <= i - 1 + 1 /\ rest[i - 1] = old[j]
    BY <1>1, <2>1
  <2> QED BY <1>1, <2>1, <2>2
<1>10. new \in Seq(Items) /\ DOMAIN new = 1..(1 + l)
  BY <1>4, <1>5
<1>11. \A i, j \in DOMAIN new : new[i] = new[j] => i = j
  BY <1>8, <1>10
<1>12. \A i \in DOMAIN new : new[i] # y => \E j \in DOMAIN old : j <= i /\ new[i] = old[j]
  BY <1>9, <1>10
<1>13. new = <<y>> \o Without(old, y)
  OBVIOUS
<1> QED BY <1>10, <1>11, <1>12, <1>13, Zenon

LEMMA UpdatedList ==
    ASSUME MirrorTypes, NEW x \in Items, recent' = <<x>> \o Without(recent, x)
    PROVE  /\ recent' \in Seq(Items)
           /\ \A i, j \in DOMAIN recent' : recent'[i] = recent'[j] => i = j
           /\ \A i \in DOMAIN recent' : recent'[i] # x =>
                 \E j \in DOMAIN recent : j <= i /\ recent'[i] = recent[j]
<1>1. PICK new \in Seq(Items) :
          /\ new = <<x>> \o Without(recent, x)
          /\ \A i, j \in DOMAIN new : new[i] = new[j] => i = j
          /\ \A i \in DOMAIN new : new[i] # x =>
                \E j \in DOMAIN recent : j <= i /\ new[i] = recent[j]
  BY UpdatedSeq DEF MirrorTypes
<1>2. recent' = new
  BY <1>1, Zenon
<1> QED BY <1>1, <1>2

-----------------------------------------------------------------------------
(* The steps.                                                              *)

LEMMA MirrorStart == MirrorInit => MirrorIInv
<1> SUFFICES ASSUME MirrorInit PROVE MirrorIInv
  OBVIOUS
<1> USE DEF MirrorInit, NoSync
<1>1. MirrorTypes
  BY DEF MirrorTypes, Sync
<1>2. ReadFits /\ TodoFits /\ FoundFits
  BY DEF ReadFits, TodoFits, FoundFits
<1>3. MirrorInv
  BY DEF MirrorInv, OneRowEach, UntouchedAreMirrored
<1> QED BY <1>1, <1>2, <1>3 DEF MirrorIInv

\* A step that leaves the rows alone and the run idle, dead, or about to list.
LEMMA RunsAnew ==
    ASSUME MirrorIInv, UNCHANGED <<recent, closed, updates, mirrored>>,
           sync' = NoSync \/ sync' = [NoSync EXCEPT !.at = "list"]
    PROVE  MirrorIInv'
<1>1. /\ sync' \in Sync /\ sync'.at \in {"idle", "list"} /\ sync'.page = 0
      /\ sync'.read = <<>>
  <2>1. <<>> \in Seq(Row)
    OBVIOUS
  <2>2. CASE sync' = NoSync
    BY <2>1, <2>2 DEF NoSync, Sync
  <2>3. CASE sync' = [NoSync EXCEPT !.at = "list"]
    BY <2>1, <2>3 DEF NoSync, Sync
  <2> QED BY <2>2, <2>3
<1>2. MirrorTypes'
  BY <1>1 DEF MirrorIInv, MirrorTypes
<1>3. ReadFits'
  <2>1. 0 * PageSize = 0
    BY MirrorAssumption DEF MirrorAssumption
  <2>2. Len(<<>>) = 0 /\ DOMAIN sync'.read = {} /\ DOMAIN recent \subseteq Nat \ {0}
    BY <1>1, LenProperties DEF MirrorIInv, MirrorTypes
  <2> QED BY <1>1, <2>1, <2>2 DEF ReadFits, RowsAreTrue
<1>4. TodoFits' /\ FoundFits'
  BY <1>1 DEF TodoFits, FoundFits
<1>5. MirrorInv'
  BY <1>1 DEF MirrorIInv, MirrorInv, OneRowEach, UntouchedAreMirrored
<1> QED BY <1>2, <1>3, <1>4, <1>5 DEF MirrorIInv

LEMMA UpdatesKeep ==
    ASSUME MirrorIInv, NEW x \in Items, Updates(x)
    PROVE  MirrorIInv'
<1>1. /\ recent' \in Seq(Items)
      /\ \A i, j \in DOMAIN recent' : recent'[i] = recent'[j] => i = j
      /\ \A i \in DOMAIN recent' : recent'[i] # x =>
            \E j \in DOMAIN recent : j <= i /\ recent'[i] = recent[j]
  BY UpdatedList DEF MirrorIInv, Updates
<1>2. closed' \in SUBSET Items /\ \A y \in Items \ {x} : y \in closed' <=> y \in closed
  <2>1. closed' = closed \/ closed' = closed \cup {x} \/ closed' = closed \ {x}
    BY DEF Updates
  <2> QED BY <2>1 DEF MirrorIInv, MirrorTypes
<1>3. \A y \in Items : y # x => Current(y)' = Current(y)
  BY <1>2 DEF Current
<1>4. /\ sync' \in Sync /\ sync'.at = sync.at /\ sync'.page = sync.page /\ sync'.read = sync.read
      /\ sync'.todo = sync.todo /\ sync'.found = sync.found /\ sync'.failed = sync.failed
      /\ sync'.touched = IF sync.at = "idle" THEN {} ELSE sync.touched \cup {x}
  BY DEF Updates, MirrorIInv, MirrorTypes, Sync
<1>5. mirrored' = mirrored
  BY DEF Updates
<1>6. MirrorTypes'
  BY <1>1, <1>2, <1>4, <1>5 DEF MirrorIInv, MirrorTypes
<1>7. DOMAIN recent \subseteq Nat /\ DOMAIN recent' \subseteq Nat /\ \A i \in DOMAIN recent : recent[i] \in Items
  BY <1>1, LenProperties DEF MirrorIInv, MirrorTypes
<1>8. ASSUME NEW rs \in Seq(Row), RowsAreTrue(rs), sync.at # "idle", NEW k \in DOMAIN rs,
             rs[k].item \notin sync'.touched
      PROVE  rs[k] = Current(rs[k].item)'
  <2>1. rs[k].item \in Items
    <3>1. rs \in [1..Len(rs) -> Row] /\ DOMAIN rs = 1..Len(rs)
      BY LenProperties
    <3>2. rs[k] \in Row
      BY <3>1
    <3> QED BY <3>2 DEF Row
  <2>2. rs[k].item # x /\ rs[k].item \notin sync.touched
    BY <1>4, <1>8
  <2>3. rs[k] = Current(rs[k].item)
    BY <1>8, <2>2 DEF RowsAreTrue
  <2> QED BY <1>3, <2>1, <2>2, <2>3
<1>9. sync.read \in Seq(Row) /\ sync.todo \in Seq(Row) /\ sync.page * PageSize \in Nat
  BY MirrorAssumption DEF MirrorIInv, MirrorTypes, Sync, MirrorAssumption
<1>10. ReadFits'
  <2> SUFFICES ASSUME sync.at = "list" PROVE ReadFits'
    BY <1>4 DEF ReadFits
  <2>1. /\ Len(sync.read) = sync.page * PageSize /\ RowsAreTrue(sync.read)
        /\ \A i \in DOMAIN recent : recent[i] \notin sync.touched /\ i <= sync.page * PageSize =>
              \E k \in 1..i : k <= Len(sync.read) /\ sync.read[k] = Current(recent[i])
    BY DEF MirrorIInv, ReadFits
  <2>2. RowsAreTrue(sync.read)'
    BY <1>4, <1>8, <1>9, <2>1 DEF RowsAreTrue
  <2>3. ASSUME NEW i \in DOMAIN recent', recent'[i] \notin sync'.touched, i <= sync.page * PageSize
        PROVE  \E k \in 1..i : k <= Len(sync.read) /\ sync.read[k] = Current(recent[i])'
    <3>1. recent'[i] # x /\ recent'[i] \notin sync.touched
      BY <1>4, <2>3
    <3>2. PICK j \in DOMAIN recent : j <= i /\ recent'[i] = recent[j]
      BY <1>1, <3>1
    <3>3. j <= sync.page * PageSize
      BY <1>7, <1>9, <2>3, <3>2
    <3>4. PICK k \in 1..j : k <= Len(sync.read) /\ sync.read[k] = Current(recent[j])
      BY <2>1, <3>1, <3>2, <3>3
    <3>5. Current(recent[i])' = Current(recent[j])
      BY <1>2, <1>7, <3>1, <3>2 DEF Current
    <3>6. k \in 1..i
      BY <1>7, <3>2
    <3> QED BY <3>4, <3>5, <3>6
  <2>4. sync'.at = "list"
    BY <1>4
  <2> QED BY <1>4, <2>1, <2>2, <2>3 DEF ReadFits
<1>11. ASSUME NEW i \in DOMAIN recent', InReach(i), recent'[i] \notin sync'.touched, sync.at # "idle"
       PROVE  \E j \in DOMAIN recent : /\ InReach(j) /\ recent[j] \notin sync.touched
                                      /\ Current(recent[i])' = Current(recent[j])
  <2>1. recent'[i] # x /\ recent'[i] \notin sync.touched
    BY <1>4, <1>11
  <2>2. PICK j \in DOMAIN recent : j <= i /\ recent'[i] = recent[j]
    BY <1>1, <2>1
  <2>3. InReach(j)
    <3>1. i \in Nat /\ j \in Nat /\ SyncLimit \in Nat /\ MaxPages * PageSize \in Nat
      BY <1>7, MirrorAssumption DEF MirrorAssumption
    <3> QED BY <1>11, <2>2, <3>1 DEF InReach
  <2>4. Current(recent[i])' = Current(recent[j])
    BY <1>2, <1>7, <2>1, <2>2 DEF Current
  <2> QED BY <2>1, <2>2, <2>3, <2>4
<1>12. TodoFits'
  <2> SUFFICES ASSUME sync.at \in {"upsert", "write"} PROVE TodoFits'
    BY <1>4 DEF TodoFits
  <2>1. /\ RowsAreTrue(sync.todo)
        /\ ~sync.failed => \A i \in DOMAIN recent : InReach(i) /\ recent[i] \notin sync.touched =>
              Current(recent[i]) \in Elements(mirrored) \cup Elements(sync.todo)
    BY DEF MirrorIInv, TodoFits
  <2>2. RowsAreTrue(sync.todo)'
    BY <1>4, <1>8, <1>9, <2>1 DEF RowsAreTrue
  <2>3. ASSUME ~sync.failed, NEW i \in DOMAIN recent', InReach(i), recent'[i] \notin sync'.touched
        PROVE  Current(recent[i])' \in Elements(mirrored) \cup Elements(sync.todo)
    BY <1>11, <2>1, <2>3
  <2>4. Elements(mirrored)' = Elements(mirrored) /\ Elements(sync.todo)' = Elements(sync.todo)
    BY <1>4, <1>5
  <2> QED BY <1>4, <2>2, <2>3, <2>4 DEF TodoFits
<1>13. FoundFits'
  BY <1>4, <1>5 DEF MirrorIInv, FoundFits
<1>14. MirrorInv'
  <2>1. OneRowEach'
    BY <1>5 DEF MirrorIInv, MirrorInv, OneRowEach
  <2>2. ASSUME sync.at = "ended", ~sync.failed, NEW i \in DOMAIN recent', InReach(i),
               recent'[i] \notin sync'.touched
        PROVE  Current(recent[i])' \in Elements(mirrored)
    BY <1>11, <2>2 DEF MirrorIInv, MirrorInv, UntouchedAreMirrored, Current
  <2>3. Elements(mirrored)' = Elements(mirrored)
    BY <1>5
  <2>4. UntouchedAreMirrored'
    BY <1>4, <2>2, <2>3 DEF UntouchedAreMirrored, Current
  <2> QED BY <2>1, <2>4 DEF MirrorInv
<1> QED BY <1>6, <1>10, <1>12, <1>13, <1>14 DEF MirrorIInv

PageOf(list, first, u) == SubSeq(list, first + 1, u)
RowsOf(page) == [i \in DOMAIN page |-> [item |-> page[i], closed |-> page[i] \in closed]]
CountOf(first, u) == IF first <= u THEN u - first ELSE 0

\* What a page adds to what was read, and what is read with it.
LEMMA PageIsRead ==
    ASSUME NEW list \in Seq(Items), NEW read \in Seq(Row), NEW first \in Nat, NEW u \in Nat,
           u <= Len(list)
    PROVE  /\ Len(PageOf(list, first, u)) = CountOf(first, u)
           /\ \E both \in Seq(Row) :
                 /\ both = read \o RowsOf(PageOf(list, first, u))
                 /\ Len(both) = Len(read) + CountOf(first, u)
                 /\ \A k \in 1..Len(read) : both[k] = read[k]
                 /\ \A i \in 1..CountOf(first, u) :
                       first + i \in DOMAIN list /\ both[Len(read) + i] = Current(list[first + i])
<1> DEFINE page == SubSeq(list, first + 1, u)
           n == IF first <= u THEN u - first ELSE 0
           rs == [i \in DOMAIN page |-> [item |-> page[i], closed |-> page[i] \in closed]]
           m == Len(read)
<1>1. Len(list) \in Nat /\ DOMAIN list = 1..Len(list) /\ \A i \in 1..Len(list) : list[i] \in Items
  BY LenProperties
<1>2. n \in Nat /\ \A i \in 1..n : first + i \in 1..Len(list)
  BY <1>1
<1>3. Len(page) = n /\ DOMAIN page = 1..n /\ \A i \in 1..n : page[i] = list[first + i] /\ page[i] \in Items
  <2>1. page = [i \in 1..n |-> list[first + i]]
    <3>1. page = [i \in 1..(IF first + 1 <= u THEN u - (first + 1) + 1 ELSE 0) |-> list[i + (first + 1) - 1]]
      BY <1>1
    <3>2. (IF first + 1 <= u THEN u - (first + 1) + 1 ELSE 0) = n
      OBVIOUS
    <3>3. \A i \in 1..n : i + (first + 1) - 1 = first + i
      BY <1>2
    <3> QED BY <3>1, <3>2, <3>3
  <2>2. page \in Seq(Items)
    BY <1>1, <1>2, <2>1
  <2> HIDE DEF page, n
  <2> QED BY <1>1, <1>2, <2>1, <2>2, LenProperties
<1> HIDE DEF page
<1>4. rs \in Seq(Row) /\ Len(rs) = n /\ \A i \in 1..n : rs[i] = Current(list[first + i])
  <2>1. \A i \in 1..n : [item |-> page[i], closed |-> page[i] \in closed] \in Row
    BY <1>3 DEF Row
  <2> HIDE DEF n, Row
  <2>2. rs = [i \in 1..n |-> [item |-> page[i], closed |-> page[i] \in closed]]
    BY <1>3
  <2>3. rs \in Seq(Row) /\ Len(rs) = n
    BY <1>2, <2>1, <2>2
  <2>4. \A i \in 1..n : rs[i] = Current(list[first + i])
    BY <1>3, <2>2 DEF Current
  <2> QED BY <2>3, <2>4
<1>5. m \in Nat
  BY LenProperties
<1> HIDE DEF rs, n, m, Row
<1>6. /\ read \o rs \in Seq(Row) /\ Len(read \o rs) = Len(read) + Len(rs)
      /\ \A k \in 1..(Len(read) + Len(rs)) :
            (read \o rs)[k] = IF k <= Len(read) THEN read[k] ELSE rs[k - Len(read)]
  BY <1>4, ConcatProperties, Zenon
<1>7. PICK both : both = read \o rs
  BY Zenon
<1>8. /\ both \in Seq(Row) /\ Len(both) = m + n
      /\ \A k \in 1..(m + n) : both[k] = IF k <= m THEN read[k] ELSE rs[k - m]
  BY <1>4, <1>6, <1>7, Zenon DEF m
<1>9. \A k \in 1..m : both[k] = read[k]
  BY <1>2, <1>5, <1>8
<1>10. ASSUME NEW i \in 1..n PROVE both[m + i] = Current(list[first + i])
  <2>1. m + i \in 1..(m + n) /\ ~(m + i <= m) /\ m + i - m = i
    BY <1>2, <1>5
  <2>2. both[m + i] = rs[i]
    <3>1. PICK k : k = m + i
      OBVIOUS
    <3>2. k \in 1..(m + n) /\ ~(k <= m) /\ k - m = i
      BY <1>2, <1>5, <2>1, <3>1
    <3>3. both[k] = rs[k - m]
      BY <1>8, <3>2
    <3> QED BY <3>1, <3>2, <3>3
  <2> QED BY <1>4, <2>2
<1>11. /\ Len(page) = n /\ both \in Seq(Row) /\ Len(both) = m + n
       /\ \A k \in 1..m : both[k] = read[k]
       /\ \A i \in 1..n : first + i \in DOMAIN list /\ both[m + i] = Current(list[first + i])
  BY <1>1, <1>2, <1>3, <1>8, <1>9, <1>10
<1> QED BY <1>7, <1>11, Zenon DEF page, n, rs, m, PageOf, RowsOf, CountOf

LEMMA ReadsPageKeeps ==
    ASSUME MirrorIInv, ReadsPage
    PROVE  MirrorIInv'
<1> DEFINE first == sync.page * PageSize
           u == Upto(first + PageSize, Len(recent))
           page == PageOf(recent, first, u)
           n == CountOf(first, u)
<1> USE DEF Listed
<1>1. sync.at = "list" /\ sync \in Sync /\ UNCHANGED <<recent, closed, updates, mirrored>>
  BY DEF ReadsPage, Syncs, MirrorIInv, MirrorTypes
<1>2. /\ sync.page \in Nat /\ PageSize \in Nat \ {0} /\ first \in Nat
      /\ SyncLimit \in Nat /\ Len(recent) \in Nat /\ MaxPages \in Nat
  BY <1>1, LenProperties, MirrorAssumption DEF MirrorAssumption, Sync, MirrorIInv, MirrorTypes
<1>3. /\ recent \in Seq(Items) /\ DOMAIN recent = 1..Len(recent)
      /\ sync.read \in Seq(Row) /\ Len(sync.read) = first /\ RowsAreTrue(sync.read)
      /\ \A i \in DOMAIN recent : recent[i] \notin sync.touched /\ i <= first =>
            \E k \in 1..i : k <= Len(sync.read) /\ sync.read[k] = Current(recent[i])
  BY <1>1, LenProperties DEF MirrorIInv, MirrorTypes, ReadFits, Sync
<1> HIDE DEF first
<1>4. u \in Nat /\ u <= Len(recent) /\ u <= first + PageSize /\ (u = Len(recent) \/ u = first + PageSize)
  BY <1>2 DEF Upto
<1>5. n \in Nat
  BY <1>2, <1>4 DEF CountOf
<1> HIDE DEF u
<1>6. /\ Len(page) = n
      /\ \E both \in Seq(Row) :
            /\ both = sync.read \o RowsOf(page)
            /\ Len(both) = Len(sync.read) + n
            /\ \A k \in 1..Len(sync.read) : both[k] = sync.read[k]
            /\ \A i \in 1..n : /\ first + i \in DOMAIN recent
                               /\ both[Len(sync.read) + i] = Current(recent[first + i])
  <2>1. recent \in Seq(Items) /\ sync.read \in Seq(Row) /\ first \in Nat /\ u \in Nat /\ u <= Len(recent)
    BY <1>2, <1>3, <1>4
  <2> HIDE DEF Row
  <2> QED BY <2>1, PageIsRead
<1>60. PICK both \in Seq(Row) :
          /\ both = sync.read \o RowsOf(page)
          /\ Len(both) = Len(sync.read) + n
          /\ \A k \in 1..Len(sync.read) : both[k] = sync.read[k]
          /\ \A i \in 1..n : /\ first + i \in DOMAIN recent
                             /\ both[Len(sync.read) + i] = Current(recent[first + i])
  BY <1>6, Zenon
<1>7. /\ Len(page) = n /\ both \in Seq(Row) /\ Len(both) = first + n
      /\ \A k \in 1..first : both[k] = sync.read[k]
      /\ \A i \in 1..n : first + i \in DOMAIN recent /\ both[first + i] = Current(recent[first + i])
  <2>1. Len(sync.read) = first
    BY <1>3
  <2> HIDE DEF Row, n, page
  <2> QED BY <1>6, <1>60, <2>1
<1>8. \/ /\ Len(page) < PageSize \/ Len(both) >= SyncLimit \/ sync.page + 1 = MaxPages
         /\ sync' = [sync EXCEPT !.at = "upsert", !.read = <<>>, !.page = 0,
                                 !.todo = SubSeq(both, 1, Upto(SyncLimit, Len(both)))]
      \/ /\ ~(Len(page) < PageSize)
         /\ sync' = [sync EXCEPT !.read = both, !.page = @ + 1]
  BY <1>60, Zenon DEF ReadsPage, Syncs, first, u, PageOf, RowsOf
<1> HIDE DEF page, n
<1>9. DOMAIN both = 1..(first + n)
  BY <1>7, LenProperties
<1>10. RowsAreTrue(both)
  <2> SUFFICES ASSUME NEW k \in 1..(first + n), both[k].item \notin sync.touched
               PROVE  both[k] = Current(both[k].item)
    BY <1>9 DEF RowsAreTrue
  <2>1. CASE k <= first
    <3>1. k \in 1..first /\ both[k] = sync.read[k] /\ k \in DOMAIN sync.read
      BY <1>2, <1>3, <1>5, <1>7, <2>1, LenProperties
    <3> QED BY <1>3, <3>1 DEF RowsAreTrue
  <2>2. CASE ~(k <= first)
    <3>1. k - first \in 1..n /\ first + (k - first) = k
      BY <1>2, <1>5, <2>2
    <3>2. both[k] = Current(recent[k])
      BY <1>7, <3>1
    <3> QED BY <3>2 DEF Current
  <2> QED BY <2>1, <2>2
<1>11. ASSUME NEW i \in DOMAIN recent, recent[i] \notin sync.touched, i <= u
       PROVE  \E k \in 1..i : k <= Len(both) /\ both[k] = Current(recent[i])
  <2>1. CASE i <= first
    <3>1. PICK k \in 1..i : k <= Len(sync.read) /\ sync.read[k] = Current(recent[i])
      BY <1>3, <1>11, <2>1
    <3>2. k \in 1..first /\ k <= first + n
      BY <1>2, <1>3, <1>5, <3>1
    <3> QED BY <1>7, <3>1, <3>2
  <2>2. CASE ~(i <= first)
    <3>2. i \in 1..Len(recent)
      BY <1>3
    <3>3. first <= u
      BY <1>2, <1>4, <1>11, <2>2, <3>2
    <3>0. i \in 1..Len(recent) /\ n = u - first
      BY <3>2, <3>3 DEF n, CountOf
    <3>1. i - first \in 1..n /\ first + (i - first) = i /\ i <= first + n /\ i \in 1..i
      BY <1>2, <1>4, <1>11, <2>2, <3>0
    <3>4. both[i] = Current(recent[i])
      BY <1>7, <3>1
    <3> QED BY <1>7, <3>1, <3>4
  <2> QED BY <2>1, <2>2
<1>12. UNCHANGED mirrored /\ MirrorInv
  BY <1>1 DEF MirrorIInv
<1>13. CASE /\ Len(page) < PageSize \/ Len(both) >= SyncLimit \/ sync.page + 1 = MaxPages
            /\ sync' = [sync EXCEPT !.at = "upsert", !.read = <<>>, !.page = 0,
                                    !.todo = SubSeq(both, 1, Upto(SyncLimit, Len(both)))]
  <2> DEFINE len == Upto(SyncLimit, Len(both))
             todo == SubSeq(both, 1, len)
  <2>1. len \in Nat /\ len <= Len(both) /\ (len = SyncLimit \/ len = Len(both))
    BY <1>2, <1>5, <1>7 DEF Upto
  <2> HIDE DEF len
  <2>2. todo \in Seq(Row) /\ DOMAIN todo = 1..len /\ \A k \in 1..len : todo[k] = both[k]
    <3>1. \A k \in 1..len : k \in 1..Len(both) /\ both[k] \in Row
      BY <1>2, <1>5, <1>7, <2>1, LenProperties
    <3>2. todo = [k \in 1..len |-> both[k]]
      BY <2>1, <3>1
    <3> HIDE DEF todo, Row
    <3> QED BY <2>1, <3>1, <3>2
  <2> HIDE DEF todo
  <2>3. /\ sync' \in Sync /\ sync'.at = "upsert" /\ sync'.todo = todo /\ sync'.failed = sync.failed
        /\ sync'.touched = sync.touched
    <3>1. <<>> \in Seq(Row)
      OBVIOUS
    <3>2. sync' = [sync EXCEPT !.at = "upsert", !.read = <<>>, !.page = 0, !.todo = todo]
      BY <1>13 DEF todo, len
    <3> HIDE DEF Row
    <3> QED BY <1>1, <2>2, <3>1, <3>2 DEF Sync
  <2>4. MirrorTypes'
    BY <1>1, <2>3 DEF MirrorIInv, MirrorTypes
  <2>5. ASSUME NEW i \in DOMAIN recent, InReach(i) PROVE i <= u
    <3>1. i \in Nat /\ i <= Len(recent) /\ i <= SyncLimit /\ i <= MaxPages * PageSize
      BY <1>3, <2>5 DEF InReach
    <3>2. CASE u = Len(recent)
      BY <3>1, <3>2
    <3>3. CASE u = first + PageSize
      <4>1. n = PageSize
        BY <1>2, <3>3 DEF n, CountOf
      <4>2. CASE Len(both) >= SyncLimit
        BY <1>2, <1>7, <3>1, <3>3, <4>1, <4>2
      <4>3. CASE sync.page + 1 = MaxPages
        <5>1. MaxPages * PageSize = first + PageSize
          BY <1>2, <4>3 DEF first
        <5> QED BY <3>1, <3>3, <5>1
      <4> QED BY <1>2, <1>7, <1>13, <4>1, <4>2, <4>3
    <3> QED BY <1>4, <3>2, <3>3
  <2>6. RowsAreTrue(sync.todo)'
    <3>1. \A k \in 1..len : k \in DOMAIN both
      BY <1>7, <1>9, <2>1
    <3>2. \A x : Current(x)' = Current(x)
      BY <1>1 DEF Current
    <3> QED BY <1>10, <2>2, <2>3, <3>1, <3>2 DEF RowsAreTrue
  <2>7. ASSUME NEW i \in DOMAIN recent, InReach(i), recent[i] \notin sync.touched
        PROVE  Current(recent[i]) \in Elements(todo)
    <3>1. PICK k \in 1..i : k <= Len(both) /\ both[k] = Current(recent[i])
      BY <1>11, <2>5, <2>7
    <3>2. i \in Nat /\ i <= SyncLimit
      BY <1>3, <2>7 DEF InReach
    <3>3. k \in 1..len
      BY <1>2, <2>1, <3>1, <3>2
    <3> QED BY <2>2, <3>1, <3>3 DEF Elements
  <2>8. TodoFits'
    <3>1. recent' = recent /\ Elements(mirrored)' = Elements(mirrored)
          /\ Elements(sync.todo)' = Elements(todo) /\ \A x : Current(x)' = Current(x)
      BY <1>1, <2>3 DEF Current
    <3> QED BY <2>3, <2>6, <2>7, <3>1 DEF TodoFits
  <2>9. ReadFits' /\ FoundFits' /\ MirrorInv'
    BY <1>1, <1>12, <2>3 DEF ReadFits, FoundFits, MirrorInv, OneRowEach, UntouchedAreMirrored
  <2> QED BY <2>4, <2>8, <2>9 DEF MirrorIInv
<1>14. CASE ~(Len(page) < PageSize) /\ sync' = [sync EXCEPT !.read = both, !.page = @ + 1]
  <2>1. /\ sync' \in Sync /\ sync'.at = "list" /\ sync'.read = both /\ sync'.page = sync.page + 1
        /\ sync'.touched = sync.touched
    <3>1. sync.page + 1 \in Nat
      BY <1>2
    <3> HIDE DEF Row
    <3> QED BY <1>1, <1>7, <1>14, <3>1 DEF Sync
  <2>2. u = first + PageSize /\ n = PageSize
    <3>1. n >= PageSize
      BY <1>2, <1>5, <1>7, <1>14
    <3>2. first <= u /\ n = u - first
      BY <1>2, <1>4, <3>1 DEF n, CountOf
    <3> QED BY <1>2, <1>4, <3>1, <3>2
  <2>3. (sync.page + 1) * PageSize = first + PageSize
    BY <1>2 DEF first
  <2>4. MirrorTypes'
    BY <1>1, <2>1 DEF MirrorIInv, MirrorTypes
  <2>5. RowsAreTrue(sync.read)'
    <3>1. \A x : Current(x)' = Current(x)
      BY <1>1 DEF Current
    <3> QED BY <1>10, <2>1, <3>1 DEF RowsAreTrue
  <2>6. ReadFits'
    <3>1. \A x : Current(x)' = Current(x)
      BY <1>1 DEF Current
    <3>2. Len(both) = sync'.page * PageSize /\ u = sync'.page * PageSize
      BY <1>7, <2>1, <2>2, <2>3
    <3>3. \A i \in DOMAIN recent : recent[i] \notin sync.touched /\ i <= u =>
             \E k \in 1..i : k <= Len(both) /\ both[k] = Current(recent[i])
      BY <1>11
    <3> QED BY <1>1, <2>1, <2>5, <3>1, <3>2, <3>3 DEF ReadFits
  <2>7. TodoFits' /\ FoundFits' /\ MirrorInv'
    BY <1>1, <1>12, <2>1 DEF TodoFits, FoundFits, MirrorInv, OneRowEach, UntouchedAreMirrored
  <2> QED BY <2>4, <2>6, <2>7 DEF MirrorIInv
<1> QED BY <1>8, <1>13, <1>14

\* What is left of a list of rows after its first.
LEMMA RestOfRows ==
    ASSUME NEW rs \in Seq(Row), rs # <<>>
    PROVE  /\ Head(rs) \in Row /\ Head(rs) = rs[1] /\ 1 \in DOMAIN rs /\ Tail(rs) \in Seq(Row)
           /\ \A k \in DOMAIN Tail(rs) : k + 1 \in DOMAIN rs /\ Tail(rs)[k] = rs[k + 1]
           /\ Elements(rs) \subseteq {Head(rs)} \cup Elements(Tail(rs))
<1> HIDE DEF Row
<1> DEFINE n == Len(rs)
           t == Tail(rs)
<1>1. /\ n \in Nat \ {0} /\ DOMAIN rs = 1..n /\ Head(rs) = rs[1] /\ Head(rs) \in Row
      /\ t \in Seq(Row) /\ Len(t) = n - 1 /\ \A k \in 1..(n - 1) : t[k] = rs[k + 1]
  BY LenProperties, HeadTailProperties
<1>2. DOMAIN t = 1..(n - 1)
  BY <1>1, LenProperties
<1> HIDE DEF n, t
<1>3. \A k \in 1..(n - 1) : k + 1 \in 1..n
  BY <1>1
<1>4. ASSUME NEW r \in Elements(rs) PROVE r = rs[1] \/ r \in Elements(t)
  <2>1. PICK k \in 1..n : r = rs[k]
    BY <1>1 DEF Elements
  <2>2. CASE k # 1
    <3>1. k - 1 \in 1..(n - 1) /\ (k - 1) + 1 = k
      BY <1>1, <2>2
    <3>2. t[k - 1] = rs[k]
      BY <1>1, <3>1
    <3> QED BY <1>2, <2>1, <3>1, <3>2 DEF Elements
  <2> QED BY <2>1, <2>2
<1>5. 1 \in 1..n
  BY <1>1
<1> QED BY <1>1, <1>2, <1>3, <1>4, <1>5 DEF t

LEMMA FindsRowKeeps ==
    ASSUME MirrorIInv, FindsRow
    PROVE  MirrorIInv'
<1> DEFINE x == Head(sync.todo).item
           hits == {i \in DOMAIN mirrored : mirrored[i].item = x}
           f == IF hits = {} THEN 0 ELSE CHOOSE i \in hits : TRUE
<1>1. /\ sync.at = "upsert" /\ sync.todo # <<>> /\ sync \in Sync
      /\ sync' = [sync EXCEPT !.at = "write", !.found = f]
      /\ UNCHANGED <<recent, closed, updates, mirrored>>
  BY DEF FindsRow, Syncs, MirrorIInv, MirrorTypes
<1>2. IF hits = {} THEN f = 0 ELSE f \in hits
  <2>1. CASE hits # {}
    <3>1. \E i \in hits : TRUE
      BY <2>1
    <3>2. (CHOOSE i \in hits : TRUE) \in hits
      BY <3>1, Zenon
    <3> QED BY <2>1, <3>2
  <2> QED BY <2>1
<1>3. DOMAIN mirrored \subseteq Nat \ {0}
  BY LenProperties DEF MirrorIInv, MirrorTypes
<1>4. /\ f \in Nat
      /\ IF f = 0 THEN \A i \in DOMAIN mirrored : mirrored[i].item # x
         ELSE f \in DOMAIN mirrored /\ mirrored[f].item = x
  BY <1>2, <1>3
<1> HIDE DEF f
<1>5. /\ sync' \in Sync /\ sync'.at = "write" /\ sync'.todo = sync.todo /\ sync'.found = f
      /\ sync'.failed = sync.failed /\ sync'.touched = sync.touched
  BY <1>1, <1>4 DEF Sync
<1>6. MirrorTypes'
  BY <1>1, <1>5 DEF MirrorIInv, MirrorTypes
<1>7. ReadFits' /\ MirrorInv'
  BY <1>1, <1>5 DEF ReadFits, MirrorIInv, MirrorInv, OneRowEach, UntouchedAreMirrored
<1>8. TodoFits'
  BY <1>1, <1>5 DEF MirrorIInv, TodoFits, RowsAreTrue, Elements, Current
<1>9. FoundFits'
  BY <1>1, <1>4, <1>5 DEF FoundFits
<1> QED BY <1>6, <1>7, <1>8, <1>9 DEF MirrorIInv

\* A row is written over the row of its item, or as the first of its item.
LEMMA RowIsWritten ==
    ASSUME MirrorIInv, sync.at = "write", NEW new, new = Written
    PROVE  /\ sync.todo # <<>> /\ new \in Seq(Row)
           /\ \A i, j \in DOMAIN new : new[i].item = new[j].item => i = j
           /\ Head(sync.todo) \in Elements(new)
           /\ \A r \in Elements(mirrored) : r \in Elements(new) \/ r.item = Head(sync.todo).item
<1> DEFINE h == Head(sync.todo)
           m == Len(mirrored)
           f == sync.found
<1>1. /\ sync.todo # <<>> /\ h \in Row
      /\ IF f = 0 THEN \A i \in DOMAIN mirrored : mirrored[i].item # h.item
         ELSE f \in DOMAIN mirrored /\ mirrored[f].item = h.item
  BY RestOfRows DEF MirrorIInv, FoundFits, MirrorTypes, Sync
<1>2. /\ mirrored \in Seq(Row) /\ m \in Nat /\ DOMAIN mirrored = 1..m
      /\ \A i \in 1..m : mirrored[i] \in Row
      /\ \A i, j \in 1..m : mirrored[i].item = mirrored[j].item => i = j
  BY LenProperties DEF MirrorIInv, MirrorTypes, MirrorInv, OneRowEach
<1>3. new = IF f = 0 THEN Append(mirrored, h) ELSE [mirrored EXCEPT ![f] = h]
  BY DEF Written
<1> HIDE DEF h, m, f, Row
<1>4. CASE f = 0
  <2>1. /\ new \in Seq(Row) /\ Len(new) = m + 1
        /\ \A i \in 1..m : new[i] = mirrored[i]
        /\ new[m + 1] = h
    BY <1>1, <1>2, <1>3, <1>4, AppendProperties DEF m
  <2>2. DOMAIN new = 1..(m + 1) /\ m + 1 \in 1..(m + 1)
    BY <1>2, <2>1, LenProperties
  <2>3. \A i \in 1..(m + 1) : i \in 1..m \/ i = m + 1
    BY <1>2
  <2>4. \A i \in 1..m : i \in 1..(m + 1) /\ mirrored[i].item # h.item
    BY <1>1, <1>2, <1>4
  <2>5. ASSUME NEW i \in 1..(m + 1), NEW j \in 1..(m + 1), new[i].item = new[j].item PROVE i = j
    BY <1>2, <2>1, <2>3, <2>4, <2>5
  <2>6. \A r \in Elements(mirrored) : r \in Elements(new)
    BY <1>2, <2>1, <2>2, <2>4 DEF Elements
  <2>7. h \in Elements(new)
    BY <2>1, <2>2 DEF Elements
  <2> QED BY <1>1, <2>1, <2>2, <2>5, <2>6, <2>7 DEF h
<1>5. CASE f # 0
  <2>1. /\ f \in 1..m /\ mirrored[f].item = h.item /\ new = [mirrored EXCEPT ![f] = h]
    BY <1>1, <1>2, <1>3, <1>5
  <2>2. DOMAIN new = 1..m /\ new[f] = h /\ \A i \in 1..m : i # f => new[i] = mirrored[i]
    BY <1>2, <2>1
  <2>3. new \in Seq(Row)
    BY <1>1, <1>2, <2>1, ExceptSeq
  <2>4. \A i \in 1..m : new[i].item = mirrored[i].item
    BY <2>1, <2>2
  <2>5. \A i, j \in 1..m : new[i].item = new[j].item => i = j
    BY <1>2, <2>4
  <2>6. \A r \in Elements(mirrored) : r \in Elements(new) \/ r.item = h.item
    BY <1>2, <2>1, <2>2 DEF Elements
  <2>7. h \in Elements(new)
    BY <2>1, <2>2 DEF Elements
  <2> QED BY <1>1, <2>2, <2>3, <2>5, <2>6, <2>7 DEF h
<1> QED BY <1>4, <1>5

LEMMA WriteKeeps ==
    ASSUME MirrorIInv, WritesRow \/ UpsertFails
    PROVE  MirrorIInv'
<1> DEFINE h == Head(sync.todo)
           t == Tail(sync.todo)
<1>1. /\ sync.at \in {"upsert", "write"} /\ sync \in Sync
      /\ UNCHANGED <<recent, closed, updates>>
      /\ \/ mirrored' = mirrored /\ UpsertFails
         \/ sync.at = "write" /\ mirrored' = Written
  BY DEF WritesRow, UpsertFails, MirrorIInv, MirrorTypes
<1>2. sync.todo # <<>>
  BY RowIsWritten DEF WritesRow, UpsertFails
<1>3. /\ h \in Row /\ h = sync.todo[1] /\ 1 \in DOMAIN sync.todo /\ t \in Seq(Row)
      /\ \A k \in DOMAIN t : k + 1 \in DOMAIN sync.todo /\ t[k] = sync.todo[k + 1]
      /\ Elements(sync.todo) \subseteq {h} \cup Elements(t)
  BY <1>1, <1>2, RestOfRows DEF Sync
<1>4. /\ sync' \in Sync /\ sync'.at = "upsert" /\ sync'.todo = t /\ sync'.touched = sync.touched
      /\ sync'.failed = IF WritesRow THEN sync.failed ELSE TRUE
  <2> HIDE DEF Row, t
  <2>1. CASE WritesRow
    <3>1. sync' = [sync EXCEPT !.at = "upsert", !.todo = t, !.found = 0]
      BY <2>1 DEF WritesRow, t
    <3> QED BY <1>1, <1>3, <2>1, <3>1 DEF Sync
  <2>2. CASE ~WritesRow
    <3>1. sync' = [sync EXCEPT !.at = "upsert", !.todo = t, !.found = 0, !.failed = TRUE]
      BY <2>2 DEF UpsertFails, t
    <3> QED BY <1>1, <1>3, <2>2, <3>1 DEF Sync
  <2> QED BY <2>1, <2>2
<1> HIDE DEF Row
<1>5. /\ mirrored' \in Seq(Row)
      /\ \A i, j \in DOMAIN mirrored' : mirrored'[i].item = mirrored'[j].item => i = j
  <2>1. CASE mirrored' = mirrored
    BY <2>1 DEF MirrorIInv, MirrorTypes, MirrorInv, OneRowEach
  <2>2. CASE sync.at = "write" /\ mirrored' = Written
    BY <2>2, RowIsWritten
  <2> QED BY <1>1, <2>1, <2>2
<1>6. MirrorTypes'
  BY <1>1, <1>4, <1>5 DEF MirrorIInv, MirrorTypes
<1>7. RowsAreTrue(sync.todo) /\ \A x : Current(x)' = Current(x)
  BY <1>1 DEF MirrorIInv, TodoFits, Current
<1>8. RowsAreTrue(sync.todo)'
  BY <1>3, <1>4, <1>7 DEF RowsAreTrue
<1>9. ASSUME ~sync'.failed, NEW i \in DOMAIN recent, InReach(i), recent[i] \notin sync'.touched
      PROVE  Current(recent[i]) \in Elements(mirrored)' \cup Elements(t)
  <2>1. WritesRow /\ ~sync.failed /\ sync.at = "write" /\ mirrored' = Written
    BY <1>4, <1>9 DEF WritesRow
  <2> DEFINE x == recent[i]
  <2>2. x \notin sync.touched /\ Current(x) \in Elements(mirrored) \cup Elements(sync.todo)
    BY <1>1, <1>4, <1>9, <2>1 DEF MirrorIInv, TodoFits, Elements
  <2>3. h \in Elements(mirrored)'
        /\ \A r \in Elements(mirrored) : r \in Elements(mirrored)' \/ r.item = h.item
    BY <2>1, RowIsWritten DEF Elements
  <2> HIDE DEF x
  <2>4. Current(x).item = x
    BY DEF Current
  <2>5. h.item = x => h = Current(x)
    BY <1>3, <1>7, <2>2 DEF RowsAreTrue
  <2> QED BY <1>3, <2>2, <2>3, <2>4, <2>5 DEF x
<1>10. TodoFits'
  BY <1>1, <1>4, <1>7, <1>8, <1>9 DEF TodoFits, Elements
<1>11. ReadFits' /\ FoundFits'
  BY <1>4 DEF ReadFits, FoundFits
<1>12. MirrorInv'
  BY <1>4, <1>5 DEF MirrorInv, OneRowEach, UntouchedAreMirrored
<1> QED BY <1>6, <1>10, <1>11, <1>12 DEF MirrorIInv

LEMMA SyncEndsKeeps ==
    ASSUME MirrorIInv, SyncEnds
    PROVE  MirrorIInv'
<1>1. /\ sync.at = "upsert" /\ sync.todo = <<>> /\ sync \in Sync
      /\ UNCHANGED <<recent, closed, updates, mirrored>>
  BY DEF SyncEnds, Syncs, MirrorIInv, MirrorTypes
<1>2. /\ sync' \in Sync /\ sync'.at = "ended" /\ sync'.failed = sync.failed
      /\ sync'.touched = sync.touched
  <2>1. <<>> \in Seq(Row)
    OBVIOUS
  <2> HIDE DEF Row
  <2> QED BY <1>1, <2>1 DEF SyncEnds, Syncs, NoSync, Sync
<1>3. MirrorTypes'
  BY <1>1, <1>2 DEF MirrorIInv, MirrorTypes
<1>4. ReadFits' /\ TodoFits' /\ FoundFits'
  BY <1>2 DEF ReadFits, TodoFits, FoundFits
<1>5. Elements(sync.todo) = {}
  BY <1>1 DEF Elements
<1>6. MirrorInv'
  <2>1. ASSUME ~sync.failed, NEW i \in DOMAIN recent, InReach(i), recent[i] \notin sync.touched
        PROVE  Current(recent[i]) \in Elements(mirrored)
    BY <1>1, <1>5, <2>1 DEF MirrorIInv, TodoFits
  <2> QED BY <1>1, <1>2, <2>1 DEF MirrorIInv, MirrorInv, OneRowEach, UntouchedAreMirrored, Current
<1> QED BY <1>3, <1>4, <1>6 DEF MirrorIInv

LEMMA MirrorStep == MirrorIInv /\ [MirrorNext]_mirrorVars => MirrorIInv'
<1> SUFFICES ASSUME MirrorIInv, [MirrorNext]_mirrorVars PROVE MirrorIInv'
  OBVIOUS
<1>1. CASE UNCHANGED mirrorVars
  <2>1. UNCHANGED <<recent, closed, updates, sync, mirrored>>
    BY <1>1 DEF mirrorVars
  <2>2. MirrorTypes'
    BY <2>1 DEF MirrorIInv, MirrorTypes
  <2>3. ReadFits'
    BY <2>1 DEF MirrorIInv, ReadFits, RowsAreTrue, Current
  <2>4. TodoFits'
    BY <2>1 DEF MirrorIInv, TodoFits, RowsAreTrue, Current, Elements
  <2>5. FoundFits' /\ MirrorInv'
    BY <2>1 DEF MirrorIInv, FoundFits, MirrorInv, OneRowEach, UntouchedAreMirrored, Elements
  <2> QED BY <2>2, <2>3, <2>4, <2>5 DEF MirrorIInv
<1>2. ASSUME NEW x \in Items, Updates(x) PROVE MirrorIInv'
  BY <1>2, UpdatesKeep
<1>3. CASE SyncStarts \/ SyncDies
  BY <1>3, RunsAnew DEF SyncStarts, SyncDies, Syncs
<1>4. CASE ReadsPage
  BY <1>4, ReadsPageKeeps
<1>5. CASE FindsRow
  BY <1>5, FindsRowKeeps
<1>6. CASE WritesRow \/ UpsertFails
  BY <1>6, WriteKeeps
<1>7. CASE SyncEnds
  BY <1>7, SyncEndsKeeps
<1> QED BY <1>1, <1>2, <1>3, <1>4, <1>5, <1>6, <1>7 DEF MirrorNext

-----------------------------------------------------------------------------
(* The list of the provider connections.                                   *)

LoadSet == [n : Nat, got : {NotServed} \cup Nat]

ListTypes ==
    /\ row \in Nat /\ keys \in Nat /\ asked \in Nat /\ newest \in Nat
    /\ listed \in {Loading, Broken} \cup Nat
    /\ loads \in SUBSET LoadSet

\* The loads are told apart by their numbers, none of them answered; the last
\* one asked for was answered last or is under way.
LoadsFit ==
    /\ newest <= asked
    /\ \A l \in loads : l.n <= asked /\ l.n # newest
    /\ \A l, m \in loads : l.n = m.n => l = m
    /\ newest = asked \/ \E l \in loads : l.n = asked

\* Once every write has been heard of, the last load asked for brings the row.
LastIsFresh ==
    saving # "written" /\ deleting # "deleted" /\ ~unheard =>
        /\ newest = asked /\ listed \in Nat /\ ~overtaken => listed = row
        /\ \A l \in loads : l.n = asked => l.got = NotServed \/ l.got = row

ListIInv == ListTypes /\ LoadsFit /\ LastIsFresh

LEMMA ListStart ==
    ASSUME ProviderInit PROVE ListIInv
<1>1. row \in Nat /\ loads = {[n |-> 1, got |-> NotServed]} /\ asked = 1 /\ newest = 0
      /\ keys \in Nat /\ listed = Loading
  BY DEF ProviderInit
<1>2. ListTypes
  BY <1>1 DEF ListTypes, LoadSet, NotServed, Loading
<1>3. LoadsFit
  BY <1>1 DEF LoadsFit
<1>4. LastIsFresh
  BY <1>1 DEF LastIsFresh
<1> QED BY <1>2, <1>3, <1>4 DEF ListIInv

LEMMA ListIsSafe ==
    ASSUME ListIInv PROVE ListIsFresh
BY DEF ListIInv, ListTypes, LoadsFit, LastIsFresh, ListIsFresh, Loading, Broken

\* A list that goes while a load of its own is asked for.
LEMMA LoadsAgain ==
    ASSUME ListIInv, Loads, UNCHANGED serverVars
    PROVE  ListIInv'
<1> DEFINE l0 == [n |-> asked', got |-> NotServed]
<1>1. /\ asked' = asked + 1 /\ loads' = loads \cup {l0} /\ listed' = Loading
      /\ newest' = newest /\ row' = row /\ keys' = keys
  BY DEF Loads, serverVars, lateVars
<1>2. asked \in Nat /\ newest \in Nat /\ newest <= asked /\ loads \in SUBSET LoadSet
      /\ \A l \in loads : l.n <= asked /\ l.n # newest
  BY DEF ListIInv, ListTypes, LoadsFit
<1>3. l0 \in LoadSet /\ l0.n = asked + 1 /\ l0.got = NotServed
  BY <1>1, <1>2 DEF LoadSet
<1>4. ListTypes'
  BY <1>1, <1>2, <1>3 DEF ListIInv, ListTypes
<1>5. \A l \in loads : l.n \in Nat
  BY <1>2 DEF LoadSet
<1> HIDE DEF l0
<1>6. \A l \in loads : l.n # asked + 1
  BY <1>2, <1>5
<1>7. LoadsFit'
  <2>1. newest' <= asked'
    BY <1>1, <1>2
  <2>2. \A l \in loads' : l.n <= asked' /\ l.n # newest'
    BY <1>1, <1>2, <1>3, <1>5
  <2>3. \A l, m \in loads' : l.n = m.n => l = m
    BY <1>1, <1>3, <1>6 DEF ListIInv, LoadsFit
  <2>4. \E l \in loads' : l.n = asked'
    BY <1>1, <1>3
  <2> QED BY <2>1, <2>2, <2>3, <2>4 DEF LoadsFit
<1>8. LastIsFresh'
  <2>1. newest' # asked'
    BY <1>1, <1>2
  <2>2. \A l \in loads' : l.n = asked' => l.got = NotServed
    BY <1>1, <1>3, <1>6
  <2> QED BY <2>1, <2>2 DEF LastIsFresh
<1> QED BY <1>4, <1>7, <1>8 DEF ListIInv

LEMMA LoadIsServed ==
    ASSUME ListIInv, ServeLoad PROVE ListIInv'
<1>1. PICK l \in loads :
          l.got = NotServed /\ loads' = (loads \ {l}) \cup {[l EXCEPT !.got = row]}
  BY DEF ServeLoad
<1> DEFINE k == [l EXCEPT !.got = row]
<1>2. /\ row' = row /\ keys' = keys /\ listed' = listed /\ asked' = asked /\ newest' = newest
      /\ overtaken' = overtaken /\ unheard' = unheard /\ saving' = saving /\ deleting' = deleting
  BY DEF ServeLoad, serverVars, saveVars, deleteVars
<1>3. l \in LoadSet /\ row \in Nat /\ loads \in SUBSET LoadSet
  BY <1>1 DEF ListIInv, ListTypes
<1>4. k \in LoadSet /\ k.n = l.n /\ k.got = row
  BY <1>3 DEF LoadSet
<1> HIDE DEF k
<1>5. loads' = (loads \ {l}) \cup {k}
  BY <1>1 DEF k
<1>6. ListTypes'
  BY <1>2, <1>3, <1>4, <1>5 DEF ListIInv, ListTypes
<1>7. LoadsFit'
  BY <1>2, <1>4, <1>5, <1>1 DEF ListIInv, LoadsFit
<1>8. LastIsFresh'
  BY <1>2, <1>4, <1>5, <1>1 DEF ListIInv, LastIsFresh
<1> QED BY <1>6, <1>7, <1>8 DEF ListIInv

LEMMA LoadIsAnswered ==
    ASSUME ListIInv, LoadSettles PROVE ListIInv'
<1>1. PICK l \in loads :
          /\ loads' = loads \ {l}
          /\ listed' \in {Broken} \cup ({l.got} \ {NotServed})
          /\ overtaken' = (l.n < newest)
          /\ newest' = IF l.n < newest THEN newest ELSE l.n
  BY DEF LoadSettles
<1>2. /\ row' = row /\ keys' = keys /\ asked' = asked /\ unheard' = unheard
      /\ (saving = "load" \/ saving' = saving) /\ (deleting = "load" \/ deleting' = deleting)
  BY DEF LoadSettles, serverVars
<1>3. /\ row \in Nat /\ asked \in Nat /\ newest \in Nat /\ newest <= asked
      /\ loads \in SUBSET LoadSet /\ l.n \in Nat /\ l.got \in {NotServed} \cup Nat
      /\ l.n <= asked /\ l.n # newest
  BY <1>1 DEF ListIInv, ListTypes, LoadsFit, LoadSet
<1>4. ListTypes'
  <2>1. listed' \in {Loading, Broken} \cup Nat
    BY <1>1, <1>3
  <2>2. newest' \in Nat
    BY <1>1, <1>3
  <2> QED BY <1>1, <1>2, <1>3, <2>1, <2>2 DEF ListIInv, ListTypes
<1>5. LoadsFit'
  <2>1. newest' <= asked'
    BY <1>1, <1>2, <1>3
  <2>2. \A m \in loads' : m.n <= asked' /\ m.n # newest'
    BY <1>1, <1>2 DEF ListIInv, LoadsFit
  <2>3. \A k, m \in loads' : k.n = m.n => k = m
    BY <1>1 DEF ListIInv, LoadsFit
  <2>4. newest' = asked' \/ \E m \in loads' : m.n = asked'
    <3>1. CASE l.n = asked
      BY <3>1, <1>1, <1>2, <1>3
    <3>2. CASE l.n # asked /\ newest = asked
      BY <3>2, <1>1, <1>2, <1>3
    <3>3. CASE l.n # asked /\ newest # asked
      <4>1. PICK m \in loads : m.n = asked
        BY <3>3 DEF ListIInv, LoadsFit
      <4> QED BY <4>1, <3>3, <1>1, <1>2
    <3> QED BY <3>1, <3>2, <3>3
  <2> QED BY <2>1, <2>2, <2>3, <2>4 DEF LoadsFit
<1>6. LastIsFresh'
  <2>1. SUFFICES ASSUME saving' # "written", deleting' # "deleted", ~unheard'
                 PROVE  /\ newest' = asked' /\ listed' \in Nat /\ ~overtaken' => listed' = row'
                        /\ \A m \in loads' : m.n = asked' => m.got = NotServed \/ m.got = row'
    BY DEF LastIsFresh
  <2>2. saving # "written" /\ deleting # "deleted" /\ ~unheard
    BY <2>1, <1>1, <1>2
  <2>3. \A m \in loads : m.n = asked => m.got = NotServed \/ m.got = row
    BY <2>2 DEF ListIInv, LastIsFresh
  <2>4. \A m \in loads' : m.n = asked' => m.got = NotServed \/ m.got = row'
    BY <2>3, <1>1, <1>2
  <2>5. ASSUME newest' = asked', listed' \in Nat, ~overtaken' PROVE listed' = row'
    <3>1. ~(l.n < newest) /\ l.n = asked
      BY <2>5, <1>1, <1>2, <1>3
    <3>2. listed' = l.got /\ l.got # NotServed
      BY <2>5, <1>1 DEF Broken
    <3> QED BY <3>1, <3>2, <2>3, <1>1, <1>2
  <2> QED BY <2>4, <2>5
<1> QED BY <1>4, <1>5, <1>6 DEF ListIInv

\* A step that leaves the list alone, and the row unless a write is then unheard of.
LEMMA ListStays ==
    ASSUME ListIInv, UNCHANGED <<listed, loads, asked, newest, overtaken>>,
           row' \in Nat, keys' \in Nat,
           saving' # "written" /\ deleting' # "deleted" /\ ~unheard' =>
              saving # "written" /\ deleting # "deleted" /\ ~unheard /\ row' = row
    PROVE  ListIInv'
<1>1. ListTypes'
  BY DEF ListIInv, ListTypes
<1>2. LoadsFit'
  BY DEF ListIInv, LoadsFit
<1>3. LastIsFresh'
  BY DEF ListIInv, LastIsFresh
<1> QED BY <1>1, <1>2, <1>3 DEF ListIInv

LEMMA ListStep ==
    ASSUME ListIInv, [ProviderNext]_providerVars PROVE ListIInv'
<1> USE DEF listVars, serverVars, saveVars, deleteVars
<1>0. row \in Nat /\ keys \in Nat
  BY DEF ListIInv, ListTypes
<1>1. CASE UNCHANGED providerVars
  BY <1>1, <1>0, ListStays DEF providerVars
<1>2. CASE ServeLoad
  BY <1>2, LoadIsServed
<1>3. CASE RefreshList
  BY <1>3, LoadsAgain DEF RefreshList
<1>4. CASE SubmitKey \/ AskDelete \/ CancelDelete \/ ConfirmDelete \/ TestKey \/ TestEnds
  <2>1. CASE SubmitKey
    <3>1. UNCHANGED <<listVars, serverVars, deleteVars>> /\ saving' = "sent" /\ saving = "no"
      BY <2>1 DEF SubmitKey
    <3> QED BY <3>1, <1>0, ListStays
  <2>2. CASE AskDelete \/ CancelDelete \/ ConfirmDelete
    <3>1. UNCHANGED <<listVars, serverVars, saveVars>> /\ (deleting' = deleting \/ deleting = "no")
      BY <2>2 DEF AskDelete, CancelDelete, ConfirmDelete
    <3> QED BY <3>1, <1>0, ListStays DEF AskDelete, CancelDelete, ConfirmDelete
  <2>3. CASE TestKey \/ TestEnds
    <3>1. UNCHANGED <<listVars, serverVars, saveVars, deleteVars>>
      BY <2>3 DEF TestKey, TestEnds
    <3> QED BY <3>1, <1>0, ListStays
  <2> QED BY <1>4, <2>1, <2>2, <2>3
<1>5. CASE ServePut
  BY <1>5, <1>0, ListStays DEF ServePut
<1>6. CASE ServeDelete
  BY <1>6, <1>0, ListStays DEF ServeDelete
<1>7. CASE PutAnswered
  BY <1>7, LoadsAgain DEF PutAnswered, SavedThenLoads
<1>8. CASE DeleteAnswered
  BY <1>8, LoadsAgain DEF DeleteAnswered
<1>9. CASE PutFails
  BY <1>9, <1>0, ListStays DEF PutFails, SaveFails
<1>10. CASE DeleteFails
  BY <1>10, <1>0, ListStays DEF DeleteFails
<1>11. CASE LoadSettles
  BY <1>11, LoadIsAnswered
<1>12. CASE LatePut \/ LateDelete
  <2>1. CASE LatePut
    BY <2>1, <1>0, ListStays DEF LatePut
  <2>2. CASE LateDelete
    BY <2>2, <1>0, ListStays DEF LateDelete
  <2> QED BY <1>12, <2>1, <2>2
<1> QED BY <1>1, <1>2, <1>3, <1>4, <1>5, <1>6, <1>7, <1>8, <1>9, <1>10, <1>11, <1>12
        DEF ProviderNext, ProviderSettles

-----------------------------------------------------------------------------
(* The page of a project.                                                  *)

SourceTypes == source \in [LevelSet -> {"none", "api", "empty", "mock"}]

\* A level is loaded after those above it; what came from the API hangs below
\* what came from it.
SourcesFit ==
    /\ stage = "project" => source["project"] = "none" /\ source["workspaces"] = "none"
    /\ stage \in {"project", "workspaces"} => source["workspaces"] = "none" /\ source["windows"] = "none"
    /\ stage \in {"project", "workspaces", "windows"} =>
          source["windows"] = "none" /\ source["messages"] = "none"
    /\ \A l \in LevelSet \ {"project"} : source[l] = "api" => source[Parent(l)] = "api"
    /\ \A l \in LevelSet : source[l] = "mock" => ofMock

PatchSet == [to : Nat, prev : Nat, st : {"sent", "done"}]

\* The API has this name, or had it when it carried out a deletion not yet answered.
ApiHas(n) == apiName = n \/ (leaving = "sent" /\ apiName = NoRow)

\* While no call crossed another: the header shows what the API has, or what the
\* one rename under way will bring it to.
NameFits ==
    /\ name \in Nat /\ given \in Nat /\ patches \in SUBSET PatchSet
    /\ Remote /\ ~crossed =>
          \/ patches = {} /\ ApiHas(name)
          \/ \E p \in patches :
                /\ patches = {p} /\ name = p.to
                /\ IF p.st = "sent" THEN ApiHas(p.prev) ELSE ApiHas(p.to)

RowsFit == ~unseen /\ form # "created" => rowsShown = rows

ProjectIInv == SourceTypes /\ SourcesFit /\ NameFits /\ RowsFit

LEMMA ProjectStart ==
    ASSUME ProjectInit PROVE ProjectIInv
<1>1. SourceTypes
  BY DEF ProjectInit, SourceTypes
<1>2. SourcesFit
  BY DEF ProjectInit, SourcesFit, LevelSet
<1>3. NameFits
  BY DEF ProjectInit, NameFits, ApiHas
<1>4. RowsFit
  BY DEF ProjectInit, RowsFit
<1> QED BY <1>1, <1>2, <1>3, <1>4 DEF ProjectIInv

LEMMA ProjectIsSafe ==
    ASSUME ProjectIInv PROVE ProjectInv
<1>1. /\ \A l \in LevelSet \ {"project"} : source[l] = "api" => source[Parent(l)] = "api"
      /\ \A l \in LevelSet : source[l] = "mock" => ofMock
  BY DEF ProjectIInv, SourcesFit
<1>2. Remote /\ patches = {} /\ leaving = "no" /\ ~crossed => name = apiName
  BY DEF ProjectIInv, NameFits, ApiHas
<1>3. form = NoModal /\ ~unseen => rowsShown = rows
  BY DEF ProjectIInv, RowsFit, NoModal
<1> QED BY <1>1, <1>2, <1>3, Zenon DEF ProjectInv

\* One level more, from the API below what came from it, or from the fixtures of
\* the project, or from neither.
LEMMA LevelIsLoaded ==
    ASSUME SourceTypes, NEW l \in LevelSet, NEW s \in {"none", "api", "empty", "mock"},
           Loaded(l, s),
           \A k \in LevelSet : source[k] = "mock" => ofMock,
           \A k \in LevelSet \ {"project"} : source[k] = "api" => source[Parent(k)] = "api",
           \A k \in LevelSet \ {"project"} : Parent(k) = l => source[k] = "none",
           s = "api" /\ l # "project" => source[Parent(l)] = "api",
           s = "mock" => ofMock, ofMock' = ofMock
    PROVE  /\ SourceTypes' /\ source'[l] = s
           /\ \A k \in LevelSet \ {l} : source'[k] = source[k]
           /\ \A k \in LevelSet : source'[k] = "mock" => ofMock'
           /\ \A k \in LevelSet \ {"project"} : source'[k] = "api" => source'[Parent(k)] = "api"
<1>1. source' = [source EXCEPT ![l] = s]
  BY DEF Loaded
<1>2. /\ SourceTypes' /\ source'[l] = s
      /\ \A k \in LevelSet \ {l} : source'[k] = source[k]
  BY <1>1 DEF SourceTypes
<1>3. \A k \in LevelSet \ {"project"} : Parent(k) \in LevelSet /\ Parent(k) # k
  BY DEF Parent, LevelSet
<1>4. ASSUME NEW k \in LevelSet, source'[k] = "mock" PROVE ofMock'
  BY <1>2, <1>4
<1>5. ASSUME NEW k \in LevelSet \ {"project"}, source'[k] = "api"
      PROVE  source'[Parent(k)] = "api"
  <2>1. CASE k = l
    BY <2>1, <1>2, <1>3, <1>5
  <2>2. CASE k # l
    <3>1. source[k] = "api" /\ source[Parent(k)] = "api"
      BY <2>2, <1>2, <1>5
    <3>2. Parent(k) # l
      BY <3>1
    <3> QED BY <3>1, <3>2, <1>2, <1>3
  <2> QED BY <2>1, <2>2
<1> QED BY <1>2, <1>4, <1>5


LEMMA LoadProjectFits ==
    ASSUME SourceTypes, SourcesFit, LoadProject
    PROVE  SourceTypes' /\ SourcesFit'
<1>1. /\ stage = "project" /\ ofMock' = ofMock
      /\ stage' = "workspaces" \/ stage' \notin LevelSet
      /\ \/ Loaded("project", "mock") /\ ofMock
         \/ Loaded("project", "empty") \/ Loaded("project", "api") \/ Loaded("project", "none")
  <2>1. stage = "project" /\ ofMock' = ofMock
    BY Zenon DEF LoadProject
  <2>2. stage' \in {"workspaces", "not found", "error panel"}
    BY Zenon DEF LoadProject
  <2>3. "not found" \notin LevelSet /\ "error panel" \notin LevelSet
    BY Zenon DEF LevelSet
  <2>4. \/ Loaded("project", "mock") /\ ofMock
        \/ Loaded("project", "empty") \/ Loaded("project", "api") \/ Loaded("project", "none")
    BY Zenon DEF LoadProject, Fallback
  <2> QED BY <2>1, <2>2, <2>3, <2>4, Zenon
<1>2. PICK s \in {"none", "api", "empty", "mock"} : Loaded("project", s) /\ (s = "mock" => ofMock)
  BY <1>1
<1>3. \A k \in LevelSet \ {"project"} : Parent(k) = "project" => source[k] = "none"
  BY <1>1 DEF SourcesFit, Parent, LevelSet
<1>4. /\ SourceTypes'
      /\ \A k \in LevelSet \ {"project"} : source'[k] = source[k]
      /\ \A k \in LevelSet : source'[k] = "mock" => ofMock'
      /\ \A k \in LevelSet \ {"project"} : source'[k] = "api" => source'[Parent(k)] = "api"
  <2>1. "project" \in LevelSet
    BY DEF LevelSet
  <2> QED BY <1>1, <1>2, <1>3, <2>1, LevelIsLoaded DEF SourcesFit
<1>5. /\ source'["workspaces"] = "none" /\ source'["windows"] = "none"
      /\ source'["messages"] = "none" /\ stage' # "project" /\ stage' # "windows"
  BY <1>1, <1>4 DEF SourcesFit, LevelSet
<1> QED BY <1>4, <1>5 DEF SourcesFit

LEMMA LoadWorkspacesFits ==
    ASSUME SourceTypes, SourcesFit, LoadWorkspaces
    PROVE  SourceTypes' /\ SourcesFit'
<1>1. /\ stage = "workspaces" /\ ofMock' = ofMock
      /\ stage' = "windows" \/ stage' \notin LevelSet
      /\ \/ Loaded("workspaces", "mock") /\ ofMock
         \/ Loaded("workspaces", "empty")
         \/ Loaded("workspaces", "api") /\ source["project"] = "api"
  <2>1. stage = "workspaces" /\ ofMock' = ofMock
    BY Zenon DEF LoadWorkspaces
  <2>2. stage' \in {"no workspace", "wrong workspace", "windows"}
    BY Zenon DEF LoadWorkspaces
  <2>3. "no workspace" \notin LevelSet /\ "wrong workspace" \notin LevelSet
    BY Zenon DEF LevelSet
  <2>4. \/ AsksApi("workspaces")
           /\ source' \in {[source EXCEPT !["workspaces"] = s] : s \in {"api", "empty"}}
        \/ Fallback("workspaces")
    BY Zenon DEF LoadWorkspaces
  <2>5. AsksApi("workspaces") => source["project"] = "api"
    BY DEF AsksApi, Parent
  <2>6. \/ Loaded("workspaces", "mock") /\ ofMock
        \/ Loaded("workspaces", "empty")
        \/ Loaded("workspaces", "api") /\ source["project"] = "api"
    BY <2>4, <2>5, Zenon DEF Fallback, Loaded
  <2> QED BY <2>1, <2>2, <2>3, <2>6, Zenon
<1>2. PICK s \in {"none", "api", "empty", "mock"} :
         /\ Loaded("workspaces", s) /\ (s = "mock" => ofMock)
         /\ s = "api" => source["project"] = "api"
  BY <1>1
<1>3. \A k \in LevelSet \ {"project"} : Parent(k) = "workspaces" => source[k] = "none"
  BY <1>1 DEF SourcesFit, Parent, LevelSet
<1>4. /\ SourceTypes'
      /\ \A k \in LevelSet \ {"workspaces"} : source'[k] = source[k]
      /\ \A k \in LevelSet : source'[k] = "mock" => ofMock'
      /\ \A k \in LevelSet \ {"project"} : source'[k] = "api" => source'[Parent(k)] = "api"
  <2>1. "workspaces" \in LevelSet /\ Parent("workspaces") = "project"
    BY DEF LevelSet, Parent
  <2> QED BY <1>1, <1>2, <1>3, <2>1, LevelIsLoaded DEF SourcesFit
<1>5. /\ source'["windows"] = "none" /\ source'["messages"] = "none"
      /\ stage' # "project" /\ stage' # "workspaces"
  BY <1>1, <1>4 DEF SourcesFit, LevelSet
<1> QED BY <1>4, <1>5 DEF SourcesFit

LEMMA LoadBelowFits ==
    ASSUME SourceTypes, SourcesFit, LoadBelow
    PROVE  SourceTypes' /\ SourcesFit'
<1>1. /\ stage \in {"windows", "messages"} /\ ofMock' = ofMock
      /\ stage' \notin {"project", "workspaces", "windows"}
      /\ \/ Loaded(stage, "mock") /\ ofMock
         \/ Loaded(stage, "empty")
         \/ Loaded(stage, "api") /\ source[Parent(stage)] = "api"
  <2>1. stage \in {"windows", "messages"} /\ ofMock' = ofMock
    BY Zenon DEF LoadBelow
  <2>2. stage' \in {"messages", "page"}
    <3>1. stage' = NextStage(stage)
      BY Zenon DEF LoadBelow
    <3> QED BY <2>1, <3>1 DEF NextStage
  <2>4. \/ AsksApi(stage)
           /\ source' \in {[source EXCEPT ![stage] = s] : s \in {"api", "empty"}}
        \/ Fallback(stage)
    BY Zenon DEF LoadBelow
  <2>5. AsksApi(stage) => source[Parent(stage)] = "api"
    BY <2>1 DEF AsksApi, Parent
  <2>6. \/ Loaded(stage, "mock") /\ ofMock
        \/ Loaded(stage, "empty")
        \/ Loaded(stage, "api") /\ source[Parent(stage)] = "api"
    BY <2>4, <2>5, Zenon DEF Fallback, Loaded
  <2> QED BY <2>1, <2>2, <2>6
<1>2. PICK s \in {"none", "api", "empty", "mock"} :
         /\ Loaded(stage, s) /\ (s = "mock" => ofMock)
         /\ s = "api" => source[Parent(stage)] = "api"
  BY <1>1
<1>3. \A k \in LevelSet \ {"project"} : Parent(k) = stage => source[k] = "none"
  BY <1>1 DEF SourcesFit, Parent, LevelSet
<1>4. /\ SourceTypes'
      /\ \A k \in LevelSet : source'[k] = "mock" => ofMock'
      /\ \A k \in LevelSet \ {"project"} : source'[k] = "api" => source'[Parent(k)] = "api"
  <2>1. stage \in LevelSet
    BY <1>1 DEF LevelSet
  <2> QED BY <1>1, <1>2, <1>3, <2>1, LevelIsLoaded DEF SourcesFit
<1> QED BY <1>1, <1>4 DEF SourcesFit

LEMMA NameStays ==
    ASSUME NameFits, UNCHANGED <<ofMock, apiName, name, patches, given>>,
           crossed => crossed', leaving' = leaving \/ leaving' = "sent"
    PROVE  NameFits'
<1>1. \A n : ApiHas(n) => ApiHas(n)'
  BY DEF ApiHas
<1>2. name' \in Nat /\ given' \in Nat /\ patches' \in SUBSET PatchSet
  BY DEF NameFits
<1>3. CASE Remote' /\ ~crossed'
  <2>1. \/ patches = {} /\ ApiHas(name)
        \/ \E p \in patches :
              /\ patches = {p} /\ name = p.to
              /\ IF p.st = "sent" THEN ApiHas(p.prev) ELSE ApiHas(p.to)
    BY <1>3 DEF NameFits, Remote
  <2>2. CASE patches = {} /\ ApiHas(name)
    BY <2>2, <1>2 DEF NameFits, ApiHas
  <2>3. CASE \E p \in patches :
              /\ patches = {p} /\ name = p.to
              /\ IF p.st = "sent" THEN ApiHas(p.prev) ELSE ApiHas(p.to)
    BY <2>3, <1>2 DEF NameFits, ApiHas
  <2> QED BY <2>1, <2>2, <2>3
<1> QED BY <1>2, <1>3 DEF NameFits

LEMMA CommitFits ==
    ASSUME NameFits, CommitName PROVE NameFits'
<1>1. /\ given' = given + 1 /\ name' = given + 1 /\ apiName' = apiName /\ leaving' = leaving
      /\ ofMock' = ofMock
  BY Zenon DEF CommitName, loadVars
<1>2. name \in Nat /\ given \in Nat /\ patches \in SUBSET PatchSet
  BY DEF NameFits
<1>3. name' \in Nat /\ given' \in Nat
  BY <1>1, <1>2
<1> DEFINE new == [to |-> given', prev |-> name, st |-> "sent"]
<1>4. PICK p : p = new /\ p \in PatchSet /\ p.to = name' /\ p.prev = name /\ p.st = "sent"
  <2>1. new \in PatchSet /\ new.to = name' /\ new.prev = name /\ new.st = "sent"
    BY <1>1, <1>2 DEF PatchSet
  <2> HIDE DEF new
  <2> QED BY <2>1, Zenon
<1>5. CASE Remote
  <2>0. patches' = patches \cup {new} /\ crossed' = (crossed \/ patches # {})
    BY <1>5, Zenon DEF CommitName
  <2>1. patches' = patches \cup {p} /\ crossed' = (crossed \/ patches # {})
    BY <2>0, <1>4, Zenon
  <2> HIDE DEF new
  <2>2. patches' \in SUBSET PatchSet
    BY <2>1, <1>2, <1>4
  <2>3. ASSUME ~crossed'
        PROVE  /\ p \in patches' /\ patches' = {p} /\ name' = p.to
               /\ p.st = "sent" /\ ApiHas(p.prev)'
    <3>1. ~crossed /\ patches = {}
      BY <2>1, <2>3
    <3>2. ApiHas(name)
      BY <3>1, <1>5 DEF NameFits
    <3> QED BY <3>1, <3>2, <2>1, <1>1, <1>4 DEF ApiHas
  <2> QED BY <2>2, <2>3, <1>3 DEF NameFits
<1>6. CASE ~Remote
  <2>1. patches' = patches
    BY <1>6, Zenon DEF CommitName
  <2> QED BY <2>1, <1>1, <1>2, <1>3, <1>6 DEF NameFits, Remote
<1> QED BY <1>5, <1>6

LEMMA ServedFits ==
    ASSUME NameFits, ServePatch PROVE NameFits'
<1>1. PICK p \in patches :
          /\ p.st = "sent" /\ apiName # NoRow
          /\ patches' = (patches \ {p}) \cup {[p EXCEPT !.st = "done"]}
          /\ apiName' = p.to
  BY Zenon DEF ServePatch
<1>2. /\ name' = name /\ given' = given /\ crossed' = crossed /\ leaving' = leaving
      /\ ofMock' = ofMock
  BY Zenon DEF ServePatch, loadVars
<1>3. name \in Nat /\ given \in Nat /\ patches \in SUBSET PatchSet
  BY DEF NameFits
<1> DEFINE q == [p EXCEPT !.st = "done"]
<1>4. q \in PatchSet /\ q.to = p.to /\ q.st = "done"
  BY <1>3 DEF PatchSet
<1>5. patches' = (patches \ {p}) \cup {q}
  BY <1>1
<1> HIDE DEF q
<1>6. ASSUME Remote', ~crossed'
      PROVE  /\ q \in patches' /\ patches' = {q} /\ name' = q.to
             /\ q.st # "sent" /\ ApiHas(q.to)'
  <2>1. patches = {p} /\ name = p.to
    BY <1>1, <1>2, <1>6 DEF NameFits, Remote
  <2> QED BY <2>1, <1>1, <1>2, <1>4, <1>5 DEF ApiHas
<1>7. patches' \in SUBSET PatchSet
  BY <1>3, <1>4, <1>5
<1> QED BY <1>2, <1>3, <1>6, <1>7 DEF NameFits

\* The answer of a rename brings what the API has; its failure brings back what
\* the API had before it.
LEMMA PatchEnds ==
    ASSUME NameFits, PatchAnswered \/ PatchFails PROVE NameFits'
<1>1. PICK p \in patches :
          /\ patches' = patches \ {p}
          /\ \/ p.st = "done" /\ name' = p.to /\ crossed' = crossed
             \/ name' = p.prev /\ crossed' = (crossed \/ p.st = "done")
  BY Zenon DEF PatchAnswered, PatchFails, RollsBack
<1>2. apiName' = apiName /\ given' = given /\ leaving' = leaving /\ ofMock' = ofMock
  BY Zenon DEF PatchAnswered, PatchFails, loadVars
<1>3. /\ given \in Nat /\ patches \in SUBSET PatchSet
      /\ p.to \in Nat /\ p.prev \in Nat /\ p.st \in {"sent", "done"}
  BY DEF NameFits, PatchSet
<1>4. name' \in Nat /\ given' \in Nat /\ patches' \in SUBSET PatchSet
  BY <1>1, <1>2, <1>3
<1>5. ASSUME Remote', ~crossed' PROVE patches' = {} /\ ApiHas(name)'
  <2>1. Remote /\ ~crossed
    <3>1. Remote
      BY <1>2, <1>5 DEF Remote
    <3>2. crossed => crossed'
      BY <1>1, Zenon
    <3> QED BY <1>5, <3>1, <3>2
  <2>2. patches = {p} /\ IF p.st = "sent" THEN ApiHas(p.prev) ELSE ApiHas(p.to)
    BY <2>1 DEF NameFits
  <2>3. ApiHas(name') 
    BY <2>2, <1>1, <1>3, <1>5
  <2>4. ApiHas(name)'
    BY <2>3, <1>2 DEF ApiHas
  <2> QED BY <2>2, <2>4, <1>1
<1> QED BY <1>4, <1>5 DEF NameFits

LEMMA DeletionFits ==
    ASSUME NameFits, DeleteProject \/ ServeDeletion \/ DeleteSettles PROVE NameFits'
<1>1. CASE DeleteProject
  <2>1. /\ apiName' = apiName /\ name' = name /\ patches' = patches /\ given' = given
        /\ crossed' = crossed /\ ofMock' = ofMock
    BY <1>1, Zenon DEF DeleteProject, loadVars
  <2>2. CASE Remote
    <3>1. leaving' = "sent"
      BY <1>1, <2>2, Zenon DEF DeleteProject
    <3> QED BY <2>1, <3>1, NameStays
  <2>3. CASE ~Remote
    BY <2>1, <2>3 DEF NameFits, Remote
  <2> QED BY <2>2, <2>3
<1>2. CASE ServeDeletion
  <2>1. /\ leaving = "sent" /\ leaving' = leaving /\ apiName' = NoRow
        /\ name' = name /\ patches' = patches /\ given' = given
        /\ crossed' = crossed /\ ofMock' = ofMock
    BY <1>2, Zenon DEF ServeDeletion, loadVars
  <2>2. \A n : ApiHas(n)'
    BY <2>1 DEF ApiHas
  <2>3. ASSUME Remote', ~crossed', patches' # {}
        PROVE  \E p \in patches' : patches' = {p} /\ name' = p.to
    BY <2>1, <2>3 DEF NameFits, Remote
  <2>4. name' \in Nat /\ given' \in Nat /\ patches' \in SUBSET PatchSet
    BY <2>1 DEF NameFits
  <2>5. ASSUME Remote', ~crossed', patches' # {}
        PROVE  \E p \in patches' : /\ patches' = {p} /\ name' = p.to
                 /\ IF p.st = "sent" THEN ApiHas(p.prev)' ELSE ApiHas(p.to)'
    BY <2>2, <2>3, <2>5
  <2>6. patches' = {} => ApiHas(name)'
    <3>1. ApiHas(name)'
      BY <2>1 DEF ApiHas
    <3> QED BY <3>1
  <2> QED BY <2>4, <2>5, <2>6 DEF NameFits
<1>3. CASE DeleteSettles
  <2>1. /\ leaving = "sent" /\ apiName' = apiName /\ name' = name /\ patches' = patches
        /\ given' = given /\ ofMock' = ofMock
        /\ crossed' = (crossed \/ apiName = NoRow)
    BY <1>3, Zenon DEF DeleteSettles, loadVars
  <2>2. ~crossed' => ~crossed /\ \A n : ApiHas(n) => ApiHas(n)'
    BY <2>1 DEF ApiHas
  <2>3. name' \in Nat /\ given' \in Nat /\ patches' \in SUBSET PatchSet
    BY <2>1 DEF NameFits
  <2>4. ASSUME Remote', ~crossed'
        PROVE  \/ patches' = {} /\ ApiHas(name)'
               \/ \E p \in patches' :
                     /\ patches' = {p} /\ name' = p.to
                     /\ IF p.st = "sent" THEN ApiHas(p.prev)' ELSE ApiHas(p.to)'
    <3>1. \/ patches = {} /\ ApiHas(name)
          \/ \E p \in patches :
                /\ patches = {p} /\ name = p.to
                /\ IF p.st = "sent" THEN ApiHas(p.prev) ELSE ApiHas(p.to)
      BY <2>1, <2>2, <2>4 DEF NameFits, Remote
    <3>2. \A n : ApiHas(n) => apiName' = n
      BY <2>1, <2>4 DEF ApiHas
    <3> QED BY <3>1, <3>2, <2>1, <2>4 DEF ApiHas
  <2> QED BY <2>3, <2>4 DEF NameFits
<1> QED BY <1>1, <1>2, <1>3

\* A write that was given up and is carried out counts as a crossing.
LEMMA LateFits ==
    ASSUME NameFits, LatePatch \/ LateDeletion PROVE NameFits'
<1>1. /\ crossed' = TRUE /\ UNCHANGED <<name, given, patches>>
  BY Zenon DEF LatePatch, LateDeletion
<1> QED BY <1>1 DEF NameFits

LEMMA ProjectStep ==
    ASSUME ProjectIInv, [ProjectNext]_projectVars PROVE ProjectIInv'
<1>0. SourceTypes /\ SourcesFit /\ NameFits /\ RowsFit
  BY DEF ProjectIInv
<1>1. (UNCHANGED loadVars) => SourceTypes' /\ SourcesFit' /\ ofMock' = ofMock
  BY <1>0 DEF SourceTypes, SourcesFit, loadVars
<1>2. (UNCHANGED formVars) => RowsFit'
  BY <1>0 DEF RowsFit, formVars
<1>3. CASE UNCHANGED projectVars
  <2>1. UNCHANGED <<loadVars, nameVars, formVars>>
    BY <1>3 DEF projectVars
  <2> QED BY <2>1, <1>0, <1>1, <1>2, NameStays DEF nameVars, ProjectIInv
<1>4. CASE LoadProject \/ LoadWorkspaces \/ LoadBelow
  <2>1. ofMock' = ofMock /\ UNCHANGED <<nameVars, formVars>>
    BY <1>4, Zenon DEF LoadProject, LoadWorkspaces, LoadBelow
  <2>2. NameFits' /\ RowsFit'
    BY <2>1, <1>0, <1>2, NameStays DEF nameVars
  <2> QED BY <1>4, <2>2, <1>0, LoadProjectFits, LoadWorkspacesFits, LoadBelowFits DEF ProjectIInv
<1>5. CASE EditName \/ CancelEdit
  <2>1. UNCHANGED <<loadVars, apiName, name, patches, given, crossed, leaving, formVars>>
    BY <1>5, Zenon DEF EditName, CancelEdit
  <2> QED BY <2>1, <1>0, <1>1, <1>2, NameStays DEF ProjectIInv
<1>6. CASE CommitName \/ ServePatch \/ PatchAnswered \/ PatchFails
           \/ DeleteProject \/ ServeDeletion \/ DeleteSettles \/ LatePatch \/ LateDeletion
  <2>1. UNCHANGED <<loadVars, formVars>>
    BY <1>6, Zenon DEF CommitName, ServePatch, PatchAnswered, PatchFails, DeleteProject,
       ServeDeletion, DeleteSettles, LatePatch, LateDeletion
  <2>2. NameFits'
    BY <1>0, <1>6, CommitFits, ServedFits, PatchEnds, DeletionFits, LateFits
  <2> QED BY <2>1, <2>2, <1>1, <1>2 DEF ProjectIInv
<1>7. CASE OpenForm \/ CloseForm \/ SubmitForm \/ ServeForm \/ FormAnswered \/ FormFails \/ LateRow
  <2>1. UNCHANGED <<loadVars, nameVars>>
    BY <1>7, Zenon DEF OpenForm, CloseForm, SubmitForm, ServeForm, FormAnswered, FormFails, LateRow
  <2>2. RowsFit'
    <3>1. CASE OpenForm \/ CloseForm \/ SubmitForm
      <4>1. /\ rows' = rows /\ rowsShown' = rowsShown /\ unseen' = unseen
            /\ form # "created"
        BY <3>1, Zenon DEF OpenForm, CloseForm, SubmitForm, NoModal
      <4> QED BY <4>1, <1>0 DEF RowsFit
    <3>2. CASE ServeForm
      BY <3>2 DEF ServeForm, RowsFit
    <3>3. CASE FormAnswered
      BY <3>3 DEF FormAnswered, CreatedThenRefresh, RowsFit
    <3>4. CASE FormFails
      <4>1. /\ rows' = rows /\ rowsShown' = rowsShown /\ unseen' = (unseen \/ form = "created")
        BY <3>4, Zenon DEF FormFails
      <4> QED BY <4>1, <1>0 DEF RowsFit
    <3>5. CASE LateRow
      BY <3>5 DEF LateRow, RowsFit
    <3> QED BY <1>7, <3>1, <3>2, <3>3, <3>4, <3>5
  <2> QED BY <2>1, <2>2, <1>0, <1>1, NameStays DEF ProjectIInv, nameVars
<1> QED BY <1>3, <1>4, <1>5, <1>6, <1>7, Zenon DEF ProjectNext, PageAnswers

-----------------------------------------------------------------------------
(* Questions and answers.                                                  *)

CommentSet == [type : {"question", "answer", "resolution"}, qid : Nat, since : Nat,
               blind : BOOLEAN]
PageSet == [qid : Nat, status : {"pending", "answered", "obsolete"}]
BridgeFields == {"at", "mode", "todo", "known", "answered", "blind", "since", "owed"}

CommentsFit ==
    /\ comments \in Seq(CommentSet) /\ Len(comments) <= MaxComments
    /\ \A i \in DOMAIN comments : comments[i].since < i

\* What an asker has read were questions.
AskersFit ==
    /\ askers \in [Askers -> [on : BOOLEAN, existing : SUBSET Nat]]
    /\ \A a \in Askers : askers[a].existing \subseteq Qids("question")

\* A row comes from a question.
PagesFit ==
    /\ pages \in Seq(PageSet)
    /\ pages # <<>> => comments # <<>>

\* Of the first half of a run: what it goes through are questions; when it knows the
\* rows, one of the same name as a question not yet mirrored is among them.
MirrorFits ==
    /\ bridge.at \in {"index", "mirror"} => bridge.todo \subseteq Indices("question")
    /\ bridge.at = "mirror" /\ ~raced =>
          \A i \in DOMAIN pages, k \in bridge.todo :
              comments[k].qid = pages[i].qid => pages[i].qid \in DOMAIN bridge.known
    /\ bridge.at = "mirror" =>
          \A q \in DOMAIN bridge.known : bridge.known[q] \in DOMAIN pages

Answering == {"rows", "answers", "post"}

\* Of its second half: what had an answer on the page it read; what it has answered is
\* not to be answered again; what it owes is answered or still to be.
AnswersFit ==
    /\ bridge.since \in Nat /\ bridge.blind \in BOOLEAN
    /\ bridge.at \in Answering =>
          /\ bridge.since <= Len(comments)
          /\ pages # <<>> => bridge.since > 0
    /\ bridge.at \in {"rows", "answers"} => \A i \in DOMAIN comments :
          comments[i].since = bridge.since => bridge.since = 0
    /\ bridge.at \in {"answers", "post"} => bridge.todo \subseteq DOMAIN pages
    /\ bridge.at = "rows" => bridge.owed \subseteq Owed
    /\ bridge.at = "answers" => bridge.owed \subseteq {pages[k].qid : k \in bridge.todo}
    /\ bridge.at = "post" =>
          /\ ~bridge.blind =>
                \A i \in Unpaged("answer") : i <= bridge.since => comments[i].qid \in bridge.answered
          /\ bridge.answered \subseteq Qids("answer")
          /\ bridge.owed \subseteq Qids("answer") \cup {pages[k].qid : k \in bridge.todo}
          /\ ~raced => \A i \in DOMAIN comments, k \in bridge.todo :
                comments[i].since = bridge.since /\ bridge.since > 0
                   => comments[i].qid # pages[k].qid

QuestIInv ==
    /\ CommentsFit /\ AskersFit /\ PagesFit
    /\ DOMAIN bridge = BridgeFields
    /\ MirrorFits /\ AnswersFit
    /\ QidsDiffer /\ OnePageEach /\ AnsweredOnce /\ AnswerArrives

-----------------------------------------------------------------------------
(* Names of questions.                                                     *)

\* There are more numbers than comments.
LEMMA NewNumber ==
    ASSUME CommentsFit, MaxComments \in Nat, NEW S \in SUBSET Qids("question")
    PROVE  NewQid(S) \in Nat /\ NewQid(S) \notin S
<1> DEFINE N == 1..(MaxComments + 1)
           I == 1..Len(comments)
<1>1. Len(comments) \in Nat /\ Len(comments) <= MaxComments /\ DOMAIN comments = I
  BY DEF CommentsFit
<1>2. ASSUME N \subseteq S PROVE FALSE
  <2> DEFINE f == [n \in N |-> CHOOSE i \in I : comments[i].qid = n]
  <2>1. \A n \in N : \E i \in I : comments[i].qid = n
    BY <1>1, <1>2 DEF Qids, Indices
  <2>2. ASSUME NEW n \in N PROVE f[n] \in I /\ comments[f[n]].qid = n
    BY <2>1, Zenon
  <2>3. f \in [N -> I]
    BY <2>2, Zenon
  <2>4. /\ IsFiniteSet(N) /\ IsFiniteSet(I)
        /\ Cardinality(N) = MaxComments + 1 /\ Cardinality(I) = Len(comments)
    <3>1. 1 \in Int /\ MaxComments + 1 \in Int /\ Len(comments) \in Int
      BY <1>1
    <3>2. IsFiniteSet(N) /\ Cardinality(N) = IF 1 > MaxComments + 1 THEN 0 ELSE (MaxComments + 1) - 1 + 1
      BY <3>1, FS_Interval, Zenon
    <3>3. IsFiniteSet(I) /\ Cardinality(I) = IF 1 > Len(comments) THEN 0 ELSE Len(comments) - 1 + 1
      BY <3>1, FS_Interval, Zenon
    <3> HIDE DEF N, I
    <3> QED BY <1>1, <3>2, <3>3
  <2> HIDE DEF f, N, I
  <2>5. PICK x, y \in N : x # y /\ f[x] = f[y]
    <3>1. Cardinality(I) < Cardinality(N)
      BY <1>1, <2>4
    <3> QED BY <2>3, <2>4, <3>1, FS_PigeonHole
  <2> QED BY <2>2, <2>5
<1>3. \E n \in N \ S : \A m \in N \ S : n <= m
  <2>1. (N \ S) \in SUBSET Nat /\ N \ S # {}
    BY <1>2
  <2> HIDE DEF N
  <2> QED BY <2>1, Smallest
<1>4. \E n \in N : n \notin S /\ \A k \in 1..(n - 1) : k \in S
  <2>1. PICK n \in N \ S : \A m \in N \ S : n <= m
    BY <1>3
  <2>2. \A k \in 1..(n - 1) : k \in N /\ ~(n <= k)
    BY <2>1
  <2> QED BY <2>1, <2>2
<1>5. NewQid(S) \in N /\ NewQid(S) \notin S
  BY <1>4, Zenon DEF NewQid
<1> QED BY <1>5

\* Of positions left there is a first.
LEMMA FirstIsLeft ==
    ASSUME NEW S \in SUBSET Nat, S # {}
    PROVE  First(S) \in S
<1>1. \E i \in S : \A j \in S : i <= j
  BY Smallest
<1> QED BY <1>1, Zenon DEF First

-----------------------------------------------------------------------------
(* A comment more.                                                         *)

Grown(c) ==
    /\ Len(comments') = Len(comments) + 1 /\ DOMAIN comments' = DOMAIN comments \cup {Len(comments) + 1}
    /\ \A i \in DOMAIN comments : comments'[i] = comments[i]
    /\ comments'[Len(comments) + 1] = c
    /\ Len(comments) \in Nat /\ DOMAIN comments = 1..Len(comments)

LEMMA CommentsGrow ==
    ASSUME CommentsFit, NEW c, c \in CommentSet, c.since <= Len(comments), Posts(c),
           MaxComments \in Nat
    PROVE  CommentsFit' /\ Grown(c)
<1>1. /\ comments' = Append(comments, c) /\ Len(comments) < MaxComments
      /\ comments \in Seq(CommentSet)
      /\ \A i \in DOMAIN comments : comments[i].since < i
  BY DEF Posts, CommentsFit
<1> HIDE DEF CommentSet
<1>2. Grown(c) /\ comments' \in Seq(CommentSet)
  BY <1>1 DEF Grown
<1>3. \A i \in DOMAIN comments' : comments'[i].since < i
  <2>1. ASSUME NEW i \in DOMAIN comments PROVE comments'[i].since < i
    BY <1>1, <1>2 DEF Grown
  <2>2. c.since < Len(comments) + 1
    BY <1>1 DEF CommentSet
  <2> QED BY <1>2, <2>1, <2>2 DEF Grown
<1> QED BY <1>1, <1>2, <1>3 DEF CommentsFit, Grown

LEMMA NamesGrow ==
    ASSUME NEW c, Grown(c), NEW t
    PROVE  /\ Indices(t) \subseteq Indices(t)' /\ Qids(t) \subseteq Qids(t)'
           /\ c.type # t => Indices(t)' = Indices(t)
           /\ \A i \in Indices(t)' : i \notin Indices(t) => i = Len(comments) + 1 /\ c.type = t
BY DEF Grown, Indices, Qids

LEMMA NamesStay ==
    ASSUME UNCHANGED comments, NEW t
    PROVE  Indices(t)' = Indices(t) /\ Qids(t)' = Qids(t) /\ Unpaged(t)' = Unpaged(t)
BY DEF Indices, Qids, Unpaged

-----------------------------------------------------------------------------
(* The steps.                                                              *)

LEMMA QuestStart ==
    ASSUME QuestionsInit, MaxComments \in Nat PROVE QuestIInv
<1>1. /\ comments = <<>> /\ pages = <<>> /\ bridge = NoRun /\ raced = FALSE
      /\ askers = [a \in Askers |-> Quiet]
  BY DEF QuestionsInit
<1>2. Quiet \in [on : BOOLEAN, existing : SUBSET Nat] /\ Quiet.existing = {}
  BY DEF Quiet
<1>3. CommentsFit /\ PagesFit
  BY <1>1 DEF CommentsFit, PagesFit
<1>4. AskersFit
  <2> HIDE DEF Quiet
  <2> QED BY <1>1, <1>2 DEF AskersFit
<1>5. bridge.at = "idle" /\ DOMAIN bridge = BridgeFields
  BY <1>1 DEF NoRun, BridgeFields
<1>6. MirrorFits /\ AnswersFit
  <2>1. bridge.since \in Nat /\ bridge.blind \in BOOLEAN
    BY <1>1 DEF NoRun
  <2> QED BY <1>5, <2>1 DEF MirrorFits, AnswersFit, Answering
<1>7. QidsDiffer /\ OnePageEach /\ AnsweredOnce /\ AnswerArrives
  BY <1>1, <1>5 DEF QidsDiffer, OnePageEach, AnsweredOnce, AnswerArrives, Indices
<1> QED BY <1>3, <1>4, <1>5, <1>6, <1>7 DEF QuestIInv

\* The askers keep to the questions.
LEMMA AskersKeep ==
    ASSUME AskersFit, UNCHANGED askers, Qids("question") \subseteq Qids("question")'
    PROVE  AskersFit'
BY DEF AskersFit

\* A question, or a word of the owner, between two steps of the bridge.
LEMMA CommentBetween ==
    ASSUME QuestIInv, NEW c, c \in CommentSet, c.since = 0, Posts(c), MaxComments \in Nat,
           UNCHANGED <<pages, bridge>>, raced => raced',
           c.type = "question" /\ ~raced' => c.qid \notin Qids("question")
    PROVE  /\ CommentsFit' /\ PagesFit' /\ MirrorFits' /\ AnswersFit' /\ QidsDiffer'
           /\ OnePageEach' /\ AnsweredOnce' /\ AnswerArrives' /\ DOMAIN bridge' = BridgeFields
           /\ Qids("question") \subseteq Qids("question")'
<1> USE DEF QuestIInv
<1>0. Len(comments) \in Nat /\ c.qid \in Nat /\ \A i \in DOMAIN comments : comments[i] \in CommentSet
  <2>1. c.qid \in Nat
    BY DEF CommentSet
  <2> HIDE DEF CommentSet
  <2>2. comments \in Seq(CommentSet)
    BY DEF CommentsFit
  <2> QED BY <2>1, <2>2
<1>1. CommentsFit' /\ Grown(c)
  <2>1. c.since <= Len(comments)
    BY <1>0
  <2> QED BY <2>1, CommentsGrow
<1>2. /\ Indices("question") \subseteq Indices("question")' /\ Qids("question") \subseteq Qids("question")'
      /\ Indices("answer") \subseteq Indices("answer")' /\ Qids("answer") \subseteq Qids("answer")'
      /\ \A i \in Indices("question")' : i \notin Indices("question")
            => i = Len(comments) + 1 /\ c.type = "question"
      /\ \A i \in Indices("answer")' : i \notin Indices("answer")
            => i = Len(comments) + 1 /\ c.type = "answer"
  BY <1>1, NamesGrow
<1>3. PagesFit'
  BY <1>1 DEF PagesFit, Grown, CommentsFit
<1>4. \A i \in Indices("question") \cup Indices("answer") :
         i \in DOMAIN comments /\ comments'[i] = comments[i] /\ i <= Len(comments)
  BY <1>1 DEF Indices, Grown
<1>5. MirrorFits'
  <2>1. bridge.at \in {"index", "mirror"} => bridge.todo \subseteq Indices("question")'
    BY <1>2 DEF MirrorFits
  <2>2. ASSUME bridge.at = "mirror", ~raced', NEW i \in DOMAIN pages, NEW k \in bridge.todo,
               comments'[k].qid = pages[i].qid
        PROVE  pages[i].qid \in DOMAIN bridge.known
    <3>1. k \in Indices("question")
      BY <2>2 DEF MirrorFits
    <3> QED BY <2>2, <3>1, <1>4 DEF MirrorFits
  <2>3. bridge.at = "mirror" => \A q \in DOMAIN bridge.known : bridge.known[q] \in DOMAIN pages
    BY DEF MirrorFits
  <2> QED BY <2>1, <2>2, <2>3 DEF MirrorFits
<1>6. AnswersFit'
  <2>1. bridge.since \in Nat /\ bridge.blind \in BOOLEAN
    BY DEF AnswersFit
  <2>2. bridge.at \in Answering => bridge.since <= Len(comments')
    <3>1. bridge.at \in Answering => bridge.since <= Len(comments)
      BY DEF AnswersFit
    <3> QED BY <3>1, <2>1, <1>0, <1>1 DEF Grown
  <2>3. \A i \in DOMAIN comments' : i \in DOMAIN comments \/ comments'[i].since = 0
    BY <1>1 DEF Grown
  <2>4. \A i \in DOMAIN comments : comments'[i] = comments[i]
    BY <1>1 DEF Grown
  <2>5. bridge.at \in {"rows", "answers"} => \A i \in DOMAIN comments' :
           comments'[i].since = bridge.since => bridge.since = 0
    BY <2>3, <2>4 DEF AnswersFit
  <2>6. bridge.at = "rows" => bridge.owed \subseteq Owed'
    BY DEF AnswersFit, Owed
  <2>7. ASSUME bridge.at = "post"
        PROVE  /\ ~bridge.blind => \A i \in Unpaged("answer")' :
                     i <= bridge.since => comments'[i].qid \in bridge.answered
               /\ bridge.answered \subseteq Qids("answer")'
               /\ bridge.owed \subseteq Qids("answer")' \cup {pages[k].qid : k \in bridge.todo}
               /\ ~raced' => \A i \in DOMAIN comments', k \in bridge.todo :
                     comments'[i].since = bridge.since /\ bridge.since > 0
                        => comments'[i].qid # pages[k].qid
    <3>1. ASSUME ~bridge.blind, NEW i \in Unpaged("answer")', i <= bridge.since
          PROVE  comments'[i].qid \in bridge.answered
      <4>1. bridge.since <= Len(comments)
        BY <2>7 DEF AnswersFit, Answering
      <4>2. i \in Indices("answer")' /\ i <= FirstPage
        BY DEF Unpaged
      <4>3. i \in Indices("answer")
        BY <3>1, <4>1, <4>2, <2>1, <1>0, <1>2
      <4>4. i \in Unpaged("answer")
        BY <4>2, <4>3 DEF Unpaged
      <4> QED BY <2>7, <3>1, <4>3, <4>4, <1>4 DEF AnswersFit
    <3>2. bridge.answered \subseteq Qids("answer")'
      BY <2>7, <1>2 DEF AnswersFit
    <3>3. bridge.owed \subseteq Qids("answer")' \cup {pages[k].qid : k \in bridge.todo}
      BY <2>7, <1>2 DEF AnswersFit
    <3>4. ASSUME ~raced', NEW i \in DOMAIN comments', NEW k \in bridge.todo,
                 comments'[i].since = bridge.since, bridge.since > 0
          PROVE  comments'[i].qid # pages[k].qid
      BY <2>7, <3>4, <2>3, <2>4 DEF AnswersFit
    <3> QED BY <3>1, <3>2, <3>3, <3>4
  <2>8. /\ bridge.at \in Answering => (pages # <<>> => bridge.since > 0)
        /\ bridge.at \in {"answers", "post"} => bridge.todo \subseteq DOMAIN pages
        /\ bridge.at = "answers" => bridge.owed \subseteq {pages[k].qid : k \in bridge.todo}
    BY DEF AnswersFit
  <2> QED BY <2>1, <2>2, <2>5, <2>6, <2>7, <2>8 DEF AnswersFit
<1>7. QidsDiffer'
  <2>1. ASSUME ~raced', NEW i \in Indices("question")', NEW j \in Indices("question")',
               comments'[i].qid = comments'[j].qid
        PROVE  i = j
    <3>1. \A k \in Indices("question") : comments'[k].qid \in Qids("question")
      BY <1>4 DEF Qids
    <3>2. \A k \in Indices("question")' : k \notin Indices("question")
             => comments'[k].qid \notin Qids("question")
      BY <1>1, <1>2, <2>1 DEF Grown
    <3>3. CASE i \in Indices("question") /\ j \in Indices("question")
      BY <3>3, <2>1, <1>4 DEF QidsDiffer
    <3>4. CASE ~(i \in Indices("question") /\ j \in Indices("question"))
      BY <3>1, <3>2, <3>4, <2>1, <1>2
    <3> QED BY <3>3, <3>4
  <2> QED BY <2>1 DEF QidsDiffer
<1>8. OnePageEach' /\ AnswerArrives' /\ DOMAIN bridge' = BridgeFields
  BY <1>2 DEF OnePageEach, AnswerArrives
<1>9. AnsweredOnce'
  <2>1. ASSUME ~raced', NEW i \in Indices("answer")', NEW j \in Indices("answer")',
               i < j, comments'[i].qid = comments'[j].qid
        PROVE  /\ i <= FirstPage /\ ~comments'[j].blind => i > comments'[j].since
               /\ comments'[i].since = comments'[j].since => comments'[j].since = 0
    <3>1. CASE j \in Indices("answer")
      <4>1. i \in Indices("answer")
        BY <3>1, <2>1, <1>0, <1>2, <1>4
      <4> QED BY <3>1, <4>1, <2>1, <1>4 DEF AnsweredOnce
    <3>2. CASE j \notin Indices("answer")
      <4>1. comments'[j].since = 0
        BY <3>2, <1>1, <1>2 DEF Grown
      <4>2. i \in Nat /\ i > 0
        BY <1>1 DEF Indices, Grown
      <4> QED BY <4>1, <4>2
    <3> QED BY <3>1, <3>2
  <2> QED BY <2>1 DEF AnsweredOnce
<1> QED BY <1>1, <1>2, <1>3, <1>5, <1>6, <1>7, <1>8, <1>9

LEMMA QuestionOrWord ==
    ASSUME QuestIInv, MaxComments \in Nat,
           (\E a \in Askers : AskReads(a) \/ AskPosts(a) \/ AskGivesUp(a)) \/ OwnerSpeaks
    PROVE  QuestIInv'
<1>0. /\ CommentsFit /\ AskersFit /\ Qids("question") \subseteq Nat
      /\ \A a \in Askers : askers[a].existing \subseteq Qids("question")
  <2>1. comments \in Seq(CommentSet)
    BY DEF QuestIInv, CommentsFit
  <2>2. \A i \in DOMAIN comments : comments[i].qid \in Nat
    <3>1. \A c \in CommentSet : c.qid \in Nat
      BY DEF CommentSet
    <3> HIDE DEF CommentSet
    <3> QED BY <2>1, <3>1
  <2> QED BY <2>2 DEF QuestIInv, AskersFit, Qids, Indices
<1>1. ASSUME NEW a \in Askers, AskReads(a) \/ AskGivesUp(a) PROVE QuestIInv'
  <2>1. PICK reader \in [on : BOOLEAN, existing : SUBSET Nat] :
           askers' = [askers EXCEPT ![a] = reader] /\ reader.existing \subseteq Qids("question")
    <3>1. [on |-> TRUE, existing |-> Qids("question")] \in [on : BOOLEAN, existing : SUBSET Nat]
      BY <1>0
    <3>2. Quiet \in [on : BOOLEAN, existing : SUBSET Nat] /\ Quiet.existing = {}
      BY DEF Quiet
    <3> HIDE DEF Quiet
    <3>3. CASE AskReads(a)
      BY <3>1, <3>3 DEF AskReads
    <3>4. CASE AskGivesUp(a)
      BY <3>2, <3>4 DEF AskGivesUp
    <3> QED BY <1>1, <3>3, <3>4
  <2>2. UNCHANGED <<comments, pages, bridge, raced>>
    BY <1>1 DEF AskReads, AskGivesUp
  <2>3. Qids("question")' = Qids("question")
    BY <2>2, NamesStay
  <2>4. AskersFit'
    BY <2>1, <2>3, <1>0 DEF AskersFit
  <2>5. /\ CommentsFit' /\ PagesFit' /\ MirrorFits' /\ AnswersFit' /\ QidsDiffer'
        /\ OnePageEach' /\ AnsweredOnce' /\ AnswerArrives' /\ DOMAIN bridge' = BridgeFields
    BY <2>2 DEF QuestIInv, CommentsFit, PagesFit, MirrorFits, AnswersFit, QidsDiffer, OnePageEach,
       AnsweredOnce, AnswerArrives, Indices, Unpaged, Qids, Owed, IsAnswered
  <2> QED BY <2>4, <2>5 DEF QuestIInv
<1>2. ASSUME NEW a \in Askers, AskPosts(a) PROVE QuestIInv'
  <2>1. PICK n : n = NewQid(askers[a].existing) /\ n \in Nat /\ n \notin askers[a].existing
    BY <1>0, NewNumber
  <2>2. PICK c : /\ c = Comment("question", n, 0, FALSE) /\ c \in CommentSet
                 /\ c.type = "question" /\ c.qid = n /\ c.since = 0
    <3> DEFINE new == Comment("question", n, 0, FALSE)
    <3>1. new \in CommentSet /\ new.type = "question" /\ new.qid = n /\ new.since = 0
      BY <2>1 DEF Comment, CommentSet
    <3> HIDE DEF new
    <3>2. \E c : c = new /\ c \in CommentSet /\ c.type = "question" /\ c.qid = n /\ c.since = 0
      BY <3>1, Zenon
    <3> QED BY <3>2, Zenon DEF new
  <2>3. /\ Posts(c) /\ raced' = (raced \/ askers[a].existing # Qids("question"))
        /\ askers' = [askers EXCEPT ![a] = Quiet] /\ UNCHANGED <<pages, bridge>>
    BY <1>2, <2>1, <2>2 DEF AskPosts
  <2>4. raced => raced'
    BY <2>3, Zenon
  <2>5. ~raced' => askers[a].existing = Qids("question")
    BY <2>3, Zenon
  <2>6. c.type = "question" /\ ~raced' => c.qid \notin Qids("question")
    BY <2>1, <2>2, <2>5
  <2>7. /\ CommentsFit' /\ PagesFit' /\ MirrorFits' /\ AnswersFit' /\ QidsDiffer'
        /\ OnePageEach' /\ AnsweredOnce' /\ AnswerArrives' /\ DOMAIN bridge' = BridgeFields
        /\ Qids("question") \subseteq Qids("question")'
    BY <2>2, <2>3, <2>4, <2>6, CommentBetween
  <2>8. AskersFit'
    <3>1. Quiet \in [on : BOOLEAN, existing : SUBSET Nat] /\ Quiet.existing = {}
      BY DEF Quiet
    <3> HIDE DEF Quiet
    <3> QED BY <2>3, <2>7, <3>1, <1>0 DEF AskersFit
  <2> QED BY <2>7, <2>8 DEF QuestIInv
<1>3. CASE OwnerSpeaks
  <2>1. PICK q \in Qids("question") : Answers(q) \/ Resolves(q)
    BY <1>3 DEF OwnerSpeaks
  <2>2. UNCHANGED <<askers, pages, bridge, raced>>
    BY <1>3 DEF OwnerSpeaks
  <2>3. PICK c : /\ Posts(c) /\ c \in CommentSet /\ c.since = 0 /\ c.type # "question"
    <3>1. q \in Nat
      BY <1>0
    <3>2. \A t \in {"answer", "resolution"} : /\ Comment(t, q, 0, FALSE) \in CommentSet
             /\ Comment(t, q, 0, FALSE).since = 0 /\ Comment(t, q, 0, FALSE).type # "question"
      BY <3>1 DEF Comment, CommentSet
    <3> QED BY <2>1, <3>2 DEF Answers, Resolves
  <2>4. /\ CommentsFit' /\ PagesFit' /\ MirrorFits' /\ AnswersFit' /\ QidsDiffer'
        /\ OnePageEach' /\ AnsweredOnce' /\ AnswerArrives' /\ DOMAIN bridge' = BridgeFields
        /\ Qids("question") \subseteq Qids("question")'
    BY <2>2, <2>3, CommentBetween
  <2> QED BY <2>2, <2>4, <1>0, AskersKeep DEF QuestIInv
<1> QED BY <1>1, <1>2, <1>3

\* A step that leaves the issue and the rows alone.
LEMMA BridgeGoes ==
    ASSUME QuestIInv, UNCHANGED <<comments, askers, pages, raced>>,
           DOMAIN bridge' = BridgeFields, MirrorFits', AnswersFit', AnswerArrives'
    PROVE  QuestIInv'
<1>1. CommentsFit' /\ AskersFit' /\ PagesFit'
  BY DEF QuestIInv, CommentsFit, AskersFit, PagesFit, Qids, Indices
<1>2. QidsDiffer' /\ OnePageEach' /\ AnsweredOnce'
  BY DEF QuestIInv, QidsDiffer, OnePageEach, AnsweredOnce, Indices
<1> QED BY <1>1, <1>2 DEF QuestIInv

\* The owner's mark: no row has another name, and what was owed still is.
LEMMA MarkFits ==
    ASSUME QuestIInv, OwnerMarks PROVE QuestIInv'
<1>1. PICK k \in DOMAIN pages, status \in {"answered", "obsolete"} :
         pages[k].status = "pending" /\ pages' = [pages EXCEPT ![k].status = status]
  BY DEF OwnerMarks
<1>2. UNCHANGED <<comments, askers, bridge, raced>>
  BY DEF OwnerMarks
<1>3. pages \in Seq(PageSet) /\ pages[k] \in PageSet
  BY DEF QuestIInv, PagesFit
<1>4. /\ [pages[k] EXCEPT !.status = status] \in PageSet
      /\ [pages[k] EXCEPT !.status = status].qid = pages[k].qid
  BY <1>3 DEF PageSet
<1>5. /\ pages' \in Seq(PageSet) /\ DOMAIN pages' = DOMAIN pages
      /\ \A i \in DOMAIN pages : pages'[i].qid = pages[i].qid /\ (i # k => pages'[i] = pages[i])
  <2> HIDE DEF PageSet
  <2> QED BY <1>1, <1>3, <1>4
<1>6. pages' # <<>> => pages # <<>>
  BY <1>5
<1>7. PagesFit' /\ OnePageEach'
  BY <1>2, <1>5, <1>6 DEF QuestIInv, PagesFit, OnePageEach
<1>8. MirrorFits'
  BY <1>2, <1>5 DEF QuestIInv, MirrorFits, Indices
<1>9. AnswersFit'
  <2>1. Owed \subseteq Owed'
    BY <1>1, <1>5 DEF Owed, IsAnswered
  <2>2. bridge.todo \subseteq DOMAIN pages =>
           {pages'[i].qid : i \in bridge.todo} = {pages[i].qid : i \in bridge.todo}
    BY <1>5
  <2>3. \A t : Unpaged(t)' = Unpaged(t) /\ Qids(t)' = Qids(t)
    BY <1>2, NamesStay
  <2>4. /\ bridge.since \in Nat /\ bridge.blind \in BOOLEAN
        /\ bridge.at \in Answering => bridge.since <= Len(comments)
        /\ bridge.at \in Answering => (pages' # <<>> => bridge.since > 0)
        /\ bridge.at \in {"rows", "answers"} => \A i \in DOMAIN comments :
              comments[i].since = bridge.since => bridge.since = 0
        /\ bridge.at \in {"answers", "post"} => bridge.todo \subseteq DOMAIN pages'
        /\ bridge.at = "rows" => bridge.owed \subseteq Owed'
        /\ bridge.at = "answers" => bridge.owed \subseteq {pages'[i].qid : i \in bridge.todo}
    BY <1>5, <1>6, <2>1, <2>2 DEF QuestIInv, AnswersFit
  <2>5. bridge.at = "post" =>
          /\ ~bridge.blind =>
                \A i \in Unpaged("answer") : i <= bridge.since => comments[i].qid \in bridge.answered
          /\ bridge.answered \subseteq Qids("answer")
          /\ bridge.owed \subseteq Qids("answer") \cup {pages'[i].qid : i \in bridge.todo}
          /\ ~raced => \A i \in DOMAIN comments, j \in bridge.todo :
                comments[i].since = bridge.since /\ bridge.since > 0
                   => comments[i].qid # pages'[j].qid
    <3>1. SUFFICES ASSUME bridge.at = "post"
                   PROVE  /\ ~bridge.blind => \A i \in Unpaged("answer") :
                                i <= bridge.since => comments[i].qid \in bridge.answered
                          /\ bridge.answered \subseteq Qids("answer")
                          /\ bridge.owed \subseteq Qids("answer") \cup {pages'[i].qid : i \in bridge.todo}
                          /\ ~raced => \A i \in DOMAIN comments, j \in bridge.todo :
                                comments[i].since = bridge.since /\ bridge.since > 0
                                   => comments[i].qid # pages'[j].qid
      OBVIOUS
    <3>2. bridge.todo \subseteq DOMAIN pages
      BY <3>1 DEF QuestIInv, AnswersFit
    <3>3. ASSUME ~raced, NEW i \in DOMAIN comments, NEW j \in bridge.todo,
                 comments[i].since = bridge.since, bridge.since > 0
          PROVE  comments[i].qid # pages'[j].qid
      <4>1. comments[i].qid # pages[j].qid
        BY <3>1, <3>3 DEF QuestIInv, AnswersFit
      <4> QED BY <4>1, <3>2, <1>5
    <3> QED BY <3>1, <3>2, <3>3, <2>2 DEF QuestIInv, AnswersFit
  <2> QED BY <1>2, <2>3, <2>4, <2>5 DEF AnswersFit
<1>10. /\ CommentsFit' /\ AskersFit' /\ QidsDiffer' /\ AnsweredOnce' /\ AnswerArrives'
       /\ DOMAIN bridge' = BridgeFields
  BY <1>2 DEF QuestIInv, CommentsFit, AskersFit, QidsDiffer, AnsweredOnce, AnswerArrives, Qids, Indices
<1> QED BY <1>7, <1>8, <1>9, <1>10 DEF QuestIInv

\* A run begins, with a half of its own, or is over.
LEMMA RunBegins ==
    ASSUME QuestIInv, BridgeStarts \/ BridgeFails
    PROVE  QuestIInv'
<1>1. UNCHANGED <<comments, askers, pages, raced>>
  BY DEF BridgeStarts, BridgeFails, Goes
<1>2. \/ bridge' = NoRun
      \/ \E m : bridge' = [NoRun EXCEPT !.at = "rows", !.mode = m,
                                        !.since = Len(comments), !.owed = Owed]
      \/ \E m : bridge' = [NoRun EXCEPT !.at = "questions", !.mode = m]
  BY Zenon DEF BridgeStarts, BridgeFails, Goes
<1>3. /\ DOMAIN bridge' = BridgeFields /\ bridge'.blind \in BOOLEAN
      /\ \/ bridge'.at = "idle" /\ bridge'.owed = {} /\ bridge'.since = 0
         \/ bridge'.at = "rows" /\ bridge'.owed = Owed /\ bridge'.since = Len(comments)
         \/ bridge'.at = "questions" /\ bridge'.owed = {} /\ bridge'.since = 0
  <2>1. CASE bridge' = NoRun
    BY <2>1 DEF NoRun, BridgeFields
  <2>2. ASSUME NEW m, bridge' = [NoRun EXCEPT !.at = "rows", !.mode = m,
                                              !.since = Len(comments), !.owed = Owed]
        PROVE  /\ DOMAIN bridge' = BridgeFields /\ bridge'.blind \in BOOLEAN
               /\ bridge'.at = "rows" /\ bridge'.owed = Owed /\ bridge'.since = Len(comments)
    BY <2>2 DEF NoRun, BridgeFields
  <2>3. ASSUME NEW m, bridge' = [NoRun EXCEPT !.at = "questions", !.mode = m]
        PROVE  /\ DOMAIN bridge' = BridgeFields /\ bridge'.blind \in BOOLEAN
               /\ bridge'.at = "questions" /\ bridge'.owed = {} /\ bridge'.since = 0
    BY <2>3 DEF NoRun, BridgeFields
  <2> QED BY <1>2, <2>1, <2>2, <2>3
<1>4. MirrorFits' /\ AnswerArrives'
  BY <1>3 DEF MirrorFits, AnswerArrives
<1>5. AnswersFit'
  <2>1. Len(comments) \in Nat /\ (pages # <<>> => Len(comments) > 0)
    BY DEF QuestIInv, CommentsFit, PagesFit
  <2>2. \A i \in DOMAIN comments : comments[i].since < i /\ i \in 1..Len(comments)
    BY DEF QuestIInv, CommentsFit
  <2>3. \A i \in DOMAIN comments : comments[i].since # Len(comments)
    <3> SUFFICES ASSUME NEW i \in DOMAIN comments, comments[i].since = Len(comments) PROVE FALSE
      OBVIOUS
    <3>1. Len(comments) < i /\ i <= Len(comments) /\ i \in Nat
      BY <2>1, <2>2
    <3> QED BY <3>1, <2>1
  <2>4. CASE bridge'.at = "rows"
    BY <2>1, <2>3, <2>4, <1>1, <1>3 DEF AnswersFit, Owed, Answering
  <2>5. CASE bridge'.at # "rows"
    BY <2>5, <1>1, <1>3 DEF AnswersFit, Answering
  <2> QED BY <2>4, <2>5
<1> QED BY <1>1, <1>3, <1>4, <1>5, BridgeGoes

LEMMA ReadingFits ==
    ASSUME QuestIInv, ReadsQuestions \/ IndexesPages PROVE QuestIInv'
<1>1. CASE ReadsQuestions
  <2>3. PICK found \in Read("question") : Goes([bridge EXCEPT !.at = "index", !.todo = found])
    BY <1>1 DEF ReadsQuestions
  <2>0. found \subseteq Indices("question")
    BY DEF Read, Unpaged
  <2>1. /\ UNCHANGED <<comments, askers, pages, raced>>
        /\ bridge' = [bridge EXCEPT !.at = "index", !.todo = found]
        /\ bridge.at = "questions"
    BY <1>1, <2>3 DEF ReadsQuestions, Goes
  <2>2. /\ DOMAIN bridge' = BridgeFields /\ bridge'.at = "index"
        /\ bridge'.todo = found /\ bridge'.owed = bridge.owed
        /\ bridge'.since = bridge.since /\ bridge'.blind = bridge.blind
    BY <2>1 DEF QuestIInv, BridgeFields
  <2>5. MirrorFits' /\ AnswerArrives'
    BY <2>0, <2>1, <2>2, NamesStay DEF MirrorFits, AnswerArrives
  <2>4. AnswersFit'
    BY <2>1, <2>2 DEF QuestIInv, AnswersFit, Answering
  <2> QED BY <2>1, <2>2, <2>4, <2>5, BridgeGoes
<1>2. CASE IndexesPages
  <2> DEFINE names == {pages[i].qid : i \in DOMAIN pages}
             found == [q \in names |-> CHOOSE i \in DOMAIN pages :
                                  /\ pages[i].qid = q
                                  /\ \A j \in DOMAIN pages : pages[j].qid = q => j <= i]
  <2>1. /\ UNCHANGED <<comments, askers, pages, raced>>
        /\ bridge' = [bridge EXCEPT !.at = "mirror", !.known = found]
        /\ bridge.at = "index"
    BY <1>2 DEF IndexesPages, Goes
  <2>2. ASSUME NEW q \in names
        PROVE  \E i \in DOMAIN pages : /\ pages[i].qid = q
                  /\ \A j \in DOMAIN pages : pages[j].qid = q => j <= i
    <3> DEFINE S == {Len(pages) - i : i \in {j \in DOMAIN pages : pages[j].qid = q}}
    <3>0. Len(pages) \in Nat /\ DOMAIN pages = 1..Len(pages)
      BY DEF QuestIInv, PagesFit
    <3>1. S \in SUBSET Nat /\ S # {}
      BY <3>0
    <3>2. \E n \in S : \A m \in S : n <= m
      <4> HIDE DEF S
      <4> QED BY <3>1, Smallest
    <3>3. PICK i \in DOMAIN pages : pages[i].qid = q
             /\ \A j \in DOMAIN pages : pages[j].qid = q => Len(pages) - i <= Len(pages) - j
      BY <3>2
    <3>4. \A j \in DOMAIN pages : pages[j].qid = q => j <= i
      BY <3>0, <3>3
    <3> QED BY <3>3, <3>4
  <2>3. ASSUME NEW q \in names PROVE found[q] \in DOMAIN pages
    BY <2>2, Zenon
  <2>4. DOMAIN found = names
    OBVIOUS
  <2>5. \A i \in DOMAIN pages : pages[i].qid \in names
    OBVIOUS
  <2> HIDE DEF found, names
  <2>6. /\ DOMAIN bridge' = BridgeFields /\ bridge'.at = "mirror" /\ bridge'.known = found
        /\ bridge'.todo = bridge.todo /\ bridge'.owed = bridge.owed
        /\ bridge'.since = bridge.since /\ bridge'.blind = bridge.blind
    BY <2>1 DEF QuestIInv, BridgeFields
  <2>7. MirrorFits'
    <3>1. bridge'.todo \subseteq Indices("question")'
      BY <2>1, <2>6, NamesStay DEF QuestIInv, MirrorFits
    <3> QED BY <2>1, <2>3, <2>4, <2>5, <2>6, <3>1 DEF MirrorFits
  <2>8. AnswersFit' /\ AnswerArrives'
    BY <2>1, <2>6 DEF QuestIInv, AnswersFit, Answering, AnswerArrives
  <2> QED BY <2>1, <2>6, <2>7, <2>8, BridgeGoes
<1> QED BY <1>1, <1>2

\* The row of a question is written over, or is the first of that name.
LEMMA MirrorStepFits ==
    ASSUME QuestIInv, Mirrors PROVE QuestIInv'
<1> DEFINE k == First(bridge.todo)
           q == comments[k].qid
<1>1. /\ bridge.at = "mirror" /\ bridge.todo # {}
      /\ bridge' = [bridge EXCEPT !.todo = @ \ {k}]
      /\ UNCHANGED <<comments, askers, raced>>
  BY DEF Mirrors
<1>2. pages' = IF q \in DOMAIN bridge.known
               THEN [pages EXCEPT ![bridge.known[q]].status = "pending"]
               ELSE Append(pages, [qid |-> q, status |-> "pending"])
  BY DEF Mirrors
<1>3. bridge.todo \subseteq Indices("question") /\ Indices("question") \subseteq DOMAIN comments
  BY <1>1 DEF QuestIInv, MirrorFits, Indices
<1>4. k \in bridge.todo
  <2>1. bridge.todo \in SUBSET Nat
    BY <1>3 DEF QuestIInv, CommentsFit
  <2> QED BY <1>1, <2>1, FirstIsLeft
<1> HIDE DEF k
<1>5. q \in Nat /\ comments # <<>>
  <2>1. comments \in Seq(CommentSet) /\ k \in DOMAIN comments
    BY <1>3, <1>4 DEF QuestIInv, CommentsFit
  <2>2. \A c \in CommentSet : c.qid \in Nat
    BY DEF CommentSet
  <2> HIDE DEF CommentSet
  <2> QED BY <2>1, <2>2
<1>6. pages \in Seq(PageSet) /\ Len(pages) \in Nat /\ DOMAIN pages = 1..Len(pages)
  BY DEF QuestIInv, PagesFit
<1>7. /\ DOMAIN bridge' = BridgeFields /\ bridge'.at = "mirror" /\ bridge'.todo = bridge.todo \ {k}
      /\ bridge'.known = bridge.known /\ bridge'.owed = bridge.owed /\ bridge'.since = bridge.since
      /\ bridge'.blind = bridge.blind
  BY <1>1 DEF QuestIInv, BridgeFields
<1>8. /\ pages' \in Seq(PageSet) /\ DOMAIN pages \subseteq DOMAIN pages'
      /\ \A i \in DOMAIN pages : pages'[i].qid = pages[i].qid
      /\ \A i \in DOMAIN pages' : i \notin DOMAIN pages =>
            i = Len(pages) + 1 /\ pages'[i].qid = q /\ q \notin DOMAIN bridge.known
  <2>1. CASE q \in DOMAIN bridge.known
    <3> DEFINE r == bridge.known[q]
    <3>1. r \in DOMAIN pages
      BY <2>1, <1>1 DEF QuestIInv, MirrorFits
    <3> HIDE DEF r
    <3>2. pages' = [pages EXCEPT ![r].status = "pending"]
      BY <2>1, <1>2 DEF r
    <3>3. pages[r] \in PageSet
      BY <3>1, <1>6
    <3>4. /\ [pages[r] EXCEPT !.status = "pending"] \in PageSet
          /\ [pages[r] EXCEPT !.status = "pending"].qid = pages[r].qid
      BY <3>3 DEF PageSet
    <3> HIDE DEF PageSet, q
    <3> QED BY <3>1, <3>2, <3>4, <1>6
  <2>2. CASE q \notin DOMAIN bridge.known
    <3> DEFINE new == [qid |-> q, status |-> "pending"]
    <3>1. new \in PageSet /\ new.qid = q
      BY <1>5 DEF PageSet
    <3>2. pages' = Append(pages, new)
      BY <2>2, <1>2
    <3> HIDE DEF PageSet, new, q
    <3> QED BY <3>1, <3>2, <1>6, <2>2
  <2> QED BY <2>1, <2>2
<1>9. PagesFit'
  BY <1>1, <1>5, <1>8 DEF PagesFit
<1>10. ASSUME ~raced
       PROVE  /\ \A i \in DOMAIN pages, j \in bridge.todo :
                    comments[j].qid = pages[i].qid => pages[i].qid \in DOMAIN bridge.known
              /\ \A i, j \in DOMAIN pages : pages[i].qid = pages[j].qid => i = j
              /\ \A j \in bridge.todo : comments[j].qid = q => j = k
  <2>1. \A j \in bridge.todo : comments[j].qid = q => j = k
    BY <1>3, <1>4, <1>10 DEF QuestIInv, QidsDiffer
  <2> QED BY <1>1, <1>10, <2>1 DEF QuestIInv, MirrorFits, OnePageEach
<1>11. OnePageEach'
  <2>1. ASSUME ~raced, NEW i \in DOMAIN pages', NEW j \in DOMAIN pages',
               pages'[i].qid = pages'[j].qid
        PROVE  i = j
    <3>1. \A m \in DOMAIN pages : pages[m].qid = q => q \in DOMAIN bridge.known
      BY <1>4, <1>10, <2>1
    <3> HIDE DEF q
    <3> QED BY <3>1, <2>1, <1>8, <1>10
  <2> QED BY <1>1, <2>1 DEF OnePageEach
<1>12. MirrorFits'
  <2>1. bridge'.todo \subseteq Indices("question")'
    BY <1>1, <1>3, <1>7, NamesStay
  <2>2. ASSUME ~raced, NEW i \in DOMAIN pages', NEW j \in bridge'.todo,
               comments[j].qid = pages'[i].qid
        PROVE  pages'[i].qid \in DOMAIN bridge.known
    <3>1. j \in bridge.todo /\ j # k
      BY <1>7
    <3>2. CASE i \in DOMAIN pages
      BY <3>1, <3>2, <2>2, <1>8, <1>10
    <3>3. CASE i \notin DOMAIN pages
      BY <3>1, <3>3, <2>2, <1>8, <1>10
    <3> QED BY <3>2, <3>3
  <2>3. \A n \in DOMAIN bridge.known : bridge.known[n] \in DOMAIN pages'
    BY <1>1, <1>8 DEF QuestIInv, MirrorFits
  <2> QED BY <1>1, <1>7, <2>1, <2>2, <2>3 DEF MirrorFits
<1>13. AnswersFit' /\ AnswerArrives'
  BY <1>1, <1>7 DEF QuestIInv, AnswersFit, Answering, AnswerArrives
<1>14. CommentsFit' /\ AskersFit' /\ QidsDiffer' /\ AnsweredOnce'
  BY <1>1 DEF QuestIInv, CommentsFit, AskersFit, QidsDiffer, AnsweredOnce, Qids, Indices
<1> QED BY <1>7, <1>9, <1>11, <1>12, <1>13, <1>14 DEF QuestIInv

LEMMA HalvesFit ==
    ASSUME QuestIInv, MirrorEnds \/ ReadsRows PROVE QuestIInv'
<1>1. CASE MirrorEnds
  <2>1. /\ UNCHANGED <<comments, askers, pages, raced>> /\ bridge.at = "mirror"
        /\ \/ bridge' = [bridge EXCEPT !.at = "rows", !.known = <<>>,
                                         !.since = Len(comments), !.owed = Owed]
           \/ bridge' = [NoRun EXCEPT !.at = "ended"]
    BY <1>1 DEF MirrorEnds, Goes
  <2>2. CASE bridge' = [NoRun EXCEPT !.at = "ended"]
    <3>1. /\ DOMAIN bridge' = BridgeFields /\ bridge'.at = "ended" /\ bridge'.owed = {}
          /\ bridge'.since = 0 /\ bridge'.blind \in BOOLEAN
      BY <2>2 DEF NoRun, BridgeFields
    <3>2. MirrorFits' /\ AnswersFit' /\ AnswerArrives'
      BY <3>1 DEF MirrorFits, AnswersFit, Answering, AnswerArrives
    <3> QED BY <2>1, <3>1, <3>2, BridgeGoes
  <2>3. CASE bridge' = [bridge EXCEPT !.at = "rows", !.known = <<>>,
                                       !.since = Len(comments), !.owed = Owed]
    <3>1. /\ DOMAIN bridge' = BridgeFields /\ bridge'.at = "rows" /\ bridge'.owed = Owed
          /\ bridge'.since = Len(comments) /\ bridge'.blind = bridge.blind
      BY <2>3 DEF QuestIInv, BridgeFields
    <3>2. bridge.blind \in BOOLEAN
      BY <2>1 DEF QuestIInv, AnswersFit
    <3>3. Len(comments) \in Nat /\ (pages # <<>> => Len(comments) > 0)
      BY DEF QuestIInv, CommentsFit, PagesFit
    <3>4. \A i \in DOMAIN comments : comments[i].since # Len(comments)
      <4> SUFFICES ASSUME NEW i \in DOMAIN comments, comments[i].since = Len(comments) PROVE FALSE
        OBVIOUS
      <4>1. comments[i].since < i /\ i <= Len(comments) /\ i \in Nat
        BY DEF QuestIInv, CommentsFit
      <4> QED BY <4>1, <3>3
    <3>5. MirrorFits' /\ AnswerArrives'
      BY <3>1 DEF MirrorFits, AnswerArrives
    <3>6. AnswersFit'
      BY <2>1, <3>1, <3>2, <3>3, <3>4 DEF AnswersFit, Answering, Owed
    <3> QED BY <2>1, <3>1, <3>5, <3>6, BridgeGoes
  <2> QED BY <2>1, <2>2, <2>3
<1>2. CASE ReadsRows
  <2> DEFINE found == {i \in DOMAIN pages : IsAnswered(pages[i])}
  <2>1. /\ UNCHANGED <<comments, askers, pages, raced>> /\ bridge.at = "rows"
        /\ bridge' = [bridge EXCEPT !.at = "answers", !.todo = found]
    BY <1>2 DEF ReadsRows, Goes
  <2>2. /\ DOMAIN bridge' = BridgeFields /\ bridge'.at = "answers" /\ bridge'.owed = bridge.owed
        /\ bridge'.since = bridge.since /\ bridge'.todo = found /\ bridge'.blind = bridge.blind
    BY <2>1 DEF QuestIInv, BridgeFields
  <2>3. bridge.owed \subseteq {pages[i].qid : i \in found}
    BY <2>1 DEF QuestIInv, AnswersFit, Owed
  <2>4. MirrorFits' /\ AnswerArrives'
    BY <2>2 DEF MirrorFits, AnswerArrives
  <2>5. AnswersFit'
    <3>1. found \subseteq DOMAIN pages
      OBVIOUS
    <3> HIDE DEF found
    <3> QED BY <2>1, <2>2, <2>3, <3>1 DEF QuestIInv, AnswersFit, Answering
  <2> QED BY <2>1, <2>2, <2>4, <2>5, BridgeGoes
<1> QED BY <1>1, <1>2

\* What has an answer is known when answering begins: of those there were when this
\* half began, the ones on the page.
LEMMA AnswersRead ==
    ASSUME QuestIInv, ReadsAnswers PROVE QuestIInv'
<1>0. PICK read \in Read("answer") :
         Goes([bridge EXCEPT !.at = "post", !.blind = read # Unpaged("answer"),
                             !.answered = {comments[i].qid : i \in read}])
  BY DEF ReadsAnswers
<1> DEFINE found == {comments[i].qid : i \in read}
           blind == read # Unpaged("answer")
<1>1. /\ UNCHANGED <<comments, askers, pages, raced>> /\ bridge.at = "answers"
      /\ bridge' = [bridge EXCEPT !.at = "post", !.blind = blind, !.answered = found]
  BY <1>0 DEF ReadsAnswers, Goes
<1>3. /\ found \subseteq Qids("answer")
      /\ ~blind => \A i \in Unpaged("answer") : comments[i].qid \in found
  BY DEF Read, Unpaged, Qids
<1> HIDE DEF found
<1>9. blind \in BOOLEAN
  BY Zenon
<1> HIDE DEF blind
<1>2. /\ DOMAIN bridge' = BridgeFields /\ bridge'.at = "post" /\ bridge'.owed = bridge.owed
      /\ bridge'.since = bridge.since /\ bridge'.todo = bridge.todo /\ bridge'.answered = found
      /\ bridge'.blind = blind
  BY <1>1 DEF QuestIInv, BridgeFields
<1>7. ~bridge'.blind => \A i \in Unpaged("answer") : comments[i].qid \in found
  BY <1>2, <1>3, Zenon
<1>8. bridge'.blind \in BOOLEAN
  BY <1>2, <1>9, Zenon
<1>4. MirrorFits' /\ AnswerArrives'
  BY <1>2 DEF MirrorFits, AnswerArrives
<1>5. \A t : Unpaged(t)' = Unpaged(t) /\ Qids(t)' = Qids(t)
  BY <1>1, NamesStay
<1>6. AnswersFit'
  <2>1. /\ bridge'.at = "post" /\ bridge'.owed = bridge.owed
        /\ bridge'.since = bridge.since /\ bridge'.todo = bridge.todo /\ bridge'.answered = found
    BY <1>2
  <2> QED BY <2>1, <1>1, <1>3, <1>5, <1>7, <1>8 DEF QuestIInv, AnswersFit, Answering
<1> QED BY <1>1, <1>2, <1>4, <1>6, BridgeGoes

LEMMA PostingEnds ==
    ASSUME QuestIInv, PostEnds PROVE QuestIInv'
<1>1. /\ UNCHANGED <<comments, askers, pages, raced>> /\ bridge.at = "post" /\ bridge.todo = {}
      /\ bridge' = [NoRun EXCEPT !.at = "ended", !.owed = bridge.owed]
  BY DEF PostEnds, Goes
<1>2. DOMAIN bridge' = BridgeFields /\ bridge'.at = "ended" /\ bridge'.owed = bridge.owed
      /\ bridge'.since = 0 /\ bridge'.blind \in BOOLEAN
  BY <1>1 DEF NoRun, BridgeFields
<1>3. bridge.owed \subseteq Qids("answer")
  BY <1>1 DEF QuestIInv, AnswersFit
<1>4. AnswerArrives'
  BY <1>1, <1>2, <1>3, NamesStay DEF AnswerArrives
<1>5. MirrorFits' /\ AnswersFit'
  BY <1>2 DEF MirrorFits, AnswersFit, Answering
<1> QED BY <1>1, <1>2, <1>4, <1>5, BridgeGoes

\* An answer that was there is passed over; another is posted, after which no row of
\* that name is left.
LEMMA AnswerFits ==
    ASSUME QuestIInv, PostsAnswer, MaxComments \in Nat PROVE QuestIInv'
<1> DEFINE k == First(bridge.todo)
           q == pages[k].qid
<1>1. /\ bridge.at = "post" /\ bridge.todo # {}
      /\ bridge' = [bridge EXCEPT !.todo = @ \ {k}]
      /\ UNCHANGED <<askers, pages, raced>>
      /\ IF q \in bridge.answered THEN UNCHANGED comments
                                  ELSE Posts(Comment("answer", q, bridge.since, bridge.blind))
  BY DEF PostsAnswer
<1>2. /\ bridge.todo \subseteq DOMAIN pages
      /\ ~bridge.blind =>
            \A i \in Unpaged("answer") : i <= bridge.since => comments[i].qid \in bridge.answered
      /\ bridge.answered \subseteq Qids("answer")
      /\ bridge.owed \subseteq Qids("answer") \cup {pages[j].qid : j \in bridge.todo}
      /\ ~raced => \A i \in DOMAIN comments, j \in bridge.todo :
            comments[i].since = bridge.since /\ bridge.since > 0 => comments[i].qid # pages[j].qid
      /\ bridge.since \in Nat /\ bridge.since <= Len(comments) /\ bridge.blind \in BOOLEAN
      /\ pages # <<>> => bridge.since > 0
  BY <1>1 DEF QuestIInv, AnswersFit, Answering
<1>3. k \in bridge.todo
  <2>1. bridge.todo \in SUBSET Nat
    BY <1>2 DEF QuestIInv, PagesFit
  <2> QED BY <1>1, <2>1, FirstIsLeft
<1> HIDE DEF k
<1>4. /\ DOMAIN bridge' = BridgeFields /\ bridge'.at = "post" /\ bridge'.todo = bridge.todo \ {k}
      /\ bridge'.answered = bridge.answered /\ bridge'.owed = bridge.owed
      /\ bridge'.since = bridge.since /\ bridge'.blind = bridge.blind
  BY <1>1 DEF QuestIInv, BridgeFields
<1>5. q \in Nat /\ k \in DOMAIN pages /\ bridge.since > 0
  <2>1. pages \in Seq(PageSet) /\ k \in DOMAIN pages
    BY <1>2, <1>3 DEF QuestIInv, PagesFit
  <2>2. \A p \in PageSet : p.qid \in Nat
    BY DEF PageSet
  <2>3. pages # <<>>
    BY <2>1
  <2> HIDE DEF PageSet
  <2> QED BY <2>1, <2>2, <2>3, <1>2
<1>6. MirrorFits' /\ AnswerArrives' /\ OnePageEach'
  BY <1>1, <1>4 DEF QuestIInv, MirrorFits, AnswerArrives, OnePageEach
<1>7. ASSUME NEW S, q \in S, bridge.owed \subseteq S \cup {pages[j].qid : j \in bridge.todo}
      PROVE  bridge.owed \subseteq S \cup {pages[j].qid : j \in bridge.todo \ {k}}
  BY <1>7
<1>8. CASE q \in bridge.answered
  <2>1. UNCHANGED comments
    BY <1>1, <1>8
  <2>2. \A t : Unpaged(t)' = Unpaged(t) /\ Qids(t)' = Qids(t)
    BY <2>1, NamesStay
  <2>3. bridge.owed \subseteq Qids("answer") \cup {pages[j].qid : j \in bridge.todo \ {k}}
    BY <1>2, <1>7, <1>8
  <2>4. ~raced => \A i \in DOMAIN comments, j \in bridge.todo \ {k} :
            comments[i].since = bridge.since /\ bridge.since > 0 => comments[i].qid # pages[j].qid
    BY <1>2
  <2> HIDE DEF q
  <2>5. AnswersFit'
    BY <1>1, <1>2, <1>4, <2>1, <2>2, <2>3, <2>4 DEF AnswersFit
  <2> QED BY <1>1, <2>1, <1>4, <1>6, <2>5, BridgeGoes DEF QuestIInv
<1>9. CASE q \notin bridge.answered
  <2>1. PICK c : /\ c = Comment("answer", q, bridge.since, bridge.blind) /\ c \in CommentSet
                 /\ c.type = "answer" /\ c.qid = q /\ c.since = bridge.since /\ c.blind = bridge.blind
    <3> DEFINE new == Comment("answer", q, bridge.since, bridge.blind)
    <3>1. /\ new \in CommentSet /\ new.type = "answer" /\ new.qid = q /\ new.since = bridge.since
          /\ new.blind = bridge.blind
      BY <1>2, <1>5 DEF Comment, CommentSet
    <3> HIDE DEF new, q
    <3>2. \E c : /\ c = new /\ c \in CommentSet /\ c.type = "answer" /\ c.qid = q
                /\ c.since = bridge.since /\ c.blind = bridge.blind
      BY <3>1, Zenon
    <3> QED BY <3>2, Zenon DEF new
  <2>2. Posts(c)
    BY <1>1, <1>9, <2>1
  <2>3. CommentsFit' /\ Grown(c)
    BY <1>2, <2>1, <2>2, CommentsGrow DEF QuestIInv
  <2>4. /\ Qids("question") \subseteq Qids("question")' /\ Qids("answer") \subseteq Qids("answer")'
        /\ Indices("question")' = Indices("question")
        /\ Indices("answer") \subseteq Indices("answer")'
        /\ \A i \in Indices("answer")' : i \notin Indices("answer") => i = Len(comments) + 1
    BY <2>1, <2>3, NamesGrow
  <2>5. /\ Len(comments) \in Nat /\ comments'[Len(comments) + 1] = c
        /\ Len(comments) + 1 \in DOMAIN comments' /\ Len(comments') = Len(comments) + 1
        /\ \A i \in DOMAIN comments : comments'[i] = comments[i] /\ i <= Len(comments) /\ i \in Nat
        /\ \A i \in DOMAIN comments' : i \in DOMAIN comments \/ i = Len(comments) + 1
    BY <2>3 DEF Grown
  <2>6. \A t : Indices(t) \subseteq DOMAIN comments
    BY DEF Indices
  <2>7. q \in Qids("answer")'
    BY <2>1, <2>5 DEF Qids, Indices
  <2>8. QidsDiffer'
    <3>1. \A i \in Indices("question") : comments'[i] = comments[i]
      BY <2>5, <2>6
    <3> QED BY <1>1, <2>4, <3>1 DEF QuestIInv, QidsDiffer
  <2>9. AnsweredOnce'
    <3>1. ASSUME ~raced, NEW i \in Indices("answer")', NEW j \in Indices("answer")',
                 i < j, comments'[i].qid = comments'[j].qid
          PROVE  /\ i <= FirstPage /\ ~comments'[j].blind => i > comments'[j].since
                 /\ comments'[i].since = comments'[j].since => comments'[j].since = 0
      <4>1. i \in Indices("answer") /\ comments'[i] = comments[i]
        <5>1. i # Len(comments) + 1
          <6>1. j <= Len(comments) + 1 /\ j \in Nat
            BY <2>4, <2>5, <2>6
          <6> QED BY <6>1, <3>1, <2>5
        <5> QED BY <5>1, <2>4, <2>5, <2>6
      <4>2. CASE j \in Indices("answer")
        BY <4>1, <4>2, <3>1, <2>5, <2>6 DEF QuestIInv, AnsweredOnce
      <4>3. CASE j \notin Indices("answer")
        <5>1. /\ comments'[j].qid = q /\ comments'[j].since = bridge.since
              /\ comments'[j].blind = bridge.blind
          BY <4>3, <2>1, <2>4, <2>5
        <5>2. ASSUME i <= FirstPage, ~bridge.blind PROVE i > bridge.since
          <6>1. i \in Unpaged("answer")
            BY <4>1, <5>2 DEF Unpaged
          <6>2. ~(i <= bridge.since)
            BY <5>2, <6>1, <5>1, <4>1, <3>1, <1>2, <1>9
          <6>3. i \in Nat
            BY <4>1, <2>5, <2>6
          <6> QED BY <6>2, <6>3, <1>2
        <5>3. comments[i].since # bridge.since
          BY <4>1, <5>1, <3>1, <1>2, <1>3, <1>5, <2>6
        <5> QED BY <5>1, <5>2, <5>3, <4>1
      <4> QED BY <4>2, <4>3
    <3> QED BY <1>1, <3>1 DEF AnsweredOnce
  <2>10. AnswersFit'
    <3>1. ASSUME ~bridge.blind, NEW i \in Unpaged("answer")', i <= bridge.since
          PROVE  comments'[i].qid \in bridge.answered
      <4>1. i \in Indices("answer")' /\ i <= FirstPage
        BY DEF Unpaged
      <4>2. i \in Indices("answer")
        BY <3>1, <4>1, <1>2, <2>4, <2>5
      <4>3. i \in Unpaged("answer") /\ comments'[i] = comments[i]
        BY <4>1, <4>2, <2>5, <2>6 DEF Unpaged
      <4> QED BY <3>1, <4>3, <1>2
    <3>2. bridge.answered \subseteq Qids("answer")'
      BY <1>2, <2>4
    <3>3. bridge.owed \subseteq Qids("answer")' \cup {pages[j].qid : j \in bridge.todo \ {k}}
      <4>1. bridge.owed \subseteq Qids("answer")' \cup {pages[j].qid : j \in bridge.todo}
        BY <1>2, <2>4
      <4> QED BY <4>1, <2>7, <1>7
    <3>4. ASSUME ~raced, NEW i \in DOMAIN comments', NEW j \in bridge.todo \ {k},
                 comments'[i].since = bridge.since
          PROVE  comments'[i].qid # pages[j].qid
      <4>1. CASE i \in DOMAIN comments
        BY <4>1, <3>4, <1>2, <1>5, <2>5
      <4>2. CASE i \notin DOMAIN comments
        <5>1. comments'[i].qid = q
          BY <4>2, <2>1, <2>5
        <5>2. pages[j].qid # q
          BY <3>4, <1>2, <1>5 DEF QuestIInv, OnePageEach
        <5> QED BY <5>1, <5>2
      <4> QED BY <4>1, <4>2
    <3>5. bridge.since <= Len(comments')
      BY <1>2, <2>5
    <3> HIDE DEF q
    <3> QED BY <1>1, <1>2, <1>4, <3>1, <3>2, <3>3, <3>4, <3>5 DEF AnswersFit
  <2>11. AskersFit' /\ PagesFit'
    <3>1. comments' # <<>>
      BY <2>5
    <3> QED BY <1>1, <2>4, <3>1, AskersKeep DEF QuestIInv, PagesFit
  <2> QED BY <1>4, <1>6, <2>3, <2>8, <2>9, <2>10, <2>11 DEF QuestIInv
<1> QED BY <1>8, <1>9

LEMMA QuestStep ==
    ASSUME QuestIInv, [QuestionsNext]_questionVars, QuestionsAssumption
    PROVE  QuestIInv'
<1>0. MaxComments \in Nat
  BY DEF QuestionsAssumption
<1>1. CASE UNCHANGED questionVars
  <2>1. UNCHANGED <<comments, askers, pages, bridge, raced>>
    BY <1>1 DEF questionVars
  <2>2. MirrorFits' /\ AnswersFit' /\ AnswerArrives' /\ DOMAIN bridge' = BridgeFields
    BY <2>1 DEF QuestIInv, MirrorFits, AnswersFit, AnswerArrives, Indices, Unpaged, Qids, Owed, IsAnswered
  <2> QED BY <2>1, <2>2, BridgeGoes
<1>2. CASE (\E a \in Askers : AskReads(a) \/ AskPosts(a) \/ AskGivesUp(a)) \/ OwnerSpeaks
  BY <1>0, <1>2, QuestionOrWord
<1>3. CASE OwnerMarks
  BY <1>3, MarkFits
<1>4. CASE BridgeStarts \/ BridgeFails
  BY <1>4, RunBegins
<1>5. CASE ReadsQuestions \/ IndexesPages
  BY <1>5, ReadingFits
<1>6. CASE Mirrors
  BY <1>6, MirrorStepFits
<1>7. CASE MirrorEnds \/ ReadsRows
  BY <1>7, HalvesFit
<1>8. CASE ReadsAnswers
  BY <1>8, AnswersRead
<1>9. CASE PostsAnswer
  BY <1>0, <1>9, AnswerFits
<1>10. CASE PostEnds
  BY <1>10, PostingEnds
<1> QED BY <1>1, <1>2, <1>3, <1>4, <1>5, <1>6, <1>7, <1>8, <1>9, <1>10
        DEF QuestionsNext, BridgeStep

LEMMA QuestIsSafe ==
    ASSUME QuestIInv PROVE QuestionsInv
BY DEF QuestIInv, QuestionsInv

-----------------------------------------------------------------------------
(* The issues made from a file.                                            *)

IssueSet == [entry : Entries, titled : BOOLEAN, keyed : BOOLEAN, item : BOOLEAN,
             fields : SUBSET (1..NFields), twin : BOOLEAN, excused : BOOLEAN]
ScriptSet == [at : {"idle", "ended", "list", "create", "add", "resolve", "fields", "plan", "update"},
              delta : BOOLEAN, entries : Seq(Entries), todo : SUBSET Nat,
              made : Nat, target : Nat, nth : Nat, failed : BOOLEAN, updated : BOOLEAN]

BacklogTypes == issues \in Seq(IssueSet) /\ script \in ScriptSet /\ prefixed \in BOOLEAN

TitlesDiffer == \A i, j \in DOMAIN issues :
    issues[i].titled /\ issues[j].titled /\ issues[i].entry = issues[j].entry => i = j

Making == {"add", "resolve", "fields"}

\* What is still to be created is not there; of a file nothing is forgotten.
CreateFits ==
    /\ script.at \in Making \cup {"list", "create"} =>
          \A m, n \in DOMAIN script.entries : script.entries[m] = script.entries[n] => m = n
    /\ script.at \in Making \cup {"create"} =>
          /\ script.todo \subseteq DOMAIN script.entries
          /\ \A n \in script.todo : ~HasIssue(script.delta, script.entries[n])
          /\ ~prefixed /\ ~script.failed => \A n \in DOMAIN script.entries :
                n \in script.todo \/ \E i \in DOMAIN issues : issues[i].entry = script.entries[n]

\* The issue just made is the one of its title, and has the fields set so far.
MadeFits ==
    /\ script.at \notin Making => script.made = 0
    /\ script.at \in Making =>
          /\ script.made \in DOMAIN issues
          /\ issues[script.made].keyed <=> script.delta
          /\ \A j \in DOMAIN issues :
                issues[j].titled /\ issues[j].entry = issues[script.made].entry => j = script.made
    /\ script.at = "resolve" => script.delta /\ script.nth = 1
    /\ script.at = "fields" =>
          /\ script.delta /\ script.target = script.made /\ issues[script.made].item
          /\ script.nth \in 1..(NFields + 1)
          /\ issues[script.made].excused \/ 1..(script.nth - 1) \subseteq issues[script.made].fields

\* What is not yet updated is still to be.
UpdateFits == script.at = "update" =>
    /\ script.todo \subseteq DOMAIN issues /\ script.nth \in 1..NFields
    /\ ~script.failed =>
          /\ \A i \in DOMAIN issues : issues[i].item /\ issues[i].titled =>
                i \in script.todo \/ issues[i].fields = 1..NFields
          /\ script.todo # {} => 1..(script.nth - 1) \subseteq issues[NextItem].fields

BacklogIInv ==
    /\ BacklogTypes /\ TitlesDiffer /\ CreateFits /\ MadeFits /\ UpdateFits
    /\ OneIssueEach /\ IncompleteIsTold /\ NothingIsLeftOut /\ UpdateCompletes

-----------------------------------------------------------------------------
(* What happens to the issues that are there: they keep their entry and     *)
(* their key; a title is only lost, a field only won.                       *)

IssuesKeep ==
    /\ issues' \in Seq(IssueSet) /\ DOMAIN issues' = DOMAIN issues
    /\ \A i \in DOMAIN issues :
          /\ issues'[i].entry = issues[i].entry
          /\ issues'[i].keyed = issues[i].keyed /\ issues'[i].twin = issues[i].twin
          /\ issues'[i].titled => issues[i].titled
          /\ issues[i].keyed /\ issues[i].excused => issues'[i].excused
          /\ issues[i].fields \subseteq issues'[i].fields

LEMMA Untouched ==
    ASSUME BacklogTypes, UNCHANGED issues
    PROVE  IssuesKeep
BY DEF IssuesKeep, BacklogTypes

LEMMA OneEdited ==
    ASSUME BacklogTypes, NEW i \in DOMAIN issues, NEW r \in IssueSet,
           issues' = [issues EXCEPT ![i] = r],
           r.entry = issues[i].entry, r.keyed = issues[i].keyed, r.twin = issues[i].twin,
           r.titled => issues[i].titled,
           issues[i].keyed /\ issues[i].excused => r.excused,
           issues[i].fields \subseteq r.fields
    PROVE  /\ IssuesKeep /\ issues'[i] = r
           /\ \A j \in DOMAIN issues : j # i => issues'[j] = issues[j]
<1>1. issues \in Seq(IssueSet)
  BY DEF BacklogTypes
<1>2. issues' \in Seq(IssueSet) /\ DOMAIN issues' = DOMAIN issues
  BY <1>1
<1>3. issues'[i] = r /\ \A j \in DOMAIN issues : j # i => issues'[j] = issues[j]
  BY <1>1
<1>4. \A j \in DOMAIN issues : j = i \/ issues'[j] = issues[j]
  BY <1>3, Zenon
<1> QED BY <1>2, <1>3, <1>4, Zenon DEF IssuesKeep

\* An issue, and its attributes.
LEMMA IssueTypes ==
    ASSUME NEW r \in IssueSet
    PROVE  /\ r.entry \in Entries /\ r.titled \in BOOLEAN /\ r.keyed \in BOOLEAN
           /\ r.item \in BOOLEAN /\ r.fields \in SUBSET (1..NFields)
           /\ r.twin \in BOOLEAN /\ r.excused \in BOOLEAN
BY DEF IssueSet

LEMMA IssueIs ==
    ASSUME BacklogTypes, NEW i \in DOMAIN issues
    PROVE  issues[i] \in IssueSet /\ i \in Nat /\ i \in 1..Len(issues) /\ Len(issues) \in Nat
BY DEF BacklogTypes

\* As long as the lists hold everything.
LEMMA WholeIs ==
    ASSUME BacklogTypes, Whole
    PROVE  /\ Recent = DOMAIN issues
           /\ \A shown \in Boards : shown = {i \in DOMAIN issues : issues[i].item}
<1>1. \A i \in DOMAIN issues : i \in 1..Len(issues) /\ Len(issues) \in Nat
  BY IssueIs, Zenon
<1>2. \A i \in DOMAIN issues : Len(issues) < i + ListLimit
  BY <1>1, BacklogAssumption DEF Whole
<1>3. Recent = DOMAIN issues
  BY <1>2 DEF Recent
<1>4. \A shown \in Boards : shown = {i \in DOMAIN issues : issues[i].item}
  BY Zenon DEF Boards
<1> QED BY <1>3, <1>4, Zenon

-----------------------------------------------------------------------------
(* What follows of it.                                                      *)

LEMMA TitlesStayApart ==
    ASSUME IssuesKeep, TitlesDiffer
    PROVE  TitlesDiffer'
BY Zenon DEF IssuesKeep, TitlesDiffer

LEMMA NoTwinComes ==
    ASSUME IssuesKeep, OneIssueEach
    PROVE  OneIssueEach'
<1>1. \A i \in DOMAIN issues' : issues'[i].twin = issues[i].twin /\ i \in DOMAIN issues
  BY Zenon DEF IssuesKeep
<1> QED BY <1>1, Zenon DEF OneIssueEach

\* A script on its way through its entries.
LEMMA GoesOnCreating ==
    ASSUME IssuesKeep, CreateFits, UNCHANGED prefixed,
           script.at \in Making \cup {"create"}, script'.at \in Making \cup {"create"},
           script'.entries = script.entries, script'.todo = script.todo,
           script'.delta = script.delta, script.failed => script'.failed
    PROVE  CreateFits'
<1>1. \A m, n \in DOMAIN script.entries : script.entries[m] = script.entries[n] => m = n
  BY DEF CreateFits
<1>2. /\ script.todo \subseteq DOMAIN script.entries
      /\ \A n \in script.todo : ~HasIssue(script.delta, script.entries[n])
      /\ ~prefixed /\ ~script.failed => \A n \in DOMAIN script.entries :
            n \in script.todo \/ \E i \in DOMAIN issues : issues[i].entry = script.entries[n]
  BY Zenon DEF CreateFits
<1>3. \A n \in script.todo : ~\E i \in DOMAIN issues' :
         issues'[i].entry = script.entries[n] /\ (issues'[i].titled \/ (script.delta /\ issues'[i].keyed))
  <2>1. SUFFICES ASSUME NEW n \in script.todo, NEW i \in DOMAIN issues',
                        issues'[i].entry = script.entries[n],
                        issues'[i].titled \/ (script.delta /\ issues'[i].keyed)
                 PROVE  FALSE
    BY Zenon
  <2>2. i \in DOMAIN issues /\ issues[i].entry = script.entries[n]
        /\ (issues[i].titled \/ (script.delta /\ issues[i].keyed))
    BY <2>1, Zenon DEF IssuesKeep
  <2> QED BY <1>2, <2>2, Zenon DEF HasIssue
<1>4. \A n \in script'.todo : ~\E i \in DOMAIN issues' :
         issues'[i].entry = script'.entries[n] /\ (issues'[i].titled \/ (script'.delta /\ issues'[i].keyed))
  BY <1>3
<1>5. \A n \in DOMAIN script.entries :
         (\E i \in DOMAIN issues : issues[i].entry = script.entries[n])
         => \E i \in DOMAIN issues' : issues'[i].entry = script.entries[n]
  BY Zenon DEF IssuesKeep
<1>6. ~prefixed' /\ ~script'.failed => \A n \in DOMAIN script'.entries :
         n \in script'.todo \/ \E i \in DOMAIN issues' : issues'[i].entry = script'.entries[n]
  BY <1>2, <1>5
<1>7. \A m, n \in DOMAIN script'.entries : script'.entries[m] = script'.entries[n] => m = n
  BY <1>1
<1>8. script'.todo \subseteq DOMAIN script'.entries
  BY <1>2
<1> QED BY <1>4, <1>6, <1>7, <1>8, Zenon DEF CreateFits, HasIssue

\* The issue that is being made stays the only one under its title.
LEMMA StaysAlone ==
    ASSUME IssuesKeep, NEW i \in DOMAIN issues,
           \A j \in DOMAIN issues : issues[j].titled /\ issues[j].entry = issues[i].entry => j = i
    PROVE  \A j \in DOMAIN issues' : issues'[j].titled /\ issues'[j].entry = issues'[i].entry => j = i
BY Zenon DEF IssuesKeep

\* What was told, or complete, is so still.
LEMMA StillTold ==
    ASSUME IssuesKeep, IncompleteIsTold,
           NEW i \in DOMAIN issues, script.made # i,
           issues'[i].item = issues[i].item, issues'[i].keyed
    PROVE  issues'[i].excused \/ (issues'[i].item /\ issues'[i].fields = 1..NFields)
<1>1. issues'[i] \in IssueSet
  BY DEF IssuesKeep
<1>2. issues'[i].fields \subseteq 1..NFields
  BY <1>1, IssueTypes, Zenon
<1>3. issues[i].keyed /\ issues[i].fields \subseteq issues'[i].fields
  BY Zenon DEF IssuesKeep
<1>4. issues[i].excused => issues'[i].excused
  BY <1>3, Zenon DEF IssuesKeep
<1>5. issues[i].excused \/ (issues[i].item /\ issues[i].fields = 1..NFields)
  BY <1>3, Zenon DEF IncompleteIsTold
<1> QED BY <1>2, <1>3, <1>4, <1>5

\* The edits of the scripts: the issue is put on the board, is given a field, or is
\* what the failures that are listed are about.
LEMMA PutsOn ==
    ASSUME BacklogTypes, NEW i \in DOMAIN issues, NEW added \in BOOLEAN,
           issues' = [issues EXCEPT ![i].item = added]
    PROVE  /\ IssuesKeep /\ issues'[i].item = added /\ issues'[i].excused = issues[i].excused
           /\ issues'[i].fields = issues[i].fields
           /\ \A j \in DOMAIN issues : j # i => issues'[j] = issues[j]
<1> DEFINE r == [issues[i] EXCEPT !.item = added]
<1>1. issues[i] \in IssueSet
  BY IssueIs
<1>2. /\ r \in IssueSet /\ r.entry = issues[i].entry /\ r.keyed = issues[i].keyed
      /\ r.twin = issues[i].twin /\ r.titled = issues[i].titled
      /\ r.excused = issues[i].excused /\ r.fields = issues[i].fields /\ r.item = added
  BY <1>1 DEF IssueSet
<1>3. issues' = [issues EXCEPT ![i] = r]
  OBVIOUS
<1> HIDE DEF r
<1>4. r.titled => issues[i].titled
  BY <1>2, Zenon
<1>5. issues[i].keyed /\ issues[i].excused => r.excused
  BY <1>2, Zenon
<1>6. issues[i].fields \subseteq r.fields
  BY <1>2
<1>7. /\ IssuesKeep /\ issues'[i] = r
      /\ \A j \in DOMAIN issues : j # i => issues'[j] = issues[j]
  BY <1>2, <1>3, <1>4, <1>5, <1>6, OneEdited, Zenon
<1> QED BY <1>2, <1>7, Zenon

LEMMA SetsOne ==
    ASSUME BacklogTypes, NEW i \in DOMAIN issues, NEW f \in 1..NFields,
           issues' = [issues EXCEPT ![i].fields = @ \cup {f}]
    PROVE  /\ IssuesKeep /\ issues'[i].item = issues[i].item
           /\ issues'[i].excused = issues[i].excused
           /\ issues'[i].titled = issues[i].titled
           /\ issues'[i].fields = issues[i].fields \cup {f}
           /\ \A j \in DOMAIN issues : j # i => issues'[j] = issues[j]
<1> DEFINE r == [issues[i] EXCEPT !.fields = @ \cup {f}]
<1>1. issues[i] \in IssueSet
  BY IssueIs
<1>2. /\ r \in IssueSet /\ r.entry = issues[i].entry /\ r.keyed = issues[i].keyed
      /\ r.twin = issues[i].twin /\ r.titled = issues[i].titled
      /\ r.excused = issues[i].excused /\ r.fields = issues[i].fields \cup {f}
      /\ r.item = issues[i].item
  BY <1>1 DEF IssueSet
<1>3. issues' = [issues EXCEPT ![i] = r]
  OBVIOUS
<1> HIDE DEF r
<1>4. r.titled => issues[i].titled
  BY <1>2, Zenon
<1>5. issues[i].keyed /\ issues[i].excused => r.excused
  BY <1>2, Zenon
<1>6. issues[i].fields \subseteq r.fields
  BY <1>2
<1>7. /\ IssuesKeep /\ issues'[i] = r
      /\ \A j \in DOMAIN issues : j # i => issues'[j] = issues[j]
  BY <1>2, <1>3, <1>4, <1>5, <1>6, OneEdited, Zenon
<1> QED BY <1>2, <1>7, Zenon

LEMMA IsExcused ==
    ASSUME BacklogTypes, NEW i \in DOMAIN issues, issues' = Excuse(i)
    PROVE  /\ IssuesKeep /\ issues'[i].item = issues[i].item
           /\ issues'[i].excused = issues[i].keyed
           /\ issues'[i].fields = issues[i].fields
           /\ \A j \in DOMAIN issues : j # i => issues'[j] = issues[j]
<1> DEFINE r == [issues[i] EXCEPT !.excused = issues[i].keyed]
<1>1. issues[i] \in IssueSet
  BY IssueIs
<1>2. /\ r \in IssueSet /\ r.entry = issues[i].entry /\ r.keyed = issues[i].keyed
      /\ r.twin = issues[i].twin /\ r.titled = issues[i].titled
      /\ r.excused = issues[i].keyed /\ r.fields = issues[i].fields
      /\ r.item = issues[i].item
  BY <1>1 DEF IssueSet
<1>3. issues' = [issues EXCEPT ![i] = r]
  BY DEF Excuse
<1> HIDE DEF r
<1>4. r.titled => issues[i].titled
  BY <1>2, Zenon
<1>5. issues[i].keyed /\ issues[i].excused => r.excused
  BY <1>2, Zenon
<1>6. issues[i].fields \subseteq r.fields
  BY <1>2
<1>7. /\ IssuesKeep /\ issues'[i] = r
      /\ \A j \in DOMAIN issues : j # i => issues'[j] = issues[j]
  BY <1>2, <1>3, <1>4, <1>5, <1>6, OneEdited, Zenon
<1> QED BY <1>2, <1>7, Zenon

\* Both at once.
LEMMA IsExcusedAndSet ==
    ASSUME BacklogTypes, NEW i \in DOMAIN issues, NEW f \in 1..NFields,
           issues' = [Excuse(i) EXCEPT ![i].fields = @ \cup {f}]
    PROVE  /\ IssuesKeep /\ issues'[i].item = issues[i].item
           /\ issues'[i].excused = issues[i].keyed
           /\ \A j \in DOMAIN issues : j # i => issues'[j] = issues[j]
<1> DEFINE r == [issues[i] EXCEPT !.excused = issues[i].keyed, !.fields = @ \cup {f}]
<1>1. issues[i] \in IssueSet
  BY IssueIs
<1>2. /\ r \in IssueSet /\ r.entry = issues[i].entry /\ r.keyed = issues[i].keyed
      /\ r.twin = issues[i].twin /\ r.titled = issues[i].titled
      /\ r.excused = issues[i].keyed /\ r.fields = issues[i].fields \cup {f}
      /\ r.item = issues[i].item
  BY <1>1 DEF IssueSet
<1>3. issues' = [issues EXCEPT ![i] = r]
  BY DEF Excuse
<1> HIDE DEF r
<1>4. r.titled => issues[i].titled
  BY <1>2, Zenon
<1>5. issues[i].keyed /\ issues[i].excused => r.excused
  BY <1>2, Zenon
<1>6. issues[i].fields \subseteq r.fields
  BY <1>2
<1>7. /\ IssuesKeep /\ issues'[i] = r
      /\ \A j \in DOMAIN issues : j # i => issues'[j] = issues[j]
  BY <1>2, <1>3, <1>4, <1>5, <1>6, OneEdited, Zenon
<1> QED BY <1>2, <1>7, Zenon

-----------------------------------------------------------------------------
(* The steps of a run that creates.                                         *)

LEMMA OnToNext ==
    ASSUME BacklogIInv, IssuesKeep, script.at \in Making,
           NEW failing \in BOOLEAN, NextEntry(failing),
           \A j \in DOMAIN issues : j # script.made => issues'[j] = issues[j],
           issues'[script.made].keyed =>
              issues'[script.made].excused
              \/ (issues'[script.made].item /\ issues'[script.made].fields = 1..NFields)
    PROVE  BacklogIInv'
<1> USE DEF BacklogIInv
<1>1. /\ script' \in ScriptSet /\ script'.at = "create" /\ script'.made = 0
      /\ script'.entries = script.entries /\ script'.todo = script.todo
      /\ script'.delta = script.delta
      /\ UNCHANGED prefixed
  BY DEF NextEntry, Continues, BacklogTypes, ScriptSet
<1>2. script.failed => script'.failed
  BY DEF NextEntry, Continues, BacklogTypes, ScriptSet
<1>3. BacklogTypes'
  BY <1>1 DEF BacklogTypes, IssuesKeep
<1>4. TitlesDiffer' /\ OneIssueEach'
  BY TitlesStayApart, NoTwinComes, Zenon
<1>5. CreateFits'
  BY <1>1, <1>2, GoesOnCreating, Zenon
<1>6. MadeFits'
  BY <1>1 DEF MadeFits, Making
<1>7. UpdateFits' /\ NothingIsLeftOut' /\ UpdateCompletes'
  BY <1>1 DEF UpdateFits, NothingIsLeftOut, UpdateCompletes
<1>8. IncompleteIsTold'
  <2>1. SUFFICES ASSUME NEW i \in DOMAIN issues', issues'[i].keyed
                 PROVE  issues'[i].excused \/ (issues'[i].item /\ issues'[i].fields = 1..NFields)
    BY Zenon DEF IncompleteIsTold
  <2>2. i \in DOMAIN issues
    BY DEF IssuesKeep
  <2>3. CASE i = script.made
    BY <2>1, <2>3, Zenon
  <2>4. CASE i # script.made
    <3>1. issues'[i] = issues[i]
      BY <2>2, <2>4, Zenon
    <3>2. issues'[i].item = issues[i].item
      BY <3>1, Zenon
    <3> QED BY <2>1, <2>2, <2>4, <3>2, StillTold, Zenon
  <2> QED BY <2>3, <2>4
<1> QED BY <1>3, <1>4, <1>5, <1>6, <1>7, <1>8

LEMMA OnWithThis ==
    ASSUME BacklogIInv, IssuesKeep, script.at \in Making, script.delta,
           \A j \in DOMAIN issues : j # script.made => issues'[j] = issues[j],
           script' \in ScriptSet, UNCHANGED prefixed, script'.at \in {"resolve", "fields"},
           script'.entries = script.entries, script'.todo = script.todo,
           script'.delta = script.delta, script'.made = script.made,
           script.failed => script'.failed,
           script'.at = "resolve" => script'.nth = 1,
           script'.at = "fields" =>
              /\ script'.target = script.made /\ issues'[script.made].item
              /\ script'.nth \in 1..(NFields + 1)
              /\ issues'[script.made].excused \/ 1..(script'.nth - 1) \subseteq issues'[script.made].fields
    PROVE  BacklogIInv'
<1> USE DEF BacklogIInv
<1>3. BacklogTypes'
  BY DEF BacklogTypes, IssuesKeep
<1>4. TitlesDiffer' /\ OneIssueEach'
  BY TitlesStayApart, NoTwinComes, Zenon
<1>5. CreateFits'
  <2>1. script.at \in Making \cup {"create"} /\ script'.at \in Making \cup {"create"}
    BY DEF Making
  <2> QED BY <2>1, GoesOnCreating, Zenon
<1>6. MadeFits'
  <2>1. /\ script.made \in DOMAIN issues /\ (issues[script.made].keyed <=> script.delta)
        /\ \A j \in DOMAIN issues :
             issues[j].titled /\ issues[j].entry = issues[script.made].entry => j = script.made
    BY DEF MadeFits
  <2>2. script.made \in DOMAIN issues' /\ issues'[script.made].keyed
    BY <2>1, Zenon DEF IssuesKeep
  <2>3. \A j \in DOMAIN issues' :
             issues'[j].titled /\ issues'[j].entry = issues'[script.made].entry => j = script.made
    BY <2>1, StaysAlone, Zenon
  <2>4. script'.at \in Making
    BY DEF Making
  <2>5. /\ script'.made \in DOMAIN issues' /\ issues'[script'.made].keyed
        /\ \A j \in DOMAIN issues' :
             issues'[j].titled /\ issues'[j].entry = issues'[script'.made].entry => j = script'.made
    BY <2>2, <2>3
  <2>6. script'.at = "fields" =>
              /\ script'.target = script'.made /\ issues'[script'.made].item
              /\ script'.nth \in 1..(NFields + 1)
              /\ issues'[script'.made].excused \/ 1..(script'.nth - 1) \subseteq issues'[script'.made].fields
    OBVIOUS
  <2> QED BY <2>4, <2>5, <2>6, Zenon DEF MadeFits
<1>7. UpdateFits' /\ NothingIsLeftOut' /\ UpdateCompletes'
  BY DEF UpdateFits, NothingIsLeftOut, UpdateCompletes
<1>8. IncompleteIsTold'
  <2>1. SUFFICES ASSUME NEW i \in DOMAIN issues', issues'[i].keyed, script'.made # i
                 PROVE  issues'[i].excused \/ (issues'[i].item /\ issues'[i].fields = 1..NFields)
    BY Zenon DEF IncompleteIsTold
  <2>2. i \in DOMAIN issues
    BY DEF IssuesKeep
  <2>3. issues'[i] = issues[i]
    BY <2>1, <2>2, Zenon
  <2>4. issues'[i].item = issues[i].item /\ script.made # i
    BY <2>1, <2>3, Zenon
  <2> QED BY <2>1, <2>2, <2>4, StillTold, Zenon
<1> QED BY <1>3, <1>4, <1>5, <1>6, <1>7, <1>8

LEMMA AddsToProjectKeeps ==
    ASSUME BacklogIInv, AddsToProject
    PROVE  BacklogIInv'
<1>1. /\ script.at = "add" /\ script.at \in Making
      /\ BacklogTypes /\ script.made \in DOMAIN issues
      /\ (issues[script.made].keyed <=> script.delta)
  BY DEF AddsToProject, BacklogIInv, MadeFits, Making
<1>2. PICK added \in BOOLEAN, told \in BOOLEAN :
         /\ told => added
         /\ issues' = [issues EXCEPT ![script.made].item = added]
         /\ ~script.delta => NextEntry(FALSE)
         /\ script.delta =>
              Continues([script EXCEPT !.at = IF told THEN "fields" ELSE "resolve",
                                       !.target = IF told THEN script.made ELSE 0, !.nth = 1])
  BY Zenon DEF AddsToProject
<1>3. /\ IssuesKeep /\ issues'[script.made].item = added
      /\ \A j \in DOMAIN issues : j # script.made => issues'[j] = issues[j]
  BY <1>1, <1>2, PutsOn, Zenon
<1>4. CASE ~script.delta
  <2>1. ~issues'[script.made].keyed
    BY <1>1, <1>3, <1>4, Zenon DEF IssuesKeep
  <2> QED BY <1>1, <1>2, <1>3, <1>4, <2>1, OnToNext, Zenon
<1>5. CASE script.delta
  <2>1. \E at \in {"resolve", "fields"}, target \in Nat :
           /\ at = "fields" => target = script.made /\ added
           /\ script' = [script EXCEPT !.at = at, !.target = target, !.nth = 1]
    <3>1. script.made \in Nat /\ 0 \in Nat
      BY <1>1, IssueIs, Zenon
    <3>2. CASE told
      BY <1>2, <1>5, <3>1, <3>2, Zenon DEF Continues
    <3>3. CASE ~told
      BY <1>2, <1>5, <3>1, <3>3, Zenon DEF Continues
    <3> QED BY <3>2, <3>3
  <2>2. PICK at \in {"resolve", "fields"}, target \in Nat :
           /\ at = "fields" => target = script.made /\ added
           /\ script' = [script EXCEPT !.at = at, !.target = target, !.nth = 1]
    BY <2>1
  <2>3. script \in ScriptSet /\ UNCHANGED prefixed
    BY <1>1, <1>2, <1>5, Zenon DEF BacklogTypes, Continues
  <2>4. /\ script' \in ScriptSet /\ script'.at = at
        /\ script'.entries = script.entries /\ script'.todo = script.todo
        /\ script'.delta = script.delta /\ script'.made = script.made
        /\ script'.failed = script.failed /\ script'.nth = 1
        /\ script'.target = target
    BY <2>2, <2>3 DEF ScriptSet
  <2>5. 1 \in 1..(NFields + 1) /\ 1..(1 - 1) \subseteq issues'[script.made].fields
    BY BacklogAssumption
  <2>6. script'.at = "fields" =>
              /\ script'.target = script.made /\ issues'[script.made].item
              /\ script'.nth \in 1..(NFields + 1)
              /\ 1..(script'.nth - 1) \subseteq issues'[script.made].fields
    <3>1. script'.at = "fields" => script'.target = script.made /\ issues'[script.made].item
      BY <1>3, <2>2, <2>4, Zenon
    <3> QED BY <2>4, <2>5, <3>1
  <2> QED BY <1>1, <1>3, <1>5, <2>3, <2>4, <2>6, OnWithThis, Zenon
<1> QED BY <1>4, <1>5

LEMMA ResolvesItemKeeps ==
    ASSUME BacklogIInv, Whole, ResolvesItem
    PROVE  BacklogIInv'
<1> DEFINE items == {i \in DOMAIN issues : issues[i].item}
           hits == {i \in items : issues[i].titled /\ issues[i].entry = issues[script.made].entry}
<1>1. /\ script.at = "resolve" /\ script.at \in Making
      /\ BacklogTypes /\ script.made \in DOMAIN issues
      /\ (issues[script.made].keyed <=> script.delta) /\ script.delta /\ script.nth = 1
      /\ \A j \in DOMAIN issues :
             issues[j].titled /\ issues[j].entry = issues[script.made].entry => j = script.made
  BY DEF ResolvesItem, BacklogIInv, MadeFits, Making
<1> HIDE DEF items
<1>4. \A shown \in Boards : shown = items
  BY <1>1, WholeIs, Zenon DEF items
<1>5. \/ hits = {} /\ issues' = Excuse(script.made) /\ NextEntry(TRUE)
      \/ /\ hits # {} /\ UNCHANGED issues
         /\ \E i \in hits : Continues([script EXCEPT !.at = "fields", !.target = i])
  BY <1>4, Zenon DEF ResolvesItem
<1>2. CASE hits = {}
  <2>1. issues' = Excuse(script.made) /\ NextEntry(TRUE)
    BY <1>2, <1>5, Zenon
  <2>2. /\ IssuesKeep /\ issues'[script.made].excused
        /\ \A j \in DOMAIN issues : j # script.made => issues'[j] = issues[j]
    BY <1>1, <2>1, IsExcused, Zenon
  <2>3. TRUE \in BOOLEAN
    OBVIOUS
  <2> QED BY <1>1, <2>1, <2>2, <2>3, OnToNext, Zenon
<1>3. CASE hits # {}
  <2>1. PICK i \in hits : Continues([script EXCEPT !.at = "fields", !.target = i])
    BY <1>3, <1>5, Zenon
  <2>2. UNCHANGED issues
    BY <1>3, <1>5, Zenon
  <2>3. i = script.made /\ issues[script.made].item
    BY <1>1, <2>1 DEF items
  <2>4. /\ script' \in ScriptSet /\ UNCHANGED prefixed
        /\ script'.at = "fields"
        /\ script'.entries = script.entries /\ script'.todo = script.todo
        /\ script'.delta = script.delta /\ script'.made = script.made
        /\ script'.failed = script.failed /\ script'.nth = 1
        /\ script'.target = script.made
    <3> HIDE DEF hits
    <3> QED BY <1>1, <2>1, <2>3 DEF Continues, BacklogTypes, ScriptSet
  <2>5. IssuesKeep /\ \A j \in DOMAIN issues : j # script.made => issues'[j] = issues[j]
    BY <1>1, <2>2, Untouched
  <2>6. script'.at = "fields" =>
              /\ script'.target = script.made /\ issues'[script.made].item
              /\ script'.nth \in 1..(NFields + 1)
              /\ 1..(script'.nth - 1) \subseteq issues'[script.made].fields
    <3> HIDE DEF hits
    <3> QED BY <2>2, <2>3, <2>4, BacklogAssumption
  <2>7. script'.at \in {"resolve", "fields"} /\ script'.at # "resolve"
    <3> HIDE DEF hits
    <3> QED BY <2>4
  <2> QED BY <1>1, <2>4, <2>5, <2>6, <2>7, OnWithThis, Zenon
<1> QED BY <1>2, <1>3

LEMMA SetsFieldKeeps ==
    ASSUME BacklogIInv, SetsField
    PROVE  BacklogIInv'
<1>1. /\ script.at = "fields" /\ script.at \in Making
      /\ BacklogTypes /\ script.made \in DOMAIN issues
      /\ script.delta /\ script.target = script.made /\ issues[script.made].item
      /\ script.nth \in 1..(NFields + 1)
      /\ issues[script.made].excused \/ 1..(script.nth - 1) \subseteq issues[script.made].fields
  BY Zenon DEF SetsField, BacklogIInv, MadeFits, Making
<1>2. script.nth \in 1..NFields /\ script.nth + 1 \in 1..(NFields + 1)
      /\ 1..((script.nth + 1) - 1) = 1..(script.nth - 1) \cup {script.nth}
  <2>1. script.nth <= NFields
    BY DEF SetsField
  <2> QED BY <1>1, <2>1, BacklogAssumption
<1>3. /\ issues' = [issues EXCEPT ![script.made].fields = @ \cup {script.nth}]
      /\ script' = [script EXCEPT !.nth = @ + 1] /\ UNCHANGED prefixed
  BY <1>1 DEF SetsField, Continues
<1>4. /\ IssuesKeep /\ issues'[script.made].item = issues[script.made].item
      /\ issues'[script.made].excused = issues[script.made].excused
      /\ issues'[script.made].fields = issues[script.made].fields \cup {script.nth}
      /\ \A j \in DOMAIN issues : j # script.made => issues'[j] = issues[j]
  BY <1>1, <1>2, <1>3, SetsOne, Zenon
<1>5. /\ script' \in ScriptSet /\ script'.at = "fields"
      /\ script'.entries = script.entries /\ script'.todo = script.todo
      /\ script'.delta = script.delta /\ script'.made = script.made
      /\ script'.failed = script.failed /\ script'.nth = script.nth + 1
      /\ script'.target = script.target
  <2>1. script \in ScriptSet
    BY <1>1, Zenon DEF BacklogTypes
  <2>2. script' = [script EXCEPT !.nth = @ + 1] /\ script.at = "fields"
    BY <1>1, <1>3, Zenon
  <2> QED BY <2>1, <2>2 DEF ScriptSet
<1>6. script'.at \in {"resolve", "fields"} /\ script'.at # "resolve"
  BY <1>5
<1>7. issues'[script.made].excused \/ 1..(script'.nth - 1) \subseteq issues'[script.made].fields
  <2>1. CASE issues[script.made].excused
    BY <1>4, <2>1, Zenon
  <2>2. CASE 1..(script.nth - 1) \subseteq issues[script.made].fields
    BY <1>2, <1>4, <1>5, <2>2
  <2> QED BY <1>1, <2>1, <2>2
<1>8. /\ script'.target = script.made /\ issues'[script.made].item
      /\ script'.nth \in 1..(NFields + 1)
  BY <1>1, <1>2, <1>4, <1>5, Zenon
<1> QED BY <1>1, <1>3, <1>4, <1>5, <1>6, <1>7, <1>8, OnWithThis, Zenon

LEMMA FieldFailsKeeps ==
    ASSUME BacklogIInv, FieldFails
    PROVE  BacklogIInv'
<1>1. /\ script.at = "fields" /\ script.at \in Making
      /\ BacklogTypes /\ script.made \in DOMAIN issues /\ issues[script.made].keyed
      /\ script.delta /\ script.target = script.made /\ issues[script.made].item
      /\ script.nth \in 1..(NFields + 1)
  BY Zenon DEF FieldFails, BacklogIInv, MadeFits, Making
<1>2. script.nth \in 1..NFields /\ script.nth + 1 \in 1..(NFields + 1)
  <2>1. script.nth <= NFields
    BY DEF FieldFails
  <2> QED BY <1>1, <2>1, BacklogAssumption
<1>3. /\ \/ issues' = Excuse(script.made)
         \/ issues' = [Excuse(script.made) EXCEPT ![script.made].fields = @ \cup {script.nth}]
      /\ script' = [script EXCEPT !.nth = @ + 1, !.failed = TRUE] /\ UNCHANGED prefixed
  BY <1>1, Zenon DEF FieldFails, Continues
<1>4. /\ IssuesKeep /\ issues'[script.made].item = issues[script.made].item
      /\ issues'[script.made].excused = issues[script.made].keyed
      /\ \A j \in DOMAIN issues : j # script.made => issues'[j] = issues[j]
  <2>1. CASE issues' = Excuse(script.made)
    BY <1>1, <2>1, IsExcused, Zenon
  <2>2. CASE issues' = [Excuse(script.made) EXCEPT ![script.made].fields = @ \cup {script.nth}]
    BY <1>1, <1>2, <2>2, IsExcusedAndSet, Zenon
  <2> QED BY <1>3, <2>1, <2>2
<1>5. /\ script' \in ScriptSet /\ script'.at = "fields"
      /\ script'.entries = script.entries /\ script'.todo = script.todo
      /\ script'.delta = script.delta /\ script'.made = script.made
      /\ script'.failed = TRUE /\ script'.nth = script.nth + 1
      /\ script'.target = script.target
  <2>1. script \in ScriptSet
    BY <1>1, Zenon DEF BacklogTypes
  <2>2. script' = [script EXCEPT !.nth = @ + 1, !.failed = TRUE] /\ script.at = "fields"
    BY <1>1, <1>3, Zenon
  <2>3. script.nth + 1 \in Nat
    BY <2>1 DEF ScriptSet
  <2>4. script' \in ScriptSet
    BY <2>1, <2>2, <2>3, Zenon DEF ScriptSet
  <2>5. /\ script'.entries = script.entries /\ script'.todo = script.todo
        /\ script'.delta = script.delta /\ script'.made = script.made
        /\ script'.failed = TRUE /\ script'.nth = script.nth + 1
        /\ script'.target = script.target /\ script'.at = script.at
    BY <2>1, <2>2 DEF ScriptSet
  <2> QED BY <2>2, <2>4, <2>5
<1>6. script'.at \in {"resolve", "fields"} /\ script'.at # "resolve"
  BY <1>5
<1>7. /\ script'.target = script.made /\ issues'[script.made].item
      /\ script'.nth \in 1..(NFields + 1) /\ issues'[script.made].excused
  BY <1>1, <1>2, <1>4, <1>5, Zenon
<1> QED BY <1>1, <1>3, <1>4, <1>5, <1>6, <1>7, OnWithThis, Zenon

LEMMA FieldsEndKeeps ==
    ASSUME BacklogIInv, FieldsEnd
    PROVE  BacklogIInv'
<1>1. /\ script.at = "fields" /\ script.at \in Making
      /\ BacklogTypes /\ script.made \in DOMAIN issues
      /\ issues[script.made].item
      /\ script.nth \in 1..(NFields + 1)
      /\ issues[script.made].excused \/ 1..(script.nth - 1) \subseteq issues[script.made].fields
  BY Zenon DEF FieldsEnd, BacklogIInv, MadeFits, Making
<1>2. 1..(script.nth - 1) = 1..NFields
  <2>1. script.nth > NFields
    BY DEF FieldsEnd
  <2> QED BY <1>1, <2>1, BacklogAssumption
<1>3. NextEntry(FALSE) /\ UNCHANGED issues
  BY DEF FieldsEnd
<1>4. IssuesKeep /\ \A j \in DOMAIN issues : j # script.made => issues'[j] = issues[j]
  BY <1>1, <1>3, Untouched
<1>5. issues'[script.made].excused
      \/ (issues'[script.made].item /\ issues'[script.made].fields = 1..NFields)
  <2>1. CASE issues[script.made].excused
    BY <1>3, <2>1, Zenon
  <2>2. CASE 1..(script.nth - 1) \subseteq issues[script.made].fields
    <3>1. issues[script.made].fields \subseteq 1..NFields
      BY <1>1, IssueIs, IssueTypes, Zenon
    <3>2. issues[script.made].fields = 1..NFields
      BY <1>2, <2>2, <3>1
    <3> QED BY <1>1, <1>3, <3>2, Zenon
  <2> QED BY <1>1, <2>1, <2>2
<1>6. FALSE \in BOOLEAN
  OBVIOUS
<1> QED BY <1>1, <1>3, <1>4, <1>5, <1>6, OnToNext, Zenon

-----------------------------------------------------------------------------
(* Steps that leave the issues alone.                                       *)

LEMMA Rests ==
    ASSUME BacklogIInv, UNCHANGED <<prefixed, issues>>, script' \in ScriptSet,
           script'.at \in {"idle", "ended", "list", "create", "plan", "update"},
           script.made = 0, script'.made = 0
    PROVE  /\ BacklogTypes' /\ TitlesDiffer' /\ OneIssueEach' /\ IncompleteIsTold' /\ MadeFits'
<1>1. BacklogTypes'
  BY DEF BacklogIInv, BacklogTypes
<1>2. TitlesDiffer' /\ OneIssueEach'
  BY Zenon DEF BacklogIInv, TitlesDiffer, OneIssueEach
<1>3. IncompleteIsTold'
  BY Zenon DEF BacklogIInv, IncompleteIsTold
<1>4. MadeFits'
  BY DEF MadeFits, Making
<1> QED BY <1>1, <1>2, <1>3, <1>4

LEMMA MadeNone ==
    ASSUME BacklogIInv, script.at \notin Making
    PROVE  script.made = 0
BY DEF BacklogIInv, MadeFits

LEMMA NoScriptIs ==
    /\ NoScript \in ScriptSet
    /\ NoScript.made = 0 /\ NoScript.entries = <<>> /\ NoScript.updated = FALSE
    /\ NoScript.failed = FALSE /\ NoScript.at = "idle"
<1>1. <<>> \in Seq(Entries)
  BY EmptySeq
<1>2. NoScript \in ScriptSet
  BY <1>1, Zenon DEF NoScript, ScriptSet
<1> QED BY <1>2 DEF NoScript

LEMMA ScriptEndsKeeps ==
    ASSUME BacklogIInv, ScriptEnds
    PROVE  BacklogIInv'
<1>1. script.at = "create" /\ script.todo = {} /\ UNCHANGED <<prefixed, issues>>
      /\ script.at \notin Making /\ script \in ScriptSet /\ CreateFits
  BY DEF ScriptEnds, Continues, Making, BacklogIInv, BacklogTypes
<1>2. /\ script' \in ScriptSet /\ script'.made = 0 /\ ~script'.updated
      /\ \/ script'.at = "idle"
         \/ ~script.failed /\ script'.at = "ended" /\ script'.entries = script.entries
  <2>1. CASE script.failed
    <3>1. script' = NoScript
      BY <2>1, Zenon DEF ScriptEnds, Continues
    <3> QED BY <3>1, NoScriptIs DEF ScriptSet
  <2>2. CASE ~script.failed
    <3>1. script' = [NoScript EXCEPT !.at = "ended", !.entries = script.entries]
      BY <2>2, Zenon DEF ScriptEnds, Continues
    <3>2. script.entries \in Seq(Entries)
      BY <1>1 DEF ScriptSet
    <3>3. script' \in ScriptSet /\ script'.made = 0 /\ script'.updated = FALSE
          /\ script'.at = "ended" /\ script'.entries = script.entries
      BY <3>1, <3>2, NoScriptIs DEF ScriptSet
    <3> QED BY <2>2, <3>3, Zenon
  <2> QED BY <2>1, <2>2
<1>3. script'.at \in {"idle", "ended", "list", "create", "plan", "update"} /\ script.made = 0
  BY <1>1, <1>2, MadeNone
<1>4. /\ BacklogTypes' /\ TitlesDiffer' /\ OneIssueEach' /\ IncompleteIsTold' /\ MadeFits'
  BY <1>1, <1>2, <1>3, Rests, Zenon
<1>5. CreateFits' /\ UpdateFits'
  BY <1>2 DEF CreateFits, UpdateFits, Making
<1>6. UpdateCompletes'
  BY <1>2, Zenon DEF UpdateCompletes
<1>7. NothingIsLeftOut'
  <2>1. CASE script'.at = "idle"
    BY <2>1 DEF NothingIsLeftOut
  <2>2. CASE ~script.failed /\ script'.at = "ended" /\ script'.entries = script.entries
    <3>1. ~prefixed /\ ~script.failed => \A n \in DOMAIN script.entries :
              n \in script.todo \/ \E i \in DOMAIN issues : issues[i].entry = script.entries[n]
      BY <1>1, Zenon DEF CreateFits
    <3>2. ~prefixed => \A n \in DOMAIN script.entries :
              \E i \in DOMAIN issues : issues[i].entry = script.entries[n]
      BY <1>1, <2>2, <3>1
    <3>3. ~prefixed' => \A n \in DOMAIN script'.entries :
              \E i \in DOMAIN issues' : issues'[i].entry = script'.entries[n]
      BY <1>1, <2>2, <3>2
    <3> QED BY <3>3, Zenon DEF NothingIsLeftOut
  <2> QED BY <1>2, <2>1, <2>2
<1> QED BY <1>4, <1>5, <1>6, <1>7 DEF BacklogIInv

LEMMA ScriptStartsKeeps ==
    ASSUME BacklogIInv, ScriptStarts
    PROVE  BacklogIInv'
<1>1. script \in ScriptSet /\ script.at \in {"idle", "ended"} /\ UNCHANGED <<prefixed, issues>>
      /\ script.at \notin Making
  BY DEF ScriptStarts, Busy, BacklogIInv, BacklogTypes, ScriptSet, Making
<1>2. PICK delta \in BOOLEAN, entries \in Files :
          /\ Valid(delta, entries)
          /\ script' = [NoScript EXCEPT !.at = "list", !.delta = delta, !.entries = entries]
  BY Zenon DEF ScriptStarts
<1>3. entries \in Seq(Entries)
  BY DEF Files
<1>4. /\ script' \in ScriptSet /\ script'.made = 0 /\ script'.at = "list"
      /\ script'.entries = entries
  BY <1>2, <1>3, NoScriptIs DEF ScriptSet
<1>5. script'.at \in {"idle", "ended", "list", "create", "plan", "update"} /\ script.made = 0
  BY <1>1, <1>4, MadeNone
<1>6. /\ BacklogTypes' /\ TitlesDiffer' /\ OneIssueEach' /\ IncompleteIsTold' /\ MadeFits'
  BY <1>1, <1>4, <1>5, Rests, Zenon
<1>7. CreateFits'
  <2>1. \A m, n \in DOMAIN script'.entries : script'.entries[m] = script'.entries[n] => m = n
    BY <1>2, <1>4, Zenon DEF Valid
  <2>2. script'.at \notin Making \cup {"create"}
    BY <1>4 DEF Making
  <2> QED BY <2>1, <2>2, Zenon DEF CreateFits
<1>8. UpdateFits' /\ NothingIsLeftOut' /\ UpdateCompletes'
  BY <1>4 DEF UpdateFits, NothingIsLeftOut, UpdateCompletes
<1> QED BY <1>6, <1>7, <1>8 DEF BacklogIInv

LEMMA ListsKeeps ==
    ASSUME BacklogIInv, Whole, Lists
    PROVE  BacklogIInv'
<1> DEFINE T == {n \in DOMAIN script.entries : ~Duplicate(script.delta, script.entries[n])}
<1>1. script \in ScriptSet /\ script.at = "list" /\ UNCHANGED <<prefixed, issues>>
      /\ script.at \notin Making /\ script' = [script EXCEPT !.at = "create", !.todo = T]
      /\ CreateFits /\ BacklogTypes
  BY DEF Lists, BacklogIInv, BacklogTypes, Making
<1>2. \A n \in DOMAIN script.entries : n \in Nat
  <2>1. script.entries \in Seq(Entries)
    BY <1>1 DEF ScriptSet
  <2> QED BY <2>1
<1>3. T \in SUBSET Nat
  BY <1>2
<1> HIDE DEF T
<1>0. /\ \A e : (\E i \in DOMAIN issues : issues[i].entry = e /\ issues[i].titled) => TitleExists(e)
      /\ \A e : (\E i \in DOMAIN issues : issues[i].keyed /\ issues[i].entry = e) => KeyExists(e)
      /\ \A e : TitleExists(e) \/ (~prefixed /\ KeyExists(e)) => \E i \in DOMAIN issues : issues[i].entry = e
  <2>1. Recent = DOMAIN issues
    BY <1>1, WholeIs, Zenon
  <2>2. \A e : (\E i \in DOMAIN issues : issues[i].entry = e /\ issues[i].titled) => TitleExists(e)
    BY <2>1 DEF TitleExists
  <2>3. \A e : (\E i \in DOMAIN issues : issues[i].keyed /\ issues[i].entry = e) => KeyExists(e)
    BY <2>1 DEF KeyExists
  <2>4. \A e : TitleExists(e) \/ (~prefixed /\ KeyExists(e)) => \E i \in DOMAIN issues : issues[i].entry = e
    BY <2>1 DEF TitleExists, KeyExists
  <2> QED BY <2>2, <2>3, <2>4, Zenon
<1> USE DEF T
<1>4. \A n \in T : ~HasIssue(script.delta, script.entries[n])
  BY <1>0, Zenon DEF Duplicate, HasIssue
<1>5. ~prefixed => \A n \in DOMAIN script.entries :
         n \in T \/ \E i \in DOMAIN issues : issues[i].entry = script.entries[n]
  BY <1>0, Zenon DEF Duplicate
<1>6. T \subseteq DOMAIN script.entries
  OBVIOUS
<1> HIDE DEF T
<1>7. /\ script' \in ScriptSet /\ script'.at = "create" /\ script'.made = script.made
      /\ script'.todo = T /\ script'.entries = script.entries /\ script'.delta = script.delta
      /\ script'.failed = script.failed
  BY <1>1, <1>3 DEF ScriptSet
<1>8. script'.at \in {"idle", "ended", "list", "create", "plan", "update"} /\ script.made = 0
      /\ script'.made = 0
  BY <1>1, <1>7, MadeNone
<1>9. /\ BacklogTypes' /\ TitlesDiffer' /\ OneIssueEach' /\ IncompleteIsTold' /\ MadeFits'
  BY <1>1, <1>7, <1>8, Rests, Zenon
<1>10. CreateFits'
  <2>1. \A m, n \in DOMAIN script'.entries : script'.entries[m] = script'.entries[n] => m = n
    BY <1>1, <1>7, Zenon DEF CreateFits
  <2>2. script'.todo \subseteq DOMAIN script'.entries
    BY <1>6, <1>7
  <2>3. \A n \in script'.todo : ~\E i \in DOMAIN issues' :
            issues'[i].entry = script'.entries[n] /\ (issues'[i].titled \/ (script'.delta /\ issues'[i].keyed))
    <3>1. \A n \in T : ~\E i \in DOMAIN issues :
              issues[i].entry = script.entries[n] /\ (issues[i].titled \/ (script.delta /\ issues[i].keyed))
      BY <1>4, Zenon DEF HasIssue
    <3>2. issues' = issues
      BY <1>1
    <3> QED BY <1>7, <3>1, <3>2
  <2>4. ~prefixed' => \A n \in DOMAIN script'.entries :
            n \in script'.todo \/ \E i \in DOMAIN issues' : issues'[i].entry = script'.entries[n]
    BY <1>1, <1>5, <1>7, Zenon
  <2> QED BY <2>1, <2>2, <2>3, <2>4, Zenon DEF CreateFits, HasIssue
<1>11. UpdateFits' /\ NothingIsLeftOut' /\ UpdateCompletes'
  BY <1>7 DEF UpdateFits, NothingIsLeftOut, UpdateCompletes
<1> QED BY <1>9, <1>10, <1>11 DEF BacklogIInv

LEMMA UpdateStartsKeeps ==
    ASSUME BacklogIInv, UpdateStarts
    PROVE  BacklogIInv'
<1>1. script \in ScriptSet /\ script.at \in {"idle", "ended"} /\ UNCHANGED <<prefixed, issues>>
      /\ script.at \notin Making
  BY DEF UpdateStarts, Busy, BacklogIInv, BacklogTypes, ScriptSet, Making
<1>2. script' \in ScriptSet /\ script'.made = 0 /\ script'.at = "plan"
  BY NoScriptIs DEF UpdateStarts, ScriptSet
<1>3. script'.at \in {"idle", "ended", "list", "create", "plan", "update"} /\ script.made = 0
  BY <1>1, <1>2, MadeNone
<1>4. /\ BacklogTypes' /\ TitlesDiffer' /\ OneIssueEach' /\ IncompleteIsTold' /\ MadeFits'
  BY <1>1, <1>2, <1>3, Rests, Zenon
<1>5. CreateFits' /\ UpdateFits' /\ NothingIsLeftOut' /\ UpdateCompletes'
  BY <1>2 DEF CreateFits, UpdateFits, NothingIsLeftOut, UpdateCompletes, Making
<1> QED BY <1>4, <1>5 DEF BacklogIInv

LEMMA UpdateEndsKeeps ==
    ASSUME BacklogIInv, UpdateEnds
    PROVE  BacklogIInv'
<1>1. script \in ScriptSet /\ script.at = "update" /\ UNCHANGED <<prefixed, issues>>
      /\ script.at \notin Making /\ script.todo = {} /\ UpdateFits
  BY DEF UpdateEnds, Continues, BacklogIInv, BacklogTypes, Making
<1>2. /\ script' \in ScriptSet /\ script'.made = 0 /\ script'.entries = <<>>
      /\ script'.at = "idle" \/ (~script.failed /\ script'.at = "ended")
  <2>1. CASE script.failed
    <3>1. script' = NoScript
      BY <2>1, Zenon DEF UpdateEnds, Continues
    <3> QED BY <3>1, NoScriptIs DEF ScriptSet
  <2>2. CASE ~script.failed
    <3>1. script' = [NoScript EXCEPT !.at = "ended", !.updated = TRUE]
      BY <2>2, Zenon DEF UpdateEnds, Continues
    <3>2. script' \in ScriptSet /\ script'.made = 0 /\ script'.entries = <<>> /\ script'.at = "ended"
      BY <3>1, NoScriptIs DEF ScriptSet
    <3> QED BY <2>2, <3>2, Zenon
  <2> QED BY <2>1, <2>2
<1>3. script'.at \in {"idle", "ended", "list", "create", "plan", "update"} /\ script.made = 0
  BY <1>1, <1>2, MadeNone
<1>4. /\ BacklogTypes' /\ TitlesDiffer' /\ OneIssueEach' /\ IncompleteIsTold' /\ MadeFits'
  BY <1>1, <1>2, <1>3, Rests, Zenon
<1>5. CreateFits' /\ UpdateFits' /\ NothingIsLeftOut'
  BY <1>2 DEF CreateFits, UpdateFits, NothingIsLeftOut, Making
<1>6. UpdateCompletes'
  <2>1. CASE script'.at = "idle"
    BY <2>1 DEF UpdateCompletes
  <2>2. CASE ~script.failed
    <3>1. \A i \in DOMAIN issues : issues[i].item /\ issues[i].titled => issues[i].fields = 1..NFields
      BY <1>1, <2>2, Zenon DEF UpdateFits
    <3> QED BY <1>1, <3>1, Zenon DEF UpdateCompletes
  <2> QED BY <1>2, <2>1, <2>2
<1> QED BY <1>4, <1>5, <1>6 DEF BacklogIInv

-----------------------------------------------------------------------------
(* An issue more.                                                           *)

LEMMA OneIssueMore ==
    ASSUME BacklogTypes, NEW r \in IssueSet, issues' = Append(issues, r)
    PROVE  /\ issues' \in Seq(IssueSet)
           /\ DOMAIN issues' = DOMAIN issues \cup {Len(issues) + 1}
           /\ \A i \in DOMAIN issues : issues'[i] = issues[i] /\ i # Len(issues) + 1
           /\ issues'[Len(issues) + 1] = r /\ Len(issues) + 1 \in Nat
<1>1. issues \in Seq(IssueSet)
  BY DEF BacklogTypes
<1> HIDE DEF BacklogTypes
<1> QED BY <1>1

\* Of what is to be created the first in the file comes first.
LEMMA PositionIsLeft ==
    ASSUME BacklogIInv, script.at = "create", script.todo # {}
    PROVE  /\ Position \in script.todo /\ Position \in DOMAIN script.entries
           /\ script.entries[Position] \in Entries
           /\ ~HasIssue(script.delta, script.entries[Position])
<1>1. script.entries \in Seq(Entries) /\ script.todo \in SUBSET Nat
  BY DEF BacklogIInv, BacklogTypes, ScriptSet
<1>2. /\ script.todo \subseteq DOMAIN script.entries
      /\ \A n \in script.todo : ~HasIssue(script.delta, script.entries[n])
  BY Zenon DEF BacklogIInv, CreateFits
<1>3. \E n \in script.todo : \A k \in script.todo : n <= k
  BY <1>1, Smallest
<1>4. Position \in script.todo
  BY <1>3, Zenon DEF Position
<1>5. Position \in DOMAIN script.entries /\ ~HasIssue(script.delta, script.entries[Position])
  BY <1>2, <1>4, Zenon
<1> HIDE DEF Position
<1>6. script.entries[Position] \in Entries
  BY <1>1, <1>5
<1> QED BY <1>4, <1>5, <1>6

\* The issue of the first of them: it is the first for its entry.
LEMMA Appended ==
    ASSUME BacklogIInv, script.at = "create", script.todo # {},
           NEW x \in BOOLEAN, NEW r, issues' = Append(issues, r),
           (x = FALSE /\ r = Created) \/ r = [Created EXCEPT !.excused = x],
           UNCHANGED prefixed, script'.at \in Making \cup {"create"},
           script'.entries = script.entries, script'.todo = script.todo \ {Position},
           script'.delta = script.delta, script.failed => script'.failed
    PROVE  /\ issues' \in Seq(IssueSet) /\ TitlesDiffer' /\ OneIssueEach' /\ CreateFits'
           /\ DOMAIN issues' = DOMAIN issues \cup {Len(issues) + 1}
           /\ Len(issues) + 1 \in Nat
           /\ \A i \in DOMAIN issues : issues'[i] = issues[i] /\ i # Len(issues) + 1
           /\ issues'[Len(issues) + 1].keyed = script.delta
           /\ issues'[Len(issues) + 1].excused = x
           /\ \A j \in DOMAIN issues' :
                 issues'[j].titled /\ issues'[j].entry = issues'[Len(issues) + 1].entry
                    => j = Len(issues) + 1
<1> DEFINE e == script.entries[Position]
           new == Len(issues) + 1
<1>1. /\ Position \in script.todo /\ Position \in DOMAIN script.entries
      /\ e \in Entries /\ ~HasIssue(script.delta, e)
  BY PositionIsLeft
<1>2. script.delta \in BOOLEAN
  BY DEF BacklogIInv, BacklogTypes, ScriptSet
<1> HIDE DEF e
<1>3. /\ r \in IssueSet /\ r.entry = e /\ r.titled = TRUE /\ r.keyed = script.delta
      /\ r.twin = HasIssue(script.delta, e) /\ r.excused = x
  <2>1. \E t \in BOOLEAN : t = HasIssue(script.delta, e)
    BY Zenon DEF HasIssue
  <2>2. PICK t \in BOOLEAN : t = HasIssue(script.delta, e)
    BY <2>1
  <2>3. Created = [entry |-> e, titled |-> TRUE, keyed |-> script.delta, item |-> FALSE,
                   fields |-> {}, twin |-> t, excused |-> FALSE]
    BY <2>2, Zenon DEF Created, e
  <2>4. PICK c \in IssueSet : c = Created
    BY <1>1, <1>2, <2>3, Zenon DEF IssueSet
  <2>5. c.entry = e /\ c.titled = TRUE /\ c.keyed = script.delta /\ c.twin = t
        /\ c.excused = FALSE
    BY <2>3, <2>4
  <2>7. /\ r \in IssueSet /\ r.excused = x /\ r.entry = c.entry /\ r.titled = c.titled
        /\ r.keyed = c.keyed /\ r.twin = c.twin
    <3>1. CASE x = FALSE /\ r = c
      BY <2>4, <2>5, <3>1
    <3>2. CASE r = [c EXCEPT !.excused = x]
      BY <2>4, <3>2 DEF IssueSet
    <3> QED BY <2>4, <3>1, <3>2, Zenon
  <2> QED BY <2>2, <2>5, <2>7, Zenon
<1>4. issues' = Append(issues, r) /\ BacklogTypes
  BY DEF BacklogIInv
<1> HIDE DEF new
<1>5. /\ issues' \in Seq(IssueSet)
      /\ DOMAIN issues' = DOMAIN issues \cup {new}
      /\ \A i \in DOMAIN issues : issues'[i] = issues[i] /\ i # new
      /\ issues'[new] = r /\ new \in Nat
  BY <1>3, <1>4, OneIssueMore, Zenon DEF new
<1>6. \A j \in DOMAIN issues : ~(issues[j].titled /\ issues[j].entry = e)
  BY <1>1, Zenon DEF HasIssue
<1>7. \A j \in DOMAIN issues' : issues'[j].titled /\ issues'[j].entry = e => j = new
  <2> SUFFICES ASSUME NEW j \in DOMAIN issues', issues'[j].titled, issues'[j].entry = e, j # new
               PROVE  FALSE
    BY Zenon
  <2>1. j \in DOMAIN issues /\ issues'[j] = issues[j]
    BY <1>5
  <2> QED BY <1>6, <2>1, Zenon
<1>8. TitlesDiffer'
  <2> SUFFICES ASSUME NEW i \in DOMAIN issues', NEW j \in DOMAIN issues',
                      issues'[i].titled, issues'[j].titled, issues'[i].entry = issues'[j].entry
               PROVE  i = j
    BY Zenon DEF TitlesDiffer
  <2>1. ASSUME NEW k \in DOMAIN issues', NEW l \in DOMAIN issues', k = new,
               issues'[l].titled, issues'[k].entry = issues'[l].entry
        PROVE  k = l
    BY <1>3, <1>5, <1>7, <2>1, Zenon
  <2>2. CASE i # new /\ j # new
    <3>1. i \in DOMAIN issues /\ j \in DOMAIN issues
      BY <1>5, <2>2
    <3>2. issues'[i] = issues[i] /\ issues'[j] = issues[j]
      BY <1>5, <3>1, Zenon
    <3> QED BY <3>1, <3>2, Zenon DEF BacklogIInv, TitlesDiffer
  <2>3. CASE i = new
    BY <2>1, <2>3, Zenon
  <2>4. CASE j = new
    BY <2>1, <2>4, Zenon
  <2> QED BY <2>2, <2>3, <2>4
<1>9. OneIssueEach'
  <2> SUFFICES ASSUME NEW i \in DOMAIN issues' PROVE ~issues'[i].twin
    BY Zenon DEF OneIssueEach
  <2>1. CASE i = new
    BY <1>1, <1>3, <1>5, <2>1, Zenon
  <2>2. CASE i # new
    <3>1. i \in DOMAIN issues /\ issues'[i] = issues[i]
      BY <1>5, <2>2
    <3> QED BY <3>1, Zenon DEF BacklogIInv, OneIssueEach
  <2> QED BY <2>1, <2>2
<1>10. CreateFits'
  <2>1. /\ \A m, n \in DOMAIN script.entries : script.entries[m] = script.entries[n] => m = n
        /\ script.todo \subseteq DOMAIN script.entries
        /\ \A n \in script.todo : ~HasIssue(script.delta, script.entries[n])
        /\ ~prefixed /\ ~script.failed => \A n \in DOMAIN script.entries :
              n \in script.todo \/ \E i \in DOMAIN issues : issues[i].entry = script.entries[n]
    BY Zenon DEF BacklogIInv, CreateFits
  <2>2. \A m, n \in DOMAIN script'.entries : script'.entries[m] = script'.entries[n] => m = n
    BY <2>1, Zenon
  <2>3. script'.todo \subseteq DOMAIN script'.entries
    BY <2>1
  <2>4. \A n \in script'.todo : ~\E i \in DOMAIN issues' :
            issues'[i].entry = script'.entries[n] /\ (issues'[i].titled \/ (script'.delta /\ issues'[i].keyed))
    <3> SUFFICES ASSUME NEW n \in script'.todo, NEW i \in DOMAIN issues',
                        issues'[i].entry = script'.entries[n],
                        issues'[i].titled \/ (script'.delta /\ issues'[i].keyed)
                 PROVE  FALSE
      BY Zenon
    <3>1. n \in script.todo /\ n # Position
      OBVIOUS
    <3>2. script.entries[n] # e
      BY <1>1, <2>1, <3>1, Zenon DEF e
    <3>3. issues'[i].entry = script.entries[n] /\ (issues'[i].titled \/ (script.delta /\ issues'[i].keyed))
      BY Zenon
    <3>4. i # new
      BY <1>3, <1>5, <3>2, <3>3, Zenon
    <3>5. i \in DOMAIN issues /\ issues'[i] = issues[i]
      BY <1>5, <3>4
    <3> QED BY <2>1, <3>1, <3>3, <3>5, Zenon DEF HasIssue
  <2>5. ~prefixed' /\ ~script'.failed => \A n \in DOMAIN script'.entries :
            n \in script'.todo \/ \E i \in DOMAIN issues' : issues'[i].entry = script'.entries[n]
    <3> SUFFICES ASSUME ~prefixed, ~script.failed, NEW n \in DOMAIN script.entries,
                        n \notin script.todo \ {Position}
                 PROVE  \E i \in DOMAIN issues' : issues'[i].entry = script.entries[n]
      BY Zenon
    <3>1. CASE n = Position
      <4>1. issues'[new].entry = script.entries[n] /\ new \in DOMAIN issues'
        BY <1>3, <1>5, <3>1 DEF e
      <4> QED BY <4>1, Zenon
    <3>2. CASE n \notin script.todo
      <4>1. PICK i \in DOMAIN issues : issues[i].entry = script.entries[n]
        BY <2>1, <3>2, Zenon
      <4>2. i \in DOMAIN issues' /\ issues'[i] = issues[i]
        BY <1>5
      <4> QED BY <4>1, <4>2, Zenon
    <3> QED BY <3>1, <3>2
  <2> QED BY <2>2, <2>3, <2>4, <2>5, Zenon DEF CreateFits, HasIssue
<1>11. \A j \in DOMAIN issues' : issues'[j].titled /\ issues'[j].entry = issues'[new].entry => j = new
  BY <1>3, <1>5, <1>7, Zenon
<1> QED BY <1>3, <1>5, <1>8, <1>9, <1>10, <1>11, Zenon DEF new

LEMMA CreatesIssueKeeps ==
    ASSUME BacklogIInv, CreatesIssue
    PROVE  BacklogIInv'
<1>1. /\ script.at = "create" /\ script.todo # {} /\ script.at \notin Making
      /\ script \in ScriptSet /\ BacklogTypes /\ UNCHANGED prefixed
      /\ script' = [script EXCEPT !.at = "add", !.made = Len(issues) + 1,
                             !.todo = @ \ {Position}]
  BY DEF CreatesIssue, Continues, Making, BacklogIInv, BacklogTypes
<1>2. Len(issues) + 1 \in Nat /\ script.todo \ {Position} \in SUBSET Nat
  <2>1. Len(issues) + 1 \in Nat
    BY <1>1 DEF BacklogTypes
  <2>2. script.todo \in SUBSET Nat
    BY <1>1 DEF ScriptSet
  <2> QED BY <2>1, <2>2
<1> HIDE DEF Position
<1>3. /\ script' \in ScriptSet /\ script'.at = "add" /\ script'.made = Len(issues) + 1
      /\ script'.todo = script.todo \ {Position} /\ script'.entries = script.entries
      /\ script'.delta = script.delta /\ script'.failed = script.failed
  <2>1. \E n \in Nat, T \in SUBSET Nat : n = Len(issues) + 1 /\ T = script.todo \ {Position}
    BY <1>2
  <2>2. PICK n \in Nat, T \in SUBSET Nat : n = Len(issues) + 1 /\ T = script.todo \ {Position}
    BY <2>1
  <2>3. script' = [script EXCEPT !.at = "add", !.made = n, !.todo = T] /\ script \in ScriptSet
    BY <1>1, <2>2, Zenon
  <2>4. /\ script' \in ScriptSet /\ script'.at = "add" /\ script'.made = n
        /\ script'.todo = T /\ script'.entries = script.entries
        /\ script'.delta = script.delta /\ script'.failed = script.failed
    BY <2>3 DEF ScriptSet
  <2> QED BY <2>2, <2>4, Zenon
<1>4. issues' = Append(issues, Created)
  BY DEF CreatesIssue
<1>5. script'.at \in Making \cup {"create"} /\ FALSE \in BOOLEAN
  BY <1>3 DEF Making
<1>6. /\ issues' \in Seq(IssueSet) /\ TitlesDiffer' /\ OneIssueEach' /\ CreateFits'
      /\ DOMAIN issues' = DOMAIN issues \cup {Len(issues) + 1}
      /\ \A i \in DOMAIN issues : issues'[i] = issues[i] /\ i # Len(issues) + 1
      /\ issues'[Len(issues) + 1].keyed = script.delta
      /\ \A j \in DOMAIN issues' :
            issues'[j].titled /\ issues'[j].entry = issues'[Len(issues) + 1].entry
                 => j = Len(issues) + 1
  BY <1>1, <1>3, <1>4, <1>5, Appended, Zenon
<1>7. BacklogTypes'
  BY <1>1, <1>3, <1>6 DEF BacklogTypes
<1>8. MadeFits'
  <2>1. script'.made \in DOMAIN issues'
    BY <1>3, <1>6
  <2>2. /\ (issues'[script'.made].keyed <=> script'.delta)
        /\ \A j \in DOMAIN issues' :
              issues'[j].titled /\ issues'[j].entry = issues'[script'.made].entry => j = script'.made
    BY <1>3, <1>6, Zenon
  <2> QED BY <1>3, <2>1, <2>2, Zenon DEF MadeFits, Making
<1>9. UpdateFits' /\ NothingIsLeftOut' /\ UpdateCompletes'
  BY <1>3 DEF UpdateFits, NothingIsLeftOut, UpdateCompletes
<1>10. IncompleteIsTold'
  <2> SUFFICES ASSUME NEW i \in DOMAIN issues', issues'[i].keyed, script'.made # i
               PROVE  issues'[i].excused \/ (issues'[i].item /\ issues'[i].fields = 1..NFields)
    BY Zenon DEF IncompleteIsTold
  <2>1. i \in DOMAIN issues /\ issues'[i] = issues[i]
    BY <1>3, <1>6
  <2>2. script.made # i
    <3>1. script.made = 0 /\ i \in Nat /\ i \in 1..Len(issues) /\ Len(issues) \in Nat
      BY <1>1, <2>1, MadeNone, IssueIs, Zenon
    <3> QED BY <3>1
  <2> QED BY <2>1, <2>2, Zenon DEF BacklogIInv, IncompleteIsTold
<1> QED BY <1>6, <1>7, <1>8, <1>9, <1>10 DEF BacklogIInv

LEMMA CreateFailsKeeps ==
    ASSUME BacklogIInv, CreateFails
    PROVE  BacklogIInv'
<1>1. /\ script.at = "create" /\ script.todo # {} /\ script.at \notin Making
      /\ script \in ScriptSet /\ BacklogTypes /\ UNCHANGED prefixed
      /\ script' = [script EXCEPT !.todo = @ \ {Position}, !.failed = TRUE]
  BY DEF CreateFails, Continues, Making, BacklogIInv, BacklogTypes
<1> HIDE DEF Position
<1>2. /\ script' \in ScriptSet /\ script'.at = "create" /\ script'.made = script.made
      /\ script'.todo = script.todo \ {Position} /\ script'.entries = script.entries
      /\ script'.delta = script.delta /\ script'.failed = TRUE
  <2>1. \E T \in SUBSET Nat : T = script.todo \ {Position}
    <3>1. script.todo \in SUBSET Nat
      BY <1>1 DEF ScriptSet
    <3> QED BY <3>1
  <2>2. PICK T \in SUBSET Nat : T = script.todo \ {Position}
    BY <2>1
  <2>3. script' = [script EXCEPT !.todo = T, !.failed = TRUE] /\ script \in ScriptSet
        /\ script.at = "create"
    BY <1>1, <2>2, Zenon
  <2>4. /\ script' \in ScriptSet /\ script'.at = "create" /\ script'.made = script.made
        /\ script'.todo = T /\ script'.entries = script.entries
        /\ script'.delta = script.delta /\ script'.failed = TRUE
    BY <2>3 DEF ScriptSet
  <2> QED BY <2>2, <2>4, Zenon
<1>3. script.made = 0 /\ script'.made = 0
  BY <1>1, <1>2, MadeNone
<1>4. MadeFits'
  BY <1>2, <1>3 DEF MadeFits, Making
<1>5. UpdateFits' /\ NothingIsLeftOut' /\ UpdateCompletes'
  BY <1>2 DEF UpdateFits, NothingIsLeftOut, UpdateCompletes
<1>6. CASE UNCHANGED issues
  <2>1. script'.at \in {"idle", "ended", "list", "create", "plan", "update"}
    BY <1>2
  <2>2. /\ BacklogTypes' /\ TitlesDiffer' /\ OneIssueEach' /\ IncompleteIsTold'
    BY <1>1, <1>2, <1>3, <1>6, <2>1, Rests, Zenon
  <2>3. CreateFits'
    <3>1. /\ \A m, n \in DOMAIN script.entries : script.entries[m] = script.entries[n] => m = n
          /\ script.todo \subseteq DOMAIN script.entries
          /\ \A n \in script.todo : ~HasIssue(script.delta, script.entries[n])
      BY <1>1, Zenon DEF BacklogIInv, CreateFits
    <3>2. script'.todo \subseteq DOMAIN script'.entries
      BY <1>2, <3>1
    <3>3. \A n \in script'.todo : n \in script.todo
      BY <1>2
    <3>4. \A n \in script'.todo : ~\E i \in DOMAIN issues' :
            issues'[i].entry = script'.entries[n] /\ (issues'[i].titled \/ (script'.delta /\ issues'[i].keyed))
      <4>1. \A n \in script.todo : ~\E i \in DOMAIN issues :
            issues[i].entry = script.entries[n] /\ (issues[i].titled \/ (script.delta /\ issues[i].keyed))
        BY <3>1, Zenon DEF HasIssue
      <4> QED BY <1>2, <1>6, <3>3, <4>1
    <3>5. \A m, n \in DOMAIN script'.entries : script'.entries[m] = script'.entries[n] => m = n
      BY <1>2, <3>1, Zenon
    <3> QED BY <1>2, <3>2, <3>4, <3>5, Zenon DEF CreateFits, HasIssue
  <2> QED BY <1>4, <1>5, <2>2, <2>3 DEF BacklogIInv
<1>7. CASE issues' = Append(issues, [Created EXCEPT !.excused = script.delta])
  <2>1. script.delta \in BOOLEAN
    BY <1>1 DEF ScriptSet
  <2>2. script'.at \in Making \cup {"create"} /\ (script.failed => script'.failed)
    BY <1>2
  <2>3. /\ issues' \in Seq(IssueSet) /\ TitlesDiffer' /\ OneIssueEach' /\ CreateFits'
        /\ DOMAIN issues' = DOMAIN issues \cup {Len(issues) + 1}
        /\ \A i \in DOMAIN issues : issues'[i] = issues[i] /\ i # Len(issues) + 1
        /\ issues'[Len(issues) + 1].keyed = script.delta
        /\ issues'[Len(issues) + 1].excused = script.delta
    BY <1>1, <1>2, <1>7, <2>1, <2>2, Appended, Zenon
  <2>4. BacklogTypes'
    BY <1>1, <1>2, <2>3 DEF BacklogTypes
  <2>5. IncompleteIsTold'
    <3> SUFFICES ASSUME NEW i \in DOMAIN issues', issues'[i].keyed
                 PROVE  issues'[i].excused \/ (issues'[i].item /\ issues'[i].fields = 1..NFields)
      BY Zenon DEF IncompleteIsTold
    <3>1. CASE i = Len(issues) + 1
      BY <2>3, <3>1, Zenon
    <3>2. CASE i # Len(issues) + 1
      <4>1. i \in DOMAIN issues /\ issues'[i] = issues[i]
        BY <2>3, <3>2
      <4>2. script.made # i
        <5>1. script.made = 0 /\ i \in Nat /\ i \in 1..Len(issues) /\ Len(issues) \in Nat
          BY <1>1, <1>3, <4>1, IssueIs, Zenon
        <5> QED BY <5>1
      <4> QED BY <4>1, <4>2, Zenon DEF BacklogIInv, IncompleteIsTold
    <3> QED BY <3>1, <3>2
  <2> QED BY <1>4, <1>5, <2>3, <2>4, <2>5 DEF BacklogIInv
<1>8. UNCHANGED issues \/ issues' = Append(issues, [Created EXCEPT !.excused = script.delta])
  BY Zenon DEF CreateFails
<1> QED BY <1>6, <1>7, <1>8

-----------------------------------------------------------------------------
(* The update, and what befalls the scripts.                                *)

LEMMA ItemIsLeft ==
    ASSUME BacklogTypes, script.todo \subseteq DOMAIN issues, script.todo # {}
    PROVE  NextItem \in script.todo
<1> DEFINE E == {issues[i].entry : i \in script.todo}
<1>1. E \in SUBSET Nat
  <2>1. \A i \in script.todo : issues[i].entry \in Entries
    BY IssueIs, IssueTypes, Zenon
  <2> QED BY <2>1, BacklogAssumption
<1>2. E # {}
  OBVIOUS
<1> HIDE DEF E
<1>3. \E e \in E : \A f \in E : e <= f
  BY <1>1, <1>2, Smallest
<1>4. \E i \in script.todo : \A j \in script.todo : issues[i].entry <= issues[j].entry
  BY <1>3, Zenon DEF E
<1> QED BY <1>4, Zenon DEF NextItem

LEMMA SameItem ==
    ASSUME IssuesKeep, script.todo \subseteq DOMAIN issues, script'.todo = script.todo
    PROVE  NextItem' = NextItem
<1>1. \A i \in script.todo : issues'[i].entry = issues[i].entry
  BY DEF IssuesKeep
<1> QED BY <1>1 DEF NextItem

LEMMA PlansUpdateKeeps ==
    ASSUME BacklogIInv, Whole, PlansUpdate
    PROVE  BacklogIInv'
<1> DEFINE items == {i \in DOMAIN issues : issues[i].item}
           T == {i \in items : /\ i \in InProject(items, issues[i].entry)
                               /\ \A j \in InProject(items, issues[i].entry) : j <= i}
<1>0. \A shown \in Boards : shown = items
  BY WholeIs, Zenon DEF BacklogIInv
<1>1. /\ script.at = "plan" /\ script.at \notin Making /\ script \in ScriptSet /\ BacklogTypes
      /\ UNCHANGED <<prefixed, issues>>
      /\ script' = [script EXCEPT !.at = "update", !.nth = 1, !.todo = T]
  BY <1>0, Zenon DEF PlansUpdate, Continues, Making, BacklogIInv, BacklogTypes
<1>2. T \subseteq DOMAIN issues /\ T \in SUBSET Nat
  <2>1. \A i \in DOMAIN issues : i \in Nat
    BY <1>1, IssueIs, Zenon
  <2> QED BY <2>1
<1>3. \A i \in DOMAIN issues : issues[i].item /\ issues[i].titled => i \in T
  <2> SUFFICES ASSUME NEW i \in DOMAIN issues, issues[i].item, issues[i].titled
               PROVE  i \in T
    BY Zenon
  <2>1. i \in items /\ i \in InProject(items, issues[i].entry)
    BY Zenon DEF InProject
  <2>2. ASSUME NEW j \in InProject(items, issues[i].entry) PROVE j <= i
    <3>1. j = i
      BY Zenon DEF InProject, BacklogIInv, TitlesDiffer
    <3>2. i \in Nat
      BY <1>1, IssueIs, Zenon
    <3> QED BY <3>1, <3>2
  <2> QED BY <2>1, <2>2, Zenon
<1> HIDE DEF T
<1>4. /\ script' \in ScriptSet /\ script'.at = "update" /\ script'.made = script.made
      /\ script'.todo = T /\ script'.nth = 1
  BY <1>1, <1>2 DEF ScriptSet
<1>5. /\ script'.at \in {"idle", "ended", "list", "create", "plan", "update"}
      /\ script.made = 0 /\ script'.made = 0
  BY <1>1, <1>4, MadeNone
<1>6. /\ BacklogTypes' /\ TitlesDiffer' /\ OneIssueEach' /\ IncompleteIsTold' /\ MadeFits'
  BY <1>1, <1>4, <1>5, Rests, Zenon
<1>7. CreateFits' /\ NothingIsLeftOut' /\ UpdateCompletes'
  BY <1>4 DEF CreateFits, NothingIsLeftOut, UpdateCompletes, Making
<1>8. UpdateFits'
  <2>1. script'.todo \subseteq DOMAIN issues'
    BY <1>1, <1>2, <1>4
  <2>2. 1 \in 1..NFields /\ 1..(1 - 1) = {}
    BY BacklogAssumption
  <2>3. script'.nth \in 1..NFields
    BY <1>4, <2>2
  <2>4. \A i \in DOMAIN issues' : issues'[i].item /\ issues'[i].titled =>
           i \in script'.todo \/ issues'[i].fields = 1..NFields
    BY <1>1, <1>3, <1>4, Zenon
  <2>5. 1..(script'.nth - 1) = {}
    BY <1>4, <2>2
  <2>6. 1..(script'.nth - 1) \subseteq issues'[NextItem'].fields
    BY <2>5
  <2> QED BY <2>1, <2>3, <2>4, <2>6, Zenon DEF UpdateFits
<1> QED BY <1>6, <1>7, <1>8 DEF BacklogIInv

LEMMA UpdatesFieldKeeps ==
    ASSUME BacklogIInv, UpdatesField
    PROVE  BacklogIInv'
<1> DEFINE last == script.nth = NFields
           next == [script EXCEPT !.nth = IF last THEN 1 ELSE @ + 1,
                                  !.todo = IF last THEN @ \ {NextItem} ELSE @]
           set == [issues EXCEPT ![NextItem].fields = @ \cup {script.nth}]
           N == IF last THEN 1 ELSE script.nth + 1
           T == IF last THEN script.todo \ {NextItem} ELSE script.todo
<1>1. /\ script.at = "update" /\ script.at \notin Making /\ script \in ScriptSet /\ BacklogTypes
      /\ script.todo # {} /\ UNCHANGED prefixed
      /\ script.todo \subseteq DOMAIN issues /\ script.nth \in 1..NFields
  BY DEF UpdatesField, Continues, Making, BacklogIInv, BacklogTypes, UpdateFits
<1>2. NextItem \in script.todo /\ NextItem \in DOMAIN issues
  BY <1>1, ItemIsLeft
<1>3. \/ issues' = set /\ script' = next
      \/ issues' \in {issues, set} /\ script' = [next EXCEPT !.failed = TRUE]
  BY Zenon DEF UpdatesField, Continues
<1>4. N \in Nat /\ N \in 1..NFields /\ T \in SUBSET Nat /\ T \subseteq script.todo
  <2>1. script.todo \in SUBSET Nat
    BY <1>1 DEF ScriptSet
  <2> QED BY <1>1, <2>1, BacklogAssumption
<1>5. next = [script EXCEPT !.nth = N, !.todo = T]
  OBVIOUS
<1> HIDE DEF N, T, next
<1>6. next \in ScriptSet /\ next.at = "update" /\ next.made = script.made /\ next.todo = T
      /\ next.nth = N /\ next.entries = script.entries /\ next.failed = script.failed
  <2>1. script \in ScriptSet /\ script.at = "update"
    BY <1>1
  <2> QED BY <2>1, <1>4, <1>5 DEF ScriptSet
<1>7. /\ script' \in ScriptSet /\ script'.at = "update" /\ script'.made = 0 /\ script.made = 0
      /\ script'.todo = T /\ script'.nth = N
  <2>1. script.made = 0
    BY <1>1, MadeNone
  <2>2. CASE script' = [next EXCEPT !.failed = TRUE]
    <3>1. /\ script' \in ScriptSet /\ script'.at = next.at /\ script'.made = next.made
          /\ script'.todo = next.todo /\ script'.nth = next.nth
      BY <1>6, <2>2 DEF ScriptSet
    <3> QED BY <1>6, <2>1, <3>1
  <2>3. CASE script' = next
    BY <1>6, <2>1, <2>3
  <2> QED BY <1>3, <2>2, <2>3
<1>8. \/ issues' = set /\ script'.failed = script.failed
      \/ script'.failed = TRUE
  <2>1. CASE script' = [next EXCEPT !.failed = TRUE]
    BY <1>6, <2>1 DEF ScriptSet
  <2>2. CASE issues' = set /\ script' = next
    BY <1>6, <2>2
  <2> QED BY <1>3, <2>1, <2>2
<1>9. issues' = issues \/ issues' = set
  BY <1>3
<1>10. ASSUME issues' = set
       PROVE  /\ IssuesKeep /\ issues'[NextItem].item = issues[NextItem].item
              /\ issues'[NextItem].titled = issues[NextItem].titled
              /\ issues'[NextItem].fields = issues[NextItem].fields \cup {script.nth}
              /\ \A j \in DOMAIN issues : j # NextItem => issues'[j] = issues[j]
  <2> HIDE DEF NextItem
  <2> QED BY <1>1, <1>2, <1>10, SetsOne, Zenon
<1> HIDE DEF set, NextItem
<1>11. /\ IssuesKeep /\ \A j \in DOMAIN issues : issues'[j].item = issues[j].item
  <2>1. CASE issues' = issues
    BY <1>1, <2>1, Untouched
  <2>2. CASE issues' = set
    BY <1>2, <1>10, <2>2, Zenon
  <2> QED BY <1>9, <2>1, <2>2
<1>12. BacklogTypes' /\ TitlesDiffer' /\ OneIssueEach'
  <2>1. BacklogTypes'
    BY <1>1, <1>7, <1>11 DEF BacklogTypes, IssuesKeep
  <2> QED BY <1>11, <2>1, TitlesStayApart, NoTwinComes, Zenon DEF BacklogIInv
<1>13. CreateFits' /\ MadeFits' /\ NothingIsLeftOut' /\ UpdateCompletes'
  BY <1>7 DEF CreateFits, MadeFits, NothingIsLeftOut, UpdateCompletes, Making
<1>14. IncompleteIsTold'
  <2> SUFFICES ASSUME NEW i \in DOMAIN issues', issues'[i].keyed
               PROVE  issues'[i].excused \/ (issues'[i].item /\ issues'[i].fields = 1..NFields)
    BY Zenon DEF IncompleteIsTold
  <2>1. i \in DOMAIN issues
    BY <1>11 DEF IssuesKeep
  <2>2. script.made # i
    <3>1. i \in 1..Len(issues) /\ Len(issues) \in Nat
      BY <1>1, <2>1, IssueIs, Zenon
    <3> QED BY <1>7, <3>1
  <2>3. issues'[i].item = issues[i].item /\ IncompleteIsTold
    BY <1>11, <2>1, Zenon DEF BacklogIInv
  <2> QED BY <1>11, <2>1, <2>2, <2>3, StillTold, Zenon
<1>15. UpdateFits'
  <2>1. script'.todo \subseteq DOMAIN issues'
    BY <1>1, <1>4, <1>7, <1>11 DEF IssuesKeep
  <2>2. script'.nth \in 1..NFields
    BY <1>4, <1>7
  <2>3. ASSUME ~script'.failed
        PROVE  /\ \A i \in DOMAIN issues' : issues'[i].item /\ issues'[i].titled =>
                     i \in script'.todo \/ issues'[i].fields = 1..NFields
               /\ script'.todo # {} => 1..(script'.nth - 1) \subseteq issues'[NextItem'].fields
    <3>1. issues' = set /\ ~script.failed
      BY <1>8, <2>3, Zenon
    <3>2. /\ \A i \in DOMAIN issues : issues[i].item /\ issues[i].titled =>
               i \in script.todo \/ issues[i].fields = 1..NFields
          /\ 1..(script.nth - 1) \subseteq issues[NextItem].fields
      BY <1>1, <3>1, Zenon DEF BacklogIInv, UpdateFits
    <3>3. /\ issues'[NextItem].fields = issues[NextItem].fields \cup {script.nth}
          /\ \A j \in DOMAIN issues : j # NextItem => issues'[j] = issues[j]
      BY <1>10, <3>1
    <3>4. 1..script.nth \subseteq issues'[NextItem].fields
      <4>1. 1..script.nth = 1..(script.nth - 1) \cup {script.nth}
        BY <1>1, BacklogAssumption
      <4> QED BY <3>2, <3>3, <4>1
    <3>5. CASE last
      <4>1. T = script.todo \ {NextItem} /\ N = 1
        BY <3>5 DEF T, N
      <4>2. issues'[NextItem].fields = 1..NFields
        <5>1. issues'[NextItem] \in IssueSet
          BY <1>2, <1>11 DEF IssuesKeep
        <5>2. issues'[NextItem].fields \subseteq 1..NFields
          BY <5>1, IssueTypes, Zenon
        <5> QED BY <3>4, <3>5, <5>2
      <4>3. ASSUME NEW i \in DOMAIN issues', issues'[i].item, issues'[i].titled, i \notin T
            PROVE  issues'[i].fields = 1..NFields
        <5>1. CASE i = NextItem
          BY <4>2, <5>1
        <5>2. CASE i # NextItem
          <6>1. i \in DOMAIN issues /\ i \notin script.todo
            BY <1>11, <4>1, <4>3, <5>2 DEF IssuesKeep
          <6>2. issues'[i] = issues[i]
            BY <3>3, <5>2, <6>1, Zenon
          <6> QED BY <3>2, <4>3, <6>1, <6>2, Zenon
        <5> QED BY <5>1, <5>2
      <4>4. 1..(script'.nth - 1) = {}
        BY <1>7, <4>1
      <4>5. 1..(script'.nth - 1) \subseteq issues'[NextItem'].fields
        BY <4>4
      <4> QED BY <1>7, <4>3, <4>5, Zenon
    <3>6. CASE ~last
      <4>1. T = script.todo /\ N = script.nth + 1
        BY <3>6 DEF T, N
      <4>2. NextItem' = NextItem
        BY <1>1, <1>7, <1>11, <4>1, SameItem, Zenon
      <4>3. ASSUME NEW i \in DOMAIN issues', issues'[i].item, issues'[i].titled, i \notin script.todo
            PROVE  issues'[i].fields = 1..NFields
        <5>1. i \in DOMAIN issues /\ i # NextItem
          BY <1>2, <1>11, <4>3 DEF IssuesKeep
        <5>2. issues'[i] = issues[i]
          BY <3>3, <5>1, Zenon
        <5> QED BY <3>2, <4>3, <5>1, <5>2, Zenon
      <4>4. 1..(script'.nth - 1) = 1..script.nth
        BY <1>1, <1>7, <4>1, BacklogAssumption
      <4>5. 1..(script'.nth - 1) \subseteq issues'[NextItem'].fields
        BY <3>4, <4>2, <4>4
      <4> QED BY <1>7, <4>1, <4>3, <4>5, Zenon
    <3> QED BY <3>5, <3>6
  <2> QED BY <2>1, <2>2, <2>3, Zenon DEF UpdateFits
<1> QED BY <1>12, <1>13, <1>14, <1>15 DEF BacklogIInv

LEMMA DiesKeeps ==
    ASSUME BacklogIInv, Dies
    PROVE  BacklogIInv'
<1>1. BacklogTypes /\ UNCHANGED prefixed /\ script' = NoScript
  BY DEF Dies, Continues, BacklogIInv
<1>2. script' \in ScriptSet /\ script'.at = "idle" /\ script'.made = 0
  BY <1>1, NoScriptIs
<1>3. /\ IssuesKeep
      /\ \A j \in DOMAIN issues : j # script.made => issues'[j] = issues[j]
      /\ script.made \in DOMAIN issues => issues'[script.made].excused = issues[script.made].keyed
  <2>1. CASE script.made = 0
    <3>1. UNCHANGED issues
      BY <2>1, Zenon DEF Dies
    <3>2. script.made \notin DOMAIN issues
      <4>1. \A i \in DOMAIN issues : i \in 1..Len(issues) /\ Len(issues) \in Nat
        BY <1>1, IssueIs, Zenon
      <4> QED BY <2>1, <4>1
    <3> QED BY <1>1, <3>1, <3>2, Untouched
  <2>2. CASE script.made # 0
    <3>1. issues' = Excuse(script.made)
      BY <2>2, Zenon DEF Dies
    <3>2. script.made \in DOMAIN issues
      BY <2>2 DEF BacklogIInv, MadeFits
    <3> QED BY <1>1, <3>1, <3>2, IsExcused, Zenon
  <2> QED BY <2>1, <2>2
<1>4. BacklogTypes'
  BY <1>1, <1>2, <1>3 DEF BacklogTypes, IssuesKeep
<1>5. TitlesDiffer' /\ OneIssueEach'
  BY <1>3, TitlesStayApart, NoTwinComes, Zenon DEF BacklogIInv
<1>6. CreateFits' /\ MadeFits' /\ UpdateFits' /\ NothingIsLeftOut' /\ UpdateCompletes'
  BY <1>2 DEF CreateFits, MadeFits, UpdateFits, NothingIsLeftOut, UpdateCompletes, Making
<1>7. IncompleteIsTold'
  <2> SUFFICES ASSUME NEW i \in DOMAIN issues', issues'[i].keyed
               PROVE  issues'[i].excused \/ (issues'[i].item /\ issues'[i].fields = 1..NFields)
    BY Zenon DEF IncompleteIsTold
  <2>1. i \in DOMAIN issues /\ issues[i].keyed
    BY <1>3, Zenon DEF IssuesKeep
  <2>2. CASE i = script.made
    BY <1>3, <2>1, <2>2, Zenon
  <2>3. CASE i # script.made
    <3>1. issues'[i].item = issues[i].item /\ IncompleteIsTold
      BY <1>3, <2>1, <2>3, Zenon DEF BacklogIInv
    <3> QED BY <1>3, <2>1, <2>3, <3>1, StillTold, Zenon
  <2> QED BY <2>2, <2>3
<1> QED BY <1>4, <1>5, <1>6, <1>7 DEF BacklogIInv

LEMMA OwnerRenamesKeeps ==
    ASSUME BacklogIInv, OwnerRenames
    PROVE  BacklogIInv'
<1>1. BacklogTypes /\ UNCHANGED <<prefixed, script>> /\ script \in ScriptSet
  BY DEF OwnerRenames, BacklogIInv, BacklogTypes
<1>2. PICK i \in DOMAIN issues : issues' = [issues EXCEPT ![i].titled = FALSE]
  BY Zenon DEF OwnerRenames
<1> DEFINE r == [issues[i] EXCEPT !.titled = FALSE]
<1>3. issues[i] \in IssueSet
  BY <1>1, IssueIs
<1>4. /\ r \in IssueSet /\ r.entry = issues[i].entry /\ r.keyed = issues[i].keyed
      /\ r.twin = issues[i].twin /\ r.titled = FALSE
      /\ r.excused = issues[i].excused /\ r.fields = issues[i].fields
      /\ r.item = issues[i].item
  BY <1>3 DEF IssueSet
<1>5. issues' = [issues EXCEPT ![i] = r]
  BY <1>2
<1> HIDE DEF r
<1>6. (r.titled => issues[i].titled) /\ (issues[i].keyed /\ issues[i].excused => r.excused)
  BY <1>4, Zenon
<1>7. issues[i].fields \subseteq r.fields
  BY <1>4
<1>8. /\ IssuesKeep /\ issues'[i] = r
      /\ \A j \in DOMAIN issues : j # i => issues'[j] = issues[j]
  BY <1>1, <1>4, <1>5, <1>6, <1>7, OneEdited, Zenon
<1>9. \A j \in DOMAIN issues : /\ issues'[j].item = issues[j].item
                               /\ issues'[j].fields = issues[j].fields
                               /\ issues'[j].excused = issues[j].excused
                               /\ issues'[j].entry = issues[j].entry
                               /\ issues'[j].keyed = issues[j].keyed
                               /\ issues'[j].titled => issues[j].titled
  BY <1>4, <1>8, Zenon DEF IssuesKeep
<1>10. DOMAIN issues' = DOMAIN issues
  BY <1>8 DEF IssuesKeep
<1>11. BacklogTypes'
  BY <1>1, <1>8 DEF BacklogTypes, IssuesKeep
<1>12. TitlesDiffer' /\ OneIssueEach'
  BY <1>8, TitlesStayApart, NoTwinComes, Zenon DEF BacklogIInv
<1>13. IncompleteIsTold'
  BY <1>1, <1>9, <1>10, Zenon DEF BacklogIInv, IncompleteIsTold
<1>14. NothingIsLeftOut' /\ UpdateCompletes'
  BY <1>1, <1>9, <1>10, Zenon DEF BacklogIInv, NothingIsLeftOut, UpdateCompletes
<1>15. CreateFits'
  <2>1. CASE script.at \in Making \cup {"create"}
    <3>1. /\ script'.entries = script.entries /\ script'.todo = script.todo
          /\ script'.delta = script.delta /\ (script.failed => script'.failed)
          /\ script'.at \in Making \cup {"create"} /\ UNCHANGED prefixed
      BY <1>1, <2>1, Zenon
    <3>2. CreateFits
      BY DEF BacklogIInv
    <3> QED BY <1>8, <2>1, <3>1, <3>2, GoesOnCreating, Zenon
  <2>2. CASE script.at \notin Making \cup {"create"}
    BY <1>1, <2>2, Zenon DEF BacklogIInv, CreateFits
  <2> QED BY <2>1, <2>2
<1>16. MadeFits'
  <2>1. MadeFits
    BY DEF BacklogIInv
  <2>2. script.at \in Making =>
          /\ script.made \in DOMAIN issues'
          /\ issues'[script.made].keyed <=> script.delta
          /\ \A j \in DOMAIN issues' :
                issues'[j].titled /\ issues'[j].entry = issues'[script.made].entry => j = script.made
    BY <1>9, <1>10, <2>1, Zenon DEF MadeFits
  <2>3. script.at = "fields" =>
          /\ script.delta /\ script.target = script.made /\ issues'[script.made].item
          /\ script.nth \in 1..(NFields + 1)
          /\ issues'[script.made].excused \/ 1..(script.nth - 1) \subseteq issues'[script.made].fields
    BY <1>9, <2>1, Zenon DEF MadeFits, Making
  <2> QED BY <1>1, <2>1, <2>2, <2>3, Zenon DEF MadeFits
<1>17. UpdateFits'
  <2>1. CASE script.at = "update"
    <3>1. UpdateFits /\ script.todo \subseteq DOMAIN issues
      BY <2>1, Zenon DEF BacklogIInv, UpdateFits
    <3>2. NextItem' = NextItem
      BY <1>1, <1>8, <3>1, SameItem, Zenon
    <3>3. script.todo # {} => NextItem \in DOMAIN issues
      BY <1>1, <3>1, ItemIsLeft
    <3>4. ~script.failed =>
          /\ \A j \in DOMAIN issues' : issues'[j].item /\ issues'[j].titled =>
                j \in script.todo \/ issues'[j].fields = 1..NFields
          /\ script.todo # {} => 1..(script.nth - 1) \subseteq issues'[NextItem'].fields
      BY <1>9, <1>10, <2>1, <3>1, <3>2, <3>3, Zenon DEF UpdateFits
    <3> QED BY <1>1, <1>10, <2>1, <3>1, <3>4, Zenon DEF UpdateFits
  <2>2. CASE script.at # "update"
    BY <1>1, <2>2, Zenon DEF UpdateFits
  <2> QED BY <2>1, <2>2
<1> QED BY <1>11, <1>12, <1>13, <1>14, <1>15, <1>16, <1>17 DEF BacklogIInv

LEMMA BacklogStart ==
    ASSUME BacklogInit
    PROVE  BacklogIInv
<1>1. issues = <<>> /\ script = NoScript /\ prefixed \in BOOLEAN
  BY DEF BacklogInit
<1>2. issues \in Seq(IssueSet) /\ DOMAIN issues = {}
  <2>1. issues \in Seq(IssueSet)
    BY <1>1, EmptySeq
  <2> QED BY <1>1, <2>1
<1>3. script \in ScriptSet /\ script.at = "idle" /\ script.made = 0
  BY <1>1, NoScriptIs
<1>4. BacklogTypes
  BY <1>1, <1>2, <1>3 DEF BacklogTypes
<1>5. TitlesDiffer /\ OneIssueEach /\ IncompleteIsTold
  BY <1>2, Zenon DEF TitlesDiffer, OneIssueEach, IncompleteIsTold
<1>6. CreateFits /\ MadeFits /\ UpdateFits /\ NothingIsLeftOut /\ UpdateCompletes
  BY <1>3 DEF CreateFits, MadeFits, UpdateFits, NothingIsLeftOut, UpdateCompletes, Making
<1> QED BY <1>4, <1>5, <1>6 DEF BacklogIInv

LEMMA BacklogStep ==
    ASSUME BacklogIInv, Whole, [BacklogNext]_backlogVars
    PROVE  BacklogIInv'
<1>1. CASE BacklogNext
  <2>1. CASE OwnerRenames
    BY <2>1, OwnerRenamesKeeps
  <2>2. CASE ScriptStarts
    BY <2>2, ScriptStartsKeeps
  <2>3. CASE Lists
    BY <2>3, ListsKeeps
  <2>4. CASE CreatesIssue
    BY <2>4, CreatesIssueKeeps
  <2>5. CASE CreateFails
    BY <2>5, CreateFailsKeeps
  <2>6. CASE AddsToProject
    BY <2>6, AddsToProjectKeeps
  <2>7. CASE ResolvesItem
    BY <2>7, ResolvesItemKeeps
  <2>8. CASE SetsField
    BY <2>8, SetsFieldKeeps
  <2>9. CASE FieldFails
    BY <2>9, FieldFailsKeeps
  <2>10. CASE FieldsEnd
    BY <2>10, FieldsEndKeeps
  <2>11. CASE ScriptEnds
    BY <2>11, ScriptEndsKeeps
  <2>12. CASE UpdateStarts
    BY <2>12, UpdateStartsKeeps
  <2>13. CASE PlansUpdate
    BY <2>13, PlansUpdateKeeps
  <2>14. CASE UpdatesField
    BY <2>14, UpdatesFieldKeeps
  <2>15. CASE UpdateEnds
    BY <2>15, UpdateEndsKeeps
  <2>16. CASE Dies
    BY <2>16, DiesKeeps
  <2> QED BY <1>1, <2>1, <2>2, <2>3, <2>4, <2>5, <2>6, <2>7, <2>8, <2>9, <2>10, <2>11,
             <2>12, <2>13, <2>14, <2>15, <2>16, Zenon DEF BacklogNext, ScriptStep
<1>2. CASE UNCHANGED backlogVars
  <2>1. issues' = issues /\ script' = script /\ prefixed' = prefixed
    BY <1>2 DEF backlogVars
  <2>2. BacklogTypes' /\ TitlesDiffer' /\ OneIssueEach'
    BY <2>1, Zenon DEF BacklogIInv, BacklogTypes, TitlesDiffer, OneIssueEach
  <2>3. CreateFits'
    BY <2>1, Zenon DEF BacklogIInv, CreateFits, HasIssue
  <2>4. MadeFits' /\ IncompleteIsTold' /\ NothingIsLeftOut' /\ UpdateCompletes'
    BY <2>1, Zenon DEF BacklogIInv, MadeFits, IncompleteIsTold, NothingIsLeftOut, UpdateCompletes
  <2>5. UpdateFits'
    <3>1. NextItem' = NextItem
      BY <2>1, Zenon DEF NextItem
    <3> QED BY <2>1, <3>1, Zenon DEF BacklogIInv, UpdateFits
  <2> QED BY <2>2, <2>3, <2>4, <2>5 DEF BacklogIInv
<1> QED BY <1>1, <1>2

\* Issues are not deleted: what is too much for the lists stays too much.
IsList(s) == \E S : s \in Seq(S)
BacklogWhole == IsList(issues) /\ (Whole => BacklogIInv)

LEMMA OneReplaced ==
    ASSUME NEW s, IsList(s), NEW i, NEW r
    PROVE  IsList([s EXCEPT ![i] = r]) /\ Len([s EXCEPT ![i] = r]) = Len(s)
<1>1. PICK S : s \in Seq(S)
  BY DEF IsList
<1>2. s \in Seq(S \cup {r})
  BY <1>1
<1>3. [s EXCEPT ![i] = r] \in Seq(S \cup {r}) /\ Len([s EXCEPT ![i] = r]) = Len(s)
  <2>1. CASE i \in DOMAIN s
    BY <1>2, <2>1
  <2>2. CASE i \notin DOMAIN s
    <3>1. s = [j \in DOMAIN s |-> s[j]]
      BY <1>2
    <3>2. \A j \in DOMAIN s : j # i
      BY <2>2
    <3>3. [s EXCEPT ![i] = r] = s
      BY <3>1, <3>2
    <3> QED BY <1>2, <3>3
  <2> QED BY <2>1, <2>2
<1> QED BY <1>3, Zenon DEF IsList

LEMMA OneAppended ==
    ASSUME NEW s, IsList(s), NEW r
    PROVE  IsList(Append(s, r)) /\ Len(Append(s, r)) = Len(s) + 1 /\ Len(s) \in Nat
<1>1. PICK S : s \in Seq(S)
  BY DEF IsList
<1>2. s \in Seq(S \cup {r})
  BY <1>1
<1>3. Append(s, r) \in Seq(S \cup {r}) /\ Len(Append(s, r)) = Len(s) + 1 /\ Len(s) \in Nat
  BY <1>2
<1> QED BY <1>3, Zenon DEF IsList

Replaced(s, t) == \E i, r : t = [s EXCEPT ![i] = r]

LEMMA IssuesChange ==
    ASSUME BacklogNext
    PROVE  \/ UNCHANGED issues \/ Replaced(issues, issues')
           \/ \E i : Replaced(Excuse(i), issues')
           \/ \E r : issues' = Append(issues, r)
<1>1. \A s, i, x : Replaced(s, [s EXCEPT ![i].item = x])
  BY DEF Replaced
<1>2. \A s, i, x : Replaced(s, [s EXCEPT ![i].fields = x])
  BY DEF Replaced
<1>3. \A s, i, x : Replaced(s, [s EXCEPT ![i].fields = @ \cup x])
  BY DEF Replaced
<1>4. \A s, i, x : Replaced(s, [s EXCEPT ![i].titled = x])
  BY DEF Replaced
<1>5. \A i : Replaced(issues, Excuse(i))
  BY DEF Replaced, Excuse
<1> DEFINE Changes == \/ issues' = issues \/ Replaced(issues, issues')
                     \/ \E i : Replaced(Excuse(i), issues')
                     \/ \E r : issues' = Append(issues, r)
<1>6. CASE OwnerRenames
  <2>1. PICK i \in DOMAIN issues : issues' = [issues EXCEPT ![i].titled = FALSE]
    BY <1>6, Zenon DEF OwnerRenames
  <2>2. Replaced(issues, issues')
    BY <1>4, <2>1
  <2> QED BY <2>2
<1>7. CASE ScriptStarts \/ Lists \/ UpdateStarts \/ PlansUpdate \/ FieldsEnd \/ ScriptEnds \/ UpdateEnds
  <2>1. issues' = issues
    BY <1>7, Zenon DEF ScriptStarts, Lists, UpdateStarts, PlansUpdate, FieldsEnd, ScriptEnds, UpdateEnds
  <2> QED BY <2>1
<1>8. CASE CreatesIssue \/ CreateFails
  <2>1. issues' = issues \/ \E r : issues' = Append(issues, r)
    BY <1>8, Zenon DEF CreatesIssue, CreateFails
  <2> QED BY <2>1
<1>9. CASE AddsToProject
  <2>1. PICK added : issues' = [issues EXCEPT ![script.made].item = added]
    BY <1>9, Zenon DEF AddsToProject
  <2>2. Replaced(issues, issues')
    BY <1>1, <2>1
  <2> QED BY <2>2
<1>10. CASE ResolvesItem
  <2>1. issues' = issues \/ issues' = Excuse(script.made)
    BY <1>10, Zenon DEF ResolvesItem
  <2> QED BY <1>5, <2>1
<1>11. CASE SetsField
  <2>1. issues' = [issues EXCEPT ![script.target].fields = @ \cup {script.nth}]
    BY <1>11, Zenon DEF SetsField
  <2> QED BY <1>3, <2>1
<1>12. CASE FieldFails
  <2>1. \/ issues' = Excuse(script.made)
        \/ issues' = [Excuse(script.made) EXCEPT ![script.target].fields = @ \cup {script.nth}]
    BY <1>12, Zenon DEF FieldFails
  <2>2. CASE issues' = Excuse(script.made)
    BY <1>5, <2>2
  <2>3. CASE issues' = [Excuse(script.made) EXCEPT ![script.target].fields = @ \cup {script.nth}]
    <3>1. Replaced(Excuse(script.made), issues')
      BY <1>3, <2>3
    <3> QED BY <3>1
  <2> QED BY <2>1, <2>2, <2>3
<1>13. CASE UpdatesField
  <2>1. issues' = issues \/ issues' = [issues EXCEPT ![NextItem].fields = @ \cup {script.nth}]
    BY <1>13, Zenon DEF UpdatesField
  <2>2. CASE issues' = [issues EXCEPT ![NextItem].fields = @ \cup {script.nth}]
    BY <1>3, <2>2
  <2> QED BY <2>1, <2>2
<1>14. CASE Dies
  <2>1. issues' = issues \/ issues' = Excuse(script.made)
    BY <1>14, Zenon DEF Dies
  <2> QED BY <1>5, <2>1
<1> QED BY <1>6, <1>7, <1>8, <1>9, <1>10, <1>11, <1>12, <1>13, <1>14, Zenon
        DEF BacklogNext, ScriptStep

LEMMA IssuesStay ==
    ASSUME IsList(issues), [BacklogNext]_backlogVars
    PROVE  IsList(issues') /\ (Whole' => Whole)
<1>1. \A s, t : IsList(s) /\ Replaced(s, t) => IsList(t) /\ Len(t) = Len(s)
  <2> SUFFICES ASSUME NEW s, NEW t, IsList(s), Replaced(s, t)
               PROVE  IsList(t) /\ Len(t) = Len(s)
    BY Zenon
  <2>1. PICK i, r : t = [s EXCEPT ![i] = r]
    BY Zenon DEF Replaced
  <2>2. IsList([s EXCEPT ![i] = r]) /\ Len([s EXCEPT ![i] = r]) = Len(s)
    BY OneReplaced, Zenon
  <2> QED BY <2>1, <2>2, Zenon
<1>2. \A i : IsList(Excuse(i)) /\ Len(Excuse(i)) = Len(issues)
  <2>1. \A i : Replaced(issues, Excuse(i))
    BY DEF Replaced, Excuse
  <2> QED BY <1>1, <2>1, Zenon
<1>3. \/ IsList(issues') /\ Len(issues') = Len(issues)
      \/ \E r : issues' = Append(issues, r)
  <2>1. CASE UNCHANGED backlogVars
    BY <2>1, Zenon DEF backlogVars
  <2>2. CASE BacklogNext
    BY <1>1, <1>2, <2>2, IssuesChange, Zenon
  <2> QED BY <2>1, <2>2
<1>4. CASE IsList(issues') /\ Len(issues') = Len(issues)
  BY <1>4 DEF Whole
<1>5. CASE \E r : issues' = Append(issues, r)
  <2>1. IsList(issues') /\ Len(issues') = Len(issues) + 1 /\ Len(issues) \in Nat
    BY <1>5, OneAppended, Zenon
  <2> QED BY <2>1, BacklogAssumption DEF Whole
<1> QED BY <1>3, <1>4, <1>5

LEMMA BacklogWholeStart ==
    ASSUME BacklogInit
    PROVE  BacklogWhole
<1>1. issues \in Seq(IssueSet)
  BY BacklogStart DEF BacklogIInv, BacklogTypes
<1> QED BY <1>1, BacklogStart, Zenon DEF BacklogWhole, IsList

LEMMA BacklogWholeStep ==
    ASSUME BacklogWhole, [BacklogNext]_backlogVars
    PROVE  BacklogWhole'
<1>1. IsList(issues') /\ (Whole' => Whole)
  BY IssuesStay, Zenon DEF BacklogWhole
<1>2. Whole' => BacklogIInv'
  BY <1>1, BacklogStep, Zenon DEF BacklogWhole
<1> QED BY <1>1, <1>2, Zenon DEF BacklogWhole

LEMMA BacklogIsSafe ==
    ASSUME BacklogWhole
    PROVE  BacklogInv
BY Zenon DEF BacklogWhole, BacklogIInv, BacklogInv

-----------------------------------------------------------------------------
(* The block of fields in the body of an issue.  What is written into a    *)
(* body is read again: an induction over the lines of the block, carried   *)
(* out on the least line at which it would fail.                           *)

\* Fields of D with values of V; the fields and the lines of the bodies.
Fields(D, V) == UNION {[d -> V] : d \in SUBSET D}

ScalarField == {"estimatedComplexity", "acLastVerifiedAt"}
ListField == {"dependsOn"}
MetaValue == {"M", "huge", "now"}
Meta == [scalar : Fields(ScalarField, MetaValue), list : Fields(ListField, Seq(Nat))]

MetaLine ==
    {OpenMark, CloseMark, OtherLine}
    \cup {Scalar(f, v) : f \in ScalarField, v \in MetaValue}
    \cup {List(f, items) : f \in ListField, items \in Seq(Nat)}
    \cup {Item(v) : v \in Nat}

\* The parser before the first line of a block.
FirstAcc == [meta |-> NoMeta, current |-> "none"]

\* What the parser has in hand: a list that takes items is one that it has.
Acc == {acc \in [meta : Meta, current : ListField \cup {"none"}] :
           acc.current # "none" => acc.current \in DOMAIN acc.meta.list}

\* The empty sequence is the function without arguments.
LEMMA EmptyFields ==
    /\ DOMAIN <<>> = {}
    /\ \A D, V : <<>> \in Fields(D, V)
<1>1. \A V : <<>> \in [{} -> V] /\ DOMAIN <<>> = {}
  <2> TAKE V
  <2>1. <<>> \in [1..Len(<<>>) -> V] /\ DOMAIN <<>> = 1..Len(<<>>) /\ Len(<<>>) = 0
    BY EmptySeq, LenProperties
  <2>2. 1..0 = {}
    OBVIOUS
  <2> QED BY <2>1, <2>2
<1>2. \A D, V : <<>> \in Fields(D, V)
  BY <1>1 DEF Fields
<1> QED BY <1>1, <1>2

\* A record of fields is determined by those that are set.
LEMMA FieldsAre ==
    ASSUME NEW D, NEW V, NEW x \in Fields(D, V)
    PROVE  /\ DOMAIN x \subseteq D
           /\ x = [g \in DOMAIN x |-> x[g]]
           /\ \A g \in DOMAIN x : x[g] \in V
<1>1. PICK d \in SUBSET D : x \in [d -> V]
  BY DEF Fields
<1> QED BY <1>1

\* Setting a field makes a record of fields again.
LEMMA FieldIsAdded ==
    ASSUME NEW D, NEW V, NEW x \in Fields(D, V), NEW f \in D, NEW v \in V
    PROVE  With(x, f, v) \in Fields(D, V) /\ f \in DOMAIN With(x, f, v)
<1>1. DOMAIN x \cup {f} \in SUBSET D
  BY FieldsAre
<1>2. With(x, f, v) \in [DOMAIN x \cup {f} -> V]
  BY FieldsAre DEF With
<1>3. f \in DOMAIN With(x, f, v)
  BY <1>2
<1> QED BY <1>1, <1>2, <1>3 DEF Fields

\* From line to line: the least line that is not in Q would follow one that is.
LEMMA LineAfterLine ==
    ASSUME NEW low \in Nat, NEW high \in Nat, NEW Q \in SUBSET Nat,
           low \in Q, \A n \in low..(high - 1) : n \in Q => n + 1 \in Q
    PROVE  low..high \subseteq Q
<1> DEFINE S == {n \in low..high : n \notin Q}
<1>1. SUFFICES ASSUME S # {} PROVE FALSE
  OBVIOUS
<1>2. S \in SUBSET Nat
  OBVIOUS
<1>3. PICK n \in S : \A m \in S : n <= m
  <2> HIDE DEF S
  <2> QED BY <1>1, <1>2, Smallest
<1>4. n # low /\ n \in low..high /\ n \notin Q
  OBVIOUS
<1>5. n - 1 \in low..(high - 1)
  BY <1>4
<1>6. n - 1 \notin S
  BY <1>3, <1>5
<1>7. n - 1 \in Q
  BY <1>5, <1>6
<1> QED BY <1>4, <1>5, <1>7

-----------------------------------------------------------------------------
(* Where the block is.                                                     *)

\* Line k of b is the first from the nth that is m.
FirstAt(b, n, m, k) == k \in n..Len(b) /\ b[k] = m /\ \A j \in n..(k - 1) : b[j] # m

LEMMA FirstLineIs ==
    ASSUME NEW b, NEW n \in Nat, Len(b) \in Nat, NEW m, NEW k, FirstAt(b, n, m, k)
    PROVE  FirstLine(b, n, m) = k
<1>0. k \in n..Len(b) /\ b[k] = m /\ \A j \in n..(k - 1) : b[j] # m
  BY DEF FirstAt
<1>1. \A i \in n..Len(b) : (b[i] = m /\ \A j \in n..(i - 1) : b[j] # m) => i = k
  <2> TAKE i \in n..Len(b)
  <2>1. CASE i < k
    <3>1. i \in n..(k - 1)
      BY <1>0, <2>1
    <3> QED BY <1>0, <3>1
  <2>2. CASE i > k
    <3>1. k \in n..(i - 1)
      BY <1>0, <2>2
    <3> QED BY <1>0, <3>1
  <2> QED BY <1>0, <2>1, <2>2
<1>2. \E i \in n..Len(b) : b[i] = m
  BY <1>0
<1>3. FirstLine(b, n, m) = CHOOSE i \in n..Len(b) : b[i] = m /\ \A j \in n..(i - 1) : b[j] # m
  BY <1>2, Zenon DEF FirstLine
<1>4. FirstLine(b, n, m) \in n..Len(b)
      /\ b[FirstLine(b, n, m)] = m /\ \A j \in n..(FirstLine(b, n, m) - 1) : b[j] # m
  <2>1. \E i \in n..Len(b) : b[i] = m /\ \A j \in n..(i - 1) : b[j] # m
    BY <1>0
  <2> QED BY <1>3, <2>1, Zenon
<1> QED BY <1>1, <1>4, Zenon

\* There is a first such line, or there is none.
LEMMA FirstLineWhere ==
    ASSUME NEW b, NEW n \in Nat, Len(b) \in Nat, NEW m
    PROVE  \/ FirstLine(b, n, m) = 0 /\ \A i \in n..Len(b) : b[i] # m
           \/ /\ FirstLine(b, n, m) \in n..Len(b)
              /\ b[FirstLine(b, n, m)] = m
              /\ \A j \in n..(FirstLine(b, n, m) - 1) : b[j] # m
<1>1. CASE \A i \in n..Len(b) : b[i] # m
  <2>1. FirstLine(b, n, m) = 0
    BY <1>1, Zenon DEF FirstLine
  <2> QED BY <1>1, <2>1
<1>2. CASE \E i \in n..Len(b) : b[i] = m
  <2> DEFINE S == {i \in n..Len(b) : b[i] = m}
  <2>1. S \in SUBSET Nat /\ S # {}
    BY <1>2
  <2>2. PICK k \in S : \A i \in S : k <= i
    <3> HIDE DEF S
    <3> QED BY <2>1, Smallest
  <2>3. k \in n..Len(b) /\ b[k] = m
    OBVIOUS
  <2>4. \A j \in n..(k - 1) : b[j] # m
    <3> TAKE j \in n..(k - 1)
    <3>1. j \in n..Len(b) /\ ~(k <= j)
      BY <2>3
    <3> QED BY <2>2, <3>1
  <2>5. FirstLine(b, n, m) = k
    BY <2>3, <2>4, FirstLineIs DEF FirstAt
  <2> QED BY <2>3, <2>4, <2>5
<1> QED BY <1>1, <1>2

\* Where the marks of a block are.
LEMMA BlockWhere ==
    ASSUME NEW b, Len(b) \in Nat, HasBlock(b)
    PROVE  /\ OpenAt(b) \in 1..Len(b)
           /\ CloseAt(b) \in (OpenAt(b) + 1)..Len(b)
           /\ \A j \in 1..(OpenAt(b) - 1) : b[j] # OpenMark
<1>1. OpenAt(b) # 0
  BY DEF HasBlock, CloseAt
<1>2. OpenAt(b) \in 1..Len(b) /\ \A j \in 1..(OpenAt(b) - 1) : b[j] # OpenMark
  BY <1>1, FirstLineWhere DEF OpenAt
<1>3. CloseAt(b) = FirstLine(b, OpenAt(b) + 1, CloseMark) /\ CloseAt(b) # 0
  BY <1>1 DEF HasBlock, CloseAt
<1>4. OpenAt(b) + 1 \in Nat
  BY <1>2
<1>5. CloseAt(b) \in (OpenAt(b) + 1)..Len(b)
  BY <1>3, <1>4, FirstLineWhere
<1> QED BY <1>2, <1>5

-----------------------------------------------------------------------------
(* The parser.                                                             *)

\* A text in which no block can begin.
Unopened(p) == \A i \in 1..Len(p) : p[i] # OpenMark

\* What is in hand after each line: it begins with nothing at the opening mark.
LEMMA LinesAreRead ==
    ASSUME NEW b, Len(b) \in Nat, HasBlock(b)
    PROVE  \E g : /\ ParseTaskMeta(b) = g[CloseAt(b) - 1].meta
                  /\ g[OpenAt(b)] = FirstAcc
                  /\ \A n \in (OpenAt(b) + 1)..Len(b) : g[n] = ParseLine(g[n - 1], b[n])
<1> DEFINE o == OpenAt(b)
           Is(g, k) == g = [n \in 0..k |-> IF n <= o THEN FirstAcc ELSE ParseLine(g[n - 1], b[n])]
           S == {k \in 0..Len(b) : \E g : Is(g, k)}
           LinesRead == CHOOSE g : Is(g, Len(b))
<1>1. o \in 1..Len(b)
  BY BlockWhere
<1> HIDE DEF o
<1>2. 0 \in S
  <2> DEFINE g == [n \in 0..0 |-> FirstAcc]
  <2>1. Is(g, 0)
    BY <1>1
  <2> QED BY <2>1
<1>3. \A k \in 0..(Len(b) - 1) : k \in S => k + 1 \in S
  <2> SUFFICES ASSUME NEW k \in 0..(Len(b) - 1), k \in S PROVE k + 1 \in S
    OBVIOUS
  <2>1. PICK g : Is(g, k)
    OBVIOUS
  <2> DEFINE h == [n \in 0..(k + 1) |->
                     IF n <= o THEN FirstAcc ELSE ParseLine(g[n - 1], b[n])]
  <2>2. \A n \in 0..k : h[n] = g[n]
    BY <2>1
  <2>3. \A n \in 0..(k + 1) : ~(n <= o) => h[n - 1] = g[n - 1]
    <3> TAKE n \in 0..(k + 1)
    <3> HAVE ~(n <= o)
    <3>1. n - 1 \in 0..k
      BY <1>1
    <3> HIDE DEF h
    <3> QED BY <2>2, <3>1
  <2>4. Is(h, k + 1)
    <3>1. h = [n \in 0..(k + 1) |-> h[n]]
      OBVIOUS
    <3>2. \A n \in 0..(k + 1) : h[n] = IF n <= o THEN FirstAcc ELSE ParseLine(h[n - 1], b[n])
      <4>1. \A n \in 0..(k + 1) : h[n] = IF n <= o THEN FirstAcc ELSE ParseLine(g[n - 1], b[n])
        BY Zenon
      <4> HIDE DEF h
      <4> QED BY <2>3, <4>1, Zenon
    <3> HIDE DEF h
    <3> QED BY <3>1, <3>2
  <2>5. k + 1 \in 0..Len(b)
    OBVIOUS
  <2> HIDE DEF h
  <2>6. \E z : Is(z, k + 1)
    BY <2>4
  <2> HIDE DEF Is
  <2> QED BY <2>5, <2>6
<1>4. S \in SUBSET Nat
  OBVIOUS
<1>5. Len(b) \in S
  <2> HIDE DEF S
  <2>1. 0..Len(b) \subseteq S
    BY <1>2, <1>3, <1>4, LineAfterLine
  <2> QED BY <2>1
<1>6. Is(LinesRead, Len(b))
  <2>1. \E g : Is(g, Len(b))
    BY <1>5
  <2> HIDE DEF Is
  <2> QED BY <2>1, Zenon
<1>7. ParseTaskMeta(b) = LinesRead[CloseAt(b) - 1].meta
  BY Zenon DEF ParseTaskMeta, FirstAcc, o
<1> HIDE DEF LinesRead
<1>8. \A n \in 0..Len(b) : LinesRead[n] = IF n <= o THEN FirstAcc ELSE ParseLine(LinesRead[n - 1], b[n])
  BY <1>6
<1>9. LinesRead[o] = FirstAcc
  BY <1>1, <1>8
<1>10. \A n \in (o + 1)..Len(b) : LinesRead[n] = ParseLine(LinesRead[n - 1], b[n])
  <2> TAKE n \in (o + 1)..Len(b)
  <2>1. n \in 0..Len(b) /\ ~(n <= o)
    BY <1>1
  <2> QED BY <1>8, <2>1
<1> QED BY <1>7, <1>9, <1>10 DEF o

\* The kinds of lines.
LEMMA LineTypes ==
    ASSUME NEW line \in MetaLine
    PROVE  \/ line.is \in {"open", "close", "other"}
           \/ line.is = "scalar" /\ line.field \in ScalarField /\ line.value \in MetaValue
           \/ line.is = "list" /\ line.field \in ListField /\ line.value \in Seq(Nat)
           \/ line.is = "item" /\ line.value \in Nat
BY DEF MetaLine, OpenMark, CloseMark, OtherLine, Mark, Scalar, List, Item

\* A line is read into fields that can be written again.
LEMMA LineIsParsed ==
    ASSUME NEW acc \in Acc, NEW line \in MetaLine
    PROVE  ParseLine(acc, line) \in Acc
<1>1. acc \in [meta : Meta, current : ListField \cup {"none"}]
      /\ (acc.current # "none" => acc.current \in DOMAIN acc.meta.list)
  BY DEF Acc
<1>2. acc.meta \in Meta /\ acc.current \in ListField \cup {"none"}
  BY <1>1
<1>3. acc.meta.scalar \in Fields(ScalarField, MetaValue) /\ acc.meta.list \in Fields(ListField, Seq(Nat))
  BY <1>2 DEF Meta
<1>4. \A f \in ListField, v \in Seq(Nat) :
         WithList(acc.meta, f, v) \in Meta /\ f \in DOMAIN WithList(acc.meta, f, v).list
  BY <1>3, FieldIsAdded DEF WithList, Meta
<1>5. \A f \in ScalarField, v \in MetaValue : WithScalar(acc.meta, f, v) \in Meta
  BY <1>3, FieldIsAdded DEF WithScalar, Meta
<1>6. \A m \in Meta : [meta |-> m, current |-> "none"] \in Acc
  BY DEF Acc
<1>7. \A m \in Meta, f \in ListField : f \in DOMAIN m.list => [meta |-> m, current |-> f] \in Acc
  BY DEF Acc, ListField
<1>8. CASE line.is = "item" /\ acc.current # "none"
  <2>1. line.value \in Nat
    BY <1>8, LineTypes
  <2>2. acc.current \in ListField /\ acc.current \in DOMAIN acc.meta.list
    BY <1>1, <1>2, <1>8
  <2>3. acc.meta.list[acc.current] \in Seq(Nat)
    BY <1>3, <2>2, FieldsAre
  <2>4. Append(acc.meta.list[acc.current], line.value) \in Seq(Nat)
    BY <2>1, <2>3
  <2>5. ParseLine(acc, line) = [meta |-> WithList(acc.meta, acc.current,
                               Append(acc.meta.list[acc.current], line.value)),
             current |-> acc.current]
    BY <1>8 DEF ParseLine
  <2> QED BY <1>4, <1>7, <2>2, <2>4, <2>5
<1>9. CASE line.is = "list"
  <2>1. line.field \in ListField /\ line.value \in Seq(Nat)
    BY <1>9, LineTypes
  <2>2. ParseLine(acc, line) = [meta |-> WithList(acc.meta, line.field, line.value),
             current |-> IF line.value = <<>> THEN line.field ELSE "none"]
    BY <1>9 DEF ParseLine
  <2> QED BY <1>4, <1>6, <1>7, <2>1, <2>2
<1>10. CASE line.is = "scalar"
  <2>1. line.field \in ScalarField /\ line.value \in MetaValue
    BY <1>10, LineTypes
  <2>2. ParseLine(acc, line) = [meta |-> WithScalar(acc.meta, line.field, line.value), current |-> "none"]
    BY <1>10 DEF ParseLine
  <2> QED BY <1>5, <1>6, <2>1, <2>2
<1>11. CASE ~(line.is = "item" /\ acc.current # "none") /\ line.is # "list" /\ line.is # "scalar"
  <2>1. ParseLine(acc, line) = [meta |-> acc.meta, current |-> "none"]
    BY <1>11 DEF ParseLine
  <2> QED BY <1>2, <1>6, <2>1
<1> QED BY <1>8, <1>9, <1>10, <1>11

LEMMA NoMetaIs == NoMeta \in Meta /\ FirstAcc \in Acc
<1>1. NoMeta \in Meta
  BY EmptyFields, Zenon DEF NoMeta, Meta
<1>2. FirstAcc \in Acc
  BY <1>1 DEF FirstAcc, Acc
<1> QED BY <1>1, <1>2

\* So is a block, line after line.
LEMMA ParsedIsMeta ==
    ASSUME NEW b \in Seq(MetaLine)
    PROVE  ParseTaskMeta(b) \in Meta
<1>1. CASE ~HasBlock(b)
  BY <1>1, NoMetaIs, Zenon DEF ParseTaskMeta
<1>2. CASE HasBlock(b)
  <2> DEFINE o == OpenAt(b)
             c == CloseAt(b)
  <2>0. Len(b) \in Nat
    OBVIOUS
  <2>1. o \in 1..Len(b) /\ c \in (o + 1)..Len(b)
    BY <1>2, <2>0, BlockWhere
  <2>2. PICK g : /\ ParseTaskMeta(b) = g[c - 1].meta
                 /\ g[o] = FirstAcc
                 /\ \A n \in (o + 1)..Len(b) : g[n] = ParseLine(g[n - 1], b[n])
    BY <1>2, <2>0, LinesAreRead, Zenon
  <2> DEFINE S == {n \in Nat : g[n] \in Acc}
  <2> HIDE DEF o, c
  <2>3. o \in S
    BY <2>1, <2>2, NoMetaIs
  <2>4. \A n \in o..(Len(b) - 1) : n \in S => n + 1 \in S
    <3> SUFFICES ASSUME NEW n \in o..(Len(b) - 1), g[n] \in Acc
                 PROVE  n + 1 \in S
      BY Zenon
    <3>1. n + 1 \in (o + 1)..Len(b) /\ (n + 1) - 1 = n /\ n + 1 \in 1..Len(b) /\ n + 1 \in Nat
      BY <2>1
    <3>2. b[n + 1] \in MetaLine
      BY <3>1, ElementOfSeq
    <3>3. g[n + 1] = ParseLine(g[n], b[n + 1])
      BY <2>2, <3>1
    <3>4. g[n + 1] \in Acc
      BY <3>2, <3>3, LineIsParsed
    <3> QED BY <3>1, <3>4
  <2>5. o..Len(b) \subseteq S
    <3>1. S \in SUBSET Nat
      OBVIOUS
    <3>2. o \in Nat
      BY <2>1
    <3> HIDE DEF S
    <3> QED BY <2>0, <2>3, <2>4, <3>1, <3>2, LineAfterLine
  <2>6. c - 1 \in o..Len(b)
    BY <2>1
  <2>7. g[c - 1] \in Acc
    BY <2>5, <2>6
  <2> QED BY <2>2, <2>7 DEF Acc
<1> QED BY <1>1, <1>2

-----------------------------------------------------------------------------
(* What is written.                                                        *)

\* The two parts of the fields.
LEMMA MetaIs ==
    ASSUME NEW meta \in Meta
    PROVE  /\ meta = [scalar |-> meta.scalar, list |-> meta.list]
           /\ meta.scalar \in Fields(ScalarField, MetaValue)
           /\ meta.list \in Fields(ListField, Seq(Nat))
BY DEF Meta

\* A scalar field is one line or none.
LEMMA ScalarIsWritten ==
    ASSUME NEW meta \in Meta, NEW f \in ScalarField
    PROVE  /\ ScalarLines(meta, f) \in Seq(MetaLine)
           /\ f \notin DOMAIN meta.scalar => Len(ScalarLines(meta, f)) = 0
           /\ f \in DOMAIN meta.scalar =>
                /\ Len(ScalarLines(meta, f)) = 1
                /\ ScalarLines(meta, f)[1] = Scalar(f, meta.scalar[f])
                /\ meta.scalar[f] \in MetaValue
<1>1. CASE f \notin DOMAIN meta.scalar
  <2>1. ScalarLines(meta, f) = <<>>
    BY <1>1 DEF ScalarLines
  <2> QED BY <1>1, <2>1, EmptySeq
<1>2. CASE f \in DOMAIN meta.scalar
  <2>1. meta.scalar[f] \in MetaValue
    BY <1>2, MetaIs, FieldsAre
  <2>2. Scalar(f, meta.scalar[f]) \in MetaLine
    BY <2>1 DEF MetaLine
  <2>3. ScalarLines(meta, f) = <<Scalar(f, meta.scalar[f])>>
    BY <1>2 DEF ScalarLines
  <2> HIDE DEF ScalarLines
  <2> QED BY <1>2, <2>1, <2>2, <2>3
<1> QED BY <1>1, <1>2

\* One sequence behind another.
Joins(r, s, t, S) ==
    /\ r \in Seq(S) /\ Len(r) = Len(s) + Len(t)
    /\ Len(s) \in Nat /\ Len(t) \in Nat
    /\ \A i \in 1..Len(s) : r[i] = s[i]
    /\ \A i \in 1..Len(t) : r[Len(s) + i] = t[i]

LEMMA Joined ==
    ASSUME NEW S, NEW s \in Seq(S), NEW t \in Seq(S)
    PROVE  Joins(s \o t, s, t, S)
<1>1. s \o t \in Seq(S) /\ Len(s \o t) = Len(s) + Len(t) /\ Len(s) \in Nat /\ Len(t) \in Nat
  OBVIOUS
<1>2. \A i \in 1..Len(s) + Len(t) : (s \o t)[i] = IF i <= Len(s) THEN s[i] ELSE t[i - Len(s)]
  BY ConcatProperties
<1>3. \A i \in 1..Len(s) : (s \o t)[i] = s[i]
  BY <1>1, <1>2
<1>4. \A i \in 1..Len(t) : (s \o t)[Len(s) + i] = t[i]
  <2> TAKE i \in 1..Len(t)
  <2>1. Len(s) + i \in 1..Len(s) + Len(t) /\ ~(Len(s) + i <= Len(s)) /\ (Len(s) + i) - Len(s) = i
    BY <1>1
  <2> QED BY <1>2, <2>1
<1> QED BY <1>1, <1>3, <1>4 DEF Joins

\* A list is a line and one for each item, or nothing at all.
LEMMA ListIsWritten ==
    ASSUME NEW meta \in Meta, NEW f \in ListField
    PROVE  /\ ListLines(meta, f) \in Seq(MetaLine)
           /\ ~(f \in DOMAIN meta.list /\ meta.list[f] # <<>>) => Len(ListLines(meta, f)) = 0
           /\ f \in DOMAIN meta.list /\ meta.list[f] # <<>> =>
                /\ meta.list[f] \in Seq(Nat)
                /\ Len(ListLines(meta, f)) = Len(meta.list[f]) + 1
                /\ ListLines(meta, f)[1] = List(f, <<>>)
                /\ \A i \in 1..Len(meta.list[f]) : ListLines(meta, f)[i + 1] = Item(meta.list[f][i])
<1>1. CASE ~(f \in DOMAIN meta.list /\ meta.list[f] # <<>>)
  <2>1. ListLines(meta, f) = <<>>
    BY <1>1, Zenon DEF ListLines
  <2> QED BY <1>1, <2>1, EmptySeq
<1>2. CASE f \in DOMAIN meta.list /\ meta.list[f] # <<>>
  <2> DEFINE v == meta.list[f]
             s == [i \in DOMAIN v |-> Item(v[i])]
             h == <<List(f, <<>>)>>
  <2>1. v \in Seq(Nat)
    BY <1>2, MetaIs, FieldsAre
  <2>2. ListLines(meta, f) = h \o s
    BY <1>2, Zenon DEF ListLines
  <2> HIDE DEF v
  <2>3. DOMAIN v = 1..Len(v) /\ Len(v) \in Nat /\ \A i \in 1..Len(v) : v[i] \in Nat
    BY <2>1
  <2>4. \A x \in Nat : Item(x) \in MetaLine
    BY DEF MetaLine
  <2>5. s \in Seq(MetaLine) /\ Len(s) = Len(v) /\ \A i \in 1..Len(v) : s[i] = Item(v[i])
    <3>1. \A i \in 1..Len(v) : Item(v[i]) \in MetaLine
      BY <2>3, <2>4
    <3> HIDE DEF Item
    <3>2. s \in [1..Len(v) -> MetaLine] /\ \A i \in 1..Len(v) : s[i] = Item(v[i])
      BY <2>3, <3>1
    <3> HIDE DEF s
    <3> QED BY <2>3, <3>2
  <2>6. List(f, <<>>) \in MetaLine
    <3>1. <<>> \in Seq(Nat)
      BY EmptySeq
    <3> DEFINE e == <<>>
    <3>2. e \in Seq(Nat)
      BY <3>1
    <3> HIDE DEF e
    <3>3. List(f, e) \in MetaLine
      BY <3>2 DEF MetaLine
    <3> QED BY <3>3 DEF e
  <2>7. h \in Seq(MetaLine) /\ Len(h) = 1 /\ h[1] = List(f, <<>>)
    BY <2>6
  <2> HIDE DEF s, h
  <2>8. Joins(h \o s, h, s, MetaLine)
    BY <2>5, <2>7, Joined, Zenon
  <2>9. \A i \in 1..Len(v) : (h \o s)[i + 1] = Item(v[i])
    BY <2>3, <2>5, <2>7, <2>8 DEF Joins
  <2>10. (h \o s)[1] = List(f, <<>>)
    BY <2>5, <2>7, <2>8 DEF Joins
  <2>11. Len(h \o s) = Len(v) + 1
    BY <2>3, <2>5, <2>7, <2>8 DEF Joins
  <2> QED BY <1>2, <2>1, <2>2, <2>8, <2>9, <2>10, <2>11 DEF v, Joins
<1> QED BY <1>1, <1>2

\* The five parts of a block, one after the other.
Parts(r, x, s1, s2, s3, y, S) ==
    /\ r \in Seq(S)
    /\ Len(r) = Len(s1) + Len(s2) + Len(s3) + 2
    /\ r[1] = x /\ r[Len(r)] = y
    /\ \A i \in 1..Len(s1) : r[1 + i] = s1[i]
    /\ \A i \in 1..Len(s2) : r[1 + Len(s1) + i] = s2[i]
    /\ \A i \in 1..Len(s3) : r[1 + Len(s1) + Len(s2) + i] = s3[i]

LEMMA FiveParts ==
    ASSUME NEW S, NEW s1 \in Seq(S), NEW s2 \in Seq(S), NEW s3 \in Seq(S), NEW x \in S, NEW y \in S
    PROVE  Parts(<<x>> \o s1 \o s2 \o s3 \o <<y>>, x, s1, s2, s3, y, S)
<1> DEFINE r0 == <<x>>
           r1 == r0 \o s1
           r2 == r1 \o s2
           r3 == r2 \o s3
           z == <<y>>
           r == <<x>> \o s1 \o s2 \o s3 \o <<y>>
<1>1. r0 \in Seq(S) /\ Len(r0) = 1 /\ r0[1] = x
  OBVIOUS
<1>2. z \in Seq(S) /\ Len(z) = 1 /\ z[1] = y
  OBVIOUS
<1>3. r = r3 \o z
  OBVIOUS
<1>4. Len(s1) \in Nat /\ Len(s2) \in Nat /\ Len(s3) \in Nat
  OBVIOUS
<1> HIDE DEF r0, z
<1>5. Joins(r1, r0, s1, S)
  BY <1>1, Joined, Zenon
<1>6. Joins(r2, r1, s2, S)
  <2>1. r1 \in Seq(S)
    BY <1>5 DEF Joins
  <2> HIDE DEF r1
  <2> QED BY <2>1, Joined, Zenon
<1>7. Joins(r3, r2, s3, S)
  <2>1. r2 \in Seq(S)
    BY <1>6 DEF Joins
  <2> HIDE DEF r2
  <2> QED BY <2>1, Joined, Zenon
<1> HIDE DEF r1, r2, r3, r
<1>8. Joins(r, r3, z, S)
  <2>1. r3 \in Seq(S)
    BY <1>7 DEF Joins
  <2>2. Joins(r3 \o z, r3, z, S)
    BY <1>2, <2>1, Joined, Zenon
  <2> QED BY <1>3, <2>2 DEF r3
<1>9. Len(r1) = 1 + Len(s1) /\ Len(r2) = 1 + Len(s1) + Len(s2)
      /\ Len(r3) = 1 + Len(s1) + Len(s2) + Len(s3) /\ Len(r) = Len(s1) + Len(s2) + Len(s3) + 2
  BY <1>1, <1>2, <1>4, <1>5, <1>6, <1>7, <1>8 DEF Joins
<1>10. r[1] = x
  BY <1>1, <1>4, <1>5, <1>6, <1>7, <1>8, <1>9 DEF Joins
<1>11. r[Len(r)] = y
  BY <1>2, <1>4, <1>8, <1>9 DEF Joins
<1>12. \A i \in 1..Len(s1) : r[1 + i] = s1[i]
  <2> TAKE i \in 1..Len(s1)
  <2>1. 1 + i \in 1..Len(r1) /\ 1 + i \in 1..Len(r2) /\ 1 + i \in 1..Len(r3) /\ Len(r0) = 1
    BY <1>1, <1>4, <1>9
  <2> QED BY <1>5, <1>6, <1>7, <1>8, <2>1 DEF Joins
<1>13. \A i \in 1..Len(s2) : r[1 + Len(s1) + i] = s2[i]
  <2> TAKE i \in 1..Len(s2)
  <2>1. Len(r1) + i \in 1..Len(r2) /\ Len(r1) + i \in 1..Len(r3) /\ Len(r1) + i = 1 + Len(s1) + i
    BY <1>4, <1>9
  <2> QED BY <1>6, <1>7, <1>8, <2>1 DEF Joins
<1>14. \A i \in 1..Len(s3) : r[1 + Len(s1) + Len(s2) + i] = s3[i]
  <2> TAKE i \in 1..Len(s3)
  <2>1. Len(r2) + i \in 1..Len(r3) /\ Len(r2) + i = 1 + Len(s1) + Len(s2) + i
    BY <1>4, <1>9
  <2> QED BY <1>7, <1>8, <2>1 DEF Joins
<1>15. Parts(r, x, s1, s2, s3, y, S)
  BY <1>8, <1>9, <1>10, <1>11, <1>12, <1>13, <1>14 DEF Joins, Parts
<1> QED BY <1>15 DEF r

-----------------------------------------------------------------------------
(* What is written is read.                                                *)

\* Field f of s is put into x, if it is set.
Carried(x, s, f) == IF f \in DOMAIN s THEN With(x, f, s[f]) ELSE x

\* The fields of x are some of those of s.
PartOf(x, s) ==
    x = [g \in DOMAIN x |-> x[g]] /\ DOMAIN x \subseteq DOMAIN s /\ \A g \in DOMAIN x : x[g] = s[g]

LEMMA FieldIsCarried ==
    ASSUME NEW s, NEW x, NEW f, PartOf(x, s)
    PROVE  PartOf(Carried(x, s, f), s) /\ DOMAIN Carried(x, s, f) = DOMAIN x \cup ({f} \cap DOMAIN s)
<1> DEFINE y == Carried(x, s, f)
<1>1. CASE f \in DOMAIN s
  <2>1. y = [g \in DOMAIN x \cup {f} |-> IF g = f THEN s[f] ELSE x[g]]
    BY <1>1 DEF Carried, With
  <2> HIDE DEF y
  <2> QED BY <1>1, <2>1 DEF y, PartOf
<1>2. CASE f \notin DOMAIN s
  <2>1. y = x
    BY <1>2 DEF Carried
  <2> HIDE DEF y
  <2> QED BY <1>2, <2>1 DEF y
<1> QED BY <1>1, <1>2

\* Of two fields, taken one after the other, none is left.
LEMMA FieldsAreCarried ==
    ASSUME NEW s \in Fields(ScalarField, MetaValue)
    PROVE  Carried(Carried(<<>>, s, "estimatedComplexity"), s, "acLastVerifiedAt") = s
<1> DEFINE x == <<>>
           y == Carried(x, s, "estimatedComplexity")
           z == Carried(y, s, "acLastVerifiedAt")
<1>1. PartOf(x, s) /\ DOMAIN x = {}
  <2>1. x \in Fields({}, {}) /\ DOMAIN x = {}
    BY EmptyFields
  <2> HIDE DEF x
  <2>2. x = [g \in DOMAIN x |-> x[g]]
    BY <2>1, FieldsAre
  <2> QED BY <2>1, <2>2 DEF PartOf
<1>2. DOMAIN s \subseteq ScalarField /\ s = [g \in DOMAIN s |-> s[g]]
  BY FieldsAre
<1> HIDE DEF x
<1>3. PartOf(y, s) /\ DOMAIN y = DOMAIN x \cup ({"estimatedComplexity"} \cap DOMAIN s)
  BY <1>1, FieldIsCarried
<1> HIDE DEF y
<1>5. PartOf(z, s) /\ DOMAIN z = DOMAIN y \cup ({"acLastVerifiedAt"} \cap DOMAIN s)
  BY <1>3, FieldIsCarried
<1> HIDE DEF z
<1>6. DOMAIN z = DOMAIN s
  BY <1>1, <1>2, <1>3, <1>5 DEF ScalarField
<1>7. z = s
  BY <1>2, <1>5, <1>6 DEF PartOf
<1> QED BY <1>7 DEF x, y, z

\* The parser has read s after the kth line; what it holds between two fields.
ReadsOn(g, k, s) == \A i \in 1..Len(s) : g[k + i] = ParseLine(g[k + i - 1], s[i])
Holds(g, k, x, l) == g[k] = [meta |-> [scalar |-> x, list |-> l], current |-> "none"]

\* The lines of a scalar field, wherever they stand.
LEMMA ScalarIsRead ==
    ASSUME NEW meta \in Meta, NEW f \in ScalarField, NEW x, NEW l, NEW g, NEW k \in Nat,
           Holds(g, k, x, l), ReadsOn(g, k, ScalarLines(meta, f))
    PROVE  Holds(g, k + Len(ScalarLines(meta, f)), Carried(x, meta.scalar, f), l)
<1>1. CASE f \notin DOMAIN meta.scalar
  <2>1. Len(ScalarLines(meta, f)) = 0 /\ Carried(x, meta.scalar, f) = x
    BY <1>1, ScalarIsWritten DEF Carried
  <2>2. k + 0 = k
    OBVIOUS
  <2> QED BY <2>1, <2>2
<1>2. CASE f \in DOMAIN meta.scalar
  <2> DEFINE v == meta.scalar[f]
  <2>1. Len(ScalarLines(meta, f)) = 1 /\ ScalarLines(meta, f)[1] = Scalar(f, v)
    BY <1>2, ScalarIsWritten
  <2>2. Carried(x, meta.scalar, f) = With(x, f, v)
    BY <1>2 DEF Carried
  <2>3. k + 1 - 1 = k
    OBVIOUS
  <2>4. g[k + 1] = ParseLine(g[k], Scalar(f, v))
    BY <2>1, <2>3 DEF ReadsOn
  <2> HIDE DEF v
  <2>5. ParseLine(g[k], Scalar(f, v)) = [meta |-> WithScalar(g[k].meta, f, v), current |-> "none"]
    BY DEF ParseLine, Scalar
  <2>6. WithScalar(g[k].meta, f, v) = [scalar |-> With(x, f, v), list |-> l]
    BY DEF WithScalar, Holds
  <2> QED BY <2>1, <2>2, <2>4, <2>5, <2>6 DEF Holds
<1> QED BY <1>1, <1>2

\* The lines of a list; the items, one by one.
LEMMA ListIsRead ==
    ASSUME NEW meta \in Meta, NEW f \in ListField, NEW x, NEW g, NEW k \in Nat,
           Holds(g, k, x, <<>>), ReadsOn(g, k, ListLines(meta, f))
    PROVE  g[k + Len(ListLines(meta, f))].meta = [scalar |-> x, list |-> Normal(meta).list]
<1> DEFINE empty == <<>>
<1>1. Normal(meta).list = [h \in {j \in DOMAIN meta.list : meta.list[j] # empty} |-> meta.list[h]]
  BY DEF Normal
<1>2. empty \in [{} -> {}] /\ DOMAIN empty = {}
  BY EmptyFields, FieldsAre
<1>3. DOMAIN meta.list \subseteq {f}
  <2>1. DOMAIN meta.list \subseteq ListField
    BY MetaIs, FieldsAre
  <2> QED BY <2>1 DEF ListField
<1>4. g[k] = [meta |-> [scalar |-> x, list |-> empty], current |-> "none"]
  BY DEF Holds
<1>5. CASE ~(f \in DOMAIN meta.list /\ meta.list[f] # empty)
  <2>1. Len(ListLines(meta, f)) = 0
    BY <1>5, ListIsWritten
  <2>2. {j \in DOMAIN meta.list : meta.list[j] # empty} = {}
    <3> HIDE DEF empty
    <3> QED BY <1>3, <1>5
  <2>3. Normal(meta).list = empty
    <3> HIDE DEF empty
    <3> QED BY <1>1, <1>2, <2>2
  <2>4. k + 0 = k
    OBVIOUS
  <2> HIDE DEF empty
  <2> QED BY <1>4, <2>1, <2>3, <2>4
<1>6. CASE f \in DOMAIN meta.list /\ meta.list[f] # empty
  <2> DEFINE v == meta.list[f]
             n == Len(v)
             L == ListLines(meta, f)
             At(i) == [meta |-> [scalar |-> x, list |-> With(empty, f, SubSeq(v, 1, i))],
                       current |-> f]
  <2>1. /\ v \in Seq(Nat) /\ Len(L) = n + 1 /\ L[1] = List(f, empty)
        /\ \A i \in 1..n : L[i + 1] = Item(v[i])
    BY <1>6, ListIsWritten
  <2>2. n \in Nat /\ DOMAIN v = 1..n /\ \A i \in 1..n : v[i] \in Nat
    BY <2>1
  <2>3. \A i \in 1..(n + 1) : g[k + i] = ParseLine(g[k + i - 1], L[i])
    BY <2>1 DEF ReadsOn
  <2> HIDE DEF empty, L, v, n
  <2>4. f # "none"
    BY DEF ListField
  <2>5. \A s : With(empty, f, s) = [h \in {f} |-> s]
    BY <1>2 DEF With
  <2>6. \A s, t : With(With(empty, f, s), f, t) = With(empty, f, t)
    BY <2>5 DEF With
  <2>7. g[k + 1] = At(0)
    <3>1. g[k + 1] = ParseLine(g[k], List(f, empty))
      BY <2>1, <2>2, <2>3
    <3>2. ParseLine(g[k], List(f, empty)) =
             [meta |-> WithList(g[k].meta, f, empty), current |-> f]
      BY DEF ParseLine, List, empty
    <3>3. WithList(g[k].meta, f, empty) = [scalar |-> x, list |-> With(empty, f, empty)]
      BY <1>4 DEF WithList
    <3>4. SubSeq(v, 1, 0) = empty
      BY SubSeqEmpty DEF empty
    <3> QED BY <3>1, <3>2, <3>3, <3>4
  <2> DEFINE S == {m \in Nat : m <= n /\ g[k + m + 1] = At(m)}
  <2>8. \A m \in 0..(n - 1) : m \in S => m + 1 \in S
    <3> SUFFICES ASSUME NEW m \in 0..(n - 1), g[k + m + 1] = At(m)
                 PROVE  m + 1 \in S
      BY Zenon
    <3>1. /\ m + 1 \in 1..n /\ m + 1 + 1 \in 1..(n + 1) /\ m + 1 \in Nat
          /\ k + (m + 1 + 1) - 1 = k + m + 1 /\ k + (m + 1) + 1 = k + (m + 1 + 1)
      BY <2>2
    <3>2. g[k + (m + 1) + 1] = ParseLine(At(m), Item(v[m + 1]))
      BY <2>1, <2>3, <3>1
    <3> DEFINE s == SubSeq(v, 1, m)
               a == At(m)
    <3>3. a.meta = [scalar |-> x, list |-> With(empty, f, s)] /\ a.current = f
      OBVIOUS
    <3>5. Append(s, v[m + 1]) = SubSeq(v, 1, m + 1)
      <4>1. SubSeq(v, 1, m + 1) = SubSeq(v, 1, m + 1 - 1) \o <<v[m + 1]>>
        <5>1. m + 1 \in 1..Len(v) /\ 1 \in 1..Len(v)
          BY <2>2, <3>1 DEF n
        <5> QED BY <2>1, <5>1, SubSeqRecursiveSecond
      <4>2. m + 1 - 1 = m
        BY <3>1
      <4>3. SubSeq(v, 1, m) \in Seq(Nat)
        BY <2>1, <2>2 DEF n
      <4>4. v[m + 1] \in Nat
        BY <2>2, <3>1
      <4>5. Append(s, v[m + 1]) = s \o <<v[m + 1]>>
        BY <4>3, <4>4, AppendIsConcat
      <4> QED BY <4>1, <4>2, <4>5
    <3> HIDE DEF s, a, At
    <3>4. a.meta.list[a.current] = s
      BY <2>5, <3>3
    <3>6. ParseLine(a, Item(v[m + 1])) =
             [meta |-> WithList(a.meta, f, Append(s, v[m + 1])), current |-> f]
      BY <2>4, <3>3, <3>4 DEF ParseLine, Item
    <3>7. WithList(a.meta, f, Append(s, v[m + 1])) =
             [scalar |-> x, list |-> With(empty, f, SubSeq(v, 1, m + 1))]
      BY <2>6, <3>3, <3>5 DEF WithList
    <3>8. ParseLine(a, Item(v[m + 1])) = At(m + 1)
      BY <3>6, <3>7 DEF At
    <3> QED BY <3>1, <3>2, <3>8 DEF a
  <2>9. 0..n \subseteq S
    <3>1. S \in SUBSET Nat /\ 0 \in S
      <4>1. k + 0 + 1 = k + 1 /\ 0 <= n
        BY <2>2
      <4> HIDE DEF At
      <4> QED BY <2>7, <4>1
    <3> HIDE DEF S
    <3> QED BY <2>2, <2>8, <3>1, LineAfterLine
  <2>10. g[k + n + 1] = At(n)
    <3>1. n \in 0..n
      BY <2>2
    <3> HIDE DEF At
    <3> QED BY <2>9, <3>1
  <2>11. SubSeq(v, 1, n) = v
    BY <2>1, SubSeqFull DEF n
  <2>12. Normal(meta).list = [h \in {f} |-> v]
    BY <1>1, <1>3, <1>6 DEF v
  <2>13. k + Len(L) = k + n + 1
    BY <2>1, <2>2
  <2>14. At(n).meta = [scalar |-> x, list |-> Normal(meta).list]
    <3>1. With(empty, f, SubSeq(v, 1, n)) = Normal(meta).list
      BY <2>5, <2>11, <2>12
    <3> QED BY <3>1
  <2>15. g[k + Len(L)] = At(n)
    BY <2>10, <2>13
  <2> HIDE DEF At
  <2>16. g[k + Len(L)].meta = [scalar |-> x, list |-> Normal(meta).list]
    BY <2>14, <2>15
  <2> QED BY <2>16 DEF L
<1> QED BY <1>5, <1>6

\* A block opens and closes once.
LEMMA BlockIsWritten ==
    ASSUME NEW meta \in Meta, NEW r, r = RenderTaskMeta(meta)
    PROVE  /\ r \in Seq(MetaLine) /\ Len(r) \in Nat /\ Len(r) >= 2
           /\ r[1] = OpenMark /\ r[Len(r)] = CloseMark
           /\ \A i \in 2..(Len(r) - 1) : r[i] # CloseMark
<1> DEFINE s1 == ScalarLines(meta, "estimatedComplexity")
           s2 == ScalarLines(meta, "acLastVerifiedAt")
           s3 == ListLines(meta, "dependsOn")
<1>1. /\ s1 \in Seq(MetaLine) /\ Len(s1) \in {0, 1} /\ s2 \in Seq(MetaLine) /\ Len(s2) \in {0, 1}
      /\ Len(s1) = 1 => s1[1].is = "scalar"
      /\ Len(s2) = 1 => s2[1].is = "scalar"
  <2>1. "estimatedComplexity" \in ScalarField /\ "acLastVerifiedAt" \in ScalarField
    BY DEF ScalarField
  <2>2. \A f \in ScalarField : \A v : Scalar(f, v).is = "scalar"
    BY DEF Scalar
  <2> QED BY <2>1, <2>2, ScalarIsWritten
<1>2. s3 \in Seq(MetaLine) /\ Len(s3) \in Nat /\ \A i \in 1..Len(s3) : s3[i].is \in {"list", "item"}
  <2>1. "dependsOn" \in ListField
    BY DEF ListField
  <2>2. \A v : List("dependsOn", v).is = "list" /\ Item(v).is = "item"
    BY DEF List, Item
  <2>3. s3 \in Seq(MetaLine)
    BY <2>1, ListIsWritten
  <2>4. Len(s3) \in Nat
    BY <2>3, LenProperties
  <2>5. CASE Len(s3) = 0
    BY <2>3, <2>5
  <2>6. CASE Len(s3) # 0
    <3> DEFINE v == meta.list["dependsOn"]
    <3>1. /\ v \in Seq(Nat) /\ Len(s3) = Len(v) + 1 /\ s3[1] = List("dependsOn", <<>>)
          /\ \A i \in 1..Len(v) : s3[i + 1] = Item(v[i])
      BY <2>1, <2>6, ListIsWritten
    <3> HIDE DEF v, s3
    <3>2. s3[1].is = "list" /\ \A i \in 1..Len(v) : s3[i + 1].is = "item"
      BY <2>2, <3>1
    <3>3. \A i \in 2..Len(s3) : s3[i].is = "item"
      <4> TAKE i \in 2..Len(s3)
      <4>1. i - 1 \in 1..Len(v) /\ (i - 1) + 1 = i
        BY <3>1
      <4> QED BY <3>2, <4>1
    <3>4. \A i \in 1..Len(s3) : i = 1 \/ i \in 2..Len(s3)
      BY <2>4
    <3>5. \A i \in 1..Len(s3) : s3[i].is \in {"list", "item"}
      BY <3>2, <3>3, <3>4
    <3> QED BY <2>3, <2>4, <3>5
  <2> QED BY <2>5, <2>6
<1>3. r = <<OpenMark>> \o s1 \o s2 \o s3 \o <<CloseMark>>
  BY DEF RenderTaskMeta
<1>4. OpenMark \in MetaLine /\ CloseMark \in MetaLine /\ CloseMark.is = "close"
  BY DEF MetaLine, CloseMark, Mark
<1> HIDE DEF s1, s2, s3
<1>5. Parts(r, OpenMark, s1, s2, s3, CloseMark, MetaLine)
  BY <1>1, <1>2, <1>3, <1>4, FiveParts, Zenon
<1>6. \A i \in 2..(Len(r) - 1) : r[i].is \in {"scalar", "list", "item"}
  <2> TAKE i \in 2..(Len(r) - 1)
  <2>0. i \in Int /\ i >= 2 /\ i < Len(s1) + Len(s2) + Len(s3) + 2
    BY <1>1, <1>2, <1>5 DEF Parts
  <2>4. \A p \in {0, 1}, j \in Int : j >= 2 /\ j <= 1 + p => j = 1 + 1 /\ p = 1
    OBVIOUS
  <2>5. \A p \in {0, 1}, q \in {0, 1}, j \in Int :
           ~(j <= 1 + p) /\ j <= 1 + p + q => j = 1 + p + 1 /\ q = 1
    OBVIOUS
  <2>1. CASE i <= 1 + Len(s1)
    <3>1. i = 1 + 1 /\ Len(s1) = 1
      BY <1>1, <2>0, <2>1, <2>4, Zenon
    <3> QED BY <1>1, <1>5, <3>1 DEF Parts
  <2>2. CASE ~(i <= 1 + Len(s1)) /\ i <= 1 + Len(s1) + Len(s2)
    <3>1. i = 1 + Len(s1) + 1 /\ Len(s2) = 1
      BY <1>1, <2>0, <2>2, <2>5, Zenon
    <3> QED BY <1>1, <1>5, <3>1 DEF Parts
  <2>3. CASE ~(i <= 1 + Len(s1) + Len(s2))
    <3> DEFINE j == i - (1 + Len(s1) + Len(s2))
    <3>1. j \in 1..Len(s3) /\ i = 1 + Len(s1) + Len(s2) + j
      BY <1>1, <1>2, <2>0, <2>3
    <3> HIDE DEF j
    <3>2. r[i] = s3[j]
      BY <1>5, <3>1 DEF Parts
    <3> QED BY <1>2, <3>1, <3>2
  <2> QED BY <2>1, <2>2, <2>3
<1>7. \A i \in 2..(Len(r) - 1) : r[i] # CloseMark
  BY <1>4, <1>6
<1>8. Len(r) \in Nat /\ Len(r) >= 2
  BY <1>1, <1>2, <1>5 DEF Parts
<1> QED BY <1>5, <1>7, <1>8 DEF Parts

\* The parser that goes over what was written has the fields again at its end.
LEMMA BlockIsRead ==
    ASSUME NEW meta \in Meta, NEW r, r = RenderTaskMeta(meta), NEW g, g[1] = FirstAcc,
           \A i \in 2..(Len(r) - 1) : g[i] = ParseLine(g[i - 1], r[i])
    PROVE  g[Len(r) - 1].meta = Normal(meta)
<1> DEFINE s1 == ScalarLines(meta, "estimatedComplexity")
           s2 == ScalarLines(meta, "acLastVerifiedAt")
           s3 == ListLines(meta, "dependsOn")
           x1 == Carried(<<>>, meta.scalar, "estimatedComplexity")
           x2 == Carried(x1, meta.scalar, "acLastVerifiedAt")
           a == 1 + Len(s1)
           b == 1 + Len(s1) + Len(s2)
<1>1. /\ "estimatedComplexity" \in ScalarField /\ "acLastVerifiedAt" \in ScalarField
      /\ "dependsOn" \in ListField
  BY DEF ScalarField, ListField
<1>2. /\ s1 \in Seq(MetaLine) /\ s2 \in Seq(MetaLine) /\ s3 \in Seq(MetaLine)
      /\ Len(s1) \in Nat /\ Len(s2) \in Nat /\ Len(s3) \in Nat
  <2>1. s1 \in Seq(MetaLine) /\ s2 \in Seq(MetaLine) /\ s3 \in Seq(MetaLine)
    BY <1>1, ScalarIsWritten, ListIsWritten
  <2> HIDE DEF s1, s2, s3
  <2> QED BY <2>1, LenProperties
<1>3. OpenMark \in MetaLine /\ CloseMark \in MetaLine
  BY DEF MetaLine
<1>4. r = <<OpenMark>> \o s1 \o s2 \o s3 \o <<CloseMark>>
  BY DEF RenderTaskMeta
<1>5. Parts(r, OpenMark, s1, s2, s3, CloseMark, MetaLine)
  <2> HIDE DEF s1, s2, s3
  <2> QED BY <1>2, <1>3, <1>4, FiveParts, Zenon
<1>6. ReadsOn(g, 1, s1)
  <2> HIDE DEF s1, s2, s3
  <2> SUFFICES ASSUME NEW i \in 1..Len(s1) PROVE g[1 + i] = ParseLine(g[1 + i - 1], s1[i])
    BY Zenon DEF ReadsOn
  <2>1. 1 + i \in 2..(Len(r) - 1)
    BY <1>2, <1>5 DEF Parts
  <2> QED BY <1>5, <2>1 DEF Parts
<1>7. ReadsOn(g, a, s2)
  <2> HIDE DEF s1, s2, s3
  <2> SUFFICES ASSUME NEW i \in 1..Len(s2) PROVE g[a + i] = ParseLine(g[a + i - 1], s2[i])
    BY Zenon DEF ReadsOn
  <2>1. a + i \in 2..(Len(r) - 1)
    BY <1>2, <1>5 DEF Parts
  <2> QED BY <1>5, <2>1 DEF Parts
<1>8. ReadsOn(g, b, s3)
  <2> HIDE DEF s1, s2, s3
  <2> SUFFICES ASSUME NEW i \in 1..Len(s3) PROVE g[b + i] = ParseLine(g[b + i - 1], s3[i])
    BY Zenon DEF ReadsOn
  <2>1. b + i \in 2..(Len(r) - 1)
    BY <1>2, <1>5 DEF Parts
  <2> QED BY <1>5, <2>1 DEF Parts
<1>9. Holds(g, 1, <<>>, <<>>)
  BY DEF FirstAcc, NoMeta, Holds
<1>10. Holds(g, a, x1, <<>>)
  <2> DEFINE e == <<>>
  <2>1. Holds(g, 1, e, e)
    BY <1>9
  <2> HIDE DEF e
  <2>2. Holds(g, a, Carried(e, meta.scalar, "estimatedComplexity"), e)
    <3>1. "estimatedComplexity" \in ScalarField
      BY <1>1
    <3>2. 1 \in Nat
      OBVIOUS
    <3> QED BY <1>6, <2>1, <3>1, <3>2, ScalarIsRead, Zenon
  <2> QED BY <2>2 DEF e
<1>11. Holds(g, a + Len(s2), x2, <<>>)
  <2> DEFINE e == <<>>
  <2>1. a \in Nat /\ Holds(g, a, x1, e)
    BY <1>2, <1>10
  <2> HIDE DEF a, x1, e
  <2>2. Holds(g, a + Len(s2), x2, e)
    <3>1. "acLastVerifiedAt" \in ScalarField
      BY <1>1
    <3> QED BY <1>7, <2>1, <3>1, ScalarIsRead, Zenon
  <2> QED BY <2>2 DEF e
<1>12. x2 = meta.scalar
  BY FieldsAreCarried, MetaIs, Zenon
<1>13. g[b + Len(s3)].meta = [scalar |-> x2, list |-> Normal(meta).list]
  <2>1. Holds(g, b, x2, <<>>)
    BY <1>11
  <2>2. b \in Nat
    BY <1>2
  <2> HIDE DEF b, x2
  <2> QED BY <1>1, <1>8, <2>1, <2>2, ListIsRead, Zenon
<1>14. b + Len(s3) = Len(r) - 1
  BY <1>2, <1>5 DEF Parts
<1>15. Normal(meta) = [scalar |-> meta.scalar, list |-> Normal(meta).list]
  BY DEF Normal
<1> HIDE DEF b, s3, x2, Normal
<1> QED BY <1>12, <1>13, <1>14, <1>15

-----------------------------------------------------------------------------
(* A body with what was written.                                           *)

\* The body b holds the fields between the texts p and q.
HoldsBlock(b, meta, p, q) ==
    /\ b \in Seq(MetaLine) /\ HasBlock(b)
    /\ ParseTaskMeta(b) = Normal(meta)
    /\ SubSeq(b, 1, OpenAt(b) - 1) = p /\ SubSeq(b, CloseAt(b) + 1, Len(b)) = q
    /\ Outside(b) = p \o q

LEMMA BlockIsFound ==
    ASSUME NEW meta \in Meta, NEW p \in Seq(MetaLine), NEW q \in Seq(MetaLine), Unopened(p)
    PROVE  HoldsBlock(p \o RenderTaskMeta(meta) \o q, meta, p, q)
<1> DEFINE b == p \o RenderTaskMeta(meta) \o q
           r == RenderTaskMeta(meta)
           t == p \o r
           o == Len(p) + 1
           c == Len(p) + Len(r)
<1>1. /\ r \in Seq(MetaLine) /\ Len(r) \in Nat /\ Len(r) >= 2
      /\ r[1] = OpenMark /\ r[Len(r)] = CloseMark
      /\ \A i \in 2..(Len(r) - 1) : r[i] # CloseMark
  BY BlockIsWritten
<1>2. \A g : g[1] = FirstAcc /\ (\A i \in 2..(Len(r) - 1) : g[i] = ParseLine(g[i - 1], r[i]))
             => g[Len(r) - 1].meta = Normal(meta)
  BY BlockIsRead
<1> HIDE DEF r
<1>3. Joins(t, p, r, MetaLine)
  BY <1>1, Joined, Zenon
<1>4. Joins(b, t, q, MetaLine)
  <2>1. t \in Seq(MetaLine) /\ b = t \o q
    BY <1>3 DEF Joins, r
  <2> HIDE DEF t, b
  <2>2. Joins(t \o q, t, q, MetaLine)
    BY <2>1, Joined, Zenon
  <2> QED BY <2>1, <2>2
<1> HIDE DEF t, b
<1>5. /\ b \in Seq(MetaLine) /\ Len(p) \in Nat /\ Len(r) \in Nat /\ Len(q) \in Nat
      /\ Len(t) = c /\ Len(b) = c + Len(q)
  BY <1>3, <1>4 DEF Joins
<1>6. \A i \in 1..Len(p) : b[i] = p[i]
  <2> TAKE i \in 1..Len(p)
  <2>1. i \in 1..Len(t)
    BY <1>1, <1>5
  <2> QED BY <1>3, <1>4, <2>1 DEF Joins
<1>7. \A i \in 1..Len(r) : b[Len(p) + i] = r[i]
  <2> TAKE i \in 1..Len(r)
  <2>1. Len(p) + i \in 1..Len(t)
    BY <1>1, <1>5
  <2> QED BY <1>3, <1>4, <2>1 DEF Joins
<1>8. \A i \in 1..Len(q) : b[c + i] = q[i]
  <2> TAKE i \in 1..Len(q)
  <2> HIDE DEF c
  <2> QED BY <1>4, <1>5 DEF Joins
<1>9. OpenAt(b) = o
  <2>1. o \in 1..Len(b) /\ 1 \in Nat
    BY <1>1, <1>5
  <2>2. b[o] = OpenMark
    <3>1. 1 \in 1..Len(r)
      BY <1>1
    <3> QED BY <1>1, <1>7, <3>1
  <2>3. \A j \in 1..(o - 1) : b[j] # OpenMark
    <3>1. o - 1 = Len(p)
      BY <1>5
    <3> QED BY <1>6, <3>1 DEF Unopened
  <2>4. Len(b) \in Nat
    BY <1>5
  <2> HIDE DEF o
  <2>5. FirstAt(b, 1, OpenMark, o)
    BY <2>1, <2>2, <2>3 DEF FirstAt
  <2> QED BY <2>1, <2>4, <2>5, FirstLineIs, Zenon DEF OpenAt
<1>10. CloseAt(b) = c
  <2>1. c \in (o + 1)..Len(b) /\ o + 1 \in Nat /\ o # 0
    BY <1>1, <1>5
  <2>2. b[c] = CloseMark
    <3>1. Len(r) \in 1..Len(r)
      BY <1>1
    <3> QED BY <1>1, <1>7, <3>1
  <2>3. \A j \in (o + 1)..(c - 1) : b[j] # CloseMark
    <3> TAKE j \in (o + 1)..(c - 1)
    <3> DEFINE i == j - Len(p)
    <3>1. i \in 2..(Len(r) - 1) /\ i \in 1..Len(r) /\ j = Len(p) + i
      BY <1>1, <1>5
    <3> HIDE DEF i
    <3>2. b[j] = r[i]
      BY <1>7, <3>1
    <3> QED BY <1>1, <3>1, <3>2
  <2>4. Len(b) \in Nat
    BY <1>5
  <2> HIDE DEF o, c
  <2>5. FirstLine(b, o + 1, CloseMark) = c
    <3>1. FirstAt(b, o + 1, CloseMark, c)
      BY <2>1, <2>2, <2>3 DEF FirstAt
    <3> QED BY <2>1, <2>4, <3>1, FirstLineIs, Zenon
  <2> QED BY <1>9, <2>1, <2>5 DEF CloseAt
<1>11. c \in Nat /\ c > 0 /\ o - 1 = Len(p) /\ c - 1 = Len(p) + (Len(r) - 1)
  BY <1>1, <1>5
<1>12. HasBlock(b)
  BY <1>10, <1>11 DEF HasBlock
<1>13. ParseTaskMeta(b) = Normal(meta)
  <2>1. Len(b) \in Nat
    BY <1>5
  <2>2. PICK u : /\ ParseTaskMeta(b) = u[CloseAt(b) - 1].meta
                 /\ u[OpenAt(b)] = FirstAcc
                 /\ \A n \in (OpenAt(b) + 1)..Len(b) : u[n] = ParseLine(u[n - 1], b[n])
    BY <1>12, <2>1, LinesAreRead, Zenon
  <2> DEFINE g == [i \in 1..Len(r) |-> u[Len(p) + i]]
  <2>3. g[1] = FirstAcc
    BY <1>1, <1>9, <2>2
  <2>4. \A i \in 2..(Len(r) - 1) : g[i] = ParseLine(g[i - 1], r[i])
    <3> TAKE i \in 2..(Len(r) - 1)
    <3>1. /\ i \in 1..Len(r) /\ i - 1 \in 1..Len(r) /\ Len(p) + i \in (o + 1)..Len(b)
          /\ Len(p) + i - 1 = Len(p) + (i - 1)
      BY <1>1, <1>5
    <3>2. u[Len(p) + i] = ParseLine(u[Len(p) + (i - 1)], r[i])
      <4>1. u[Len(p) + i] = ParseLine(u[Len(p) + i - 1], b[Len(p) + i])
        <5> DEFINE k == Len(p) + i
        <5>1. k \in (OpenAt(b) + 1)..Len(b)
          BY <1>9, <3>1
        <5>2. \A n \in (OpenAt(b) + 1)..Len(b) : u[n] = ParseLine(u[n - 1], b[n])
          BY <2>2
        <5> HIDE DEF k
        <5>3. u[k] = ParseLine(u[k - 1], b[k])
          BY <5>1, <5>2, Zenon
        <5> QED BY <5>3 DEF k
      <4> QED BY <1>7, <3>1, <4>1
    <3> QED BY <3>1, <3>2
  <2>5. g[Len(r) - 1] = u[c - 1]
    <3>1. Len(r) - 1 \in 1..Len(r)
      BY <1>1
    <3> QED BY <1>11, <3>1
  <2> HIDE DEF g, c
  <2>6. g[Len(r) - 1].meta = Normal(meta)
    BY <1>2, <2>3, <2>4
  <2> QED BY <1>10, <2>2, <2>5, <2>6
<1>14. SubSeq(b, 1, OpenAt(b) - 1) = p
  <2>1. \A i \in 1..Len(p) : b[i] \in MetaLine
    BY <1>6, ElementOfSeq
  <2>2. SubSeq(b, 1, Len(p)) \in Seq(MetaLine)
        /\ Len(SubSeq(b, 1, Len(p))) = Len(p)
        /\ \A i \in 1..Len(p) : SubSeq(b, 1, Len(p))[i] = b[i]
    BY <1>5, <2>1
  <2>3. SubSeq(b, 1, Len(p)) = p
    BY <1>6, <2>2, SeqEqual
  <2> QED BY <1>9, <1>11, <2>3
<1>15. SubSeq(b, CloseAt(b) + 1, Len(b)) = q
  <2> DEFINE s == SubSeq(b, c + 1, Len(b))
  <2>0. c + 1 \in Int /\ Len(b) \in Int /\ Len(b) - (c + 1) + 1 = Len(q)
    BY <1>5, <1>11
  <2>1. \A i \in (c + 1)..Len(b) : b[i] \in MetaLine
    <3> TAKE i \in (c + 1)..Len(b)
    <3>1. i \in 1..Len(b)
      BY <1>5, <1>11
    <3> QED BY <1>5, <3>1, ElementOfSeq
  <2>2. s \in Seq(MetaLine)
        /\ Len(s) = (IF c + 1 <= Len(b) THEN Len(b) - (c + 1) + 1 ELSE 0)
        /\ \A i \in 1..(Len(b) - (c + 1) + 1) : s[i] = b[c + 1 + i - 1]
    BY <2>0, <2>1, SubSeqProperties
  <2> HIDE DEF s
  <2>3. Len(s) = Len(q) /\ \A i \in 1..Len(q) : s[i] = b[c + i]
    <3>1. Len(s) = Len(q)
      BY <1>5, <1>11, <2>2
    <3>2. \A i \in 1..Len(q) : c + 1 + i - 1 = c + i
      BY <1>11
    <3> QED BY <2>0, <2>2, <3>1, <3>2
  <2>4. s = q
    <3>1. \A i \in 1..Len(s) : s[i] = q[i]
      BY <1>8, <2>3
    <3> QED BY <2>2, <2>3, <3>1, SeqEqual
  <2> QED BY <1>10, <2>4 DEF s
<1>16. Outside(b) = p \o q
  BY <1>12, <1>14, <1>15 DEF Outside
<1>17. HoldsBlock(b, meta, p, q)
  BY <1>5, <1>12, <1>13, <1>14, <1>15, <1>16 DEF HoldsBlock
<1> QED BY <1>17 DEF b

\* Unless an opening mark stands there without a closing one: what is written into
\* a body is read there, and nothing else of the body is changed.
LEMMA UpsertIsRead ==
    ASSUME NEW b \in Seq(MetaLine), NEW meta \in Meta, NEW n, n = UpsertTaskMeta(b, meta)
    PROVE  /\ n \in Seq(MetaLine)
           /\ HasBlock(b) \/ OpenAt(b) = 0 =>
                 /\ ParseTaskMeta(n) = Normal(meta)
                 /\ Outside(n) \in {Outside(b), Append(b, OtherLine)}
                 /\ HasBlock(n) /\ n = SubSeq(n, 1, OpenAt(n) - 1) \o RenderTaskMeta(meta)
                                        \o SubSeq(n, CloseAt(n) + 1, Len(n))
<1> DEFINE r == RenderTaskMeta(meta)
<1>1. r \in Seq(MetaLine)
  BY BlockIsWritten
<1>2. Len(b) \in Nat
  OBVIOUS
<1>3. CASE HasBlock(b)
  <2> DEFINE p == SubSeq(b, 1, OpenAt(b) - 1)
             q == SubSeq(b, CloseAt(b) + 1, Len(b))
  <2>1. /\ OpenAt(b) \in 1..Len(b)
        /\ CloseAt(b) \in (OpenAt(b) + 1)..Len(b)
        /\ \A j \in 1..(OpenAt(b) - 1) : b[j] # OpenMark
    BY <1>2, <1>3, BlockWhere
  <2>2. p \in Seq(MetaLine) /\ Unopened(p)
    <3>1. \A i \in 1..(OpenAt(b) - 1) : b[i] \in MetaLine
      <4> TAKE i \in 1..(OpenAt(b) - 1)
      <4>1. i \in 1..Len(b)
        BY <1>2, <2>1
      <4> QED BY <4>1, ElementOfSeq
    <3>2. OpenAt(b) - 1 \in Nat
      BY <2>1
    <3>3. p \in Seq(MetaLine) /\ Len(p) = OpenAt(b) - 1 /\ \A i \in 1..(OpenAt(b) - 1) : p[i] = b[i]
      BY <3>1, <3>2
    <3> QED BY <2>1, <3>3 DEF Unopened
  <2>3. q \in Seq(MetaLine)
    <3>1. \A i \in (CloseAt(b) + 1)..Len(b) : b[i] \in MetaLine
      <4> TAKE i \in (CloseAt(b) + 1)..Len(b)
      <4>1. i \in 1..Len(b)
        BY <1>2, <2>1
      <4> QED BY <4>1, ElementOfSeq
    <3>2. CloseAt(b) + 1 \in Int /\ Len(b) \in Int
      BY <1>2, <2>1
    <3> QED BY <3>1, <3>2, SubSeqProperties
  <2>4. n = p \o r \o q
    BY <1>3 DEF UpsertTaskMeta
  <2>5. Outside(b) = p \o q
    BY <1>3 DEF Outside
  <2> HIDE DEF p, q
  <2>6. /\ n \in Seq(MetaLine) /\ ParseTaskMeta(n) = Normal(meta) /\ Outside(n) = p \o q
        /\ HasBlock(n) /\ SubSeq(n, 1, OpenAt(n) - 1) = p /\ SubSeq(n, CloseAt(n) + 1, Len(n)) = q
    <3>1. HoldsBlock(p \o r \o q, meta, p, q)
      BY <2>2, <2>3, BlockIsFound, Zenon
    <3> QED BY <2>4, <3>1, Zenon DEF HoldsBlock
  <2> QED BY <2>4, <2>5, <2>6
<1>4. CASE ~HasBlock(b)
  <2> DEFINE e == IF b = <<>> THEN <<>> ELSE <<OtherLine>>
             p == b \o e
             q == <<>>
  <2>1. n = p \o r
    BY <1>4 DEF UpsertTaskMeta
  <2>2. OtherLine \in MetaLine /\ OtherLine # OpenMark
    BY DEF MetaLine, OtherLine, OpenMark, Mark
  <2>3. e \in Seq(MetaLine) /\ \A i \in 1..Len(e) : e[i] # OpenMark
    <3>1. CASE b = <<>>
      BY <3>1, EmptySeq
    <3>2. CASE b # <<>>
      <4>1. e = <<OtherLine>>
        BY <3>2
      <4> HIDE DEF e
      <4> QED BY <2>2, <4>1
    <3> QED BY <3>1, <3>2
  <2>4. p = Outside(b) \/ p = Append(b, OtherLine)
    <3>1. CASE b = <<>>
      <4>1. e = <<>>
        BY <3>1
      <4>2. p = b
        BY <4>1, ConcatEmptySeq
      <4> QED BY <1>4, <4>2 DEF Outside
    <3>2. CASE b # <<>>
      <4>1. e = <<OtherLine>>
        BY <3>2
      <4> QED BY <2>2, <4>1, AppendIsConcat
    <3> QED BY <3>1, <3>2
  <2> HIDE DEF e, r
  <2>5. Joins(p, b, e, MetaLine)
    BY <2>3, Joined, Zenon
  <2> HIDE DEF p
  <2>6. p \in Seq(MetaLine)
    BY <2>5 DEF Joins
  <2>7. n \in Seq(MetaLine) /\ n = p \o r \o q /\ q \in Seq(MetaLine) /\ p \o q = p
    <3>1. Joins(p \o r, p, r, MetaLine)
      BY <1>1, <2>6, Joined, Zenon
    <3>2. n \in Seq(MetaLine)
      BY <2>1, <3>1 DEF Joins
    <3> QED BY <2>1, <2>6, <3>2, ConcatEmptySeq, EmptySeq
  <2>8. SUFFICES ASSUME OpenAt(b) = 0
                 PROVE  /\ ParseTaskMeta(n) = Normal(meta) /\ Outside(n) = p
                        /\ HasBlock(n)
                        /\ n = SubSeq(n, 1, OpenAt(n) - 1) \o r \o SubSeq(n, CloseAt(n) + 1, Len(n))
    BY <1>4, <2>4, <2>7 DEF r
  <2>9. \A i \in 1..Len(b) : b[i] # OpenMark
    <3>1. 1 \in Nat
      OBVIOUS
    <3> QED BY <1>2, <2>8, <3>1, FirstLineWhere DEF OpenAt
  <2>10. Unopened(p)
    <3> SUFFICES ASSUME NEW i \in 1..Len(p) PROVE p[i] # OpenMark
      BY Zenon DEF Unopened
    <3>1. CASE i <= Len(b)
      <4>1. i \in 1..Len(b)
        BY <2>5, <3>1 DEF Joins
      <4> QED BY <2>5, <2>9, <4>1 DEF Joins
    <3>2. CASE ~(i <= Len(b))
      <4> DEFINE j == i - Len(b)
      <4>1. j \in 1..Len(e) /\ i = Len(b) + j
        BY <2>5, <3>2 DEF Joins
      <4> HIDE DEF j
      <4>2. p[i] = e[j]
        BY <2>5, <4>1 DEF Joins
      <4> QED BY <2>3, <4>1, <4>2
    <3> QED BY <3>1, <3>2
  <2> HIDE DEF q
  <2>11. /\ ParseTaskMeta(n) = Normal(meta) /\ Outside(n) = p \o q
         /\ HasBlock(n) /\ SubSeq(n, 1, OpenAt(n) - 1) = p /\ SubSeq(n, CloseAt(n) + 1, Len(n)) = q
    <3>1. HoldsBlock(p \o r \o q, meta, p, q)
      BY <2>6, <2>7, <2>10, BlockIsFound, Zenon DEF r
    <3> QED BY <2>7, <3>1, Zenon DEF HoldsBlock
  <2> QED BY <2>7, <2>11
<1> QED BY <1>3, <1>4

\* A list without items is not written, nor kept by what is written.
LEMMA NormalIsWrittenAlike ==
    ASSUME NEW meta \in Meta
    PROVE  RenderTaskMeta(Normal(meta)) = RenderTaskMeta(meta)
<1>1. Normal(meta).scalar = meta.scalar
  BY DEF Normal
<1>2. \A f : ScalarLines(Normal(meta), f) = ScalarLines(meta, f)
  BY <1>1, Zenon DEF ScalarLines
<1>3. \A f : ListLines(Normal(meta), f) = ListLines(meta, f)
  <2> TAKE f
  <2> DEFINE l == Normal(meta).list
             e == <<>>
             Lines(v) == <<List(f, <<>>)>> \o [i \in DOMAIN v |-> Item(v[i])]
  <2>1. l = [g \in {h \in DOMAIN meta.list : meta.list[h] # e} |-> meta.list[g]]
    BY DEF Normal
  <2>2. ListLines(meta, f) = IF f \in DOMAIN meta.list /\ meta.list[f] # e THEN Lines(meta.list[f]) ELSE e
    BY Zenon DEF ListLines
  <2>3. ListLines(Normal(meta), f) = IF f \in DOMAIN l /\ l[f] # e THEN Lines(l[f]) ELSE e
    BY Zenon DEF ListLines
  <2> HIDE DEF l, e, Lines
  <2> QED BY <2>1, <2>2, <2>3
<1>4. /\ ScalarLines(Normal(meta), "estimatedComplexity") = ScalarLines(meta, "estimatedComplexity")
      /\ ScalarLines(Normal(meta), "acLastVerifiedAt") = ScalarLines(meta, "acLastVerifiedAt")
      /\ ListLines(Normal(meta), "dependsOn") = ListLines(meta, "dependsOn")
  BY <1>2, <1>3, Zenon
<1> QED BY <1>4, SMT DEF RenderTaskMeta

\* What was written can be read and written back, and nothing moves: neither the text
\* around the block nor a line of it, however often task-meta is run. (A body whose
\* block is opened and never closed is left out: the next block would end that one.)
THEOREM WrittenBackTheSame ==
    ASSUME NEW b \in Seq(MetaLine), NEW meta \in Meta, NEW n, n = UpsertTaskMeta(b, meta),
           HasBlock(b) \/ OpenAt(b) = 0
    PROVE  UpsertTaskMeta(n, ParseTaskMeta(n)) = n
<1>1. /\ ParseTaskMeta(n) = Normal(meta) /\ HasBlock(n)
      /\ n = SubSeq(n, 1, OpenAt(n) - 1) \o RenderTaskMeta(meta) \o SubSeq(n, CloseAt(n) + 1, Len(n))
  BY UpsertIsRead
<1>2. RenderTaskMeta(ParseTaskMeta(n)) = RenderTaskMeta(meta)
  BY <1>1, NormalIsWrittenAlike
<1>3. UpsertTaskMeta(n, ParseTaskMeta(n)) =
         SubSeq(n, 1, OpenAt(n) - 1) \o RenderTaskMeta(meta) \o SubSeq(n, CloseAt(n) + 1, Len(n))
  BY <1>1, <1>2, Zenon DEF UpsertTaskMeta
<1> QED BY <1>1, <1>3, Zenon

-----------------------------------------------------------------------------
(* The invariant.                                                          *)

Backfill == [at : {"idle", "patch", "patched", "skipped", "died"}, read : Seq(MetaLine),
             new : Seq(MetaLine), meta : Meta, edited : BOOLEAN]

\* What is patched was made from what was read, and stays until the next edit.
MetaIInv ==
    /\ body \in Seq(MetaLine) /\ backfill \in Backfill
    /\ backfill.at \in {"patch", "patched"} =>
          backfill.new = UpsertTaskMeta(backfill.read, backfill.meta)
    /\ backfill.at = "patched" => body = backfill.new

LEMMA IdleIs ==
    NoBackfill \in Backfill /\ NoBackfill.at = "idle"
<1> DEFINE e == <<>>
<1>1. e \in Seq(MetaLine) /\ NoMeta \in Meta
  BY EmptySeq, NoMetaIs
<1>2. NoBackfill = [at |-> "idle", read |-> e, new |-> e, meta |-> NoMeta, edited |-> FALSE]
  BY DEF NoBackfill
<1> HIDE DEF e
<1> QED BY <1>1, <1>2 DEF Backfill

LEMMA NoBackfillIs ==
    ASSUME NEW a \in {"idle", "skipped", "died"}
    PROVE  [NoBackfill EXCEPT !.at = a] \in Backfill /\ [NoBackfill EXCEPT !.at = a].at = a
BY IdleIs DEF Backfill

LEMMA MetaStart ==
    ASSUME MetaInit
    PROVE  MetaIInv
<1>1. body = <<>> /\ backfill = NoBackfill
  BY DEF MetaInit
<1>2. body \in Seq(MetaLine)
  BY <1>1, EmptySeq
<1> QED BY <1>1, <1>2, IdleIs DEF MetaIInv

LEMMA OwnerEditsKeeps ==
    ASSUME MetaIInv, OwnerEdits
    PROVE  MetaIInv'
<1>1. PICK line \in OwnLines : body' = Append(body, line)
  BY DEF OwnerEdits
<1>2. line \in MetaLine
  <2> DEFINE e == <<>>
  <2>1. \A f \in ScalarField, v \in MetaValue : Scalar(f, v) \in MetaLine
    BY DEF MetaLine
  <2>2. \A f \in ListField, s \in Seq(Nat) : List(f, s) \in MetaLine
    BY DEF MetaLine
  <2>3. \A v \in Nat : Item(v) \in MetaLine
    BY DEF MetaLine
  <2>4. OpenMark \in MetaLine /\ CloseMark \in MetaLine /\ OtherLine \in MetaLine
    BY DEF MetaLine
  <2>5. <<1>> \in Seq(Nat) /\ e \in Seq(Nat) /\ "dependsOn" \in ListField /\ 2 \in Nat
    BY EmptySeq DEF ListField
  <2>6. "estimatedComplexity" \in ScalarField /\ "M" \in MetaValue /\ "huge" \in MetaValue
    BY DEF ScalarField, MetaValue
  <2>7. line \in {OpenMark, CloseMark, OtherLine,
             Scalar("estimatedComplexity", "M"), Scalar("estimatedComplexity", "huge"),
             List("dependsOn", <<1>>), List("dependsOn", e), Item(2)}
    BY <1>1 DEF OwnLines
  <2> HIDE DEF e
  <2> QED BY <2>1, <2>2, <2>3, <2>4, <2>5, <2>6, <2>7
<1>3. body \in Seq(MetaLine) /\ backfill \in Backfill
  BY DEF MetaIInv
<1>4. body' \in Seq(MetaLine)
  BY <1>1, <1>2, <1>3, AppendProperties
<1>5. CASE backfill.at = "patch"
  <2>1. backfill' = [backfill EXCEPT !.edited = TRUE]
    BY <1>5 DEF OwnerEdits
  <2>2. /\ backfill' \in Backfill /\ backfill'.at = "patch"
        /\ backfill'.new = backfill.new /\ backfill'.read = backfill.read
        /\ backfill'.meta = backfill.meta
    BY <1>3, <1>5, <2>1 DEF Backfill
  <2>3. backfill.new = UpsertTaskMeta(backfill.read, backfill.meta)
    BY <1>5 DEF MetaIInv
  <2> QED BY <1>4, <2>2, <2>3 DEF MetaIInv
<1>6. CASE backfill.at # "patch"
  <2>1. backfill' = NoBackfill
    BY <1>6 DEF OwnerEdits
  <2> QED BY <1>4, <2>1, IdleIs DEF MetaIInv
<1> QED BY <1>5, <1>6

\* What is to be written is made of what the body says now.
LEMMA BackfillStartsKeeps ==
    ASSUME MetaIInv, BackfillStarts
    PROVE  MetaIInv'
<1> DEFINE existing == ParseTaskMeta(body)
           verified == Verified(existing)
<1>1. body \in Seq(MetaLine) /\ body' = body
  BY DEF MetaIInv, BackfillStarts
<1>2. verified \in Meta
  <2>1. existing \in Meta
    BY <1>1, ParsedIsMeta
  <2> HIDE DEF existing
  <2>2. With(existing.scalar, "acLastVerifiedAt", "now") \in Fields(ScalarField, MetaValue)
    <3>1. "acLastVerifiedAt" \in ScalarField /\ "now" \in MetaValue
      BY DEF ScalarField, MetaValue
    <3> QED BY <2>1, <3>1, MetaIs, FieldIsAdded
  <2> QED BY <2>1, <2>2, MetaIs DEF Verified, WithScalar, Meta
<1>3. \/ backfill' = [NoBackfill EXCEPT !.at = "skipped"]
      \/ backfill' = [NoBackfill EXCEPT !.at = "died"]
      \/ backfill' = [at |-> "patch", read |-> body, meta |-> verified,
                      new |-> UpsertTaskMeta(body, verified), edited |-> FALSE]
  BY Zenon DEF BackfillStarts
<1>4. UpsertTaskMeta(body, verified) \in Seq(MetaLine)
  BY <1>1, <1>2, UpsertIsRead
<1> HIDE DEF verified
<1>5. CASE \/ backfill' = [NoBackfill EXCEPT !.at = "skipped"]
           \/ backfill' = [NoBackfill EXCEPT !.at = "died"]
  <2>1. backfill' \in Backfill /\ backfill'.at \in {"skipped", "died"}
    BY <1>5, NoBackfillIs
  <2> QED BY <1>1, <2>1 DEF MetaIInv
<1>6. CASE backfill' = [at |-> "patch", read |-> body, meta |-> verified,
                        new |-> UpsertTaskMeta(body, verified), edited |-> FALSE]
  <2>1. backfill' \in Backfill
    BY <1>1, <1>2, <1>4, <1>6 DEF Backfill
  <2>2. /\ backfill'.at = "patch" /\ backfill'.read = body /\ backfill'.meta = verified
        /\ backfill'.new = UpsertTaskMeta(body, verified)
    BY <1>6
  <2> QED BY <1>1, <2>1, <2>2 DEF MetaIInv
<1> QED BY <1>3, <1>5, <1>6

LEMMA MetaStep ==
    ASSUME MetaIInv, [MetaNext]_metaVars
    PROVE  MetaIInv'
<1>1. body \in Seq(MetaLine) /\ backfill \in Backfill
  BY DEF MetaIInv
<1>2. CASE OwnerEdits
  BY <1>2, OwnerEditsKeeps
<1>3. CASE BackfillStarts
  BY <1>3, BackfillStartsKeeps
<1>4. CASE PatchesBody
  <2>1. backfill.at = "patch" /\ body' = backfill.new
        /\ backfill' = [backfill EXCEPT !.at = "patched"]
    BY <1>4 DEF PatchesBody
  <2>2. /\ backfill' \in Backfill /\ backfill'.at = "patched"
        /\ backfill'.new = backfill.new /\ backfill'.read = backfill.read
        /\ backfill'.meta = backfill.meta /\ backfill.new \in Seq(MetaLine)
    BY <1>1, <2>1 DEF Backfill
  <2>3. backfill.new = UpsertTaskMeta(backfill.read, backfill.meta)
    BY <2>1 DEF MetaIInv
  <2> QED BY <2>1, <2>2, <2>3 DEF MetaIInv
<1>5. CASE EditFails
  <2>1. backfill' = NoBackfill /\ body' = body
    BY <1>5 DEF EditFails
  <2> QED BY <1>1, <2>1, IdleIs DEF MetaIInv
<1>6. CASE UNCHANGED metaVars
  <2>1. backfill' = backfill /\ body' = body
    BY <1>6 DEF metaVars
  <2> QED BY <2>1 DEF MetaIInv
<1> QED BY <1>2, <1>3, <1>4, <1>5, <1>6 DEF MetaNext

LEMMA MetaIsSafe ==
    ASSUME MetaIInv
    PROVE  MetaInv
<1> SUFFICES ASSUME backfill.at = "patched",
                    HasBlock(backfill.read) \/ OpenAt(backfill.read) = 0
             PROVE  /\ ParseTaskMeta(body) = Normal(backfill.meta)
                    /\ Outside(body) \in {Outside(backfill.read), Append(backfill.read, OtherLine)}
  BY DEF MetaInv, WrittenIsRead, TextIsKept
<1>1. backfill.read \in Seq(MetaLine) /\ backfill.meta \in Meta
  BY DEF MetaIInv, Backfill
<1>2. body = UpsertTaskMeta(backfill.read, backfill.meta)
  BY DEF MetaIInv
<1> QED BY <1>1, <1>2, UpsertIsRead

-----------------------------------------------------------------------------
(* The parts together: a step of Separate is one of each part, or leaves   *)
(* the part alone.                                                         *)

LEMMA PartsStart ==
    ASSUME SeparateInit
    PROVE  /\ Init /\ ClientInit /\ ProviderInit /\ ProjectInit /\ ConsoleInit /\ CockpitInit
           /\ QuestionsInit /\ BacklogInit /\ MirrorInit /\ MetaInit /\ DepsInit /\ QueueInit
BY Zenon DEF SeparateInit

LEMMA PartsStep ==
    ASSUME [SeparateNext]_separateVars
    PROVE  /\ [Next]_rateVars /\ [ClientNext]_clientVars
           /\ [ProviderNext]_providerVars /\ [ProjectNext]_projectVars
           /\ [ConsoleNext]_consoleVars /\ [CockpitNext]_cockpitVars
           /\ [QuestionsNext]_questionVars /\ [BacklogNext]_backlogVars
           /\ [MirrorNext]_mirrorVars /\ [MetaNext]_metaVars
           /\ [DepsNext]_depsVars /\ [QueueNext]_queueVars
<1>1. CASE UNCHANGED separateVars
  <2>1. UNCHANGED <<apiPart, webPart, toolPart, issuePart, taskPart>>
    BY <1>1 DEF separateVars
  <2> QED BY <2>1 DEF apiPart, webPart, toolPart, issuePart, taskPart
<1>2. CASE SeparateNext
  <2>1. \/ Next /\ UNCHANGED <<clientVars, webPart, toolPart, issuePart, taskPart>>
        \/ ClientNext /\ UNCHANGED <<rateVars, webPart, toolPart, issuePart, taskPart>>
        \/ ProviderNext /\ UNCHANGED <<apiPart, projectVars, toolPart, issuePart, taskPart>>
        \/ ProjectNext /\ UNCHANGED <<apiPart, providerVars, toolPart, issuePart, taskPart>>
        \/ ConsoleNext /\ UNCHANGED <<apiPart, webPart, cockpitVars, issuePart, taskPart>>
        \/ CockpitNext /\ UNCHANGED <<apiPart, webPart, consoleVars, issuePart, taskPart>>
        \/ /\ QuestionsNext
           /\ UNCHANGED <<apiPart, webPart, toolPart, backlogVars, mirrorVars, metaVars, taskPart>>
        \/ /\ BacklogNext
           /\ UNCHANGED <<apiPart, webPart, toolPart, questionVars, mirrorVars, metaVars, taskPart>>
        \/ /\ MirrorNext
           /\ UNCHANGED <<apiPart, webPart, toolPart, questionVars, backlogVars, metaVars, taskPart>>
        \/ /\ MetaNext
           /\ UNCHANGED <<apiPart, webPart, toolPart, questionVars, backlogVars, mirrorVars, taskPart>>
        \/ DepsNext /\ UNCHANGED <<apiPart, webPart, toolPart, issuePart, queueVars>>
        \/ QueueNext /\ UNCHANGED <<apiPart, webPart, toolPart, issuePart, depsVars>>
    BY <1>2, ZenonT(120) DEF SeparateNext
  <2> QED BY <2>1 DEF apiPart, webPart, toolPart, issuePart, taskPart
<1> QED BY <1>1, <1>2

\* The rate limiter is run as it is on its own, and so has what is proved of it.
THEOREM LimiterRuns == SeparateSpec => Spec /\ []LimiterInv /\ []LessThanTwiceMax
<1>1. SeparateInit => Init
  BY PartsStart
<1>2. [SeparateNext]_separateVars => [Next]_rateVars
  BY PartsStep
<1>3. SeparateSpec => Spec
  BY <1>1, <1>2, PTL DEF SeparateSpec, Spec
<1> QED BY <1>3, Invariant, LessThanTwice, PTL

\* What a client has yielded is the text of the lines it took, each once and in
\* order; [DONE] comes after all of them; a stream is cut only by its caller, its
\* provider or a broken line.
THEOREM ClientsYieldWhatIsSent == SeparateSpec => []ProviderInv
<1>1. SeparateInit => ProviderIInv
  BY PartsStart, ProviderStart
<1>2. ProviderIInv /\ [SeparateNext]_separateVars => ProviderIInv'
  BY PartsStep, ProviderStep
<1>3. ProviderIInv => ProviderInv
  BY ProviderIsSafe
<1> QED BY <1>1, <1>2, <1>3, PTL DEF SeparateSpec

\* The client of a provider is the generator that MessageStream is modelled with.
THEOREM ClientsAreGenerators == SeparateSpec => ImplementsGenerator
<1>1. SeparateInit => ProviderIInv /\ Generator!ContractInit
  BY PartsStart, ProviderStart, GeneratorStarts
<1>2. ProviderIInv /\ [SeparateNext]_separateVars
      => ProviderIInv' /\ [Generator!Yield \/ Generator!Abort \/ Generator!End]_(Generator!contractVars)
  BY PartsStep, ProviderStep, GeneratorGoesOn
<1> QED BY <1>1, <1>2, PTL DEF SeparateSpec, ImplementsGenerator, Generator!ContractSpec

\* The console has one run at most, the one whose child lives; what it keeps of a
\* run, and what a page that follows it shows, is the end of what the run wrote.
THEOREM RunsAreTrue == SeparateSpec => []RunsInv
<1>1. SeparateInit => RunsIInv
  BY PartsStart, RunsStart, ConsoleAssumption
<1>2. RunsIInv /\ [SeparateNext]_separateVars => RunsIInv'
  BY PartsStep, RunsStep, ConsoleAssumption
<1>3. RunsIInv => RunsInv
  BY RunsAreSafe, ConsoleAssumption
<1> QED BY <1>1, <1>2, <1>3, PTL DEF SeparateSpec

\* For every set of issues, ranks and dependencies, and whatever the owner edits while
\* runners set up tasks: next-task and the runner choose the same task unless an open
\* issue asks for a review; and what the scorer calls autonomous is what the autopilot
\* may take and nobody is assigned to, and is accepted by the runner where task-deps
\* sees nothing in its way.
THEOREM ChoicesAgree == SeparateSpec => []QueueInv
<1>1. SeparateInit => QueueTypes
  BY PartsStart, QueueStart
<1>2. QueueTypes /\ [SeparateNext]_separateVars => QueueTypes'
  BY PartsStep, QueueStep
<1>3. QueueTypes => QueueInv
  BY QueueIsSafe, QueueAssumption
<1> QED BY <1>1, <1>2, <1>3, PTL DEF SeparateSpec

\* However the issues are edited while the graph of their dependencies is searched:
\* every cycle that is reported is one; when the search is over, an open issue that
\* waits for itself, at any distance, is tied to a cycle that is reported; and when
\* nothing is ready, an unknown reference or a cycle says why.
THEOREM CyclesAreReported == SeparateSpec => []DepsInv
<1>1. SeparateInit => DepsIInv
  BY PartsStart, DepsStart
<1>2. DepsIInv /\ [SeparateNext]_separateVars => DepsIInv'
  BY PartsStep, DepsStep
<1>3. DepsIInv => DepsInv
  BY DepsAreSafe
<1> QED BY <1>1, <1>2, <1>3, PTL DEF SeparateSpec

\* However the list of issues shifts while it is read, and whatever earlier runs
\* left half done: an item has one row, and a run without failure leaves a row as
\* the item is for every item that was not updated while it ran.
THEOREM TheMirrorIsWhole == SeparateSpec => []MirrorInv
<1>1. SeparateInit => MirrorIInv
  BY PartsStart, MirrorStart
<1>2. MirrorIInv /\ [SeparateNext]_separateVars => MirrorIInv'
  BY PartsStep, MirrorStep
<1>3. MirrorIInv => MirrorInv
  BY DEF MirrorIInv
<1> QED BY <1>1, <1>2, <1>3, PTL DEF SeparateSpec

\* However loads, writes and renamings overlap, at rest the list of the providers
\* is the API's, unless it was overtaken, or a write that was told as failed was
\* carried out, be it later; and the page of a project never has fixtures under an API
\* row, and shows the name and the rows that the API has, with the same exceptions.
THEOREM PagesAreTrue == SeparateSpec => []PagesInv
<1>1. SeparateInit => ListIInv /\ ProjectIInv
  BY PartsStart, ListStart, ProjectStart
<1>2. ListIInv /\ ProjectIInv /\ [SeparateNext]_separateVars => ListIInv' /\ ProjectIInv'
  BY PartsStep, ListStep, ProjectStep
<1>3. ListIInv /\ ProjectIInv => PagesInv
  BY ListIsSafe, ProjectIsSafe DEF PagesInv
<1> QED BY <1>1, <1>2, <1>3, PTL DEF SeparateSpec

\* However questions are asked, marked and bridged, and wherever a run is cut off: a
\* number is given twice only by two asks at once, a question has one row, no run
\* answers twice, none that saw the issue open answers what it found answered, and an
\* answer that stands in Notion when a run turns to GitHub is there when it ends well.
THEOREM QuestionsAreKept == SeparateSpec => []QuestionsInv
<1>1. SeparateInit => QuestIInv
  BY PartsStart, QuestStart, QuestionsAssumption
<1>2. QuestIInv /\ [SeparateNext]_separateVars => QuestIInv'
  BY PartsStep, QuestStep, QuestionsAssumption
<1>3. QuestIInv => QuestionsInv
  BY QuestIsSafe, QuestionsAssumption
<1> QED BY <1>1, <1>2, <1>3, PTL DEF SeparateSpec

\* As long as gh lists all the issues there are, however the scripts fail, die and
\* are run again, and whatever the owner renames: an entry that a script recognises
\* has no second issue, what a delta left incomplete was told, a run without failure
\* leaves no entry out, and an update without failure leaves no field unset.
THEOREM IssuesAreMadeOnce == SeparateSpec => []BacklogInv
<1>1. SeparateInit => BacklogWhole
  BY PartsStart, BacklogWholeStart, BacklogAssumption
<1>2. BacklogWhole /\ [SeparateNext]_separateVars => BacklogWhole'
  BY PartsStep, BacklogWholeStep, BacklogAssumption
<1>3. BacklogWhole => BacklogInv
  BY BacklogIsSafe
<1> QED BY <1>1, <1>2, <1>3, PTL DEF SeparateSpec

\* Whatever the owner writes into the body of an issue, while the script runs and
\* between its runs: what the script wrote is read there again, every field that the
\* issue had and the date, and the text around the block is what the list said.
THEOREM FieldsSurvive == SeparateSpec => []MetaInv
<1>1. SeparateInit => MetaIInv
  BY PartsStart, MetaStart
<1>2. MetaIInv /\ [SeparateNext]_separateVars => MetaIInv'
  BY PartsStep, MetaStep
<1>3. MetaIInv => MetaInv
  BY MetaIsSafe
<1> QED BY <1>1, <1>2, <1>3, PTL DEF SeparateSpec
=============================================================================
