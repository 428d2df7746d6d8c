--------------------------- MODULE RateLimitContract ---------------------------
(***************************************************************************)
(* What a caller of RateLimiter may rely on: per key, a window that opens  *)
(* with its first grant, Max grants in it, and a refusal that tells how    *)
(* many seconds to wait.  An elapsed window is no window.                  *)
(***************************************************************************)
EXTENDS Naturals

CONSTANTS Keys, Max, WindowMs, SecondMs

VARIABLES
    clock,    \* the time
    used,     \* the grants of the window of each key
    ends,     \* when that window ends, 0 when there is none
    answer    \* the last answer given

contractVars == <<clock, used, ends, answer>>

RateInit ==
    /\ clock \in Nat
    /\ used = [k \in Keys |-> 0]
    /\ ends = [k \in Keys |-> 0]
    /\ answer = [ok |-> TRUE, retryAfterSecs |-> 0]

\* Time passes; the windows that end by then are gone.
Pass ==
    /\ clock' \in Nat /\ clock' > clock
    /\ used' = [k \in Keys |-> IF clock' >= ends[k] THEN 0 ELSE used[k]]
    /\ ends' = [k \in Keys |-> IF clock' >= ends[k] THEN 0 ELSE ends[k]]
    /\ UNCHANGED answer

Grant(k) ==
    /\ used[k] < Max
    /\ used' = [used EXCEPT ![k] = @ + 1]
    /\ ends' = [ends EXCEPT ![k] = IF used[k] = 0 THEN clock + WindowMs ELSE @]
    /\ answer' = [ok |-> TRUE, retryAfterSecs |-> 0]
    /\ UNCHANGED clock

\* The seconds told are the fewest after which the window has ended.
Refuse(k) ==
    /\ used[k] = Max
    /\ answer' = [ok |-> FALSE, retryAfterSecs |-> answer'.retryAfterSecs]
    /\ answer'.retryAfterSecs \in Nat \ {0}
    /\ clock + answer'.retryAfterSecs * SecondMs >= ends[k]
    /\ clock + (answer'.retryAfterSecs - 1) * SecondMs < ends[k]
    /\ UNCHANGED <<clock, used, ends>>

Forget(k) ==
    /\ used' = [used EXCEPT ![k] = 0]
    /\ ends' = [ends EXCEPT ![k] = 0]
    /\ UNCHANGED <<clock, answer>>

RateNext == Pass \/ \E k \in Keys : Grant(k) \/ Refuse(k) \/ Forget(k)

RateSpec == RateInit /\ [][RateNext]_contractVars
=============================================================================
