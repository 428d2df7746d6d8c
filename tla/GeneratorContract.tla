-------------------------- MODULE GeneratorContract --------------------------
(***************************************************************************)
(* What MessageStream takes a provider's generator to be: it yields deltas *)
(* while it runs, and ends once, by returning, by throwing, or because a   *)
(* caller that has aborted breaks its loop.                                *)
(***************************************************************************)
EXTENDS Naturals

VARIABLES stage, deltas, cut

contractVars == <<stage, deltas, cut>>

ContractInit == stage = "open" /\ deltas = 0 /\ cut = FALSE

Yield == stage = "open" /\ deltas' = deltas + 1 /\ UNCHANGED <<stage, cut>>
Abort == cut' = TRUE /\ UNCHANGED <<stage, deltas>>
End ==
    /\ stage = "open"
    /\ stage' \in {"returned", "threw"} \cup (IF cut THEN {"abandoned"} ELSE {})
    /\ UNCHANGED <<deltas, cut>>

ContractSpec == ContractInit /\ [][Yield \/ Abort \/ End]_contractVars
=============================================================================
