---------------------------- MODULE MCChatSession ----------------------------
(* Instances of ChatSession for TLC.                                         *)
EXTENDS ChatSession

\* What arrived for a call that is over matters to no action and no property.
Live == <<clientVars, [a \in Attempts |-> IF Reading(a) THEN <<reply[a]>> ELSE <<>>]>>
=============================================================================
