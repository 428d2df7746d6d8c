--------------------------------- MODULE Api ---------------------------------
(***************************************************************************)
(* The routes of the process: over the database, or over the in-memory     *)
(* services when it has none (routes/index.ts).                            *)
(***************************************************************************)
EXTENDS ResourceApi, MemoryApi

VARIABLE backend    \* "database" if DATABASE_URL is set

Init ==
    /\ backend \in {"database", "memory"}
    /\ ResourceInit /\ MemoryInit

Next ==
    /\ UNCHANGED backend
    /\ \/ backend = "database" /\ ResourceNext /\ UNCHANGED memoryVars
       \/ backend = "memory" /\ MemoryNext /\ UNCHANGED apiVars

Spec == Init /\ [][Next]_<<apiVars, memoryVars, backend>>

\* What a user is told, and what is kept for him, hangs together whichever
\* backend answers: the parts are stated in ResourceApi and MemoryApi.
ApiInv == ResourceInv /\ MemoryInv
=============================================================================
