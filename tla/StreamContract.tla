---------------------------- MODULE StreamContract ----------------------------
(***************************************************************************)
(* What POST /v1/messages/stream promises its caller, with no handler,     *)
(* timer, socket or transaction in sight: a pair is stored in one step,    *)
(* and a request is told one thing, "done" only about a pair that was      *)
(* stored, an error only about one that was not and never will be.         *)
(***************************************************************************)
CONSTANTS Requests

VARIABLES
    stored,   \* the requests whose question and answer are in the database
    told,     \* what each client has been told: "nothing", "done" or "error"
    exists    \* the chat window exists

contractVars == <<stored, told, exists>>

ContractInit ==
    /\ stored = {}
    /\ told = [r \in Requests |-> "nothing"]
    /\ exists = TRUE

Store(r) ==
    /\ exists /\ r \notin stored /\ told[r] = "nothing"
    /\ stored' = stored \cup {r}
    /\ UNCHANGED <<told, exists>>

\* The answer may reach the client after the window, and the pair, are gone.
TellDone(r) ==
    /\ told[r] = "nothing"
    /\ r \in stored \/ ~exists
    /\ told' = [told EXCEPT ![r] = "done"]
    /\ UNCHANGED <<stored, exists>>

TellError(r) ==
    /\ told[r] = "nothing" /\ r \notin stored
    /\ told' = [told EXCEPT ![r] = "error"]
    /\ UNCHANGED <<stored, exists>>

DeleteAll ==
    /\ exists
    /\ exists' = FALSE
    /\ stored' = {}
    /\ UNCHANGED told

ContractNext ==
    \/ \E r \in Requests : Store(r) \/ TellDone(r) \/ TellError(r)
    \/ DeleteAll

ContractSpec == ContractInit /\ [][ContractNext]_contractVars
=============================================================================
