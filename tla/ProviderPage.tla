---------------------------- MODULE ProviderPage ----------------------------
(***************************************************************************)
(* The settings page of the provider connections and the API behind it:     *)
(* saving, deleting and testing a key, and the loads of the list, which may *)
(* overlap.  One provider can be chosen; its row is known by the write that  *)
(* made it, 0 if there is none.  The page gives up a write after five        *)
(* seconds, the API verifies a key for up to ten: what was given up may      *)
(* still be carried out.                                                     *)
(***************************************************************************)
EXTENDS Integers, FiniteSets

CONSTANTS MaxKeys,      \* bound: keys saved
          MaxLate,      \* bound: writes given up that the API is still at
          MaxLoads      \* bound: loads of the list

VARIABLES row, keys,               \* the API: the row, and the writes so far
          latePuts, lateDeletes,   \* writes given up that the API is still at
          listed,                  \* LoadState: Loading, Broken, or the row listed
          loads, asked, newest,    \* loads under way; how many; the last one answered
          saving, saveLoad,        \* onSubmit and the load it awaits
          dialog, deleting, deleteLoad,   \* pendingDelete, onConfirmDelete
          testing,
          overtaken,               \* the list shown was asked for before another that came
          unheard                  \* a write was made since the list was asked for, and
                                   \* its answer not received

providerVars == <<row, keys, latePuts, lateDeletes, listed, loads, asked, newest, saving,
                  saveLoad, dialog, deleting, deleteLoad, testing, overtaken, unheard>>
lateVars == <<latePuts, lateDeletes>>
serverVars == <<row, keys, lateVars>>
listVars == <<listed, loads, asked, newest, overtaken, unheard>>
saveVars == <<saving, saveLoad>>
deleteVars == <<dialog, deleting, deleteLoad>>

Loading == -1
Broken == -2
NotServed == -1

ProviderInit ==
    /\ row \in 0..1 /\ keys = row /\ latePuts = 0 /\ lateDeletes = 0
    /\ listed = Loading /\ loads = {[n |-> 1, got |-> NotServed]} /\ asked = 1 /\ newest = 0
    /\ saving = "no" /\ saveLoad = 0
    /\ dialog = FALSE /\ deleting = "no" /\ deleteLoad = 0
    /\ testing = FALSE /\ overtaken = FALSE /\ unheard = FALSE

\* load: the list goes until the answer comes.
Loads ==
    /\ asked' = asked + 1
    /\ loads' = loads \cup {[n |-> asked', got |-> NotServed]}
    /\ listed' = Loading /\ unheard' = FALSE /\ overtaken' = FALSE
    /\ UNCHANGED newest

ServeLoad ==
    /\ \E l \in loads :
          l.got = NotServed /\ loads' = (loads \ {l}) \cup {[l EXCEPT !.got = row]}
    /\ UNCHANGED <<serverVars, listed, asked, newest, overtaken, unheard, saveVars, deleteVars, testing>>

\* The answer of a load, or its failure; a handler that awaited it is done.
LoadSettles ==
    /\ \E l \in loads :
          /\ loads' = loads \ {l}
          /\ listed' \in {Broken} \cup ({l.got} \ {NotServed})
          /\ overtaken' = (l.n < newest)
          /\ newest' = IF l.n < newest THEN newest ELSE l.n
          /\ IF saving = "load" /\ saveLoad = l.n THEN saving' = "no" /\ saveLoad' = 0
             ELSE UNCHANGED <<saving, saveLoad>>
          /\ IF deleting = "load" /\ deleteLoad = l.n THEN deleting' = "no" /\ deleteLoad' = 0
             ELSE UNCHANGED <<deleting, deleteLoad>>
    /\ UNCHANGED <<serverVars, asked, unheard, dialog, testing>>

RefreshList ==
    /\ listed # Loading /\ asked < MaxLoads
    /\ Loads
    /\ UNCHANGED <<serverVars, saveVars, deleteVars, testing>>

\* A key has been typed; one that failed stays in its field.
SubmitKey ==
    /\ saving = "no" /\ keys + latePuts < MaxKeys /\ asked < MaxLoads
    /\ saving' = "sent"
    /\ UNCHANGED <<serverVars, listVars, saveLoad, deleteVars, testing>>

ServePut ==
    /\ saving = "sent"
    /\ saving' = "written" /\ keys' = keys + 1 /\ row' = keys'
    /\ UNCHANGED <<lateVars, listVars, saveLoad, deleteVars, testing>>

SavedThenLoads == Loads /\ saving' = "load" /\ saveLoad' = asked'

PutAnswered ==
    /\ saving = "written"
    /\ SavedThenLoads
    /\ UNCHANGED <<serverVars, deleteVars, testing>>

\* Mutant: the flag is cleared on success only.
SaveFailsBusy == UNCHANGED saving
SaveFails == saving' = "no"
MoreLate == latePuts + lateDeletes < MaxLate

\* The API refuses, or is not reached; the client gives up waiting, with the key
\* still being verified or the answer on its way.
PutFails ==
    /\ saving \in {"sent", "written"}
    /\ SaveFails
    /\ unheard' = (unheard \/ saving = "written")
    /\ latePuts' \in {latePuts} \cup IF saving = "sent" /\ MoreLate THEN {latePuts + 1} ELSE {}
    /\ UNCHANGED <<row, keys, lateDeletes, listed, loads, asked, newest, overtaken, saveLoad,
                   deleteVars, testing>>

\* A key that was given up is stored after all; one that never is stays here.
LatePut ==
    /\ latePuts > 0
    /\ latePuts' = latePuts - 1 /\ keys' = keys + 1 /\ row' = keys' /\ unheard' = TRUE
    /\ UNCHANGED <<lateDeletes, listed, loads, asked, newest, overtaken, saveVars, deleteVars,
                   testing>>

AskDelete ==
    /\ listed > 0 /\ ~dialog
    /\ dialog' = TRUE
    /\ UNCHANGED <<serverVars, listVars, saveVars, deleting, deleteLoad, testing>>
\* The button, the backdrop or Escape.
CancelDelete ==
    /\ dialog /\ deleting = "no"
    /\ dialog' = FALSE
    /\ UNCHANGED <<serverVars, listVars, saveVars, deleting, deleteLoad, testing>>
ConfirmDelete ==
    /\ dialog /\ deleting = "no" /\ asked < MaxLoads
    /\ deleting' = "sent"
    /\ UNCHANGED <<serverVars, listVars, saveVars, dialog, deleteLoad, testing>>
ServeDelete ==
    /\ deleting = "sent"
    /\ deleting' = "deleted" /\ row' = 0
    /\ UNCHANGED <<keys, lateVars, listVars, saveVars, dialog, deleteLoad, testing>>
DeleteAnswered ==
    /\ deleting = "deleted"
    /\ dialog' = FALSE
    /\ Loads /\ deleting' = "load" /\ deleteLoad' = asked'
    /\ UNCHANGED <<serverVars, saveVars, testing>>
\* Refused, or not answered in five seconds, carried out or not yet.
DeleteFails ==
    /\ deleting \in {"sent", "deleted"}
    /\ deleting' = "no"
    /\ unheard' = (unheard \/ deleting = "deleted")
    /\ lateDeletes' \in
          {lateDeletes} \cup IF deleting = "sent" /\ MoreLate THEN {lateDeletes + 1} ELSE {}
    /\ UNCHANGED <<row, keys, latePuts, listed, loads, asked, newest, overtaken, saveVars, dialog,
                   deleteLoad, testing>>

LateDelete ==
    /\ lateDeletes > 0
    /\ lateDeletes' = lateDeletes - 1 /\ row' = 0 /\ unheard' = (unheard \/ row # 0)
    /\ UNCHANGED <<keys, latePuts, listed, loads, asked, newest, overtaken, saveVars, deleteVars,
                   testing>>

TestKey ==
    /\ listed > 0 /\ ~testing
    /\ testing' = TRUE
    /\ UNCHANGED <<serverVars, listVars, saveVars, deleteVars>>
TestEnds ==
    /\ testing
    /\ testing' = FALSE
    /\ UNCHANGED <<serverVars, listVars, saveVars, deleteVars>>

ProviderSettles == LoadSettles \/ PutAnswered \/ PutFails \/ DeleteAnswered \/ DeleteFails \/ TestEnds
ProviderNext ==
    \/ ServeLoad \/ RefreshList \/ SubmitKey \/ ServePut
    \/ AskDelete \/ CancelDelete \/ ConfirmDelete \/ ServeDelete \/ TestKey
    \/ LatePut \/ LateDelete
    \/ ProviderSettles

-----------------------------------------------------------------------------
(* Properties.                                                             *)

\* With nothing under way on the page it lists what the API has, unless the list was
\* overtaken by another or a write that the page was told had failed was carried out
\* since the list was asked for.
ListIsFresh ==
    loads = {} /\ saving = "no" /\ deleting = "no" /\ listed >= 0 /\ ~overtaken /\ ~unheard
        => listed = row
=============================================================================
