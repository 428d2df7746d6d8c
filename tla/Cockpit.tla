------------------------------- MODULE Cockpit -------------------------------
(***************************************************************************)
(* The page of the local console (public/app.js) over the settings that the *)
(* server keeps: polling, the form of the settings and the token.           *)
(*                                                                         *)
(* refreshAll waits for six answers, of which only that of /api/settings    *)
(* may make it fail, and then for two more before it touches the page: a    *)
(* load is sent, read by the server, taken, and shown.                      *)
(***************************************************************************)
EXTENDS Naturals

CONSTANTS
    MaxRefreshes,   \* bound: refreshes under way at once
    MaxPatches      \* bound: patches of the settings, and times the server goes

VARIABLES
    settings,       \* SettingsStore: allowAutoMerge, for all of them
    serving,        \* the server answers
    token,          \* what the page sends: none, one refused, the right one
    conn,           \* connState
    polling,        \* pollTimer is set
    refreshes,      \* the calls of refreshAll under way
    known,          \* lastSettings
    boxes,          \* the check boxes
    put,            \* the PUT of the form
    changes         \* patches and outages so far

cockpitVars == <<settings, serving, token, conn, polling, refreshes, known, boxes,
                 put, changes>>
pageVars == <<token, conn, polling, refreshes, known, boxes, put>>

Slots == 1..MaxRefreshes
Defaults == FALSE
NoRefresh == [at |-> "idle", value |-> Defaults]
NoPut == [at |-> "idle", value |-> Defaults]

KeepsPolling(state) == state \in {"connected", "unknown"}

\* Every change of the state of the connection starts or stops the timer.
Connects(state) == conn' = state /\ polling' = KeepsPolling(state)

CockpitInit ==
    /\ settings = Defaults /\ serving = TRUE
    /\ token \in {"none", "wrong", "right"}
    /\ conn = (IF token = "none" THEN "auth" ELSE "unknown")
    /\ polling = KeepsPolling(conn)
    /\ refreshes = [s \in Slots |-> IF s = 1 /\ token # "none"
                                    THEN [NoRefresh EXCEPT !.at = "sent"] ELSE NoRefresh]
    /\ known = Defaults /\ boxes = Defaults /\ put = NoPut
    /\ changes = 0

-----------------------------------------------------------------------------
(* The page.                                                               *)

Sends == \E s \in Slots :
    /\ refreshes[s].at = "idle"
    /\ refreshes' = [refreshes EXCEPT ![s] = [NoRefresh EXCEPT !.at = "sent"]]

PollFires ==
    /\ polling /\ token # "none"
    /\ Sends
    /\ UNCHANGED <<settings, serving, token, conn, polling, known, boxes, put, changes>>

ServerReads(s) ==
    /\ refreshes[s].at = "sent" /\ serving /\ token = "right"
    /\ refreshes' = [refreshes EXCEPT ![s] = [at |-> "read", value |-> settings]]
    /\ UNCHANGED <<settings, serving, token, conn, polling, known, boxes, put, changes>>

\* Offline or refused: polling ends, and only the user starts a refresh again.
RefreshFails(s) ==
    /\ refreshes[s].at = "sent"
    /\ \/ serving /\ token # "right" /\ Connects("auth")
       \/ ~serving /\ Connects("offline")
    /\ refreshes' = [refreshes EXCEPT ![s] = NoRefresh]
    /\ UNCHANGED <<settings, serving, token, known, boxes, put, changes>>

AnswersTaken(s) ==
    /\ refreshes[s].at = "read"
    /\ known' = refreshes[s].value
    /\ refreshes' = [refreshes EXCEPT ![s] = [refreshes[s] EXCEPT !.at = "taken"]]
    /\ UNCHANGED <<settings, serving, token, conn, polling, boxes, put, changes>>

\* The form is brought in line, whatever the user has ticked meanwhile.
AnswersShown(s) ==
    /\ refreshes[s].at = "taken"
    /\ Connects("connected")
    /\ boxes' = refreshes[s].value
    /\ refreshes' = [refreshes EXCEPT ![s] = NoRefresh]
    /\ UNCHANGED <<settings, serving, token, known, put, changes>>

RefreshGoesOn(s) == ServerReads(s) \/ RefreshFails(s) \/ AnswersTaken(s) \/ AnswersShown(s)

Ticks ==
    /\ boxes' = ~boxes
    /\ UNCHANGED <<settings, serving, token, conn, polling, refreshes, known, put, changes>>

\* The whole form is sent, what the user did not touch included.
SubmitsForm ==
    /\ put.at = "idle" /\ changes < MaxPatches
    /\ put' = [at |-> "sent", value |-> boxes]
    /\ changes' = changes + 1
    /\ UNCHANGED <<settings, serving, token, conn, polling, refreshes, known, boxes>>

FormSaved ==
    /\ put.at = "sent" /\ serving /\ token = "right"
    /\ settings' = put.value
    /\ put' = [put EXCEPT !.at = "saved"]
    /\ UNCHANGED <<serving, token, conn, polling, refreshes, known, boxes, changes>>

FormAccepted ==
    /\ put.at = "saved"
    /\ Sends
    /\ put' = NoPut
    /\ UNCHANGED <<settings, serving, token, conn, polling, known, boxes, changes>>

\* A toast, and nothing else.
FormRefused ==
    /\ put.at \in {"sent", "saved"} /\ (~serving \/ token # "right")
    /\ put' = NoPut
    /\ UNCHANGED <<settings, serving, token, conn, polling, refreshes, known, boxes, changes>>

EntersToken ==
    /\ conn = "auth"
    /\ token' \in {"wrong", "right"}
    /\ Connects("unknown")
    /\ Sends
    /\ UNCHANGED <<settings, serving, known, boxes, put, changes>>

\* The buttons of the mission refresh the page whatever its state.
RefreshesByHand ==
    /\ token # "none"
    /\ Sends
    /\ UNCHANGED <<settings, serving, token, conn, polling, known, boxes, put, changes>>

-----------------------------------------------------------------------------
(* The server, and what happens to it.                                     *)

\* Another page, or the choice of a mission, changes a setting.
PatchedElsewhere ==
    /\ serving /\ changes < MaxPatches
    /\ settings' = ~settings
    /\ changes' = changes + 1
    /\ UNCHANGED <<pageVars, serving>>

ServerGoes ==
    /\ serving /\ changes < MaxPatches
    /\ serving' = FALSE /\ changes' = changes + 1
    /\ UNCHANGED <<pageVars, settings>>

\* The settings come back from their file, or as the defaults when a write was
\* torn; the token of a torn file is new.
ServerReturns ==
    /\ ~serving
    /\ serving' = TRUE
    /\ \/ UNCHANGED <<settings, token>>
       \/ settings' = Defaults /\ token' = IF token = "none" THEN "none" ELSE "wrong"
    /\ UNCHANGED <<conn, polling, refreshes, known, boxes, put, changes>>

CockpitNext ==
    \/ PollFires \/ Ticks \/ SubmitsForm \/ FormSaved \/ FormAccepted \/ FormRefused
    \/ EntersToken \/ RefreshesByHand
    \/ PatchedElsewhere \/ ServerGoes \/ ServerReturns
    \/ \E s \in Slots : RefreshGoesOn(s)

-----------------------------------------------------------------------------
(* Properties.                                                             *)

\* What a page must not go on doing, however its refreshes overlap and whoever
\* changed the settings.
ShowsOldSettings == conn = "connected" /\ known # settings
=============================================================================
