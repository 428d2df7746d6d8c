--------------------------- MODULE SessionContext ---------------------------
(***************************************************************************)
(* One browser tab over the API of AuthApi: the session context            *)
(* (SessionContext.tsx), the log-in and sign-up pages (AuthForm.tsx) and   *)
(* the user menu (UserMenu.tsx).                                           *)
(*                                                                         *)
(* An action is a callback and the effects that follow it.  A call of the  *)
(* tab is a request of AuthApi; its answer may overtake another's, and the *)
(* tab may give up waiting for it while the API goes on.                   *)
(***************************************************************************)
EXTENDS AuthApi

VARIABLES
    cookie,         \* the browser's session cookie
    status, shown,  \* state.status, state.user
    path, nav,      \* the page, and the one router.replace has been asked for
    pending,        \* AuthForm.pending of the form on the page
    loggingOut,
    call,           \* the calls of the tab, by request
    misled,         \* history: the last /me to settle was asked with another cookie, or
                    \* the cookie has changed by a call that failed
    overtaken       \* history: since the tab has come to its page, another call has
                    \* led it elsewhere than its status, or its form, would have

tabVars == <<cookie, status, shown, path, nav, pending, loggingOut, call, misled,
             overtaken>>
sessionVars == <<authVars, tabVars>>

Public == {"login", "register"}
Pages == Public \cup {"home"}
ASSUME SessionAssumption == None \notin Pages
NewCall(by, form) == [by |-> by, form |-> form, heard |-> FALSE]
NoCall == NewCall("none", "none")

SessionInit ==
    /\ AuthInit
    /\ cookie = IF sessions[0] = None THEN None ELSE 0
    /\ status = "closed" /\ shown = None
    /\ path = "home" /\ nav = None
    /\ pending = FALSE /\ loggingOut = FALSE
    /\ call = [r \in Requests |-> NoCall] /\ misled = FALSE /\ overtaken = FALSE

Asked == \E r \in Requests : call[r].by = "load"     \* a /me is under way
Here == \E r \in Requests : call[r].form = "here"    \* a call of the form on the page
Heard == \E r \in Requests : call[r].heard           \* headers are there, the body is not

-----------------------------------------------------------------------------
(* Helpers.                                                                *)

\* Where a status sends from a page: a stranger to the log-in page, a known user
\* away from it.
Sends(s, p) ==
    IF s = "unauthenticated" /\ p \notin Public THEN "login"
    ELSE IF s = "authenticated" /\ p \in Public THEN "home" ELSE None

\* The two effects on status and path, which run after either has changed.
RedirectsOr(otherwise) ==
    nav' = IF <<status, path>>' # <<status, path>> /\ Sends(status', path') # None
           THEN Sends(status', path') ELSE otherwise

\* load begins: whoever is shown stays shown.
Loading == status' = IF status = "authenticated" THEN status ELSE "loading"

\* The form on the page is left: calls it made go on without it.
Unmounted == [r \in Requests |-> IF call[r].form = "here" THEN [call[r] EXCEPT !.form = "gone"]
                                 ELSE call[r]]

Asks(r, kind, address, password, sent) == Arrives(r, kind, address, password, sent)

-----------------------------------------------------------------------------
(* What the user does.                                                     *)

\* A page is opened, or loaded again: nothing of the tab but its cookie is left.
Opens(p, r) ==
    /\ status = "closed" \/ p = path
    /\ Asks(r, "me", None, None, cookie)
    /\ call' = [c \in Requests |-> IF c = r THEN NewCall("load", "none") ELSE NoCall]
    /\ status' = "loading" /\ shown' = None /\ path' = p /\ nav' = None
    /\ pending' = FALSE /\ loggingOut' = FALSE /\ misled' = FALSE /\ overtaken' = FALSE
    /\ UNCHANGED cookie

\* Follows a link, or goes back, to a page of its own component.
Goes(p) ==
    /\ status # "closed" /\ p # path
    /\ path' = p /\ pending' = FALSE /\ call' = Unmounted /\ overtaken' = FALSE
    /\ UNCHANGED <<authVars, cookie, status, shown, loggingOut, misled>>
    /\ RedirectsOr(nav)

\* The replacement the router was asked for.
Navigates ==
    /\ nav # None
    /\ path' = nav
    /\ IF nav = path THEN UNCHANGED <<pending, call, overtaken>>
       ELSE pending' = FALSE /\ call' = Unmounted /\ overtaken' = FALSE
    /\ UNCHANGED <<authVars, cookie, status, shown, loggingOut, misled>>
    /\ RedirectsOr(None)

\* onSubmit of the form, which a public page shows whatever the status.
Submits(r) ==
    /\ status # "closed" /\ path \in Public /\ ~pending
    /\ \E a \in Addresses, p \in Passwords :
          Asks(r, IF path = "login" THEN "login" ELSE "signup", a, p, cookie)
    /\ pending' = TRUE
    /\ call' = [call EXCEPT ![r] = NewCall("form", "here")]
    /\ UNCHANGED <<cookie, status, shown, path, nav, loggingOut, misled, overtaken>>

\* onLogout of the user menu, which a page shows to a known user.
LogsOut(r) ==
    /\ status = "authenticated" /\ path \notin Public /\ ~loggingOut
    /\ Asks(r, "logout", None, None, cookie)
    /\ loggingOut' = TRUE
    /\ call' = [call EXCEPT ![r] = NewCall("logout", "none")]
    /\ UNCHANGED <<cookie, status, shown, path, nav, pending, misled, overtaken>>

\* "Try again" on the page SessionGate shows when the session cannot be verified.
Retries(r) ==
    /\ status = "error" /\ path \notin Public
    /\ Asks(r, "me", None, None, cookie)
    /\ Loading
    /\ call' = [call EXCEPT ![r] = NewCall("load", "none")]
    /\ UNCHANGED <<cookie, shown, path, nav, pending, loggingOut, misled, overtaken>>

-----------------------------------------------------------------------------
(* What becomes of a call: apiFetch gives up before the headers of its      *)
(* answer arrive, or these do, with what they do to the cookie; then the    *)
(* body is read, or it breaks and the call fails all the same.             *)

GivenUp == "given up"
Succeeded(r) == request[r].pc = "answered" /\ request[r].status = "ok"
Cookied(r) == CASE request[r].sets = "set" -> r
                [] request[r].sets = "clear" -> None
                [] OTHER -> cookie

\* Mutant: a call that was given up leaves the status as it is.
StatusOfAnswered(answer) == CASE answer = "ok" -> "authenticated"
    [] answer = "denied" -> "unauthenticated" [] answer = GivenUp -> status [] OTHER -> "error"
StatusOf(answer) == CASE answer = "ok" -> "authenticated"
    [] answer = "denied" -> "unauthenticated" [] OTHER -> "error"

\* load: the answer of /me decides the status.  The form that has asked for it
\* goes on to its target, whatever the answer.
Loads(r, answer) ==
    /\ call[r].by = "load"
    /\ call' = [call EXCEPT ![r] = NoCall]
    /\ status' = StatusOf(answer)
    /\ shown' = IF answer = "ok" THEN request[r].user ELSE None
    /\ misled' = (request[r].cookie # cookie)
    /\ overtaken' = (overtaken \/ (call[r].form = "gone" /\ status' = status))
    /\ UNCHANGED <<authVars, cookie, path, pending, loggingOut>>
    /\ RedirectsOr(IF call[r].form = "none" THEN nav ELSE "home")

\* Of a form or a log-out that was carried out, as no other answer brings a cookie;
\* the timer of the call ends with it.
HeadersArrive(r) ==
    /\ call[r].by \in {"form", "logout"} /\ ~call[r].heard /\ Succeeded(r)
    /\ cookie' = Cookied(r)
    /\ call' = [call EXCEPT ![r].heard = TRUE]
    /\ UNCHANGED <<authVars, status, shown, path, nav, pending, loggingOut, misled, overtaken>>

\* A call fails, though its headers may have changed the cookie.
CallFails(r) ==
    /\ call' = [call EXCEPT ![r] = NoCall]
    /\ misled' = (misled \/ call[r].heard)
    /\ UNCHANGED <<authVars, cookie, status, shown, path, nav, overtaken>>

\* Mutant: a form that has succeeded goes on without asking who is there.
FormSucceedsUnasked(r, q) ==
    /\ call[r].by = "form" /\ r # q
    /\ call' = [call EXCEPT ![r] = NoCall] /\ nav' = "home"
    /\ UNCHANGED <<authVars, cookie, status, shown, path, pending, loggingOut, misled, overtaken>>
\* The form's call has succeeded: it asks who is there (refresh).
FormSucceeds(r, q) ==
    /\ call[r].by = "form"
    /\ Asks(q, "me", None, None, cookie)
    /\ Loading
    /\ call' = [call EXCEPT ![r] = NoCall, ![q] = NewCall("load", call[r].form)]
    /\ UNCHANGED <<cookie, shown, path, nav, pending, loggingOut, misled, overtaken>>

\* The form's call has failed: the form, if it is still there, is free again.
FormFails(r) ==
    /\ call[r].by = "form"
    /\ pending' = IF call[r].form = "here" THEN FALSE ELSE pending
    /\ CallFails(r)
    /\ UNCHANGED loggingOut

\* The cookie may be one that a form was given since the headers.
LogOutSucceeds(r) ==
    /\ call[r].by = "logout"
    /\ status' = "unauthenticated" /\ shown' = None /\ loggingOut' = FALSE
    /\ nav' = "login" /\ misled' = (cookie # None)
    /\ overtaken' = (overtaken \/ (pending /\ ~Here))
    /\ call' = [call EXCEPT ![r] = NoCall]
    /\ UNCHANGED <<authVars, cookie, path, pending>>

LogOutFails(r) ==
    /\ call[r].by = "logout"
    /\ loggingOut' = FALSE
    /\ CallFails(r)
    /\ UNCHANGED pending

Settles(r) ==
    \/ Loads(r, GivenUp) \/ FormFails(r) \/ LogOutFails(r)
    \/ request[r].pc = "answered" /\ Loads(r, request[r].status)
    \/ call[r].heard /\ ((\E q \in Requests : FormSucceeds(r, q)) \/ LogOutSucceeds(r))

HandlersStep ==
    /\ \E r \in Requests : HandlerStep(r) \/ Sweeps(r) \/ Expires(r)
    /\ UNCHANGED tabVars

SessionNext ==
    \/ HandlersStep
    \/ \E r \in Requests :
          \/ Submits(r) \/ LogsOut(r) \/ Retries(r) \/ \E p \in Pages : Opens(p, r)
          \/ HeadersArrive(r) \/ Settles(r)
    \/ Navigates \/ \E p \in Pages : Goes(p)

SessionSpec == SessionInit /\ [][SessionNext]_sessionVars

\* Calls settle, each in the end, as there are only so many: apiFetch gives up after
\* five seconds if no headers have come; that the body ends or breaks after them is
\* assumed of the network.  The router carries out what it was asked for.
SessionFairSpec ==
    SessionSpec /\ WF_sessionVars(Navigates) /\ WF_sessionVars(\E r \in Requests : Settles(r))

-----------------------------------------------------------------------------
(* Properties.                                                             *)

\* With no answer under way that decides the status, it tells whose cookie the
\* browser holds, or that it holds none that is good.  Not so if the cookie has
\* changed behind it: nothing orders a /me and a log-in, and a form or a log-out
\* whose body breaks fails with its cookie stored.
StatusFollowsCookie ==
    ~Asked /\ ~Heard /\ ~misled =>
        /\ status = "authenticated" => cookie # None /\ shown = request[cookie].user
        /\ status = "unauthenticated" =>
               cookie = None \/ sessions[cookie] = None \/ sessions[cookie].expired

\* Whatever makes the page wait is under way: a spinner has its /me, a disabled
\* form its call or its way to the next page, a disabled menu its log-out.  Not so
\* if a log-out answered late leads to the page of a form that has succeeded: the
\* form stays disabled.
WaitsAreBacked ==
    /\ status = "loading" => Asked
    /\ pending => nav # None \/ Here \/ overtaken
    /\ loggingOut => \E r \in Requests : call[r].by = "logout"

\* A page for known users is not left to a stranger.  Not so if a form that has been
\* left goes on to a page the tab is at already: no effect follows.
StrangersAreLed ==
    status = "unauthenticated" /\ path \notin Public => nav = "login" \/ overtaken

TabInv == StatusFollowsCookie /\ WaitsAreBacked /\ StrangersAreLed

\* The tab waits: a spinner, a form that is disabled though no other call has led
\* the tab elsewhere, or a menu that logs out.
Waiting == status = "loading" \/ (pending /\ ~overtaken) \/ loggingOut

\* A tab that waits comes to a state in which it waits for nothing: the spinner
\* ends, the form is free again or left, the menu is free again.  (The calls of a
\* tab are bounded: a user who never stops could keep something waiting.)
PageSettles == Waiting ~> ~Waiting
=============================================================================
