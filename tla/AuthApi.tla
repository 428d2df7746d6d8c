------------------------------- MODULE AuthApi -------------------------------
(***************************************************************************)
(* Accounts and sessions: the handlers of auth.controller.ts over the      *)
(* tables of users.repo.ts and sessions.repo.ts, any number of requests at *)
(* once.                                                                   *)
(*                                                                         *)
(* Every action is a handler's code between two awaits, the query it has   *)
(* waited for included.  A request makes at most one account and one token,*)
(* so both are named after it.  A password stands for its salted hash and a*)
(* token for its hash: nobody inverts or guesses one.                      *)
(***************************************************************************)
EXTENDS Naturals, FiniteSets

CONSTANTS
    Requests,       \* bound: the requests ever made
    Addresses,      \* the addresses people type, in any letter case
    Lower(_),       \* toLowerCase
    Passwords,
    None

ASSUME AuthAssumption ==
    /\ Addresses # {} /\ Passwords # {}
    /\ \A a \in Addresses : Lower(a) \in Addresses /\ Lower(Lower(a)) = Lower(a)
    /\ 0 \in Requests /\ Requests \subseteq Nat
    /\ None \notin Requests /\ None \notin Addresses /\ None \notin Passwords
    /\ None \notin [email : Addresses, password : Passwords]
    /\ None \notin [user : Requests, expired : BOOLEAN]

VARIABLES
    users,          \* the rows of users
    sessions,       \* the rows of sessions
    request,        \* the requests and where their handlers wait
    sweeping,       \* deletions of expired sessions nobody waits for
    ended           \* history: the tokens whose log-out was answered

authVars == <<users, sessions, request, sweeping, ended>>
rows == <<users, sessions>>

NewRequest == [kind |-> "none", pc |-> "none", address |-> None, password |-> None,
               cookie |-> None, late |-> FALSE, user |-> None,
               status |-> "none", sets |-> "keep"]

\* Request 0 was made earlier: a refused log-in, or the sign-up of an account.
AuthInit ==
    /\ \/ /\ users = [r \in Requests |-> None]
          /\ sessions = [r \in Requests |-> None]
          /\ request = [r \in Requests |-> IF r # 0 THEN NewRequest ELSE
                [NewRequest EXCEPT !.kind = "login", !.pc = "answered", !.status = "denied"]]
       \/ LET a == CHOOSE b \in Addresses : TRUE
              p == CHOOSE q \in Passwords : TRUE
          IN
          /\ users = [r \in Requests |-> IF r # 0 THEN None ELSE [email |-> Lower(a), password |-> p]]
          /\ sessions = [r \in Requests |-> IF r # 0 THEN None ELSE [user |-> 0, expired |-> FALSE]]
          /\ request = [r \in Requests |-> IF r # 0 THEN NewRequest ELSE
                [NewRequest EXCEPT !.kind = "signup", !.pc = "answered", !.address = a,
                                   !.password = p, !.user = 0, !.status = "ok", !.sets = "set"]]
    /\ sweeping = {} /\ ended = {}

Tokens == Requests
Account(a) == {u \in Requests : users[u] # None /\ users[u].email = a}
Dead(t) == t \in ended \/ (t # None /\ sessions[t] # None /\ sessions[t].expired)

-----------------------------------------------------------------------------
(* Steps of a handler.                                                     *)

Becomes(r, record) == request' = [request EXCEPT ![r] = record]
Waits(r, pc) == Becomes(r, [request[r] EXCEPT !.pc = pc])

\* The answer is written: "ok" is 200 or 201, "denied" 401, "refused" any other
\* status; and what it does to the cookie of its client.  What was presented is
\* remembered of the requests that made a session.
Answers(r, status, sets) ==
    Becomes(r, [request[r] EXCEPT !.pc = "answered", !.status = status, !.sets = sets,
                                  !.address = IF sets = "set" THEN @ ELSE None,
                                  !.password = IF sets = "set" THEN @ ELSE None])

\* A query fails: the handler rejects, handleRequest answers.
Fails(r) ==
    /\ request[r].pc \in {"lookup", "insertUser", "insertSession", "delete", "session", "user"}
    /\ Answers(r, "refused", "keep")
    /\ UNCHANGED <<rows, sweeping, ended>>

\* Requests are named in the order of their arrival.
Arrival(r) == request[r].kind = "none" /\ \A q \in Requests : q < r => request[q].kind # "none"
Answered(new, status, sets) == [new EXCEPT !.pc = "answered", !.status = status, !.sets = sets]

\* A sign-up or log-in arrives, and passes authLimiter (RateLimiter) or does not.
ArrivesCounted(r, kind, address, password) ==
    LET new == [NewRequest EXCEPT !.kind = kind] IN
    \/ Becomes(r, Answered(new, "refused", "keep"))
    \/ Becomes(r, [new EXCEPT !.pc = "body", !.address = address, !.password = password])

\* A log-out arrives; without a token there is nothing to delete.
ArrivesLogout(r, token) ==
    LET new == [NewRequest EXCEPT !.kind = "logout", !.cookie = token, !.late = Dead(token)] IN
    Becomes(r, IF token = None THEN Answered(new, "ok", "clear") ELSE [new EXCEPT !.pc = "delete"])

\* A question who is there arrives; without a token it is denied unasked.
ArrivesMe(r, token) ==
    LET new == [NewRequest EXCEPT !.kind = "me", !.cookie = token, !.late = Dead(token)] IN
    Becomes(r, IF token = None THEN Answered(new, "denied", "keep") ELSE [new EXCEPT !.pc = "session"])

\* router.add of the four, and parseCookies.
Arrives(r, kind, address, password, token) ==
    /\ Arrival(r)
    /\ \/ kind \in {"signup", "login"} /\ ArrivesCounted(r, kind, address, password)
       \/ kind = "logout" /\ ArrivesLogout(r, token)
       \/ kind = "me" /\ ArrivesMe(r, token)
    /\ UNCHANGED <<rows, sweeping, ended>>

\* The body has been read: it is refused, or its address is looked up.
ReadsBody(r) ==
    /\ request[r].pc = "body"
    /\ Answers(r, "refused", "keep") \/ Waits(r, "lookup")
    /\ UNCHANGED <<rows, sweeping, ended>>

\* Mutant: sign-up looks up and stores the address as it was typed.
StoredAsTyped(a) == a
\* The address as it is looked up and stored.
Stored(a) == Lower(a)

\* verifyPassword.
Verified(u, password) == users[u].password = password

\* A sign-up has asked for an account with the address.
LooksForConflict(r) ==
    /\ request[r].pc = "lookup" /\ request[r].kind = "signup"
    /\ IF Account(Stored(request[r].address)) # {}
       THEN Answers(r, "refused", "keep") ELSE Waits(r, "insertUser")
    /\ UNCHANGED <<rows, sweeping, ended>>

\* A log-in has found the account, and verified the password.
LooksUp(r) ==
    LET found == {u \in Account(Stored(request[r].address)) : Verified(u, request[r].password)} IN
    /\ request[r].pc = "lookup" /\ request[r].kind = "login"
    /\ \/ found = {} /\ Answers(r, "denied", "keep")
       \/ \E u \in found : Becomes(r, [request[r] EXCEPT !.pc = "insertSession", !.user = u])
    /\ UNCHANGED <<rows, sweeping, ended>>

\* createUser: the unique index refuses a second row with the address, which the
\* handler does not expect (Fails).
InsertsUser(r) ==
    LET email == Stored(request[r].address) IN
    /\ request[r].pc = "insertUser" /\ Account(email) = {}
    /\ users' = [users EXCEPT ![r] = [email |-> email, password |-> request[r].password]]
    /\ Becomes(r, [request[r] EXCEPT !.pc = "insertSession", !.user = r])
    /\ UNCHANGED <<sessions, sweeping, ended>>

\* createSession (and authLimiter.reset).
InsertsSession(r) ==
    /\ request[r].pc = "insertSession"
    /\ sessions' = [sessions EXCEPT ![r] = [user |-> request[r].user, expired |-> FALSE]]
    /\ Answers(r, "ok", "set")
    /\ UNCHANGED <<users, sweeping, ended>>

\* deleteSession.
DeletesSession(r) ==
    /\ request[r].pc = "delete"
    /\ sessions' = [sessions EXCEPT ![request[r].cookie] = None]
    /\ ended' = ended \cup {request[r].cookie}
    /\ Answers(r, "ok", "clear")
    /\ UNCHANGED <<users, sweeping>>

\* findSessionByTokenHash; a session found expired is deleted, without waiting.
FindsSession(r) ==
    LET t == request[r].cookie IN
    /\ request[r].pc = "session"
    /\ IF sessions[t] = None \/ sessions[t].expired
       THEN Answers(r, "denied", "keep")
       ELSE Becomes(r, [request[r] EXCEPT !.pc = "user", !.user = sessions[t].user])
    /\ sweeping' = IF sessions[t] # None /\ sessions[t].expired
                   THEN sweeping \cup {t} ELSE sweeping
    /\ UNCHANGED <<rows, ended>>

\* findUserById.
FindsUser(r) ==
    /\ request[r].pc = "user"
    /\ Answers(r, IF users[request[r].user] = None THEN "denied" ELSE "ok", "keep")
    /\ UNCHANGED <<rows, sweeping, ended>>

\* The deletion of an expired session succeeds or fails; nobody notices.
Sweeps(t) ==
    /\ t \in sweeping /\ sweeping' = sweeping \ {t}
    /\ sessions' = [sessions EXCEPT ![t] = None] \/ UNCHANGED sessions
    /\ UNCHANGED <<users, request, ended>>

\* Thirty days pass.
Expires(t) ==
    /\ sessions[t] # None /\ ~sessions[t].expired
    /\ sessions' = [sessions EXCEPT ![t] = [@ EXCEPT !.expired = TRUE]]
    /\ UNCHANGED <<users, request, sweeping, ended>>

HandlerStep(r) ==
    \/ ReadsBody(r) \/ LooksForConflict(r) \/ LooksUp(r) \/ InsertsUser(r) \/ InsertsSession(r)
    \/ DeletesSession(r) \/ FindsSession(r) \/ FindsUser(r) \/ Fails(r)

-----------------------------------------------------------------------------
(* Properties.                                                             *)

AuthTypeOK ==
    /\ \A r \in Requests :
          /\ users[r] = None \/ users[r] \in [email : Addresses, password : Passwords]
          /\ sessions[r] = None \/ sessions[r] \in [user : Requests, expired : BOOLEAN]
          /\ request[r].user \in Requests \cup {None}
    /\ sweeping \subseteq Tokens /\ ended \subseteq Tokens

\* Two sign-ups for one address, in whatever letter case and however they
\* overlap, make one account.
OneAccountPerAddress ==
    \A u, v \in Requests :
        u # v /\ users[u] # None /\ users[v] # None => Lower(users[u].email) # Lower(users[v].email)

\* A session is of the account whose address and password its request presented.
SessionsAreEarned ==
    \A t \in Tokens : sessions[t] # None =>
        LET u == sessions[t].user IN
        /\ users[u] # None
        /\ users[u].email = Lower(request[t].address)
        /\ users[u].password = request[t].password

\* A request that arrives with the token of a session that has expired, or whose
\* log-out was answered, finds nobody behind it.
EndedSessionsStayEnded ==
    \A r \in Requests : request[r].late /\ request[r].kind = "me" =>
        request[r].pc # "user" /\ request[r].status # "ok"

AccountsInv == AuthTypeOK /\ OneAccountPerAddress /\ SessionsAreEarned /\ EndedSessionsStayEnded
=============================================================================
