---------------------------- MODULE SessionProofs ----------------------------
(***************************************************************************)
(* Accounts and sessions behind a tab, for any number of requests, any      *)
(* addresses and passwords: the inductive invariant of AuthApi under the    *)
(* steps of SessionContext, and AccountsInv from it.                        *)
(***************************************************************************)
EXTENDS SessionContext, TLAPS

UserRow == [email : Addresses, password : Passwords]
SessionRow == [user : Requests, expired : BOOLEAN]
Pcs == {"none", "body", "lookup", "insertUser", "insertSession", "delete", "session", "user",
        "answered"}
RequestType ==
    [kind : {"none", "signup", "login", "logout", "me"}, pc : Pcs,
     address : Addresses \cup {None}, password : Passwords \cup {None},
     cookie : Requests \cup {None}, late : BOOLEAN, user : Requests \cup {None},
     status : {"none", "ok", "denied", "refused"}, sets : {"keep", "set", "clear"}]

TablesTyped ==
    /\ users \in [Requests -> UserRow \cup {None}]
    /\ sessions \in [Requests -> SessionRow \cup {None}]
    /\ request \in [Requests -> RequestType]
    /\ sweeping \subseteq Requests /\ ended \subseteq Requests

\* u is the account whose address and password request r has presented.
Earned(r, u) ==
    /\ u \in Requests /\ users[u] # None
    /\ users[u].email = Lower(request[r].address)
    /\ users[u].password = request[r].password

\* Addresses are stored in lower case, and each once.
EmailsDiffer ==
    /\ \A u \in Requests : users[u] # None => Lower(users[u].email) = users[u].email
    /\ \A u, v \in Requests :
          users[u] # None /\ users[v] # None /\ users[u].email = users[v].email => u = v

\* A handler has what its next query needs, and has made nothing before its time.
OnItsWay(r) ==
    LET q == request[r] IN
    /\ q.kind = "none" <=> q.pc = "none"
    /\ q.pc # "answered" => sessions[r] = None
    /\ q.pc \in {"none", "body", "lookup", "insertUser"} => users[r] = None
    /\ q.pc \in {"body", "lookup", "insertUser", "insertSession"} =>
          q.kind \in {"signup", "login"} /\ q.address \in Addresses /\ q.password \in Passwords
    /\ q.pc = "delete" => q.kind = "logout" /\ q.cookie # None
    /\ q.pc \in {"session", "user"} => q.kind = "me" /\ q.cookie # None

\* A session was earned, and so will be the one that is about to be made.
SessionEarned(r) ==
    /\ request[r].pc = "insertSession" => Earned(r, request[r].user)
    /\ sessions[r] # None => Earned(r, sessions[r].user)

\* A token is known only once it has been handed out; and the session of one that
\* was dead on arrival stays so until it is looked for.
TokenKnown(r) ==
    LET q == request[r] IN
    /\ q.cookie # None => request[q.cookie].pc = "answered"
    /\ q.late /\ q.kind = "me" => q.pc # "user" /\ q.status # "ok"
    /\ q.late /\ q.pc = "session" => sessions[q.cookie] = None \/ sessions[q.cookie].expired

RequestSound(r) == OnItsWay(r) /\ SessionEarned(r) /\ TokenKnown(r)

EndedAreGone == \A t \in ended : sessions[t] = None /\ request[t].pc = "answered"

AccountsOK == /\ TablesTyped /\ EmailsDiffer /\ EndedAreGone
              /\ \A r \in Requests : RequestSound(r)

\* The browser holds a token that it was answered with.
CookieOK == cookie \in Requests \cup {None} /\ (cookie # None => request[cookie].pc = "answered")

SessionInv == AccountsOK /\ CookieOK

-----------------------------------------------------------------------------
(* Steps of the API.                                                       *)

\* The answered requests stay as they are.
AnsweredStay == \A r \in Requests : request[r].pc = "answered" => request'[r] = request[r]

\* A step of request r that is not answered yet, which adds accounts at most, and
\* ends sessions of others at most, disturbs no other request.
LEMMA OthersStaySound ==
    ASSUME AccountsOK, NEW r \in Requests, request[r].pc # "answered",
           \A s \in Requests \ {r} :
              /\ request'[s] = request[s] /\ users'[s] = users[s]
              /\ sessions'[s] = sessions[s] \/ sessions'[s] = None,
           \A u \in Requests : users[u] # None => users'[u] = users[u]
    PROVE  \A s \in Requests \ {r} : RequestSound(s)'
<1> SUFFICES ASSUME NEW s \in Requests \ {r} PROVE RequestSound(s)'
  OBVIOUS
<1>1. RequestSound(s) /\ request[s] \in RequestType /\ sessions[s] \in SessionRow \cup {None}
  BY DEF AccountsOK, TablesTyped
<1>2. OnItsWay(s)'
  BY <1>1 DEF RequestSound, OnItsWay
<1>3. SessionEarned(s)'
  BY <1>1 DEF RequestSound, SessionEarned, Earned, RequestType
<1>4. request[s].cookie # None =>
         /\ request[s].cookie \in Requests \ {r}
         /\ request'[request[s].cookie] = request[request[s].cookie]
         /\ \/ sessions'[request[s].cookie] = sessions[request[s].cookie]
            \/ sessions'[request[s].cookie] = None
  BY <1>1 DEF RequestSound, TokenKnown, RequestType
<1>5. request[s].pc = "session" => request[s].cookie # None
  BY <1>1 DEF RequestSound, OnItsWay
<1>6. request'[s] = request[s]
  OBVIOUS
<1>7. TokenKnown(s)'
  BY <1>1, <1>4, <1>5, <1>6, SMTT(30) DEF RequestSound, TokenKnown
<1> QED BY <1>2, <1>3, <1>7 DEF RequestSound

\* What is left to show of such a step: its own request, and the tables.
LEMMA StepOfRequest ==
    ASSUME AccountsOK, NEW r \in Requests, request[r].pc # "answered",
           NEW q \in RequestType, request' = [request EXCEPT ![r] = q],
           users' \in [Requests -> UserRow \cup {None}],
           sessions' \in [Requests -> SessionRow \cup {None}],
           \A s \in Requests \ {r} :
              /\ users'[s] = users[s]
              /\ sessions'[s] = sessions[s] \/ sessions'[s] = None,
           users[r] # None => users'[r] = users[r],
           EmailsDiffer', EndedAreGone', RequestSound(r)',
           sweeping' \subseteq Requests, ended' \subseteq Requests
    PROVE  AccountsOK' /\ AnsweredStay
<1>1. request \in [Requests -> RequestType]
  BY DEF AccountsOK, TablesTyped
<1>2. request' \in [Requests -> RequestType] /\ request'[r] = q
      /\ \A s \in Requests \ {r} : request'[s] = request[s]
  BY <1>1
<1>3. AnsweredStay
  BY <1>2 DEF AnsweredStay
<1>4. \A s \in Requests \ {r} : RequestSound(s)'
  BY <1>2, OthersStaySound
<1>5. TablesTyped'
  BY <1>2 DEF TablesTyped
<1> QED BY <1>3, <1>4, <1>5 DEF AccountsOK

\* A step that changes request r and no row.
LEMMA QuietStep ==
    ASSUME AccountsOK, NEW r \in Requests, request[r].pc # "answered",
           NEW q \in RequestType, request' = [request EXCEPT ![r] = q],
           UNCHANGED <<rows, ended>>, sweeping' \subseteq Requests, RequestSound(r)'
    PROVE  AccountsOK' /\ AnsweredStay
<1>1. EmailsDiffer'
  BY DEF AccountsOK, EmailsDiffer, rows
<1>2. \A t \in ended : t \in Requests /\ t # r
  BY DEF AccountsOK, EndedAreGone, TablesTyped
<1>3. EndedAreGone'
  BY <1>2 DEF AccountsOK, EndedAreGone, TablesTyped, rows
<1>4. /\ users' \in [Requests -> UserRow \cup {None}]
      /\ sessions' \in [Requests -> SessionRow \cup {None}]
      /\ ended' \subseteq Requests /\ users' = users /\ sessions' = sessions
  BY DEF AccountsOK, TablesTyped, rows
<1> QED BY <1>1, <1>3, <1>4, StepOfRequest

\* What an answer makes of a request.
AnswerOf(q, given, sets) ==
    [q EXCEPT !.pc = "answered", !.status = given, !.sets = sets,
              !.address = IF sets = "set" THEN @ ELSE None,
              !.password = IF sets = "set" THEN @ ELSE None]

LEMMA AnswerIsTyped ==
    ASSUME NEW q \in RequestType, NEW given \in {"ok", "denied", "refused"},
           NEW sets \in {"keep", "set", "clear"}
    PROVE  /\ AnswerOf(q, given, sets) \in RequestType
           /\ AnswerOf(q, given, sets).pc = "answered"
           /\ AnswerOf(q, given, sets).status = given
           /\ AnswerOf(q, given, sets).kind = q.kind
           /\ AnswerOf(q, given, sets).late = q.late
           /\ AnswerOf(q, given, sets).cookie = q.cookie
           /\ sets = "set" => /\ AnswerOf(q, given, sets).address = q.address
                              /\ AnswerOf(q, given, sets).password = q.password
<1>1. "answered" \in Pcs
  BY DEF Pcs
<1>2. CASE sets = "set"
  BY <1>1, <1>2 DEF AnswerOf, RequestType
<1>3. CASE sets # "set"
  BY <1>1, <1>3 DEF AnswerOf, RequestType
<1> QED BY <1>2, <1>3

\* Any answer but an "ok" to a question whose token was dead may be given.
LEMMA AnswersQuietly ==
    ASSUME AccountsOK, NEW r \in Requests, request[r].pc \notin {"none", "answered"},
           NEW given \in {"ok", "denied", "refused"}, NEW sets \in {"keep", "set", "clear"},
           Answers(r, given, sets), UNCHANGED <<rows, ended>>, sweeping' \subseteq Requests,
           given = "ok" => ~(request[r].late /\ request[r].kind = "me")
    PROVE  AccountsOK' /\ AnsweredStay
<1> DEFINE q == AnswerOf(request[r], given, sets)
<1>1. request[r] \in RequestType /\ RequestSound(r) /\ request \in [Requests -> RequestType]
  BY DEF AccountsOK, TablesTyped
<1>2. q \in RequestType /\ q.pc = "answered" /\ q.status = given /\ q.kind = request[r].kind
      /\ q.late = request[r].late /\ q.cookie = request[r].cookie
  BY <1>1, AnswerIsTyped
<1>3. request' = [request EXCEPT ![r] = q]
  BY DEF Answers, Becomes, AnswerOf
<1> HIDE DEF q
<1>4. request'[r] = q /\ \A s \in Requests \ {r} : request'[s] = request[s]
  BY <1>1, <1>2, <1>3
<1>5. OnItsWay(r)'
  BY <1>1, <1>2, <1>4 DEF RequestSound, OnItsWay
<1>6. SessionEarned(r)'
  BY <1>1, <1>2, <1>4 DEF RequestSound, OnItsWay, SessionEarned, rows
<1>7. q.cookie # None => q.cookie \in Requests /\ request[q.cookie].pc = "answered"
  BY <1>1, <1>2 DEF RequestSound, TokenKnown, RequestType
<1>8. TokenKnown(r)'
  BY <1>2, <1>4, <1>7 DEF TokenKnown
<1> QED BY <1>2, <1>3, <1>5, <1>6, <1>8, QuietStep DEF RequestSound

\* A handler that goes on to another await with what it has.
LEMMA WaitsQuietly ==
    ASSUME AccountsOK, NEW r \in Requests, NEW pc \in {"lookup", "insertUser"},
           request[r].pc \in {"body", "lookup"}, Waits(r, pc), UNCHANGED <<rows, sweeping, ended>>
    PROVE  AccountsOK' /\ AnsweredStay
<1> DEFINE q == [request[r] EXCEPT !.pc = pc]
<1>1. request[r] \in RequestType /\ RequestSound(r) /\ request \in [Requests -> RequestType]
      /\ sweeping \subseteq Requests
  BY DEF AccountsOK, TablesTyped
<1>2. /\ q \in RequestType /\ q.pc = pc /\ q.kind = request[r].kind /\ q.late = request[r].late
      /\ q.cookie = request[r].cookie /\ q.address = request[r].address
      /\ q.password = request[r].password /\ q.status = request[r].status
  BY <1>1 DEF RequestType, Pcs
<1>3. request' = [request EXCEPT ![r] = q]
  BY DEF Waits, Becomes
<1> HIDE DEF q
<1>4. request'[r] = q /\ \A s \in Requests \ {r} : request'[s] = request[s]
  BY <1>1, <1>2, <1>3
<1>5. OnItsWay(r)'
  BY <1>1, <1>2, <1>4 DEF RequestSound, OnItsWay, rows
<1>6. SessionEarned(r)'
  BY <1>1, <1>2, <1>4 DEF RequestSound, OnItsWay, SessionEarned, rows
<1>7. q.cookie # None => q.cookie \in Requests /\ request[q.cookie].pc = "answered"
  BY <1>1, <1>2 DEF RequestSound, TokenKnown, RequestType
<1>8. TokenKnown(r)'
  BY <1>1, <1>2, <1>4, <1>7 DEF RequestSound, TokenKnown
<1> QED BY <1>1, <1>2, <1>3, <1>5, <1>6, <1>8, QuietStep DEF RequestSound

\* A log-in goes on to its session with the account it has found.
LEMMA LookingUp ==
    ASSUME AccountsOK, NEW r \in Requests, LooksUp(r)
    PROVE  AccountsOK' /\ AnsweredStay
<1> DEFINE found == {u \in Account(Stored(request[r].address)) : Verified(u, request[r].password)}
<1>1. request[r] \in RequestType /\ RequestSound(r) /\ request \in [Requests -> RequestType]
      /\ sweeping \subseteq Requests
  BY DEF AccountsOK, TablesTyped
<1>2. request[r].pc = "lookup" /\ UNCHANGED <<rows, sweeping, ended>>
  BY DEF LooksUp
<1>3. CASE Answers(r, "denied", "keep")
  BY <1>1, <1>2, <1>3, AnswersQuietly
<1>4. ASSUME NEW u \in found, Becomes(r, [request[r] EXCEPT !.pc = "insertSession", !.user = u])
      PROVE  AccountsOK' /\ AnsweredStay
  <2> DEFINE q == [request[r] EXCEPT !.pc = "insertSession", !.user = u]
  <2>1. /\ u \in Requests /\ users[u] # None
        /\ users[u].email = Lower(request[r].address)
        /\ users[u].password = request[r].password
    BY <1>4 DEF Account, Stored, Verified
  <2>2. /\ q \in RequestType /\ q.pc = "insertSession" /\ q.kind = request[r].kind
        /\ q.late = request[r].late /\ q.user = u
        /\ q.cookie = request[r].cookie /\ q.address = request[r].address
        /\ q.password = request[r].password /\ q.status = request[r].status
    BY <1>1, <2>1 DEF RequestType, Pcs
  <2>3. request' = [request EXCEPT ![r] = q]
    BY <1>4 DEF Becomes
  <2> HIDE DEF q, found
  <2>4. request'[r] = q /\ \A s \in Requests \ {r} : request'[s] = request[s]
    BY <1>1, <2>2, <2>3
  <2>5. OnItsWay(r)'
    BY <1>1, <1>2, <2>2, <2>4 DEF RequestSound, OnItsWay, rows
  <2>6. SessionEarned(r)'
    BY <1>1, <1>2, <2>1, <2>2, <2>4 DEF RequestSound, OnItsWay, SessionEarned, Earned, rows
  <2>7. q.cookie # None => q.cookie \in Requests /\ request[q.cookie].pc = "answered"
    BY <1>1, <2>2 DEF RequestSound, TokenKnown, RequestType
  <2>8. TokenKnown(r)'
    BY <1>1, <1>2, <2>2, <2>4, <2>7 DEF RequestSound, TokenKnown
  <2> QED BY <1>1, <1>2, <2>2, <2>3, <2>5, <2>6, <2>8, QuietStep DEF RequestSound
<1> QED BY <1>3, <1>4 DEF LooksUp

\* The unique index lets in an address that nobody has.
LEMMA InsertingUser ==
    ASSUME AccountsOK, NEW r \in Requests, InsertsUser(r)
    PROVE  AccountsOK' /\ AnsweredStay
<1> DEFINE email == Lower(request[r].address)
           row == [email |-> email, password |-> request[r].password]
           q == [request[r] EXCEPT !.pc = "insertSession", !.user = r]
<1> USE AuthAssumption
<1>1. /\ request[r] \in RequestType /\ RequestSound(r) /\ request \in [Requests -> RequestType]
      /\ sweeping \subseteq Requests /\ ended \subseteq Requests
      /\ users \in [Requests -> UserRow \cup {None}]
      /\ sessions \in [Requests -> SessionRow \cup {None}]
  BY DEF AccountsOK, TablesTyped
<1>2. /\ request[r].pc = "insertUser" /\ Account(email) = {}
      /\ users' = [users EXCEPT ![r] = row]
      /\ request' = [request EXCEPT ![r] = q]
      /\ UNCHANGED <<sessions, sweeping, ended>>
  BY DEF InsertsUser, Becomes, Stored
<1>3. /\ request[r].address \in Addresses /\ request[r].password \in Passwords
      /\ users[r] = None /\ sessions[r] = None /\ request[r].kind \in {"signup", "login"}
  BY <1>1, <1>2 DEF RequestSound, OnItsWay
<1>4. /\ email \in Addresses /\ Lower(email) = email
      /\ row \in UserRow /\ row # None /\ row.email = email /\ row.password = request[r].password
  BY <1>3 DEF UserRow
<1>5. /\ q \in RequestType /\ q.pc = "insertSession" /\ q.kind = request[r].kind
      /\ q.late = request[r].late /\ q.user = r
      /\ q.cookie = request[r].cookie /\ q.address = request[r].address
      /\ q.password = request[r].password /\ q.status = request[r].status
  BY <1>1 DEF RequestType, Pcs
<1>6. Lower(q.address) = email
  BY <1>5
<1> HIDE DEF q, row, email
<1>7. /\ request'[r] = q /\ \A s \in Requests \ {r} : request'[s] = request[s]
      /\ users'[r] = row /\ \A s \in Requests \ {r} : users'[s] = users[s]
      /\ users' \in [Requests -> UserRow \cup {None}]
  BY <1>1, <1>2, <1>4, <1>5
<1>8. \A u \in Requests : users[u] # None => users[u].email # email
  BY <1>2 DEF Account
<1>9. EmailsDiffer'
  BY <1>4, <1>7, <1>8 DEF AccountsOK, EmailsDiffer
<1>10. EndedAreGone'
  BY <1>1, <1>2, <1>7 DEF AccountsOK, EndedAreGone
<1>11. OnItsWay(r)'
  BY <1>1, <1>2, <1>3, <1>5, <1>7 DEF RequestSound, OnItsWay
<1>12. SessionEarned(r)'
  BY <1>2, <1>3, <1>4, <1>5, <1>6, <1>7 DEF SessionEarned, Earned
<1>13. q.cookie # None => q.cookie \in Requests /\ request[q.cookie].pc = "answered"
  BY <1>1, <1>5 DEF RequestSound, TokenKnown, RequestType
<1>14. TokenKnown(r)'
  BY <1>1, <1>2, <1>5, <1>7, <1>13 DEF RequestSound, TokenKnown
<1>15. RequestSound(r)'
  BY <1>11, <1>12, <1>14 DEF RequestSound
<1> QED BY <1>1, <1>2, <1>3, <1>5, <1>7, <1>9, <1>10, <1>15, StepOfRequest

\* The session is of the account the request has earned.
LEMMA InsertingSession ==
    ASSUME AccountsOK, NEW r \in Requests, InsertsSession(r)
    PROVE  AccountsOK' /\ AnsweredStay
<1> DEFINE row == [user |-> request[r].user, expired |-> FALSE]
           q == AnswerOf(request[r], "ok", "set")
<1> USE AuthAssumption
<1>1. /\ request[r] \in RequestType /\ RequestSound(r) /\ request \in [Requests -> RequestType]
      /\ sweeping \subseteq Requests /\ ended \subseteq Requests
      /\ users \in [Requests -> UserRow \cup {None}]
      /\ sessions \in [Requests -> SessionRow \cup {None}]
  BY DEF AccountsOK, TablesTyped
<1>2. /\ request[r].pc = "insertSession"
      /\ sessions' = [sessions EXCEPT ![r] = row]
      /\ request' = [request EXCEPT ![r] = q]
      /\ UNCHANGED <<users, sweeping, ended>>
  BY DEF InsertsSession, Answers, Becomes, AnswerOf
<1>3. Earned(r, request[r].user) /\ request[r].kind \in {"signup", "login"}
  BY <1>1, <1>2 DEF RequestSound, SessionEarned, OnItsWay
<1>4. row \in SessionRow /\ row.user = request[r].user
  BY <1>3 DEF SessionRow, Earned
<1>5. /\ q \in RequestType /\ q.pc = "answered" /\ q.kind = request[r].kind
      /\ q.late = request[r].late /\ q.cookie = request[r].cookie
      /\ q.address = request[r].address /\ q.password = request[r].password
  BY <1>1, AnswerIsTyped
<1> HIDE DEF q, row
<1>6. /\ request'[r] = q /\ \A s \in Requests \ {r} : request'[s] = request[s]
      /\ sessions'[r] = row /\ \A s \in Requests \ {r} : sessions'[s] = sessions[s]
      /\ sessions' \in [Requests -> SessionRow \cup {None}]
  BY <1>1, <1>2, <1>4, <1>5
<1>7. EmailsDiffer'
  BY <1>2 DEF AccountsOK, EmailsDiffer
<1>8. EndedAreGone'
  BY <1>1, <1>2, <1>6 DEF AccountsOK, EndedAreGone
<1>9. OnItsWay(r)'
  BY <1>3, <1>5, <1>6 DEF OnItsWay
<1>10. SessionEarned(r)'
  BY <1>2, <1>3, <1>4, <1>5, <1>6 DEF SessionEarned, Earned
<1>11. q.cookie # None => q.cookie \in Requests /\ request[q.cookie].pc = "answered"
  BY <1>1, <1>5 DEF RequestSound, TokenKnown, RequestType
<1>12. TokenKnown(r)'
  BY <1>2, <1>3, <1>5, <1>6, <1>11 DEF TokenKnown
<1>13. RequestSound(r)'
  BY <1>9, <1>10, <1>12 DEF RequestSound
<1> QED BY <1>1, <1>2, <1>5, <1>6, <1>7, <1>8, <1>13, StepOfRequest

\* A log-out ends the session of its token.
LEMMA DeletingSession ==
    ASSUME AccountsOK, NEW r \in Requests, DeletesSession(r)
    PROVE  AccountsOK' /\ AnsweredStay
<1> DEFINE t == request[r].cookie
           q == AnswerOf(request[r], "ok", "clear")
<1>1. /\ request[r] \in RequestType /\ RequestSound(r) /\ request \in [Requests -> RequestType]
      /\ sweeping \subseteq Requests /\ ended \subseteq Requests
      /\ users \in [Requests -> UserRow \cup {None}]
      /\ sessions \in [Requests -> SessionRow \cup {None}]
  BY DEF AccountsOK, TablesTyped
<1>2. /\ request[r].pc = "delete"
      /\ sessions' = [sessions EXCEPT ![t] = None]
      /\ request' = [request EXCEPT ![r] = q]
      /\ ended' = ended \cup {t} /\ UNCHANGED <<users, sweeping>>
  BY DEF DeletesSession, Answers, Becomes, AnswerOf
<1>3. /\ t # None /\ request[r].kind = "logout" /\ sessions[r] = None
      /\ t \in Requests /\ request[t].pc = "answered"
  BY <1>1, <1>2 DEF RequestSound, OnItsWay, TokenKnown, RequestType
<1>4. /\ q \in RequestType /\ q.pc = "answered" /\ q.kind = request[r].kind
      /\ q.late = request[r].late /\ q.cookie = t
  BY <1>1, AnswerIsTyped
<1> HIDE DEF q, t
<1>5. /\ request'[r] = q /\ \A s \in Requests \ {r} : request'[s] = request[s]
      /\ sessions'[t] = None /\ \A s \in Requests \ {t} : sessions'[s] = sessions[s]
      /\ sessions' \in [Requests -> SessionRow \cup {None}]
  BY <1>1, <1>2, <1>3, <1>4
<1>6. EmailsDiffer'
  BY <1>2 DEF AccountsOK, EmailsDiffer
<1>7. EndedAreGone'
  BY <1>1, <1>2, <1>3, <1>5 DEF AccountsOK, EndedAreGone
<1>8. OnItsWay(r)'
  BY <1>3, <1>4, <1>5 DEF OnItsWay
<1>9. sessions'[r] = None
  BY <1>3, <1>5
<1>10. SessionEarned(r)'
  BY <1>4, <1>5, <1>9 DEF SessionEarned
<1>11. TokenKnown(r)'
  BY <1>2, <1>3, <1>4, <1>5 DEF TokenKnown
<1>12. RequestSound(r)'
  BY <1>8, <1>10, <1>11 DEF RequestSound
<1>13. ended' \subseteq Requests
  BY <1>1, <1>2, <1>3
<1>14. request[r].pc # "answered"
  BY <1>2
<1> QED BY <1>1, <1>2, <1>4, <1>5, <1>6, <1>7, <1>12, <1>13, <1>14, StepOfRequest

\* A question has found a session that is good.
LEMMA FindingSession ==
    ASSUME AccountsOK, NEW r \in Requests, FindsSession(r)
    PROVE  AccountsOK' /\ AnsweredStay
<1> DEFINE t == request[r].cookie
           q == [request[r] EXCEPT !.pc = "user", !.user = sessions[t].user]
<1>1. /\ request[r] \in RequestType /\ RequestSound(r) /\ request \in [Requests -> RequestType]
      /\ sweeping \subseteq Requests
      /\ sessions \in [Requests -> SessionRow \cup {None}]
  BY DEF AccountsOK, TablesTyped
<1>2. request[r].pc = "session" /\ UNCHANGED <<rows, ended>>
  BY DEF FindsSession
<1>3. t \in Requests /\ request[t].pc = "answered" /\ request[r].kind = "me" /\ t # None
  BY <1>1, <1>2 DEF RequestSound, OnItsWay, TokenKnown, RequestType
<1>4. sweeping' \subseteq Requests
  BY <1>1, <1>3 DEF FindsSession
<1>5. CASE sessions[t] = None \/ sessions[t].expired
  <2>1. Answers(r, "denied", "keep")
    BY <1>5 DEF FindsSession
  <2> QED BY <1>2, <1>4, <2>1, AnswersQuietly
<1>6. CASE ~(sessions[t] = None \/ sessions[t].expired)
  <2>1. sessions[t].user \in Requests
    BY <1>1, <1>3, <1>6 DEF SessionRow
  <2>2. /\ q \in RequestType /\ q.pc = "user" /\ q.kind = request[r].kind
        /\ q.late = request[r].late /\ q.cookie = t /\ q.status = request[r].status
    BY <1>1, <2>1 DEF RequestType, Pcs
  <2>3. request' = [request EXCEPT ![r] = q]
    BY <1>6 DEF FindsSession, Becomes
  <2> HIDE DEF q, t
  <2>4. request'[r] = q /\ \A s \in Requests \ {r} : request'[s] = request[s]
    BY <1>1, <2>2, <2>3
  <2>5. ~request[r].late
    BY <1>1, <1>2, <1>6 DEF RequestSound, TokenKnown, t
  <2>6. OnItsWay(r)'
    BY <1>1, <1>2, <1>3, <2>2, <2>4 DEF RequestSound, OnItsWay, rows
  <2>7. SessionEarned(r)'
    BY <1>1, <1>2, <2>2, <2>4 DEF RequestSound, OnItsWay, SessionEarned, rows
  <2>8. TokenKnown(r)'
    BY <1>2, <1>3, <2>2, <2>4, <2>5 DEF TokenKnown
  <2> QED BY <1>1, <1>2, <1>4, <2>2, <2>3, <2>6, <2>7, <2>8, QuietStep DEF RequestSound
<1> QED BY <1>5, <1>6

\* The steps of a handler, one by one.
LEMMA HandlerIsSound ==
    ASSUME AccountsOK, NEW r \in Requests, HandlerStep(r)
    PROVE  AccountsOK' /\ AnsweredStay
<1>1. sweeping \subseteq Requests /\ RequestSound(r)
  BY DEF AccountsOK, TablesTyped
<1>2. CASE ReadsBody(r)
  BY <1>1, <1>2, AnswersQuietly, WaitsQuietly DEF ReadsBody
<1>3. CASE LooksForConflict(r)
  BY <1>1, <1>3, AnswersQuietly, WaitsQuietly DEF LooksForConflict
<1>4. CASE FindsUser(r)
  <2>1. ~request[r].late
    BY <1>1, <1>4 DEF FindsUser, RequestSound, OnItsWay, TokenKnown
  <2> QED BY <1>1, <1>4, <2>1, AnswersQuietly DEF FindsUser
<1>5. CASE Fails(r)
  BY <1>1, <1>5, AnswersQuietly DEF Fails
<1> QED BY <1>2, <1>3, <1>4, <1>5, LookingUp, InsertingUser, InsertingSession, DeletingSession,
           FindingSession DEF HandlerStep

\* Sessions end or expire, by themselves or by a deletion nobody waits for.
LEMMA SessionsAge ==
    ASSUME AccountsOK, UNCHANGED <<users, request, ended>>, sweeping' \subseteq Requests,
           sessions' \in [Requests -> SessionRow \cup {None}],
           \A t \in Requests :
              sessions'[t] # None =>
                /\ sessions[t] # None /\ sessions'[t].user = sessions[t].user
                /\ sessions[t].expired => sessions'[t].expired
    PROVE  AccountsOK' /\ AnsweredStay
<1>1. TablesTyped' /\ EmailsDiffer' /\ AnsweredStay
  BY DEF AccountsOK, TablesTyped, EmailsDiffer, AnsweredStay
<1>2. EndedAreGone'
  BY DEF AccountsOK, EndedAreGone, TablesTyped
<1>3. ASSUME NEW r \in Requests PROVE RequestSound(r)'
  <2>1. RequestSound(r) /\ request[r] \in RequestType
    BY DEF AccountsOK, TablesTyped
  <2>2. OnItsWay(r)'
    BY <2>1 DEF RequestSound, OnItsWay
  <2>3. SessionEarned(r)'
    BY <2>1 DEF RequestSound, SessionEarned, Earned
  <2>4. request[r].pc = "session" => request[r].cookie \in Requests
    BY <2>1 DEF RequestSound, OnItsWay, RequestType
  <2>5. TokenKnown(r)'
    BY <2>1, <2>4 DEF RequestSound, TokenKnown
  <2> QED BY <2>2, <2>3, <2>5 DEF RequestSound
<1> QED BY <1>1, <1>2, <1>3 DEF AccountsOK

LEMMA Sweeping ==
    ASSUME AccountsOK, NEW t \in Requests, Sweeps(t)
    PROVE  AccountsOK' /\ AnsweredStay
<1>1. sweeping \subseteq Requests /\ sessions \in [Requests -> SessionRow \cup {None}]
  BY DEF AccountsOK, TablesTyped
<1>2. UNCHANGED <<users, request, ended>> /\ sweeping' \subseteq Requests
  BY <1>1 DEF Sweeps
<1>3. sessions' = [sessions EXCEPT ![t] = None] \/ sessions' = sessions
  BY DEF Sweeps
<1>4. /\ sessions' \in [Requests -> SessionRow \cup {None}]
      /\ \A s \in Requests : sessions'[s] # None => sessions'[s] = sessions[s]
  BY <1>1, <1>3
<1> QED BY <1>2, <1>4, SessionsAge

LEMMA Expiring ==
    ASSUME AccountsOK, NEW t \in Requests, Expires(t)
    PROVE  AccountsOK' /\ AnsweredStay
<1> DEFINE row == [sessions[t] EXCEPT !.expired = TRUE]
<1>1. sweeping \subseteq Requests /\ sessions \in [Requests -> SessionRow \cup {None}]
  BY DEF AccountsOK, TablesTyped
<1>2. /\ sessions[t] # None /\ sessions' = [sessions EXCEPT ![t] = row]
      /\ UNCHANGED <<users, request, ended, sweeping>>
  BY DEF Expires
<1>3. row \in SessionRow /\ row.user = sessions[t].user /\ row.expired
  BY <1>1, <1>2 DEF SessionRow
<1> HIDE DEF row
<1>4. /\ sessions' \in [Requests -> SessionRow \cup {None}]
      /\ sessions'[t] = row /\ \A s \in Requests \ {t} : sessions'[s] = sessions[s]
  BY <1>1, <1>2, <1>3
<1> QED BY <1>1, <1>2, <1>3, <1>4, SessionsAge

-----------------------------------------------------------------------------
(* Requests arrive, with a token the browser holds.                        *)

\* A request that has just arrived.
LEMMA NewIsTyped ==
    ASSUME NEW kind \in {"signup", "login", "logout", "me"}
    PROVE  /\ NewRequest \in RequestType
           /\ [NewRequest EXCEPT !.kind = kind] \in RequestType
BY DEF NewRequest, RequestType, Pcs

\* It is sound if it waits for its body with what it needs, waits for the session
\* of its token, or is answered at once.
LEMMA Arriving ==
    ASSUME AccountsOK, NEW r \in Requests, request[r].kind = "none",
           NEW q \in RequestType, request' = [request EXCEPT ![r] = q],
           UNCHANGED <<rows, sweeping, ended>>,
           q.kind # "none" /\ q.pc \in {"body", "delete", "session", "answered"},
           q.pc = "body" => q.kind \in {"signup", "login"} /\ q.address \in Addresses
                            /\ q.password \in Passwords,
           q.pc = "delete" => q.kind = "logout" /\ q.cookie # None,
           q.pc = "session" => q.kind = "me" /\ q.cookie # None,
           q.pc = "answered" => q.kind # "me" \/ q.status # "ok",
           q.status # "ok" \/ q.pc = "answered",
           q.cookie # None => request[q.cookie].pc = "answered",
           q.late => q.cookie # None /\ Dead(q.cookie)
    PROVE  AccountsOK' /\ AnsweredStay
<1>1. /\ request[r] \in RequestType /\ RequestSound(r) /\ request \in [Requests -> RequestType]
      /\ sweeping \subseteq Requests
  BY DEF AccountsOK, TablesTyped
<1>2. request[r].pc = "none" /\ sessions[r] = None /\ users[r] = None
  BY <1>1 DEF RequestSound, OnItsWay
<1>3. request'[r] = q /\ \A s \in Requests \ {r} : request'[s] = request[s]
  BY <1>1
<1>4. OnItsWay(r)'
  BY <1>2, <1>3 DEF OnItsWay, rows
<1>5. SessionEarned(r)'
  BY <1>2, <1>3 DEF SessionEarned, rows
<1>6. q.cookie \in Requests \cup {None}
  BY DEF RequestType
<1>7. q.late => sessions[q.cookie] = None \/ sessions[q.cookie].expired
  BY DEF Dead, AccountsOK, EndedAreGone
<1>8. q.cookie # None => q.cookie # r
  BY <1>2
<1>9. TokenKnown(r)'
  BY <1>3, <1>6, <1>7, <1>8 DEF TokenKnown, rows
<1> QED BY <1>1, <1>2, <1>4, <1>5, <1>9, QuietStep DEF RequestSound

LEMMA ArrivesSoundly ==
    ASSUME AccountsOK, NEW r \in Requests, NEW kind, NEW address, NEW password,
           NEW token \in Requests \cup {None},
           token # None => request[token].pc = "answered",
           kind \in {"signup", "login"} => address \in Addresses /\ password \in Passwords,
           Arrives(r, kind, address, password, token)
    PROVE  AccountsOK' /\ AnsweredStay
<1> USE AuthAssumption
<1>1. request[r].kind = "none" /\ UNCHANGED <<rows, sweeping, ended>>
  BY DEF Arrives, Arrival
<1>2. CASE kind \in {"signup", "login"} /\ ArrivesCounted(r, kind, address, password)
  <2> DEFINE new == [NewRequest EXCEPT !.kind = kind]
             refused == Answered(new, "refused", "keep")
             waiting == [new EXCEPT !.pc = "body", !.address = address, !.password = password]
  <2>1. address \in Addresses /\ password \in Passwords
    BY <1>2
  <2>2. /\ refused \in RequestType /\ refused.kind = kind /\ refused.pc = "answered"
        /\ refused.status = "refused" /\ refused.cookie = None /\ ~refused.late
    BY <1>2 DEF Answered, NewRequest, RequestType, Pcs
  <2>3. /\ waiting \in RequestType /\ waiting.kind = kind /\ waiting.pc = "body"
        /\ waiting.address = address /\ waiting.password = password
        /\ waiting.status = "none" /\ waiting.cookie = None /\ ~waiting.late
    BY <1>2, <2>1 DEF NewRequest, RequestType, Pcs
  <2>4. \/ request' = [request EXCEPT ![r] = refused]
        \/ request' = [request EXCEPT ![r] = waiting]
    BY <1>2 DEF ArrivesCounted, Becomes
  <2> HIDE DEF refused, waiting
  <2>5. CASE request' = [request EXCEPT ![r] = refused]
    BY <1>1, <1>2, <2>2, <2>5, Arriving
  <2>6. CASE request' = [request EXCEPT ![r] = waiting]
    BY <1>1, <1>2, <2>1, <2>3, <2>6, Arriving
  <2> QED BY <2>4, <2>5, <2>6
<1>3. CASE kind = "logout" /\ ArrivesLogout(r, token)
  <2> DEFINE new == [NewRequest EXCEPT !.kind = "logout", !.cookie = token, !.late = Dead(token)]
             nobody == Answered(new, "ok", "clear")
             waiting == [new EXCEPT !.pc = "delete"]
  <2>1. new \in RequestType /\ new.cookie = token /\ new.late = Dead(token) /\ new.kind = "logout"
        /\ new.status = "none"
    <3>1. Dead(token) \in BOOLEAN
      <4>1. token # None /\ sessions[token] # None => sessions[token] \in SessionRow
        BY DEF AccountsOK, TablesTyped
      <4> QED BY <4>1 DEF Dead, SessionRow
    <3> QED BY <3>1 DEF NewRequest, RequestType, Pcs
  <2> HIDE DEF new
  <2>2. /\ nobody \in RequestType /\ nobody.kind = "logout" /\ nobody.pc = "answered"
        /\ nobody.cookie = token /\ nobody.late = Dead(token)
    BY <2>1 DEF Answered, RequestType, Pcs
  <2>3. /\ waiting \in RequestType /\ waiting.kind = "logout" /\ waiting.pc = "delete"
        /\ waiting.cookie = token /\ waiting.late = Dead(token) /\ waiting.status = "none"
    BY <2>1 DEF RequestType, Pcs
  <2>4. request' = [request EXCEPT ![r] = IF token = None THEN nobody ELSE waiting]
    BY <1>3 DEF ArrivesLogout, Becomes, new
  <2>5. ~Dead(None)
    BY DEF Dead, AccountsOK, TablesTyped
  <2> HIDE DEF nobody, waiting
  <2>6. CASE token = None
    BY <1>1, <2>2, <2>4, <2>5, <2>6, Arriving
  <2>7. CASE token # None
    BY <1>1, <2>3, <2>4, <2>7, Arriving
  <2> QED BY <2>6, <2>7
<1>4. CASE kind = "me" /\ ArrivesMe(r, token)
  <2> DEFINE new == [NewRequest EXCEPT !.kind = "me", !.cookie = token, !.late = Dead(token)]
             nobody == Answered(new, "denied", "keep")
             waiting == [new EXCEPT !.pc = "session"]
  <2>1. new \in RequestType /\ new.cookie = token /\ new.late = Dead(token) /\ new.kind = "me"
        /\ new.status = "none"
    <3>1. Dead(token) \in BOOLEAN
      <4>1. token # None /\ sessions[token] # None => sessions[token] \in SessionRow
        BY DEF AccountsOK, TablesTyped
      <4> QED BY <4>1 DEF Dead, SessionRow
    <3> QED BY <3>1 DEF NewRequest, RequestType, Pcs
  <2> HIDE DEF new
  <2>2. /\ nobody \in RequestType /\ nobody.kind = "me" /\ nobody.pc = "answered"
        /\ nobody.cookie = token /\ nobody.late = Dead(token) /\ nobody.status = "denied"
    BY <2>1 DEF Answered, RequestType, Pcs
  <2>3. /\ waiting \in RequestType /\ waiting.kind = "me" /\ waiting.pc = "session"
        /\ waiting.cookie = token /\ waiting.late = Dead(token) /\ waiting.status = "none"
    BY <2>1 DEF RequestType, Pcs
  <2>4. request' = [request EXCEPT ![r] = IF token = None THEN nobody ELSE waiting]
    BY <1>4 DEF ArrivesMe, Becomes, new
  <2>5. ~Dead(None)
    BY DEF Dead, AccountsOK, TablesTyped
  <2> HIDE DEF nobody, waiting
  <2>6. CASE token = None
    BY <1>1, <2>2, <2>4, <2>5, <2>6, Arriving
  <2>7. CASE token # None
    BY <1>1, <2>3, <2>4, <2>7, Arriving
  <2> QED BY <2>6, <2>7
<1> QED BY <1>2, <1>3, <1>4 DEF Arrives

-----------------------------------------------------------------------------
(* The tab.                                                                *)

\* A request is sent by the browser with its cookie; or the tab goes on alone, perhaps
\* with the cookie of an answer.
LEMMA TabIsSound ==
    ASSUME SessionInv, NEW r \in Requests,
           cookie' = cookie \/ cookie' = None \/ (cookie' = r /\ request[r].pc = "answered"),
           \/ UNCHANGED authVars
           \/ \E q \in Requests, kind \in {"signup", "login", "logout", "me"} :
                 \/ kind \in {"logout", "me"} /\ Arrives(q, kind, None, None, cookie)
                 \/ \E a \in Addresses, p \in Passwords : Arrives(q, kind, a, p, cookie)
    PROVE  SessionInv'
<1>1. /\ cookie \in Requests \cup {None} /\ cookie' \in Requests \cup {None}
      /\ cookie # None => request[cookie].pc = "answered"
      /\ cookie' # None => request[cookie'].pc = "answered"
  BY DEF SessionInv, CookieOK
<1>2. AccountsOK' /\ AnsweredStay
  <2>1. CASE UNCHANGED authVars
    BY <2>1 DEF authVars, rows, SessionInv, AccountsOK, TablesTyped, EmailsDiffer, EndedAreGone,
                RequestSound, OnItsWay, SessionEarned, Earned, TokenKnown, AnsweredStay
  <2>2. CASE \E q \in Requests, kind \in {"signup", "login", "logout", "me"} :
                 \/ kind \in {"logout", "me"} /\ Arrives(q, kind, None, None, cookie)
                 \/ \E a \in Addresses, p \in Passwords : Arrives(q, kind, a, p, cookie)
    BY <1>1, <2>2, ArrivesSoundly DEF SessionInv
  <2> QED BY <2>1, <2>2
<1>3. CookieOK'
  BY <1>1, <1>2 DEF AnsweredStay, CookieOK
<1> QED BY <1>2, <1>3 DEF SessionInv

\* Each step of the tab or the API.
LEMMA NextIsSound ==
    ASSUME SessionInv, [SessionNext]_sessionVars
    PROVE  SessionInv'
<1> USE AuthAssumption
<1>1. ASSUME NEW r \in Requests, Submits(r) PROVE SessionInv'
  BY <1>1, TabIsSound DEF Submits, Asks
<1>2. ASSUME NEW r \in Requests, LogsOut(r) PROVE SessionInv'
  BY <1>2, TabIsSound DEF LogsOut, Asks
<1>3. ASSUME NEW r \in Requests, Retries(r) PROVE SessionInv'
  BY <1>3, TabIsSound DEF Retries, Asks
<1>4. ASSUME NEW r \in Requests, NEW p \in Pages, Opens(p, r) PROVE SessionInv'
  BY <1>4, TabIsSound DEF Opens, Asks
<1>5. ASSUME NEW r \in Requests, Settles(r) PROVE SessionInv'
  <2>1. CASE \/ FormFails(r) \/ LogOutFails(r) \/ LogOutSucceeds(r)
             \/ \E answer : Loads(r, answer)
    BY <2>1, TabIsSound DEF FormFails, LogOutFails, CallFails, LogOutSucceeds, Loads
  <2>2. ASSUME NEW q \in Requests, FormSucceeds(r, q) PROVE SessionInv'
    BY <2>2, TabIsSound DEF FormSucceeds, Asks
  <2> QED BY <1>5, <2>1, <2>2 DEF Settles
<1>6. CASE HandlersStep
  <2>1. cookie' = cookie
    BY <1>6 DEF HandlersStep, tabVars
  <2>2. PICK r \in Requests : HandlerStep(r) \/ Sweeps(r) \/ Expires(r)
    BY <1>6 DEF HandlersStep
  <2>3. AccountsOK' /\ AnsweredStay
    BY <2>2, HandlerIsSound, Sweeping, Expiring DEF SessionInv
  <2> QED BY <2>1, <2>3 DEF SessionInv, CookieOK, AnsweredStay
<1>7. CASE Navigates \/ (\E p \in Pages : Goes(p)) \/ UNCHANGED sessionVars
  <2>1. UNCHANGED <<authVars, cookie>>
    BY <1>7 DEF Navigates, Goes, sessionVars, tabVars
  <2> QED BY <2>1, TabIsSound
<1>8. ASSUME NEW r \in Requests, HeadersArrive(r) PROVE SessionInv'
  <2>1. Cookied(r) = cookie \/ Cookied(r) = None
        \/ (Cookied(r) = r /\ request[r].pc = "answered")
    BY <1>8 DEF HeadersArrive, Succeeded, Cookied
  <2> QED BY <1>8, <2>1, TabIsSound DEF HeadersArrive
<1> QED BY <1>1, <1>2, <1>3, <1>4, <1>5, <1>6, <1>7, <1>8 DEF SessionNext

\* A refused log-in, or an account with a session.
LEMMA InitIsSound == SessionInit => SessionInv
<1> SUFFICES ASSUME SessionInit PROVE SessionInv
  OBVIOUS
<1> USE AuthAssumption
<1> DEFINE denied == [NewRequest EXCEPT !.kind = "login", !.pc = "answered", !.status = "denied"]
<1>1. /\ NewRequest \in RequestType /\ NewRequest.kind = "none" /\ NewRequest.pc = "none"
      /\ NewRequest.cookie = None /\ ~NewRequest.late
      /\ denied \in RequestType /\ denied.kind = "login" /\ denied.pc = "answered"
      /\ denied.cookie = None /\ ~denied.late
  BY DEF NewRequest, RequestType, Pcs
<1>2. /\ sweeping = {} /\ ended = {}
      /\ cookie = IF sessions[0] = None THEN None ELSE 0
  BY DEF SessionInit, AuthInit
<1>3. CASE /\ users = [r \in Requests |-> None] /\ sessions = [r \in Requests |-> None]
           /\ request = [r \in Requests |-> IF r # 0 THEN NewRequest ELSE denied]
  <2> HIDE DEF denied
  <2>1. /\ \A r \in Requests : users[r] = None /\ sessions[r] = None
        /\ \A r \in Requests \ {0} : request[r] = NewRequest
        /\ request[0] = denied
    BY <1>3
  <2>2. TablesTyped /\ EmailsDiffer /\ EndedAreGone
    BY <1>1, <1>2, <1>3, <2>1 DEF TablesTyped, EmailsDiffer, EndedAreGone
  <2>3. ASSUME NEW r \in Requests PROVE RequestSound(r)
    BY <1>1, <2>1 DEF RequestSound, OnItsWay, SessionEarned, TokenKnown
  <2> QED BY <1>2, <2>1, <2>2, <2>3 DEF SessionInv, AccountsOK, CookieOK
<1> DEFINE a == CHOOSE b \in Addresses : TRUE
           p == CHOOSE q \in Passwords : TRUE
<1>4. CASE /\ users = [r \in Requests |-> IF r # 0 THEN None ELSE [email |-> Lower(a), password |-> p]]
           /\ sessions = [r \in Requests |-> IF r # 0 THEN None ELSE [user |-> 0, expired |-> FALSE]]
           /\ request = [r \in Requests |-> IF r # 0 THEN NewRequest ELSE
                [NewRequest EXCEPT !.kind = "signup", !.pc = "answered", !.address = a,
                                   !.password = p, !.user = 0, !.status = "ok", !.sets = "set"]]
  <2> DEFINE u0 == [email |-> Lower(a), password |-> p]
             s0 == [user |-> 0, expired |-> FALSE]
             r0 == [NewRequest EXCEPT !.kind = "signup", !.pc = "answered", !.address = a,
                                      !.password = p, !.user = 0, !.status = "ok", !.sets = "set"]
  <2>1. a \in Addresses /\ p \in Passwords
    <3>1. Addresses # {} /\ Passwords # {}
      BY DEF AuthAssumption
    <3> QED BY <3>1
  <2> HIDE DEF a, p
  <2>2. /\ u0 \in UserRow /\ u0.email = Lower(a) /\ u0.password = p /\ u0 # None
        /\ Lower(u0.email) = u0.email
        /\ s0 \in SessionRow /\ s0.user = 0 /\ s0 # None
    <3>1. /\ Lower(a) \in Addresses /\ Lower(Lower(a)) = Lower(a) /\ 0 \in Requests
          /\ None \notin UserRow /\ None \notin SessionRow
      BY <2>1 DEF AuthAssumption, UserRow, SessionRow
    <3>2. u0 \in UserRow /\ s0 \in SessionRow
      BY <2>1, <3>1 DEF UserRow, SessionRow
    <3>3. u0.email = Lower(a) /\ u0.password = p /\ s0.user = 0
      OBVIOUS
    <3>4. u0 # None /\ s0 # None
      BY <3>1, <3>2, Zenon
    <3>5. Lower(u0.email) = u0.email
      BY <3>1, <3>3
    <3> QED BY <3>2, <3>3, <3>4, <3>5
  <2>3. /\ r0 \in RequestType /\ r0.kind = "signup" /\ r0.pc = "answered"
        /\ r0.address = a /\ r0.password = p /\ r0.cookie = None /\ ~r0.late
    BY <2>1 DEF NewRequest, RequestType, Pcs
  <2>4. /\ users = [r \in Requests |-> IF r # 0 THEN None ELSE u0]
        /\ sessions = [r \in Requests |-> IF r # 0 THEN None ELSE s0]
        /\ request = [r \in Requests |-> IF r # 0 THEN NewRequest ELSE r0]
    BY <1>4
  <2> HIDE DEF u0, s0, r0
  <2>5. /\ \A r \in Requests \ {0} : users[r] = None /\ sessions[r] = None /\ request[r] = NewRequest
        /\ users[0] = u0 /\ sessions[0] = s0 /\ request[0] = r0
    BY <2>4
  <2>6. TablesTyped
    BY <1>1, <1>2, <2>2, <2>3, <2>4 DEF TablesTyped
  <2>7. EmailsDiffer /\ EndedAreGone
    BY <1>2, <2>2, <2>5 DEF EmailsDiffer, EndedAreGone
  <2>8. ASSUME NEW r \in Requests PROVE RequestSound(r)
    BY <1>1, <2>2, <2>3, <2>5 DEF RequestSound, OnItsWay, SessionEarned, Earned, TokenKnown
  <2> QED BY <1>2, <2>3, <2>5, <2>6, <2>7, <2>8 DEF SessionInv, AccountsOK, CookieOK
<1>5. \/ /\ users = [r \in Requests |-> None]
         /\ sessions = [r \in Requests |-> None]
         /\ request = [r \in Requests |-> IF r # 0 THEN NewRequest ELSE denied]
      \/ /\ users = [r \in Requests |-> IF r # 0 THEN None ELSE [email |-> Lower(a), password |-> p]]
         /\ sessions = [r \in Requests |-> IF r # 0 THEN None ELSE [user |-> 0, expired |-> FALSE]]
         /\ request = [r \in Requests |-> IF r # 0 THEN NewRequest ELSE
                [NewRequest EXCEPT !.kind = "signup", !.pc = "answered", !.address = a,
                                   !.password = p, !.user = 0, !.status = "ok", !.sets = "set"]]
  BY Zenon DEF SessionInit, AuthInit
<1> QED BY <1>3, <1>4, <1>5

-----------------------------------------------------------------------------
(* Theorems.                                                               *)

\* At every await of the handlers accounts differ in their address, sessions are
\* earned, tokens are known to nobody before they are handed out, and the browser
\* holds one it was answered with.
THEOREM SessionInvariant == SessionSpec => []SessionInv
<1>1. SessionInit => SessionInv
  BY InitIsSound
<1>2. SessionInv /\ [SessionNext]_sessionVars => SessionInv'
  BY NextIsSound
<1> QED BY <1>1, <1>2, PTL DEF SessionSpec

\* What the invariant says of accounts and sessions.
LEMMA InvImpliesAccounts == SessionInv => AccountsInv
<1> SUFFICES ASSUME SessionInv PROVE AccountsInv
  OBVIOUS
<1>1. AccountsOK
  BY DEF SessionInv
<1>2. AuthTypeOK
  <2>1. TablesTyped
    BY <1>1 DEF AccountsOK
  <2>2. ASSUME NEW r \in Requests
        PROVE  /\ users[r] \in UserRow \cup {None}
               /\ sessions[r] \in SessionRow \cup {None}
               /\ request[r] \in RequestType
    BY <2>1 DEF TablesTyped
  <2>3. ASSUME NEW r \in Requests PROVE request[r].user \in Requests \cup {None}
    BY <2>2 DEF RequestType
  <2>4. ASSUME NEW r \in Requests
        PROVE  /\ users[r] = None \/ users[r] \in [email : Addresses, password : Passwords]
               /\ sessions[r] = None \/ sessions[r] \in [user : Requests, expired : BOOLEAN]
    BY <2>2, Zenon DEF UserRow, SessionRow
  <2>5. sweeping \subseteq Tokens /\ ended \subseteq Tokens
    BY <2>1 DEF TablesTyped, Tokens
  <2> QED BY <2>3, <2>4, <2>5 DEF AuthTypeOK
<1>3. OneAccountPerAddress
  BY <1>1 DEF OneAccountPerAddress, AccountsOK, EmailsDiffer
<1>4. SessionsAreEarned
  BY <1>1 DEF SessionsAreEarned, AccountsOK, RequestSound, SessionEarned, Earned, Tokens
<1>5. EndedSessionsStayEnded
  BY <1>1 DEF EndedSessionsStayEnded, AccountsOK, RequestSound, TokenKnown
<1> QED BY <1>2, <1>3, <1>4, <1>5 DEF AccountsInv

\* However sign-ups, log-ins, log-outs and expiries interleave, query by query, and
\* whatever fails half way: one account per address, sessions only to who presented
\* its address and password, and nobody behind the token of an ended session.
THEOREM AccountsAreSafe == SessionSpec => []AccountsInv
BY SessionInvariant, InvImpliesAccounts, PTL

-----------------------------------------------------------------------------
(* What the tab knows of its session.                                      *)

CallType == [by : {"none", "load", "form", "logout"}, form : {"none", "here", "gone"},
             heard : BOOLEAN]

\* What an answer tells of the session behind the token of its question, and what
\* it does to the cookie; a session is of the user its request remembers.
Told(r) ==
    LET q == request[r] IN
    /\ q.pc = "user" => /\ q.user \in Requests /\ users[q.user] # None
                       /\ q.user = request[q.cookie].user
    /\ q.pc = "answered" /\ q.kind = "me" /\ q.status = "ok" =>
          q.cookie # None /\ q.user = request[q.cookie].user
    /\ q.pc = "answered" /\ q.kind = "me" /\ q.status = "denied" /\ q.cookie # None =>
          sessions[q.cookie] = None \/ sessions[q.cookie].expired
    /\ q.pc = "answered" /\ q.kind = "logout" /\ q.status = "ok" => q.sets = "clear"
    /\ sessions[r] # None => sessions[r].user = q.user

\* A call is the request of its kind; the form that waits for one is on the page; only
\* a form or a log-out has headers that matter.
CallOK(r) ==
    /\ call[r].by = "none" => call[r].form = "none"
    /\ call[r].by = "load" => request[r].kind = "me"
    /\ call[r].by = "form" => request[r].kind \in {"signup", "login"} /\ call[r].form # "none"
    /\ call[r].by = "logout" => request[r].kind = "logout" /\ call[r].form = "none"
    /\ call[r].form = "here" => path \in Public
    /\ call[r].by \in {"none", "load"} => ~call[r].heard

\* The form is disabled on its own page only, and leads home.
PendingOK == pending => path \in Public /\ (nav = "home" \/ Here \/ overtaken)

TabOK ==
    /\ call \in [Requests -> CallType] /\ path \in Pages /\ nav \in Pages \cup {None}
    /\ \A r \in Requests : CallOK(r)
    /\ PendingOK
    /\ status = "loading" => Asked
    /\ loggingOut => \E r \in Requests : call[r].by = "logout"
    /\ StatusFollowsCookie /\ StrangersAreLed

TabIInv == /\ SessionInv
           /\ \A r \in Requests : Told(r)
           /\ TabOK

-----------------------------------------------------------------------------
(* Steps of the API, as the tab sees them.                                 *)

\* Rows of accounts stay; the session behind a token that has been handed out may
\* only grow old.
RowsStay ==
    /\ \A u \in Requests : users[u] # None => users'[u] # None
    /\ \A t \in Requests : request[t].pc = "answered" /\ sessions'[t] # None =>
          /\ sessions[t] # None /\ sessions'[t].user = sessions[t].user
          /\ sessions[t].expired => sessions'[t].expired

AllTold == \A r \in Requests : Told(r)

\* A step of request r tells nothing else of another request.
LEMMA OthersStayTold ==
    ASSUME AccountsOK, AllTold, NEW r \in Requests, RowsStay, AnsweredStay,
           \A s \in Requests \ {r} :
              /\ request'[s] = request[s]
              /\ sessions'[s] # None => sessions[s] # None /\ sessions'[s].user = sessions[s].user
    PROVE  \A s \in Requests \ {r} : Told(s)'
<1> SUFFICES ASSUME NEW s \in Requests \ {r} PROVE Told(s)'
  OBVIOUS
<1> DEFINE t == request[s].cookie
<1>1. Told(s) /\ RequestSound(s) /\ request[s] \in RequestType /\ request'[s] = request[s]
  BY DEF AccountsOK, TablesTyped, AllTold
<1>2. t # None => t \in Requests /\ request[t].pc = "answered" /\ request'[t] = request[t]
  BY <1>1 DEF RequestSound, TokenKnown, RequestType, AnsweredStay
<1>3. request[s].pc = "user" => t # None /\ request[s].kind = "me"
  BY <1>1 DEF RequestSound, OnItsWay
<1>4. t # None /\ (sessions[t] = None \/ sessions[t].expired) =>
         sessions'[t] = None \/ sessions'[t].expired
  BY <1>2 DEF RowsStay
<1>5. sessions'[s] # None => sessions[s] # None /\ sessions'[s].user = sessions[s].user
  OBVIOUS
<1>6. request[s].pc = "user" => request[s].user \in Requests
  BY <1>1, <1>3, AuthAssumption DEF Told, RequestType
<1>7. request[s].pc = "user" => users'[request[s].user] # None
  BY <1>1, <1>6 DEF Told, RowsStay
<1> QED BY <1>1, <1>2, <1>3, <1>4, <1>5, <1>7 DEF Told

\* Nothing of the tables: the rows stay.
LEMMA RowsUntouched ==
    ASSUME AccountsOK, UNCHANGED rows
    PROVE  RowsStay
BY DEF RowsStay, rows

\* A request becomes another record, and no row changes: what is left is to tell
\* of that record.
LEMMA RecordTells ==
    ASSUME AccountsOK, AllTold, AnsweredStay, NEW r \in Requests, NEW q \in RequestType,
           request' = [request EXCEPT ![r] = q], UNCHANGED rows, sessions[r] = None,
           q.cookie # None => request[q.cookie].pc = "answered",
           q.pc = "user" => /\ q.user \in Requests /\ users[q.user] # None
                            /\ q.cookie # None /\ q.user = request[q.cookie].user,
           q.pc = "answered" /\ q.kind = "me" /\ q.status = "ok" =>
              q.cookie # None /\ q.user = request[q.cookie].user,
           q.pc = "answered" /\ q.kind = "me" /\ q.status = "denied" /\ q.cookie # None =>
              sessions[q.cookie] = None \/ sessions[q.cookie].expired,
           q.pc = "answered" /\ q.kind = "logout" /\ q.status = "ok" => q.sets = "clear"
    PROVE  RowsStay /\ AllTold'
<1>1. request \in [Requests -> RequestType]
  BY DEF AccountsOK, TablesTyped
<1>2. request'[r] = q /\ \A s \in Requests \ {r} : request'[s] = request[s]
  BY <1>1
<1>3. RowsStay /\ users' = users /\ sessions' = sessions
  BY RowsUntouched DEF rows
<1>4. \A s \in Requests \ {r} : Told(s)'
  BY <1>2, <1>3, OthersStayTold
<1>5. q.cookie # None => q.cookie \in Requests /\ request'[q.cookie] = request[q.cookie]
  BY DEF RequestType, AnsweredStay
<1>6. Told(r)'
  BY <1>2, <1>3, <1>5 DEF Told
<1> QED BY <1>3, <1>4, <1>6 DEF AllTold

\* An answer tells what it should.
LEMMA AnswersTell ==
    ASSUME AccountsOK, AllTold, AnsweredStay, NEW r \in Requests,
           request[r].pc \notin {"none", "answered"},
           NEW given \in {"ok", "denied", "refused"}, NEW sets \in {"keep", "set", "clear"},
           Answers(r, given, sets), UNCHANGED rows,
           request[r].kind = "me" /\ given = "ok" => request[r].pc = "user",
           request[r].kind = "me" /\ given = "denied" =>
              sessions[request[r].cookie] = None \/ sessions[request[r].cookie].expired,
           request[r].kind = "logout" /\ given = "ok" => sets = "clear"
    PROVE  RowsStay /\ AllTold'
<1> DEFINE q == AnswerOf(request[r], given, sets)
<1>1. /\ request[r] \in RequestType /\ RequestSound(r) /\ Told(r)
      /\ request \in [Requests -> RequestType]
  BY DEF AccountsOK, TablesTyped, AllTold
<1>2. /\ q \in RequestType /\ q.pc = "answered" /\ q.status = given /\ q.kind = request[r].kind
      /\ q.late = request[r].late /\ q.cookie = request[r].cookie
  BY <1>1, AnswerIsTyped
<1>3. q.user = request[r].user /\ q.sets = sets
  BY <1>1 DEF AnswerOf, RequestType
<1>4. request' = [request EXCEPT ![r] = q]
  BY DEF Answers, Becomes, AnswerOf
<1> HIDE DEF q
<1>5. sessions[r] = None /\ (request[r].pc = "user" => request[r].cookie # None)
  BY <1>1 DEF RequestSound, OnItsWay
<1>6. q.cookie # None => request[q.cookie].pc = "answered"
  BY <1>1, <1>2 DEF RequestSound, TokenKnown
<1>7. request[r].pc = "user" => q.user = request[q.cookie].user
  BY <1>1, <1>2, <1>3 DEF Told
<1> QED BY <1>2, <1>3, <1>4, <1>5, <1>6, <1>7, RecordTells

\* A handler waits on, or has found its account: no answer, and no row.
LEMMA WaitingTells ==
    ASSUME AccountsOK, AllTold, AnsweredStay, NEW r \in Requests,
           request[r].pc \in {"body", "lookup"},
           NEW pc \in {"lookup", "insertUser", "insertSession"}, NEW u \in Requests \cup {None},
           Becomes(r, [request[r] EXCEPT !.pc = pc, !.user = u]), UNCHANGED rows
    PROVE  RowsStay /\ AllTold'
<1> DEFINE q == [request[r] EXCEPT !.pc = pc, !.user = u]
<1>1. request[r] \in RequestType /\ RequestSound(r)
  BY DEF AccountsOK, TablesTyped
<1>2. q \in RequestType /\ q.pc = pc /\ q.cookie = request[r].cookie
  BY <1>1 DEF RequestType, Pcs
<1>3. request' = [request EXCEPT ![r] = q]
  BY DEF Becomes
<1> HIDE DEF q
<1>4. sessions[r] = None /\ (q.cookie # None => request[q.cookie].pc = "answered")
  BY <1>1, <1>2 DEF RequestSound, OnItsWay, TokenKnown
<1> QED BY <1>2, <1>3, <1>4, RecordTells

LEMMA WaitsTells ==
    ASSUME AccountsOK, AllTold, AnsweredStay, NEW r \in Requests,
           request[r].pc \in {"body", "lookup"}, NEW pc \in {"lookup", "insertUser"},
           Waits(r, pc), UNCHANGED rows
    PROVE  RowsStay /\ AllTold'
<1>1. request[r] \in RequestType
  BY DEF AccountsOK, TablesTyped
<1>2. [request[r] EXCEPT !.pc = pc] = [request[r] EXCEPT !.pc = pc, !.user = request[r].user]
      /\ request[r].user \in Requests \cup {None}
  BY <1>1 DEF RequestType
<1>3. Becomes(r, [request[r] EXCEPT !.pc = pc, !.user = request[r].user])
  BY <1>2 DEF Waits, Becomes
<1> QED BY <1>2, <1>3, WaitingTells

\* A new account.
LEMMA InsertingUserTells ==
    ASSUME AccountsOK, AllTold, AnsweredStay, NEW r \in Requests, InsertsUser(r)
    PROVE  RowsStay /\ AllTold'
<1> DEFINE row == [email |-> Stored(request[r].address), password |-> request[r].password]
           q == [request[r] EXCEPT !.pc = "insertSession", !.user = r]
<1>1. /\ request[r] \in RequestType /\ RequestSound(r) /\ request \in [Requests -> RequestType]
      /\ users \in [Requests -> UserRow \cup {None}]
  BY DEF AccountsOK, TablesTyped
<1>2. /\ request[r].pc = "insertUser" /\ users' = [users EXCEPT ![r] = row]
      /\ request' = [request EXCEPT ![r] = q] /\ UNCHANGED sessions
  BY DEF InsertsUser, Becomes
<1>3. q.pc = "insertSession"
  BY <1>1 DEF RequestType
<1>4. users[r] = None /\ sessions[r] = None
  BY <1>1, <1>2 DEF RequestSound, OnItsWay
<1> HIDE DEF q, row
<1>5. /\ request'[r] = q /\ \A s \in Requests \ {r} : request'[s] = request[s]
      /\ \A u \in Requests : users[u] # None => users'[u] = users[u]
  BY <1>1, <1>2, <1>4
<1>6. RowsStay
  BY <1>2, <1>5 DEF RowsStay
<1>7. \A s \in Requests \ {r} : Told(s)'
  BY <1>2, <1>5, <1>6, OthersStayTold
<1>8. Told(r)'
  BY <1>2, <1>3, <1>4, <1>5 DEF Told
<1> QED BY <1>6, <1>7, <1>8 DEF AllTold

\* A new session, of the user its request has earned.
LEMMA InsertingSessionTells ==
    ASSUME AccountsOK, AllTold, AnsweredStay, NEW r \in Requests, InsertsSession(r)
    PROVE  RowsStay /\ AllTold'
<1> DEFINE row == [user |-> request[r].user, expired |-> FALSE]
           q == AnswerOf(request[r], "ok", "set")
<1>1. /\ request[r] \in RequestType /\ RequestSound(r) /\ request \in [Requests -> RequestType]
      /\ sessions \in [Requests -> SessionRow \cup {None}]
  BY DEF AccountsOK, TablesTyped
<1>2. /\ request[r].pc = "insertSession" /\ sessions' = [sessions EXCEPT ![r] = row]
      /\ request' = [request EXCEPT ![r] = q] /\ UNCHANGED users
  BY DEF InsertsSession, Answers, Becomes, AnswerOf
<1>3. q.pc = "answered" /\ q.kind = request[r].kind /\ row.user = request[r].user
  BY <1>1, AnswerIsTyped
<1>4. q.user = request[r].user
  BY <1>1 DEF AnswerOf, RequestType
<1>5. request[r].kind \in {"signup", "login"}
  BY <1>1, <1>2 DEF RequestSound, OnItsWay
<1> HIDE DEF q, row
<1>6. /\ request'[r] = q /\ \A s \in Requests \ {r} : request'[s] = request[s]
      /\ sessions'[r] = row /\ \A s \in Requests \ {r} : sessions'[s] = sessions[s]
  BY <1>1, <1>2
<1>7. RowsStay
  BY <1>2, <1>6 DEF RowsStay
<1>8. \A s \in Requests \ {r} : Told(s)'
  BY <1>2, <1>6, <1>7, OthersStayTold
<1>9. Told(r)'
  BY <1>3, <1>4, <1>5, <1>6 DEF Told
<1> QED BY <1>7, <1>8, <1>9 DEF AllTold

\* A session deleted for its log-out.
LEMMA DeletingSessionTells ==
    ASSUME AccountsOK, AllTold, AnsweredStay, NEW r \in Requests, DeletesSession(r)
    PROVE  RowsStay /\ AllTold'
<1> DEFINE t == request[r].cookie
           q == AnswerOf(request[r], "ok", "clear")
<1>1. /\ request[r] \in RequestType /\ RequestSound(r) /\ request \in [Requests -> RequestType]
      /\ sessions \in [Requests -> SessionRow \cup {None}]
  BY DEF AccountsOK, TablesTyped
<1>2. /\ request[r].pc = "delete" /\ sessions' = [sessions EXCEPT ![t] = None]
      /\ request' = [request EXCEPT ![r] = q] /\ UNCHANGED users
  BY DEF DeletesSession, Answers, Becomes, AnswerOf
<1>3. q.pc = "answered" /\ q.kind = request[r].kind
  BY <1>1, AnswerIsTyped
<1>4. q.sets = "clear"
  BY <1>1 DEF AnswerOf, RequestType
<1>5. request[r].kind = "logout" /\ sessions[r] = None
  BY <1>1, <1>2 DEF RequestSound, OnItsWay
<1> HIDE DEF q, t
<1>6. /\ request'[r] = q /\ \A s \in Requests \ {r} : request'[s] = request[s]
      /\ \A s \in Requests : sessions'[s] # None => sessions'[s] = sessions[s]
  BY <1>1, <1>2
<1>7. RowsStay
  BY <1>2, <1>6 DEF RowsStay
<1>8. \A s \in Requests \ {r} : Told(s)'
  BY <1>6, <1>7, OthersStayTold
<1>9. Told(r)'
  BY <1>3, <1>4, <1>5, <1>6 DEF Told
<1> QED BY <1>7, <1>8, <1>9 DEF AllTold

\* A question has found its session, or none that is good.
LEMMA FindingSessionTells ==
    ASSUME AccountsOK, AllTold, AnsweredStay, NEW r \in Requests, FindsSession(r)
    PROVE  RowsStay /\ AllTold'
<1> DEFINE t == request[r].cookie
           q == [request[r] EXCEPT !.pc = "user", !.user = sessions[t].user]
<1>1. request[r] \in RequestType /\ RequestSound(r) /\ UNCHANGED rows /\ request[r].pc = "session"
  BY DEF AccountsOK, TablesTyped, FindsSession
<1>2. /\ t \in Requests /\ request[t].pc = "answered" /\ request[r].kind = "me" /\ t # None
      /\ sessions[r] = None
  BY <1>1 DEF RequestSound, OnItsWay, TokenKnown, RequestType
<1>3. CASE sessions[t] = None \/ sessions[t].expired
  <2>1. Answers(r, "denied", "keep")
    BY <1>3 DEF FindsSession
  <2> QED BY <1>1, <1>3, <2>1, AnswersTell
<1>4. CASE ~(sessions[t] = None \/ sessions[t].expired)
  <2>1. Told(t) /\ RequestSound(t)
    BY <1>2 DEF AllTold, AccountsOK
  <2>2. sessions[t].user \in Requests /\ users[sessions[t].user] # None
        /\ sessions[t].user = request[t].user
    BY <1>4, <2>1 DEF RequestSound, SessionEarned, Earned, Told
  <2>3. request' = [request EXCEPT ![r] = q]
    BY <1>4 DEF FindsSession, Becomes
  <2>4. q \in RequestType /\ q.pc = "user" /\ q.cookie = t /\ q.user = sessions[t].user
    BY <1>1, <2>2 DEF RequestType, Pcs
  <2> HIDE DEF q, t
  <2> QED BY <1>1, <1>2, <2>2, <2>3, <2>4, RecordTells
<1> QED BY <1>3, <1>4

LEMMA HandlerTells ==
    ASSUME AccountsOK, AllTold, AnsweredStay, NEW r \in Requests, HandlerStep(r)
    PROVE  RowsStay /\ AllTold'
<1>1. RequestSound(r) /\ Told(r) /\ request[r] \in RequestType
  BY DEF AccountsOK, AllTold, TablesTyped
<1>2. CASE ReadsBody(r)
  <2>1. request[r].kind \in {"signup", "login"}
    BY <1>1, <1>2 DEF ReadsBody, RequestSound, OnItsWay
  <2> QED BY <1>2, <2>1, AnswersTell, WaitsTells DEF ReadsBody
<1>3. CASE LooksForConflict(r)
  BY <1>3, AnswersTell, WaitsTells DEF LooksForConflict
<1>4. CASE LooksUp(r)
  <2> DEFINE found == {u \in Account(Stored(request[r].address)) : Verified(u, request[r].password)}
  <2>1. found \subseteq Requests
    BY DEF Account
  <2>2. request[r].pc = "lookup" /\ request[r].kind = "login" /\ UNCHANGED rows
    BY <1>4 DEF LooksUp
  <2>3. CASE Answers(r, "denied", "keep")
    BY <2>2, <2>3, AnswersTell
  <2>4. ASSUME NEW u \in found,
               Becomes(r, [request[r] EXCEPT !.pc = "insertSession", !.user = u])
        PROVE  RowsStay /\ AllTold'
    BY <2>1, <2>2, <2>4, WaitingTells
  <2> QED BY <1>4, <2>3, <2>4 DEF LooksUp
<1>5. CASE FindsUser(r)
  <2>1. request[r].pc = "user" /\ users[request[r].user] # None
    BY <1>1, <1>5 DEF FindsUser, Told
  <2>2. Answers(r, "ok", "keep") /\ UNCHANGED rows /\ request[r].kind = "me"
    BY <1>1, <1>5, <2>1 DEF FindsUser, RequestSound, OnItsWay
  <2> QED BY <2>1, <2>2, AnswersTell
<1>6. CASE Fails(r)
  BY <1>6, AnswersTell DEF Fails
<1> QED BY <1>2, <1>3, <1>4, <1>5, <1>6, InsertingUserTells, InsertingSessionTells,
           DeletingSessionTells, FindingSessionTells DEF HandlerStep

\* Sessions that end or expire tell nothing else.
LEMMA AgeTells ==
    ASSUME AccountsOK, AllTold, NEW t \in Requests, Sweeps(t) \/ Expires(t)
    PROVE  RowsStay /\ AllTold'
<1>1. /\ sessions \in [Requests -> SessionRow \cup {None}]
      /\ request \in [Requests -> RequestType] /\ users' = users /\ request' = request
  BY DEF AccountsOK, TablesTyped, Sweeps, Expires
<1>2. \A s \in Requests : sessions'[s] # None =>
         /\ sessions[s] # None /\ sessions'[s].user = sessions[s].user
         /\ sessions[s].expired => sessions'[s].expired
  <2>1. CASE Sweeps(t)
    BY <1>1, <2>1 DEF Sweeps
  <2>2. CASE Expires(t)
    <3> DEFINE row == [sessions[t] EXCEPT !.expired = TRUE]
    <3>1. sessions[t] # None /\ sessions' = [sessions EXCEPT ![t] = row]
      BY <2>2 DEF Expires
    <3>2. row.user = sessions[t].user /\ row.expired
      BY <1>1, <3>1 DEF SessionRow
    <3> HIDE DEF row
    <3> QED BY <1>1, <3>1, <3>2
  <2> QED BY <2>1, <2>2
<1>3. RowsStay
  BY <1>1, <1>2 DEF RowsStay
<1>4. ASSUME NEW s \in Requests PROVE Told(s)'
  <2>1. Told(s) /\ RequestSound(s) /\ request[s] \in RequestType
    BY DEF AccountsOK, TablesTyped, AllTold
  <2> QED BY <1>1, <1>2, <2>1 DEF Told, RequestType
<1> QED BY <1>3, <1>4 DEF AllTold

\* A request that arrives is of its kind; without a token it is denied unasked.
LEMMA ArrivesTell ==
    ASSUME AccountsOK, AllTold, AnsweredStay, NEW r \in Requests, NEW kind, NEW address, NEW password,
           NEW token \in Requests \cup {None},
           token # None => request[token].pc = "answered",
           kind \in {"signup", "login"} => address \in Addresses /\ password \in Passwords,
           Arrives(r, kind, address, password, token)
    PROVE  /\ RowsStay /\ AllTold' /\ request[r].kind = "none" /\ request'[r].kind = kind
           /\ \A s \in Requests \ {r} : request'[s] = request[s]
<1> USE AuthAssumption
<1>1. request[r].kind = "none" /\ UNCHANGED rows
  BY DEF Arrives, Arrival
<1>2. sessions[r] = None
  BY <1>1 DEF AccountsOK, RequestSound, OnItsWay
<1>3. \E q \in RequestType :
         /\ request' = [request EXCEPT ![r] = q] /\ q.kind = kind
         /\ q.cookie # None => q.cookie = token
         /\ q.pc # "user"
         /\ q.pc = "answered" /\ kind = "me" => q.status = "denied" /\ q.cookie = None
         /\ q.pc = "answered" /\ kind = "logout" => q.sets = "clear"
  <2>1. Dead(token) \in BOOLEAN
    <3>1. token # None /\ sessions[token] # None => sessions[token] \in SessionRow
      BY DEF AccountsOK, TablesTyped
    <3> QED BY <3>1 DEF Dead, SessionRow
  <2>2. CASE kind \in {"signup", "login"} /\ ArrivesCounted(r, kind, address, password)
    <3> DEFINE new == [NewRequest EXCEPT !.kind = kind]
               refused == Answered(new, "refused", "keep")
               waiting == [new EXCEPT !.pc = "body", !.address = address, !.password = password]
    <3>1. /\ refused \in RequestType /\ refused.kind = kind /\ refused.cookie = None
          /\ refused.pc = "answered"
      BY <2>2 DEF Answered, NewRequest, RequestType, Pcs
    <3>2. /\ waiting \in RequestType /\ waiting.kind = kind /\ waiting.cookie = None
          /\ waiting.pc = "body"
      BY <2>2 DEF NewRequest, RequestType, Pcs
    <3>3. request' = [request EXCEPT ![r] = refused] \/ request' = [request EXCEPT ![r] = waiting]
      BY <2>2 DEF ArrivesCounted, Becomes
    <3> HIDE DEF refused, waiting
    <3> QED BY <2>2, <3>1, <3>2, <3>3
  <2>3. CASE kind = "logout" /\ ArrivesLogout(r, token)
    <3> DEFINE new == [NewRequest EXCEPT !.kind = "logout", !.cookie = token, !.late = Dead(token)]
               nobody == Answered(new, "ok", "clear")
               waiting == [new EXCEPT !.pc = "delete"]
    <3>1. /\ nobody \in RequestType /\ nobody.kind = "logout" /\ nobody.cookie = token
          /\ nobody.pc = "answered" /\ nobody.sets = "clear"
      BY <2>1 DEF Answered, NewRequest, RequestType, Pcs
    <3>2. /\ waiting \in RequestType /\ waiting.kind = "logout" /\ waiting.cookie = token
          /\ waiting.pc = "delete"
      BY <2>1 DEF NewRequest, RequestType, Pcs
    <3>3. request' = [request EXCEPT ![r] = nobody] \/ request' = [request EXCEPT ![r] = waiting]
      BY <2>3 DEF ArrivesLogout, Becomes
    <3> HIDE DEF nobody, waiting
    <3> QED BY <2>3, <3>1, <3>2, <3>3
  <2>4. CASE kind = "me" /\ ArrivesMe(r, token)
    <3> DEFINE new == [NewRequest EXCEPT !.kind = "me", !.cookie = token, !.late = Dead(token)]
               nobody == Answered(new, "denied", "keep")
               waiting == [new EXCEPT !.pc = "session"]
    <3>1. /\ nobody \in RequestType /\ nobody.kind = "me" /\ nobody.cookie = token
          /\ nobody.pc = "answered" /\ nobody.status = "denied"
      BY <2>1 DEF Answered, NewRequest, RequestType, Pcs
    <3>2. /\ waiting \in RequestType /\ waiting.kind = "me" /\ waiting.cookie = token
          /\ waiting.pc = "session"
      BY <2>1 DEF NewRequest, RequestType, Pcs
    <3>3. \/ token = None /\ request' = [request EXCEPT ![r] = nobody]
          \/ request' = [request EXCEPT ![r] = waiting]
      BY <2>4 DEF ArrivesMe, Becomes
    <3> HIDE DEF nobody, waiting
    <3> QED BY <2>4, <3>1, <3>2, <3>3
  <2> QED BY <2>2, <2>3, <2>4 DEF Arrives
<1>4. PICK q \in RequestType :
         /\ request' = [request EXCEPT ![r] = q] /\ q.kind = kind
         /\ q.cookie # None => q.cookie = token
         /\ q.pc # "user"
         /\ q.pc = "answered" /\ kind = "me" => q.status = "denied" /\ q.cookie = None
         /\ q.pc = "answered" /\ kind = "logout" => q.sets = "clear"
  BY <1>3
<1>5. RowsStay /\ AllTold'
  BY <1>1, <1>2, <1>4, RecordTells
<1>6. request'[r] = q /\ \A s \in Requests \ {r} : request'[s] = request[s]
  BY <1>4 DEF AccountsOK, TablesTyped
<1> QED BY <1>1, <1>4, <1>5, <1>6

-----------------------------------------------------------------------------
(* The tab and its calls.                                                  *)

\* A request that the tab sends is no call of it yet.
LEMMA Sending ==
    ASSUME TabIInv, NEW q \in Requests, NEW kind, NEW address, NEW password,
           NEW token \in Requests \cup {None},
           token # None => request[token].pc = "answered",
           kind \in {"signup", "login"} => address \in Addresses /\ password \in Passwords,
           Asks(q, kind, address, password, token)
    PROVE  /\ AnsweredStay /\ RowsStay /\ AllTold'
           /\ call[q].by = "none" /\ request'[q].kind = kind
           /\ \A s \in Requests \ {q} : request'[s] = request[s]
<1>1. AccountsOK /\ AllTold /\ CallOK(q) /\ call[q] \in CallType
  BY DEF TabIInv, SessionInv, AllTold, TabOK
<1>2. Arrives(q, kind, address, password, token)
  BY DEF Asks
<1>3. AnsweredStay
  BY <1>1, <1>2, ArrivesSoundly
<1>4. RowsStay /\ AllTold' /\ request[q].kind = "none" /\ request'[q].kind = kind
      /\ \A s \in Requests \ {q} : request'[s] = request[s]
  BY <1>1, <1>2, <1>3, ArrivesTell
<1>5. call[q].by = "none"
  BY <1>1, <1>4 DEF CallOK, CallType
<1> QED BY <1>3, <1>4, <1>5

\* Nothing arrives.
LEMMA NothingSent ==
    ASSUME TabIInv, UNCHANGED authVars
    PROVE  AnsweredStay /\ RowsStay /\ AllTold'
BY DEF TabIInv, SessionInv, AllTold, Told, AnsweredStay, RowsStay, authVars

\* What the status says of the cookie stays true.
LEMMA StatusStaysTrue ==
    ASSUME TabIInv, AnsweredStay, RowsStay, UNCHANGED <<status, shown, cookie>>,
           ~Asked' /\ ~Heard' /\ ~misled' => ~Asked /\ ~Heard /\ ~misled
    PROVE  StatusFollowsCookie'
<1>1. StatusFollowsCookie /\ cookie \in Requests \cup {None}
      /\ (cookie # None => request[cookie].pc = "answered")
  BY DEF TabIInv, TabOK, SessionInv, CookieOK
<1> QED BY <1>1 DEF StatusFollowsCookie, AnsweredStay, RowsStay

\* The calls when one is made or settled: the others are what they were.
LEMMA CallsStay ==
    ASSUME TabIInv, NEW r \in Requests, NEW c \in CallType, call' = [call EXCEPT ![r] = c],
           path' = path, \A s \in Requests \ {r} : request'[s].kind = request[s].kind,
           CallOK(r)'
    PROVE  /\ call' \in [Requests -> CallType] /\ path' \in Pages
           /\ \A s \in Requests : CallOK(s)'
           /\ call'[r] = c /\ \A s \in Requests \ {r} : call'[s] = call[s]
<1>1. /\ call \in [Requests -> CallType] /\ path \in Pages /\ \A s \in Requests : CallOK(s)
  BY DEF TabIInv, TabOK
<1>2. call'[r] = c /\ \A s \in Requests \ {r} : call'[s] = call[s]
  BY <1>1
<1>3. ASSUME NEW s \in Requests \ {r} PROVE CallOK(s)'
  BY <1>1, <1>2, <1>3 DEF CallOK
<1> QED BY <1>1, <1>2, <1>3

\* The page opens.
LEMMA OpensTells ==
    ASSUME TabIInv, NEW r \in Requests, NEW p \in Pages, Opens(p, r)
    PROVE  AllTold' /\ TabOK'
<1>1. /\ cookie \in Requests \cup {None} /\ (cookie # None => request[cookie].pc = "answered")
  BY DEF TabIInv, SessionInv, CookieOK
<1>2. AllTold' /\ request'[r].kind = "me"
  BY <1>1, Sending DEF Opens
<1>3. /\ call' = [c \in Requests |-> IF c = r THEN NewCall("load", "none") ELSE NoCall]
      /\ status' = "loading" /\ path' = p /\ pending' = FALSE /\ loggingOut' = FALSE
      /\ nav' = None
  BY DEF Opens
<1>4. /\ call' \in [Requests -> CallType]
      /\ call'[r].by = "load" /\ call'[r].form = "none"
      /\ \A s \in Requests \ {r} : call'[s].by = "none" /\ call'[s].form = "none"
      /\ \A s \in Requests : ~call'[s].heard
  BY <1>3 DEF CallType, NewCall, NoCall
<1>5. \A s \in Requests : CallOK(s)'
  BY <1>2, <1>4 DEF CallOK
<1>6. Asked'
  BY <1>4 DEF Asked
<1> QED BY <1>2, <1>3, <1>4, <1>5, <1>6 DEF TabOK, PendingOK, StatusFollowsCookie, StrangersAreLed

\* A form is submitted.
LEMMA SubmitsTells ==
    ASSUME TabIInv, NEW r \in Requests, Submits(r)
    PROVE  AllTold' /\ TabOK'
<1> DEFINE c == NewCall("form", "here")
<1>1. /\ cookie \in Requests \cup {None} /\ (cookie # None => request[cookie].pc = "answered")
  BY DEF TabIInv, SessionInv, CookieOK
<1>2. /\ AnsweredStay /\ RowsStay /\ AllTold' /\ call[r].by = "none"
      /\ request'[r].kind \in {"signup", "login"}
      /\ \A s \in Requests \ {r} : request'[s] = request[s]
  BY <1>1, Sending DEF Submits
<1>3. /\ call' = [call EXCEPT ![r] = c] /\ path \in Public
      /\ UNCHANGED <<cookie, status, shown, path, nav, loggingOut, misled, overtaken>>
  BY DEF Submits
<1>4. c \in CallType /\ c.by = "form" /\ c.form = "here" /\ ~c.heard
  BY DEF NewCall, CallType
<1> HIDE DEF c
<1>5. call'[r] = c
  BY <1>3 DEF TabIInv, TabOK
<1>6. CallOK(r)'
  BY <1>2, <1>3, <1>4, <1>5 DEF CallOK
<1>7. /\ call' \in [Requests -> CallType] /\ path' \in Pages /\ \A s \in Requests : CallOK(s)'
      /\ \A s \in Requests \ {r} : call'[s] = call[s]
  BY <1>2, <1>3, <1>4, <1>6, CallsStay
<1>8. Asked' = Asked /\ Heard' = Heard
  <2>1. CallOK(r)
    BY DEF TabIInv, TabOK
  <2> QED BY <1>2, <1>4, <1>5, <1>7, <2>1 DEF Asked, Heard, CallOK
<1>9. PendingOK'
  BY <1>3, <1>4, <1>5 DEF PendingOK, Here
<1>10. (loggingOut => \E s \in Requests : call[s].by = "logout")'
  BY <1>2, <1>3, <1>7 DEF TabIInv, TabOK
<1>11. StatusFollowsCookie'
  BY <1>2, <1>3, <1>8, StatusStaysTrue
<1>12. StrangersAreLed' /\ (status = "loading" => Asked)'
  BY <1>3, <1>8 DEF TabIInv, TabOK, StrangersAreLed
<1> QED BY <1>2, <1>3, <1>7, <1>9, <1>10, <1>11, <1>12 DEF TabIInv, TabOK

\* A log-out is asked for, and the session is asked for again.
LEMMA LogsOutTells ==
    ASSUME TabIInv, NEW r \in Requests, LogsOut(r)
    PROVE  AllTold' /\ TabOK'
<1> DEFINE c == NewCall("logout", "none")
<1>1. /\ cookie \in Requests \cup {None} /\ (cookie # None => request[cookie].pc = "answered")
  BY DEF TabIInv, SessionInv, CookieOK
<1>2. /\ AnsweredStay /\ RowsStay /\ AllTold' /\ call[r].by = "none"
      /\ request'[r].kind = "logout"
      /\ \A s \in Requests \ {r} : request'[s] = request[s]
  BY <1>1, Sending DEF LogsOut
<1>3. /\ call' = [call EXCEPT ![r] = c] /\ loggingOut' = TRUE
      /\ UNCHANGED <<cookie, status, shown, path, nav, pending, misled, overtaken>>
  BY DEF LogsOut
<1>4. c \in CallType /\ c.by = "logout" /\ c.form = "none" /\ ~c.heard
  BY DEF NewCall, CallType
<1> HIDE DEF c
<1>5. call'[r] = c
  BY <1>3 DEF TabIInv, TabOK
<1>6. CallOK(r)'
  BY <1>2, <1>4, <1>5 DEF CallOK
<1>7. /\ call' \in [Requests -> CallType] /\ path' \in Pages /\ \A s \in Requests : CallOK(s)'
      /\ \A s \in Requests \ {r} : call'[s] = call[s]
  BY <1>2, <1>3, <1>4, <1>6, CallsStay
<1>8. Asked' = Asked /\ Heard' = Heard
  <2>1. CallOK(r)
    BY DEF TabIInv, TabOK
  <2> QED BY <1>2, <1>4, <1>5, <1>7, <2>1 DEF Asked, Heard, CallOK
<1>9. CallOK(r)
  BY DEF TabIInv, TabOK
<1>10. Here => Here'
  BY <1>2, <1>7, <1>9 DEF Here, CallOK
<1>11. PendingOK'
  BY <1>3, <1>10 DEF PendingOK, TabIInv, TabOK
<1>12. StatusFollowsCookie'
  BY <1>2, <1>3, <1>8, StatusStaysTrue
<1>13. StrangersAreLed' /\ (status = "loading" => Asked)'
  BY <1>3, <1>8 DEF TabIInv, TabOK, StrangersAreLed
<1>14. (loggingOut => \E s \in Requests : call[s].by = "logout")'
  BY <1>4, <1>5
<1> QED BY <1>2, <1>3, <1>7, <1>11, <1>12, <1>13, <1>14 DEF TabIInv, TabOK

LEMMA RetriesTells ==
    ASSUME TabIInv, NEW r \in Requests, Retries(r)
    PROVE  AllTold' /\ TabOK'
<1> DEFINE c == NewCall("load", "none")
<1>1. /\ cookie \in Requests \cup {None} /\ (cookie # None => request[cookie].pc = "answered")
  BY DEF TabIInv, SessionInv, CookieOK
<1>2. /\ AnsweredStay /\ RowsStay /\ AllTold' /\ call[r].by = "none"
      /\ request'[r].kind = "me"
      /\ \A s \in Requests \ {r} : request'[s] = request[s]
  BY <1>1, Sending DEF Retries
<1>3. /\ call' = [call EXCEPT ![r] = c] /\ status' = "loading"
      /\ UNCHANGED <<cookie, shown, path, nav, pending, loggingOut, misled, overtaken>>
  BY DEF Retries, Loading
<1>4. c \in CallType /\ c.by = "load" /\ c.form = "none" /\ ~c.heard
  BY DEF NewCall, CallType
<1> HIDE DEF c
<1>5. call'[r] = c
  BY <1>3 DEF TabIInv, TabOK
<1>6. CallOK(r)'
  BY <1>2, <1>4, <1>5 DEF CallOK
<1>7. /\ call' \in [Requests -> CallType] /\ path' \in Pages /\ \A s \in Requests : CallOK(s)'
      /\ \A s \in Requests \ {r} : call'[s] = call[s]
  BY <1>2, <1>3, <1>4, <1>6, CallsStay
<1>8. Asked'
  BY <1>4, <1>5 DEF Asked
<1>9. CallOK(r)
  BY DEF TabIInv, TabOK
<1>10. Here => Here'
  BY <1>2, <1>7, <1>9 DEF Here, CallOK
<1>11. PendingOK'
  BY <1>3, <1>10 DEF PendingOK, TabIInv, TabOK
<1>12. StatusFollowsCookie' /\ StrangersAreLed'
  BY <1>3, <1>8 DEF StatusFollowsCookie, StrangersAreLed
<1>13. (loggingOut => \E s \in Requests : call[s].by = "logout")'
  BY <1>2, <1>3, <1>7 DEF TabIInv, TabOK
<1> QED BY <1>2, <1>3, <1>7, <1>8, <1>11, <1>12, <1>13 DEF TabIInv, TabOK

\* The page is left for another: the form is, and its calls go on without it.
LEMMA PageLeft ==
    ASSUME TabIInv, UNCHANGED <<authVars, cookie, status, shown, loggingOut, misled>>,
           path' \in Pages, path' # path, nav' \in Pages \cup {None}, pending' = FALSE, call' = Unmounted,
           status = "unauthenticated" /\ path' \notin Public => nav' = "login"
    PROVE  AllTold' /\ TabOK'
<1>1. AnsweredStay /\ RowsStay /\ AllTold' /\ request' = request
  BY NothingSent DEF authVars
<1>2. /\ call \in [Requests -> CallType] /\ \A s \in Requests : CallOK(s)
  BY DEF TabIInv, TabOK
<1>3. ASSUME NEW s \in Requests
      PROVE  /\ call'[s] \in CallType /\ call'[s].by = call[s].by /\ call'[s].form # "here"
             /\ call'[s].form = "none" <=> call[s].form = "none"
             /\ call'[s].heard = call[s].heard
  <2>1. call[s] \in CallType
    BY <1>2
  <2>2. CASE call[s].form = "here"
    <3> DEFINE c == [call[s] EXCEPT !.form = "gone"]
    <3>1. c \in CallType /\ c.by = call[s].by /\ c.form = "gone" /\ c.heard = call[s].heard
      BY <2>1 DEF CallType
    <3>2. call'[s] = c
      BY <2>2 DEF Unmounted
    <3> QED BY <2>2, <3>1, <3>2
  <2>3. CASE call[s].form # "here"
    BY <2>1, <2>3 DEF Unmounted
  <2> QED BY <2>2, <2>3
<1>4. call' \in [Requests -> CallType]
  BY <1>3 DEF Unmounted
<1>5. \A s \in Requests : CallOK(s)'
  BY <1>1, <1>2, <1>3 DEF CallOK
<1>6. Asked' = Asked /\ Heard' = Heard
  BY <1>3 DEF Asked, Heard
<1>7. StatusFollowsCookie'
  BY <1>1, <1>6, StatusStaysTrue
<1>8. (loggingOut => \E s \in Requests : call[s].by = "logout")'
  BY <1>3 DEF TabIInv, TabOK
<1>9. (status = "loading" => Asked)'
  BY <1>6 DEF TabIInv, TabOK
<1>10. StrangersAreLed' /\ PendingOK'
  BY DEF StrangersAreLed, PendingOK
<1> QED BY <1>1, <1>4, <1>5, <1>7, <1>8, <1>9, <1>10 DEF TabOK

LEMMA GoesTells ==
    ASSUME TabIInv, NEW p \in Pages, Goes(p)
    PROVE  AllTold' /\ TabOK'
<1> USE SessionAssumption
<1>1. status = "unauthenticated" /\ path' \notin Public => nav' = "login"
  BY DEF Goes, RedirectsOr, Sends, Pages, Public
<1>2. nav' \in Pages \cup {None}
  BY DEF Goes, RedirectsOr, Sends, Pages, Public, TabIInv, TabOK
<1> QED BY <1>1, <1>2, PageLeft DEF Goes

\* The router carries out a replacement.
LEMMA NavigatesTells ==
    ASSUME TabIInv, Navigates
    PROVE  AllTold' /\ TabOK'
<1> USE SessionAssumption
<1>1. CASE nav # path
  <2>1. status = "unauthenticated" /\ path' \notin Public => nav' = "login"
    BY <1>1 DEF Navigates, RedirectsOr, Sends, Pages, Public
  <2>2. nav \in Pages /\ nav' \in Pages \cup {None}
    BY DEF Navigates, RedirectsOr, Sends, Pages, Public, TabIInv, TabOK
  <2> QED BY <1>1, <2>1, <2>2, PageLeft DEF Navigates
<1>2. CASE nav = path
  <2>1. /\ UNCHANGED <<authVars, cookie, status, shown, loggingOut, misled, pending, call, overtaken, path>>
        /\ nav' = None
    BY <1>2 DEF Navigates, RedirectsOr
  <2>2. AnsweredStay /\ RowsStay /\ AllTold' /\ request' = request
    BY <2>1, NothingSent DEF authVars
  <2>3. Asked' = Asked /\ Heard' = Heard /\ Here' = Here
    BY <2>1 DEF Asked, Heard, Here
  <2>4. StatusFollowsCookie'
    BY <2>1, <2>2, <2>3, StatusStaysTrue
  <2>5. StrangersAreLed'
    BY <1>2, <2>1 DEF TabIInv, TabOK, StrangersAreLed, Public
  <2>6. PendingOK'
    BY <1>2, <2>1, <2>3 DEF TabIInv, TabOK, PendingOK, Public
  <2>7. \A s \in Requests : CallOK(s)'
    BY <2>1, <2>2 DEF TabIInv, TabOK, CallOK
  <2> QED BY <2>1, <2>2, <2>3, <2>4, <2>5, <2>6, <2>7 DEF TabIInv, TabOK
<1> QED BY <1>1, <1>2

\* The answer of a question who is there, or none.
LEMMA LoadsTells ==
    ASSUME TabIInv, NEW r \in Requests, NEW answer, Loads(r, answer),
           answer \in {"ok", "denied"} => request[r].pc = "answered" /\ request[r].status = answer
    PROVE  AllTold' /\ TabOK'
<1> USE SessionAssumption
<1>1. AnsweredStay /\ RowsStay /\ AllTold' /\ request' = request /\ sessions' = sessions
  BY NothingSent DEF Loads, authVars
<1>2. /\ call[r].by = "load" /\ call' = [call EXCEPT ![r] = NoCall]
      /\ status' = StatusOf(answer)
      /\ shown' = IF answer = "ok" THEN request[r].user ELSE None
      /\ misled' = (request[r].cookie # cookie)
      /\ overtaken' = (overtaken \/ (call[r].form = "gone" /\ status' = status))
      /\ UNCHANGED <<cookie, path, pending, loggingOut>>
  BY DEF Loads
<1>3. NoCall \in CallType /\ NoCall.by = "none" /\ NoCall.form = "none" /\ ~NoCall.heard
  BY DEF NoCall, NewCall, CallType
<1>4. call'[r] = NoCall /\ call[r] \in CallType /\ CallOK(r) /\ path \in Pages
  BY <1>2 DEF TabIInv, TabOK
<1>5. CallOK(r)'
  BY <1>3, <1>4 DEF CallOK
<1>6. /\ call' \in [Requests -> CallType] /\ path' \in Pages /\ \A s \in Requests : CallOK(s)'
      /\ \A s \in Requests \ {r} : call'[s] = call[s]
  BY <1>1, <1>2, <1>3, <1>5, CallsStay
<1>7. /\ status' \in {"authenticated", "unauthenticated", "error"}
      /\ status' = "authenticated" <=> answer = "ok"
      /\ status' = "unauthenticated" <=> answer = "denied"
  BY <1>2 DEF StatusOf
<1>8. nav' = IF (status' # status /\ Sends(status', path) # None) THEN Sends(status', path)
             ELSE IF call[r].form = "none" THEN nav ELSE "home"
  BY <1>2 DEF Loads, RedirectsOr
<1>9. nav' \in Pages \cup {None} /\ nav \in Pages \cup {None}
  BY <1>8 DEF Sends, Pages, Public, TabIInv, TabOK
<1>10. PendingOK'
  <2>1. CASE pending
    <3>1. path \in Public /\ (nav = "home" \/ Here \/ overtaken)
      BY <2>1 DEF TabIInv, TabOK, PendingOK
    <3>2. Sends(status', path) \in {None, "home"}
      BY <3>1 DEF Sends
    <3>3. CASE call[r].form # "none"
      BY <1>2, <1>8, <3>1, <3>2, <3>3 DEF PendingOK
    <3>4. CASE call[r].form = "none"
      <4>1. Here => Here'
        BY <1>6, <3>4 DEF Here
      <4>2. nav = "home" => nav' = "home"
        BY <1>8, <3>2, <3>4
      <4> QED BY <1>2, <3>1, <4>1, <4>2 DEF PendingOK
    <3> QED BY <3>3, <3>4
  <2>2. CASE ~pending
    BY <1>2, <2>2 DEF PendingOK
  <2> QED BY <2>1, <2>2
<1>11. StrangersAreLed'
  <2> SUFFICES ASSUME status' = "unauthenticated", path \notin Public
               PROVE  nav' = "login" \/ overtaken'
    BY <1>2 DEF StrangersAreLed
  <2>1. Sends(status', path) = "login" /\ "login" # None
    BY DEF Sends, Pages, Public
  <2>2. CASE status' # status
    BY <1>8, <2>1, <2>2
  <2>3. CASE status' = status
    <3>1. nav = "login" \/ overtaken
      BY <2>3 DEF TabIInv, TabOK, StrangersAreLed
    <3>2. call[r].form # "here"
      BY <1>4 DEF CallOK
    <3>3. call[r].form = "none" \/ call[r].form = "gone"
      BY <1>4, <3>2 DEF CallType
    <3> QED BY <1>2, <1>8, <2>3, <3>1, <3>3
  <2> QED BY <2>2, <2>3
<1>12. StatusFollowsCookie'
  <2> SUFFICES ASSUME request[r].cookie = cookie
               PROVE  /\ answer = "ok" => cookie # None /\ request[r].user = request[cookie].user
                      /\ answer = "denied" =>
                            cookie = None \/ sessions[cookie] = None \/ sessions[cookie].expired
    BY <1>1, <1>2, <1>7 DEF StatusFollowsCookie
  <2>1. Told(r) /\ request[r].kind = "me"
    BY <1>2, <1>4 DEF TabIInv, CallOK
  <2> QED BY <2>1 DEF Told
<1>13. (loggingOut => \E s \in Requests : call[s].by = "logout")'
  BY <1>2, <1>6 DEF TabIInv, TabOK
<1> QED BY <1>1, <1>6, <1>7, <1>9, <1>10, <1>11, <1>12, <1>13 DEF TabOK

\* The form's call has succeeded.
LEMMA FormSucceedsTells ==
    ASSUME TabIInv, NEW r \in Requests, NEW q \in Requests, FormSucceeds(r, q)
    PROVE  AllTold' /\ TabOK'
<1> DEFINE c == NewCall("load", call[r].form)
<1>1. /\ cookie \in Requests \cup {None} /\ (cookie # None => request[cookie].pc = "answered")
  BY DEF TabIInv, SessionInv, CookieOK
<1>3. /\ AnsweredStay /\ RowsStay /\ AllTold' /\ call[q].by = "none"
      /\ request'[q].kind = "me"
      /\ \A s \in Requests \ {q} : request'[s] = request[s]
  BY <1>1, Sending DEF FormSucceeds
<1>4. /\ call[r].by = "form" /\ call' = [call EXCEPT ![r] = NoCall, ![q] = c]
      /\ status' \in {"authenticated", "loading"}
      /\ UNCHANGED <<path, nav, pending, loggingOut, overtaken>>
  BY DEF FormSucceeds, Loading
<1>5. /\ call \in [Requests -> CallType] /\ path \in Pages /\ nav \in Pages \cup {None}
      /\ \A s \in Requests : CallOK(s)
  BY DEF TabIInv, TabOK
<1>6. c \in CallType /\ c.by = "load" /\ c.form = call[r].form /\ ~c.heard /\ r # q
  BY <1>3, <1>4, <1>5 DEF NewCall, CallType
<1>7. NoCall \in CallType /\ NoCall.by = "none" /\ NoCall.form = "none" /\ ~NoCall.heard
  BY DEF NoCall, NewCall, CallType
<1> HIDE DEF c
<1>8. /\ call' \in [Requests -> CallType] /\ call'[r] = NoCall /\ call'[q] = c
      /\ \A s \in Requests \ {r, q} : call'[s] = call[s]
  BY <1>4, <1>5, <1>6, <1>7
<1>9. ASSUME NEW s \in Requests PROVE CallOK(s)'
  BY <1>3, <1>4, <1>5, <1>6, <1>7, <1>8 DEF CallOK
<1>10. Asked'
  BY <1>6, <1>8 DEF Asked
<1>11. Here => Here'
  <2> SUFFICES ASSUME NEW s \in Requests, call[s].form = "here" PROVE Here'
    BY DEF Here
  <2>1. s # q
    BY <1>3, <1>5 DEF CallOK
  <2>2. CASE s = r
    BY <1>6, <1>8, <2>2 DEF Here
  <2>3. CASE s # r
    BY <1>8, <2>1, <2>3 DEF Here
  <2> QED BY <2>2, <2>3
<1>12. PendingOK'
  BY <1>4, <1>11 DEF PendingOK, TabIInv, TabOK
<1>13. StatusFollowsCookie' /\ StrangersAreLed'
  BY <1>4, <1>10 DEF StatusFollowsCookie, StrangersAreLed
<1>14. (loggingOut => \E s \in Requests : call[s].by = "logout")'
  BY <1>3, <1>4, <1>8 DEF TabIInv, TabOK
<1> QED BY <1>3, <1>4, <1>5, <1>8, <1>9, <1>10, <1>12, <1>13, <1>14 DEF TabOK

\* The form's call, or the log-out, has failed.
LEMMA FailuresTell ==
    ASSUME TabIInv, NEW r \in Requests, FormFails(r) \/ LogOutFails(r)
    PROVE  AllTold' /\ TabOK'
<1>1. AnsweredStay /\ RowsStay /\ AllTold' /\ request' = request
  BY NothingSent DEF FormFails, LogOutFails, CallFails, authVars
<1>2. /\ call[r].by \in {"form", "logout"} /\ call' = [call EXCEPT ![r] = NoCall]
      /\ misled' = (misled \/ call[r].heard)
      /\ UNCHANGED <<cookie, status, shown, path, nav, overtaken>>
  BY DEF FormFails, LogOutFails, CallFails
<1>3. NoCall \in CallType /\ NoCall.by = "none" /\ NoCall.form = "none" /\ ~NoCall.heard
  BY DEF NoCall, NewCall, CallType
<1>4. call'[r] = NoCall /\ call[r] \in CallType /\ CallOK(r)
  BY <1>2 DEF TabIInv, TabOK
<1>5. CallOK(r)'
  BY <1>3, <1>4 DEF CallOK
<1>6. /\ call' \in [Requests -> CallType] /\ path' \in Pages /\ \A s \in Requests : CallOK(s)'
      /\ \A s \in Requests \ {r} : call'[s] = call[s]
  BY <1>1, <1>2, <1>3, <1>5, CallsStay
<1>7. Asked' = Asked /\ (Heard => Heard' \/ call[r].heard)
  BY <1>2, <1>3, <1>4, <1>6 DEF Asked, Heard
<1>8. StatusFollowsCookie'
  BY <1>1, <1>2, <1>7, StatusStaysTrue
<1>9. StrangersAreLed' /\ (status = "loading" => Asked)'
  BY <1>2, <1>7 DEF TabIInv, TabOK, StrangersAreLed
<1>10. PendingOK'
  <2>1. CASE call[r].form = "here"
    <3>1. pending' = FALSE
      BY <1>4, <2>1 DEF FormFails, LogOutFails, CallOK
    <3> QED BY <3>1 DEF PendingOK
  <2>2. CASE call[r].form # "here"
    <3>1. Here => Here'
      BY <1>6, <2>2 DEF Here
    <3>2. pending' = pending
      BY <2>2 DEF FormFails, LogOutFails
    <3> QED BY <1>2, <3>1, <3>2 DEF PendingOK, TabIInv, TabOK
  <2> QED BY <2>1, <2>2
<1>11. (loggingOut => \E s \in Requests : call[s].by = "logout")'
  <2>1. CASE FormFails(r)
    BY <1>6, <2>1 DEF FormFails, TabIInv, TabOK
  <2>2. CASE LogOutFails(r)
    BY <2>2 DEF LogOutFails
  <2> QED BY <2>1, <2>2
<1> QED BY <1>1, <1>2, <1>6, <1>7, <1>8, <1>9, <1>10, <1>11 DEF TabIInv, TabOK

\* The headers of an answer are there: what the status says of the cookie waits.
LEMMA HeadersTell ==
    ASSUME TabIInv, NEW r \in Requests, HeadersArrive(r)
    PROVE  AllTold' /\ TabOK'
<1> DEFINE c == [call[r] EXCEPT !.heard = TRUE]
<1>1. AllTold' /\ request' = request
  BY NothingSent DEF HeadersArrive, authVars
<1>2. /\ call[r].by \in {"form", "logout"} /\ call' = [call EXCEPT ![r] = c]
      /\ UNCHANGED <<status, path, nav, pending, loggingOut, overtaken>>
  BY DEF HeadersArrive
<1>3. call[r] \in CallType /\ CallOK(r)
  BY DEF TabIInv, TabOK
<1>4. c \in CallType /\ c.by = call[r].by /\ c.form = call[r].form /\ c.heard
  BY <1>3 DEF CallType
<1> HIDE DEF c
<1>5. call'[r] = c
  BY <1>2 DEF TabIInv, TabOK
<1>6. CallOK(r)'
  BY <1>1, <1>2, <1>3, <1>4, <1>5 DEF CallOK
<1>7. /\ call' \in [Requests -> CallType] /\ path' \in Pages /\ \A s \in Requests : CallOK(s)'
      /\ \A s \in Requests \ {r} : call'[s] = call[s]
  BY <1>1, <1>2, <1>4, <1>6, CallsStay
<1>8. Heard' /\ Asked' = Asked /\ Here' = Here
  BY <1>4, <1>5, <1>7 DEF Heard, Asked, Here
<1>9. (loggingOut => \E s \in Requests : call[s].by = "logout")'
  BY <1>2, <1>4, <1>5, <1>7 DEF TabIInv, TabOK
<1>10. PendingOK' /\ StrangersAreLed' /\ StatusFollowsCookie'
  BY <1>2, <1>8 DEF PendingOK, StrangersAreLed, StatusFollowsCookie, TabIInv, TabOK
<1> QED BY <1>1, <1>2, <1>7, <1>8, <1>9, <1>10 DEF TabIInv, TabOK

\* The log-out has succeeded: nobody is shown, and the cookie is gone unless a form
\* was given one since.
LEMMA LogOutSucceedsTells ==
    ASSUME TabIInv, NEW r \in Requests, LogOutSucceeds(r)
    PROVE  AllTold' /\ TabOK'
<1> USE SessionAssumption
<1>1. AnsweredStay /\ RowsStay /\ AllTold' /\ request' = request
  BY NothingSent DEF LogOutSucceeds, authVars
<1>2. /\ call[r].by = "logout" /\ call' = [call EXCEPT ![r] = NoCall]
      /\ status' = "unauthenticated" /\ loggingOut' = FALSE /\ nav' = "login"
      /\ overtaken' = (overtaken \/ (pending /\ ~Here))
      /\ misled' = (cookie # None) /\ UNCHANGED <<cookie, path, pending>>
  BY DEF LogOutSucceeds
<1>3. NoCall \in CallType /\ NoCall.by = "none" /\ NoCall.form = "none" /\ ~NoCall.heard
  BY DEF NoCall, NewCall, CallType
<1>4. call'[r] = NoCall /\ call[r] \in CallType /\ CallOK(r)
  BY <1>2 DEF TabIInv, TabOK
<1>5. CallOK(r)'
  BY <1>3, <1>4 DEF CallOK
<1>6. /\ call' \in [Requests -> CallType] /\ path' \in Pages /\ \A s \in Requests : CallOK(s)'
      /\ \A s \in Requests \ {r} : call'[s] = call[s]
  BY <1>1, <1>2, <1>3, <1>5, CallsStay
<1>8. StatusFollowsCookie'
  BY <1>2 DEF StatusFollowsCookie
<1>9. Here => Here'
  BY <1>2, <1>4, <1>6 DEF Here, CallOK
<1>10. PendingOK'
  BY <1>2, <1>9 DEF PendingOK, TabIInv, TabOK
<1>11. StrangersAreLed' /\ nav' \in Pages \cup {None}
  BY <1>2 DEF StrangersAreLed, Pages, Public
<1> QED BY <1>1, <1>2, <1>6, <1>8, <1>10, <1>11 DEF TabOK

\* The steps of the API leave the tab as it is.
LEMMA HandlersTell ==
    ASSUME TabIInv, HandlersStep
    PROVE  AllTold' /\ TabOK'
<1>1. UNCHANGED <<cookie, status, shown, path, nav, pending, loggingOut, call, misled, overtaken>>
  BY DEF HandlersStep, tabVars
<1>2. AccountsOK /\ AllTold
  BY DEF TabIInv, SessionInv, AllTold
<1>3. PICK r \in Requests : HandlerStep(r) \/ Sweeps(r) \/ Expires(r)
  BY DEF HandlersStep
<1>4. AnsweredStay
  BY <1>2, <1>3, HandlerIsSound, Sweeping, Expiring
<1>5. RowsStay /\ AllTold'
  BY <1>2, <1>3, <1>4, HandlerTells, AgeTells
<1>6. Asked' = Asked /\ Heard' = Heard /\ Here' = Here
  BY <1>1 DEF Asked, Heard, Here
<1>7. StatusFollowsCookie'
  BY <1>1, <1>4, <1>5, <1>6, StatusStaysTrue
<1>8. \A s \in Requests : request'[s].kind = request[s].kind
  <2>1. request \in [Requests -> RequestType]
    BY <1>2 DEF AccountsOK, TablesTyped
  <2>2. CASE HandlerStep(r)
    <3>1. \A s \in Requests \ {r} : request'[s] = request[s]
      BY <2>1, <2>2 DEF HandlerStep, ReadsBody, LooksForConflict, LooksUp, InsertsUser,
            InsertsSession, DeletesSession, FindsSession, FindsUser, Fails, Answers, Waits, Becomes
    <3>2. request[r] \in RequestType
      BY <2>1
    <3>3. ASSUME NEW given, NEW sets, Answers(r, given, sets)
          PROVE  request'[r].kind = request[r].kind
      BY <2>1, <3>2, <3>3 DEF Answers, Becomes, RequestType
    <3>4. ASSUME NEW pc, NEW u, \/ Waits(r, pc)
                                \/ Becomes(r, [request[r] EXCEPT !.pc = pc, !.user = u])
          PROVE  request'[r].kind = request[r].kind
      BY <2>1, <3>2, <3>4 DEF Waits, Becomes, RequestType
    <3>5. request'[r].kind = request[r].kind
      BY <2>2, <3>3, <3>4, Zenon DEF HandlerStep, ReadsBody, LooksForConflict, LooksUp, InsertsUser,
            InsertsSession, DeletesSession, FindsSession, FindsUser, Fails
    <3> QED BY <3>1, <3>5
  <2>3. CASE Sweeps(r) \/ Expires(r)
    BY <2>3 DEF Sweeps, Expires
  <2> QED BY <1>3, <2>2, <2>3
<1>9. \A s \in Requests : CallOK(s)'
  BY <1>1, <1>8 DEF TabIInv, TabOK, CallOK
<1>10. PendingOK' /\ StrangersAreLed'
  BY <1>1, <1>6 DEF PendingOK, StrangersAreLed, TabIInv, TabOK
<1> QED BY <1>1, <1>5, <1>6, <1>7, <1>9, <1>10 DEF TabIInv, TabOK

LEMMA TabStays ==
    ASSUME TabIInv, [SessionNext]_sessionVars
    PROVE  TabIInv'
<1>1. SessionInv'
  BY NextIsSound DEF TabIInv
<1>2. AllTold' /\ TabOK'
  <2>1. ASSUME NEW r \in Requests, Settles(r) PROVE AllTold' /\ TabOK'
    <3>1. CASE Loads(r, GivenUp)
      BY <3>1, LoadsTells DEF GivenUp
    <3>2. CASE request[r].pc = "answered" /\ Loads(r, request[r].status)
      BY <3>2, LoadsTells
    <3>3. CASE (\E q \in Requests : FormSucceeds(r, q)) \/ LogOutSucceeds(r)
      BY <3>3, FormSucceedsTells, LogOutSucceedsTells
    <3> QED BY <2>1, <3>1, <3>2, <3>3, FailuresTell DEF Settles
  <2>2. CASE UNCHANGED sessionVars
    <3>1. UNCHANGED authVars /\ UNCHANGED tabVars
      BY <2>2 DEF sessionVars
    <3>2. AnsweredStay /\ RowsStay /\ AllTold' /\ request' = request
      BY <3>1, NothingSent DEF authVars
    <3>3. Asked' = Asked /\ Heard' = Heard /\ Here' = Here
      BY <3>1 DEF tabVars, Asked, Heard, Here
    <3>4. StatusFollowsCookie'
      BY <3>1, <3>2, <3>3, StatusStaysTrue DEF tabVars
    <3>5. \A s \in Requests : CallOK(s)'
      BY <3>1, <3>2 DEF tabVars, TabIInv, TabOK, CallOK
    <3>6. PendingOK' /\ StrangersAreLed'
      BY <3>1, <3>3 DEF tabVars, PendingOK, StrangersAreLed, TabIInv, TabOK
    <3> QED BY <3>1, <3>2, <3>3, <3>4, <3>5, <3>6 DEF tabVars, TabIInv, TabOK
  <2> QED BY <2>1, <2>2, HandlersTell, HeadersTell, SubmitsTells, LogsOutTells, RetriesTells, OpensTells,
             NavigatesTells, GoesTells DEF SessionNext
<1> QED BY <1>1, <1>2 DEF TabIInv, AllTold

LEMMA InitIsTold == SessionInit => TabIInv
<1> SUFFICES ASSUME SessionInit PROVE TabIInv
  OBVIOUS
<1>1. SessionInv
  BY InitIsSound
<1>2. /\ cookie = (IF sessions[0] = None THEN None ELSE 0)
      /\ status = "closed" /\ shown = None /\ path = "home" /\ nav = None
      /\ pending = FALSE /\ loggingOut = FALSE
      /\ call = [r \in Requests |-> NoCall]
  BY DEF SessionInit
<1>3. NoCall \in CallType /\ NoCall.by = "none" /\ NoCall.form = "none" /\ ~NoCall.heard
  BY DEF NoCall, NewCall, CallType
<1>4. TabOK
  <2>1. call \in [Requests -> CallType] /\ \A r \in Requests : call[r] = NoCall
    BY <1>2, <1>3
  <2>2. \A r \in Requests : CallOK(r)
    BY <1>3, <2>1 DEF CallOK
  <2> QED BY <1>2, <2>1, <2>2 DEF TabOK, PendingOK, StatusFollowsCookie, StrangersAreLed, Pages, Public
<1>5. ASSUME NEW r \in Requests PROVE Told(r)
  <2>1. NewRequest.pc = "none" /\ NewRequest.kind = "none"
    BY DEF NewRequest
  <2>2. CASE request[r].pc = "none" /\ sessions[r] = None
    BY <2>2 DEF Told
  <2>3. CASE request[r].pc = "answered" /\ request[r].kind \in {"signup", "login"}
             /\ (sessions[r] # None => sessions[r].user = request[r].user)
    BY <2>3 DEF Told
  <2>4. \/ request[r].pc = "none" /\ sessions[r] = None
        \/ /\ request[r].pc = "answered" /\ request[r].kind \in {"signup", "login"}
           /\ sessions[r] # None => sessions[r].user = request[r].user
    <3> DEFINE denied == [NewRequest EXCEPT !.kind = "login", !.pc = "answered", !.status = "denied"]
               a == CHOOSE b \in Addresses : TRUE
               p == CHOOSE q \in Passwords : TRUE
               s0 == [user |-> 0, expired |-> FALSE]
               r0 == [NewRequest EXCEPT !.kind = "signup", !.pc = "answered", !.address = a,
                                        !.password = p, !.user = 0, !.status = "ok", !.sets = "set"]
    <3>1. \/ /\ sessions = [q \in Requests |-> None]
             /\ request = [q \in Requests |-> IF q # 0 THEN NewRequest ELSE denied]
          \/ /\ sessions = [q \in Requests |-> IF q # 0 THEN None ELSE s0]
             /\ request = [q \in Requests |-> IF q # 0 THEN NewRequest ELSE r0]
      BY Zenon DEF SessionInit, AuthInit
    <3>2. denied.pc = "answered" /\ denied.kind = "login"
      BY DEF NewRequest
    <3>3. r0.pc = "answered" /\ r0.kind = "signup" /\ r0.user = s0.user
      BY DEF NewRequest
    <3> HIDE DEF denied, r0, s0
    <3> QED BY <2>1, <3>1, <3>2, <3>3
  <2> QED BY <2>2, <2>3, <2>4
<1> QED BY <1>1, <1>4, <1>5 DEF TabIInv

\* However calls, answers, pages and log-outs overtake each other: with nothing under
\* way that could change it, and no failed call that has, the status is that of the
\* browser's cookie (StatusFollowsCookie, client.ts:66-95); whatever
\* makes the page wait is under way; and no page for known users is left to a
\* stranger.
THEOREM TabIsTrue == SessionSpec => []TabInv
<1>1. SessionInit => TabIInv
  BY InitIsTold
<1>2. TabIInv /\ [SessionNext]_sessionVars => TabIInv'
  BY TabStays
<1>3. TabIInv => TabInv
  BY SessionAssumption DEF TabIInv, TabOK, TabInv, WaitsAreBacked, PendingOK, Pages
<1> QED BY <1>1, <1>2, <1>3, PTL DEF SessionSpec
====
