----------------------------- MODULE ChatProofs -----------------------------
(***************************************************************************)
(* The proofs about ChatSession: for any number of calls and deltas, what  *)
(* a chat window shows as under way has one call behind it.                *)
(***************************************************************************)
EXTENDS ChatSession, SequenceTheorems, TLAPS

\* No two bubbles share a name.
Distinct(list) == \A i, j \in DOMAIN list :
    list[i].role = list[j].role /\ list[i].id = list[j].id => i = j

\* Only a named question waits, only a named reply grows, only a question fails.
Fits(m) ==
    /\ m.status = "pending" => m.role = "user" /\ m.temp
    /\ m.status = "streaming" => m.role = "assistant" /\ m.temp
    /\ m.status = "failed" => m.role = "user"

\* The names in use: those of the calls that were made.
Made(a) == attempt[a].phase # "unused"

BubblesFit ==
    /\ Distinct(messages)
    /\ \A i \in DOMAIN messages : Fits(messages[i]) /\ Made(messages[i].id)

\* A call answers a question, and no two calls under way the same one.
CallsFit ==
    /\ \A a \in Attempts : Made(a) => attempt[a].user \in Attempts /\ Made(attempt[a].user)
    /\ \A a, b \in Attempts :
          InFlight(a) /\ InFlight(b) /\ attempt[a].user = attempt[b].user => a = b

\* A reply shows what was read for it, which is part of what arrived.
TextFits ==
    /\ \A a \in Attempts :
          attempt[a].read <= reply[a].deltas /\ (~Made(a) => attempt[a].read = 0)
    /\ \A i \in DOMAIN messages : LET m == messages[i] IN
          m.role = "assistant" /\ m.temp => m.text = attempt[m.id].read

\* The window's controller is that of a call under way; after the unmount there
\* is none.
ControllerFits ==
    /\ controller # None => mounted /\ InFlight(controller)
    /\ mounted /\ pending # None => controller # None /\ attempt[controller].user = pending

\* The question of a call under way is the one shown as pending.
QuestionsWait == mounted => \A a \in Attempts, i \in DOMAIN messages :
    InFlight(a) /\ messages[i].role = "user" /\ messages[i].id = attempt[a].user
        => messages[i].status = "pending"

ChatIInv ==
    /\ ChatTypeOK /\ BubblesFit /\ CallsFit /\ TextFits /\ ControllerFits
    /\ OneLiveAttempt /\ NoStuckBubble /\ QuestionsWait

-----------------------------------------------------------------------------
(* Lists of bubbles.                                                       *)

LEMMA MadeIsFresh ==
    ASSUME CanDispatch
    PROVE  NextAttempt \in Attempts /\ ~Made(NextAttempt)
BY DEF CanDispatch, NextAttempt, Made

Shortened(new, list, i) ==
    /\ DOMAIN new = 1..(Len(list) - 1)
    /\ \A k \in DOMAIN new : new[k] = IF k < i THEN list[k] ELSE list[k + 1]

\* Taking one element out of a list moves those behind it one place forward.
LEMMA OneGoes ==
    ASSUME NEW S, NEW list \in Seq(S), NEW i \in DOMAIN list, NEW new,
           new = SubSeq(list, 1, i - 1) \o SubSeq(list, i + 1, Len(list))
    PROVE  new \in Seq(S) /\ Shortened(new, list, i)
<1> DEFINE front == SubSeq(list, 1, i - 1)
           back == SubSeq(list, i + 1, Len(list))
           n == Len(list)
<1>1. /\ n \in Nat /\ i \in Nat /\ 1 <= i /\ i <= n
      /\ \A k \in 1..n : list[k] \in S
  BY LenProperties, ElementOfSeq
<1> HIDE DEF n
<1>2. /\ front \in Seq(S) /\ Len(front) = i - 1
      /\ \A k \in 1..(i - 1) : front[k] = list[k]
  <2>1. 1 \in Int /\ i - 1 \in Int /\ \A k \in 1..(i - 1) : list[k] \in S
    BY <1>1
  <2>2. /\ front \in Seq(S)
        /\ Len(front) = IF 1 <= i - 1 THEN (i - 1) - 1 + 1 ELSE 0
        /\ \A k \in 1..((i - 1) - 1 + 1) : front[k] = list[1 + k - 1]
    BY <2>1, SubSeqProperties
  <2> HIDE DEF front
  <2> QED BY <1>1, <2>2
<1>3. /\ back \in Seq(S) /\ Len(back) = n - i
      /\ \A k \in 1..(n - i) : back[k] = list[i + k]
  <2>1. i + 1 \in Int /\ n \in Int /\ \A k \in (i + 1)..n : list[k] \in S
    BY <1>1
  <2>2. /\ SubSeq(list, i + 1, n) \in Seq(S)
        /\ Len(SubSeq(list, i + 1, n)) = IF i + 1 <= n THEN n - (i + 1) + 1 ELSE 0
        /\ \A k \in 1..(n - (i + 1) + 1) : SubSeq(list, i + 1, n)[k] = list[(i + 1) + k - 1]
    BY <2>1, SubSeqProperties
  <2>3. back = SubSeq(list, i + 1, n)
    BY DEF n
  <2> HIDE DEF back
  <2> QED BY <1>1, <2>2, <2>3
<1>4. new = front \o back
  OBVIOUS
<1> HIDE DEF front, back
<1>5. /\ new \in Seq(S)
      /\ Len(new) = (i - 1) + (n - i)
      /\ \A k \in 1..((i - 1) + (n - i)) :
            new[k] = IF k <= i - 1 THEN front[k] ELSE back[k - (i - 1)]
  <2>1. front \in Seq(S) /\ back \in Seq(S)
    BY <1>2, <1>3
  <2>2. /\ front \o back \in Seq(S)
        /\ Len(front \o back) = Len(front) + Len(back)
        /\ \A k \in 1..(Len(front) + Len(back)) :
              (front \o back)[k] = IF k <= Len(front) THEN front[k] ELSE back[k - Len(front)]
    BY <2>1, ConcatProperties
  <2>3. Len(front) = i - 1 /\ Len(back) = n - i
    BY <1>2, <1>3
  <2>4. /\ new \in Seq(S)
        /\ Len(new) = Len(front) + Len(back)
        /\ \A k \in 1..(Len(front) + Len(back)) :
              new[k] = IF k <= Len(front) THEN front[k] ELSE back[k - Len(front)]
    BY <1>4, <2>2, Zenon
  <2> QED BY <2>3, <2>4, Zenon
<1>6. DOMAIN new = 1..(n - 1)
  <2>1. Len(new) = n - 1
    BY <1>1, <1>5
  <2>2. DOMAIN new = 1..Len(new)
    <3>1. new \in Seq(S)
      BY <1>5
    <3> QED BY <3>1, LenProperties
  <2> QED BY <2>1, <2>2, Zenon
<1>7. ASSUME NEW k \in 1..(n - 1)
      PROVE  new[k] = IF k < i THEN list[k] ELSE list[k + 1]
  <2>1. k \in 1..((i - 1) + (n - i))
    BY <1>1
  <2>2. CASE k < i
    BY <1>1, <1>2, <1>5, <2>1, <2>2
  <2>3. CASE ~(k < i)
    <3>1. k - (i - 1) \in 1..(n - i) /\ i + (k - (i - 1)) = k + 1 /\ ~(k <= i - 1)
      BY <1>1, <2>3
    <3>2. back[k - (i - 1)] = list[k + 1]
      BY <1>3, <3>1
    <3> QED BY <1>5, <2>1, <2>3, <3>1, <3>2
  <2> QED BY <2>2, <2>3
<1>8. new \in Seq(S)
  BY <1>5
<1> QED BY <1>6, <1>7, <1>8 DEF n, Shortened

\* A list relabelled in place is a list.
LEMMA Relabelled ==
    ASSUME NEW S, NEW T, NEW list \in Seq(S), NEW new \in [DOMAIN list -> T]
    PROVE  new \in Seq(T) /\ DOMAIN new = DOMAIN list
<1>1. Len(list) \in Nat /\ DOMAIN list = 1..Len(list)
  BY LenProperties
<1>2. new \in [1..Len(list) -> T]
  BY <1>1
<1> QED BY <1>1, <1>2

\* new is list without the places gone, in the same order: g says where each of
\* its elements stood.
Drawn(new, list, gone, g) ==
    /\ g \in [DOMAIN new -> DOMAIN list \ gone]
    /\ \A k, l \in DOMAIN new : g[k] = g[l] => k = l
    /\ \A k \in DOMAIN new : new[k] = list[g[k]]
    /\ \A j \in DOMAIN list \ gone : \E k \in DOMAIN new : g[k] = j

\* What Without leaves, when one bubble at most has the name.
LEMMA Leaves ==
    ASSUME NEW S, NEW list \in Seq(S), NEW gone \in SUBSET (DOMAIN list),
           \A i, j \in gone : i = j, NEW new,
           new = IF gone = {} THEN list
                 ELSE LET i == CHOOSE i \in gone : TRUE
                      IN SubSeq(list, 1, i - 1) \o SubSeq(list, i + 1, Len(list))
    PROVE  new \in Seq(S) /\ \E g : Drawn(new, list, gone, g)
<1>1. CASE gone = {}
  <2>1. new = list
    BY <1>1
  <2> DEFINE g == [k \in DOMAIN new |-> k]
  <2>2. Drawn(new, list, gone, g)
    BY <1>1, <2>1 DEF Drawn
  <2> QED BY <2>1, <2>2
<1>2. CASE gone # {}
  <2> DEFINE i == CHOOSE i \in gone : TRUE
  <2>1. i \in gone /\ i \in DOMAIN list /\ gone = {i}
    BY <1>2
  <2>2. new = SubSeq(list, 1, i - 1) \o SubSeq(list, i + 1, Len(list))
    BY <1>2
  <2> HIDE DEF i
  <2>3. /\ new \in Seq(S)
        /\ DOMAIN new = 1..(Len(list) - 1)
        /\ \A k \in DOMAIN new : new[k] = IF k < i THEN list[k] ELSE list[k + 1]
    <3>1. new \in Seq(S) /\ Shortened(new, list, i)
      BY <2>1, <2>2, OneGoes, Zenon
    <3> QED BY <3>1 DEF Shortened
  <2>4. Len(list) \in Nat /\ DOMAIN list = 1..Len(list)
    BY LenProperties
  <2> DEFINE n == Len(list)
             g == [k \in DOMAIN new |-> IF k < i THEN k ELSE k + 1]
  <2> HIDE DEF n
  <2>5. n \in Nat /\ i \in 1..n /\ DOMAIN list = 1..n /\ DOMAIN new = 1..(n - 1)
    BY <2>1, <2>3, <2>4 DEF n
  <2>6. g \in [DOMAIN new -> DOMAIN list \ gone]
    BY <2>1, <2>5
  <2>7. \A k, l \in DOMAIN new : g[k] = g[l] => k = l
    BY <2>5
  <2>8. ASSUME NEW k \in DOMAIN new
        PROVE  new[k] = list[g[k]]
    <3>1. g[k] = IF k < i THEN k ELSE k + 1
      OBVIOUS
    <3> HIDE DEF g
    <3> QED BY <2>3, <3>1
  <2>9. ASSUME NEW j \in DOMAIN list \ gone
        PROVE  \E k \in DOMAIN new : g[k] = j
    <3>1. j \in 1..n /\ j # i
      BY <2>1, <2>5
    <3>2. CASE j < i
      <4>1. j \in DOMAIN new /\ g[j] = j
        BY <2>5, <3>1, <3>2
      <4> QED BY <4>1
    <3>3. CASE ~(j < i)
      <4>1. j - 1 \in 1..(n - 1) /\ ~(j - 1 < i) /\ (j - 1) + 1 = j
        BY <2>5, <3>1, <3>3
      <4>2. j - 1 \in DOMAIN new
        BY <2>5, <4>1
      <4>3. g[j - 1] = (j - 1) + 1
        BY <4>1, <4>2
      <4> QED BY <4>1, <4>2, <4>3
    <3> QED BY <3>2, <3>3
  <2> HIDE DEF g
  <2>10. Drawn(new, list, gone, g)
    BY <2>6, <2>7, <2>8, <2>9 DEF Drawn
  <2> QED BY <2>3, <2>10
<1> QED BY <1>1, <1>2

\* A step keeps every answered question of the list, as answered.
AnswersStay == \A j \in DOMAIN messages :
    messages[j].role = "user" /\ messages[j].status = "ok" =>
        \E k \in DOMAIN messages' :
            messages'[k].role = "user" /\ messages'[k].id = messages[j].id /\ messages'[k].status = "ok"

\* A reply has the server's row only if it had it before, or since its own call
\* is confirmed by the step; its text stays.
RepliesStay == \A k \in DOMAIN messages' :
    messages'[k].role = "assistant" /\ ~messages'[k].temp =>
        \E j \in DOMAIN messages :
            /\ messages[j].role = "assistant" /\ messages[j].id = messages'[k].id
            /\ messages[j].text = messages'[k].text
            /\ messages[j].temp =>
                  InFlight(messages[j].id) /\ attempt'[messages[j].id].phase = "confirmed"

\* A call that has settled stays as it is.
SettledStay == \A b \in Attempts : Made(b) /\ ~InFlight(b) => attempt'[b] = attempt[b]

Onward == AnswersStay /\ RepliesStay /\ SettledStay

\* What a proof about one bubble needs of the type invariant.
LEMMA ElementTypes ==
    ASSUME ChatSessionAssumption, ChatTypeOK
    PROVE  /\ \A i \in DOMAIN messages : messages[i] \in Bubble
           /\ \A a \in Attempts : attempt[a] \in Attempt /\ reply[a] \in Reply
           /\ None \notin Attempts /\ \A a \in Attempts : a \in Nat
           /\ MaxDeltas \in Nat
<1>1. \A i \in DOMAIN messages : messages[i] \in Bubble
  BY LenProperties, ElementOfSeq DEF ChatTypeOK
<1> QED BY <1>1 DEF ChatTypeOK, ChatSessionAssumption, Attempts, None

-----------------------------------------------------------------------------
(* A call settles.                                                         *)

\* What becomes of a bubble when the call a for the question n settles.
After(m, new, n, a) ==
    /\ new.role = m.role /\ new.id = m.id /\ new.text = m.text
    /\ new.temp => m.temp
    /\ IF IsUser(m, n) \/ IsPlaceholder(m, a)
       THEN new.status = "ok" \/ (new.status = "failed" /\ m.role = "user")
       ELSE new = m

\* The list after it: some of the bubbles, each of them as After says.
Settled(a) == \E g \in [DOMAIN messages' -> DOMAIN messages] :
    /\ \A k, l \in DOMAIN messages' : g[k] = g[l] => k = l
    /\ \A k \in DOMAIN messages' : After(messages[g[k]], messages'[k], attempt[a].user, a)

\* The calls and the lock of the window after it.
LEMMA SettledCalls ==
    ASSUME ChatSessionAssumption, ChatIInv, NEW a \in Attempts, InFlight(a),
           NEW outcome \in Outcomes, Settle(a, outcome)
    PROVE  /\ attempt' \in [Attempts -> Attempt]
           /\ \A b \in Attempts :
                 /\ attempt'[b].user = attempt[b].user /\ attempt'[b].cut = attempt[b].cut
                 /\ attempt'[b].read = attempt[b].read
                 /\ attempt'[b].phase = "inflight" <=> InFlight(b) /\ b # a
                 /\ attempt'[b].phase # "unused" <=> Made(b)
           /\ pending' \in Attempts \cup {None} /\ controller' \in Attempts \cup {None}
           /\ mounted' = mounted
<1>1. attempt \in [Attempts -> Attempt] /\ attempt[a] \in Attempt
  BY DEF ChatIInv, ChatTypeOK
<1> DEFINE rec == [attempt[a] EXCEPT !.phase = outcome]
<1>2. /\ rec \in Attempt /\ rec.phase = outcome /\ rec.user = attempt[a].user
      /\ rec.cut = attempt[a].cut /\ rec.read = attempt[a].read
  BY <1>1 DEF Attempt
<1>3. attempt' = [attempt EXCEPT ![a] = rec]
  BY DEF Settle
<1> HIDE DEF rec
<1>4. attempt' \in [Attempts -> Attempt]
  BY <1>1, <1>2, <1>3
<1>5. \A b \in Attempts : attempt'[b] = IF b = a THEN rec ELSE attempt[b]
  BY <1>1, <1>3
<1>6. outcome # "inflight" /\ outcome # "unused"
  BY DEF Outcomes
<1>7. pending' \in Attempts \cup {None} /\ controller' \in Attempts \cup {None} /\ mounted' = mounted
  BY DEF Settle, ChatIInv, ChatTypeOK
<1>8. \A b \in Attempts :
         /\ attempt'[b].user = attempt[b].user /\ attempt'[b].cut = attempt[b].cut
         /\ attempt'[b].read = attempt[b].read
  BY <1>2, <1>5
<1>9. \A b \in Attempts :
         /\ attempt'[b].phase = "inflight" <=> InFlight(b) /\ b # a
         /\ attempt'[b].phase # "unused" <=> Made(b)
  BY <1>2, <1>5, <1>6 DEF InFlight, Made
<1> QED BY <1>4, <1>7, <1>8, <1>9

LEMMA Settling ==
    ASSUME ChatSessionAssumption, ChatIInv, NEW a \in Attempts, InFlight(a),
           NEW outcome \in Outcomes, Settle(a, outcome), UNCHANGED reply,
           messages' \in Seq(Bubble),
           ~mounted => messages' = messages, mounted => Settled(a)
    PROVE  ChatIInv'
<1>1. /\ attempt' \in [Attempts -> Attempt]
      /\ pending' \in Attempts \cup {None} /\ controller' \in Attempts \cup {None}
      /\ mounted' = mounted
  BY SettledCalls
<1>2. \A b \in Attempts :
         /\ attempt'[b].user = attempt[b].user /\ attempt'[b].cut = attempt[b].cut
         /\ attempt'[b].read = attempt[b].read
         /\ attempt'[b].phase = "inflight" <=> InFlight(b) /\ b # a
         /\ attempt'[b].phase # "unused" <=> Made(b)
  BY SettledCalls
<1>3. ChatTypeOK'
  BY <1>1 DEF ChatIInv, ChatTypeOK
<1>4. /\ \A i \in DOMAIN messages : messages[i] \in Bubble
      /\ \A i \in DOMAIN messages' : messages'[i] \in Bubble
      /\ None \notin Attempts
  BY <1>3, ElementTypes, LenProperties, ElementOfSeq DEF ChatIInv
<1>5. CallsFit'
  BY <1>2 DEF ChatIInv, CallsFit, InFlight, Made
<1>6. OneLiveAttempt'
  BY <1>2 DEF ChatIInv, OneLiveAttempt, Reading, InFlight, Settle
<1>7. ControllerFits'
  <2>1. controller # None => mounted /\ InFlight(controller)
    BY DEF ChatIInv, ControllerFits
  <2>2. mounted /\ pending # None => controller # None /\ attempt[controller].user = pending
    BY DEF ChatIInv, ControllerFits
  <2>3. controller \in Attempts \cup {None}
    BY DEF ChatIInv, ChatTypeOK
  <2>4. controller' # None => mounted' /\ attempt'[controller'].phase = "inflight"
    BY <1>1, <1>2, <1>4, <2>1, <2>3 DEF Settle
  <2>5. mounted' /\ pending' # None => controller' # None /\ attempt'[controller'].user = pending'
    BY <1>1, <1>2, <1>4, <2>2, <2>3 DEF Settle
  <2> QED BY <2>4, <2>5 DEF ControllerFits, InFlight
<1>8. CASE ~mounted
  <2>1. BubblesFit' /\ TextFits'
    BY <1>2, <1>4, <1>8 DEF ChatIInv, BubblesFit, TextFits, Distinct, Bubble, Fits, Made
  <2>2. NoStuckBubble' /\ QuestionsWait'
    BY <1>1, <1>8 DEF NoStuckBubble, QuestionsWait
  <2> QED BY <1>3, <1>5, <1>6, <1>7, <2>1, <2>2 DEF ChatIInv
<1>9. CASE mounted
  <2>1. PICK g \in [DOMAIN messages' -> DOMAIN messages] :
           /\ \A k, l \in DOMAIN messages' : g[k] = g[l] => k = l
           /\ \A k \in DOMAIN messages' : After(messages[g[k]], messages'[k], attempt[a].user, a)
    BY <1>9 DEF Settled
  <2>2. \A k \in DOMAIN messages' :
           /\ g[k] \in DOMAIN messages /\ messages[g[k]] \in Bubble /\ messages[g[k]].id \in Attempts
           /\ Fits(messages[g[k]]) /\ Made(messages[g[k]].id)
    BY <1>4, <2>1 DEF ChatIInv, BubblesFit, Bubble
  <2>3. BubblesFit'
    <3>1. Distinct(messages)'
      BY <2>1, <2>2 DEF ChatIInv, BubblesFit, Distinct, After
    <3>2. \A k \in DOMAIN messages' : Fits(messages'[k])
      BY <2>1, <2>2 DEF Fits, After
    <3>3. \A k \in DOMAIN messages' : attempt'[messages'[k].id].phase # "unused"
      BY <1>2, <2>1, <2>2 DEF After
    <3> QED BY <3>1, <3>2, <3>3 DEF BubblesFit, Fits, Made
  <2>4. TextFits'
    <3>1. \A k \in DOMAIN messages' :
             messages[g[k]].role = "assistant" /\ messages[g[k]].temp
                => messages[g[k]].text = attempt[messages[g[k]].id].read
      BY <2>2 DEF ChatIInv, TextFits
    <3>2. \A k \in DOMAIN messages' :
             messages'[k].role = "assistant" /\ messages'[k].temp
                => messages'[k].text = attempt'[messages'[k].id].read
      BY <1>2, <2>1, <2>2, <3>1 DEF After
    <3>3. \A b \in Attempts :
           /\ attempt'[b].read <= reply'[b].deltas
           /\ attempt'[b].phase = "unused" => attempt'[b].read = 0
      BY <1>2 DEF ChatIInv, TextFits, Made
    <3> QED BY <3>2, <3>3 DEF TextFits, Made
  <2>5. NoStuckBubble'
    <3> SUFFICES ASSUME NEW k \in DOMAIN messages'
                 PROVE  /\ messages'[k].status = "pending" =>
                              \E b \in Attempts : attempt'[b].phase = "inflight"
                                                  /\ attempt'[b].user = messages'[k].id
                        /\ messages'[k].status = "streaming" =>
                              attempt'[messages'[k].id].phase = "inflight"
      BY DEF NoStuckBubble, InFlight
    <3> DEFINE m == messages[g[k]]
    <3>1. /\ m.status = "pending" => \E b \in Attempts : InFlight(b) /\ attempt[b].user = m.id
          /\ m.status = "streaming" => InFlight(m.id)
      BY <1>9, <2>2 DEF ChatIInv, NoStuckBubble
    <3>2. After(m, messages'[k], attempt[a].user, a) /\ Fits(m) /\ m.id \in Attempts
      BY <2>1, <2>2
    <3> HIDE DEF m
    <3> QED BY <1>2, <3>1, <3>2 DEF After, Fits, IsUser, IsPlaceholder
  <2>6. QuestionsWait'
    <3> SUFFICES ASSUME NEW b \in Attempts, NEW k \in DOMAIN messages',
                        attempt'[b].phase = "inflight",
                        messages'[k].role = "user", messages'[k].id = attempt'[b].user
                 PROVE  messages'[k].status = "pending"
      BY DEF QuestionsWait, InFlight
    <3> DEFINE m == messages[g[k]]
    <3>1. After(m, messages'[k], attempt[a].user, a)
      BY <2>1
    <3>2. InFlight(b) /\ b # a /\ attempt'[b].user = attempt[b].user
      BY <1>2
    <3>3. attempt[b].user # attempt[a].user
      BY <3>2 DEF ChatIInv, CallsFit
    <3>4. m.role = "user" /\ m.id = attempt[b].user
      BY <3>1, <3>2 DEF After
    <3>5. m.status = "pending"
      BY <1>9, <2>2, <3>2, <3>4 DEF ChatIInv, QuestionsWait
    <3> HIDE DEF m
    <3> QED BY <3>1, <3>3, <3>4, <3>5 DEF After, IsUser, IsPlaceholder
  <2> QED BY <1>3, <1>5, <1>6, <1>7, <2>3, <2>4, <2>5, <2>6 DEF ChatIInv
<1> QED BY <1>8, <1>9

LEMMA SameBubbles == ASSUME UNCHANGED messages PROVE AnswersStay /\ RepliesStay
BY DEF AnswersStay, RepliesStay

LEMMA OthersStaySettled ==
    ASSUME ChatIInv, NEW a \in Attempts, InFlight(a), NEW outcome \in Outcomes, Settle(a, outcome)
    PROVE  SettledStay /\ attempt'[a].phase = outcome
BY DEF ChatIInv, ChatTypeOK, Attempt, Settle, SettledStay, InFlight

LEMMA Finishing ==
    ASSUME ChatSessionAssumption, ChatIInv, NEW a \in Attempts, InFlight(a), NEW rows \in BOOLEAN,
           Finalize(a, rows), UNCHANGED reply
    PROVE  ChatIInv' /\ Onward
<1> DEFINE n == attempt[a].user
           Named(m) == IsUser(m, n) \/ IsPlaceholder(m, a)
           Final(m) == IF Named(m) THEN [m EXCEPT !.status = "ok", !.temp = ~rows] ELSE m
           outcome == IF rows THEN "confirmed" ELSE "unconfirmed"
           list == [i \in DOMAIN messages |-> Final(messages[i])]
<1>1. outcome \in Outcomes /\ Settle(a, outcome) /\ messages' = IF mounted THEN list ELSE messages
  BY DEF Finalize, Outcomes, Show, Map
<1>2. messages \in Seq(Bubble) /\ \A i \in DOMAIN messages : messages[i] \in Bubble
  BY ElementTypes DEF ChatIInv, ChatTypeOK
<1>3. ASSUME NEW i \in DOMAIN messages
      PROVE  /\ list[i] \in Bubble /\ After(messages[i], list[i], n, a)
             /\ messages[i].status = "ok" => list[i].status = "ok"
  <2>1. list[i] = Final(messages[i]) /\ messages[i] \in Bubble
    BY <1>2
  <2>2. CASE Named(messages[i])
    <3>1. list[i] = [messages[i] EXCEPT !.status = "ok", !.temp = ~rows]
      BY <2>1, <2>2
    <3>2. messages[i].temp
      BY <2>2 DEF IsUser, IsPlaceholder
    <3> HIDE DEF list
    <3> QED BY <2>1, <2>2, <3>1, <3>2 DEF Bubble, After
  <2>3. CASE ~Named(messages[i])
    <3>1. list[i] = messages[i]
      BY <2>1, <2>3
    <3> HIDE DEF list
    <3> QED BY <2>1, <2>3, <3>1 DEF After
  <2> QED BY <2>2, <2>3
<1>4. DOMAIN list = DOMAIN messages /\ list \in [DOMAIN messages -> Bubble]
  <2>1. \A i \in DOMAIN messages : Final(messages[i]) \in Bubble
    BY <1>3
  <2> HIDE DEF Final
  <2> QED BY <2>1
<1>5. list \in Seq(Bubble)
  <2> HIDE DEF list
  <2> QED BY <1>2, <1>4, Relabelled
<1> HIDE DEF list, outcome
<1>6. messages' \in Seq(Bubble) /\ (~mounted => messages' = messages)
  BY <1>1, <1>2, <1>5
<1>7. mounted => Settled(a)
  <2> SUFFICES ASSUME mounted PROVE Settled(a)
    OBVIOUS
  <2> DEFINE g == [k \in DOMAIN messages' |-> k]
  <2>1. messages' = list /\ DOMAIN messages' = DOMAIN messages
    BY <1>1, <1>4
  <2>2. g \in [DOMAIN messages' -> DOMAIN messages] /\ \A k \in DOMAIN messages' : g[k] = k
    BY <2>1
  <2> HIDE DEF g
  <2>3. \A k \in DOMAIN messages' : After(messages[g[k]], messages'[k], attempt[a].user, a)
    BY <1>3, <2>1, <2>2
  <2> QED BY <2>2, <2>3 DEF Settled
<1>8. ChatIInv'
  BY <1>1, <1>6, <1>7, Settling
<1>9. AnswersStay
  BY <1>1, <1>3, <1>4 DEF AnswersStay, After
<1>10. SettledStay /\ attempt'[a].phase = outcome
  BY <1>1, OthersStaySettled
<1>11. RepliesStay
  <2> SUFFICES ASSUME mounted, NEW k \in DOMAIN messages', messages'[k].role = "assistant",
                      ~messages'[k].temp
               PROVE  /\ k \in DOMAIN messages /\ messages[k].role = "assistant"
                      /\ messages[k].id = messages'[k].id /\ messages[k].text = messages'[k].text
                      /\ messages[k].temp =>
                            InFlight(messages[k].id) /\ attempt'[messages[k].id].phase = "confirmed"
    BY <1>1 DEF RepliesStay
  <2>1. k \in DOMAIN messages /\ messages'[k] = list[k] /\ After(messages[k], list[k], n, a)
    BY <1>1, <1>3, <1>4
  <2>2. CASE IsPlaceholder(messages[k], a)
    <3>1. messages[k].id = a
      BY <2>2 DEF IsPlaceholder
    <3>2. list[k] = [messages[k] EXCEPT !.status = "ok", !.temp = ~rows]
      BY <2>1, <2>2 DEF list
    <3>3. rows
      BY <1>2, <2>1, <3>2 DEF Bubble
    <3> QED BY <1>10, <2>1, <3>1, <3>3 DEF After, outcome
  <2>3. CASE ~IsPlaceholder(messages[k], a)
    <3>1. ~IsUser(messages[k], n)
      BY <2>1 DEF After, IsUser
    <3>2. list[k] = messages[k]
      BY <2>1, <2>3, <3>1 DEF After
    <3> QED BY <2>1, <3>2
  <2> QED BY <2>2, <2>3
<1> QED BY <1>8, <1>9, <1>10, <1>11 DEF Onward

LEMMA Failing ==
    ASSUME ChatSessionAssumption, ChatIInv, NEW a \in Attempts, InFlight(a), NEW outcome \in Outcomes,
           Fail(a, outcome), UNCHANGED reply
    PROVE  ChatIInv' /\ Onward
<1> DEFINE n == attempt[a].user
           Failed(m) == IF IsUser(m, n) THEN [m EXCEPT !.status = "failed"] ELSE m
           list == [i \in DOMAIN messages |-> Failed(messages[i])]
           gone == {i \in DOMAIN list : IsPlaceholder(list[i], a)}
           left == IF gone = {} THEN list
                   ELSE LET i == CHOOSE i \in gone : TRUE
                        IN SubSeq(list, 1, i - 1) \o SubSeq(list, i + 1, Len(list))
<1>1. Settle(a, outcome) /\ messages' = IF mounted THEN left ELSE messages
  BY DEF Fail, Show, Map, Without
<1>2. messages \in Seq(Bubble) /\ \A i \in DOMAIN messages : messages[i] \in Bubble
  BY ElementTypes DEF ChatIInv, ChatTypeOK
<1>3. ASSUME NEW i \in DOMAIN messages
      PROVE  /\ list[i] \in Bubble
             /\ list[i].role = messages[i].role /\ list[i].id = messages[i].id
             /\ ~IsPlaceholder(list[i], a) => After(messages[i], list[i], n, a)
             /\ ~IsUser(messages[i], n) => list[i] = messages[i]
  <2>1. list[i] = Failed(messages[i]) /\ messages[i] \in Bubble
    BY <1>2
  <2>2. CASE IsUser(messages[i], n)
    <3>1. list[i] = [messages[i] EXCEPT !.status = "failed"] /\ messages[i].role = "user"
      BY <2>1, <2>2 DEF IsUser
    <3> HIDE DEF list
    <3> QED BY <2>1, <2>2, <3>1 DEF Bubble, After
  <2>3. CASE ~IsUser(messages[i], n)
    <3>1. list[i] = messages[i]
      BY <2>1, <2>3
    <3> HIDE DEF list
    <3> QED BY <2>1, <2>3, <3>1 DEF After
  <2> QED BY <2>2, <2>3
<1>4. DOMAIN list = DOMAIN messages /\ list \in [DOMAIN messages -> Bubble]
  <2>1. \A i \in DOMAIN messages : Failed(messages[i]) \in Bubble
    BY <1>3
  <2> HIDE DEF Failed
  <2> QED BY <2>1
<1>5. list \in Seq(Bubble)
  <2> HIDE DEF list
  <2> QED BY <1>2, <1>4, Relabelled
<1>6. gone \in SUBSET (DOMAIN list) /\ \A i, j \in gone : i = j
  <2> HIDE DEF list
  <2> QED BY <1>3, <1>4 DEF IsPlaceholder, ChatIInv, BubblesFit, Distinct
<1>7. left \in Seq(Bubble) /\ \E g : Drawn(left, list, gone, g)
  <2> HIDE DEF list, gone
  <2> QED BY <1>5, <1>6, Leaves
<1>8. PICK g : Drawn(left, list, gone, g)
  BY <1>7
<1>9. \A i \in DOMAIN messages : i \notin gone <=> ~IsPlaceholder(list[i], a)
  BY <1>4
<1> HIDE DEF left, gone, list
<1>10. messages' \in Seq(Bubble) /\ (~mounted => messages' = messages)
  BY <1>1, <1>2, <1>7
<1>11. mounted => Settled(a)
  <2> SUFFICES ASSUME mounted PROVE Settled(a)
    OBVIOUS
  <2>1. messages' = left
    BY <1>1
  <2>2. g \in [DOMAIN messages' -> DOMAIN messages]
    BY <1>4, <1>8, <2>1 DEF Drawn
  <2>3. \A k \in DOMAIN messages' : After(messages[g[k]], messages'[k], attempt[a].user, a)
    BY <1>3, <1>4, <1>8, <1>9, <2>1 DEF Drawn
  <2>4. \A k, l \in DOMAIN messages' : g[k] = g[l] => k = l
    BY <1>8, <2>1 DEF Drawn
  <2> QED BY <2>2, <2>3, <2>4 DEF Settled
<1>12. ChatIInv'
  BY <1>1, <1>10, <1>11, Settling
<1>13. AnswersStay
  <2>1. CASE ~mounted
    BY <1>1, <2>1, SameBubbles
  <2>2. CASE mounted
    <3> SUFFICES ASSUME NEW j \in DOMAIN messages, messages[j].role = "user", messages[j].status = "ok"
                 PROVE  \E k \in DOMAIN messages' :
                           /\ messages'[k].role = "user" /\ messages'[k].id = messages[j].id
                           /\ messages'[k].status = "ok"
      BY DEF AnswersStay
    <3>1. ~IsUser(messages[j], n)
      BY <2>2 DEF ChatIInv, QuestionsWait, IsUser
    <3>2. list[j] = messages[j] /\ j \in DOMAIN list \ gone
      BY <1>3, <1>4, <1>9, <3>1 DEF IsPlaceholder
    <3>3. PICK k \in DOMAIN left : g[k] = j /\ left[k] = list[j]
      BY <1>8, <3>2 DEF Drawn
    <3> QED BY <1>1, <2>2, <3>2, <3>3
  <2> QED BY <2>1, <2>2
<1>14. RepliesStay
  <2>1. CASE ~mounted
    BY <1>1, <2>1, SameBubbles
  <2>2. CASE mounted
    <3> SUFFICES ASSUME NEW k \in DOMAIN messages', messages'[k].role = "assistant"
                 PROVE  g[k] \in DOMAIN messages /\ messages'[k] = messages[g[k]]
      BY DEF RepliesStay
    <3>1. g[k] \in DOMAIN messages /\ messages'[k] = list[g[k]]
      BY <1>1, <1>4, <1>8, <2>2 DEF Drawn
    <3>2. ~IsUser(messages[g[k]], n)
      BY <1>3, <3>1 DEF IsUser
    <3> QED BY <1>3, <3>1, <3>2
  <2> QED BY <2>1, <2>2
<1>15. SettledStay
  BY <1>1, OthersStaySettled
<1> QED BY <1>12, <1>13, <1>14, <1>15 DEF Onward

-----------------------------------------------------------------------------
(* A call is dispatched.                                                   *)

\* One bubble more at the end of a list.
LEMMA Appended ==
    ASSUME NEW S, NEW list \in Seq(S), NEW e \in S, NEW new, new = Append(list, e)
    PROVE  \E last \in Nat :
              /\ new \in Seq(S)
              /\ last \notin DOMAIN list /\ DOMAIN new = DOMAIN list \cup {last}
              /\ new[last] = e /\ \A k \in DOMAIN list : new[k] = list[k]
<1> DEFINE n == Len(list)
<1>1. n \in Nat /\ DOMAIN list = 1..n
  BY LenProperties
<1>2. /\ new \in Seq(S) /\ Len(new) = n + 1
      /\ \A k \in 1..n : new[k] = list[k]
      /\ new[n + 1] = e
  BY AppendProperties
<1>3. DOMAIN new = 1..Len(new)
  <2>1. new \in Seq(S)
    BY <1>2
  <2> QED BY <2>1, LenProperties
<1> HIDE DEF n
<1>4. 1..(n + 1) = 1..n \cup {n + 1} /\ n + 1 \notin 1..n /\ n + 1 \in Nat
  BY <1>1
<1>5. DOMAIN new = DOMAIN list \cup {n + 1} /\ n + 1 \notin DOMAIN list
  BY <1>1, <1>2, <1>3, <1>4
<1> WITNESS n + 1 \in Nat
<1> QED BY <1>1, <1>2, <1>5

\* A list on which the question n can be dispatched: the bubbles of the window
\* and the question, which waits, and which no call under way answers.
Ready(list, n) ==
    /\ list \in Seq(Bubble) /\ Distinct(list)
    /\ \A k \in DOMAIN list :
          \/ \E j \in DOMAIN messages : list[k] = messages[j]
          \/ /\ list[k].role = "user" /\ list[k].id = n /\ list[k].temp
             /\ list[k].status = "pending"
    /\ \A k \in DOMAIN list :
          list[k].role = "user" /\ list[k].id = n => list[k].status = "pending"
    /\ \A j \in DOMAIN messages : messages[j].role = "user" /\ messages[j].status = "ok" =>
          \E k \in DOMAIN list : list[k] = messages[j]
    /\ n \in Attempts /\ (n = NextAttempt \/ Made(n))
    /\ \A a \in Attempts : InFlight(a) => attempt[a].user # n

LEMMA Dispatching ==
    ASSUME ChatSessionAssumption, ChatIInv, mounted, CanDispatch, NEW n, NEW list,
           Ready(list, n), Dispatch(n, list), UNCHANGED reply
    PROVE  ChatIInv' /\ Onward
<1> DEFINE a == NextAttempt
           rec == [attempt[a] EXCEPT !.phase = "inflight", !.user = n]
<1>1. a \in Attempts /\ ~Made(a) /\ attempt[a].phase = "unused"
  BY MadeIsFresh DEF Made
<1>2. /\ messages' = Append(list, Placeholder(a))
      /\ controller' = a /\ pending' = n /\ mounted' = mounted
      /\ attempt' = [b \in Attempts |->
            IF b = a THEN rec
            ELSE IF b = controller THEN [attempt[b] EXCEPT !.cut = TRUE] ELSE attempt[b]]
  BY DEF Dispatch, Show
<1>3. /\ \A i \in DOMAIN messages : messages[i] \in Bubble
      /\ \A b \in Attempts : attempt[b] \in Attempt /\ b \in Nat
      /\ None \notin Attempts /\ MaxDeltas \in Nat
      /\ reply' = reply /\ reply \in [Attempts -> Reply]
  BY ElementTypes DEF ChatIInv, ChatTypeOK
<1>4. /\ n \in Attempts /\ (n = a \/ Made(n)) /\ list \in Seq(Bubble) /\ Distinct(list)
      /\ \A b \in Attempts : InFlight(b) => attempt[b].user # n
  BY DEF Ready
<1>5. rec \in Attempt /\ rec.phase = "inflight" /\ rec.user = n /\ rec.read = attempt[a].read
  BY <1>1, <1>3, <1>4 DEF Attempt
<1>6. ASSUME NEW b \in Attempts
      PROVE  /\ attempt'[b] \in Attempt /\ attempt'[b].read = attempt[b].read
             /\ b # a => /\ attempt'[b].phase = attempt[b].phase
                         /\ attempt'[b].user = attempt[b].user
                         /\ attempt'[b].cut = (attempt[b].cut \/ b = controller)
  <2>1. CASE b = a
    BY <1>2, <1>5, <2>1
  <2>2. CASE b # a /\ b = controller
    <3>1. attempt'[b] = [attempt[b] EXCEPT !.cut = TRUE]
      BY <1>2, <2>2
    <3> QED BY <1>3, <2>2, <3>1 DEF Attempt
  <2>3. CASE b # a /\ b # controller
    BY <1>2, <1>3, <2>3 DEF Attempt
  <2> QED BY <2>1, <2>2, <2>3
<1>7. attempt'[a].phase = "inflight" /\ attempt'[a].user = n
  BY <1>1, <1>2, <1>5
<1>8. attempt' \in [Attempts -> Attempt]
  <2>1. DOMAIN attempt' = Attempts /\ attempt' = [b \in Attempts |-> attempt'[b]]
    BY <1>2
  <2> QED BY <1>6, <2>1
<1>9. Placeholder(a) \in Bubble
  BY <1>1, <1>3 DEF Placeholder, Bubble
<1>10. PICK last \in Nat :
          /\ messages' \in Seq(Bubble)
          /\ last \notin DOMAIN list /\ DOMAIN messages' = DOMAIN list \cup {last}
          /\ messages'[last] = Placeholder(a)
          /\ \A k \in DOMAIN list : messages'[k] = list[k]
  BY <1>2, <1>4, <1>9, Appended
<1> HIDE DEF rec
<1>11. /\ messages'[last].role = "assistant" /\ messages'[last].id = a /\ messages'[last].temp
       /\ messages'[last].status = "streaming" /\ messages'[last].text = 0
  BY <1>10 DEF Placeholder
<1>12. ASSUME NEW k \in DOMAIN messages', k # last
       PROVE  /\ messages'[k] = list[k] /\ k \in DOMAIN list
              /\ \/ \E j \in DOMAIN messages : messages'[k] = messages[j]
                 \/ /\ messages'[k].role = "user" /\ messages'[k].id = n /\ messages'[k].temp
                    /\ messages'[k].status = "pending"
              /\ messages'[k].role = "user" /\ messages'[k].id = n => messages'[k].status = "pending"
  BY <1>10, <1>12 DEF Ready
<1>13. ChatTypeOK'
  BY <1>1, <1>2, <1>3, <1>4, <1>8, <1>10 DEF ChatTypeOK, ChatIInv
<1>14. \A j \in DOMAIN messages :
          /\ Fits(messages[j]) /\ Made(messages[j].id)
          /\ messages[j].id \in Attempts /\ messages[j].id # a
  BY <1>1, <1>3 DEF ChatIInv, BubblesFit, Bubble
<1>15. BubblesFit'
  <2>1. Distinct(messages)'
    <3>1. \A k \in DOMAIN list : list[k].role = "assistant" => list[k].id # a
      BY <1>14 DEF Ready
    <3> QED BY <1>4, <1>10, <1>11, <1>12, <3>1 DEF Distinct
  <2>2. \A k \in DOMAIN messages' : Fits(messages'[k])
    BY <1>11, <1>12, <1>14 DEF Fits
  <2>3. \A k \in DOMAIN messages' : attempt'[messages'[k].id].phase # "unused"
    BY <1>1, <1>4, <1>6, <1>7, <1>11, <1>12, <1>14 DEF Made
  <2> QED BY <2>1, <2>2, <2>3 DEF BubblesFit, Fits, Made
<1>16. CallsFit'
  <2>1. \A b \in Attempts : Made(b) => attempt[b].user \in Attempts /\ Made(attempt[b].user)
    BY DEF ChatIInv, CallsFit
  <2>2. \A b \in Attempts : Made(b) => attempt'[b].phase # "unused" /\ b # a
    BY <1>1, <1>6 DEF Made
  <2>3. \A b \in Attempts : attempt'[b].phase # "unused" =>
            attempt'[b].user \in Attempts /\ attempt'[attempt'[b].user].phase # "unused"
    BY <1>1, <1>4, <1>6, <1>7, <2>1, <2>2 DEF Made
  <2>4. \A b, c \in Attempts :
           /\ attempt'[b].phase = "inflight" /\ attempt'[c].phase = "inflight"
           /\ attempt'[b].user = attempt'[c].user
           => b = c
    BY <1>4, <1>6, <1>7 DEF ChatIInv, CallsFit, InFlight
  <2> QED BY <2>3, <2>4 DEF CallsFit, Made, InFlight
<1>17. TextFits'
  <2>1. \A b \in Attempts :
           /\ attempt'[b].read <= reply'[b].deltas
           /\ attempt'[b].phase = "unused" => attempt'[b].read = 0
    BY <1>3, <1>6, <1>7 DEF ChatIInv, TextFits, Made
  <2>2. ASSUME NEW k \in DOMAIN messages', messages'[k].role = "assistant", messages'[k].temp
        PROVE  messages'[k].text = attempt'[messages'[k].id].read
    <3>1. CASE k = last
      <4>1. attempt[a].read = 0
        BY <1>1 DEF ChatIInv, TextFits
      <4> QED BY <1>1, <1>6, <1>11, <3>1, <4>1
    <3>2. CASE k # last
      <4>1. PICK j \in DOMAIN messages : messages'[k] = messages[j]
        BY <1>12, <2>2, <3>2
      <4>2. messages[j].text = attempt[messages[j].id].read /\ messages[j].id \in Attempts
        BY <1>14, <2>2, <4>1 DEF ChatIInv, TextFits
      <4> QED BY <1>6, <4>1, <4>2
    <3> QED BY <3>1, <3>2
  <2> QED BY <2>1, <2>2 DEF TextFits, Made
<1>18. ControllerFits'
  BY <1>1, <1>2, <1>3, <1>7 DEF ControllerFits, InFlight
<1>19. OneLiveAttempt'
  BY <1>2, <1>6 DEF ChatIInv, OneLiveAttempt, Reading, InFlight
<1>20. NoStuckBubble'
  <2> SUFFICES ASSUME NEW k \in DOMAIN messages'
               PROVE  /\ messages'[k].status = "pending" =>
                            \E b \in Attempts : attempt'[b].phase = "inflight"
                                                /\ attempt'[b].user = messages'[k].id
                      /\ messages'[k].status = "streaming" =>
                            attempt'[messages'[k].id].phase = "inflight"
    BY DEF NoStuckBubble, InFlight
  <2>1. CASE k = last
    BY <1>7, <1>11, <2>1
  <2>2. CASE k # last /\ \E j \in DOMAIN messages : messages'[k] = messages[j]
    <3>1. PICK j \in DOMAIN messages : messages'[k] = messages[j]
      BY <2>2
    <3>2. /\ messages[j].status = "pending" =>
                \E b \in Attempts : InFlight(b) /\ attempt[b].user = messages[j].id
          /\ messages[j].status = "streaming" => InFlight(messages[j].id)
      BY DEF ChatIInv, NoStuckBubble
    <3>3. \A b \in Attempts : InFlight(b) =>
             attempt'[b].phase = "inflight" /\ attempt'[b].user = attempt[b].user
      BY <1>1, <1>6 DEF InFlight
    <3> QED BY <1>14, <3>1, <3>2, <3>3
  <2>3. CASE messages'[k].status = "pending" /\ messages'[k].id = n
    BY <1>1, <1>7, <2>3
  <2> QED BY <1>12, <2>1, <2>2, <2>3
<1>21. QuestionsWait'
  <2> SUFFICES ASSUME NEW b \in Attempts, NEW k \in DOMAIN messages',
                      attempt'[b].phase = "inflight",
                      messages'[k].role = "user", messages'[k].id = attempt'[b].user
               PROVE  messages'[k].status = "pending"
    BY DEF QuestionsWait, InFlight
  <2>1. k # last
    BY <1>11
  <2>2. CASE b = a
    BY <1>7, <1>12, <2>1, <2>2
  <2>3. CASE b # a
    <3>1. InFlight(b) /\ attempt'[b].user = attempt[b].user /\ attempt[b].user # n
      BY <1>4, <1>6, <2>3 DEF InFlight
    <3>2. PICK j \in DOMAIN messages : messages'[k] = messages[j]
      BY <1>12, <2>1, <3>1
    <3> QED BY <3>1, <3>2 DEF ChatIInv, QuestionsWait
  <2> QED BY <2>2, <2>3
<1>22. AnswersStay
  BY <1>10 DEF AnswersStay, Ready
<1>23. RepliesStay
  BY <1>11, <1>12 DEF RepliesStay
<1>24. SettledStay
  <2> SUFFICES ASSUME NEW b \in Attempts, Made(b), ~InFlight(b) PROVE attempt'[b] = attempt[b]
    BY DEF SettledStay
  <2>1. b # a /\ b # controller
    BY <1>1, <1>3 DEF ChatIInv, ControllerFits
  <2> QED BY <1>2, <2>1
<1> QED BY <1>13, <1>15, <1>16, <1>17, <1>18, <1>19, <1>20, <1>21, <1>22, <1>23, <1>24
        DEF ChatIInv, Onward

\* A new question at the end of a list drawn from the window's is ready.
LEMMA Asking ==
    ASSUME ChatSessionAssumption, ChatIInv, CanDispatch, NEW base \in Seq(Bubble), Distinct(base),
           \A k \in DOMAIN base : \E j \in DOMAIN messages : base[k] = messages[j],
           \A j \in DOMAIN messages : messages[j].role = "user" =>
              \E k \in DOMAIN base : base[k] = messages[j],
           NEW list, list = Append(base, Question(NextAttempt))
    PROVE  Ready(list, NextAttempt)
<1> DEFINE n == NextAttempt
<1>1. n \in Attempts /\ ~Made(n)
  BY MadeIsFresh
<1> HIDE DEF n
<1>2. \A k \in DOMAIN base : Made(base[k].id) /\ base[k].id # n
  BY <1>1 DEF ChatIInv, BubblesFit
<1>3. Question(n) \in Bubble
  BY <1>1, ElementTypes DEF Question, Bubble, ChatIInv
<1>4. PICK last \in Nat :
         /\ list \in Seq(Bubble)
         /\ last \notin DOMAIN base /\ DOMAIN list = DOMAIN base \cup {last}
         /\ list[last] = Question(n) /\ \A k \in DOMAIN base : list[k] = base[k]
  BY <1>3, Appended DEF n
<1>5. /\ list[last].role = "user" /\ list[last].id = n /\ list[last].temp
      /\ list[last].status = "pending"
  BY <1>4 DEF Question
<1>6. Distinct(list)
  BY <1>2, <1>4, <1>5 DEF Distinct
<1>7. ASSUME NEW b \in Attempts, InFlight(b)
      PROVE  attempt[b].user # n
  BY <1>1, <1>7 DEF ChatIInv, CallsFit, InFlight, Made
<1>8. \A j \in DOMAIN messages : messages[j].role = "user" /\ messages[j].status = "ok" =>
          \E k \in DOMAIN list : list[k] = messages[j]
  BY <1>4
<1> QED BY <1>1, <1>2, <1>4, <1>5, <1>6, <1>7, <1>8 DEF Ready, n

LEMMA Sending ==
    ASSUME ChatSessionAssumption, ChatIInv, Send, UNCHANGED reply
    PROVE  ChatIInv' /\ Onward
<1> DEFINE list == Append(messages, Question(NextAttempt))
<1>1. mounted /\ CanDispatch /\ Dispatch(NextAttempt, list)
  BY DEF Send
<1>2. messages \in Seq(Bubble) /\ Distinct(messages)
  BY DEF ChatIInv, ChatTypeOK, BubblesFit
<1>3. Ready(list, NextAttempt)
  BY <1>1, <1>2, Asking
<1> HIDE DEF list
<1> QED BY <1>1, <1>3, Dispatching

LEMMA Regenerating ==
    ASSUME ChatSessionAssumption, ChatIInv, Regenerate, UNCHANGED reply
    PROVE  ChatIInv' /\ Onward
<1>1. PICK i \in DOMAIN messages :
         LET gone == {j \in DOMAIN messages :
                         messages[j].role = "assistant" /\ messages[j].id = messages[i].id}
         IN  Dispatch(NextAttempt, Append(Without(messages, gone), Question(NextAttempt)))
  BY DEF Regenerate
<1> DEFINE gone == {j \in DOMAIN messages :
                       messages[j].role = "assistant" /\ messages[j].id = messages[i].id}
           base == IF gone = {} THEN messages
                   ELSE LET j == CHOOSE j \in gone : TRUE
                        IN SubSeq(messages, 1, j - 1) \o SubSeq(messages, j + 1, Len(messages))
           list == Append(base, Question(NextAttempt))
<1>2. Dispatch(NextAttempt, list) /\ mounted /\ CanDispatch
  BY <1>1 DEF Without, Regenerate
<1>3. messages \in Seq(Bubble) /\ Distinct(messages)
  BY DEF ChatIInv, ChatTypeOK, BubblesFit
<1>4. gone \in SUBSET (DOMAIN messages) /\ \A j, k \in gone : j = k
  BY <1>3 DEF Distinct
<1>5. \A j \in DOMAIN messages : messages[j].role = "user" => j \notin gone
  OBVIOUS
<1>6. base \in Seq(Bubble) /\ \E g : Drawn(base, messages, gone, g)
  <2> HIDE DEF gone
  <2> QED BY <1>3, <1>4, Leaves
<1> HIDE DEF gone, base
<1>7. PICK g : Drawn(base, messages, gone, g)
  BY <1>6
<1>8. Distinct(base)
  BY <1>3, <1>7 DEF Drawn, Distinct
<1>9. \A k \in DOMAIN base : \E j \in DOMAIN messages : base[k] = messages[j]
  BY <1>7 DEF Drawn
<1>10. \A j \in DOMAIN messages : messages[j].role = "user" =>
          \E k \in DOMAIN base : base[k] = messages[j]
  BY <1>5, <1>7 DEF Drawn
<1>11. Ready(list, NextAttempt)
  BY <1>2, <1>6, <1>8, <1>9, <1>10, Asking
<1> HIDE DEF list
<1> QED BY <1>2, <1>11, Dispatching

LEMMA Retrying ==
    ASSUME ChatSessionAssumption, ChatIInv, Retry, UNCHANGED reply
    PROVE  ChatIInv' /\ Onward
<1>1. PICK i \in DOMAIN messages :
         /\ messages[i].temp /\ messages[i].status = "failed"
         /\ Dispatch(messages[i].id, [messages EXCEPT ![i].status = "pending"])
  BY DEF Retry
<1> DEFINE n == messages[i].id
           list == [messages EXCEPT ![i].status = "pending"]
<1>2. messages \in Seq(Bubble) /\ Distinct(messages) /\ mounted /\ CanDispatch
  BY DEF ChatIInv, ChatTypeOK, BubblesFit, Retry
<1>3. /\ \A j \in DOMAIN messages : messages[j] \in Bubble
      /\ messages[i].role = "user" /\ n \in Attempts /\ Made(n)
  BY <1>1, ElementTypes DEF ChatIInv, BubblesFit, Fits, Bubble
<1>4. /\ DOMAIN list = DOMAIN messages
      /\ \A k \in DOMAIN messages : k # i => list[k] = messages[k]
      /\ list[i] = [messages[i] EXCEPT !.status = "pending"]
  OBVIOUS
<1>5. /\ list[i] \in Bubble /\ list[i].role = "user" /\ list[i].id = n /\ list[i].temp
      /\ list[i].status = "pending"
  <2> HIDE DEF list
  <2> QED BY <1>1, <1>3, <1>4 DEF Bubble
<1>6. list \in Seq(Bubble)
  <2>1. list = [k \in DOMAIN messages |-> list[k]]
    BY <1>4
  <2> HIDE DEF list
  <2>2. list \in [DOMAIN messages -> Bubble]
    BY <1>3, <1>4, <1>5, <2>1
  <2> QED BY <1>2, <2>2, Relabelled
<1> HIDE DEF list
<1>7. Distinct(list)
  <2>1. \A k \in DOMAIN messages : list[k].role = messages[k].role /\ list[k].id = messages[k].id
    BY <1>3, <1>4, <1>5
  <2> QED BY <1>2, <1>4, <2>1 DEF Distinct
<1>8. \A b \in Attempts : InFlight(b) => attempt[b].user # n
  BY <1>1, <1>2, <1>3 DEF ChatIInv, QuestionsWait
<1>9. \A k \in DOMAIN list : list[k].role = "user" /\ list[k].id = n => list[k].status = "pending"
  BY <1>5, <1>7, <1>4 DEF Distinct
<1>10. \A j \in DOMAIN messages : messages[j].role = "user" /\ messages[j].status = "ok" =>
          \E k \in DOMAIN list : list[k] = messages[j]
  BY <1>1, <1>4
<1>11. Ready(list, n)
  BY <1>3, <1>4, <1>5, <1>6, <1>7, <1>8, <1>9, <1>10 DEF Ready
<1>12. Dispatch(n, list)
  BY <1>1 DEF list
<1> QED BY <1>2, <1>11, <1>12, Dispatching

-----------------------------------------------------------------------------
(* The other steps.                                                        *)

LEMMA Cancelling ==
    ASSUME ChatSessionAssumption, ChatIInv, Cancel, UNCHANGED reply
    PROVE  ChatIInv' /\ Onward
<1>1. /\ controller \in Attempts /\ UNCHANGED <<messages, pending, controller, mounted, reply>>
      /\ attempt \in [Attempts -> Attempt]
      /\ attempt' = [attempt EXCEPT ![controller].cut = TRUE]
  BY DEF Cancel, ChatIInv, ChatTypeOK
<1> DEFINE rec == [attempt[controller] EXCEPT !.cut = TRUE]
<1>2. /\ rec \in Attempt /\ rec.phase = attempt[controller].phase
      /\ rec.user = attempt[controller].user /\ rec.read = attempt[controller].read /\ rec.cut
  BY <1>1 DEF Attempt
<1>3. attempt' = [attempt EXCEPT ![controller] = rec]
  BY <1>1
<1> HIDE DEF rec
<1>4. /\ attempt' \in [Attempts -> Attempt]
      /\ \A b \in Attempts :
            /\ attempt'[b].phase = attempt[b].phase /\ attempt'[b].user = attempt[b].user
            /\ attempt'[b].read = attempt[b].read /\ (attempt[b].cut => attempt'[b].cut)
  BY <1>1, <1>2, <1>3
<1>5. ChatTypeOK'
  BY <1>1, <1>4 DEF ChatIInv, ChatTypeOK
<1>6. \A i \in DOMAIN messages : messages[i].id \in Attempts
  BY ElementTypes DEF ChatIInv, Bubble
<1>7. BubblesFit' /\ TextFits'
  BY <1>1, <1>4, <1>6 DEF ChatIInv, BubblesFit, TextFits, Distinct, Fits, Made
<1>8. CallsFit' /\ ControllerFits' /\ OneLiveAttempt'
  BY <1>1, <1>4 DEF ChatIInv, CallsFit, ControllerFits, OneLiveAttempt, Reading, InFlight, Made
<1>9. NoStuckBubble' /\ QuestionsWait'
  BY <1>1, <1>4, <1>6 DEF ChatIInv, NoStuckBubble, QuestionsWait, InFlight
<1>10. SettledStay
  <2>1. InFlight(controller)
    BY DEF Cancel, ChatIInv, ControllerFits
  <2> QED BY <1>1, <2>1 DEF SettledStay
<1> QED BY <1>1, <1>5, <1>7, <1>8, <1>9, <1>10, SameBubbles DEF ChatIInv, Onward

LEMMA Unmounting ==
    ASSUME ChatSessionAssumption, ChatIInv, Unmount, UNCHANGED reply
    PROVE  ChatIInv' /\ Onward
<1>1. /\ UNCHANGED <<messages, pending, reply>> /\ ~mounted' /\ mounted' = FALSE
      /\ controller' = None /\ attempt \in [Attempts -> Attempt]
      /\ attempt' = [b \in Attempts |->
            IF b = controller THEN [attempt[b] EXCEPT !.cut = TRUE] ELSE attempt[b]]
  BY DEF Unmount, ChatIInv, ChatTypeOK
<1>2. ASSUME NEW b \in Attempts
      PROVE  /\ attempt'[b] \in Attempt
             /\ attempt'[b].phase = attempt[b].phase /\ attempt'[b].user = attempt[b].user
             /\ attempt'[b].read = attempt[b].read
             /\ attempt'[b].cut = (attempt[b].cut \/ b = controller)
  <2>1. CASE b = controller
    <3>1. attempt'[b] = [attempt[b] EXCEPT !.cut = TRUE]
      BY <1>1, <2>1
    <3> QED BY <1>1, <2>1, <3>1 DEF Attempt
  <2>2. CASE b # controller
    BY <1>1, <2>2 DEF Attempt
  <2> QED BY <2>1, <2>2
<1>3. attempt' \in [Attempts -> Attempt]
  <2>1. attempt' = [b \in Attempts |-> attempt'[b]]
    BY <1>1
  <2> QED BY <1>2, <2>1
<1>4. ChatTypeOK'
  BY <1>1, <1>3 DEF ChatIInv, ChatTypeOK
<1>5. \A i \in DOMAIN messages : messages[i].id \in Attempts
  BY ElementTypes DEF ChatIInv, Bubble
<1>6. BubblesFit' /\ TextFits'
  BY <1>1, <1>2, <1>5 DEF ChatIInv, BubblesFit, TextFits, Distinct, Fits, Made
<1>7. CallsFit'
  BY <1>2 DEF ChatIInv, CallsFit, InFlight, Made
<1>8. ControllerFits' /\ OneLiveAttempt'
  BY <1>1, <1>2 DEF ChatIInv, ControllerFits, OneLiveAttempt, Reading, InFlight
<1>9. NoStuckBubble' /\ QuestionsWait'
  BY <1>1 DEF NoStuckBubble, QuestionsWait
<1>10. SettledStay
  BY <1>1, ElementTypes DEF ChatIInv, ControllerFits, SettledStay
<1> QED BY <1>1, <1>4, <1>6, <1>7, <1>8, <1>9, <1>10, SameBubbles DEF ChatIInv, Onward

LEMMA Reads ==
    ASSUME ChatSessionAssumption, ChatIInv, NEW a \in Attempts, ReadDelta(a), UNCHANGED reply
    PROVE  ChatIInv' /\ Onward
<1> DEFINE Grown(m) == IF IsPlaceholder(m, a) THEN [m EXCEPT !.text = @ + 1] ELSE m
           list == [i \in DOMAIN messages |-> Grown(messages[i])]
           rec == [attempt[a] EXCEPT !.read = @ + 1]
<1>1. /\ messages' = IF mounted THEN list ELSE messages
      /\ attempt' = [attempt EXCEPT ![a] = rec] /\ attempt \in [Attempts -> Attempt]
      /\ Reading(a) /\ attempt[a].read # reply[a].deltas
      /\ UNCHANGED <<pending, controller, mounted, reply>>
  BY DEF ReadDelta, Show, Map, AllRead, ChatIInv, ChatTypeOK
<1>2. /\ messages \in Seq(Bubble) /\ \A i \in DOMAIN messages : messages[i] \in Bubble
      /\ attempt[a] \in Attempt /\ reply[a] \in Reply /\ MaxDeltas \in Nat
  BY ElementTypes DEF ChatIInv, ChatTypeOK
<1>3. attempt[a].read \in Nat /\ attempt[a].read + 1 <= reply[a].deltas
      /\ reply[a].deltas \in 0..MaxDeltas
  BY <1>1, <1>2 DEF Attempt, Reply, ChatIInv, TextFits
<1>4. /\ rec \in Attempt /\ rec.phase = attempt[a].phase /\ rec.user = attempt[a].user
      /\ rec.cut = attempt[a].cut /\ rec.read = attempt[a].read + 1
  BY <1>2, <1>3 DEF Attempt
<1> HIDE DEF rec
<1>5. /\ attempt' \in [Attempts -> Attempt]
      /\ \A b \in Attempts :
            /\ attempt'[b].phase = attempt[b].phase /\ attempt'[b].user = attempt[b].user
            /\ attempt'[b].cut = attempt[b].cut
            /\ attempt'[b].read = IF b = a THEN attempt[b].read + 1 ELSE attempt[b].read
  BY <1>1, <1>4
<1>6. ASSUME NEW i \in DOMAIN messages
      PROVE  /\ list[i] \in Bubble
             /\ list[i].role = messages[i].role /\ list[i].id = messages[i].id
             /\ list[i].temp = messages[i].temp /\ list[i].status = messages[i].status
             /\ list[i].text = IF IsPlaceholder(messages[i], a)
                               THEN messages[i].text + 1 ELSE messages[i].text
  <2>1. list[i] = Grown(messages[i]) /\ messages[i] \in Bubble
    BY <1>2
  <2>2. CASE IsPlaceholder(messages[i], a)
    <3>1. list[i] = [messages[i] EXCEPT !.text = @ + 1]
      BY <2>1, <2>2
    <3>2. messages[i].text = attempt[a].read
      BY <2>2 DEF IsPlaceholder, ChatIInv, TextFits
    <3>3. messages[i].text + 1 \in 0..MaxDeltas
      BY <1>2, <1>3, <2>1, <3>2 DEF Bubble
    <3> HIDE DEF list
    <3> QED BY <2>1, <2>2, <3>1, <3>3 DEF Bubble
  <2>3. CASE ~IsPlaceholder(messages[i], a)
    <3>1. list[i] = messages[i]
      BY <2>1, <2>3
    <3> HIDE DEF list
    <3> QED BY <2>1, <2>3, <3>1
  <2> QED BY <2>2, <2>3
<1>7. DOMAIN list = DOMAIN messages /\ list \in [DOMAIN messages -> Bubble]
  <2>1. \A i \in DOMAIN messages : Grown(messages[i]) \in Bubble
    BY <1>6
  <2> HIDE DEF Grown
  <2> QED BY <2>1
<1>8. list \in Seq(Bubble)
  <2> HIDE DEF list
  <2> QED BY <1>2, <1>7, Relabelled
<1> HIDE DEF list
<1>9. /\ messages' \in Seq(Bubble) /\ DOMAIN messages' = DOMAIN messages
      /\ \A i \in DOMAIN messages :
            /\ messages'[i].role = messages[i].role /\ messages'[i].id = messages[i].id
            /\ messages'[i].temp = messages[i].temp /\ messages'[i].status = messages[i].status
            /\ messages'[i].text = IF IsPlaceholder(messages[i], a)
                                   THEN messages[i].text + 1 ELSE messages[i].text
  <2>1. mounted
    BY <1>1, <1>2, ElementTypes DEF ChatIInv, OneLiveAttempt, ControllerFits
  <2> QED BY <1>1, <1>2, <1>6, <1>7, <1>8, <2>1
<1>10. ChatTypeOK'
  BY <1>1, <1>5, <1>9 DEF ChatIInv, ChatTypeOK
<1>11. \A i \in DOMAIN messages : messages[i].id \in Attempts /\ messages[i].text \in Nat
  BY <1>2 DEF Bubble
<1>12. BubblesFit'
  BY <1>5, <1>9, <1>11 DEF ChatIInv, BubblesFit, Distinct, Fits, Made
<1>13. TextFits'
  <2>1. \A b \in Attempts : attempt[b].read \in Nat
    BY <1>1 DEF Attempt
  <2>2. \A b \in Attempts :
           /\ attempt'[b].read <= reply'[b].deltas
           /\ attempt'[b].phase = "unused" => attempt'[b].read = 0
    BY <1>1, <1>3, <1>5 DEF ChatIInv, TextFits, Made, Reading, InFlight
  <2>3. ASSUME NEW i \in DOMAIN messages, messages[i].role = "assistant", messages[i].temp
        PROVE  messages'[i].text = attempt'[messages'[i].id].read
    <3>1. messages[i].text = attempt[messages[i].id].read
      BY <2>3 DEF ChatIInv, TextFits
    <3>2. messages[i].id # a => ~IsPlaceholder(messages[i], a)
      BY DEF IsPlaceholder
    <3>3. messages[i].id = a => IsPlaceholder(messages[i], a)
      BY <2>3 DEF IsPlaceholder
    <3> QED BY <1>5, <1>9, <1>11, <2>1, <3>1, <3>2, <3>3
  <2>4. \A i \in DOMAIN messages' : messages'[i].role = "assistant" /\ messages'[i].temp
            => messages'[i].text = attempt'[messages'[i].id].read
    BY <1>9, <2>3
  <2> QED BY <2>2, <2>4 DEF TextFits, Made
<1>14. CallsFit' /\ ControllerFits' /\ OneLiveAttempt'
  BY <1>1, <1>5 DEF ChatIInv, ChatTypeOK, CallsFit, ControllerFits, OneLiveAttempt, Reading, InFlight, Made
<1>15. NoStuckBubble' /\ QuestionsWait'
  BY <1>1, <1>5, <1>9, <1>11 DEF ChatIInv, NoStuckBubble, QuestionsWait, InFlight
<1>16. AnswersStay /\ RepliesStay
  BY <1>9 DEF AnswersStay, RepliesStay, IsPlaceholder
<1>17. SettledStay
  BY <1>1 DEF SettledStay, Reading
<1> QED BY <1>10, <1>12, <1>13, <1>14, <1>15, <1>16, <1>17 DEF ChatIInv, Onward

LEMMA Serving ==
    ASSUME ChatSessionAssumption, ChatIInv, NEW a \in Attempts, ServerStep(a)
    PROVE  ChatIInv' /\ Onward
<1>1. /\ UNCHANGED <<messages, pending, controller, attempt, mounted>>
      /\ reply \in [Attempts -> Reply] /\ reply[a] \in Reply /\ MaxDeltas \in Nat
  BY DEF ServerStep, clientVars, ChatIInv, ChatTypeOK, ChatSessionAssumption
<1>2. PICK rec \in Reply : reply' = [reply EXCEPT ![a] = rec] /\ reply[a].deltas <= rec.deltas
  <2>1. CASE \E k \in {"refused", "stream"} : reply' = [reply EXCEPT ![a].kind = k]
    <3>1. PICK k \in {"refused", "stream"} : reply' = [reply EXCEPT ![a].kind = k]
      BY <2>1
    <3> DEFINE rec == [reply[a] EXCEPT !.kind = k]
    <3>2. rec \in Reply /\ reply[a].deltas <= rec.deltas
      BY <1>1 DEF Reply
    <3>3. reply' = [reply EXCEPT ![a] = rec]
      BY <1>1, <3>1
    <3> HIDE DEF rec
    <3> QED BY <3>2, <3>3
  <2>2. CASE reply[a].deltas < MaxDeltas /\ reply' = [reply EXCEPT ![a].deltas = @ + 1]
    <3> DEFINE rec == [reply[a] EXCEPT !.deltas = @ + 1]
    <3>1. reply[a].deltas + 1 \in 0..MaxDeltas /\ reply[a].deltas <= reply[a].deltas + 1
      BY <1>1, <2>2 DEF Reply
    <3>2. rec \in Reply /\ rec.deltas = reply[a].deltas + 1
      BY <1>1, <3>1 DEF Reply
    <3>3. reply' = [reply EXCEPT ![a] = rec]
      BY <1>1, <2>2
    <3> HIDE DEF rec
    <3> QED BY <3>1, <3>2, <3>3
  <2>3. CASE \E e \in {"done", "errorText", "errorObject"} : reply' = [reply EXCEPT ![a].event = e]
    <3>1. PICK e \in {"done", "errorText", "errorObject"} : reply' = [reply EXCEPT ![a].event = e]
      BY <2>3
    <3> DEFINE rec == [reply[a] EXCEPT !.event = e]
    <3>2. rec \in Reply /\ reply[a].deltas <= rec.deltas
      BY <1>1 DEF Reply
    <3>3. reply' = [reply EXCEPT ![a] = rec]
      BY <1>1, <3>1
    <3> HIDE DEF rec
    <3> QED BY <3>2, <3>3
  <2>4. CASE \E c \in {"end", "lost"} : reply' = [reply EXCEPT ![a].closed = c]
    <3>1. PICK c \in {"end", "lost"} : reply' = [reply EXCEPT ![a].closed = c]
      BY <2>4
    <3> DEFINE rec == [reply[a] EXCEPT !.closed = c]
    <3>2. rec \in Reply /\ reply[a].deltas <= rec.deltas
      BY <1>1 DEF Reply
    <3>3. reply' = [reply EXCEPT ![a] = rec]
      BY <1>1, <3>1
    <3> HIDE DEF rec
    <3> QED BY <3>2, <3>3
  <2> QED BY <2>1, <2>2, <2>3, <2>4 DEF ServerStep
<1>3. /\ reply' \in [Attempts -> Reply]
      /\ \A b \in Attempts : reply'[b] = IF b = a THEN rec ELSE reply[b]
  BY <1>1, <1>2
<1>4. \A b \in Attempts : attempt[b].read \in Nat /\ reply[b].deltas \in Nat /\ reply'[b].deltas \in Nat
  <2>1. \A b \in Attempts : attempt[b] \in Attempt /\ reply[b] \in Reply /\ reply'[b] \in Reply
    BY <1>3, ElementTypes DEF ChatIInv
  <2> QED BY <1>1, <2>1 DEF Attempt, Reply
<1>5. TextFits'
  <2>1. \A b \in Attempts : reply[b].deltas <= reply'[b].deltas
    BY <1>2, <1>3, <1>4
  <2> QED BY <1>1, <1>4, <2>1 DEF ChatIInv, TextFits, Made
<1>6. ChatTypeOK'
  BY <1>1, <1>3 DEF ChatIInv, ChatTypeOK
<1>7. BubblesFit' /\ CallsFit' /\ ControllerFits' /\ OneLiveAttempt'
  BY <1>1 DEF ChatIInv, BubblesFit, CallsFit, ControllerFits, OneLiveAttempt, Distinct, Made,
              InFlight, Reading
<1>8. NoStuckBubble' /\ QuestionsWait'
  BY <1>1 DEF ChatIInv, NoStuckBubble, QuestionsWait, InFlight
<1> QED BY <1>1, <1>5, <1>6, <1>7, <1>8, SameBubbles DEF ChatIInv, Onward, SettledStay

LEMMA Idling ==
    ASSUME ChatIInv, UNCHANGED chatVars
    PROVE  ChatIInv' /\ Onward
<1>1. UNCHANGED <<messages, pending, controller, attempt, mounted, reply>>
  BY DEF chatVars, clientVars
<1>2. ChatTypeOK' /\ BubblesFit' /\ CallsFit' /\ TextFits'
  BY <1>1 DEF ChatIInv, ChatTypeOK, BubblesFit, CallsFit, TextFits, Distinct, Made, InFlight
<1>3. ControllerFits' /\ OneLiveAttempt' /\ NoStuckBubble' /\ QuestionsWait'
  BY <1>1 DEF ChatIInv, ControllerFits, OneLiveAttempt, NoStuckBubble, QuestionsWait, InFlight,
              Reading
<1> QED BY <1>1, <1>2, <1>3, SameBubbles DEF ChatIInv, Onward, SettledStay

-----------------------------------------------------------------------------
(* The theorems.                                                           *)

LEMMA StartsWell == ASSUME ChatSessionAssumption, SessionInit PROVE ChatIInv
<1>1. ChatTypeOK
  <2>1. <<>> \in Seq(Bubble)
    BY EmptySeq
  <2>2. attempt \in [Attempts -> Attempt]
    BY DEF SessionInit, ChatInit, Attempt, ChatSessionAssumption
  <2>3. reply \in [Attempts -> Reply]
    BY DEF SessionInit, Reply, ChatSessionAssumption
  <2> QED BY <2>1, <2>2, <2>3 DEF SessionInit, ChatInit, ChatTypeOK
<1>2. DOMAIN messages = {}
  BY DEF SessionInit, ChatInit
<1>3. \A a \in Attempts : attempt[a].phase = "unused" /\ attempt[a].read = 0 /\ reply[a].deltas = 0
  BY DEF SessionInit, ChatInit
<1>4. BubblesFit /\ CallsFit /\ TextFits
  BY <1>2, <1>3 DEF BubblesFit, CallsFit, TextFits, Distinct, Made, InFlight
<1>5. ControllerFits /\ OneLiveAttempt /\ NoStuckBubble /\ QuestionsWait
  BY <1>2, <1>3 DEF SessionInit, ChatInit, ControllerFits, OneLiveAttempt, NoStuckBubble,
                    QuestionsWait, Reading, InFlight
<1> QED BY <1>1, <1>4, <1>5 DEF ChatIInv

LEMMA StepsWell ==
    ASSUME ChatSessionAssumption, ChatIInv, [ChatNext]_chatVars
    PROVE  ChatIInv' /\ Onward
<1>1. CASE UserStep /\ UNCHANGED reply
  BY <1>1, Sending, Retrying, Regenerating, Cancelling, Unmounting DEF UserStep
<1>2. ASSUME NEW a \in Attempts, ReaderStep(a), UNCHANGED reply
      PROVE  ChatIInv' /\ Onward
  <2>1. CASE ReadDelta(a)
    BY <1>2, <2>1, Reads
  <2>2. CASE ReadDone(a)
    <3>1. InFlight(a) /\ Finalize(a, TRUE)
      BY <2>2 DEF ReadDone, Reading
    <3> QED BY <1>2, <3>1, Finishing
  <2>3. CASE ReadEnd(a)
    <3>1. InFlight(a) /\ Finalize(a, FALSE)
      BY <2>3 DEF ReadEnd, Reading
    <3> QED BY <1>2, <3>1, Finishing
  <2>4. CASE ReadError(a)
    <3>1. InFlight(a) /\ Fail(a, "failed") /\ "failed" \in Outcomes
      BY <2>4 DEF ReadError, Reading, Outcomes
    <3> QED BY <1>2, <3>1, Failing
  <2>5. CASE ReadAborted(a)
    <3>1. InFlight(a) /\ Fail(a, "canceled") /\ "canceled" \in Outcomes
      BY <2>5 DEF ReadAborted, Outcomes
    <3> QED BY <1>2, <3>1, Failing
  <2> QED BY <1>2, <2>1, <2>2, <2>3, <2>4, <2>5 DEF ReaderStep
<1>3. ASSUME NEW a \in Attempts, ServerStep(a)
      PROVE  ChatIInv' /\ Onward
  BY <1>3, Serving
<1>4. CASE UNCHANGED chatVars
  BY <1>4, Idling
<1> QED BY <1>1, <1>2, <1>3, <1>4 DEF ChatNext, ClientNext

\* The invariant of the window: in any order of sends, retries, regenerations,
\* cancels, an unmount and late settlements, behind any server, the bubbles,
\* the calls and the controller fit each other.
THEOREM ChatInvariant == ChatSpec => []ChatIInv
<1>1. ChatSessionAssumption /\ SessionInit => ChatIInv
  BY StartsWell
<1>2. ChatSessionAssumption /\ ChatIInv /\ [ChatNext]_chatVars => ChatIInv'
  BY StepsWell
<1> QED BY <1>1, <1>2, ChatSessionAssumption, PTL DEF ChatSpec

\* The inductive invariant says what the properties ask for.
LEMMA InvariantIsSafe == ASSUME ChatIInv PROVE ChatInv
<1>1. ChatTypeOK /\ OneLiveAttempt /\ NoStuckBubble
    BY DEF ChatIInv
<1>2. PendingIsServed
    BY DEF ChatIInv, ControllerFits, PendingIsServed
<1>3. FailedIsSettled
    BY DEF ChatIInv, BubblesFit, Fits, QuestionsWait, FailedIsSettled
<1> QED BY <1>1, <1>2, <1>3 DEF ChatInv

\* One call at most is live and Stop reaches it; the composer is locked only
\* for a question on its way; no spinner is without a call; and no question is
\* offered for retry while a call for it runs (useChatSessions).
THEOREM ChatIsSafe == ChatSpec => []ChatInv
<1>1. ChatIInv => ChatInv
    BY InvariantIsSafe
<1> QED BY <1>1, ChatInvariant, PTL

\* What is answered stays answered: one bubble has the question's name, and no
\* step takes it away or changes its status.
THEOREM AnswersAreFinal == ChatSpec => OkIsFinal
<1>1. ASSUME ChatSessionAssumption, ChatIInv, ChatIInv', [ChatNext]_chatVars, NEW n \in Attempts,
             UserStatus(messages, n) = {"ok"}
      PROVE  UserStatus(messages', n) = {"ok"}
  <2>1. PICK j \in DOMAIN messages :
           messages[j].role = "user" /\ messages[j].id = n /\ messages[j].status = "ok"
    <3>1. "ok" \in UserStatus(messages, n)
      BY <1>1
    <3> QED BY <3>1 DEF UserStatus
  <2>2. PICK k \in DOMAIN messages' :
           messages'[k].role = "user" /\ messages'[k].id = n /\ messages'[k].status = "ok"
    BY <1>1, <2>1, StepsWell DEF Onward, AnswersStay
  <2>3. \A l \in DOMAIN messages' : messages'[l].role = "user" /\ messages'[l].id = n => l = k
    BY <1>1, <2>2 DEF ChatIInv, BubblesFit, Distinct
  <2> QED BY <2>2, <2>3 DEF UserStatus
<1>2. ChatSessionAssumption /\ ChatIInv /\ ChatIInv' /\ [ChatNext]_chatVars
      => [\A n \in Attempts :
             UserStatus(messages, n) = {"ok"} => UserStatus(messages', n) = {"ok"}]_chatVars
  BY <1>1
<1> QED BY <1>2, ChatInvariant, ChatSessionAssumption, PTL DEF ChatSpec, OkIsFinal

-----------------------------------------------------------------------------
(* What a step of the client does to the outcome of a call.                *)

LEMMA UserSettlesNothing ==
    ASSUME ChatSessionAssumption, ChatIInv, UserStep, NEW b \in Attempts
    PROVE  attempt'[b].phase = attempt[b].phase \/ attempt'[b].phase = "inflight"
<1>1. attempt \in [Attempts -> Attempt]
  BY DEF ChatIInv, ChatTypeOK
<1>2. ASSUME NEW n, NEW list, Dispatch(n, list)
      PROVE  attempt'[b].phase = attempt[b].phase \/ attempt'[b].phase = "inflight"
  <2>1. attempt'[b] = IF b = NextAttempt
                      THEN [attempt[NextAttempt] EXCEPT !.phase = "inflight", !.user = n]
                      ELSE IF b = controller THEN [attempt[b] EXCEPT !.cut = TRUE] ELSE attempt[b]
    BY <1>2 DEF Dispatch
  <2> QED BY <1>1, <2>1 DEF Attempt
<1>3. CASE Send \/ Retry \/ Regenerate
  BY <1>2, <1>3 DEF Send, Retry, Regenerate
<1>4. CASE Cancel
  BY <1>1, <1>4 DEF Cancel, Attempt
<1>5. CASE Unmount
  <2>1. attempt'[b] = IF b = controller THEN [attempt[b] EXCEPT !.cut = TRUE] ELSE attempt[b]
    BY <1>5 DEF Unmount
  <2> QED BY <1>1, <2>1 DEF Attempt
<1> QED BY <1>3, <1>4, <1>5 DEF UserStep

\* A call is confirmed only by a final event that names its rows, and fails only
\* by a refusal, an error event or a broken connection, not aborted.
LEMMA OutcomesAreEarned ==
    ASSUME ChatSessionAssumption, ChatIInv, ClientNext, UNCHANGED reply, NEW b \in Attempts
    PROVE  /\ attempt'[b].phase = "confirmed" => attempt[b].phase = "confirmed" \/ ReadDone(b)
           /\ attempt'[b].phase = "failed" => attempt[b].phase = "failed" \/ ReadError(b)
           /\ ReadError(b) /\ attempt'[b].phase = "failed" => ~attempt'[b].cut
<1> USE DEF InFlight
<1>1. CASE UserStep
  BY <1>1, UserSettlesNothing DEF ReadError, Reading
<1>2. ASSUME NEW a \in Attempts, ReadDelta(a)
      PROVE  attempt'[b].phase = attempt[b].phase
  BY <1>2 DEF ReadDelta, ChatIInv, ChatTypeOK, Attempt
<1>3. ASSUME NEW a \in Attempts, InFlight(a), NEW outcome \in Outcomes, Settle(a, outcome)
      PROVE  /\ attempt'[b].phase = IF b = a THEN outcome ELSE attempt[b].phase
             /\ attempt'[b].cut = attempt[b].cut
  <2>1. attempt' = [attempt EXCEPT ![a].phase = outcome]
    BY <1>3 DEF Settle
  <2> QED BY <2>1 DEF ChatIInv, ChatTypeOK, Attempt
<1>4. ASSUME NEW a \in Attempts, ReaderStep(a), ~ReadDelta(a)
      PROVE  \/ ReadDone(a) /\ InFlight(a) /\ Settle(a, "confirmed")
             \/ ReadEnd(a) /\ InFlight(a) /\ Settle(a, "unconfirmed")
             \/ ReadError(a) /\ InFlight(a) /\ Settle(a, "failed")
             \/ ReadAborted(a) /\ InFlight(a) /\ Settle(a, "canceled")
  BY <1>4 DEF ReaderStep, ReadDone, ReadEnd, ReadError, ReadAborted, Reading, Finalize, Fail
<1>5. {"confirmed", "unconfirmed", "failed", "canceled"} = Outcomes
  BY DEF Outcomes
<1>6. CASE \E a \in Attempts : ReaderStep(a)
  <2>1. PICK a \in Attempts : ReaderStep(a)
    BY <1>6
  <2>2. CASE ReadDelta(a)
    BY <1>2, <2>2 DEF ReadError, Reading
  <2>3. CASE ReadDone(a) /\ InFlight(a) /\ Settle(a, "confirmed")
    BY <1>3, <1>5, <2>3 DEF ReadError, Reading
  <2>4. CASE ReadEnd(a) /\ InFlight(a) /\ Settle(a, "unconfirmed")
    BY <1>3, <1>5, <2>4 DEF ReadError, Reading
  <2>5. CASE ReadError(a) /\ InFlight(a) /\ Settle(a, "failed")
    BY <1>3, <1>5, <2>5 DEF ReadError, Reading
  <2>6. CASE ReadAborted(a) /\ InFlight(a) /\ Settle(a, "canceled")
    BY <1>3, <1>5, <2>6 DEF ReadError, Reading
  <2> QED BY <1>4, <2>1, <2>2, <2>3, <2>4, <2>5, <2>6
<1> QED BY <1>1, <1>6 DEF ClientNext
====
