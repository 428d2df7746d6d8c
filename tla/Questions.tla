------------------------------ MODULE Questions ------------------------------
(***************************************************************************)
(* Questions of agents to the owner, and his answers, as comments of one    *)
(* GitHub issue.  tools/task-questions.mjs asks and answers; the bridge     *)
(* scripts/notion/sync-questions.mjs mirrors questions to a Notion database *)
(* and brings answers back.                                                *)
(*                                                                         *)
(* None of them holds a lock: an action is one call of GitHub or of Notion. *)
(* Of the bridge one run at a time is modelled; nothing in the code excludes *)
(* two, which would write a page, and an answer, twice.                     *)
(***************************************************************************)
EXTENDS Naturals, Sequences, FiniteSets

CONSTANTS
    Askers,         \* processes of task-questions ask
    FirstPage,      \* comments the bridge reads of an issue; 100
    MaxComments,    \* bound
    MaxBridgeRuns   \* bound

ASSUME QuestionsAssumption ==
    FirstPage \in Nat /\ MaxComments \in Nat /\ MaxBridgeRuns \in Nat

VARIABLES
    comments,       \* of the issue, in order
    askers,         \* per asker: whether it has read the questions, and which
    pages,          \* the rows of the Notion database, in order of creation
    bridge,         \* the run of the bridge
    bridgeRuns,     \* how many there were
    raced           \* two asks overlapped

questionVars == <<comments, askers, pages, bridge, bridgeRuns, raced>>

\* History: of an answer of the bridge, the comments there were when it turned
\* to GitHub, and whether it read none of the answers.
Comment(type, qid, since, blind) ==
    [type |-> type, qid |-> qid, since |-> since, blind |-> blind]

\* A comment is told by the marker its body starts with.
Indices(type) == {i \in DOMAIN comments : comments[i].type = type}

Qids(type) == {comments[i].qid : i \in Indices(type)}

\* Those on the first page of the comments.
Unpaged(type) == {i \in Indices(type) : i <= FirstPage}

Quiet == [on |-> FALSE, existing |-> {}]
\* The bridge goes through positions: of comments, and then of rows.
First(S) == CHOOSE i \in S : \A j \in S : i <= j
NoRun == [at |-> "idle", mode |-> "none", todo |-> {}, known |-> <<>>, answered |-> {},
          blind |-> FALSE, \* history: answers it did not read, as the issue was not listed
          since |-> 0,     \* history: the comments there were when its second half began
          owed |-> {}]     \* history: the pages answered at that moment

QuestionsInit ==
    /\ comments = <<>> /\ askers = [a \in Askers |-> Quiet]
    /\ pages = <<>> /\ bridge = NoRun /\ bridgeRuns = 0
    /\ raced = FALSE

Posts(c) == Len(comments) < MaxComments /\ comments' = Append(comments, c)

-----------------------------------------------------------------------------
(* task-questions.                                                         *)

\* The first number that no question of the issue has.
NewQid(existing) ==
    CHOOSE n \in 1..(MaxComments + 1) : n \notin existing /\ \A k \in 1..(n - 1) : k \in existing

AskReads(a) ==
    /\ ~askers[a].on
    /\ askers' = [askers EXCEPT ![a] = [on |-> TRUE, existing |-> Qids("question")]]
    /\ UNCHANGED <<comments, pages, bridge, bridgeRuns, raced>>

AskPosts(a) ==
    /\ askers[a].on
    /\ Posts(Comment("question", NewQid(askers[a].existing), 0, FALSE))
    /\ askers' = [askers EXCEPT ![a] = Quiet]
    /\ raced' = (raced \/ askers[a].existing # Qids("question"))
    /\ UNCHANGED <<pages, bridge, bridgeRuns>>

\* gh refuses, or --dry-run.
AskGivesUp(a) ==
    /\ askers[a].on
    /\ askers' = [askers EXCEPT ![a] = Quiet]
    /\ UNCHANGED <<comments, pages, bridge, bridgeRuns, raced>>

\* By the owner, or for him by the cockpit.  A resolution is tried after an
\* answer, whose comment gh may have posted and reported as failed, and may
\* be posted alone.
Answers(q) == Posts(Comment("answer", q, 0, FALSE))
Resolves(q) == Posts(Comment("resolution", q, 0, FALSE))

OwnerSpeaks ==
    /\ \E q \in Qids("question") : Answers(q) \/ Resolves(q)
    /\ UNCHANGED <<askers, pages, bridge, bridgeRuns, raced>>

-----------------------------------------------------------------------------
(* The owner, in Notion.                                                   *)

\* "answered" stands for the status with an answer typed; the bridge treats an
\* answer that is not marked, or a mark without an answer, as the other two.
OwnerMarks == \E i \in DOMAIN pages :
    /\ pages[i].status = "pending"
    /\ \E status \in {"answered", "obsolete"} : pages' = [pages EXCEPT ![i].status = status]
    /\ UNCHANGED <<comments, askers, bridge, bridgeRuns, raced>>

-----------------------------------------------------------------------------
(* The bridge.                                                             *)

Running == bridge.at \notin {"idle", "ended"}
IsAnswered(p) == p.status = "answered"
Owed == {pages[i].qid : i \in {j \in DOMAIN pages : IsAnswered(pages[j])}}

BridgeStarts ==
    /\ ~Running /\ bridgeRuns < MaxBridgeRuns
    /\ bridgeRuns' = bridgeRuns + 1
    /\ \E mode \in {"both", "toNotion", "toGitHub"} :
          bridge' = IF mode = "toGitHub"
                    THEN [NoRun EXCEPT !.at = "rows", !.mode = mode,
                                       !.since = Len(comments), !.owed = Owed]
                    ELSE [NoRun EXCEPT !.at = "questions", !.mode = mode]
    /\ UNCHANGED <<comments, askers, pages, raced>>

\* A step of the bridge that writes neither to GitHub nor to Notion.
Goes(run) ==
    /\ bridge' = run
    /\ UNCHANGED <<comments, askers, pages, bridgeRuns, raced>>

\* What the bridge reads of an issue: nothing, unless it is open and among the first
\* hundred open ones.  It may be closed, or opened again, at any time.
Read(type) == {Unpaged(type), {}}

ReadsQuestions ==
    /\ bridge.at = "questions"
    /\ \E read \in Read("question") : Goes([bridge EXCEPT !.at = "index", !.todo = read])

\* byQid: of two pages with one title the later is known.
IndexesPages ==
    /\ bridge.at = "index"
    /\ Goes([bridge EXCEPT !.at = "mirror",
                 !.known = [q \in {pages[i].qid : i \in DOMAIN pages} |->
                               CHOOSE i \in DOMAIN pages :
                                  /\ pages[i].qid = q
                                  /\ \A j \in DOMAIN pages : pages[j].qid = q => j <= i]])

\* Every question says `status: pending` in its own header, and so its page is
\* written, a page the owner has marked included.
Mirrors ==
    /\ bridge.at = "mirror" /\ bridge.todo # {}
    /\ LET q == comments[First(bridge.todo)].qid IN
       pages' = IF q \in DOMAIN bridge.known
                THEN [pages EXCEPT ![bridge.known[q]].status = "pending"]
                ELSE Append(pages, [qid |-> q, status |-> "pending"])
    /\ bridge' = [bridge EXCEPT !.todo = @ \ {First(@)}]
    /\ UNCHANGED <<comments, askers, bridgeRuns, raced>>

MirrorEnds ==
    /\ bridge.at = "mirror" /\ bridge.todo = {}
    /\ Goes(IF bridge.mode = "both"
            THEN [bridge EXCEPT !.at = "rows", !.known = <<>>,
                                 !.since = Len(comments), !.owed = Owed]
            ELSE [NoRun EXCEPT !.at = "ended"])

ReadsRows ==
    /\ bridge.at = "rows"
    /\ Goes([bridge EXCEPT !.at = "answers",
                            !.todo = {i \in DOMAIN pages : IsAnswered(pages[i])}])

\* Mutant: the answers of pages marked answered are posted again.
ReadsNoAnswers ==
    /\ bridge.at = "answers"
    /\ Goes([bridge EXCEPT !.at = "post"])
\* Of an issue that is not listed no answer is read, and those of its rows
\* are taken for new.
ReadsAnswers ==
    /\ bridge.at = "answers"
    /\ \E read \in Read("answer") :
          Goes([bridge EXCEPT !.at = "post", !.blind = read # Unpaged("answer"),
                              !.answered = {comments[i].qid : i \in read}])

PostsAnswer ==
    /\ bridge.at = "post" /\ bridge.todo # {}
    /\ LET q == pages[First(bridge.todo)].qid IN
       IF q \in bridge.answered THEN UNCHANGED comments
                                    ELSE Posts(Comment("answer", q, bridge.since, bridge.blind))
    /\ bridge' = [bridge EXCEPT !.todo = @ \ {First(@)}]
    /\ UNCHANGED <<askers, pages, bridgeRuns, raced>>

PostEnds ==
    /\ bridge.at = "post" /\ bridge.todo = {}
    /\ Goes([NoRun EXCEPT !.at = "ended", !.owed = bridge.owed])

\* Any call that fails ends the run; what was written stays.
BridgeFails == Running /\ Goes(NoRun)

BridgeStep ==
    \/ ReadsQuestions \/ IndexesPages \/ Mirrors \/ MirrorEnds
    \/ ReadsRows \/ ReadsAnswers \/ PostsAnswer \/ PostEnds

QuestionsNext ==
    \/ \E a \in Askers : AskReads(a) \/ AskPosts(a) \/ AskGivesUp(a)
    \/ OwnerSpeaks \/ OwnerMarks
    \/ BridgeStarts \/ BridgeStep \/ BridgeFails

-----------------------------------------------------------------------------
(* Properties.                                                             *)

\* Two questions of an issue have two names, unless two were asked at once.
QidsDiffer ==
    ~raced => \A i, j \in Indices("question") : comments[i].qid = comments[j].qid => i = j

\* A question has one page, whichever runs failed half way, unless two
\* questions have one name.
OnePageEach ==
    ~raced =>
        \A i, j \in DOMAIN pages : pages[i].qid = pages[j].qid => i = j

\* The bridge does not answer what had an answer when it set out to answer, so long as
\* it saw the issue and that answer is on the page it reads; and no run of it
\* answers twice, seen or not.  The answers to an issue that is closed are
\* posted again by every run: the promise of one answer is not kept for those.
AnsweredOnce ==
    ~raced =>
        \A i, j \in Indices("answer") :
            i < j /\ comments[i].qid = comments[j].qid =>
                /\ i <= FirstPage /\ ~comments[j].blind => i > comments[j].since
                /\ comments[i].since = comments[j].since => comments[j].since = 0

\* An answer that stands in Notion when a run turns to GitHub stands on the
\* issue when the run has ended well.  A run in the default mode writes the rows
\* first, and what it made pending stands there no longer: an answer
\* marked before such a run of an open issue is lost from its row.
AnswerArrives == bridge.at = "ended" => bridge.owed \subseteq Qids("answer")

QuestionsInv == QidsDiffer /\ OnePageEach /\ AnsweredOnce /\ AnswerArrives

QuestionsSpec == QuestionsInit /\ [][QuestionsNext]_questionVars
=============================================================================
