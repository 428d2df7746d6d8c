------------------------------ MODULE Separate ------------------------------
(***************************************************************************)
(* Components that meet none of the others in the code but by a call and    *)
(* its answer, one at a time: the rate limiter and the provider clients of  *)
(* apps/api, the provider settings and the page of a project of apps/web,   *)
(* the runs and the page of the local console, and the scripts about tasks. *)
(***************************************************************************)
EXTENDS RateLimiter, ProviderClient, ProviderPage, ProjectPage, RunConsole, Cockpit,
        Questions, Backlog, NotionMirror, TaskDeps, TaskQueue, TaskMeta

VARIABLE followed

apiPart == <<rateVars, clientVars>>
webPart == <<providerVars, projectVars>>
toolPart == <<consoleVars, cockpitVars>>
issuePart == <<questionVars, backlogVars, mirrorVars, metaVars>>
taskPart == <<depsVars, queueVars>>

separateVars == <<followed, apiPart, webPart, toolPart, issuePart, taskPart>>

\* The parts left alone start in one state only.
SeparateInit ==
    /\ followed \in {"limiter", "client", "settings", "project", "runs", "cockpit",
                     "questions", "backlog", "mirror", "deps", "queue", "meta"}
    /\ Init
    /\ ClientInit /\ (followed # "client" => provider = "openai" /\ kind = "verify")
    /\ ProviderInit /\ (followed # "settings" => row = 0)
    /\ ProjectInit
    /\ followed # "project" => base /\ ~ofMock
    /\ ConsoleInit
    /\ CockpitInit /\ (followed # "cockpit" => token = "none")
    /\ QuestionsInit
    /\ BacklogInit /\ (followed # "backlog" => ~prefixed)
    /\ MirrorInit
    /\ MetaInit
    /\ DepsInit /\ (followed # "deps" => \A n \in Tasks : tracker[n] = "none")
    /\ QueueInit
    /\ followed # "queue" =>
          \A n \in Issues : priority[n] = (CHOOSE r \in Ranks : TRUE)
                            /\ needs[n] = {} /\ lineNeeds[n] = {}

SeparateNext ==
    /\ UNCHANGED followed
    /\ \/ /\ followed = "limiter" /\ Next
          /\ UNCHANGED <<clientVars, webPart, toolPart, issuePart, taskPart>>
       \/ /\ followed = "client" /\ ClientNext
          /\ UNCHANGED <<rateVars, webPart, toolPart, issuePart, taskPart>>
       \/ /\ followed = "settings" /\ ProviderNext
          /\ UNCHANGED <<apiPart, projectVars, toolPart, issuePart, taskPart>>
       \/ /\ followed = "project" /\ ProjectNext
          /\ UNCHANGED <<apiPart, providerVars, toolPart, issuePart, taskPart>>
       \/ /\ followed = "runs" /\ ConsoleNext
          /\ UNCHANGED <<apiPart, webPart, cockpitVars, issuePart, taskPart>>
       \/ /\ followed = "cockpit" /\ CockpitNext
          /\ UNCHANGED <<apiPart, webPart, consoleVars, issuePart, taskPart>>
       \/ /\ followed = "questions" /\ QuestionsNext
          /\ UNCHANGED <<apiPart, webPart, toolPart, backlogVars, mirrorVars, metaVars, taskPart>>
       \/ /\ followed = "backlog" /\ BacklogNext
          /\ UNCHANGED <<apiPart, webPart, toolPart, questionVars, mirrorVars, metaVars, taskPart>>
       \/ /\ followed = "mirror" /\ MirrorNext
          /\ UNCHANGED <<apiPart, webPart, toolPart, questionVars, backlogVars, metaVars, taskPart>>
       \/ /\ followed = "meta" /\ MetaNext
          /\ UNCHANGED <<apiPart, webPart, toolPart, questionVars, backlogVars, mirrorVars, taskPart>>
       \/ /\ followed = "deps" /\ DepsNext
          /\ UNCHANGED <<apiPart, webPart, toolPart, issuePart, queueVars>>
       \/ /\ followed = "queue" /\ QueueNext
          /\ UNCHANGED <<apiPart, webPart, toolPart, issuePart, depsVars>>

SeparateSpec == SeparateInit /\ [][SeparateNext]_separateVars

\* A step of the part that is followed, for the fairness below.
Client(A) == followed = "client" /\ A
             /\ UNCHANGED <<followed, rateVars, webPart, toolPart, issuePart, taskPart>>
Settings(A) == followed = "settings" /\ A
               /\ UNCHANGED <<followed, apiPart, projectVars, toolPart, issuePart, taskPart>>
Project(A) == followed = "project" /\ A
              /\ UNCHANGED <<followed, apiPart, providerVars, toolPart, issuePart, taskPart>>
Page(A) == followed = "cockpit" /\ A
           /\ UNCHANGED <<followed, apiPart, webPart, consoleVars, issuePart, taskPart>>

\* In the API, the event loop and its timers run: nothing is assumed of the
\* provider, and that headers arrive is no promise of the call.  In the browser
\* every call settles: it is given up after five seconds, a test after fifteen.
\* The cockpit bounds no call of its own: that its calls settle is assumed of the
\* loopback interface, and nothing of the user or of what happens to the server.
\* Each conjunct is fair to one action of every part; only one part is followed.
SeparateFairSpec ==
    /\ SeparateSpec
    /\ WF_separateVars(\/ Client(TimerFires) \/ Settings(LoadSettles)
                       \/ Project(PatchAnswered \/ PatchFails) \/ Page(PollFires))
    /\ WF_separateVars(\/ Client(FetchRejects) \/ Settings(TestEnds)
                       \/ Project(DeleteSettles) \/ Page(RefreshGoesOn(1)))
    /\ WF_separateVars(\/ Client(RefusalIsRead) \/ Settings(PutAnswered \/ PutFails)
                       \/ Project(FormAnswered \/ FormFails) \/ Page(RefreshGoesOn(2)))
    /\ WF_separateVars(Client(BodyIsRead) \/ Settings(DeleteAnswered \/ DeleteFails))
    /\ WF_separateVars(Client(Reads \/ TakesLine \/ ConsumerGoesOn \/ ReadFails \/ BodyEnds))

-----------------------------------------------------------------------------
(* Properties.                                                             *)

\* The two pages that list what the API has, when nothing is under way, list it
\* and nothing of another source.
PagesInv == ListIsFresh /\ ProjectInv

LoadWaits == \/ followed = "settings" /\ listed = Loading
             \/ followed = "client" /\ phase = "connecting"
             \/ followed = "cockpit" /\ ShowsOldSettings
SaveWaits == \/ followed = "settings" /\ saving # "no"
             \/ followed = "project" /\ form = "submitting"
             \/ followed = "client" /\ MustEnd
TestWaits == \/ followed = "settings" /\ testing
             \/ followed = "project" /\ headerBusy
DeleteWaits == followed = "settings" /\ deleting # "no"

\* Whatever makes a page or a caller wait comes to an end: no button stays
\* disabled, no list stays loading; a verification, a completion and an aborted
\* stream end, and so does the waiting of any stream for its headers; and a
\* connected cockpit does not go on showing settings that are no longer so.
CallsEnd ==
    /\ LoadWaits ~> ~LoadWaits
    /\ SaveWaits ~> ~SaveWaits
    /\ TestWaits ~> ~TestWaits
    /\ DeleteWaits ~> ~DeleteWaits
=============================================================================
