--------------------------- MODULE AutopilotProofs ---------------------------
(***************************************************************************)
(* The autopilot of Autopilot, for any number of runs, any issues and any  *)
(* budgets: its inductive invariant, what follows from it and from the     *)
(* shape of its steps, and on top of it the books of a run and its end.    *)
(***************************************************************************)
EXTENDS Autopilot, FiniteSetTheorems, TLAPS

LivePcs == {"starting", "child", "told"}

\* What the invariant asks of run r, for any active run, record and loop.
Sound(a, r, rec, lp) ==
    /\ lp.pc \in LivePcs /\ ~rec.stop => a = r /\ rec.status \in {"running", "waiting"}
    /\ lp.pc \in LivePcs /\ rec.status = "waiting" => lp.pc = "told" /\ lp.outcome = "waiting"
    /\ lp.pc = "child" => lp.issue \in Issues /\ rec.errors < MaxErrors /\ rec.prs < MaxPRs
    /\ a = r /\ rec.status = "running" /\ rec.mode # "plan" /\ ~rec.resumed
       => lp.pc \in LivePcs

\* The types of the parts of a run.
LEMMA RunFields ==
    ASSUME NEW rec \in RunType
    PROVE  /\ rec.mode \in Modes /\ rec.status \in Statuses
           /\ rec.stop \in BOOLEAN /\ rec.resumed \in BOOLEAN
           /\ rec.errors \in 0..MaxErrors /\ rec.prs \in 0..MaxPRs
           /\ rec.completed \subseteq Issues /\ rec.failed \subseteq Issues
           /\ rec.attempts \in [Issues -> 0..2]
BY DEF RunType

\* A new run and a new loop are well typed.
LEMMA NewIsTyped ==
    /\ NewRun \in RunType /\ NewLoop \in LoopType
    /\ \A pc \in Pcs : [NewLoop EXCEPT !.pc = pc] \in LoopType
    /\ \A st \in Statuses : [NewRun EXCEPT !.status = st] \in RunType
<1> USE AutopilotAssumption
<1>1. /\ 0 \in 0..MaxErrors /\ 0 \in 0..MaxPRs /\ 0 \in 0..2
      /\ [i \in Issues |-> 0] \in [Issues -> 0..2]
  OBVIOUS
<1>2. \A st \in Statuses : [NewRun EXCEPT !.status = st] \in RunType
  BY <1>1 DEF NewRun, RunType, Modes
<1>3. NewRun \in RunType
  BY <1>1 DEF NewRun, RunType, Modes, Statuses
<1>4. NewLoop \in LoopType /\ \A pc \in Pcs : [NewLoop EXCEPT !.pc = pc] \in LoopType
  BY DEF NewLoop, LoopType, Pcs
<1> QED BY <1>2, <1>3, <1>4

\* The invariant, run by run.
LEMMA InvIsSound ==
    ASSUME AutopilotTypeOK
    PROVE  AutopilotInv <=> \A r \in Runs : Sound(active, r, run[r], loop[r])
<1> USE AutopilotAssumption
<1>1. ASSUME NEW r \in Runs
      PROVE  Exhausted(r) <=> ~(run[r].errors < MaxErrors /\ run[r].prs < MaxPRs)
  BY <1>1, RunFields DEF Exhausted, AutopilotTypeOK
<1> QED BY <1>1 DEF AutopilotInv, RunningHasLoop, RunInv, OwnsEngine, WaitsLast, InHand, Live, Sound, LivePcs

\* _persist keeps the files well typed.
LEMMA Persisting ==
    ASSUME AutopilotTypeOK, Persist \/ UNCHANGED saved,
           run' \in [Runs -> RunType], active' \in Runs \cup {None}
    PROVE  saved' \in [Runs -> Statuses]
BY RunFields DEF Persist, AutopilotTypeOK

\* The same of the next state.
LEMMA SoundIsInv ==
    ASSUME AutopilotTypeOK', \A r \in Runs : Sound(active', r, run'[r], loop'[r])
    PROVE  AutopilotInv'
<1>1. ASSUME NEW r \in Runs PROVE RunInv(r)'
  <2>1. run'[r] \in RunType
    BY DEF AutopilotTypeOK
  <2>2. Exhausted(r)' <=> ~(run'[r].errors < MaxErrors /\ run'[r].prs < MaxPRs)
    BY <2>1, RunFields, AutopilotAssumption DEF Exhausted
  <2> QED BY <2>2 DEF RunInv, OwnsEngine, WaitsLast, InHand, Live, Sound, LivePcs
<1>2. RunningHasLoop'
  BY DEF RunningHasLoop, Live, Sound, LivePcs
<1> QED BY <1>1, <1>2 DEF AutopilotInv

\* A step of one run keeps the invariant if what it puts in the place of the
\* run's record and loop is well typed and sound.
LEMMA StepOfRun ==
    ASSUME AutopilotInv, NEW r \in Runs, NEW rec \in RunType, NEW lp \in LoopType,
           run' = [run EXCEPT ![r] = rec], loop' = [loop EXCEPT ![r] = lp],
           active' = active, Persist \/ UNCHANGED saved,
           child' \in Runs \cup {None}, alive' \subseteq Runs, onMain' \in BOOLEAN,
           Sound(active, r, rec, lp)
    PROVE  AutopilotInv'
<1>1. AutopilotTypeOK /\ \A s \in Runs : Sound(active, s, run[s], loop[s])
  BY InvIsSound DEF AutopilotInv
<1>2. run' \in [Runs -> RunType] /\ loop' \in [Runs -> LoopType]
  BY <1>1 DEF AutopilotTypeOK
<1>3. AutopilotTypeOK'
  BY <1>1, <1>2, Persisting DEF AutopilotTypeOK
<1>4. ASSUME NEW s \in Runs PROVE Sound(active', s, run'[s], loop'[s])
  BY <1>1 DEF AutopilotTypeOK
<1> QED BY <1>3, <1>4, SoundIsInv

-----------------------------------------------------------------------------
(* The lifecycle.                                                          *)

\* A run that leaves its loop with a final status keeps the invariant.
LEMMA Leaving ==
    ASSUME AutopilotInv, NEW r \in Runs, NEW st \in Statuses \ {"running"},
           NEW e \in 0..MaxErrors, LeavesWith(r, st, e),
           active' = active, Persist \/ UNCHANGED saved,
           child' \in Runs \cup {None}, alive' \subseteq Runs, onMain' \in BOOLEAN
    PROVE  AutopilotInv'
<1> DEFINE rec == [run[r] EXCEPT !.status = st, !.errors = e]
           lp == [NewLoop EXCEPT !.pc = "ending"]
<1>1. run[r] \in RunType
  BY DEF AutopilotInv, AutopilotTypeOK
<1>2. rec \in RunType /\ rec.status = st
  BY <1>1 DEF RunType
<1>3. lp \in LoopType /\ lp.pc = "ending"
  BY NewIsTyped DEF Pcs, NewLoop
<1>4. run' = [run EXCEPT ![r] = rec] /\ loop' = [loop EXCEPT ![r] = lp]
  BY DEF LeavesWith, Leaves
<1>5. Sound(active, r, rec, lp)
  BY <1>2, <1>3 DEF Sound, LivePcs
<1> HIDE DEF rec, lp
<1> QED BY <1>2, <1>3, <1>4, <1>5, StepOfRun

\* One turn of the loop keeps it, begun where the loop was not yet leaving.
LEMMA Iterating ==
    ASSUME AutopilotInv, NEW r \in Runs, Live(r),
           ~(loop[r].pc = "told" /\ loop[r].outcome = "waiting"), loop[r].pc # "child",
           active' = active, Iterate(r)
    PROVE  AutopilotInv'
<1> USE AutopilotAssumption
<1>1. /\ AutopilotTypeOK /\ run[r] \in RunType /\ loop[r] \in LoopType
      /\ Sound(active, r, run[r], loop[r])
  BY InvIsSound DEF AutopilotInv, AutopilotTypeOK
<1>2. /\ run[r].errors \in 0..MaxErrors /\ run[r].prs \in 0..MaxPRs
      /\ run[r].attempts \in [Issues -> 0..2]
      /\ child \in Runs \cup {None} /\ alive \subseteq Runs /\ onMain \in BOOLEAN
  BY <1>1, RunFields DEF AutopilotTypeOK
<1>3. ASSUME ~Exhausted(r)
      PROVE  /\ run[r].errors < MaxErrors /\ run[r].prs < MaxPRs
             /\ run[r].errors + 1 \in 0..MaxErrors
  BY <1>2, <1>3 DEF Exhausted
<1>4. ASSUME NEW i \in Issues PROVE Attempted(r, i) \in [Issues -> 0..2]
  BY <1>2 DEF Attempted
<1>5. CASE Halts(r)
  BY <1>5, <1>2, Leaving DEF Halts, Statuses
<1>6. CASE ~Exhausted(r) /\ NothingPicked(r)
  BY <1>6, <1>2, <1>3, Leaving DEF NothingPicked, Statuses
<1>7. CASE ~Exhausted(r) /\ PickThrows(r)
  <2> DEFINE rec == [run[r] EXCEPT !.status = "failed", !.errors = run[r].errors + 1]
             lp == [NewLoop EXCEPT !.pc = "over"]
  <2>1. rec \in RunType /\ rec.status = "failed"
    BY <1>1, <1>3, <1>7 DEF RunType, Statuses
  <2>2. lp \in LoopType /\ lp.pc = "over"
    BY NewIsTyped DEF Pcs, NewLoop
  <2>3. run' = [run EXCEPT ![r] = rec] /\ loop' = [loop EXCEPT ![r] = lp]
    BY <1>7 DEF PickThrows
  <2>4. Sound(active, r, rec, lp)
    BY <2>1, <2>2 DEF Sound, LivePcs
  <2> HIDE DEF rec, lp
  <2> QED BY <1>2, <1>7, <2>1, <2>2, <2>3, <2>4, StepOfRun DEF PickThrows
<1>8. ASSUME NEW i \in Picks(r) PROVE i \in Issues
  BY <1>1 DEF Picks, Candidates, LoopType
<1>9. CASE ~Exhausted(r) /\ \E i \in Picks(r) : AttemptFails(r, i)
  <2>1. PICK i \in Picks(r) : AttemptFails(r, i)
    BY <1>9
  <2> DEFINE rec == [run[r] EXCEPT !.status = "failed", !.errors = run[r].errors + 1,
                                   !.attempts = Attempted(r, i)]
             lp == [NewLoop EXCEPT !.pc = "ending"]
  <2>2. rec \in RunType /\ rec.status = "failed"
    BY <1>1, <1>3, <1>4, <1>8, <1>9 DEF RunType, Statuses
  <2>3. lp \in LoopType /\ lp.pc = "ending"
    BY NewIsTyped DEF Pcs, NewLoop
  <2>4. run' = [run EXCEPT ![r] = rec] /\ loop' = [loop EXCEPT ![r] = lp]
    BY <2>1 DEF AttemptFails, Leaves
  <2>5. Sound(active, r, rec, lp)
    BY <2>2, <2>3 DEF Sound, LivePcs
  <2> HIDE DEF rec, lp
  <2> QED BY <1>2, <2>1, <2>2, <2>3, <2>4, <2>5, StepOfRun DEF AttemptFails
<1>10. CASE ~Exhausted(r) /\ \E i \in Picks(r) : Launches(r, i)
  <2>1. PICK i \in Picks(r) : Launches(r, i)
    BY <1>10
  <2> DEFINE rec == [run[r] EXCEPT !.attempts = Attempted(r, i)]
             lp == [NewLoop EXCEPT !.pc = "child", !.issue = i]
  <2>2. /\ rec \in RunType
        /\ rec.status = run[r].status /\ rec.stop = run[r].stop
        /\ rec.errors = run[r].errors /\ rec.prs = run[r].prs
    BY <1>1, <1>4, <1>8 DEF RunType
  <2>3. lp \in LoopType /\ lp.pc = "child" /\ lp.issue = i
    BY <1>8 DEF Pcs, NewLoop, LoopType
  <2>4. run' = [run EXCEPT ![r] = rec] /\ loop' = [loop EXCEPT ![r] = lp]
    BY <2>1 DEF Launches
  <2>5. Sound(active, r, rec, lp)
    BY <1>1, <1>3, <1>8, <1>10, <2>2, <2>3 DEF Sound, LivePcs, Live
  <2>6. child' \in Runs \cup {None} /\ alive' \subseteq Runs /\ onMain' \in BOOLEAN /\ Persist
    BY <1>2, <2>1 DEF Launches
  <2> HIDE DEF rec, lp
  <2> QED BY <2>2, <2>3, <2>4, <2>5, <2>6, StepOfRun
<1> QED BY <1>5, <1>6, <1>7, <1>9, <1>10 DEF Iterate

\* Telling the notifier keeps it.
LEMMA Telling ==
    ASSUME AutopilotInv, NEW r \in Runs, MissionStarted(r) \/ OutcomeTold(r)
    PROVE  AutopilotInv'
<1>1. /\ AutopilotTypeOK /\ run[r] \in RunType /\ loop[r] \in LoopType
      /\ Sound(active, r, run[r], loop[r])
      /\ child \in Runs \cup {None} /\ alive \subseteq Runs /\ onMain \in BOOLEAN
  BY InvIsSound DEF AutopilotInv, AutopilotTypeOK
<1>2. run[r].errors \in 0..MaxErrors /\ run[r].status \in Statuses
  BY <1>1, RunFields
<1>3. CASE MissionStarted(r)
  BY <1>3, Iterating DEF MissionStarted, Live
<1>4. CASE OutcomeTold(r) /\ loop[r].outcome # "waiting" /\ run[r].mode = "loop"
  BY <1>4, Iterating DEF OutcomeTold, Live
<1>5. CASE OutcomeTold(r) /\ ~(loop[r].outcome # "waiting" /\ run[r].mode = "loop")
  <2>1. \E st \in Statuses \ {"running"} : LeavesWith(r, st, run[r].errors)
    BY <1>2, <1>5 DEF OutcomeTold, Breaks, Statuses
  <2>2. active' = active /\ UNCHANGED <<child, alive, onMain, saved>>
    BY <1>5 DEF OutcomeTold
  <2> QED BY <1>1, <1>2, <2>1, <2>2, Leaving
<1> QED BY <1>3, <1>4, <1>5

\* The return of the lifecycle keeps it.
LEMMA Returning ==
    ASSUME AutopilotInv, NEW r \in Runs, LifecycleReturns(r)
    PROVE  AutopilotInv'
<1> DEFINE lp == [NewLoop EXCEPT !.pc = "over"]
<1>1. /\ run \in [Runs -> RunType] /\ run[r] \in RunType
      /\ Sound(active, r, run[r], loop[r])
      /\ child \in Runs \cup {None} /\ alive \subseteq Runs /\ onMain \in BOOLEAN
  BY InvIsSound DEF AutopilotInv, AutopilotTypeOK
<1>2. lp \in LoopType /\ lp.pc = "over"
  BY NewIsTyped DEF Pcs, NewLoop
<1>3. run' = [run EXCEPT ![r] = run[r]] /\ loop' = [loop EXCEPT ![r] = lp]
  BY <1>1 DEF LifecycleReturns
<1>4. Sound(active, r, run[r], lp)
  BY <1>1, <1>2 DEF Sound, LivePcs, LifecycleReturns
<1> HIDE DEF lp
<1> QED BY <1>1, <1>2, <1>3, <1>4, StepOfRun DEF LifecycleReturns

\* What follows the exit of a child is told with a sound record.
LEMMA Outcome ==
    ASSUME AutopilotInv, NEW r \in Runs, loop[r].pc = "child", ~run[r].stop,
           NEW rec \in RunType, NEW verdict \in {"none", "PASS", "BLOCK", "error"},
           NEW outcome \in {"pr", "failed", "waiting"},
           rec.stop = run[r].stop, rec.mode = run[r].mode, rec.resumed = run[r].resumed,
           rec.status = IF outcome = "waiting" THEN "waiting" ELSE run[r].status,
           Tells(r, verdict, outcome, rec), Persist, active' = active,
           child' \in Runs \cup {None}, alive' \subseteq Runs, onMain' \in BOOLEAN
    PROVE  AutopilotInv'
<1> DEFINE lp == [loop[r] EXCEPT !.pc = "told", !.verdict = verdict, !.outcome = outcome]
<1>1. loop[r] \in LoopType /\ Sound(active, r, run[r], loop[r])
  BY InvIsSound DEF AutopilotInv, AutopilotTypeOK
<1>2. lp \in LoopType /\ lp.pc = "told" /\ lp.outcome = outcome
  BY <1>1 DEF LoopType, Pcs
<1>3. run' = [run EXCEPT ![r] = rec] /\ loop' = [loop EXCEPT ![r] = lp]
  BY DEF Tells
<1>4. Sound(active, r, rec, lp)
  BY <1>1, <1>2 DEF Sound, LivePcs
<1> HIDE DEF lp
<1> QED BY <1>2, <1>3, <1>4, StepOfRun

\* The exit of a child keeps the invariant.
LEMMA Exiting ==
    ASSUME AutopilotInv, NEW r \in Runs, ChildExits(r)
    PROVE  AutopilotInv'
<1> USE AutopilotAssumption
<1>1. /\ AutopilotTypeOK /\ run[r] \in RunType
      /\ Sound(active, r, run[r], loop[r])
  BY InvIsSound DEF AutopilotInv, AutopilotTypeOK
<1>2. /\ run[r].errors \in 0..MaxErrors /\ run[r].prs \in 0..MaxPRs
      /\ run[r].completed \subseteq Issues /\ run[r].failed \subseteq Issues
  BY <1>1, RunFields
<1>3. /\ loop[r].pc = "child" /\ loop[r].issue \in Issues
      /\ run[r].errors + 1 \in 0..MaxErrors /\ run[r].prs + 1 \in 0..MaxPRs
  BY <1>1, <1>2 DEF ChildExits, Sound
<1>4. /\ child' \in Runs \cup {None} /\ alive' \subseteq Runs /\ onMain' \in BOOLEAN
      /\ active' = active /\ Persist
  BY <1>1 DEF ChildExits, AutopilotTypeOK
<1>5. ASSUME NEW e \in 0..MaxErrors
      PROVE  LET rec == Failing(r, e) IN
             /\ rec \in RunType /\ rec.stop = run[r].stop /\ rec.mode = run[r].mode
             /\ rec.resumed = run[r].resumed /\ rec.status = run[r].status
  BY <1>1, <1>2, <1>3 DEF Failing, RunType
<1>6. LET rec == PullRequest(r) IN
      /\ rec \in RunType /\ rec.stop = run[r].stop /\ rec.mode = run[r].mode
      /\ rec.resumed = run[r].resumed /\ rec.status = run[r].status
  BY <1>1, <1>2, <1>3 DEF PullRequest, RunType
<1>7. LET rec == [run[r] EXCEPT !.status = "waiting"] IN
      /\ rec \in RunType /\ rec.stop = run[r].stop /\ rec.mode = run[r].mode
      /\ rec.resumed = run[r].resumed /\ rec.status = "waiting"
  BY <1>1 DEF RunType, Statuses
<1>8. CASE run[r].stop
  BY <1>2, <1>4, <1>8, Leaving DEF ChildExits, Statuses
<1>9. ASSUME ~run[r].stop, NEW verdict \in {"none", "error"}, NEW e \in 0..MaxErrors,
             Tells(r, verdict, "failed", Failing(r, e))
      PROVE  AutopilotInv'
  BY <1>3, <1>4, <1>5, <1>9, Outcome
<1>10. ASSUME ~run[r].stop, NEW verdict \in {"PASS", "BLOCK"}, Looks(r, verdict)
       PROVE  AutopilotInv'
  <2>1. CASE Tells(r, verdict, "pr", PullRequest(r))
    BY <1>3, <1>4, <1>6, <1>10, <2>1, Outcome
  <2>2. CASE Tells(r, verdict, "waiting", [run[r] EXCEPT !.status = "waiting"])
    BY <1>3, <1>4, <1>7, <1>10, <2>2, Outcome
  <2>3. CASE Tells(r, verdict, "failed", Failing(r, run[r].errors + 1))
    BY <1>3, <1>4, <1>5, <1>10, <2>3, Outcome
  <2> QED BY <1>10, <2>1, <2>2, <2>3 DEF Looks
<1> QED BY <1>2, <1>3, <1>8, <1>9, <1>10 DEF ChildExits

-----------------------------------------------------------------------------
(* The handlers, and what happens around the engine.                       *)

\* A step that changes no loop, and the record of the active run alone, keeps
\* the invariant if the record put there is well typed and sound.
LEMMA Handling ==
    ASSUME AutopilotInv, active # None, NEW rec \in RunType,
           run' = [run EXCEPT ![active] = rec],
           UNCHANGED <<loop, active, child, alive, onMain>>, Persist,
           Sound(active, active, rec, loop[active])
    PROVE  AutopilotInv'
<1>1. /\ active \in Runs /\ loop \in [Runs -> LoopType] /\ loop[active] \in LoopType
      /\ child \in Runs \cup {None} /\ alive \subseteq Runs /\ onMain \in BOOLEAN
  BY DEF AutopilotInv, AutopilotTypeOK
<1>2. loop' = [loop EXCEPT ![active] = loop[active]]
  BY <1>1
<1> QED BY <1>1, <1>2, StepOfRun

\* stop keeps the invariant.
LEMMA Stopping == ASSUME AutopilotInv, Stop PROVE AutopilotInv'
<1> DEFINE rec == [run[active] EXCEPT !.stop = TRUE, !.status = "stopped"]
<1>1. active # None /\ active \in Runs /\ run[active] \in RunType
  BY DEF Stop, AutopilotInv, AutopilotTypeOK
<1>2. Sound(active, active, run[active], loop[active])
  BY <1>1, InvIsSound DEF AutopilotInv
<1>3. /\ rec \in RunType /\ rec.stop = TRUE /\ rec.status = "stopped"
      /\ rec.errors = run[active].errors /\ rec.prs = run[active].prs
  BY <1>1 DEF RunType, Statuses
<1>4. Sound(active, active, rec, loop[active])
  BY <1>2, <1>3 DEF Sound
<1>5. run' = [run EXCEPT ![active] = rec]
  BY DEF Stop
<1> HIDE DEF rec
<1> QED BY <1>1, <1>3, <1>4, <1>5, Handling DEF Stop

\* resume keeps it.
LEMMA Resuming == ASSUME AutopilotInv, Resume PROVE AutopilotInv'
<1> DEFINE rec == [run[active] EXCEPT !.status = "running", !.resumed = TRUE]
<1>1. active # None /\ active \in Runs /\ run[active] \in RunType
  BY DEF Resume, AutopilotInv, AutopilotTypeOK
<1>2. Sound(active, active, run[active], loop[active])
  BY <1>1, InvIsSound DEF AutopilotInv
<1>3. /\ rec \in RunType /\ rec.status = "running" /\ rec.resumed = TRUE
      /\ rec.stop = run[active].stop
      /\ rec.errors = run[active].errors /\ rec.prs = run[active].prs
  BY <1>1 DEF RunType, Statuses
<1>4. Sound(active, active, rec, loop[active])
  BY <1>2, <1>3 DEF Sound
<1>5. run' = [run EXCEPT ![active] = rec]
  BY DEF Resume
<1> HIDE DEF rec
<1> QED BY <1>1, <1>3, <1>4, <1>5, Handling DEF Resume

\* An answer that cannot be posted keeps it: no child is out while a run waits.
LEMMA AnswerFailing == ASSUME AutopilotInv, AnswerFails PROVE AutopilotInv'
<1> DEFINE rec == [run[active] EXCEPT !.errors = run[active].errors + 1]
<1>1. active # None /\ active \in Runs /\ run[active] \in RunType
  BY DEF AnswerFails, AutopilotInv, AutopilotTypeOK
<1>2. /\ Sound(active, active, run[active], loop[active])
      /\ run[active].status = "waiting" /\ run[active].errors < MaxErrors
  BY <1>1, InvIsSound DEF AutopilotInv, AnswerFails
<1>3. run[active].errors + 1 \in 0..MaxErrors
  BY <1>1, <1>2, RunFields, AutopilotAssumption
<1>4. /\ rec \in RunType /\ rec.status = run[active].status /\ rec.stop = run[active].stop
  BY <1>1, <1>3 DEF RunType
<1>5. Sound(active, active, rec, loop[active])
  BY <1>2, <1>4 DEF Sound, LivePcs
<1>6. run' = [run EXCEPT ![active] = rec]
  BY DEF AnswerFails
<1> HIDE DEF rec
<1> QED BY <1>1, <1>4, <1>5, <1>6, Handling DEF AnswerFails

\* start keeps it: the record it makes is sound as that of the active run, and a
\* loop that is still at work was stopped, because no run was active.
LEMMA StartsSoundly ==
    ASSUME AutopilotInv, ~HasActive, NEW r \in Runs, NEW rec \in RunType, NEW lp \in LoopType,
           Starts(r, rec, lp), Sound(r, r, rec, lp)
    PROVE  AutopilotInv'
<1>1. /\ AutopilotTypeOK /\ \A s \in Runs : Sound(active, s, run[s], loop[s])
      /\ None \notin Runs
  BY InvIsSound, AutopilotAssumption DEF AutopilotInv, Runs
<1>2. \A s \in Runs : InFile(s) \in RunType
  BY <1>1, NewIsTyped DEF InFile, AutopilotTypeOK
<1>3. /\ run' \in [Runs -> RunType] /\ loop' \in [Runs -> LoopType] /\ active' = r
      /\ run'[r] = rec /\ loop'[r] = lp
  BY <1>1, <1>2 DEF Starts, AutopilotTypeOK
<1>4. AutopilotTypeOK'
  BY <1>1, <1>3, Persisting DEF Starts, AutopilotTypeOK
<1>5. ASSUME NEW s \in Runs PROVE Sound(active', s, run'[s], loop'[s])
  <2>1. CASE s = r
    BY <2>1, <1>3
  <2>2. CASE s # r /\ loop[s].pc \in {"none", "over"}
    BY <2>2, <1>1, <1>3 DEF Starts, AutopilotTypeOK, Sound, LivePcs
  <2>3. CASE s # r /\ loop[s].pc \notin {"none", "over"}
    <3>1. run'[s] = run[s] /\ loop'[s] = loop[s]
      BY <2>3, <1>1 DEF Starts, AutopilotTypeOK
    <3>2. active = s => run[s].status \notin {"running", "waiting"}
      BY <1>1 DEF HasActive
    <3> QED BY <2>3, <3>1, <3>2, <1>1, <1>3 DEF Sound
  <2> QED BY <2>1, <2>2, <2>3
<1> QED BY <1>4, <1>5, SoundIsInv

\* So does every way a start can go.
LEMMA Starting == ASSUME AutopilotInv, NEW r \in Runs, Start(r) PROVE AutopilotInv'
<1> DEFINE Begun(i) == [NewLoop EXCEPT !.pc = "starting", !.asked = i]
<1>1. ASSUME NEW m \in Modes, NEW st \in Statuses, NEW e \in 0..1
      PROVE  /\ Started(m, st, e) \in RunType /\ Started(m, st, e).status = st
             /\ Started(m, st, e).mode = m
  <2>1. e \in 0..MaxErrors
    BY AutopilotAssumption
  <2> QED BY <2>1, NewIsTyped DEF NewRun, RunType, Started
<1>2. ASSUME NEW i \in Issues \cup {None}
      PROVE  Begun(i) \in LoopType /\ Begun(i).pc = "starting"
  <2>1. NewLoop \in LoopType
    BY NewIsTyped
  <2> QED BY <2>1 DEF LoopType, Pcs
<1>3. PICK m \in Modes, i \in Named \cup {None} :
         \/ Starts(r, Started(m, "failed", 0), NewLoop)
         \/ Starts(r, Started(m, "running", 0), Begun(i))
         \/ \E e \in 0..1 : Starts(r, Started(m, "stopped", e), NewLoop)
         \/ m = "plan" /\ Starts(r, Started(m, "running", 0), NewLoop)
  BY DEF Start
<1>4. /\ NewLoop \in LoopType /\ NewLoop.pc = "none" /\ 0 \in 0..1 /\ ~HasActive
      /\ i \in Issues \cup {None}
  BY NewIsTyped, AutopilotAssumption DEF NewLoop, Start
<1> HIDE DEF Begun
<1>5. ASSUME NEW e \in 0..1, NEW st \in {"failed", "stopped"}, Starts(r, Started(m, st, e), NewLoop)
      PROVE  AutopilotInv'
  <2>1. Sound(r, r, Started(m, st, e), NewLoop)
    BY <1>1, <1>4 DEF Sound, LivePcs, Statuses
  <2> QED BY <1>1, <1>4, <1>5, <2>1, StartsSoundly DEF Statuses
<1>6. CASE Starts(r, Started(m, "running", 0), Begun(i))
  <2>1. Sound(r, r, Started(m, "running", 0), Begun(i))
    BY <1>1, <1>2, <1>4 DEF Sound, LivePcs, Statuses
  <2> QED BY <1>1, <1>2, <1>4, <1>6, <2>1, StartsSoundly DEF Statuses
<1>7. CASE m = "plan" /\ Starts(r, Started(m, "running", 0), NewLoop)
  <2>1. Sound(r, r, Started(m, "running", 0), NewLoop)
    BY <1>1, <1>4, <1>7 DEF Sound, LivePcs, Statuses
  <2> QED BY <1>1, <1>4, <1>7, <2>1, StartsSoundly DEF Statuses
<1> QED BY <1>3, <1>4, <1>5, <1>6, <1>7

\* reset keeps it: no run was active, so every loop still at work was stopped.
LEMMA Resetting == ASSUME AutopilotInv, Reset PROVE AutopilotInv'
<1>1. /\ AutopilotTypeOK /\ \A s \in Runs : Sound(active, s, run[s], loop[s])
      /\ None \notin Runs
  BY InvIsSound, AutopilotAssumption DEF AutopilotInv, Runs
<1>2. AutopilotTypeOK'
  BY <1>1 DEF AutopilotTypeOK, Reset
<1>3. ASSUME NEW s \in Runs PROVE Sound(active', s, run'[s], loop'[s])
  BY <1>1 DEF Sound, Reset, HasActive
<1> QED BY <1>2, <1>3, SoundIsInv

\* A restart keeps it: no loop survives.
LEMMA Restarting == ASSUME AutopilotInv, Restart PROVE AutopilotInv'
<1>1. AutopilotTypeOK /\ None \notin Runs
  BY AutopilotAssumption DEF AutopilotInv, Runs
<1>2. /\ \A s \in Runs : InFile(s) \in RunType
      /\ [NewLoop EXCEPT !.pc = "over"] \in LoopType
      /\ [NewLoop EXCEPT !.pc = "over"].pc = "over"
  BY <1>1, NewIsTyped DEF InFile, AutopilotTypeOK, Pcs, NewLoop
<1>3. AutopilotTypeOK'
  BY <1>1, <1>2 DEF AutopilotTypeOK, Restart
<1>4. ASSUME NEW s \in Runs PROVE Sound(active', s, run'[s], loop'[s])
  <2>1. loop'[s].pc \notin LivePcs /\ active' # s
    BY <1>1, <1>2 DEF Restart, LivePcs
  <2> QED BY <2>1 DEF Sound, LivePcs
<1> QED BY <1>3, <1>4, SoundIsInv

\* What leaves the engine alone keeps it.
LEMMA EngineUntouched ==
    ASSUME AutopilotInv, UNCHANGED engineVars, alive' \subseteq Runs, onMain' \in BOOLEAN
    PROVE  AutopilotInv'
<1>1. AutopilotTypeOK /\ \A s \in Runs : Sound(active, s, run[s], loop[s])
  BY InvIsSound DEF AutopilotInv
<1>2. AutopilotTypeOK'
  BY <1>1 DEF AutopilotTypeOK, engineVars
<1> QED BY <1>1, <1>2, SoundIsInv DEF engineVars

-----------------------------------------------------------------------------
(* The theorems on the working tree and the budgets.                       *)

\* The invariant holds of the new engine.
LEMMA InitHasInv == ASSUME AutopilotInit PROVE AutopilotInv
<1>1. AutopilotTypeOK
  BY NewIsTyped DEF AutopilotInit, AutopilotTypeOK, Statuses
<1>2. \A r \in Runs : Sound(active, r, run[r], loop[r])
  BY DEF AutopilotInit, Sound, LivePcs, NewLoop, NewRun
<1> QED BY <1>1, <1>2, InvIsSound

\* Every step keeps it.
LEMMA NextKeepsInv == ASSUME AutopilotInv, [AutopilotNext]_apVars PROVE AutopilotInv'
<1>1. alive \subseteq Runs /\ onMain \in BOOLEAN
  BY DEF AutopilotInv, AutopilotTypeOK
<1>2. ASSUME NEW r \in Runs, LifecycleStep(r) PROVE AutopilotInv'
  BY <1>2, Telling, Returning DEF LifecycleStep
<1>3. ASSUME NEW r \in Runs, OrphanExits(r) PROVE AutopilotInv'
  BY <1>1, <1>3, EngineUntouched DEF OrphanExits
<1>4. CASE OwnerReturnsToMain
  BY <1>1, <1>4, EngineUntouched DEF OwnerReturnsToMain
<1>5. CASE UNCHANGED apVars
  BY <1>1, <1>5, EngineUntouched DEF apVars, engineVars
<1> QED BY <1>2, <1>3, <1>4, <1>5, Exiting, Starting, Stopping, Resuming, AnswerFailing,
            Resetting, Restarting DEF AutopilotNext

\* A loop that was not stopped works for the active run, a run waits for an
\* answer only when its loop leaves for that, a child is launched within the
\* budgets: for any number of runs, whatever is stopped, resumed or restarted.
THEOREM EngineInvariant == AutopilotSpec => []AutopilotInv
<1>1. AutopilotInit => AutopilotInv
  BY InitHasInv
<1>2. AutopilotInv /\ [AutopilotNext]_apVars => AutopilotInv'
  BY NextKeepsInv
<1> QED BY <1>1, <1>2, PTL DEF AutopilotSpec

\* The budgets of errors and of pull requests are never overrun.
THEOREM BudgetsHold == AutopilotSpec => []AutopilotTypeOK
<1>1. AutopilotInv => AutopilotTypeOK
  BY DEF AutopilotInv
<1> QED BY <1>1, EngineInvariant, PTL

\* No two loops that were not stopped work on the one working tree.
THEOREM LoopsExclude == AutopilotSpec => []OneLiveLoop
<1>1. AutopilotInv => OneLiveLoop
  BY DEF AutopilotInv, RunInv, OwnsEngine, OneLiveLoop
<1> QED BY <1>1, EngineInvariant, PTL

\* A mission that is shown as running, and was not resumed, has its loop.
THEOREM RunningIsWorkedOn == AutopilotSpec => []RunningHasLoop
<1>1. AutopilotInv => RunningHasLoop
  BY DEF AutopilotInv
<1> QED BY <1>1, EngineInvariant, PTL

\* A run that was asked to stop launches no child, wherever its loop was: the
\* one step that launches is the turn of a loop, which looks at the request.
THEOREM StopEndsLaunches == AutopilotSpec => StoppedLaunchesNothing
<1> DEFINE Quiet == \A r \in Runs : run[r].stop => r \notin alive' \ alive
<1>1. ASSUME NEW s \in Runs, Iterate(s) PROVE Quiet
  <2>1. alive' = alive \/ (~run[s].stop /\ alive' = alive \cup {s})
    BY <1>1 DEF Iterate, Halts, NothingPicked, PickThrows, AttemptFails, Launches
  <2> QED BY <2>1
<1>2. ASSUME NEW s \in Runs, LifecycleStep(s) PROVE Quiet
  BY <1>1, <1>2 DEF LifecycleStep, MissionStarted, OutcomeTold, LifecycleReturns
<1>3. ASSUME NEW s \in Runs, ChildExits(s) \/ Start(s) \/ OrphanExits(s) PROVE Quiet
  BY <1>3 DEF ChildExits, Start, Starts, OrphanExits
<1>4. ASSUME Stop \/ Resume \/ AnswerFails \/ Reset \/ Restart \/ OwnerReturnsToMain PROVE Quiet
  BY <1>4 DEF Stop, Resume, AnswerFails, Reset, Restart, OwnerReturnsToMain
<1>5. AutopilotNext => Quiet
  BY <1>2, <1>3, <1>4 DEF AutopilotNext
<1> HIDE DEF Quiet
<1>6. [AutopilotNext]_apVars => [Quiet]_apVars
  BY <1>5
<1> USE DEF Quiet
<1> QED BY <1>6, PTL DEF AutopilotSpec, StoppedLaunchesNothing

\* The engine is safe: one loop works on the tree, for the active run, within the
\* budgets, at every await and after every restart.
THEOREM EngineIsSafe == AutopilotSpec => []EngineSafety
<1>1. AutopilotInv /\ OneLiveLoop => EngineSafety
  BY DEF EngineSafety
<1> QED BY <1>1, EngineInvariant, LoopsExclude, PTL

-----------------------------------------------------------------------------
(* The books of a run, and how it is stopped.                              *)

Untried(rec) == rec.completed = {} /\ rec.failed = {} /\ rec.prs = 0 /\ \A i \in Issues : rec.attempts[i] = 0
HeldIssue(lp) == IF lp.pc = "child" \/ lp.outcome = "waiting" THEN {lp.issue} ELSE {}

\* The books of a run with this record and this loop: what was tried is settled or
\* in hand, and a loop that may try an issue again has not been asked for one.
BooksKept(rec, lp) ==
    /\ \A i \in Issues : rec.attempts[i] <= 1
    /\ lp.pc = "starting" => Untried(rec) /\ lp.outcome = "none"
    /\ lp.pc \in LivePcs =>
          /\ {i \in Issues : rec.attempts[i] > 0} = rec.completed \cup rec.failed \cup HeldIssue(lp)
          /\ rec.completed \cap rec.failed = {}
          /\ IsFiniteSet(rec.completed) /\ Cardinality(rec.completed) = rec.prs
    /\ lp.pc = "child" =>
          lp.outcome = "none" /\ lp.issue \notin rec.completed \cup rec.failed
    /\ lp.pc \in {"child", "told"} => lp.asked = None

\* A run that was stopped is shown so, and plans have no loop.
StopKept(rec, lp) ==
    /\ rec.stop /\ rec.mode # "exec" => rec.status = "stopped"
    /\ lp.pc \in LivePcs => rec.mode # "plan"

Kept(rec, lp) == BooksKept(rec, lp) /\ StopKept(rec, lp)

AllKept == \A r \in Runs : Kept(run[r], loop[r])

\* Of a step of run r it is enough to know what it puts in the place of the run's
\* record and loop.
LEMMA KeptByRun ==
    ASSUME AutopilotInv, AllKept, NEW r \in Runs, NEW rec, NEW lp, Kept(rec, lp),
           run' = [run EXCEPT ![r] = rec], loop' = [loop EXCEPT ![r] = lp]
    PROVE  AllKept'
<1>1. run \in [Runs -> RunType] /\ loop \in [Runs -> LoopType]
  BY DEF AutopilotInv, AutopilotTypeOK
<1>2. ASSUME NEW s \in Runs PROVE Kept(run'[s], loop'[s])
  <2>1. CASE s = r
    <3>1. run'[s] = rec /\ loop'[s] = lp
      BY <1>1, <2>1
    <3> QED BY <3>1
  <2>2. CASE s # r
    <3>1. run'[s] = run[s] /\ loop'[s] = loop[s] /\ Kept(run[s], loop[s])
      BY <1>1, <2>2 DEF AllKept
    <3> QED BY <3>1
  <2> QED BY <2>1, <2>2
<1> QED BY <1>2 DEF AllKept

\* A run that is leaving, or over, only has its books closed.
LEMMA KeptWhenLeft ==
    ASSUME NEW old, NEW lp, Kept(old, lp), NEW rec, NEW end, end.pc \in {"ending", "over", "none"},
           rec.attempts = old.attempts,
           rec.stop /\ rec.mode # "exec" => rec.status = "stopped"
    PROVE  Kept(rec, end)
BY DEF Kept, BooksKept, StopKept, LivePcs

\* A loop is left with a status that a stop agrees with.
LEMMA LeavingKeeps ==
    ASSUME AutopilotInv, AllKept, NEW r \in Runs, NEW st, NEW e, LeavesWith(r, st, e),
           run[r].stop /\ run[r].mode # "exec" => st = "stopped"
    PROVE  AllKept'
<1> DEFINE rec == [run[r] EXCEPT !.status = st, !.errors = e]
           lp == [NewLoop EXCEPT !.pc = "ending"]
<1>1. run[r] \in RunType /\ Kept(run[r], loop[r])
  BY DEF AutopilotInv, AutopilotTypeOK, AllKept
<1>2. /\ rec.status = st /\ rec.stop = run[r].stop /\ rec.mode = run[r].mode
      /\ rec.attempts = run[r].attempts
  BY <1>1 DEF RunType
<1>3. lp.pc = "ending"
  BY DEF NewLoop
<1>4. run' = [run EXCEPT ![r] = rec] /\ loop' = [loop EXCEPT ![r] = lp]
  BY DEF LeavesWith, Leaves
<1> HIDE DEF rec, lp
<1>5. Kept(rec, lp)
  BY <1>1, <1>2, <1>3, KeptWhenLeft
<1> QED BY <1>4, <1>5, KeptByRun

\* One turn of the loop: the issue it picks was not tried.
LEMMA IteratingKeeps ==
    ASSUME AutopilotInv, AllKept, NEW r \in Runs, Live(r),
           loop[r].pc # "child", loop[r].outcome # "waiting", Iterate(r)
    PROVE  AllKept'
<1>1. /\ run[r] \in RunType /\ loop[r] \in LoopType /\ Kept(run[r], loop[r])
      /\ run[r].attempts \in [Issues -> 0..2]
      /\ run[r].completed \subseteq Issues /\ run[r].failed \subseteq Issues
  BY RunFields DEF AutopilotInv, AutopilotTypeOK, AllKept
<1>2. /\ {i \in Issues : run[r].attempts[i] > 0} = run[r].completed \cup run[r].failed
      /\ run[r].completed \cap run[r].failed = {}
      /\ IsFiniteSet(run[r].completed) /\ Cardinality(run[r].completed) = run[r].prs
      /\ \A i \in Issues : run[r].attempts[i] <= 1
      /\ run[r].mode # "plan"
      /\ run[r].stop /\ run[r].mode # "exec" => run[r].status = "stopped"
  BY <1>1 DEF Kept, BooksKept, StopKept, HeldIssue, Live, LivePcs
<1>3. CASE Halts(r)
  BY <1>3, LeavingKeeps DEF Halts
<1>4. CASE NothingPicked(r)
  BY <1>4, LeavingKeeps DEF NothingPicked
<1>5. CASE ~run[r].stop /\ PickThrows(r)
  <2> DEFINE rec == [run[r] EXCEPT !.status = "failed", !.errors = run[r].errors + 1]
             lp == [NewLoop EXCEPT !.pc = "over"]
  <2>1. rec.stop = run[r].stop /\ rec.attempts = run[r].attempts
    BY <1>1 DEF RunType
  <2>2. lp.pc = "over"
    BY DEF NewLoop
  <2>3. run' = [run EXCEPT ![r] = rec] /\ loop' = [loop EXCEPT ![r] = lp]
    BY <1>5 DEF PickThrows
  <2> HIDE DEF rec, lp
  <2>4. Kept(rec, lp)
    BY <1>1, <1>5, <2>1, <2>2, KeptWhenLeft
  <2> QED BY <2>3, <2>4, KeptByRun
<1>6. ASSUME NEW i \in Picks(r)
      PROVE  /\ i \in Issues /\ run[r].attempts[i] = 0
             /\ i \notin run[r].completed \cup run[r].failed
  <2>1. i \in Issues
    BY <1>1 DEF Picks, Candidates, LoopType
  <2>2. loop[r].asked # None => loop[r].pc = "starting"
    BY <1>1 DEF Kept, BooksKept, Live
  <2>3. i \notin run[r].completed \cup run[r].failed
    BY <1>1, <2>2 DEF Picks, Candidates, Kept, BooksKept, Untried
  <2>4. run[r].attempts[i] \in 0..2
    BY <1>1, <2>1
  <2> QED BY <1>2, <2>1, <2>3, <2>4
<1>7. ASSUME NEW i \in Picks(r)
      PROVE  /\ Attempted(r, i)[i] = 1
             /\ \A j \in Issues \ {i} : Attempted(r, i)[j] = run[r].attempts[j]
  BY <1>1, <1>6 DEF Attempted
<1>8. ASSUME NEW i \in Picks(r), ~run[r].stop, AttemptFails(r, i) PROVE AllKept'
  <2> DEFINE rec == [run[r] EXCEPT !.status = "failed", !.errors = run[r].errors + 1,
                                   !.attempts = Attempted(r, i)]
             lp == [NewLoop EXCEPT !.pc = "ending"]
  <2>1. rec.stop = run[r].stop /\ rec.attempts = Attempted(r, i)
    BY <1>1 DEF RunType
  <2>2. lp.pc = "ending"
    BY DEF NewLoop
  <2>3. run' = [run EXCEPT ![r] = rec] /\ loop' = [loop EXCEPT ![r] = lp]
    BY <1>8 DEF AttemptFails, Leaves
  <2> HIDE DEF rec, lp
  <2>4. \A j \in Issues : rec.attempts[j] <= 1
    BY <1>2, <1>7, <2>1
  <2>5. Kept(rec, lp)
    BY <1>8, <2>1, <2>2, <2>4 DEF Kept, BooksKept, StopKept, LivePcs
  <2> QED BY <2>3, <2>5, KeptByRun
<1>9. ASSUME NEW i \in Picks(r), ~run[r].stop, Launches(r, i) PROVE AllKept'
  <2> DEFINE rec == [run[r] EXCEPT !.attempts = Attempted(r, i)]
             lp == [NewLoop EXCEPT !.pc = "child", !.issue = i]
  <2>1. /\ rec.stop = run[r].stop /\ rec.attempts = Attempted(r, i) /\ rec.mode = run[r].mode
        /\ rec.completed = run[r].completed /\ rec.failed = run[r].failed /\ rec.prs = run[r].prs
    BY <1>1 DEF RunType
  <2>2. lp.pc = "child" /\ lp.issue = i /\ lp.outcome = "none" /\ lp.asked = None
    BY DEF NewLoop
  <2>3. run' = [run EXCEPT ![r] = rec] /\ loop' = [loop EXCEPT ![r] = lp]
    BY <1>9 DEF Launches
  <2> HIDE DEF rec, lp
  <2>4. \A j \in Issues : rec.attempts[j] <= 1
    BY <1>2, <1>7, <2>1
  <2>5. {j \in Issues : rec.attempts[j] > 0} = rec.completed \cup rec.failed \cup {i}
    BY <1>2, <1>6, <1>7, <2>1
  <2>6. BooksKept(rec, lp)
    BY <1>2, <1>6, <2>1, <2>2, <2>4, <2>5 DEF BooksKept, HeldIssue, LivePcs
  <2>7. StopKept(rec, lp)
    BY <1>2, <1>9, <2>1 DEF StopKept
  <2> QED BY <2>3, <2>6, <2>7, KeptByRun DEF Kept
<1> QED BY <1>3, <1>4, <1>5, <1>8, <1>9 DEF Iterate

\* The notifier has been told.
LEMMA TellingKeeps ==
    ASSUME AutopilotInv, AllKept, NEW r \in Runs, MissionStarted(r) \/ OutcomeTold(r)
    PROVE  AllKept'
<1>1. /\ Kept(run[r], loop[r]) /\ run[r] \in RunType /\ loop[r] \in LoopType
      /\ run[r].mode \in Modes
  BY RunFields DEF AllKept, AutopilotInv, AutopilotTypeOK
<1>2. CASE MissionStarted(r)
  <2>1. loop[r].outcome # "waiting"
    BY <1>1, <1>2 DEF MissionStarted, Kept, BooksKept
  <2> QED BY <1>2, <2>1, IteratingKeeps DEF MissionStarted, Live
<1>3. CASE OutcomeTold(r) /\ loop[r].outcome # "waiting" /\ run[r].mode = "loop"
  BY <1>3, IteratingKeeps DEF OutcomeTold, Live
<1>4. CASE OutcomeTold(r) /\ loop[r].outcome = "waiting"
  <2>1. Breaks(r)
    BY <1>4 DEF OutcomeTold
  <2>2. run[r].stop /\ run[r].mode # "exec" => run[r].status = "stopped"
    BY <1>1 DEF Kept, StopKept
  <2> QED BY <2>1, <2>2, LeavingKeeps DEF Breaks
<1>5. CASE OutcomeTold(r) /\ loop[r].outcome # "waiting" /\ run[r].mode # "loop"
  <2>1. run[r].mode = "exec"
    BY <1>1, <1>5 DEF OutcomeTold, Kept, StopKept, LivePcs, Modes
  <2>2. \E st \in Statuses : LeavesWith(r, st, run[r].errors)
    BY <1>5 DEF OutcomeTold, Statuses
  <2> QED BY <2>1, <2>2, LeavingKeeps
<1> QED BY <1>2, <1>3, <1>4, <1>5

LEMMA ReturningKeeps ==
    ASSUME AutopilotInv, AllKept, NEW r \in Runs, LifecycleReturns(r)
    PROVE  AllKept'
<1> DEFINE lp == [NewLoop EXCEPT !.pc = "over"]
<1>1. Kept(run[r], loop[r]) /\ run \in [Runs -> RunType]
  BY DEF AllKept, AutopilotInv, AutopilotTypeOK
<1>2. lp.pc = "over"
  BY DEF NewLoop
<1>3. run' = [run EXCEPT ![r] = run[r]] /\ loop' = [loop EXCEPT ![r] = lp]
  BY <1>1 DEF LifecycleReturns
<1> HIDE DEF lp
<1>4. Kept(run[r], lp)
  BY <1>1, <1>2, KeptWhenLeft DEF Kept, StopKept
<1> QED BY <1>3, <1>4, KeptByRun

\* The issue in hand is settled one way, or stays in hand for its answer.
LEMMA OutcomeKeeps ==
    ASSUME AutopilotInv, AllKept, NEW r \in Runs, loop[r].pc = "child", ~run[r].stop,
           NEW rec, NEW verdict, NEW outcome \in {"pr", "failed", "waiting"},
           rec.stop = run[r].stop, rec.mode = run[r].mode, rec.attempts = run[r].attempts,
           \/ /\ outcome = "pr" /\ rec.prs = run[r].prs + 1 /\ rec.failed = run[r].failed
              /\ rec.completed = run[r].completed \cup {loop[r].issue}
           \/ /\ outcome = "failed" /\ rec.prs = run[r].prs /\ rec.completed = run[r].completed
              /\ rec.failed = run[r].failed \cup {loop[r].issue}
           \/ /\ outcome = "waiting" /\ rec.prs = run[r].prs
              /\ rec.completed = run[r].completed /\ rec.failed = run[r].failed,
           Tells(r, verdict, outcome, rec)
    PROVE  AllKept'
<1> DEFINE lp == [loop[r] EXCEPT !.pc = "told", !.verdict = verdict, !.outcome = outcome]
<1>1. loop[r] \in LoopType /\ run[r] \in RunType /\ Kept(run[r], loop[r])
      /\ run[r].completed \subseteq Issues /\ run[r].prs \in Nat
  BY RunFields, AutopilotAssumption DEF AutopilotInv, AutopilotTypeOK, AllKept
<1>2. lp.pc = "told" /\ lp.outcome = outcome /\ lp.issue = loop[r].issue /\ lp.asked = loop[r].asked
  BY <1>1 DEF LoopType
<1>3. run' = [run EXCEPT ![r] = rec] /\ loop' = [loop EXCEPT ![r] = lp]
  BY DEF Tells
<1> HIDE DEF lp
<1>4. /\ {i \in Issues : run[r].attempts[i] > 0}
            = run[r].completed \cup run[r].failed \cup {loop[r].issue}
      /\ run[r].completed \cap run[r].failed = {}
      /\ IsFiniteSet(run[r].completed) /\ Cardinality(run[r].completed) = run[r].prs
      /\ \A i \in Issues : run[r].attempts[i] <= 1
      /\ loop[r].asked = None /\ loop[r].issue \notin run[r].completed \cup run[r].failed
      /\ run[r].mode # "plan"
  BY <1>1 DEF Kept, BooksKept, StopKept, HeldIssue, LivePcs
<1>5. /\ IsFiniteSet(run[r].completed \cup {loop[r].issue})
      /\ Cardinality(run[r].completed \cup {loop[r].issue}) = run[r].prs + 1
  BY <1>4, FS_AddElement
<1>6. BooksKept(rec, lp)
  BY <1>2, <1>4, <1>5 DEF BooksKept, HeldIssue, LivePcs
<1>7. StopKept(rec, lp)
  BY <1>4 DEF StopKept
<1> QED BY <1>3, <1>6, <1>7, KeptByRun DEF Kept

LEMMA ExitingKeeps ==
    ASSUME AutopilotInv, AllKept, NEW r \in Runs, ChildExits(r)
    PROVE  AllKept'
<1>1. run[r] \in RunType /\ loop[r].pc = "child"
  BY DEF AutopilotInv, AutopilotTypeOK, ChildExits
<1>2. CASE run[r].stop
  BY <1>2, LeavingKeeps DEF ChildExits
<1>3. ASSUME ~run[r].stop, NEW verdict, NEW e, Tells(r, verdict, "failed", Failing(r, e))
      PROVE  AllKept'
  <2> DEFINE rec == Failing(r, e)
  <2>1. /\ rec.stop = run[r].stop /\ rec.mode = run[r].mode /\ rec.attempts = run[r].attempts
        /\ rec.prs = run[r].prs /\ rec.completed = run[r].completed
        /\ rec.failed = run[r].failed \cup {loop[r].issue}
    BY <1>1 DEF Failing, RunType
  <2>2. Tells(r, verdict, "failed", rec)
    BY <1>3
  <2> HIDE DEF rec
  <2> QED BY <1>1, <1>3, <2>1, <2>2, OutcomeKeeps
<1>4. ASSUME ~run[r].stop, NEW verdict, Tells(r, verdict, "pr", PullRequest(r))
      PROVE  AllKept'
  <2> DEFINE rec == PullRequest(r)
  <2>1. /\ rec.stop = run[r].stop /\ rec.mode = run[r].mode /\ rec.attempts = run[r].attempts
        /\ rec.prs = run[r].prs + 1 /\ rec.failed = run[r].failed
        /\ rec.completed = run[r].completed \cup {loop[r].issue}
    BY <1>1 DEF PullRequest, RunType
  <2>2. Tells(r, verdict, "pr", rec)
    BY <1>4
  <2> HIDE DEF rec
  <2> QED BY <1>1, <1>4, <2>1, <2>2, OutcomeKeeps
<1>5. ASSUME ~run[r].stop, NEW verdict,
             Tells(r, verdict, "waiting", [run[r] EXCEPT !.status = "waiting"])
      PROVE  AllKept'
  <2> DEFINE rec == [run[r] EXCEPT !.status = "waiting"]
  <2>1. /\ rec.stop = run[r].stop /\ rec.mode = run[r].mode /\ rec.attempts = run[r].attempts
        /\ rec.prs = run[r].prs /\ rec.failed = run[r].failed
        /\ rec.completed = run[r].completed
    BY <1>1 DEF RunType
  <2>2. Tells(r, verdict, "waiting", rec)
    BY <1>5
  <2> HIDE DEF rec
  <2> QED BY <1>1, <1>5, <2>1, <2>2, OutcomeKeeps
<1> QED BY <1>2, <1>3, <1>4, <1>5 DEF ChildExits, Looks

\* A handler writes nothing into the books.
LEMMA HandlingKeeps ==
    ASSUME AutopilotInv, AllKept, Stop \/ Resume \/ AnswerFails
    PROVE  AllKept'
<1>1. active \in Runs /\ loop \in [Runs -> LoopType] /\ run[active] \in RunType
  BY DEF AutopilotInv, AutopilotTypeOK, Stop, Resume, AnswerFails
<1>2. Kept(run[active], loop[active]) /\ loop' = [loop EXCEPT ![active] = loop[active]]
  BY <1>1 DEF AllKept, Stop, Resume, AnswerFails
<1>3. \E rec : /\ run' = [run EXCEPT ![active] = rec]
               /\ rec.attempts = run[active].attempts /\ rec.completed = run[active].completed
               /\ rec.failed = run[active].failed /\ rec.prs = run[active].prs
               /\ rec.mode = run[active].mode
               /\ rec.stop /\ rec.mode # "exec" => rec.status = "stopped"
  <2>1. CASE Stop
    <3> DEFINE rec == [run[active] EXCEPT !.stop = TRUE, !.status = "stopped"]
    <3>1. run' = [run EXCEPT ![active] = rec]
      BY <2>1 DEF Stop
    <3>2. /\ rec.attempts = run[active].attempts /\ rec.completed = run[active].completed
          /\ rec.failed = run[active].failed /\ rec.prs = run[active].prs
          /\ rec.mode = run[active].mode /\ rec.status = "stopped"
      BY <1>1 DEF RunType
    <3> HIDE DEF rec
    <3> QED BY <3>1, <3>2
  <2>2. CASE Resume
    <3> DEFINE rec == [run[active] EXCEPT !.status = "running", !.resumed = TRUE]
    <3>1. run' = [run EXCEPT ![active] = rec]
      BY <2>2 DEF Resume
    <3>2. /\ rec.attempts = run[active].attempts /\ rec.completed = run[active].completed
          /\ rec.failed = run[active].failed /\ rec.prs = run[active].prs
          /\ rec.mode = run[active].mode /\ rec.stop = run[active].stop
      BY <1>1 DEF RunType
    <3>3. ~(run[active].stop /\ run[active].mode # "exec")
      BY <1>2, <2>2 DEF Resume, Kept, StopKept
    <3> HIDE DEF rec
    <3> QED BY <3>1, <3>2, <3>3
  <2>3. CASE AnswerFails
    <3> DEFINE rec == [run[active] EXCEPT !.errors = run[active].errors + 1]
    <3>1. run' = [run EXCEPT ![active] = rec]
      BY <2>3 DEF AnswerFails
    <3>2. /\ rec.attempts = run[active].attempts /\ rec.completed = run[active].completed
          /\ rec.failed = run[active].failed /\ rec.prs = run[active].prs
          /\ rec.mode = run[active].mode /\ rec.stop = run[active].stop
          /\ rec.status = run[active].status
      BY <1>1 DEF RunType
    <3> HIDE DEF rec
    <3> QED BY <1>2, <3>1, <3>2 DEF Kept, StopKept
  <2> QED BY <2>1, <2>2, <2>3
<1>4. PICK rec : /\ run' = [run EXCEPT ![active] = rec]
                 /\ rec.attempts = run[active].attempts /\ rec.completed = run[active].completed
                 /\ rec.failed = run[active].failed /\ rec.prs = run[active].prs
                 /\ rec.mode = run[active].mode
                 /\ rec.stop /\ rec.mode # "exec" => rec.status = "stopped"
  BY <1>3
<1>5. Kept(rec, loop[active])
  BY <1>2, <1>4 DEF Kept, BooksKept, StopKept, Untried, HeldIssue
<1> QED BY <1>1, <1>2, <1>4, <1>5, KeptByRun

\* New books, and what is left of a run in its file.
LEMMA NewKept ==
    /\ \A st \in Statuses : \A lp : lp.pc \notin LivePcs => Kept([NewRun EXCEPT !.status = st], lp)
    /\ \A m \in Modes : \A st, e, lp :
          /\ lp.pc \notin {"child", "told"}
          /\ lp.pc = "starting" => m # "plan" /\ lp.outcome = "none"
          => Kept(Started(m, st, e), lp)
<1>1. ASSUME NEW st \in Statuses, NEW lp, lp.pc \notin LivePcs
      PROVE  Kept([NewRun EXCEPT !.status = st], lp)
  BY <1>1 DEF Kept, BooksKept, StopKept, NewRun, LivePcs
<1>2. ASSUME NEW m \in Modes, NEW st, NEW e, NEW lp, lp.pc \notin {"child", "told"},
             lp.pc = "starting" => m # "plan" /\ lp.outcome = "none"
      PROVE  Kept(Started(m, st, e), lp)
  <2> DEFINE rec == Started(m, st, e)
  <2>1. /\ rec.mode = m /\ ~rec.stop /\ rec.completed = {} /\ rec.failed = {} /\ rec.prs = 0
        /\ rec.attempts = [i \in Issues |-> 0]
    BY DEF Started, NewRun
  <2> HIDE DEF rec
  <2>2. {i \in Issues : rec.attempts[i] > 0} = {} /\ \A i \in Issues : rec.attempts[i] = 0
    BY <2>1
  <2>3. Kept(rec, lp)
    BY <1>2, <2>1, <2>2, FS_EmptySet DEF Kept, BooksKept, StopKept, Untried, HeldIssue, LivePcs
  <2> QED BY <2>3 DEF rec
<1> QED BY <1>1, <1>2

LEMMA StartsKeeps ==
    ASSUME AutopilotInv, AllKept, NEW r \in Runs, NEW rec, NEW lp, Starts(r, rec, lp), Kept(rec, lp)
    PROVE  AllKept'
<1>1. run \in [Runs -> RunType] /\ loop \in [Runs -> LoopType] /\ saved \in [Runs -> Statuses]
  BY DEF AutopilotInv, AutopilotTypeOK
<1>2. ASSUME NEW s \in Runs PROVE Kept(run'[s], loop'[s])
  <2>1. CASE s = r
    <3>1. run'[s] = rec /\ loop'[s] = lp
      BY <1>1, <2>1 DEF Starts
    <3> QED BY <3>1
  <2>2. CASE s # r /\ loop[s].pc \in {"none", "over"}
    <3>1. run'[s] = InFile(s) /\ loop'[s] = loop[s] /\ loop[s].pc \notin LivePcs
          /\ saved[s] \in Statuses
      BY <1>1, <2>2 DEF Starts, LivePcs
    <3>2. Kept([NewRun EXCEPT !.status = saved[s]], loop[s])
      BY <3>1, NewKept
    <3>3. Kept(InFile(s), loop[s])
      BY <3>2 DEF InFile
    <3> QED BY <3>1, <3>3
  <2>3. CASE s # r /\ loop[s].pc \notin {"none", "over"}
    <3>1. run'[s] = run[s] /\ loop'[s] = loop[s] /\ Kept(run[s], loop[s])
      BY <1>1, <2>3 DEF Starts, AllKept
    <3> QED BY <3>1
  <2> QED BY <2>1, <2>2, <2>3
<1> QED BY <1>2 DEF AllKept

LEMMA StartingKeeps ==
    ASSUME AutopilotInv, AllKept, NEW r \in Runs, Start(r)
    PROVE  AllKept'
<1> DEFINE Begun(i) == [NewLoop EXCEPT !.pc = "starting", !.asked = i]
<1>1. PICK m \in Modes, i \in Named \cup {None} :
         \/ Starts(r, Started(m, "failed", 0), NewLoop)
         \/ m # "plan" /\ Starts(r, Started(m, "running", 0), Begun(i))
         \/ \E e \in 0..1 : Starts(r, Started(m, "stopped", e), NewLoop)
         \/ m = "plan" /\ Starts(r, Started(m, "running", 0), NewLoop)
  BY DEF Start
<1>2. NewLoop.pc = "none" /\ Begun(i).pc = "starting" /\ Begun(i).outcome = "none"
  BY DEF NewLoop
<1> HIDE DEF Begun
<1>3. CASE m # "plan" /\ Starts(r, Started(m, "running", 0), Begun(i))
  <2>1. Kept(Started(m, "running", 0), Begun(i))
    BY <1>2, <1>3, NewKept, Zenon
  <2> QED BY <1>3, <2>1, StartsKeeps
<1>4. ASSUME NEW st, NEW e, Starts(r, Started(m, st, e), NewLoop)
      PROVE  AllKept'
  <2>1. NewLoop.pc \notin {"child", "told"} /\ NewLoop.pc # "starting"
    BY <1>2
  <2>2. Kept(Started(m, st, e), NewLoop)
    BY <2>1, NewKept
  <2> QED BY <1>4, <2>2, StartsKeeps
<1> QED BY <1>1, <1>3, <1>4

LEMMA RestartingKeeps == ASSUME AutopilotInv, AllKept, Restart PROVE AllKept'
<1>1. run \in [Runs -> RunType] /\ loop \in [Runs -> LoopType] /\ saved \in [Runs -> Statuses]
  BY DEF AutopilotInv, AutopilotTypeOK
<1>2. ASSUME NEW s \in Runs PROVE Kept(run'[s], loop'[s])
  <2>1. run'[s] = [NewRun EXCEPT !.status = saved[s]] /\ saved[s] \in Statuses
    BY <1>1 DEF Restart, InFile
  <2>2. [NewLoop EXCEPT !.pc = "over"].pc = "over"
    BY DEF NewLoop
  <2>3. loop'[s].pc \notin LivePcs
    BY <1>1, <2>2 DEF Restart, LivePcs
  <2> QED BY <2>1, <2>3, NewKept
<1> QED BY <1>2 DEF AllKept

LEMMA NextKeepsBooks ==
    ASSUME AutopilotInv, AllKept, [AutopilotNext]_apVars
    PROVE  AllKept'
<1>1. ASSUME UNCHANGED <<run, loop>> PROVE AllKept'
  BY <1>1 DEF AllKept, Kept, BooksKept, StopKept, Untried, HeldIssue
<1>2. CASE UNCHANGED apVars \/ Reset \/ OwnerReturnsToMain \/ \E r \in Runs : OrphanExits(r)
  BY <1>1, <1>2 DEF apVars, engineVars, Reset, OwnerReturnsToMain, OrphanExits
<1>3. ASSUME NEW r \in Runs, LifecycleStep(r) PROVE AllKept'
  BY <1>3, TellingKeeps, ReturningKeeps DEF LifecycleStep
<1> QED BY <1>2, <1>3, ExitingKeeps, StartingKeeps, HandlingKeeps, RestartingKeeps DEF AutopilotNext

-----------------------------------------------------------------------------
(* The child of a loop, and the files.                                     *)

\* What a step of run s leaves alone, of the children and of the requests to stop.
Elsewhere(s) ==
    /\ \A t \in Runs \ {s} : run'[t] = run[t] /\ loop'[t] = loop[t]
    /\ \A t \in Runs : run[t].stop => run'[t].stop

\* A turn of the loop launches a child, or none.
LEMMA IteratesElsewhere ==
    ASSUME AutopilotInv, NEW s \in Runs, Iterate(s)
    PROVE  /\ Elsewhere(s)
           /\ \/ child' = s
              \/ child' = child /\ loop'[s].pc # "child"
           /\ Persist \/ (saved' = saved /\ loop'[s].pc # "over")
<1>1. run \in [Runs -> RunType] /\ loop \in [Runs -> LoopType] /\ run[s] \in RunType
  BY DEF AutopilotInv, AutopilotTypeOK
<1>2. ASSUME NEW rec, NEW lp, run' = [run EXCEPT ![s] = rec], loop' = [loop EXCEPT ![s] = lp],
             rec.stop = run[s].stop
      PROVE  Elsewhere(s) /\ loop'[s] = lp
  BY <1>1, <1>2 DEF Elsewhere
<1>3. ASSUME NEW st, NEW e, LeavesWith(s, st, e)
      PROVE  Elsewhere(s) /\ loop'[s].pc = "ending"
  <2> DEFINE rec == [run[s] EXCEPT !.status = st, !.errors = e]
             lp == [NewLoop EXCEPT !.pc = "ending"]
  <2>1. rec.stop = run[s].stop /\ lp.pc = "ending"
    BY <1>1 DEF RunType, NewLoop
  <2>2. run' = [run EXCEPT ![s] = rec] /\ loop' = [loop EXCEPT ![s] = lp]
    BY <1>3 DEF LeavesWith, Leaves
  <2> HIDE DEF rec, lp
  <2> QED BY <1>2, <2>1, <2>2
<1>4. CASE Halts(s)
  BY <1>3, <1>4 DEF Halts
<1>5. CASE NothingPicked(s)
  BY <1>3, <1>5 DEF NothingPicked
<1>6. CASE PickThrows(s)
  <2> DEFINE rec == [run[s] EXCEPT !.status = "failed", !.errors = run[s].errors + 1]
             lp == [NewLoop EXCEPT !.pc = "over"]
  <2>1. rec.stop = run[s].stop /\ lp.pc = "over"
    BY <1>1 DEF RunType, NewLoop
  <2>2. run' = [run EXCEPT ![s] = rec] /\ loop' = [loop EXCEPT ![s] = lp]
    BY <1>6 DEF PickThrows
  <2>3. child' = child /\ Persist
    BY <1>6 DEF PickThrows
  <2> HIDE DEF rec, lp
  <2> QED BY <1>2, <2>1, <2>2, <2>3
<1>7. ASSUME NEW i, AttemptFails(s, i)
      PROVE  Elsewhere(s) /\ child' = child /\ loop'[s].pc # "child" /\ Persist
  <2> DEFINE rec == [run[s] EXCEPT !.status = "failed", !.errors = run[s].errors + 1,
                                   !.attempts = Attempted(s, i)]
             lp == [NewLoop EXCEPT !.pc = "ending"]
  <2>1. rec.stop = run[s].stop /\ lp.pc = "ending"
    BY <1>1 DEF RunType, NewLoop
  <2>2. run' = [run EXCEPT ![s] = rec] /\ loop' = [loop EXCEPT ![s] = lp]
    BY <1>7 DEF AttemptFails, Leaves
  <2>3. child' = child /\ Persist
    BY <1>7 DEF AttemptFails
  <2> HIDE DEF rec, lp
  <2> QED BY <1>2, <2>1, <2>2, <2>3
<1>8. ASSUME NEW i, Launches(s, i)
      PROVE  Elsewhere(s) /\ child' = s /\ Persist
  <2> DEFINE rec == [run[s] EXCEPT !.attempts = Attempted(s, i)]
             lp == [NewLoop EXCEPT !.pc = "child", !.issue = i]
  <2>1. rec.stop = run[s].stop
    BY <1>1 DEF RunType
  <2>2. run' = [run EXCEPT ![s] = rec] /\ loop' = [loop EXCEPT ![s] = lp]
    BY <1>8 DEF Launches
  <2>3. child' = s /\ Persist
    BY <1>8 DEF Launches
  <2> HIDE DEF rec, lp
  <2> QED BY <1>2, <2>1, <2>2, <2>3
<1> QED BY <1>4, <1>5, <1>6, <1>7, <1>8 DEF Iterate

\* So does a step of a loop, and the exit of a child.
LEMMA LoopsElsewhere ==
    ASSUME AutopilotInv, NEW s \in Runs, LifecycleStep(s) \/ ChildExits(s)
    PROVE  /\ Elsewhere(s) /\ active' = active
           /\ \/ child' = s
              \/ child' = child /\ loop'[s].pc # "child"
              \/ child' = None /\ loop[s].pc = "child" /\ loop'[s].pc # "child"
           /\ Persist \/ (saved' = saved /\ loop'[s].pc # "over")
<1>1. /\ run \in [Runs -> RunType] /\ loop \in [Runs -> LoopType] /\ run[s] \in RunType
      /\ loop[s] \in LoopType
  BY DEF AutopilotInv, AutopilotTypeOK
<1>2. ASSUME NEW rec, NEW lp, run' = [run EXCEPT ![s] = rec], loop' = [loop EXCEPT ![s] = lp],
             rec.stop = run[s].stop
      PROVE  Elsewhere(s) /\ loop'[s] = lp
  BY <1>1, <1>2 DEF Elsewhere
<1>3. ASSUME NEW st, NEW e, LeavesWith(s, st, e)
      PROVE  Elsewhere(s) /\ loop'[s].pc = "ending"
  <2> DEFINE rec == [run[s] EXCEPT !.status = st, !.errors = e]
             lp == [NewLoop EXCEPT !.pc = "ending"]
  <2>1. rec.stop = run[s].stop /\ lp.pc = "ending"
    BY <1>1 DEF RunType, NewLoop
  <2>2. run' = [run EXCEPT ![s] = rec] /\ loop' = [loop EXCEPT ![s] = lp]
    BY <1>3 DEF LeavesWith, Leaves
  <2> HIDE DEF rec, lp
  <2> QED BY <1>2, <2>1, <2>2
<1>4. CASE MissionStarted(s)
  BY <1>4, IteratesElsewhere DEF MissionStarted
<1>5. CASE OutcomeTold(s) /\ loop[s].outcome # "waiting" /\ run[s].mode = "loop"
  BY <1>5, IteratesElsewhere DEF OutcomeTold
<1>6. CASE OutcomeTold(s) /\ ~(loop[s].outcome # "waiting" /\ run[s].mode = "loop")
  <2>1. /\ \E st \in Statuses \cup {run[s].status} : LeavesWith(s, st, run[s].errors)
        /\ UNCHANGED <<active, child, saved>>
    BY <1>6 DEF OutcomeTold, Breaks, Statuses
  <2> QED BY <1>3, <2>1
<1>7. CASE LifecycleReturns(s)
  <2> DEFINE lp == [NewLoop EXCEPT !.pc = "over"]
  <2>1. /\ run' = [run EXCEPT ![s] = run[s]] /\ loop' = [loop EXCEPT ![s] = lp]
        /\ lp.pc = "over" /\ UNCHANGED <<active, child>> /\ Persist
    BY <1>1, <1>7 DEF LifecycleReturns, NewLoop
  <2> HIDE DEF lp
  <2> QED BY <1>2, <2>1
<1>8. ASSUME NEW v, NEW o, NEW rec, Tells(s, v, o, rec), rec.stop = run[s].stop
      PROVE  Elsewhere(s) /\ loop'[s].pc # "child"
  <2> DEFINE lp == [loop[s] EXCEPT !.pc = "told", !.verdict = v, !.outcome = o]
  <2>1. run' = [run EXCEPT ![s] = rec] /\ loop' = [loop EXCEPT ![s] = lp]
    BY <1>8 DEF Tells
  <2>2. lp.pc = "told"
    BY <1>1 DEF LoopType
  <2> HIDE DEF lp
  <2> QED BY <1>2, <1>8, <2>1, <2>2
<1>9. CASE ChildExits(s)
  <2>1. /\ \A e : Failing(s, e).stop = run[s].stop
        /\ PullRequest(s).stop = run[s].stop
        /\ [run[s] EXCEPT !.status = "waiting"].stop = run[s].stop
    BY <1>1 DEF Failing, PullRequest, RunType
  <2>2. Elsewhere(s) /\ loop'[s].pc # "child"
    BY <1>3, <1>8, <1>9, <2>1, Zenon DEF ChildExits, Looks
  <2>3. child' = None /\ loop[s].pc = "child" /\ UNCHANGED active /\ Persist
    BY <1>9 DEF ChildExits
  <2> QED BY <2>2, <2>3
<1> QED BY <1>4, <1>5, <1>6, <1>7, <1>9 DEF LifecycleStep

\* Launches and exits keep activeChild in step as long as nobody stops: another
\* loop whose child is out would be of the active run, too.
LEMMA StopStillReaches ==
    ASSUME AutopilotInv, AutopilotInv', StopReachesChild, [AutopilotNext]_apVars
    PROVE  StopReachesChild'
<1>1. /\ run \in [Runs -> RunType] /\ loop \in [Runs -> LoopType] /\ None \notin Runs
      /\ \A r \in Runs : Sound(active, r, run[r], loop[r])
  BY InvIsSound, AutopilotAssumption DEF AutopilotInv, AutopilotTypeOK, Runs
<1>2. SUFFICES ASSUME NEW r \in Runs, loop'[r].pc = "child", \A s \in Runs : ~run'[s].stop
               PROVE  child' = r
  BY DEF StopReachesChild
<1>3. \A s \in Runs : loop'[s].pc \in LivePcs => s = r
  BY <1>2 DEF AutopilotInv, RunInv, OwnsEngine, Live, LivePcs
<1>4. ASSUME loop[r].pc = "child", \A s \in Runs : run[s].stop => run'[s].stop
      PROVE  child = r
  BY <1>2, <1>4 DEF StopReachesChild
<1>5. ASSUME NEW s \in Runs, LifecycleStep(s) \/ ChildExits(s) PROVE child' = r
  <2>1. Elsewhere(s) /\ active' = active
    BY <1>5, LoopsElsewhere
  <2>2. CASE child' = s
    <3>1. CASE loop'[s].pc \in LivePcs
      BY <1>3, <2>2, <3>1
    <3>2. CASE loop'[s].pc \notin LivePcs
      <4>1. s # r /\ loop[r].pc = "child"
        BY <1>2, <2>1, <3>2 DEF LivePcs, Elsewhere
      <4>2. child = r
        BY <1>4, <2>1, <4>1 DEF Elsewhere
      <4>3. ~Iterate(s)
        <5>1. ASSUME Iterate(s) PROVE FALSE
          <6>1. child' = child \/ loop'[s].pc = "child"
            BY <1>1, <5>1 DEF Iterate, Halts, NothingPicked, PickThrows, AttemptFails, Launches, NewLoop
          <6> QED BY <2>2, <3>2, <4>1, <4>2, <6>1 DEF LivePcs
        <5> QED BY <5>1
      <4>4. child' = child \/ child' = None
        BY <1>5, <4>3 DEF LifecycleStep, MissionStarted, OutcomeTold, LifecycleReturns, ChildExits
      <4> QED BY <1>1, <2>2, <4>1, <4>2, <4>4
    <3> QED BY <3>1, <3>2
  <2>3. CASE child' = child /\ loop'[s].pc # "child"
    BY <1>2, <1>4, <2>1, <2>3 DEF Elsewhere
  <2>4. CASE child' = None /\ loop[s].pc = "child" /\ loop'[s].pc # "child"
    <3>1. s # r /\ loop[r].pc = "child" /\ ~run[r].stop /\ ~run[s].stop
      BY <1>2, <2>1, <2>4 DEF Elsewhere
    <3>2. active = r /\ active = s
      BY <1>1, <2>4, <3>1 DEF Sound, LivePcs
    <3> QED BY <3>1, <3>2
  <2> QED BY <1>5, <2>2, <2>3, <2>4, LoopsElsewhere
<1>6. ASSUME NEW q \in Runs, NEW rec, NEW lp, Starts(q, rec, lp), ~HasActive, lp.pc # "child"
      PROVE  child' = r
  <2>1. q # r /\ loop'[r] = loop[r]
    BY <1>1, <1>2, <1>6 DEF Starts
  <2>2. run'[r] = run[r]
    BY <1>1, <1>2, <1>6, <2>1 DEF Starts
  <2>3. active = r /\ run[r].status \in {"running", "waiting"}
    BY <1>1, <1>2, <2>1, <2>2 DEF Sound, LivePcs
  <2> QED BY <1>1, <1>6, <2>3 DEF HasActive
<1>7. ASSUME NEW q \in Runs, Start(q) PROVE child' = r
  <2>1. /\ NewLoop.pc # "child"
        /\ \A i : [NewLoop EXCEPT !.pc = "starting", !.asked = i].pc # "child"
    BY DEF NewLoop
  <2> QED BY <1>6, <1>7, <2>1, Zenon DEF Start
<1>8. CASE Restart
  <2>1. [NewLoop EXCEPT !.pc = "over"].pc = "over"
    BY DEF NewLoop
  <2>2. loop'[r].pc # "child"
    BY <1>8, <2>1 DEF Restart
  <2> QED BY <1>2, <2>2
<1>9. CASE Stop \/ Resume \/ AnswerFails
  <2>1. /\ active \in Runs /\ run[active] \in RunType
        /\ loop' = loop /\ child' = child
    BY <1>9 DEF AutopilotInv, AutopilotTypeOK, Stop, Resume, AnswerFails
  <2>2. ~Stop
    <3>1. Stop => run'[active].stop
      BY <1>1, <2>1 DEF Stop, RunType
    <3> QED BY <1>2, <2>1, <3>1
  <2>3. ASSUME NEW s \in Runs, run[s].stop PROVE run'[s].stop
    <3> DEFINE resumed == [run[active] EXCEPT !.status = "running", !.resumed = TRUE]
               unanswered == [run[active] EXCEPT !.errors = run[active].errors + 1]
    <3>1. resumed.stop = run[active].stop /\ unanswered.stop = run[active].stop
      BY <2>1 DEF RunType
    <3>2. \/ run' = [run EXCEPT ![active] = resumed]
          \/ run' = [run EXCEPT ![active] = unanswered]
      BY <1>9, <2>2 DEF Resume, AnswerFails
    <3> HIDE DEF resumed, unanswered
    <3> QED BY <1>1, <2>1, <2>3, <3>1, <3>2
  <2> QED BY <1>2, <1>4, <2>1, <2>3
<1>10. CASE Reset \/ OwnerReturnsToMain \/ UNCHANGED apVars \/ \E s \in Runs : OrphanExits(s)
  <2>1. run' = run /\ loop' = loop /\ child' = child
    BY <1>10 DEF Reset, OwnerReturnsToMain, OrphanExits, apVars, engineVars
  <2> QED BY <1>2, <1>4, <2>1
<1> QED BY <1>5, <1>7, <1>8, <1>9, <1>10 DEF AutopilotNext

\* Whoever ends a loop saves the active run.
LEMMA OverStaysSaved ==
    ASSUME AutopilotInv, OverIsSaved, [AutopilotNext]_apVars
    PROVE  OverIsSaved'
<1>1. /\ run \in [Runs -> RunType] /\ loop \in [Runs -> LoopType] /\ None \notin Runs
      /\ saved \in [Runs -> Statuses]
  BY AutopilotAssumption DEF AutopilotInv, AutopilotTypeOK, Runs
<1>2. SUFFICES ASSUME NEW r \in Runs, active' = r, loop'[r].pc = "over"
               PROVE  saved'[r] = run'[r].status
  BY DEF OverIsSaved
<1>3. CASE Persist
  BY <1>1, <1>2, <1>3 DEF Persist
<1>4. ASSUME active' = active, saved' = saved, run'[r] = run[r], loop'[r] = loop[r]
      PROVE  saved'[r] = run'[r].status
  BY <1>2, <1>4 DEF OverIsSaved
<1>5. ASSUME NEW s \in Runs, LifecycleStep(s) \/ ChildExits(s)
      PROVE  saved'[r] = run'[r].status
  <2>1. Elsewhere(s) /\ active' = active /\ (Persist \/ (saved' = saved /\ loop'[s].pc # "over"))
    BY <1>5, LoopsElsewhere
  <2> QED BY <1>2, <1>3, <1>4, <2>1 DEF Elsewhere
<1>6. CASE Stop \/ Resume \/ AnswerFails \/ \E q \in Runs : Start(q)
  BY <1>3, <1>6 DEF Stop, Resume, AnswerFails, Start, Starts
<1>7. CASE Restart \/ Reset
  BY <1>1, <1>2, <1>7 DEF Restart, Reset
<1>8. CASE OwnerReturnsToMain \/ UNCHANGED apVars \/ \E s \in Runs : OrphanExits(s)
  <2>1. run' = run /\ loop' = loop /\ active' = active /\ saved' = saved
    BY <1>8 DEF OwnerReturnsToMain, OrphanExits, apVars, engineVars
  <2> QED BY <1>4, <2>1
<1> QED BY <1>5, <1>6, <1>7, <1>8 DEF AutopilotNext

-----------------------------------------------------------------------------
(* The theorems on the books and on stopping.                              *)

LedgerIInv == AutopilotInv /\ AllKept /\ StopReachesChild /\ OverIsSaved

\* The books, the requests to stop, the child and the files are kept at every await
\* of every loop, whatever is stopped, resumed, answered, reset or restarted.
THEOREM LedgerInvariant == AutopilotSpec => []LedgerIInv
<1>1. AutopilotInit => LedgerIInv
  <2> SUFFICES ASSUME AutopilotInit PROVE LedgerIInv
    OBVIOUS
  <2>1. \A r \in Runs : run[r] = NewRun /\ loop[r].pc = "none"
    BY DEF AutopilotInit, NewLoop
  <2>2. AllKept
    BY <2>1 DEF AllKept, Kept, BooksKept, StopKept, NewRun, LivePcs
  <2> QED BY <2>1, <2>2, InitHasInv DEF LedgerIInv, StopReachesChild, OverIsSaved
<1>2. LedgerIInv /\ [AutopilotNext]_apVars => LedgerIInv'
  BY NextKeepsInv, NextKeepsBooks, StopStillReaches, OverStaysSaved DEF LedgerIInv
<1> QED BY <1>1, <1>2, PTL DEF AutopilotSpec

\* Every issue a loop tried is settled once and in one way, or in hand, there are as
\* many pull requests as issues completed, and no issue is tried twice: for any
\* number of runs, any issues and any budgets.
THEOREM LedgerIsKept == AutopilotSpec => []LedgerInv
<1>1. LedgerIInv => LedgerInv
  <2> SUFFICES ASSUME LedgerIInv PROVE LedgerInv
    OBVIOUS
  <2>1. ASSUME NEW r \in Runs PROVE Kept(run[r], loop[r])
    BY DEF LedgerIInv, AllKept
  <2>2. LedgerAgrees
    BY <2>1 DEF LedgerAgrees, Kept, BooksKept, HeldIssue, Live, LivePcs
  <2>3. AttemptsCapped
    BY <2>1 DEF AttemptsCapped, Kept, BooksKept
  <2> QED BY <2>2, <2>3 DEF LedgerInv
<1> QED BY <1>1, LedgerInvariant, PTL

\* While nobody has been stopped, stop has the child of the loop that runs; a
\* stopped mission of several issues stays shown as stopped; and once the loop of
\* the active run is over its file says how it ended.
THEOREM EndsAreAsTold == AutopilotSpec => []EndsAsToldInv
<1>1. LedgerIInv => EndsAsToldInv
  <2> SUFFICES ASSUME LedgerIInv PROVE EndsAsToldInv
    OBVIOUS
  <2>1. StoppedStaysStopped
    BY DEF LedgerIInv, AllKept, Kept, StopKept, StoppedStaysStopped
  <2> QED BY <2>1 DEF LedgerIInv, EndsAsToldInv
<1> QED BY <1>1, LedgerInvariant, PTL
=============================================================================
