------------------------ MODULE MissionControl_proof ------------------------
(***************************************************************************)
(* Theorems about MissionControl, for any requests, any number of hops and *)
(* any number of restarts.                                                 *)
(***************************************************************************)
EXTENDS MissionControl, TLAPS

(* Types. *)

LEMMA RunType == ASSUME TypeOK, NEW p \in Procs PROVE Run(p) \in RunIds
  BY DEF TypeOK, Run, RunIds

\* The values locals start from, and go back to.
LEMMA StartValues ==
  /\ 1 \in Hops
  /\ 1 \in 1..MaxLives
  /\ <<>> \in Seq(Procs)
  /\ <<>> \in Seq(EventKinds)
  BY MissionAssumption DEF Hops

LEMMA CompletedType == Completed \in RemoteTasks
  BY DEF Completed, RemoteTasks, TaskStates

LEMMA FullStreamType == /\ FullStream \in Seq(EventKinds)
                        /\ FullStream # <<>>
                        /\ Head(FullStream) = "SUBMITTED"
  BY DEF FullStream, EventKinds, TaskStates

LEMMA AnswerTypes ==
  ASSUME NEW go \in BOOLEAN
  PROVE  /\ \A a \in StreamAnswers(go) :
              /\ a.seen \in Seq(EventKinds)
              /\ a.final \in RemoteTasks
              /\ a.seen # <<>>
              /\ Head(a.seen) # "ARTIFACT"
         /\ SendAnswers(go) \subseteq RemoteTasks
<1> DEFINE Good(a) == /\ a.seen \in Seq(EventKinds)
                      /\ a.final \in RemoteTasks
                      /\ a.seen # <<>>
                      /\ Head(a.seen) # "ARTIFACT"
           answer(s, f) == [seen |-> s, final |-> f]
           short == <<"SUBMITTED">>
           longer == <<"SUBMITTED", "WORKING">>
           first(s) == <<s>>
<1>1. Stopped \in RemoteTasks /\ Overtaken \subseteq RemoteTasks
  <2>1. \A s \in TaskStates : \A b \in BOOLEAN : [state |-> s, art |-> b] \in RemoteTasks
    BY DEF RemoteTasks
  <2>2. {"CANCELED", "TORN"} \subseteq TaskStates
    BY DEF TaskStates
  <2>3. QED
    BY <2>1, <2>2 DEF Stopped, Overtaken
<1>2. /\ short \in Seq(EventKinds) /\ short # <<>> /\ Head(short) = "SUBMITTED"
      /\ longer \in Seq(EventKinds) /\ longer # <<>> /\ Head(longer) = "SUBMITTED"
  BY DEF EventKinds, TaskStates
<1>3. \A s \in {"CANCELED", "TORN"} :
        first(s) \in Seq(EventKinds) /\ first(s) # <<>> /\ Head(first(s)) = s
  BY DEF EventKinds, TaskStates
<1>4. ASSUME NEW s, NEW f \in RemoteTasks,
             s \in Seq(EventKinds), s # <<>>, Head(s) # "ARTIFACT"
      PROVE  Good(answer(s, f))
  BY <1>4
<1> HIDE DEF short, longer, first, answer, Good
<1>5. \A a \in StreamAnswers(go) :
        \/ a = answer(FullStream, Completed)
        \/ a = answer(short, Stopped)
        \/ a = answer(longer, Stopped)
        \/ \E t \in Overtaken : a = answer(FullStream, t)
        \/ \E s \in {"CANCELED", "TORN"} : a = answer(first(s), Stopped)
  BY DEF StreamAnswers, short, longer, first, answer
<1>6. Good(answer(FullStream, Completed))
  BY <1>4, FullStreamType, CompletedType
<1>7. Good(answer(short, Stopped)) /\ Good(answer(longer, Stopped))
  BY <1>1, <1>2, <1>4
<1>8. \A t \in Overtaken : Good(answer(FullStream, t))
  BY <1>1, <1>4, FullStreamType
<1>9. \A s \in {"CANCELED", "TORN"} : Good(answer(first(s), Stopped))
  BY <1>1, <1>3, <1>4
<1>10. \A a \in StreamAnswers(go) : Good(a)
  BY <1>5, <1>6, <1>7, <1>8, <1>9
<1>11. SendAnswers(go) \subseteq RemoteTasks
  BY <1>1, CompletedType DEF SendAnswers
<1>12. QED
  BY <1>10, <1>11 DEF Good

LEMMA HopAnswerTypes ==
  ASSUME NEW h
  PROVE  /\ \A a \in StreamAnswers(h \in GoHops) :
              /\ a.seen \in Seq(EventKinds)
              /\ a.final \in RemoteTasks
              /\ a.seen # <<>>
              /\ Head(a.seen) # "ARTIFACT"
         /\ SendAnswers(h \in GoHops) \subseteq RemoteTasks
<1>1. (h \in GoHops) \in BOOLEAN
  OBVIOUS
<1>2. QED
  BY ONLY <1>1, AnswerTypes, Zenon

LEMMA EnterType ==
  ASSUME TypeOK, NEW p \in Procs, Enter(p)
  PROVE  /\ pc' \in [Procs -> Locations]
         /\ owner' \in Procs \cup {NoOne}
         /\ autostartDone' \in BOOLEAN
  BY DEF TypeOK, Enter, Locations, Critical

LEMMA AcquireType ==
  ASSUME TypeOK, NEW p \in Procs, Acquire(p)
  PROVE  /\ pc' \in [Procs -> Locations]
         /\ owner' \in Procs \cup {NoOne}
         /\ autostartDone' \in BOOLEAN
         /\ waiters' \in Seq(Procs)
<1>1. CASE Enter(p) /\ UNCHANGED waiters
  BY <1>1, EnterType DEF TypeOK
<1>2. CASE /\ waiters' = Append(waiters, p)
           /\ pc' = [pc EXCEPT ![p] = "queued"]
           /\ UNCHANGED <<owner, autostartDone>>
  BY <1>2 DEF TypeOK, Locations
<1>3. QED
  BY <1>1, <1>2 DEF Acquire

LEMMA ReleaseType ==
  ASSUME TypeOK, NEW p \in Procs, NEW how \in Ended, Release(p, how)
  PROVE  /\ pc' \in [Procs -> Locations]
         /\ owner' \in Procs \cup {NoOne}
         /\ autostartDone' \in BOOLEAN
         /\ waiters' \in Seq(Procs)
         /\ hop' \in [Procs -> Hops]
         /\ events' \in [Procs -> Seq(EventKinds)]
         /\ remote' \in [Procs -> RemoteTasks]
  BY CompletedType, MissionAssumption DEF TypeOK, Release, Locations, Hops

LEMMA UpsertType ==
  ASSUME TypeOK, NEW p \in Procs, NEW s \in TaskStates, NEW e \in BOOLEAN, UpsertTask(p, s, e)
  PROVE  tasks' \subseteq TaskRows
<1> DEFINE old == {t \in tasks : t.run = Run(p) /\ t.hop = hop[p]}
           row == [run |-> Run(p), hop |-> hop[p], state |-> s,
                   ended |-> e \/ \E t \in old : t.ended]
<1>1. tasks' = (tasks \ old) \cup {row}
  BY DEF UpsertTask
<1>2. hop[p] \in Hops
  BY DEF TypeOK
<1>3. row \in TaskRows
  BY <1>2, RunType DEF TaskRows
<1>4. QED
  BY <1>1, <1>3 DEF TypeOK

LEMMA HopRowType ==
  ASSUME TypeOK, NEW p \in Procs PROVE [run |-> Run(p), hop |-> hop[p]] \in HopRows
<1>1. hop[p] \in Hops
  BY DEF TypeOK
<1>2. QED
  BY <1>1, RunType DEF HopRows

LEMMA RowEdits ==
  /\ \A m \in MissionRows : \A h \in Hops : [m EXCEPT !.phase = h] \in MissionRows
  /\ \A m \in MissionRows :
       [run |-> m.run, status |-> "completed", phase |-> NumHops + 1] \in MissionRows
<1>1. /\ Hops \subseteq 0..(NumHops + 1)
      /\ NumHops + 1 \in 0..(NumHops + 1)
  BY MissionAssumption DEF Hops
<1>2. QED
  BY <1>1 DEF MissionRows

LEMMA NextHopType ==
  ASSUME TypeOK, NEW p \in Procs, NextHop(p)
  PROVE  /\ pc' \in [Procs -> Locations]
         /\ hop' \in [Procs -> Hops]
<1>1. /\ pc \in [Procs -> Locations]
      /\ hop \in [Procs -> Hops]
      /\ hop[p] \in Hops
  BY DEF TypeOK
<1>2. "update_phase" \in Locations /\ "complete" \in Locations
  BY DEF Locations, Critical, RunSteps
<1>3. hop[p] < NumHops => hop[p] + 1 \in Hops
  BY <1>1, MissionAssumption DEF Hops
<1>4. QED
  BY <1>1, <1>2, <1>3 DEF NextHop

THEOREM TypeCorrect == Spec => []TypeOK
<1>1. Init => TypeOK
  BY StartValues, CompletedType
     DEF Init, TypeOK, Locations, Critical, RunSteps, Ended
<1>2. TypeOK /\ [Next]_vars => TypeOK'
  <2> SUFFICES ASSUME TypeOK, [Next]_vars PROVE TypeOK'
    OBVIOUS
  <2>1. ASSUME NEW r \in Requests, Arrive(r) PROVE TypeOK'
    <3>1. r \in Procs
      BY DEF Procs
    <3>2. QED
      BY <2>1, <3>1, AcquireType DEF Arrive, TypeOK, localVars, dbVars
  <2>2. CASE AutostartReady
    <3>1. Autostart \in Procs
      BY DEF Procs
    <3>2. CASE Acquire(Autostart)
      BY <2>2, <3>1, <3>2, AcquireType DEF AutostartReady, TypeOK, localVars, dbVars
    <3>3. CASE pc' = [pc EXCEPT ![Autostart] = "skipped"] /\ UNCHANGED lockVars
      BY <2>2, <3>1, <3>3 DEF AutostartReady, TypeOK, lockVars, localVars, dbVars, Locations
    <3>4. QED
      BY <2>2, <3>2, <3>3 DEF AutostartReady
  <2>3. CASE AutostartGiveUp
    BY <2>3 DEF AutostartGiveUp, TypeOK, lockVars, localVars, dbVars, Locations, Procs
  <2>4. ASSUME NEW p \in Procs, Grant(p) PROVE TypeOK'
    BY <2>4, EnterType DEF Grant, TypeOK, localVars, dbVars
  <2>5. ASSUME NEW p \in Procs, Fail(p) PROVE TypeOK'
    BY <2>5, ReleaseType DEF Fail, TypeOK, dbVars, Ended
  <2>6. CASE Crash
    <3>1. life' \in 1..MaxLives
      BY <2>6, MissionAssumption DEF Crash, TypeOK
    <3>2. pc' \in [Procs -> Locations]
      BY <2>6 DEF Crash, Locations
    <3>3. QED
      BY <2>6, <3>1, <3>2, StartValues, CompletedType DEF Crash, TypeOK, dbVars
  <2>7. ASSUME NEW p \in Procs, RunStep(p) PROVE TypeOK'
    <3>1. CASE ClearContext(p)
      <4>1. CASE Release(p, "done")
        BY <3>1, <4>1, ReleaseType DEF ClearContext, TypeOK, Ended
      <4>2. CASE pc' = [pc EXCEPT ![p] = "create"] /\ UNCHANGED <<lockVars, localVars>>
        BY <3>1, <4>2 DEF ClearContext, TypeOK, lockVars, localVars, Locations, Critical
      <4>3. QED
        BY <3>1, <4>1, <4>2 DEF ClearContext
    <3>2. CASE CreateMission(p)
      <4>1. [run |-> Run(p), status |-> "running", phase |-> 0] \in MissionRows
        BY RunType, MissionAssumption DEF MissionRows
      <4>2. QED
        BY <3>2, <4>1
           DEF CreateMission, TypeOK, lockVars, localVars, Locations, Critical, RunSteps
    <3>3. CASE UpdatePhase(p)
      <4>1. \A m \in missions : [m EXCEPT !.phase = hop[p]] \in MissionRows
        BY RowEdits DEF TypeOK
      <4>2. QED
        BY <3>3, <4>1
           DEF UpdatePhase, TypeOK, lockVars, localVars, Locations, Critical, RunSteps
    <3>4. CASE CallStream(p)
      BY <3>4, HopAnswerTypes
         DEF CallStream, TypeOK, lockVars, dbVars, Locations, Critical, RunSteps
    <3>5. CASE CallSend(p)
      BY <3>5, HopAnswerTypes
         DEF CallSend, TypeOK, lockVars, dbVars, Locations, Critical, RunSteps
    <3>6. CASE ConsumeEvent(p)
      <4>1. Head(events[p]) \in EventKinds /\ Tail(events[p]) \in Seq(EventKinds)
        BY <3>6 DEF ConsumeEvent, TypeOK
      <4>2. tasks' \subseteq TaskRows
        BY <3>6, <4>1, UpsertType DEF ConsumeEvent, EventKinds, TypeOK
      <4>3. artifacts' \subseteq HopRows
        <5>1. artifacts \subseteq HopRows
          BY DEF TypeOK
        <5>2. CASE InsertArtifact(p)
          BY <5>1, <5>2, HopRowType DEF InsertArtifact
        <5>3. CASE UNCHANGED artifacts
          BY <5>1, <5>3
        <5>4. QED
          BY <3>6, <5>2, <5>3 DEF ConsumeEvent
      <4>4. QED
        BY <3>6, <4>1, <4>2, <4>3
           DEF ConsumeEvent, TypeOK, lockVars, Locations, Critical, RunSteps
    <3>7. CASE RecordMessage(p)
      BY <3>7, HopRowType
         DEF RecordMessage, TypeOK, lockVars, localVars, Locations, Critical, RunSteps
    <3>8. CASE PersistTask(p)
      <4>1. tasks' \subseteq TaskRows
        <5>1. remote[p].state \in TaskStates
          BY DEF TypeOK, RemoteTasks
        <5>2. QED
          BY <3>8, <5>1, UpsertType DEF PersistTask
      <4>2. pc' \in [Procs -> Locations] /\ hop' \in [Procs -> Hops]
        BY <3>8, NextHopType DEF PersistTask, TypeOK, Locations, Critical, RunSteps
      <4>3. QED
        BY <3>8, <4>1, <4>2 DEF PersistTask, TypeOK, lockVars
    <3>9. CASE PersistArtifact(p)
      BY <3>9, HopRowType, NextHopType DEF PersistArtifact, InsertArtifact, TypeOK, lockVars
    <3>10. CASE CompleteMission(p)
      <4>1. \A m \in missions :
              [run |-> m.run, status |-> "completed", phase |-> NumHops + 1] \in MissionRows
        BY RowEdits DEF TypeOK
      <4>2. QED
        BY <3>10, <4>1
           DEF CompleteMission, TypeOK, lockVars, localVars, Locations, Critical, RunSteps
    <3>11. CASE Close(p)
      BY <3>11, ReleaseType DEF Close, TypeOK, dbVars, Ended
    <3>12. QED
      BY <2>7, <3>1, <3>2, <3>3, <3>4, <3>5, <3>6, <3>7, <3>8, <3>9, <3>10, <3>11 DEF RunStep
  <2>8. CASE UNCHANGED vars
    BY <2>8 DEF vars, lockVars, localVars, dbVars, TypeOK
  <2>9. QED
    BY <2>1, <2>2, <2>3, <2>4, <2>5, <2>6, <2>7, <2>8 DEF Next
<1>3. QED
  BY <1>1, <1>2, PTL DEF Spec

-----------------------------------------------------------------------------
(* The inductive invariant.                                                *)

\* The lock admits one at a time.
LEMMA OneInside ==
  ASSUME LockHeld, NEW p \in Procs, NEW q \in Procs,
         pc[p] \in Critical, pc[q] \in Critical
  PROVE  p = q
  BY DEF LockHeld

\* Nothing is claimed about who is neither creating a row nor running.
LEMMA OutsideIsFree ==
  ASSUME NEW p \in Procs, pc[p] \notin RunSteps, pc[p] # "create"
  PROVE  RunInv(p)
  BY DEF RunInv, Undisturbed, TablesCleared, TaskPrecedesArtifact, EvidenceGrows,
         EvidenceNotAhead, RunSteps

LEMMA IInvInit == Init => IInv
<1> SUFFICES ASSUME Init PROVE IInv
  OBVIOUS
<1>1. \A p \in Procs : pc[p] \in {"idle", "boot"}
  BY DEF Init
<1>2. \A p \in Procs : RunInv(p)
  BY <1>1, OutsideIsFree DEF RunSteps
<1>3. LockHeld /\ ServedIsNoted /\ AutostartYields
  BY <1>1, MissionAssumption
     DEF Init, LockHeld, ServedIsNoted, AutostartYields, Critical, RunSteps, Ended, Procs, Requests
<1>4. OneRunOnRecord /\ PhaseHasEvidence
  BY DEF Init, OneRunOnRecord, PhaseHasEvidence, Rows
<1>5. QED
  BY <1>2, <1>3, <1>4 DEF IInv

\* As long as the tables do not change, neither do the facts about them.
LEMMA TablesSame ==
  ASSUME UNCHANGED dbVars
  PROVE  /\ OneRunOnRecord => OneRunOnRecord'
         /\ PhaseHasEvidence => PhaseHasEvidence'
         /\ \A r, h : Evidence(r, h)' = Evidence(r, h)
  BY DEF dbVars, OneRunOnRecord, PhaseHasEvidence, Evidence, Rows

\* A process whose own state does not change keeps its facts as well.
LEMMA RunInvSame ==
  ASSUME NEW p \in Procs, RunInv(p), UNCHANGED <<life, localVars, dbVars>>, pc'[p] = pc[p]
  PROVE  RunInv(p)'
<1>1. \A h : Evidence(Run(p), h)' = Evidence(Run(p), h)
  BY DEF Evidence, Run, dbVars
<1>2. QED
  BY <1>1 DEF RunInv, Undisturbed, TablesCleared, TaskPrecedesArtifact, EvidenceGrows,
              EvidenceNotAhead, PhaseOf, Run, Rows, localVars, dbVars

\* Whoever queues, enters or gives up touches neither tables nor locals.
LEMMA EnteringKeeps ==
  ASSUME TypeOK, IInv, NEW p \in Procs, owner = NoOne, Enter(p)
  PROVE  LockHeld' /\ ServedIsNoted' /\ AutostartYields'
<1>1. \A q \in Procs : pc[q] \notin Critical
  BY MissionAssumption DEF IInv, LockHeld, Procs, Requests
<1>2. CASE p = Autostart /\ autostartDone
  <2>1. pc' = [pc EXCEPT ![p] = "skipped"] /\ UNCHANGED <<owner, autostartDone>>
    BY <1>2 DEF Enter
  <2>2. \A q \in Procs : pc'[q] \notin Critical
    BY <1>1, <2>1 DEF TypeOK, Critical, RunSteps
  <2>3. QED
    BY <1>2, <2>1, <2>2, MissionAssumption
       DEF LockHeld, ServedIsNoted, AutostartYields, Procs, Requests
<1>3. CASE ~(p = Autostart /\ autostartDone)
  <2>1. pc' = [pc EXCEPT ![p] = "clear"] /\ owner' = p /\ autostartDone' = TRUE
    BY <1>3 DEF Enter
  <2>2. \A q \in Procs : pc'[q] \in Critical <=> q = p
    BY <1>1, <2>1 DEF TypeOK, Critical
  <2>3. AutostartYields'
    <3>1. CASE p = Autostart
      <4>1. \A r \in Requests : pc[r] \notin Ended /\ pc'[r] = pc[r]
        BY <1>3, <2>1, <3>1, MissionAssumption
           DEF IInv, ServedIsNoted, TypeOK, Procs, Requests
      <4>2. QED
        BY <4>1 DEF AutostartYields
    <3>2. CASE p # Autostart
      BY <2>2, <3>2 DEF AutostartYields, Procs
    <3>3. QED
      BY <3>1, <3>2
  <2>4. QED
    BY <2>1, <2>2, <2>3 DEF LockHeld, ServedIsNoted
<1>4. QED
  BY <1>2, <1>3

LEMMA QueueingKeeps ==
  ASSUME TypeOK, IInv, NEW p \in Procs, pc[p] \in {"idle", "boot"}, Acquire(p)
  PROVE  LockHeld' /\ ServedIsNoted' /\ AutostartYields'
<1>1. CASE owner = NoOne /\ Enter(p)
  BY <1>1, EnteringKeeps
<1>2. CASE pc' = [pc EXCEPT ![p] = "queued"] /\ UNCHANGED <<owner, autostartDone>>
  <2>1. \A q \in Procs : /\ pc'[q] \in Critical <=> pc[q] \in Critical
                         /\ pc'[q] \in Ended <=> pc[q] \in Ended
    BY <1>2 DEF TypeOK, Critical, RunSteps, Ended
  <2>2. QED
    BY <1>2, <2>1, MissionAssumption
       DEF IInv, LockHeld, ServedIsNoted, AutostartYields, Procs
<1>3. QED
  BY <1>1, <1>2 DEF Acquire

\* Whoever leaves the block leaves nobody inside.
LEMMA LeavingKeeps ==
  ASSUME TypeOK, IInv, NEW p \in Procs, pc[p] \in Critical, NEW how \in Ended, Release(p, how)
  PROVE  /\ LockHeld' /\ ServedIsNoted' /\ AutostartYields'
         /\ \A q \in Procs : RunInv(q)'
<1>1. \A q \in Procs : q # p => pc[q] \notin Critical
  BY OneInside DEF IInv
<1>2. pc' = [pc EXCEPT ![p] = how] /\ owner' = NoOne /\ UNCHANGED autostartDone
  BY DEF Release
<1>3. \A q \in Procs : pc'[q] \notin Critical
  BY <1>1, <1>2 DEF TypeOK, Ended, Critical, RunSteps
<1>4. LockHeld' /\ AutostartYields'
  BY <1>2, <1>3, MissionAssumption DEF LockHeld, AutostartYields, Procs, Requests
<1>5. ServedIsNoted'
  <2>1. SUFFICES ASSUME NEW r \in Requests, pc'[r] \in Ended \cup Critical
                 PROVE  autostartDone
    BY <1>2 DEF ServedIsNoted
  <2>2. CASE r = p
    BY <2>2 DEF IInv, ServedIsNoted
  <2>3. CASE r # p
    BY <1>2, <2>1, <2>3 DEF IInv, ServedIsNoted, TypeOK, Procs
  <2>4. QED
    BY <2>2, <2>3
<1>6. \A q \in Procs : (RunInv(q))'
  BY <1>3 DEF RunInv, Undisturbed, TablesCleared, TaskPrecedesArtifact, EvidenceGrows,
              EvidenceNotAhead, Critical, RunSteps
<1>7. QED
  BY <1>4, <1>5, <1>6

\* While p goes on inside the block, only p's own facts need a proof.
LEMMA InsideKeeps ==
  ASSUME TypeOK, IInv, NEW p \in Procs, pc[p] \in Critical,
         NEW l \in Critical, pc' = [pc EXCEPT ![p] = l], UNCHANGED lockVars,
         RunInv(p)'
  PROVE  /\ LockHeld' /\ ServedIsNoted' /\ AutostartYields'
         /\ \A q \in Procs : RunInv(q)'
<1>1. \A q \in Procs : q # p => pc[q] \notin Critical
  BY OneInside DEF IInv
<1>2. \A q \in Procs : pc'[q] \in Critical <=> pc[q] \in Critical
  BY DEF TypeOK
<1>3. \A q \in Procs : pc'[q] \in Ended => pc[q] \in Ended
  BY DEF TypeOK, Ended, Critical, RunSteps
<1>4. LockHeld' /\ ServedIsNoted'
  BY <1>2, <1>3 DEF IInv, LockHeld, ServedIsNoted, lockVars, Procs
<1>5. AutostartYields'
  BY <1>2, <1>3 DEF IInv, AutostartYields, Procs
<1>6. ASSUME NEW q \in Procs PROVE RunInv(q)'
  <2>1. CASE q = p
    BY <2>1
  <2>2. CASE q # p
    <3>1. pc'[q] \notin Critical
      BY <1>1, <1>2, <2>2
    <3>2. QED
      BY <3>1 DEF RunInv, Undisturbed, TablesCleared, TaskPrecedesArtifact, EvidenceGrows,
                  EvidenceNotAhead, Critical, RunSteps
  <2>3. QED
    BY <2>1, <2>2
<1>7. QED
  BY <1>4, <1>5, <1>6

\* What upsert_task leaves behind.
LEMMA UpsertFacts ==
  ASSUME NEW p, NEW s, NEW e \in BOOLEAN, UpsertTask(p, s, e)
  PROVE  /\ \A t \in tasks' : \/ t \in tasks
                              \/ t.run = Run(p) /\ t.hop = hop[p]
         /\ \E t \in tasks' : t.run = Run(p) /\ t.hop = hop[p] /\ (e => t.ended)
         /\ \A t \in tasks : \E u \in tasks' :
              u.run = t.run /\ u.hop = t.hop /\ (t.ended => u.ended)
         /\ ~e => \A t \in tasks' : t.ended =>
              \E u \in tasks : u.run = t.run /\ u.hop = t.hop /\ u.ended
<1> DEFINE old == {t \in tasks : t.run = Run(p) /\ t.hop = hop[p]}
           row == [run |-> Run(p), hop |-> hop[p], state |-> s,
                   ended |-> e \/ \E t \in old : t.ended]
<1>1. tasks' = (tasks \ old) \cup {row}
  BY DEF UpsertTask
<1>2. row.run = Run(p) /\ row.hop = hop[p] /\ row.ended = (e \/ \E t \in old : t.ended)
  OBVIOUS
<1>3. row \in tasks'
  BY <1>1
<1>4. ASSUME NEW t \in tasks
      PROVE  \E u \in tasks' : u.run = t.run /\ u.hop = t.hop /\ (t.ended => u.ended)
  <2>1. CASE t \in old
    BY <1>2, <1>3, <2>1
  <2>2. CASE t \notin old
    BY <1>1, <2>2
  <2>3. QED
    BY <2>1, <2>2
<1>5. ASSUME ~e, NEW t \in tasks', t.ended
      PROVE  \E u \in tasks : u.run = t.run /\ u.hop = t.hop /\ u.ended
  <2>1. CASE t = row
    BY <1>2, <1>5, <2>1
  <2>2. CASE t # row
    BY <1>1, <1>5, <2>2
  <2>3. QED
    BY <2>1, <2>2
<1>6. QED
  BY <1>1, <1>2, <1>3, <1>4, <1>5

\* What is known while p runs.
LEMMA Running ==
  ASSUME TypeOK, IInv, NEW p \in Procs, pc[p] \in RunSteps
  PROVE  /\ pc[p] \in Critical
         /\ hop[p] \in Hops
         /\ Run(p) \in RunIds
         /\ missions = {[run    |-> Run(p),
                         status |-> IF pc[p] = "close" THEN "completed" ELSE "running",
                         phase  |-> PhaseOf(p)]}
         /\ \A r \in Rows : r.run = Run(p)
  BY RunType DEF IInv, RunInv, Undisturbed, OneRunOnRecord, TypeOK, Critical

\* Evidence is never taken back by the writes of a run.
LEMMA EvidenceKept ==
  ASSUME \/ UNCHANGED tasks
         \/ \E p, s : \E e \in BOOLEAN : UpsertTask(p, s, e),
         messages \subseteq messages'
  PROVE  /\ \A r, h : Evidence(r, h) => Evidence(r, h)'
         /\ \A t \in tasks : \E u \in tasks' : u.run = t.run /\ u.hop = t.hop
<1>1. \A t \in tasks : \E u \in tasks' : u.run = t.run /\ u.hop = t.hop /\ (t.ended => u.ended)
  BY UpsertFacts
<1>2. QED
  BY <1>1 DEF Evidence

LEMMA ClearKeeps ==
  ASSUME TypeOK, IInv, NEW p \in Procs, ClearContext(p) PROVE IInv'
<1>1. missions' = {} /\ tasks' = {} /\ artifacts' = {} /\ messages' = {}
  BY DEF ClearContext
<1>2. OneRunOnRecord' /\ PhaseHasEvidence'
  BY <1>1 DEF OneRunOnRecord, PhaseHasEvidence, Rows
<1>3. pc[p] \in Critical
  BY DEF ClearContext, Critical
<1>4. CASE Release(p, "done")
  BY <1>2, <1>3, <1>4, LeavingKeeps DEF IInv, Ended
<1>5. CASE pc' = [pc EXCEPT ![p] = "create"] /\ UNCHANGED lockVars
  <2>1. pc'[p] = "create"
    BY <1>5 DEF TypeOK
  <2>2. RunInv(p)'
    BY <1>1, <2>1 DEF RunInv, Undisturbed, TablesCleared, TaskPrecedesArtifact,
                      EvidenceGrows, EvidenceNotAhead, RunSteps, Rows
  <2>3. QED
    BY <1>2, <1>3, <1>5, <2>2, InsideKeeps DEF IInv, Critical
<1>6. QED
  BY <1>4, <1>5 DEF ClearContext

LEMMA CreateKeeps ==
  ASSUME TypeOK, IInv, NEW p \in Procs, CreateMission(p), hop[p] = 1 PROVE IInv'
<1> DEFINE row == [run |-> Run(p), status |-> "running", phase |-> 0]
<1>1. /\ pc[p] = "create" /\ missions' = {row}
      /\ pc' = [pc EXCEPT ![p] = "update_phase"] /\ pc'[p] = "update_phase"
      /\ UNCHANGED <<lockVars, life, hop, events, remote, tasks, artifacts, messages>>
  BY DEF CreateMission, localVars, TypeOK
<1>2. tasks = {} /\ artifacts = {} /\ messages = {}
  BY <1>1 DEF IInv, RunInv, TablesCleared, Rows
<1>3. Run(p)' = Run(p)
  BY <1>1 DEF Run
<1>4. RunInv(p)'
  <2>1. Undisturbed(p)'
    BY <1>1, <1>3 DEF Undisturbed, PhaseOf
  <2>2. TablesCleared(p)' /\ TaskPrecedesArtifact(p)' /\ EvidenceNotAhead(p)'
    BY <1>1, <1>2 DEF TablesCleared, TaskPrecedesArtifact, EvidenceNotAhead
  <2>3. EvidenceGrows(p)'
    BY <1>1, MissionAssumption DEF EvidenceGrows, Hops
  <2>4. QED
    BY <2>1, <2>2, <2>3 DEF RunInv
<1>5. OneRunOnRecord'
  BY <1>1, <1>2 DEF OneRunOnRecord, Rows
<1>6. PhaseHasEvidence'
  <2>1. \A h \in Hops : ~(h < row.phase)
    BY MissionAssumption DEF Hops
  <2>2. QED
    BY <1>1, <1>2, <2>1 DEF PhaseHasEvidence
<1>7. QED
  BY <1>1, <1>4, <1>5, <1>6, InsideKeeps DEF IInv, Critical, RunSteps

LEMMA UpdatePhaseKeeps ==
  ASSUME TypeOK, IInv, NEW p \in Procs, UpdatePhase(p) PROVE IInv'
<1> DEFINE row == [run |-> Run(p), status |-> "running", phase |-> hop[p]]
<1>1. /\ pc[p] = "update_phase" /\ pc[p] \in RunSteps
      /\ pc' = [pc EXCEPT ![p] = "call"] /\ pc'[p] = "call"
      /\ UNCHANGED <<lockVars, life, hop, events, remote, tasks, artifacts, messages>>
  BY DEF UpdatePhase, localVars, TypeOK, RunSteps
<1>2. missions = {[run |-> Run(p), status |-> "running", phase |-> hop[p] - 1]}
  BY <1>1, Running DEF PhaseOf
<1>3. missions' = {row}
  BY <1>2 DEF UpdatePhase
<1>4. Run(p)' = Run(p) /\ \A r, h : Evidence(r, h)' = Evidence(r, h)
  BY <1>1 DEF Run, Evidence
<1>5. RunInv(p)'
  <2>1. Undisturbed(p)'
    BY <1>1, <1>3, <1>4 DEF Undisturbed, PhaseOf
  <2>2. TablesCleared(p)' /\ TaskPrecedesArtifact(p)' /\ EvidenceNotAhead(p)'
    BY <1>1 DEF IInv, RunInv, TablesCleared, TaskPrecedesArtifact, EvidenceNotAhead
  <2>3. EvidenceGrows(p)'
    BY <1>1, <1>4 DEF IInv, RunInv, EvidenceGrows
  <2>4. QED
    BY <2>1, <2>2, <2>3 DEF RunInv
<1>6. OneRunOnRecord'
  BY <1>1, <1>3, Running DEF OneRunOnRecord, Rows
<1>7. PhaseHasEvidence'
  <2>1. \A h \in Hops : h < hop[p] => Evidence(Run(p), h)
    BY <1>1 DEF IInv, RunInv, EvidenceGrows
  <2>2. QED
    BY <1>1, <1>3, <1>4, <2>1 DEF IInv, PhaseHasEvidence
<1>8. QED
  BY <1>1, <1>5, <1>6, <1>7, InsideKeeps DEF IInv, Critical, RunSteps

\* A call changes no table.
LEMMA CallKeeps ==
  ASSUME TypeOK, IInv, NEW p \in Procs, CallStream(p) \/ CallSend(p) PROVE IInv'
<1>1. /\ pc[p] = "call" /\ pc[p] \in RunSteps
      /\ UNCHANGED <<lockVars, life, hop, missions, tasks, artifacts, messages>>
  BY DEF CallStream, CallSend, dbVars, RunSteps
<1>2. PICK l \in {"consume", "record"} : pc' = [pc EXCEPT ![p] = l]
  BY DEF CallStream, CallSend
<1>3. pc'[p] = l
  BY <1>2 DEF TypeOK
<1>4. Run(p)' = Run(p) /\ \A r, h : Evidence(r, h)' = Evidence(r, h)
  BY <1>1 DEF Run, Evidence
<1>5. RunInv(p)'
  <2>1. Undisturbed(p)'
    BY <1>1, <1>3, <1>4 DEF IInv, RunInv, Undisturbed, PhaseOf
  <2>2. TablesCleared(p)' /\ EvidenceNotAhead(p)'
    BY <1>1, <1>3 DEF IInv, RunInv, TablesCleared, EvidenceNotAhead
  <2>3. EvidenceGrows(p)'
    BY <1>1, <1>3, <1>4 DEF IInv, RunInv, EvidenceGrows
  <2>4. TaskPrecedesArtifact(p)'
    <3>1. CASE CallStream(p)
      <4>1. PICK a \in StreamAnswers(hop[p] \in GoHops) : events' = [events EXCEPT ![p] = a.seen]
        BY <3>1 DEF CallStream
      <4>2. hop[p] \in Hops /\ events'[p] = a.seen
        BY <4>1 DEF TypeOK
      <4>3. QED
        BY <4>1, <4>2, HopAnswerTypes DEF TaskPrecedesArtifact
    <3>2. CASE CallSend(p)
      <4>1. pc'[p] = "record"
        BY <3>2 DEF CallSend, TypeOK
      <4>2. QED
        BY <4>1 DEF TaskPrecedesArtifact
    <3>3. QED
      BY <3>1, <3>2
  <2>5. QED
    BY <2>1, <2>2, <2>3, <2>4 DEF RunInv
<1>6. OneRunOnRecord' /\ PhaseHasEvidence'
  BY <1>1, TablesSame DEF IInv, dbVars
<1>7. QED
  BY <1>1, <1>2, <1>5, <1>6, InsideKeeps DEF IInv, Critical, RunSteps
\* The tables after an upsert or an insert by p still belong to p's run.
LEMMA RowsKept ==
  ASSUME TypeOK, IInv, NEW p \in Procs, pc[p] \in RunSteps,
         UNCHANGED missions,
         \/ UNCHANGED tasks
         \/ \E s : \E e \in BOOLEAN : UpsertTask(p, s, e),
         artifacts' \subseteq artifacts \cup {[run |-> Run(p), hop |-> hop[p]]},
         messages \subseteq messages',
         messages' \subseteq messages \cup {[run |-> Run(p), hop |-> hop[p]]},
         artifacts' # artifacts => \E t \in tasks' : t.run = Run(p) /\ t.hop = hop[p]
  PROVE  OneRunOnRecord' /\ PhaseHasEvidence'
<1> DEFINE here == [run |-> Run(p), hop |-> hop[p]]
<1>1. \E m \in missions : m.run = Run(p)
  <2> DEFINE row == [run    |-> Run(p),
                     status |-> IF pc[p] = "close" THEN "completed" ELSE "running",
                     phase  |-> PhaseOf(p)]
  <2>1. missions = {row} /\ row.run = Run(p)
    BY Running
  <2>2. QED
    BY <2>1
<1>2. \A t \in tasks' : t \in tasks \/ t.run = Run(p)
  BY UpsertFacts
<1>3. \A r \in Rows' : r \in Rows \/ r.run = Run(p)
  BY <1>2 DEF Rows
<1>4. OneRunOnRecord'
  <2>1. \A r \in Rows : r.run = Run(p)
    BY Running
  <2>2. \A r \in Rows' : r.run = Run(p)
    BY <1>3, <2>1
  <2>3. QED
    BY <1>1, <2>2 DEF IInv, OneRunOnRecord
<1>5. /\ \A r, h : Evidence(r, h) => Evidence(r, h)'
      /\ \A t \in tasks : \E u \in tasks' : u.run = t.run /\ u.hop = t.hop
  BY EvidenceKept
<1>6. ASSUME NEW a \in artifacts' PROVE \E t \in tasks' : t.run = a.run /\ t.hop = a.hop
  <2>1. CASE a \in artifacts
    <3>1. PICK t \in tasks : t.run = a.run /\ t.hop = a.hop
      BY <2>1 DEF IInv, PhaseHasEvidence
    <3>2. QED
      BY <1>5, <3>1
  <2>2. CASE a \notin artifacts
    <3>1. a = here /\ artifacts' # artifacts
      BY <2>2
    <3>2. QED
      BY <3>1
  <2>3. QED
    BY <2>1, <2>2
<1>7. PhaseHasEvidence'
  BY <1>5, <1>6 DEF IInv, PhaseHasEvidence
<1>8. QED
  BY <1>4, <1>7

LEMMA ConsumeKeeps ==
  ASSUME TypeOK, IInv, NEW p \in Procs, ConsumeEvent(p) PROVE IInv'
<1>1. /\ pc[p] = "consume" /\ pc[p] \in RunSteps
      /\ UNCHANGED <<lockVars, life, hop, missions, messages>>
      /\ events[p] \in Seq(EventKinds)
      /\ events'[p] = Tail(events[p])
  BY DEF ConsumeEvent, RunSteps, TypeOK
<1>2. PICK l \in {"consume", "record"} :
        pc' = [pc EXCEPT ![p] = l] /\ (l = "consume" => Tail(events[p]) # <<>>)
  BY DEF ConsumeEvent
<1>3. pc'[p] = l
  BY <1>2 DEF TypeOK
<1>4. Run(p)' = Run(p)
  BY <1>1 DEF Run
<1>5. \/ UNCHANGED tasks
      \/ UpsertTask(p, Head(events[p]), FALSE)
  BY DEF ConsumeEvent
<1>6. /\ artifacts' \subseteq artifacts \cup {[run |-> Run(p), hop |-> hop[p]]}
      /\ \E t \in tasks' : t.run = Run(p) /\ t.hop = hop[p]
  <2>1. CASE Head(events[p]) = "ARTIFACT"
    BY <1>1, <2>1 DEF ConsumeEvent, InsertArtifact, IInv, RunInv, TaskPrecedesArtifact
  <2>2. CASE Head(events[p]) # "ARTIFACT"
    BY <2>2, UpsertFacts DEF ConsumeEvent
  <2>3. QED
    BY <2>1, <2>2
<1>7. \A r, h : Evidence(r, h) => Evidence(r, h)'
  BY <1>1, <1>5, EvidenceKept
<1>8. RunInv(p)'
  <2>1. Undisturbed(p)'
    BY <1>1, <1>3, <1>4 DEF IInv, RunInv, Undisturbed, PhaseOf
  <2>2. TablesCleared(p)'
    BY <1>3 DEF TablesCleared
  <2>3. TaskPrecedesArtifact(p)'
    BY <1>1, <1>2, <1>3, <1>4, <1>6 DEF TaskPrecedesArtifact
  <2>4. EvidenceGrows(p)'
    BY <1>1, <1>3, <1>4, <1>7 DEF IInv, RunInv, EvidenceGrows
  <2>5. EvidenceNotAhead(p)'
    <3>1. \A t \in tasks' : t.ended =>
            \E u \in tasks : u.run = t.run /\ u.hop = t.hop /\ u.ended
      BY <1>5, UpsertFacts
    <3>2. \A u \in tasks : u.ended => u.hop < hop[p]
      BY <1>1 DEF IInv, RunInv, EvidenceNotAhead
    <3>3. QED
      BY <1>1, <3>1, <3>2 DEF EvidenceNotAhead
  <2>6. QED
    BY <2>1, <2>2, <2>3, <2>4, <2>5 DEF RunInv
<1>9. OneRunOnRecord' /\ PhaseHasEvidence'
  BY <1>1, <1>5, <1>6, RowsKept
<1>10. QED
  BY <1>1, <1>2, <1>8, <1>9, InsideKeeps DEF IInv, Critical, RunSteps

LEMMA RecordKeeps ==
  ASSUME TypeOK, IInv, NEW p \in Procs, RecordMessage(p) PROVE IInv'
<1>1. /\ pc[p] = "record" /\ pc[p] \in RunSteps
      /\ pc' = [pc EXCEPT ![p] = "persist"] /\ pc'[p] = "persist"
      /\ UNCHANGED <<lockVars, life, hop, events, missions, tasks, artifacts>>
      /\ messages' = messages \cup {[run |-> Run(p), hop |-> hop[p]]}
  BY DEF RecordMessage, RunSteps, TypeOK, localVars
<1>2. Run(p)' = Run(p)
  BY <1>1 DEF Run
<1>3. \A r, h : Evidence(r, h) => Evidence(r, h)'
  BY <1>1, EvidenceKept
<1>4. RunInv(p)'
  <2>1. Undisturbed(p)'
    BY <1>1, <1>2 DEF IInv, RunInv, Undisturbed, PhaseOf
  <2>2. TablesCleared(p)' /\ TaskPrecedesArtifact(p)' /\ EvidenceNotAhead(p)'
    BY <1>1 DEF IInv, RunInv, TablesCleared, TaskPrecedesArtifact, EvidenceNotAhead
  <2>3. EvidenceGrows(p)'
    BY <1>1, <1>2, <1>3 DEF IInv, RunInv, EvidenceGrows
  <2>4. QED
    BY <2>1, <2>2, <2>3 DEF RunInv
<1>5. OneRunOnRecord' /\ PhaseHasEvidence'
  BY <1>1, RowsKept
<1>6. QED
  BY <1>1, <1>4, <1>5, InsideKeeps DEF IInv, Critical, RunSteps

\* The hop's result is on record: go on to its artifact, to the next hop, or
\* to the end of the mission.
LEMMA HopDone ==
  ASSUME TypeOK, IInv, NEW p \in Procs, pc[p] \in {"persist", "archive"},
         UNCHANGED <<life, missions, messages>>,
         \/ UNCHANGED tasks
         \/ \E s : UpsertTask(p, s, TRUE),
         \A r, h : r = Run(p) /\ h = hop[p] => Evidence(r, h)',
         \/ NextHop(p)
         \/ pc' = [pc EXCEPT ![p] = "archive"] /\ UNCHANGED hop
  PROVE  /\ RunInv(p)'
         /\ \E l \in Critical : pc' = [pc EXCEPT ![p] = l]
<1>1. /\ hop[p] \in Nat /\ NumHops \in Nat /\ hop[p] \in Hops /\ hop[p] <= NumHops
      /\ pc[p] \in RunSteps
  BY MissionAssumption DEF TypeOK, Hops, RunSteps
<1>2. Run(p)' = Run(p)
  BY DEF Run
<1>3. \A h \in Hops : h <= hop[p] => Evidence(Run(p), h)'
  <2>1. \A h \in Hops : h < hop[p] => Evidence(Run(p), h)
    BY <1>1 DEF IInv, RunInv, EvidenceGrows
  <2>2. \A h \in Hops : h < hop[p] => Evidence(Run(p), h)'
    BY <1>2, <2>1, EvidenceKept
  <2>3. \A h \in Hops : h <= hop[p] => h < hop[p] \/ h = hop[p]
    BY <1>1 DEF Hops
  <2>4. \A h : h = hop[p] => Evidence(Run(p), h)'
    BY <1>2
  <2>5. QED
    BY <2>2, <2>3, <2>4
<1>4. \A t \in tasks' : t.ended => t.hop < hop[p] \/ t.hop = hop[p]
  <2>1. \A t \in tasks' : t \in tasks \/ t.hop = hop[p]
    BY UpsertFacts
  <2>2. \A t \in tasks : t.ended => t.hop < hop[p] \/ t.hop = hop[p]
    BY <1>1 DEF IInv, RunInv, EvidenceNotAhead
  <2>3. QED
    BY <2>1, <2>2
<1>5. missions = {[run |-> Run(p), status |-> "running", phase |-> hop[p]]}
  BY <1>1 DEF IInv, RunInv, Undisturbed, PhaseOf
<1>6. [run |-> Run(p), hop |-> hop[p]] \in messages
  BY <1>1 DEF IInv, RunInv, EvidenceGrows
<1>7. CASE pc' = [pc EXCEPT ![p] = "archive"] /\ UNCHANGED hop
  <2>1. pc'[p] = "archive"
    BY <1>7 DEF TypeOK
  <2>2. Undisturbed(p)'
    BY <1>2, <1>5, <1>7, <2>1 DEF Undisturbed, PhaseOf
  <2>3. TablesCleared(p)' /\ TaskPrecedesArtifact(p)'
    BY <2>1 DEF TablesCleared, TaskPrecedesArtifact
  <2>4. EvidenceGrows(p)'
    <3>1. \A h \in Hops : h < hop[p] => Evidence(Run(p), h)'
      BY <1>1, <1>3 DEF Hops
    <3>2. QED
      BY <1>2, <1>6, <1>7, <2>1, <3>1 DEF EvidenceGrows
  <2>5. EvidenceNotAhead(p)'
    BY <1>4, <1>7, <2>1 DEF EvidenceNotAhead
  <2>6. QED
    BY <1>7, <2>2, <2>3, <2>4, <2>5 DEF RunInv, Critical, RunSteps
<1>8. CASE /\ hop[p] < NumHops
           /\ hop' = [hop EXCEPT ![p] = hop[p] + 1]
           /\ pc' = [pc EXCEPT ![p] = "update_phase"]
  <2>1. pc'[p] = "update_phase" /\ hop'[p] = hop[p] + 1
    BY <1>8 DEF TypeOK
  <2>2. Undisturbed(p)'
    BY <1>1, <1>2, <1>5, <2>1 DEF Undisturbed, PhaseOf
  <2>3. TablesCleared(p)' /\ TaskPrecedesArtifact(p)'
    BY <2>1 DEF TablesCleared, TaskPrecedesArtifact
  <2>4. EvidenceGrows(p)'
    <3>1. \A h \in Hops : h < hop'[p] => h <= hop[p]
      BY <1>1, <2>1 DEF Hops
    <3>2. \A h \in Hops : h < hop'[p] => Evidence(Run(p), h)'
      BY <1>3, <3>1
    <3>3. QED
      BY <1>2, <2>1, <3>2 DEF EvidenceGrows
  <2>5. EvidenceNotAhead(p)'
    <3>1. \A t \in tasks' : t.ended => t.hop < hop'[p]
      <4>1. \A t \in tasks' : t.hop < hop[p] \/ t.hop = hop[p] => t.hop < hop[p] + 1
        <5>1. \A t \in tasks' : t \in tasks \/ t.hop = hop[p]
          BY UpsertFacts
        <5>2. \A t \in tasks : t.hop \in Nat
          BY DEF TypeOK, TaskRows, Hops
        <5>3. QED
          BY <1>1, <5>1, <5>2
      <4>2. QED
        BY <1>4, <2>1, <4>1
    <3>2. QED
      BY <3>1 DEF EvidenceNotAhead
  <2>6. QED
    BY <1>8, <2>2, <2>3, <2>4, <2>5 DEF RunInv, Critical, RunSteps
<1>9. CASE ~(hop[p] < NumHops) /\ UNCHANGED hop /\ pc' = [pc EXCEPT ![p] = "complete"]
  <2>1. pc'[p] = "complete" /\ hop[p] = NumHops
    BY <1>1, <1>9 DEF TypeOK
  <2>2. Undisturbed(p)'
    BY <1>2, <1>5, <1>9, <2>1 DEF Undisturbed, PhaseOf
  <2>3. TablesCleared(p)' /\ TaskPrecedesArtifact(p)'
    BY <2>1 DEF TablesCleared, TaskPrecedesArtifact
  <2>4. EvidenceGrows(p)'
    <3>1. \A h \in Hops : h < hop[p] => Evidence(Run(p), h)'
      BY <1>1, <1>3 DEF Hops
    <3>2. QED
      BY <1>2, <1>9, <2>1, <3>1 DEF EvidenceGrows
  <2>5. EvidenceNotAhead(p)'
    BY <1>4, <1>9, <2>1 DEF EvidenceNotAhead
  <2>6. QED
    BY <1>9, <2>2, <2>3, <2>4, <2>5 DEF RunInv, Critical, RunSteps
<1>10. QED
  BY <1>7, <1>8, <1>9 DEF NextHop
LEMMA PersistTaskKeeps ==
  ASSUME TypeOK, IInv, NEW p \in Procs, PersistTask(p) PROVE IInv'
<1>1. /\ pc[p] = "persist" /\ pc[p] \in RunSteps
      /\ UNCHANGED <<lockVars, life, missions, artifacts, messages>>
      /\ UpsertTask(p, remote[p].state, TRUE)
  BY DEF PersistTask, RunSteps
<1>2. \/ NextHop(p)
      \/ pc' = [pc EXCEPT ![p] = "archive"] /\ UNCHANGED hop
  BY DEF PersistTask
<1>3. \A r, h : r = Run(p) /\ h = hop[p] => Evidence(r, h)'
  <2>1. \E t \in tasks' : t.run = Run(p) /\ t.hop = hop[p] /\ t.ended
    BY <1>1, UpsertFacts
  <2>2. [run |-> Run(p), hop |-> hop[p]] \in messages'
    BY <1>1 DEF IInv, RunInv, EvidenceGrows
  <2>3. QED
    BY <2>1, <2>2 DEF Evidence
<1>4. RunInv(p)' /\ \E l \in Critical : pc' = [pc EXCEPT ![p] = l]
  BY <1>1, <1>2, <1>3, HopDone
<1>5. OneRunOnRecord' /\ PhaseHasEvidence'
  BY <1>1, RowsKept
<1>6. QED
  BY <1>1, <1>4, <1>5, InsideKeeps DEF IInv, Critical

LEMMA PersistArtifactKeeps ==
  ASSUME TypeOK, IInv, NEW p \in Procs, PersistArtifact(p) PROVE IInv'
<1>1. /\ pc[p] = "archive" /\ pc[p] \in RunSteps
      /\ UNCHANGED <<lockVars, life, missions, tasks, messages>>
      /\ NextHop(p)
      /\ artifacts' = artifacts \cup {[run |-> Run(p), hop |-> hop[p]]}
  BY DEF PersistArtifact, InsertArtifact, RunSteps
<1>2. Evidence(Run(p), hop[p])
  BY <1>1 DEF IInv, RunInv, EvidenceGrows
<1>3. \A r, h : r = Run(p) /\ h = hop[p] => Evidence(r, h)'
  BY <1>1, <1>2 DEF Evidence
<1>4. RunInv(p)' /\ \E l \in Critical : pc' = [pc EXCEPT ![p] = l]
  BY <1>1, <1>3, HopDone
<1>5. \E t \in tasks' : t.run = Run(p) /\ t.hop = hop[p]
  BY <1>1, <1>2 DEF Evidence
<1>6. OneRunOnRecord' /\ PhaseHasEvidence'
  BY <1>1, <1>5, RowsKept
<1>7. QED
  BY <1>1, <1>4, <1>6, InsideKeeps DEF IInv, Critical

LEMMA CompleteKeeps ==
  ASSUME TypeOK, IInv, NEW p \in Procs, CompleteMission(p) PROVE IInv'
<1> DEFINE row == [run |-> Run(p), status |-> "completed", phase |-> NumHops + 1]
<1>1. /\ pc[p] = "complete" /\ pc[p] \in RunSteps
      /\ pc' = [pc EXCEPT ![p] = "close"] /\ pc'[p] = "close"
      /\ UNCHANGED <<lockVars, life, hop, events, remote, tasks, artifacts, messages>>
  BY DEF CompleteMission, localVars, TypeOK, RunSteps
<1>2. missions = {[run |-> Run(p), status |-> "running", phase |-> hop[p]]}
  BY <1>1, Running DEF PhaseOf
<1>3. missions' = {row}
  BY <1>2 DEF CompleteMission
<1>4. Run(p)' = Run(p) /\ \A r, h : Evidence(r, h)' = Evidence(r, h)
  BY <1>1 DEF Run, Evidence
<1>5. hop[p] = NumHops /\ NumHops \in Nat /\ \A h \in Hops : Evidence(Run(p), h)
  <2>1. /\ hop[p] = NumHops
        /\ Evidence(Run(p), hop[p])
        /\ \A h \in Hops : h < hop[p] => Evidence(Run(p), h)
    BY <1>1 DEF IInv, RunInv, EvidenceGrows
  <2>2. \A h \in Hops : h < NumHops \/ h = NumHops
    BY MissionAssumption DEF Hops
  <2>3. QED
    BY <2>1, <2>2, MissionAssumption
<1>6. RunInv(p)'
  <2>1. Undisturbed(p)'
    BY <1>1, <1>3, <1>4 DEF Undisturbed, PhaseOf
  <2>2. TablesCleared(p)' /\ TaskPrecedesArtifact(p)' /\ EvidenceNotAhead(p)'
    BY <1>1 DEF IInv, RunInv, TablesCleared, TaskPrecedesArtifact, EvidenceNotAhead
  <2>3. EvidenceGrows(p)'
    BY <1>1, <1>4 DEF IInv, RunInv, EvidenceGrows
  <2>4. QED
    BY <2>1, <2>2, <2>3 DEF RunInv
<1>7. OneRunOnRecord'
  BY <1>1, <1>3, Running DEF OneRunOnRecord, Rows
<1>8. PhaseHasEvidence'
  <2>1. row.run = Run(p) /\ row.status = "completed" /\ row.phase = NumHops + 1
    OBVIOUS
  <2> HIDE DEF row
  <2>2. \A r : r = Run(p) => \A h \in Hops : Evidence(r, h)'
    BY <1>4, <1>5
  <2>3. \A m \in missions' : \A h \in Hops : h < m.phase => Evidence(m.run, h)'
    BY <1>3, <2>1, <2>2
  <2>4. \A m \in missions' : m.status = "completed" => m.phase = NumHops + 1
    BY <1>3, <2>1
  <2>5. \A a \in artifacts' : \E t \in tasks' : t.run = a.run /\ t.hop = a.hop
    BY <1>1 DEF IInv, PhaseHasEvidence
  <2>6. QED
    BY <2>3, <2>4, <2>5 DEF PhaseHasEvidence
<1>9. QED
  BY <1>1, <1>6, <1>7, <1>8, InsideKeeps DEF IInv, Critical, RunSteps

\* Leaving with the tables as they are.
LEMMA EndKeeps ==
  ASSUME TypeOK, IInv, NEW p \in Procs, Close(p) \/ Fail(p) PROVE IInv'
<1>1. PICK how \in Ended : Release(p, how)
  BY DEF Close, Fail, Ended
<1>2. pc[p] \in Critical /\ UNCHANGED dbVars
  BY DEF Close, Fail, Critical, RunSteps
<1>3. QED
  BY <1>1, <1>2, LeavingKeeps, TablesSame DEF IInv

\* Coming to the lock: at most the newcomer's own location changes, and it is
\* in no position to claim anything yet.
LEMMA ComingKeeps ==
  ASSUME TypeOK, IInv, NEW p \in Procs, pc[p] \notin Critical,
         NEW l \in {"queued", "skipped", "clear"}, pc' = [pc EXCEPT ![p] = l],
         UNCHANGED <<life, localVars, dbVars>>,
         LockHeld' /\ ServedIsNoted' /\ AutostartYields'
  PROVE  IInv'
<1>1. ASSUME NEW q \in Procs PROVE RunInv(q)'
  <2>1. CASE q = p
    <3>1. pc'[q] = l
      BY <2>1 DEF TypeOK
    <3>2. QED
      BY <3>1 DEF RunInv, Undisturbed, TablesCleared, TaskPrecedesArtifact, EvidenceGrows,
                  EvidenceNotAhead, RunSteps
  <2>2. CASE q # p
    <3>1. pc'[q] = pc[q]
      BY <2>2 DEF TypeOK
    <3>2. QED
      BY <3>1, RunInvSame DEF IInv
  <2>3. QED
    BY <2>1, <2>2
<1>2. QED
  BY <1>1, TablesSame DEF IInv
\* Arrivals, the background task and the queue.
LEMMA AcquireKeeps ==
  ASSUME TypeOK, IInv, NEW p \in Procs, pc[p] \in {"idle", "boot"}, Acquire(p),
         UNCHANGED <<life, localVars, dbVars>>
  PROVE  IInv'
<1>1. pc[p] \notin Critical
  BY DEF Critical, RunSteps
<1>2. \E l \in {"queued", "skipped", "clear"} : pc' = [pc EXCEPT ![p] = l]
  BY DEF Acquire, Enter
<1>3. QED
  BY <1>1, <1>2, QueueingKeeps, ComingKeeps

LEMMA SkippingKeeps ==
  ASSUME TypeOK, IInv, pc[Autostart] = "boot",
         pc' = [pc EXCEPT ![Autostart] = "skipped"],
         UNCHANGED <<lockVars, life, localVars, dbVars>>
  PROVE  IInv'
<1>1. Autostart \in Procs /\ pc[Autostart] \notin Critical
  BY DEF Procs, Critical, RunSteps
<1>2. \A q \in Procs : /\ pc'[q] \in Critical <=> pc[q] \in Critical
                       /\ pc'[q] \in Ended <=> pc[q] \in Ended
  BY <1>1 DEF TypeOK, Critical, RunSteps, Ended
<1>3. LockHeld' /\ ServedIsNoted' /\ AutostartYields'
  BY <1>1, <1>2 DEF IInv, LockHeld, ServedIsNoted, AutostartYields, lockVars, Procs
<1>4. QED
  BY <1>1, <1>3, ComingKeeps

\* A waiter is not inside: nobody is while the lock is free.
LEMMA GrantKeeps ==
  ASSUME TypeOK, IInv, NEW p \in Procs, Grant(p) PROVE IInv'
<1>1. pc[p] \notin Critical
  BY MissionAssumption DEF Grant, IInv, LockHeld, Procs, Requests
<1>2. \E l \in {"queued", "skipped", "clear"} : pc' = [pc EXCEPT ![p] = l]
  BY DEF Grant, Enter
<1>3. LockHeld' /\ ServedIsNoted' /\ AutostartYields'
  BY EnteringKeeps DEF Grant
<1>4. QED
  BY <1>1, <1>2, <1>3, ComingKeeps DEF Grant

\* After a crash nobody is inside, and the tables are as they were.
LEMMA CrashKeeps ==
  ASSUME TypeOK, IInv, Crash PROVE IInv'
<1>1. \A q \in Procs : pc'[q] \in {"boot", "idle", "gone"}
  BY DEF Crash
<1>2. \A q \in Procs : pc'[q] \notin Critical \cup Ended
  BY <1>1 DEF Critical, RunSteps, Ended
<1>3. LockHeld' /\ ServedIsNoted' /\ AutostartYields'
  BY <1>2, MissionAssumption
     DEF Crash, LockHeld, ServedIsNoted, AutostartYields, Procs, Requests
<1>4. \A q \in Procs : RunInv(q)'
  BY <1>2 DEF RunInv, Undisturbed, TablesCleared, TaskPrecedesArtifact, EvidenceGrows,
              EvidenceNotAhead, Critical, RunSteps
<1>5. QED
  BY <1>3, <1>4, TablesSame DEF Crash, IInv

LEMMA StutterKeeps ==
  ASSUME TypeOK, IInv, UNCHANGED vars PROVE IInv'
<1>1. \A q \in Procs : RunInv(q)'
  BY RunInvSame DEF IInv, vars
<1>2. LockHeld' /\ ServedIsNoted' /\ AutostartYields'
  BY DEF IInv, vars, lockVars, LockHeld, ServedIsNoted, AutostartYields
<1>3. QED
  BY <1>1, <1>2, TablesSame DEF IInv, vars

\* Outside a run the local hop is the first one.
LEMMA FreshKept ==
  ASSUME TypeOK, LockHeld, FreshLocals, [Next]_vars PROVE FreshLocals'
<1>1. ASSUME NEW p \in Procs, Release(p, "done") \/ Release(p, "failed") PROVE FreshLocals'
  BY <1>1, MissionAssumption DEF Release, FreshLocals, TypeOK, RunSteps, Hops
<1>2. CASE UNCHANGED <<pc, hop>>
  BY <1>2 DEF FreshLocals
<1>3. ASSUME NEW p \in Procs, NEW l, pc' = [pc EXCEPT ![p] = l], UNCHANGED hop,
             pc[p] \notin RunSteps \/ l \in RunSteps
      PROVE  FreshLocals'
  BY <1>3 DEF FreshLocals, TypeOK
<1>4. ASSUME NEW p \in Procs, NEW l \in RunSteps, NEW h,
             pc' = [pc EXCEPT ![p] = l], hop' = [hop EXCEPT ![p] = h]
      PROVE  FreshLocals'
  BY <1>4 DEF FreshLocals, TypeOK
<1>5. ASSUME NEW p \in Procs, pc[p] \in {"idle", "boot"}, Acquire(p), UNCHANGED hop
      PROVE  FreshLocals'
  <2>1. pc[p] \notin RunSteps
    BY <1>5 DEF RunSteps
  <2>2. \E l : pc' = [pc EXCEPT ![p] = l]
    BY <1>5 DEF Acquire, Enter
  <2>3. QED
    BY <1>3, <1>5, <2>1, <2>2
<1>6. ASSUME NEW r \in Requests, Arrive(r) PROVE FreshLocals'
  BY <1>5, <1>6 DEF Arrive, localVars, Procs
<1>7. CASE AutostartReady \/ AutostartGiveUp
  <2>1. Autostart \in Procs /\ pc[Autostart] = "boot" /\ UNCHANGED hop /\ "boot" \notin RunSteps
    BY <1>7 DEF AutostartReady, AutostartGiveUp, localVars, Procs, RunSteps
  <2>2. Acquire(Autostart) \/ pc' = [pc EXCEPT ![Autostart] = "skipped"]
    BY <1>7 DEF AutostartReady, AutostartGiveUp
  <2>3. QED
    BY <1>3, <1>5, <2>1, <2>2
<1>8. ASSUME NEW p \in Procs, RunStep(p) \/ Fail(p) PROVE FreshLocals'
  <2>1. CASE ClearContext(p)
    <3>1. "clear" \notin RunSteps
      BY DEF RunSteps
    <3>2. QED
      BY <1>1, <1>3, <2>1, <3>1 DEF ClearContext, localVars
  <2>2. CASE CreateMission(p) \/ UpdatePhase(p) \/ CallStream(p) \/ CallSend(p)
             \/ ConsumeEvent(p) \/ RecordMessage(p) \/ CompleteMission(p)
    <3>1. UNCHANGED hop
      BY <2>2 DEF CreateMission, UpdatePhase, CallStream, CallSend, ConsumeEvent,
                  RecordMessage, CompleteMission, localVars
    <3>2. \E l \in RunSteps : pc' = [pc EXCEPT ![p] = l]
      BY <2>2 DEF CreateMission, UpdatePhase, CallStream, CallSend, ConsumeEvent,
                  RecordMessage, CompleteMission, RunSteps
    <3>3. QED
      BY <1>3, <3>1, <3>2
  <2>3. CASE PersistTask(p) \/ PersistArtifact(p)
    <3>1. \/ NextHop(p)
          \/ pc' = [pc EXCEPT ![p] = "archive"] /\ UNCHANGED hop
      BY <2>3 DEF PersistTask, PersistArtifact
    <3>2. \E l \in RunSteps : /\ pc' = [pc EXCEPT ![p] = l]
                              /\ \/ UNCHANGED hop
                                 \/ \E h : hop' = [hop EXCEPT ![p] = h]
      BY <3>1 DEF NextHop, RunSteps
    <3>3. QED
      BY <1>3, <1>4, <3>2
  <2>4. CASE Close(p) \/ Fail(p)
    BY <1>1, <2>4 DEF Close, Fail
  <2>5. QED
    BY <1>8, <2>1, <2>2, <2>3, <2>4 DEF RunStep
<1>9. ASSUME NEW p \in Procs, Grant(p) PROVE FreshLocals'
  <2>1. \E l : l \notin RunSteps /\ pc' = [pc EXCEPT ![p] = l]
    BY <1>9 DEF Grant, Enter, RunSteps
  <2>2. UNCHANGED hop
    BY <1>9 DEF Grant, localVars
  <2>3. pc[p] \notin RunSteps
    BY <1>9, MissionAssumption DEF Grant, LockHeld, Procs, Requests, Critical
  <2>4. QED
    BY <1>3, <2>1, <2>2, <2>3
<1>10. CASE Crash
  BY <1>10 DEF Crash, FreshLocals
<1>11. QED
  BY <1>2, <1>6, <1>7, <1>8, <1>9, <1>10 DEF Next, vars, localVars
-----------------------------------------------------------------------------
(* The safety properties.                                                  *)

LEMMA StepKeeps ==
  ASSUME TypeOK, FreshLocals, IInv, [Next]_vars PROVE IInv'
<1>1. ASSUME NEW r \in Requests, Arrive(r) PROVE IInv'
  BY <1>1, AcquireKeeps DEF Arrive, Procs
<1>2. CASE AutostartReady \/ AutostartGiveUp
  <2>1. Autostart \in Procs
    BY DEF Procs
  <2>2. QED
    BY <1>2, <2>1, AcquireKeeps, SkippingKeeps DEF AutostartReady, AutostartGiveUp
<1>3. ASSUME NEW p \in Procs, Grant(p) \/ Fail(p) PROVE IInv'
  BY <1>3, GrantKeeps, EndKeeps
<1>4. ASSUME NEW p \in Procs, RunStep(p) PROVE IInv'
  <2>1. CASE CreateMission(p)
    <3>1. hop[p] = 1
      BY <2>1 DEF CreateMission, FreshLocals, RunSteps
    <3>2. QED
      BY <2>1, <3>1, CreateKeeps
  <2>2. QED
    BY <1>4, <2>1, ClearKeeps, UpdatePhaseKeeps, CallKeeps, ConsumeKeeps, RecordKeeps,
       PersistTaskKeeps, PersistArtifactKeeps, CompleteKeeps, EndKeeps DEF RunStep
<1>5. CASE Crash
  BY <1>5, CrashKeeps
<1>6. CASE UNCHANGED vars
  BY <1>6, StutterKeeps
<1>7. QED
  BY <1>1, <1>2, <1>3, <1>4, <1>5, <1>6 DEF Next

\* The inductive invariant holds in every state, whatever comes, fails or dies.
THEOREM Inductive == Spec => [](TypeOK /\ FreshLocals /\ IInv)
<1>1. Init => FreshLocals /\ IInv
  BY IInvInit DEF Init, FreshLocals
<1>2. (TypeOK /\ FreshLocals /\ IInv) /\ [Next]_vars => (FreshLocals /\ IInv)'
  BY StepKeeps, FreshKept DEF IInv
<1>3. QED
  BY <1>1, <1>2, TypeCorrect, PTL DEF Spec

\* At most one mission is on record, and every row of every table is its own.
THEOREM OneRun == Spec => []OneRunOnRecord
<1>1. IInv => OneRunOnRecord
  BY DEF IInv
<1>2. QED
  BY <1>1, Inductive, PTL

\* The row of a run is its own from its INSERT to the end of the run.
THEOREM Undisturbable == Spec => []RunUndisturbed
<1>1. IInv => RunUndisturbed
  BY DEF IInv, RunInv, RunUndisturbed
<1>2. QED
  BY <1>1, Inductive, PTL

\* A mission row never claims a phase whose earlier hops are not on record.
THEOREM EvidenceBehindPhase == Spec => []PhaseHasEvidence
<1>1. IInv => PhaseHasEvidence
  BY DEF IInv
<1>2. QED
  BY <1>1, Inductive, PTL

\* The automatic run never comes on top of an explicit request.
THEOREM AutostartIsPolite == Spec => []AutostartYields
<1>1. IInv => AutostartYields
  BY DEF IInv
<1>2. QED
  BY <1>1, Inductive, PTL

-----------------------------------------------------------------------------
(* Refinement: every step of mission control is one of the board, or none. *)

\* How many hops of a run have their evidence.
HopsDone(p) == IF pc[p] \in {"archive", "complete", "close"} THEN hop[p] ELSE hop[p] - 1

\* What the tables show under a run.
BoardUnder(p) ==
  /\ Active
  /\ Shown = IF pc[p] = "close" THEN "completed" ELSE "running"
  /\ Finished = 1..HopsDone(p)
  /\ HopsDone(p) \in 0..NumHops
  /\ pc[p] \in {"complete", "close"} => HopsDone(p) = NumHops

BoardMatchesRun == \A p \in Procs : pc[p] \in RunSteps => BoardUnder(p)

LEMMA BoardOfRun == TypeOK /\ IInv => BoardMatchesRun
<1> SUFFICES ASSUME TypeOK, IInv, NEW p \in Procs, pc[p] \in RunSteps
             PROVE  BoardUnder(p)
  BY DEF BoardMatchesRun
<1> DEFINE row == [run    |-> Run(p),
                   status |-> IF pc[p] = "close" THEN "completed" ELSE "running",
                   phase  |-> PhaseOf(p)]
<1>1. missions = {row} /\ hop[p] \in Hops
  BY Running
<1>2. Active
  BY DEF Active
<1>3. Shown = IF pc[p] = "close" THEN "completed" ELSE "running"
  <2>1. row.status = IF pc[p] = "close" THEN "completed" ELSE "running"
    OBVIOUS
  <2> HIDE DEF row
  <2>2. missions # {} /\ \A m \in missions : m = row
    BY <1>1
  <2>3. QED
    BY <2>1, <2>2 DEF Shown
<1>4. /\ HopsDone(p) \in 0..NumHops
      /\ pc[p] \in {"complete", "close"} => HopsDone(p) = NumHops
  <2>1. pc[p] \in {"complete", "close"} => hop[p] = NumHops
    BY DEF IInv, RunInv, EvidenceGrows
  <2>2. QED
    BY <1>1, <2>1, MissionAssumption DEF HopsDone, Hops
<1>5. Finished = {h \in Hops : Evidence(Run(p), h)}
  BY <1>1 DEF Finished
<1>6. ASSUME NEW h \in Hops PROVE Evidence(Run(p), h) <=> h <= HopsDone(p)
  <2>1. CASE h <= HopsDone(p)
    <3>1. h < hop[p] \/ (h = hop[p] /\ pc[p] \in {"archive", "complete", "close"})
      BY <1>1, <2>1, MissionAssumption DEF HopsDone, Hops
    <3>2. Evidence(Run(p), h)
      BY <3>1 DEF IInv, RunInv, EvidenceGrows
    <3>3. QED
      BY <2>1, <3>2
  <2>2. CASE ~(h <= HopsDone(p))
    <3>1. \A t \in tasks : t.ended => t.hop # h
      BY <1>1, <2>2, MissionAssumption DEF HopsDone, Hops, IInv, RunInv, EvidenceNotAhead
    <3>2. ~Evidence(Run(p), h)
      BY <3>1 DEF Evidence
    <3>3. QED
      BY <2>2, <3>2
  <2>3. QED
    BY <2>1, <2>2
<1>7. Finished = 1..HopsDone(p)
  BY <1>4, <1>5, <1>6, MissionAssumption DEF Hops
<1>8. QED
  BY <1>2, <1>3, <1>4, <1>7 DEF BoardUnder

LEMMA NextBoardOfRun == TypeOK' /\ IInv' => BoardMatchesRun'
  BY BoardOfRun, PTL

\* What they show depends on the tables only.
LEMMA SameTablesSameBoard ==
  ASSUME UNCHANGED dbVars
  PROVE  UNCHANGED <<Shown, Finished>>
  BY DEF dbVars, Shown, Finished, Evidence

\* Whoever is not running may come, queue, leave or fail unseen.
LEMMA UnseenMaps ==
  ASSUME UNCHANGED dbVars,
         \A p \in Procs : pc'[p] \in RunSteps <=> pc[p] \in RunSteps
  PROVE  [Board!BoardNext]_Board!boardVars
<1>1. UNCHANGED Active
  BY DEF Active
<1>2. QED
  BY <1>1, SameTablesSameBoard DEF Board!boardVars

\* A run may stop anywhere, and the board stays as it is.
LEMMA LeavingMaps ==
  ASSUME UNCHANGED dbVars, \A p \in Procs : pc'[p] \notin RunSteps
  PROVE  [Board!BoardNext]_Board!boardVars
<1>1. ~Active' /\ Active \in BOOLEAN
  BY DEF Active
<1>2. CASE Active
  <2>1. Board!Leave
    BY <1>1, <1>2, SameTablesSameBoard DEF Board!Leave
  <2>2. QED
    BY <2>1 DEF Board!BoardNext
<1>3. CASE ~Active
  <2>1. \A p \in Procs : pc[p] \notin RunSteps
    BY <1>3 DEF Active
  <2>2. QED
    BY <2>1, UnseenMaps
<1>4. QED
  BY <1>2, <1>3

LEMMA ClearMaps ==
  ASSUME TypeOK, IInv, NEW p \in Procs, ClearContext(p)
  PROVE  [Board!BoardNext]_Board!boardVars
<1>1. pc[p] = "clear" /\ \A q \in Procs : pc[q] \notin RunSteps
  BY OneInside DEF ClearContext, IInv, Critical, RunSteps
<1>2. \A q \in Procs : pc'[q] \notin RunSteps
  BY <1>1 DEF ClearContext, Release, TypeOK, RunSteps
<1>3. ~Active /\ UNCHANGED Active
  BY <1>1, <1>2 DEF Active
<1>4. missions' = {}
  BY DEF ClearContext
<1>5. Shown' = "nothing" /\ Finished' = {}
  BY <1>4 DEF Shown, Finished
<1>6. Board!Wipe
  BY <1>3, <1>5 DEF Board!Wipe
<1>7. QED
  BY <1>6 DEF Board!BoardNext

LEMMA CreateMaps ==
  ASSUME TypeOK, IInv, NEW p \in Procs, hop[p] = 1, CreateMission(p), TypeOK', IInv'
  PROVE  [Board!BoardNext]_Board!boardVars
<1>1. pc[p] = "create" /\ \A q \in Procs : pc[q] \notin RunSteps
  BY OneInside DEF CreateMission, IInv, Critical, RunSteps
<1>2. ~Active
  BY <1>1 DEF Active
<1>3. Shown = "nothing"
  BY DEF CreateMission, Shown
<1>4. BoardMatchesRun'
  BY NextBoardOfRun
<1>5. pc'[p] = "update_phase" /\ hop'[p] = 1
  BY DEF CreateMission, TypeOK, localVars
<1>6. Active' /\ Shown' = "running" /\ Finished' = {}
  BY <1>4, <1>5 DEF BoardMatchesRun, BoardUnder, HopsDone, RunSteps
<1>7. Board!Begin
  BY <1>2, <1>3, <1>6 DEF Board!Begin
<1>8. QED
  BY <1>7 DEF Board!BoardNext

\* A step within a run finishes a hop, or the mission, or shows nothing.
LEMMA RunMaps ==
  ASSUME TypeOK, IInv, NEW p \in Procs, TypeOK', IInv',
         pc[p] \in RunSteps, pc'[p] \in RunSteps,
         \/ pc[p] = "close" /\ pc'[p] = "close" /\ HopsDone(p)' = HopsDone(p)
         \/ pc[p] # "close" /\ pc'[p] # "close" /\ HopsDone(p)' = HopsDone(p)
         \/ pc[p] # "close" /\ pc'[p] # "close" /\ HopsDone(p)' = HopsDone(p) + 1
         \/ pc[p] = "complete" /\ pc'[p] = "close" /\ HopsDone(p)' = HopsDone(p)
  PROVE  [Board!BoardNext]_Board!boardVars
<1>1. BoardMatchesRun'
  BY NextBoardOfRun
<1>2. /\ Active
      /\ Shown = IF pc[p] = "close" THEN "completed" ELSE "running"
      /\ Finished = 1..HopsDone(p)
      /\ HopsDone(p) \in 0..NumHops
      /\ pc[p] \in {"complete", "close"} => HopsDone(p) = NumHops
  BY BoardOfRun DEF BoardMatchesRun, BoardUnder
<1>3. /\ Active'
      /\ Shown' = IF pc'[p] = "close" THEN "completed" ELSE "running"
      /\ Finished' = 1..HopsDone(p)'
      /\ HopsDone(p)' \in 0..NumHops
  BY <1>1 DEF BoardMatchesRun, BoardUnder
<1>4. UNCHANGED Active
  BY <1>2, <1>3 DEF Active
<1>5. CASE (pc[p] = "close" <=> pc'[p] = "close") /\ HopsDone(p)' = HopsDone(p)
  BY <1>2, <1>3, <1>4, <1>5 DEF Board!boardVars
<1>6. CASE pc[p] # "close" /\ pc'[p] # "close" /\ HopsDone(p)' = HopsDone(p) + 1
  <2> DEFINE h == HopsDone(p) + 1
  <2>1. h \in 1..NumHops /\ Finished = 1..(h - 1) /\ Finished' = 1..h
    BY <1>2, <1>3, <1>6, MissionAssumption
  <2> HIDE DEF h
  <2>2. Board!Advance
    BY <1>2, <1>3, <1>4, <1>6, <2>1 DEF Board!Advance
  <2>3. QED
    BY <2>2 DEF Board!BoardNext
<1>7. CASE pc[p] = "complete" /\ pc'[p] = "close" /\ HopsDone(p)' = HopsDone(p)
  <2>1. Board!Finish
    BY <1>2, <1>3, <1>4, <1>7 DEF Board!Finish
  <2>2. QED
    BY <2>1 DEF Board!BoardNext
<1>8. QED
  BY <1>5, <1>6, <1>7

LEMMA RunStepMoves ==
  ASSUME TypeOK, IInv, NEW p \in Procs, RunStep(p),
         ~ClearContext(p), ~CreateMission(p), ~Close(p)
  PROVE  /\ pc[p] \in RunSteps /\ pc'[p] \in RunSteps
         /\ pc[p] # "close"
         /\ \/ pc'[p] # "close" /\ HopsDone(p)' = HopsDone(p)
            \/ pc'[p] # "close" /\ HopsDone(p)' = HopsDone(p) + 1
            \/ pc[p] = "complete" /\ pc'[p] = "close" /\ HopsDone(p)' = HopsDone(p)
<1> USE DEF TypeOK
<1>0. hop[p] \in Nat /\ NumHops \in Nat
  <2>1. hop[p] \in Hops
    OBVIOUS
  <2>2. QED
    BY ONLY <2>1, MissionAssumption DEF Hops
<1>1. CASE UpdatePhase(p)
  BY <1>1 DEF UpdatePhase, HopsDone, RunSteps, localVars
<1>2. CASE CallStream(p) \/ CallSend(p)
  BY <1>2 DEF CallStream, CallSend, HopsDone, RunSteps
<1>3. CASE ConsumeEvent(p)
  BY <1>3 DEF ConsumeEvent, HopsDone, RunSteps
<1>4. CASE RecordMessage(p)
  BY <1>4 DEF RecordMessage, HopsDone, RunSteps, localVars
<1>5. ASSUME NextHop(p), pc[p] \in {"persist", "archive"}
      PROVE  /\ pc'[p] \in {"update_phase", "complete"}
             /\ HopsDone(p)' = hop[p]
  BY <1>0, <1>5 DEF NextHop, HopsDone
<1>6. CASE PersistTask(p)
  <2>1. CASE pc' = [pc EXCEPT ![p] = "archive"] /\ UNCHANGED hop
    BY <1>0, <1>6, <2>1 DEF PersistTask, HopsDone, RunSteps
  <2>2. CASE NextHop(p)
    BY <1>0, <1>5, <1>6, <2>2 DEF PersistTask, HopsDone, RunSteps
  <2>3. QED
    BY <1>6, <2>1, <2>2 DEF PersistTask
<1>7. CASE PersistArtifact(p)
  BY <1>0, <1>5, <1>7 DEF PersistArtifact, HopsDone, RunSteps
<1>8. CASE CompleteMission(p)
  BY <1>8 DEF CompleteMission, HopsDone, RunSteps, localVars
<1>9. QED
  BY <1>1, <1>2, <1>3, <1>4, <1>6, <1>7, <1>8 DEF RunStep

\* Arriving, queueing, entering and giving up.
LEMMA ComingMaps ==
  ASSUME TypeOK, NEW p \in Procs, pc[p] \notin RunSteps, UNCHANGED dbVars,
         Enter(p) \/ pc' = [pc EXCEPT ![p] = "queued"] \/ pc' = [pc EXCEPT ![p] = "skipped"]
  PROVE  [Board!BoardNext]_Board!boardVars
<1>1. \E to \in {"clear", "queued", "skipped"} : pc' = [pc EXCEPT ![p] = to]
  BY DEF Enter
<1>2. \A q \in Procs : pc'[q] \in RunSteps <=> pc[q] \in RunSteps
  BY <1>1 DEF TypeOK, RunSteps
<1>3. QED
  BY <1>2, UnseenMaps

\* An end of the critical section: nobody runs any more.
LEMMA EndMaps ==
  ASSUME TypeOK, IInv, NEW p \in Procs, NEW how \in Ended, pc[p] \in Critical,
         Release(p, how), UNCHANGED dbVars
  PROVE  [Board!BoardNext]_Board!boardVars
<1>1. \A q \in Procs : q # p => pc[q] \notin RunSteps
  BY OneInside DEF IInv, Critical
<1>2. \A q \in Procs : pc'[q] \notin RunSteps
  BY <1>1 DEF Release, TypeOK, Ended, RunSteps
<1>3. QED
  BY <1>2, LeavingMaps

LEMMA StepMaps ==
  ASSUME TypeOK, FreshLocals, IInv, TypeOK', IInv', [Next]_vars
  PROVE  [Board!BoardNext]_Board!boardVars
<1>1. ASSUME NEW r \in Requests, Arrive(r) PROVE [Board!BoardNext]_Board!boardVars
  <2>1. r \in Procs /\ pc[r] \notin RunSteps /\ UNCHANGED dbVars
    BY <1>1 DEF Arrive, Procs, RunSteps
  <2>2. Enter(r) \/ pc' = [pc EXCEPT ![r] = "queued"]
    BY <1>1 DEF Arrive, Acquire
  <2>3. QED
    BY <2>1, <2>2, ComingMaps
<1>2. CASE AutostartReady \/ AutostartGiveUp
  <2>1. Autostart \in Procs /\ pc[Autostart] \notin RunSteps /\ UNCHANGED dbVars
    BY <1>2 DEF AutostartReady, AutostartGiveUp, Procs, RunSteps
  <2>2. \/ Enter(Autostart) \/ pc' = [pc EXCEPT ![Autostart] = "queued"]
        \/ pc' = [pc EXCEPT ![Autostart] = "skipped"]
    BY <1>2 DEF AutostartReady, AutostartGiveUp, Acquire
  <2>3. QED
    BY <2>1, <2>2, ComingMaps
<1>3. ASSUME NEW p \in Procs, Grant(p) PROVE [Board!BoardNext]_Board!boardVars
  <2>1. pc[p] \in RunSteps => owner = p
    BY DEF IInv, LockHeld, Critical
  <2>2. pc[p] \notin RunSteps
    BY <1>3, <2>1, MissionAssumption DEF Grant, Procs, Requests
  <2>3. QED
    BY <1>3, <2>2, ComingMaps DEF Grant
<1>4. ASSUME NEW p \in Procs, Fail(p) \/ Close(p) PROVE [Board!BoardNext]_Board!boardVars
  <2>1. pc[p] \in Critical /\ UNCHANGED dbVars /\ \E how \in Ended : Release(p, how)
    BY <1>4 DEF Fail, Close, Critical, RunSteps, Ended
  <2>2. QED
    BY <2>1, EndMaps
<1>5. ASSUME NEW p \in Procs, RunStep(p) PROVE [Board!BoardNext]_Board!boardVars
  <2>1. CASE ClearContext(p)
    BY <2>1, ClearMaps
  <2>2. CASE CreateMission(p)
    <3>1. hop[p] = 1
      BY <2>2 DEF CreateMission, FreshLocals, RunSteps
    <3>2. QED
      BY <2>2, <3>1, CreateMaps
  <2>3. CASE Close(p)
    BY <1>4, <2>3
  <2>4. CASE ~ClearContext(p) /\ ~CreateMission(p) /\ ~Close(p)
    BY <1>5, <2>4, RunStepMoves, RunMaps
  <2>5. QED
    BY <2>1, <2>2, <2>3, <2>4
<1>6. CASE Crash
  <2>1. UNCHANGED dbVars /\ \A p \in Procs : pc'[p] \in {"boot", "idle", "gone"}
    BY <1>6 DEF Crash
  <2>2. QED
    BY <2>1, LeavingMaps DEF RunSteps
<1>7. CASE UNCHANGED vars
  BY <1>7, UnseenMaps DEF vars
<1>8. QED
  BY <1>1, <1>2, <1>3, <1>4, <1>5, <1>6, <1>7 DEF Next

\* Readers of the tables see a board that changes only as MissionBoard says,
\* whoever starts, resets, fails or dies (main.py 304-384, orchestrator.py 515-677).
THEOREM BoardIsKept == Spec => ImplementsBoard
<1>1. Init => Board!BoardInit
  <2>1. ASSUME Init PROVE Active = FALSE
    BY <2>1 DEF Init, Active, RunSteps
  <2>2. Init => Shown = "nothing" /\ Finished = {}
    BY DEF Init, Shown, Finished
  <2>3. QED
    BY <2>1, <2>2 DEF Board!BoardInit
<1>2. /\ TypeOK /\ FreshLocals /\ IInv
      /\ (TypeOK /\ FreshLocals /\ IInv)'
      /\ [Next]_vars
      => [Board!BoardNext]_Board!boardVars
  BY StepMaps
<1>3. QED
  BY <1>1, <1>2, Inductive, PTL DEF Spec, ImplementsBoard, Board!BoardSpec

-----------------------------------------------------------------------------
(* What keeping to MissionBoard is good for.                               *)

LEMMA BoardStarts == Board!BoardInit => Board!BoardInv
<1> SUFFICES ASSUME Board!BoardInit PROVE Board!BoardInv
  OBVIOUS
<1>1. Active \in BOOLEAN
  BY DEF Board!BoardInit
<1>2. 0 \in 0..NumHops /\ Finished = 1..0
  BY MissionAssumption DEF MissionAssumption, Board!BoardInit
<1> QED
  BY <1>1, <1>2 DEF Board!BoardInit, Board!BoardInv, Board!BoardTypeOK

LEMMA BoardGoesOn ==
  ASSUME Board!BoardInv, [Board!BoardNext]_(Board!boardVars)
  PROVE  Board!BoardInv'
<1> USE DEF Board!BoardInv, Board!BoardTypeOK
<1>1. CASE Board!Wipe
  BY <1>1, MissionAssumption DEF MissionAssumption, Board!Wipe
<1>2. CASE Board!Begin
  BY <1>2, MissionAssumption DEF MissionAssumption, Board!Begin
<1>3. CASE Board!Advance
  BY <1>3, MissionAssumption DEF MissionAssumption, Board!Advance
<1>4. CASE Board!Finish
  BY <1>4 DEF Board!Finish
<1>5. CASE Board!Leave
  BY <1>5 DEF Board!Leave
<1>6. CASE UNCHANGED Board!boardVars
  BY <1>6 DEF Board!boardVars
<1> QED
  BY <1>1, <1>2, <1>3, <1>4, <1>5, <1>6 DEF Board!BoardNext

\* A reader who polls the tables sees a run's hops in order, all of them when it
\* is completed, and nothing taken back but by a wipe between runs
\* (mission.py 80-128, main.py 304-340).
THEOREM ReadersSeeProgress == Spec => []Board!BoardInv /\ Board!NeverGoesBack
<1> DEFINE Onward == \/ Shown' = "nothing" /\ ~Active
                     \/ /\ Finished \subseteq Finished'
                        /\ Shown = "completed" => Shown' = "completed"
<1>1. ImplementsBoard => []Board!BoardInv
  BY BoardStarts, BoardGoesOn, PTL DEF ImplementsBoard, Board!BoardSpec
<1>2. ASSUME Board!BoardInv, Board!BoardNext PROVE Onward
  <2>1. CASE Board!Advance
    <3>1. PICK h \in 1..NumHops : Finished = 1..(h - 1) /\ Finished' = 1..h
      BY <2>1 DEF Board!Advance
    <3>2. 1..(h - 1) \subseteq 1..h
      BY MissionAssumption DEF MissionAssumption
    <3> QED
      BY <2>1, <3>1, <3>2 DEF Board!Advance
  <2>2. CASE Board!Wipe \/ Board!Begin \/ Board!Finish \/ Board!Leave
    BY <1>2, <2>2 DEF Board!BoardInv, Board!Wipe, Board!Begin, Board!Finish, Board!Leave
  <2> QED
    BY <1>2, <2>1, <2>2 DEF Board!BoardNext
<1>3. Board!BoardInv /\ [Board!BoardNext]_(Board!boardVars) => [Onward]_(Board!boardVars)
  BY <1>2
<1>4. ImplementsBoard => Board!NeverGoesBack
  BY <1>1, <1>3, PTL DEF ImplementsBoard, Board!BoardSpec, Board!NeverGoesBack
<1> QED
  BY BoardIsKept, <1>1, <1>4, PTL
=============================================================================
