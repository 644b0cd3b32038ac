------------------------- MODULE CommandTasks_proof -------------------------
(***************************************************************************)
(* Theorems about CommandTasks: the missions behind commands are those of  *)
(* MissionControl, and the tasks in front of them keep to TaskLifecycle.   *)
(***************************************************************************)
EXTENDS CommandTasks, MissionControl_proof

(* The missions.                                                           *)

LEMMA CommandStepIsMissionStep == [CommandNext]_allVars => [Next]_vars
<1> SUFFICES ASSUME CommandNext
             PROVE  [Next]_vars
  BY DEF allVars
<1>1. CASE \E r \in Requests \ StreamCommands : Arrive(r) /\ UNCHANGED commandVars
  BY <1>1 DEF Next
<1>2. CASE \E s \in StreamCommands : OpenStream(s) \/ Report(s) \/ ClientLeaves(s)
  <2>1. PICK s \in StreamCommands : Arrive(s) \/ UNCHANGED vars
    BY <1>2 DEF OpenStream, Report, SendSummary, Conclude, ClientLeaves
  <2>2. s \in Requests
    BY CommandAssumption DEF Commands, Requests
  <2> QED
    BY <2>1, <2>2 DEF Next
<1>3. CASE \E p \in Procs : Proceed(p) \/ (Fail(p) /\ UNCHANGED commandVars)
  BY <1>3 DEF Proceed, RunStepAndAnswer, Next
<1>4. CASE Decide
  BY <1>4 DEF Decide, Next
<1>5. CASE \E t \in Commands : CancelTask(t)
  BY <1>5 DEF CancelTask
<1>6. CASE Crash /\ UNCHANGED commandVars
  BY <1>6 DEF Next
<1> QED
  BY <1>1, <1>2, <1>3, <1>4, <1>5, <1>6 DEF CommandNext

\* Commands, their cancels and their clients change nothing about missions:
\* whatever holds of MissionControl holds behind this face (main.py 440-604).
THEOREM CommandsRunMissions == CommandSpec => Spec
<1>1. CommandInit => Init
  BY DEF CommandInit
<1> QED
  BY <1>1, CommandStepIsMissionStep, PTL DEF CommandSpec, Spec

-----------------------------------------------------------------------------
(* The queue, and what a step of a mission does to a request.              *)

\* One request goes on, to somewhere it has not been.
Moved(q) == \E l \in Locations \ {"idle"} : pc' = [pc EXCEPT ![q] = l]

\* Requests do not start again, and what has ended stays so.
PcKept ==
  \A r \in Requests :
    /\ pc[r] # "idle" => pc'[r] # "idle"
    /\ pc[r] \in Ended => pc'[r] \in {pc[r], "gone"}
    /\ pc[r] = "gone" => pc'[r] = "gone"

LEMMA MoveKeeps ==
  ASSUME TypeOK, NEW q \in Procs, Moved(q), pc[q] \notin Ended \cup {"gone"}
  PROVE  PcKept
BY DEF TypeOK, Moved, PcKept, Procs

LEMMA QueueKept ==
  ASSUME TypeOK, Queued, NEW q \in Procs, Moved(q), pc[q] # "queued", waiters' = waiters
  PROVE  Queued'
BY DEF TypeOK, Moved, Queued

\* Who comes goes in, or to the end of the queue.
LEMMA AcquireMoves ==
  ASSUME TypeOK, Queued, NEW q \in Procs, Acquire(q), pc[q] \in {"idle", "boot"}
  PROVE  Queued' /\ PcKept
<1>1. CASE waiters' = waiters /\ Enter(q)
  <2>1. Moved(q)
    BY <1>1 DEF Enter, Moved, Locations, Critical
  <2> QED
    BY <1>1, <2>1, QueueKept, MoveKeeps DEF Ended
<1>2. CASE waiters' = Append(waiters, q) /\ pc' = [pc EXCEPT ![q] = "queued"]
  <2>1. Moved(q)
    BY <1>2 DEF Moved, Locations
  <2>2. waiters \in Seq(Procs) /\ pc \in [Procs -> Locations]
    BY DEF TypeOK
  <2>3. /\ Len(waiters') = Len(waiters) + 1
        /\ waiters'[Len(waiters) + 1] = q
        /\ \A i \in 1..Len(waiters) : waiters'[i] = waiters[i] /\ waiters[i] \in Procs
    BY <1>2, <2>2
  <2>4. \A i \in 1..Len(waiters) : waiters[i] # q
    BY DEF Queued
  <2>5. Queued'
    <3> SUFFICES ASSUME NEW i \in 1..Len(waiters'), NEW j \in 1..Len(waiters')
                 PROVE  pc'[waiters'[i]] = "queued" /\ (waiters'[i] = waiters'[j] => i = j)
      BY DEF Queued
    <3>1. Len(waiters) \in Nat
      BY <2>2
    <3>2. i \in 1..Len(waiters) \/ i = Len(waiters) + 1
      BY <2>3, <3>1
    <3>3. j \in 1..Len(waiters) \/ j = Len(waiters) + 1
      BY <2>3, <3>1
    <3> QED
      BY <1>2, <2>2, <2>3, <2>4, <3>2, <3>3 DEF Queued
  <2> QED
    BY <2>1, <2>5, MoveKeeps DEF Ended
<1> QED
  BY <1>1, <1>2 DEF Acquire

\* The first waiter was waiting, and is not in the queue any more.
LEMMA GrantMoves ==
  ASSUME TypeOK, Queued, NEW q \in Procs, Grant(q)
  PROVE  Queued' /\ PcKept
<1>1. waiters \in Seq(Procs) /\ waiters # <<>> /\ pc \in [Procs -> Locations]
  BY DEF TypeOK, Grant
<1>2. /\ Len(waiters) \in Nat /\ Len(waiters) >= 1
      /\ waiters[1] = q
      /\ Len(waiters') = Len(waiters) - 1
      /\ \A i \in 1..(Len(waiters) - 1) : waiters'[i] = waiters[i + 1]
      /\ \A i \in 1..Len(waiters) : waiters[i] \in Procs
  BY <1>1 DEF Grant
<1>3. pc[q] = "queued"
  BY <1>2 DEF Queued
<1>4. Moved(q)
  BY DEF Grant, Enter, Moved, Locations, Critical
<1>5. Queued'
  <2> SUFFICES ASSUME NEW i \in 1..Len(waiters'), NEW j \in 1..Len(waiters')
               PROVE  pc'[waiters'[i]] = "queued" /\ (waiters'[i] = waiters'[j] => i = j)
    BY DEF Queued
  <2>1. /\ waiters'[i] = waiters[i + 1] /\ i + 1 \in 1..Len(waiters) /\ i + 1 # 1
        /\ waiters'[j] = waiters[j + 1] /\ j + 1 \in 1..Len(waiters)
        /\ i + 1 = j + 1 => i = j
        /\ 1 \in 1..Len(waiters)
    BY <1>2
  <2>2. waiters'[i] # q /\ pc[waiters'[i]] = "queued"
    BY <1>2, <2>1 DEF Queued
  <2>3. pc'[waiters'[i]] = "queued"
    BY <1>1, <1>2, <1>4, <2>1, <2>2 DEF Moved
  <2> QED
    BY <2>1, <2>3 DEF Queued
<1> QED
  BY <1>3, <1>4, <1>5, MoveKeeps DEF Ended

\* Who is inside goes on, or out.
LEMMA InsideMoves ==
  ASSUME TypeOK, Queued, NEW q \in Procs, RunStep(q) \/ Fail(q)
  PROVE  Queued' /\ PcKept
<1>1. pc[q] \in Critical /\ waiters' = waiters
  BY DEF RunStep, Fail, ClearContext, CreateMission, UpdatePhase, CallStream, CallSend,
         ConsumeEvent, RecordMessage, PersistTask, PersistArtifact, CompleteMission, Close,
         Release, lockVars, Critical, RunSteps
<1>2. Moved(q)
  BY DEF RunStep, Fail, ClearContext, CreateMission, UpdatePhase, CallStream, CallSend,
         ConsumeEvent, RecordMessage, PersistTask, PersistArtifact, CompleteMission, Close,
         Release, NextHop, Moved, Locations, Critical, RunSteps, Ended
<1>3. pc[q] \notin Ended \cup {"gone", "queued"}
  BY <1>1 DEF Critical, RunSteps, Ended
<1> QED
  BY <1>1, <1>2, <1>3, QueueKept, MoveKeeps

LEMMA CrashMoves ==
  ASSUME TypeOK, Crash
  PROVE  Queued' /\ PcKept
<1>1. Queued'
  BY DEF Crash, Queued
<1>2. PcKept
  BY MissionAssumption DEF Crash, PcKept, TypeOK, Procs, Requests, Ended
<1> QED
  BY <1>1, <1>2

\* The automatic run comes, or does not.
LEMMA DecideMoves ==
  ASSUME TypeOK, Queued, AutostartReady \/ AutostartGiveUp
  PROVE  Queued' /\ PcKept
<1>1. Autostart \in Procs /\ pc[Autostart] = "boot"
  BY DEF Procs, AutostartReady, AutostartGiveUp
<1>2. CASE Acquire(Autostart)
  BY <1>1, <1>2, AcquireMoves
<1>3. CASE pc' = [pc EXCEPT ![Autostart] = "skipped"] /\ UNCHANGED lockVars
  <2>1. Moved(Autostart)
    BY <1>3 DEF Moved, Locations
  <2> QED
    BY <1>1, <1>3, <2>1, QueueKept, MoveKeeps DEF lockVars, Ended
<1> QED
  BY <1>2, <1>3 DEF AutostartReady, AutostartGiveUp

LEMMA StepMoves ==
  ASSUME TypeOK, Queued, [Next]_vars
  PROVE  Queued' /\ PcKept
<1>1. CASE \E r \in Requests : Arrive(r)
  BY <1>1, AcquireMoves DEF Arrive, Procs
<1>2. CASE AutostartReady \/ AutostartGiveUp
  BY <1>2, DecideMoves
<1>3. CASE \E p \in Procs : Grant(p) \/ RunStep(p) \/ Fail(p)
  BY <1>3, GrantMoves, InsideMoves
<1>4. CASE Crash
  BY <1>4, CrashMoves
<1>5. CASE UNCHANGED vars
  BY <1>5 DEF vars, lockVars, Queued, PcKept
<1> QED
  BY <1>1, <1>2, <1>3, <1>4, <1>5 DEF Next

-----------------------------------------------------------------------------
(* What EveryRequestAnswered rests on.                                     *)

\* Who goes on does not wait, and nobody leaves the queue by it.
LEMMA GoesOn ==
  ASSUME TypeOK, InQueue, NEW q \in Procs, NEW l \in Locations \ {"queued"},
         pc' = [pc EXCEPT ![q] = l], waiters' = waiters
  PROVE  InQueue'
BY DEF TypeOK, InQueue

LEMMA JoinsQueue ==
  ASSUME TypeOK, InQueue, NEW q \in Procs, Acquire(q)
  PROVE  InQueue'
<1>1. CASE waiters' = waiters /\ Enter(q)
  <2>1. \E l \in Locations \ {"queued"} : pc' = [pc EXCEPT ![q] = l]
    BY <1>1 DEF Enter, Locations, Critical
  <2> QED
    BY <1>1, <2>1, GoesOn
<1>2. CASE waiters' = Append(waiters, q) /\ pc' = [pc EXCEPT ![q] = "queued"]
  <2>1. waiters \in Seq(Procs)
    BY DEF TypeOK
  <2>2. /\ Len(waiters) \in Nat /\ Len(waiters') = Len(waiters) + 1
        /\ waiters'[Len(waiters) + 1] = q
        /\ \A i \in 1..Len(waiters) : waiters'[i] = waiters[i]
    BY <1>2, <2>1
  <2>3. Len(waiters) + 1 \in 1..Len(waiters') /\ 1..Len(waiters) \subseteq 1..Len(waiters')
    BY <2>2
  <2>4. \A p \in Procs : p # q => pc'[p] = pc[p]
    BY <1>2 DEF TypeOK
  <2> QED
    BY <2>2, <2>3, <2>4 DEF InQueue
<1> QED
  BY <1>1, <1>2 DEF Acquire

LEMMA LeavesQueue ==
  ASSUME TypeOK, InQueue, NEW q \in Procs, Grant(q)
  PROVE  InQueue'
<1>1. waiters \in Seq(Procs) /\ waiters # <<>>
  BY DEF TypeOK, Grant
<1>2. /\ Len(waiters) \in Nat /\ waiters[1] = q
      /\ Len(waiters') = Len(waiters) - 1
      /\ \A i \in 1..(Len(waiters) - 1) : waiters'[i] = waiters[i + 1]
  BY <1>1 DEF Grant
<1>3. pc'[q] # "queued" /\ \A p \in Procs : p # q => pc'[p] = pc[p]
  BY DEF Grant, Enter, TypeOK
<1> SUFFICES ASSUME NEW p \in Procs, pc'[p] = "queued"
             PROVE  \E i \in 1..Len(waiters') : waiters'[i] = p
  BY DEF InQueue
<1>4. p # q /\ pc[p] = "queued"
  BY <1>3
<1>5. PICK i \in 1..Len(waiters) : waiters[i] = p
  BY <1>4 DEF InQueue
<1>6. i # 1
  BY <1>2, <1>4, <1>5
<1>7. i - 1 \in 1..Len(waiters') /\ waiters'[i - 1] = waiters[i]
  BY <1>2, <1>6
<1> QED
  BY <1>5, <1>7

LEMMA StepInQueue ==
  ASSUME TypeOK, InQueue, [Next]_vars
  PROVE  InQueue'
<1>1. CASE \E r \in Requests : Arrive(r)
  BY <1>1, JoinsQueue DEF Arrive, Procs
<1>2. CASE AutostartReady \/ AutostartGiveUp
  <2>1. \/ Acquire(Autostart)
        \/ pc' = [pc EXCEPT ![Autostart] = "skipped"] /\ waiters' = waiters
    BY <1>2 DEF AutostartReady, AutostartGiveUp, lockVars
  <2>2. Autostart \in Procs /\ "skipped" \in Locations \ {"queued"}
    BY DEF Procs, Locations
  <2> QED
    BY <2>1, <2>2, JoinsQueue, GoesOn
<1>3. CASE \E p \in Procs : Grant(p)
  BY <1>3, LeavesQueue
<1>4. CASE \E p \in Procs : RunStep(p) \/ Fail(p)
  <2>1. PICK p \in Procs : RunStep(p) \/ Fail(p)
    BY <1>4
  <2>2. waiters' = waiters
    BY <2>1 DEF RunStep, Fail, ClearContext, CreateMission, UpdatePhase, CallStream, CallSend,
       ConsumeEvent, RecordMessage, PersistTask, PersistArtifact, CompleteMission, Close,
       Release, lockVars
  <2>3. \E l \in Locations \ {"queued"} : pc' = [pc EXCEPT ![p] = l]
    BY <2>1 DEF RunStep, Fail, ClearContext, CreateMission, UpdatePhase, CallStream, CallSend,
       ConsumeEvent, RecordMessage, PersistTask, PersistArtifact, CompleteMission, Close,
       Release, NextHop, Locations, Critical, RunSteps, Ended
  <2> QED
    BY <2>2, <2>3, GoesOn
<1>5. CASE Crash
  BY <1>5 DEF Crash, InQueue
<1>6. CASE UNCHANGED vars
  BY <1>6 DEF vars, lockVars, InQueue
<1> QED
  BY <1>1, <1>2, <1>3, <1>4, <1>5, <1>6 DEF Next

\* The lock is never left behind, whoever fails or is interrupted, and nobody who
\* waits for it is forgotten (main.py 332, 378: async with).
THEOREM LockComesRound == Spec => []TurnComes
<1>1. Init => Queued /\ InQueue
  BY DEF Init, Queued, InQueue
<1>2. Spec => [](Queued /\ InQueue)
  BY <1>1, StepMoves, StepInQueue, TypeCorrect, PTL DEF Spec
<1>3. TypeOK /\ LockHeld /\ Queued /\ InQueue => TurnComes
  <2> SUFFICES ASSUME TypeOK, LockHeld, Queued, InQueue PROVE TurnComes
    OBVIOUS
  <2>1. owner \in Procs => pc[owner] \in Critical
    BY DEF LockHeld
  <2>2. owner \in Procs \/ owner = NoOne
    BY DEF TypeOK
  <2>3. waiters # <<>> => pc[Head(waiters)] = "queued"
    <3> SUFFICES ASSUME waiters # <<>> PROVE pc[waiters[1]] = "queued"
      OBVIOUS
    <3>1. 1 \in 1..Len(waiters)
      BY DEF TypeOK
    <3> QED
      BY <3>1 DEF Queued
  <2> QED
    BY <2>1, <2>2, <2>3 DEF TurnComes
<1>4. TypeOK /\ FreshLocals /\ IInv => LockHeld
  BY DEF IInv
<1> QED
  BY <1>2, <1>3, <1>4, Inductive, PTL

-----------------------------------------------------------------------------
(* The tasks.                                                              *)

LEMMA CommandInitInv == CommandInit => CommandInv
BY DEF CommandInit, Init, CommandInv, CommandTypeOK, Queued, FacesFollow, StreamFace, SendFace,
       Commands

\* A mission that goes on leaves the tasks true.
LEMMA FacesSame ==
  ASSUME CommandInv, PcKept, UNCHANGED commandVars
  PROVE  CommandTypeOK' /\ FacesFollow'
<1>1. Commands \subseteq Requests
  BY CommandAssumption DEF Requests
<1>2. face' = face /\ summary' = summary /\ gen' = gen
  BY DEF commandVars
<1>3. CommandTypeOK'
  BY <1>2 DEF CommandInv, CommandTypeOK
<1>4. ASSUME NEW s \in StreamCommands PROVE StreamFace(s)'
  <2>1. StreamFace(s) /\ s \in Requests
    BY <1>1 DEF CommandInv, FacesFollow, Commands
  <2> QED
    BY <1>2, <2>1 DEF PcKept, StreamFace, Ended
<1>5. ASSUME NEW t \in SendCommands PROVE SendFace(t)'
  <2>1. SendFace(t) /\ t \in Requests
    BY <1>1 DEF CommandInv, FacesFollow, Commands
  <2> QED
    BY <1>2, <2>1 DEF PcKept, SendFace, Ended
<1> QED
  BY <1>3, <1>4, <1>5 DEF FacesFollow

LEMMA OpenKeeps ==
  ASSUME CommandInv, PcKept, NEW s \in StreamCommands, OpenStream(s), pc'[s] # "idle"
  PROVE  CommandTypeOK' /\ FacesFollow'
<1>1. Commands \subseteq Requests /\ s \notin SendCommands
  BY CommandAssumption DEF Requests
<1>2. ~summary[s] /\ s \in Commands
  BY DEF CommandInv, FacesFollow, StreamFace, OpenStream, Arrive, Commands
<1>3. CommandTypeOK'
  BY DEF CommandInv, CommandTypeOK, OpenStream, Commands
<1>4. \A u \in StreamCommands : StreamFace(u)'
  BY <1>1, <1>2 DEF CommandInv, CommandTypeOK, OpenStream, PcKept, FacesFollow, StreamFace,
                    Commands
<1>5. ASSUME NEW t \in SendCommands PROVE SendFace(t)'
  <2>1. SendFace(t) /\ t \in Requests /\ face'[t] = face[t]
    BY <1>1 DEF CommandInv, CommandTypeOK, OpenStream, FacesFollow, Commands
  <2> QED
    BY <2>1 DEF PcKept, SendFace, Ended
<1> QED
  BY <1>3, <1>4, <1>5 DEF FacesFollow

\* What a stream reports, and a client that leaves, do nothing to missions.
LEMMA ReportKeeps ==
  ASSUME CommandInv, NEW s \in StreamCommands, Report(s) \/ ClientLeaves(s)
  PROVE  CommandInv'
<1>1. UNCHANGED <<pc, waiters>>
  BY DEF Report, SendSummary, Conclude, ClientLeaves, vars, lockVars
<1>2. s \in Commands /\ s \notin SendCommands
  BY CommandAssumption DEF Commands
<1>3. CommandTypeOK'
  BY <1>2 DEF CommandInv, CommandTypeOK, Report, SendSummary, Conclude, PutCompleted, ClientLeaves
<1>4. Queued'
  BY <1>1 DEF CommandInv, Queued
<1>5. \A u \in StreamCommands : StreamFace(u)'
  BY <1>1, <1>2 DEF CommandInv, CommandTypeOK, Report, SendSummary, Conclude, PutCompleted,
                    ClientLeaves, FacesFollow, StreamFace, Commands, Alive
<1>6. \A t \in SendCommands : SendFace(t)'
  BY <1>1, <1>2 DEF CommandInv, CommandTypeOK, Report, SendSummary, Conclude, PutCompleted,
                    ClientLeaves, FacesFollow, SendFace, Commands
<1> QED
  BY <1>3, <1>4, <1>5, <1>6 DEF CommandInv, FacesFollow

\* A send is answered when its run has succeeded.
LEMMA AnswerKeeps ==
  ASSUME CommandInv, PcKept, NEW p \in SendCommands, PutCompleted(p), UNCHANGED gen, pc'[p] = "done"
  PROVE  CommandTypeOK' /\ FacesFollow'
<1>1. Commands \subseteq Requests /\ p \notin StreamCommands /\ p \in Commands
  BY CommandAssumption DEF Requests, Commands
<1>2. CommandTypeOK'
  BY <1>1 DEF CommandInv, CommandTypeOK, PutCompleted
<1>3. ASSUME NEW s \in StreamCommands PROVE StreamFace(s)'
  <2>1. /\ StreamFace(s) /\ s \in Requests
        /\ face'[s] = face[s] /\ summary'[s] = summary[s] /\ gen'[s] = gen[s]
    BY <1>1 DEF CommandInv, CommandTypeOK, PutCompleted, FacesFollow, Commands
  <2> QED
    BY <2>1 DEF PcKept, StreamFace, Ended
<1>4. ASSUME NEW t \in SendCommands PROVE SendFace(t)'
  <2>1. CASE t = p
    BY <2>1 DEF SendFace
  <2>2. CASE t # p
    <3>1. SendFace(t) /\ t \in Requests /\ face'[t] = face[t]
      BY <1>1, <2>2 DEF CommandInv, CommandTypeOK, PutCompleted, FacesFollow, Commands
    <3> QED
      BY <3>1 DEF PcKept, SendFace, Ended
  <2> QED
    BY <2>1, <2>2
<1> QED
  BY <1>2, <1>3, <1>4 DEF FacesFollow

LEMMA CancelKeeps ==
  ASSUME CommandInv, NEW t \in Commands, CancelTask(t)
  PROVE  CommandInv'
<1>1. UNCHANGED <<pc, waiters, summary, gen>> /\ face' = [face EXCEPT ![t] = "CANCELED"]
        /\ face[t] # "none"
  BY DEF CancelTask, vars, lockVars
<1>2. CommandTypeOK' /\ Queued'
  BY <1>1 DEF CommandInv, CommandTypeOK, Queued
<1>3. FacesFollow'
  BY <1>1 DEF CommandInv, CommandTypeOK, FacesFollow, StreamFace, SendFace, Commands
<1> QED
  BY <1>2, <1>3 DEF CommandInv

LEMMA CommandStepKeeps ==
  ASSUME TypeOK, CommandInv, [CommandNext]_allVars
  PROVE  CommandInv'
<1>1. Queued' /\ PcKept
  BY CommandStepIsMissionStep, StepMoves DEF CommandInv
<1>2. CASE UNCHANGED commandVars
  BY <1>1, <1>2, FacesSame DEF CommandInv
<1>3. CASE \E s \in StreamCommands : OpenStream(s)
  <2>1. PICK s \in StreamCommands : OpenStream(s)
    BY <1>3
  <2>2. s \in Procs
    BY CommandAssumption DEF Commands, Procs, Requests
  <2>3. pc'[s] # "idle"
    BY <2>1, <2>2 DEF OpenStream, Arrive, Acquire, Enter, TypeOK
  <2> QED
    BY <1>1, <2>1, <2>3, OpenKeeps DEF CommandInv
<1>4. CASE \E s \in StreamCommands : Report(s) \/ ClientLeaves(s)
  BY <1>4, ReportKeeps
<1>5. CASE \E p \in SendCommands : RunStep(p) /\ pc[p] = "close" /\ PutCompleted(p) /\ UNCHANGED gen
  <2>1. PICK p \in SendCommands : RunStep(p) /\ pc[p] = "close" /\ PutCompleted(p) /\ UNCHANGED gen
    BY <1>5
  <2>2. p \in Procs
    BY CommandAssumption DEF Commands, Procs, Requests
  <2>3. Close(p)
    BY <2>1 DEF RunStep, ClearContext, CreateMission, UpdatePhase, CallStream, CallSend,
                ConsumeEvent, RecordMessage, PersistTask, PersistArtifact, CompleteMission
  <2>4. pc'[p] = "done"
    BY <2>2, <2>3 DEF Close, Release, TypeOK
  <2> QED
    BY <1>1, <2>1, <2>4, AnswerKeeps DEF CommandInv
<1>6. CASE \E t \in Commands : CancelTask(t)
  BY <1>6, CancelKeeps
<1> QED
  BY <1>2, <1>3, <1>4, <1>5, <1>6
     DEF CommandNext, Proceed, RunStepAndAnswer, Decide, allVars

\* The inductive invariant: the lock's queue, and what tasks show of runs.
THEOREM CommandInvariance == CommandSpec => [](TypeOK /\ CommandInv)
<1>1. CommandSpec => []TypeOK
  BY CommandsRunMissions, TypeCorrect, PTL
<1>2. TypeOK /\ CommandInv /\ [CommandNext]_allVars => CommandInv'
  BY CommandStepKeeps
<1> QED
  BY <1>1, <1>2, CommandInitInv, PTL DEF CommandSpec

\* The tasks of commands have their types.
THEOREM CommandTypes == CommandSpec => []CommandTypeOK
<1>1. CommandInv => CommandTypeOK
  BY DEF CommandInv
<1> QED
  BY <1>1, CommandInvariance, PTL

\* A task is completed by the end of its own run (main.py 463-465, 521-522).
THEOREM NoEarlyCompletion == CommandSpec => []CompletedAfterOwnRun
<1>1. CommandInv => CompletedAfterOwnRun
  <2> SUFFICES ASSUME CommandInv, NEW t \in Commands, Alive(t)
               PROVE  /\ face[t] = "COMPLETED" => pc[t] \in Ended
                      /\ t \in StreamCommands /\ gen[t] \in {"summarized", "ended"} =>
                           pc[t] \in Ended
                      /\ t \in SendCommands /\ face[t] = "COMPLETED" => pc[t] = "done"
    BY DEF CompletedAfterOwnRun
  <2>1. CASE t \in StreamCommands
    <3>1. t \notin SendCommands
      BY <2>1, CommandAssumption
    <3> QED
      BY <2>1, <3>1 DEF CommandInv, FacesFollow, StreamFace, Alive
  <2>2. CASE t \in SendCommands
    <3>1. t \notin StreamCommands
      BY <2>2, CommandAssumption
    <3> QED
      BY <2>2, <3>1 DEF CommandInv, FacesFollow, SendFace, Alive, Ended
  <2> QED
    BY <2>1, <2>2 DEF Commands
<1> QED
  BY <1>1, CommandInvariance, PTL

-----------------------------------------------------------------------------
(* The life of a task.                                                     *)

LEMMA FacesInit == CommandInit => Faces!LifecycleInit
BY DEF CommandInit, Faces!LifecycleInit, AtWork, Commands

\* What leaves the tasks alone is not seen.
LEMMA UnseenIsStutter ==
  ASSUME UNCHANGED commandVars
  PROVE  UNCHANGED Faces!lifecycleVars
BY DEF commandVars, Faces!lifecycleVars, AtWork

LEMMA StreamMaps ==
  ASSUME CommandInv, NEW s \in StreamCommands, OpenStream(s) \/ Report(s) \/ ClientLeaves(s)
  PROVE  [Faces!LifecycleNext]_(Faces!lifecycleVars)
<1>1. s \in Commands /\ CommandTypeOK /\ StreamFace(s)
  BY DEF Commands, CommandInv, FacesFollow
<1>2. CASE OpenStream(s)
  <2>1. face[s] = "none"
    BY <1>1, <1>2 DEF StreamFace, OpenStream, Arrive
  <2>2. AtWork' = [AtWork EXCEPT ![s] = TRUE]
    BY <1>1, <1>2 DEF OpenStream, AtWork, CommandTypeOK
  <2>3. Faces!Submit(s)
    BY <1>2, <2>1, <2>2 DEF OpenStream, Faces!Submit
  <2> QED
    BY <1>1, <2>3 DEF Faces!LifecycleNext
<1>3. CASE SendSummary(s)
  <2>1. AtWork' = AtWork
    BY <1>1, <1>3 DEF SendSummary, AtWork, CommandTypeOK
  <2> QED
    BY <1>3, <2>1 DEF SendSummary, Faces!lifecycleVars
<1>4. CASE Conclude(s) \/ ClientLeaves(s)
  <2>1. gen[s] \in {"open", "summarized"} /\ gen'[s] \in {"ended", "left"}
          /\ gen' = [gen EXCEPT ![s] = gen'[s]]
    BY <1>1, <1>4 DEF Conclude, ClientLeaves, CommandTypeOK
  <2>2. AtWork[s] /\ ~summary[s] /\ AtWork' = [AtWork EXCEPT ![s] = FALSE]
    BY <1>1, <2>1 DEF AtWork, StreamFace, CommandTypeOK
  <2>3. Faces!Conclude(s) \/ Faces!Abandon(s)
    BY <1>4, <2>2 DEF Conclude, ClientLeaves, PutCompleted, Faces!Conclude, Faces!Abandon
  <2> QED
    BY <1>1, <2>3 DEF Faces!LifecycleNext
<1> QED
  BY <1>2, <1>3, <1>4 DEF Report

LEMMA AnswerMaps ==
  ASSUME CommandInv, NEW p \in SendCommands, pc[p] = "close", PutCompleted(p), UNCHANGED gen
  PROVE  [Faces!LifecycleNext]_(Faces!lifecycleVars)
<1>1. p \in Commands /\ face[p] = "none"
  BY DEF Commands, CommandInv, FacesFollow, SendFace
<1>2. Faces!Serve(p)
  BY <1>1 DEF PutCompleted, AtWork, Faces!Serve
<1> QED
  BY <1>1, <1>2 DEF Faces!LifecycleNext

LEMMA CancelMaps ==
  ASSUME NEW t \in Commands, CancelTask(t)
  PROVE  [Faces!LifecycleNext]_(Faces!lifecycleVars)
<1>1. Faces!Cancel(t)
  BY DEF CancelTask, AtWork, Faces!Cancel
<1> QED
  BY <1>1 DEF Faces!LifecycleNext

LEMMA CommandStepMaps ==
  ASSUME CommandInv, [CommandNext]_allVars
  PROVE  [Faces!LifecycleNext]_(Faces!lifecycleVars)
<1>1. CASE UNCHANGED commandVars
  BY <1>1, UnseenIsStutter
<1>2. CASE \E s \in StreamCommands : OpenStream(s) \/ Report(s) \/ ClientLeaves(s)
  BY <1>2, StreamMaps
<1>3. CASE \E p \in SendCommands : pc[p] = "close" /\ PutCompleted(p) /\ UNCHANGED gen
  BY <1>3, AnswerMaps
<1>4. CASE \E t \in Commands : CancelTask(t)
  BY <1>4, CancelMaps
<1> QED
  BY <1>1, <1>2, <1>3, <1>4 DEF CommandNext, Proceed, RunStepAndAnswer, Decide, allVars

\* The command agent's tasks keep to TaskLifecycle, as those of the agents it
\* calls (main.py 434, 488-565).
THEOREM CommandTasksKeepToLifecycle == CommandSpec => CommandKeepsLifecycle
<1>1. CommandSpec => []CommandInv
  BY CommandInvariance, PTL
<1>2. CommandInv /\ [CommandNext]_allVars => [Faces!LifecycleNext]_(Faces!lifecycleVars)
  BY CommandStepMaps
<1> QED
  BY <1>1, <1>2, FacesInit, PTL
     DEF CommandSpec, CommandKeepsLifecycle, Faces!LifecycleSpec

-----------------------------------------------------------------------------
(* What keeping to TaskLifecycle is good for.                              *)

Kept == INSTANCE TaskLifecycle_proof WITH
  Tasks  <- Commands,
  state  <- face,
  result <- summary,
  open   <- AtWork

LEMMA LifecycleIsKept == CommandSpec => Kept!LifecycleSpec
<1>1. Faces!LifecycleInit => Kept!LifecycleInit
  BY DEF Faces!LifecycleInit, Kept!LifecycleInit
<1>2. [Faces!LifecycleNext]_(Faces!lifecycleVars) => [Kept!LifecycleNext]_(Kept!lifecycleVars)
  BY DEF Faces!LifecycleNext, Kept!LifecycleNext, Faces!lifecycleVars, Kept!lifecycleVars,
         Faces!Submit, Faces!Work, Faces!Attach, Faces!Deliver, Faces!Complete,
         Faces!Conclude, Faces!Serve, Faces!Abandon, Faces!Cancel, Kept!Submit,
         Kept!Work, Kept!Attach, Kept!Deliver, Kept!Complete, Kept!Conclude,
         Kept!Serve, Kept!Abandon, Kept!Cancel
<1> QED
  BY CommandTasksKeepToLifecycle, <1>1, <1>2, PTL
  DEF CommandKeepsLifecycle, Faces!LifecycleSpec, Kept!LifecycleSpec

\* A completed command has its summary, which stays, and a cancel that comes after
\* its generator has ended is final (main.py 482-565, 729-755).
THEOREM SummariesAndLateCancelsStay == CommandSpec => []Faces!LifecycleInv /\ Faces!NothingTakenBack
<1>1. Kept!LifecycleInv => Faces!LifecycleInv
  BY DEF Kept!LifecycleInv, Faces!LifecycleInv, Kept!LifecycleTypeOK, Faces!LifecycleTypeOK
<1>2. Kept!NothingTakenBack => Faces!NothingTakenBack
  BY DEF Kept!NothingTakenBack, Faces!NothingTakenBack, Kept!lifecycleVars, Faces!lifecycleVars
<1> QED
  BY LifecycleIsKept, Kept!LifecycleInvariance, Kept!NothingIsTakenBack, <1>1, <1>2, PTL
=============================================================================
