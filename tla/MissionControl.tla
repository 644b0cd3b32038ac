--------------------------- MODULE MissionControl ---------------------------
(***************************************************************************)
(* The command agent's mission control: src/python/command-agent/app/      *)
(* main.py (who may run or clear a mission, under _mission_lock),          *)
(* orchestrator.py (the five hops of one run) and mission.py (the rows the *)
(* run commits to SQLite).                                                 *)
(*                                                                         *)
(* Everything runs on one asyncio event loop, so a step is what happens    *)
(* from one await to the next.  A commit is one step: readers of the       *)
(* database see all of it or nothing.  The rows a run writes are tagged    *)
(* with the run, which the code does not do (all rows carry the same       *)
(* contextId): the tag is what the properties need to tell runs apart.     *)
(*                                                                         *)
(* The tables kept are missions, tasks, artifacts and messages.  The rows  *)
(* of task_status_updates, transmissions and audit_logs are append-only    *)
(* narration written beside them and are left out.                         *)
(***************************************************************************)
EXTENDS Naturals, Sequences, AgentAnswers

CONSTANTS
  Starts,      \* POST /mission:start requests, and the start_mission
               \* commands of message:send and message:stream
  Resets,      \* POST /mission:reset requests
  Autostart,   \* the background task created at startup
  NoOne,       \* nobody holds the lock
  NumHops,     \* hops of one run (5 in the code)
  StreamHops,  \* the hops called with message:stream (the first and the last)
  GoHops,      \* the hops served by a Go agent, whose cancel handler
               \* can overtake the commit of the result
  MaxLives     \* bound: how many times the process is started

Requests == Starts \cup Resets
Procs    == Requests \cup {Autostart}
Hops     == 1..NumHops

ASSUME MissionAssumption ==
  /\ NumHops \in Nat \ {0}
  /\ MaxLives \in Nat \ {0}
  /\ StreamHops \subseteq 1..NumHops
  /\ GoHops \subseteq 1..NumHops
  /\ Starts \cap Resets = {}
  /\ Autostart \notin Starts \cup Resets
  /\ NoOne \notin Starts \cup Resets \cup {Autostart}

VARIABLES
  pc,             \* where each request, and the background task, stands
  owner,          \* who holds _mission_lock
  waiters,        \* the lock's queue, first come first served
  autostartDone,  \* _autostart_done
  life,           \* which start of the process this is
  hop,            \* local to a run: the hop it is at
  events,         \* local to a run: stream events not yet persisted
  remote,         \* local to a run: the agent's task, as GET /tasks/{id} shows it
  missions,       \* rows of missions
  tasks,          \* rows of tasks
  artifacts,      \* rows of artifacts
  messages        \* rows of messages

localVars == <<hop, events, remote>>
lockVars  == <<owner, waiters, autostartDone>>
dbVars    == <<missions, tasks, artifacts, messages>>
vars      == <<pc, lockVars, life, localVars, dbVars>>

-----------------------------------------------------------------------------
(* Values.                                                                 *)

\* Steps of a run, in order; "clear" belongs to a reset as well.
RunSteps  == {"update_phase", "call", "consume", "record",
              "persist", "archive", "complete", "close"}
Critical  == RunSteps \cup {"clear", "create"}
Ended     == {"done", "failed"}
Locations == Critical \cup Ended \cup {"idle", "boot", "queued", "skipped", "gone"}

RunIds == Procs \X (1..MaxLives)
Run(p) == <<p, life>>

\* phase is 0 when the row is created, h while hop h runs, NumHops + 1 at the end.
MissionRows == [run : RunIds, status : {"running", "completed"}, phase : 0..(NumHops + 1)]
TaskRows    == [run : RunIds, hop : Hops, state : TaskStates, ended : BOOLEAN]
HopRows     == [run : RunIds, hop : Hops]

TypeOK ==
  /\ pc \in [Procs -> Locations]
  /\ owner \in Procs \cup {NoOne}
  /\ waiters \in Seq(Procs)
  /\ autostartDone \in BOOLEAN
  /\ life \in 1..MaxLives
  /\ hop \in [Procs -> Hops]
  /\ events \in [Procs -> Seq(EventKinds)]
  /\ remote \in [Procs -> RemoteTasks]
  /\ missions \subseteq MissionRows
  /\ tasks \subseteq TaskRows
  /\ artifacts \subseteq HopRows
  /\ messages \subseteq HopRows

Init ==
  /\ pc = [p \in Procs |-> IF p = Autostart THEN "boot" ELSE "idle"]
  /\ owner = NoOne
  /\ waiters = <<>>
  /\ autostartDone = FALSE
  /\ life = 1
  /\ hop = [p \in Procs |-> 1]
  /\ events = [p \in Procs |-> <<>>]
  /\ remote = [p \in Procs |-> Completed]
  /\ missions = {}
  /\ tasks = {}
  /\ artifacts = {}
  /\ messages = {}

-----------------------------------------------------------------------------
(* The lock.  asyncio.Lock.acquire takes a free lock only when nobody is   *)
(* queued: between a release and the moment the first waiter resumes, the  *)
(* lock is free and the newcomer still goes to the end of the queue.       *)

\* Wrong on purpose (AutostartYields): the flag is not looked at under the lock.
EnterUnchecked(p) ==
  /\ pc' = [pc EXCEPT ![p] = "clear"]
  /\ owner' = p
  /\ autostartDone' = TRUE

\* What p does as soon as it holds the lock.  The background task looks at
\* the flag again here, and leaves at once when an explicit request was served.
Enter(p) ==
  IF p = Autostart /\ autostartDone
  THEN /\ pc' = [pc EXCEPT ![p] = "skipped"]
       /\ UNCHANGED <<owner, autostartDone>>
  ELSE /\ pc' = [pc EXCEPT ![p] = "clear"]
       /\ owner' = p
       /\ autostartDone' = TRUE

\* Wrong on purpose (RunUndisturbed): the lock is taken whoever holds it.
AcquireHeld(p) ==
  /\ Enter(p)
  /\ UNCHANGED waiters

\* async with _mission_lock
Acquire(p) ==
  \/ /\ owner = NoOne
     /\ waiters = <<>>
     /\ Enter(p)
     /\ UNCHANGED waiters
  \/ /\ owner # NoOne \/ waiters # <<>>
     /\ waiters' = Append(waiters, p)
     /\ pc' = [pc EXCEPT ![p] = "queued"]
     /\ UNCHANGED <<owner, autostartDone>>

\* The first waiter resumes.
Grant(p) ==
  /\ owner = NoOne
  /\ waiters # <<>>
  /\ Head(waiters) = p
  /\ waiters' = Tail(waiters)
  /\ Enter(p)
  /\ UNCHANGED <<life, localVars, dbVars>>

\* Wrong on purpose (EveryRequestAnswered): an exception leaves the lock held.
ReleaseOnSuccessOnly(p, how) ==
  /\ owner' = IF how = "failed" THEN owner ELSE NoOne
  /\ pc' = [pc EXCEPT ![p] = how]
  /\ hop' = [hop EXCEPT ![p] = 1]
  /\ events' = [events EXCEPT ![p] = <<>>]
  /\ remote' = [remote EXCEPT ![p] = Completed]
  /\ UNCHANGED <<waiters, autostartDone>>

\* Leaving the block, with a result or with an exception: the locals are gone.
Release(p, how) ==
  /\ owner' = NoOne
  /\ pc' = [pc EXCEPT ![p] = how]
  /\ hop' = [hop EXCEPT ![p] = 1]
  /\ events' = [events EXCEPT ![p] = <<>>]
  /\ remote' = [remote EXCEPT ![p] = Completed]
  /\ UNCHANGED <<waiters, autostartDone>>

\* Wrong on purpose (OneRunOnRecord): a reset does not take the lock.
ArriveResetUnlocked(r) ==
  /\ pc[r] = "idle"
  /\ IF r \in Resets
     THEN pc' = [pc EXCEPT ![r] = "clear"] /\ UNCHANGED lockVars
     ELSE Acquire(r)
  /\ UNCHANGED <<life, localVars, dbVars>>

\* A request reaches its handler.
Arrive(r) ==
  /\ pc[r] = "idle"
  /\ Acquire(r)
  /\ UNCHANGED <<life, localVars, dbVars>>

\* The delay is over and the registry lists the five agents: skip when the
\* lock is held, otherwise go for it (no await lies between test and acquire).
AutostartReady ==
  /\ pc[Autostart] = "boot"
  /\ \/ /\ owner # NoOne
        /\ pc' = [pc EXCEPT ![Autostart] = "skipped"]
        /\ UNCHANGED lockVars
     \/ /\ owner = NoOne
        /\ Acquire(Autostart)
  /\ UNCHANGED <<life, localVars, dbVars>>

\* The registry did not list them within 60 attempts.
AutostartGiveUp ==
  /\ pc[Autostart] = "boot"
  /\ pc' = [pc EXCEPT ![Autostart] = "skipped"]
  /\ UNCHANGED <<lockVars, life, localVars, dbVars>>

-----------------------------------------------------------------------------
(* The rows.                                                               *)

\* Empties the seven tables in one transaction; a reset then leaves.
ClearContext(p) ==
  /\ pc[p] = "clear"
  /\ missions' = {}
  /\ tasks' = {}
  /\ artifacts' = {}
  /\ messages' = {}
  /\ \/ /\ p \in Resets
        /\ Release(p, "done")
     \/ /\ p \notin Resets
        /\ pc' = [pc EXCEPT ![p] = "create"]
        /\ UNCHANGED <<lockVars, localVars>>
  /\ UNCHANGED life

\* missions.context_id is UNIQUE: with a row left, the INSERT raises.
CreateMission(p) ==
  /\ pc[p] = "create"
  /\ missions = {}
  /\ missions' = {[run |-> Run(p), status |-> "running", phase |-> 0]}
  /\ pc' = [pc EXCEPT ![p] = "update_phase"]
  /\ UNCHANGED <<lockVars, life, localVars, tasks, artifacts, messages>>

\* Wrong on purpose (PhaseHasEvidence): announces the phase after this hop.
UpdatePhaseEarly(p) ==
  /\ pc[p] = "update_phase"
  /\ missions' = {[m EXCEPT !.phase = hop[p] + 1] : m \in missions}
  /\ pc' = [pc EXCEPT ![p] = "call"]
  /\ UNCHANGED <<lockVars, life, localVars, tasks, artifacts, messages>>

\* UPDATE missions ... WHERE context_id: whatever row is there.
UpdatePhase(p) ==
  /\ pc[p] = "update_phase"
  /\ missions' = {[m EXCEPT !.phase = hop[p]] : m \in missions}
  /\ pc' = [pc EXCEPT ![p] = "call"]
  /\ UNCHANGED <<lockVars, life, localVars, tasks, artifacts, messages>>

\* SELECT then UPDATE or INSERT; completed_at is kept by COALESCE.
UpsertTask(p, s, e) ==
  LET old == {t \in tasks : t.run = Run(p) /\ t.hop = hop[p]}
  IN  tasks' = (tasks \ old) \cup
        {[run |-> Run(p), hop |-> hop[p], state |-> s,
          ended |-> e \/ \E t \in old : t.ended]}

\* Skipped when the artifactId is there already.
InsertArtifact(p) == artifacts' = artifacts \cup {[run |-> Run(p), hop |-> hop[p]]}

\* Wrong on purpose (TypeOK): one hop too many.
NextHopPastTheEnd(p) ==
  IF hop[p] <= NumHops
  THEN /\ hop' = [hop EXCEPT ![p] = hop[p] + 1]
       /\ pc' = [pc EXCEPT ![p] = "update_phase"]
  ELSE /\ pc' = [pc EXCEPT ![p] = "complete"]
       /\ UNCHANGED hop

\* Wrong on purpose (ImplementsBoard): the last hop is left out.
NextHopStopsShort(p) ==
  IF hop[p] < NumHops - 1
  THEN /\ hop' = [hop EXCEPT ![p] = hop[p] + 1]
       /\ pc' = [pc EXCEPT ![p] = "update_phase"]
  ELSE /\ pc' = [pc EXCEPT ![p] = "complete"]
       /\ UNCHANGED hop

\* The last hop is followed by complete_mission, any other by the next hop.
NextHop(p) ==
  IF hop[p] < NumHops
  THEN /\ hop' = [hop EXCEPT ![p] = hop[p] + 1]
       /\ pc' = [pc EXCEPT ![p] = "update_phase"]
  ELSE /\ pc' = [pc EXCEPT ![p] = "complete"]
       /\ UNCHANGED hop

-----------------------------------------------------------------------------
(* One hop.                                                                *)

\* Discovery and message:stream; the client collects the whole stream first.
CallStream(p) ==
  /\ pc[p] = "call"
  /\ hop[p] \in StreamHops
  /\ \E a \in StreamAnswers(hop[p] \in GoHops) :
       /\ events' = [events EXCEPT ![p] = a.seen]
       /\ remote' = [remote EXCEPT ![p] = a.final]
  /\ pc' = [pc EXCEPT ![p] = "consume"]
  /\ UNCHANGED <<lockVars, life, hop, dbVars>>

\* Discovery and message:send.
CallSend(p) ==
  /\ pc[p] = "call"
  /\ hop[p] \notin StreamHops
  /\ \E a \in SendAnswers(hop[p] \in GoHops) : remote' = [remote EXCEPT ![p] = a]
  /\ pc' = [pc EXCEPT ![p] = "record"]
  /\ UNCHANGED <<lockVars, life, hop, events, dbVars>>

\* Persist the next stream event.
ConsumeEvent(p) ==
  /\ pc[p] = "consume"
  /\ events[p] # <<>>
  /\ IF Head(events[p]) = "ARTIFACT"
     THEN InsertArtifact(p) /\ UNCHANGED tasks
     ELSE UpsertTask(p, Head(events[p]), FALSE) /\ UNCHANGED artifacts
  /\ events' = [events EXCEPT ![p] = Tail(events[p])]
  /\ pc' = [pc EXCEPT ![p] = IF Tail(events[p]) = <<>> THEN "record" ELSE "consume"]
  /\ UNCHANGED <<lockVars, life, hop, remote, missions, messages>>

RecordMessage(p) ==
  /\ pc[p] = "record"
  /\ messages' = messages \cup {[run |-> Run(p), hop |-> hop[p]]}
  /\ pc' = [pc EXCEPT ![p] = "persist"]
  /\ UNCHANGED <<lockVars, life, localVars, missions, tasks, artifacts>>

\* The task of the answer, or of GET /tasks/{id} after a stream; completed_at
\* is the timestamp of its status, whatever that status is.
PersistTask(p) ==
  /\ pc[p] = "persist"
  /\ UpsertTask(p, remote[p].state, TRUE)
  /\ IF remote[p].art
     THEN pc' = [pc EXCEPT ![p] = "archive"] /\ UNCHANGED hop
     ELSE NextHop(p)
  /\ UNCHANGED <<lockVars, life, events, remote, missions, artifacts, messages>>

PersistArtifact(p) ==
  /\ pc[p] = "archive"
  /\ InsertArtifact(p)
  /\ NextHop(p)
  /\ UNCHANGED <<lockVars, life, events, remote, missions, tasks, messages>>

-----------------------------------------------------------------------------
(* The end of a run.                                                       *)

CompleteMission(p) ==
  /\ pc[p] = "complete"
  /\ missions' = {[run |-> m.run, status |-> "completed", phase |-> NumHops + 1] :
                  m \in missions}
  /\ pc' = [pc EXCEPT ![p] = "close"]
  /\ UNCHANGED <<lockVars, life, localVars, tasks, artifacts, messages>>

\* The closing narration, then the summary goes back to the caller.
Close(p) ==
  /\ pc[p] = "close"
  /\ Release(p, "done")
  /\ UNCHANGED <<life, dbVars>>

\* Any awaited call may raise: no agent found in 20 polls, three attempts used
\* up, an HTTP error of GET, a locked database.  Nothing is written.
Fail(p) ==
  /\ pc[p] \in Critical
  /\ Release(p, "failed")
  /\ UNCHANGED <<life, dbVars>>

\* The process dies and is started again; only the database survives.
Crash ==
  /\ life < MaxLives
  /\ life' = life + 1
  /\ pc' = [p \in Procs |-> IF p = Autostart THEN "boot"
                            ELSE IF pc[p] = "idle" THEN "idle" ELSE "gone"]
  /\ owner' = NoOne
  /\ waiters' = <<>>
  /\ autostartDone' = FALSE
  /\ hop' = [p \in Procs |-> 1]
  /\ events' = [p \in Procs |-> <<>>]
  /\ remote' = [p \in Procs |-> Completed]
  /\ UNCHANGED dbVars

RunStep(p) ==
  \/ ClearContext(p) \/ CreateMission(p) \/ UpdatePhase(p)
  \/ CallStream(p) \/ CallSend(p) \/ ConsumeEvent(p)
  \/ RecordMessage(p) \/ PersistTask(p) \/ PersistArtifact(p)
  \/ CompleteMission(p) \/ Close(p)

Next ==
  \/ \E r \in Requests : Arrive(r)
  \/ AutostartReady
  \/ AutostartGiveUp
  \/ \E p \in Procs : Grant(p) \/ RunStep(p) \/ Fail(p)
  \/ Crash

Spec == Init /\ [][Next]_vars

\* The event loop resumes whatever is ready; every remote call is bounded by a
\* timeout and by its attempts.  Requests need not come, nor the process die.
Fairness ==
  /\ \A p \in Procs : WF_vars(Grant(p) \/ RunStep(p))
  /\ WF_vars(AutostartReady \/ AutostartGiveUp)

FairSpec == Spec /\ Fairness

-----------------------------------------------------------------------------
(* Properties.                                                             *)

Rows == tasks \cup artifacts \cup messages

\* At most one mission is on record, and no row of any table outlives it or
\* comes from another run: clear_context under the lock (main.py 332-335,
\* 378-380) keeps concurrent starts, resets, the autostart and the leftovers
\* of a process that died from ever mixing in one timeline.
OneRunOnRecord ==
  /\ \A m, n \in missions : m = n
  /\ \A r \in Rows : \E m \in missions : m.run = r.run

\* From the INSERT of its row to its end, the row of a run is its own, running
\* until it completes, at the phase of the hop it is at: nobody clears or
\* rewrites the tables under a run (orchestrator.py 521-664).
PhaseOf(p) ==
  IF pc[p] = "update_phase" THEN hop[p] - 1
  ELSE IF pc[p] = "close" THEN NumHops + 1
  ELSE hop[p]

Undisturbed(p) ==
  pc[p] \in RunSteps =>
    missions = {[run    |-> Run(p),
                 status |-> IF pc[p] = "close" THEN "completed" ELSE "running",
                 phase  |-> PhaseOf(p)]}

RunUndisturbed == \A p \in Procs : Undisturbed(p)

\* A hop leaves evidence: the message that was sent and the task as it ended.
Evidence(r, h) ==
  /\ \E t \in tasks : t.run = r /\ t.hop = h /\ t.ended
  /\ [run |-> r, hop |-> h] \in messages

\* Whatever was cut short, and wherever: a mission row never claims a phase
\* whose earlier hops are not on record, and a completed one has all of them;
\* an artifact is never on record without the task it belongs to.
PhaseHasEvidence ==
  /\ \A m \in missions : \A h \in Hops : h < m.phase => Evidence(m.run, h)
  /\ \A a \in artifacts : \E t \in tasks : t.run = a.run /\ t.hop = a.hop
  /\ \A m \in missions : m.status = "completed" => m.phase = NumHops + 1

\* The automatic run never comes on top of an explicit one: while it clears
\* or runs, no start and no reset has been served since the process started
\* (main.py 311-317: the flag is looked at again under the lock).
AutostartYields ==
  pc[Autostart] \in Critical => \A r \in Requests : pc[r] \notin Ended

\* Every start and reset that waits for the lock is answered, unless the
\* process dies (main.py 332, 378: the lock is released on every path).
EveryRequestAnswered ==
  \A r \in Requests : pc[r] = "queued" ~> pc[r] \in Ended \cup {"gone"}

\* The tables show a board that only ever changes as MissionBoard says.
Shown ==
  IF missions = {} THEN "nothing"
  ELSE IF \E m \in missions : m.status = "completed" THEN "completed" ELSE "running"

Finished == {h \in Hops : \E m \in missions : Evidence(m.run, h)}

Active == \E p \in Procs : pc[p] \in RunSteps

Board == INSTANCE MissionBoard WITH
  active   <- Active,
  shown    <- Shown,
  finished <- Finished

ImplementsBoard == Board!BoardSpec

\* What docs/protocol.md 460 calls the authoritative completed task: when
\* a mission is recorded as completed, each of its tasks was.
CompletedMissionHasCompletedTasks ==
  \A m \in missions : m.status = "completed" =>
    \A t \in tasks : t.run = m.run => t.state = "COMPLETED"

-----------------------------------------------------------------------------
(* The inductive invariant behind the safety properties.                   *)

\* The lock is held exactly by the one who is inside.
LockHeld == \A p \in Procs : pc[p] \in Critical <=> owner = p

\* A run starts at the first hop.
FreshLocals == \A p \in Procs : pc[p] \notin RunSteps => hop[p] = 1

\* Once a request got in, the background task knows.
ServedIsNoted ==
  (\E r \in Requests : pc[r] \in Ended \cup Critical) => autostartDone

\* A run creates its row in empty tables.
TablesCleared(p) == pc[p] = "create" => missions = {} /\ Rows = {}

\* The first event that is left is not an artifact, or its task is on record.
TaskPrecedesArtifact(p) ==
  pc[p] = "consume" =>
    /\ events[p] # <<>>
    /\ Head(events[p]) = "ARTIFACT" => \E t \in tasks : t.run = Run(p) /\ t.hop = hop[p]

\* How far the evidence of a run has got ...
EvidenceGrows(p) ==
  pc[p] \in RunSteps =>
    /\ \A h \in Hops : h < hop[p] => Evidence(Run(p), h)
    /\ pc[p] \in {"persist", "archive"} => [run |-> Run(p), hop |-> hop[p]] \in messages
    /\ pc[p] \in {"archive", "complete", "close"} => Evidence(Run(p), hop[p])
    /\ pc[p] \in {"complete", "close"} => hop[p] = NumHops

\* ... and no farther.
EvidenceNotAhead(p) ==
  pc[p] \in RunSteps =>
    \A t \in tasks : t.ended =>
      \/ t.hop < hop[p]
      \/ t.hop = hop[p] /\ pc[p] \in {"archive", "complete", "close"}

RunInv(p) ==
  /\ Undisturbed(p)
  /\ TablesCleared(p)
  /\ TaskPrecedesArtifact(p)
  /\ EvidenceGrows(p)
  /\ EvidenceNotAhead(p)

IInv ==
  /\ LockHeld
  /\ ServedIsNoted
  /\ AutostartYields
  /\ \A p \in Procs : RunInv(p)
  /\ OneRunOnRecord
  /\ PhaseHasEvidence
=============================================================================
