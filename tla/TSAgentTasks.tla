---------------------------- MODULE TSAgentTasks ----------------------------
(***************************************************************************)
(* The task store and the handlers of a TypeScript agent: index.ts and     *)
(* tasks.ts, the same text in intelligence-agent and in                    *)
(* communications-relay-agent but for the phases and the payload.          *)
(*                                                                         *)
(* One event loop: a step is what runs from one await to the next, and     *)
(* nothing but the sleeps of a stream is awaited.  A task is named by the  *)
(* request that creates it; of a task the state and whether its artifact   *)
(* is attached are kept.  A subscriber's events are folded into what they  *)
(* tell it.                                                                *)
(***************************************************************************)
EXTENDS Naturals, Sequences, AgentAnswers

CONSTANTS
  Streams,      \* POST /message:stream requests
  Sends,        \* POST /message:send requests
  Cancels,      \* POST /tasks/{id}:cancel requests
  Subscribers,  \* POST /tasks/{id}:subscribe requests
  NumPhases     \* SCOUT_PHASES.length, RELAY_PHASES.length

Tasks    == Streams \cup Sends
Visitors == Cancels \cup Subscribers
Procs    == Tasks \cup Visitors

ASSUME TSAgentAssumption ==
  /\ NumPhases \in Nat \ {0}
  /\ Streams \cap Sends = {}
  /\ Tasks \cap Visitors = {}
  /\ Cancels \cap Subscribers = {}

VARIABLES
  pc,        \* where each request stands
  status,    \* status.state of each task, "none" until it is created
  arts,      \* whether its artifact is attached
  live,      \* the subscribers attached to each task
  phase,     \* local to a stream: the phase it reports next
  conn,      \* whether the client of a stream is there
  seen,      \* what the client of a stream received
  told,      \* what the events sent to a subscriber add up to
  canceled   \* history: the tasks that cancel requests were answered with

taskVars   == <<status, arts>>
streamVars == <<phase, conn, seen>>
vars       == <<pc, taskVars, live, streamVars, told, canceled>>

-----------------------------------------------------------------------------
States    == TaskStates \ {"TORN"}
Terminal  == {"COMPLETED", "CANCELED"}
Locations == {"idle", "asleep", "finishing", "attached", "detached", "done"}

\* final is the flag of a status-update, arts what task and artifact-update show.
Told     == [state : States \cup {"none"}, arts : BOOLEAN, final : BOOLEAN]
ToldNone == [state |-> "none", arts |-> FALSE, final |-> FALSE]

TypeOK ==
  /\ pc \in [Procs -> Locations]
  /\ status \in [Tasks -> States \cup {"none"}]
  /\ arts \in [Tasks -> BOOLEAN]
  /\ live \in [Tasks -> SUBSET Subscribers]
  /\ phase \in [Streams -> 1..NumPhases]
  /\ conn \in [Streams -> BOOLEAN]
  /\ seen \in [Streams -> Seq(EventKinds)]
  /\ told \in [Subscribers -> Told]
  /\ canceled \subseteq Tasks

Init ==
  /\ pc = [p \in Procs |-> "idle"]
  /\ status = [t \in Tasks |-> "none"]
  /\ arts = [t \in Tasks |-> FALSE]
  /\ live = [t \in Tasks |-> {}]
  /\ phase = [s \in Streams |-> 1]
  /\ conn = [s \in Streams |-> TRUE]
  /\ seen = [s \in Streams |-> <<>>]
  /\ told = [p \in Subscribers |-> ToldNone]
  /\ canceled = {}

\* The task that GET /tasks/{id}, or a message:send, returns.
GetTask(t) == [state |-> status[t], art |-> arts[t]]

Goto(p, from, to) == pc[p] = from /\ pc' = [pc EXCEPT ![p] = to]

-----------------------------------------------------------------------------
(* The store and its subscribers.                                          *)

Create(t) ==
  /\ status[t] = "none"
  /\ status' = [status EXCEPT ![t] = "SUBMITTED"]
  /\ UNCHANGED arts

SetStatus(t, s) == status' = [status EXCEPT ![t] = s]
AddArtifact(t)  == arts' = [arts EXCEPT ![t] = TRUE]

\* Everybody attached to t is sent status-update s, and the artifact if art.
Broadcast(t, s, art, final) ==
  told' = [p \in Subscribers |->
             IF p \in live[t]
             THEN [state |-> s, arts |-> told[p].arts \/ art, final |-> final]
             ELSE told[p]]

\* Write events to the client of a stream; a closed socket takes them as well.
\* Progress reports of the same state count as one.
Write(s, events) ==
  seen' = [seen EXCEPT ![s] =
             IF ~conn[s] THEN <<>>
             ELSE IF @ # <<>> /\ @[Len(@)] = Head(events) THEN @ \o Tail(events)
             ELSE @ \o events]

-----------------------------------------------------------------------------
(* POST /message:send: created, worked on and completed at once.           *)

\* Wrong on purpose (ImplementsLifecycle): completed without its artifact.
SendEmpty(t) ==
  /\ Goto(t, "idle", "done")
  /\ status[t] = "none"
  /\ SetStatus(t, "COMPLETED")
  /\ UNCHANGED <<arts, live, streamVars, told, canceled>>

\* finishScout(), finishRelay()
FinishSync(t) == SetStatus(t, "COMPLETED") /\ AddArtifact(t)

\* No subscriber can know the task yet.
Send(t) ==
  /\ Goto(t, "idle", "done")
  /\ status[t] = "none"
  /\ FinishSync(t)
  /\ UNCHANGED <<live, streamVars, told, canceled>>

-----------------------------------------------------------------------------
(* POST /message:stream.                                                   *)

\* Wrong on purpose (EveryStreamEnds): a run whose client has left is given up.
LoopTopWhileConnected(s, state) ==
  IF state = "CANCELED" \/ ~conn[s] THEN "done" ELSE "asleep"

\* Before each phase: give up if the task is canceled.  Nothing is awaited
\* between the assignment of the state and this look at it.
LoopTop(s, state) == IF state = "CANCELED" THEN "done" ELSE "asleep"

OpenStream(s) ==
  /\ Goto(s, "idle", LoopTop(s, "SUBMITTED"))
  /\ Create(s)
  /\ Write(s, <<"SUBMITTED">>)
  /\ UNCHANGED <<live, phase, conn, told, canceled>>

\* Wrong on purpose (TypeOK): the last phase is taken for one with a successor.
ReportPhaseOneMore(s) ==
  /\ phase[s] <= NumPhases
  /\ Goto(s, "asleep", LoopTop(s, "WORKING"))
  /\ SetStatus(s, "WORKING")
  /\ Write(s, <<"WORKING">>)
  /\ Broadcast(s, "WORKING", FALSE, FALSE)
  /\ phase' = [phase EXCEPT ![s] = @ + 1]
  /\ UNCHANGED <<arts, live, conn, canceled>>

\* After a sleep: a phase is reported, WORKING whatever the task says by now.
ReportPhase(s) ==
  /\ phase[s] < NumPhases
  /\ Goto(s, "asleep", LoopTop(s, "WORKING"))
  /\ SetStatus(s, "WORKING")
  /\ Write(s, <<"WORKING">>)
  /\ Broadcast(s, "WORKING", FALSE, FALSE)
  /\ phase' = [phase EXCEPT ![s] = @ + 1]
  /\ UNCHANGED <<arts, live, conn, canceled>>

\* Wrong on purpose (SubscriberCanRebuild): the artifact goes to the client of
\* the stream only.
ReportLastPhaseUnshared(s) ==
  /\ phase[s] = NumPhases
  /\ Goto(s, "asleep", "finishing")
  /\ SetStatus(s, "WORKING")
  /\ AddArtifact(s)
  /\ Write(s, <<"WORKING", "ARTIFACT">>)
  /\ Broadcast(s, "WORKING", FALSE, FALSE)
  /\ UNCHANGED <<live, phase, conn, canceled>>

\* Wrong on purpose (AnswersAsAssumed): the artifact is sent, not stored.
ReportLastPhaseUnstored(s) ==
  /\ phase[s] = NumPhases
  /\ Goto(s, "asleep", "finishing")
  /\ SetStatus(s, "WORKING")
  /\ Write(s, <<"WORKING", "ARTIFACT">>)
  /\ Broadcast(s, "WORKING", TRUE, FALSE)
  /\ UNCHANGED <<arts, live, phase, conn, canceled>>

\* The last phase and the artifact go out together.
ReportLastPhase(s) ==
  /\ phase[s] = NumPhases
  /\ Goto(s, "asleep", "finishing")
  /\ SetStatus(s, "WORKING")
  /\ AddArtifact(s)
  /\ Write(s, <<"WORKING", "ARTIFACT">>)
  /\ Broadcast(s, "WORKING", TRUE, FALSE)
  /\ UNCHANGED <<live, phase, conn, canceled>>

\* Wrong on purpose (AttachedAreTold): the end goes to the client of the
\* stream only.
FinishUnshared(s) ==
  /\ Goto(s, "finishing", "done")
  /\ SetStatus(s, "COMPLETED")
  /\ Write(s, <<"COMPLETED">>)
  /\ UNCHANGED <<arts, live, phase, conn, told, canceled>>

\* After the last sleep, COMPLETED whatever the task says by now.
Finish(s) ==
  /\ Goto(s, "finishing", "done")
  /\ SetStatus(s, "COMPLETED")
  /\ Write(s, <<"COMPLETED">>)
  /\ Broadcast(s, "COMPLETED", FALSE, TRUE)
  /\ UNCHANGED <<arts, live, phase, conn, canceled>>

\* The run goes on without it; what it received is then no matter.
ClientLeaves(s) ==
  /\ conn[s]
  /\ pc[s] \in {"asleep", "finishing"}
  /\ conn' = [conn EXCEPT ![s] = FALSE]
  /\ seen' = [seen EXCEPT ![s] = <<>>]
  /\ UNCHANGED <<pc, taskVars, live, phase, told, canceled>>

-----------------------------------------------------------------------------
(* POST /tasks/{id}:cancel and :subscribe.                                 *)

\* 404, 409, or the task is canceled and returned; nobody is told.
Cancel(c) ==
  /\ Goto(c, "idle", "done")
  /\ \E t \in Tasks :
       IF status[t] \in Terminal \cup {"none"}
       THEN UNCHANGED <<status, canceled>>
       ELSE SetStatus(t, "CANCELED") /\ canceled' = canceled \cup {t}
  /\ UNCHANGED <<arts, live, streamVars, told>>

\* 404; or the task, followed for an ended one by its artifacts and a final
\* status-update; or the task and a place among its subscribers.
Subscribe(p) ==
  /\ \E t \in Tasks :
       \/ /\ status[t] = "none"
          /\ Goto(p, "idle", "done")
          /\ UNCHANGED <<live, told>>
       \/ /\ status[t] \in Terminal
          /\ Goto(p, "idle", "done")
          /\ told' = [told EXCEPT ![p] = [state |-> status[t], arts |-> arts[t], final |-> TRUE]]
          /\ UNCHANGED live
       \/ /\ status[t] \notin Terminal \cup {"none"}
          /\ Goto(p, "idle", "attached")
          /\ told' = [told EXCEPT ![p] = [state |-> status[t], arts |-> arts[t], final |-> FALSE]]
          /\ live' = [live EXCEPT ![t] = @ \cup {p}]
  /\ UNCHANGED <<taskVars, streamVars, canceled>>

\* The request emits "close": its body was read, or its connection is gone.
RequestCloses(p) ==
  /\ Goto(p, "attached", "detached")
  /\ live' = [t \in Tasks |-> live[t] \ {p}]
  /\ UNCHANGED <<taskVars, streamVars, told, canceled>>

-----------------------------------------------------------------------------
\* A timer of a stream is due.
Wake(s) == ReportPhase(s) \/ ReportLastPhase(s) \/ Finish(s)

Next ==
  \/ \E t \in Sends : Send(t)
  \/ \E s \in Streams : OpenStream(s) \/ Wake(s) \/ ClientLeaves(s)
  \/ \E c \in Cancels : Cancel(c)
  \/ \E p \in Subscribers : Subscribe(p) \/ RequestCloses(p)

Spec == Init /\ [][Next]_vars

\* Timers fire.
Fairness == \A s \in Streams : WF_vars(Wake(s))

FairSpec == Spec /\ Fairness
-----------------------------------------------------------------------------
(* Properties.                                                             *)

\* When a stream has ended with its client there, what the client saw and
\* what a GET finds from then on is one of the answers MissionControl expects,
\* whatever was canceled meanwhile (index.ts 489-562), and so is the response
\* of a send (226-256).
AnswersAsAssumed ==
  /\ \A s \in Streams : pc[s] = "done" /\ conn[s] =>
       [seen |-> seen[s], final |-> GetTask(s)] \in StreamAnswers(FALSE)
  /\ \A t \in Sends : pc[t] = "done" => GetTask(t) \in SendAnswers(FALSE)

\* The snapshot a subscriber got when it attached, with what was broadcast
\* since, tells it exactly where the task stands (index.ts 387-412, tasks.ts
\* 116-122): nothing is lost between the snapshot and the first broadcast, and
\* nothing is missing from the broadcasts but a cancel.
SubscriberCanRebuild ==
  \A t \in Tasks : \A p \in live[t] :
    /\ told[p].arts = arts[t]
    /\ told[p].state = status[t] \/ status[t] = "CANCELED"
    /\ told[p].final <=> status[t] = "COMPLETED"

\* A stream that was opened ends, and leaves no task behind that is still active:
\* nobody else would ever end it.  Only a cancel may end it otherwise than by
\* completing it; a client that leaves may not (index.ts 501-562).
EndedWell(s) ==
  /\ pc[s] = "done"
  /\ status[s] = "COMPLETED" \/ (status[s] = "CANCELED" /\ s \in canceled)

EveryStreamEnds == \A s \in Streams : status[s] # "none" ~> EndedWell(s)

\* A subscriber that is not dropped is told of the end (index.ts 555-562).
AttachedAreTold ==
  \A p \in Subscribers : pc[p] = "attached" ~> pc[p] # "attached" \/ told[p].final

\* From its creation to its end a stream is at its task; a send is at once.
AtWork == [t \in Tasks |-> pc[t] \in {"asleep", "finishing"}]

\* The tasks change only as TaskLifecycle says.
Lifecycle == INSTANCE TaskLifecycle WITH
  state  <- status,
  result <- arts,
  open   <- AtWork

ImplementsLifecycle == Lifecycle!LifecycleSpec

\* index.ts 415, docs/protocol.md 200: cancel cancels an active task.  One that
\* was answered with the canceled task does not find it worked on or completed
\* later.
CancelSticks == \A t \in canceled : status[t] = "CANCELED"

-----------------------------------------------------------------------------
(* The inductive invariant behind the safety properties.                   *)

\* Where a worker stands tells what the store knows of its task.
TaskFollowsWorker ==
  \A t \in Tasks :
    /\ pc[t] = "idle" <=> status[t] = "none"
    /\ pc[t] = "done" => status[t] = "COMPLETED" /\ arts[t]
    /\ pc[t] \in {"asleep", "finishing"} =>
         t \in Streams /\ status[t] # "COMPLETED"
    /\ arts[t] <=> pc[t] \in {"finishing", "done"}
    /\ pc[t] \in {"idle", "asleep", "finishing", "done"}

\* A subscriber is attached to one task, which exists.
AttachedOnce ==
  \A t \in Tasks : \A p \in live[t] :
    /\ pc[p] = "attached"
    /\ status[t] # "none"
    /\ \A u \in Tasks : p \in live[u] => u = t

\* The client of a stream saw what was done.
Saw(s) ==
  CASE pc[s] = "idle"   -> seen[s] = <<>> /\ phase[s] = 1
    [] pc[s] = "asleep" ->
         seen[s] = IF phase[s] = 1 THEN <<"SUBMITTED">> ELSE <<"SUBMITTED", "WORKING">>
    [] pc[s] = "finishing" -> seen[s] = <<"SUBMITTED", "WORKING", "ARTIFACT">>
    [] OTHER -> seen[s] = FullStream

ClientSawIt == \A s \in Streams : conn[s] => Saw(s)

IInv == TaskFollowsWorker /\ AttachedOnce /\ ClientSawIt /\ SubscriberCanRebuild

\* What AttachedAreTold rests on: whoever is attached and has not been told of
\* the end is among the subscribers of a task whose worker has it still to send.
AttachedSomewhere ==
  \A p \in Subscribers : pc[p] = "attached" => \E t \in Tasks : p \in live[t]

EndToCome(t) == pc[t] = "finishing" \/ (pc[t] = "asleep" /\ phase[t] \in 1..NumPhases)

NobodyWaitsInVain ==
  \A p \in Subscribers : pc[p] = "attached" =>
    \E t \in Tasks : p \in live[t] /\ (told[p].final \/ (t \in Streams /\ EndToCome(t)))
=============================================================================
