---------------------------- MODULE GoAgentTasks ----------------------------
(***************************************************************************)
(* The task store and the handlers of a Go agent: tasks.go, the same file  *)
(* in fleet-agent, tactical-agent and logistics-agent.                     *)
(*                                                                         *)
(* Every request has a goroutine of its own.  The store's mutex is held    *)
(* inside Put, Get and Update only; Get hands out the shared *Task, and    *)
(* the handlers read its fields after the unlock, while another goroutine  *)
(* may be writing them under the mutex.  Such a read is a data race: it    *)
(* gives the old value, the new one, or for a string of another length a   *)
(* text that is neither.  The two assignments of a commit are made in      *)
(* program order (calls lie between them), and a reader's loads as well.   *)
(*                                                                         *)
(* A task is named by the request that creates it.  Of a task the state    *)
(* and whether its artifacts are attached are kept; of an event its state  *)
(* or the fact that it is an artifact.                                     *)
(***************************************************************************)
EXTENDS Naturals, Sequences, FiniteSets, AgentAnswers

CONSTANTS
  Streams,      \* POST /message:stream requests
  Sends,        \* POST /message:send requests
  Cancels,      \* POST /tasks/{id}:cancel requests
  Subscribers,  \* POST /tasks/{id}:subscribe requests
  Gets,         \* GET /tasks/{id} requests
  NumPhases,    \* progress reports of a stream (len(streamPhases), or 1)
  MaxRequests,  \* bound: how many of these requests come
  NoWrite,      \* no Update is in progress
  NoTask        \* a visitor that has not arrived, or has left

Tasks     == Streams \cup Sends
Workers   == Tasks
Visitors  == Cancels \cup Subscribers \cup Gets
Repliers  == Sends \cup Cancels \cup Gets
Procs     == Workers \cup Visitors

ASSUME GoAgentAssumption ==
  /\ NumPhases \in Nat \ {0}
  /\ MaxRequests \in Nat
  /\ Streams \cap Sends = {}
  /\ Streams \cap Visitors = {} /\ Sends \cap Visitors = {}
  /\ Cancels \cap Subscribers = {} /\ Cancels \cap Gets = {} /\ Subscribers \cap Gets = {}

VARIABLES
  pc,       \* where each request stands
  status,   \* Status.State of each task, "none" until Put
  arts,     \* whether its Artifacts are set
  writing,  \* the field being assigned under the mutex, by whom
  phase,    \* local to a stream: its progress report
  conn,     \* whether the client of a stream is there
  seen,     \* what the client of a stream received
  target,   \* local to a visitor: the task it got
  reply,    \* the task in the response of a send, cancel or get, if it has one
  feed      \* what a subscriber received

taskVars   == <<status, arts, writing>>
streamVars == <<phase, conn, seen>>
replyVars  == <<target, reply, feed>>
vars       == <<pc, taskVars, streamVars, replyVars>>

-----------------------------------------------------------------------------
States   == TaskStates \ {"TORN"}
Terminal == {"COMPLETED", "CANCELED"}

Writes == [by : Procs, task : Tasks, field : {"artifacts", "status"}, state : States]

\* Where an Update is in progress, and where it leads.
Updating == {"working", "committing", "canceling"}
Ended    == {"done", "stopped", "gone"}
Locations ==
  Updating \cup Ended \cup
  {"idle",
   "announce", "check", "test", "work", "report", "produce", "final",  \* stream
   "commit",                                                     \* stream, send
   "fetch", "respond",                                           \* send
   "decide", "cancel",                                           \* cancel
   "state", "results",                                           \* cancel, get
   "replay", "artifacts", "completed", "canceled", "last"}       \* subscribe

NoReply == [state |-> "none", art |-> FALSE]
NoFeed  == [shown |-> "none", replayed |-> FALSE, final |-> FALSE, last |-> "none"]
Shown   == TaskStates \cup {"none"}

TypeOK ==
  /\ pc \in [Procs -> Locations]
  /\ status \in [Tasks -> States \cup {"none"}]
  /\ arts \in [Tasks -> BOOLEAN]
  /\ writing \in Writes \cup {NoWrite}
  /\ phase \in [Streams -> 1..NumPhases]
  /\ conn \in [Streams -> BOOLEAN]
  /\ seen \in [Streams -> Seq(EventKinds)]
  /\ target \in [Visitors -> Tasks \cup {NoTask}]
  /\ reply \in [Repliers -> [state : Shown, art : BOOLEAN]]
  /\ feed \in [Subscribers ->
                 [shown : Shown, replayed : BOOLEAN, final : BOOLEAN, last : Shown]]

Init ==
  /\ pc = [p \in Procs |-> "idle"]
  /\ status = [t \in Tasks |-> "none"]
  /\ arts = [t \in Tasks |-> FALSE]
  /\ writing = NoWrite
  /\ phase = [s \in Streams |-> 1]
  /\ conn = [s \in Streams |-> TRUE]
  /\ seen = [s \in Streams |-> <<>>]
  /\ target = [p \in Visitors |-> NoTask]
  /\ reply = [p \in Repliers |-> NoReply]
  /\ feed = [p \in Subscribers |-> NoFeed]

Goto(p, from, to) == pc[p] = from /\ pc' = [pc EXCEPT ![p] = to]

-----------------------------------------------------------------------------
(* The store.                                                              *)

\* Another request may come (a bound of the model).
Admit == Cardinality({p \in Procs : pc[p] # "idle"}) < MaxRequests

\* The mutex is free.
Unlocked == writing = NoWrite

\* What a read of the fields outside the mutex can give.
ReadState(t) ==
  {status[t]} \cup
    IF writing # NoWrite /\ writing.task = t /\ writing.field = "status"
         /\ writing.state # status[t]
    THEN {writing.state, "TORN"}
    ELSE {}

ReadArtifacts(t) ==
  {arts[t]} \cup
    IF writing # NoWrite /\ writing.task = t /\ writing.field = "artifacts"
    THEN {TRUE}
    ELSE {}

\* Put a new task in.
Put(t) ==
  /\ Unlocked
  /\ status' = [status EXCEPT ![t] = "SUBMITTED"]
  /\ UNCHANGED <<arts, writing>>

\* Enter Update: the first assignment of its function is under way.
StartUpdate(p, t, field, s) ==
  /\ Unlocked
  /\ writing' = [by |-> p, task |-> t, field |-> field, state |-> s]
  /\ UNCHANGED <<status, arts>>

\* Wrong on purpose (CompletedShowsResult): Status is assigned before Artifacts.
ArtifactsWrittenLate(p) ==
  /\ ~Unlocked
  /\ writing.by = p
  /\ writing.field = "artifacts"
  /\ status' = [status EXCEPT ![writing.task] = writing.state]
  /\ writing' = [writing EXCEPT !.field = "status"]
  /\ UNCHANGED <<pc, arts, streamVars, replyVars>>

\* A commit assigns Artifacts, then Status.
ArtifactsWritten(p) ==
  /\ ~Unlocked
  /\ writing.by = p
  /\ writing.field = "artifacts"
  /\ arts' = [arts EXCEPT ![writing.task] = TRUE]
  /\ writing' = [writing EXCEPT !.field = "status"]
  /\ UNCHANGED <<pc, status, streamVars, replyVars>>

\* Where the handler goes on after its Update.
AfterUpdate(p) ==
  IF pc[p] = "working" THEN "report"
  ELSE IF pc[p] = "canceling" THEN "state"
  ELSE IF p \in Streams THEN "final" ELSE "fetch"

\* Wrong on purpose (EveryRequestEnds): an Update that changes nothing returns
\* without unlocking.
StatusWrittenNoUnlock(p) ==
  /\ ~Unlocked
  /\ writing.by = p
  /\ writing.field = "status"
  /\ status' = [status EXCEPT ![writing.task] = writing.state]
  /\ writing' = IF status[writing.task] = writing.state
                THEN [writing EXCEPT !.field = "done"] ELSE NoWrite
  /\ pc' = [pc EXCEPT ![p] = AfterUpdate(p)]
  /\ UNCHANGED <<arts, streamVars, replyVars>>

\* Status is assigned: Update unlocks and returns.
StatusWritten(p) ==
  /\ ~Unlocked
  /\ writing.by = p
  /\ writing.field = "status"
  /\ status' = [status EXCEPT ![writing.task] = writing.state]
  /\ writing' = NoWrite
  /\ pc' = [pc EXCEPT ![p] = AfterUpdate(p)]
  /\ UNCHANGED <<arts, streamVars, replyVars>>

-----------------------------------------------------------------------------
(* POST /message:stream.                                                   *)

\* Write an event.  Once the client is gone a write may still succeed, into a
\* buffer nobody reads; when it fails the handler returns at once.
Emit(s, e, from, to) ==
  \/ /\ conn[s]
     /\ seen' = [seen EXCEPT ![s] =
                   IF @ # <<>> /\ @[Len(@)] = e THEN @ ELSE Append(@, e)]
     /\ Goto(s, from, to)
  \/ /\ ~conn[s]
     /\ UNCHANGED seen
     /\ Goto(s, from, to) \/ Goto(s, from, "gone")

\* What it received is then no matter.
ClientLeaves(s) ==
  /\ conn[s]
  /\ pc[s] \notin Ended \cup {"idle"}
  /\ conn' = [conn EXCEPT ![s] = FALSE]
  /\ seen' = [seen EXCEPT ![s] = <<>>]
  /\ UNCHANGED <<pc, taskVars, phase, replyVars>>

Create(t) ==
  /\ Admit
  /\ Put(t)
  /\ Goto(t, "idle", IF t \in Streams THEN "announce" ELSE "commit")
  /\ UNCHANGED <<streamVars, replyVars>>

\* The task event holds a copy of the task, made outside the mutex.
Announce(s) ==
  /\ \E r \in ReadState(s) : Emit(s, r, "announce", "check")
  /\ UNCHANGED <<taskVars, phase, conn, replyVars>>

\* Before each phase: Get ...
CheckCanceled(s) ==
  /\ Unlocked
  /\ Goto(s, "check", "test")
  /\ UNCHANGED <<taskVars, streamVars, replyVars>>

\* ... then a look at the state.
TestCanceled(s) ==
  /\ \E r \in ReadState(s) : Goto(s, "test", IF r = "CANCELED" THEN "stopped" ELSE "work")
  /\ UNCHANGED <<taskVars, streamVars, replyVars>>

StartWorking(s) ==
  /\ Goto(s, "work", "working")
  /\ StartUpdate(s, s, "status", "WORKING")
  /\ UNCHANGED <<streamVars, replyVars>>

\* Wrong on purpose (TypeOK): one report too many.
ReportWorkingOneMore(s) ==
  /\ Emit(s, "WORKING", "report", IF phase[s] <= NumPhases THEN "check" ELSE "produce")
  /\ phase' = [phase EXCEPT ![s] = IF @ <= NumPhases THEN @ + 1 ELSE @]
  /\ UNCHANGED <<taskVars, conn, replyVars>>

\* Report the phase (WORKING, whatever the task says by now) and sleep.
ReportWorking(s) ==
  /\ Emit(s, "WORKING", "report", IF phase[s] < NumPhases THEN "check" ELSE "produce")
  /\ phase' = [phase EXCEPT ![s] = IF @ < NumPhases THEN @ + 1 ELSE @]
  /\ UNCHANGED <<taskVars, conn, replyVars>>

EmitArtifact(s) ==
  /\ Emit(s, "ARTIFACT", "produce", "commit")
  /\ UNCHANGED <<taskVars, phase, conn, replyVars>>

\* Wrong on purpose (AnswersAsAssumed): the store is not told of the artifacts.
StartCommitStateOnly(t) ==
  /\ Goto(t, "commit", "committing")
  /\ StartUpdate(t, t, "status", "COMPLETED")
  /\ UNCHANGED <<streamVars, replyVars>>

\* Wrong on purpose (ImplementsLifecycle): the task is marked as being worked
\* on together with its results.
StartCommitWorking(t) ==
  /\ Goto(t, "commit", "committing")
  /\ StartUpdate(t, t, "artifacts", "WORKING")
  /\ UNCHANGED <<streamVars, replyVars>>

\* The last phase is not followed by another look at the state.
StartCommit(t) ==
  /\ Goto(t, "commit", "committing")
  /\ StartUpdate(t, t, "artifacts", "COMPLETED")
  /\ UNCHANGED <<streamVars, replyVars>>

\* The final event says COMPLETED, whatever the task says by now.
EmitFinal(s) ==
  /\ Emit(s, "COMPLETED", "final", "done")
  /\ UNCHANGED <<taskVars, phase, conn, replyVars>>

-----------------------------------------------------------------------------
(* POST /message:send, after its commit.                                   *)

Fetch(p) ==
  /\ Unlocked
  /\ Goto(p, "fetch", "respond")
  /\ UNCHANGED <<taskVars, streamVars, replyVars>>

\* The response holds a copy of the task, made outside the mutex.
Respond(p) ==
  /\ Goto(p, "respond", "done")
  /\ \E r \in ReadState(p), b \in ReadArtifacts(p) :
       reply' = [reply EXCEPT ![p] = [state |-> r, art |-> b]]
  /\ UNCHANGED <<taskVars, streamVars, target, feed>>

-----------------------------------------------------------------------------
(* GET /tasks/{id}, POST /tasks/{id}:cancel and :subscribe.                *)

\* Get: 404, or go on with the shared pointer to the task of the path.
Lookup(p) ==
  /\ Admit
  /\ Unlocked
  /\ \E t \in Tasks :
       \/ /\ status[t] = "none"
          /\ Goto(p, "idle", "done")
          /\ UNCHANGED target
       \/ /\ status[t] # "none"
          /\ Goto(p, "idle", IF p \in Cancels THEN "decide"
                             ELSE IF p \in Gets THEN "state" ELSE "replay")
          /\ target' = [target EXCEPT ![p] = t]
  /\ UNCHANGED <<taskVars, streamVars, reply, feed>>

\* The visitor's goroutine returns.
Leave(p, from) ==
  /\ Goto(p, from, "done")
  /\ target' = [target EXCEPT ![p] = NoTask]

\* Cancel looks at the state after Get has unlocked: 409 if it is terminal ...
DecideCancel(p) ==
  /\ pc[p] = "decide"
  /\ \E r \in ReadState(target[p]) :
       IF r \in Terminal
       THEN Leave(p, "decide")
       ELSE Goto(p, "decide", "cancel") /\ UNCHANGED target
  /\ UNCHANGED <<taskVars, streamVars, reply, feed>>

\* ... and overwrites it, whatever it is by then.
StartCancel(p) ==
  /\ Goto(p, "cancel", "canceling")
  /\ StartUpdate(p, target[p], "status", "CANCELED")
  /\ UNCHANGED <<streamVars, replyVars>>

\* The JSON encoder walks through the shared task: status first ...
EncodeState(p) ==
  /\ Goto(p, "state", "results")
  /\ \E r \in ReadState(target[p]) : reply' = [reply EXCEPT ![p].state = r]
  /\ UNCHANGED <<taskVars, streamVars, target, feed>>

\* ... artifacts last.
EncodeArtifacts(p) ==
  /\ Leave(p, "results")
  /\ \E b \in ReadArtifacts(target[p]) : reply' = [reply EXCEPT ![p].art = b]
  /\ UNCHANGED <<taskVars, streamVars, feed>>

\* The subscriber's task event,
ReplayTask(p) ==
  /\ Goto(p, "replay", "artifacts")
  /\ \E r \in ReadState(target[p]) : feed' = [feed EXCEPT ![p].shown = r]
  /\ UNCHANGED <<taskVars, streamVars, target, reply>>

\* its artifacts as they are then,
ReplayArtifacts(p) ==
  /\ Goto(p, "artifacts", "completed")
  /\ \E b \in ReadArtifacts(target[p]) : feed' = [feed EXCEPT ![p].replayed = b]
  /\ UNCHANGED <<taskVars, streamVars, target, reply>>

\* the final flag, from a comparison with each terminal state in turn,
LooksEnded(p, from, s, to) ==
  /\ pc[p] = from
  /\ \E r \in ReadState(target[p]) :
       IF r = s
       THEN /\ Goto(p, from, "last")
            /\ feed' = [feed EXCEPT ![p].final = TRUE]
       ELSE /\ Goto(p, from, to)
            /\ UNCHANGED feed
  /\ UNCHANGED <<taskVars, streamVars, target, reply>>

LooksCompleted(p) == LooksEnded(p, "completed", "COMPLETED", "canceled")
LooksCanceled(p)  == LooksEnded(p, "canceled", "CANCELED", "last")

\* and one status event, after which the stream ends.
ReplayStatus(p) ==
  /\ Leave(p, "last")
  /\ \E r \in ReadState(target[p]) : feed' = [feed EXCEPT ![p].last = r]
  /\ UNCHANGED <<taskVars, streamVars, reply>>

-----------------------------------------------------------------------------
StreamStep(s) ==
  \/ Announce(s) \/ CheckCanceled(s) \/ TestCanceled(s) \/ StartWorking(s)
  \/ ReportWorking(s) \/ EmitArtifact(s) \/ EmitFinal(s)

CancelStep(p) == DecideCancel(p) \/ StartCancel(p)

SubscribeStep(p) ==
  \/ ReplayTask(p) \/ ReplayArtifacts(p) \/ LooksCompleted(p) \/ LooksCanceled(p)
  \/ ReplayStatus(p)

\* What a goroutine does once its request is in.
Step(p) ==
  \/ p \in Streams /\ StreamStep(p)
  \/ p \in Workers /\ StartCommit(p)
  \/ p \in Sends /\ (Fetch(p) \/ Respond(p))
  \/ p \in Cancels /\ CancelStep(p)
  \/ p \in Cancels \cup Gets /\ (EncodeState(p) \/ EncodeArtifacts(p))
  \/ p \in Subscribers /\ SubscribeStep(p)
  \/ ArtifactsWritten(p)
  \/ StatusWritten(p)

Next ==
  \/ \E t \in Tasks : Create(t)
  \/ \E p \in Visitors : Lookup(p)
  \/ \E s \in Streams : ClientLeaves(s)
  \/ \E p \in Procs : Step(p)

Spec == Init /\ [][Next]_vars

\* Goroutines are scheduled, and a mutex is handed over in the end.
Fairness == \A p \in Procs : WF_vars(Step(p))

FairSpec == Spec /\ Fairness
-----------------------------------------------------------------------------
(* Properties.                                                             *)

\* When a stream has ended with its client there, what the client saw and
\* what a GET would find is one of the answers MissionControl expects, and so
\* is every response of a send (tasks.go 312-347, 376-451): a complete stream
\* has its results in the store, an incomplete one was canceled, for good.
StreamEnded(s) ==
  /\ conn[s]
  /\ pc[s] = "done" \/ (pc[s] = "stopped" /\ Unlocked)

AnswersAsAssumed ==
  /\ \A s \in Streams : StreamEnded(s) =>
       \A r \in ReadState(s), b \in ReadArtifacts(s) :
         [seen |-> seen[s], final |-> [state |-> r, art |-> b]] \in StreamAnswers(TRUE)
  /\ \A p \in Sends : pc[p] = "done" =>
       [state |-> reply[p].state, art |-> reply[p].art] \in SendAnswers(TRUE)

\* Nobody is shown a completed task without its results, though they are read
\* field by field and outside the mutex: not in a response of GET, cancel or
\* send, and not by the replay that follows a subscriber's task event
\* (tasks.go 428-429: Artifacts before Status; models.go 61-63: encoded after it).
CompletedShowsResult ==
  /\ \A p \in Repliers : pc[p] = "done" /\ reply[p].state = "COMPLETED" => reply[p].art
  /\ \A p \in Subscribers : pc[p] = "done" /\ feed[p].shown = "COMPLETED" => feed[p].replayed

\* No goroutine waits for ever, since none leaves the mutex locked: again and
\* again, every request that came has been served.
EveryRequestEnds == []<>(\A p \in Procs : pc[p] \in Ended \cup {"idle"})

\* From its Put to the end of its commit, or until it stops, a worker is at its task.
AtWork == [t \in Tasks |-> pc[t] \notin Ended \cup {"idle", "final", "fetch", "respond"}]

\* The tasks change only as TaskLifecycle says.
Lifecycle == INSTANCE TaskLifecycle WITH
  state  <- status,
  result <- arts,
  open   <- AtWork

ImplementsLifecycle == Lifecycle!LifecycleSpec

\* docs/protocol.md 200: a cancel that is not refused returns the task in
\* TASK_STATE_CANCELED.
CancelRepliesCanceled ==
  \A p \in Cancels : reply[p].state \in {"none", "CANCELED"}

\* tasks.go 493-495: a subscriber to an active task gets the rest of its
\* updates, so that its stream ends with a final event, as for a completed one.
SubscriberSeesTheEnd ==
  \A p \in Subscribers : pc[p] = "done" /\ feed[p].shown # "none" => feed[p].final

-----------------------------------------------------------------------------
(* The inductive invariant behind the safety properties.                   *)

\* A task is in the store from its Put on.
StoredOnceCreated == \A t \in Tasks : pc[t] = "idle" <=> status[t] = "none"

\* A visitor holds on to a task of the store.
TargetStored ==
  \A p \in Visitors :
    pc[p] \notin {"idle", "done"} => target[p] \in Tasks /\ status[target[p]] # "none"

\* Results come with the commit.
BeforeCommit == {"idle", "announce", "check", "test", "work", "working", "report",
                 "produce", "commit", "stopped", "gone"}

NoResultBeforeCommit == \A s \in Tasks : pc[s] \in BeforeCommit \ {"gone"} => ~arts[s]

\* Who is inside Update, and what for; whoever is not has none in progress.
Assigns(p, t, fields, s) ==
  writing.task = t /\ writing.field \in fields /\ writing.state = s

WriterKnown ==
  ~Unlocked =>
    LET p == writing.by
    IN  \/ p \in Streams /\ pc[p] = "working" /\ Assigns(p, p, {"status"}, "WORKING")
        \/ p \in Tasks /\ pc[p] = "committing"
             /\ Assigns(p, p, {"artifacts", "status"}, "COMPLETED")
             /\ (writing.field = "status" => arts[p])
        \/ p \in Cancels /\ pc[p] = "canceling"
             /\ Assigns(p, target[p], {"status"}, "CANCELED")

\* A completed task has its results.
CompletedHasResult == \A t \in Tasks : status[t] = "COMPLETED" => arts[t]

\* Between the two reads of an encoder, or of a replay, results do not vanish.
EncodedInOrder ==
  \A p \in Repliers : reply[p].state = "COMPLETED" =>
    IF p \notin Sends /\ pc[p] = "results" THEN arts[target[p]] ELSE reply[p].art

ReplayedInOrder ==
  \A p \in Subscribers : feed[p].shown = "COMPLETED" =>
    IF pc[p] = "artifacts" THEN arts[target[p]] ELSE feed[p].replayed

IInv ==
  /\ StoredOnceCreated
  /\ TargetStored
  /\ NoResultBeforeCommit
  /\ WriterKnown
  /\ CompletedHasResult
  /\ EncodedInOrder
  /\ ReplayedInOrder

-----------------------------------------------------------------------------
(* What AnswersAsAssumed rests on besides.                                 *)

Begun == {<<"SUBMITTED">>, <<"SUBMITTED", "WORKING">>}

\* The task event itself showed the cancellation.
Doomed == {<<"CANCELED">>, <<"TORN">>}

\* A client that stays receives the events in the order of the protocol.
SeenFits(s) ==
  /\ pc[s] \in {"idle", "announce"} => seen[s] = <<>>
  /\ pc[s] \in {"check", "test", "stopped"} => seen[s] \in Begun \cup Doomed
  /\ pc[s] \in {"work", "working", "report"} => seen[s] \in Begun
  /\ pc[s] = "produce" => seen[s] = <<"SUBMITTED", "WORKING">>
  /\ pc[s] \in {"commit", "committing", "final"} =>
       seen[s] = <<"SUBMITTED", "WORKING", "ARTIFACT">>
  /\ pc[s] = "done" => seen[s] = FullStream

SeenInOrder == \A s \in Streams : conn[s] => SeenFits(s)

\* Before its worker touches it, a task can only have been canceled.
AnnouncedFresh ==
  \A s \in Streams : pc[s] = "announce" => status[s] \in {"SUBMITTED", "CANCELED"}

\* A cancellation that was noticed is in the store, or is being written there;
\* one that showed in the task event cannot be missed by the test after it.
CancelUnderWay(s) == ~Unlocked /\ writing.task = s /\ writing.state = "CANCELED"
ShownCanceled(s)  == conn[s] /\ seen[s] \in Doomed

NoticedCancelStays ==
  \A s \in Streams :
    /\ pc[s] = "stopped" => status[s] = "CANCELED" \/ CancelUnderWay(s)
    /\ ShownCanceled(s) =>
         /\ pc[s] = "check" => status[s] = "CANCELED" \/ CancelUnderWay(s)
         /\ pc[s] = "test" => status[s] = "CANCELED"

\* After its commit a task has its results, and only a cancel can touch it.
CommittedStays ==
  \A t \in Tasks : pc[t] \in {"final", "done", "fetch", "respond"} =>
    arts[t] /\ status[t] \in Terminal

SendsAnswered ==
  \A p \in Sends : pc[p] = "done" =>
    [state |-> reply[p].state, art |-> reply[p].art] \in SendAnswers(TRUE)

AnswerInv ==
  /\ SeenInOrder
  /\ AnnouncedFresh
  /\ NoticedCancelStays
  /\ CommittedStays
  /\ SendsAnswered
=============================================================================
