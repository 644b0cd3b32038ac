------------------------- MODULE GoAgentTasks_proof -------------------------
(***************************************************************************)
(* Theorems about GoAgentTasks, for any requests and any number of phases. *)
(***************************************************************************)
EXTENDS GoAgentTasks, SequenceTheorems, TLAPS

(* What the unlocked reads can give.                                       *)

LEMMA ReadStateType ==
  ASSUME TypeOK, NEW t \in Tasks
  PROVE  /\ ReadState(t) \subseteq Shown
         /\ status[t] # "none" => ReadState(t) \subseteq TaskStates
  BY DEF TypeOK, ReadState, Shown, States, TaskStates, Writes

LEMMA ReadArtifactsType ==
  ASSUME TypeOK, NEW t \in Tasks
  PROVE  /\ ReadArtifacts(t) \subseteq BOOLEAN
         /\ arts[t] => \A b \in ReadArtifacts(t) : b = TRUE
  BY DEF TypeOK, ReadArtifacts

\* Who reads COMPLETED finds the results there from then on.
LEMMA CompletedReadHasResult ==
  ASSUME TypeOK, WriterKnown, CompletedHasResult, NEW t \in Tasks,
         "COMPLETED" \in ReadState(t)
  PROVE  arts[t]
<1>1. CASE status[t] = "COMPLETED"
  BY <1>1 DEF CompletedHasResult
<1>2. CASE /\ ~Unlocked /\ writing.task = t
           /\ writing.field = "status" /\ writing.state = "COMPLETED"
  BY <1>2 DEF WriterKnown, Assigns
<1>3. QED
  BY <1>1, <1>2 DEF ReadState, Unlocked

-----------------------------------------------------------------------------
(* The helpers keep the types.                                             *)

LEMMA GotoType ==
  ASSUME TypeOK, NEW p \in Procs, NEW from, NEW to \in Locations, Goto(p, from, to)
  PROVE  pc' \in [Procs -> Locations]
  BY DEF TypeOK, Goto

LEMMA StartUpdateType ==
  ASSUME TypeOK, NEW p \in Procs, NEW t \in Tasks, NEW field \in {"artifacts", "status"},
         NEW s \in States, StartUpdate(p, t, field, s)
  PROVE  writing' \in Writes /\ UNCHANGED <<status, arts>>
  BY DEF StartUpdate, Writes

LEMMA EmitType ==
  ASSUME TypeOK, NEW s \in Streams, NEW e \in EventKinds,
         NEW from, NEW to \in Locations, Emit(s, e, from, to)
  PROVE  pc' \in [Procs -> Locations] /\ seen' \in [Streams -> Seq(EventKinds)]
<1> s \in Procs
  BY DEF Procs, Workers, Tasks
<1> "gone" \in Locations
  BY DEF Locations, Ended
<1>1. CASE Goto(s, from, to) /\ UNCHANGED seen
  BY <1>1, GotoType DEF TypeOK
<1>2. CASE Goto(s, from, "gone") /\ UNCHANGED seen
  BY <1>2, GotoType DEF TypeOK
<1>3. CASE /\ Goto(s, from, to)
           /\ seen' = [seen EXCEPT ![s] =
                         IF @ # <<>> /\ @[Len(@)] = e THEN @ ELSE Append(@, e)]
  <2>1. seen[s] \in Seq(EventKinds)
    BY DEF TypeOK
  <2>2. Append(seen[s], e) \in Seq(EventKinds)
    BY <2>1
  <2>3. QED
    BY <1>3, <2>1, <2>2, GotoType DEF TypeOK
<1>4. QED
  BY <1>1, <1>2, <1>3 DEF Emit

LEMMA Sorts ==
  /\ Streams \subseteq Tasks /\ Sends \subseteq Tasks
  /\ Tasks \subseteq Procs /\ Visitors \subseteq Procs
  /\ Cancels \subseteq Visitors /\ Subscribers \subseteq Visitors /\ Gets \subseteq Visitors
  /\ Tasks \cap Visitors = {}
  BY GoAgentAssumption DEF Procs, Workers, Visitors, Tasks

LEMMA FeedEdits ==
  ASSUME TypeOK, NEW p \in Subscribers, NEW r \in Shown, NEW b \in BOOLEAN,
         \/ feed' = [feed EXCEPT ![p].shown = r]
         \/ feed' = [feed EXCEPT ![p].replayed = b]
         \/ feed' = [feed EXCEPT ![p].final = b]
         \/ feed' = [feed EXCEPT ![p].last = r]
         \/ UNCHANGED feed
  PROVE  feed' \in [Subscribers ->
                      [shown : Shown, replayed : BOOLEAN, final : BOOLEAN, last : Shown]]
<1> DEFINE Feeds == [shown : Shown, replayed : BOOLEAN, final : BOOLEAN, last : Shown]
<1>1. feed \in [Subscribers -> Feeds]
  BY DEF TypeOK
<1>2. \A f \in Feeds : /\ [f EXCEPT !.shown = r] \in Feeds
                       /\ [f EXCEPT !.replayed = b] \in Feeds
                       /\ [f EXCEPT !.final = b] \in Feeds
                       /\ [f EXCEPT !.last = r] \in Feeds
  OBVIOUS
<1> HIDE DEF Feeds
<1>3. feed[p] \in Feeds
  BY <1>1
<1>4. \A g \in Feeds : [feed EXCEPT ![p] = g] \in [Subscribers -> Feeds]
  BY <1>1
<1>5. feed' \in [Subscribers -> Feeds]
  BY <1>1, <1>2, <1>3, <1>4
<1>6. QED
  BY <1>5 DEF Feeds

\* The invariant gives the types what they need of the other variables.
LEMMA StepType ==
  ASSUME TypeOK, StoredOnceCreated, TargetStored, NEW p \in Procs, Step(p)
  PROVE  TypeOK'
<1> USE Sorts
<1>1. CASE p \in Streams /\ Announce(p)
  <2>1. pc[p] = "announce" /\ status[p] # "none"
    BY <1>1 DEF Announce, Emit, Goto, StoredOnceCreated
  <2>2. PICK r \in ReadState(p) : Emit(p, r, "announce", "check")
    BY <1>1 DEF Announce
  <2>3. r \in EventKinds /\ "check" \in Locations
    BY <1>1, <2>1, <2>2, ReadStateType DEF EventKinds, Locations
  <2>4. QED
    BY <1>1, <2>2, <2>3, EmitType DEF Announce, TypeOK, taskVars, replyVars
<1>2. CASE p \in Streams /\ CheckCanceled(p)
  BY <1>2 DEF CheckCanceled, Goto, TypeOK, Locations, taskVars, streamVars, replyVars
<1>3. CASE p \in Streams /\ TestCanceled(p)
  BY <1>3 DEF TestCanceled, Goto, TypeOK, Locations, Ended, taskVars, streamVars, replyVars
<1>4. CASE p \in Streams /\ StartWorking(p)
  <2>1. "working" \in Locations /\ "WORKING" \in States
    BY DEF Locations, Updating, States, TaskStates
  <2>2. QED
    BY <1>4, <2>1, StartUpdateType, GotoType DEF StartWorking, TypeOK, streamVars, replyVars
<1>5. CASE p \in Streams /\ ReportWorking(p)
  <2>1. "WORKING" \in EventKinds
    BY DEF EventKinds, TaskStates
  <2>2. (IF phase[p] < NumPhases THEN "check" ELSE "produce") \in Locations
    BY DEF Locations
  <2>3. pc' \in [Procs -> Locations] /\ seen' \in [Streams -> Seq(EventKinds)]
    BY <1>5, <2>1, <2>2, EmitType DEF ReportWorking
  <2>4. phase' \in [Streams -> 1..NumPhases]
    BY <1>5, GoAgentAssumption DEF ReportWorking, TypeOK
  <2>5. QED
    BY <1>5, <2>3, <2>4 DEF ReportWorking, TypeOK, taskVars, replyVars
<1>6. CASE p \in Streams /\ EmitArtifact(p)
  <2>1. "ARTIFACT" \in EventKinds /\ "commit" \in Locations
    BY DEF EventKinds, Locations
  <2>2. QED
    BY <1>6, <2>1, EmitType DEF EmitArtifact, TypeOK, taskVars, replyVars
<1>7. CASE p \in Streams /\ EmitFinal(p)
  <2>1. "COMPLETED" \in EventKinds /\ "done" \in Locations
    BY DEF EventKinds, TaskStates, Locations, Ended
  <2>2. QED
    BY <1>7, <2>1, EmitType DEF EmitFinal, TypeOK, taskVars, replyVars
<1>8. CASE p \in Workers /\ StartCommit(p)
  <2>1. "committing" \in Locations /\ "COMPLETED" \in States /\ p \in Tasks
    BY <1>8 DEF Locations, Updating, States, TaskStates, Workers
  <2>2. QED
    BY <1>8, <2>1, StartUpdateType, GotoType DEF StartCommit, TypeOK, streamVars, replyVars
<1>9. CASE p \in Sends /\ Fetch(p)
  BY <1>9 DEF Fetch, Goto, TypeOK, Locations, taskVars, streamVars, replyVars
<1>10. CASE p \in Sends /\ Respond(p)
  <2>1. PICK r \in ReadState(p), b \in ReadArtifacts(p) :
          reply' = [reply EXCEPT ![p] = [state |-> r, art |-> b]]
    BY <1>10 DEF Respond
  <2>2. r \in Shown /\ b \in BOOLEAN
    BY <1>10, <2>1, ReadStateType, ReadArtifactsType
  <2>3. reply' \in [Repliers -> [state : Shown, art : BOOLEAN]]
    BY <2>1, <2>2 DEF TypeOK
  <2>4. "done" \in Locations
    BY DEF Locations, Ended
  <2>5. QED
    BY <1>10, <2>3, <2>4, GotoType DEF Respond, TypeOK, taskVars, streamVars
<1>11. CASE p \in Cancels /\ DecideCancel(p)
  <2>1. "done" \in Locations /\ "cancel" \in Locations
    BY DEF Locations, Ended
  <2>2. \/ Leave(p, "decide")
        \/ Goto(p, "decide", "cancel") /\ UNCHANGED target
    BY <1>11 DEF DecideCancel
  <2>3. pc' \in [Procs -> Locations] /\ target' \in [Visitors -> Tasks \cup {NoTask}]
    BY <1>11, <2>1, <2>2, GotoType DEF Leave, TypeOK
  <2>4. QED
    BY <1>11, <2>3 DEF DecideCancel, TypeOK, taskVars, streamVars
<1>12. CASE p \in Cancels /\ StartCancel(p)
  <2>1. target[p] \in Tasks
    BY <1>12 DEF StartCancel, Goto, TargetStored
  <2>2. "canceling" \in Locations /\ "CANCELED" \in States
    BY DEF Locations, Updating, States, TaskStates
  <2>3. QED
    BY <1>12, <2>1, <2>2, StartUpdateType, GotoType
    DEF StartCancel, TypeOK, streamVars, replyVars
<1>13. CASE p \in Cancels \cup Gets /\ EncodeState(p)
  <2>1. target[p] \in Tasks
    BY <1>13 DEF EncodeState, Goto, TargetStored
  <2>2. PICK r \in ReadState(target[p]) : reply' = [reply EXCEPT ![p].state = r]
    BY <1>13 DEF EncodeState
  <2>3. r \in Shown
    BY <2>1, <2>2, ReadStateType
  <2>4. reply' \in [Repliers -> [state : Shown, art : BOOLEAN]]
    BY <2>2, <2>3 DEF TypeOK
  <2>5. "results" \in Locations
    BY DEF Locations
  <2>6. QED
    BY <1>13, <2>4, <2>5, GotoType DEF EncodeState, TypeOK, taskVars, streamVars
<1>14. CASE p \in Cancels \cup Gets /\ EncodeArtifacts(p)
  <2>1. target[p] \in Tasks
    BY <1>14 DEF EncodeArtifacts, Leave, Goto, TargetStored
  <2>2. PICK b \in ReadArtifacts(target[p]) : reply' = [reply EXCEPT ![p].art = b]
    BY <1>14 DEF EncodeArtifacts
  <2>3. b \in BOOLEAN
    BY <2>1, <2>2, ReadArtifactsType
  <2>4. reply' \in [Repliers -> [state : Shown, art : BOOLEAN]]
    BY <2>2, <2>3 DEF TypeOK
  <2>5. "done" \in Locations
    BY DEF Locations, Ended
  <2>6. QED
    BY <1>14, <2>4, <2>5, GotoType DEF EncodeArtifacts, Leave, TypeOK, taskVars, streamVars
<1>15. CASE p \in Subscribers /\ SubscribeStep(p)
  <2>1. pc[p] \notin {"idle", "done"} => ReadState(target[p]) \subseteq Shown
    BY <1>15, ReadStateType DEF TargetStored
  <2>2. pc[p] \notin {"idle", "done"} => ReadArtifacts(target[p]) \subseteq BOOLEAN
    BY <1>15, ReadArtifactsType DEF TargetStored
  <2>3. {"artifacts", "completed", "canceled", "last", "done"} \subseteq Locations
    BY DEF Locations, Ended
  <2>4. TRUE \in BOOLEAN /\ "none" \in Shown
    BY DEF Shown
  <2>5. CASE ReplayTask(p)
    <3>1. feed' \in [Subscribers ->
                       [shown : Shown, replayed : BOOLEAN, final : BOOLEAN, last : Shown]]
      BY <1>15, <2>1, <2>4, <2>5, FeedEdits DEF ReplayTask, Goto
    <3>2. QED
      BY <1>15, <2>3, <2>5, <3>1, GotoType DEF ReplayTask, TypeOK, taskVars, streamVars
  <2>6. CASE ReplayArtifacts(p)
    <3>1. feed' \in [Subscribers ->
                       [shown : Shown, replayed : BOOLEAN, final : BOOLEAN, last : Shown]]
      BY <1>15, <2>2, <2>4, <2>6, FeedEdits DEF ReplayArtifacts, Goto
    <3>2. QED
      BY <1>15, <2>3, <2>6, <3>1, GotoType DEF ReplayArtifacts, TypeOK, taskVars, streamVars
  <2>7. ASSUME NEW from, NEW s, NEW to \in {"canceled", "last"}, LooksEnded(p, from, s, to)
        PROVE  TypeOK'
    <3>1. feed' \in [Subscribers ->
                       [shown : Shown, replayed : BOOLEAN, final : BOOLEAN, last : Shown]]
      BY <1>15, <2>4, <2>7, FeedEdits DEF LooksEnded
    <3>2. Goto(p, from, "last") \/ Goto(p, from, to)
      BY <2>7 DEF LooksEnded
    <3>3. pc' \in [Procs -> Locations]
      BY <1>15, <2>3, <3>2, GotoType
    <3>4. QED
      BY <2>7, <3>1, <3>3 DEF LooksEnded, TypeOK, taskVars, streamVars
  <2>8. CASE ReplayStatus(p)
    <3>1. feed' \in [Subscribers ->
                       [shown : Shown, replayed : BOOLEAN, final : BOOLEAN, last : Shown]]
      BY <1>15, <2>1, <2>4, <2>8, FeedEdits DEF ReplayStatus, Leave, Goto
    <3>2. pc' \in [Procs -> Locations] /\ target' \in [Visitors -> Tasks \cup {NoTask}]
      BY <1>15, <2>3, <2>8, GotoType DEF ReplayStatus, Leave, TypeOK
    <3>3. QED
      BY <2>8, <3>1, <3>2 DEF ReplayStatus, TypeOK, taskVars, streamVars
  <2>9. QED
    BY <1>15, <2>5, <2>6, <2>7, <2>8 DEF SubscribeStep, LooksCompleted, LooksCanceled
<1>16. CASE ArtifactsWritten(p)
  <2>1. writing \in Writes
    BY <1>16 DEF ArtifactsWritten, Unlocked, TypeOK
  <2>2. [writing EXCEPT !.field = "status"] \in Writes
    BY <2>1 DEF Writes
  <2>3. arts' \in [Tasks -> BOOLEAN]
    BY <1>16, <2>1 DEF ArtifactsWritten, TypeOK, Writes
  <2>4. QED
    BY <1>16, <2>2, <2>3 DEF ArtifactsWritten, TypeOK, streamVars, replyVars
<1>17. CASE StatusWritten(p)
  <2>1. writing \in Writes
    BY <1>17 DEF StatusWritten, Unlocked, TypeOK
  <2>2. AfterUpdate(p) \in Locations
    BY DEF AfterUpdate, Locations
  <2>3. status' \in [Tasks -> States \cup {"none"}]
    BY <1>17, <2>1 DEF StatusWritten, TypeOK, Writes
  <2>4. QED
    BY <1>17, <2>2, <2>3 DEF StatusWritten, TypeOK, streamVars, replyVars
<1>18. QED
  BY <1>1, <1>2, <1>3, <1>4, <1>5, <1>6, <1>7, <1>8, <1>9, <1>10, <1>11, <1>12,
     <1>13, <1>14, <1>15, <1>16, <1>17 DEF Step, StreamStep, CancelStep

LEMMA NextType ==
  ASSUME TypeOK, StoredOnceCreated, TargetStored, [Next]_vars
  PROVE  TypeOK'
<1> USE Sorts
<1>1. ASSUME NEW t \in Tasks, Create(t) PROVE TypeOK'
  BY <1>1 DEF Create, Put, Goto, TypeOK, Locations, States, TaskStates, streamVars, replyVars
<1>2. ASSUME NEW p \in Visitors, Lookup(p) PROVE TypeOK'
  <2>1. \E t \in Tasks : \E to \in Locations :
          Goto(p, "idle", to) /\ (UNCHANGED target \/ target' = [target EXCEPT ![p] = t])
    BY <1>2 DEF Lookup, Locations, Ended
  <2>2. pc' \in [Procs -> Locations] /\ target' \in [Visitors -> Tasks \cup {NoTask}]
    BY <2>1, GotoType DEF TypeOK
  <2>3. QED
    BY <1>2, <2>2 DEF Lookup, TypeOK, taskVars, streamVars
<1>3. ASSUME NEW s \in Streams, ClientLeaves(s) PROVE TypeOK'
  BY <1>3 DEF ClientLeaves, TypeOK, taskVars, replyVars
<1>4. ASSUME UNCHANGED vars PROVE TypeOK'
  BY <1>4 DEF vars, taskVars, streamVars, replyVars, TypeOK
<1>5. QED
  BY <1>1, <1>2, <1>3, <1>4, StepType DEF Next

\* Type correctness and the invariant are inductive together.
Inv == TypeOK /\ IInv

LEMMA InvInit == Init => Inv
<1> SUFFICES ASSUME Init PROVE Inv
  OBVIOUS
<1>1. TypeOK
  BY GoAgentAssumption
  DEF Init, TypeOK, Locations, States, TaskStates, NoReply, NoFeed, Shown
<1>2. IInv
  BY Sorts DEF Init, IInv, StoredOnceCreated, TargetStored, NoResultBeforeCommit,
     WriterKnown, Unlocked, CompletedHasResult, EncodedInOrder, ReplayedInOrder,
     NoReply, NoFeed, Repliers
<1>3. QED
  BY <1>1, <1>2 DEF Inv

-----------------------------------------------------------------------------
(* Steps that leave the store and the visitors' results alone.             *)

\* The task variables of the invariant are untouched when only pc moves.
LEMMA MoveKeeps ==
  ASSUME Inv, NEW p \in Tasks, NEW from, NEW to, Goto(p, from, to),
         UNCHANGED <<taskVars, replyVars>>,
         from \notin Updating \cup {"idle"}, to # "idle", p \in Sends => to # "done",
         to \in BeforeCommit \ {"gone"} => from \in BeforeCommit \ {"gone"}
  PROVE  IInv'
<1> USE Sorts DEF Inv, TypeOK, Goto
<1>0. /\ pc[p] = from /\ pc' = [pc EXCEPT ![p] = to]
      /\ UNCHANGED <<status, arts, writing, target, reply, feed>>
  BY DEF taskVars, replyVars
<1>1. StoredOnceCreated'
  BY <1>0 DEF IInv, StoredOnceCreated
<1>2. TargetStored'
  BY <1>0 DEF IInv, TargetStored
<1>3. NoResultBeforeCommit'
  BY <1>0 DEF IInv, NoResultBeforeCommit
<1>4. WriterKnown'
  BY <1>0 DEF IInv, WriterKnown, Unlocked, Assigns, Updating
<1>5. CompletedHasResult'
  BY <1>0 DEF IInv, CompletedHasResult
<1>6. EncodedInOrder'
  BY <1>0 DEF IInv, EncodedInOrder, Repliers
<1>7. ReplayedInOrder'
  BY <1>0 DEF IInv, ReplayedInOrder
<1>8. QED
  BY <1>1, <1>2, <1>3, <1>4, <1>5, <1>6, <1>7 DEF IInv

LEMMA EmitMoves ==
  ASSUME NEW s, NEW e, NEW from, NEW to, Emit(s, e, from, to)
  PROVE  Goto(s, from, to) \/ Goto(s, from, "gone")
  BY DEF Emit

LEMMA StreamMoves ==
  ASSUME Inv, NEW p \in Streams,
         \/ Announce(p) \/ CheckCanceled(p) \/ TestCanceled(p)
         \/ ReportWorking(p) \/ EmitArtifact(p) \/ EmitFinal(p)
  PROVE  IInv'
<1> USE Sorts
<1>1. /\ UNCHANGED <<taskVars, replyVars>>
      /\ \/ \E to \in {"check", "gone"} : Goto(p, "announce", to)
         \/ Goto(p, "check", "test")
         \/ \E to \in {"stopped", "work"} : Goto(p, "test", to)
         \/ \E to \in {"check", "produce", "gone"} : Goto(p, "report", to)
         \/ \E to \in {"commit", "gone"} : Goto(p, "produce", to)
         \/ \E to \in {"done", "gone"} : Goto(p, "final", to)
  BY EmitMoves DEF Announce, CheckCanceled, TestCanceled, ReportWorking, EmitArtifact,
     EmitFinal
<1>2. PICK from, to :
        /\ Goto(p, from, to)
        /\ \/ from \in {"announce", "check", "test", "report", "produce"}
           \/ from = "final" /\ to \in {"done", "gone"}
        /\ to # "idle"
  BY <1>1
<1>3. p \notin Sends
  BY GoAgentAssumption
<1>4. QED
  BY <1>1, <1>2, <1>3, MoveKeeps DEF Updating, BeforeCommit

LEMMA FetchMoves ==
  ASSUME Inv, NEW p \in Sends, Fetch(p)
  PROVE  IInv'
<1>1. Goto(p, "fetch", "respond") /\ UNCHANGED <<taskVars, replyVars>>
  BY DEF Fetch
<1>2. QED
  BY <1>1, Sorts, MoveKeeps DEF Updating, BeforeCommit

LEMMA ClientLeavesKeeps ==
  ASSUME Inv, NEW s \in Streams, ClientLeaves(s)
  PROVE  IInv'
<1>1. UNCHANGED <<pc, status, arts, writing, target, reply, feed>>
  BY DEF ClientLeaves, taskVars, replyVars
<1>2. QED
  BY <1>1 DEF Inv, IInv, StoredOnceCreated, TargetStored, NoResultBeforeCommit,
     WriterKnown, Unlocked, Assigns, CompletedHasResult, EncodedInOrder, ReplayedInOrder

LEMMA StutterKeeps ==
  ASSUME Inv, UNCHANGED vars
  PROVE  IInv'
  BY DEF vars, taskVars, replyVars, streamVars, Inv, IInv, StoredOnceCreated, TargetStored,
     NoResultBeforeCommit, WriterKnown, Unlocked, Assigns, CompletedHasResult,
     EncodedInOrder, ReplayedInOrder

-----------------------------------------------------------------------------
(* Steps on the store.                                                     *)

LEMMA CreateKeeps ==
  ASSUME Inv, NEW t \in Tasks, Create(t)
  PROVE  IInv'
<1> USE Sorts DEF Inv, TypeOK
<1>0. /\ Unlocked
      /\ status' = [status EXCEPT ![t] = "SUBMITTED"]
      /\ pc[t] = "idle"
      /\ \E to \in {"announce", "commit"} : pc' = [pc EXCEPT ![t] = to]
      /\ UNCHANGED <<arts, writing, target, reply, feed>>
  BY DEF Create, Put, Goto, replyVars
<1>1. StoredOnceCreated'
  BY <1>0 DEF IInv, StoredOnceCreated
<1>2. TargetStored'
  BY <1>0 DEF IInv, TargetStored
<1>3. NoResultBeforeCommit'
  BY <1>0 DEF IInv, NoResultBeforeCommit, BeforeCommit
<1>4. WriterKnown'
  BY <1>0 DEF WriterKnown, Unlocked
<1>5. CompletedHasResult'
  BY <1>0 DEF IInv, CompletedHasResult
<1>6. EncodedInOrder'
  BY <1>0 DEF IInv, EncodedInOrder, Repliers
<1>7. ReplayedInOrder'
  BY <1>0 DEF IInv, ReplayedInOrder
<1>8. QED
  BY <1>1, <1>2, <1>3, <1>4, <1>5, <1>6, <1>7 DEF IInv

\* Entering Update, for one of the three reasons there are.
LEMMA StartKeeps ==
  ASSUME Inv, NEW p \in Procs,
         \/ p \in Streams /\ StartWorking(p)
         \/ p \in Tasks /\ StartCommit(p)
         \/ p \in Cancels /\ StartCancel(p)
  PROVE  IInv'
<1> USE Sorts DEF Inv, TypeOK
<1>0. /\ Unlocked
      /\ UNCHANGED <<status, arts, target, reply, feed>>
      /\ \E t, f, s : writing' = [by |-> p, task |-> t, field |-> f, state |-> s]
      /\ pc[p] \in {"work", "commit", "cancel"}
      /\ \E to \in Updating : pc' = [pc EXCEPT ![p] = to]
      /\ pc'[p] = "working" => pc[p] = "work"
  BY DEF StartWorking, StartCommit, StartCancel, StartUpdate, Goto, replyVars, Updating
<1>1. StoredOnceCreated'
  BY <1>0 DEF IInv, StoredOnceCreated, Updating
<1>2. TargetStored'
  BY <1>0 DEF IInv, TargetStored
<1>3. NoResultBeforeCommit'
  BY <1>0 DEF IInv, NoResultBeforeCommit, BeforeCommit, Updating
<1>4. WriterKnown'
  <2>1. CASE p \in Streams /\ StartWorking(p)
    BY <2>1 DEF StartWorking, StartUpdate, Goto, WriterKnown, Assigns, Unlocked
  <2>2. CASE p \in Tasks /\ StartCommit(p)
    BY <2>2 DEF StartCommit, StartUpdate, Goto, WriterKnown, Assigns, Unlocked
  <2>3. CASE p \in Cancels /\ StartCancel(p)
    BY <1>0, <2>3 DEF StartCancel, StartUpdate, Goto, WriterKnown, Assigns, Unlocked
  <2>4. QED
    BY <2>1, <2>2, <2>3
<1>5. CompletedHasResult'
  BY <1>0 DEF IInv, CompletedHasResult
<1>6. EncodedInOrder'
  BY <1>0 DEF IInv, EncodedInOrder, Repliers, Updating
<1>7. ReplayedInOrder'
  BY <1>0, GoAgentAssumption DEF IInv, ReplayedInOrder, Updating
<1>8. QED
  BY <1>1, <1>2, <1>3, <1>4, <1>5, <1>6, <1>7 DEF IInv

LEMMA ArtifactsWrittenKeeps ==
  ASSUME Inv, NEW p \in Procs, ArtifactsWritten(p)
  PROVE  IInv'
<1> USE Sorts DEF Inv, TypeOK
<1>1. /\ p \in Tasks /\ pc[p] = "committing"
      /\ Assigns(p, p, {"artifacts"}, "COMPLETED")
      /\ ~Unlocked /\ writing.by = p /\ writing \in Writes
  BY DEF ArtifactsWritten, IInv, WriterKnown, Assigns, Unlocked
<1>2. /\ arts' = [arts EXCEPT ![p] = TRUE]
      /\ writing' = [writing EXCEPT !.field = "status"]
      /\ UNCHANGED <<pc, status, target, reply, feed>>
  BY <1>1 DEF ArtifactsWritten, replyVars, Assigns
<1>3. StoredOnceCreated' /\ TargetStored'
  BY <1>2 DEF IInv, StoredOnceCreated, TargetStored
<1>4. NoResultBeforeCommit'
  BY <1>1, <1>2 DEF IInv, NoResultBeforeCommit, BeforeCommit
<1>5. WriterKnown'
  BY <1>1, <1>2 DEF WriterKnown, Assigns, Unlocked, Writes
<1>6. CompletedHasResult'
  BY <1>1, <1>2 DEF IInv, CompletedHasResult
<1>7. EncodedInOrder'
  BY <1>1, <1>2 DEF IInv, EncodedInOrder, TargetStored
<1>8. ReplayedInOrder'
  BY <1>1, <1>2 DEF IInv, ReplayedInOrder, TargetStored
<1>9. QED
  BY <1>3, <1>4, <1>5, <1>6, <1>7, <1>8 DEF IInv

LEMMA StatusWrittenKeeps ==
  ASSUME Inv, NEW p \in Procs, StatusWritten(p)
  PROVE  IInv'
<1> USE Sorts DEF Inv, TypeOK
<1>1. /\ ~Unlocked /\ writing.by = p /\ writing \in Writes
      /\ writing.field = "status"
      /\ \/ /\ p \in Streams /\ pc[p] = "working" /\ writing.task = p
            /\ writing.state = "WORKING"
         \/ /\ p \in Tasks /\ pc[p] = "committing" /\ writing.task = p
            /\ writing.state = "COMPLETED" /\ arts[p]
         \/ /\ p \in Cancels /\ pc[p] = "canceling" /\ writing.task = target[p]
            /\ writing.state = "CANCELED"
  BY DEF StatusWritten, IInv, WriterKnown, Assigns, Unlocked
<1>2. PICK t \in Tasks, s \in {"WORKING", "COMPLETED", "CANCELED"} :
        /\ status' = [status EXCEPT ![t] = s]
        /\ s = "COMPLETED" => arts[t]
        /\ status[t] # "none"
  BY <1>1 DEF StatusWritten, IInv, TargetStored, StoredOnceCreated
<1>3. PICK to \in {"report", "state", "final", "fetch"} :
        /\ pc' = [pc EXCEPT ![p] = to]
        /\ to = "report" => pc[p] = "working"
        /\ to = "state" => p \in Cancels
        /\ to # "state" => p \in Tasks
  BY <1>1 DEF StatusWritten, AfterUpdate
<1>4. writing' = NoWrite /\ UNCHANGED <<arts, target, reply, feed>>
  BY DEF StatusWritten, replyVars
<1>5. StoredOnceCreated'
  BY <1>1, <1>2, <1>3 DEF IInv, StoredOnceCreated
<1>6. TargetStored'
  BY <1>1, <1>2, <1>3, <1>4 DEF IInv, TargetStored
<1>7. NoResultBeforeCommit'
  BY <1>1, <1>3, <1>4 DEF IInv, NoResultBeforeCommit, BeforeCommit
<1>8. WriterKnown'
  BY <1>4 DEF WriterKnown, Unlocked
<1>9. CompletedHasResult'
  BY <1>2, <1>4 DEF IInv, CompletedHasResult
<1>10. EncodedInOrder'
  BY <1>1, <1>3, <1>4 DEF IInv, EncodedInOrder, Repliers
<1>11. ReplayedInOrder'
  BY <1>1, <1>3, <1>4, GoAgentAssumption DEF IInv, ReplayedInOrder
<1>12. QED
  BY <1>5, <1>6, <1>7, <1>8, <1>9, <1>10, <1>11 DEF IInv

-----------------------------------------------------------------------------
(* Steps of the visitors.                                                  *)

\* What a visitor does does not disturb what is known of tasks and writes.
LEMMA VisitKeeps ==
  ASSUME Inv, NEW p \in Visitors, UNCHANGED taskVars,
         NEW to, pc' = [pc EXCEPT ![p] = to],
         pc[p] \notin Updating, to \notin Updating,
         \A q \in Visitors \ {p} : target'[q] = target[q]
  PROVE  /\ StoredOnceCreated' /\ NoResultBeforeCommit'
         /\ WriterKnown' /\ CompletedHasResult'
<1> USE Sorts DEF Inv, TypeOK
<1>1. UNCHANGED <<status, arts, writing>> /\ p \notin Tasks
  BY DEF taskVars
<1>2. \A t \in Tasks : pc'[t] = pc[t]
  BY <1>1
<1>3. StoredOnceCreated' /\ NoResultBeforeCommit' /\ CompletedHasResult'
  BY <1>1, <1>2 DEF IInv, StoredOnceCreated, NoResultBeforeCommit, CompletedHasResult
<1>4. WriterKnown'
  BY <1>1, <1>2 DEF IInv, WriterKnown, Unlocked, Assigns, Updating
<1>5. QED
  BY <1>3, <1>4

LEMMA LookupKeeps ==
  ASSUME Inv, NEW p \in Visitors, Lookup(p)
  PROVE  IInv'
<1> USE Sorts DEF Inv, TypeOK
<1>1. PICK t \in Tasks, to \in {"done", "decide", "state", "replay"} :
        /\ pc[p] = "idle"
        /\ pc' = [pc EXCEPT ![p] = to]
        /\ \/ to = "done" /\ UNCHANGED target
           \/ status[t] # "none" /\ target' = [target EXCEPT ![p] = t]
  BY DEF Lookup, Goto
<1>2. UNCHANGED <<status, arts, writing, reply, feed>> /\ UNCHANGED taskVars
  BY DEF Lookup, taskVars
<1>3. /\ StoredOnceCreated' /\ NoResultBeforeCommit'
      /\ WriterKnown' /\ CompletedHasResult'
  BY <1>1, <1>2, VisitKeeps DEF Updating
<1>4. TargetStored'
  BY <1>1, <1>2 DEF IInv, TargetStored
<1>5. EncodedInOrder'
  BY <1>1, <1>2 DEF IInv, EncodedInOrder, Repliers
<1>6. ReplayedInOrder'
  BY <1>1, <1>2 DEF IInv, ReplayedInOrder
<1>7. QED
  BY <1>3, <1>4, <1>5, <1>6 DEF IInv

LEMMA DecideCancelKeeps ==
  ASSUME Inv, NEW p \in Cancels, DecideCancel(p)
  PROVE  IInv'
<1> USE Sorts DEF Inv, TypeOK
<1>1. PICK to \in {"done", "cancel"} :
        /\ pc[p] = "decide"
        /\ pc' = [pc EXCEPT ![p] = to]
        /\ \/ to = "done" /\ target' = [target EXCEPT ![p] = NoTask]
           \/ to = "cancel" /\ UNCHANGED target
  BY DEF DecideCancel, Leave, Goto
<1>2. UNCHANGED <<status, arts, writing, reply, feed>> /\ UNCHANGED taskVars
  BY DEF DecideCancel, taskVars
<1>3. /\ StoredOnceCreated' /\ NoResultBeforeCommit'
      /\ WriterKnown' /\ CompletedHasResult'
  BY <1>1, <1>2, VisitKeeps DEF Updating
<1>4. TargetStored'
  BY <1>1, <1>2 DEF IInv, TargetStored
<1>5. EncodedInOrder'
  BY <1>1, <1>2 DEF IInv, EncodedInOrder, Repliers
<1>6. ReplayedInOrder'
  BY <1>1, <1>2 DEF IInv, ReplayedInOrder
<1>7. QED
  BY <1>3, <1>4, <1>5, <1>6 DEF IInv

LEMMA RespondKeeps ==
  ASSUME Inv, NEW p \in Sends, Respond(p)
  PROVE  IInv'
<1> USE Sorts DEF Inv, TypeOK
<1>1. PICK r \in ReadState(p), b \in ReadArtifacts(p) :
        reply' = [reply EXCEPT ![p] = [state |-> r, art |-> b]]
  BY DEF Respond
<1>2. /\ pc[p] = "respond" /\ pc' = [pc EXCEPT ![p] = "done"]
      /\ UNCHANGED <<status, arts, writing, target, feed>>
  BY DEF Respond, Goto, taskVars
<1>3. r = "COMPLETED" => b = TRUE
  <2>1. r = "COMPLETED" => arts[p]
    BY <1>1, CompletedReadHasResult DEF IInv
  <2>2. arts[p] => b = TRUE
    BY <1>1, ReadArtifactsType
  <2>3. QED
    BY <2>1, <2>2
<1>4. StoredOnceCreated' /\ TargetStored' /\ NoResultBeforeCommit' /\ CompletedHasResult'
  BY <1>2 DEF IInv, StoredOnceCreated, TargetStored, NoResultBeforeCommit, BeforeCommit,
     CompletedHasResult
<1>5. WriterKnown'
  BY <1>2 DEF IInv, WriterKnown, Unlocked, Assigns
<1>6. EncodedInOrder'
  BY <1>1, <1>2, <1>3 DEF IInv, EncodedInOrder, Repliers
<1>7. ReplayedInOrder'
  BY <1>2 DEF IInv, ReplayedInOrder
<1>8. QED
  BY <1>4, <1>5, <1>6, <1>7 DEF IInv

\* The two reads of the encoder, in the order of the fields.
LEMMA EncodeKeeps ==
  ASSUME Inv, NEW p \in Cancels \cup Gets, EncodeState(p) \/ EncodeArtifacts(p)
  PROVE  IInv'
<1> USE Sorts DEF Inv, TypeOK
<1>1. /\ pc[p] \in {"state", "results"}
      /\ \E to \in {"results", "done"} : pc' = [pc EXCEPT ![p] = to]
      /\ UNCHANGED target \/ target' = [target EXCEPT ![p] = NoTask]
      /\ pc'[p] = "done" \/ UNCHANGED target
      /\ UNCHANGED <<status, arts, writing, feed>> /\ UNCHANGED taskVars
  BY DEF EncodeState, EncodeArtifacts, Leave, Goto, taskVars
<1>2. /\ StoredOnceCreated' /\ NoResultBeforeCommit'
      /\ WriterKnown' /\ CompletedHasResult'
  BY <1>1, VisitKeeps DEF Updating
<1>3. TargetStored'
  BY <1>1 DEF IInv, TargetStored
<1>4. target[p] \in Tasks /\ p \in Repliers /\ p \notin Sends
  BY <1>1 DEF IInv, TargetStored, Repliers
<1>5. EncodedInOrder'
  <2>1. CASE EncodeState(p)
    <3>1. PICK r \in ReadState(target[p]) : reply' = [reply EXCEPT ![p].state = r]
      BY <2>1 DEF EncodeState
    <3>2. r = "COMPLETED" => arts[target[p]]
      BY <1>4, <3>1, CompletedReadHasResult DEF IInv
    <3>3. pc' = [pc EXCEPT ![p] = "results"] /\ UNCHANGED target
      BY <2>1 DEF EncodeState, Goto
    <3>4. QED
      BY <1>1, <1>4, <3>1, <3>2, <3>3 DEF IInv, EncodedInOrder
  <2>2. CASE EncodeArtifacts(p)
    <3>1. PICK b \in ReadArtifacts(target[p]) : reply' = [reply EXCEPT ![p].art = b]
      BY <2>2 DEF EncodeArtifacts
    <3>2. arts[target[p]] => b = TRUE
      BY <1>4, <3>1, ReadArtifactsType
    <3>3. /\ pc[p] = "results" /\ pc' = [pc EXCEPT ![p] = "done"]
          /\ target' = [target EXCEPT ![p] = NoTask]
      BY <2>2 DEF EncodeArtifacts, Leave, Goto
    <3>4. QED
      BY <1>1, <1>4, <3>1, <3>2, <3>3 DEF IInv, EncodedInOrder
  <2>3. QED
    BY <2>1, <2>2
<1>6. ReplayedInOrder'
  BY <1>1, GoAgentAssumption DEF IInv, ReplayedInOrder
<1>7. QED
  BY <1>2, <1>3, <1>5, <1>6 DEF IInv

\* The reads of a replay.
LEMMA SubscribeKeeps ==
  ASSUME Inv, NEW p \in Subscribers, SubscribeStep(p)
  PROVE  IInv'
<1> USE Sorts DEF Inv, TypeOK
<1>1. /\ pc[p] \in {"replay", "artifacts", "completed", "canceled", "last"}
      /\ \E to \in {"artifacts", "completed", "canceled", "last", "done"} :
           pc' = [pc EXCEPT ![p] = to]
      /\ UNCHANGED target \/ target' = [target EXCEPT ![p] = NoTask]
      /\ pc'[p] = "done" \/ UNCHANGED target
      /\ UNCHANGED <<status, arts, writing, reply>> /\ UNCHANGED taskVars
  BY DEF SubscribeStep, ReplayTask, ReplayArtifacts, LooksCompleted, LooksCanceled,
     LooksEnded, ReplayStatus, Leave, Goto, taskVars
<1>2. /\ StoredOnceCreated' /\ NoResultBeforeCommit'
      /\ WriterKnown' /\ CompletedHasResult'
  BY <1>1, VisitKeeps DEF Updating
<1>3. TargetStored'
  BY <1>1 DEF IInv, TargetStored
<1>4. target[p] \in Tasks
  BY <1>1 DEF IInv, TargetStored
<1>5. EncodedInOrder'
  BY <1>1, GoAgentAssumption DEF IInv, EncodedInOrder, Repliers
<1>6. ReplayedInOrder'
  <2>1. CASE ReplayTask(p)
    <3>1. PICK r \in ReadState(target[p]) : feed' = [feed EXCEPT ![p].shown = r]
      BY <2>1 DEF ReplayTask
    <3>2. r = "COMPLETED" => arts[target[p]]
      BY <1>4, <3>1, CompletedReadHasResult DEF IInv
    <3>3. pc' = [pc EXCEPT ![p] = "artifacts"] /\ UNCHANGED target
      BY <2>1 DEF ReplayTask, Goto
    <3>4. QED
      BY <1>1, <3>1, <3>2, <3>3 DEF IInv, ReplayedInOrder
  <2>2. CASE ReplayArtifacts(p)
    <3>1. PICK b \in ReadArtifacts(target[p]) : feed' = [feed EXCEPT ![p].replayed = b]
      BY <2>2 DEF ReplayArtifacts
    <3>2. arts[target[p]] => b = TRUE
      BY <1>4, <3>1, ReadArtifactsType
    <3>3. pc[p] = "artifacts" /\ pc' = [pc EXCEPT ![p] = "completed"] /\ UNCHANGED target
      BY <2>2 DEF ReplayArtifacts, Goto
    <3>4. QED
      BY <1>1, <3>1, <3>2, <3>3 DEF IInv, ReplayedInOrder
  <2>3. CASE LooksCompleted(p) \/ LooksCanceled(p)
    <3>1. /\ pc[p] \in {"completed", "canceled"} /\ UNCHANGED target
          /\ \E to \in {"canceled", "last"} : pc' = [pc EXCEPT ![p] = to]
          /\ UNCHANGED feed \/ feed' = [feed EXCEPT ![p].final = TRUE]
      BY <2>3 DEF LooksCompleted, LooksCanceled, LooksEnded, Goto
    <3>2. \A q \in Subscribers :
            feed'[q].shown = feed[q].shown /\ feed'[q].replayed = feed[q].replayed
      <4>1. CASE feed' = [feed EXCEPT ![p] = [feed[p] EXCEPT !.final = TRUE]]
        BY <4>1
      <4>2. QED
        BY <3>1, <4>1
    <3>3. QED
      BY <1>1, <3>1, <3>2 DEF IInv, ReplayedInOrder
  <2>4. CASE ReplayStatus(p)
    <3>1. /\ pc[p] = "last" /\ pc' = [pc EXCEPT ![p] = "done"]
          /\ target' = [target EXCEPT ![p] = NoTask]
          /\ \E r \in ReadState(target[p]) : feed' = [feed EXCEPT ![p].last = r]
      BY <2>4 DEF ReplayStatus, Leave, Goto
    <3>2. QED
      BY <1>1, <3>1 DEF IInv, ReplayedInOrder
  <2>5. QED
    BY <2>1, <2>2, <2>3, <2>4 DEF SubscribeStep
<1>7. QED
  BY <1>2, <1>3, <1>5, <1>6 DEF IInv

-----------------------------------------------------------------------------
(* The theorems.                                                           *)

LEMMA NextKeeps ==
  ASSUME Inv, [Next]_vars
  PROVE  Inv'
<1>1. TypeOK'
  BY NextType DEF Inv, IInv
<1>2. ASSUME NEW p \in Procs, Step(p) PROVE IInv'
  BY <1>2, StreamMoves, FetchMoves, StartKeeps, DecideCancelKeeps, RespondKeeps,
     EncodeKeeps, SubscribeKeeps, ArtifactsWrittenKeeps, StatusWrittenKeeps
  DEF Step, StreamStep, CancelStep, Workers
<1>3. IInv'
  BY <1>2, CreateKeeps, LookupKeeps, ClientLeavesKeeps, StutterKeeps DEF Next
<1>4. QED
  BY <1>1, <1>3 DEF Inv

\* The invariant that the others follow from: who is inside Update and with
\* what, and that results are stored no earlier than the commit, no later than
\* the completion, and never taken back (tasks.go 22-57, 426-435).
THEOREM Invariance == Spec => []Inv
<1>1. Inv /\ [Next]_vars => Inv'
  BY NextKeeps
<1>2. QED
  BY <1>1, InvInit, PTL DEF Spec

\* Types, whatever requests come to the agent: a handler that got past its
\* lookup has a task of the store (tasks.go 454-460, 496-502, 540-546).
THEOREM TypesCorrect == Spec => []TypeOK
<1>1. Inv => TypeOK
  BY DEF Inv
<1>2. QED
  BY <1>1, Invariance, PTL

\* Nobody is shown a completed task without its results, although the fields
\* are read one by one and outside the mutex (tasks.go 427-429, models.go 61-63).
THEOREM ResultsShown == Spec => []CompletedShowsResult
<1>1. Inv => CompletedShowsResult
  BY GoAgentAssumption
  DEF Inv, IInv, CompletedShowsResult, EncodedInOrder, ReplayedInOrder
<1>2. QED
  BY <1>1, Invariance, PTL

-----------------------------------------------------------------------------
(* Refinement: every step of the agent is one of a task's life, or none.   *)

LEMMA WorkUnchanged ==
  ASSUME TypeOK, NEW p \in Procs, NEW to, pc' = [pc EXCEPT ![p] = to],
         p \in Tasks => (to \in Ended \cup {"idle", "final", "fetch", "respond"}
                           <=> pc[p] \in Ended \cup {"idle", "final", "fetch", "respond"})
  PROVE  UNCHANGED AtWork
  BY Sorts DEF TypeOK, AtWork

\* A worker that goes on, or stops without a result.
LEMMA MoveMaps ==
  ASSUME Inv, NEW p \in Tasks, NEW from, NEW to, Goto(p, from, to),
         UNCHANGED <<status, arts>>,
         from \in {"announce", "check", "test", "report", "produce", "work", "commit"},
         to \notin {"done", "idle", "final", "fetch", "respond"}
  PROVE  [Lifecycle!LifecycleNext]_Lifecycle!lifecycleVars
<1> USE Sorts
<1>0. pc[p] = from /\ pc' = [pc EXCEPT ![p] = to] /\ TypeOK
  BY DEF Goto, Inv
<1>1. CASE to \in Ended
  <2>1. AtWork[p] /\ ~arts[p]
    BY <1>0 DEF AtWork, Ended, Inv, IInv, NoResultBeforeCommit, BeforeCommit
  <2>2. AtWork' = [AtWork EXCEPT ![p] = FALSE]
    BY <1>0, <1>1 DEF AtWork, TypeOK
  <2>3. Lifecycle!Abandon(p)
    BY <2>1, <2>2 DEF Lifecycle!Abandon
  <2>4. QED
    BY <2>3 DEF Lifecycle!LifecycleNext
<1>2. CASE to \notin Ended
  <2>1. UNCHANGED AtWork
    BY <1>0, <1>2, WorkUnchanged DEF Ended
  <2>2. QED
    BY <2>1 DEF Lifecycle!lifecycleVars
<1>3. QED
  BY <1>1, <1>2

\* A step of nobody at work that leaves the store alone.
LEMMA IdleMaps ==
  ASSUME Inv, NEW p \in Procs, NEW to, pc' = [pc EXCEPT ![p] = to],
         UNCHANGED <<status, arts>>,
         \/ p \in Visitors
         \/ /\ pc[p] \in {"final", "fetch", "respond"}
            /\ to \in {"done", "gone", "respond"}
  PROVE  [Lifecycle!LifecycleNext]_Lifecycle!lifecycleVars
<1>1. UNCHANGED AtWork
  BY Sorts, WorkUnchanged DEF Inv, Ended
<1>2. QED
  BY <1>1 DEF Lifecycle!lifecycleVars

LEMMA StreamMaps ==
  ASSUME Inv, NEW p \in Streams, StreamStep(p)
  PROVE  [Lifecycle!LifecycleNext]_Lifecycle!lifecycleVars
<1> USE Sorts
<1>1. UNCHANGED <<status, arts>>
  BY DEF StreamStep, Announce, CheckCanceled, TestCanceled, StartWorking, ReportWorking,
     EmitArtifact, EmitFinal, StartUpdate, taskVars
<1>2. \/ \E to \in {"check", "gone"} : Goto(p, "announce", to)
      \/ Goto(p, "check", "test")
      \/ \E to \in {"stopped", "work"} : Goto(p, "test", to)
      \/ Goto(p, "work", "working")
      \/ \E to \in {"check", "produce", "gone"} : Goto(p, "report", to)
      \/ \E to \in {"commit", "gone"} : Goto(p, "produce", to)
      \/ \E to \in {"done", "gone"} : Goto(p, "final", to)
  BY EmitMoves DEF StreamStep, Announce, CheckCanceled, TestCanceled, StartWorking,
     ReportWorking, EmitArtifact, EmitFinal
<1>3. CASE \E to \in {"done", "gone"} : Goto(p, "final", to)
  BY <1>1, <1>3, IdleMaps DEF Goto
<1>4. CASE \E from \in {"announce", "check", "test", "report", "produce", "work"} :
             \E to \in {"check", "gone", "test", "stopped", "work", "working", "produce",
                        "commit"} : Goto(p, from, to)
  BY <1>1, <1>4, MoveMaps
<1>5. QED
  BY <1>2, <1>3, <1>4

LEMMA WriteMaps ==
  ASSUME Inv, NEW p \in Procs, ArtifactsWritten(p) \/ StatusWritten(p)
  PROVE  [Lifecycle!LifecycleNext]_Lifecycle!lifecycleVars
<1> USE Sorts
<1>1. TypeOK /\ WriterKnown /\ ~Unlocked /\ writing.by = p
  BY DEF Inv, IInv, ArtifactsWritten, StatusWritten
<1>2. CASE ArtifactsWritten(p)
  <2>1. p \in Tasks /\ pc[p] = "committing" /\ writing.task = p
    BY <1>1, <1>2 DEF ArtifactsWritten, WriterKnown, Assigns
  <2>2. AtWork[p] /\ UNCHANGED AtWork
    BY <1>2, <2>1 DEF AtWork, Ended, ArtifactsWritten
  <2>3. Lifecycle!Attach(p)
    BY <1>2, <2>1, <2>2 DEF ArtifactsWritten, Lifecycle!Attach
  <2>4. QED
    BY <2>1, <2>3 DEF Lifecycle!LifecycleNext
<1>3. CASE StatusWritten(p)
  <2>0. /\ status' = [status EXCEPT ![writing.task] = writing.state]
        /\ pc' = [pc EXCEPT ![p] = AfterUpdate(p)]
        /\ writing.field = "status" /\ UNCHANGED arts
    BY <1>3 DEF StatusWritten
  <2>1. CASE p \in Streams /\ pc[p] = "working" /\ Assigns(p, p, {"status"}, "WORKING")
    <3>1. AtWork[p] /\ ~arts[p]
      BY <2>1 DEF AtWork, Ended, Inv, IInv, NoResultBeforeCommit, BeforeCommit
    <3>2. UNCHANGED AtWork
      BY <1>1, <2>0, <2>1, WorkUnchanged DEF AfterUpdate, Ended
    <3>3. Lifecycle!Work(p)
      BY <2>0, <2>1, <3>1, <3>2 DEF Assigns, Lifecycle!Work
    <3>4. QED
      BY <2>1, <3>3 DEF Lifecycle!LifecycleNext
  <2>2. CASE /\ p \in Tasks /\ pc[p] = "committing"
             /\ Assigns(p, p, {"artifacts", "status"}, "COMPLETED") /\ arts[p]
    <3>1. AtWork[p]
      BY <2>2 DEF AtWork, Ended
    <3>2. AfterUpdate(p) \in {"final", "fetch"}
      BY <2>2 DEF AfterUpdate
    <3>3. AtWork' = [AtWork EXCEPT ![p] = FALSE]
      BY <1>1, <2>0, <2>2, <3>2 DEF AtWork, TypeOK
    <3>4. Lifecycle!Complete(p)
      BY <2>0, <2>2, <3>1, <3>3 DEF Assigns, Lifecycle!Complete
    <3>5. QED
      BY <2>2, <3>4 DEF Lifecycle!LifecycleNext
  <2>3. CASE p \in Cancels /\ pc[p] = "canceling" /\ Assigns(p, target[p], {"status"}, "CANCELED")
    <3>1. target[p] \in Tasks /\ status[target[p]] # "none"
      BY <2>3 DEF Inv, IInv, TargetStored
    <3>2. UNCHANGED AtWork
      BY <1>1, <2>0, <2>3, WorkUnchanged
    <3>3. Lifecycle!Cancel(target[p])
      BY <2>0, <2>3, <3>1, <3>2 DEF Assigns, Lifecycle!Cancel
    <3>4. QED
      BY <3>1, <3>3 DEF Lifecycle!LifecycleNext
  <2>4. QED
    BY <1>1, <2>0, <2>1, <2>2, <2>3 DEF WriterKnown
<1>4. QED
  BY <1>2, <1>3

LEMMA VisitMaps ==
  ASSUME Inv, NEW p \in Visitors,
         \/ Lookup(p)
         \/ p \in Cancels /\ CancelStep(p)
         \/ p \in Cancels \cup Gets /\ (EncodeState(p) \/ EncodeArtifacts(p))
         \/ p \in Subscribers /\ SubscribeStep(p)
  PROVE  [Lifecycle!LifecycleNext]_Lifecycle!lifecycleVars
<1>1. UNCHANGED <<status, arts>>
  BY DEF Lookup, CancelStep, DecideCancel, StartCancel, StartUpdate, EncodeState,
     EncodeArtifacts, SubscribeStep, ReplayTask, ReplayArtifacts, LooksCompleted,
     LooksCanceled, LooksEnded, ReplayStatus, taskVars
<1>2. \E to : pc' = [pc EXCEPT ![p] = to]
  BY DEF Lookup, CancelStep, DecideCancel, StartCancel, EncodeState,
     EncodeArtifacts, SubscribeStep, ReplayTask, ReplayArtifacts, LooksCompleted,
     LooksCanceled, LooksEnded, ReplayStatus, Leave, Goto
<1>3. QED
  BY <1>1, <1>2, Sorts, IdleMaps

LEMMA NextMaps ==
  ASSUME Inv, [Next]_vars
  PROVE  [Lifecycle!LifecycleNext]_Lifecycle!lifecycleVars
<1> USE Sorts
<1>1. ASSUME NEW t \in Tasks, Create(t)
      PROVE  [Lifecycle!LifecycleNext]_Lifecycle!lifecycleVars
  <2>1. /\ pc[t] = "idle" /\ status[t] = "none"
        /\ status' = [status EXCEPT ![t] = "SUBMITTED"] /\ UNCHANGED arts
        /\ \E to \in {"announce", "commit"} : pc' = [pc EXCEPT ![t] = to]
    BY <1>1 DEF Create, Put, Goto, Inv, IInv, StoredOnceCreated
  <2>2. AtWork' = [AtWork EXCEPT ![t] = TRUE]
    BY <2>1 DEF AtWork, Ended, Inv, TypeOK
  <2>3. Lifecycle!Submit(t)
    BY <2>1, <2>2 DEF Lifecycle!Submit
  <2>4. QED
    BY <2>3 DEF Lifecycle!LifecycleNext
<1>2. ASSUME NEW p \in Procs, Step(p)
      PROVE  [Lifecycle!LifecycleNext]_Lifecycle!lifecycleVars
  <2>1. CASE p \in Workers /\ StartCommit(p)
    <3>1. p \in Tasks /\ Goto(p, "commit", "committing") /\ UNCHANGED <<status, arts>>
      BY <2>1 DEF StartCommit, StartUpdate, Workers
    <3>2. QED
      BY <3>1, MoveMaps DEF Ended
  <2>2. CASE p \in Sends /\ (Fetch(p) \/ Respond(p))
    <3>1. /\ UNCHANGED <<status, arts>>
          /\ pc[p] \in {"fetch", "respond"}
          /\ \E to \in {"respond", "done"} : pc' = [pc EXCEPT ![p] = to]
      BY <2>2 DEF Fetch, Respond, Goto, taskVars
    <3>2. QED
      BY <3>1, IdleMaps
  <2>3. QED
    BY <1>2, <2>1, <2>2, StreamMaps, WriteMaps, VisitMaps DEF Step
<1>3. CASE (\E s \in Streams : ClientLeaves(s)) \/ UNCHANGED vars
  <2>1. UNCHANGED <<pc, status, arts>>
    BY <1>3 DEF ClientLeaves, vars, taskVars
  <2>2. QED
    BY <2>1 DEF AtWork, Lifecycle!lifecycleVars
<1>4. QED
  BY <1>1, <1>2, <1>3, VisitMaps DEF Next

\* The agent's tasks live as TaskLifecycle says, whoever races whom: a task is
\* completed once, by its worker, after its results were attached, and a cancel
\* is all that can happen to it afterwards (tasks.go 376-451, 540-565).
THEOREM TasksKeepToLifecycle == Spec => ImplementsLifecycle
<1>1. Init => Lifecycle!LifecycleInit
  <2>1. Init => AtWork = [t \in Tasks |-> FALSE]
    BY Sorts DEF Init, AtWork
  <2>2. QED
    BY <2>1 DEF Init, Lifecycle!LifecycleInit
<1>2. Inv /\ [Next]_vars => [Lifecycle!LifecycleNext]_Lifecycle!lifecycleVars
  BY NextMaps
<1>3. QED
  BY <1>1, <1>2, Invariance, PTL DEF Spec, ImplementsLifecycle, Lifecycle!LifecycleSpec

-----------------------------------------------------------------------------
(* The answers of an agent: AnswerInv on top of Inv.                       *)

LEMMA AnswerInit == Init => AnswerInv
  BY Sorts
  DEF Init, AnswerInv, SeenInOrder, SeenFits, AnnouncedFresh, NoticedCancelStays, CommittedStays,
      SendsAnswered

\* A task whose worker is not inside Update is overwritten by cancels only.
LEMMA OnlyCancelsWrite ==
  ASSUME Inv, NEW t \in Tasks, ~Unlocked, writing.task = t,
         pc[t] \notin {"working", "committing"}
  PROVE  /\ writing.by \in Cancels /\ writing.by \notin Tasks
         /\ writing.field = "status" /\ writing.state = "CANCELED"
  BY Sorts DEF Inv, IInv, WriterKnown, Assigns

\* What a read of such a task can give.
LEMMA QuietRead ==
  ASSUME Inv, NEW t \in Tasks, pc[t] \notin {"working", "committing"}
  PROVE  /\ \A r \in ReadState(t) :
              /\ r \in {status[t], "CANCELED", "TORN"}
              /\ r # status[t] => CancelUnderWay(t)
              /\ status[t] = "CANCELED" => r = "CANCELED"
         /\ \A b \in ReadArtifacts(t) : b = arts[t]
<1>1. ~Unlocked /\ writing.task = t => writing.field = "status" /\ writing.state = "CANCELED"
  BY OnlyCancelsWrite
<1>2. QED
  BY <1>1 DEF ReadState, ReadArtifacts, Unlocked, CancelUnderWay

\* A visitor's step that leaves the tasks alone.
LEMMA VisitKeepsAnswers ==
  ASSUME Inv, AnswerInv, NEW p \in Visitors, NEW to, pc' = [pc EXCEPT ![p] = to],
         UNCHANGED <<status, arts, seen, conn>>,
         writing' = writing \/ Unlocked,
         \A q \in Sends : reply'[q] = reply[q]
  PROVE  AnswerInv'
<1> USE Sorts DEF Inv, TypeOK
<1>1. \A t \in Tasks : pc'[t] = pc[t]
  OBVIOUS
<1>2. SeenInOrder'
  BY <1>1 DEF AnswerInv, SeenInOrder, SeenFits
<1>3. AnnouncedFresh' /\ CommittedStays'
  BY <1>1 DEF AnswerInv, AnnouncedFresh, CommittedStays
<1>4. SendsAnswered'
  BY <1>1 DEF AnswerInv, SendsAnswered
<1>5. NoticedCancelStays'
  <2>1. \A s \in Streams : ShownCanceled(s)' = ShownCanceled(s)
    BY DEF ShownCanceled
  <2>2. \A s \in Streams : CancelUnderWay(s) => CancelUnderWay(s)'
    BY DEF CancelUnderWay, Unlocked
  <2>3. QED
    BY <1>1, <2>1, <2>2 DEF AnswerInv, NoticedCancelStays
<1>6. QED
  BY <1>2, <1>3, <1>4, <1>5 DEF AnswerInv

\* A worker's step that leaves the store and what it sent alone.
LEMMA WorkerKeepsAnswers ==
  ASSUME Inv, AnswerInv, NEW p \in Tasks, NEW from, NEW to, Goto(p, from, to),
         UNCHANGED <<status, arts, seen, conn, reply>>,
         writing' = writing \/ Unlocked,
         \/ from = "check" /\ to = "test" /\ Unlocked
         \/ /\ from = "test" /\ to = "stopped"
            /\ status[p] = "CANCELED" \/ CancelUnderWay(p)
         \/ from = "test" /\ to = "work" /\ status[p] # "CANCELED"
         \/ from = "work" /\ to = "working"
         \/ from = "commit" /\ to = "committing"
         \/ from = "fetch" /\ to = "respond"
         \/ p \in Streams /\ ~conn[p] /\ to \in {"check", "produce", "commit", "gone"}
         \/ p \in Streams /\ ~conn[p] /\ from = "final" /\ to \in {"done", "gone"}
  PROVE  AnswerInv'
<1> USE Sorts
<1>0. /\ pc[p] = from /\ pc' = [pc EXCEPT ![p] = to] /\ pc \in [Procs -> Locations]
      /\ Streams \cap Sends = {}
  BY GoAgentAssumption DEF Goto, Inv, TypeOK
<1>1. \A t \in Tasks : pc'[t] = IF t = p THEN to ELSE pc[t]
  BY <1>0
<1>2. SeenInOrder'
  <2> SUFFICES ASSUME NEW s \in Streams, conn[s], pc'[s] # pc[s]
               PROVE  SeenFits(s)'
    BY <1>1 DEF AnswerInv, SeenInOrder, SeenFits
  <2>1. s = p
    BY <1>1
  <2>2. pc[s] = "test" /\ to = "work" => ~ShownCanceled(s)
    BY <1>0, <2>1 DEF AnswerInv, NoticedCancelStays
  <2>3. QED
    BY <1>0, <1>1, <2>1, <2>2 DEF AnswerInv, SeenInOrder, SeenFits, ShownCanceled
<1>3. AnnouncedFresh' /\ CommittedStays'
  BY <1>0, <1>1 DEF AnswerInv, AnnouncedFresh, CommittedStays
<1>4. SendsAnswered'
  BY <1>0, <1>1 DEF AnswerInv, SendsAnswered
<1>5. NoticedCancelStays'
  <2>1. \A s \in Streams : ShownCanceled(s)' = ShownCanceled(s)
    BY DEF ShownCanceled
  <2>2. \A s \in Streams : CancelUnderWay(s) => CancelUnderWay(s)'
    BY DEF CancelUnderWay, Unlocked
  <2>3. Unlocked => \A s \in Streams : ~CancelUnderWay(s)
    BY DEF CancelUnderWay
  <2>4. ~conn[p] => ~ShownCanceled(p)
    BY DEF ShownCanceled
  <2>5. QED
    BY <1>0, <1>1, <2>1, <2>2, <2>3, <2>4 DEF AnswerInv, NoticedCancelStays
<1>6. QED
  BY <1>2, <1>3, <1>4, <1>5 DEF AnswerInv

\* Sequences of a known length, one element longer.
LEMMA AppendToPair ==
  ASSUME NEW a, NEW b, NEW c
  PROVE  Append(<<a, b>>, c) = <<a, b, c>>
<1> DEFINE S == {a, b, c}
<1>1. <<a, b>> \in Seq(S) /\ <<a, b, c>> \in Seq(S) /\ c \in S
  OBVIOUS
<1>2. Append(<<a, b>>, c) \in Seq(S) /\ Len(Append(<<a, b>>, c)) = 3
  BY <1>1
<1>3. \A i \in 1..3 : Append(<<a, b>>, c)[i] = <<a, b, c>>[i]
  BY <1>1, AppendProperties
<1>4. QED
  BY <1>1, <1>2, <1>3, SeqEqual

LEMMA AppendToOne ==
  ASSUME NEW a, NEW b
  PROVE  Append(<<a>>, b) = <<a, b>>
<1> DEFINE S == {a, b}
<1>1. <<a>> \in Seq(S) /\ <<a, b>> \in Seq(S) /\ b \in S
  OBVIOUS
<1>2. Append(<<a>>, b) \in Seq(S) /\ Len(Append(<<a>>, b)) = 2
  BY <1>1
<1>3. \A i \in 1..2 : Append(<<a>>, b)[i] = <<a, b>>[i]
  BY <1>1, AppendProperties
<1>4. QED
  BY <1>1, <1>2, <1>3, SeqEqual

LEMMA AppendToTriple ==
  ASSUME NEW a, NEW b, NEW c, NEW d
  PROVE  Append(<<a, b, c>>, d) = <<a, b, c, d>>
<1> DEFINE S == {a, b, c, d}
<1>1. <<a, b, c>> \in Seq(S) /\ <<a, b, c, d>> \in Seq(S) /\ d \in S
  OBVIOUS
<1>2. Append(<<a, b, c>>, d) \in Seq(S) /\ Len(Append(<<a, b, c>>, d)) = 4
  BY <1>1
<1>3. \A i \in 1..4 : Append(<<a, b, c>>, d)[i] = <<a, b, c, d>>[i]
  BY <1>1, AppendProperties
<1>4. QED
  BY <1>1, <1>2, <1>3, SeqEqual

\* What an event does to what its client has seen.
LEMMA EmitSeen ==
  ASSUME TypeOK, NEW s \in Streams, NEW e, NEW from, NEW to, Emit(s, e, from, to), conn[s]
  PROVE  /\ Goto(s, from, to)
         /\ \A q \in Streams \ {s} : seen'[q] = seen[q]
         /\ seen[s] = <<>> => seen'[s] = <<e>>
         /\ e = "WORKING" /\ seen[s] \in Begun => seen'[s] = <<"SUBMITTED", "WORKING">>
         /\ e = "ARTIFACT" /\ seen[s] = <<"SUBMITTED", "WORKING">> =>
              seen'[s] = <<"SUBMITTED", "WORKING", "ARTIFACT">>
         /\ e = "COMPLETED" /\ seen[s] = <<"SUBMITTED", "WORKING", "ARTIFACT">> =>
              seen'[s] = FullStream
<1>1. Goto(s, from, to)
  BY DEF Emit
<1>2. seen' = [seen EXCEPT ![s] = IF @ # <<>> /\ @[Len(@)] = e THEN @ ELSE Append(@, e)]
  BY DEF Emit
<1>3. /\ \A q \in Streams \ {s} : seen'[q] = seen[q]
      /\ seen'[s] = IF seen[s] # <<>> /\ seen[s][Len(seen[s])] = e THEN seen[s]
                    ELSE Append(seen[s], e)
  BY <1>2 DEF TypeOK
<1>4. seen[s] = <<>> => seen'[s] = <<e>>
  BY <1>3
<1>5. e = "WORKING" /\ seen[s] \in Begun => seen'[s] = <<"SUBMITTED", "WORKING">>
  <2>1. CASE seen[s] = <<"SUBMITTED">>
    BY <1>3, <2>1, AppendToOne
  <2>2. CASE seen[s] = <<"SUBMITTED", "WORKING">>
    BY <1>3, <2>2
  <2>3. QED
    BY <2>1, <2>2 DEF Begun
<1>6. e = "ARTIFACT" /\ seen[s] = <<"SUBMITTED", "WORKING">> =>
        seen'[s] = <<"SUBMITTED", "WORKING", "ARTIFACT">>
  BY <1>3, AppendToPair
<1>7. e = "COMPLETED" /\ seen[s] = <<"SUBMITTED", "WORKING", "ARTIFACT">> =>
        seen'[s] = FullStream
  BY <1>3, AppendToTriple DEF FullStream
<1>8. QED
  BY <1>1, <1>3, <1>4, <1>5, <1>6, <1>7

\* A stream that sends an event to a client that is there.
LEMMA EventKeepsAnswers ==
  ASSUME Inv, AnswerInv, NEW p \in Streams, conn[p], UNCHANGED <<taskVars, conn, reply>>,
         \/ Announce(p) \/ ReportWorking(p) \/ EmitArtifact(p) \/ EmitFinal(p)
  PROVE  AnswerInv'
<1> USE Sorts
<1>0. /\ UNCHANGED <<status, arts, writing>> /\ pc \in [Procs -> Locations] /\ TypeOK
      /\ Streams \cap Sends = {}
  BY GoAgentAssumption DEF Inv, TypeOK, taskVars
<1>1. PICK r, from, to :
        /\ Emit(p, r, from, to)
        /\ \/ from = "announce" /\ to = "check" /\ r \in ReadState(p)
           \/ from = "report" /\ to \in {"check", "produce"} /\ r = "WORKING"
           \/ from = "produce" /\ to = "commit" /\ r = "ARTIFACT"
           \/ from = "final" /\ to = "done" /\ r = "COMPLETED"
  BY DEF Announce, ReportWorking, EmitArtifact, EmitFinal
<1>2. /\ pc[p] = from
      /\ \A t \in Tasks : pc'[t] = IF t = p THEN to ELSE pc[t]
  BY <1>0, <1>1, EmitSeen DEF Goto
<1>3. \A q \in Streams \ {p} : seen'[q] = seen[q]
  BY <1>0, <1>1, EmitSeen
<1>4. from = "announce" =>
        /\ seen'[p] \in Begun \cup Doomed
        /\ seen'[p] \in Doomed => status[p] = "CANCELED" \/ CancelUnderWay(p)
  <2> SUFFICES ASSUME from = "announce"
               PROVE  /\ seen'[p] \in Begun \cup Doomed
                      /\ seen'[p] \in Doomed => status[p] = "CANCELED" \/ CancelUnderWay(p)
    OBVIOUS
  <2>1. seen'[p] = <<r>>
    BY <1>0, <1>1, <1>2, EmitSeen DEF AnswerInv, SeenInOrder, SeenFits
  <2>2. /\ r \in {"SUBMITTED", "CANCELED", "TORN"}
        /\ r # "SUBMITTED" => status[p] = "CANCELED" \/ CancelUnderWay(p)
    BY <1>1, <1>2, QuietRead DEF AnswerInv, AnnouncedFresh
  <2>3. r = "SUBMITTED" => seen'[p] \notin Doomed
    BY <2>1 DEF Doomed
  <2>4. seen'[p] \in Begun \cup Doomed
    BY <2>1, <2>2 DEF Begun, Doomed
  <2>5. QED
    BY <2>2, <2>3, <2>4
<1>5. /\ from = "report" => seen'[p] = <<"SUBMITTED", "WORKING">>
      /\ from = "produce" => seen'[p] = <<"SUBMITTED", "WORKING", "ARTIFACT">>
      /\ from = "final" => seen'[p] = FullStream
  BY <1>0, <1>1, <1>2, EmitSeen DEF AnswerInv, SeenInOrder, SeenFits
<1>6. SeenInOrder'
  <2> SUFFICES ASSUME NEW s \in Streams, conn[s]
               PROVE  SeenFits(s)'
    BY DEF SeenInOrder
  <2>1. CASE s = p
    BY <1>1, <1>2, <1>4, <1>5, <2>1 DEF SeenFits, Begun
  <2>2. CASE s # p
    BY <1>2, <1>3, <2>2 DEF AnswerInv, SeenInOrder, SeenFits
  <2>3. QED
    BY <2>1, <2>2
<1>7. AnnouncedFresh' /\ CommittedStays'
  BY <1>0, <1>1, <1>2 DEF AnswerInv, AnnouncedFresh, CommittedStays
<1>8. SendsAnswered'
  BY <1>0, <1>2 DEF AnswerInv, SendsAnswered
<1>9. NoticedCancelStays'
  <2>1. \A s \in Streams \ {p} : ShownCanceled(s)' = ShownCanceled(s)
    BY <1>3 DEF ShownCanceled
  <2>2. \A s \in Streams : CancelUnderWay(s)' = CancelUnderWay(s)
    BY <1>0 DEF CancelUnderWay, Unlocked
  <2>3. ShownCanceled(p)' /\ from \in {"announce", "report"} =>
          from = "announce" /\ (status[p] = "CANCELED" \/ CancelUnderWay(p))
    BY <1>4, <1>5 DEF ShownCanceled, Doomed
  <2>4. QED
    BY <1>0, <1>1, <1>2, <2>1, <2>2, <2>3 DEF AnswerInv, NoticedCancelStays
<1>10. QED
  BY <1>6, <1>7, <1>8, <1>9 DEF AnswerInv

\* A stream's own steps that are no writes.
LEMMA StreamKeepsAnswers ==
  ASSUME Inv, AnswerInv, NEW p \in Streams,
         \/ Announce(p) \/ CheckCanceled(p) \/ TestCanceled(p)
         \/ ReportWorking(p) \/ EmitArtifact(p) \/ EmitFinal(p)
  PROVE  AnswerInv'
<1> USE Sorts
<1>0. UNCHANGED <<taskVars, conn, reply>> /\ UNCHANGED <<status, arts, writing>>
  BY DEF Announce, CheckCanceled, TestCanceled, ReportWorking, EmitArtifact, EmitFinal,
     taskVars, streamVars, replyVars
<1>1. CASE CheckCanceled(p)
  BY <1>0, <1>1, WorkerKeepsAnswers DEF CheckCanceled, streamVars
<1>2. CASE TestCanceled(p)
  <2>1. PICK r \in ReadState(p) : Goto(p, "test", IF r = "CANCELED" THEN "stopped" ELSE "work")
    BY <1>2 DEF TestCanceled
  <2>2. /\ r = "CANCELED" => status[p] = "CANCELED" \/ CancelUnderWay(p)
        /\ r # "CANCELED" => status[p] # "CANCELED"
    BY <2>1, QuietRead DEF Goto
  <2>3. UNCHANGED seen
    BY <1>2 DEF TestCanceled, streamVars
  <2>4. QED
    BY <1>0, <2>1, <2>2, <2>3, WorkerKeepsAnswers
<1>3. CASE /\ Announce(p) \/ ReportWorking(p) \/ EmitArtifact(p) \/ EmitFinal(p)
           /\ conn[p]
  BY <1>0, <1>3, EventKeepsAnswers
<1>4. CASE /\ Announce(p) \/ ReportWorking(p) \/ EmitArtifact(p) \/ EmitFinal(p)
           /\ ~conn[p]
  <2>1. /\ UNCHANGED seen
        /\ \/ \E from : \E to \in {"check", "produce", "commit", "gone"} : Goto(p, from, to)
           \/ \E to \in {"done", "gone"} : Goto(p, "final", to)
    BY <1>4 DEF Announce, ReportWorking, EmitArtifact, EmitFinal, Emit
  <2>2. QED
    BY <1>0, <1>4, <2>1, WorkerKeepsAnswers
<1>5. QED
  BY <1>1, <1>2, <1>3, <1>4

\* Entering Update.
LEMMA StartKeepsAnswers ==
  ASSUME Inv, AnswerInv, NEW p \in Procs,
         \/ p \in Streams /\ StartWorking(p)
         \/ p \in Tasks /\ StartCommit(p)
         \/ p \in Cancels /\ StartCancel(p)
  PROVE  AnswerInv'
<1> USE Sorts
<1>1. UNCHANGED <<status, arts, seen, conn, reply>> /\ Unlocked
  BY DEF StartWorking, StartCommit, StartCancel, StartUpdate, streamVars, replyVars
<1>2. CASE p \in Tasks
  <2>1. Goto(p, "work", "working") \/ Goto(p, "commit", "committing")
    BY <1>2 DEF StartWorking, StartCommit
  <2>2. QED
    BY <1>1, <1>2, <2>1, WorkerKeepsAnswers
<1>3. CASE p \in Cancels /\ StartCancel(p)
  <2>1. pc' = [pc EXCEPT ![p] = "canceling"]
    BY <1>3 DEF StartCancel, Goto
  <2>2. QED
    BY <1>1, <1>3, <2>1, VisitKeepsAnswers
<1>4. QED
  BY <1>2, <1>3

LEMMA CreateKeepsAnswers ==
  ASSUME Inv, AnswerInv, NEW t \in Tasks, Create(t)
  PROVE  AnswerInv'
<1> USE Sorts
<1>0. /\ pc[t] = "idle" /\ Unlocked
      /\ pc \in [Procs -> Locations] /\ status \in [Tasks -> States \cup {"none"}]
      /\ pc' = [pc EXCEPT ![t] = IF t \in Streams THEN "announce" ELSE "commit"]
      /\ status' = [status EXCEPT ![t] = "SUBMITTED"]
      /\ UNCHANGED <<arts, writing, seen, conn, reply>>
  BY DEF Create, Put, Goto, streamVars, replyVars, Inv, TypeOK
<1>1. SeenInOrder'
  BY <1>0 DEF AnswerInv, SeenInOrder, SeenFits
<1>2. AnnouncedFresh' /\ CommittedStays'
  BY <1>0 DEF AnswerInv, AnnouncedFresh, CommittedStays
<1>3. SendsAnswered'
  BY <1>0, GoAgentAssumption DEF AnswerInv, SendsAnswered
<1>4. NoticedCancelStays'
  <2>1. \A s \in Streams : ShownCanceled(s)' = ShownCanceled(s) /\ ~CancelUnderWay(s)
    BY <1>0 DEF ShownCanceled, CancelUnderWay
  <2>2. QED
    BY <1>0, <2>1 DEF AnswerInv, NoticedCancelStays
<1>5. QED
  BY <1>1, <1>2, <1>3, <1>4 DEF AnswerInv

LEMMA ClientLeavesKeepsAnswers ==
  ASSUME Inv, AnswerInv, NEW c \in Streams, ClientLeaves(c)
  PROVE  AnswerInv'
<1>0. /\ UNCHANGED <<pc, status, arts, writing, reply>>
      /\ conn' = [conn EXCEPT ![c] = FALSE] /\ seen' = [seen EXCEPT ![c] = <<>>]
      /\ conn \in [Streams -> BOOLEAN] /\ seen \in [Streams -> Seq(EventKinds)]
  BY DEF ClientLeaves, taskVars, replyVars, Inv, TypeOK
<1>1. \A s \in Streams : conn'[s] => s # c /\ conn[s] /\ seen'[s] = seen[s]
  BY <1>0
<1>2. SeenInOrder'
  BY <1>0, <1>1 DEF AnswerInv, SeenInOrder, SeenFits
<1>3. AnnouncedFresh' /\ CommittedStays' /\ SendsAnswered'
  BY <1>0 DEF AnswerInv, AnnouncedFresh, CommittedStays, SendsAnswered
<1>4. NoticedCancelStays'
  <2>1. \A s \in Streams : ShownCanceled(s)' => ShownCanceled(s)
    BY <1>1 DEF ShownCanceled
  <2>2. \A s \in Streams : CancelUnderWay(s)' = CancelUnderWay(s)
    BY <1>0 DEF CancelUnderWay, Unlocked
  <2>3. QED
    BY <1>0, <2>1, <2>2 DEF AnswerInv, NoticedCancelStays
<1>5. QED
  BY <1>2, <1>3, <1>4 DEF AnswerInv

LEMMA ArtifactsWrittenKeepsAnswers ==
  ASSUME Inv, AnswerInv, NEW p \in Procs, ArtifactsWritten(p)
  PROVE  AnswerInv'
<1>0. /\ ~Unlocked /\ writing \in Writes /\ arts \in [Tasks -> BOOLEAN]
      /\ writing' = [writing EXCEPT !.field = "status"]
      /\ arts' = [arts EXCEPT ![writing.task] = TRUE]
      /\ UNCHANGED <<pc, status, seen, conn, reply>>
      /\ writing.field = "artifacts"
  BY DEF ArtifactsWritten, streamVars, replyVars, Inv, TypeOK, Unlocked
<1>1. SeenInOrder'
  BY <1>0 DEF AnswerInv, SeenInOrder, SeenFits
<1>2. AnnouncedFresh' /\ CommittedStays' /\ SendsAnswered'
  BY <1>0 DEF AnswerInv, AnnouncedFresh, CommittedStays, SendsAnswered
<1>3. NoticedCancelStays'
  <2>1. \A s \in Streams : ShownCanceled(s)' = ShownCanceled(s)
    BY <1>0 DEF ShownCanceled
  <2>2. \A s \in Streams : pc[s] \in {"stopped", "check"} => ~CancelUnderWay(s)
    <3> SUFFICES ASSUME NEW s \in Streams, pc[s] \in {"stopped", "check"}, CancelUnderWay(s)
                 PROVE  FALSE
      OBVIOUS
    <3>1. s \in Tasks /\ ~Unlocked /\ writing.task = s
      BY Sorts DEF CancelUnderWay
    <3>2. writing.field = "status"
      BY <3>1, OnlyCancelsWrite
    <3>3. QED
      BY <1>0, <3>2
  <2>3. QED
    BY <1>0, <2>1, <2>2 DEF AnswerInv, NoticedCancelStays
<1>4. QED
  BY <1>1, <1>2, <1>3 DEF AnswerInv

LEMMA StatusWrittenKeepsAnswers ==
  ASSUME Inv, AnswerInv, NEW p \in Procs, StatusWritten(p)
  PROVE  AnswerInv'
<1> USE Sorts
<1>0. /\ ~Unlocked /\ writing.by = p /\ writing' = NoWrite
      /\ status' = [status EXCEPT ![writing.task] = writing.state]
      /\ pc' = [pc EXCEPT ![p] = AfterUpdate(p)]
      /\ UNCHANGED <<arts, seen, conn, reply>>
      /\ pc \in [Procs -> Locations] /\ status \in [Tasks -> States \cup {"none"}]
  BY DEF StatusWritten, streamVars, replyVars, Inv, TypeOK
<1>1. \A s \in Streams : ShownCanceled(s)' = ShownCanceled(s)
  BY <1>0 DEF ShownCanceled
<1>2. SendsAnswered'
  BY <1>0, GoAgentAssumption DEF AnswerInv, SendsAnswered, AfterUpdate
<1>3. CASE /\ p \in Tasks /\ writing.task = p
           /\ \/ p \in Streams /\ pc[p] = "working" /\ writing.state = "WORKING"
              \/ pc[p] = "committing" /\ writing.state = "COMPLETED" /\ arts[p]
  <2>1. /\ \A t \in Tasks \ {p} : pc'[t] = pc[t] /\ status'[t] = status[t] /\ ~CancelUnderWay(t)
        /\ pc'[p] = IF pc[p] = "working" THEN "report"
                    ELSE IF p \in Streams THEN "final" ELSE "fetch"
        /\ status'[p] = writing.state
    BY <1>0, <1>3 DEF AfterUpdate, CancelUnderWay
  <2>2. SeenInOrder'
    BY <1>0, <1>3, <2>1 DEF AnswerInv, SeenInOrder, SeenFits
  <2>3. AnnouncedFresh' /\ CommittedStays'
    BY <1>0, <1>3, <2>1 DEF AnswerInv, AnnouncedFresh, CommittedStays, Terminal
  <2>4. NoticedCancelStays'
    BY <1>1, <1>3, <2>1 DEF AnswerInv, NoticedCancelStays
  <2>5. QED
    BY <1>2, <2>2, <2>3, <2>4 DEF AnswerInv
<1>4. CASE p \in Cancels /\ writing.task \in Tasks /\ writing.state = "CANCELED"
  <2>1. /\ \A t \in Tasks : pc'[t] = pc[t]
        /\ \A t \in Tasks \ {writing.task} : status'[t] = status[t] /\ ~CancelUnderWay(t)
        /\ status'[writing.task] = "CANCELED"
    BY <1>0, <1>4 DEF CancelUnderWay
  <2>2. SeenInOrder'
    BY <1>0, <2>1 DEF AnswerInv, SeenInOrder, SeenFits
  <2>3. AnnouncedFresh' /\ CommittedStays'
    BY <1>0, <2>1 DEF AnswerInv, AnnouncedFresh, CommittedStays, Terminal
  <2>4. NoticedCancelStays'
    BY <1>1, <2>1 DEF AnswerInv, NoticedCancelStays
  <2>5. QED
    BY <1>2, <2>2, <2>3, <2>4 DEF AnswerInv
<1>5. writing.field = "status" /\ writing \in Writes
  BY <1>0 DEF StatusWritten, Inv, TypeOK, Unlocked
<1>6. QED
  BY <1>0, <1>3, <1>4, <1>5 DEF Inv, IInv, WriterKnown, Assigns, Writes

\* A send that answers has committed.
LEMMA RespondKeepsAnswers ==
  ASSUME Inv, AnswerInv, NEW p \in Sends, Respond(p)
  PROVE  AnswerInv'
<1> USE Sorts
<1>0. /\ pc[p] = "respond" /\ pc' = [pc EXCEPT ![p] = "done"] /\ pc \in [Procs -> Locations]
      /\ UNCHANGED <<status, arts, writing, seen, conn>> /\ Streams \cap Sends = {}
  BY GoAgentAssumption DEF Respond, Goto, taskVars, streamVars, Inv, TypeOK
<1>1. PICK r \in ReadState(p), b \in ReadArtifacts(p) :
        reply' = [reply EXCEPT ![p] = [state |-> r, art |-> b]]
  BY DEF Respond
<1>2. b = TRUE /\ r \in {"COMPLETED", "CANCELED", "TORN"}
  BY <1>0, <1>1, QuietRead DEF AnswerInv, CommittedStays, Terminal
<1>3. SeenInOrder'
  BY <1>0 DEF AnswerInv, SeenInOrder, SeenFits
<1>4. AnnouncedFresh' /\ CommittedStays'
  BY <1>0 DEF AnswerInv, AnnouncedFresh, CommittedStays
<1>5. NoticedCancelStays'
  <2>1. \A s \in Streams : /\ ShownCanceled(s)' = ShownCanceled(s)
                           /\ CancelUnderWay(s)' = CancelUnderWay(s)
    BY <1>0 DEF ShownCanceled, CancelUnderWay, Unlocked
  <2>2. QED
    BY <1>0, <2>1 DEF AnswerInv, NoticedCancelStays
<1>6. SendsAnswered'
  <2>1. reply'[p] = [state |-> r, art |-> TRUE] /\ \A q \in Sends \ {p} : reply'[q] = reply[q]
    BY <1>1, <1>2 DEF Inv, TypeOK, Repliers
  <2>2. [state |-> r, art |-> TRUE] \in SendAnswers(TRUE)
    BY <1>2 DEF SendAnswers, Completed, Overtaken
  <2>3. QED
    BY <1>0, <2>1, <2>2 DEF AnswerInv, SendsAnswered
<1>7. QED
  BY <1>3, <1>4, <1>5, <1>6 DEF AnswerInv

LEMMA VisitorKeepsAnswers ==
  ASSUME Inv, AnswerInv, NEW p \in Visitors,
         \/ Lookup(p)
         \/ p \in Cancels /\ DecideCancel(p)
         \/ p \in Cancels \cup Gets /\ (EncodeState(p) \/ EncodeArtifacts(p))
         \/ p \in Subscribers /\ SubscribeStep(p)
  PROVE  AnswerInv'
<1>1. UNCHANGED <<status, arts, writing, seen, conn>>
  BY DEF Lookup, DecideCancel, EncodeState, EncodeArtifacts, SubscribeStep, ReplayTask,
     ReplayArtifacts, LooksCompleted, LooksCanceled, LooksEnded, ReplayStatus, taskVars,
     streamVars
<1>2. \E to : pc' = [pc EXCEPT ![p] = to]
  BY DEF Lookup, DecideCancel, EncodeState, EncodeArtifacts, SubscribeStep, ReplayTask,
     ReplayArtifacts, LooksCompleted, LooksCanceled, LooksEnded, ReplayStatus, Leave, Goto
<1>3. \A q \in Sends : reply'[q] = reply[q]
  <2>1. UNCHANGED reply \/ \E e : reply' = [reply EXCEPT ![p] = e]
    BY DEF Lookup, DecideCancel, EncodeState, EncodeArtifacts, SubscribeStep, ReplayTask,
       ReplayArtifacts, LooksCompleted, LooksCanceled, LooksEnded, ReplayStatus
  <2>2. p \notin Sends
    BY GoAgentAssumption
  <2>3. QED
    BY <2>1, <2>2 DEF Inv, TypeOK, Repliers
<1>4. QED
  BY <1>1, <1>2, <1>3, VisitKeepsAnswers

LEMMA NextKeepsAnswers ==
  ASSUME Inv, AnswerInv, [Next]_vars
  PROVE  AnswerInv'
<1> USE Sorts
<1>1. ASSUME NEW p \in Procs, Step(p) PROVE AnswerInv'
  <2>1. CASE p \in Sends /\ Fetch(p)
    <3>1. /\ Goto(p, "fetch", "respond")
          /\ UNCHANGED <<status, arts, writing, seen, conn, reply>>
      BY <2>1 DEF Fetch, taskVars, streamVars, replyVars
    <3>2. QED
      BY <2>1, <3>1, WorkerKeepsAnswers
  <2>2. QED
    BY <1>1, <2>1, StreamKeepsAnswers, StartKeepsAnswers, RespondKeepsAnswers,
       VisitorKeepsAnswers, ArtifactsWrittenKeepsAnswers, StatusWrittenKeepsAnswers
    DEF Step, StreamStep, CancelStep, Workers
<1>2. CASE UNCHANGED vars
  BY <1>2 DEF vars, taskVars, streamVars, replyVars, AnswerInv, SeenInOrder, SeenFits,
     AnnouncedFresh, NoticedCancelStays, ShownCanceled, CancelUnderWay, Unlocked,
     CommittedStays, SendsAnswered
<1>3. QED
  BY <1>1, <1>2, CreateKeepsAnswers, VisitorKeepsAnswers, ClientLeavesKeepsAnswers DEF Next

LEMMA AnswersFollow ==
  ASSUME Inv, AnswerInv
  PROVE  AnswersAsAssumed
<1> USE Sorts
<1>1. ASSUME NEW s \in Streams, StreamEnded(s), NEW r \in ReadState(s), NEW b \in ReadArtifacts(s)
      PROVE  [seen |-> seen[s], final |-> [state |-> r, art |-> b]] \in StreamAnswers(TRUE)
  <2>1. conn[s] /\ pc[s] \in {"done", "stopped"} /\ pc[s] \notin {"working", "committing"}
    BY <1>1 DEF StreamEnded
  <2>2. CASE pc[s] = "done"
    <3>1. seen[s] = FullStream
      BY <2>1, <2>2 DEF AnswerInv, SeenInOrder, SeenFits
    <3>2. b = TRUE /\ r \in {"COMPLETED", "CANCELED", "TORN"}
      BY <2>2, QuietRead DEF AnswerInv, CommittedStays, Terminal
    <3>3. QED
      BY <3>1, <3>2 DEF StreamAnswers, Completed, Overtaken
  <2>3. CASE pc[s] = "stopped"
    <3>1. Unlocked
      BY <1>1, <2>3 DEF StreamEnded
    <3>2. r = "CANCELED"
      BY <2>3, <3>1, QuietRead DEF AnswerInv, NoticedCancelStays, CancelUnderWay
    <3>3. b = FALSE
      BY <2>3, QuietRead DEF Inv, TypeOK, IInv, NoResultBeforeCommit, BeforeCommit
    <3>4. seen[s] \in Begun \cup Doomed
      BY <2>1, <2>3 DEF AnswerInv, SeenInOrder, SeenFits
    <3>5. QED
      BY <3>2, <3>3, <3>4 DEF StreamAnswers, Stopped, Begun, Doomed
  <2>4. QED
    BY <2>1, <2>2, <2>3
<1>2. QED
  BY <1>1 DEF AnswersAsAssumed, AnswerInv, SendsAnswered

\* The agent gives no answers but those MissionControl reckons with: a stream that
\* ran to its end has its results in the store, one that stopped early was
\* canceled for good, and a send is answered with its results, whatever cancels
\* and reads race with the workers (tasks.go 312-347, 376-451).
THEOREM AnswersKnown == Spec => []AnswersAsAssumed
<1>1. Inv /\ AnswerInv /\ Inv' /\ [Next]_vars => AnswerInv'
  BY NextKeepsAnswers
<1>2. Spec => []AnswerInv
  BY <1>1, AnswerInit, Invariance, PTL DEF Spec
<1>3. Inv /\ AnswerInv => AnswersAsAssumed
  BY AnswersFollow
<1>4. QED
  BY <1>2, <1>3, Invariance, PTL

-----------------------------------------------------------------------------
(* What keeping to TaskLifecycle is good for.                              *)

Kept == INSTANCE TaskLifecycle_proof WITH
  state  <- status,
  result <- arts,
  open   <- AtWork

LEMMA LifecycleIsKept == Spec => Kept!LifecycleSpec
<1>1. Lifecycle!LifecycleInit => Kept!LifecycleInit
  BY DEF Lifecycle!LifecycleInit, Kept!LifecycleInit
<1>2. [Lifecycle!LifecycleNext]_(Lifecycle!lifecycleVars) => [Kept!LifecycleNext]_(Kept!lifecycleVars)
  BY DEF Lifecycle!LifecycleNext, Kept!LifecycleNext, Lifecycle!lifecycleVars, Kept!lifecycleVars,
         Lifecycle!Submit, Lifecycle!Work, Lifecycle!Attach, Lifecycle!Deliver,
         Lifecycle!Complete, Lifecycle!Conclude, Lifecycle!Serve, Lifecycle!Abandon,
         Lifecycle!Cancel, Kept!Submit, Kept!Work, Kept!Attach, Kept!Deliver,
         Kept!Complete, Kept!Conclude, Kept!Serve, Kept!Abandon, Kept!Cancel
<1> QED
  BY TasksKeepToLifecycle, <1>1, <1>2, PTL
  DEF ImplementsLifecycle, Lifecycle!LifecycleSpec, Kept!LifecycleSpec

\* A completed task has its artifacts, which stay, and a cancel that comes after
\* the worker's commit is final (tasks.go 48-57, 376-450, 540-567).
THEOREM ResultsAndLateCancelsStay == Spec => []Lifecycle!LifecycleInv /\ Lifecycle!NothingTakenBack
<1>1. Kept!LifecycleInv => Lifecycle!LifecycleInv
  BY DEF Kept!LifecycleInv, Lifecycle!LifecycleInv, Kept!LifecycleTypeOK, Lifecycle!LifecycleTypeOK
<1>2. Kept!NothingTakenBack => Lifecycle!NothingTakenBack
  BY DEF Kept!NothingTakenBack, Lifecycle!NothingTakenBack, Kept!lifecycleVars, Lifecycle!lifecycleVars
<1> QED
  BY LifecycleIsKept, Kept!LifecycleInvariance, Kept!NothingIsTakenBack, <1>1, <1>2, PTL
=============================================================================
