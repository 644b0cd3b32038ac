------------------------- MODULE TSAgentTasks_proof -------------------------
(***************************************************************************)
(* Theorems about TSAgentTasks, for any requests and any number of phases. *)
(***************************************************************************)
EXTENDS TSAgentTasks, SequenceTheorems, TLAPS

LEMMA Sorts ==
  /\ Streams \subseteq Tasks /\ Sends \subseteq Tasks
  /\ Tasks \subseteq Procs /\ Visitors \subseteq Procs
  /\ Cancels \subseteq Visitors /\ Subscribers \subseteq Visitors
  /\ Tasks \cap Visitors = {} /\ Streams \cap Sends = {} /\ Cancels \cap Subscribers = {}
  BY TSAgentAssumption DEF Procs, Visitors, Tasks

LEMMA StateNames ==
  /\ States = {"SUBMITTED", "WORKING", "COMPLETED", "CANCELED"}
  /\ EventKinds = {"SUBMITTED", "WORKING", "COMPLETED", "CANCELED", "TORN", "ARTIFACT"}
  BY DEF States, EventKinds, TaskStates

-----------------------------------------------------------------------------
(* The helpers keep the types.                                             *)

LEMMA GotoType ==
  ASSUME TypeOK, NEW p \in Procs, NEW from, NEW to \in Locations, Goto(p, from, to)
  PROVE  pc' \in [Procs -> Locations]
  BY DEF TypeOK, Goto

LEMMA WriteType ==
  ASSUME TypeOK, NEW s \in Streams, NEW e \in Seq(EventKinds), Len(e) > 0, Write(s, e)
  PROVE  seen' \in [Streams -> Seq(EventKinds)]
<1>1. seen[s] \in Seq(EventKinds) /\ seen \in [Streams -> Seq(EventKinds)]
  BY DEF TypeOK
<1>2. Tail(e) \in Seq(EventKinds)
  OBVIOUS
<1>3. (IF ~conn[s] THEN <<>>
       ELSE IF seen[s] # <<>> /\ seen[s][Len(seen[s])] = Head(e) THEN seen[s] \o Tail(e)
       ELSE seen[s] \o e) \in Seq(EventKinds)
  BY <1>1, <1>2
<1>4. QED
  BY <1>1, <1>3 DEF Write

LEMMA BroadcastType ==
  ASSUME TypeOK, NEW t \in Tasks, NEW s \in States, NEW art \in BOOLEAN, NEW final \in BOOLEAN,
         Broadcast(t, s, art, final)
  PROVE  told' \in [Subscribers -> Told]
<1>1. \A p \in Subscribers :
        /\ told[p] \in Told
        /\ [state |-> s, arts |-> told[p].arts \/ art, final |-> final] \in Told
  BY DEF TypeOK, Told
<1>2. QED
  BY <1>1 DEF Broadcast

LEMMA Events ==
  /\ <<"SUBMITTED">> \in Seq(EventKinds) /\ Len(<<"SUBMITTED">>) > 0
  /\ <<"WORKING">> \in Seq(EventKinds) /\ Len(<<"WORKING">>) > 0
  /\ <<"COMPLETED">> \in Seq(EventKinds) /\ Len(<<"COMPLETED">>) > 0
  /\ <<"WORKING", "ARTIFACT">> \in Seq(EventKinds) /\ Len(<<"WORKING", "ARTIFACT">>) > 0
  BY StateNames

LEMMA Moves ==
  /\ LoopTop("x", "SUBMITTED") = "asleep"
  /\ \A s : LoopTop(s, "SUBMITTED") = "asleep" /\ LoopTop(s, "WORKING") = "asleep"
  BY DEF LoopTop

LEMMA StepType ==
  ASSUME TypeOK, [Next]_vars
  PROVE  TypeOK'
<1> USE Sorts, StateNames
<1>1. CASE UNCHANGED vars
  BY <1>1 DEF vars, taskVars, streamVars, TypeOK
<1>2. ASSUME NEW t \in Sends, Send(t)
      PROVE  TypeOK'
  <2>1. pc' \in [Procs -> Locations]
    BY <1>2, GotoType DEF Send, Locations
  <2>2. QED
    BY <1>2, <2>1 DEF Send, FinishSync, SetStatus, AddArtifact, TypeOK, streamVars
<1>3. ASSUME NEW s \in Streams, OpenStream(s)
      PROVE  TypeOK'
  <2>1. pc' \in [Procs -> Locations]
    BY <1>3, GotoType, Moves DEF OpenStream, Locations
  <2>2. seen' \in [Streams -> Seq(EventKinds)]
    BY <1>3, WriteType, Events DEF OpenStream
  <2>3. QED
    BY <1>3, <2>1, <2>2 DEF OpenStream, Create, TypeOK
<1>4. ASSUME NEW s \in Streams, ReportPhase(s)
      PROVE  TypeOK'
  <2>1. pc' \in [Procs -> Locations]
    BY <1>4, GotoType, Moves DEF ReportPhase, Locations
  <2>2. seen' \in [Streams -> Seq(EventKinds)]
    BY <1>4, WriteType, Events DEF ReportPhase
  <2>3. told' \in [Subscribers -> Told]
    BY <1>4, BroadcastType DEF ReportPhase
  <2>4. phase' \in [Streams -> 1..NumPhases]
    BY <1>4, TSAgentAssumption DEF ReportPhase, TypeOK
  <2>5. QED
    BY <1>4, <2>1, <2>2, <2>3, <2>4 DEF ReportPhase, SetStatus, TypeOK
<1>5. ASSUME NEW s \in Streams, ReportLastPhase(s)
      PROVE  TypeOK'
  <2>1. pc' \in [Procs -> Locations]
    BY <1>5, GotoType DEF ReportLastPhase, Locations
  <2>2. seen' \in [Streams -> Seq(EventKinds)]
    BY <1>5, WriteType, Events DEF ReportLastPhase
  <2>3. told' \in [Subscribers -> Told]
    BY <1>5, BroadcastType DEF ReportLastPhase
  <2>4. QED
    BY <1>5, <2>1, <2>2, <2>3 DEF ReportLastPhase, SetStatus, AddArtifact, TypeOK
<1>6. ASSUME NEW s \in Streams, Finish(s)
      PROVE  TypeOK'
  <2>1. pc' \in [Procs -> Locations]
    BY <1>6, GotoType DEF Finish, Locations
  <2>2. seen' \in [Streams -> Seq(EventKinds)]
    BY <1>6, WriteType, Events DEF Finish
  <2>3. told' \in [Subscribers -> Told]
    BY <1>6, BroadcastType DEF Finish
  <2>4. QED
    BY <1>6, <2>1, <2>2, <2>3 DEF Finish, SetStatus, TypeOK
<1>7. ASSUME NEW s \in Streams, ClientLeaves(s)
      PROVE  TypeOK'
  BY <1>7 DEF ClientLeaves, TypeOK, taskVars
<1>8. ASSUME NEW c \in Cancels, Cancel(c)
      PROVE  TypeOK'
  <2>1. pc' \in [Procs -> Locations]
    BY <1>8, GotoType DEF Cancel, Locations
  <2>2. QED
    BY <1>8, <2>1 DEF Cancel, SetStatus, TypeOK, streamVars
<1>9. ASSUME NEW p \in Subscribers, Subscribe(p)
      PROVE  TypeOK'
  <2>1. pc' \in [Procs -> Locations]
    BY <1>9, GotoType DEF Subscribe, Locations
  <2>2. live' \in [Tasks -> SUBSET Subscribers]
    <3>1. live \in [Tasks -> SUBSET Subscribers]
      BY DEF TypeOK
    <3>2. \A t \in Tasks : live[t] \cup {p} \in SUBSET Subscribers
      BY <3>1
    <3>3. \A t \in Tasks : [live EXCEPT ![t] = @ \cup {p}] \in [Tasks -> SUBSET Subscribers]
      BY <3>1, <3>2
    <3>4. QED
      BY <1>9, <3>1, <3>3 DEF Subscribe
  <2>3. told' \in [Subscribers -> Told]
    <3>1. \A t \in Tasks : status[t] # "none" => \A f \in BOOLEAN :
            [state |-> status[t], arts |-> arts[t], final |-> f] \in Told
      BY DEF TypeOK, Told
    <3>2. told \in [Subscribers -> Told]
      BY DEF TypeOK
    <3>3. \A v \in Told : [told EXCEPT ![p] = v] \in [Subscribers -> Told]
      BY <3>2
    <3>4. QED
      BY <1>9, <3>1, <3>2, <3>3 DEF Subscribe, Terminal
  <2>4. QED
    BY <1>9, <2>1, <2>2, <2>3 DEF Subscribe, TypeOK, taskVars, streamVars
<1>10. ASSUME NEW p \in Subscribers, RequestCloses(p)
       PROVE  TypeOK'
  <2>1. pc' \in [Procs -> Locations]
    BY <1>10, GotoType DEF RequestCloses, Locations
  <2>2. QED
    BY <1>10, <2>1 DEF RequestCloses, TypeOK, taskVars, streamVars
<1>11. QED
  BY <1>1, <1>2, <1>3, <1>4, <1>5, <1>6, <1>7, <1>8, <1>9, <1>10 DEF Next, Wake

-----------------------------------------------------------------------------
(* The worker and its task.                                                *)

LEMMA StepFollows ==
  ASSUME TypeOK, TaskFollowsWorker, [Next]_vars
  PROVE  TaskFollowsWorker'
<1> USE Sorts
<1>1. CASE UNCHANGED vars
  BY <1>1 DEF vars, taskVars, streamVars, TaskFollowsWorker
<1>2. ASSUME NEW t \in Sends, Send(t)
      PROVE  TaskFollowsWorker'
  BY <1>2 DEF Send, FinishSync, SetStatus, AddArtifact, Goto, TypeOK, TaskFollowsWorker
<1>3. ASSUME NEW s \in Streams, OpenStream(s)
      PROVE  TaskFollowsWorker'
  BY <1>3, Moves DEF OpenStream, Create, Goto, TypeOK, TaskFollowsWorker
<1>4. ASSUME NEW s \in Streams, ReportPhase(s)
      PROVE  TaskFollowsWorker'
  BY <1>4, Moves DEF ReportPhase, SetStatus, Goto, TypeOK, TaskFollowsWorker
<1>5. ASSUME NEW s \in Streams, ReportLastPhase(s)
      PROVE  TaskFollowsWorker'
  BY <1>5 DEF ReportLastPhase, SetStatus, AddArtifact, Goto, TypeOK, TaskFollowsWorker
<1>6. ASSUME NEW s \in Streams, Finish(s)
      PROVE  TaskFollowsWorker'
  BY <1>6 DEF Finish, SetStatus, Goto, TypeOK, TaskFollowsWorker
<1>7. ASSUME NEW s \in Streams, ClientLeaves(s)
      PROVE  TaskFollowsWorker'
  BY <1>7 DEF ClientLeaves, taskVars, TaskFollowsWorker
<1>8. ASSUME NEW c \in Cancels, Cancel(c)
      PROVE  TaskFollowsWorker'
  BY <1>8 DEF Cancel, SetStatus, Goto, Terminal, TypeOK, TaskFollowsWorker
<1>9. ASSUME NEW p \in Subscribers, Subscribe(p)
      PROVE  TaskFollowsWorker'
  BY <1>9 DEF Subscribe, Goto, TypeOK, taskVars, TaskFollowsWorker
<1>10. ASSUME NEW p \in Subscribers, RequestCloses(p)
       PROVE  TaskFollowsWorker'
  BY <1>10 DEF RequestCloses, Goto, TypeOK, taskVars, TaskFollowsWorker
<1>11. QED
  BY <1>1, <1>2, <1>3, <1>4, <1>5, <1>6, <1>7, <1>8, <1>9, <1>10 DEF Next, Wake

-----------------------------------------------------------------------------
(* The subscribers of a task.                                              *)

LEMMA StepAttached ==
  ASSUME TypeOK, AttachedOnce, [Next]_vars
  PROVE  AttachedOnce'
<1> USE Sorts
<1>1. CASE UNCHANGED vars
  BY <1>1 DEF vars, taskVars, streamVars, AttachedOnce
<1>2. ASSUME NEW p \in Tasks \cup Cancels, UNCHANGED live,
             NEW from \in {"idle", "asleep", "finishing"}, NEW to, Goto(p, from, to),
             NEW t \in Tasks, NEW s \in States, status' = [status EXCEPT ![t] = s]
      PROVE  AttachedOnce'
  BY <1>2, StateNames DEF Goto, TypeOK, AttachedOnce
<1>3. ASSUME NEW t \in Sends, Send(t)
      PROVE  AttachedOnce'
  BY <1>2, <1>3, StateNames DEF Send, FinishSync, SetStatus
<1>4. ASSUME NEW s \in Streams, OpenStream(s)
      PROVE  AttachedOnce'
  BY <1>2, <1>4, StateNames DEF OpenStream, Create
<1>5. ASSUME NEW s \in Streams, Wake(s)
      PROVE  AttachedOnce'
  BY <1>2, <1>5, StateNames DEF Wake, ReportPhase, ReportLastPhase, Finish, SetStatus
<1>6. ASSUME NEW s \in Streams, ClientLeaves(s)
      PROVE  AttachedOnce'
  BY <1>6 DEF ClientLeaves, taskVars, AttachedOnce
<1>7. ASSUME NEW c \in Cancels, Cancel(c)
      PROVE  AttachedOnce'
  <2>1. CASE UNCHANGED status
    BY <1>7, <2>1 DEF Cancel, Goto, TypeOK, AttachedOnce
  <2>2. CASE \E t \in Tasks : SetStatus(t, "CANCELED")
    BY <1>2, <1>7, <2>2, StateNames DEF Cancel, SetStatus
  <2>3. QED
    BY <1>7, <2>1, <2>2 DEF Cancel
<1>8. ASSUME NEW p \in Subscribers, Subscribe(p)
      PROVE  AttachedOnce'
  <2>1. pc[p] = "idle" /\ UNCHANGED status
    BY <1>8 DEF Subscribe, Goto, taskVars
  <2>2. \A u \in Tasks : p \notin live[u]
    BY <2>1 DEF AttachedOnce
  <2>3. CASE UNCHANGED live /\ pc' = [pc EXCEPT ![p] = "done"]
    BY <2>1, <2>2, <2>3 DEF AttachedOnce, TypeOK
  <2>4. CASE \E t \in Tasks : /\ status[t] # "none"
                              /\ pc' = [pc EXCEPT ![p] = "attached"]
                              /\ live' = [live EXCEPT ![t] = @ \cup {p}]
    BY <2>1, <2>2, <2>4 DEF AttachedOnce, TypeOK
  <2>5. QED
    BY <1>8, <2>3, <2>4 DEF Subscribe, Goto
<1>9. ASSUME NEW p \in Subscribers, RequestCloses(p)
      PROVE  AttachedOnce'
  BY <1>9 DEF RequestCloses, Goto, taskVars, TypeOK, AttachedOnce
<1>10. QED
  BY <1>1, <1>3, <1>4, <1>5, <1>6, <1>7, <1>8, <1>9 DEF Next

\* A broadcast tells the subscribers of a task where it stands, and nobody else.
LEMMA BroadcastTells ==
  ASSUME TypeOK, AttachedOnce, SubscriberCanRebuild,
         NEW t \in Tasks, NEW s \in States, NEW art \in BOOLEAN, NEW final \in BOOLEAN,
         Broadcast(t, s, art, final), UNCHANGED live,
         status' = [status EXCEPT ![t] = s], arts' = [arts EXCEPT ![t] = @ \/ art],
         final <=> s = "COMPLETED"
  PROVE  SubscriberCanRebuild'
<1> SUFFICES ASSUME NEW u \in Tasks, NEW p \in live[u]
             PROVE  /\ told'[p].arts = arts'[u]
                    /\ told'[p].state = status'[u] \/ status'[u] = "CANCELED"
                    /\ told'[p].final <=> status'[u] = "COMPLETED"
  BY DEF SubscriberCanRebuild
<1>1. /\ p \in Subscribers
      /\ told[p].arts = arts[u]
      /\ told[p].state = status[u] \/ status[u] = "CANCELED"
      /\ told[p].final <=> status[u] = "COMPLETED"
  BY DEF TypeOK, SubscriberCanRebuild
<1>2. CASE u = t
  <2>1. told'[p] = [state |-> s, arts |-> told[p].arts \/ art, final |-> final]
    BY <1>1, <1>2 DEF Broadcast
  <2>2. status'[u] = s /\ arts'[u] = (arts[t] \/ art)
    BY <1>2 DEF TypeOK
  <2>3. QED
    BY <1>1, <1>2, <2>1, <2>2
<1>3. CASE u # t
  <2>1. p \notin live[t]
    BY <1>3 DEF AttachedOnce
  <2>2. told'[p] = told[p]
    BY <1>1, <2>1 DEF Broadcast
  <2>3. status'[u] = status[u] /\ arts'[u] = arts[u]
    BY <1>3 DEF TypeOK
  <2>4. QED
    BY <1>1, <2>2, <2>3
<1>4. QED
  BY <1>2, <1>3

LEMMA StepRebuild ==
  ASSUME TypeOK, TaskFollowsWorker, AttachedOnce, SubscriberCanRebuild, [Next]_vars
  PROVE  SubscriberCanRebuild'
<1> USE Sorts
<1>1. CASE UNCHANGED vars
  BY <1>1 DEF vars, taskVars, streamVars, SubscriberCanRebuild
<1>2. ASSUME NEW t \in Tasks, status[t] = "none", UNCHANGED <<live, told>>,
             \A u \in Tasks \ {t} : status'[u] = status[u] /\ arts'[u] = arts[u]
      PROVE  SubscriberCanRebuild'
  BY <1>2 DEF AttachedOnce, SubscriberCanRebuild
<1>3. ASSUME NEW t \in Sends, Send(t)
      PROVE  SubscriberCanRebuild'
  BY <1>2, <1>3 DEF Send, FinishSync, SetStatus, AddArtifact, TypeOK
<1>4. ASSUME NEW s \in Streams, OpenStream(s)
      PROVE  SubscriberCanRebuild'
  BY <1>2, <1>4 DEF OpenStream, Create, TypeOK
<1>5. ASSUME NEW s \in Streams, ReportPhase(s)
      PROVE  SubscriberCanRebuild'
  <2>1. arts' = [arts EXCEPT ![s] = @ \/ FALSE]
    BY <1>5 DEF ReportPhase, TypeOK
  <2>2. QED
    BY <1>5, <2>1, BroadcastTells, StateNames DEF ReportPhase, SetStatus
<1>6. ASSUME NEW s \in Streams, ReportLastPhase(s)
      PROVE  SubscriberCanRebuild'
  <2>1. arts' = [arts EXCEPT ![s] = @ \/ TRUE]
    BY <1>6 DEF ReportLastPhase, AddArtifact, TypeOK
  <2>2. QED
    BY <1>6, <2>1, BroadcastTells, StateNames DEF ReportLastPhase, SetStatus
<1>7. ASSUME NEW s \in Streams, Finish(s)
      PROVE  SubscriberCanRebuild'
  <2>1. arts' = [arts EXCEPT ![s] = @ \/ FALSE]
    BY <1>7 DEF Finish, TypeOK
  <2>2. QED
    BY <1>7, <2>1, BroadcastTells, StateNames DEF Finish, SetStatus
<1>8. ASSUME NEW s \in Streams, ClientLeaves(s)
      PROVE  SubscriberCanRebuild'
  BY <1>8 DEF ClientLeaves, taskVars, SubscriberCanRebuild
<1>9. ASSUME NEW c \in Cancels, Cancel(c)
      PROVE  SubscriberCanRebuild'
  <2>1. CASE UNCHANGED status
    BY <1>9, <2>1 DEF Cancel, SubscriberCanRebuild
  <2>2. CASE \E t \in Tasks : /\ status[t] # "COMPLETED"
                              /\ status' = [status EXCEPT ![t] = "CANCELED"]
    BY <1>9, <2>2 DEF Cancel, TypeOK, SubscriberCanRebuild
  <2>3. QED
    BY <1>9, <2>1, <2>2 DEF Cancel, SetStatus, Terminal
<1>10. ASSUME NEW p \in Subscribers, Subscribe(p)
       PROVE  SubscriberCanRebuild'
  <2>1. pc[p] = "idle" /\ UNCHANGED <<status, arts>>
    BY <1>10 DEF Subscribe, Goto, taskVars
  <2>2. \A u \in Tasks : p \notin live[u]
    BY <2>1 DEF AttachedOnce
  <2>3. CASE UNCHANGED live /\ \A q \in Subscribers \ {p} : told'[q] = told[q]
    <3>1. \A u \in Tasks : \A q \in live[u] : told'[q] = told[q]
      BY <2>2, <2>3 DEF TypeOK
    <3>2. QED
      BY <2>1, <2>3, <3>1 DEF SubscriberCanRebuild
  <2>4. ASSUME NEW t \in Tasks, status[t] \notin Terminal \cup {"none"},
               told' = [told EXCEPT ![p] = [state |-> status[t], arts |-> arts[t], final |-> FALSE]],
               live' = [live EXCEPT ![t] = @ \cup {p}]
        PROVE  SubscriberCanRebuild'
    <3>1. told'[p] = [state |-> status[t], arts |-> arts[t], final |-> FALSE]
      BY <2>4 DEF TypeOK
    <3>2. \A q \in Subscribers \ {p} : told'[q] = told[q]
      BY <2>4 DEF TypeOK
    <3>3. \A u \in Tasks : live'[u] = IF u = t THEN live[u] \cup {p} ELSE live[u]
      BY <2>4 DEF TypeOK
    <3>4. SUFFICES ASSUME NEW u \in Tasks, NEW q \in live'[u]
                   PROVE  /\ told'[q].arts = arts[u]
                          /\ told'[q].state = status[u] \/ status[u] = "CANCELED"
                          /\ told'[q].final <=> status[u] = "COMPLETED"
      BY <2>1 DEF SubscriberCanRebuild
    <3>5. CASE q = p
      <4>1. u = t
        BY <2>2, <3>3, <3>5
      <4>2. QED
        BY <2>4, <3>1, <3>5, <4>1 DEF Terminal
    <3>6. CASE q # p
      <4>1. q \in live[u]
        BY <3>3, <3>6
      <4>2. told'[q] = told[q]
        BY <3>2, <3>6, <4>1 DEF TypeOK
      <4>3. QED
        BY <4>1, <4>2 DEF SubscriberCanRebuild
    <3>7. QED
      BY <3>5, <3>6
  <2>5. QED
    BY <1>10, <2>3, <2>4 DEF Subscribe, TypeOK
<1>11. ASSUME NEW p \in Subscribers, RequestCloses(p)
       PROVE  SubscriberCanRebuild'
  BY <1>11 DEF RequestCloses, taskVars, TypeOK, SubscriberCanRebuild
<1>12. QED
  BY <1>1, <1>3, <1>4, <1>5, <1>6, <1>7, <1>8, <1>9, <1>10, <1>11 DEF Next, Wake

-----------------------------------------------------------------------------
(* What the client of a stream saw.                                        *)

\* Only the stream's own turns, and its client, change what it saw.
LEMMA SawUnchanged ==
  ASSUME TypeOK, ClientSawIt, UNCHANGED <<phase, conn, seen>>,
         \A s \in Streams : pc'[s] = pc[s]
  PROVE  ClientSawIt'
  BY DEF ClientSawIt, Saw

\* A turn of a stream: the others saw nothing of it.
LEMMA SawTurn ==
  ASSUME TypeOK, ClientSawIt, UNCHANGED conn, NEW s \in Streams, NEW e, Write(s, e),
         \A u \in Streams \ {s} : pc'[u] = pc[u] /\ phase'[u] = phase[u],
         conn[s] => Saw(s)'
  PROVE  ClientSawIt'
<1> SUFFICES ASSUME NEW u \in Streams, conn[u]
             PROVE  Saw(u)'
  BY DEF ClientSawIt
<1>1. CASE u = s
  BY <1>1 DEF Saw
<1>2. CASE u # s
  <2>1. seen'[u] = seen[u] /\ pc'[u] = pc[u] /\ phase'[u] = phase[u]
    BY <1>2 DEF Write, TypeOK
  <2>2. Saw(u)
    BY DEF ClientSawIt
  <2>3. QED
    BY <2>1, <2>2 DEF Saw
<1>3. QED
  BY <1>1, <1>2

\* How the events of a stream line up.
LEMMA OneAndOne ==
  ASSUME NEW a \in EventKinds, NEW b \in EventKinds
  PROVE  <<a>> \o <<b>> = <<a, b>>
<1> DEFINE l == <<a>> \o <<b>>  r == <<a, b>>
<1>1. l \in Seq(EventKinds) /\ r \in Seq(EventKinds) /\ Len(l) = 2 /\ Len(r) = 2
  OBVIOUS
<1>2. l[1] = a /\ r[1] = a /\ l[2] = b /\ r[2] = b
  OBVIOUS
<1> HIDE DEF l, r
<1>3. \A i \in 1..Len(l) : l[i] = r[i]
  BY <1>1, <1>2
<1>4. QED
  BY <1>1, <1>3, SeqEqual DEF l, r

LEMMA OneAndTwo ==
  ASSUME NEW a \in EventKinds, NEW b \in EventKinds, NEW c \in EventKinds
  PROVE  <<a>> \o <<b, c>> = <<a, b, c>>
<1> DEFINE l == <<a>> \o <<b, c>>  r == <<a, b, c>>
<1>1. l \in Seq(EventKinds) /\ r \in Seq(EventKinds) /\ Len(l) = 3 /\ Len(r) = 3
  OBVIOUS
<1>2. l[1] = a /\ r[1] = a /\ l[2] = b /\ r[2] = b /\ l[3] = c /\ r[3] = c
  OBVIOUS
<1> HIDE DEF l, r
<1>3. \A i \in 1..Len(l) : l[i] = r[i]
  BY <1>1, <1>2
<1>4. QED
  BY <1>1, <1>3, SeqEqual DEF l, r

LEMMA TwoAndOne ==
  ASSUME NEW a \in EventKinds, NEW b \in EventKinds, NEW c \in EventKinds
  PROVE  <<a, b>> \o <<c>> = <<a, b, c>>
<1> DEFINE l == <<a, b>> \o <<c>>  r == <<a, b, c>>
<1>1. l \in Seq(EventKinds) /\ r \in Seq(EventKinds) /\ Len(l) = 3 /\ Len(r) = 3
  OBVIOUS
<1>2. l[1] = a /\ r[1] = a /\ l[2] = b /\ r[2] = b /\ l[3] = c /\ r[3] = c
  OBVIOUS
<1> HIDE DEF l, r
<1>3. \A i \in 1..Len(l) : l[i] = r[i]
  BY <1>1, <1>2
<1>4. QED
  BY <1>1, <1>3, SeqEqual DEF l, r

LEMMA ThreeAndOne ==
  ASSUME NEW a \in EventKinds, NEW b \in EventKinds, NEW c \in EventKinds, NEW d \in EventKinds
  PROVE  <<a, b, c>> \o <<d>> = <<a, b, c, d>>
<1> DEFINE l == <<a, b, c>> \o <<d>>  r == <<a, b, c, d>>
<1>1. l \in Seq(EventKinds) /\ r \in Seq(EventKinds) /\ Len(l) = 4 /\ Len(r) = 4
  OBVIOUS
<1>2. l[1] = a /\ r[1] = a /\ l[2] = b /\ r[2] = b /\ l[3] = c /\ r[3] = c /\ l[4] = d /\ r[4] = d
  OBVIOUS
<1> HIDE DEF l, r
<1>3. \A i \in 1..Len(l) : l[i] = r[i]
  BY <1>1, <1>2
<1>4. QED
  BY <1>1, <1>3, SeqEqual DEF l, r

\* What a write adds to what is known to have been seen.
LEMMA WriteAdds ==
  ASSUME TypeOK, NEW s \in Streams, conn[s]
  PROVE  /\ seen[s] = <<>> /\ Write(s, <<"SUBMITTED">>) => seen'[s] = <<"SUBMITTED">>
         /\ seen[s] \in {<<"SUBMITTED">>, <<"SUBMITTED", "WORKING">>} =>
              /\ Write(s, <<"WORKING">>) => seen'[s] = <<"SUBMITTED", "WORKING">>
              /\ Write(s, <<"WORKING", "ARTIFACT">>) =>
                   seen'[s] = <<"SUBMITTED", "WORKING", "ARTIFACT">>
         /\ seen[s] = <<"SUBMITTED", "WORKING", "ARTIFACT">> /\ Write(s, <<"COMPLETED">>) =>
              seen'[s] = FullStream
<1>1. ASSUME NEW e, Write(s, e)
      PROVE  seen'[s] = IF seen[s] # <<>> /\ seen[s][Len(seen[s])] = Head(e)
                        THEN seen[s] \o Tail(e) ELSE seen[s] \o e
  BY <1>1 DEF Write, TypeOK
<1>a. ASSUME NEW e, Write(s, e), NEW q, seen[s] = q, q # <<>>, q[Len(q)] = Head(e)
      PROVE  seen'[s] = q \o Tail(e)
  BY <1>1, <1>a
<1>b. ASSUME NEW e, Write(s, e), NEW q, seen[s] = q, q # <<>>, q[Len(q)] # Head(e)
      PROVE  seen'[s] = q \o e
  BY <1>1, <1>b
<1>c. /\ <<"SUBMITTED">> # <<>> /\ <<"SUBMITTED">>[Len(<<"SUBMITTED">>)] = "SUBMITTED"
      /\ <<"SUBMITTED", "WORKING">> # <<>>
      /\ <<"SUBMITTED", "WORKING">>[Len(<<"SUBMITTED", "WORKING">>)] = "WORKING"
      /\ <<"SUBMITTED", "WORKING", "ARTIFACT">> # <<>>
      /\ <<"SUBMITTED", "WORKING", "ARTIFACT">>[Len(<<"SUBMITTED", "WORKING", "ARTIFACT">>)]
           = "ARTIFACT"
  OBVIOUS
<1>d. /\ Head(<<"WORKING">>) = "WORKING"
      /\ Head(<<"WORKING", "ARTIFACT">>) = "WORKING"
      /\ Head(<<"COMPLETED">>) = "COMPLETED"
  OBVIOUS
<1>2. ASSUME seen[s] = <<>>, Write(s, <<"SUBMITTED">>)
      PROVE  seen'[s] = <<"SUBMITTED">>
  BY <1>1, <1>2
<1>3. ASSUME seen[s] \in {<<"SUBMITTED">>, <<"SUBMITTED", "WORKING">>}, Write(s, <<"WORKING">>)
      PROVE  seen'[s] = <<"SUBMITTED", "WORKING">>
  <2>1. CASE seen[s] = <<"SUBMITTED">>
    <3>1. seen'[s] = <<"SUBMITTED">> \o <<"WORKING">>
      BY <1>3, <1>b, <1>c, <1>d, <2>1
    <3>2. QED
      BY <3>1, OneAndOne, StateNames
  <2>2. CASE seen[s] = <<"SUBMITTED", "WORKING">>
    <3>1. seen'[s] = seen[s] \o Tail(<<"WORKING">>)
      BY <1>3, <1>a, <1>c, <1>d, <2>2
    <3>2. Tail(<<"WORKING">>) = <<>> /\ seen[s] \in Seq(EventKinds)
      BY DEF TypeOK
    <3>3. QED
      BY <2>2, <3>1, <3>2, ConcatEmptySeq
  <2>3. QED
    BY <1>3, <2>1, <2>2
<1>4. ASSUME seen[s] \in {<<"SUBMITTED">>, <<"SUBMITTED", "WORKING">>},
             Write(s, <<"WORKING", "ARTIFACT">>)
      PROVE  seen'[s] = <<"SUBMITTED", "WORKING", "ARTIFACT">>
  <2>1. CASE seen[s] = <<"SUBMITTED">>
    <3>1. seen'[s] = <<"SUBMITTED">> \o <<"WORKING", "ARTIFACT">>
      BY <1>4, <1>b, <1>c, <1>d, <2>1
    <3>2. QED
      BY <3>1, OneAndTwo, StateNames
  <2>2. CASE seen[s] = <<"SUBMITTED", "WORKING">>
    <3>1. seen'[s] = <<"SUBMITTED", "WORKING">> \o Tail(<<"WORKING", "ARTIFACT">>)
      BY <1>4, <1>a, <1>c, <1>d, <2>2
    <3>2. Tail(<<"WORKING", "ARTIFACT">>) = <<"ARTIFACT">>
      OBVIOUS
    <3>3. QED
      BY <3>1, <3>2, TwoAndOne, StateNames
  <2>3. QED
    BY <1>4, <2>1, <2>2
<1>5. ASSUME seen[s] = <<"SUBMITTED", "WORKING", "ARTIFACT">>, Write(s, <<"COMPLETED">>)
      PROVE  seen'[s] = FullStream
  <2>1. seen'[s] = <<"SUBMITTED", "WORKING", "ARTIFACT">> \o <<"COMPLETED">>
    BY <1>5, <1>b, <1>c, <1>d
  <2>2. QED
    BY <2>1, ThreeAndOne, StateNames DEF FullStream
<1>6. QED
  BY <1>2, <1>3, <1>4, <1>5

LEMMA StepSaw ==
  ASSUME TypeOK, ClientSawIt, [Next]_vars
  PROVE  ClientSawIt'
<1> USE Sorts
<1>1. CASE UNCHANGED vars
  BY <1>1, SawUnchanged DEF vars, streamVars
<1>2. ASSUME NEW p \in Procs \ Streams, NEW from, NEW to, Goto(p, from, to), UNCHANGED streamVars
      PROVE  ClientSawIt'
  BY <1>2, SawUnchanged DEF Goto, TypeOK, streamVars
<1>3. \A s \in Streams : conn[s] => Saw(s)
  BY DEF ClientSawIt
<1>4. ASSUME NEW s \in Streams, OpenStream(s)
      PROVE  ClientSawIt'
  <2>1. /\ pc[s] = "idle" /\ pc' = [pc EXCEPT ![s] = "asleep"]
        /\ UNCHANGED <<phase, conn>> /\ Write(s, <<"SUBMITTED">>)
    BY <1>4, Moves DEF OpenStream, Goto
  <2>2. conn[s] => Saw(s)'
    BY <1>3, <2>1, WriteAdds DEF Saw, TypeOK
  <2>3. QED
    BY <2>1, <2>2, SawTurn DEF TypeOK
<1>5. ASSUME NEW s \in Streams, ReportPhase(s)
      PROVE  ClientSawIt'
  <2>1. /\ pc[s] = "asleep" /\ pc' = [pc EXCEPT ![s] = "asleep"]
        /\ phase' = [phase EXCEPT ![s] = @ + 1]
        /\ UNCHANGED conn /\ Write(s, <<"WORKING">>)
    BY <1>5, Moves DEF ReportPhase, Goto
  <2>2. phase'[s] # 1
    BY <2>1, TSAgentAssumption DEF TypeOK
  <2>3. conn[s] => Saw(s)'
    BY <1>3, <2>1, <2>2, WriteAdds DEF Saw, TypeOK
  <2>4. QED
    BY <2>1, <2>3, SawTurn DEF TypeOK
<1>6. ASSUME NEW s \in Streams, ReportLastPhase(s)
      PROVE  ClientSawIt'
  <2>1. /\ pc[s] = "asleep" /\ pc' = [pc EXCEPT ![s] = "finishing"]
        /\ UNCHANGED <<phase, conn>> /\ Write(s, <<"WORKING", "ARTIFACT">>)
    BY <1>6 DEF ReportLastPhase, Goto
  <2>2. conn[s] => Saw(s)'
    BY <1>3, <2>1, WriteAdds DEF Saw, TypeOK
  <2>3. QED
    BY <2>1, <2>2, SawTurn DEF TypeOK
<1>7. ASSUME NEW s \in Streams, Finish(s)
      PROVE  ClientSawIt'
  <2>1. /\ pc[s] = "finishing" /\ pc' = [pc EXCEPT ![s] = "done"]
        /\ UNCHANGED <<phase, conn>> /\ Write(s, <<"COMPLETED">>)
    BY <1>7 DEF Finish, Goto
  <2>2. conn[s] => Saw(s)'
    BY <1>3, <2>1, WriteAdds DEF Saw, TypeOK
  <2>3. QED
    BY <2>1, <2>2, SawTurn DEF TypeOK
<1>8. ASSUME NEW s \in Streams, ClientLeaves(s)
      PROVE  ClientSawIt'
  BY <1>3, <1>8 DEF ClientLeaves, ClientSawIt, Saw, TypeOK
<1>9. ASSUME NEW t \in Sends, Send(t)
      PROVE  ClientSawIt'
  BY <1>2, <1>9 DEF Send
<1>10. ASSUME NEW c \in Cancels, Cancel(c)
       PROVE  ClientSawIt'
  BY <1>2, <1>10 DEF Cancel
<1>11. ASSUME NEW p \in Subscribers, Subscribe(p)
       PROVE  ClientSawIt'
  BY <1>2, <1>11 DEF Subscribe
<1>12. ASSUME NEW p \in Subscribers, RequestCloses(p)
       PROVE  ClientSawIt'
  BY <1>2, <1>12 DEF RequestCloses
<1>13. QED
  BY <1>1, <1>4, <1>5, <1>6, <1>7, <1>8, <1>9, <1>10, <1>11, <1>12 DEF Next, Wake

-----------------------------------------------------------------------------
LEMMA InitInv == Init => TypeOK /\ IInv
<1> SUFFICES ASSUME Init PROVE TypeOK /\ IInv
  OBVIOUS
<1> USE Sorts
<1>1. TypeOK
  <2>1. ToldNone \in Told
    BY DEF ToldNone, Told
  <2>2. 1 \in 1..NumPhases
    BY TSAgentAssumption
  <2>3. QED
    BY <2>1, <2>2 DEF Init, TypeOK, Locations
<1>2. TaskFollowsWorker
  BY DEF Init, TaskFollowsWorker
<1>3. AttachedOnce /\ SubscriberCanRebuild
  BY DEF Init, AttachedOnce, SubscriberCanRebuild
<1>4. ClientSawIt
  BY DEF Init, ClientSawIt, Saw
<1>5. QED
  BY <1>1, <1>2, <1>3, <1>4 DEF IInv

\* The invariant of a TypeScript agent is inductive: every step of index.ts
\* keeps the task, its subscribers and the client of a stream together.
THEOREM Invariance == Spec => [](TypeOK /\ IInv)
<1>1. TypeOK /\ IInv /\ [Next]_vars => (TypeOK /\ IInv)'
  BY StepType, StepFollows, StepAttached, StepRebuild, StepSaw DEF IInv
<1>2. QED
  BY InitInv, <1>1, PTL DEF Spec

\* Type correctness, for any requests and phases (index.ts, tasks.ts).
THEOREM TypesCorrect == Spec => []TypeOK
  BY Invariance, PTL

\* A subscriber that is attached knows where its task stands, from its snapshot
\* and the broadcasts since (index.ts 387-412).
THEOREM SubscribersKnow == Spec => []SubscriberCanRebuild
<1>1. IInv => SubscriberCanRebuild
  BY DEF IInv
<1>2. QED
  BY Invariance, <1>1, PTL

\* Whatever is canceled meanwhile, a caller of a TypeScript agent gets the one
\* complete answer that MissionControl expects of it (index.ts 220-296).
THEOREM AnswersAreComplete == Spec => []AnswersAsAssumed
<1>1. TypeOK /\ IInv => AnswersAsAssumed
  <2> SUFFICES ASSUME TypeOK, IInv PROVE AnswersAsAssumed
    OBVIOUS
  <2>1. \A t \in Tasks : pc[t] = "done" => GetTask(t) = Completed
    BY DEF IInv, TaskFollowsWorker, TypeOK, Completed, GetTask
  <2>2. \A s \in Streams : pc[s] = "done" /\ conn[s] => seen[s] = FullStream
    BY DEF IInv, ClientSawIt, Saw
  <2>3. [seen |-> FullStream, final |-> Completed] \in StreamAnswers(FALSE)
    BY DEF StreamAnswers
  <2>4. Completed \in SendAnswers(FALSE)
    BY DEF SendAnswers
  <2>5. QED
    BY <2>1, <2>2, <2>3, <2>4, Sorts DEF AnswersAsAssumed
<1>2. QED
  BY Invariance, <1>1, PTL

-----------------------------------------------------------------------------
(* The refinement.                                                         *)

LEMMA LifecycleStep ==
  ASSUME TypeOK, TaskFollowsWorker, [Next]_vars
  PROVE  [Lifecycle!LifecycleNext]_(Lifecycle!lifecycleVars)
<1> USE Sorts DEF Lifecycle!lifecycleVars, AtWork
<1>1. CASE UNCHANGED vars
  BY <1>1 DEF vars, taskVars
<1>2. ASSUME NEW t \in Sends, Send(t)
      PROVE  Lifecycle!Serve(t)
  <2>1. AtWork' = AtWork
    BY <1>2 DEF Send, Goto, TypeOK
  <2>2. QED
    BY <1>2, <2>1 DEF Send, FinishSync, SetStatus, AddArtifact, Lifecycle!Serve
<1>3. ASSUME NEW s \in Streams, OpenStream(s)
      PROVE  Lifecycle!Submit(s)
  <2>1. AtWork' = [AtWork EXCEPT ![s] = TRUE]
    BY <1>3, Moves DEF OpenStream, Goto, TypeOK
  <2>2. QED
    BY <1>3, <2>1 DEF OpenStream, Create, Lifecycle!Submit
<1>4. ASSUME NEW s \in Streams, ReportPhase(s)
      PROVE  Lifecycle!Work(s)
  <2>1. AtWork' = AtWork /\ pc[s] = "asleep"
    BY <1>4, Moves DEF ReportPhase, Goto, TypeOK
  <2>2. QED
    BY <1>4, <2>1 DEF ReportPhase, SetStatus, Lifecycle!Work, TaskFollowsWorker
<1>5. ASSUME NEW s \in Streams, ReportLastPhase(s)
      PROVE  Lifecycle!Deliver(s)
  <2>1. AtWork' = AtWork /\ pc[s] = "asleep"
    BY <1>5 DEF ReportLastPhase, Goto, TypeOK
  <2>2. QED
    BY <1>5, <2>1 DEF ReportLastPhase, SetStatus, AddArtifact, Lifecycle!Deliver, TaskFollowsWorker
<1>6. ASSUME NEW s \in Streams, Finish(s)
      PROVE  Lifecycle!Complete(s)
  <2>1. AtWork' = [AtWork EXCEPT ![s] = FALSE] /\ pc[s] = "finishing"
    <3>1. pc[s] = "finishing" /\ pc' = [pc EXCEPT ![s] = "done"]
      BY <1>6 DEF Finish, Goto
    <3>2. (pc'[s] \in {"asleep", "finishing"}) = FALSE
      BY <3>1 DEF TypeOK
    <3>3. \A t \in Tasks \ {s} : pc'[t] = pc[t]
      BY <3>1 DEF TypeOK
    <3>4. QED
      <4>1. AtWork' = [t \in Tasks |-> IF t = s THEN FALSE ELSE pc[t] \in {"asleep", "finishing"}]
        BY <3>2, <3>3
      <4>2. QED
        BY <3>1, <4>1
  <2>2. QED
    BY <1>6, <2>1 DEF Finish, SetStatus, Lifecycle!Complete, TaskFollowsWorker
<1>7. ASSUME NEW s \in Streams, ClientLeaves(s)
      PROVE  UNCHANGED <<status, arts, AtWork>>
  BY <1>7 DEF ClientLeaves, taskVars
<1>8. ASSUME NEW p \in Visitors, NEW from, NEW to, Goto(p, from, to)
      PROVE  AtWork' = AtWork
  BY <1>8 DEF Goto, TypeOK
<1>9. ASSUME NEW c \in Cancels, Cancel(c)
      PROVE  \/ UNCHANGED <<status, arts, AtWork>>
             \/ \E t \in Tasks : Lifecycle!Cancel(t)
  <2>1. AtWork' = AtWork
    BY <1>8, <1>9 DEF Cancel
  <2>2. QED
    BY <1>9, <2>1 DEF Cancel, SetStatus, Lifecycle!Cancel
<1>10. ASSUME NEW p \in Subscribers, Subscribe(p) \/ RequestCloses(p)
       PROVE  UNCHANGED <<status, arts, AtWork>>
  <2>1. AtWork' = AtWork
    BY <1>8, <1>10 DEF Subscribe, RequestCloses
  <2>2. QED
    BY <1>10, <2>1 DEF Subscribe, RequestCloses, taskVars
<1>11. QED
  BY <1>1, <1>2, <1>3, <1>4, <1>5, <1>6, <1>7, <1>9, <1>10
     DEF Next, Wake, Lifecycle!LifecycleNext

\* A TypeScript agent implements TaskLifecycle: a send is served at once, a
\* stream moves only as its worker does, a cancel changes the state alone.
THEOREM TasksKeepToLifecycle == Spec => ImplementsLifecycle
<1>1. Init => Lifecycle!LifecycleInit
  <2>1. ASSUME Init, NEW t \in Tasks
        PROVE  (pc[t] \in {"asleep", "finishing"}) = FALSE
    BY <2>1, Sorts DEF Init
  <2>2. QED
    BY <2>1, Sorts DEF Init, Lifecycle!LifecycleInit, AtWork
<1>2. TypeOK /\ IInv /\ [Next]_vars => [Lifecycle!LifecycleNext]_(Lifecycle!lifecycleVars)
  BY LifecycleStep DEF IInv
<1>3. QED
  BY Invariance, <1>1, <1>2, PTL DEF Spec, ImplementsLifecycle, Lifecycle!LifecycleSpec

-----------------------------------------------------------------------------
(* What keeping to TaskLifecycle is good for.                              *)

Kept == INSTANCE TaskLifecycle_proof WITH
  state  <- status,
  result <- arts,
  open   <- AtWork

LEMMA LifecycleIsKept == Spec => Kept!LifecycleSpec
<1>1. Lifecycle!LifecycleInit => Kept!LifecycleInit
  BY DEF Lifecycle!LifecycleInit, Kept!LifecycleInit
<1>2. [Lifecycle!LifecycleNext]_(Lifecycle!lifecycleVars) => [Kept!LifecycleNext]_(Kept!lifecycleVars)
  BY DEF Lifecycle!LifecycleNext, Kept!LifecycleNext, Lifecycle!lifecycleVars, Kept!lifecycleVars,
         Lifecycle!Submit, Lifecycle!Work, Lifecycle!Attach, Lifecycle!Deliver,
         Lifecycle!Complete, Lifecycle!Conclude, Lifecycle!Serve, Lifecycle!Abandon,
         Lifecycle!Cancel, Kept!Submit, Kept!Work, Kept!Attach, Kept!Deliver,
         Kept!Complete, Kept!Conclude, Kept!Serve, Kept!Abandon, Kept!Cancel
<1> QED
  BY TasksKeepToLifecycle, <1>1, <1>2, PTL
  DEF ImplementsLifecycle, Lifecycle!LifecycleSpec, Kept!LifecycleSpec

\* A completed task has its artifact, which stays; a cancel is undone only while
\* the task's stream is still at it (index.ts 416-459, 489-588).
THEOREM ResultsAndLateCancelsStay == Spec => []Lifecycle!LifecycleInv /\ Lifecycle!NothingTakenBack
<1>1. Kept!LifecycleInv => Lifecycle!LifecycleInv
  BY DEF Kept!LifecycleInv, Lifecycle!LifecycleInv, Kept!LifecycleTypeOK, Lifecycle!LifecycleTypeOK
<1>2. Kept!NothingTakenBack => Lifecycle!NothingTakenBack
  BY DEF Kept!NothingTakenBack, Lifecycle!NothingTakenBack, Kept!lifecycleVars, Lifecycle!lifecycleVars
<1> QED
  BY LifecycleIsKept, Kept!LifecycleInvariance, Kept!NothingIsTakenBack, <1>1, <1>2, PTL

-----------------------------------------------------------------------------
(* What AttachedAreTold rests on.                                          *)

LEMMA StepSomewhere ==
  ASSUME TypeOK, AttachedSomewhere, [Next]_vars
  PROVE  AttachedSomewhere'
<1> USE Sorts
<1>1. CASE UNCHANGED vars
  BY <1>1 DEF vars, AttachedSomewhere
<1>2. ASSUME NEW q \in Procs \ Subscribers, NEW from, NEW to, Goto(q, from, to), UNCHANGED live
      PROVE  AttachedSomewhere'
  BY <1>2 DEF Goto, TypeOK, AttachedSomewhere
<1>3. ASSUME NEW t \in Sends, Send(t) PROVE AttachedSomewhere'
  BY <1>2, <1>3 DEF Send
<1>4. ASSUME NEW s \in Streams, OpenStream(s) PROVE AttachedSomewhere'
  BY <1>2, <1>4 DEF OpenStream
<1>5. ASSUME NEW s \in Streams, Wake(s) PROVE AttachedSomewhere'
  BY <1>2, <1>5 DEF Wake, ReportPhase, ReportLastPhase, Finish
<1>6. ASSUME NEW s \in Streams, ClientLeaves(s) PROVE AttachedSomewhere'
  BY <1>6 DEF ClientLeaves, AttachedSomewhere
<1>7. ASSUME NEW c \in Cancels, Cancel(c) PROVE AttachedSomewhere'
  BY <1>2, <1>7 DEF Cancel
<1>8. ASSUME NEW p \in Subscribers, Subscribe(p) PROVE AttachedSomewhere'
  <2>1. \/ UNCHANGED live /\ pc' = [pc EXCEPT ![p] = "done"]
        \/ \E t \in Tasks : /\ pc' = [pc EXCEPT ![p] = "attached"]
                            /\ live' = [live EXCEPT ![t] = @ \cup {p}]
    BY <1>8 DEF Subscribe, Goto
  <2>2. CASE UNCHANGED live /\ pc' = [pc EXCEPT ![p] = "done"]
    BY <2>2 DEF AttachedSomewhere, TypeOK
  <2>3. ASSUME NEW t \in Tasks, pc' = [pc EXCEPT ![p] = "attached"],
               live' = [live EXCEPT ![t] = @ \cup {p}]
        PROVE  AttachedSomewhere'
    <3>1. p \in live'[t] /\ \A u \in Tasks : live[u] \subseteq live'[u]
      BY <2>3 DEF TypeOK
    <3>2. \A q \in Subscribers : q # p => pc'[q] = pc[q]
      BY <2>3 DEF TypeOK
    <3> QED
      BY <3>1, <3>2 DEF AttachedSomewhere
  <2> QED
    BY <2>1, <2>2, <2>3
<1>9. ASSUME NEW p \in Subscribers, RequestCloses(p) PROVE AttachedSomewhere'
  BY <1>9 DEF RequestCloses, Goto, TypeOK, AttachedSomewhere
<1> QED
  BY <1>1, <1>3, <1>4, <1>5, <1>6, <1>7, <1>8, <1>9 DEF Next

\* No subscriber waits for a worker that has gone: the end is told already, or
\* a stream is on its way to it (index.ts 387-412, 489-562).
THEOREM NobodyIsForgotten == Spec => []NobodyWaitsInVain
<1>1. Init => AttachedSomewhere
  BY Sorts DEF Init, AttachedSomewhere
<1>2. Spec => []AttachedSomewhere
  BY <1>1, StepSomewhere, TypesCorrect, PTL DEF Spec
<1>3. TypeOK /\ IInv /\ AttachedSomewhere => NobodyWaitsInVain
  <2> SUFFICES ASSUME TypeOK, IInv, AttachedSomewhere,
                      NEW p \in Subscribers, pc[p] = "attached"
               PROVE  \E t \in Tasks :
                        p \in live[t] /\ (told[p].final \/ (t \in Streams /\ EndToCome(t)))
    BY DEF NobodyWaitsInVain
  <2>1. PICK t \in Tasks : p \in live[t]
    BY DEF AttachedSomewhere
  <2>2. CASE status[t] = "COMPLETED"
    BY <2>1, <2>2 DEF IInv, SubscriberCanRebuild
  <2>3. CASE status[t] # "COMPLETED"
    <3>1. pc[t] \in {"asleep", "finishing"} /\ t \in Streams
      BY <2>1, <2>3 DEF IInv, AttachedOnce, TaskFollowsWorker
    <3>2. phase[t] \in 1..NumPhases
      BY <3>1 DEF TypeOK
    <3> QED
      BY <2>1, <3>1, <3>2 DEF EndToCome
  <2> QED
    BY <2>2, <2>3
<1> QED
  BY <1>2, <1>3, Invariance, PTL
=============================================================================
