---------------------------- MODULE CommandTasks ----------------------------
(***************************************************************************)
(* The command agent's own A2A face (command-agent/app/main.py) in front   *)
(* of MissionControl: message:send and message:stream run a mission and    *)
(* show it as a task in the memory of the process, which can be canceled.  *)
(*                                                                         *)
(* A task is named by the command that makes it.  A stream runs two        *)
(* things: the mission, and the generator of its events, which awaits the  *)
(* mission's summary.  TASKS dies with the process: a task is in it while  *)
(* its command is not "gone".                                              *)
(***************************************************************************)
EXTENDS MissionControl

CONSTANTS
  StreamCommands,  \* POST /message:stream
  SendCommands     \* POST /message:send with start_mission

Commands == StreamCommands \cup SendCommands

ASSUME CommandAssumption ==
  /\ Commands \subseteq Starts
  /\ StreamCommands \cap SendCommands = {}

VARIABLES
  face,     \* status.state of each task, "none" until there is one
  summary,  \* whether it has the mission summary as its artifact
  gen       \* how far the generator of each stream is

commandVars == <<face, summary, gen>>
allVars     == <<vars, commandVars>>

-----------------------------------------------------------------------------
CommandTypeOK ==
  /\ face \in [Commands -> {"none", "SUBMITTED", "CANCELED", "COMPLETED"}]
  /\ summary \in [Commands -> BOOLEAN]
  /\ gen \in [StreamCommands -> {"none", "open", "summarized", "ended", "left"}]

CommandInit ==
  /\ Init
  /\ face = [t \in Commands |-> "none"]
  /\ summary = [t \in Commands |-> FALSE]
  /\ gen = [s \in StreamCommands |-> "none"]

Alive(t) == pc[t] # "gone"

\* Wrong on purpose (CommandKeepsLifecycle): the artifact goes out in an event only.
PutCompletedBare(t) ==
  /\ face' = [face EXCEPT ![t] = "COMPLETED"]
  /\ UNCHANGED summary

\* A task that is complete, in place of the one that was there.
PutCompleted(t) ==
  /\ face' = [face EXCEPT ![t] = "COMPLETED"]
  /\ summary' = [summary EXCEPT ![t] = TRUE]

-----------------------------------------------------------------------------
(* message:stream.                                                         *)

\* Wrong on purpose (CommandTypeOK): a report of progress is stored.
OpenStreamWorking(s) ==
  /\ Arrive(s)
  /\ gen' = [gen EXCEPT ![s] = "open"]
  /\ face' = [face EXCEPT ![s] = "WORKING"]
  /\ UNCHANGED summary

\* The mission is set off and goes for the lock; the generator puts the task
\* and sends it, then two reports of progress that it does not store.  Two steps
\* of the event loop are taken as one: until its first event nobody knows the
\* task, and the generator may be as late as it likes at its next step.
OpenStream(s) ==
  /\ Arrive(s)
  /\ gen' = [gen EXCEPT ![s] = "open"]
  /\ face' = [face EXCEPT ![s] = "SUBMITTED"]
  /\ UNCHANGED summary

\* Wrong on purpose (EveryStreamAnswered): a run that fails sets no result.
SendSummaryOfSuccess(s) ==
  /\ gen[s] = "open"
  /\ pc[s] = "done"
  /\ gen' = [gen EXCEPT ![s] = "summarized"]
  /\ UNCHANGED <<vars, face, summary>>

\* Wrong on purpose (CompletedAfterOwnRun): the mission on record is taken for
\* the stream's own.
SendSummaryOnRecord(s) ==
  /\ gen[s] = "open" /\ Alive(s)
  /\ pc[s] \in Ended \/ \E m \in missions : m.status = "completed"
  /\ gen' = [gen EXCEPT ![s] = "summarized"]
  /\ UNCHANGED <<vars, face, summary>>

\* The future has a result, whether the run succeeded or failed.
SendSummary(s) ==
  /\ gen[s] = "open"
  /\ pc[s] \in Ended
  /\ gen' = [gen EXCEPT ![s] = "summarized"]
  /\ UNCHANGED <<vars, face, summary>>

\* COMPLETED, whatever a cancel has made of the task.
Conclude(s) ==
  /\ gen[s] = "summarized" /\ Alive(s)
  /\ gen' = [gen EXCEPT ![s] = "ended"]
  /\ PutCompleted(s)
  /\ UNCHANGED vars

\* The generator is canceled, and the future with it if it was awaited; the
\* mission goes on, and looks at the future before it sets a result.
ClientLeaves(s) ==
  /\ gen[s] \in {"open", "summarized"} /\ Alive(s)
  /\ gen' = [gen EXCEPT ![s] = "left"]
  /\ UNCHANGED <<vars, face, summary>>

-----------------------------------------------------------------------------
(* message:send and cancel.                                                *)

\* A send has its task when its mission is completed; one whose mission fails
\* is answered with an error.
RunStepAndAnswer(p) ==
  /\ RunStep(p)
  /\ IF p \in SendCommands /\ pc[p] = "close"
     THEN PutCompleted(p) /\ UNCHANGED gen
     ELSE UNCHANGED commandVars

\* Refused if the task has ended; the mission is not told.
CancelTask(t) ==
  /\ Alive(t)
  /\ face[t] \notin {"none", "COMPLETED", "CANCELED"}
  /\ face' = [face EXCEPT ![t] = "CANCELED"]
  /\ UNCHANGED <<vars, summary, gen>>

-----------------------------------------------------------------------------
Proceed(p) == (Grant(p) /\ UNCHANGED commandVars) \/ RunStepAndAnswer(p)
Decide     == (AutostartReady \/ AutostartGiveUp) /\ UNCHANGED commandVars
Report(s)  == SendSummary(s) \/ Conclude(s)

CommandNext ==
  \/ \E r \in Requests \ StreamCommands : Arrive(r) /\ UNCHANGED commandVars
  \/ \E s \in StreamCommands : OpenStream(s) \/ Report(s) \/ ClientLeaves(s)
  \/ \E p \in Procs : Proceed(p) \/ (Fail(p) /\ UNCHANGED commandVars)
  \/ Decide
  \/ \E t \in Commands : CancelTask(t)
  \/ Crash /\ UNCHANGED commandVars

CommandSpec == CommandInit /\ [][CommandNext]_allVars

\* As in MissionControl; and a generator that can go on does so.
CommandFairness ==
  /\ \A p \in Procs : WF_allVars(Proceed(p))
  /\ WF_allVars(Decide)
  /\ \A s \in StreamCommands : WF_allVars(Report(s))

CommandFairSpec == CommandSpec /\ CommandFairness
-----------------------------------------------------------------------------
(* Properties.                                                             *)

\* No task is completed, and no summary sent, while the mission that it stands
\* for waits for the lock or runs, whatever other missions come and go in the
\* same tables (main.py 463-465, 521-522); a send is completed by success only.
CompletedAfterOwnRun ==
  \A t \in Commands : Alive(t) =>
    /\ face[t] = "COMPLETED" => pc[t] \in Ended
    /\ t \in StreamCommands /\ gen[t] \in {"summarized", "ended"} => pc[t] \in Ended
    /\ t \in SendCommands /\ face[t] = "COMPLETED" => pc[t] = "done"

\* A stream whose client stays gets its end, behind however many missions it
\* is queued and however its own one ends, unless the process dies (main.py
\* 594-604: the future gets a result on every path).
EveryStreamAnswered ==
  \A s \in StreamCommands :
    gen[s] = "open" ~> gen[s] \in {"ended", "left"} \/ ~Alive(s)

\* From its first event to its last a stream is at its task; a send is at once.
AtWork ==
  [t \in Commands |-> t \in StreamCommands /\ gen[t] \in {"open", "summarized"}]

\* The tasks change only as TaskLifecycle says, as those of the other agents,
\* though they are replaced and not updated (main.py 434, 541-555).
Faces == INSTANCE TaskLifecycle WITH
  Tasks  <- Commands,
  state  <- face,
  result <- summary,
  open   <- AtWork

CommandKeepsLifecycle == Faces!LifecycleSpec

-----------------------------------------------------------------------------
(* The inductive invariant behind the safety properties.                   *)

\* Who is in the lock's queue waits for it, and is there once.
Queued ==
  \A i, j \in 1..Len(waiters) :
    /\ pc[waiters[i]] = "queued"
    /\ waiters[i] = waiters[j] => i = j

\* How far the generator is tells what the task shows, and that its run ended.
StreamFace(s) ==
  /\ pc[s] = "idle" => gen[s] = "none"
  /\ gen[s] = "none" <=> face[s] = "none"
  /\ gen[s] # "ended" => ~summary[s] /\ face[s] # "COMPLETED"
  /\ gen[s] \in {"summarized", "ended"} => pc[s] \in Ended \cup {"gone"}

\* A send shows nothing until its mission is completed.
SendFace(t) == face[t] # "none" => pc[t] \in {"done", "gone"}

FacesFollow ==
  /\ \A s \in StreamCommands : StreamFace(s)
  /\ \A t \in SendCommands : SendFace(t)

CommandInv == CommandTypeOK /\ Queued /\ FacesFollow

\* What EveryRequestAnswered rests on: whoever waits is in the queue, and the
\* lock is held by someone inside, or the first of the queue can go in.
InQueue ==
  \A p \in Procs : pc[p] = "queued" => \E i \in 1..Len(waiters) : waiters[i] = p

TurnComes ==
  /\ InQueue
  /\ \/ owner \in Procs /\ pc[owner] \in Critical
     \/ owner = NoOne /\ (waiters # <<>> => pc[Head(waiters)] = "queued")
=============================================================================
