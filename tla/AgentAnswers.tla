---------------------------- MODULE AgentAnswers ----------------------------
(***************************************************************************)
(* What a caller can get out of an A2A agent (tasks.go of the Go agents,   *)
(* index.ts of the TypeScript agents): the events of a message:stream with *)
(* the task that GET /tasks/{id} shows afterwards, and the task in the     *)
(* response of a message:send.  MissionControl takes its answers from      *)
(* here; the modules of the agents have it as a property that they give no *)
(* other.                                                                  *)
(***************************************************************************)

\* "TORN": the state of a Go task read while it is being overwritten without
\* a lock; the text is then none of the contract's states.
TaskStates  == {"SUBMITTED", "WORKING", "COMPLETED", "CANCELED", "TORN"}
EventKinds  == TaskStates \cup {"ARTIFACT"}
RemoteTasks == [state : TaskStates, art : BOOLEAN]

Completed == [state |-> "COMPLETED", art |-> TRUE]
Stopped   == [state |-> "CANCELED", art |-> FALSE]

\* Progress reports of the same state count as one.
FullStream == <<"SUBMITTED", "WORKING", "ARTIFACT", "COMPLETED">>

\* A task that was finished and is canceled all the same, by a cancel handler
\* that looked at it earlier.
Overtaken == {[state |-> s, art |-> TRUE] : s \in {"CANCELED", "TORN"}}

\* A stream of a TypeScript agent is always complete: nothing is awaited between
\* an assignment of the state and its look for a cancellation.  A stream of a Go
\* agent may stop where the agent noticed a cancellation, which can show in the
\* very first event already.
StreamAnswers(onGo) ==
  {[seen |-> FullStream, final |-> Completed]}
    \cup IF onGo
         THEN {[seen |-> s, final |-> Stopped] :
                 s \in {<<"SUBMITTED">>, <<"SUBMITTED", "WORKING">>,
                        <<"CANCELED">>, <<"TORN">>}}
                \cup {[seen |-> FullStream, final |-> t] : t \in Overtaken}
         ELSE {}

SendAnswers(onGo) == {Completed} \cup (IF onGo THEN Overtaken ELSE {})
=============================================================================
