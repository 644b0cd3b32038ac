---------------------------- MODULE TaskLifecycle ----------------------------
(***************************************************************************)
(* What an agent's task store promises about its tasks, whoever cancels    *)
(* and whoever reads: a task is worked on once; its result is attached not *)
(* later than the task is completed and is never taken back; it is         *)
(* completed once, by its worker; after the result is attached it is not   *)
(* set back to working; and after its worker has left it, nothing but a    *)
(* cancellation happens to it.                                             *)
(*                                                                         *)
(* GoAgentTasks, TSAgentTasks and CommandTasks implement this              *)
(* specification.                                                          *)
(***************************************************************************)
CONSTANT Tasks

VARIABLES
  state,    \* state of each task, "none" until it is submitted
  result,   \* TRUE when its result is attached
  open      \* TRUE while its worker is at it

lifecycleVars == <<state, result, open>>

LifecycleInit ==
  /\ state  = [t \in Tasks |-> "none"]
  /\ result = [t \in Tasks |-> FALSE]
  /\ open   = [t \in Tasks |-> FALSE]

Submit(t) ==
  /\ state[t] = "none"
  /\ state' = [state EXCEPT ![t] = "SUBMITTED"]
  /\ open' = [open EXCEPT ![t] = TRUE]
  /\ UNCHANGED result

Work(t) ==
  /\ open[t]
  /\ ~result[t]
  /\ state' = [state EXCEPT ![t] = "WORKING"]
  /\ UNCHANGED <<result, open>>

Attach(t) ==
  /\ open[t]
  /\ result' = [result EXCEPT ![t] = TRUE]
  /\ UNCHANGED <<state, open>>

\* The last report of progress comes with the result.
Deliver(t) ==
  /\ open[t]
  /\ ~result[t]
  /\ state' = [state EXCEPT ![t] = "WORKING"]
  /\ result' = [result EXCEPT ![t] = TRUE]
  /\ UNCHANGED open

Complete(t) ==
  /\ open[t]
  /\ result[t]
  /\ state' = [state EXCEPT ![t] = "COMPLETED"]
  /\ open' = [open EXCEPT ![t] = FALSE]
  /\ UNCHANGED result

\* Completed with its result at once.
Conclude(t) ==
  /\ open[t]
  /\ ~result[t]
  /\ state' = [state EXCEPT ![t] = "COMPLETED"]
  /\ result' = [result EXCEPT ![t] = TRUE]
  /\ open' = [open EXCEPT ![t] = FALSE]

\* The worker stops early, without a result.
Abandon(t) ==
  /\ open[t]
  /\ ~result[t]
  /\ open' = [open EXCEPT ![t] = FALSE]
  /\ UNCHANGED <<state, result>>

\* The whole of it at once.
Serve(t) ==
  /\ state[t] = "none"
  /\ state' = [state EXCEPT ![t] = "COMPLETED"]
  /\ result' = [result EXCEPT ![t] = TRUE]
  /\ UNCHANGED open

\* Possible as long as the task is in the store.
Cancel(t) ==
  /\ state[t] # "none"
  /\ state' = [state EXCEPT ![t] = "CANCELED"]
  /\ UNCHANGED <<result, open>>

LifecycleNext ==
  \E t \in Tasks :
    \/ Submit(t) \/ Work(t) \/ Attach(t) \/ Deliver(t) \/ Complete(t)
    \/ Conclude(t) \/ Serve(t) \/ Abandon(t) \/ Cancel(t)

LifecycleSpec == LifecycleInit /\ [][LifecycleNext]_lifecycleVars
-----------------------------------------------------------------------------
(* What whoever keeps to it can count on.                                  *)

LifecycleTypeOK ==
  /\ state \in [Tasks -> {"none", "SUBMITTED", "WORKING", "COMPLETED", "CANCELED"}]
  /\ result \in [Tasks -> BOOLEAN]
  /\ open \in [Tasks -> BOOLEAN]

\* A task that is not there has neither worker nor result; one that is completed
\* has its result, and its worker has left it.
LifecycleInv ==
  /\ LifecycleTypeOK
  /\ \A t \in Tasks :
       /\ state[t] = "none" => ~open[t] /\ ~result[t]
       /\ state[t] = "COMPLETED" => ~open[t] /\ result[t]

\* Results stay, and a cancellation after the worker has left is final.
NothingTakenBack ==
  [][\A t \in Tasks :
       /\ result[t] => result'[t]
       /\ state[t] = "CANCELED" /\ ~open[t] => state'[t] = "CANCELED" /\ ~open'[t]
    ]_lifecycleVars
=============================================================================
