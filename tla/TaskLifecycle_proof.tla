------------------------- MODULE TaskLifecycle_proof -------------------------
(***************************************************************************)
(* Theorems about TaskLifecycle: what every task store that keeps to it    *)
(* can be counted on for.                                                  *)
(***************************************************************************)
EXTENDS TaskLifecycle, TLAPS

LEMMA LifecycleStarts == LifecycleInit => LifecycleInv
BY DEF LifecycleInit, LifecycleInv, LifecycleTypeOK

LEMMA LifecycleGoesOn ==
  ASSUME LifecycleInv, [LifecycleNext]_lifecycleVars
  PROVE  LifecycleInv'
<1> USE DEF LifecycleInv, LifecycleTypeOK
<1>1. ASSUME NEW t \in Tasks, Submit(t) PROVE LifecycleInv'
  BY <1>1 DEF Submit
<1>2. ASSUME NEW t \in Tasks, Work(t) PROVE LifecycleInv'
  BY <1>2 DEF Work
<1>3. ASSUME NEW t \in Tasks, Attach(t) PROVE LifecycleInv'
  BY <1>3 DEF Attach
<1>4. ASSUME NEW t \in Tasks, Deliver(t) PROVE LifecycleInv'
  BY <1>4 DEF Deliver
<1>5. ASSUME NEW t \in Tasks, Complete(t) PROVE LifecycleInv'
  BY <1>5 DEF Complete
<1>6. ASSUME NEW t \in Tasks, Conclude(t) PROVE LifecycleInv'
  BY <1>6 DEF Conclude
<1>7. ASSUME NEW t \in Tasks, Serve(t) PROVE LifecycleInv'
  BY <1>7 DEF Serve
<1>8. ASSUME NEW t \in Tasks, Abandon(t) PROVE LifecycleInv'
  BY <1>8 DEF Abandon
<1>9. ASSUME NEW t \in Tasks, Cancel(t) PROVE LifecycleInv'
  BY <1>9 DEF Cancel
<1>10. CASE UNCHANGED lifecycleVars
  BY <1>10 DEF lifecycleVars
<1> QED
  BY <1>1, <1>2, <1>3, <1>4, <1>5, <1>6, <1>7, <1>8, <1>9, <1>10 DEF LifecycleNext

\* A completed task has its result, and no worker is at it any more.
THEOREM LifecycleInvariance == LifecycleSpec => []LifecycleInv
BY LifecycleStarts, LifecycleGoesOn, PTL DEF LifecycleSpec

\* Results stay, and a cancellation after the worker has left is final.
THEOREM NothingIsTakenBack == LifecycleSpec => NothingTakenBack
<1> DEFINE Stays(t) == /\ result[t] => result'[t]
                       /\ state[t] = "CANCELED" /\ ~open[t] =>
                            state'[t] = "CANCELED" /\ ~open'[t]
<1>1. ASSUME LifecycleInv, LifecycleNext PROVE \A t \in Tasks : Stays(t)
  BY <1>1 DEF LifecycleInv, LifecycleTypeOK, LifecycleNext, Submit, Work, Attach, Deliver,
     Complete, Conclude, Serve, Abandon, Cancel
<1>2. LifecycleInv /\ [LifecycleNext]_lifecycleVars => [\A t \in Tasks : Stays(t)]_lifecycleVars
  BY <1>1
<1> QED
  BY <1>2, LifecycleInvariance, PTL DEF LifecycleSpec, NothingTakenBack
=============================================================================
