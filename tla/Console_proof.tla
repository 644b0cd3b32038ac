---------------------------- MODULE Console_proof ----------------------------
(***************************************************************************)
(* Theorems about Console: one loop drives a replay, it can be stopped,    *)
(* the header is not left red, the timeline lists each row once and the    *)
(* spine shows the timeline.                                               *)
(***************************************************************************)
EXTENDS Console, FiniteSetTheorems, TLAPS

(* What an action does to the replay.                                      *)

\* Most actions do not touch the replay.
LEMMA ReplayUntouched ==
  ASSUME DriverInv, UNCHANGED replayVars
  PROVE  DriverInv'
BY DEF DriverInv, TokensPast, OneDriver, StopAtHand, replayVars

\* stop() leaves no loop with the token of the moment.
LEMMA StopLeavesNone ==
  ASSUME DriverInv, StopLoops
  PROVE  DriverInv'
<1>1. token \in Nat /\ token' = token + 1 /\ ~running' /\ loops' \subseteq loops
  BY DEF DriverInv, TokensPast, StopLoops
<1>2. \A l \in loops' : l.token \in 0..token /\ l.token # token'
  BY <1>1 DEF DriverInv, TokensPast
<1>3. TokensPast'
  BY <1>1, <1>2 DEF TokensPast
<1>4. OneDriver'
  BY <1>1, <1>2 DEF DriverInv, OneDriver
<1> QED
  BY <1>1, <1>3, <1>4 DEF DriverInv, StopAtHand

\* A replay that is entered has a token that no loop had before.
LEMMA EnterIsAlone ==
  ASSUME DriverInv, NEW rows, Enter(rows)
  PROVE  DriverInv'
<1> DEFINE new == [token |-> token + 1, todo |-> InOrder(rows)]
<1>1. token \in Nat /\ token' = token + 1 /\ loops' = loops \cup {new}
  BY DEF DriverInv, TokensPast, Enter
<1>2. new.token = token'
  BY <1>1
<1> HIDE DEF new
<1>3. \A l \in loops : l.token \in 0..token /\ l.token # token'
  BY <1>1 DEF DriverInv, TokensPast
<1>4. TokensPast'
  BY <1>1, <1>2, <1>3 DEF TokensPast
<1>5. OneDriver'
  BY <1>1, <1>2, <1>3 DEF DriverInv, OneDriver, Enter
<1> QED
  BY <1>4, <1>5 DEF DriverInv, StopAtHand, Enter

\* A loop that is no longer the one goes away unnoticed.
LEMMA StaleGoes ==
  ASSUME DriverInv, NEW l \in loops, TickStale(l)
  PROVE  DriverInv'
<1>1. /\ loops' = loops \ {l} /\ (~running \/ l.token # token)
      /\ UNCHANGED <<running, token, stopShown>>
  BY DEF TickStale
<1>2. OneDriver'
  BY <1>1 DEF DriverInv, OneDriver
<1> QED
  BY <1>1, <1>2 DEF DriverInv, TokensPast, StopAtHand

\* The one loop goes on with the same token.
LEMMA NextIsAlone ==
  ASSUME DriverInv, NEW l \in loops, TickNext(l)
  PROVE  DriverInv'
<1> DEFINE new == [token |-> token, todo |-> Tail(l.todo)]
<1>1. /\ running /\ l.token = token
      /\ loops' = (loops \ {l}) \cup {new}
      /\ UNCHANGED <<running, token, stopShown>>
  BY DEF TickNext
<1>2. new.token = token
  OBVIOUS
<1> HIDE DEF new
<1>3. \A m \in loops \ {l} : m.token # token
  BY <1>1 DEF DriverInv, OneDriver
<1>4. TokensPast'
  BY <1>1, <1>2 DEF DriverInv, TokensPast
<1>5. OneDriver'
  BY <1>1, <1>2, <1>3 DEF DriverInv, OneDriver
<1> QED
  BY <1>1, <1>4, <1>5 DEF DriverInv, StopAtHand

\* At its end a replay leaves no loop with the token of the moment.
LEMMA LastLeavesNone ==
  ASSUME DriverInv, NEW l \in loops, TickLast(l)
  PROVE  DriverInv'
<1>1. token \in Nat /\ token' = token + 1 /\ ~running' /\ loops' \subseteq loops
  BY DEF DriverInv, TokensPast, TickLast
<1>2. \A m \in loops' : m.token \in 0..token /\ m.token # token'
  BY <1>1 DEF DriverInv, TokensPast
<1>3. TokensPast'
  BY <1>1, <1>2 DEF TokensPast
<1>4. OneDriver'
  BY <1>1, <1>2 DEF DriverInv, OneDriver
<1> QED
  BY <1>1, <1>3, <1>4 DEF DriverInv, StopAtHand

-----------------------------------------------------------------------------
(* Every step.                                                             *)

\* Tokens stay in order, one loop drives a replay and STOP is shown.
LEMMA DriverInit == Init => DriverInv
BY DEF Init, DriverInv, TokensPast, OneDriver, StopAtHand

LEMMA DriverLand ==
  ASSUME DriverInv, NEW f \in flights, Land(f)
  PROVE  DriverInv'
<1>1. CASE LandMission(f) \/ LandTimeline(f) \/ FailTimeline(f) \/ LandArtifacts(f)
  <2>1. UNCHANGED replayVars
    BY <1>1 DEF LandMission, LandTimeline, FailTimeline, LandArtifacts
  <2> QED
    BY <2>1, ReplayUntouched
<1>2. CASE LandReplay(f)
  <2>1. UNCHANGED replayVars \/ \E rows : Enter(rows)
    BY <1>2 DEF LandReplay
  <2> QED
    BY <2>1, ReplayUntouched, EnterIsAlone
<1>3. CASE FailReplay(f)
  <2>1. UNCHANGED replayVars \/ StopLoops
    BY <1>3 DEF FailReplay
  <2> QED
    BY <2>1, ReplayUntouched, StopLeavesNone
<1> QED
  BY <1>1, <1>2, <1>3 DEF Land

LEMMA DriverNext ==
  ASSUME DriverInv, [Next]_vars
  PROVE  DriverInv'
<1>1. CASE Backend
  <2>1. UNCHANGED replayVars
    BY <1>1 DEF Backend, consoleVars
  <2> QED
    BY <2>1, ReplayUntouched
<1>2. CASE \E f \in flights : Land(f)
  BY <1>2, DriverLand
<1>3. CASE Deliver \/ EscalationDue \/ StandDownDue \/ LandRun \/ LandReset \/ ClickRun
  <2>1. UNCHANGED replayVars
    BY <1>3 DEF Deliver, EscalationDue, StandDownDue, LandRun, LandReset, ClickRun
  <2> QED
    BY <2>1, ReplayUntouched
<1>4. CASE \E l \in loops : Tick(l)
  BY <1>4, StaleGoes, NextIsAlone, LastLeavesNone DEF Tick
<1>5. CASE ClickReset \/ ClickStop
  BY <1>5, StopLeavesNone DEF ClickReset, ClickStop
<1>6. CASE ClickReplay
  BY <1>6 DEF ClickReplay, DriverInv, TokensPast, OneDriver, StopAtHand
<1>7. CASE UNCHANGED vars
  <2>1. UNCHANGED replayVars
    BY <1>7 DEF vars, consoleVars
  <2> QED
    BY <2>1, ReplayUntouched
<1> QED
  BY <1>1, <1>2, <1>3, <1>4, <1>5, <1>6, <1>7 DEF Next, Operator

\* The inductive invariant of a replay (replay.js 22-24, 245-397).
THEOREM Driven == Spec => []DriverInv
BY DriverInit, DriverNext, PTL DEF Spec

\* However starts, stops and resets overlap, one loop drives a replay that is
\* on, and none one that is off (replay.js 245-397).
THEOREM AlwaysOneDriver == Spec => []OneDriver
<1>1. DriverInv => OneDriver
  BY DEF DriverInv
<1> QED
  BY <1>1, Driven, PTL

\* Whoever sees a replay can stop it (app.js 1069-1081, replay.js 263-266).
THEOREM AlwaysStopAtHand == Spec => []StopAtHand
<1>1. DriverInv => StopAtHand
  BY DEF DriverInv
<1> QED
  BY <1>1, Driven, PTL

-----------------------------------------------------------------------------
(* The header.                                                             *)

\* The header is drawn by the alert, or left as it is with it.
RedStays == redAlert' = redAlert /\ threatActive' = threatActive

\* No mission that is on its way gets lost.
MissionsStay == \A f \in flights : f.kind = "mission" => f \in flights'

\* A callback that draws the header, or that leaves both header and alert
\* alone, leaves it right.
LEMMA RedByAlert ==
  ASSUME RedAlertHasCause,
         (redAlert' => threatActive') \/ (RedStays /\ MissionsStay)
  PROVE  RedAlertHasCause'
BY DEF RedAlertHasCause, RedStays, MissionsStay

\* After a reload a mission is on its way, whatever else comes in.
LEMMA ReloadAsksForMission ==
  ASSUME MissionsStay, Load(Loaders) \subseteq flights'
  PROVE  RedAlertHasCause'
<1>1. \E g \in flights' : g.kind = "mission"
  <2>1. CASE \E g \in flights : g.kind = "mission"
    BY <2>1 DEF MissionsStay
  <2>2. CASE \A g \in flights : g.kind # "mission"
    <3>1. Fetch("mission", 0) \in Load(Loaders)
      BY <2>2 DEF Load, Loaders
    <3>2. Fetch("mission", 0).kind = "mission"
      BY DEF Fetch
    <3> QED
      BY <3>1, <3>2
  <2> QED
    BY <2>1, <2>2
<1> QED
  BY <1>1 DEF RedAlertHasCause

LEMMA RedInit == Init => RedAlertHasCause
BY DEF Init, RedAlertHasCause

\* A mission that lands draws the header; nothing else takes one away.
LEMMA RedLand ==
  ASSUME RedAlertHasCause, NEW f \in flights, Land(f)
  PROVE  RedAlertHasCause'
<1>1. CASE LandMission(f)
  BY <1>1, RedByAlert DEF LandMission, HeaderRed
<1>2. CASE LandTimeline(f) \/ FailTimeline(f)
  BY <1>2, RedByAlert DEF LandTimeline, FailTimeline, Landed, alertVars, RedStays, MissionsStay
<1>3. CASE LandArtifacts(f)
  BY <1>3, RedByAlert DEF LandArtifacts, Landed, HeaderRed, RedStays, MissionsStay
<1>4. CASE LandReplay(f)
  <2>1. MissionsStay
    BY <1>4 DEF LandReplay, Landed, MissionsStay
  <2>2. UNCHANGED alertVars \/ Calm
    BY <1>4 DEF LandReplay, Enter
  <2> QED
    BY <2>1, <2>2, RedByAlert DEF Calm, alertVars, RedStays
<1>5. CASE FailReplay(f)
  <2>1. CASE running
    <3>1. MissionsStay /\ Load(Loaders) \subseteq flights'
      BY <1>5, <2>1 DEF FailReplay, MissionsStay
    <3> QED
      BY <3>1, ReloadAsksForMission
  <2>2. CASE ~running
    BY <1>5, <2>2, RedByAlert DEF FailReplay, alertVars, RedStays, MissionsStay
  <2> QED
    BY <2>1, <2>2
<1> QED
  BY <1>1, <1>2, <1>3, <1>4, <1>5 DEF Land

\* An event, unless dropped, asks for more or draws the header.
LEMMA RedDeliver ==
  ASSUME RedAlertHasCause, Deliver
  PROVE  RedAlertHasCause'
<1>1. CASE UNCHANGED <<alertVars, flights>>
  BY <1>1, RedByAlert DEF alertVars, RedStays, MissionsStay
<1>2. CASE \E id : OnTransmission(id)
  <2>1. UNCHANGED alertVars /\ flights \subseteq flights'
    BY <1>2 DEF OnTransmission
  <2> QED
    BY <2>1, RedByAlert DEF alertVars, RedStays, MissionsStay
<1>3. CASE \E status : OnMission(status)
  <2>1. PICK status : redAlert' = HeaderRed(threatActive, threat, status)
                      /\ threatActive' = threatActive
    BY <1>3 DEF OnMission
  <2>2. redAlert' => threatActive'
    BY <2>1 DEF HeaderRed
  <2> QED
    BY <2>2, RedByAlert
<1> QED
  BY <1>1, <1>2, <1>3 DEF Deliver

\* A loop raises the alert, leaves it, or, at its end, stands it down.
LEMMA RedTick ==
  ASSUME RedAlertHasCause, NEW l \in loops, Tick(l)
  PROVE  RedAlertHasCause'
<1>1. CASE TickStale(l)
  BY <1>1, RedByAlert DEF TickStale, alertVars, RedStays, MissionsStay
<1>2. CASE TickNext(l)
  BY <1>2, RedByAlert DEF TickNext, Escalate, HeaderRed, RedStays, MissionsStay
<1>3. CASE TickLast(l)
  <2>1. MissionsStay /\ Load(Loaders) \subseteq flights'
    BY <1>3 DEF TickLast, MissionsStay
  <2> QED
    BY <2>1, ReloadAsksForMission
<1> QED
  BY <1>1, <1>2, <1>3 DEF Tick

LEMMA RedNext ==
  ASSUME RedAlertHasCause, [Next]_vars
  PROVE  RedAlertHasCause'
<1>1. CASE Backend \/ LandRun \/ UNCHANGED vars
  <2>1. UNCHANGED <<alertVars, flights>>
    BY <1>1 DEF Backend, LandRun, vars, consoleVars
  <2> QED
    BY <2>1, RedByAlert DEF alertVars, RedStays, MissionsStay
<1>2. CASE \E f \in flights : Land(f)
  BY <1>2, RedLand
<1>3. CASE Deliver
  BY <1>3, RedDeliver
<1>4. CASE EscalationDue
  BY <1>4, RedByAlert DEF EscalationDue, Escalate, HeaderRed, RedStays, MissionsStay
<1>5. CASE StandDownDue
  BY <1>5, RedByAlert DEF StandDownDue, StandDown, RedStays, MissionsStay
<1>6. CASE \E l \in loops : Tick(l)
  BY <1>6, RedTick
<1>7. CASE LandReset \/ ClickRun \/ ClickReset
  BY <1>7, RedByAlert DEF LandReset, ClickRun, ClickReset, ClearView, Calm
<1>8. CASE ClickReplay
  BY <1>8, RedByAlert DEF ClickReplay, alertVars, RedStays, MissionsStay
<1>9. CASE ClickStop
  <2>1. MissionsStay /\ Load(Loaders) \subseteq flights'
    BY <1>9 DEF ClickStop, ReloadLive, MissionsStay
  <2> QED
    BY <2>1, ReloadAsksForMission
<1> QED
  BY <1>1, <1>2, <1>3, <1>4, <1>5, <1>6, <1>7, <1>8, <1>9 DEF Next, Operator

\* The header is not left red: there is an alert, or an answer is on its way
\* that draws it again (app.js 296-297, 736-740).
THEOREM AlwaysRedHasCause == Spec => []RedAlertHasCause
BY RedInit, RedNext, PTL DEF Spec

-----------------------------------------------------------------------------
(* Operators on rows and sequences of rows.                                *)

\* Rank numbers the members of a finite set of numbers from 1 on.
LEMMA RankIsBijective ==
  ASSUME NEW ids \in SUBSET Nat, IsFiniteSet(ids)
  PROVE  /\ \A id \in ids : Rank(id, ids) \in 1..Cardinality(ids)
         /\ \A x, y \in ids : Rank(x, ids) = Rank(y, ids) => x = y
         /\ \A n \in 1..Cardinality(ids) : \E id \in ids : Rank(id, ids) = n
<1> DEFINE Upto(id) == {i \in ids : i <= id}
           c == Cardinality(ids)
           f == [id \in ids |-> Rank(id, ids)]
<1>0. c \in Nat
  BY FS_CardinalityType
<1>1. ASSUME NEW id \in ids
      PROVE  /\ IsFiniteSet(Upto(id)) /\ Rank(id, ids) = Cardinality(Upto(id))
             /\ Rank(id, ids) \in 1..c
  <2>1. Upto(id) \in SUBSET ids /\ id \in Upto(id)
    OBVIOUS
  <2>2. Rank(id, ids) = Cardinality(Upto(id))
    BY DEF Rank
  <2> HIDE DEF Upto
  <2>3. IsFiniteSet(Upto(id)) /\ Cardinality(Upto(id)) \in Nat /\ Cardinality(Upto(id)) <= c
    BY <2>1, FS_Subset, FS_CardinalityType
  <2>4. Cardinality(Upto(id)) # 0
    BY <2>1, <2>3, FS_EmptySet
  <2> HIDE DEF c
  <2>5. QED
    BY <1>0, <2>2, <2>3, <2>4
<1>2. ASSUME NEW x \in ids, NEW y \in ids, x < y
      PROVE  Rank(x, ids) # Rank(y, ids)
  <2>1. Upto(x) \in SUBSET Upto(y) /\ Upto(x) # Upto(y)
    <3>1. \A i \in ids : i <= x => i <= y
      BY <1>2
    <3>2. y \in Upto(y) /\ y \notin Upto(x)
      BY <1>2
    <3>3. QED
      BY <3>1, <3>2
  <2>2. IsFiniteSet(Upto(y)) /\ Rank(x, ids) = Cardinality(Upto(x))
                             /\ Rank(y, ids) = Cardinality(Upto(y))
    BY <1>1
  <2> HIDE DEF Upto
  <2>3. Cardinality(Upto(x)) # Cardinality(Upto(y))
    BY <2>1, <2>2, FS_Subset
  <2>4. QED
    BY <2>2, <2>3
<1>3. \A x, y \in ids : Rank(x, ids) = Rank(y, ids) => x = y
  <2>1. \A x, y \in ids : x = y \/ x < y \/ y < x
    OBVIOUS
  <2>2. QED
    BY <1>2, <2>1
<1> HIDE DEF Upto, c
<1>4. f \in Injection(ids, 1..c)
  BY <1>1, <1>3 DEF Injection, IsInjective
<1>5. IsFiniteSet(1..c) /\ Cardinality(1..c) = Cardinality(ids)
  <2>1. IsFiniteSet(1..c) /\ Cardinality(1..c) = c
    BY <1>0, FS_Interval
  <2>2. QED
    BY <2>1 DEF c
<1> HIDE DEF f
<1>6. f \in Surjection(ids, 1..c)
  BY <1>4, <1>5, FS_Injection
<1>7. \A n \in 1..c : \E id \in ids : f[id] = n
  BY <1>6 DEF Surjection
<1>8. QED
  BY <1>1, <1>3, <1>7 DEF c, f

\* A query lists each row that it finds once.
LEMMA InOrderLists ==
  ASSUME NEW ids \in SUBSET Ids
  PROVE  /\ InOrder(ids) \in Seq(Ids)
         /\ {InOrder(ids)[i] : i \in 1..Len(InOrder(ids))} = ids
         /\ \A i, j \in 1..Len(InOrder(ids)) : InOrder(ids)[i] = InOrder(ids)[j] => i = j
<1> DEFINE c == Cardinality(ids)
           s == InOrder(ids)
<1>1. Ids \subseteq Nat /\ IsFiniteSet(Ids)
  <2>1. 1 \in Int /\ MaxRows \in Int
    BY FeedAssumption DEF FeedAssumption
  <2>2. IsFiniteSet(1..MaxRows)
    BY <2>1, FS_Interval
  <2>3. QED
    BY <2>2 DEF Ids
<1>2. ids \in SUBSET Nat /\ IsFiniteSet(ids) /\ c \in Nat
  <2>1. IsFiniteSet(ids)
    BY <1>1, FS_Subset
  <2>2. QED
    BY <1>1, <2>1, FS_CardinalityType
<1>3. \A n \in 1..c : s[n] \in ids /\ Rank(s[n], ids) = n
  BY <1>2, RankIsBijective DEF InOrder
<1>4. s \in Seq(Ids) /\ Len(s) = c
  <2>1. s = [n \in 1..c |-> s[n]]
    BY DEF InOrder
  <2> HIDE DEF s, c
  <2>2. QED
    BY <1>2, <1>3, <2>1
<1> HIDE DEF s
<1>5. ASSUME NEW id \in ids
      PROVE  \E n \in 1..c : s[n] = id
  <2> DEFINE n == Rank(id, ids)
  <2>1. n \in 1..c
    BY <1>2, RankIsBijective
  <2>2. s[n] \in ids /\ Rank(s[n], ids) = n
    BY <1>3, <2>1
  <2>3. \A x, y \in ids : Rank(x, ids) = Rank(y, ids) => x = y
    BY <1>2, RankIsBijective
  <2>4. s[n] = id
    BY <2>2, <2>3
  <2>5. QED
    BY <2>1, <2>4
<1> HIDE DEF c
<1>6. {s[i] : i \in 1..c} = ids
  BY <1>3, <1>5
<1>7. \A i, j \in 1..c : s[i] = s[j] => i = j
  BY <1>3
<1>8. QED
  BY <1>4, <1>6, <1>7 DEF s

\* A row that is appended is the one more that is listed.
LEMMA AppendLists ==
  ASSUME NEW S, NEW s \in Seq(S), NEW x \in S
  PROVE  /\ Append(s, x) \in Seq(S)
         /\ {Append(s, x)[i] : i \in 1..Len(Append(s, x))} = {s[i] : i \in 1..Len(s)} \cup {x}
         /\ (/\ \A i, j \in 1..Len(s) : s[i] = s[j] => i = j
             /\ x \notin {s[i] : i \in 1..Len(s)})
            => \A i, j \in 1..Len(Append(s, x)) : Append(s, x)[i] = Append(s, x)[j] => i = j
<1> DEFINE t == Append(s, x)
<1>1. /\ t \in Seq(S) /\ Len(s) \in Nat /\ Len(t) = Len(s) + 1
      /\ \A i \in 1..Len(s) : t[i] = s[i]
      /\ t[Len(s) + 1] = x
  OBVIOUS
<1> HIDE DEF t
<1>2. \A i \in 1..Len(t) : i \in 1..Len(s) \/ i = Len(s) + 1
  BY <1>1
<1>3. \A i \in 1..Len(s) : i \in 1..Len(t)
  BY <1>1
<1>4. Len(s) + 1 \in 1..Len(t)
  BY <1>1
<1>5. {t[i] : i \in 1..Len(t)} = {s[i] : i \in 1..Len(s)} \cup {x}
  <2>1. \A i \in 1..Len(t) : t[i] \in {s[j] : j \in 1..Len(s)} \cup {x}
    BY <1>1, <1>2
  <2>2. \A i \in 1..Len(s) : s[i] \in {t[j] : j \in 1..Len(t)}
    BY <1>1, <1>3
  <2>3. x \in {t[j] : j \in 1..Len(t)}
    BY <1>1, <1>4
  <2> QED
    BY <2>1, <2>2, <2>3
<1>6. ASSUME \A i, j \in 1..Len(s) : s[i] = s[j] => i = j,
             x \notin {s[i] : i \in 1..Len(s)},
             NEW i \in 1..Len(t), NEW j \in 1..Len(t), t[i] = t[j]
      PROVE  i = j
  BY <1>1, <1>2, <1>6
<1> QED
  BY <1>1, <1>5, <1>6 DEF t

-----------------------------------------------------------------------------
(* What the variables hold.                                                *)

\* The parts of TypeOK.
TimelineFits == transmissions \in Seq(Ids) /\ seen \subseteq Ids /\ spine \subseteq Ids

AlertFits == /\ mission \in Statuses
             /\ threat \in BOOLEAN /\ threatActive \in BOOLEAN /\ redAlert \in BOOLEAN
             /\ alertTimer \in BOOLEAN

ReplayFits == /\ running \in BOOLEAN /\ token \in Nat /\ loops \subseteq Loops
              /\ timer \in Nat /\ stopShown \in BOOLEAN

RestFits == /\ escalations \in Nat /\ flights \subseteq Flights
            /\ resetting \in BOOLEAN /\ dispatching \in BOOLEAN
            /\ loadFailed \in BOOLEAN /\ clicks \in 0..MaxClicks

LEMMA TypeParts ==
  TypeOK <=> FeedTypeOK /\ TimelineFits /\ AlertFits /\ ReplayFits /\ RestFits
BY DEF TypeOK, TimelineFits, AlertFits, ReplayFits, RestFits

LEMMA TypesOfParts ==
  ASSUME FeedTypeOK', TimelineFits', AlertFits', ReplayFits', RestFits'
  PROVE  TypeOK'
BY DEF TypeOK, TimelineFits, AlertFits, ReplayFits, RestFits

LEMMA FeedInitFits == FeedInit => FeedTypeOK
<1> SUFFICES ASSUME FeedInit PROVE FeedTypeOK
  OBVIOUS
<1>1. queue \in Seq({"start", "reset"}) /\ wire \in Seq(Events)
  BY DEF FeedInit
<1>2. CASE log = <<>> /\ db = Empty
  <2>1. Empty \in Tables
    BY DEF Empty, Tables, Statuses
  <2>2. log \in Seq({"tactical", "other"}) /\ Len(log) <= MaxRows /\ db.rows = {}
    BY <1>2, FeedAssumption DEF FeedAssumption, Empty
  <2> QED
    BY <1>1, <1>2, <2>1, <2>2 DEF FeedTypeOK
<1>3. CASE /\ log = Script
           /\ db = [rows |-> 1..Len(Script), mission |-> "completed", assessed |-> TRUE]
  <2>1. 1..Len(Script) \subseteq Ids
    BY FeedAssumption DEF FeedAssumption, Ids
  <2>2. db \in Tables
    BY <1>3, <2>1 DEF Tables, Statuses
  <2>3. log \in Seq({"tactical", "other"}) /\ Len(log) <= MaxRows /\ db.rows = 1..Len(log)
    BY <1>3, FeedAssumption DEF FeedAssumption
  <2> QED
    BY <1>1, <2>2, <2>3 DEF FeedTypeOK
<1> QED
  BY <1>2, <1>3 DEF FeedInit

LEMMA EventsFit ==
  /\ \A m \in Statuses : MissionEvent(m) \in Events
  /\ \A id \in Ids : Transmission(id) \in Events
BY DEF MissionEvent, Transmission, Events

LEMMA FeedKeepsTypes ==
  ASSUME FeedTypeOK, FeedNext
  PROVE  FeedTypeOK'
<1> USE DEF FeedTypeOK
<1>0. /\ db.rows \in SUBSET Ids /\ db.mission \in Statuses
      /\ \A a \in BOOLEAN, m \in Statuses, r \in SUBSET Ids :
            [rows |-> r, mission |-> m, assessed |-> a] \in Tables
      /\ db = [rows |-> db.rows, mission |-> db.mission, assessed |-> db.assessed]
      /\ Assessed \in BOOLEAN
  BY DEF Tables, Assessed
<1>1. ASSUME ServeStart PROVE FeedTypeOK'
  <2>1. db' \in Tables /\ db'.rows = {}
    BY <1>1 DEF ServeStart, Empty, Tables, Statuses
  <2>2. queue' \in Seq({"start", "reset"})
    BY <1>1 DEF ServeStart, Served
  <2>3. wire' \in Seq(Events)
    BY <1>1, EventsFit DEF ServeStart, Statuses
  <2> QED
    BY <1>1, <2>1, <2>2, <2>3 DEF ServeStart
<1>2. ASSUME ServeReset PROVE FeedTypeOK'
  <2>1. db' \in Tables /\ db'.rows = {}
    BY <1>2 DEF ServeReset, Empty, Tables, Statuses
  <2>2. queue' \in Seq({"start", "reset"})
    BY <1>2 DEF ServeReset, Served
  <2>3. wire' \in Seq(Events)
    BY <1>2, EventsFit DEF ServeReset, Statuses
  <2> QED
    BY <1>2, <2>1, <2>2, <2>3 DEF ServeReset
<1>3. ASSUME InsertTransmission PROVE FeedTypeOK'
  <2> DEFINE id == Len(log) + 1
  <2>1. Len(log) \in Nat /\ MaxRows \in Nat /\ id \in Ids
    BY <1>3, FeedAssumption DEF FeedAssumption, InsertTransmission, Ids
  <2>2. Script[Position + 1] \in {"tactical", "other"}
    <3>1. IsFiniteSet(1..MaxRows)
      BY <2>1, FS_Interval
    <3>2. Position \in Nat
      BY <1>0, <3>1, FS_Subset, FS_CardinalityType DEF Position, Ids
    <3> QED
      BY <1>3, <3>2, FeedAssumption DEF FeedAssumption, InsertTransmission
  <2>3. log' \in Seq({"tactical", "other"}) /\ Len(log') = id /\ Len(log') <= MaxRows
    BY <1>3, <2>1, <2>2 DEF InsertTransmission, Ids
  <2> HIDE DEF id
  <2>4. db' = [rows |-> db.rows \cup {id}, mission |-> db.mission, assessed |-> Assessed]
    BY <1>0, <1>3 DEF InsertTransmission, id
  <2>5. db' \in Tables
    BY <1>0, <2>1, <2>4
  <2>6. db'.rows \subseteq 1..Len(log')
    <3>1. db'.rows = db.rows \cup {id}
      BY <2>4
    <3>2. id \in 1..Len(log') /\ 1..Len(log) \subseteq 1..Len(log')
      BY <2>1, <2>3 DEF id
    <3> QED
      BY <3>1, <3>2
  <2>7. wire' \in Seq(Events)
    BY <1>3, <2>1, EventsFit DEF InsertTransmission, id
  <2> QED
    BY <1>3, <2>3, <2>5, <2>6, <2>7 DEF InsertTransmission
<1>4. ASSUME CompleteMission PROVE FeedTypeOK'
  <2>1. db' = [rows |-> db.rows, mission |-> "completed", assessed |-> Assessed]
    BY <1>0, <1>4 DEF CompleteMission
  <2>2. db' \in Tables /\ db'.rows = db.rows
    BY <1>0, <2>1 DEF Statuses
  <2>3. wire' \in Seq(Events)
    BY <1>4, EventsFit DEF CompleteMission, Statuses
  <2> QED
    BY <1>4, <2>2, <2>3 DEF CompleteMission
<1> QED
  BY <1>1, <1>2, <1>3, <1>4 DEF FeedNext

\* What a fetch asks for, and what it is answered.
LEMMA FetchesFit ==
  ASSUME FeedTypeOK
  PROVE  /\ \A kind : Part(kind) \in Tables
         /\ \A kinds \in SUBSET Loaders : Load(kinds) \subseteq Flights
         /\ \A n \in 1..MaxClicks : Fetch("replay", n) \in Flights
         /\ \A f \in Flights : Answers(f) \subseteq Tables
<1>1. ASSUME NEW kind PROVE Part(kind) \in Tables
  BY DEF FeedTypeOK, Part, Empty, Tables, Statuses
<1>2. ASSUME NEW kinds \in SUBSET Loaders PROVE Load(kinds) \subseteq Flights
  <2>1. \A k \in Loaders : Fetch(k, 0) \in Flights
    BY <1>1 DEF Fetch, Flights
  <2> QED
    BY <2>1 DEF Load
<1>3. \A n \in 1..MaxClicks : Fetch("replay", n) \in Flights
  BY <1>1 DEF Fetch, Flights
<1>4. \A f \in Flights : f.issued \in Tables
  BY DEF Flights
<1> QED
  BY <1>1, <1>2, <1>3, <1>4 DEF Answers

\* A fetch that is answered with some tables.
LEMMA TablesFit ==
  ASSUME NEW a \in Tables
  PROVE  a.rows \in SUBSET Ids /\ a.mission \in Statuses /\ a.assessed \in BOOLEAN
BY DEF Tables

\* What is drawn of the alert is drawn or not.
LEMMA HeaderFits ==
  \A active, assessed, status : HeaderRed(active, assessed, status) \in BOOLEAN
BY DEF HeaderRed

\* What the handlers have in common.
LEMMA HandlersFit ==
  ASSUME TypeOK
  PROVE  /\ ClearView => TimelineFits' /\ AlertFits'
         /\ Escalate => threatActive' \in BOOLEAN /\ redAlert' \in BOOLEAN
         /\ StandDown => alertTimer' \in BOOLEAN /\ threatActive' \in BOOLEAN /\ redAlert' \in BOOLEAN
         /\ StopLoops => ReplayFits'
         /\ ReloadLive => TimelineFits' /\ AlertFits' /\ flights' \subseteq Flights /\ loadFailed' \in BOOLEAN
<1>1. ASSUME ClearView PROVE TimelineFits' /\ AlertFits'
  <2>1. TimelineFits'
    BY <1>1 DEF ClearView, TimelineFits
  <2>2. AlertFits'
    BY <1>1 DEF ClearView, Calm, AlertFits, Statuses
  <2> QED
    BY <2>1, <2>2
<1>2. ASSUME Escalate PROVE threatActive' \in BOOLEAN /\ redAlert' \in BOOLEAN
  BY <1>2, HeaderFits DEF Escalate, TypeOK
<1>3. ASSUME StandDown
      PROVE  alertTimer' \in BOOLEAN /\ threatActive' \in BOOLEAN /\ redAlert' \in BOOLEAN
  BY <1>3 DEF StandDown, TypeOK
<1>4. ASSUME StopLoops PROVE ReplayFits'
  <2>1. token' \in Nat /\ timer' \in Nat
    BY <1>4 DEF StopLoops, TypeOK
  <2>2. loops' \subseteq Loops /\ running' \in BOOLEAN /\ stopShown' \in BOOLEAN
    BY <1>4 DEF StopLoops, TypeOK
  <2> QED
    BY <2>1, <2>2 DEF ReplayFits
<1>5. ASSUME ReloadLive
      PROVE  TimelineFits' /\ AlertFits' /\ flights' \subseteq Flights /\ loadFailed' \in BOOLEAN
  <2>1. TimelineFits'
    BY <1>5 DEF ReloadLive, TimelineFits, TypeOK, timelineVars
  <2>2. AlertFits' /\ loadFailed' \in BOOLEAN
    BY <1>5 DEF ReloadLive, AlertFits, TypeOK
  <2>3. flights' \subseteq Flights
    BY <1>5, FetchesFit DEF ReloadLive, TypeOK
  <2> QED
    BY <2>1, <2>2, <2>3
<1> QED
  BY <1>1, <1>2, <1>3, <1>4, <1>5

\* A part that is not touched still fits.
LEMMA UntouchedFits ==
  ASSUME TypeOK
  PROVE  /\ UNCHANGED feedVars => FeedTypeOK'
         /\ UNCHANGED timelineVars => TimelineFits'
         /\ UNCHANGED alertVars => AlertFits'
         /\ UNCHANGED replayVars => ReplayFits'
<1>1. UNCHANGED feedVars => FeedTypeOK'
  BY DEF feedVars, FeedTypeOK, TypeOK
<1>2. UNCHANGED timelineVars => TimelineFits'
  BY DEF timelineVars, TimelineFits, TypeOK
<1>3. UNCHANGED alertVars => AlertFits'
  BY DEF alertVars, AlertFits, TypeOK
<1>4. UNCHANGED replayVars => ReplayFits'
  BY DEF replayVars, ReplayFits, TypeOK
<1> QED
  BY <1>1, <1>2, <1>3, <1>4

\* A loop that is added has a token and rows to show.
LEMMA EnterFits ==
  ASSUME TypeOK, NEW rows \in SUBSET Ids, Enter(rows)
  PROVE  TimelineFits' /\ AlertFits' /\ ReplayFits'
<1>1. TimelineFits'
  BY DEF Enter, TimelineFits, TypeOK
<1>2. AlertFits'
  BY DEF Enter, Calm, AlertFits, TypeOK
<1>3. token' \in Nat /\ timer' \in Nat
  BY DEF Enter, TypeOK
<1>4. [token |-> token + 1, todo |-> InOrder(rows)] \in Loops
  BY InOrderLists DEF Loops, TypeOK
<1>5. loops' \subseteq Loops /\ running' \in BOOLEAN /\ stopShown' \in BOOLEAN
  BY <1>4 DEF Enter, TypeOK
<1> QED
  BY <1>1, <1>2, <1>3, <1>5 DEF ReplayFits

LEMMA LandFits ==
  ASSUME TypeOK, NEW f \in flights, Land(f)
  PROVE  TypeOK'
<1>0. /\ FeedTypeOK /\ f \in Flights /\ (flights \ {f}) \subseteq Flights
      /\ \A a \in Answers(f) : /\ a.rows \in SUBSET Ids /\ a.mission \in Statuses
                               /\ a.assessed \in BOOLEAN
  <2>1. FeedTypeOK /\ f \in Flights
    BY DEF TypeOK
  <2>2. Answers(f) \subseteq Tables
    BY <2>1, FetchesFit
  <2>3. (flights \ {f}) \subseteq Flights
    BY DEF TypeOK
  <2> HIDE DEF TypeOK
  <2> QED
    BY <2>1, <2>2, <2>3, TablesFit
<1>1. CASE LandMission(f)
  <2>1. mission' \in Statuses
    BY <1>0, <1>1 DEF LandMission, TypeOK
  <2>2. AlertFits'
    BY <1>1, <2>1, HeaderFits DEF LandMission, AlertFits, TypeOK
  <2>3. RestFits'
    BY <1>0, <1>1 DEF LandMission, Landed, RestFits, TypeOK, resetVars
  <2> QED
    BY <1>1, <2>2, <2>3, UntouchedFits, TypesOfParts DEF LandMission
<1>2. CASE LandTimeline(f)
  <2>1. PICK a \in Answers(f) : transmissions' = InOrder(a.rows) /\ seen' = a.rows /\ spine' = a.rows
    BY <1>2 DEF LandTimeline
  <2>2. TimelineFits'
    BY <1>0, <2>1, InOrderLists DEF TimelineFits
  <2>3. RestFits'
    BY <1>0, <1>2 DEF LandTimeline, Landed, RestFits, TypeOK, resetVars
  <2> QED
    BY <1>2, <2>2, <2>3, UntouchedFits, TypesOfParts DEF LandTimeline
<1>3. CASE FailTimeline(f)
  <2>1. RestFits'
    BY <1>0, <1>3 DEF FailTimeline, Landed, RestFits, TypeOK, resetVars
  <2> QED
    BY <1>3, <2>1, UntouchedFits, TypesOfParts DEF FailTimeline
<1>4. CASE LandArtifacts(f)
  <2>1. threat' \in BOOLEAN
    BY <1>0, <1>4 DEF LandArtifacts, DerivedThreat, TypeOK
  <2>2. redAlert' \in BOOLEAN
    BY <1>4, HeaderFits DEF LandArtifacts, TypeOK
  <2>3. AlertFits'
    BY <1>4, <2>1, <2>2 DEF LandArtifacts, AlertFits, TypeOK
  <2>4. RestFits'
    BY <1>0, <1>4 DEF LandArtifacts, Landed, RestFits, TypeOK, resetVars
  <2> QED
    BY <1>4, <2>3, <2>4, UntouchedFits, TypesOfParts DEF LandArtifacts
<1>5. CASE LandReplay(f)
  <2>1. \/ UNCHANGED <<timelineVars, alertVars, replayVars>>
        \/ \E rows \in SUBSET Ids : Enter(rows)
    BY <1>0, <1>5 DEF LandReplay
  <2>2. TimelineFits' /\ AlertFits' /\ ReplayFits'
    BY <2>1, EnterFits, UntouchedFits
  <2>3. RestFits'
    BY <1>0, <1>5 DEF LandReplay, Landed, RestFits, TypeOK, resetVars
  <2> QED
    BY <1>5, <2>2, <2>3, UntouchedFits, TypesOfParts DEF LandReplay
<1>6. CASE FailReplay(f)
  <2>1. TimelineFits'
    BY <1>6, UntouchedFits DEF FailReplay
  <2>2. AlertFits'
    BY <1>6 DEF FailReplay, AlertFits, TypeOK, alertVars
  <2>3. ReplayFits'
    BY <1>6, HandlersFit, UntouchedFits DEF FailReplay
  <2>4. flights' \subseteq Flights /\ loadFailed' \in BOOLEAN
    <3>1. Load(Loaders) \subseteq Flights
      BY <1>0, FetchesFit
    <3> QED
      BY <1>0, <1>6, <3>1 DEF FailReplay, TypeOK
  <2>5. RestFits'
    BY <1>6, <2>4 DEF FailReplay, RestFits, TypeOK, resetVars
  <2> QED
    BY <1>6, <2>1, <2>2, <2>3, <2>5, UntouchedFits, TypesOfParts DEF FailReplay
<1> QED
  BY <1>1, <1>2, <1>3, <1>4, <1>5, <1>6 DEF Land

LEMMA DeliverFits ==
  ASSUME TypeOK, Deliver
  PROVE  TypeOK'
<1>1. /\ Head(wire) \in Events /\ wire' \in Seq(Events)
      /\ log' = log /\ db' = db /\ queue' = queue
  BY DEF Deliver, TypeOK, FeedTypeOK
<1>2. FeedTypeOK'
  BY <1>1 DEF TypeOK, FeedTypeOK
<1>3. CASE UNCHANGED <<timelineVars, alertVars, escalations, flights>>
  <2>1. RestFits'
    BY <1>3 DEF Deliver, RestFits, TypeOK, resetVars
  <2> QED
    BY <1>2, <1>3, <2>1, UntouchedFits, TypesOfParts DEF Deliver
<1>4. CASE \E id \in Ids : OnTransmission(id)
  <2>1. PICK id \in Ids : OnTransmission(id)
    BY <1>4
  <2>2. TimelineFits'
    <3>1. CASE id \in seen
      BY <2>1, <3>1, UntouchedFits DEF OnTransmission
    <3>2. CASE id \notin seen
      <4>1. transmissions' \in Seq(Ids)
        BY <2>1, <3>2, AppendLists DEF OnTransmission, TypeOK
      <4>2. seen' \subseteq Ids /\ spine' \subseteq Ids
        BY <2>1, <3>2 DEF OnTransmission, TypeOK
      <4> QED
        BY <4>1, <4>2 DEF TimelineFits
    <3> QED
      BY <3>1, <3>2
  <2>3. flights' \subseteq Flights
    BY <2>1, FetchesFit DEF OnTransmission, TypeOK, Loaders
  <2>4. escalations' \in Nat
    BY <2>1 DEF OnTransmission, TypeOK
  <2>5. RestFits'
    BY <2>3, <2>4 DEF Deliver, RestFits, TypeOK, resetVars
  <2>6. UNCHANGED <<alertVars, replayVars>>
    BY <2>1 DEF OnTransmission, Deliver
  <2> QED
    BY <1>2, <2>2, <2>5, <2>6, UntouchedFits, TypesOfParts
<1>5. CASE \E status \in Statuses : OnMission(status)
  <2>1. PICK status \in Statuses : OnMission(status)
    BY <1>5
  <2>2. AlertFits'
    BY <2>1, HeaderFits DEF OnMission, AlertFits, TypeOK
  <2>3. RestFits'
    BY <2>1 DEF OnMission, Deliver, RestFits, TypeOK, resetVars
  <2>4. UNCHANGED <<timelineVars, replayVars>>
    BY <2>1 DEF OnMission, Deliver
  <2> QED
    BY <1>2, <2>2, <2>3, <2>4, UntouchedFits, TypesOfParts
<1>6. Head(wire).kind = "transmission" => Head(wire).id \in Ids
  BY <1>1 DEF Events
<1>7. Head(wire).kind = "mission" => Head(wire).mission \in Statuses
  BY <1>1 DEF Events
<1> QED
  BY <1>3, <1>4, <1>5, <1>6, <1>7 DEF Deliver

LEMMA TickFits ==
  ASSUME TypeOK, NEW l \in loops, Tick(l)
  PROVE  TypeOK'
<1>0. l \in Loops /\ (loops \ {l}) \subseteq Loops
  BY DEF TypeOK
<1>1. CASE TickStale(l)
  <2>1. ReplayFits'
    BY <1>0, <1>1 DEF TickStale, ReplayFits, TypeOK
  <2>2. RestFits'
    BY <1>1 DEF TickStale, RestFits, TypeOK, resetVars
  <2> QED
    BY <1>1, <2>1, <2>2, UntouchedFits, TypesOfParts DEF TickStale
<1>2. CASE TickNext(l)
  <2>1. l.todo \in Seq(Ids) /\ l.todo # <<>> /\ l.token \in Nat
    BY <1>0, <1>2 DEF Loops, TickNext
  <2>2. Head(l.todo) \in Ids /\ Tail(l.todo) \in Seq(Ids)
    BY <2>1
  <2>3. TimelineFits'
    BY <1>2, <2>2 DEF TickNext, TimelineFits, TypeOK
  <2>4. threatActive' \in BOOLEAN /\ redAlert' \in BOOLEAN
    <3>1. Escalate \/ UNCHANGED <<threatActive, redAlert>>
      BY <1>2 DEF TickNext
    <3> QED
      BY <3>1, HandlersFit DEF TypeOK
  <2>5. AlertFits'
    BY <1>2, <2>4 DEF TickNext, AlertFits, TypeOK
  <2>6. [token |-> token, todo |-> Tail(l.todo)] \in Loops
    BY <2>2 DEF Loops, TypeOK
  <2>7. loops' \subseteq Loops /\ timer' \in Nat
    BY <1>0, <1>2, <2>1, <2>6 DEF TickNext
  <2>8. ReplayFits'
    BY <1>2, <2>7 DEF TickNext, ReplayFits, TypeOK
  <2>9. RestFits'
    BY <1>2 DEF TickNext, RestFits, TypeOK, resetVars
  <2> QED
    BY <1>2, <2>3, <2>5, <2>8, <2>9, UntouchedFits, TypesOfParts DEF TickNext
<1>3. CASE TickLast(l)
  <2>1. AlertFits'
    BY <1>3, HandlersFit DEF TickLast, AlertFits, TypeOK
  <2>2. token' \in Nat /\ timer' \in Nat
    BY <1>3 DEF TickLast, TypeOK
  <2>3. loops' \subseteq Loops /\ running' \in BOOLEAN /\ stopShown' \in BOOLEAN
    BY <1>0, <1>3 DEF TickLast
  <2>4. ReplayFits'
    BY <2>2, <2>3 DEF ReplayFits
  <2>5. flights' \subseteq Flights
    BY <1>3, FetchesFit DEF TickLast, TypeOK
  <2>6. RestFits'
    BY <1>3, <2>5 DEF TickLast, RestFits, TypeOK, resetVars
  <2> QED
    BY <1>3, <2>1, <2>4, <2>6, UntouchedFits, TypesOfParts DEF TickLast
<1> QED
  BY <1>1, <1>2, <1>3 DEF Tick

\* A click counts, up to the bound.
LEMMA ClickCounts ==
  ASSUME TypeOK, clicks < MaxClicks, clicks' = clicks + 1
  PROVE  clicks' \in 0..MaxClicks /\ clicks + 1 \in 1..MaxClicks
BY ConsoleAssumption DEF ConsoleAssumption, TypeOK

\* A request that joins the queue.
LEMMA QueueFits ==
  ASSUME TypeOK, NEW r \in {"start", "reset"}, queue' = Append(queue, r),
         UNCHANGED <<log, db, wire>>
  PROVE  FeedTypeOK'
BY DEF TypeOK, FeedTypeOK

LEMMA OperatorFits ==
  ASSUME TypeOK, Operator
  PROVE  TypeOK'
<1>1. CASE ClickRun
  <2>1. FeedTypeOK'
    BY <1>1, QueueFits DEF ClickRun
  <2>2. TimelineFits' /\ AlertFits' /\ ReplayFits'
    BY <1>1, HandlersFit, UntouchedFits DEF ClickRun
  <2>3. clicks' \in 0..MaxClicks
    BY <1>1, ClickCounts DEF ClickRun
  <2>4. RestFits'
    BY <1>1, <2>3 DEF ClickRun, RestFits, TypeOK
  <2> QED
    BY <2>1, <2>2, <2>4, TypesOfParts
<1>2. CASE ClickReset
  <2>1. FeedTypeOK'
    BY <1>2, QueueFits DEF ClickReset
  <2>2. TimelineFits' /\ AlertFits' /\ ReplayFits'
    BY <1>2, HandlersFit DEF ClickReset
  <2>3. clicks' \in 0..MaxClicks
    BY <1>2, ClickCounts DEF ClickReset
  <2>4. RestFits'
    BY <1>2, <2>3 DEF ClickReset, RestFits, TypeOK
  <2> QED
    BY <2>1, <2>2, <2>4, TypesOfParts
<1>3. CASE ClickReplay
  <2>1. clicks' \in 0..MaxClicks /\ clicks + 1 \in 1..MaxClicks
    BY <1>3, ClickCounts DEF ClickReplay
  <2>2. flights' \subseteq Flights
    BY <1>3, <2>1, FetchesFit DEF ClickReplay, TypeOK
  <2>3. RestFits'
    BY <1>3, <2>1, <2>2 DEF ClickReplay, RestFits, TypeOK, resetVars
  <2>4. ReplayFits'
    BY <1>3 DEF ClickReplay, ReplayFits, TypeOK
  <2> QED
    BY <1>3, <2>3, <2>4, UntouchedFits, TypesOfParts DEF ClickReplay
<1>4. CASE ClickStop
  <2>1. TimelineFits' /\ AlertFits' /\ ReplayFits'
    BY <1>4, HandlersFit DEF ClickStop
  <2>2. flights' \subseteq Flights /\ loadFailed' \in BOOLEAN
    BY <1>4, HandlersFit DEF ClickStop
  <2>3. RestFits'
    BY <1>4, <2>2 DEF ClickStop, RestFits, TypeOK, resetVars
  <2> QED
    BY <1>4, <2>1, <2>3, UntouchedFits, TypesOfParts DEF ClickStop
<1> QED
  BY <1>1, <1>2, <1>3, <1>4 DEF Operator

LEMMA TypesInit == Init => TypeOK
<1> SUFFICES ASSUME Init PROVE TypeOK
  OBVIOUS
<1>1. FeedTypeOK
  BY FeedInitFits DEF Init
<1>2. /\ db.rows \in SUBSET Ids /\ db.mission \in Statuses /\ db.assessed \in BOOLEAN
  BY <1>1, TablesFit DEF FeedTypeOK
<1>3. TimelineFits
  BY <1>2, InOrderLists DEF Init, TimelineFits
<1>4. AlertFits
  BY <1>2 DEF Init, AlertFits
<1>5. token \in Nat /\ timer \in Nat /\ escalations \in Nat /\ clicks \in 0..MaxClicks
  BY ConsoleAssumption DEF Init, ConsoleAssumption
<1>6. ReplayFits /\ RestFits
  BY <1>5 DEF Init, ReplayFits, RestFits
<1> QED
  BY <1>1, <1>3, <1>4, <1>6, TypeParts

LEMMA TypesNext ==
  ASSUME TypeOK, [Next]_vars
  PROVE  TypeOK'
<1>1. CASE Backend
  <2>1. FeedTypeOK'
    BY <1>1, FeedKeepsTypes DEF Backend, TypeOK
  <2>2. TimelineFits' /\ AlertFits' /\ ReplayFits'
    BY <1>1, UntouchedFits DEF Backend, consoleVars
  <2>3. RestFits'
    BY <1>1 DEF Backend, consoleVars, RestFits, TypeOK, resetVars
  <2> QED
    BY <2>1, <2>2, <2>3, TypesOfParts
<1>2. CASE \E f \in flights : Land(f)
  BY <1>2, LandFits
<1>3. CASE Deliver
  BY <1>3, DeliverFits
<1>4. CASE EscalationDue
  <2>1. escalations' \in Nat
    BY <1>4 DEF EscalationDue, TypeOK
  <2>2. AlertFits'
    BY <1>4, HandlersFit DEF EscalationDue, AlertFits, TypeOK
  <2>3. RestFits'
    BY <1>4, <2>1 DEF EscalationDue, RestFits, TypeOK, resetVars
  <2> QED
    BY <1>4, <2>2, <2>3, UntouchedFits, TypesOfParts DEF EscalationDue
<1>5. CASE StandDownDue
  <2>1. AlertFits'
    BY <1>5, HandlersFit DEF StandDownDue, AlertFits, TypeOK
  <2>2. RestFits'
    BY <1>5 DEF StandDownDue, RestFits, TypeOK, resetVars
  <2> QED
    BY <1>5, <2>1, <2>2, UntouchedFits, TypesOfParts DEF StandDownDue
<1>6. CASE LandRun
  <2>1. RestFits'
    BY <1>6 DEF LandRun, RestFits, TypeOK
  <2> QED
    BY <1>6, <2>1, UntouchedFits, TypesOfParts DEF LandRun
<1>7. CASE LandReset
  <2>1. TimelineFits' /\ AlertFits'
    BY <1>7, HandlersFit DEF LandReset
  <2>2. RestFits'
    BY <1>7 DEF LandReset, RestFits, TypeOK
  <2> QED
    BY <1>7, <2>1, <2>2, UntouchedFits, TypesOfParts DEF LandReset
<1>8. CASE \E l \in loops : Tick(l)
  BY <1>8, TickFits
<1>9. CASE Operator
  BY <1>9, OperatorFits
<1>10. CASE UNCHANGED vars
  <2>1. RestFits'
    BY <1>10 DEF vars, consoleVars, RestFits, TypeOK, resetVars
  <2> QED
    BY <1>10, <2>1, UntouchedFits, TypesOfParts DEF vars, consoleVars
<1> QED
  BY <1>1, <1>2, <1>3, <1>4, <1>5, <1>6, <1>7, <1>8, <1>9, <1>10 DEF Next

\* Whatever order callbacks, answers and events come in, the console holds only
\* what it can show (app.js 20-44, replay.js 18-24).
THEOREM TypesCorrect == Spec => []TypeOK
BY TypesInit, TypesNext, PTL DEF Spec

-----------------------------------------------------------------------------
(* The timeline.                                                           *)

\* The rows of the timeline.
Shown == {transmissions[i] : i \in 1..Len(transmissions)}

\* Nothing is listed where there is no timeline.
LEMMA NothingShown ==
  ASSUME transmissions' = <<>>
  PROVE  Shown' = {} /\ \A i, j \in 1..Len(transmissions') : i = j
<1>1. Len(transmissions') = 0
  OBVIOUS
<1> QED
  BY <1>1 DEF Shown

\* What a callback can do to the timeline and to what was seen of it.
LEMMA KnownByStep ==
  ASSUME TypeOK, TimelineKnown,
         \/ UNCHANGED <<transmissions, seen>>
         \/ transmissions' = <<>> /\ seen' = {}
         \/ \E rows \in SUBSET Ids : transmissions' = InOrder(rows) /\ seen' = rows
         \/ \E id \in Ids \ seen : /\ transmissions' = Append(transmissions, id)
                                  /\ seen' = seen \cup {id}
  PROVE  TimelineKnown'
<1>1. CASE UNCHANGED <<transmissions, seen>>
  BY <1>1 DEF TimelineKnown
<1>2. CASE transmissions' = <<>> /\ seen' = {}
  BY <1>2, NothingShown DEF TimelineKnown, Shown
<1>3. CASE \E rows \in SUBSET Ids : transmissions' = InOrder(rows) /\ seen' = rows
  BY <1>3, InOrderLists DEF TimelineKnown
<1>4. CASE \E id \in Ids \ seen : /\ transmissions' = Append(transmissions, id)
                                /\ seen' = seen \cup {id}
  <2>1. PICK id \in Ids \ seen : /\ transmissions' = Append(transmissions, id)
                               /\ seen' = seen \cup {id}
    BY <1>4
  <2>2. transmissions \in Seq(Ids)
    BY DEF TypeOK
  <2> QED
    BY <2>1, <2>2, AppendLists DEF TimelineKnown
<1> QED
  BY <1>1, <1>2, <1>3, <1>4

\* The answers of a fetch list rows.
LEMMA AnswersListRows ==
  ASSUME TypeOK, NEW f \in flights, NEW a \in Answers(f)
  PROVE  a.rows \in SUBSET Ids
<1>1. FeedTypeOK /\ f \in Flights
  BY DEF TypeOK
<1>2. a \in Tables
  BY <1>1, FetchesFit
<1> QED
  BY <1>2, TablesFit

\* Of the events only a transmission that was not seen adds to the timeline.
LEMMA EventAdds ==
  ASSUME TypeOK, Deliver
  PROVE  \/ UNCHANGED timelineVars
         \/ \E id \in Ids \ seen : /\ transmissions' = Append(transmissions, id)
                                  /\ seen' = seen \cup {id}
                                  /\ spine' = spine \cup {id}
<1>1. Head(wire) \in Events
  BY DEF Deliver, TypeOK, FeedTypeOK
<1>2. Head(wire).kind = "transmission" => Head(wire).id \in Ids
  BY <1>1 DEF Events
<1>3. \/ UNCHANGED timelineVars
      \/ \E id \in Ids : OnTransmission(id)
  BY <1>2 DEF Deliver, OnMission
<1> QED
  BY <1>3 DEF OnTransmission

LEMMA KnownInit == Init => TimelineKnown
<1> SUFFICES ASSUME Init PROVE TimelineKnown
  OBVIOUS
<1>1. db.rows \in SUBSET Ids
  BY FeedInitFits, TablesFit DEF Init, FeedTypeOK
<1> QED
  BY <1>1, InOrderLists DEF Init, TimelineKnown

LEMMA KnownNext ==
  ASSUME TypeOK, TimelineKnown, [Next]_vars
  PROVE  TimelineKnown'
<1>1. CASE \E f \in flights : Land(f)
  <2>1. PICK f \in flights : Land(f)
    BY <1>1
  <2>2. CASE LandTimeline(f)
    BY <2>2, AnswersListRows, KnownByStep DEF LandTimeline
  <2>3. CASE ~LandTimeline(f)
    <3>1. UNCHANGED <<transmissions, seen>>
      BY <2>1, <2>3 DEF Land, LandMission, FailTimeline, LandArtifacts, LandReplay,
         FailReplay, Enter, timelineVars
    <3> QED
      BY <3>1, KnownByStep
  <2> QED
    BY <2>2, <2>3
<1>2. CASE Deliver
  BY <1>2, EventAdds, KnownByStep DEF timelineVars
<1>3. CASE LandReset \/ ClickRun \/ ClickReset
  BY <1>3, KnownByStep DEF LandReset, ClickRun, ClickReset, ClearView
<1>4. CASE \E l \in loops : Tick(l)
  BY <1>4, KnownByStep DEF Tick, TickStale, TickNext, TickLast, timelineVars
<1>5. CASE \/ Backend \/ EscalationDue \/ StandDownDue \/ LandRun
           \/ ClickReplay \/ ClickStop \/ UNCHANGED vars
  <2>1. UNCHANGED timelineVars
    BY <1>5 DEF Backend, EscalationDue, StandDownDue, LandRun, ClickReplay, ClickStop,
       ReloadLive, vars, consoleVars
  <2> QED
    BY <2>1, KnownByStep DEF timelineVars
<1> QED
  BY <1>1, <1>2, <1>3, <1>4, <1>5 DEF Next, Operator

\* A row is in the timeline once, and seen exactly if it is there, though
\* snapshots replace it while events append to it (app.js 769-781, 890-893).
THEOREM AlwaysTimelineKnown == Spec => []TimelineKnown
BY KnownInit, KnownNext, TypesCorrect, PTL DEF Spec

-----------------------------------------------------------------------------
(* The spine.                                                              *)

\* No timeline that is on its way gets lost.
TimelinesStay == \A f \in flights : f.kind = "timeline" => f \in flights'

\* What a callback can do to the spine, whose view is the timeline's.
LEMMA SpineByStep ==
  ASSUME SpineIsTimeline,
         \/ UNCHANGED <<timelineVars, running, loadFailed>> /\ TimelinesStay
         \/ running' \/ loadFailed' \/ spine' = Shown'
         \/ \E f \in flights' : f.kind = "timeline"
  PROVE  SpineIsTimeline'
BY DEF SpineIsTimeline, TimelinesStay, Shown, timelineVars

\* After a reload a timeline is on its way, whatever else comes in.
LEMMA ReloadAsksForTimeline ==
  ASSUME TimelinesStay, Load(Loaders) \subseteq flights'
  PROVE  \E g \in flights' : g.kind = "timeline"
<1>1. CASE \E g \in flights : g.kind = "timeline"
  BY <1>1 DEF TimelinesStay
<1>2. CASE \A g \in flights : g.kind # "timeline"
  <2>1. Fetch("timeline", 0) \in Load(Loaders)
    BY <1>2 DEF Load, Loaders
  <2>2. Fetch("timeline", 0).kind = "timeline"
    BY DEF Fetch
  <2> QED
    BY <2>1, <2>2
<1> QED
  BY <1>1, <1>2

\* A view that was cleared shows nothing, and there is nothing to show.
LEMMA ClearedAlike ==
  ASSUME ClearView
  PROVE  spine' = Shown'
BY NothingShown DEF ClearView

LEMMA SpineInit == Init => SpineIsTimeline
<1> SUFFICES ASSUME Init PROVE SpineIsTimeline
  OBVIOUS
<1>1. TimelineKnown
  BY KnownInit
<1> QED
  BY <1>1 DEF Init, TimelineKnown, SpineIsTimeline

LEMMA SpineLand ==
  ASSUME TypeOK, SpineIsTimeline, NEW f \in flights, Land(f)
  PROVE  SpineIsTimeline'
<1>1. CASE LandMission(f) \/ LandArtifacts(f)
  BY <1>1, SpineByStep DEF LandMission, LandArtifacts, Landed, replayVars, TimelinesStay
<1>2. CASE LandTimeline(f)
  <2>1. PICK a \in Answers(f) : transmissions' = InOrder(a.rows) /\ spine' = a.rows
    BY <1>2 DEF LandTimeline
  <2>2. Shown' = a.rows
    BY <2>1, AnswersListRows, InOrderLists DEF Shown
  <2> QED
    BY <2>1, <2>2, SpineByStep
<1>3. CASE FailTimeline(f)
  BY <1>3, SpineByStep DEF FailTimeline
<1>4. CASE LandReplay(f)
  BY <1>4, SpineByStep DEF LandReplay, Landed, Enter, replayVars, TimelinesStay
<1>5. CASE FailReplay(f)
  <2>1. TimelinesStay
    BY <1>5 DEF FailReplay, TimelinesStay
  <2>2. CASE running
    <3>1. Load(Loaders) \subseteq flights'
      BY <1>5, <2>2 DEF FailReplay
    <3> QED
      BY <2>1, <3>1, ReloadAsksForTimeline, SpineByStep
  <2>3. CASE ~running
    <3>1. UNCHANGED <<timelineVars, running, loadFailed>>
      BY <1>5, <2>3 DEF FailReplay, replayVars
    <3> QED
      BY <2>1, <3>1, SpineByStep
  <2> QED
    BY <2>2, <2>3
<1> QED
  BY <1>1, <1>2, <1>3, <1>4, <1>5 DEF Land

\* A transmission is added to the timeline and to the spine.
LEMMA SpineDeliver ==
  ASSUME TypeOK, SpineIsTimeline, Deliver
  PROVE  SpineIsTimeline'
<1>1. UNCHANGED <<running, loadFailed>> /\ flights \subseteq flights'
  BY DEF Deliver, OnTransmission, OnMission, replayVars
<1>2. CASE UNCHANGED timelineVars
  BY <1>1, <1>2, SpineByStep DEF TimelinesStay
<1>3. CASE \E id \in Ids : /\ transmissions' = Append(transmissions, id)
                         /\ spine' = spine \cup {id}
  <2>1. PICK id \in Ids : /\ transmissions' = Append(transmissions, id)
                       /\ spine' = spine \cup {id}
    BY <1>3
  <2>2. transmissions \in Seq(Ids)
    BY DEF TypeOK
  <2>3. Shown' = Shown \cup {id}
    BY <2>1, <2>2, AppendLists DEF Shown
  <2> QED
    BY <1>1, <2>1, <2>3 DEF SpineIsTimeline, Shown
<1> QED
  BY <1>2, <1>3, EventAdds

LEMMA SpineNext ==
  ASSUME TypeOK, SpineIsTimeline, [Next]_vars
  PROVE  SpineIsTimeline'
<1>1. CASE \E f \in flights : Land(f)
  BY <1>1, SpineLand
<1>2. CASE Deliver
  BY <1>2, SpineDeliver
<1>3. CASE LandReset \/ ClickRun \/ ClickReset
  BY <1>3, ClearedAlike, SpineByStep DEF LandReset, ClickRun, ClickReset
<1>4. CASE \E l \in loops : Tick(l)
  <2>1. PICK l \in loops : Tick(l)
    BY <1>4
  <2>2. CASE TickStale(l)
    BY <2>2, SpineByStep DEF TickStale, TimelinesStay
  <2>3. CASE TickNext(l)
    BY <2>3, SpineByStep DEF TickNext
  <2>4. CASE TickLast(l)
    <3>1. TimelinesStay /\ Load(Loaders) \subseteq flights'
      BY <2>4 DEF TickLast, TimelinesStay
    <3> QED
      BY <3>1, ReloadAsksForTimeline, SpineByStep
  <2> QED
    BY <2>1, <2>2, <2>3, <2>4 DEF Tick
<1>5. CASE ClickStop
  <2>1. TimelinesStay /\ Load(Loaders) \subseteq flights'
    BY <1>5 DEF ClickStop, ReloadLive, TimelinesStay
  <2> QED
    BY <2>1, ReloadAsksForTimeline, SpineByStep
<1>6. CASE Backend \/ EscalationDue \/ StandDownDue \/ LandRun \/ ClickReplay \/ UNCHANGED vars
  <2>1. UNCHANGED <<timelineVars, running, loadFailed>> /\ TimelinesStay
    BY <1>6 DEF Backend, EscalationDue, StandDownDue, LandRun, ClickReplay, vars,
       consoleVars, replayVars, TimelinesStay
  <2> QED
    BY <2>1, SpineByStep
<1> QED
  BY <1>1, <1>2, <1>3, <1>4, <1>5, <1>6 DEF Next, Operator

\* Unless a replay is on, or its view is about to be replaced, the spine shows the
\* timeline (app.js 734-740: "Used by replay.js stop() to restore the live view").
THEOREM AlwaysSpineIsTimeline == Spec => []SpineIsTimeline
BY SpineInit, SpineNext, TypesCorrect, PTL DEF Spec
=============================================================================
