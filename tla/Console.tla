------------------------------- MODULE Console -------------------------------
(***************************************************************************)
(* The operator's console in a browser: app.js (the state, the loaders,    *)
(* the handlers of the event stream, dispatch, reset and the alert) and    *)
(* replay.js, before the dashboard of DashboardFeed.                       *)
(*                                                                         *)
(* One event loop: a step is one callback.  A fetch lands, or fails, at    *)
(* some time after it was issued, and shows the tables as they were then   *)
(* or as they are now; a timer may be due at any time.  Of the loaders     *)
(* those of the mission, the timeline and the artifacts are kept.  The     *)
(* assessment, once there, is of level HIGH.  Echo.replay.active,          *)
(* Echo.state.replaying, btn-replay's disabled and replay.js's running are *)
(* always set together and are one variable.                               *)
(***************************************************************************)
EXTENDS DashboardFeed

CONSTANTS
  MaxClicks   \* bound: clicks on DISPATCH, RESET and REPLAY

ASSUME ConsoleAssumption == MaxClicks \in Nat

VARIABLES
  transmissions,  \* state.transmissions
  seen,           \* state.seen
  spine,          \* the transmissions that the spine shows
  mission,        \* state.mission.status
  threat,         \* whether state.derived.threat is there
  threatActive,   \* state.threatActive
  redAlert,       \* the header as it is drawn
  escalations,    \* timers of escalateThreat that are pending
  alertTimer,     \* whether the timer of containThreat is
  flights,        \* fetches under way
  resetting,      \* state.resetting
  dispatching,    \* whether the POST of DISPATCH is open and its button disabled
  running,        \* whether a replay is on
  token,          \* replay.js: seq
  loops,          \* the pending timers of replay loops, with their locals
  timer,          \* replay.js: timer, as the token of its loop
  stopShown,      \* whether STOP is shown
  loadFailed,     \* history: the last timeline asked for did not arrive
  clicks          \* history: clicks so far, STOP aside

timelineVars == <<transmissions, seen, spine>>
alertVars    == <<mission, threat, threatActive, redAlert, alertTimer>>
resetVars    == <<resetting, dispatching>>
replayVars   == <<running, token, loops, timer, stopShown>>
consoleVars  == <<timelineVars, alertVars, escalations, flights, resetVars, replayVars,
                  loadFailed, clicks>>
vars         == <<feedVars, consoleVars>>

-----------------------------------------------------------------------------
Loaders == {"mission", "timeline", "artifacts"}
Flights == [kind : Loaders, n : {0}, issued : Tables]
             \cup [kind : {"replay"}, n : 1..MaxClicks, issued : Tables]

\* A loop has yet to add todo; todo and the token are locals of its start().
Loops == [token : Nat, todo : Seq(Ids)]

TypeOK ==
  /\ FeedTypeOK
  /\ transmissions \in Seq(Ids) /\ seen \subseteq Ids /\ spine \subseteq Ids
  /\ mission \in Statuses
  /\ threat \in BOOLEAN /\ threatActive \in BOOLEAN /\ redAlert \in BOOLEAN
  /\ escalations \in Nat /\ alertTimer \in BOOLEAN
  /\ flights \subseteq Flights
  /\ resetting \in BOOLEAN /\ dispatching \in BOOLEAN
  /\ running \in BOOLEAN /\ token \in Nat /\ loops \subseteq Loops /\ timer \in Nat
  /\ stopShown \in BOOLEAN /\ loadFailed \in BOOLEAN
  /\ clicks \in 0..MaxClicks

\* Of the tables, a fetch keeps what it asks for.
Part(kind) ==
  CASE kind = "mission"   -> [Empty EXCEPT !.mission = db.mission]
    [] kind = "artifacts" -> [Empty EXCEPT !.assessed = db.assessed]
    [] OTHER              -> [Empty EXCEPT !.rows = db.rows]

Fetch(kind, n) == [kind |-> kind, n |-> n, issued |-> Part(kind)]

\* Of each loader the oldest fetch is kept (a bound of the model).
Load(kinds) ==
  {Fetch(k, 0) : k \in {k \in kinds : \A f \in flights : f.kind # k}}

\* Queries answer in ascending order of id.
Rank(id, ids) == Cardinality({i \in ids : i <= id})
InOrder(ids)  == [n \in 1..Cardinality(ids) |-> CHOOSE id \in ids : Rank(id, ids) = n]

\* The page has been loaded.
Init ==
  /\ FeedInit
  /\ transmissions = InOrder(db.rows) /\ seen = db.rows /\ spine = db.rows
  /\ mission = db.mission /\ threat = db.assessed
  /\ threatActive = FALSE /\ redAlert = FALSE /\ escalations = 0 /\ alertTimer = FALSE
  /\ flights = {}
  /\ resetting = FALSE /\ dispatching = FALSE
  /\ running = FALSE /\ token = 0 /\ loops = {} /\ timer = 0
  /\ stopShown = FALSE /\ loadFailed = FALSE
  /\ clicks = 0

-----------------------------------------------------------------------------
(* What the handlers have in common.                                       *)

\* deriveFromArtifacts(): an assessment is taken over, none is not.
DerivedThreat(assessed) == threat \/ assessed

\* threatBand()
ThreatBand(assessed) == IF assessed THEN "high" ELSE "unknown"

\* What renderHeader() would draw.
HeaderRed(active, assessed, status) ==
  active /\ status # "completed" /\ ThreatBand(assessed) = "high"

\* resetNarrative(): no alert, and none to be stood down.
Calm == /\ alertTimer' = FALSE /\ threatActive' = FALSE /\ redAlert' = FALSE

\* containThreat(): an alert that is up is stood down.
StandDown ==
  /\ alertTimer' = FALSE
  /\ IF threatActive
     THEN threatActive' = FALSE /\ redAlert' = FALSE
     ELSE UNCHANGED <<threatActive, redAlert>>

\* Wrong on purpose (SpineIsTimeline): the spine is not cleared.
ClearViewButSpine ==
  /\ Calm
  /\ transmissions' = <<>> /\ seen' = {} /\ UNCHANGED spine
  /\ mission' = "none" /\ threat' = FALSE

\* clearView(): nothing of a mission is left on the screen.
ClearView ==
  /\ Calm
  /\ transmissions' = <<>> /\ seen' = {} /\ spine' = {}
  /\ mission' = "none" /\ threat' = FALSE

\* escalateThreat(): raise the alert, unless it is up or there is none to raise.
Escalate ==
  IF ~threatActive /\ ThreatBand(threat) # "unknown"
  THEN /\ threatActive' = TRUE
       /\ redAlert' = HeaderRed(TRUE, threat, mission)
  ELSE UNCHANGED <<threatActive, redAlert>>

\* stop() of the replay, for a caller that restores the view (reloadLive()) or
\* for RESET, which does not.  It clears the timer it knows of.
StopLoops ==
  /\ token' = token + 1
  /\ running' = FALSE
  /\ loops' = {l \in loops : l.token # timer}
  /\ timer' = 0
  /\ stopShown' = FALSE

\* Wrong on purpose (RedAlertHasCause): the mission is not loaded again, which
\* is what redraws the header.
ReloadTimelineOnly ==
  /\ threatActive' = FALSE
  /\ flights' = flights \cup Load({"timeline", "artifacts"})
  /\ loadFailed' = FALSE
  /\ UNCHANGED <<timelineVars, mission, threat, redAlert, alertTimer>>

\* reloadLive(): the alert is off, though it is drawn until the mission is here.
ReloadLive ==
  /\ threatActive' = FALSE
  /\ flights' = flights \cup Load(Loaders)
  /\ loadFailed' = FALSE
  /\ UNCHANGED <<timelineVars, mission, threat, redAlert, alertTimer>>

-----------------------------------------------------------------------------
(* Fetches.                                                                *)

Landed(f, kind) == f.kind = kind /\ flights' = flights \ {f}
Answers(f)      == {f.issued, Part(f.kind)}

\* Wrong on purpose (TypeOK): a load that fails shows as a status of its own.
LandMissionUnknown(f) ==
  /\ Landed(f, "mission")
  /\ mission' \in {a.mission : a \in Answers(f)} \cup {"unknown"}
  /\ redAlert' = HeaderRed(threatActive, threat, mission')
  /\ UNCHANGED <<feedVars, timelineVars, threat, threatActive, alertTimer,
                 escalations, resetVars, replayVars, loadFailed, clicks>>

\* loadMission(); a failure draws the header again as well.
LandMission(f) ==
  /\ Landed(f, "mission")
  /\ mission' \in {a.mission : a \in Answers(f)} \cup {mission}
  /\ redAlert' = HeaderRed(threatActive, threat, mission')
  /\ UNCHANGED <<feedVars, timelineVars, threat, threatActive, alertTimer,
                 escalations, resetVars, replayVars, loadFailed, clicks>>

\* Wrong on purpose (TimelineKnown): what was seen before stays seen.
LandTimelineSeenStays(f) ==
  /\ Landed(f, "timeline")
  /\ \E a \in Answers(f) :
       /\ transmissions' = InOrder(a.rows)
       /\ seen' = seen \cup a.rows
       /\ spine' = a.rows
  /\ loadFailed' = FALSE
  /\ UNCHANGED <<feedVars, alertVars, escalations, resetVars, replayVars, clicks>>

\* loadTimeline(): the answer replaces what is there.
LandTimeline(f) ==
  /\ Landed(f, "timeline")
  /\ \E a \in Answers(f) :
       /\ transmissions' = InOrder(a.rows)
       /\ seen' = a.rows
       /\ spine' = a.rows
  /\ loadFailed' = FALSE
  /\ UNCHANGED <<feedVars, alertVars, escalations, resetVars, replayVars, clicks>>

FailTimeline(f) ==
  /\ Landed(f, "timeline")
  /\ loadFailed' = TRUE
  /\ UNCHANGED <<feedVars, timelineVars, alertVars, escalations, resetVars,
                 replayVars, clicks>>

\* loadArtifacts(), or its failure.
LandArtifacts(f) ==
  /\ Landed(f, "artifacts")
  /\ \/ /\ threat' \in {DerivedThreat(a.assessed) : a \in Answers(f)}
        /\ redAlert' = HeaderRed(threatActive, threat', mission)
     \/ UNCHANGED <<threat, redAlert>>
  /\ UNCHANGED <<feedVars, timelineVars, mission, threatActive, alertTimer,
                 escalations, resetVars, replayVars, loadFailed, clicks>>

-----------------------------------------------------------------------------
(* The event stream.                                                       *)

\* onTransmission(): the live narrative raises the alert 450 ms after a
\* transmission of the tactical agent.
OnTransmission(id) ==
  /\ IF id \in seen
     THEN UNCHANGED <<timelineVars, flights, escalations>>
     ELSE /\ seen' = seen \cup {id}
          /\ transmissions' = Append(transmissions, id)
          /\ spine' = spine \cup {id}
          /\ flights' = flights \cup Load({"artifacts"})
          /\ escalations' = escalations + (IF log[id] = "tactical" THEN 1 ELSE 0)
  /\ UNCHANGED alertVars

\* onMission(): a completed mission stands the alert down 2200 ms later.
OnMission(status) ==
  /\ mission' = status
  /\ redAlert' = HeaderRed(threatActive, threat, status)
  /\ alertTimer' = (alertTimer \/ (status = "completed" /\ threatActive))
  /\ UNCHANGED <<timelineVars, threat, threatActive, escalations, flights>>

\* An event arrives; during a replay or a reset it is dropped.
Deliver ==
  /\ wire # <<>>
  /\ wire' = Tail(wire)
  /\ LET e == Head(wire)
     IN  \/ /\ running \/ resetting
            /\ UNCHANGED <<timelineVars, alertVars, escalations, flights>>
         \/ /\ ~running /\ ~resetting
            /\ e.kind = "transmission"
            /\ OnTransmission(e.id)
         \/ /\ ~running /\ ~resetting
            /\ e.kind = "mission"
            /\ OnMission(e.mission)
  /\ UNCHANGED <<log, db, queue, resetVars, replayVars, loadFailed, clicks>>

\* setTimeout(escalateThreat, 450): nobody clears it.
EscalationDue ==
  /\ escalations > 0
  /\ escalations' = escalations - 1
  /\ Escalate
  /\ UNCHANGED <<feedVars, timelineVars, mission, threat, alertTimer, flights,
                 resetVars, replayVars, loadFailed, clicks>>

\* setTimeout(containThreat, 2200)
StandDownDue ==
  /\ alertTimer
  /\ StandDown
  /\ UNCHANGED <<feedVars, timelineVars, mission, threat, escalations, flights,
                 resetVars, replayVars, loadFailed, clicks>>

-----------------------------------------------------------------------------
(* DISPATCH and RESET.                                                     *)

\* runMission(): a replay that is on is not stopped.
ClickRun ==
  /\ ~dispatching
  /\ clicks < MaxClicks
  /\ clicks' = clicks + 1
  /\ dispatching' = TRUE
  /\ ClearView
  /\ queue' = Append(queue, "start")
  /\ UNCHANGED <<log, db, wire, escalations, flights, resetting, replayVars, loadFailed>>

\* The POST is answered, or it fails: the button is enabled, nothing else.
LandRun ==
  /\ dispatching
  /\ dispatching' = FALSE
  /\ UNCHANGED <<feedVars, timelineVars, alertVars, escalations, flights, resetting,
                 replayVars, loadFailed, clicks>>

\* The replay is stopped without a reload, the view is cleared, the button is
\* disabled until the POST is answered.
ClickReset ==
  /\ ~resetting
  /\ clicks < MaxClicks
  /\ clicks' = clicks + 1
  /\ resetting' = TRUE
  /\ StopLoops
  /\ ClearView
  /\ queue' = Append(queue, "reset")
  /\ UNCHANGED <<log, db, wire, escalations, flights, dispatching, loadFailed>>

\* The dashboard answers when the reset was served, or after 15 seconds though
\* the reset still waits for the lock: either way the view is cleared again.
LandReset ==
  /\ resetting
  /\ resetting' = FALSE
  /\ ClearView
  /\ UNCHANGED <<feedVars, escalations, flights, dispatching, replayVars, loadFailed, clicks>>

-----------------------------------------------------------------------------
(* Replay.                                                                 *)

\* STOP is shown at once; the guard of start() is looked at before the fetch.
ClickReplay ==
  /\ ~running
  /\ clicks < MaxClicks
  /\ clicks' = clicks + 1
  /\ stopShown' = TRUE
  /\ flights' = flights \cup {Fetch("replay", clicks + 1)}
  /\ UNCHANGED <<feedVars, timelineVars, alertVars, escalations, resetVars, running,
                 token, loops, timer, loadFailed>>

ClickStop ==
  /\ stopShown
  /\ StopLoops
  /\ ReloadLive
  /\ UNCHANGED <<feedVars, escalations, resetVars, clicks>>

\* Wrong on purpose (OneDriver): a replay has no token of its own.
EnterSameToken(rows) ==
  /\ running' = TRUE
  /\ stopShown' = TRUE
  /\ UNCHANGED token
  /\ loops' = loops \cup {[token |-> token, todo |-> InOrder(rows)]}
  /\ timer' = token
  /\ spine' = {}
  /\ Calm
  /\ UNCHANGED <<transmissions, seen, mission, threat>>

\* Wrong on purpose (StopAtHand): STOP was shown by the click already.
EnterStopAsIs(rows) ==
  /\ running' = TRUE
  /\ UNCHANGED stopShown
  /\ token' = token + 1
  /\ loops' = loops \cup {[token |-> token + 1, todo |-> InOrder(rows)]}
  /\ timer' = token + 1
  /\ spine' = {}
  /\ Calm
  /\ UNCHANGED <<transmissions, seen, mission, threat>>

\* A replay is entered, whatever has happened since the click.
Enter(rows) ==
  /\ running' = TRUE
  /\ stopShown' = TRUE
  /\ token' = token + 1
  /\ loops' = loops \cup {[token |-> token + 1, todo |-> InOrder(rows)]}
  /\ timer' = token + 1
  /\ spine' = {}
  /\ Calm
  /\ UNCHANGED <<transmissions, seen, mission, threat>>

LandReplay(f) ==
  /\ Landed(f, "replay")
  /\ \E a \in Answers(f) :
       IF a.rows = {}
       THEN UNCHANGED <<timelineVars, alertVars, replayVars>>
       ELSE Enter(a.rows)
  /\ UNCHANGED <<feedVars, escalations, resetVars, loadFailed, clicks>>

\* The fetch of a second start fails: the replay that is on is stopped.
FailReplay(f) ==
  /\ f.kind = "replay"
  /\ IF running
     THEN /\ StopLoops
          /\ threatActive' = FALSE
          /\ flights' = (flights \ {f}) \cup Load(Loaders)
          /\ loadFailed' = FALSE
          /\ UNCHANGED <<timelineVars, mission, threat, redAlert, alertTimer>>
     ELSE /\ flights' = flights \ {f}
          /\ UNCHANGED <<timelineVars, alertVars, replayVars, loadFailed>>
  /\ UNCHANGED <<feedVars, escalations, resetVars, clicks>>

\* step() of a loop that is no longer the one: nothing.
TickStale(l) ==
  /\ ~running \/ l.token # token
  /\ loops' = loops \ {l}
  /\ UNCHANGED <<feedVars, timelineVars, alertVars, escalations, flights, resetVars,
                 running, token, timer, stopShown, loadFailed, clicks>>

\* step() with a transmission left to show.
TickNext(l) ==
  /\ running /\ l.token = token
  /\ l.todo # <<>>
  /\ spine' = spine \cup {Head(l.todo)}
  /\ IF log[Head(l.todo)] = "tactical" THEN Escalate ELSE UNCHANGED <<threatActive, redAlert>>
  /\ loops' = (loops \ {l}) \cup {[token |-> token, todo |-> Tail(l.todo)]}
  /\ timer' = l.token
  /\ UNCHANGED <<feedVars, transmissions, seen, mission, threat, alertTimer,
                 escalations, flights, resetVars, running, token, stopShown, loadFailed, clicks>>

\* Wrong on purpose (EveryReplayEnds): the end is shown, but nothing is stopped.
TickLastStays(l) ==
  /\ running /\ l.token = token
  /\ l.todo = <<>>
  /\ StandDown
  /\ loops' = loops \ {l}
  /\ UNCHANGED <<feedVars, timelineVars, mission, threat, escalations, flights,
                 resetVars, running, token, timer, stopShown, loadFailed, clicks>>

\* step() at the end: showMissionComplete(), then stop().
TickLast(l) ==
  /\ running /\ l.token = token
  /\ l.todo = <<>>
  /\ running' = FALSE /\ token' = token + 1 /\ timer' = 0 /\ stopShown' = FALSE
  /\ loops' = {m \in loops \ {l} : m.token # timer}
  /\ StandDown
  /\ flights' = flights \cup Load(Loaders)
  /\ loadFailed' = FALSE
  /\ UNCHANGED <<feedVars, timelineVars, mission, threat, escalations, resetVars,
                 clicks>>

-----------------------------------------------------------------------------
Backend == FeedNext /\ UNCHANGED consoleVars

Land(f) ==
  \/ LandMission(f) \/ LandTimeline(f) \/ FailTimeline(f) \/ LandArtifacts(f)
  \/ LandReplay(f) \/ FailReplay(f)

Tick(l) == TickStale(l) \/ TickNext(l) \/ TickLast(l)

Operator == ClickRun \/ ClickReset \/ ClickReplay \/ ClickStop

Next ==
  \/ Backend
  \/ \E f \in flights : Land(f)
  \/ Deliver \/ EscalationDue \/ StandDownDue
  \/ LandRun \/ LandReset
  \/ \E l \in loops : Tick(l)
  \/ Operator

Spec == Init /\ [][Next]_vars

\* Timers fire.
Fairness == WF_vars(\E l \in loops : Tick(l))

FairSpec == Spec /\ Fairness
-----------------------------------------------------------------------------
(* Properties.                                                             *)

\* A replay that is on is driven by exactly one loop, one that is off by none,
\* however starts, stops and resets overlap (replay.js 245-397: several fetches
\* may return, and stop() clears only the timer it knows of).
OneDriver ==
  /\ running <=> \E l \in loops : l.token = token
  /\ \A l, m \in loops : l.token = m.token => l = m

\* A row is in the timeline once, and seen exactly if it is there, though
\* snapshots replace it while events append to it (app.js 769-781, 890-893).
TimelineKnown ==
  /\ seen = {transmissions[i] : i \in 1..Len(transmissions)}
  /\ \A i, j \in 1..Len(transmissions) : transmissions[i] = transmissions[j] => i = j

\* Unless a replay is on or its view is about to be replaced, the spine shows
\* the timeline (app.js 734-740: "Used by replay.js stop() to restore the live view").
SpineIsTimeline ==
  \/ running \/ loadFailed
  \/ \E f \in flights : f.kind = "timeline"
  \/ spine = {transmissions[i] : i \in 1..Len(transmissions)}

\* Whoever sees a replay can stop it (app.js 1069-1081, replay.js 263-266, 359-363).
StopAtHand == running => stopShown

\* The header is not red without an active alert, but until a mission that is
\* under way arrives and draws it again (app.js 296-297, 736-740).
RedAlertHasCause == redAlert => threatActive \/ \E f \in flights : f.kind = "mission"

\* A replay that is on ends by itself (replay.js 283-328).
EveryReplayEnds == running ~> ~running

\* app.js 846-847: an alert is only raised "during a live dispatch or a replay",
\* from the tactical hop on: a replay is on, or the hop is in the timeline.
AlertHasContact ==
  threatActive => running \/ \E id \in seen : log[id] = "tactical"

-----------------------------------------------------------------------------
(* The inductive invariant behind OneDriver and StopAtHand.                *)

\* Tokens only grow, and no loop is ahead of its time.
TokensPast == token \in Nat /\ \A l \in loops : l.token \in 0..token

DriverInv == TokensPast /\ OneDriver /\ StopAtHand
=============================================================================
