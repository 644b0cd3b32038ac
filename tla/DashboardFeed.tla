---------------------------- MODULE DashboardFeed ----------------------------
(***************************************************************************)
(* The dashboard API as a browser sees it: the tables that a mission       *)
(* clears and fills (command-agent/app/main.py, mission.py), the requests  *)
(* that wait for the mission lock, and the event stream that shows what    *)
(* was committed (dashboard-api/app/sse.py).                               *)
(*                                                                         *)
(* A transmission is its row id; log says what each id is about, db which  *)
(* rows are in the tables.  Ids are never used again (AUTOINCREMENT).  The *)
(* stream is taken to poll after each commit, and an event to be under way *)
(* for any time; rows that come and go between two polls are left out.  A  *)
(* run may fail at any time, which the tables do not tell.                 *)
(***************************************************************************)
EXTENDS Naturals, Sequences, FiniteSets

CONSTANTS
  Script,     \* the transmissions of a mission, in order
  MaxRows     \* bound: rows ever inserted

ASSUME FeedAssumption ==
  /\ Script \in Seq({"tactical", "other"})
  /\ MaxRows \in Nat /\ Len(Script) <= MaxRows

VARIABLES
  log,        \* what each row is about, by id
  db,         \* the tables: rows, mission status, tactical artifact
  queue,      \* the requests for the mission lock, first come first served
  wire        \* events under way to the browser

feedVars == <<log, db, queue, wire>>

-----------------------------------------------------------------------------
Ids      == 1..MaxRows
Statuses == {"none", "running", "completed"}
Tables   == [rows : SUBSET Ids, mission : Statuses, assessed : BOOLEAN]
Empty    == [rows |-> {}, mission |-> "none", assessed |-> FALSE]

Events == [kind : {"transmission"}, id : Ids, mission : {"none"}]
            \cup [kind : {"mission"}, id : {0}, mission : Statuses]

FeedTypeOK ==
  /\ log \in Seq({"tactical", "other"}) /\ Len(log) <= MaxRows
  /\ db \in Tables
  /\ db.rows \subseteq 1..Len(log)
  /\ queue \in Seq({"start", "reset"})
  /\ wire \in Seq(Events)

\* A mission that was completed earlier, or none.
FeedInit ==
  /\ \/ log = <<>> /\ db = Empty
     \/ log = Script /\ db = [rows |-> 1..Len(Script), mission |-> "completed", assessed |-> TRUE]
  /\ queue = <<>>
  /\ wire = <<>>

-----------------------------------------------------------------------------
Transmission(id) == [kind |-> "transmission", id |-> id, mission |-> "none"]
MissionEvent(m)  == [kind |-> "mission", id |-> 0, mission |-> m]

\* As far as the tables tell: a run that failed leaves its row as it was.
Running == db.mission = "running"

\* The first request in the queue gets the lock: there is no run, or it failed.
Served(request) == queue # <<>> /\ Head(queue) = request /\ queue' = Tail(queue)

\* The tables are cleared and a mission is created.
ServeStart ==
  /\ Served("start")
  /\ db' = [Empty EXCEPT !.mission = "running"]
  /\ wire' = Append(wire, MissionEvent("running"))
  /\ UNCHANGED log

ServeReset ==
  /\ Served("reset")
  /\ db' = Empty
  /\ wire' = IF db.mission = "none" THEN wire ELSE Append(wire, MissionEvent("none"))
  /\ UNCHANGED log

\* How many transmissions of the mission are there.
Position == Cardinality(db.rows)

\* The artifact of a hop is stored before the next hop's transmission.
Assessed == \E id \in db.rows : log[id] = "tactical"

InsertTransmission ==
  /\ Running
  /\ Position < Len(Script) /\ Len(log) < MaxRows
  /\ log' = Append(log, Script[Position + 1])
  /\ db' = [db EXCEPT !.rows = @ \cup {Len(log) + 1}, !.assessed = Assessed]
  /\ wire' = Append(wire, Transmission(Len(log) + 1))
  /\ UNCHANGED queue

CompleteMission ==
  /\ Running
  /\ Position = Len(Script)
  /\ db' = [db EXCEPT !.mission = "completed", !.assessed = Assessed]
  /\ wire' = Append(wire, MissionEvent("completed"))
  /\ UNCHANGED <<log, queue>>

FeedNext == ServeStart \/ ServeReset \/ InsertTransmission \/ CompleteMission
=============================================================================
