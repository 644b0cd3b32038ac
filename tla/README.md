# TLA+ models of Operation Echo Shield

Operation Echo Shield (`README.md`, `docs/`) is a set of agents that talk A2A
(HTTP+JSON, tasks, artifacts, server-sent events) and a command agent that
leads one mission through five of them while a dashboard shows it. This
directory holds TLA+ models of its parts, TLC configurations that check them on
small instances, and theorems about them that TLAPS proves for every instance.
Paths below are relative to `src/`.

## The system

| Part | State it keeps | Operations | Talks to |
|---|---|---|---|
| Mission control (`python/command-agent/app/main.py`) | `_mission_lock` and its queue, `_autostart_done` | `POST /mission:start`, `POST /mission:reset`, the automatic run at startup, restarts | orchestrator, store |
| Orchestrator (`orchestrator.py`) | locals of one run | five hops: discover, call, persist events, record the message, persist task and artifacts; resilience demonstration | registry, agents, store |
| Mission store (`mission.py`, `storage/schema.sql`) | SQLite tables `missions`, `tasks`, `artifacts`, `messages`, `task_status_updates`, `transmissions`, `audit_logs`, `dead_letters` | clear, create, phase, complete, upsert, inserts; each one a transaction | read by the dashboard |
| A2A client (`a2a_client.py`) | none | send, stream, get, each with three attempts and backoff | agents, registry |
| Command agent's own A2A face (`main.py`) | in-memory `TASKS` | send, stream, get, list, subscribe, cancel | mission control |
| Go agents (`go/{fleet,tactical,logistics}-agent/tasks.go`, one text three times) | `TaskStore`: a map of shared `*Task` under a mutex | send, stream, get, list, subscribe, cancel | called by the orchestrator |
| Go domain logic (`tactical.go`, `logistics.go`, `fleet.go`) | none | risk score, constant payloads | - |
| TypeScript agents (`typescript/{intelligence,communications-relay}-agent/src`) | `TaskStore`, list of live subscribers | the same handlers on one event loop | called by the orchestrator |
| Registry (`python/registry-service/app`) | agent rows (health), card rows, ETags in memory | warmup, refresh, card fetch, search by skill | agents |
| Dashboard API (`python/dashboard-api/app`) | cursors of each event stream | SSE feed, run and reset as proxies with timeouts, queries | store, command agent |
| Browser console (`python/dashboard-api/static/app.js`, `replay.js`) | view state, replay state | loaders, SSE handlers, run, reset, replay | dashboard API |

### How they interact, and what is hard about it

* **Starts, resets, the automatic run.** All of them clear the tables, and all
  but the reset then fill them. A run takes as long as five remote calls, each
  of which may fail. What keeps the tables whole is one `asyncio.Lock` and one
  flag. The process may die in the middle and come back on the same database.
  *Correct* means: the tables show one run; nothing disturbs it; the row never
  claims more than is on record; the automatic run gives way to explicit ones;
  nobody waits for ever.
* **A Go agent's tasks.** One goroutine per request; the mutex protects the map
  and `Update`, but `Get` hands out the pointer, so the checks (`is it
  canceled?`, `is it terminal?`) and the JSON encoder read fields while others
  write them. *Correct* means: results are stored before anybody can learn of
  completion; a task moves only along its life cycle; callers only see the
  answers they can cope with; the mutex is always given back.
* **The seam between the two.** What mission control persists depends on what
  an agent answers when a cancel comes in at a bad moment.
* **TypeScript agents.** Checks and sleeps alternate on one event loop; a cancel
  in a sleep is overwritten; live subscribers are told of the end and never
  ended. *Correct* means: a subscriber can always tell where its task stands; a
  stream runs to its end whoever leaves or cancels; callers only see the answers
  they can cope with.
* **Command agent's face.** A stream is two things at once, the mission and the
  generator of its events, tied by a future; the generator replaces its task by
  a completed one whatever a cancel made of it. *Correct* means: no task is
  completed by another's mission; every stream whose client stays gets its end.
* **Registry.** Health and card are stored in two commits; fetches overlap; an
  ETag may outlive its card.
* **Dashboard and console.** One page with timers, fetches and an event stream,
  whose callbacks come back to a view that was cleared, replayed or reloaded
  since; a reset that outlives its 15 s timeout. *Correct* means: a replay has
  one driver and can be stopped; a row is shown once; the spine, the header and
  the marks show what is known and nothing that was left behind; no animation
  goes on alone, and nothing that was started never ends.

`PROJECT.json` lists these at their lines under `hazards`.

## Modules

| Module | Models | Role |
|---|---|---|
| `AgentAnswers` | what a caller can get out of an agent | the contract between the two below: `MissionControl` chooses from it, `GoAgentTasks` is checked to give nothing else |
| `MissionBoard` | what the tables promise their readers | abstract specification |
| `MissionControl` | `main.py` (lock, starts, reset, automatic run), `orchestrator.py` (one run), `mission.py` (its rows) | implements `MissionBoard` |
| `CommandTasks` | `main.py` (send, stream, cancel, the generator, clients that leave) | extends `MissionControl`: the same missions, behind the face; implements `TaskLifecycle` |
| `TaskLifecycle` | what a task store promises about its tasks | abstract specification, with three implementations |
| `GoAgentTasks` | `tasks.go` of the Go agents | implements `TaskLifecycle` |
| `TSAgentTasks` | `index.ts`, `tasks.ts` of the TypeScript agents | implements `TaskLifecycle` |
| `DashboardFeed` | `sse.py` and the proxies of the dashboard, with as much of a mission as a browser can see | the environment of `Console` |
| `Console` | `app.js` (loaders, event handlers, alert, dispatch, reset), `replay.js` | extends `DashboardFeed` |
| `Inspector` | `transmission-spine.js`, `data-pad.js` (tabs, copy), `app.js` (inspector, boot screen, keyboard) | |
| `JsonViewer` | `data-pad.js` (collapsible groups) | |
| `Holotable` | `holotable.js` | |
| `MissionControl_proof`, `CommandTasks_proof`, `GoAgentTasks_proof`, `TSAgentTasks_proof`, `TaskLifecycle_proof`, `Console_proof`, `Inspector_proof`, `Holotable_proof` | | theorems about these modules |
| `MC...` | | constants for TLC |

### MissionControl

A step is what the event loop does from one `await` to the next, or one commit.
`pc` says where a request stands; `owner` and `waiters` are the lock (a free
lock with a queue is not taken by a newcomer, as in `asyncio.Lock`);
`autostartDone` is the flag. `Arrive` is a request reaching
`async with _mission_lock`; `Grant` the first waiter resuming; `Enter` what is
done at once under the lock, where the automatic run looks at the flag again
(`main.py` 311). `ClearContext` and `CreateMission` are `clear_context` and
`create_mission`; one hop is `UpdatePhase`, then `CallStream` and a
`ConsumeEvent` per event or `CallSend`, then `RecordMessage`, `PersistTask`
and, if there is an artifact, `PersistArtifact`. `CompleteMission` and
`Close` end the run, `Fail` is an exception from any awaited call, `Crash` a
new start of the process, of which only the tables survive.

A row carries its run, which the code's rows do not (they all carry the same
`contextId`): the tag exists so that properties can tell runs apart, and no
guard of the model reads it except to find a run's own task row, which has an
id of its own in the code. A hop's rows are one per table; of the artifact's
payload, the summaries and the narration tables nothing is kept. A remote call
is one step: that the agent works meanwhile does not matter to the tables,
and what it may answer is in `AgentAnswers`.

### CommandTasks

A `message:stream` and a `message:send` are starts of `MissionControl` that also
show a task: `face` is its state, `summary` whether it has its artifact. `pc` of
the mission and `gen` of the generator are two processes: `OpenStream` sets off
the first (`main.py` 594-608) and lets the second put its task (`_orchestrator_sse`,
496), which the code does a few steps of the event loop later: until the first event
nobody can name the task, so that only a client that leaves in between is not
modelled, who leaves no task at all; `SendSummary` is the generator resuming when the future has a result,
which the mission sets whether it succeeded or failed, and `Conclude` the
completed task that replaces the first one (541-555). `ClientLeaves` cancels the
generator; the mission goes on. `CancelTask` looks at the task only. The actions
of `MissionControl` are taken over as they are, so that its properties are asked
of the agent as it is used; the reports of progress of a stream are sent and not
stored, and are left out. A restart of the process takes `TASKS` with it: tasks
count only while their command is not gone.

### GoAgentTasks

A request is a process, as `net/http` gives it a goroutine. `writing` is the
mutex: who is inside `Update`, and which field is about to be assigned.
`ReadState` and `ReadArtifacts` are the unlocked reads: while a field is being
assigned they give the old or the new value, and for the two words of a string
possibly a mixture, `"TORN"`, which is no state of the contract. The
assignments of one `Update`, and the loads of one reader, are taken in program
order: there are calls between them that the compiler does not move them
across. Under Go's memory model a race has no order at all; the properties hold
for the order stated here.

`Create` is `Put`; `Announce` the task event; `CheckCanceled`/`TestCanceled`
the `Get` and the look at the state before each phase, which are two steps
because the mutex is free between them; `StartWorking` an `Update`;
`ReportWorking` the event that follows; `EmitArtifact`, `StartCommit`
(with `ArtifactsWritten` and `StatusWritten`) and `EmitFinal` the end of a
stream. A send is `Create`, `StartCommit`, `Fetch`, `Respond`. A visitor is
`Lookup` and then, for a cancel, `DecideCancel`, `StartCancel` and the encoding
of the response in two reads; for a GET the encoding alone; for a subscriber the
five reads of `handleSubscribe`. `ClientLeaves` is a broken connection, after
which the handler may return at any write.

### TSAgentTasks

A step is what runs from one `await` to the next, and only the sleeps of a
stream are awaited (`index.ts` 503). So a whole `message:send`, cancel or
subscribe is one action, and `runScoutStream` is `OpenStream`, a `ReportPhase`
for each wake-up, `ReportLastPhase` (the artifact goes out with the last phase)
and `Finish`. Each of them assigns the status whatever the task says by then;
the look for a cancel (`LoopTop`) comes before the sleep, where nothing can have
intervened. `live` is the set of attached subscribers, `told` what the events a
subscriber received add up to, `seen` what the client of a stream received.
`RequestCloses` is the `close` event that drops a subscriber, which with these
requests may come as soon as their body was read. Both agents are the same text
but for their phases and payloads; the map names one or the other.

### DashboardFeed and Console

`DashboardFeed` is what a browser sees of the rest: rows that a mission inserts
and clears, the requests queued for the lock, the events under way. A mission of
the feed is the one of `MissionControl` seen from outside: a start clears and
creates, rows come in the order of the script, a reset may be served after any
failure.

`Console` is one event loop; each action is one callback. A fetch (`flights`)
keeps the part of the tables it was issued on, and lands with that or with the
present one, or fails. `ClickRun`, `ClickReset`, `ClickReplay`, `ClickStop` are
the buttons; `LandMission`, `LandTimeline`, `LandArtifacts`, `LandReplay` the
answers, with their failures; `Deliver` an event of the stream;
`EscalationDue` and `StandDownDue` the timers of the alert; `TickStale`,
`TickNext`, `TickLast` the `step()` of a replay loop, told apart by its token.
`redAlert` is the header as it was last drawn, which is not always what the
state says; `escalations` counts timers of which nobody keeps a handle. History:
`loadFailed` (the last timeline did not arrive), `clicks`.

### Inspector, JsonViewer, Holotable

These are what the drawing modules remember from one callback to the next.
`Inspector`: the packets of the spine with mark, selection and placeholder, the
pad with its tabs, the COPY button with its one timer and remembered label, the
boot screen with up to two timers, and the Escape key they share. `Page` lets
the rest of the console render any rows in ascending order (`Lists`, the
contract of `renderAll`), add to or clear the spine at any time.
`JsonViewer`: the lines of a value, the groups each is a member of as
`buildJsonViewer` computes them, and the toggles. `Holotable`: the frame and the
handle of each animation loop, the beams with the nodes they light and the
timers that darken them, the route; the preference for reduced motion may
change at any time, and its event comes later.

## Runs

| Run | Instance | What it shows |
|---|---|---|
| `command_agent` | a stream and a send that run missions, a reset, the automatic run; cancels, a client that leaves; two hops; two lives | every property of `MissionControl` and of `CommandTasks` |
| `mission_outcome` | two starts, a reset, the automatic run; three hops; two lives | a mission is recorded as completed over a canceled task (finding 1) |
| `go_agent` | a stream of two phases, a send, two cancels, a subscriber, a reader, of which any three come | every property of `GoAgentTasks` |
| `go_cancel_reply` | the same | a cancel that is not refused may return a task that is not canceled (finding 2) |
| `go_subscribe` | the same | a subscriber to an active task is not shown its end (finding 3) |
| `ts_agent` | two streams of two phases, a send, two cancels, two subscribers | every property of `TSAgentTasks` |
| `ts_cancel` | the same | a cancel that was answered does not last (finding 4) |
| `console` | a mission of two rows, four rows in all; two clicks on DISPATCH, RESET or REPLAY, any on STOP | every property of `Console` |
| `console_alert` | a mission of one row | the alert over a mission without contact (finding 5) |
| `inspector` | two transmissions, one with a message; three tabs, two boot lines, one clipboard promise | every property of `Inspector` |
| `json_viewer` | `{"parts": [1, 2], "metadata": {}}` | a collapsed group cannot be expanded (finding 6) |
| `holotable` | two agents and a stranger, two beams | every property of `Holotable` |

Bounds, and why they are enough:

* *Two hops for five, three in `mission_outcome`.* A hop is a stream or a send,
  from a Go agent or from a TypeScript agent. In `command_agent` the first is a
  send to a TypeScript agent and the last, as in the code, a stream; it comes
  from a Go agent, whose answers include those of a TypeScript stream. Beside
  the face a third hop is more than liveness can be checked for; the safety
  properties are proved for any number of hops of any kind, and
  `mission_outcome` has a send to a Go agent between the two.
* *Two lives.* A run, or several, is cut off by a crash, and another follows on
  what it left behind. A third would start from no new kind of table.
* *Two commands, a reset, the automatic run.* Two may be queued behind a third,
  in every order, and each face has another's mission before and behind its own.
* *Two phases.* One that is followed by another look at the state, and one that
  is not (the fleet agent has more of the first kind, `tasks.go` 382-409).
* *Three requests (`MaxRequests`).* Visitors never change anything but their
  task's state, and only cancels do that: a worker with two cancels, with a
  cancel and a reader, or with a cancel and a subscriber are the cases. The
  second worker shows that tasks meet only in the mutex.
* *Two streams, two cancels, two subscribers (`ts_agent`).* Both of each may be
  at the same task, or one at each; a second cancel finds a task that the worker
  has taken back from the first.
* *Two rows, four ids, two clicks (`console`).* The row that raises the alert
  and one that does not; a mission may be followed by another, of which the ids
  are new (`FeedAssumption` asks that one mission fits into the ids). Two clicks are two replays that overlap, or one of them with a
  dispatch or a reset; a third would start from a view that some pair leaves.
  STOP is not bounded. Of each loader one fetch is under way at a time, which
  lands with old or new tables all the same.
* *Inspector.* One transmission that fetches and one that does not; with three
  tabs next, previous, first and last differ; one clipboard promise overlaps
  with the fallback, which answers at once.
* *Two beams (`holotable`).* They may share a node, or both, or neither.

`CHECK_DEADLOCK FALSE` in the runs of requests and clicks: a finite number
comes, and then the system is idle; and in `json_viewer`, where everything can
end up hidden. `inspector` and `holotable` never stop.

### Properties

Of `MissionControl`:

* `OneRunOnRecord`: at most one mission row, and no row of another run.
* `RunUndisturbed`: from its INSERT to its end, the row of a run is its own and
  stands where the run stands.
* `PhaseHasEvidence`: no row claims a phase whose earlier hops have no message
  or no ended task on record; no artifact without its task.
* `AutostartYields`: the automatic run is never served after an explicit request.
* `EveryRequestAnswered`: a queued request is answered, or its process died.
* `ImplementsBoard`: the tables change only as `MissionBoard` says.

Of `GoAgentTasks`:

* `AnswersAsAssumed`: callers get only what `AgentAnswers` lists.
* `CompletedShowsResult`: nobody is shown a completed task without its results,
  although they are read field by field and outside the mutex.
* `ImplementsLifecycle`: tasks change only as `TaskLifecycle` says. It allows a
  cancel after completion and a return from CANCELED to WORKING or COMPLETED,
  because the code does: the check of a cancel, and of a stream, is separate
  from the write that follows.
* `EveryRequestEnds`: no goroutine waits for the mutex for ever.

Of `CommandTasks`:

* `CompletedAfterOwnRun`: while its own mission waits or runs, no task is
  completed and no summary sent, whatever other missions do to the same tables.
* `EveryStreamAnswered`: a stream whose client stays gets its end, however many
  missions are before it and however its own one ends.
* `CommandKeepsLifecycle`: its tasks change only as `TaskLifecycle` says.

Of `TSAgentTasks`:

* `AnswersAsAssumed`: callers get only what `AgentAnswers` lists, which for
  these agents is one answer: whatever is canceled, the whole of it.
* `SubscriberCanRebuild`: snapshot and broadcasts tell an attached subscriber
  where its task stands; a cancel alone is not broadcast.
* `ImplementsLifecycle`, `AttachedAreTold`.
* `EveryStreamEnds`: whoever leaves, a stream ends and leaves no active task
  behind, and nothing but a cancel ends it otherwise than COMPLETED. That a cancel
  may end it is allowed here, and how the code overwrites one is finding 4.

Of `Console`:

* `OneDriver`: a replay that is on has one loop, one that is off none, though
  `start()` looks at its guard before the fetch and `stop()` clears one timer.
* `StopAtHand`: whoever sees a replay can stop it.
* `TimelineKnown`: a row is in the timeline once, and known exactly if it is.
* `SpineIsTimeline`: the spine shows the timeline, unless a replay is on, or
  the timeline is being fetched or could not be.
* `RedAlertHasCause`: a red header has an alert, or the answer that will draw it
  again is under way.
* `EveryReplayEnds`.

Of `Inspector`: `OneReticle` (the mark is on what was selected last),
`HighlightSurvives` (rebuilding and replacing packets does not lose it),
`PlaceholderHonest` (it has two owners), `CopyLabelReturns` (copies overlap),
`BootEnds`. Of `Holotable`: `MotionAsPreferred` (one frame per loop, or none),
`HighlightHasBeam` (no node stays lit for good), `RouteIsPhase` (also when the
phase goes back), `EveryBeamEnds`.

Each module has one type invariant beside these.

### Mutants

Beside an action stands, where a plausible slip in the code would show, a wrong
version of it ("Wrong on purpose"), which no specification uses: a flag not
looked at again under the lock, a reset without the lock, a lock kept after an
exception, a phase announced too early, status assigned before artifacts, an
update that returns without unlocking. Put in the place of the right one, each
makes TLC refute the property it names, so that no property holds by the shape
of the model alone.

### Fairness

`MissionControl` and `CommandTasks`: each process' own next step once it is
inside or first in the queue, because the event loop resumes whatever is ready
and every remote call has a timeout and three attempts (`a2a_client.py` 51-69);
the automatic run's decision, because its polling is bounded by 60 attempts
(`main.py` 278-302); a generator whose future has a result goes on. No fairness
for arrivals, failures, crashes, cancels or clients that leave. `GoAgentTasks`:
each goroutine that can go on does so, and `sync.Mutex` hands itself over to a
waiter in the end (its starvation mode); an `Update` is short, so the mutex is
free again and again. No fairness for arrivals or for a client that leaves.
`TSAgentTasks`, `Console`, `Inspector`, `Holotable`: timers fire, because
nothing on these event loops runs for ever; in `Holotable` frames come as well
(the page is visible) and the media query's event is delivered. No fairness for
requests, clicks, fetches or events of the stream. One timer is set anew by what
it waits behind: a copy clears that of the COPY label, so that `CopyLabelReturns`
is for an operator who does not copy again within 1.4 seconds for ever.

### Findings

1. `docs/protocol.md` 460 and the comment at `orchestrator.py` 381 call the task
   of the GET "authoritative completed"; its state is never looked at, and a
   mission whose hop was canceled is completed all the same.
2. `docs/protocol.md` 200 has a cancel return the task in
   `TASK_STATE_CANCELED` or 409; the response is encoded from the shared task
   after the unlock and may show WORKING or COMPLETED.
3. The comment at `tasks.go` 493 has a subscriber to an active task get the
   rest of the sequence; it gets one snapshot.
4. `index.ts` 415 and `docs/protocol.md` 200 have a cancel cancel an active task;
   a stream of a TypeScript agent looks at the state before it sleeps and sets
   WORKING or COMPLETED after it, so that every cancel is undone.
5. `app.js` 847 has the alert raised only during a live dispatch or a replay;
   the timer of 450 ms outlives the view it was set for, and with a late answer
   of `/api/artifacts` raises it over a mission without contact.
6. `data-pad.js` 204-205 and 231 have a click hide the inner rows of a group, not
   its opener's; the opening line is a member of its own group and disappears
   with its toggle.

`README.md` 511 also says that streaming tasks reject a cancel in mid-stream;
the code accepts it, and `GoAgentTasks` models what the code does.

## Proofs

`MissionControl_proof` proves, from `MissionAssumption` only (the sets of
requests are disjoint, there is a hop and a life), for any number of requests,
hops and restarts:

* `TypeCorrect`: `Spec => []TypeOK`;
* `Inductive`: `Spec => [](TypeOK /\ FreshLocals /\ IInv)`;
* `OneRun`, `Undisturbable`, `EvidenceBehindPhase`, `AutostartIsPolite`: the
  four safety properties above.

None of the four is inductive. `IInv` adds: the lock is held exactly by the one
inside (`LockHeld`), which is what makes two runs exclusive; once a request was
served the flag is set (`ServedIsNoted`), without which the second look of the
automatic run means nothing; tables are empty between clearing and creating
(`TablesCleared`); a stream's artifact is preceded by its task
(`TaskPrecedesArtifact`); and the evidence of a run is as far as its hop, no
less (`EvidenceGrows`) and no more (`EvidenceNotAhead`, without which a run's
phase could be overtaken by its rows). `FreshLocals`
says that a run starts at the first hop. There is one lemma for each action, and
lemmas for the ways in which an action touches the tables.

* `BoardIsKept`: `Spec => ImplementsBoard`. The lemma `BoardOfRun` says what the
  tables show at every point of a run, as a function of its hop and its `pc`;
  a step then maps to `Advance` or `Finish` when that value moves, to `Begin`
  or `Wipe` outside a run, to `Leave` at its end, and to nothing otherwise.
* `ReadersSeeProgress`: `Spec => []Board!BoardInv /\ Board!NeverGoesBack`, what
  the refinement is good for: hops show in order, all of them when a run shows
  as completed, and nothing is taken back but by a wipe between runs.

`GoAgentTasks_proof` proves, from `GoAgentAssumption` only (a request has one
kind), for any requests and any number of phases:

* `Invariance`: `Spec => [](TypeOK /\ IInv)`; `TypesCorrect` follows;
* `ResultsShown`: `Spec => []CompletedShowsResult`;
* `AnswersKnown`: `Spec => []AnswersAsAssumed`;
* `TasksKeepToLifecycle`: `Spec => ImplementsLifecycle`, and from it
  `ResultsAndLateCancelsStay` (below).

Types alone are not inductive here: that a handler past its lookup has a task of
the store (`TargetStored`) is needed for what it reads to have a type at all.
`WriterKnown` says who is inside `Update` and what is being assigned, and that
the status of a commit comes when its artifacts are attached;
`NoResultBeforeCommit` that nothing else attaches them; `EncodedInOrder` and
`ReplayedInOrder` carry the first of two reads to the second.
`CompletedReadHasResult` is the heart of it: an unlocked read that gives
COMPLETED, even from under a write in progress, finds the artifacts there from
then on.

`AnswersAsAssumed` needs `AnswerInv`, which ties what a stream's client has seen
to where the stream stands (`SeenInOrder`), although the events are encoded
outside the mutex. The hard cases are the streams that stop: the first event may
have shown the cancel itself, or a torn state, only because a cancel was being
written then (`AnnouncedFresh`), and that cancel is committed before the stream
next enters the mutex and cannot be missed there (`NoticedCancelStays`). A send
replies after its commit, when nothing but a cancel can still touch the task
(`CommittedStays`, `SendsAnswered`).

`CommandTasks_proof` proves, from both modules' assumptions, for any commands:

* `CommandsRunMissions`: `CommandSpec => Spec`, so that everything proved of
  `MissionControl` holds of the agent behind its face;
* `CommandInvariance`: `CommandSpec => []CommandInv`; `CommandTypes` follows;
* `NoEarlyCompletion`: `CommandSpec => []CompletedAfterOwnRun`;
* `LockComesRound`: `Spec => []TurnComes`, and by the first theorem of
  `CommandSpec` too: whoever waits is in the queue, and the lock is held by
  someone inside it, or free for the first in the queue;
* `CommandTasksKeepToLifecycle`: `CommandSpec => CommandKeepsLifecycle`, and from
  it `SummariesAndLateCancelsStay` (below).

`FacesFollow` is the argument: how far the generator is tells what the task
shows, and that its run ended. It needs `Queued`: who is in the lock's queue is
waiting, once, so that a run that is granted the lock is not one that ended.

`TSAgentTasks_proof` proves, from `TSAgentAssumption` only, for any requests and
any number of phases:

* `Invariance`: `Spec => [](TypeOK /\ IInv)`; `TypesCorrect` follows;
* `SubscribersKnow`: `Spec => []SubscriberCanRebuild`;
* `NobodyIsForgotten`: `Spec => []NobodyWaitsInVain`: a subscriber that was not told
  of the end is known to a task whose worker still has the end to send;
* `AnswersAreComplete`: `Spec => []AnswersAsAssumed`;
* `TasksKeepToLifecycle`: `Spec => ImplementsLifecycle`, and from it
  `ResultsAndLateCancelsStay` (below).

`SubscriberCanRebuild` is inductive once it is known that a subscriber is at one
task (`AttachedOnce`: a broadcast of another task would overwrite what it was
told) and that artifacts come with the last phase (`TaskFollowsWorker`);
`ClientSawIt` carries what a stream wrote to its end.

`TaskLifecycle_proof` proves of the abstract specification what its implementers
inherit: `LifecycleInvariance` (a completed task has its result, and its worker has
left it) and `NothingIsTakenBack` (results stay; a cancel is final once the worker
has left). The three `..._proof` modules above take both over for their own tasks.
This is the true part of what `docs/protocol.md` 200 says of a cancel, next to
findings 2 and 4: only a worker that is still at its task can undo one.

`Console_proof` proves, from `FeedAssumption` and `ConsoleAssumption` (the rows of
one mission fit into the bound on ids), for any mission and any number of clicks:

* `Driven`: `Spec => []DriverInv`; `AlwaysOneDriver` and `AlwaysStopAtHand`
  follow. `DriverInv` adds `TokensPast`: no loop is ahead of the token, so that
  the next token is a new one;
* `AlwaysRedHasCause`: `Spec => []RedAlertHasCause`, which is inductive by itself;
* `TypesCorrect`: `Spec => []TypeOK`, of the feed and the console together;
* `AlwaysTimelineKnown`: `Spec => []TimelineKnown`;
* `AlwaysSpineIsTimeline`: `Spec => []SpineIsTimeline`.

`TimelineKnown` and `SpineIsTimeline` are inductive once the types are known.
Both rest on what a query gives: `InOrderLists` says that the rows of an answer
are listed once each. `InOrder` is defined by rank, the number of rows up to one,
which makes this a fact about finite sets (`RankIsBijective`: an injection into a
set of the same size is onto) and needs no induction over sequences;
`AppendLists` is the same for an event. For the spine, every way out of a replay
clears the view or asks for the timeline (`ReloadAsksForTimeline`).

`Inspector_proof` proves, from `InspectorAssumption`, for any transmissions, tabs,
boot lines and copies:

* `SpineInvariance`: `Spec => []SpineInv`; `AtMostOneReticle` and
  `PlaceholderTellsTruth` follow, and `MarksSurvive`: `Spec => HighlightSurvives`.
  What has to be added is that packets are distinct and that only packets that
  are there are marked, so that one that comes a second time is found and kept;
* `LabelHasTimer` and `BootScreenHasTimer`, the safety halves of the two liveness
  properties: as long as the button says something else a timer is pending that
  remembers COPY, and a boot screen that nobody dismissed has a timer that will.
  What is left to fairness is that timers fire;
* `TypesCorrect`: `Spec => []TypeOK`.

`Holotable_proof` proves, for any agents and any number of beams:

* `Invariance`: `Spec => [](TypeOK /\ IInv)`; `TypesCorrect`,
  `LoopsAsPreferred`, `LightsHaveBeams` and `RouteFollowsPhase` follow.

Its steps ask three questions, each of few variables: of the loops
(`HandleKnown`: what runs is what `stop` can cancel, without which a loop would
be started beside another), of the lights (`UnfiredIdle`: the next beam takes
nobody's place) and of the route (`UnmountedPlain`, `UnmountedStill`).

Every invariant and every safety action property that a run checks is proved.
Model-checked only: the liveness properties (`EveryRequestAnswered`,
`EveryRequestEnds`, `EveryStreamAnswered`, `EveryStreamEnds`,
`AttachedAreTold`, `EveryReplayEnds`, `EveryBeamEnds`, `CopyLabelReturns`,
`BootEnds`), whose fairness, and the ENABLED behind it, is out of the prover's
reach. Of four of them the safety half is proved: `LockComesRound` is that of
`EveryRequestAnswered`, `NobodyIsForgotten` that of `AttachedAreTold`,
`LabelHasTimer` and `BootScreenHasTimer` those of the last two. `JsonViewer` uses a recursive operator, for which the prover has no
backend, and only serves its run.

## Not modelled

* Narration tables, logging, audit, summaries, layout: no property is about them.
* The resilience demonstration (off unless `FAILURE_SIMULATION` is set).
* Authentication of requests, JSON validation, agent cards of the agents
  themselves: stateless.
* Of the command agent's face: subscribe, GET and list (they change nothing; that
  subscribe always ends with a COMPLETED event is listed as a hazard), and a
  `message:send` that is only acknowledged.
* Of the Go agents: the listing of tasks (a read), and a torn read of the slice of
  artifacts, which is taken to show the old or the new one.
* Of the COPY button: its markup, which the first copy replaces by a text.
* The registry and the retries of the A2A client: in the models discovery and
  calls answer or fail. Their hazards are listed without a property.
* The cursors and the reconnection of the event stream: the feed is a browser
  that stays connected.
* Of the console: clock, roster, threat, logistics, troop, audit and dead-letter
  panels, which draw what they are given; toasts; status updates.
* Drawing in the browser, geometry, templates, scripts, container set-up.
* Domain logic of the agents: constants and a score, a checksum.

## Plan

Done: `MissionControl` with `MissionBoard`, `GoAgentTasks`, `TSAgentTasks` and
`CommandTasks` with `TaskLifecycle`, `AgentAnswers` between agents and caller,
`Console` on `DashboardFeed`, `Inspector`, `JsonViewer`, `Holotable`; proofs of
the safety of all of them but `JsonViewer`, with their refinements.

Left, in this order:

1. `Registry`: rows, cards, ETags, warmup against refresh; search by skill.
   Question: does a remembered ETag belong to the stored card?
2. The cursors of `sse.py` in `DashboardFeed`, with reconnection, over an abstract
   feed that delivers each row once and in order.
3. The fleet's track and route, which loaders, status updates and a replay all
   set: do the two show the same phase?
4. `A2AClient`: retries, and the tasks they leave on an agent; the risk score of
   `tactical.go` against `docs/protocol.md` 344-349 over bounded inputs; the
   resilience demonstration's dead letters.
