# Haaukins in TLA+

Haaukins runs capture-the-flag events: a daemon creates events on request,
each event starts labs (networks of Docker containers and VirtualBox machines),
teams sign up on the event's web page, get a lab and submit flags. The code is
Go and leans on goroutines, channels and maps shared between them. This
directory models it in TLA+, checks the models with TLC and proves theorems
about them with TLAPS. `PROJECT.json` holds the lists a tool can read: components, runs,
the lines each definition models, hazards, findings, theorems.

## 1. Inventory

| Component | State it keeps | Operations | Talks to |
|---|---|---|---|
| Lab hub (`lab/hub.go`) | channels ready, labs, queue, deallocated, stop; map of started labs; WaitGroup | NewHub, Queue, Update, Suspend, Resume, Labs, Close | labs, event |
| Lab (`lab/lab.go`) | frontends, environment, tag | NewLab, Start, Stop, Restart, Suspend, Resume, ResetFrontends, AddChallenge, Close | environment, VirtualBox |
| Exercise environment (`exercise/`) | exercises by tag, machines, DNS and DHCP servers, network | Add, Start, Stop, Reset, Suspend, Resume, the ...ByTag forms, Close | Docker, VirtualBox |
| Event (`svcs/guacamole/event.go`) | labs by team, VPN addresses left, iptables rules, Guacamole users | Start, AssignLab, Suspend, Resume, DeleteTeam, hooks, Close, Finish | hub, team store, Guacamole, WireGuard |
| Team store and team (`store/team.go`, `store/event.go`) | maps teams, names, tokens; per team flags, disabled challenges, isLabAssigned, two kinds of locks | SaveTeam, DeleteTeam, VerifyFlag, AddChallenge, UpdatePass, UpdateTeamAccessed | database service |
| Web server (`svcs/amigo/*.go`) | sessions in cookies, websocket clients, list of challenges | sign-up, login, flag verification, reset, start and stop of challenges, lab requests; the loop that answers web sockets; the tables of challenges and teams | team store, hooks of the event, pages |
| Challenge dialog (`FlagChecker.vue`, `RunChallenge.vue`, `ResetChallenge.vue`, `ChallengeModal.vue`) | which buttons wait, messages | submit a flag, start or stop, reset | web server by fetch |
| Pages (`ChallegesPage.vue`, `Scoreboard.vue`, `TeamRow.vue`, `ChallengeCell.vue`, `TeamsPage.vue`) | web sockets, lists, rows, lines of the graph | connect, reconnect, reload, receive, sort and paint | web server by web socket |
| Lab panel (`VPNDropdown.vue`, `ResetFrontend.vue`) | list of VPN files, subnet, reset button | list, download, reset the frontend | web server by fetch |
| Guacamole client (`svcs/guacamole/guacamole.go`, `intercept.go`, `keylogger.go`) | admin token, users by team, key loggers | create, CreateUser, CreateRDPConn, proxy | Guacamole containers |
| Daemon: events (`daemon/event.go`, `eventpool.go`, `daemon.go`, `net.go`) | event pool (events and handlers), pool of VPN addresses | CreateEvent, booking, StopEvent, SuspendEvent, the schedulers, New after a restart | database service, event |
| Daemon: teams and challenges (`daemon/team.go`, `daemon/exercise.go`) | none of their own | DeleteTeam, suspend and restart of a team's lab, AddChallenge, ResetExercise, suspendTeams | event, hub, team store |
| Daemon: users (`daemon/user.go`, `auth.go`, `store/user.go`) | users, signup keys, their file | login, sign-up, invite, destroy, change of password | file |
| Drivers (`virtual/`, `network/`) | address pools, link bridge, library of machines | create, start, stop, suspend, link | Docker, VBoxManage, WireGuard service |
| Client (`client/`), configuration, logging, generated code, scripts | - | - | - |

What is hard here:

- **Concurrency without a common lock.** HTTP handlers, gRPC handlers,
  schedulers and the hub's goroutines share `ev.labs`, the hub's map of labs,
  the event pool's handlers and the address pools, mostly without one.
- **Check, then act** across remote calls: capacity and name at sign-up, the
  `isLabAssigned` flag, tags of new events, signup keys.
- **Partial failure.** Most errors are logged and the operation goes on or
  returns half done: `NewLab`, `AssignLab`, `SaveTeam`, `StopEvent`,
  `visitBookedEvents`.
- **Browsers far away.** Answers arrive late or never, sockets break and are
  opened again, and frames of several sockets overtake each other.
- **Crash and restart.** The daemon reloads running and suspended events from
  the database, and hands labs to their teams while already serving them. The
  labs of the daemon that died run on, unknown to the new one.
- **Counting at a limit.** Capacities are compared with `==`; pools loop or panic when empty.

The properties that make each part correct: the hub creates at most its
capacity of labs, keeps each lab in one place, refills, and destroys all of them
on Close (modelled); a lab belongs to one team, and the connection a team gets
leads to the lab the event acts on (modelled); the team store's maps agree
(modelled); pool and database agree on which events are open, also after a
restart, no event is forgotten with its labs running, and a booked event starts
(modelled); the list of disabled exercises says what the machines do, and an
exercise whose flags are all found is disabled (modelled); a page ends up with
data as new as the last success on it, paints cells under the right column and
ranks by score (modelled); the VPN files, the subnet and the lab of a team
belong together (modelled); a suspended lab resumes to the state it had
(not modelled); an account change survives a restart and
a signup key makes one user (not modelled). `PROJECT.json` lists under `hazards`
where the code puts each of them at risk.

## 2. Plan

Done: `Hub`, `LabPool`, `TeamLabs`; the pages and what stands behind them in
the web server (`ChallengeControls`, `PageFeed`, `ScoreTables`, `LabPanel`); the
life of events in the daemon (`Events`); proofs of every safety property the
passing runs check (section 5). In this order, left:

1. `TeamLocks`: the lock of a team and its recursive read locks.
2. `VPNAddresses` (the arithmetic of `CreateVPNConn`'s addresses) and the pools
   of the Docker driver, as operators checked against a reference definition.
3. `UserStore`: accounts, signup keys and their file.
4. `Environment`: all machines of a lab under suspend, resume and `AddChallenge`;
   the team activity scheduler, which suspends labs, joins it.
5. A composition of `Hub` and `TeamLabs`, in which the queue `TeamLabs` reads
   is the hub's.

## 3. The modules

### Hub (with LabPool, MCHub)

`Hub` models `lab/hub.go`, one action per step between two points at which
another goroutine can interfere: `SendReady`, `WorkerAdd`, `NewLab`,
`WorkerSend`/`WorkerStop` (the two cases of the worker's select),
`WorkerCloseLab`; `ReceiveLab`, `EnqueueLab`, `SkipQueue`, `DispatchStop`,
`WaitWorkers`, `DrainLab`, `CloseStarted`, `DispatchReturn`;
`ReceiveDeallocated`, `Requeue`; and for the users `Take`, `Update`, `Close`,
`IterateLabs` (Suspend, Resume and callers of Labs). A channel is a sequence
bounded by its capacity. Channels of capacity 0, the case of the default
`Available` of 2, deliver only by meeting, for which there are actions of their
own (`ReceiveLabDirect`, `TakeFromDispatcher`, `TakeFromRequeuer`). Labs are
numbered in order of creation; their random names are the constant operator
`TagOf`. Panics (a nil lab after a failed `NewLab`, a send on or a close of a
closed channel, two overlapping accesses to the map) set `panicked`, which
stops everything.

`LabPool` is the promise the hub makes to an event: labs are created up to the
capacity, each is held by at most one team, and after Close all are destroyed.
`RefinesPool` states that the hub implements it.

### TeamLabs (with MCTeamLabs)

`TeamLabs` models how teams get labs: `Signup`, `SaveTeam`, `Connect` and
`Reghook` for requests (`amigo.go`, `store/team.go`, the hook in `event.go`),
`BootTeams` and `BootNext` for `event.Start`, which `startEvent` runs in a
goroutine while the event is already in the pool, the steps of `AssignLab`
(`CreateUser`, `CreateRDPConn`, `CreateVPNConn`, `RecordLab`,
`CorrectedAssignedLab`) for all of them, and `DeleteTeam`, `RestartLab`,
`FindTeam`, `EraseTeam` for the operator (`daemon/team.go`). The hub is reduced
to a queue of labs (`OfferLab`, `Requeue`). The event's `OnlyVPN` setting is
chosen at the start and decides which steps of `AssignLab` are taken.

Guacamole is external. A call may be carried out or not, and `authAction` may
return nil or an error, in any combination: it repeats a request whose answer
was lost, and after the third repetition it no longer looks at the status, so a
refusal can be returned as success. The variable `swallowed` remembers that
this has happened. What is assumed of the server is that it keeps one user per
name and one connection per connection name.

The teams loaded at the start may share a name (`Doubled`): DeleteTeam erases
a team from memory also when the database keeps its row, and the next team of
that name makes a second one.

Errors of the database and of WireGuard are choices of the actions that call
them. Data left out: passwords, tokens, host lists, VPN configuration texts.

### Events (with MCEvents)

`Events` models the daemon's events: `CreateEvent`, `BookEvent`, `StopEvent`
and `SuspendEvent` of operators, `VisitBookedEvents` and `CloseEvents` of the
schedulers, and `New` after a restart, on the event pool (`events`, `handlers`),
the pool of VPN addresses (`ips`) and the table of events (`db`, external: one
status per tag, "due" for a booked row whose time has come). Each call is a
goroutine that keeps its place and what it holds in `job`, and moves in the
steps between which others can interfere: for CreateEvent the check of the
database, the address, the check of the pool, the row, the hub, the pool; for
StopEvent and the closer the lookup, the status, RemoveEvent, Close, Finish.
`Die` stops the daemon at any step and leaves only `db` and the labs; panics
(closing an event twice, two accesses to the map of handlers at once) do the
same. `live` has the events whose hub was started and not closed (`NewHub`),
`orphans` those of them that no goroutine can reach any more: the labs of a
daemon that died, which are containers and virtual machines and outlive it, and
the hub of an event whose `NewEvent` failed after `NewHub`. Only the clean-up
scripts remove them, which an operator may run while the daemon is down
(`CleanUp`). `IPPool.Get` holds the lock of the pool while it looks for an
address; when none is left the goroutine stays there (`GetVPNIPStuck`), and
nobody else can get or release one (`PoolFree`) until the daemon dies.
`disturbed` is a history variable: the tags on which two operations overlapped,
or a failure left work half done, since the daemon was started.

### ChallengeControls (with MCChallengeControls)

The challenge dialog in the browsers of one team, and the handlers for flags,
start and stop, and reset. A dialog that closes destroys its buttons while
their requests go on, and the next one has new buttons (`OpenModal`): one member
can so have several requests for an exercise under way. `secret` says whether
the event has a recaptcha key, without which no goroutine follows a flag. A
request has a place in the server, a result, and an
answer that is read, pending or lost. The server's side follows the code: the
toggle of the list of disabled challenges before the hook, its undoing when the
hook fails, the goroutine that looks after each flag whether the exercise is
solved, the check and the toggle of a reset, and the double unlock in VerifyFlag
when the database fails. The machines are external: an exercise runs, does not,
or has lost its machines in a reset that failed half way.

### PageFeed (with MCPageFeed)

How a page gets its data: sockets of the page (`ConnectToWS`, `Reconnect`,
`ReceiveMsg`), `handleConns` and the pumps, the loop of `RunFrontendData` with
its three channels, and the success timers of the dialog that make the
challenges page open one more socket; a dialog that closes before its timer
fires takes it along (`CloseDialog`). Messages are reduced to the version of
the data they were built from; connections break at any time.

### ScoreTables (with MCScoreTables)

What the server computes for the pages (`initChallenges`, `initTeams`) and what
the pages make of it, as operators on sequences: `Columns`, `Cells`, `Header`,
ranking, the lines of the graph, the grouping and sorting of the challenges
page. A loop of the code is a recursive function of how far it has come
(`CategoryPrefixes`, `GroupPrefixes`, `RowPrefixes`, `PrefixSums`), so that its
rounds can be reasoned about. The stable sorts of Go and of the browser are one
operator, `StableSort`: the element that comes k-th is the one with k-1 before
it, by key and then by place. The state machine feeds the operators all
histories of flags and of batches of any size: `fd.challenges` has `size`
entries, known by their place, each of the challenge `TagOf` gives it. A
challenge can be listed more than once, because AddChallenge looks for its tag
among the challenges the event was created with and never adds to them; such a
challenge has several columns and counts once for each. Flags may share a date:
the page compares milliseconds, and dates restored from the database have whole
seconds or less. The properties compare the results with definitions that speak
only of the dates in the message shown; `PointsIn` counts points as a set has
elements and does not add them up.

### LabPanel (with MCLabPanel)

The list of VPN configurations, the subnet and the reset button of one page.
The click on the list is a request that may assign the lab, whose subnet, VPN
files and lab are written one by one while the other requests read them
(`AssignLab`, one action per write; events without VPN have only the lab). The
other callers of `AssignLab` are there as well: `CallHook` for `event.Start` and
the sign-up, which do not ask whether the team has a lab, and `GuacConnection`,
which does.

In all modules, definitions introduced by "Mutation:" are wrong variants, kept to show that a
property notices them; no specification uses them.

## 4. Runs

| Run | Bounds | Shows |
|---|---|---|
| `hub_safety` (MCHub.cfg) | capacity 4, buffer 3 | `TypeOK`, `CapacityRespected`, `DemandBound`, `SingleHolder`, `NoLabLost`, `AllClosedAtEnd`, `RefinesPool` |
| `hub_live` (MCHubLive.cfg) | capacity 3, buffer 2 (channels without room) | `CapacityRespected`, `DemandBound`, and under fairness `ShutdownCompletes`, `Replenished` |
| `hub_wait` (MCHubWait.cfg) | capacity 3 | counterexample: `wg.Wait` returns while a worker is about to create a lab |
| `hub_single` (MCHubSingle.cfg) | capacity 1 | counterexample: an event of capacity 1 gets more than one lab |
| `team_labs` (MCTeamLabs.cfg) | 3 teams, 2 names, 2 labs, a request, Start, one deletion, all modes | `TypeOK`, `ExclusiveLabs`, `ConnectionMatches`, `LabKept` |
| `team_delete` (MCTeamLabsDelete.cfg) | 3 teams of one name, up to 2 of them loaded, 2 labs, a request, Start, two deletions | `NamesMatchTeams`, `ExclusiveLabs` |
| `signup_capacity` (MCTeamLabsCapacity.cfg) | capacity 1, two sign-ups | counterexample: more teams than the capacity |
| `events` (MCEvents.cfg) | one tag with VPN, an operator, both schedulers, 2 addresses, 2 events at a time, 1 failed call, any number of crashes | `PoolMatchesStore`, `NoneForgotten`, under fairness `BookedStarted` |
| `challenge_controls` (MCChallengeControls.cfg) | 2 members, an exercise with 2 flags, 2 requests at a time, 1 lost answer | `TypeOK`, `ListMatchesMachines`, `OnePerButton`, under fairness `ButtonFreed`, `SolvedDisabled` |
| `page_feed` (MCPageFeed.cfg) | 1 change, 1 reload, 1 broken connection, 1 batch | `TypeOK`, `ConnectionPerReload`, `UpdateAfterOneMore`, `NoStepBack`, under fairness `ReloadShown` |
| `score_tables` (MCScoreTables.cfg) | 2 teams, 4 entries of 3 challenges in 2 categories, added in batches of any size, 3 flags | `ColumnsAligned`, `RankedByScore`, `GraphEndsAtScore`, `GroupsAgree` |
| `lab_panel` (MCLabPanel.cfg) | 2 configurations, 2 clicks at a time, a Guacamole request and an `event.Start` or sign-up, 2 labs, all modes | `TypeOK`, `ListedOnce`, `OneLab`, `ConfThere`, under fairness `ResetFreed` |

*Why these bounds are enough.* In the hub the count of labs matters near the
capacity and near the buffer: capacity 4 with buffer 3 leaves one slot per
channel, lets both workers run ahead, be stopped by the capacity, and lets labs
be taken and given back several times; capacity 3 with buffer 2 has the
channels without room. In `TeamLabs` every race is between two goroutines that
work for one team or one lab: a request against Start, a request against a
deletion, two deletions. Two labs and two or three teams let a lab go from one
team to another, a name come back, and the queue run empty. Requests,
deletions and names are symmetric, and only safety is checked with symmetry.
In `Events` tags meet only in the pool of addresses, so one tag has every race
between operations on an event; one operator, the visitor and the closer make
three goroutines at once, two event numbers allow an event to replace another
or to run beside an orphan, `CleanUp` gives the numbers of orphans back,
and a failure or a crash can hit any step. The events that get each other's
address are outside this instance. In `ChallengeControls` races are between two
requests for one exercise, and two flags are needed for the last two to come at
once. In `PageFeed` a reload and a reconnect give three sockets, enough for a
frame to be overtaken and for a batch to come between two registrations. In
`ScoreTables` two entries of a category with equal points, two categories
and batches that add to both tell all orders of sorting apart; teams are
symmetric. In `LabPanel` two clicks,
or a click and another caller of `AssignLab`, are the race, and a second lab is
what the loser of it or a second assignment takes.
`CHECK_DEADLOCK FALSE` is used where the system may come to rest: the hub when
it is closed or full, the event when all is assigned and the bounds are used up,
a page when nobody clicks and nothing is on its way, and a team whose flags are all found.

*Fairness* (`FairSpec` of `Hub`): weak fairness for each worker, the
dispatcher and the requeuing goroutine while the daemon lives. The Go scheduler
runs every goroutine that can run, and `NewLab` returns. Nothing is assumed of
teams and operators: they need not take labs, give them back, or close.

`Events`: the visitor's goroutine runs and gets its ticks, and start times come;
operators, their calls, the closer and restarts are not fair, and
`BookedStarted` speaks only of behaviours in which the daemon stays up.
`ChallengeControls`, `PageFeed`, `LabPanel`: the server's goroutines run to
their end (the calls to machines return), timers of the browser fire, and an
answer or frame that is not lost is read; connections are not fair, users click
when they like. A request whose answer got lost is excepted by name in
`ButtonFreed` and `ResetFreed`: the pages have no time-out.

*What the counterexamples mean* is told in `findings`: the WaitGroup is raised
by the worker itself after it received its token; the equality in the
dispatcher misses a capacity of 1; the sign-up handler compares the number of
teams, again with an equality, before the team is saved.

Several properties carry exceptions, because the code does not keep them
without. Those of `Events` except the tags in `disturbed`: two CreateEvent calls
for one tag both pass the checks, StopEvent and the closer can close one event
twice, Finish renames the row of a tag that was created again, and a visit that
fails after the event was started starts it once more. What remains, and is
checked, is that operations that do not overlap are sound at every crash point
and that a restart repairs in pool and database whatever overlap left behind.
`NoneForgotten` does not speak of `orphans`: nothing in the code closes them.
`BookedStarted` excepts a daemon with a goroutine stuck in `IPPool.Get`.
`ListMatchesMachines`
excepts exercises on which operations overlapped, `SolvedDisabled` events
without a recaptcha key (`amigo.go` starts the goroutine only with one), `ListedOnce` overlapping
clicks, `OneLab` overlapping assignments, and for what the page already shows
and the user has downloaded an `event.Start` or a sign-up that gives the team a
lab when it has one (`event.go` line 424, `amigo.go` line 723): the team's own
records then agree on the new lab, and the page must be loaded and the files
downloaded anew. `ReloadShown` speaks of the successes
whose timer fired: a member who closes the dialog within the second gets no
reload.

Properties of `TeamLabs` carry exceptions of their own. `NamesMatchTeams` does
not promise that a team is found by its name when the database held the name
twice: `NewEventStore` keeps the entry of the last row, and deleting either team
frees the name. That a name leads to a stored team of that name holds always.
`ExclusiveLabs` excepts a team whose deletion is under way, because the lab
goes back to the hub before the team is erased, and histories in which the lab
of one team was handed back twice, because entries of `ev.labs` are never
removed and DeleteTeam of a team that is gone still finds one.
`ConnectionMatches` and `LabKept` hold with Guacamole only, whose refusal of a
second user with the same name serves as the lock that AssignLab does not have,
and only while no refusal was reported as success. In VPN-only events two
requests of a team can leave it with the VPN of one lab and the resets of
another.

## 5. Proofs

The theorems hold for every value of the constants that the named assumptions
allow. Each rests on an inductive invariant, which TLC checked before it was
proved; a `...Step` lemma of each module shows, action by action, that a step
keeps it.

`Channels` holds what the proofs about the hub and about teams share: what a
send and a receive do to a sequence, to the set of labs in it, and to the fact
that no lab is in it twice.

`HubProofs`, for every capacity and buffer:

- `TypeSafe`: the type invariant. Inductive with `Hands`: a worker or the
  dispatcher holds a lab exactly at the steps at which it should, and the
  WaitGroup counts the workers between Add and Done.
- `CapacitySafe`, assuming `Cap >= 2` and distinct names (`UniqueTags`):
  `CapacityRespected`. The dispatcher knows only the size of its map, so the
  inductive invariant `CountInv` counts the labs outside it: `Fresh` says that
  a lab in a worker's hands or in the channel is in no other place and not in
  the map, and `Count` bounds the labs created or pending by those registered
  plus `Slack`, the two tokens NewHub hands out less the one the dispatcher has
  yet to reissue. The assumption on the capacity is needed (`hub_single`), and so is that on the
  names: an overwritten entry makes the map too small.
- `ShutdownSafe`, from the same assumptions: `AllClosedAtEnd`. `CloseInv` says that every lab
  is closed, registered, in the channel or in a worker's hands, and that
  the last three are empty or closed once the dispatcher has returned.
- `HoldersSingle` (`SingleHolder`) and `LabsKept` (`NoLabLost`), for every
  capacity, buffer and naming. `HolderInv` names the seven places a lab can be
  in: it is in at most one (`Excl`), once there (`Inj`), and in one of them
  until Close (`Kept`). Every action is then a lab moving from one place to
  another, dropped after Close, or created.
- `DemandBounded` (`DemandBound`), assuming `Cap >= 2` and `UniqueTags`: the
  labs ahead of demand are those no team has. `Flow` says where the registered
  ones are until Close; with `Count` it leaves what `Buf` bounds, since the
  queue's capacity is two less than the buffer.
- `HubRefinesPool` (`RefinesPool`), from the same assumptions: the abstract
  capacity is kept by `CapacitySafe`, the labs in teams' hands differ by
  `HolderInv`, and each action maps to a step of `LabPool` or to a stutter.

`TeamLabsProofs`, for all sets of names, requests and deletions:

- `NamesConsistent`: `NamesMatchTeams`, whatever rows the database held.
  Inductive with the fact that a sign-up about to be saved holds a team that
  exists.
- `TeamLabsTypes` (`TypeOK`), inductive with `Hands`: a goroutine that works for
  a team or holds a lab has one that exists.
- `ConnectionsMatch` (`ConnectionMatches`) and the action property `RecordsKept`
  (`LabKept`). `Conn` says why AssignLab needs no lock of its own while
  Guacamole is believed rightly: only one call of a team is past the creation
  of its user, what it has made leads to the lab in its hands, and once a lab
  is recorded no call of that team is on its way to record another.
- `LabsExclusive` (`ExclusiveLabs`). `LabInv`: a lab is in the queue, on its way
  back, in the hands of one goroutine, or claimed by one team that has not
  given a lab back. `OwnInv` is needed for deletions: a team that is signing up is known
  to nobody else, so a team whose lab was given back is gone for good or still
  being deleted, and never claims again.

`EventsProofs`, for any number of operators, tags, addresses and failures:

- `PoolAndStoreAgree` (`PoolMatchesStore`) and `EventsKept` (`NoneForgotten`).
  In `EventsInv` a tag that is not disturbed has at most one goroutine at work
  on it, and the place of that goroutine tells what pool and database say of
  the tag (`Fits`); with none at work they agree (`Settled`). While `New` loads,
  the same holds of the tags it has done; a crash at any place leaves the
  database in a state from which New gets there. `OrphansApart`
  is carried along: no goroutine and no entry of the pool refers to an orphan,
  so what `NoneForgotten` excepts is exactly what the daemon cannot reach.

`ChallengeControlsProofs`, for any number of pages, challenges and requests:

- `ControlsTypes` (`TypeOK`) and `ButtonsOnce` (`OnePerButton`). `ButtonInv`: a
  request whose answer is awaited belongs to the dialog shown, has disabled its
  button, and is the only one of it; a button is disabled for such a request or
  for one whose answer got lost.
- `ListTells` (`ListMatchesMachines`). `MachineInv`: on an exercise that is not
  disturbed one operation at most is under way, and `At` says for each of its
  places what the list and the machines are like there, half way included: a
  start has left the list before the machines run, a stop entered it before
  they halt, and a reset has none at all for a while.

`PageFeedProofs`, for any number of changes, reloads, broken connections and
any finite set of batches:

- `FeedTypes` (`TypeOK`), inductive with `FeedInv`: the loop serves each
  registered client once, is busy with the last of them, and who has not
  registered has been sent nothing.
- `ConnectionsKept` (`ConnectionPerReload`): inductive with the types.
- `BatchesTaken` (`UpdateAfterOneMore`). `UpdateInv` counts: since a batch was
  offered, each registration but the one under way was followed by the loop
  taking another batch.
- `StepsBack` (`NoStepBack`). `OrderInv`: of two messages of a kind the one that
  answers the later registration is not older, and neither is it older than
  what an earlier one has put on the page. It needs the fact that a client gets
  its scoreboard once, and before the next client is taken.

`LabPanelProofs`, for any number of configurations, clicks, calls of
`event.Start` and the sign-up, and labs:

- `PanelTypes` (`TypeOK`), `ConfigurationsThere` (`ConfThere`),
  `LabsBelongTogether` (`OneLab`) and `NoDuplicates` (`ListedOnce`), from
  `PanelInv`: configurations are set before anything lets a request read them;
  without overlap the list is empty until the one click is answered; without a
  race subnet and configurations are those of the one caller that assigns, who
  still finds the flag false if it looked at it.

`ScoreTablesProofs`, for any number of teams, every list of challenges
(repeated ones included), every assignment of categories and points, and every
order in which the server lists the teams:

- `AlignedColumns` (`ColumnsAligned`), `RankingByScore` (`RankedByScore`),
  `GraphAtScore` (`GraphEndsAtScore`) and `AgreeingGroups` (`GroupsAgree`), from
  `TablesInv`: a window shows what its page makes of the dates and entries of
  one message (`ShowsScoreboard`, `ShowsTeams`, `ShowsChallenges`).
- What the loops compute is proved by `PrefixInduction`: a set of positions that
  holds 0 and with each position the next holds them all. It is stated for sets
  and not for predicates, and comes from the least element of the complement.
  `PrefixRecursion` gives a function along 0..n that obeys the equations of a
  loop, so that the recursive definitions are equal to their right-hand sides.
- `SortingFacts`: `Sorting` is a permutation that puts keys in order and keeps
  equal ones in place. `ListsOnce` says that a sequence has each element of a
  set once; sorting, picking and joining groups keep it, so the columns list
  the entries of the event once (`HeaderFacts`), a row sums the points of
  the entries solved (`SumFacts`, `RowFacts`), and the points of the graph
  are the entries solved in the order of their dates (`LineFacts`).
- `GroupsFacts`: after i challenges the groups of the page are the server's
  categories with the challenges picked from the first i, in order
  (`GroupsAt`).

The assumptions are those the modules declare, which TLC evaluates in the runs,
and the hypotheses named in the theorems: types of the bounds and capacities
(`CapAssumption`, `BufferAssumption`, `BoundsAssumption`, `ModesAssumption`,
`BootAssumption`, `ParentAssumption`, `PointsAssumption`), that the names of different kinds of
goroutines differ (`ProcAssumption`), that finitely many batches are added
to an event (`UpdatesAssumption`), that teams are finitely many
(`TeamsAssumption`), and that an event has at least one challenge
(`ListAssumption`). The conditions the properties themselves
carry (section 4) are conditions of the theorems too.

Only model-checked: the liveness properties (`ShutdownCompletes`, `Replenished`,
`BookedStarted`, `ButtonFreed`, `SolvedDisabled`, `ReloadShown`, `ResetFreed`),
because TLAPS does not reason about fairness and ENABLED. The three properties
that the code violates (`hub_wait`, `hub_single`, `signup_capacity`) have their
counterexamples instead.

## 6. Not modelled

Some weak places are in the models as they are in the code, with no property
about them, because nothing in the repository promises otherwise: `NewLab`
failing and the overlapping accesses to the hub's map, which end the daemon
(`NewLabFails`, `RegisterRace`); equal names of labs, excluded by `UniqueTags`; two deletions of one team that cross (`EraseMissing`);
labs dropped by a failed
`AssignLab` (`Return`) and by an `event.Start` that gives up (`BootNext`);
VerifyFlag's double unlock (`VerifyFlagFatal`); the expired context with which
`New` suspends events (`BootSuspend`), and a stored event that cannot be
created and keeps the daemon down (`BootFails`). Others are abstracted away:
`getParentChallengeTag`, which cuts two characters and so gives the tenth flag
of an exercise another parent (`ParentOf`); the mark "disabled" that
`initChallenges` derives from all teams; events without challenges.

Open, see the plan: the locks of a team, the VPN addresses of an event and the
drivers' address pools, users and signup keys, suspending and resuming a whole
lab, the team activity scheduler, `AddChallenge` inside the labs. Within
`Events`: rights and quotas of users, announcements, listings, and the
arithmetic that decides whether a booking fits. Within the pages: texts, colours, icons and the layout of the graph.

Left out for good: Guacamole's byte streams and the key loggers, templates and
styles, the bundled third-party scripts (`vendors.js`, `fa.js`) and the menu
effects of `amigo.js`, the build configuration of the pages, configuration,
logging, the command line client (one request per command), generated gRPC
code, mock servers, and the scripts but for what the two clean-up scripts do to
labs (`CleanUp` of `Events`).
