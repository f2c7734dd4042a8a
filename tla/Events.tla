------------------------------- MODULE Events -------------------------------
(***************************************************************************)
(* The events of the daemon: CreateEvent, bookEvent, StopEvent,            *)
(* SuspendEvent and the scheduled visitBookedEvents and closeEvents        *)
(* (daemon/event.go) on the event pool (eventpool.go), the pool of VPN     *)
(* addresses (net.go) and the table of events in the database, with crash  *)
(* and restart of the daemon (daemon.go).                                  *)
(*                                                                         *)
(* The database is external: a row per tag with a status, where a closed   *)
(* row gets another tag in the end.  "due" is a booked row whose start     *)
(* time has passed.  An event is a number, given again once nobody refers  *)
(* to it and its labs are gone.  Labs are containers and virtual machines, *)
(* which outlive the daemon.  Rights and quotas of users, and the checks   *)
(* of a request that fail before anything is written, are left out: they   *)
(* change nothing.                                                         *)
(***************************************************************************)
EXTENDS Integers, FiniteSets

CONSTANTS
    Clients,    \* calls of operators under way at a time
    Tags,
    VpnTags,    \* tags of the events that have VPN
    Addrs,      \* what IPPool.Get can draw, 510 in the code
    Visitor,    \* the goroutine of visitBookedEvents
    MaxEvents,  \* bound: events that somebody refers to or that have labs
    MaxFails    \* bound: failures of remote calls

Procs == Clients \cup {Visitor} \cup Tags   \* the closer of tag t is t
Ids == 1..MaxEvents
None == 0

ASSUME ProcAssumption == /\ Clients \cap Tags = {}
                         /\ Visitor \notin Clients \cup Tags
                         /\ None \notin Tags
ASSUME BoundsAssumption == MaxEvents \in Nat /\ MaxFails \in Nat

Open == {"running", "suspended"}
Booked == {"booked", "due"}

VARIABLES
    db,        \* status of the row of each tag
    events, handlers,  \* eventPool
    conf,      \* tag and VPN address of each event
    live,      \* events whose hub was started and not closed
    orphans,   \* those that nobody can close: the creation failed after the
               \* hub was started, or the daemon died
    ips,       \* IPPool.ips
    job,       \* where each goroutine is, and with what
    todo,      \* tags visitBookedEvents has listed and not reached
    boot,      \* "down", "load" (in New), "up"
    bootList, bootSuspended,   \* what New has still to do
    disturbed, \* history: tags with overlapping operations, or a failure
               \* that left work half done, since the daemon was started
    fails

poolVars == <<events, handlers>>
eventVars == <<conf, live, orphans>>
bootVars == <<boot, bootList, bootSuspended>>
vars == <<db, events, handlers, conf, live, orphans, ips, job, todo, boot, bootList,
          bootSuspended, disturbed, fails>>

Idle == [at |-> "idle", tag |-> None, ev |-> None, addr |-> None]
NoConf == [tag |-> None, addr |-> None]

Tag(p) == job[p].tag
Ev(p) == job[p].ev
At(p, place) == boot = "up" /\ job[p].at = place
Busy(t) == {p \in Procs : job[p].tag = t} \cup (IF t \in todo THEN {Visitor} ELSE {})

Goto(p, place) == job' = [job EXCEPT ![p].at = place]
Return(p) == job' = [job EXCEPT ![p] = Idle]
Disturb(t) == disturbed' = disturbed \cup {t}

(* p begins an operation on t. *)
Begin(p, t, place) ==
    /\ boot = "up" /\ job[p] = Idle
    /\ job' = [job EXCEPT ![p] = [Idle EXCEPT !.at = place, !.tag = t]]
    /\ disturbed' = IF Busy(t) = {} THEN disturbed ELSE disturbed \cup {t}

Fail == fails < MaxFails /\ fails' = fails + 1

(* SetEventStatus: an update of the row, if there is one. *)
SetEventStatus(t, status) ==
    db' = IF db[t] = "none" THEN db ELSE [db EXCEPT ![t] = status]

Init ==
    /\ db = [t \in Tags |-> "none"]
    /\ events = [t \in Tags |-> None]
    /\ handlers = [t \in Tags |-> "none"]
    /\ conf = [e \in Ids |-> NoConf]
    /\ live = {} /\ orphans = {}
    /\ ips = {}
    /\ job = [p \in Procs |-> Idle]
    /\ todo = {}
    /\ boot = "up"
    /\ bootList = {} /\ bootSuspended = {}
    /\ disturbed = {}
    /\ fails = 0

-----------------------------------------------------------------------------
(* Crash and restart. *)

(* The daemon dies, or panics: what is left are the database and the labs, *)
(* which the next daemon does not know of.                                 *)
Crash ==
    /\ orphans' = live'
    /\ conf' = [e \in Ids |-> NoConf]
    /\ events' = [t \in Tags |-> None]
    /\ handlers' = [t \in Tags |-> "none"]
    /\ ips' = {}
    /\ job' = [p \in Procs |-> Idle]
    /\ todo' = {}
    /\ boot' = "down"
    /\ bootList' = {} /\ bootSuspended' = {}
    /\ disturbed' = {}

Die ==
    /\ boot # "down"
    /\ UNCHANGED <<db, live, fails>>
    /\ Crash

(* Before a restart the operator may remove what is left of the labs. *)
CleanUp ==
    /\ boot = "down"
    /\ live' = {} /\ orphans' = {}
    /\ UNCHANGED <<db, poolVars, conf, ips, job, todo, bootVars, disturbed, fails>>

(* Mutation: only the running events are read. *)
NewRunning ==
    /\ boot = "down"
    /\ boot' = "load"
    /\ bootList' = {t \in Tags : db[t] = "running"}
    /\ bootSuspended' = {}
    /\ UNCHANGED <<db, poolVars, eventVars, ips, job, todo, disturbed, fails>>

(* New reads the running and the suspended events, *)
New ==
    /\ boot = "down"
    /\ boot' = "load"
    /\ bootList' = {t \in Tags : db[t] \in Open}
    /\ bootSuspended' = {t \in Tags : db[t] = "suspended"}
    /\ UNCHANGED <<db, poolVars, eventVars, ips, job, todo, disturbed, fails>>

(* An event that nobody refers to and that has no labs. *)
Fresh(e) == e \notin live /\ \A p \in Procs : Ev(p) # e /\ \A t \in Tags : events[t] # e

(* NewHub starts the labs, NewEvent puts the event together. *)
NewHub(e) ==
    /\ Fresh(e) /\ \A x \in Ids : Fresh(x) => e <= x
    /\ live' = live \cup {e}

NewEvent(t, a) ==
    \E e \in Ids : NewHub(e) /\ conf' = [conf EXCEPT ![e] = [tag |-> t, addr |-> a]]

(* IPPool.Get draws until it has an address that is not taken, with the    *)
(* lock of the pool: when none is left it does so for ever, and nobody     *)
(* else can get or release one.                                            *)
PoolFree == \A p \in Procs : job[p].at # "stuck"
Drawn(t, a) == IF t \in VpnTags THEN PoolFree /\ a \in Addrs \ ips ELSE a = None

(* creates each of them, a suspended one as running, *)
BootLoad(t, a) ==
    /\ boot = "load" /\ t \in bootList
    /\ Drawn(t, a)
    /\ ips' = ips \cup ({a} \ {None})
    /\ db' = [db EXCEPT ![t] = "running"]
    /\ NewEvent(t, a)
    /\ \E e \in live' \ live : events' = [events EXCEPT ![t] = e]
    /\ handlers' = [handlers EXCEPT ![t] = "event"]
    /\ bootList' = bootList \ {t}
    /\ UNCHANGED <<orphans, job, todo, boot, bootSuspended, disturbed, fails>>

(* gives up when one cannot be created, before its hub was started or      *)
(* after,                                                                  *)
BootFails ==
    /\ boot = "load" /\ bootList # {}
    /\ Fail
    /\ UNCHANGED live \/ \E e \in Ids : NewHub(e)
    /\ Crash
    /\ UNCHANGED db

(* and then suspends those that were, unless the context has expired, with *)
(* the handlers as they are.                                               *)
BootSuspend(t) ==
    /\ boot = "load" /\ bootList = {} /\ t \in bootSuspended
    /\ db' \in {db, [db EXCEPT ![t] = "suspended"]}
    /\ bootSuspended' = bootSuspended \ {t}
    /\ UNCHANGED <<poolVars, eventVars, ips, job, todo, boot, bootList, disturbed,
                   fails>>

BootDone ==
    /\ boot = "load" /\ bootList = {} /\ bootSuspended = {}
    /\ boot' = "up"
    /\ UNCHANGED <<db, poolVars, eventVars, ips, job, todo, bootList, bootSuspended,
                   disturbed, fails>>

-----------------------------------------------------------------------------
(* Creating events. *)

(* CreateEvent, when IsEventExists says no. *)
CreateEvent(p, t) ==
    /\ db[t] \in {"none", "closed"}
    /\ \E place \in {"book", "addr"} : Begin(p, t, place)
    /\ UNCHANGED <<db, poolVars, eventVars, ips, todo, bootVars, fails>>

(* bookEvent: it writes the row, or finds no room and says nothing. *)
BookEvent(p) ==
    /\ At(p, "book")
    /\ db' \in {db, [db EXCEPT ![Tag(p)] = "booked"]}
    /\ Return(p)
    /\ UNCHANGED <<poolVars, eventVars, ips, todo, bootVars, disturbed, fails>>

GetVPNIP(p, a) ==
    /\ At(p, "addr")
    /\ Drawn(Tag(p), a)
    /\ ips' = ips \cup ({a} \ {None})
    /\ job' = [job EXCEPT ![p].addr = a,
                          ![p].at = IF p = Visitor THEN "hub" ELSE "check"]
    /\ UNCHANGED <<db, poolVars, eventVars, todo, bootVars, disturbed, fails>>

GetVPNIPStuck(p) ==
    /\ At(p, "addr") /\ Tag(p) \in VpnTags
    /\ PoolFree /\ Addrs \subseteq ips
    /\ Goto(p, "stuck")
    /\ UNCHANGED <<db, poolVars, eventVars, ips, todo, bootVars, disturbed, fails>>

(* The pool has the tag: the address is not given back. *)
CheckPool(p) ==
    /\ At(p, "check")
    /\ IF events[Tag(p)] = None THEN Goto(p, "row") ELSE Return(p)
    /\ UNCHANGED <<db, poolVars, eventVars, ips, todo, bootVars, disturbed, fails>>

(* CreateEventFromConfig: the row, *)
AddRow(p) ==
    /\ At(p, "row")
    /\ db' = [db EXCEPT ![Tag(p)] = "running"]
    /\ Goto(p, "hub")
    /\ UNCHANGED <<poolVars, eventVars, ips, todo, bootVars, disturbed, fails>>

AddRowFails(p) ==
    /\ At(p, "row")
    /\ Fail
    /\ Return(p)
    /\ UNCHANGED <<db, poolVars, eventVars, ips, todo, bootVars, disturbed>>

(* and, as for booked events, CreateEventFromEventDB. *)
CreateFromDB(p) ==
    /\ At(p, "hub")
    /\ NewEvent(Tag(p), job[p].addr)
    /\ \E e \in live' \ live :
         job' = [job EXCEPT ![p].ev = e, ![p].addr = None, ![p].at = "pool"]
    /\ UNCHANGED <<db, poolVars, orphans, ips, todo, bootVars, disturbed, fails>>

(* Mutation: the failure ends the goroutine of visitBookedEvents. *)
CreateFromDBEnds(p) ==
    /\ At(p, "hub")
    /\ Fail
    /\ IF p = Visitor THEN Goto(p, "ended") /\ todo' = {} /\ UNCHANGED disturbed
                      ELSE Return(p) /\ Disturb(Tag(p)) /\ UNCHANGED todo
    /\ UNCHANGED <<db, poolVars, eventVars, ips, bootVars>>

(* The row of CreateEvent stays; visitBookedEvents gives up its visit.     *)
(* When it is NewEvent that fails, NewHub has started the hub, which       *)
(* nobody gets.                                                            *)
CreateFromDBFails(p) ==
    /\ At(p, "hub")
    /\ Fail
    /\ Return(p)
    /\ \/ \E e \in Ids : NewHub(e) /\ orphans' = orphans \cup {e}
       \/ UNCHANGED <<live, orphans>>
    /\ IF p = Visitor THEN todo' = {} /\ UNCHANGED disturbed
                      ELSE Disturb(Tag(p)) /\ UNCHANGED todo
    /\ UNCHANGED <<db, poolVars, conf, ips, bootVars>>

(* startEvent: AddEvent replaces what the pool has under the tag. *)
StartEvent(p) ==
    /\ At(p, "pool")
    /\ events' = [events EXCEPT ![Tag(p)] = Ev(p)]
    /\ handlers' = [handlers EXCEPT ![Tag(p)] = "event"]
    /\ IF p = Visitor THEN job' = [job EXCEPT ![p].ev = None, ![p].at = "status"]
                      ELSE Return(p)
    /\ UNCHANGED <<db, eventVars, ips, todo, bootVars, disturbed, fails>>

-----------------------------------------------------------------------------
(* Booked events. *)

StartTimePasses(t) ==
    /\ db[t] = "booked"
    /\ db' = [db EXCEPT ![t] = "due"]
    /\ UNCHANGED <<poolVars, eventVars, ips, job, todo, bootVars, disturbed, fails>>

(* visitBookedEvents lists the rows that are due, *)
VisitBookedEvents ==
    LET due == {t \in Tags : db[t] = "due"} IN
    /\ boot = "up" /\ job[Visitor] = Idle /\ todo = {}
    /\ due # {}
    /\ todo' = due
    /\ disturbed' = disturbed \cup {t \in due : Busy(t) # {}}
    /\ UNCHANGED <<db, poolVars, eventVars, ips, job, bootVars, fails>>

(* takes one after the other as it was listed, *)
VisitNext(t) ==
    /\ boot = "up" /\ job[Visitor] = Idle /\ t \in todo
    /\ job' = [job EXCEPT ![Visitor] = [Idle EXCEPT !.at = "addr", !.tag = t]]
    /\ todo' = todo \ {t}
    /\ UNCHANGED <<db, poolVars, eventVars, ips, bootVars, disturbed, fails>>

(* and sets the status of the started event, *)
VisitStatus ==
    /\ At(Visitor, "status")
    /\ SetEventStatus(Tag(Visitor), "running")
    /\ Return(Visitor)
    /\ UNCHANGED <<poolVars, eventVars, ips, todo, bootVars, disturbed, fails>>

(* or gives up: at the next visit the event is started once more. *)
VisitStatusFails ==
    /\ At(Visitor, "status")
    /\ Fail
    /\ Disturb(Tag(Visitor))
    /\ Return(Visitor)
    /\ todo' = {}
    /\ UNCHANGED <<db, poolVars, eventVars, ips, bootVars>>

-----------------------------------------------------------------------------
(* Stopping events. *)

(* StopEvent looks up the status. *)
StopEvent(p, t) ==
    /\ db[t] \in Open \cup Booked
    /\ Begin(p, t, IF db[t] \in Booked THEN "drop" ELSE "get")
    /\ UNCHANGED <<db, poolVars, eventVars, ips, todo, bootVars, fails>>

DropEvent(p) ==
    /\ At(p, "drop")
    /\ db' = IF db[Tag(p)] \in Booked THEN [db EXCEPT ![Tag(p)] = "none"] ELSE db
    /\ Return(p)
    /\ UNCHANGED <<poolVars, eventVars, ips, todo, bootVars, disturbed, fails>>

(* The address of the event is released; only then the rights are checked. *)
GetEvent(p) ==
    LET e == events[Tag(p)] IN
    /\ At(p, "get") /\ p \in Clients
    /\ IF e = None THEN Return(p) /\ UNCHANGED ips
       ELSE /\ Tag(p) \in VpnTags => PoolFree
            /\ ips' = ips \ {conf[e].addr}
            /\ \/ Return(p)
               \/ job' = [job EXCEPT ![p].ev = e, ![p].at = "closed"]
    /\ UNCHANGED <<db, poolVars, eventVars, todo, bootVars, disturbed, fails>>

SetClosed(p) ==
    /\ At(p, "closed")
    /\ SetEventStatus(Tag(p), "closed")
    /\ Goto(p, "remove")
    /\ UNCHANGED <<poolVars, eventVars, ips, todo, bootVars, disturbed, fails>>

(* StopEvent returns, closeEvent goes on. *)
SetClosedFails(p) ==
    /\ At(p, "closed")
    /\ Fail
    /\ IF p \in Clients THEN Return(p) /\ UNCHANGED disturbed
                        ELSE Goto(p, "remove") /\ Disturb(Tag(p))
    /\ UNCHANGED <<db, poolVars, eventVars, ips, todo, bootVars>>

(* RemoveEvent; when the tag is gone, StopEvent returns and closeEvent     *)
(* goes on.                                                                *)
RemoveEvent(p) ==
    /\ At(p, "remove")
    /\ IF events[Tag(p)] = None /\ p \in Clients THEN Return(p) ELSE Goto(p, "close")
    /\ events' = [events EXCEPT ![Tag(p)] = None]
    /\ handlers' = IF events[Tag(p)] = None THEN handlers
                   ELSE [handlers EXCEPT ![Tag(p)] = "none"]
    /\ UNCHANGED <<db, eventVars, ips, todo, bootVars, disturbed, fails>>

(* Mutation: the event is archived without being closed. *)
CloseNot(p) ==
    /\ At(p, "close")
    /\ Goto(p, "finish")
    /\ UNCHANGED <<db, poolVars, eventVars, ips, todo, bootVars, disturbed, fails>>

(* Close; an event that is nil, or whose hub is closed already, panics. *)
Close(p) ==
    /\ At(p, "close")
    /\ IF Ev(p) \in live
       THEN /\ live' = live \ {Ev(p)}
            /\ conf' = [conf EXCEPT ![Ev(p)] = NoConf]
            /\ job' = [job EXCEPT ![p].ev = None, ![p].at = "finish"]
            /\ UNCHANGED <<poolVars, orphans, ips, todo, bootVars, disturbed>>
       ELSE UNCHANGED live /\ Crash
    /\ UNCHANGED <<db, fails>>

(* Finish gives the row of the tag its new tag, or logs that it could not. *)
Finish(p) ==
    /\ At(p, "finish")
    /\ db' \in {db, [db EXCEPT ![Tag(p)] = "none"]}
    /\ Return(p)
    /\ UNCHANGED <<poolVars, eventVars, ips, todo, bootVars, disturbed, fails>>

(* closeEvents visits every event of the pool, each in a goroutine.  It    *)
(* releases the address of each, if it can, and closes those that are      *)
(* overdue.                                                                *)
CloseEvents ==
    LET there == {t \in Tags : events[t] # None /\ (t \in VpnTags => PoolFree)} IN
    /\ boot = "up" /\ \A t \in Tags : job[t] = Idle
    /\ there # {}
    /\ ips' = ips \ {conf[events[t]].addr : t \in there}
    /\ \E overdue \in SUBSET there :
         /\ job' = [p \in Procs |-> IF p \in overdue
                                    THEN [Idle EXCEPT !.at = "get", !.tag = p]
                                    ELSE job[p]]
         /\ disturbed' = disturbed \cup {t \in overdue : Busy(t) # {}}
    /\ UNCHANGED <<db, poolVars, eventVars, todo, bootVars, fails>>

(* closeEvent asks the pool again, and goes on when that fails. *)
GetOverdue(t) ==
    /\ At(t, "get")
    /\ job' = [job EXCEPT ![t].ev = events[t], ![t].at = "closed"]
    /\ UNCHANGED <<db, poolVars, eventVars, ips, todo, bootVars, disturbed, fails>>

-----------------------------------------------------------------------------
(* Suspending and resuming. *)

SuspendEvent(p, t) ==
    /\ events[t] # None
    /\ \E place \in {"suspend", "resume"} : Begin(p, t, place)
    /\ UNCHANGED <<db, poolVars, eventVars, ips, todo, bootVars, fails>>

(* Suspend and Resume of the event: the machines, and then the row.  The   *)
(* first failure ends the call.                                            *)
Suspend(p) ==
    /\ At(p, "suspend")
    /\ \/ SetEventStatus(Tag(p), "suspended") /\ Goto(p, "page")
       \/ Return(p) /\ UNCHANGED db
    /\ UNCHANGED <<poolVars, eventVars, ips, todo, bootVars, disturbed, fails>>

Resume(p) ==
    /\ At(p, "resume")
    /\ \/ SetEventStatus(Tag(p), "running") /\ Goto(p, "handler")
       \/ Return(p) /\ UNCHANGED db
    /\ UNCHANGED <<poolVars, eventVars, ips, todo, bootVars, disturbed, fails>>

(* The map of handlers is written without the lock, *)
SetHandler(p) ==
    /\ \/ At(p, "page") /\ handlers' = [handlers EXCEPT ![Tag(p)] = "suspended"]
       \/ At(p, "handler") /\ handlers' = [handlers EXCEPT ![Tag(p)] = "event"]
    /\ Return(p)
    /\ UNCHANGED <<db, events, eventVars, ips, todo, bootVars, disturbed, fails>>

(* which is fatal when a page is served at that time. *)
HandlerRace(p) ==
    /\ At(p, "page") \/ At(p, "handler")
    /\ UNCHANGED <<db, live, fails>>
    /\ Crash

-----------------------------------------------------------------------------

Call(p) == \E t \in Tags : CreateEvent(p, t) \/ StopEvent(p, t) \/ SuspendEvent(p, t)

Step(p) ==
    \/ BookEvent(p) \/ \E a \in Addrs \cup {None} : GetVPNIP(p, a)
    \/ GetVPNIPStuck(p) \/ CheckPool(p) \/ AddRow(p) \/ AddRowFails(p)
    \/ CreateFromDB(p) \/ CreateFromDBFails(p) \/ StartEvent(p)
    \/ DropEvent(p) \/ GetEvent(p) \/ SetClosed(p) \/ SetClosedFails(p)
    \/ RemoveEvent(p) \/ Close(p) \/ Finish(p)
    \/ Suspend(p) \/ Resume(p) \/ SetHandler(p)

Visit ==
    VisitBookedEvents \/ (\E t \in Tags : VisitNext(t)) \/ VisitStatus
    \/ VisitStatusFails

Boot ==
    \/ CleanUp \/ New \/ BootFails \/ BootDone
    \/ \E t \in Tags : BootSuspend(t) \/ \E a \in Addrs \cup {None} : BootLoad(t, a)

Next ==
    \/ \E p \in Clients : Call(p)
    \/ \E p \in Procs : Step(p) \/ HandlerRace(p)
    \/ \E t \in Tags : StartTimePasses(t) \/ GetOverdue(t)
    \/ Visit \/ CloseEvents \/ Boot \/ Die

Spec == Init /\ [][Next]_vars

(* Time passes, and the goroutine of visitBookedEvents runs and gets its    *)
(* ticks.  Nothing is asked of operators, of their calls and of the closer, *)
(* and the daemon need not be restarted.                                    *)
FairSpec ==
    /\ Spec
    /\ WF_vars(Step(Visitor) \/ Visit)
    /\ \A t \in Tags : WF_vars(StartTimePasses(t))

-----------------------------------------------------------------------------
(* Properties. *)

(* The pool serves what the database says is running or suspended, in      *)
(* particular after a restart, wherever the daemon was when it died: an    *)
(* event that was half created or half closed is then there or gone.  The  *)
(* exceptions are tags for which operations overlapped or a failure left   *)
(* work half done since then.                                              *)
PoolMatchesStore ==
    \A t \in Tags :
        boot = "up" /\ Busy(t) = {} /\ t \notin disturbed =>
            /\ events[t] # None <=> db[t] \in Open
            /\ handlers[t] # "none" <=> events[t] # None

(* Whose labs run is in the pool, about to get there, or about to be closed. *)
EventsKnown ==
    \A e \in live \ orphans :
        \/ events[conf[e].tag] = e
        \/ \E p \in Procs : Ev(p) = e /\ job[p].at \in {"pool", "close"}
        \/ conf[e].tag \in disturbed

(* Nobody in the daemon refers to an orphan. *)
OrphansApart ==
    \A e \in orphans :
        /\ e \in live
        /\ \A t \in Tags : events[t] # e
        /\ \A p \in Procs : Ev(p) # e

(* No event is forgotten with its labs running: it is in the pool, or in   *)
(* the hands of a goroutine that will put it there or close it, with the   *)
(* same exceptions; but for the labs of the daemons that died and of the   *)
(* creations that failed after NewHub, which are left to the scripts and   *)
(* never mistaken for those of an event of the daemon that runs.           *)
NoneForgotten == EventsKnown /\ OrphansApart

(* A booked event gets started or dropped, if the daemon stays up and       *)
(* nobody is stuck in IPPool.Get: over visits that gave up at a failure,    *)
(* restarts, and operators and closer at work on the same tag.  (Or the     *)
(* bound of the model is reached.)                                          *)
BookedStarted ==
    <>[](boot = "up") =>
        \A t \in Tags :
            db[t] \in Booked ~> \/ db[t] \notin Booked
                                \/ ~PoolFree
                                \/ \A e \in Ids : ~Fresh(e)
=============================================================================
