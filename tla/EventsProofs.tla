---------------------------- MODULE EventsProofs ----------------------------
(***************************************************************************)
(* Proofs about the events of the daemon, for any number of operators,     *)
(* tags, addresses and failures.                                           *)
(*                                                                         *)
(* As long as the operations on a tag do not overlap, one goroutine at     *)
(* most is at work on it, and the place where that goroutine is tells what *)
(* pool and database say of the tag.  That is the inductive invariant; a   *)
(* crash leaves the database, and New rebuilds the pool from it.           *)
(***************************************************************************)
EXTENDS Events, TLAPS

Places == {"idle", "book", "addr", "stuck", "check", "row", "hub", "pool", "status", "drop",
           "get", "closed", "remove", "close", "finish", "suspend", "resume",
           "page", "handler"}

Jobs == [at : Places, tag : Tags \cup {None}, ev : Ids \cup {None},
         addr : Addrs \cup {None}]

Statuses == {"none", "booked", "due", "running", "suspended", "closed"}

(* Who can be where, and with what. *)
JobOk(p, j) ==
    /\ j \in Jobs
    /\ j.at = "idle" => j = Idle
    /\ j.at # "idle" => j.tag \in Tags
    /\ j.at \in {"book", "check", "row"} => p # Visitor
    /\ j.at = "status" => p = Visitor
    /\ p \in Tags => j.tag \in {None, p}

JobsOk ==
    /\ DOMAIN job = Procs
    /\ \A p \in Procs : JobOk(p, job[p])
    /\ todo \subseteq Tags
    /\ Tag(Visitor) \notin todo

StateOk ==
    /\ db \in [Tags -> Statuses]
    /\ events \in [Tags -> Ids \cup {None}]
    /\ handlers \in [Tags -> {"none", "event", "suspended"}]
    /\ live \subseteq Ids
    /\ conf \in [Ids -> [tag : Tags \cup {None}, addr : Addrs \cup {None}]]
    /\ boot \in {"down", "load", "up"}
    /\ bootList \subseteq Tags /\ bootSuspended \subseteq Tags
    /\ disturbed \subseteq Tags

TypeInv == StateOk /\ JobsOk

There(t) == events[t] # None /\ handlers[t] # "none"
Gone(t) == events[t] = None /\ handlers[t] = "none"

(* Pool and database agree on t. *)
Settled(t) == (There(t) /\ db[t] \in Open) \/ (Gone(t) /\ db[t] \notin Open)

(* What they say of t when p is at work on it alone. *)
Fits(p, t) ==
    LET at == job[p].at IN
    /\ at \in {"book", "check", "row"} => Gone(t) /\ db[t] \in {"none", "closed"}
    /\ at \in {"addr", "stuck"} => Gone(t) /\ db[t] \in IF p = Visitor
                                            THEN {"due"} ELSE {"none", "closed"}
    /\ at \in {"hub", "pool"} => Gone(t) /\ db[t] = IF p = Visitor THEN "due"
                                                                   ELSE "running"
    /\ at = "status" => There(t) /\ db[t] = "due"
    /\ at = "drop" => Gone(t) /\ db[t] \in Booked
    /\ at \in {"get", "closed", "suspend", "resume", "page", "handler"}
         => There(t) /\ db[t] \in Open
    /\ at = "remove" => There(t) /\ db[t] = "closed"
    /\ at \in {"close", "finish"} => Gone(t) /\ db[t] = "closed"
    /\ at \in {"closed", "remove"} => Ev(p) = events[t]

(* One goroutine at most, and what it leaves in between. *)
Alone(t) ==
    /\ \A p, q \in Procs : Tag(p) = t /\ Tag(q) = t => p = q
    /\ t \in todo => /\ \A p \in Procs : Tag(p) # t
                     /\ Gone(t) /\ db[t] = "due"
    /\ \A p \in Procs : Tag(p) = t => Fits(p, t)
    /\ t \notin todo /\ (\A p \in Procs : Tag(p) # t) => Settled(t)

UpInv == boot = "up" => \A t \in Tags : t \notin disturbed => Alone(t)

(* The daemon at its start: nothing runs but New. *)
BootInv ==
    /\ boot # "up" => /\ job = [p \in Procs |-> Idle]
                      /\ todo = {} /\ disturbed = {}
    /\ boot = "down" => live \subseteq orphans /\ \A t \in Tags : Gone(t)
    /\ boot = "load" =>
         /\ \A t \in bootList : Gone(t) /\ db[t] \in Open
         /\ \A t \in Tags \ bootList : Settled(t)
         /\ \A t \in bootSuspended : db[t] \in Open

(* An event that is not in the pool yet is known to its creator only. *)
HeldInv ==
    \A p \in Procs : job[p].at = "pool" =>
        /\ Ev(p) \in live /\ conf[Ev(p)].tag = Tag(p)
        /\ \A q \in Procs : q # p => Ev(q) # Ev(p)
        /\ \A t \in Tags : events[t] # Ev(p)

EventsInv == TypeInv /\ UpInv /\ BootInv /\ HeldInv /\ EventsKnown

-----------------------------------------------------------------------------

(* The goroutines are three kinds, and None is neither a tag nor an event. *)
LEMMA ProcFacts ==
    /\ Visitor \in Procs /\ Tags \subseteq Procs /\ Clients \subseteq Procs
    /\ Visitor \notin Tags /\ Visitor \notin Clients
    /\ \A p \in Clients : p \notin Tags
    /\ None \notin Tags /\ None \notin Ids
BY ProcAssumption, BoundsAssumption DEF Procs, Ids, None

(* Idle is a job. *)
LEMMA IdleFacts == Idle \in Jobs /\ Idle.at = "idle" /\ Idle.tag = None
BY DEF Idle, Jobs, Places

(* The daemon starts with an empty database. *)
LEMMA EventsInvInit == Init => EventsInv
<1> SUFFICES ASSUME Init PROVE EventsInv
  OBVIOUS
<1> USE ProcFacts, IdleFacts DEF Init, Tag, Ev
<1>1. TypeInv
  BY DEF TypeInv, StateOk, JobsOk, JobOk, Statuses, NoConf
<1>2. UpInv
  BY DEF UpInv, Alone, Settled, There, Gone, Open
<1>3. BootInv /\ HeldInv /\ EventsKnown
  BY DEF BootInv, HeldInv, EventsKnown
<1> QED
  BY <1>1, <1>2, <1>3 DEF EventsInv

(* One goroutine gets a new job. *)
LEMMA SetJob ==
    ASSUME JobsOk, NEW p \in Procs, NEW j, JobOk(p, j),
           job' = [job EXCEPT ![p] = j],
           todo' \subseteq todo, p = Visitor => j.tag \notin todo'
    PROVE  JobsOk'
BY ProcFacts DEF JobsOk, Tag

(* A goroutine at work. *)
LEMMA BusyFacts ==
    ASSUME JobsOk, NEW p \in Procs, job[p].at # "idle"
    PROVE  /\ job[p] \in Jobs /\ job[p].tag \in Tags
           /\ job[p].ev \in Ids \cup {None} /\ job[p].addr \in Addrs \cup {None}
           /\ job[p].at \in {"book", "check", "row"} => p # Visitor
           /\ job[p].at = "status" => p = Visitor
           /\ p \in Tags => job[p].tag = p
           /\ p = Visitor => job[p].tag \notin todo
<1>1. JobOk(p, job[p])
  BY DEF JobsOk
<1> QED
  BY <1>1, ProcFacts DEF JobsOk, JobOk, Jobs, Tag

(* It moves on with the same tag, *)
LEMMA MoveJob ==
    ASSUME JobsOk, NEW p \in Procs, job[p].at # "idle",
           NEW j \in Jobs, j.tag = job[p].tag, j.at \notin {"idle", "book"},
           j.at \in {"check", "row"} => p # Visitor, j.at = "status" => p = Visitor,
           job' = [job EXCEPT ![p] = j], todo' \subseteq todo
    PROVE  JobsOk'
<1>1. JobOk(p, j)
  BY BusyFacts DEF JobOk
<1> QED
  BY <1>1, BusyFacts, SetJob

(* or returns. *)
LEMMA ReturnJob ==
    ASSUME JobsOk, NEW p \in Procs, Return(p), todo' \subseteq todo
    PROVE  JobsOk'
<1>1. JobOk(p, Idle) /\ Idle.tag \notin todo'
  BY ProcFacts, IdleFacts DEF JobOk, JobsOk
<1> QED
  BY <1>1, SetJob DEF Return

-----------------------------------------------------------------------------
(* What a step does to the tags. *)

(* A tag that a step does not touch, but for the visit being given up. *)
LEMMA OtherTag ==
    ASSUME NEW t \in Tags, Alone(t), DOMAIN job = Procs, DOMAIN job' = Procs,
           db'[t] = db[t], events'[t] = events[t], handlers'[t] = handlers[t],
           t \in todo' => t \in todo,
           \A q \in Procs : Tag(q) = t \/ Tag(q)' = t => job'[q] = job[q]
    PROVE  Alone(t)'
<1>1. \A q \in Procs : Tag(q)' = t <=> Tag(q) = t
  BY DEF Tag
<1>2. \A q \in Procs : Tag(q)' = t => Fits(q, t)'
  BY <1>1 DEF Alone, Fits, Gone, There, Tag, Ev
<1>3. \A p, q \in Procs : Tag(p)' = t /\ Tag(q)' = t => p = q
  BY <1>1 DEF Alone
<1>4. Settled(t) <=> Settled(t)'
  BY DEF Settled, Gone, There
<1>5. t \in todo' => (\A p \in Procs : Tag(p)' # t) /\ (Gone(t) /\ db[t] = "due")'
  BY <1>1 DEF Alone, Gone
<1>6. t \notin todo' /\ (\A p \in Procs : Tag(p)' # t) => Settled(t)'
  BY <1>1, <1>4 DEF Alone, Settled, Open
<1> QED
  BY <1>2, <1>3, <1>5, <1>6 DEF Alone

(* The tag the goroutine is at work on. *)
LEMMA OwnTag ==
    ASSUME NEW p \in Procs, NEW t \in Tags, Alone(t), Tag(p) = t, DOMAIN job = Procs,
           NEW j, job' = [job EXCEPT ![p] = j], todo' \subseteq todo,
           \/ j.tag = t /\ Fits(p, t)'
           \/ j.tag # t /\ Settled(t)'
    PROVE  Alone(t)'
<1>1. \A q \in Procs : q # p => Tag(q)' # t
  BY DEF Alone, Tag
<1>2. t \notin todo'
  BY DEF Alone
<1>3. Tag(p)' = j.tag
  BY DEF Tag
<1> QED
  BY <1>1, <1>2, <1>3 DEF Alone

(* Both together. *)
LEMMA WorkUp ==
    ASSUME EventsInv, NEW p \in Procs, boot = "up",
           NEW u \in Tags, Tag(p) = u,
           NEW j, job' = [job EXCEPT ![p] = j], j.tag \in {u, None},
           \A t \in Tags : t # u => /\ db'[t] = db[t] /\ events'[t] = events[t]
                                   /\ handlers'[t] = handlers[t],
           todo' \subseteq todo, disturbed \subseteq disturbed',
           u \notin disturbed' /\ Fits(p, u) =>
               IF j.tag = None THEN Settled(u)' ELSE Fits(p, u)'
    PROVE  UpInv'
<1>1. DOMAIN job = Procs /\ DOMAIN job' = Procs /\ None \notin Tags
  BY ProcFacts DEF EventsInv, TypeInv, JobsOk
<1>2. SUFFICES ASSUME NEW t \in Tags, t \notin disturbed' PROVE Alone(t)'
  BY DEF UpInv
<1>3. Alone(t)
  BY <1>2 DEF EventsInv, UpInv
<1>4. CASE t = u
  <2>1. Fits(p, u)
    BY <1>3, <1>4 DEF Alone
  <2>2. (j.tag = u /\ Fits(p, u)') \/ (j.tag # u /\ Settled(u)')
    BY <1>1, <1>2, <1>4, <2>1
  <2>3. Alone(u)'
    BY <1>1, <1>3, <1>4, <2>2, OwnTag
  <2> QED
    BY <1>4, <2>3
<1>5. CASE t # u
  <2>1. \A q \in Procs : Tag(q) = t \/ Tag(q)' = t => job'[q] = job[q]
    BY <1>1, <1>5 DEF Tag
  <2> QED
    BY <1>1, <1>3, <1>5, <2>1, OtherTag
<1> QED
  BY <1>4, <1>5

(* Events on their way to the pool, when no new one is made. *)
LEMMA WorkHeld ==
    ASSUME TypeInv, HeldInv, NEW p \in Procs,
           NEW j, job' = [job EXCEPT ![p] = j], j.at # "pool",
           j.ev \in {None, Ev(p)} \/ \E t \in Tags : j.ev = events[t],
           \A t \in Tags : events'[t] \in {events[t], None, Ev(p)},
           \A e \in live : e # Ev(p) => e \in live' /\ conf'[e] = conf[e]
    PROVE  HeldInv'
<1>1. DOMAIN job = Procs /\ live \subseteq Ids /\ None \notin Ids
  BY ProcFacts DEF TypeInv, StateOk, JobsOk
<1>2. SUFFICES ASSUME NEW q \in Procs, job'[q].at = "pool"
               PROVE  /\ Ev(q)' \in live' /\ conf'[Ev(q)'].tag = Tag(q)'
                      /\ \A r \in Procs : r # q => Ev(r)' # Ev(q)'
                      /\ \A t \in Tags : events'[t] # Ev(q)'
  BY DEF HeldInv
<1>3. q # p /\ job'[q] = job[q]
  BY <1>1, <1>2
<1>4. /\ Ev(q) \in live /\ conf[Ev(q)].tag = Tag(q)
      /\ \A r \in Procs : r # q => Ev(r) # Ev(q)
      /\ \A t \in Tags : events[t] # Ev(q)
  BY <1>2, <1>3 DEF HeldInv
<1>5. Ev(q)' = Ev(q) /\ Tag(q)' = Tag(q) /\ Ev(q) # None /\ Ev(q) # Ev(p)
  BY <1>1, <1>3, <1>4 DEF Ev, Tag
<1>6. \A r \in Procs : r # q => Ev(r)' # Ev(q)'
  BY <1>1, <1>4, <1>5 DEF Ev
<1> QED
  BY <1>4, <1>5, <1>6

(* No event is forgotten by a goroutine that has none to put or to close. *)
LEMMA WorkNotForgotten ==
    ASSUME EventsKnown, NEW p \in Procs, DOMAIN job = Procs,
           NEW j, job' = [job EXCEPT ![p] = j], job[p].at \notin {"pool", "close"},
           UNCHANGED <<events, conf>>, live' \ orphans' \subseteq live \ orphans,
           disturbed \subseteq disturbed'
    PROVE  EventsKnown'
<1>1. SUFFICES ASSUME NEW e \in live \ orphans
               PROVE  \/ events[conf[e].tag] = e
                      \/ \E q \in Procs : Ev(q)' = e /\ job'[q].at \in {"pool", "close"}
                      \/ conf[e].tag \in disturbed'
  BY DEF EventsKnown
<1>2. ASSUME NEW q \in Procs, Ev(q) = e, job[q].at \in {"pool", "close"}
      PROVE  Ev(q)' = e /\ job'[q].at \in {"pool", "close"}
  BY <1>2 DEF Ev
<1> QED
  BY <1>1, <1>2 DEF EventsKnown

(* A step that leaves the events alone but for hubs nobody gets, and returns, *)
LEMMA LeakyReturn ==
    ASSUME EventsInv, NEW p \in Procs, boot = "up",
           job[p].at \notin {"pool", "close"}, NEW u \in Tags, Tag(p) = u, Return(p),
           UNCHANGED <<events, conf, bootVars>>, live \subseteq live', live' \subseteq Ids,
           live' \ orphans' \subseteq live \ orphans,
           db' \in [Tags -> Statuses],
           handlers' \in [Tags -> {"none", "event", "suspended"}],
           \A t \in Tags : t # u => db'[t] = db[t] /\ handlers'[t] = handlers[t],
           disturbed' \in {disturbed, disturbed \cup {u}}, todo' \in {todo, {}},
           u \notin disturbed' /\ Fits(p, u) => Settled(u)'
    PROVE  EventsInv'
<1> USE ProcFacts, IdleFacts DEF EventsInv, TypeInv
<1>1. job[p].at # "idle" /\ DOMAIN job = Procs /\ job' = [job EXCEPT ![p] = Idle]
  BY DEF Tag, JobsOk, JobOk, Return
<1>2. StateOk'
  BY <1>1 DEF StateOk, bootVars
<1>3. JobsOk'
  BY ReturnJob
<1>5. UpInv'
  BY <1>1, WorkUp
<1>6. Idle.ev = None
  BY DEF Idle
<1>7. HeldInv'
  BY <1>1, <1>6, WorkHeld
<1>8. EventsKnown'
  BY <1>1, WorkNotForgotten
<1>9. BootInv'
  BY DEF BootInv, bootVars
<1> QED
  BY <1>2, <1>3, <1>5, <1>7, <1>8, <1>9

(* or leaves them alone and returns, *)
LEMMA QuietReturn ==
    ASSUME EventsInv, NEW p \in Procs, boot = "up",
           job[p].at \notin {"pool", "close"}, NEW u \in Tags, Tag(p) = u, Return(p),
           UNCHANGED <<events, conf, live, orphans, bootVars>>,
           db' \in [Tags -> Statuses],
           handlers' \in [Tags -> {"none", "event", "suspended"}],
           \A t \in Tags : t # u => db'[t] = db[t] /\ handlers'[t] = handlers[t],
           disturbed' \in {disturbed, disturbed \cup {u}}, todo' \in {todo, {}},
           u \notin disturbed' /\ Fits(p, u) => Settled(u)'
    PROVE  EventsInv'
<1>1. live' = live /\ orphans' = orphans /\ live \subseteq Ids
  BY DEF EventsInv, TypeInv, StateOk
<1> QED
  BY <1>1, LeakyReturn

(* or moves on. *)
LEMMA QuietMove ==
    ASSUME EventsInv, NEW p \in Procs, boot = "up",
           job[p].at \notin {"pool", "close"}, NEW u \in Tags, Tag(p) = u,
           NEW j \in Jobs, j.tag = u, j.at \notin {"idle", "book", "pool"},
           j.at \in {"check", "row"} => p # Visitor, j.at = "status" => p = Visitor,
           j.ev \in {None, Ev(p), events[u]},
           job' = [job EXCEPT ![p] = j],
           UNCHANGED <<events, handlers, conf, live, orphans, todo, bootVars>>,
           db' \in [Tags -> Statuses], \A t \in Tags : t # u => db'[t] = db[t],
           disturbed' \in {disturbed, disturbed \cup {u}},
           u \notin disturbed' /\ Fits(p, u) => Fits(p, u)'
    PROVE  EventsInv'
<1> USE ProcFacts, IdleFacts DEF EventsInv, TypeInv
<1>1. job[p].at # "idle" /\ DOMAIN job = Procs
  BY DEF Tag, JobsOk, JobOk
<1>2. StateOk'
  BY <1>1 DEF StateOk, bootVars
<1>3. JobsOk'
  BY <1>1, MoveJob DEF Tag
<1>5. UpInv'
  BY <1>1, WorkUp
<1>6. HeldInv'
  BY <1>1, WorkHeld
<1>7. EventsKnown'
  BY <1>1, WorkNotForgotten
<1>8. BootInv'
  BY DEF BootInv, bootVars
<1> QED
  BY <1>2, <1>3, <1>5, <1>6, <1>7, <1>8

-----------------------------------------------------------------------------
(* The steps of the goroutines. *)

(* bookEvent writes the row of a tag that is not open, or nothing. *)
LEMMA BookEventStep ==
    ASSUME EventsInv, NEW p \in Procs, BookEvent(p)
    PROVE  EventsInv'
<1> USE ProcFacts DEF EventsInv, TypeInv, At, Fail, BookEvent
<1>1. PICK u \in Tags : /\ Tag(p) = u /\ events[u] \in Ids \cup {None}
                        /\ job[p].at \in {"check", "row"} => p # Visitor
                        /\ p \in Tags => p = u
  BY BusyFacts DEF Tag, StateOk
<1>2. db' \in [Tags -> Statuses] /\ \A t \in Tags : t # u => db'[t] = db[t]
  BY <1>1 DEF StateOk, Statuses, SetEventStatus
<1>3. u \notin disturbed' /\ Fits(p, u) => Settled(u)'
  BY <1>1 DEF StateOk, Fits, Gone, There, Settled, Open, Booked, poolVars,
    SetEventStatus, Disturb
<1> QED
  BY <1>1, <1>2, <1>3, QuietReturn DEF poolVars, eventVars, Disturb, StateOk

(* The address. *)
LEMMA GetVPNIPStep ==
    ASSUME EventsInv, NEW p \in Procs, NEW a \in Addrs \cup {None}, GetVPNIP(p, a)
    PROVE  EventsInv'
<1> USE ProcFacts DEF EventsInv, TypeInv, At, Fail, GetVPNIP
<1>1. PICK u \in Tags : /\ Tag(p) = u /\ events[u] \in Ids \cup {None}
                        /\ job[p].at \in {"check", "row"} => p # Visitor
                        /\ p \in Tags => p = u
  BY BusyFacts DEF Tag, StateOk
<1>2. db' \in [Tags -> Statuses] /\ \A t \in Tags : t # u => db'[t] = db[t]
  BY <1>1 DEF StateOk, Statuses, SetEventStatus
<1>3. CASE p = Visitor
  <2> DEFINE j == [job[p] EXCEPT !.addr = a, !.at = "hub"]
  <2>1. job' = [job EXCEPT ![p] = j]
    BY <1>1, <1>3 DEF Goto, Tag
  <2>0. job[p] \in Jobs /\ job[p].tag = u /\ job[p].ev = Ev(p)
    BY <1>1, <1>3, BusyFacts DEF Tag, Ev
  <2>2. j \in Jobs /\ j.tag = u /\ j.at = "hub" /\ j.ev = Ev(p)
    BY <1>1, <2>0 DEF Jobs, Places
  <2>3. u \notin disturbed' /\ Fits(p, u) => Fits(p, u)'
    BY <1>1, <1>3, <2>1, <2>2 DEF JobsOk, Ev, StateOk, Fits, Gone, There, Open,
      Booked, poolVars, SetEventStatus, Disturb
  <2> HIDE DEF j
  <2> QED
    BY <1>1, <1>2, <1>3, <2>1, <2>2, <2>3, QuietMove DEF poolVars, eventVars,
      Disturb, StateOk
<1>4. CASE p # Visitor
  <2> DEFINE j == [job[p] EXCEPT !.addr = a, !.at = "check"]
  <2>1. job' = [job EXCEPT ![p] = j]
    BY <1>1, <1>4 DEF Goto, Tag
  <2>0. job[p] \in Jobs /\ job[p].tag = u /\ job[p].ev = Ev(p)
    BY <1>1, <1>4, BusyFacts DEF Tag, Ev
  <2>2. j \in Jobs /\ j.tag = u /\ j.at = "check" /\ j.ev = Ev(p)
    BY <1>1, <2>0 DEF Jobs, Places
  <2>3. u \notin disturbed' /\ Fits(p, u) => Fits(p, u)'
    BY <1>1, <1>4, <2>1, <2>2 DEF JobsOk, Ev, StateOk, Fits, Gone, There, Open,
      Booked, poolVars, SetEventStatus, Disturb
  <2> HIDE DEF j
  <2> QED
    BY <1>1, <1>2, <1>4, <2>1, <2>2, <2>3, QuietMove DEF poolVars, eventVars,
      Disturb, StateOk
<1> QED
  BY <1>3, <1>4

(* IPPool.Get that finds nothing keeps the goroutine. *)
LEMMA GetVPNIPStuckStep ==
    ASSUME EventsInv, NEW p \in Procs, GetVPNIPStuck(p)
    PROVE  EventsInv'
<1> USE ProcFacts DEF EventsInv, TypeInv, At, GetVPNIPStuck
<1>1. PICK u \in Tags : /\ Tag(p) = u /\ job[p] \in Jobs /\ job[p].tag = u
                        /\ job[p].ev = Ev(p)
  BY BusyFacts DEF Tag, Ev
<1> DEFINE j == [job[p] EXCEPT !.at = "stuck"]
<1>2. job' = [job EXCEPT ![p] = j]
  BY DEF Goto
<1>3. j \in Jobs /\ j.tag = u /\ j.at = "stuck" /\ j.ev = Ev(p)
  BY <1>1 DEF Jobs, Places
<1>4. Fits(p, u) => Fits(p, u)'
  BY <1>1, <1>2, <1>3 DEF JobsOk, Ev, StateOk, Fits, Gone, There, poolVars
<1> HIDE DEF j
<1> QED
  BY <1>1, <1>2, <1>3, <1>4, QuietMove DEF poolVars, eventVars, StateOk

(* The pool does not have the tag unless operations overlapped. *)
LEMMA CheckPoolStep ==
    ASSUME EventsInv, NEW p \in Procs, CheckPool(p)
    PROVE  EventsInv'
<1> USE ProcFacts DEF EventsInv, TypeInv, At, Fail, CheckPool
<1>1. PICK u \in Tags : /\ Tag(p) = u /\ events[u] \in Ids \cup {None}
                        /\ job[p].at \in {"check", "row"} => p # Visitor
                        /\ p \in Tags => p = u
  BY BusyFacts DEF Tag, StateOk
<1>2. db' \in [Tags -> Statuses] /\ \A t \in Tags : t # u => db'[t] = db[t]
  BY <1>1 DEF StateOk, Statuses, SetEventStatus
<1>3. CASE Return(p)
  <2>1. u \notin disturbed' /\ Fits(p, u) => Settled(u)'
    BY <1>1, <1>3 DEF StateOk, Fits, Gone, There, Settled, Open, Booked,
      poolVars, SetEventStatus, Disturb
  <2> QED
    BY <1>1, <1>2, <1>3, <2>1, QuietReturn DEF poolVars, eventVars, Disturb,
      StateOk
<1>4. CASE ~Return(p)
  <2> DEFINE j == [job[p] EXCEPT !.at = "row"]
  <2>1. job' = [job EXCEPT ![p] = j]
    BY <1>1, <1>4 DEF Goto, Tag
  <2>2. j \in Jobs /\ j.tag = u /\ j.at = "row" /\ j.ev = Ev(p)
    BY <1>1, <1>4, BusyFacts DEF Jobs, Places, Tag, Ev
  <2>3. u \notin disturbed' /\ Fits(p, u) => Fits(p, u)'
    BY <1>1, <1>4, <2>1, <2>2 DEF JobsOk, Ev, StateOk, Fits, Gone, There, Open,
      Booked, poolVars, SetEventStatus, Disturb
  <2> HIDE DEF j
  <2> QED
    BY <1>1, <1>2, <1>4, <2>1, <2>2, <2>3, QuietMove DEF poolVars, eventVars,
      Disturb, StateOk
<1> QED
  BY <1>3, <1>4

(* The row is written before the event is there. *)
LEMMA AddRowStep ==
    ASSUME EventsInv, NEW p \in Procs, AddRow(p)
    PROVE  EventsInv'
<1> USE ProcFacts DEF EventsInv, TypeInv, At, Fail, AddRow
<1>1. PICK u \in Tags : /\ Tag(p) = u /\ events[u] \in Ids \cup {None}
                        /\ job[p].at \in {"check", "row"} => p # Visitor
                        /\ p \in Tags => p = u
  BY BusyFacts DEF Tag, StateOk
<1>2. db' \in [Tags -> Statuses] /\ \A t \in Tags : t # u => db'[t] = db[t]
  BY <1>1 DEF StateOk, Statuses, SetEventStatus
<1> DEFINE j == [job[p] EXCEPT !.at = "hub"]
<1>3. job' = [job EXCEPT ![p] = j]
  BY <1>1 DEF Goto, Tag
<1>4. j \in Jobs /\ j.tag = u /\ j.at = "hub" /\ j.ev = Ev(p)
  BY <1>1, BusyFacts DEF Jobs, Places, Tag, Ev
<1>5. u \notin disturbed' /\ Fits(p, u) => Fits(p, u)'
  BY <1>1, <1>3, <1>4 DEF JobsOk, Ev, StateOk, Fits, Gone, There, Open, Booked,
    poolVars, SetEventStatus, Disturb
<1> HIDE DEF j
<1> QED
  BY <1>1, <1>2, <1>3, <1>4, <1>5, QuietMove DEF poolVars, eventVars, Disturb,
    StateOk

(* Without the row nothing has happened. *)
LEMMA AddRowFailsStep ==
    ASSUME EventsInv, NEW p \in Procs, AddRowFails(p)
    PROVE  EventsInv'
<1> USE ProcFacts DEF EventsInv, TypeInv, At, Fail, AddRowFails
<1>1. PICK u \in Tags : /\ Tag(p) = u /\ events[u] \in Ids \cup {None}
                        /\ job[p].at \in {"check", "row"} => p # Visitor
                        /\ p \in Tags => p = u
  BY BusyFacts DEF Tag, StateOk
<1>2. db' \in [Tags -> Statuses] /\ \A t \in Tags : t # u => db'[t] = db[t]
  BY <1>1 DEF StateOk, Statuses, SetEventStatus
<1>3. u \notin disturbed' /\ Fits(p, u) => Settled(u)'
  BY <1>1 DEF StateOk, Fits, Gone, There, Settled, Open, Booked, poolVars,
    SetEventStatus, Disturb
<1> QED
  BY <1>1, <1>2, <1>3, QuietReturn DEF poolVars, eventVars, Disturb, StateOk

(* The row of a failed creation disturbs the tag, a booked row stays. *)
LEMMA CreateFromDBFailsStep ==
    ASSUME EventsInv, NEW p \in Procs, CreateFromDBFails(p)
    PROVE  EventsInv'
<1> USE ProcFacts DEF EventsInv, TypeInv, At, Fail, CreateFromDBFails
<1>1. PICK u \in Tags : /\ Tag(p) = u /\ events[u] \in Ids \cup {None}
                        /\ job[p].at \in {"check", "row"} => p # Visitor
                        /\ p \in Tags => p = u
  BY BusyFacts DEF Tag, StateOk
<1>2. db' \in [Tags -> Statuses] /\ \A t \in Tags : t # u => db'[t] = db[t]
  BY <1>1 DEF StateOk, Statuses, SetEventStatus
<1>3. u \notin disturbed' /\ Fits(p, u) => Settled(u)'
  BY <1>1 DEF StateOk, Fits, Gone, There, Settled, Open, Booked, poolVars,
    SetEventStatus, Disturb
<1>4. /\ live \subseteq live' /\ live' \subseteq Ids
      /\ live' \ orphans' \subseteq live \ orphans
  <2>1. CASE UNCHANGED <<live, orphans>>
    BY <2>1 DEF StateOk
  <2>2. ASSUME NEW e \in Ids, NewHub(e), orphans' = orphans \cup {e}
        PROVE  /\ live \subseteq live' /\ live' \subseteq Ids
               /\ live' \ orphans' \subseteq live \ orphans
    BY <2>2 DEF StateOk, NewHub
  <2> QED
    BY <2>1, <2>2
<1>5. UNCHANGED <<events, conf, handlers, bootVars>> /\ Return(p) /\ boot = "up"
  BY DEF poolVars
<1>6. job[p].at \notin {"pool", "close"} /\ todo' \in {todo, {}}
      /\ disturbed' \in {disturbed, disturbed \cup {u}}
  BY <1>1 DEF Disturb
<1>7. handlers' \in [Tags -> {"none", "event", "suspended"}]
  BY <1>5 DEF StateOk
<1> HIDE DEF CreateFromDBFails
<1> QED
  BY <1>1, <1>2, <1>3, <1>4, <1>5, <1>6, <1>7, LeakyReturn

(* Nothing was started for a booked row. *)
LEMMA DropEventStep ==
    ASSUME EventsInv, NEW p \in Procs, DropEvent(p)
    PROVE  EventsInv'
<1> USE ProcFacts DEF EventsInv, TypeInv, At, Fail, DropEvent
<1>1. PICK u \in Tags : /\ Tag(p) = u /\ events[u] \in Ids \cup {None}
                        /\ job[p].at \in {"check", "row"} => p # Visitor
                        /\ p \in Tags => p = u
  BY BusyFacts DEF Tag, StateOk
<1>2. db' \in [Tags -> Statuses] /\ \A t \in Tags : t # u => db'[t] = db[t]
  BY <1>1 DEF StateOk, Statuses, SetEventStatus
<1>3. u \notin disturbed' /\ Fits(p, u) => Settled(u)'
  BY <1>1 DEF StateOk, Fits, Gone, There, Settled, Open, Booked, poolVars,
    SetEventStatus, Disturb
<1> QED
  BY <1>1, <1>2, <1>3, QuietReturn DEF poolVars, eventVars, Disturb, StateOk

(* StopEvent takes the event of the pool. *)
LEMMA GetEventStep ==
    ASSUME EventsInv, NEW p \in Procs, GetEvent(p)
    PROVE  EventsInv'
<1> USE ProcFacts DEF EventsInv, TypeInv, At, Fail, GetEvent
<1>1. PICK u \in Tags : /\ Tag(p) = u /\ events[u] \in Ids \cup {None}
                        /\ job[p].at \in {"check", "row"} => p # Visitor
                        /\ p \in Tags => p = u
  BY BusyFacts DEF Tag, StateOk
<1>2. db' \in [Tags -> Statuses] /\ \A t \in Tags : t # u => db'[t] = db[t]
  BY <1>1 DEF StateOk, Statuses, SetEventStatus
<1>3. CASE Return(p)
  <2>1. u \notin disturbed' /\ Fits(p, u) => Settled(u)'
    BY <1>1, <1>3 DEF StateOk, Fits, Gone, There, Settled, Open, Booked,
      poolVars, SetEventStatus, Disturb
  <2> QED
    BY <1>1, <1>2, <1>3, <2>1, QuietReturn DEF poolVars, eventVars, Disturb,
      StateOk
<1>4. CASE ~Return(p)
  <2> DEFINE j == [job[p] EXCEPT !.ev = events[u], !.at = "closed"]
  <2>1. job' = [job EXCEPT ![p] = j]
    BY <1>1, <1>4 DEF Goto, Tag
  <2>0. job[p] \in Jobs /\ job[p].tag = u /\ job[p].ev = Ev(p)
    BY <1>1, <1>4, BusyFacts DEF Tag, Ev
  <2>2. j \in Jobs /\ j.tag = u /\ j.at = "closed" /\ j.ev = events[u]
    BY <1>1, <2>0 DEF Jobs, Places
  <2>3. u \notin disturbed' /\ Fits(p, u) => Fits(p, u)'
    BY <1>1, <1>4, <2>1, <2>2 DEF JobsOk, Ev, StateOk, Fits, Gone, There, Open,
      Booked, poolVars, SetEventStatus, Disturb
  <2> HIDE DEF j
  <2> QED
    BY <1>1, <1>2, <1>4, <2>1, <2>2, <2>3, QuietMove DEF poolVars, eventVars,
      Disturb, StateOk
<1> QED
  BY <1>3, <1>4

(* closeEvent takes it again. *)
LEMMA GetOverdueStep ==
    ASSUME EventsInv, NEW p \in Tags, GetOverdue(p)
    PROVE  EventsInv'
<1> USE ProcFacts DEF EventsInv, TypeInv, At, Fail, GetOverdue
<1>1. PICK u \in Tags : /\ Tag(p) = u /\ events[u] \in Ids \cup {None}
                        /\ job[p].at \in {"check", "row"} => p # Visitor
                        /\ p \in Tags => p = u
  BY BusyFacts DEF Tag, StateOk
<1>2. db' \in [Tags -> Statuses] /\ \A t \in Tags : t # u => db'[t] = db[t]
  BY <1>1 DEF StateOk, Statuses, SetEventStatus
<1> DEFINE j == [job[p] EXCEPT !.ev = events[u], !.at = "closed"]
<1>3. job' = [job EXCEPT ![p] = j]
  BY <1>1 DEF Goto, Tag
<1>0. job[p] \in Jobs /\ job[p].tag = u /\ job[p].ev = Ev(p)
  BY <1>1, BusyFacts DEF Tag, Ev
<1>4. j \in Jobs /\ j.tag = u /\ j.at = "closed" /\ j.ev = events[u]
  BY <1>1, <1>0 DEF Jobs, Places
<1>5. u \notin disturbed' /\ Fits(p, u) => Fits(p, u)'
  BY <1>1, <1>3, <1>4 DEF JobsOk, Ev, StateOk, Fits, Gone, There, Open, Booked,
    poolVars, SetEventStatus, Disturb
<1> HIDE DEF j
<1> QED
  BY <1>1, <1>2, <1>3, <1>4, <1>5, QuietMove DEF poolVars, eventVars, Disturb,
    StateOk

(* The row is closed before the event leaves the pool. *)
LEMMA SetClosedStep ==
    ASSUME EventsInv, NEW p \in Procs, SetClosed(p)
    PROVE  EventsInv'
<1> USE ProcFacts DEF EventsInv, TypeInv, At, Fail, SetClosed
<1>1. PICK u \in Tags : /\ Tag(p) = u /\ events[u] \in Ids \cup {None}
                        /\ job[p].at \in {"check", "row"} => p # Visitor
                        /\ p \in Tags => p = u
  BY BusyFacts DEF Tag, StateOk
<1>2. db' \in [Tags -> Statuses] /\ \A t \in Tags : t # u => db'[t] = db[t]
  BY <1>1 DEF StateOk, Statuses, SetEventStatus
<1> DEFINE j == [job[p] EXCEPT !.at = "remove"]
<1>3. job' = [job EXCEPT ![p] = j]
  BY <1>1 DEF Goto, Tag
<1>4. j \in Jobs /\ j.tag = u /\ j.at = "remove" /\ j.ev = Ev(p)
  BY <1>1, BusyFacts DEF Jobs, Places, Tag, Ev
<1>5. u \notin disturbed' /\ Fits(p, u) => Fits(p, u)'
  BY <1>1, <1>3, <1>4 DEF JobsOk, Ev, StateOk, Fits, Gone, There, Open, Booked,
    poolVars, SetEventStatus, Disturb
<1> HIDE DEF j
<1> QED
  BY <1>1, <1>2, <1>3, <1>4, <1>5, QuietMove DEF poolVars, eventVars, Disturb,
    StateOk

(* StopEvent leaves everything as it was, closeEvent disturbs the tag. *)
LEMMA SetClosedFailsStep ==
    ASSUME EventsInv, NEW p \in Procs, SetClosedFails(p)
    PROVE  EventsInv'
<1> USE ProcFacts DEF EventsInv, TypeInv, At, Fail, SetClosedFails
<1>1. PICK u \in Tags : /\ Tag(p) = u /\ events[u] \in Ids \cup {None}
                        /\ job[p].at \in {"check", "row"} => p # Visitor
                        /\ p \in Tags => p = u
  BY BusyFacts DEF Tag, StateOk
<1>2. db' \in [Tags -> Statuses] /\ \A t \in Tags : t # u => db'[t] = db[t]
  BY <1>1 DEF StateOk, Statuses, SetEventStatus
<1>3. CASE Return(p)
  <2>1. u \notin disturbed' /\ Fits(p, u) => Settled(u)'
    BY <1>1, <1>3 DEF StateOk, Fits, Gone, There, Settled, Open, Booked,
      poolVars, SetEventStatus, Disturb
  <2> QED
    BY <1>1, <1>2, <1>3, <2>1, QuietReturn DEF poolVars, eventVars, Disturb,
      StateOk
<1>4. CASE ~Return(p)
  <2> DEFINE j == [job[p] EXCEPT !.at = "remove"]
  <2>1. job' = [job EXCEPT ![p] = j]
    BY <1>1, <1>4 DEF Goto, Tag
  <2>2. j \in Jobs /\ j.tag = u /\ j.at = "remove" /\ j.ev = Ev(p)
    BY <1>1, <1>4, BusyFacts DEF Jobs, Places, Tag, Ev
  <2>3. u \notin disturbed' /\ Fits(p, u) => Fits(p, u)'
    BY <1>1, <1>4, <2>1, <2>2 DEF JobsOk, Ev, StateOk, Fits, Gone, There, Open,
      Booked, poolVars, SetEventStatus, Disturb
  <2> HIDE DEF j
  <2> QED
    BY <1>1, <1>2, <1>4, <2>1, <2>2, <2>3, QuietMove DEF poolVars, eventVars,
      Disturb, StateOk
<1> QED
  BY <1>3, <1>4

(* Whether or not the row gets its new tag, it is not open. *)
LEMMA FinishStep ==
    ASSUME EventsInv, NEW p \in Procs, Finish(p)
    PROVE  EventsInv'
<1> USE ProcFacts DEF EventsInv, TypeInv, At, Fail, Finish
<1>1. PICK u \in Tags : /\ Tag(p) = u /\ events[u] \in Ids \cup {None}
                        /\ job[p].at \in {"check", "row"} => p # Visitor
                        /\ p \in Tags => p = u
  BY BusyFacts DEF Tag, StateOk
<1>2. db' \in [Tags -> Statuses] /\ \A t \in Tags : t # u => db'[t] = db[t]
  BY <1>1 DEF StateOk, Statuses, SetEventStatus
<1>3. u \notin disturbed' /\ Fits(p, u) => Settled(u)'
  BY <1>1 DEF StateOk, Fits, Gone, There, Settled, Open, Booked, poolVars,
    SetEventStatus, Disturb
<1> QED
  BY <1>1, <1>2, <1>3, QuietReturn DEF poolVars, eventVars, Disturb, StateOk

(* The status of a served event changes to one that is served. *)
LEMMA SuspendStep ==
    ASSUME EventsInv, NEW p \in Procs, Suspend(p)
    PROVE  EventsInv'
<1> USE ProcFacts DEF EventsInv, TypeInv, At, Fail, Suspend
<1>1. PICK u \in Tags : /\ Tag(p) = u /\ events[u] \in Ids \cup {None}
                        /\ job[p].at \in {"check", "row"} => p # Visitor
                        /\ p \in Tags => p = u
  BY BusyFacts DEF Tag, StateOk
<1>2. db' \in [Tags -> Statuses] /\ \A t \in Tags : t # u => db'[t] = db[t]
  BY <1>1 DEF StateOk, Statuses, SetEventStatus
<1>3. CASE Return(p)
  <2>1. u \notin disturbed' /\ Fits(p, u) => Settled(u)'
    BY <1>1, <1>3 DEF StateOk, Fits, Gone, There, Settled, Open, Booked,
      poolVars, SetEventStatus, Disturb
  <2> QED
    BY <1>1, <1>2, <1>3, <2>1, QuietReturn DEF poolVars, eventVars, Disturb,
      StateOk
<1>4. CASE ~Return(p)
  <2> DEFINE j == [job[p] EXCEPT !.at = "page"]
  <2>1. job' = [job EXCEPT ![p] = j]
    BY <1>1, <1>4 DEF Goto, Tag
  <2>2. j \in Jobs /\ j.tag = u /\ j.at = "page" /\ j.ev = Ev(p)
    BY <1>1, <1>4, BusyFacts DEF Jobs, Places, Tag, Ev
  <2>3. u \notin disturbed' /\ Fits(p, u) => Fits(p, u)'
    BY <1>1, <1>4, <2>1, <2>2 DEF JobsOk, Ev, StateOk, Fits, Gone, There, Open,
      Booked, poolVars, SetEventStatus, Disturb
  <2> HIDE DEF j
  <2> QED
    BY <1>1, <1>2, <1>4, <2>1, <2>2, <2>3, QuietMove DEF poolVars, eventVars,
      Disturb, StateOk
<1> QED
  BY <1>3, <1>4

(* And back. *)
LEMMA ResumeStep ==
    ASSUME EventsInv, NEW p \in Procs, Resume(p)
    PROVE  EventsInv'
<1> USE ProcFacts DEF EventsInv, TypeInv, At, Fail, Resume
<1>1. PICK u \in Tags : /\ Tag(p) = u /\ events[u] \in Ids \cup {None}
                        /\ job[p].at \in {"check", "row"} => p # Visitor
                        /\ p \in Tags => p = u
  BY BusyFacts DEF Tag, StateOk
<1>2. db' \in [Tags -> Statuses] /\ \A t \in Tags : t # u => db'[t] = db[t]
  BY <1>1 DEF StateOk, Statuses, SetEventStatus
<1>3. CASE Return(p)
  <2>1. u \notin disturbed' /\ Fits(p, u) => Settled(u)'
    BY <1>1, <1>3 DEF StateOk, Fits, Gone, There, Settled, Open, Booked,
      poolVars, SetEventStatus, Disturb
  <2> QED
    BY <1>1, <1>2, <1>3, <2>1, QuietReturn DEF poolVars, eventVars, Disturb,
      StateOk
<1>4. CASE ~Return(p)
  <2> DEFINE j == [job[p] EXCEPT !.at = "handler"]
  <2>1. job' = [job EXCEPT ![p] = j]
    BY <1>1, <1>4 DEF Goto, Tag
  <2>2. j \in Jobs /\ j.tag = u /\ j.at = "handler" /\ j.ev = Ev(p)
    BY <1>1, <1>4, BusyFacts DEF Jobs, Places, Tag, Ev
  <2>3. u \notin disturbed' /\ Fits(p, u) => Fits(p, u)'
    BY <1>1, <1>4, <2>1, <2>2 DEF JobsOk, Ev, StateOk, Fits, Gone, There, Open,
      Booked, poolVars, SetEventStatus, Disturb
  <2> HIDE DEF j
  <2> QED
    BY <1>1, <1>2, <1>4, <2>1, <2>2, <2>3, QuietMove DEF poolVars, eventVars,
      Disturb, StateOk
<1> QED
  BY <1>3, <1>4

(* Every handler will do. *)
LEMMA SetHandlerStep ==
    ASSUME EventsInv, NEW p \in Procs, SetHandler(p)
    PROVE  EventsInv'
<1> USE ProcFacts DEF EventsInv, TypeInv, At, Fail, SetHandler
<1>1. PICK u \in Tags : /\ Tag(p) = u /\ events[u] \in Ids \cup {None}
                        /\ job[p].at \in {"check", "row"} => p # Visitor
                        /\ p \in Tags => p = u
  BY BusyFacts DEF Tag, StateOk
<1>2. db' \in [Tags -> Statuses] /\ \A t \in Tags : t # u => db'[t] = db[t]
  BY <1>1 DEF StateOk, Statuses, SetEventStatus
<1>5. /\ handlers' \in [Tags -> {"none", "event", "suspended"}]
      /\ \A t \in Tags : t # u => handlers'[t] = handlers[t]
  BY <1>1 DEF StateOk
<1>3. u \notin disturbed' /\ Fits(p, u) => Settled(u)'
  BY <1>1, <1>5 DEF StateOk, Fits, Gone, There, Settled, Open, Booked,
    poolVars, SetEventStatus, Disturb
<1> QED
  BY <1>1, <1>2, <1>5, <1>3, QuietReturn DEF poolVars, eventVars, Disturb,
    StateOk

(* A due row has its event now. *)
LEMMA VisitStatusStep ==
    ASSUME EventsInv, VisitStatus
    PROVE  EventsInv'
<1> USE ProcFacts DEF EventsInv, TypeInv, At, Fail, VisitStatus
<1>1. PICK u \in Tags : /\ Tag(Visitor) = u /\ events[u] \in Ids \cup {None}
                        /\ job[Visitor].at \in {"check", "row"} => Visitor # Visitor
                        /\ Visitor \in Tags => Visitor = u
  BY BusyFacts DEF Tag, StateOk
<1>2. db' \in [Tags -> Statuses] /\ \A t \in Tags : t # u => db'[t] = db[t]
  BY <1>1 DEF StateOk, Statuses, SetEventStatus
<1>3. u \notin disturbed' /\ Fits(Visitor, u) => Settled(u)'
  BY <1>1 DEF StateOk, Fits, Gone, There, Settled, Open, Booked, poolVars,
    SetEventStatus, Disturb
<1> QED
  BY <1>1, <1>2, <1>3, QuietReturn DEF poolVars, eventVars, Disturb, StateOk

(* The failure disturbs the tag, and the visit is given up. *)
LEMMA VisitStatusFailsStep ==
    ASSUME EventsInv, VisitStatusFails
    PROVE  EventsInv'
<1> USE ProcFacts DEF EventsInv, TypeInv, At, Fail, VisitStatusFails
<1>1. PICK u \in Tags : /\ Tag(Visitor) = u /\ events[u] \in Ids \cup {None}
                        /\ job[Visitor].at \in {"check", "row"} => Visitor # Visitor
                        /\ Visitor \in Tags => Visitor = u
  BY BusyFacts DEF Tag, StateOk
<1>2. db' \in [Tags -> Statuses] /\ \A t \in Tags : t # u => db'[t] = db[t]
  BY <1>1 DEF StateOk, Statuses, SetEventStatus
<1>3. u \notin disturbed' /\ Fits(Visitor, u) => Settled(u)'
  BY <1>1 DEF StateOk, Fits, Gone, There, Settled, Open, Booked, poolVars,
    SetEventStatus, Disturb
<1> QED
  BY <1>1, <1>2, <1>3, QuietReturn DEF poolVars, eventVars, Disturb, StateOk

(* The hub: the new event is known to its creator only. *)
LEMMA CreateFromDBStep ==
    ASSUME EventsInv, NEW p \in Procs, CreateFromDB(p)
    PROVE  EventsInv'
<1> USE ProcFacts DEF EventsInv, TypeInv
<1>1. PICK u \in Tags : Tag(p) = u /\ job[p].addr \in Addrs \cup {None}
                        /\ job[p] \in Jobs /\ job[p].tag = u
  BY BusyFacts DEF CreateFromDB, At, Tag
<1>2. boot = "up" /\ job[p].at = "hub"
  BY DEF CreateFromDB, At
<1>3. PICK e \in Ids : /\ Fresh(e) /\ live' = live \cup {e}
                       /\ conf' = [conf EXCEPT ![e] = [tag |-> u, addr |-> job[p].addr]]
  BY <1>1 DEF CreateFromDB, NewEvent, NewHub
<1>4. e \notin live /\ live' \ live = {e}
  BY <1>3 DEF Fresh
<1> DEFINE j == [job[p] EXCEPT !.ev = e, !.addr = None, !.at = "pool"]
<1>5. job' = [job EXCEPT ![p] = j]
  BY <1>4 DEF CreateFromDB
<1>6. j \in Jobs /\ j.tag = u /\ j.at = "pool" /\ j.ev = e
  BY <1>1 DEF Jobs, Places
<1>7. UNCHANGED <<db, events, handlers, orphans, todo, boot, bootList, bootSuspended,
                  disturbed>>
  BY DEF CreateFromDB, poolVars, bootVars
<1> HIDE DEF j
<1>8. StateOk'
  BY <1>1, <1>3, <1>7 DEF StateOk
<1>9. JobsOk'
  BY <1>1, <1>2, <1>5, <1>6, <1>7, MoveJob
<1>10. DOMAIN job = Procs /\ job'[p] = j /\ \A q \in Procs : q # p => job'[q] = job[q]
  BY <1>5 DEF JobsOk
<1>11. Fits(p, u) => Fits(p, u)'
  BY <1>2, <1>6, <1>7, <1>10 DEF Fits, Gone, There
<1>12. UpInv'
  BY <1>1, <1>2, <1>5, <1>6, <1>7, <1>11, WorkUp
<1>13. \A x \in live : x # e /\ conf'[x] = conf[x]
  BY <1>3, <1>4 DEF StateOk
<1>14. conf'[e].tag = u
  BY <1>3 DEF StateOk
<1>15. (\A q \in Procs : Ev(q) # e) /\ (\A t \in Tags : events[t] # e)
  BY <1>3 DEF Fresh
<1>16. HeldInv'
  <2>1. SUFFICES ASSUME NEW q \in Procs, job'[q].at = "pool"
                 PROVE  /\ Ev(q)' \in live' /\ conf'[Ev(q)'].tag = Tag(q)'
                        /\ \A r \in Procs : r # q => Ev(r)' # Ev(q)'
                        /\ \A t \in Tags : events'[t] # Ev(q)'
    BY DEF HeldInv
  <2>2. CASE q = p
    BY <1>3, <1>6, <1>7, <1>10, <1>14, <1>15, <2>2 DEF Ev, Tag
  <2>3. CASE q # p
    <3>1. /\ Ev(q) \in live /\ conf[Ev(q)].tag = Tag(q)
          /\ \A r \in Procs : r # q => Ev(r) # Ev(q)
          /\ \A t \in Tags : events[t] # Ev(q)
      BY <1>10, <2>1, <2>3 DEF HeldInv
    <3>2. Ev(q)' = Ev(q) /\ Tag(q)' = Tag(q) /\ Ev(q) # e
      BY <1>10, <1>13, <2>3, <3>1 DEF Ev, Tag
    <3>3. \A r \in Procs : r # q => Ev(r)' # Ev(q)
      BY <1>6, <1>10, <3>1, <3>2 DEF Ev
    <3> QED
      BY <1>3, <1>7, <1>13, <3>1, <3>2, <3>3
  <2> QED
    BY <2>2, <2>3
<1>17. EventsKnown'
  <2>1. SUFFICES ASSUME NEW x \in live' \ orphans
                 PROVE  \/ events[conf'[x].tag] = x
                        \/ \E q \in Procs : Ev(q)' = x /\ job'[q].at \in {"pool", "close"}
                        \/ conf'[x].tag \in disturbed
    BY <1>7 DEF EventsKnown
  <2>2. CASE x = e
    BY <1>6, <1>10, <2>2 DEF Ev
  <2>3. CASE x \in live
    <3>1. ASSUME NEW q \in Procs, Ev(q) = x, job[q].at \in {"pool", "close"}
          PROVE  Ev(q)' = x /\ job'[q].at \in {"pool", "close"}
      BY <1>2, <1>10, <3>1 DEF Ev
    <3> QED
      BY <1>13, <2>3, <3>1 DEF EventsKnown
  <2> QED
    BY <1>3, <2>2, <2>3
<1>18. BootInv'
  BY <1>2, <1>7 DEF BootInv
<1> QED
  BY <1>8, <1>9, <1>12, <1>16, <1>17, <1>18

(* startEvent: it replaces an event of the tag only if operations overlapped. *)
LEMMA StartEventStep ==
    ASSUME EventsInv, NEW p \in Procs, StartEvent(p)
    PROVE  EventsInv'
<1> USE ProcFacts, IdleFacts DEF EventsInv, TypeInv
<1>1. PICK u \in Tags : Tag(p) = u /\ job[p] \in Jobs /\ job[p].tag = u
  BY BusyFacts DEF StartEvent, At, Tag
<1>2. boot = "up" /\ job[p].at = "pool"
  BY DEF StartEvent, At
<1>3. Ev(p) \in live /\ Ev(p) \in Ids /\ Ev(p) # None /\ conf[Ev(p)].tag = u
  BY <1>1, <1>2 DEF HeldInv, StateOk
<1> DEFINE j == IF p = Visitor THEN [job[p] EXCEPT !.ev = None, !.at = "status"] ELSE Idle
<1>4. job' = [job EXCEPT ![p] = j]
  BY DEF StartEvent, Return
<1>5. p = Visitor => j \in Jobs /\ j.tag = u /\ j.at = "status" /\ j.ev = None
  BY <1>1 DEF Jobs, Places
<1>6. p # Visitor => j = Idle /\ j.tag = None /\ j.at = "idle" /\ j.ev = None
  BY DEF Idle
<1>7. UNCHANGED <<db, conf, live, orphans, todo, boot, bootList, bootSuspended, disturbed>>
  BY DEF StartEvent, eventVars, bootVars
<1>8. /\ events' = [events EXCEPT ![u] = Ev(p)]
      /\ handlers' = [handlers EXCEPT ![u] = "event"]
  BY <1>1 DEF StartEvent
<1> HIDE DEF j
<1>9. StateOk'
  BY <1>3, <1>7, <1>8 DEF StateOk
<1>10. JobsOk'
  <2>1. CASE p = Visitor
    BY <1>1, <1>2, <1>4, <1>5, <1>7, <2>1, MoveJob
  <2>2. CASE p # Visitor
    BY <1>4, <1>6, <1>7, <2>2, ReturnJob DEF Return
  <2> QED
    BY <2>1, <2>2
<1>11. DOMAIN job = Procs /\ job'[p] = j /\ \A q \in Procs : q # p => job'[q] = job[q]
  BY <1>4 DEF JobsOk
<1>12. events'[u] = Ev(p) /\ \A t \in Tags : t # u => events'[t] = events[t]
  BY <1>8 DEF StateOk
<1>13. handlers'[u] = "event" /\ \A t \in Tags : t # u => handlers'[t] = handlers[t]
  BY <1>8 DEF StateOk
<1>14. Fits(p, u) => IF j.tag = None THEN Settled(u)' ELSE Fits(p, u)'
  <2>1. CASE p = Visitor
    BY <1>2, <1>3, <1>5, <1>7, <1>11, <1>12, <1>13, <2>1 DEF Fits, There
  <2>2. CASE p # Visitor
    BY <1>2, <1>3, <1>6, <1>7, <1>12, <1>13, <2>2 DEF Fits, There, Settled, Open
  <2> QED
    BY <2>1, <2>2
<1>15. UpInv'
  BY <1>1, <1>2, <1>4, <1>5, <1>6, <1>7, <1>12, <1>13, <1>14, WorkUp
<1>16. HeldInv'
  BY <1>4, <1>5, <1>6, <1>7, <1>12, WorkHeld
<1>17. EventsKnown'
  <2>1. SUFFICES ASSUME NEW x \in live \ orphans
                 PROVE  \/ events'[conf[x].tag] = x
                        \/ \E q \in Procs : Ev(q)' = x /\ job'[q].at \in {"pool", "close"}
                        \/ conf[x].tag \in disturbed
    BY <1>7 DEF EventsKnown
  <2>2. CASE events[conf[x].tag] = x
    <3>1. x # None /\ conf[x].tag \in Tags \cup {None}
      BY DEF StateOk
    <3>2. CASE conf[x].tag = u
      <4>1. u \in disturbed
        BY <1>1, <1>2, <2>2, <3>1, <3>2 DEF UpInv, Alone, Fits, Gone
      <4> QED
        BY <3>2, <4>1
    <3>3. CASE conf[x].tag # u
      <4>1. events'[conf[x].tag] = events[conf[x].tag]
        BY <1>8, <3>3 DEF StateOk
      <4> QED
        BY <2>2, <4>1
    <3> QED
      BY <3>2, <3>3
  <2>3. ASSUME NEW q \in Procs, Ev(q) = x, job[q].at \in {"pool", "close"}
        PROVE  \/ events'[conf[x].tag] = x
               \/ Ev(q)' = x /\ job'[q].at \in {"pool", "close"}
    BY <1>3, <1>11, <1>12, <2>3 DEF Ev
  <2> QED
    BY <2>1, <2>2, <2>3 DEF EventsKnown
<1>18. BootInv'
  BY <1>2, <1>7 DEF BootInv
<1> QED
  BY <1>9, <1>10, <1>15, <1>16, <1>17, <1>18

(* RemoveEvent: who takes the event of the pool is the one who closes it. *)
LEMMA RemoveEventStep ==
    ASSUME EventsInv, NEW p \in Procs, RemoveEvent(p)
    PROVE  EventsInv'
<1> USE ProcFacts, IdleFacts DEF EventsInv, TypeInv
<1>1. PICK u \in Tags : Tag(p) = u /\ job[p] \in Jobs /\ job[p].tag = u
  BY BusyFacts DEF RemoveEvent, At, Tag
<1>2. boot = "up" /\ job[p].at = "remove"
  BY DEF RemoveEvent, At
<1> DEFINE j == IF events[u] = None /\ p \in Clients THEN Idle
                ELSE [job[p] EXCEPT !.at = "close"]
<1>4. job' = [job EXCEPT ![p] = j]
  BY <1>1 DEF RemoveEvent, Return, Goto
<1>5. ~(events[u] = None /\ p \in Clients) =>
          j \in Jobs /\ j.tag = u /\ j.at = "close" /\ j.ev = Ev(p)
  BY <1>1 DEF Jobs, Places, Ev
<1>6. events[u] = None /\ p \in Clients =>
          j = Idle /\ j.tag = None /\ j.at = "idle" /\ j.ev = None
  BY DEF Idle
<1>7. UNCHANGED <<db, conf, live, orphans, todo, boot, bootList, bootSuspended, disturbed>>
  BY DEF RemoveEvent, eventVars, bootVars
<1>8. /\ events' = [events EXCEPT ![u] = None]
      /\ handlers' = IF events[u] = None THEN handlers
                     ELSE [handlers EXCEPT ![u] = "none"]
  BY <1>1 DEF RemoveEvent
<1> HIDE DEF j
<1>9. StateOk'
  BY <1>7, <1>8 DEF StateOk
<1>10. JobsOk'
  <2>1. CASE ~(events[u] = None /\ p \in Clients)
    BY <1>1, <1>2, <1>4, <1>5, <1>7, <2>1, MoveJob
  <2>2. CASE events[u] = None /\ p \in Clients
    BY <1>4, <1>6, <1>7, <2>2, ReturnJob DEF Return
  <2> QED
    BY <2>1, <2>2
<1>11. DOMAIN job = Procs /\ job'[p] = j /\ \A q \in Procs : q # p => job'[q] = job[q]
  BY <1>4 DEF JobsOk
<1>12. events'[u] = None /\ \A t \in Tags : t # u => events'[t] = events[t]
  BY <1>8 DEF StateOk
<1>13. /\ events[u] # None => handlers'[u] = "none"
       /\ \A t \in Tags : t # u => handlers'[t] = handlers[t]
  BY <1>8 DEF StateOk
<1>14. Fits(p, u) => IF j.tag = None THEN Settled(u)' ELSE Fits(p, u)'
  BY <1>2, <1>5, <1>7, <1>11, <1>12, <1>13 DEF Fits, There, Gone
<1>15. UpInv'
  BY <1>1, <1>2, <1>4, <1>5, <1>6, <1>7, <1>12, <1>13, <1>14, WorkUp
<1>16. HeldInv'
  BY <1>4, <1>5, <1>6, <1>7, <1>12, WorkHeld
<1>17. EventsKnown'
  <2>1. SUFFICES ASSUME NEW x \in live \ orphans
                 PROVE  \/ events'[conf[x].tag] = x
                        \/ \E q \in Procs : Ev(q)' = x /\ job'[q].at \in {"pool", "close"}
                        \/ conf[x].tag \in disturbed
    BY <1>7 DEF EventsKnown
  <2>2. CASE events[conf[x].tag] = x
    <3>1. x # None
      BY DEF StateOk
    <3>2. CASE conf[x].tag = u
      <4>1. u \in disturbed \/ Ev(p) = x
        BY <1>1, <1>2, <2>2, <3>2 DEF UpInv, Alone, Fits
      <4>2. j.at = "close" /\ j.ev = Ev(p)
        BY <1>5, <2>2, <3>1, <3>2
      <4>3. Ev(p)' = Ev(p) /\ job'[p].at = "close"
        BY <1>11, <4>2 DEF Ev
      <4> QED
        BY <3>2, <4>1, <4>3
    <3>3. CASE conf[x].tag # u
      <4>1. events'[conf[x].tag] = events[conf[x].tag]
        BY <1>8, <3>3 DEF StateOk
      <4> QED
        BY <2>2, <4>1
    <3> QED
      BY <3>2, <3>3
  <2>3. ASSUME NEW q \in Procs, Ev(q) = x, job[q].at \in {"pool", "close"}
        PROVE  Ev(q)' = x /\ job'[q].at \in {"pool", "close"}
    BY <1>2, <1>11, <2>3 DEF Ev
  <2> QED
    BY <2>1, <2>2, <2>3 DEF EventsKnown
<1>18. BootInv'
  BY <1>2, <1>7 DEF BootInv
<1> QED
  BY <1>9, <1>10, <1>15, <1>16, <1>17, <1>18

(* A crash leaves the database, and nothing in the pool that it could       *)
(* contradict.                                                             *)
LEMMA CrashStep ==
    ASSUME EventsInv, Crash, UNCHANGED db, live' \subseteq Ids
    PROVE  EventsInv'
<1> USE ProcFacts, IdleFacts DEF EventsInv, TypeInv
<1>1. JobsOk'
  BY DEF Crash, JobsOk, JobOk, Tag
<1>2. conf' \in [Ids -> [tag : Tags \cup {None}, addr : Addrs \cup {None}]]
  BY DEF NoConf, Crash
<1>3. StateOk'
  BY <1>2 DEF Crash, StateOk
<1>4. BootInv'
  BY DEF Crash, BootInv, Gone
<1>5. UpInv' /\ HeldInv' /\ EventsKnown'
  BY DEF Crash, UpInv, HeldInv, EventsKnown
<1> QED
  BY <1>1, <1>3, <1>4, <1>5

(* Close: what it closes is in nobody's hands but its own. *)
LEMMA CloseStep ==
    ASSUME EventsInv, NEW p \in Procs, Close(p)
    PROVE  EventsInv'
<1> USE ProcFacts DEF EventsInv, TypeInv
<1>1. PICK u \in Tags : Tag(p) = u /\ job[p] \in Jobs /\ job[p].tag = u
  BY BusyFacts DEF Close, At, Tag
<1>2. boot = "up" /\ job[p].at = "close"
  BY DEF Close, At
<1>3. CASE Ev(p) \notin live
  BY <1>3, CrashStep DEF Close, StateOk
<1>4. CASE Ev(p) \in live
  <2> DEFINE j == [job[p] EXCEPT !.ev = None, !.at = "finish"]
  <2>1. job' = [job EXCEPT ![p] = j]
    BY <1>4 DEF Close
  <2>2. j \in Jobs /\ j.tag = u /\ j.at = "finish" /\ j.ev = None
    BY <1>1 DEF Jobs, Places
  <2>3. UNCHANGED <<db, events, handlers, orphans, todo, boot, bootList, bootSuspended,
                    disturbed>>
    BY <1>4 DEF Close, poolVars, bootVars
  <2>4. live' = live \ {Ev(p)} /\ conf' = [conf EXCEPT ![Ev(p)] = NoConf]
    BY <1>4 DEF Close
  <2> HIDE DEF j
  <2>5. NoConf \in [tag : Tags \cup {None}, addr : Addrs \cup {None}]
    BY DEF NoConf
  <2>6. StateOk'
    BY <2>3, <2>4, <2>5 DEF StateOk
  <2>7. JobsOk'
    BY <1>1, <1>2, <2>1, <2>2, <2>3, MoveJob
  <2>8. DOMAIN job = Procs /\ job'[p] = j /\ \A q \in Procs : q # p => job'[q] = job[q]
    BY <2>1 DEF JobsOk
  <2>9. Fits(p, u) => Fits(p, u)'
    BY <1>2, <2>2, <2>3, <2>8 DEF Fits, Gone, There
  <2>10. UpInv'
    BY <1>1, <1>2, <2>1, <2>2, <2>3, <2>9, WorkUp
  <2>11. \A x \in live : x # Ev(p) => x \in live' /\ conf'[x] = conf[x]
    BY <2>4 DEF StateOk
  <2>12. HeldInv'
    BY <2>1, <2>2, <2>3, <2>11, WorkHeld
  <2>13. EventsKnown'
    <3>1. SUFFICES ASSUME NEW x \in live \ orphans, x # Ev(p)
                   PROVE  \/ events[conf[x].tag] = x
                          \/ \E q \in Procs : Ev(q)' = x /\ job'[q].at \in {"pool", "close"}
                          \/ conf[x].tag \in disturbed
      BY <2>3, <2>4, <2>11 DEF EventsKnown
    <3>2. ASSUME NEW q \in Procs, Ev(q) = x, job[q].at \in {"pool", "close"}
          PROVE  Ev(q)' = x /\ job'[q].at \in {"pool", "close"}
      BY <2>8, <3>1, <3>2 DEF Ev
    <3> QED
      BY <3>1, <3>2 DEF EventsKnown
  <2>14. BootInv'
    BY <1>2, <2>3 DEF BootInv
  <2> QED
    BY <2>6, <2>7, <2>10, <2>12, <2>13, <2>14
<1> QED
  BY <1>3, <1>4

-----------------------------------------------------------------------------
(* Calls of operators, and the two scheduled goroutines. *)

(* A call begins at a place that fits what it has seen. *)
LEMMA BeginStep ==
    ASSUME EventsInv, NEW p \in Clients, NEW t \in Tags,
           NEW place \in {"book", "addr", "drop", "get", "suspend", "resume"},
           Begin(p, t, place), UNCHANGED <<db, poolVars, eventVars, todo, bootVars>>,
           place \in {"book", "addr"} => db[t] \in {"none", "closed"},
           place = "drop" => db[t] \in Booked,
           place = "get" => db[t] \in Open,
           place \in {"suspend", "resume"} => events[t] # None
    PROVE  EventsInv'
<1> USE ProcFacts, IdleFacts DEF EventsInv, TypeInv
<1> DEFINE j == [Idle EXCEPT !.at = place, !.tag = t]
<1>1. /\ boot = "up" /\ job[p] = Idle /\ job' = [job EXCEPT ![p] = j]
      /\ disturbed' = IF Busy(t) = {} THEN disturbed ELSE disturbed \cup {t}
  BY DEF Begin
<1>2. j \in Jobs /\ j.tag = t /\ j.at = place /\ j.ev = None
  BY DEF Idle, Jobs, Places
<1>3. UNCHANGED <<db, events, handlers, conf, live, orphans, todo, boot, bootList, bootSuspended>>
  BY DEF poolVars, eventVars, bootVars
<1> HIDE DEF j
<1>4. p \in Procs /\ p # Visitor /\ p \notin Tags
  OBVIOUS
<1>5. StateOk'
  BY <1>1, <1>3 DEF StateOk
<1>6. JobOk(p, j)
  BY <1>2, <1>4 DEF JobOk
<1>7. JobsOk'
  BY <1>1, <1>3, <1>4, <1>6, SetJob
<1>8. DOMAIN job = Procs /\ job'[p] = j /\ \A q \in Procs : q # p => job'[q] = job[q]
  BY <1>1, <1>4 DEF JobsOk
<1>9. UpInv'
  <2>1. SUFFICES ASSUME NEW v \in Tags, v \notin disturbed' PROVE Alone(v)'
    BY DEF UpInv
  <2>2. Alone(v)
    BY <1>1, <2>1 DEF UpInv
  <2>3. CASE v # t
    <3>1. \A q \in Procs : Tag(q) = v \/ Tag(q)' = v => job'[q] = job[q]
      BY <1>1, <1>2, <1>8, <2>3 DEF Tag
    <3> QED
      BY <1>3, <1>8, <2>2, <2>3, <3>1, <1>7, OtherTag DEF JobsOk
  <2>4. CASE v = t
    <3>1. t \notin todo /\ \A q \in Procs : Tag(q) # t
      BY <1>1, <2>1, <2>4 DEF Busy, Tag
    <3>2. Settled(t)
      BY <2>2, <2>4, <3>1 DEF Alone
    <3>3. Fits(p, t)'
      BY <1>2, <1>3, <1>4, <1>8, <3>2 DEF Fits, Settled, There, Gone, Open, Booked
    <3>4. \A q \in Procs : Tag(q)' = t => q = p
      BY <1>8, <3>1 DEF Tag
    <3>5. Tag(p)' = t
      BY <1>2, <1>8 DEF Tag
    <3>6. Alone(t)'
      BY <1>3, <1>4, <3>1, <3>3, <3>4, <3>5 DEF Alone
    <3> QED
      BY <2>4, <3>6
  <2> QED
    BY <2>3, <2>4
<1>10. HeldInv'
  BY <1>1, <1>2, <1>3, <1>4, WorkHeld
<1>11. EventsKnown'
  BY <1>1, <1>3, <1>4, <1>8, WorkNotForgotten
<1>12. BootInv'
  BY <1>1, <1>3 DEF BootInv
<1> QED
  BY <1>5, <1>7, <1>9, <1>10, <1>11, <1>12

(* The three calls. *)
LEMMA CallStep ==
    ASSUME EventsInv, NEW p \in Clients, Call(p)
    PROVE  EventsInv'
<1>1. PICK t \in Tags : CreateEvent(p, t) \/ StopEvent(p, t) \/ SuspendEvent(p, t)
  BY DEF Call
<1>2. CASE CreateEvent(p, t)
  <2>1. PICK place \in {"book", "addr"} : Begin(p, t, place)
    BY <1>2 DEF CreateEvent
  <2> QED
    BY <1>2, <2>1, BeginStep DEF CreateEvent
<1>3. CASE StopEvent(p, t)
  <2>1. CASE db[t] \in Booked
    BY <1>3, <2>1, BeginStep DEF StopEvent
  <2>2. CASE db[t] \notin Booked
    BY <1>3, <2>2, BeginStep DEF StopEvent
  <2> QED
    BY <2>1, <2>2
<1>4. CASE SuspendEvent(p, t)
  <2>1. PICK place \in {"suspend", "resume"} : Begin(p, t, place)
    BY <1>4 DEF SuspendEvent
  <2> QED
    BY <1>4, <2>1, BeginStep DEF SuspendEvent
<1> QED
  BY <1>1, <1>2, <1>3, <1>4

(* A booked row that becomes due fits wherever the booked one did. *)
LEMMA StartTimePassesStep ==
    ASSUME EventsInv, NEW t \in Tags, StartTimePasses(t)
    PROVE  EventsInv'
<1> USE ProcFacts DEF EventsInv, TypeInv
<1>1. UNCHANGED <<events, handlers, conf, live, orphans, job, todo, boot, bootList,
                  bootSuspended, disturbed>>
  BY DEF StartTimePasses, poolVars, eventVars, bootVars
<1>2. db[t] = "booked" /\ db'[t] = "due" /\ \A v \in Tags : v # t => db'[v] = db[v]
  BY DEF StartTimePasses, StateOk
<1>3. StateOk'
  BY <1>1 DEF StartTimePasses, StateOk, Statuses
<1>4. JobsOk'
  BY <1>1 DEF JobsOk, Tag
<1>5. Settled(t) => Settled(t)'
  BY <1>1, <1>2 DEF Settled, There, Gone, Open
<1>6. UpInv'
  <2>1. SUFFICES ASSUME boot = "up", NEW v \in Tags, v \notin disturbed PROVE Alone(v)'
    BY <1>1 DEF UpInv
  <2>2. Alone(v)
    BY <2>1 DEF UpInv
  <2>3. CASE v # t
    BY <1>1, <1>2, <1>4, <2>2, <2>3, OtherTag DEF JobsOk
  <2>4. CASE v = t
    <3>1. \A q \in Procs : Tag(q) = t => Fits(q, t)'
      BY <1>1, <1>2, <2>2, <2>4 DEF Alone, Fits, There, Gone, Open, Booked, Ev
    <3>2. \A q \in Procs : Tag(q)' = Tag(q)
      BY <1>1 DEF Tag
    <3>3. t \notin todo'
      BY <1>1, <1>2, <2>2, <2>4 DEF Alone
    <3>4. Alone(t)'
      BY <1>1, <1>5, <2>2, <2>4, <3>1, <3>2, <3>3 DEF Alone
    <3> QED
      BY <2>4, <3>4
  <2> QED
    BY <2>3, <2>4
<1>7. \A v \in Tags : Settled(v) => Settled(v)'
  BY <1>1, <1>2, <1>5 DEF Settled, There, Gone
<1>8. BootInv'
  BY <1>1, <1>2, <1>7 DEF BootInv, StateOk, Gone, Open
<1>9. HeldInv' /\ EventsKnown'
  BY <1>1 DEF HeldInv, EventsKnown, Ev, Tag
<1> QED
  BY <1>3, <1>4, <1>6, <1>8, <1>9

(* The visit lists the rows that are due: nobody is at work on them, or    *)
(* the tag is disturbed.                                                   *)
LEMMA VisitBookedEventsStep ==
    ASSUME EventsInv, VisitBookedEvents
    PROVE  EventsInv'
<1> USE ProcFacts, IdleFacts DEF EventsInv, TypeInv
<1>1. /\ boot = "up" /\ job[Visitor] = Idle /\ todo = {}
      /\ todo' = {t \in Tags : db[t] = "due"}
      /\ disturbed' = disturbed \cup {t \in {v \in Tags : db[v] = "due"} : Busy(t) # {}}
  BY DEF VisitBookedEvents
<1>2. UNCHANGED <<db, events, handlers, conf, live, orphans, job, boot, bootList, bootSuspended>>
  BY DEF VisitBookedEvents, poolVars, eventVars, bootVars
<1>3. StateOk'
  BY <1>1, <1>2 DEF StateOk
<1>4. JobsOk'
  BY <1>1, <1>2 DEF JobsOk, Tag
<1>5. UpInv'
  <2>1. SUFFICES ASSUME NEW t \in Tags, t \notin disturbed' PROVE Alone(t)'
    BY DEF UpInv
  <2>2. Alone(t)
    BY <1>1, <2>1 DEF UpInv
  <2>3. CASE t \notin todo'
    BY <1>2, <1>4, <2>2, <2>3, OtherTag DEF JobsOk
  <2>4. CASE t \in todo'
    <3>1. \A q \in Procs : Tag(q) # t
      BY <1>1, <2>1, <2>4 DEF Busy, Tag
    <3>2. db[t] = "due" /\ Gone(t)
      BY <1>1, <2>2, <2>4, <3>1 DEF Alone, Settled, Open
    <3>3. \A q \in Procs : Tag(q)' # t
      BY <1>2, <3>1 DEF Tag
    <3> QED
      BY <1>2, <2>4, <3>2, <3>3 DEF Alone, Gone
  <2> QED
    BY <2>3, <2>4
<1>6. HeldInv' /\ EventsKnown'
  BY <1>1, <1>2 DEF HeldInv, EventsKnown, Ev, Tag
<1>7. BootInv'
  BY <1>1, <1>2 DEF BootInv
<1> QED
  BY <1>3, <1>4, <1>5, <1>6, <1>7

(* It takes the next one. *)
LEMMA VisitNextStep ==
    ASSUME EventsInv, NEW t \in Tags, VisitNext(t)
    PROVE  EventsInv'
<1> USE ProcFacts, IdleFacts DEF EventsInv, TypeInv
<1> DEFINE j == [Idle EXCEPT !.at = "addr", !.tag = t]
<1>1. /\ boot = "up" /\ job[Visitor] = Idle /\ t \in todo
      /\ job' = [job EXCEPT ![Visitor] = j] /\ todo' = todo \ {t}
  BY DEF VisitNext
<1>2. UNCHANGED <<db, events, handlers, conf, live, orphans, boot, bootList, bootSuspended,
                  disturbed>>
  BY DEF VisitNext, poolVars, eventVars, bootVars
<1>3. j \in Jobs /\ j.tag = t /\ j.at = "addr" /\ j.ev = None
  BY DEF Idle, Jobs, Places
<1> HIDE DEF j
<1>4. StateOk'
  BY <1>1, <1>2 DEF StateOk
<1>5. JobOk(Visitor, j)
  BY <1>3 DEF JobOk
<1>6. JobsOk'
  BY <1>1, <1>3, <1>5, SetJob
<1>7. /\ DOMAIN job = Procs /\ job'[Visitor] = j
      /\ \A q \in Procs : q # Visitor => job'[q] = job[q]
  BY <1>1 DEF JobsOk
<1>8. UpInv'
  <2>1. SUFFICES ASSUME NEW v \in Tags, v \notin disturbed PROVE Alone(v)'
    BY <1>2 DEF UpInv
  <2>2. Alone(v)
    BY <1>1, <2>1 DEF UpInv
  <2>3. CASE v # t
    <3>1. \A q \in Procs : Tag(q) = v \/ Tag(q)' = v => job'[q] = job[q]
      BY <1>1, <1>3, <1>7, <2>3 DEF Tag
    <3> QED
      BY <1>1, <1>2, <1>6, <1>7, <2>2, <2>3, <3>1, OtherTag DEF JobsOk
  <2>4. CASE v = t
    <3>1. Gone(t) /\ db[t] = "due" /\ \A q \in Procs : Tag(q) # t
      BY <1>1, <2>2, <2>4 DEF Alone
    <3>2. Fits(Visitor, t)'
      BY <1>2, <1>3, <1>7, <3>1 DEF Fits, There, Gone
    <3>3. \A q \in Procs : Tag(q)' = t <=> q = Visitor
      BY <1>3, <1>7, <3>1 DEF Tag
    <3>4. Alone(t)'
      BY <1>1, <3>2, <3>3 DEF Alone
    <3> QED
      BY <2>4, <3>4
  <2> QED
    BY <2>3, <2>4
<1>9. HeldInv'
  BY <1>1, <1>2, <1>3, WorkHeld
<1>10. EventsKnown'
  BY <1>1, <1>2, <1>7, WorkNotForgotten
<1>11. BootInv'
  BY <1>1, <1>2 DEF BootInv
<1> QED
  BY <1>4, <1>6, <1>8, <1>9, <1>10, <1>11

(* closeEvents starts a goroutine per overdue event. *)
LEMMA CloseEventsStep ==
    ASSUME EventsInv, CloseEvents
    PROVE  EventsInv'
<1> USE ProcFacts, IdleFacts DEF EventsInv, TypeInv
<1> DEFINE Closer(t) == [Idle EXCEPT !.at = "get", !.tag = t]
<1>1. boot = "up" /\ \A t \in Tags : job[t] = Idle
  BY DEF CloseEvents
<1>2. UNCHANGED <<db, events, handlers, conf, live, orphans, todo, boot, bootList, bootSuspended>>
  BY DEF CloseEvents, poolVars, eventVars, bootVars
<1>3. PICK overdue \in SUBSET Tags :
         /\ \A t \in overdue : events[t] # None
         /\ job' = [q \in Procs |-> IF q \in overdue THEN Closer(q) ELSE job[q]]
         /\ disturbed' = disturbed \cup {t \in overdue : Busy(t) # {}}
  BY DEF CloseEvents
<1>4. \A t \in Tags : /\ Closer(t) \in Jobs /\ Closer(t).tag = t
                      /\ Closer(t).at = "get" /\ Closer(t).ev = None
  BY DEF Idle, Jobs, Places
<1> HIDE DEF Closer
<1>5. \A t \in Tags : JobOk(t, Closer(t))
  BY <1>4 DEF JobOk
<1>6. StateOk'
  BY <1>2, <1>3 DEF StateOk
<1>7. /\ DOMAIN job' = Procs /\ \A q \in overdue : job'[q] = Closer(q)
      /\ \A q \in Procs : q \notin overdue => job'[q] = job[q]
  BY <1>3
<1>8. JobsOk'
  BY <1>2, <1>3, <1>5, <1>7 DEF JobsOk, Tag
<1>9. \A q \in overdue : Tag(q)' = q /\ Ev(q)' = None /\ job'[q].at = "get" /\ job[q] = Idle
  BY <1>1, <1>3, <1>4, <1>7 DEF Tag, Ev
<1>10. UpInv'
  <2>1. SUFFICES ASSUME NEW t \in Tags, t \notin disturbed' PROVE Alone(t)'
    BY DEF UpInv
  <2>2. Alone(t)
    BY <1>1, <1>3, <2>1 DEF UpInv
  <2>3. CASE t \notin overdue
    <3>1. \A q \in Procs : Tag(q) = t \/ Tag(q)' = t => job'[q] = job[q]
      BY <1>7, <1>9, <2>3 DEF Tag
    <3> QED
      BY <1>2, <1>7, <2>2, <3>1, OtherTag DEF JobsOk
  <2>4. CASE t \in overdue
    <3>1. t \notin todo /\ \A q \in Procs : Tag(q) # t
      BY <1>3, <2>1, <2>4 DEF Busy, Tag
    <3>2. There(t) /\ db[t] \in Open
      BY <1>3, <2>2, <2>4, <3>1 DEF Alone, Settled, Gone
    <3>3. \A q \in Procs : Tag(q)' = t <=> q = t
      BY <1>7, <1>9, <2>4, <3>1 DEF Tag
    <3>4. Fits(t, t)'
      BY <1>2, <1>9, <2>4, <3>2 DEF Fits, There
    <3> QED
      BY <1>2, <3>1, <3>3, <3>4 DEF Alone
  <2> QED
    BY <2>3, <2>4
<1>11. HeldInv'
  <2>1. SUFFICES ASSUME NEW q \in Procs, job'[q].at = "pool"
                 PROVE  /\ Ev(q)' \in live' /\ conf'[Ev(q)'].tag = Tag(q)'
                        /\ \A r \in Procs : r # q => Ev(r)' # Ev(q)'
                        /\ \A t \in Tags : events'[t] # Ev(q)'
    BY DEF HeldInv
  <2>2. q \notin overdue /\ job'[q] = job[q]
    BY <1>7, <1>9, <2>1
  <2>3. /\ Ev(q) \in live /\ conf[Ev(q)].tag = Tag(q)
        /\ \A r \in Procs : r # q => Ev(r) # Ev(q)
        /\ \A t \in Tags : events[t] # Ev(q)
    BY <2>1, <2>2 DEF HeldInv
  <2>4. Ev(q)' = Ev(q) /\ Tag(q)' = Tag(q) /\ Ev(q) # None
    BY <2>2, <2>3 DEF Ev, Tag, StateOk
  <2>5. \A r \in Procs : r # q => Ev(r)' # Ev(q)
    BY <1>7, <1>9, <2>3, <2>4 DEF Ev
  <2> QED
    BY <1>2, <2>3, <2>4, <2>5
<1>12. EventsKnown'
  <2>1. SUFFICES ASSUME NEW x \in live \ orphans
                 PROVE  \/ events[conf[x].tag] = x
                        \/ \E q \in Procs : Ev(q)' = x /\ job'[q].at \in {"pool", "close"}
                        \/ conf[x].tag \in disturbed'
    BY <1>2 DEF EventsKnown
  <2>2. ASSUME NEW q \in Procs, Ev(q) = x, job[q].at \in {"pool", "close"}
        PROVE  Ev(q)' = x /\ job'[q].at \in {"pool", "close"}
    BY <1>7, <1>9, <2>2 DEF Ev
  <2> QED
    BY <1>3, <2>1, <2>2 DEF EventsKnown
<1>13. BootInv'
  BY <1>1, <1>2 DEF BootInv
<1> QED
  BY <1>6, <1>8, <1>10, <1>11, <1>12, <1>13

-----------------------------------------------------------------------------
(* New. *)

(* It reads what is open while the pool is empty. *)
LEMMA NewStep ==
    ASSUME EventsInv, New
    PROVE  EventsInv'
<1> USE DEF EventsInv, TypeInv
<1>1. UNCHANGED <<db, events, handlers, conf, live, orphans, job, todo, disturbed>>
  BY DEF New, poolVars, eventVars
<1>2. /\ boot = "down" /\ boot' = "load" /\ bootList' = {t \in Tags : db[t] \in Open}
      /\ bootSuspended' = {t \in Tags : db[t] = "suspended"}
  BY DEF New
<1>3. StateOk'
  BY <1>1, <1>2 DEF StateOk
<1>4. JobsOk'
  BY <1>1 DEF JobsOk, Tag
<1>5. \A t \in Tags : Gone(t)'
  BY <1>1, <1>2 DEF BootInv, Gone
<1>6. BootInv'
  BY <1>1, <1>2, <1>5 DEF BootInv, Settled, Open
<1>7. UpInv' /\ HeldInv' /\ EventsKnown'
  BY <1>1, <1>2 DEF UpInv, HeldInv, EventsKnown, Ev, Tag
<1> QED
  BY <1>3, <1>4, <1>6, <1>7

(* The labs of dead daemons are removed. *)
LEMMA CleanUpStep ==
    ASSUME EventsInv, CleanUp
    PROVE  EventsInv'
<1> USE DEF EventsInv, TypeInv
<1>1. UNCHANGED <<db, events, handlers, conf, job, todo, boot, bootList, bootSuspended,
                  disturbed>>
  BY DEF CleanUp, poolVars, bootVars
<1>2. boot = "down" /\ live' = {} /\ orphans' = {}
  BY DEF CleanUp
<1>3. StateOk' /\ JobsOk'
  BY <1>1, <1>2 DEF StateOk, JobsOk, Tag
<1>4. BootInv'
  BY <1>1, <1>2 DEF BootInv, Gone
<1>5. job = [p \in Procs |-> Idle]
  BY <1>2 DEF BootInv
<1>6. UpInv' /\ HeldInv' /\ EventsKnown'
  BY <1>1, <1>2, <1>5, IdleFacts DEF UpInv, HeldInv, EventsKnown
<1> QED
  BY <1>3, <1>4, <1>6

(* It creates an event that was open. *)
LEMMA BootLoadStep ==
    ASSUME EventsInv, NEW t \in Tags, NEW a \in Addrs \cup {None}, BootLoad(t, a)
    PROVE  EventsInv'
<1> USE ProcFacts, IdleFacts DEF EventsInv, TypeInv
<1>1. UNCHANGED <<orphans, job, todo, boot, bootSuspended, disturbed>>
  BY DEF BootLoad
<1>2. boot = "load" /\ t \in bootList /\ bootList' = bootList \ {t}
  BY DEF BootLoad
<1>3. PICK e \in Ids : /\ Fresh(e) /\ live' = live \cup {e}
                       /\ conf' = [conf EXCEPT ![e] = [tag |-> t, addr |-> a]]
  BY DEF BootLoad, NewEvent, NewHub
<1>4. e \notin live /\ live' \ live = {e}
  BY <1>3 DEF Fresh
<1>5. /\ events' = [events EXCEPT ![t] = e] /\ handlers' = [handlers EXCEPT ![t] = "event"]
      /\ db' = [db EXCEPT ![t] = "running"]
  BY <1>4 DEF BootLoad
<1>6. StateOk'
  BY <1>1, <1>2, <1>3, <1>5 DEF StateOk, Statuses
<1>7. JobsOk'
  BY <1>1 DEF JobsOk, Tag
<1>8. /\ events'[t] = e /\ handlers'[t] = "event" /\ db'[t] = "running"
      /\ \A v \in Tags : v # t => /\ events'[v] = events[v] /\ handlers'[v] = handlers[v]
                                 /\ db'[v] = db[v]
  BY <1>5 DEF StateOk
<1>9. Settled(t)'
  BY <1>8 DEF Settled, There, Open
<1>10. \A v \in Tags : v # t => /\ Settled(v) => Settled(v)'
                                /\ Gone(v) => Gone(v)'
  BY <1>8 DEF Settled, There, Gone
<1>11. /\ \A v \in bootList' : Gone(v)' /\ db'[v] \in Open
       /\ \A v \in Tags \ bootList' : Settled(v)'
       /\ \A v \in bootSuspended' : db'[v] \in Open
  <2>1. \A v \in bootList' : v \in Tags /\ v # t /\ Gone(v) /\ db[v] \in Open
    BY <1>2 DEF BootInv, StateOk
  <2>2. \A v \in Tags \ bootList' : v # t => Settled(v)
    BY <1>2 DEF BootInv
  <2>3. \A v \in bootSuspended' : v \in Tags /\ db[v] \in Open
    BY <1>1, <1>2 DEF BootInv, StateOk
  <2>4. db'[t] \in Open
    BY <1>8 DEF Open
  <2> QED
    BY <1>8, <1>9, <1>10, <2>1, <2>2, <2>3, <2>4 DEF Settled, There, Gone
<1>12. job = [p \in Procs |-> Idle] /\ disturbed = {} /\ todo = {}
  BY <1>2 DEF BootInv
<1>13. BootInv'
  BY <1>1, <1>2, <1>11, <1>12 DEF BootInv
<1>14. UpInv' /\ HeldInv'
  BY <1>1, <1>2, <1>12 DEF UpInv, HeldInv
<1>15. EventsKnown'
  <2>1. SUFFICES ASSUME NEW x \in live' \ orphans PROVE events'[conf'[x].tag] = x
    BY <1>1 DEF EventsKnown
  <2>2. CASE x = e
    BY <1>3, <1>8, <2>2 DEF StateOk
  <2>3. CASE x \in live
    <3>1. x # None /\ conf'[x] = conf[x]
      BY <1>3, <1>4, <2>3 DEF StateOk
    <3>2. events[conf[x].tag] = x
      BY <1>12, <2>3 DEF EventsKnown
    <3>3. conf[x].tag # t
      BY <1>2, <3>1, <3>2 DEF BootInv, Gone
    <3>4. events'[conf[x].tag] = events[conf[x].tag]
      BY <1>5, <3>3 DEF StateOk
    <3> QED
      BY <3>1, <3>2, <3>4
  <2> QED
    BY <1>3, <2>2, <2>3
<1> QED
  BY <1>6, <1>7, <1>13, <1>14, <1>15

(* A suspended event is served before and after the status is written. *)
LEMMA BootSuspendStep ==
    ASSUME EventsInv, NEW t \in Tags, BootSuspend(t)
    PROVE  EventsInv'
<1> USE DEF EventsInv, TypeInv
<1>1. UNCHANGED <<events, handlers, conf, live, orphans, job, todo, boot, bootList, disturbed>>
  BY DEF BootSuspend, poolVars, eventVars
<1>2. boot = "load" /\ bootList = {} /\ t \in bootSuspended
      /\ bootSuspended' = bootSuspended \ {t}
  BY DEF BootSuspend
<1>3. StateOk'
  BY <1>1, <1>2 DEF BootSuspend, StateOk, Statuses
<1>4. db[t] \in Open /\ \A v \in Tags : Settled(v)
  BY <1>2 DEF BootInv
<1>5. db'[t] \in Open /\ \A v \in Tags : v # t => db'[v] = db[v]
  BY <1>4 DEF BootSuspend, StateOk, Open
<1>6. \A v \in Tags : Settled(v)'
  BY <1>1, <1>4, <1>5 DEF Settled, There, Gone
<1>7. \A v \in bootSuspended' : db'[v] \in Open
  BY <1>2, <1>5 DEF BootInv, StateOk
<1>8. BootInv'
  BY <1>1, <1>2, <1>6, <1>7 DEF BootInv
<1>9. JobsOk'
  BY <1>1 DEF JobsOk, Tag
<1>10. UpInv' /\ HeldInv' /\ EventsKnown'
  BY <1>1, <1>2 DEF UpInv, HeldInv, EventsKnown, Ev, Tag
<1> QED
  BY <1>3, <1>8, <1>9, <1>10

(* When New is done, pool and database agree on every tag. *)
LEMMA BootDoneStep ==
    ASSUME EventsInv, BootDone
    PROVE  EventsInv'
<1> USE ProcFacts, IdleFacts DEF EventsInv, TypeInv
<1>1. UNCHANGED <<db, events, handlers, conf, live, orphans, job, todo, bootList, bootSuspended,
                  disturbed>>
  BY DEF BootDone, poolVars, eventVars
<1>2. boot = "load" /\ boot' = "up" /\ bootList = {} /\ bootSuspended = {}
  BY DEF BootDone
<1>3. StateOk'
  BY <1>1, <1>2 DEF StateOk
<1>4. JobsOk'
  BY <1>1 DEF JobsOk, Tag
<1>5. /\ job = [p \in Procs |-> Idle] /\ todo = {}
      /\ \A t \in Tags : Settled(t)
  BY <1>2 DEF BootInv
<1>6. \A t \in Tags : Settled(t)' /\ \A p \in Procs : Tag(p)' # t
  BY <1>1, <1>5 DEF Settled, There, Gone, Tag
<1>7. UpInv'
  BY <1>1, <1>5, <1>6 DEF UpInv, Alone
<1>8. BootInv'
  BY <1>2 DEF BootInv
<1>9. HeldInv' /\ EventsKnown'
  BY <1>1 DEF HeldInv, EventsKnown, Ev, Tag
<1> QED
  BY <1>3, <1>4, <1>7, <1>8, <1>9

-----------------------------------------------------------------------------

(* Every step keeps the invariant. *)
LEMMA EventsInvStep == EventsInv /\ [Next]_vars => EventsInv'
<1> SUFFICES ASSUME EventsInv, [Next]_vars PROVE EventsInv'
  OBVIOUS
<1>1. ASSUME NEW p \in Procs, Step(p) PROVE EventsInv'
  BY <1>1, BookEventStep, GetVPNIPStep, GetVPNIPStuckStep, CheckPoolStep, AddRowStep,
    AddRowFailsStep,
    CreateFromDBStep, CreateFromDBFailsStep, StartEventStep, DropEventStep,
    GetEventStep, SetClosedStep, SetClosedFailsStep, RemoveEventStep, CloseStep,
    FinishStep, SuspendStep, ResumeStep, SetHandlerStep DEF Step
<1>2. CASE Visit
  BY <1>2, VisitBookedEventsStep, VisitNextStep, VisitStatusStep, VisitStatusFailsStep
  DEF Visit
<1>3. CASE Boot
  <2>1. ASSUME BootFails PROVE EventsInv'
    <3>1. live' \subseteq Ids
      BY <2>1 DEF BootFails, NewHub, EventsInv, TypeInv, StateOk
    <3> QED
      BY <2>1, <3>1, CrashStep DEF BootFails
  <2> QED
    BY <1>3, <2>1, CleanUpStep, NewStep, BootDoneStep, BootSuspendStep, BootLoadStep
    DEF Boot
<1>0. live \subseteq Ids
  BY DEF EventsInv, TypeInv, StateOk
<1>4. ASSUME NEW p \in Procs, HandlerRace(p) PROVE EventsInv'
  BY <1>0, <1>4, CrashStep DEF HandlerRace
<1>5. CASE Die
  BY <1>0, <1>5, CrashStep DEF Die
<1>6. CASE UNCHANGED vars
  BY <1>6 DEF vars, EventsInv, TypeInv, StateOk, JobsOk, Tag, UpInv, Alone, Fits, Ev,
    Settled, There, Gone, BootInv, HeldInv, EventsKnown
<1> QED
  BY <1>1, <1>2, <1>3, <1>4, <1>5, <1>6, CallStep, StartTimePassesStep, GetOverdueStep,
    CloseEventsStep DEF Next

(* The invariant of the daemon, over crashes and restarts. *)
THEOREM EventsInvariant == Spec => []EventsInv
<1>1. Init => EventsInv
  BY EventsInvInit
<1>2. EventsInv /\ [Next]_vars => EventsInv'
  BY EventsInvStep
<1> QED
  BY <1>1, <1>2, PTL DEF Spec

(* The pool serves what the database says is running or suspended, also    *)
(* after any restart, unless operations on the tag overlapped or a failure *)
(* left work half done since then: CreateEvent, StopEvent, closeEvents and *)
(* visitBookedEvents write row and pool in several steps, and New puts     *)
(* right whatever a crash in between has left.                             *)
THEOREM PoolAndStoreAgree == Spec => []PoolMatchesStore
<1>1. EventsInv => PoolMatchesStore
  <2> SUFFICES ASSUME EventsInv, NEW t \in Tags,
                      boot = "up", Busy(t) = {}, t \notin disturbed
               PROVE  /\ events[t] # None <=> db[t] \in Open
                      /\ handlers[t] # "none" <=> events[t] # None
    BY DEF PoolMatchesStore
  <2>1. t \notin todo /\ \A p \in Procs : Tag(p) # t
    BY DEF Busy, Tag
  <2>2. Settled(t)
    BY <2>1 DEF EventsInv, UpInv, Alone
  <2> QED
    BY <2>2 DEF Settled, There, Gone
<1> QED
  BY <1>1, EventsInvariant, PTL

(* What was an orphan stays one, and nobody finds it. *)
LEMMA StillApart ==
    ASSUME TypeInv, OrphansApart, UNCHANGED orphans, orphans \subseteq live',
           \A t \in Tags : events'[t] \notin orphans,
           \A p \in Procs : job'[p].ev \notin orphans
    PROVE  OrphansApart'
BY DEF OrphansApart, Ev

(* Whatever a goroutine or the pool refers to is handed on, not found.     *)
LEMMA HandedOn ==
    ASSUME TypeInv, OrphansApart, UNCHANGED <<live, orphans>>,
           \A t \in Tags : \/ events'[t] = None
                           \/ \E x \in Tags : events'[t] = events[x]
                           \/ \E q \in Procs : events'[t] = job[q].ev,
           \A p \in Procs : \/ job'[p].ev = None
                            \/ \E x \in Tags : job'[p].ev = events[x]
                            \/ \E q \in Procs : job'[p].ev = job[q].ev
    PROVE  OrphansApart'
<1>1. None \notin orphans
  BY ProcFacts DEF OrphansApart, TypeInv, StateOk
<1>2. \A t \in Tags : events'[t] \notin orphans
  BY <1>1 DEF OrphansApart, Ev
<1>3. \A p \in Procs : job'[p].ev \notin orphans
  BY <1>1 DEF OrphansApart, Ev
<1> QED
  BY <1>2, <1>3, StillApart DEF OrphansApart

(* After a crash nobody refers to anything. *)
LEMMA CrashApart ==
    ASSUME Crash, live' \subseteq Ids
    PROVE  OrphansApart'
BY ProcFacts DEF Crash, OrphansApart, Ev, Idle

(* The orphans stay apart. *)
LEMMA OrphansApartStep ==
    ASSUME EventsInv, OrphansApart, [Next]_vars
    PROVE  OrphansApart'
<1> USE ProcFacts DEF poolVars, eventVars, bootVars
<1> DEFINE Jev(q) == \/ job'[q].ev = None \/ job'[q].ev = job[q].ev
                     \/ \E x \in Tags : job'[q].ev = events[x]
           Eev(t) == \/ events'[t] = None \/ events'[t] = events[t]
                     \/ \E q \in Procs : events'[t] = job[q].ev
           Handed == /\ UNCHANGED <<live, orphans>>
                     /\ \A q \in Procs : Jev(q)
                     /\ \A t \in Tags : Eev(t)
<1>1. /\ TypeInv /\ DOMAIN job = Procs /\ \A q \in Procs : job[q] \in Jobs
      /\ live \subseteq Ids /\ events \in [Tags -> Ids \cup {None}]
  BY DEF EventsInv, TypeInv, StateOk, JobsOk, JobOk
<1>2. Idle.ev = None
  BY DEF Idle
<1>3. Handed => OrphansApart'
  BY <1>1, HandedOn
<1> HIDE DEF Handed
<1>4. ASSUME NEW p \in Procs, Step(p) PROVE OrphansApart'
  <2> USE <1>1, <1>2 DEF Jobs, Handed, Goto, Return, Tag, Ev
  <2>1. ASSUME BookEvent(p) PROVE Handed
    BY <2>1 DEF BookEvent
  <2>2. ASSUME GetVPNIPStuck(p) PROVE Handed
    BY <2>2 DEF GetVPNIPStuck
  <2>3. ASSUME CheckPool(p) PROVE Handed
    BY <2>3 DEF CheckPool
  <2>4. ASSUME AddRow(p) PROVE Handed
    BY <2>4 DEF AddRow
  <2>5. ASSUME AddRowFails(p) PROVE Handed
    BY <2>5 DEF AddRowFails
  <2>6. ASSUME StartEvent(p) PROVE Handed
    BY <2>6 DEF StartEvent
  <2>7. ASSUME DropEvent(p) PROVE Handed
    BY <2>7 DEF DropEvent
  <2>8. ASSUME GetEvent(p) PROVE Handed
    <3>1. /\ UNCHANGED <<events, live, orphans>>
          /\ events[Tag(p)] \in {events[x] : x \in Tags} \cup {None}
      BY <2>8 DEF GetEvent, EventsInv, TypeInv, JobsOk, JobOk, At, Idle
    <3>2. \A q \in Procs : job'[q].ev \in {None, job[q].ev, events[Tag(p)]}
      BY <2>8 DEF GetEvent
    <3> QED
      BY <3>1, <3>2
  <2>9. ASSUME SetClosed(p) PROVE Handed
    BY <2>9 DEF SetClosed
  <2>10. ASSUME SetClosedFails(p) PROVE Handed
    BY <2>10 DEF SetClosedFails
  <2>11. ASSUME RemoveEvent(p) PROVE Handed
    BY <2>11 DEF RemoveEvent
  <2>12. ASSUME Finish(p) PROVE Handed
    BY <2>12 DEF Finish
  <2>13. ASSUME Suspend(p) PROVE Handed
    BY <2>13 DEF Suspend
  <2>14. ASSUME Resume(p) PROVE Handed
    BY <2>14 DEF Resume
  <2>15. ASSUME SetHandler(p) PROVE Handed
    BY <2>15 DEF SetHandler
  <2>16. ASSUME NEW a \in Addrs \cup {None}, GetVPNIP(p, a) PROVE Handed
    BY <2>16 DEF GetVPNIP
  <2>17. ASSUME CreateFromDB(p) PROVE OrphansApart'
    <3>1. PICK e \in Ids : e \notin live /\ live' = live \cup {e}
      BY <2>17 DEF CreateFromDB, NewEvent, NewHub, Fresh
    <3>2. /\ UNCHANGED <<orphans, events>>
          /\ \A q \in Procs : job'[q].ev \in {e, job[q].ev}
      BY <2>17, <3>1 DEF CreateFromDB
    <3>3. e \notin orphans /\ orphans \subseteq live'
      BY <3>1 DEF OrphansApart
    <3>4. \A q \in Procs : job'[q].ev \notin orphans
      BY <3>2, <3>3 DEF OrphansApart
    <3>5. \A t \in Tags : events'[t] \notin orphans
      BY <3>2 DEF OrphansApart
    <3> QED
      BY <3>2, <3>3, <3>4, <3>5, StillApart
  <2>18. ASSUME CreateFromDBFails(p) PROVE OrphansApart'
    <3>1. UNCHANGED events /\ \A q \in Procs : job'[q].ev \in {None, job[q].ev}
      BY <2>18 DEF CreateFromDBFails
    <3>2. CASE UNCHANGED <<live, orphans>>
      BY <1>3, <3>1, <3>2
    <3>3. CASE \E e \in Ids : NewHub(e) /\ orphans' = orphans \cup {e}
      <4>1. PICK e \in Ids : NewHub(e) /\ orphans' = orphans \cup {e}
        BY <3>3
      <4>2. /\ live' = live \cup {e}
            /\ \A t \in Tags : events'[t] # e
            /\ \A q \in Procs : job'[q].ev # e
        BY <3>1, <4>1, ProcFacts DEF NewHub, Fresh
      <4>3. None \notin orphans
        BY DEF OrphansApart
      <4> QED
        BY <3>1, <4>1, <4>2, <4>3 DEF OrphansApart
    <3> QED
      BY <2>18, <3>2, <3>3 DEF CreateFromDBFails
  <2>19. ASSUME Close(p) PROVE OrphansApart'
    <3>1. CASE Ev(p) \in live
      <4>1. /\ UNCHANGED <<orphans, events>> /\ live' = live \ {Ev(p)}
            /\ \A q \in Procs : job'[q].ev \in {None, job[q].ev}
        BY <2>19, <3>1 DEF Close
      <4>2. None \notin orphans /\ orphans \subseteq live'
        BY <4>1 DEF OrphansApart
      <4>3. \A q \in Procs : job'[q].ev \notin orphans
        BY <4>1, <4>2 DEF OrphansApart
      <4>4. \A t \in Tags : events'[t] \notin orphans
        BY <4>1 DEF OrphansApart
      <4> QED
        BY <4>1, <4>2, <4>3, <4>4, StillApart
    <3>2. CASE Ev(p) \notin live
      BY <2>19, <3>2, CrashApart DEF Close
    <3> QED
      BY <3>1, <3>2
  <2> QED
    BY <1>3, <1>4, <2>1, <2>2, <2>3, <2>4, <2>5, <2>6, <2>7, <2>8, <2>9, <2>10,
      <2>11, <2>12, <2>13, <2>14, <2>15, <2>16, <2>17, <2>18, <2>19 DEF Step
<1>5. ASSUME NEW p \in Clients, Call(p) PROVE Handed
  <2>1. PICK t \in Tags : CreateEvent(p, t) \/ StopEvent(p, t) \/ SuspendEvent(p, t)
    BY <1>5 DEF Call
  <2>2. UNCHANGED <<events, live, orphans>> /\ \E place : Begin(p, t, place)
    BY <2>1 DEF CreateEvent, StopEvent, SuspendEvent
  <2>3. \A q \in Procs : job'[q].ev \in {None, job[q].ev}
    BY <1>1, <1>2, <2>2 DEF Begin, Idle
  <2> QED
    BY <2>2, <2>3 DEF Handed
<1>6. ASSUME Visit PROVE Handed
  BY <1>1, <1>2, <1>6 DEF Handed, Visit, VisitBookedEvents, VisitNext, VisitStatus,
    VisitStatusFails, Return, Idle
<1>7. ASSUME NEW t \in Tags, StartTimePasses(t) \/ GetOverdue(t) PROVE Handed
  BY <1>1, <1>7 DEF Handed, StartTimePasses, GetOverdue, Jobs
<1>8. ASSUME CloseEvents PROVE Handed
  <2>1. UNCHANGED <<events, live, orphans>>
    BY <1>8 DEF CloseEvents
  <2>2. \A q \in Procs : job'[q].ev \in {None, job[q].ev}
    <3>1. PICK overdue : job' = [p \in Procs |-> IF p \in overdue
                                                 THEN [Idle EXCEPT !.at = "get", !.tag = p]
                                                 ELSE job[p]]
      BY <1>8 DEF CloseEvents
    <3> QED
      BY <3>1 DEF Idle
  <2> QED
    BY <2>1, <2>2 DEF Handed
<1>9. ASSUME Boot PROVE OrphansApart'
  <2>1. ASSUME CleanUp PROVE OrphansApart'
    BY <2>1 DEF CleanUp, OrphansApart
  <2>2. ASSUME New \/ BootDone PROVE Handed
    BY <2>2 DEF Handed, New, BootDone
  <2>3. ASSUME NEW t \in Tags, BootSuspend(t) PROVE Handed
    BY <2>3 DEF Handed, BootSuspend
  <2>4. ASSUME BootFails PROVE OrphansApart'
    BY <1>1, <2>4, CrashApart DEF BootFails, NewHub
  <2>5. ASSUME NEW t \in Tags, NEW a \in Addrs \cup {None}, BootLoad(t, a)
        PROVE  OrphansApart'
    <3>1. PICK e \in Ids : e \notin live /\ live' = live \cup {e}
      BY <2>5 DEF BootLoad, NewEvent, NewHub, Fresh
    <3>2. UNCHANGED <<orphans, job>> /\ \A x \in Tags : events'[x] \in {e, events[x]}
      BY <1>1, <2>5, <3>1 DEF BootLoad
    <3>3. e \notin orphans /\ orphans \subseteq live'
      BY <3>1 DEF OrphansApart
    <3>4. \A q \in Procs : job'[q].ev \notin orphans
      BY <3>2 DEF OrphansApart, Ev
    <3>5. \A x \in Tags : events'[x] \notin orphans
      BY <3>2, <3>3 DEF OrphansApart
    <3> QED
      BY <1>1, <3>2, <3>3, <3>4, <3>5, StillApart
  <2> QED
    BY <1>3, <1>9, <2>1, <2>2, <2>3, <2>4, <2>5 DEF Boot
<1>10. ASSUME NEW p \in Procs, HandlerRace(p) PROVE OrphansApart'
  BY <1>1, <1>10, CrashApart DEF HandlerRace
<1>11. ASSUME Die PROVE OrphansApart'
  BY <1>1, <1>11, CrashApart DEF Die
<1>12. ASSUME UNCHANGED vars PROVE OrphansApart'
  BY <1>12 DEF vars, OrphansApart, Ev
<1> QED
  BY <1>3, <1>4, <1>5, <1>6, <1>7, <1>8, <1>9, <1>10, <1>11, <1>12 DEF Next

(* No event is lost with its labs running: whoever takes it out of the     *)
(* pool closes it, and startEvent replaces none, with the same exceptions; *)
(* what is lost are the labs of a daemon that died and of a creation that  *)
(* failed after NewHub.                                                    *)
THEOREM EventsKept == Spec => []NoneForgotten
<1>1. Init => EventsInv /\ OrphansApart
  BY EventsInvInit DEF Init, OrphansApart
<1>2. EventsInv /\ OrphansApart /\ [Next]_vars => (EventsInv /\ OrphansApart)'
  BY EventsInvStep, OrphansApartStep
<1>3. EventsInv /\ OrphansApart => NoneForgotten
  BY DEF EventsInv, NoneForgotten
<1> QED
  BY <1>1, <1>2, <1>3, PTL DEF Spec

=============================================================================
