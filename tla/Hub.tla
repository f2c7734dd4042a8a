-------------------------------- MODULE Hub --------------------------------
(***************************************************************************)
(* The lab hub of an event (lab/hub.go): two workers create labs, a        *)
(* dispatcher goroutine registers every new lab in startedLabs, offers it  *)
(* on the queue that teams receive from, and decides whether one more lab  *)
(* may be created; a second goroutine puts deallocated labs back on the    *)
(* queue.  Close() closes the stop channel, upon which every lab has to be *)
(* destroyed.                                                              *)
(*                                                                         *)
(* Labs are numbered in the order NewLab returns them.  TagOf(k) is the    *)
(* name the random generator gives to lab k (lab.go, generateTag).  A Go   *)
(* channel of capacity n is a sequence of at most n labs; a send to a      *)
(* receiver that is already waiting is a direct handoff, which is the only *)
(* way a channel of capacity 0 delivers.  A Go panic kills the daemon:     *)
(* panicked stops every action.                                            *)
(***************************************************************************)
EXTENDS Integers, Sequences, FiniteSets

CONSTANTS
    Cap,        \* cap: the event's capacity
    Buffer,     \* buffer: labs to keep ready ahead of demand (Available)
    TagOf(_)    \* the tag of the k-th lab

(* The names given to the labs of one event differ.  The generator draws   *)
(* them at random, so this is an assumption, made where it is needed.      *)
UniqueTags == \A i, j \in 1..Cap : TagOf(i) = TagOf(j) => i = j

ASSUME CapAssumption == Cap \in Nat
ASSUME BufferAssumption == Buffer \in Nat

Workers == 1..2                            \* workerAmount := 2

Buf == IF Buffer < 2 THEN 2 ELSE Buffer    \* buffer after the adjustment

ChanCap == Buf - 2                         \* buffer - workerAmount

VARIABLES
    wpc,          \* where each worker is
    wlab,         \* the lab in a worker's hands, 0 for none
    wg,           \* the WaitGroup's counter
    dpc,          \* where NewHub, and then its dispatcher, is
    dlab,         \* the lab the dispatcher is about to queue, 0 for none
    rlab,         \* the lab the requeuing goroutine holds, 0 for none
    labs,         \* the labs channel
    labsClosed,   \* close(labs) has been called
    readyClosed,  \* close(ready) has been called
    stop,         \* close(stop) has been called
    queue,        \* the queue channel
    deallocated,  \* the deallocated channel
    startedLabs,  \* the map from tags to labs
    created,      \* number of labs NewLab has returned
    outside,      \* labs received from the queue and not handed back
    closedLabs,   \* labs whose Close has been called
    iterating,    \* a caller is ranging over the map that Labs() returned
    panicked      \* the daemon has died of a panic

workerVars == <<wpc, wlab, wg>>
dispatchVars == <<dpc, dlab, startedLabs>>
chanVars == <<labs, labsClosed, readyClosed, stop, queue, deallocated>>
userVars == <<outside, iterating>>
labVars == <<created, closedLabs>>
vars == <<wpc, wlab, wg, dpc, dlab, rlab, labs, labsClosed, readyClosed, stop,
          queue, deallocated, startedLabs, created, outside, closedLabs,
          iterating, panicked>>

Labs == 1..created

(* NewHub hands out the first two tokens itself, one per spawned worker,   *)
(* before it starts the dispatcher.                                        *)
Init ==
    /\ wpc = [w \in Workers |-> "range"]
    /\ wlab = [w \in Workers |-> 0]
    /\ wg = 0
    /\ dpc = "boot1"
    /\ dlab = 0
    /\ rlab = 0
    /\ labs = <<>>
    /\ labsClosed = FALSE
    /\ readyClosed = FALSE
    /\ stop = FALSE
    /\ queue = <<>>
    /\ deallocated = <<>>
    /\ startedLabs = [t \in {} |-> 0]
    /\ created = 0
    /\ outside = {}
    /\ closedLabs = {}
    /\ iterating = FALSE
    /\ panicked = FALSE

Panic ==
    /\ panicked' = TRUE
    /\ UNCHANGED <<wpc, wlab, wg, dpc, dlab, rlab, labs, labsClosed,
                   readyClosed, stop, queue, deallocated, startedLabs,
                   created, outside, closedLabs, iterating>>

-----------------------------------------------------------------------------
(* The workers. *)

(* ready <- struct{}{} meets `for range ready`: the channel has no buffer. *)
SendReady(w) ==
    /\ dpc \in {"boot1", "boot2", "ready"}
    /\ wpc[w] = "range"
    /\ wpc' = [wpc EXCEPT ![w] = "notified"]
    /\ dpc' = IF dpc = "boot1" THEN "boot2" ELSE "select"
    /\ UNCHANGED <<wlab, wg, dlab, rlab, chanVars, startedLabs, labVars,
                   userVars, panicked>>

(* Mutation: the worker goes on without a token while ready is open. *)
WorkerLoops(w) ==
    /\ wpc[w] = "range"
    /\ wpc' = [wpc EXCEPT ![w] = IF readyClosed THEN "exit" ELSE "notified"]
    /\ UNCHANGED <<wlab, wg, dispatchVars, rlab, chanVars, labVars, userVars,
                   panicked>>

WorkerExit(w) ==
    /\ wpc[w] = "range"
    /\ readyClosed
    /\ wpc' = [wpc EXCEPT ![w] = "exit"]
    /\ UNCHANGED <<wlab, wg, dispatchVars, rlab, chanVars, labVars, userVars,
                   panicked>>

(* wg.Add(1), a step of its own: the token was taken before the count. *)
WorkerAdd(w) ==
    /\ wpc[w] = "notified"
    /\ wpc' = [wpc EXCEPT ![w] = "create"]
    /\ wg' = wg + 1
    /\ UNCHANGED <<wlab, dispatchVars, rlab, chanVars, labVars, userVars,
                   panicked>>

(* NewLab succeeds; an error of l.Start is only logged. *)
NewLab(w) ==
    /\ wpc[w] = "create"
    /\ created' = created + 1
    /\ wlab' = [wlab EXCEPT ![w] = created + 1]
    /\ wpc' = [wpc EXCEPT ![w] = "send"]
    /\ UNCHANGED <<wg, dispatchVars, rlab, chanVars, closedLabs, userVars,
                   panicked>>

(* NewLab fails: the error is only logged and l.Start is called on nil. *)
NewLabFails(w) ==
    /\ wpc[w] = "create"
    /\ Panic

(* Mutation: the send case forgets wg.Done(). *)
WorkerSendNoDone(w) ==
    /\ wpc[w] = "send"
    /\ ~labsClosed
    /\ Len(labs) < ChanCap
    /\ labs' = Append(labs, wlab[w])
    /\ wpc' = [wpc EXCEPT ![w] = "range"]
    /\ wlab' = [wlab EXCEPT ![w] = 0]
    /\ UNCHANGED <<wg, dispatchVars, rlab, labsClosed, readyClosed, stop,
                   queue, deallocated, labVars, userVars, panicked>>

(* case labs <- l, with room in the channel. *)
WorkerSend(w) ==
    /\ wpc[w] = "send"
    /\ ~labsClosed
    /\ Len(labs) < ChanCap
    /\ labs' = Append(labs, wlab[w])
    /\ wpc' = [wpc EXCEPT ![w] = "range"]
    /\ wlab' = [wlab EXCEPT ![w] = 0]
    /\ wg' = wg - 1
    /\ UNCHANGED <<dispatchVars, rlab, labsClosed, readyClosed, stop, queue,
                   deallocated, labVars, userVars, panicked>>

(* Mutation: the stop case forgets to close the lab. *)
WorkerStopForgets(w) ==
    /\ wpc[w] = "send"
    /\ stop
    /\ wpc' = [wpc EXCEPT ![w] = "range"]
    /\ wlab' = [wlab EXCEPT ![w] = 0]
    /\ wg' = wg - 1
    /\ UNCHANGED <<dispatchVars, rlab, chanVars, labVars, userVars, panicked>>

(* Mutation: a default case instead of <-stop. *)
WorkerStopDefault(w) ==
    /\ wpc[w] = "send"
    /\ wpc' = [wpc EXCEPT ![w] = "close"]
    /\ wg' = wg - 1
    /\ UNCHANGED <<wlab, dispatchVars, rlab, chanVars, labVars, userVars,
                   panicked>>

(* case <-stop: the lab stays with the worker, which then closes it. *)
WorkerStop(w) ==
    /\ wpc[w] = "send"
    /\ stop
    /\ wpc' = [wpc EXCEPT ![w] = "close"]
    /\ wg' = wg - 1
    /\ UNCHANGED <<wlab, dispatchVars, rlab, chanVars, labVars, userVars,
                   panicked>>

WorkerCloseLab(w) ==
    /\ wpc[w] = "close"
    /\ closedLabs' = closedLabs \cup {wlab[w]}
    /\ wpc' = [wpc EXCEPT ![w] = "range"]
    /\ wlab' = [wlab EXCEPT ![w] = 0]
    /\ UNCHANGED <<wg, dispatchVars, rlab, chanVars, created, userVars,
                   panicked>>

(* The select may pick the send on the closed channel, which panics. *)
WorkerSendClosed(w) ==
    /\ wpc[w] = "send"
    /\ labsClosed
    /\ Panic

-----------------------------------------------------------------------------
(* The dispatcher. *)

(* startedLabs[l.Tag()] = l *)
Register(l) ==
    startedLabs' = [t \in DOMAIN startedLabs \cup {TagOf(l)} |->
                       IF t = TagOf(l) THEN l ELSE startedLabs[t]]

(* case l := <-labs, from the channel's buffer. *)
ReceiveLab ==
    /\ dpc = "select"
    /\ labs # <<>>
    /\ dlab' = Head(labs)
    /\ labs' = Tail(labs)
    /\ Register(Head(labs))
    /\ dpc' = "enqueue"
    /\ UNCHANGED <<workerVars, rlab, labsClosed, readyClosed, stop, queue,
                   deallocated, labVars, userVars, panicked>>

(* The same from a worker that is blocked in the send. *)
ReceiveLabDirect(w) ==
    /\ dpc = "select"
    /\ labs = <<>>
    /\ wpc[w] = "send"
    /\ dlab' = wlab[w]
    /\ Register(wlab[w])
    /\ dpc' = "enqueue"
    /\ wpc' = [wpc EXCEPT ![w] = "range"]
    /\ wlab' = [wlab EXCEPT ![w] = 0]
    /\ wg' = wg - 1
    /\ UNCHANGED <<rlab, chanVars, labVars, userVars, panicked>>

(* A write of the map while another goroutine ranges over it: the Go       *)
(* runtime may detect the race, and then ends the process.                 *)
RegisterRace ==
    /\ iterating
    /\ dpc = "select"
    /\ \/ labs # <<>>
       \/ \E w \in Workers : wpc[w] = "send"
    /\ Panic

(* Mutation: the busy worker is not counted among the labs starting. *)
AfterQueuedOneMore ==
    LET n == Cardinality(DOMAIN startedLabs)
    IN  /\ dlab' = 0
        /\ readyClosed' = (readyClosed \/ n = Cap)
        /\ dpc' = IF n = Cap THEN "select" ELSE "ready"

(* Mutation: both workers are counted. *)
AfterQueuedOneLess ==
    LET n == Cardinality(DOMAIN startedLabs)
    IN  /\ dlab' = 0
        /\ readyClosed' = (readyClosed \/ n + 2 = Cap)
        /\ dpc' = IF n + 2 = Cap \/ n = Cap THEN "select" ELSE "ready"

(* What follows queue <- l: with one worker idle and one busy, decide      *)
(* whether that worker may create another lab.                             *)
AfterQueued ==
    LET n == Cardinality(DOMAIN startedLabs)
        labsStarting == n + 2 - 1
    IN  /\ dlab' = 0
        /\ readyClosed' = (readyClosed \/ labsStarting = Cap)
        /\ dpc' = IF labsStarting = Cap \/ n = Cap THEN "select" ELSE "ready"

(* Mutation: a full queue drops the lab. *)
EnqueueOrDrop ==
    /\ dpc = "enqueue"
    /\ queue' = IF Len(queue) < ChanCap THEN Append(queue, dlab) ELSE queue
    /\ AfterQueued
    /\ UNCHANGED <<workerVars, rlab, labs, labsClosed, stop, deallocated,
                   startedLabs, labVars, userVars, panicked>>

EnqueueLab ==
    /\ dpc = "enqueue"
    /\ Len(queue) < ChanCap
    /\ queue' = Append(queue, dlab)
    /\ AfterQueued
    /\ UNCHANGED <<workerVars, rlab, labs, labsClosed, stop, deallocated,
                   startedLabs, labVars, userVars, panicked>>

(* case <-stop: continue, in the inner select. *)
SkipQueue ==
    /\ dpc = "enqueue"
    /\ stop
    /\ dpc' = "select"
    /\ dlab' = 0
    /\ UNCHANGED <<workerVars, rlab, chanVars, startedLabs, labVars, userVars,
                   panicked>>

DispatchStop ==
    /\ dpc = "select"
    /\ stop
    /\ dpc' = "wait"
    /\ UNCHANGED <<workerVars, dlab, rlab, chanVars, startedLabs, labVars,
                   userVars, panicked>>

(* wg.Wait(), then close(labs). *)
WaitWorkers ==
    /\ dpc = "wait"
    /\ wg = 0
    /\ labsClosed' = TRUE
    /\ dpc' = "drain"
    /\ UNCHANGED <<workerVars, dlab, rlab, labs, readyClosed, stop, queue,
                   deallocated, startedLabs, labVars, userVars, panicked>>

DrainLab ==
    /\ dpc = "drain"
    /\ labs # <<>>
    /\ closedLabs' = closedLabs \cup {Head(labs)}
    /\ labs' = Tail(labs)
    /\ UNCHANGED <<workerVars, dispatchVars, rlab, labsClosed, readyClosed,
                   stop, queue, deallocated, created, userVars, panicked>>

(* for _, l := range startedLabs, in the order the map yields its tags. *)
CloseStarted(t) ==
    /\ dpc = "drain"
    /\ labs = <<>>
    /\ startedLabs[t] \notin closedLabs
    /\ closedLabs' = closedLabs \cup {startedLabs[t]}
    /\ UNCHANGED <<workerVars, dispatchVars, rlab, chanVars, created, userVars,
                   panicked>>

(* Mutation: without the deferred readyCloser(). *)
DispatchReturnNoClose ==
    /\ dpc = "drain"
    /\ labs = <<>>
    /\ \A t \in DOMAIN startedLabs : startedLabs[t] \in closedLabs
    /\ dpc' = "done"
    /\ UNCHANGED <<workerVars, dlab, rlab, chanVars, startedLabs, labVars,
                   userVars, panicked>>

(* return, with the deferred readyCloser(). *)
DispatchReturn ==
    /\ dpc = "drain"
    /\ labs = <<>>
    /\ \A t \in DOMAIN startedLabs : startedLabs[t] \in closedLabs
    /\ dpc' = "done"
    /\ readyClosed' = TRUE
    /\ UNCHANGED <<workerVars, dlab, rlab, labs, labsClosed, stop, queue,
                   deallocated, startedLabs, labVars, userVars, panicked>>

-----------------------------------------------------------------------------
(* The requeuing goroutine. *)

ReceiveDeallocated ==
    /\ rlab = 0
    /\ deallocated # <<>>
    /\ rlab' = Head(deallocated)
    /\ deallocated' = Tail(deallocated)
    /\ UNCHANGED <<workerVars, dispatchVars, labs, labsClosed, readyClosed,
                   stop, queue, labVars, userVars, panicked>>

(* Mutation: the goroutine queues the same lab again. *)
RequeueTwice ==
    /\ rlab # 0
    /\ Len(queue) < ChanCap
    /\ queue' = Append(queue, rlab)
    /\ UNCHANGED <<workerVars, dispatchVars, rlab, labs, labsClosed,
                   readyClosed, stop, deallocated, labVars, userVars,
                   panicked>>

Requeue ==
    /\ rlab # 0
    /\ Len(queue) < ChanCap
    /\ queue' = Append(queue, rlab)
    /\ rlab' = 0
    /\ UNCHANGED <<workerVars, dispatchVars, labs, labsClosed, readyClosed,
                   stop, deallocated, labVars, userVars, panicked>>

-----------------------------------------------------------------------------
(* The hub's users. *)

(* <-h.Queue(): from the buffer, from the dispatcher's blocked send or     *)
(* from the requeuing goroutine's.                                         *)
Take ==
    /\ queue # <<>>
    /\ queue' = Tail(queue)
    /\ outside' = outside \cup {Head(queue)}
    /\ UNCHANGED <<workerVars, dispatchVars, rlab, labs, labsClosed,
                   readyClosed, stop, deallocated, labVars, iterating,
                   panicked>>

TakeFromDispatcher ==
    /\ queue = <<>>
    /\ dpc = "enqueue"
    /\ outside' = outside \cup {dlab}
    /\ AfterQueued
    /\ UNCHANGED <<workerVars, rlab, labs, labsClosed, stop, queue,
                   deallocated, startedLabs, labVars, iterating, panicked>>

TakeFromRequeuer ==
    /\ queue = <<>>
    /\ rlab # 0
    /\ outside' = outside \cup {rlab}
    /\ rlab' = 0
    /\ UNCHANGED <<workerVars, dispatchVars, chanVars, labVars, iterating,
                   panicked>>

(* Update: the channel send blocks while deallocated is full. *)
Update(l) ==
    /\ l \in outside
    /\ Len(deallocated) < Cap
    /\ deallocated' = Append(deallocated, l)
    /\ outside' = outside \ {l}
    /\ UNCHANGED <<workerVars, dispatchVars, rlab, labs, labsClosed,
                   readyClosed, stop, queue, labVars, iterating, panicked>>

(* Suspend, Resume and the callers of Labs() range over the live map. *)
IterateLabs ==
    /\ dpc \notin {"boot1", "boot2"}
    /\ iterating' = ~iterating
    /\ UNCHANGED <<workerVars, dispatchVars, rlab, chanVars, labVars, outside,
                   panicked>>

Close ==
    /\ dpc \notin {"boot1", "boot2"}
    /\ ~stop
    /\ stop' = TRUE
    /\ UNCHANGED <<workerVars, dispatchVars, rlab, labs, labsClosed,
                   readyClosed, queue, deallocated, labVars, userVars,
                   panicked>>

(* close of a closed channel. *)
CloseAgain ==
    /\ stop
    /\ Panic

-----------------------------------------------------------------------------

Worker(w) ==
    \/ WorkerExit(w)
    \/ WorkerAdd(w)
    \/ NewLab(w)
    \/ WorkerSend(w)
    \/ WorkerStop(w)
    \/ WorkerCloseLab(w)

Dispatcher ==
    \/ \E w \in Workers : SendReady(w) \/ ReceiveLabDirect(w)
    \/ ReceiveLab
    \/ EnqueueLab
    \/ SkipQueue
    \/ DispatchStop
    \/ WaitWorkers
    \/ DrainLab
    \/ \E t \in DOMAIN startedLabs : CloseStarted(t)
    \/ DispatchReturn

Requeuer == ReceiveDeallocated \/ Requeue

User ==
    \/ Take
    \/ TakeFromDispatcher
    \/ TakeFromRequeuer
    \/ \E l \in Labs : Update(l)
    \/ IterateLabs
    \/ Close

Crash ==
    \/ \E w \in Workers : NewLabFails(w) \/ WorkerSendClosed(w)
    \/ RegisterRace
    \/ CloseAgain

Next ==
    /\ ~panicked
    /\ \/ \E w \in Workers : Worker(w)
       \/ Dispatcher
       \/ Requeuer
       \/ User
       \/ Crash

Spec == Init /\ [][Next]_vars

(* Goroutines keep running while the process lives; users need not act. *)
FairSpec ==
    /\ Spec
    /\ \A w \in Workers : WF_vars(~panicked /\ Worker(w))
    /\ WF_vars(~panicked /\ Dispatcher)
    /\ WF_vars(~panicked /\ Requeuer)

-----------------------------------------------------------------------------
(* Properties. *)

WorkerStates == {"range", "notified", "create", "send", "close", "exit"}
DispatchStates == {"boot1", "boot2", "select", "enqueue", "ready", "wait",
                   "drain", "done"}

(* The type invariant: places, channels within their capacities, and labs  *)
(* that exist.                                                             *)
TypeOK ==
    /\ wpc \in [Workers -> WorkerStates]
    /\ wlab \in [Workers -> 0..created]
    /\ wg \in 0..2
    /\ dpc \in DispatchStates
    /\ dlab \in 0..created
    /\ rlab \in 0..created
    /\ labs \in Seq(Labs) /\ Len(labs) <= ChanCap
    /\ queue \in Seq(Labs) /\ Len(queue) <= ChanCap
    /\ deallocated \in Seq(Labs) /\ Len(deallocated) <= Cap
    /\ labsClosed \in BOOLEAN /\ readyClosed \in BOOLEAN /\ stop \in BOOLEAN
    /\ iterating \in BOOLEAN /\ panicked \in BOOLEAN
    /\ \A t \in DOMAIN startedLabs : startedLabs[t] \in Labs
    /\ created \in Nat
    /\ outside \subseteq Labs
    /\ closedLabs \subseteq Labs

(* 1 for a worker that has been told to create a lab and has not yet. *)
Pending(w) == IF wpc[w] \in {"notified", "create"} THEN 1 ELSE 0

(* The hub never creates more labs than the event's capacity, however the  *)
(* workers' sends, the dispatcher's counting and Close interleave.         *)
CapacityRespected == created + Pending(1) + Pending(2) <= Cap

(* The hub runs ahead of demand by at most its buffer: labs that exist or  *)
(* are being created, minus those some team has or has just given back,    *)
(* are at most Buf (hub_test.go expects exactly buf labs to be started).   *)
DemandBound ==
    stop \/ created + Pending(1) + Pending(2)
               - Cardinality(outside) - Len(deallocated)
               - (IF rlab = 0 THEN 0 ELSE 1) <= Buf

(* Every place a lab can be referred to from. *)
Holders(l) ==
    {<<"worker", w>> : w \in {v \in Workers : wlab[v] = l}}
    \cup {<<"labs", i>> : i \in {j \in DOMAIN labs : labs[j] = l}}
    \cup {<<"dispatcher", 1>> : i \in {j \in {1} : dlab = l}}
    \cup {<<"queue", i>> : i \in {j \in DOMAIN queue : queue[j] = l}}
    \cup {<<"team", 1>> : i \in {j \in {1} : l \in outside}}
    \cup {<<"deallocated", i>> :
             i \in {j \in DOMAIN deallocated : deallocated[j] = l}}
    \cup {<<"requeuer", 1>> : i \in {j \in {1} : rlab = l}}

(* No lab is offered to two teams at once: at any time at most one         *)
(* goroutine, channel slot or team refers to it.                           *)
SingleHolder == \A l \in Labs : Cardinality(Holders(l)) <= 1

(* Until Close no lab gets lost on its way from a worker to the queue or   *)
(* from a team back to the queue.                                          *)
NoLabLost == ~stop => \A l \in Labs : Holders(l) # {}

(* When the dispatcher has returned and no worker holds a lab, every lab   *)
(* ever created has been destroyed: none is left running after Close.      *)
AllClosedAtEnd ==
    dpc = "done" /\ (\A w \in Workers : wpc[w] \in {"range", "exit"})
        => closedLabs = Labs

(* The comment on wg.Wait(), `wait for workers to finish starting labs`:   *)
(* past it no worker is on its way to, or busy with, starting a lab.       *)
WorkersFinished ==
    dpc \in {"drain", "done"} =>
        \A w \in Workers : wpc[w] \notin {"notified", "create", "send"}

(* Close is eventually followed by the end of all hub goroutines that own  *)
(* labs and by the destruction of every lab, unless the daemon dies.       *)
ShutdownCompletes ==
    stop ~> \/ panicked
            \/ /\ dpc = "done"
               /\ \A w \in Workers : wpc[w] = "exit"
               /\ closedLabs = Labs

(* While k labs stay handed out, the hub ends up having created k labs     *)
(* more than its buffer, or Cap of them: no goroutine waits for ever.      *)
Replenished ==
    \A k \in 0..Cap :
        <>[](Cardinality(outside) >= k) =>
            <>(panicked \/ stop \/ created >= (IF Buf + k < Cap THEN Buf + k ELSE Cap))

(* The hub implements the abstract pool of labs. *)
Pool == INSTANCE LabPool WITH held <- outside, closed <- closedLabs,
                              stopped <- stop
RefinesPool == Pool!Spec
=============================================================================
