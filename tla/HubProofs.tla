----------------------------- MODULE HubProofs -----------------------------
(***************************************************************************)
(* Proofs about the lab hub for every capacity and buffer: types, the      *)
(* count of labs, shutdown; then the labs on their way through the hub: a  *)
(* lab is in one place at a time, none gets lost before Close, the hub     *)
(* does not run ahead of demand, and it implements LabPool.                *)
(***************************************************************************)
EXTENDS Hub, Channels, FiniteSetTheorems, TLAPS

(* 1 for a worker between wg.Add and wg.Done. *)
Busy(w) == IF wpc[w] \in {"create", "send"} THEN 1 ELSE 0

(* Who holds a lab, and what the WaitGroup counts. *)
Hands ==
    /\ \A w \in Workers : wpc[w] \in {"send", "close"} <=> wlab[w] # 0
    /\ dpc = "enqueue" <=> dlab # 0
    /\ wg = Busy(1) + Busy(2)

TypeInv == TypeOK /\ Hands

-----------------------------------------------------------------------------

(* NewHub's adjusted buffer leaves room for channels of capacity >= 0. *)
LEMMA ChanCapNat == ChanCap \in Nat
BY BufferAssumption DEF ChanCap, Buf

(* NewHub starts in a state of the right type, with empty hands. *)
LEMMA TypeInvInit == Init => TypeInv
<1> SUFFICES ASSUME Init PROVE TypeInv
  OBVIOUS
<1>1. TypeOK
  <2> USE ChanCapNat, CapAssumption DEF Init, Workers, WorkerStates, DispatchStates, Labs
  <2>1. wpc \in [Workers -> WorkerStates] /\ wlab \in [Workers -> 0..created]
    OBVIOUS
  <2>2. wg \in 0..2 /\ dpc \in DispatchStates
    OBVIOUS
  <2>3. dlab \in 0..created /\ rlab \in 0..created
    OBVIOUS
  <2>4. labs \in Seq(Labs) /\ Len(labs) <= ChanCap
    OBVIOUS
  <2>5. deallocated \in Seq(Labs) /\ Len(deallocated) <= Cap
    OBVIOUS
  <2>6. \A t \in DOMAIN startedLabs : startedLabs[t] \in Labs
    OBVIOUS
  <2> QED
    BY <2>1, <2>2, <2>3, <2>4, <2>5, <2>6 DEF TypeOK
<1>2. Hands
  BY DEF Init, Hands, Busy, Workers
<1> QED
  BY <1>1, <1>2 DEF TypeInv

(* Every step of the hub keeps the types, the hands and the WaitGroup. *)
LEMMA TypeInvStep == TypeInv /\ [Next]_vars => TypeInv'
<1> SUFFICES ASSUME TypeInv, [Next]_vars PROVE TypeInv'
  OBVIOUS
<1> USE ChanCapNat, CapAssumption DEF TypeInv, TypeOK, Hands, Busy, Workers, WorkerStates,
    DispatchStates, Labs, workerVars, dispatchVars, chanVars, userVars, labVars
<1>1. ASSUME NEW w \in Workers, SendReady(w) PROVE TypeInv'
  BY <1>1 DEF SendReady
<1>2. ASSUME NEW w \in Workers, WorkerExit(w) PROVE TypeInv'
  BY <1>2 DEF WorkerExit
<1>3. ASSUME NEW w \in Workers, WorkerAdd(w) PROVE TypeInv'
  BY <1>3 DEF WorkerAdd
<1>4. ASSUME NEW w \in Workers, NewLab(w) PROVE TypeInv'
  <2>1. /\ labs \in Seq(1..(created + 1))
        /\ queue \in Seq(1..(created + 1))
        /\ deallocated \in Seq(1..(created + 1))
    BY SeqGrows
  <2> QED
    BY <1>4, <2>1 DEF NewLab
<1>5. ASSUME NEW w \in Workers, WorkerSend(w) PROVE TypeInv'
  <2>1. wlab[w] \in Labs
    BY <1>5 DEF WorkerSend
  <2>2. labs' \in Seq(Labs) /\ Len(labs') <= ChanCap
    BY <1>5, <2>1, SendFacts DEF WorkerSend
  <2> QED
    BY <1>5, <2>2 DEF WorkerSend
<1>6. ASSUME NEW w \in Workers, WorkerStop(w) PROVE TypeInv'
  BY <1>6 DEF WorkerStop
<1>7. ASSUME NEW w \in Workers, WorkerCloseLab(w) PROVE TypeInv'
  <2>1. wlab[w] \in Labs
    BY <1>7 DEF WorkerCloseLab
  <2>2. closedLabs' \subseteq Labs
    BY <1>7, <2>1 DEF WorkerCloseLab
  <2> QED
    BY <1>7, <2>2 DEF WorkerCloseLab
<1>8. CASE ReceiveLab
  <2>1. Head(labs) \in Labs /\ Tail(labs) \in Seq(Labs) /\ Len(Tail(labs)) <= ChanCap
    BY <1>8, ReceiveFacts DEF ReceiveLab
  <2>2. \A t \in DOMAIN startedLabs' : startedLabs'[t] \in Labs
    <3>1. Register(Head(labs))
      BY <1>8 DEF ReceiveLab
    <3> QED
      BY <2>1, <3>1 DEF Register
  <2> QED
    BY <1>8, <2>1, <2>2 DEF ReceiveLab
<1>9. ASSUME NEW w \in Workers, ReceiveLabDirect(w) PROVE TypeInv'
  <2>1. wlab[w] \in Labs
    BY <1>9 DEF ReceiveLabDirect
  <2>2. \A t \in DOMAIN startedLabs' : startedLabs'[t] \in Labs
    <3>1. Register(wlab[w])
      BY <1>9 DEF ReceiveLabDirect
    <3> QED
      BY <2>1, <3>1 DEF Register
  <2> QED
    BY <1>9, <2>1, <2>2 DEF ReceiveLabDirect
<1>10. CASE EnqueueLab
  BY <1>10 DEF EnqueueLab, AfterQueued
<1>11. CASE SkipQueue
  BY <1>11 DEF SkipQueue
<1>12. CASE DispatchStop
  BY <1>12 DEF DispatchStop
<1>13. CASE WaitWorkers
  BY <1>13 DEF WaitWorkers
<1>14. CASE DrainLab
  <2>1. /\ Head(labs) \in Labs
        /\ Tail(labs) \in Seq(Labs)
        /\ Len(Tail(labs)) = Len(labs) - 1
    BY <1>14, ReceiveFacts DEF DrainLab
  <2>2. closedLabs' \subseteq Labs
    BY <1>14, <2>1 DEF DrainLab
  <2> QED
    BY <1>14, <2>1, <2>2 DEF DrainLab
<1>15. ASSUME NEW t \in DOMAIN startedLabs, CloseStarted(t) PROVE TypeInv'
  BY <1>15 DEF CloseStarted
<1>16. CASE DispatchReturn
  BY <1>16 DEF DispatchReturn
<1>17. CASE ReceiveDeallocated
  <2>1. /\ Head(deallocated) \in Labs
        /\ Tail(deallocated) \in Seq(Labs)
        /\ Len(Tail(deallocated)) = Len(deallocated) - 1
    BY <1>17, ReceiveFacts DEF ReceiveDeallocated
  <2> QED
    BY <1>17, <2>1 DEF ReceiveDeallocated
<1>18. CASE Requeue
  BY <1>18 DEF Requeue
<1>19. CASE Take
  <2>1. /\ Head(queue) \in Labs
        /\ Tail(queue) \in Seq(Labs)
        /\ Len(Tail(queue)) = Len(queue) - 1
    BY <1>19, ReceiveFacts DEF Take
  <2>2. outside' \subseteq Labs
    BY <1>19, <2>1 DEF Take
  <2> QED
    BY <1>19, <2>1, <2>2 DEF Take
<1>20. CASE TakeFromDispatcher
  BY <1>20 DEF TakeFromDispatcher, AfterQueued
<1>21. CASE TakeFromRequeuer
  BY <1>21 DEF TakeFromRequeuer
<1>22. ASSUME NEW l \in Labs, Update(l) PROVE TypeInv'
  BY <1>22 DEF Update
<1>23. CASE IterateLabs
  BY <1>23 DEF IterateLabs
<1>24. CASE Close
  BY <1>24 DEF Close
<1>25. CASE Crash
  BY <1>25 DEF Crash, NewLabFails, WorkerSendClosed, RegisterRace, CloseAgain, Panic
<1>26. CASE UNCHANGED vars
  BY <1>26 DEF vars
<1> QED
  BY <1>1, <1>2, <1>3, <1>4, <1>5, <1>6, <1>7, <1>8, <1>9, <1>10, <1>11, <1>12,
     <1>13, <1>14, <1>15, <1>16, <1>17, <1>18, <1>19, <1>20, <1>21, <1>22,
     <1>23, <1>24, <1>25, <1>26
  DEF Next, Worker, Dispatcher, Requeuer, User

(* The type invariant of the hub holds for every capacity and buffer. *)
THEOREM TypeCorrect == Spec => []TypeInv
<1>1. TypeInv /\ [Next]_vars => TypeInv'
  BY TypeInvStep
<1> QED
  BY <1>1, TypeInvInit, PTL DEF Spec

(* TypeOK, the hub's type invariant, holds for every capacity and buffer:  *)
(* no channel exceeds its capacity, the WaitGroup never goes negative and  *)
(* every lab referred to exists.                                           *)
THEOREM TypeSafe == Spec => []TypeOK
<1>1. TypeInv => TypeOK
  BY DEF TypeInv
<1> QED
  BY <1>1, TypeCorrect, PTL

-----------------------------------------------------------------------------
(* Counting labs. *)

Started == Cardinality(DOMAIN startedLabs)

(* 1 for a worker that holds a lab. *)
Hand(w) == IF wlab[w] = 0 THEN 0 ELSE 1

(* How many labs beyond the registered ones may exist or be under way: the *)
(* two boot tokens, less the one that the dispatcher has yet to reissue.   *)
Slack == IF dpc = "boot1" THEN 0
         ELSE IF dpc \in {"boot2", "enqueue", "ready"} THEN 1 ELSE 2

(* Labs the dispatcher has not received are distinct and unregistered. *)
Fresh ==
    /\ wlab[1] # 0 => wlab[1] # wlab[2]
    /\ \A w \in Workers : \A i \in 1..Len(labs) : labs[i] # wlab[w]
    /\ \A i, j \in 1..Len(labs) : labs[i] = labs[j] => i = j
    /\ \A t \in DOMAIN startedLabs :
          /\ t = TagOf(startedLabs[t])
          /\ \A w \in Workers : startedLabs[t] # wlab[w]
          /\ \A i \in 1..Len(labs) : startedLabs[t] # labs[i]

Count ==
    /\ IsFiniteSet(DOMAIN startedLabs)
    /\ Started + Len(labs) + Hand(1) + Hand(2) <= created
    /\ created + Pending(1) + Pending(2) <= Started + Slack
    /\ CapacityRespected
    /\ dpc \in {"boot1", "boot2"} => Started = 0
    /\ dpc = "ready" => Started <= Cap - 2

CountInv == Fresh /\ Count

(* The count of labs and of labs still due holds when NewHub starts. *)
LEMMA CountInvInit == ASSUME Cap >= 2 PROVE Init => CountInv
<1> SUFFICES ASSUME Init PROVE CountInv
  OBVIOUS
<1>1. DOMAIN startedLabs = {} /\ labs = <<>>
  BY DEF Init
<1>2. Fresh
  BY <1>1 DEF Fresh, Init, Workers
<1>3. IsFiniteSet(DOMAIN startedLabs) /\ Started = 0
  BY <1>1, FS_EmptySet DEF Started
<1>4. Count
  BY <1>1, <1>3, CapAssumption
     DEF Count, CapacityRespected, Init, Hand, Pending, Slack, Workers
<1> QED
  BY <1>2, <1>4 DEF CountInv

(* With unique tags a lab that is not in the map enlarges it. *)
LEMMA RegisterNew ==
  ASSUME UniqueTags, TypeInv, CountInv, NEW l \in Labs, Register(l),
         \A t \in DOMAIN startedLabs : startedLabs[t] # l
  PROVE  /\ DOMAIN startedLabs' = DOMAIN startedLabs \cup {TagOf(l)}
         /\ TagOf(l) \notin DOMAIN startedLabs
         /\ startedLabs'[TagOf(l)] = l
         /\ \A t \in DOMAIN startedLabs : startedLabs'[t] = startedLabs[t]
         /\ IsFiniteSet(DOMAIN startedLabs')
         /\ Started' = Started + 1
<1>1. DOMAIN startedLabs' = DOMAIN startedLabs \cup {TagOf(l)}
  BY DEF Register
<1>2. created <= Cap
  BY CapAssumption DEF CountInv, Count, CapacityRespected, Pending, TypeInv, TypeOK
<1>3. Labs \subseteq 1..Cap
  BY <1>2, CapAssumption DEF Labs, TypeInv, TypeOK
<1>4. TagOf(l) \notin DOMAIN startedLabs
  <2> SUFFICES ASSUME TagOf(l) \in DOMAIN startedLabs PROVE FALSE
    OBVIOUS
  <2>1. TagOf(l) = TagOf(startedLabs[TagOf(l)])
    BY DEF CountInv, Fresh
  <2>2. startedLabs[TagOf(l)] \in 1..Cap /\ l \in 1..Cap
    BY <1>3 DEF TypeInv, TypeOK
  <2> QED
    BY <2>1, <2>2 DEF UniqueTags
<1>5. /\ startedLabs'[TagOf(l)] = l
      /\ \A t \in DOMAIN startedLabs : startedLabs'[t] = startedLabs[t]
  BY <1>4 DEF Register
<1>6. IsFiniteSet(DOMAIN startedLabs') /\ Started' = Started + 1
  BY <1>1, <1>4, FS_AddElement DEF Started, CountInv, Count
<1> QED
  BY <1>1, <1>4, <1>5, <1>6

(* No step of the hub makes more labs due than the capacity leaves. *)
LEMMA CountInvStep ==
  ASSUME UniqueTags, Cap >= 2, TypeInv, TypeInv', CountInv, [Next]_vars
  PROVE  CountInv'
<1> USE DEF workerVars, dispatchVars, chanVars, userVars, labVars
<1>0. Started \in Nat
  BY FS_CardinalityType DEF CountInv, Count, Started
<1>a. ASSUME UNCHANGED <<wlab, labs, startedLabs>> PROVE Fresh' /\ Started' = Started
  BY <1>a DEF CountInv, Fresh, Started
<1>b. ASSUME UNCHANGED <<wpc, wlab, labs, startedLabs, created, dpc>> PROVE CountInv'
  BY <1>a, <1>b DEF CountInv, Count, CapacityRespected, Pending, Hand, Slack
<1>t. /\ wpc \in [1..2 -> WorkerStates] /\ wlab \in [1..2 -> 0..created]
      /\ created \in Nat /\ labs \in Seq(1..created) /\ Len(labs) \in Nat
      /\ \A w \in 1..2 : wpc[w] \in {"send", "close"} <=> wlab[w] # 0
      /\ \A t \in DOMAIN startedLabs : startedLabs[t] \in 1..created
  BY DEF TypeInv, TypeOK, Hands, Workers, Labs
<1>p. Pending(1) \in 0..1 /\ Pending(2) \in 0..1 /\ Hand(1) \in 0..1 /\ Hand(2) \in 0..1
  BY DEF Pending, Hand
<1>f. Fresh /\ Count
  BY DEF CountInv
<1> USE CapAssumption
<1>1. ASSUME NEW w \in Workers, SendReady(w) PROVE CountInv'
  <2>1. Pending(1)' + Pending(2)' = Pending(1) + Pending(2) + 1
    BY <1>1, <1>t DEF SendReady, Pending, Workers
  <2>2. Hand(1)' = Hand(1) /\ Hand(2)' = Hand(2) /\ Fresh' /\ Started' = Started
    BY <1>1, <1>a DEF SendReady, Hand
  <2>3. /\ Pending(1)' \in 0..1 /\ Pending(2)' \in 0..1
        /\ UNCHANGED <<labs, created, startedLabs>>
        /\ \/ dpc = "boot1" /\ dpc' = "boot2"
           \/ dpc \in {"boot2", "ready"} /\ dpc' = "select"
    BY <1>1 DEF SendReady, Pending
  <2>4. Count'
    BY <1>f, <1>p, <1>t, <1>0, <2>1, <2>2, <2>3 DEF Count, CapacityRespected, Slack
  <2> QED
    BY <2>2, <2>4 DEF CountInv
<1>2. ASSUME NEW w \in Workers, WorkerExit(w) \/ WorkerAdd(w) \/ WorkerStop(w) PROVE CountInv'
  <2>1. Pending(1)' = Pending(1) /\ Pending(2)' = Pending(2)
    BY <1>2, <1>t DEF WorkerExit, WorkerAdd, WorkerStop, Pending, Workers
  <2>2. Hand(1)' = Hand(1) /\ Hand(2)' = Hand(2) /\ Fresh' /\ Started' = Started
    BY <1>2, <1>a DEF WorkerExit, WorkerAdd, WorkerStop, Hand
  <2>3. Count'
    BY <1>2, <1>f, <2>1, <2>2
    DEF WorkerExit, WorkerAdd, WorkerStop, Count, CapacityRespected, Slack
  <2> QED
    BY <2>2, <2>3 DEF CountInv
<1>4. ASSUME NEW w \in Workers, NewLab(w) PROVE CountInv'
  <2>1. Pending(1)' + Pending(2)' = Pending(1) + Pending(2) - 1
    BY <1>4, <1>t DEF NewLab, Pending, Workers
  <2>2. Hand(1)' + Hand(2)' = Hand(1) + Hand(2) + 1
    BY <1>4, <1>t DEF NewLab, Hand, Workers
  <2>3. Hand(1)' \in 0..1 /\ Hand(2)' \in 0..1 /\ Pending(1)' \in 0..1 /\ Pending(2)' \in 0..1
    BY DEF Hand, Pending
  <2>4. Count'
    BY <1>4, <1>f, <1>p, <1>t, <1>0, <2>1, <2>2, <2>3
    DEF NewLab, Count, CapacityRespected, Slack, Started
  <2>5. /\ wlab'[w] = created + 1
        /\ \A v \in 1..2 : v # w => wlab'[v] = wlab[v]
        /\ labs' = labs /\ startedLabs' = startedLabs
    BY <1>4, <1>t DEF NewLab, Workers
  <2>6. \A i \in 1..Len(labs) : labs[i] \in 1..created
    BY <1>t
  <2>7. Fresh'
    BY <1>f, <1>t, <2>5, <2>6 DEF Fresh, Workers
  <2> QED
    BY <2>4, <2>7 DEF CountInv
<1>5. ASSUME NEW w \in Workers, WorkerSend(w) PROVE CountInv'
  <2>1. wlab[w] \in 1..created
    BY <1>5, <1>t DEF WorkerSend, Workers
  <2>2. /\ Len(labs') = Len(labs) + 1
        /\ \A i \in 1..Len(labs) : labs'[i] = labs[i]
        /\ labs'[Len(labs) + 1] = wlab[w]
    BY <1>5, <1>t, <2>1, SendFacts DEF WorkerSend
  <2>3. Pending(1)' = Pending(1) /\ Pending(2)' = Pending(2)
    BY <1>5, <1>t DEF WorkerSend, Pending, Workers
  <2>4. Hand(1)' + Hand(2)' = Hand(1) + Hand(2) - 1
    BY <1>5, <1>t, <2>1 DEF WorkerSend, Hand, Workers
  <2>5. Hand(1)' \in 0..1 /\ Hand(2)' \in 0..1
    BY DEF Hand
  <2>6. Count'
    BY <1>5, <1>f, <1>p, <1>t, <1>0, <2>2, <2>3, <2>4, <2>5
    DEF WorkerSend, Count, CapacityRespected, Slack, Started
  <2>7. /\ wlab'[w] = 0
        /\ \A v \in 1..2 : v # w => wlab'[v] = wlab[v]
        /\ startedLabs' = startedLabs
    BY <1>5, <1>t DEF WorkerSend, Workers
  <2>8. \A i \in 1..Len(labs) : labs[i] \in 1..created
    BY <1>t
  <2>9. \A i \in 1..Len(labs') : labs'[i] = IF i <= Len(labs) THEN labs[i] ELSE wlab[w]
    BY <1>t, <2>2
  <2>10. Fresh'
    <3>1. \A i \in 1..Len(labs) : labs[i] # wlab[w]
      BY <1>f DEF Fresh
    <3>2. \A i, j \in 1..Len(labs') : labs'[i] = labs'[j] => i = j
      BY <1>f, <1>t, <2>2, <2>9, <3>1 DEF Fresh
    <3>3. \A v \in Workers : v # w => wlab[v] # wlab[w]
      BY <1>f, <1>t, <2>1 DEF Fresh, Workers
    <3>4. \A v \in Workers : \A i \in 1..Len(labs') : labs'[i] # wlab'[v]
      BY <1>f, <1>t, <2>1, <2>2, <2>7, <2>8, <2>9, <3>3 DEF Fresh, Workers
    <3>5. \A t \in DOMAIN startedLabs : \A i \in 1..Len(labs') : startedLabs[t] # labs'[i]
      BY <1>f, <1>t, <2>2, <2>9 DEF Fresh
    <3>6. \A t \in DOMAIN startedLabs : \A v \in Workers : startedLabs[t] # wlab'[v]
      BY <1>f, <1>t, <2>7 DEF Fresh, Workers
    <3>7. wlab'[1] # 0 => wlab'[1] # wlab'[2]
      BY <1>f, <1>t, <2>7 DEF Fresh, Workers
    <3> QED
      BY <1>f, <2>7, <3>2, <3>4, <3>5, <3>6, <3>7 DEF Fresh
  <2> QED
    BY <2>6, <2>10 DEF CountInv
<1>7. ASSUME NEW w \in Workers, WorkerCloseLab(w) PROVE CountInv'
  <2>1. Pending(1)' = Pending(1) /\ Pending(2)' = Pending(2)
    BY <1>7, <1>t DEF WorkerCloseLab, Pending, Workers
  <2>2. Hand(1)' + Hand(2)' = Hand(1) + Hand(2) - 1
    BY <1>7, <1>t DEF WorkerCloseLab, Hand, Workers
  <2>3. Hand(1)' \in 0..1 /\ Hand(2)' \in 0..1
    BY DEF Hand
  <2>4. Count'
    BY <1>7, <1>f, <1>p, <1>t, <1>0, <2>1, <2>2, <2>3
    DEF WorkerCloseLab, Count, CapacityRespected, Slack, Started
  <2>5. /\ wlab'[w] = 0
        /\ \A v \in 1..2 : v # w => wlab'[v] = wlab[v]
        /\ labs' = labs /\ startedLabs' = startedLabs
    BY <1>7, <1>t DEF WorkerCloseLab, Workers
  <2>6. \A i \in 1..Len(labs) : labs[i] \in 1..created
    BY <1>t
  <2>7. Fresh'
    BY <1>f, <1>t, <2>5, <2>6 DEF Fresh, Workers
  <2> QED
    BY <2>4, <2>7 DEF CountInv
<1>8. CASE ReceiveLab
  <2>1. /\ Head(labs) \in 1..created /\ Head(labs) = labs[1] /\ Len(labs) >= 1
        /\ Len(labs') = Len(labs) - 1
        /\ \A i \in 1..Len(labs') : labs'[i] = labs[i + 1]
    BY <1>8, <1>t, ReceiveFacts DEF ReceiveLab
  <2>2. \A t \in DOMAIN startedLabs : startedLabs[t] # Head(labs)
    BY <1>f, <1>t, <2>1 DEF Fresh
  <2>3. Register(Head(labs))
    BY <1>8 DEF ReceiveLab
  <2>4. /\ DOMAIN startedLabs' = DOMAIN startedLabs \cup {TagOf(Head(labs))}
        /\ startedLabs'[TagOf(Head(labs))] = Head(labs)
        /\ \A t \in DOMAIN startedLabs : startedLabs'[t] = startedLabs[t]
        /\ IsFiniteSet(DOMAIN startedLabs')
        /\ Started' = Started + 1
    BY <2>1, <2>2, <2>3, RegisterNew DEF Register, Labs
  <2>5. wlab' = wlab /\ wpc' = wpc /\ created' = created /\ dpc = "select" /\ dpc' = "enqueue"
    BY <1>8 DEF ReceiveLab
  <2>6. \A w \in 1..2 : wlab[w] # labs[1]
    BY <1>f, <1>t, <2>1 DEF Fresh, Workers
  <2>7. Fresh'
    <3>1. \A i \in 1..Len(labs') : i + 1 \in 1..Len(labs) /\ i + 1 # 1
      BY <1>t, <2>1
    <3>2. \A t \in DOMAIN startedLabs' :
            /\ t = TagOf(startedLabs'[t])
            /\ \A w \in Workers : startedLabs'[t] # wlab'[w]
      BY <1>f, <2>1, <2>4, <2>5, <2>6 DEF Fresh, Workers
    <3>3. \A t \in DOMAIN startedLabs' : \A i \in 1..Len(labs') : startedLabs'[t] # labs'[i]
      <4> SUFFICES ASSUME NEW t \in DOMAIN startedLabs', NEW i \in 1..Len(labs')
                   PROVE  startedLabs'[t] # labs'[i]
        OBVIOUS
      <4>1. labs'[i] = labs[i + 1] /\ i + 1 \in 1..Len(labs) /\ 1 \in 1..Len(labs) /\ i + 1 # 1
        BY <1>t, <2>1, <3>1
      <4>2. labs[i + 1] # labs[1]
        BY <1>f, <4>1 DEF Fresh
      <4> QED
        BY <1>f, <2>1, <2>4, <4>1, <4>2 DEF Fresh
    <3>4. \A i, j \in 1..Len(labs') : labs'[i] = labs'[j] => i = j
      <4> SUFFICES ASSUME NEW i \in 1..Len(labs'), NEW j \in 1..Len(labs'), labs'[i] = labs'[j]
                   PROVE  i = j
        OBVIOUS
      <4>1. labs[i + 1] = labs[j + 1] /\ i + 1 \in 1..Len(labs) /\ j + 1 \in 1..Len(labs)
        BY <2>1, <3>1
      <4>2. i + 1 = j + 1
        BY <1>f, <4>1 DEF Fresh
      <4> QED
        BY <4>2, <1>t, <2>1
    <3>5. \A w \in Workers : \A i \in 1..Len(labs') : labs'[i] # wlab'[w]
      BY <1>f, <2>1, <2>5, <3>1 DEF Fresh
    <3>6. wlab'[1] # 0 => wlab'[1] # wlab'[2]
      BY <1>f, <2>5 DEF Fresh
    <3> QED
      BY <3>2, <3>3, <3>4, <3>5, <3>6 DEF Fresh
  <2>8. Count'
    BY <1>f, <1>p, <1>t, <1>0, <2>1, <2>4, <2>5
    DEF Count, CapacityRespected, Slack, Hand, Pending
  <2> QED
    BY <2>7, <2>8 DEF CountInv
<1>9. ASSUME NEW w \in Workers, ReceiveLabDirect(w) PROVE CountInv'
  <2>1. wlab[w] \in 1..created
    BY <1>9, <1>t DEF ReceiveLabDirect, Workers
  <2>2. \A t \in DOMAIN startedLabs : startedLabs[t] # wlab[w]
    BY <1>f DEF Fresh
  <2>3. Register(wlab[w])
    BY <1>9 DEF ReceiveLabDirect
  <2>4. /\ DOMAIN startedLabs' = DOMAIN startedLabs \cup {TagOf(wlab[w])}
        /\ startedLabs'[TagOf(wlab[w])] = wlab[w]
        /\ \A t \in DOMAIN startedLabs : startedLabs'[t] = startedLabs[t]
        /\ IsFiniteSet(DOMAIN startedLabs')
        /\ Started' = Started + 1
    BY <2>1, <2>2, <2>3, RegisterNew DEF Register, Labs
  <2>5. Pending(1)' = Pending(1) /\ Pending(2)' = Pending(2)
    BY <1>9, <1>t DEF ReceiveLabDirect, Pending, Workers
  <2>6. Hand(1)' + Hand(2)' = Hand(1) + Hand(2) - 1
    BY <1>9, <1>t, <2>1 DEF ReceiveLabDirect, Hand, Workers
  <2>7. Hand(1)' \in 0..1 /\ Hand(2)' \in 0..1
    BY DEF Hand
  <2>8. /\ wlab'[w] = 0 /\ labs = <<>> /\ labs' = labs /\ created' = created
        /\ \A v \in 1..2 : v # w => wlab'[v] = wlab[v]
        /\ dpc = "select" /\ dpc' = "enqueue"
    BY <1>9, <1>t DEF ReceiveLabDirect, Workers
  <2>9. Fresh'
    BY <1>f, <1>t, <2>1, <2>4, <2>8 DEF Fresh, Workers
  <2>10. Count'
    BY <1>f, <1>p, <1>t, <1>0, <2>4, <2>5, <2>6, <2>7, <2>8
    DEF Count, CapacityRespected, Slack
  <2> QED
    BY <2>9, <2>10 DEF CountInv
<1>10. ASSUME AfterQueued, dpc = "enqueue", UNCHANGED <<wpc, wlab, labs, startedLabs, created>>
       PROVE  CountInv'
  <2>1. /\ Pending(1)' = Pending(1) /\ Pending(2)' = Pending(2)
        /\ Hand(1)' = Hand(1) /\ Hand(2)' = Hand(2)
    BY <1>10 DEF Pending, Hand
  <2>2. Fresh' /\ Started' = Started
    BY <1>10, <1>a
  <2>3. dpc' = IF Started + 2 - 1 = Cap \/ Started = Cap THEN "select" ELSE "ready"
    BY <1>10 DEF AfterQueued, Started
  <2>4. Count'
    BY <1>10, <1>f, <1>p, <1>t, <1>0, <2>1, <2>2, <2>3 DEF Count, CapacityRespected, Slack
  <2> QED
    BY <2>2, <2>4 DEF CountInv
<1>11. CASE EnqueueLab
  BY <1>10, <1>11 DEF EnqueueLab
<1>12. CASE TakeFromDispatcher
  BY <1>10, <1>12 DEF TakeFromDispatcher
<1>13. CASE SkipQueue \/ DispatchStop \/ WaitWorkers \/ DispatchReturn
  <2>1. /\ UNCHANGED <<wpc, wlab, labs, startedLabs, created>>
        /\ dpc \notin {"boot1", "boot2"}
        /\ dpc' \notin {"boot1", "boot2", "enqueue", "ready"}
    BY <1>13 DEF SkipQueue, DispatchStop, WaitWorkers, DispatchReturn
  <2>2. /\ Pending(1)' = Pending(1) /\ Pending(2)' = Pending(2)
        /\ Hand(1)' = Hand(1) /\ Hand(2)' = Hand(2)
    BY <2>1 DEF Pending, Hand
  <2>3. Fresh' /\ Started' = Started
    BY <2>1, <1>a
  <2>4. Count'
    BY <1>f, <1>p, <1>t, <1>0, <2>1, <2>2, <2>3 DEF Count, CapacityRespected, Slack
  <2> QED
    BY <2>3, <2>4 DEF CountInv
<1>16. CASE DrainLab
  <2>1. /\ Len(labs) >= 1
        /\ Len(labs') = Len(labs) - 1
        /\ \A i \in 1..Len(labs') : labs'[i] = labs[i + 1]
    BY <1>16, <1>t, ReceiveFacts DEF DrainLab
  <2>2. UNCHANGED <<wpc, wlab, startedLabs, created, dpc>>
    BY <1>16 DEF DrainLab
  <2>3. \A i \in 1..Len(labs') : i + 1 \in 1..Len(labs)
    BY <1>t, <2>1
  <2>4. Fresh'
    <3>1. \A i, j \in 1..Len(labs') : labs'[i] = labs'[j] => i = j
      <4> SUFFICES ASSUME NEW i \in 1..Len(labs'), NEW j \in 1..Len(labs'), labs'[i] = labs'[j]
                   PROVE  i = j
        OBVIOUS
      <4>1. labs[i + 1] = labs[j + 1] /\ i + 1 \in 1..Len(labs) /\ j + 1 \in 1..Len(labs)
        BY <2>1, <2>3
      <4>2. i + 1 = j + 1
        BY <1>f, <4>1 DEF Fresh
      <4> QED
        BY <4>2, <1>t, <2>1
    <3>2. \A w \in Workers : \A i \in 1..Len(labs') : labs'[i] # wlab'[w]
      BY <1>f, <2>1, <2>2, <2>3 DEF Fresh
    <3>3. \A t \in DOMAIN startedLabs : \A i \in 1..Len(labs') : startedLabs[t] # labs'[i]
      BY <1>f, <2>1, <2>3 DEF Fresh
    <3> QED
      BY <1>f, <2>2, <3>1, <3>2, <3>3 DEF Fresh
  <2>5. Count'
    BY <1>f, <1>p, <1>t, <1>0, <2>1, <2>2
    DEF Count, CapacityRespected, Slack, Started, Pending, Hand
  <2> QED
    BY <2>4, <2>5 DEF CountInv
<1>18. ASSUME NEW t \in DOMAIN startedLabs, CloseStarted(t) PROVE CountInv'
  BY <1>18, <1>b DEF CloseStarted
<1>19. CASE Requeuer
  BY <1>19, <1>b DEF Requeuer, ReceiveDeallocated, Requeue
<1>20. CASE Take
  BY <1>20, <1>b DEF Take
<1>21. CASE TakeFromRequeuer
  BY <1>21, <1>b DEF TakeFromRequeuer
<1>22. ASSUME NEW l \in Labs, Update(l) PROVE CountInv'
  BY <1>22, <1>b DEF Update
<1>23. CASE IterateLabs
  BY <1>23, <1>b DEF IterateLabs
<1>24. CASE Close
  BY <1>24, <1>b DEF Close
<1>25. CASE Crash
  BY <1>25, <1>b DEF Crash, NewLabFails, WorkerSendClosed, RegisterRace, CloseAgain, Panic
<1>26. CASE UNCHANGED vars
  BY <1>26, <1>b DEF vars
<1> QED
  BY <1>1, <1>2, <1>4, <1>5, <1>7, <1>8, <1>9, <1>11, <1>12, <1>13, <1>16,
     <1>18, <1>19, <1>20, <1>21, <1>22, <1>23, <1>24, <1>25, <1>26
  DEF Next, Worker, Dispatcher, User

(* For every capacity of at least 2 and every buffer, when no tag repeats, *)
(* the hub never has more labs, existing or being created, than the        *)
(* event's capacity.                                                       *)
THEOREM CapacitySafe ==
  ASSUME UniqueTags, Cap >= 2
  PROVE  Spec => []CapacityRespected
<1>1. TypeInv /\ TypeInv' /\ CountInv /\ [Next]_vars => CountInv'
  BY CountInvStep
<1>2. CountInv => CapacityRespected
  BY DEF CountInv, Count
<1> QED
  BY <1>1, <1>2, TypeCorrect, CountInvInit, PTL DEF Spec

-----------------------------------------------------------------------------
(* Destroying labs. *)

(* Whoever is to destroy lab l: a worker, the dispatcher when it drains    *)
(* the channel, or the dispatcher when it walks through the map.           *)
Owned(l) ==
    \/ l \in closedLabs
    \/ \E w \in Workers : wlab[w] = l
    \/ \E i \in 1..Len(labs) : labs[i] = l
    \/ \E t \in DOMAIN startedLabs : startedLabs[t] = l

CloseInv ==
    /\ \A l \in Labs : Owned(l)
    /\ labsClosed <=> dpc \in {"drain", "done"}
    /\ dpc = "done" => /\ labs = <<>>
                       /\ \A t \in DOMAIN startedLabs : startedLabs[t] \in closedLabs

(* At the start there is no lab to destroy. *)
LEMMA CloseInvInit == Init => CloseInv
BY DEF Init, CloseInv, Labs

(* Every step keeps track of the labs that are still to be destroyed. *)
LEMMA CloseInvStep ==
  ASSUME UniqueTags, TypeInv, CountInv, CloseInv, [Next]_vars
  PROVE  CloseInv'
<1> USE DEF workerVars, dispatchVars, chanVars, userVars, labVars
<1>t. /\ wlab \in [1..2 -> 0..created]
      /\ created \in Nat /\ labs \in Seq(1..created) /\ Len(labs) \in Nat
      /\ \A w \in 1..2 : wpc[w] \in {"send", "close"} <=> wlab[w] # 0
  BY DEF TypeInv, TypeOK, Hands, Workers, Labs
<1>f. Fresh
  BY DEF CountInv
<1>a. ASSUME UNCHANGED <<wlab, labs, labsClosed, startedLabs, created, closedLabs, dpc>>
      PROVE  CloseInv'
  BY <1>a DEF CloseInv, Owned, Labs
<1>b. ASSUME UNCHANGED <<wlab, labs, labsClosed, startedLabs, created, closedLabs>>,
             dpc \notin {"drain", "done"}, dpc' \notin {"drain", "done"}
      PROVE  CloseInv'
  BY <1>b DEF CloseInv, Owned, Labs
<1>1. ASSUME NEW w \in Workers, SendReady(w) PROVE CloseInv'
  BY <1>1, <1>b DEF SendReady
<1>2. ASSUME NEW w \in Workers, WorkerExit(w) \/ WorkerAdd(w) \/ WorkerStop(w) PROVE CloseInv'
  BY <1>2, <1>a DEF WorkerExit, WorkerAdd, WorkerStop
<1>3. ASSUME NEW w \in Workers, NewLab(w) PROVE CloseInv'
  <2>1. wlab'[w] = created + 1 /\ \A v \in Workers : v # w => wlab'[v] = wlab[v]
    BY <1>3, <1>t DEF NewLab, Workers
  <2>2. wlab[w] = 0
    BY <1>3, <1>t DEF NewLab, Workers
  <2>3. ASSUME NEW l \in Labs' PROVE Owned(l)'
    <3>1. CASE l = created + 1
      BY <2>1, <3>1 DEF Owned
    <3>2. CASE l \in Labs
      <4>1. Owned(l) /\ l # 0
        BY <3>2, <1>t DEF CloseInv, Labs
      <4> QED
        BY <1>3, <2>1, <2>2, <4>1 DEF NewLab, Owned
    <3> QED
      BY <3>1, <3>2, <1>3, <1>t DEF NewLab, Labs
  <2> QED
    BY <1>3, <2>3 DEF NewLab, CloseInv
<1>4. ASSUME NEW w \in Workers, WorkerSend(w) PROVE CloseInv'
  <2>1. wlab[w] \in 1..created
    BY <1>4, <1>t DEF WorkerSend, Workers
  <2>2. /\ Len(labs') = Len(labs) + 1
        /\ \A i \in 1..Len(labs) : labs'[i] = labs[i]
        /\ labs'[Len(labs) + 1] = wlab[w]
    BY <1>4, <1>t, <2>1, SendFacts DEF WorkerSend
  <2>3. \A v \in Workers : v # w => wlab'[v] = wlab[v]
    BY <1>4, <1>t DEF WorkerSend, Workers
  <2>4. /\ dpc' = dpc /\ dpc \notin {"drain", "done"} /\ labsClosed' = labsClosed
        /\ created' = created /\ startedLabs' = startedLabs /\ closedLabs' = closedLabs
    BY <1>4 DEF WorkerSend, CloseInv
  <2>5. ASSUME NEW l \in Labs' PROVE Owned(l)'
    <3>1. Owned(l)
      BY <2>4 DEF CloseInv, Labs
    <3>2. Len(labs) + 1 \in 1..Len(labs') /\ \A i \in 1..Len(labs) : i \in 1..Len(labs')
      BY <1>t, <2>2
    <3> QED
      BY <2>2, <2>3, <2>4, <3>1, <3>2 DEF Owned
  <2> QED
    BY <2>4, <2>5 DEF CloseInv
<1>5. ASSUME NEW w \in Workers, WorkerCloseLab(w) PROVE CloseInv'
  <2>1. \A v \in Workers : v # w => wlab'[v] = wlab[v]
    BY <1>5, <1>t DEF WorkerCloseLab, Workers
  <2>2. ASSUME NEW l \in Labs' PROVE Owned(l)'
    BY <1>5, <2>1 DEF WorkerCloseLab, CloseInv, Owned, Labs
  <2> QED
    BY <1>5, <2>2 DEF WorkerCloseLab, CloseInv
<1>6. CASE ReceiveLab
  <2>1. /\ Head(labs) \in 1..created /\ Head(labs) = labs[1] /\ Len(labs) >= 1
        /\ Len(labs') = Len(labs) - 1
        /\ \A i \in 1..Len(labs') : labs'[i] = labs[i + 1]
    BY <1>6, <1>t, ReceiveFacts DEF ReceiveLab
  <2>2. \A t \in DOMAIN startedLabs : startedLabs[t] # Head(labs)
    BY <1>f, <1>t, <2>1 DEF Fresh
  <2>3. Register(Head(labs))
    BY <1>6 DEF ReceiveLab
  <2>4. /\ DOMAIN startedLabs' = DOMAIN startedLabs \cup {TagOf(Head(labs))}
        /\ startedLabs'[TagOf(Head(labs))] = Head(labs)
        /\ \A t \in DOMAIN startedLabs : startedLabs'[t] = startedLabs[t]
    BY <2>1, <2>2, <2>3, RegisterNew DEF Register, Labs
  <2>5. ASSUME NEW l \in Labs' PROVE Owned(l)'
    <3>1. Owned(l) /\ wlab' = wlab /\ closedLabs' = closedLabs
      BY <1>6 DEF ReceiveLab, CloseInv, Labs
    <3>2. ASSUME NEW i \in 1..Len(labs), i # 1
          PROVE  i - 1 \in 1..Len(labs') /\ labs'[i - 1] = labs[i]
      BY <3>2, <1>t, <2>1
    <3> QED
      BY <2>1, <2>4, <3>1, <3>2 DEF Owned
  <2> QED
    BY <1>6, <2>5 DEF ReceiveLab, CloseInv
<1>7. ASSUME NEW w \in Workers, ReceiveLabDirect(w) PROVE CloseInv'
  <2>1. wlab[w] \in 1..created
    BY <1>7, <1>t DEF ReceiveLabDirect, Workers
  <2>2. \A t \in DOMAIN startedLabs : startedLabs[t] # wlab[w]
    BY <1>f DEF Fresh
  <2>3. Register(wlab[w])
    BY <1>7 DEF ReceiveLabDirect
  <2>4. /\ DOMAIN startedLabs' = DOMAIN startedLabs \cup {TagOf(wlab[w])}
        /\ startedLabs'[TagOf(wlab[w])] = wlab[w]
        /\ \A t \in DOMAIN startedLabs : startedLabs'[t] = startedLabs[t]
    BY <2>1, <2>2, <2>3, RegisterNew DEF Register, Labs
  <2>5. \A v \in Workers : v # w => wlab'[v] = wlab[v]
    BY <1>7, <1>t DEF ReceiveLabDirect, Workers
  <2>6. ASSUME NEW l \in Labs' PROVE Owned(l)'
    <3>1. Owned(l) /\ labs' = labs /\ closedLabs' = closedLabs
      BY <1>7 DEF ReceiveLabDirect, CloseInv, Labs
    <3> QED
      BY <2>4, <2>5, <3>1 DEF Owned
  <2> QED
    BY <1>7, <2>6 DEF ReceiveLabDirect, CloseInv
<1>8. CASE EnqueueLab
  BY <1>8, <1>b DEF EnqueueLab, AfterQueued
<1>9. CASE TakeFromDispatcher
  BY <1>9, <1>b DEF TakeFromDispatcher, AfterQueued
<1>10. CASE SkipQueue \/ DispatchStop
  BY <1>10, <1>b DEF SkipQueue, DispatchStop
<1>11. CASE WaitWorkers
  BY <1>11 DEF WaitWorkers, CloseInv, Owned, Labs
<1>12. CASE DrainLab
  <2>1. /\ Head(labs) = labs[1] /\ Len(labs) >= 1
        /\ Len(labs') = Len(labs) - 1
        /\ \A i \in 1..Len(labs') : labs'[i] = labs[i + 1]
    BY <1>12, <1>t, ReceiveFacts DEF DrainLab
  <2>2. ASSUME NEW l \in Labs' PROVE Owned(l)'
    <3>1. Owned(l) /\ wlab' = wlab /\ startedLabs' = startedLabs
      BY <1>12 DEF DrainLab, CloseInv, Labs
    <3>2. ASSUME NEW i \in 1..Len(labs), i # 1
          PROVE  i - 1 \in 1..Len(labs') /\ labs'[i - 1] = labs[i]
      BY <3>2, <1>t, <2>1
    <3>3. closedLabs' = closedLabs \cup {labs[1]}
      BY <1>12, <2>1 DEF DrainLab
    <3> QED
      BY <3>1, <3>2, <3>3 DEF Owned
  <2> QED
    BY <1>12, <2>2 DEF DrainLab, CloseInv
<1>13. ASSUME NEW t \in DOMAIN startedLabs, CloseStarted(t) PROVE CloseInv'
  BY <1>13 DEF CloseStarted, CloseInv, Owned, Labs
<1>14. CASE DispatchReturn
  BY <1>14 DEF DispatchReturn, CloseInv, Owned, Labs
<1>15. CASE Requeuer
  BY <1>15, <1>a DEF Requeuer, ReceiveDeallocated, Requeue
<1>16. CASE Take \/ TakeFromRequeuer \/ IterateLabs \/ Close
  BY <1>16, <1>a DEF Take, TakeFromRequeuer, IterateLabs, Close
<1>17. ASSUME NEW l \in Labs, Update(l) PROVE CloseInv'
  BY <1>17, <1>a DEF Update
<1>18. CASE Crash
  BY <1>18, <1>a DEF Crash, NewLabFails, WorkerSendClosed, RegisterRace, CloseAgain, Panic
<1>19. CASE UNCHANGED vars
  BY <1>19, <1>a DEF vars
<1> QED
  BY <1>1, <1>2, <1>3, <1>4, <1>5, <1>6, <1>7, <1>8, <1>9, <1>10, <1>11, <1>12,
     <1>13, <1>14, <1>15, <1>16, <1>17, <1>18, <1>19
  DEF Next, Worker, Dispatcher, User

(* For every capacity of at least 2 and every buffer, when no tag repeats, *)
(* a hub whose dispatcher has returned and whose workers hold no lab has   *)
(* destroyed every lab it ever created.                                    *)
THEOREM ShutdownSafe ==
  ASSUME UniqueTags, Cap >= 2
  PROVE  Spec => []AllClosedAtEnd
<1>1. TypeInv /\ TypeInv' /\ CountInv /\ [Next]_vars => CountInv'
  BY CountInvStep
<1>2. TypeInv /\ CountInv /\ CloseInv /\ [Next]_vars => CloseInv'
  BY CloseInvStep
<1>3. TypeInv /\ CloseInv => AllClosedAtEnd
  <2> SUFFICES ASSUME TypeInv, CloseInv, dpc = "done",
                      \A w \in Workers : wpc[w] \in {"range", "exit"}
               PROVE  closedLabs = Labs
    BY DEF AllClosedAtEnd
  <2>1. \A w \in Workers : wlab[w] = 0
    BY DEF TypeInv, Hands
  <2>2. labs = <<>> /\ \A t \in DOMAIN startedLabs : startedLabs[t] \in closedLabs
    BY DEF CloseInv
  <2>3. \A l \in Labs : l # 0
    BY DEF Labs
  <2>4. \A l \in Labs : l \in closedLabs
    BY <2>1, <2>2, <2>3 DEF CloseInv, Owned
  <2> QED
    BY <2>4 DEF TypeInv, TypeOK
<1> QED
  BY <1>1, <1>2, <1>3, TypeCorrect, CountInvInit, CloseInvInit, PTL DEF Spec

-----------------------------------------------------------------------------
(* Labs on their way. *)

(* The places a lab can be in.  A channel is one place. *)
Kinds == {"worker", "labs", "dispatcher", "queue", "team", "deallocated", "requeuer"}

In(k, l) ==
    \/ k = "worker" /\ \E w \in Workers : wlab[w] = l
    \/ k = "labs" /\ InChan(labs, l)
    \/ k = "dispatcher" /\ dlab = l
    \/ k = "queue" /\ InChan(queue, l)
    \/ k = "team" /\ l \in outside
    \/ k = "deallocated" /\ InChan(deallocated, l)
    \/ k = "requeuer" /\ rlab = l

(* A lab is in one place at most, *)
Excl == \A l \in Labs : \A j, k \in Kinds : In(j, l) /\ In(k, l) => j = k

(* and once there. *)
Inj ==
    /\ wlab[1] # 0 => wlab[1] # wlab[2]
    /\ Once(labs) /\ Once(queue) /\ Once(deallocated)

(* Until Close it is in some place. *)
Kept == ~stop => \A l \in Labs : \E k \in Kinds : In(k, l)

(* Labs are put away only after Close. *)
StopInv ==
    /\ \A w \in Workers : wpc[w] = "close" => stop
    /\ dpc \in {"wait", "drain", "done"} => stop

HolderInv == Excl /\ Inj /\ Kept /\ StopInv

(* 1 for a goroutine that holds a lab. *)
One(l) == IF l = 0 THEN 0 ELSE 1

(* Until Close the labs that are registered are at the dispatcher, in the  *)
(* queue, with a team, or on their way back.                               *)
Flow ==
    /\ IsFiniteSet(outside)
    /\ stop \/ Started = One(dlab) + Len(queue) + Cardinality(outside) + Len(deallocated)
                         + One(rlab)

-----------------------------------------------------------------------------

(* What a lab's move from one place to another does. *)
Moved(l0, a, b) ==
    /\ In(a, l0) /\ ~In(a, l0)' /\ In(b, l0)'
    /\ \A l \in Labs, k \in Kinds :
          l # l0 \/ k \notin {a, b} => (In(k, l)' <=> In(k, l))

(* It is in one place before and after. *)
LEMMA MovedKeeps ==
    ASSUME Excl, Kept, NEW l0 \in Labs, NEW a \in Kinds, NEW b \in Kinds,
           Moved(l0, a, b), UNCHANGED <<created, stop>>
    PROVE  Excl' /\ Kept'
<1>1. Labs' = Labs
  BY DEF Labs
<1>2. ASSUME NEW l \in Labs, NEW j \in Kinds, NEW k \in Kinds, In(j, l)', In(k, l)'
      PROVE  j = k
  BY <1>2 DEF Excl, Moved
<1>3. ASSUME ~stop, NEW l \in Labs PROVE \E k \in Kinds : In(k, l)'
  BY <1>3 DEF Kept, Moved
<1> QED
  BY <1>1, <1>2, <1>3 DEF Excl, Kept

(* A lab that is put away is in no place any more. *)
LEMMA DroppedKeeps ==
    ASSUME Excl, stop', created' = created,
           \A l \in Labs, k \in Kinds : In(k, l)' => In(k, l)
    PROVE  Excl' /\ Kept'
<1>1. Labs' = Labs
  BY DEF Labs
<1> QED
  BY <1>1 DEF Excl, Kept

(* A worker gives its lab away. *)
LEMMA LeavesWorker ==
    ASSUME TypeInv, HolderInv, NEW w \in Workers, NEW l0 \in Labs, wlab[w] = l0,
           wlab' = [wlab EXCEPT ![w] = 0]
    PROVE  /\ \A v \in Workers : wlab'[v] # l0
           /\ \A l \in Labs : l # l0 => ((\E v \in Workers : wlab'[v] = l)
                                             <=> \E v \in Workers : wlab[v] = l)
           /\ wlab'[1] # 0 => wlab'[1] # wlab'[2]
BY DEF TypeInv, TypeOK, Workers, Labs, HolderInv, Inj

(* No two places share a lab. *)
LEMMA Elsewhere ==
    ASSUME TypeInv, HolderInv, NEW l \in Labs
    PROVE  /\ (\E w \in Workers : wlab[w] = l) => ~InChan(labs, l) /\ dlab # l
           /\ dlab = l => ~InChan(queue, l) /\ l \notin outside
           /\ rlab = l => ~InChan(queue, l) /\ l \notin outside
           /\ InChan(queue, l) => l \notin outside
           /\ l \in outside => ~InChan(deallocated, l)
<1>1. \A j, k \in Kinds : In(j, l) /\ In(k, l) => j = k
  BY DEF HolderInv, Excl
<1> QED
  BY <1>1 DEF In, Kinds

(* Every step moves one lab at most. *)
LEMMA HolderInvStep ==
    ASSUME TypeInv, HolderInv, [Next]_vars
    PROVE  HolderInv'
<1> USE DEF HolderInv, workerVars, dispatchVars, chanVars, userVars, labVars
<1>t. /\ wpc \in [Workers -> WorkerStates]
      /\ wlab \in [Workers -> 0..created] /\ created \in Nat
      /\ dlab \in 0..created /\ rlab \in 0..created
      /\ labs \in Seq(Labs) /\ queue \in Seq(Labs) /\ deallocated \in Seq(Labs)
      /\ outside \subseteq Labs /\ stop \in BOOLEAN
      /\ \A v \in Workers : wpc[v] \in {"send", "close"} <=> wlab[v] # 0
      /\ dpc = "enqueue" <=> dlab # 0
  BY DEF TypeInv, TypeOK, Hands
<1>z. \A l \in Labs : l # 0
  BY DEF Labs
<1>n. \A l \in 0..created : l # 0 => l \in Labs
  BY <1>t DEF Labs
<1>s. ASSUME UNCHANGED <<wlab, labs, dlab, queue, outside, deallocated, rlab, created>>,
             stop => stop', StopInv'
      PROVE  HolderInv'
  BY <1>s DEF Excl, Inj, Kept, In, Labs
<1>m. ASSUME NEW l0 \in Labs, NEW a \in Kinds, NEW b \in Kinds, Moved(l0, a, b), Inj',
             UNCHANGED <<created, stop>>, StopInv'
      PROVE  HolderInv'
  BY <1>m, MovedKeeps
<1>1. ASSUME NEW w \in Workers, SendReady(w) PROVE HolderInv'
  BY <1>1, <1>s, <1>t DEF SendReady, StopInv
<1>2. ASSUME NEW w \in Workers, WorkerExit(w) \/ WorkerAdd(w) \/ WorkerStop(w)
      PROVE  HolderInv'
  BY <1>2, <1>s, <1>t DEF WorkerExit, WorkerAdd, WorkerStop, StopInv
<1>3. ASSUME NEW w \in Workers, NewLab(w) PROVE HolderInv'
  <2>1. UNCHANGED <<labs, dlab, queue, outside, deallocated, rlab, stop, dpc>>
    BY <1>3 DEF NewLab
  <2>2. /\ created' = created + 1 /\ wlab'[w] = created + 1 /\ wlab[w] = 0
        /\ \A v \in Workers : v # w => wlab'[v] = wlab[v]
    BY <1>3, <1>t DEF NewLab
  <2>3. Labs' = Labs \cup {created + 1} /\ created + 1 \notin Labs /\ created + 1 # 0
    BY <1>t, <2>2 DEF Labs
  <2>4. \A l \in Labs, k \in Kinds : In(k, l)' <=> In(k, l)
    BY <1>z, <2>1, <2>2, <2>3 DEF In, Kinds
  <2>5. /\ ~InChan(labs, created + 1) /\ ~InChan(queue, created + 1)
        /\ ~InChan(deallocated, created + 1)
    BY <1>t, <2>3 DEF InChan
  <2>6. PICK l0 : l0 = created + 1
    OBVIOUS
  <2>7. \A k \in Kinds : In(k, l0)' <=> k = "worker"
    BY <1>t, <2>1, <2>2, <2>3, <2>5, <2>6 DEF In, Kinds
  <2>8. Excl'
    BY <2>3, <2>4, <2>6, <2>7 DEF Excl
  <2>9. Kept'
    BY <2>1, <2>3, <2>4, <2>6, <2>7 DEF Kept, Kinds
  <2>10. Inj'
    BY <1>t, <2>1, <2>2 DEF Inj, Workers
  <2>11. StopInv'
    BY <1>3, <1>t DEF NewLab, StopInv
  <2> QED
    BY <2>8, <2>9, <2>10, <2>11
<1>4. ASSUME NEW w \in Workers, WorkerSend(w) PROVE HolderInv'
  <2>1. PICK l0 \in Labs : wlab[w] = l0
    BY <1>4, <1>t, <1>n DEF WorkerSend
  <2>2. labs' = Append(labs, l0) /\ wlab' = [wlab EXCEPT ![w] = 0]
    BY <1>4, <2>1 DEF WorkerSend
  <2>3. /\ Once(labs') /\ InChan(labs', l0)
        /\ \A l : l # l0 => (InChan(labs', l) <=> InChan(labs, l))
    BY <1>t, <2>1, <2>2, Elsewhere, InAppend DEF Inj
  <2>4. UNCHANGED <<dlab, rlab, queue, deallocated, outside, created, stop, dpc>>
    BY <1>4 DEF WorkerSend
  <2>w. /\ \A v \in Workers : wlab'[v] # l0
        /\ \A l \in Labs : l # l0 => ((\E v \in Workers : wlab'[v] = l)
                                          <=> \E v \in Workers : wlab[v] = l)
    BY <2>1, <2>2, LeavesWorker
  <2>5. Moved(l0, "worker", "labs")
    BY <2>1, <2>3, <2>4, <2>w DEF Moved, In, Kinds
  <2>6. Inj'
    BY <2>1, <2>2, <2>3, <2>4, LeavesWorker DEF Inj
  <2>7. StopInv'
    BY <1>4, <1>t DEF WorkerSend, StopInv
  <2> QED
    BY <1>m, <2>4, <2>5, <2>6, <2>7 DEF Kinds
<1>5. ASSUME NEW w \in Workers, WorkerCloseLab(w) PROVE HolderInv'
  <2>1. PICK l0 \in Labs : wlab[w] = l0 /\ wlab' = [wlab EXCEPT ![w] = 0]
    BY <1>5, <1>t, <1>n DEF WorkerCloseLab
  <2>2. UNCHANGED <<labs, dlab, rlab, queue, deallocated, outside, created, stop, dpc>>
    BY <1>5 DEF WorkerCloseLab
  <2>3. stop
    BY <1>5 DEF WorkerCloseLab, StopInv
  <2>4. \A l \in Labs, k \in Kinds : In(k, l)' => In(k, l)
    BY <2>1, <2>2, LeavesWorker DEF In, Kinds
  <2>5. Excl' /\ Kept'
    BY <2>2, <2>3, <2>4, DroppedKeeps
  <2>6. Inj'
    BY <2>1, <2>2, LeavesWorker DEF Inj
  <2>7. StopInv'
    BY <1>5, <1>t DEF WorkerCloseLab, StopInv
  <2> QED
    BY <2>5, <2>6, <2>7
<1>6. CASE ReceiveLab
  <2>1. PICK l0 \in Labs : Head(labs) = l0
    BY <1>6, <1>t, ReceiveFacts DEF ReceiveLab
  <2>2. labs' = Tail(labs) /\ dlab' = l0 /\ dlab = 0
    BY <1>6, <1>t, <2>1 DEF ReceiveLab
  <2>3. /\ InChan(labs, l0) /\ ~InChan(labs', l0) /\ Once(labs')
        /\ \A l : l # l0 => (InChan(labs', l) <=> InChan(labs, l))
    BY <1>6, <1>t, <2>1, <2>2, InTail DEF ReceiveLab, Inj
  <2>4. UNCHANGED <<wlab, rlab, queue, deallocated, outside, created, stop, wpc>>
    BY <1>6 DEF ReceiveLab
  <2>5. Moved(l0, "labs", "dispatcher")
    BY <1>z, <2>2, <2>3, <2>4 DEF Moved, In, Kinds
  <2>6. Inj' /\ StopInv'
    BY <1>6, <2>3, <2>4 DEF ReceiveLab, Inj, StopInv
  <2> QED
    BY <1>m, <2>4, <2>5, <2>6 DEF Kinds
<1>7. ASSUME NEW w \in Workers, ReceiveLabDirect(w) PROVE HolderInv'
  <2>1. PICK l0 \in Labs : wlab[w] = l0 /\ wlab' = [wlab EXCEPT ![w] = 0]
    BY <1>7, <1>t, <1>n DEF ReceiveLabDirect
  <2>2. dlab' = l0 /\ dlab = 0
    BY <1>7, <1>t, <2>1 DEF ReceiveLabDirect
  <2>3. UNCHANGED <<labs, rlab, queue, deallocated, outside, created, stop>>
    BY <1>7 DEF ReceiveLabDirect
  <2>w. /\ \A v \in Workers : wlab'[v] # l0
        /\ \A l \in Labs : l # l0 => ((\E v \in Workers : wlab'[v] = l)
                                          <=> \E v \in Workers : wlab[v] = l)
    BY <2>1, LeavesWorker
  <2>4. Moved(l0, "worker", "dispatcher")
    BY <1>z, <2>1, <2>2, <2>3, <2>w DEF Moved, In, Kinds
  <2>5. Inj'
    BY <2>1, <2>3, LeavesWorker DEF Inj
  <2>6. StopInv'
    BY <1>7, <1>t DEF ReceiveLabDirect, StopInv
  <2> QED
    BY <1>m, <2>3, <2>4, <2>5, <2>6 DEF Kinds
<1>8. CASE EnqueueLab
  <2>1. PICK l0 \in Labs : dlab = l0
    BY <1>8, <1>t, <1>n DEF EnqueueLab
  <2>2. queue' = Append(queue, l0) /\ dlab' = 0
    BY <1>8, <2>1 DEF EnqueueLab, AfterQueued
  <2>3. /\ Once(queue') /\ InChan(queue', l0)
        /\ \A l : l # l0 => (InChan(queue', l) <=> InChan(queue, l))
    BY <1>t, <2>1, <2>2, Elsewhere, InAppend DEF Inj
  <2>4. UNCHANGED <<wlab, labs, rlab, deallocated, outside, created, stop, wpc>>
    BY <1>8 DEF EnqueueLab
  <2>5. Moved(l0, "dispatcher", "queue")
    BY <1>z, <2>1, <2>2, <2>3, <2>4 DEF Moved, In, Kinds
  <2>6. Inj' /\ StopInv'
    BY <1>8, <2>3, <2>4 DEF EnqueueLab, AfterQueued, Inj, StopInv
  <2> QED
    BY <1>m, <2>4, <2>5, <2>6 DEF Kinds
<1>9. CASE SkipQueue
  <2>1. UNCHANGED <<wlab, labs, rlab, queue, deallocated, outside, created, stop, wpc>>
    BY <1>9 DEF SkipQueue
  <2>2. stop /\ dlab' = 0
    BY <1>9 DEF SkipQueue
  <2>3. \A l \in Labs, k \in Kinds : In(k, l)' => In(k, l)
    BY <1>z, <2>1, <2>2 DEF In, Kinds
  <2>4. Excl' /\ Kept'
    BY <2>1, <2>2, <2>3, DroppedKeeps
  <2>5. Inj' /\ StopInv'
    BY <2>1, <2>2 DEF Inj, StopInv
  <2> QED
    BY <2>4, <2>5
<1>10. CASE DispatchStop \/ WaitWorkers \/ DispatchReturn
  BY <1>10, <1>s DEF DispatchStop, WaitWorkers, DispatchReturn, StopInv
<1>11. CASE DrainLab
  <2>1. labs # <<>> /\ labs' = Tail(labs) /\ stop
    BY <1>11 DEF DrainLab, StopInv
  <2>2. UNCHANGED <<wlab, dlab, rlab, queue, deallocated, outside, created, stop, wpc, dpc>>
    BY <1>11 DEF DrainLab
  <2>3. Once(labs') /\ \A l : InChan(labs', l) => InChan(labs, l)
    BY <1>t, <2>1, InTail DEF Inj
  <2>4. \A l \in Labs, k \in Kinds : In(k, l)' => In(k, l)
    BY <2>2, <2>3 DEF In, Kinds
  <2>5. Excl' /\ Kept'
    BY <2>1, <2>2, <2>4, DroppedKeeps
  <2>6. Inj' /\ StopInv'
    BY <2>2, <2>3 DEF Inj, StopInv
  <2> QED
    BY <2>5, <2>6
<1>12. ASSUME NEW t \in DOMAIN startedLabs, CloseStarted(t) PROVE HolderInv'
  BY <1>12, <1>s DEF CloseStarted, StopInv
<1>13. CASE ReceiveDeallocated
  <2>1. PICK l0 \in Labs : Head(deallocated) = l0
    BY <1>13, <1>t, ReceiveFacts DEF ReceiveDeallocated
  <2>2. deallocated' = Tail(deallocated) /\ rlab' = l0 /\ rlab = 0
    BY <1>13, <2>1 DEF ReceiveDeallocated
  <2>3. /\ InChan(deallocated, l0) /\ ~InChan(deallocated', l0) /\ Once(deallocated')
        /\ \A l : l # l0 => (InChan(deallocated', l) <=> InChan(deallocated, l))
    BY <1>13, <1>t, <2>1, <2>2, InTail DEF ReceiveDeallocated, Inj
  <2>4. UNCHANGED <<wlab, labs, dlab, queue, outside, created, stop, wpc, dpc>>
    BY <1>13 DEF ReceiveDeallocated
  <2>5. Moved(l0, "deallocated", "requeuer")
    BY <1>z, <2>2, <2>3, <2>4 DEF Moved, In, Kinds
  <2>6. Inj' /\ StopInv'
    BY <2>3, <2>4 DEF Inj, StopInv
  <2> QED
    BY <1>m, <2>4, <2>5, <2>6 DEF Kinds
<1>14. CASE Requeue
  <2>1. PICK l0 \in Labs : rlab = l0
    BY <1>14, <1>t, <1>n DEF Requeue
  <2>2. queue' = Append(queue, l0) /\ rlab' = 0
    BY <1>14, <2>1 DEF Requeue
  <2>3. /\ Once(queue') /\ InChan(queue', l0)
        /\ \A l : l # l0 => (InChan(queue', l) <=> InChan(queue, l))
    BY <1>t, <2>1, <2>2, Elsewhere, InAppend DEF Inj
  <2>4. UNCHANGED <<wlab, labs, dlab, deallocated, outside, created, stop, wpc, dpc>>
    BY <1>14 DEF Requeue
  <2>5. Moved(l0, "requeuer", "queue")
    BY <1>z, <2>1, <2>2, <2>3, <2>4 DEF Moved, In, Kinds
  <2>6. Inj' /\ StopInv'
    BY <2>3, <2>4 DEF Inj, StopInv
  <2> QED
    BY <1>m, <2>4, <2>5, <2>6 DEF Kinds
<1>15. CASE Take
  <2>1. PICK l0 \in Labs : Head(queue) = l0
    BY <1>15, <1>t, ReceiveFacts DEF Take
  <2>2. queue' = Tail(queue) /\ outside' = outside \cup {l0}
    BY <1>15, <2>1 DEF Take
  <2>3. /\ InChan(queue, l0) /\ ~InChan(queue', l0) /\ Once(queue')
        /\ \A l : l # l0 => (InChan(queue', l) <=> InChan(queue, l))
    BY <1>15, <1>t, <2>1, <2>2, InTail DEF Take, Inj
  <2>4. UNCHANGED <<wlab, labs, dlab, rlab, deallocated, created, stop, wpc, dpc>>
    BY <1>15 DEF Take
  <2>5. Moved(l0, "queue", "team")
    BY <2>2, <2>3, <2>4 DEF Moved, In, Kinds
  <2>6. Inj' /\ StopInv'
    BY <2>3, <2>4 DEF Inj, StopInv
  <2> QED
    BY <1>m, <2>4, <2>5, <2>6 DEF Kinds
<1>16. CASE TakeFromDispatcher
  <2>1. PICK l0 \in Labs : dlab = l0 /\ outside' = outside \cup {l0} /\ dlab' = 0
    BY <1>16, <1>t, <1>n DEF TakeFromDispatcher, AfterQueued
  <2>2. UNCHANGED <<wlab, labs, rlab, queue, deallocated, created, stop, wpc>>
    BY <1>16 DEF TakeFromDispatcher
  <2>3. Moved(l0, "dispatcher", "team")
    BY <1>z, <2>1, <2>2 DEF Moved, In, Kinds
  <2>4. Inj' /\ StopInv'
    BY <1>16, <2>2 DEF TakeFromDispatcher, AfterQueued, Inj, StopInv
  <2> QED
    BY <1>m, <2>2, <2>3, <2>4 DEF Kinds
<1>17. CASE TakeFromRequeuer
  <2>1. PICK l0 \in Labs : rlab = l0 /\ outside' = outside \cup {l0} /\ rlab' = 0
    BY <1>17, <1>t, <1>n DEF TakeFromRequeuer
  <2>2. UNCHANGED <<wlab, labs, dlab, queue, deallocated, created, stop, wpc, dpc>>
    BY <1>17 DEF TakeFromRequeuer
  <2>3. Moved(l0, "requeuer", "team")
    BY <1>z, <2>1, <2>2 DEF Moved, In, Kinds
  <2>4. Inj' /\ StopInv'
    BY <2>2 DEF Inj, StopInv
  <2> QED
    BY <1>m, <2>2, <2>3, <2>4 DEF Kinds
<1>18. ASSUME NEW l0 \in Labs, Update(l0) PROVE HolderInv'
  <2>1. /\ l0 \in outside /\ outside' = outside \ {l0}
        /\ deallocated' = Append(deallocated, l0)
    BY <1>18 DEF Update
  <2>2. /\ Once(deallocated') /\ InChan(deallocated', l0)
        /\ \A l : l # l0 => (InChan(deallocated', l) <=> InChan(deallocated, l))
    BY <1>t, <2>1, Elsewhere, InAppend DEF Inj
  <2>3. UNCHANGED <<wlab, labs, dlab, rlab, queue, created, stop, wpc, dpc>>
    BY <1>18 DEF Update
  <2>4. Moved(l0, "team", "deallocated")
    BY <2>1, <2>2, <2>3 DEF Moved, In, Kinds
  <2>5. Inj' /\ StopInv'
    BY <2>2, <2>3 DEF Inj, StopInv
  <2> QED
    BY <1>m, <2>3, <2>4, <2>5 DEF Kinds
<1>19. CASE IterateLabs \/ Close
  BY <1>19, <1>s DEF IterateLabs, Close, StopInv
<1>20. CASE Crash
  BY <1>20, <1>s DEF Crash, NewLabFails, WorkerSendClosed, RegisterRace, CloseAgain, Panic,
    StopInv
<1>21. CASE UNCHANGED vars
  BY <1>21, <1>s DEF vars, StopInv
<1> QED
  BY <1>1, <1>2, <1>3, <1>4, <1>5, <1>6, <1>7, <1>8, <1>9, <1>10, <1>11, <1>12,
     <1>13, <1>14, <1>15, <1>16, <1>17, <1>18, <1>19, <1>20, <1>21
  DEF Next, Worker, Dispatcher, Requeuer, User

(* At the start there are no labs. *)
LEMMA HolderInvInit == Init => HolderInv
BY DEF Init, HolderInv, Excl, Inj, Kept, StopInv, Labs, Once, Workers

(* A lab is in one place at a time, and until Close in some place. *)
THEOREM HolderInvariant == Spec => []HolderInv
<1>1. TypeInv /\ HolderInv /\ [Next]_vars => HolderInv'
  BY HolderInvStep
<1> QED
  BY <1>1, HolderInvInit, TypeCorrect, PTL DEF Spec

(* Holders, the references that SingleHolder counts, are the places. *)
LEMMA HoldersAre ==
    ASSUME TypeInv, HolderInv, NEW l \in Labs
    PROVE  /\ \A x, y \in Holders(l) : x = y
           /\ (\E k \in Kinds : In(k, l)) => Holders(l) # {}
<1>t. /\ wlab \in [1..2 -> 0..created] /\ l # 0
      /\ DOMAIN labs = 1..Len(labs) /\ DOMAIN queue = 1..Len(queue)
      /\ DOMAIN deallocated = 1..Len(deallocated)
  BY DEF TypeInv, TypeOK, Workers, Labs
<1>1. ASSUME NEW x \in Holders(l)
      PROVE  \/ \E w \in Workers : x = <<"worker", w>> /\ wlab[w] = l
             \/ \E i \in 1..Len(labs) : x = <<"labs", i>> /\ labs[i] = l
             \/ x = <<"dispatcher", 1>> /\ dlab = l
             \/ \E i \in 1..Len(queue) : x = <<"queue", i>> /\ queue[i] = l
             \/ x = <<"team", 1>> /\ l \in outside
             \/ \E i \in 1..Len(deallocated) : x = <<"deallocated", i>> /\ deallocated[i] = l
             \/ x = <<"requeuer", 1>> /\ rlab = l
  BY <1>t, <1>1 DEF Holders
<1>2. ASSUME NEW x \in Holders(l)
      PROVE  x[1] \in Kinds /\ In(x[1], l)
  BY <1>1 DEF In, Kinds, InChan
<1>3. ASSUME NEW x \in Holders(l), NEW y \in Holders(l) PROVE x = y
  <2>1. x[1] = y[1]
    BY <1>2 DEF HolderInv, Excl
  <2>2. \A v, w \in Workers : wlab[v] = l /\ wlab[w] = l => v = w
    BY <1>t DEF HolderInv, Inj, Workers
  <2> QED
    BY <1>1, <2>1, <2>2 DEF HolderInv, Inj, Once
<1>4. ASSUME NEW k \in Kinds, In(k, l) PROVE Holders(l) # {}
  <2>1. ASSUME NEW w \in Workers, wlab[w] = l PROVE <<"worker", w>> \in Holders(l)
    BY <2>1 DEF Holders
  <2>2. ASSUME NEW i \in 1..Len(labs), labs[i] = l PROVE <<"labs", i>> \in Holders(l)
    BY <1>t, <2>2 DEF Holders
  <2>3. ASSUME dlab = l PROVE <<"dispatcher", 1>> \in Holders(l)
    BY <2>3 DEF Holders
  <2>4. ASSUME NEW i \in 1..Len(queue), queue[i] = l PROVE <<"queue", i>> \in Holders(l)
    BY <1>t, <2>4 DEF Holders
  <2>5. ASSUME l \in outside PROVE <<"team", 1>> \in Holders(l)
    BY <2>5 DEF Holders
  <2>6. ASSUME NEW i \in 1..Len(deallocated), deallocated[i] = l
        PROVE  <<"deallocated", i>> \in Holders(l)
    BY <1>t, <2>6 DEF Holders
  <2>7. ASSUME rlab = l PROVE <<"requeuer", 1>> \in Holders(l)
    BY <2>7 DEF Holders
  <2> QED
    BY <1>4, <2>1, <2>2, <2>3, <2>4, <2>5, <2>6, <2>7 DEF In, InChan
<1> QED
  BY <1>3, <1>4

(* No lab is offered to two teams at once: however the workers, the        *)
(* dispatcher, the requeuing goroutine and the teams interleave, at most   *)
(* one of them refers to a lab, whatever the tags are.                     *)
THEOREM HoldersSingle == Spec => []SingleHolder
<1>1. TypeInv /\ HolderInv => SingleHolder
  <2> SUFFICES ASSUME TypeInv, HolderInv, NEW l \in Labs
               PROVE  Cardinality(Holders(l)) <= 1
    BY DEF SingleHolder
  <2>1. \A x, y \in Holders(l) : x = y
    BY HoldersAre
  <2>2. CASE Holders(l) = {}
    BY <2>2, FS_EmptySet
  <2>3. ASSUME NEW x \in Holders(l) PROVE Cardinality(Holders(l)) = 1
    <3>1. Holders(l) = {x}
      BY <2>1, <2>3
    <3> QED
      BY <3>1, FS_Singleton
  <2> QED
    BY <2>2, <2>3
<1> QED
  BY <1>1, TypeCorrect, HolderInvariant, PTL

(* Until Close no lab gets lost on its way from a worker to the queue, or  *)
(* from a team back to it.                                                 *)
THEOREM LabsKept == Spec => []NoLabLost
<1>1. TypeInv /\ HolderInv => NoLabLost
  BY HoldersAre DEF NoLabLost, HolderInv, Kept
<1> QED
  BY <1>1, TypeCorrect, HolderInvariant, PTL

-----------------------------------------------------------------------------
(* Demand. *)

(* At the start no lab is registered. *)
LEMMA FlowInit == Init => Flow
<1> SUFFICES ASSUME Init PROVE Flow
  OBVIOUS
<1>1. DOMAIN startedLabs = {}
  BY DEF Init
<1>2. Started = 0 /\ IsFiniteSet(outside) /\ Cardinality(outside) = 0
  BY <1>1, FS_EmptySet DEF Started, Init
<1> QED
  BY <1>2 DEF Init, Flow, One

(* Every step before Close keeps the balance. *)
LEMMA FlowStep ==
    ASSUME UniqueTags, TypeInv, CountInv, HolderInv, Flow, [Next]_vars
    PROVE  Flow'
<1> USE DEF workerVars, dispatchVars, chanVars, userVars, labVars
<1>t. /\ wlab \in [Workers -> 0..created] /\ created \in Nat
      /\ dlab \in 0..created /\ rlab \in 0..created
      /\ labs \in Seq(Labs) /\ queue \in Seq(Labs) /\ deallocated \in Seq(Labs)
      /\ Len(queue) \in Nat /\ Len(deallocated) \in Nat
      /\ outside \subseteq Labs /\ stop \in BOOLEAN
      /\ \A v \in Workers : wpc[v] \in {"send", "close"} <=> wlab[v] # 0
      /\ dpc = "enqueue" <=> dlab # 0
  BY DEF TypeInv, TypeOK, Hands
<1>z. \A l \in Labs : l # 0
  BY DEF Labs
<1>n. \A l \in 0..created : l # 0 => l \in Labs
  BY <1>t DEF Labs
<1>c. Started \in Nat /\ Cardinality(outside) \in Nat /\ IsFiniteSet(outside)
  BY FS_CardinalityType DEF CountInv, Count, Started, Flow
<1>f. stop \/ Started = One(dlab) + Len(queue) + Cardinality(outside) + Len(deallocated)
                        + One(rlab)
  BY DEF Flow
<1>g. ASSUME IsFiniteSet(outside'),
             stop' \/ Started' = One(dlab') + Len(queue') + Cardinality(outside')
                                 + Len(deallocated') + One(rlab')
      PROVE  Flow'
  BY <1>g DEF Flow
<1>o. One(0) = 0 /\ \A l \in Labs : One(l) = 1
  BY <1>z DEF One
<1>r. One(dlab) \in Nat /\ One(rlab) \in Nat
  BY DEF One
<1>u. startedLabs' = startedLabs => Started' = Started
  BY DEF Started
<1>s. ASSUME UNCHANGED <<startedLabs, dlab, queue, outside, deallocated, rlab>>, stop => stop'
      PROVE  Flow'
  BY <1>s DEF Flow, Started
<1>1. ASSUME NEW w \in Workers, Worker(w) PROVE Flow'
  BY <1>1, <1>s DEF Worker, WorkerExit, WorkerAdd, NewLab, WorkerSend, WorkerStop,
    WorkerCloseLab
<1>2. ASSUME NEW w \in Workers, SendReady(w) PROVE Flow'
  BY <1>2, <1>s DEF SendReady
<1>3. ASSUME NEW l \in Labs, Register(l), \A t \in DOMAIN startedLabs : startedLabs[t] # l,
             dlab = 0, dlab' = l, UNCHANGED <<queue, outside, deallocated, rlab, stop>>
      PROVE  Flow'
  <2>1. Started' = Started + 1
    BY <1>3, RegisterNew
  <2>2. /\ One(dlab) = 0 /\ One(dlab') = 1 /\ One(rlab') = One(rlab) /\ stop' = stop
        /\ Len(queue') = Len(queue) /\ Len(deallocated') = Len(deallocated)
        /\ outside' = outside
    BY <1>3, <1>o
  <2> QED
    BY <1>c, <1>f, <1>g, <1>r, <1>t, <2>1, <2>2
<1>4. CASE ReceiveLab
  <2>1. Head(labs) \in Labs /\ Head(labs) = labs[1] /\ 1 \in 1..Len(labs)
    BY <1>4, <1>t, ReceiveFacts DEF ReceiveLab
  <2>2. \A t \in DOMAIN startedLabs : startedLabs[t] # Head(labs)
    BY <2>1 DEF CountInv, Fresh
  <2>3. /\ Register(Head(labs)) /\ dlab = 0 /\ dlab' = Head(labs)
        /\ UNCHANGED <<queue, outside, deallocated, rlab, stop>>
    BY <1>4, <1>t DEF ReceiveLab
  <2> QED
    BY <1>3, <1>4, <2>1, <2>2, <2>3
<1>5. ASSUME NEW w \in Workers, ReceiveLabDirect(w) PROVE Flow'
  <2>1. wlab[w] \in Labs
    BY <1>5, <1>t, <1>n DEF ReceiveLabDirect
  <2>2. \A t \in DOMAIN startedLabs : startedLabs[t] # wlab[w]
    BY DEF CountInv, Fresh
  <2> QED
    BY <1>3, <1>5, <1>t, <2>1, <2>2 DEF ReceiveLabDirect
<1>6. ASSUME NEW l \in Labs, l \notin outside, outside' = outside \cup {l}
      PROVE  IsFiniteSet(outside') /\ Cardinality(outside') = Cardinality(outside) + 1
  BY <1>6, <1>c, FS_AddElement
<1>7. CASE EnqueueLab
  <2>1. Len(queue') = Len(queue) + 1 /\ dlab' = 0 /\ dlab # 0
    BY <1>7, <1>t, <1>n, SendFacts DEF EnqueueLab, AfterQueued
  <2>2. /\ Started' = Started /\ stop' = stop
        /\ One(dlab) = 1 /\ One(dlab') = 0 /\ UNCHANGED <<outside, deallocated, rlab>>
    BY <1>7, <1>n, <1>o, <1>t, <1>u DEF EnqueueLab, AfterQueued
  <2> QED
    BY <1>c, <1>f, <1>g, <1>r, <1>t, <2>1, <2>2
<1>8. CASE SkipQueue \/ DispatchStop \/ WaitWorkers \/ DrainLab \/ DispatchReturn
  <2>1. stop' /\ outside' = outside
    BY <1>8 DEF SkipQueue, DispatchStop, WaitWorkers, DrainLab, DispatchReturn, HolderInv,
      StopInv
  <2> QED
    BY <1>c, <2>1 DEF Flow
<1>9. ASSUME NEW t \in DOMAIN startedLabs, CloseStarted(t) PROVE Flow'
  BY <1>9, <1>s DEF CloseStarted
<1>10. CASE ReceiveDeallocated
  <2>1. Len(deallocated') = Len(deallocated) - 1 /\ rlab = 0 /\ rlab' \in Labs
    BY <1>10, <1>t, ReceiveFacts DEF ReceiveDeallocated
  <2>2. /\ Started' = Started /\ stop' = stop
        /\ One(rlab) = 0 /\ UNCHANGED <<outside, queue, dlab>>
    BY <1>10, <1>n, <1>o, <1>t, <1>u DEF ReceiveDeallocated
  <2> QED
    BY <1>c, <1>f, <1>g, <1>o, <1>r, <1>t, <2>1, <2>2
<1>11. CASE Requeue
  <2>1. Len(queue') = Len(queue) + 1 /\ rlab # 0 /\ rlab' = 0
    BY <1>11, <1>t, <1>n, SendFacts DEF Requeue
  <2>2. /\ Started' = Started /\ stop' = stop
        /\ One(rlab) = 1 /\ One(rlab') = 0 /\ UNCHANGED <<outside, deallocated, dlab>>
    BY <1>11, <1>n, <1>o, <1>t, <1>u DEF Requeue
  <2> QED
    BY <1>c, <1>f, <1>g, <1>r, <1>t, <2>1, <2>2
<1>12. CASE Take
  <2>1. Len(queue') = Len(queue) - 1 /\ Head(queue) \in Labs
    BY <1>12, <1>t, ReceiveFacts DEF Take
  <2>2. InChan(queue, Head(queue))
    BY <1>12, <1>t, InTail DEF Take, HolderInv, Inj
  <2>3. IsFiniteSet(outside') /\ Cardinality(outside') = Cardinality(outside) + 1
    BY <1>6, <1>12, <2>1, <2>2, Elsewhere DEF Take
  <2>4. /\ Started' = Started /\ stop' = stop
        /\ UNCHANGED <<deallocated, dlab, rlab>>
    BY <1>12, <1>n, <1>o, <1>t, <1>u DEF Take
  <2> QED
    BY <1>c, <1>f, <1>g, <1>r, <1>t, <2>1, <2>3, <2>4
<1>13. CASE TakeFromDispatcher
  <2>1. dlab \in Labs /\ dlab' = 0
    BY <1>13, <1>t, <1>n DEF TakeFromDispatcher, AfterQueued
  <2>2. IsFiniteSet(outside') /\ Cardinality(outside') = Cardinality(outside) + 1
    BY <1>6, <1>13, <2>1, Elsewhere DEF TakeFromDispatcher
  <2>3. /\ Started' = Started /\ stop' = stop
        /\ One(dlab) = 1 /\ One(dlab') = 0 /\ UNCHANGED <<queue, deallocated, rlab>>
    BY <1>13, <1>n, <1>o, <1>t, <1>u DEF TakeFromDispatcher, AfterQueued
  <2> QED
    BY <1>c, <1>f, <1>g, <1>r, <1>t, <2>2, <2>3
<1>14. CASE TakeFromRequeuer
  <2>1. rlab \in Labs /\ rlab' = 0
    BY <1>14, <1>t, <1>n DEF TakeFromRequeuer
  <2>2. IsFiniteSet(outside') /\ Cardinality(outside') = Cardinality(outside) + 1
    BY <1>6, <1>14, <2>1, Elsewhere DEF TakeFromRequeuer
  <2>3. /\ Started' = Started /\ stop' = stop
        /\ One(rlab) = 1 /\ One(rlab') = 0 /\ UNCHANGED <<queue, deallocated, dlab>>
    BY <1>14, <1>n, <1>o, <1>t, <1>u DEF TakeFromRequeuer
  <2> QED
    BY <1>c, <1>f, <1>g, <1>r, <1>t, <2>2, <2>3
<1>15. ASSUME NEW l \in Labs, Update(l) PROVE Flow'
  <2>1. Len(deallocated') = Len(deallocated) + 1
    BY <1>15, <1>t, SendFacts DEF Update
  <2>2. IsFiniteSet(outside') /\ Cardinality(outside') = Cardinality(outside) - 1
    BY <1>15, <1>c, FS_RemoveElement DEF Update
  <2>3. /\ Started' = Started /\ stop' = stop
        /\ UNCHANGED <<queue, dlab, rlab>>
    BY <1>15, <1>n, <1>o, <1>t, <1>u DEF Update
  <2>4. stop' \/ Started' = One(dlab') + Len(queue') + Cardinality(outside')
                            + Len(deallocated') + One(rlab')
    <3> DEFINE d == One(dlab)  q == Len(queue)  o == Cardinality(outside)
               e == Len(deallocated)  r == One(rlab)
    <3>1. d \in Nat /\ q \in Nat /\ o \in Nat /\ e \in Nat /\ r \in Nat
      BY <1>c, <1>r, <1>t
    <3>2. stop \/ Started = d + q + o + e + r
      BY <1>f
    <3>3. /\ One(dlab') = d /\ Len(queue') = q /\ Cardinality(outside') = o - 1
          /\ Len(deallocated') = e + 1 /\ One(rlab') = r
      BY <2>1, <2>2, <2>3
    <3> HIDE DEF d, q, o, e, r
    <3>4. d + q + o + e + r = d + q + (o - 1) + (e + 1) + r
      BY <3>1
    <3> QED
      BY <2>3, <3>2, <3>3, <3>4
  <2> QED
    BY <1>g, <2>2, <2>4
<1>16. CASE IterateLabs \/ Close
  BY <1>16, <1>s DEF IterateLabs, Close
<1>17. CASE Crash
  BY <1>17, <1>s DEF Crash, NewLabFails, WorkerSendClosed, RegisterRace, CloseAgain, Panic
<1>18. CASE UNCHANGED vars
  BY <1>18, <1>s DEF vars
<1> QED
  BY <1>1, <1>2, <1>4, <1>5, <1>7, <1>8, <1>9, <1>10, <1>11, <1>12, <1>13, <1>14,
     <1>15, <1>16, <1>17, <1>18
  DEF Next, Dispatcher, Requeuer, User

(* For every capacity of at least 2 and every buffer, when no tag repeats, *)
(* the hub runs ahead of demand by its buffer at most.                     *)
THEOREM DemandBounded ==
    ASSUME UniqueTags, Cap >= 2
    PROVE  Spec => []DemandBound
<1>1. TypeInv /\ TypeInv' /\ CountInv /\ [Next]_vars => CountInv'
  BY CountInvStep
<1>2. TypeInv /\ CountInv /\ HolderInv /\ Flow /\ [Next]_vars => Flow'
  BY FlowStep
<1>3. TypeInv /\ CountInv /\ Flow => DemandBound
  <2> SUFFICES ASSUME TypeInv, CountInv, Flow, ~stop PROVE DemandBound
    BY DEF DemandBound
  <2>1. /\ created \in Nat /\ Len(queue) \in Nat /\ Len(queue) <= ChanCap
        /\ Len(deallocated) \in Nat /\ (dpc = "enqueue" <=> dlab # 0)
    BY DEF TypeInv, TypeOK, Hands
  <2>2. Cardinality(outside) \in Nat /\ Started \in Nat
    BY FS_CardinalityType DEF Flow, CountInv, Count, Started
  <2>3. created + Pending(1) + Pending(2) <= Started + Slack
    BY DEF CountInv, Count
  <2>4. Pending(1) \in 0..1 /\ Pending(2) \in 0..1
    BY DEF Pending
  <2>5. Slack + One(dlab) <= 2
    BY <2>1 DEF Slack, One
  <2>6. ChanCap + 2 = Buf /\ Buf \in Nat
    BY BufferAssumption DEF ChanCap, Buf
  <2>7. Slack \in 0..2 /\ One(dlab) \in 0..1 /\ One(rlab) \in 0..1
    BY DEF Slack, One
  <2>8. Started = One(dlab) + Len(queue) + Cardinality(outside) + Len(deallocated) + One(rlab)
    BY DEF Flow
  <2>9. created + Pending(1) + Pending(2) - Cardinality(outside) - Len(deallocated)
          - One(rlab) <= Buf
    <3> DEFINE a == created  v == Pending(1)  w == Pending(2)
               d == One(dlab)  q == Len(queue)
               o == Cardinality(outside)  e == Len(deallocated)  r == One(rlab)
               k == Slack  c == ChanCap
    <3>1. /\ a \in Nat /\ v \in Nat /\ w \in Nat /\ d \in Nat /\ q \in Nat /\ o \in Nat
          /\ e \in Nat /\ r \in Nat /\ k \in Nat /\ c \in Nat
      BY <2>1, <2>2, <2>4, <2>7, ChanCapNat
    <3>2. a + v + w <= Started + k /\ Started = d + q + o + e + r /\ k + d <= 2 /\ q <= c
      BY <2>1, <2>3, <2>5, <2>8
    <3>3. c + 2 = Buf
      BY <2>6
    <3> HIDE DEF a, v, w, d, q, o, e, r, k, c
    <3>4. a + v + w - o - e - r <= Buf
      BY <3>1, <3>2, <3>3
    <3> QED
      BY <3>4 DEF a, v, w, o, e, r
  <2> QED
    BY <2>9 DEF DemandBound, One
<1> QED
  BY <1>1, <1>2, <1>3, TypeCorrect, HolderInvariant, CountInvInit, FlowInit, PTL DEF Spec

-----------------------------------------------------------------------------
(* Refinement. *)

(* A step of the hub is a step of the pool, or leaves it alone. *)
LEMMA PoolStep ==
    ASSUME TypeInv, CountInv, HolderInv, [Next]_vars
    PROVE  [Pool!Next]_(Pool!poolVars)
<1> USE DEF workerVars, dispatchVars, chanVars, userVars, labVars, Pool!poolVars
<1>t. /\ wlab \in [Workers -> 0..created] /\ created \in Nat
      /\ dlab \in 0..created /\ rlab \in 0..created
      /\ labs \in Seq(Labs) /\ queue \in Seq(Labs)
      /\ \A t \in DOMAIN startedLabs : startedLabs[t] \in Labs
      /\ \A v \in Workers : wpc[v] \in {"send", "close"} <=> wlab[v] # 0
      /\ dpc = "enqueue" <=> dlab # 0
  BY DEF TypeInv, TypeOK, Hands
<1>n. \A l \in 0..created : l # 0 => l \in Labs
  BY <1>t DEF Labs
<1>s. ASSUME UNCHANGED <<created, outside, closedLabs, stop>>
      PROVE  [Pool!Next]_(Pool!poolVars)
  BY <1>s
<1>d. ASSUME NEW l \in Labs, closedLabs' = closedLabs \cup {l}, stop,
             UNCHANGED <<created, outside, stop>>
      PROVE  [Pool!Next]_(Pool!poolVars)
  <2>1. CASE l \in closedLabs
    BY <1>d, <2>1
  <2>2. CASE l \notin closedLabs
    BY <1>d, <2>2 DEF Pool!Next, Pool!Destroy, Labs
  <2> QED
    BY <2>1, <2>2
<1>g. ASSUME NEW l \in Labs, l \notin outside, outside' = outside \cup {l},
             UNCHANGED <<created, closedLabs, stop>>
      PROVE  [Pool!Next]_(Pool!poolVars)
  BY <1>g DEF Pool!Next, Pool!Grant, Labs
<1>1. ASSUME NEW w \in Workers, WorkerExit(w) \/ WorkerAdd(w) \/ WorkerSend(w) \/ WorkerStop(w)
      PROVE  [Pool!Next]_(Pool!poolVars)
  BY <1>1, <1>s DEF WorkerExit, WorkerAdd, WorkerSend, WorkerStop
<1>2. ASSUME NEW w \in Workers, NewLab(w) PROVE [Pool!Next]_(Pool!poolVars)
  <2>1. created < Cap
    <3>1. Pending(w) = 1 /\ Pending(1) \in 0..1 /\ Pending(2) \in 0..1 /\ (w = 1 \/ w = 2)
      BY <1>2 DEF NewLab, Pending, Workers
    <3> QED
      BY <1>t, <3>1, CapAssumption DEF CountInv, Count, CapacityRespected
  <2> QED
    BY <1>2, <2>1 DEF NewLab, Pool!Next, Pool!Provision
<1>3. ASSUME NEW w \in Workers, WorkerCloseLab(w) PROVE [Pool!Next]_(Pool!poolVars)
  <2>1. wlab[w] \in Labs /\ stop
    BY <1>3, <1>t, <1>n DEF WorkerCloseLab, HolderInv, StopInv
  <2> QED
    BY <1>3, <1>d, <2>1 DEF WorkerCloseLab
<1>4. ASSUME NEW w \in Workers, SendReady(w) \/ ReceiveLabDirect(w)
      PROVE  [Pool!Next]_(Pool!poolVars)
  BY <1>4, <1>s DEF SendReady, ReceiveLabDirect
<1>5. CASE ReceiveLab \/ EnqueueLab \/ SkipQueue \/ DispatchStop \/ WaitWorkers
           \/ DispatchReturn \/ Requeuer \/ IterateLabs
  BY <1>5, <1>s DEF ReceiveLab, EnqueueLab, SkipQueue, DispatchStop, WaitWorkers,
    DispatchReturn, Requeuer, ReceiveDeallocated, Requeue, IterateLabs
<1>6. CASE DrainLab
  <2>1. Head(labs) \in Labs /\ stop
    BY <1>6, <1>t, ReceiveFacts DEF DrainLab, HolderInv, StopInv
  <2> QED
    BY <1>6, <1>d, <2>1 DEF DrainLab
<1>7. ASSUME NEW t \in DOMAIN startedLabs, CloseStarted(t) PROVE [Pool!Next]_(Pool!poolVars)
  <2>1. startedLabs[t] \in Labs /\ stop
    BY <1>7, <1>t DEF CloseStarted, HolderInv, StopInv
  <2> QED
    BY <1>7, <1>d, <2>1 DEF CloseStarted
<1>8. CASE Take
  <2>1. Head(queue) \in Labs
    BY <1>8, <1>t, ReceiveFacts DEF Take
  <2>2. InChan(queue, Head(queue))
    BY <1>8, <1>t, InTail DEF Take, HolderInv, Inj
  <2> QED
    BY <1>8, <1>g, <2>1, <2>2, Elsewhere DEF Take
<1>9. CASE TakeFromDispatcher
  <2>1. dlab \in Labs
    BY <1>9, <1>t, <1>n DEF TakeFromDispatcher
  <2> QED
    BY <1>9, <1>g, <2>1, Elsewhere DEF TakeFromDispatcher
<1>10. CASE TakeFromRequeuer
  <2>1. rlab \in Labs
    BY <1>10, <1>t, <1>n DEF TakeFromRequeuer
  <2> QED
    BY <1>10, <1>g, <2>1, Elsewhere DEF TakeFromRequeuer
<1>11. ASSUME NEW l \in Labs, Update(l) PROVE [Pool!Next]_(Pool!poolVars)
  BY <1>11 DEF Update, Pool!Next, Pool!GiveBack, Labs
<1>12. CASE Close
  BY <1>12 DEF Close, Pool!Next, Pool!Shutdown
<1>13. CASE Crash
  BY <1>13, <1>s DEF Crash, NewLabFails, WorkerSendClosed, RegisterRace, CloseAgain, Panic
<1>14. CASE UNCHANGED vars
  BY <1>14, <1>s DEF vars
<1> QED
  BY <1>1, <1>2, <1>3, <1>4, <1>5, <1>6, <1>7, <1>8, <1>9, <1>10, <1>11, <1>12,
     <1>13, <1>14
  DEF Next, Worker, Dispatcher, User

(* For every capacity of at least 2 and every buffer, when no tag repeats, *)
(* the hub implements the abstract pool: at most Cap labs, each granted to *)
(* one team at a time, and destroyed only after Close.                     *)
THEOREM HubRefinesPool ==
    ASSUME UniqueTags, Cap >= 2
    PROVE  Spec => RefinesPool
<1>1. TypeInv /\ TypeInv' /\ CountInv /\ [Next]_vars => CountInv'
  BY CountInvStep
<1>2. Init => Pool!Init
  BY DEF Init, Pool!Init
<1>3. TypeInv /\ CountInv /\ HolderInv /\ [Next]_vars => [Pool!Next]_(Pool!poolVars)
  BY PoolStep
<1> QED
  BY <1>1, <1>2, <1>3, TypeCorrect, HolderInvariant, CountInvInit, PTL
  DEF Spec, RefinesPool, Pool!Spec
=============================================================================
