--------------------------- MODULE TeamLabsProofs ---------------------------
(***************************************************************************)
(* Proofs about the teams and their labs, for any number of names, teams,  *)
(* requests, deletions and labs:                                           *)
(*                                                                         *)
(*  - the two maps of the team store agree (NamesConsistent).  The         *)
(*    argument needs, besides the agreement itself, only that a sign-up    *)
(*    about to be saved holds a team that exists: SaveTeam looks the name  *)
(*    up and writes both maps under one lock, so two stored teams share a  *)
(*    name only if the database held it twice;                             *)
(*  - what a team is connected to is the lab recorded for it, and that     *)
(*    record stays (ConnectionsMatch, RecordsKept), because Guacamole lets *)
(*    one AssignLab call of a team past CreateUser;                        *)
(*  - no two stored teams work in one lab (LabsExclusive), because a lab   *)
(*    is in one place at a time, a team's claim to it being one place.     *)
(***************************************************************************)
EXTENDS TeamLabs, Channels, TLAPS

(* What the agreement needs to know of the other variables. *)
StoreInv ==
    /\ loaded \in 0..Len(teamName)
    /\ teamName \in Seq(Names)
    /\ teams \subseteq Teams
    /\ pc \in [Procs -> PCs]
    /\ pteam \in [Procs -> Nat]
    /\ todo \subseteq Nat
    /\ \A r \in Procs : pc[r] = "save" => pteam[r] \in Teams
    /\ NamesMatchTeams

(* What a step of any other action leaves of these variables: the store is *)
(* not touched, and no goroutine gets to "save".                           *)
StoreKept ==
    /\ UNCHANGED <<loaded, teamName, names, teams>>
    /\ pc' \in [Procs -> PCs]
    /\ pteam' \in [Procs -> Nat]
    /\ todo' \subseteq Nat
    /\ \A r \in Procs : pc'[r] = "save" => pc[r] = "save" /\ pteam'[r] = pteam[r]

(* The store the database fills at the start satisfies the invariant. *)
LEMMA StoreInvInit == Init => StoreInv
<1> SUFFICES ASSUME Init PROVE StoreInv
  OBVIOUS
<1>1. loaded \in 0..Stored /\ teamName \in [1..loaded -> Names]
  BY DEF Init
<1>2. loaded \in Nat
  BY <1>1, BoundsAssumption
<1>3. teamName \in Seq(Names) /\ Len(teamName) = loaded
  BY <1>1, <1>2
<1>4. teams = Teams /\ Teams = 1..loaded /\ loaded \in 0..Len(teamName)
  BY <1>2, <1>3 DEF Init, Teams
<1>5. pc \in [Procs -> PCs] /\ \A r \in Procs : pc[r] # "save"
  BY DEF Init, PCs
<1>6. pteam \in [Procs -> Nat] /\ todo \subseteq Nat
  BY DEF Init
<1>7. /\ DOMAIN names = {teamName[t] : t \in Teams}
      /\ \A n \in DOMAIN names : names[n] \in Teams /\ teamName[names[n]] = n
  BY DEF Init
<1>8. ASSUME NEW t \in Teams, ~Doubled(teamName[t])
      PROVE  teamName[t] \in DOMAIN names /\ names[teamName[t]] = t
  BY <1>4, <1>7, <1>8 DEF Doubled
<1> QED
  BY <1>3, <1>4, <1>5, <1>6, <1>7, <1>8 DEF StoreInv, NamesMatchTeams

(* A step that keeps the store keeps the invariant. *)
LEMMA StoreKeptInv == StoreInv /\ StoreKept => StoreInv'
BY DEF StoreInv, StoreKept, NamesMatchTeams, Doubled, Teams

(* A goroutine that returns keeps the store and reaches no "save". *)
LEMMA ReturnKept ==
    ASSUME StoreInv, NEW p \in Procs, Return(p), UNCHANGED <<loaded, teamName, names, teams>>
    PROVE  StoreKept
BY DEF StoreInv, Return, StoreKept, PCs

(* A step that leaves the store and the assigning goroutines alone. *)
LEMMA OthersKept ==
    ASSUME StoreInv, UNCHANGED <<loaded, teamName, names, teams, pc, pteam, todo>>
    PROVE  StoreKept
BY DEF StoreInv, StoreKept

(* The step of a request, before it has a lab. *)
LEMMA RequestInv ==
    ASSUME StoreInv, NEW r \in Requests, Request(r)
    PROVE  StoreInv'
<1> r \in Procs
  BY DEF Procs
<1>1. ASSUME NEW n \in Names, Signup(r, n) PROVE StoreInv'
  <2>1. /\ teamName' = Append(teamName, n)
        /\ pc' = [pc EXCEPT ![r] = "save"]
        /\ pteam' = [pteam EXCEPT ![r] = Len(teamName) + 1]
        /\ UNCHANGED <<loaded, names, teams, todo>>
    BY <1>1 DEF Signup
  <2>2. /\ teamName' \in Seq(Names)
        /\ Len(teamName') = Len(teamName) + 1
        /\ \A t \in Teams : teamName'[t] = teamName[t]
    BY <2>1 DEF StoreInv, Teams
  <2>3. Len(teamName) \in Nat
    BY DEF StoreInv
  <2>4. Teams \subseteq Teams' /\ Len(teamName) + 1 \in Teams'
    BY <2>2, <2>3 DEF Teams
  <2>5. pc' \in [Procs -> PCs] /\ pteam' \in [Procs -> Nat]
    BY <2>1, <2>3 DEF StoreInv, PCs
  <2>6. \A q \in Procs : pc'[q] = "save" => pteam'[q] \in Teams'
    BY <2>1, <2>4 DEF StoreInv
  <2>7. loaded' \in 0..Len(teamName')
    BY <2>1, <2>2, <2>3 DEF StoreInv
  <2>8. \A m : Doubled(m)' <=> Doubled(m)
    <3>1. 1..loaded \subseteq Teams
      BY <2>3 DEF StoreInv, Teams
    <3> QED
      BY <2>1, <2>2, <3>1 DEF Doubled
  <2>9. NamesMatchTeams'
    BY <2>1, <2>2, <2>8 DEF StoreInv, NamesMatchTeams
  <2> QED
    BY <2>1, <2>2, <2>4, <2>5, <2>6, <2>7, <2>9 DEF StoreInv
<1>2. CASE SaveTeam(r)
  <2>1. pc[r] = "save" /\ pteam[r] \in Teams /\ UNCHANGED <<loaded, teamName>>
    BY <1>2 DEF SaveTeam, StoreInv
  <2>2. CASE Return(r) /\ UNCHANGED <<names, teams>>
    BY <2>1, <2>2, ReturnKept, StoreKeptInv
  <2>3. CASE /\ teamName[pteam[r]] \notin DOMAIN names
             /\ names' = Put(names, teamName[pteam[r]], pteam[r])
             /\ teams' = teams \cup {pteam[r]}
             /\ Return(r) \/ Goto(r, "hook")
    <3>1. /\ pc' \in [Procs -> PCs] /\ pteam' \in [Procs -> Nat]
          /\ todo' \subseteq Nat
          /\ \A q \in Procs : pc'[q] = "save"
                                => pc[q] = "save" /\ pteam'[q] = pteam[q]
      <4>1. CASE Return(r)
        BY <4>1 DEF StoreInv, Return, PCs
      <4>2. CASE Goto(r, "hook")
        BY <4>2 DEF StoreInv, Goto, PCs
      <4> QED
        BY <2>3, <4>1, <4>2
    <3>2. Teams' = Teams /\ teams' \subseteq Teams'
      BY <2>1, <2>3 DEF StoreInv, Teams
    <3>3. DOMAIN names' = DOMAIN names \cup {teamName[pteam[r]]}
          /\ \A n \in DOMAIN names' :
               names'[n] = IF n = teamName[pteam[r]] THEN pteam[r] ELSE names[n]
      BY <2>3 DEF Put
    <3>4. \A m : Doubled(m)' <=> Doubled(m)
      BY <2>1 DEF Doubled
    <3>5. NamesMatchTeams'
      BY <2>1, <2>3, <3>3, <3>4 DEF StoreInv, NamesMatchTeams
    <3> QED
      BY <2>1, <3>1, <3>2, <3>5 DEF StoreInv
  <2> QED
    BY <1>2, <2>2, <2>3 DEF SaveTeam
<1>3. ASSUME NEW t \in Teams, Connect(r, t) PROVE StoreInv'
  <2>1. t \in Nat
    BY DEF Teams
  <2>2. StoreKept
    BY <1>3, <2>1 DEF Connect, StoreInv, StoreKept, PCs, storeVars
  <2> QED
    BY <2>2, StoreKeptInv
<1>4. CASE Reghook(r)
  <2>1. pteam[r] \in Nat
    BY DEF StoreInv
  <2>2. UNCHANGED <<loaded, teamName, names, teams>>
    BY <1>4 DEF Reghook, storeVars
  <2>3. CASE TakeLab(r, pteam[r]) /\ UNCHANGED todo
    BY <2>1, <2>2, <2>3, StoreKeptInv
       DEF StoreInv, TakeLab, FirstStep, StoreKept, PCs
  <2>4. CASE Return(r)
    BY <2>2, <2>4, ReturnKept, StoreKeptInv
  <2> QED
    BY <1>4, <2>3, <2>4 DEF Reghook
<1> QED
  BY <1>1, <1>2, <1>3, <1>4 DEF Request

(* The steps of event.Start. *)
LEMMA StartInv ==
    ASSUME StoreInv, Start
    PROVE  StoreInv'
<1> Boot \in Procs
  BY DEF Procs
<1>1. UNCHANGED <<loaded, teamName, names, teams>>
  BY DEF Start, BootTeams, BootNext, storeVars
<1>2. CASE Return(Boot)
  BY <1>1, <1>2, ReturnKept, StoreKeptInv
<1>3. CASE BootTeams /\ ~Return(Boot)
  <2>1. teams \subseteq Nat
    BY DEF StoreInv, Teams
  <2>2. StoreKept
    BY <1>1, <1>3, <2>1 DEF BootTeams, StoreInv, StoreKept, PCs
  <2> QED
    BY <2>2, StoreKeptInv
<1>4. CASE BootNext /\ ~Return(Boot)
  <2>1. PICK t \in todo : TakeLab(Boot, t) /\ todo' = todo \ {t}
    BY <1>4 DEF BootNext
  <2>2. t \in Nat
    BY DEF StoreInv
  <2>3. StoreKept
    BY <1>1, <2>1, <2>2 DEF StoreInv, TakeLab, FirstStep, StoreKept, PCs
  <2> QED
    BY <2>3, StoreKeptInv
<1> QED
  BY <1>2, <1>3, <1>4 DEF Start

(* The steps of AssignLab. *)
LEMMA AssignLabInv ==
    ASSUME StoreInv, NEW p \in Procs, AssignLab(p)
    PROVE  StoreInv'
<1>1. UNCHANGED <<loaded, teamName, names, teams>>
  BY DEF AssignLab, CreateUser, CreateRDPConn, CreateVPNConn, RecordLab,
         CorrectedAssignedLab, storeVars
<1>2. CASE Return(p)
  BY <1>1, <1>2, ReturnKept, StoreKeptInv
<1>3. CASE \E where \in PCs \ {"save"} : Goto(p, where)
  BY <1>1, <1>3, StoreKeptInv DEF StoreInv, Goto, StoreKept
<1>4. CASE CorrectedAssignedLab(p)
  BY <1>1, <1>4, StoreKeptInv DEF CorrectedAssignedLab, StoreInv, StoreKept, PCs
<1>5. CreateUser(p) => Return(p) \/ Goto(p, "rdp")
  BY DEF CreateUser, GuacCall
<1>6. CreateRDPConn(p) => Return(p) \/ Goto(p, "vpn") \/ Goto(p, "record")
  BY DEF CreateRDPConn, GuacCall
<1>7. CreateVPNConn(p) => Return(p) \/ Goto(p, "record")
  BY DEF CreateVPNConn
<1>8. RecordLab(p) => Goto(p, "flag")
  BY DEF RecordLab
<1>9. {"rdp", "vpn", "record", "flag"} \subseteq PCs \ {"save"}
  BY DEF PCs
<1> QED
  BY <1>2, <1>3, <1>4, <1>5, <1>6, <1>7, <1>8, <1>9 DEF AssignLab

(* The steps of DeleteTeam. *)
LEMMA DeleteInv ==
    ASSUME StoreInv, NEW d \in Deleters, Delete(d)
    PROVE  StoreInv'
<1>1. UNCHANGED <<loaded, teamName, pc, pteam, todo>>
  BY DEF Delete, DeleteTeam, RestartLab, FindTeam, EraseTeam, EraseMissing,
         Panic, storeVars, procVars
<1>2. CASE UNCHANGED <<names, teams>>
  BY <1>1, <1>2, OthersKept, StoreKeptInv
<1>3. CASE EraseTeam(d)
  <2>1. /\ dteam[d] \in teams
        /\ teams' = teams \ {dteam[d]}
        /\ names' = Without(names, teamName[dteam[d]])
    BY <1>3 DEF EraseTeam
  <2>2. DOMAIN names' = DOMAIN names \ {teamName[dteam[d]]}
        /\ \A n \in DOMAIN names' : names'[n] = names[n]
    BY <2>1 DEF Without
  <2>3. \A n \in DOMAIN names' : names'[n] \in teams' /\ teamName[names'[n]] = n
    BY <2>1, <2>2 DEF StoreInv, NamesMatchTeams
  <2>4. \A t \in teams' : ~Doubled(teamName[t])
           => teamName[t] \in DOMAIN names' /\ names'[teamName[t]] = t
    <3> SUFFICES ASSUME NEW t \in teams', ~Doubled(teamName[t])
                 PROVE  teamName[t] \in DOMAIN names' /\ names'[teamName[t]] = t
      OBVIOUS
    <3>1. teamName[t] # teamName[dteam[d]]
      BY <2>1 DEF StoreInv, NamesMatchTeams
    <3> QED
      BY <2>1, <2>2, <3>1 DEF StoreInv, NamesMatchTeams
  <2>5. Teams' = Teams /\ teams' \subseteq Teams
    BY <1>1, <2>1 DEF StoreInv, Teams
  <2> QED
    BY <1>1, <2>3, <2>4, <2>5 DEF StoreInv, NamesMatchTeams, Doubled
<1>4. Delete(d) /\ ~EraseTeam(d) => UNCHANGED <<names, teams>>
  BY DEF Delete, DeleteTeam, RestartLab, FindTeam, EraseMissing, Panic,
         storeVars
<1> QED
  BY <1>2, <1>3, <1>4

(* Every step of the specification keeps the invariant. *)
LEMMA StoreInvStep == StoreInv /\ [Next]_vars => StoreInv'
<1> SUFFICES ASSUME StoreInv, [Next]_vars PROVE StoreInv'
  OBVIOUS
<1>1. CASE \E r \in Requests : Request(r)
  BY <1>1, RequestInv
<1>2. CASE Start
  BY <1>2, StartInv
<1>3. CASE \E p \in Procs : AssignLab(p)
  BY <1>3, AssignLabInv
<1>4. CASE \E d \in Deleters : Delete(d)
  BY <1>4, DeleteInv
<1>5. CASE MapRace \/ OfferLab \/ \E l \in Labs : Requeue(l)
  <2>1. UNCHANGED <<loaded, teamName, names, teams, pc, pteam, todo>>
    BY <1>5 DEF MapRace, Panic, OfferLab, Requeue, storeVars, procVars
  <2> QED
    BY <2>1, OthersKept, StoreKeptInv
<1>6. CASE UNCHANGED vars
  <2>1. UNCHANGED <<loaded, teamName, names, teams, pc, pteam, todo>>
    BY <1>6 DEF vars, storeVars, procVars
  <2> QED
    BY <2>1, OthersKept, StoreKeptInv
<1> QED
  BY <1>1, <1>2, <1>3, <1>4, <1>5, <1>6 DEF Next

(* The maps of the team store (store/team.go) agree in every reachable     *)
(* state, for every set of names, requests and deletions and every bound.  *)
THEOREM NamesConsistent == Spec => []NamesMatchTeams
<1>1. StoreInv => NamesMatchTeams
  BY DEF StoreInv
<1> QED
  BY <1>1, StoreInvInit, StoreInvStep, PTL DEF Spec

-----------------------------------------------------------------------------
(* Types. *)

(* Where a goroutine works for a team, *)
Busy == {"save", "hook", "user", "rdp", "vpn", "record", "flag"}

(* and where it has a lab. *)
Holding == {"user", "rdp", "vpn", "record", "flag"}

Hands ==
    /\ \A p \in Procs : pc[p] \in Busy => pteam[p] \in Teams
    /\ \A p \in Procs : pc[p] \in Holding => plab[p] \in 1..offered
    /\ \A d \in Deleters : dpc[d] # "idle" => dteam[d] \in Teams /\ dlab[d] \in 1..offered
    /\ \A l \in Labs : returning[l] > 0 => l \in 1..offered

TypeInv == TypeOK /\ Hands

(* Event.Start begins in a state of the right type. *)
LEMMA TypeInvInit == Init => TypeInv
<1> SUFFICES ASSUME Init PROVE TypeInv
  OBVIOUS
<1>1. loaded \in 0..Stored /\ teamName \in [1..loaded -> Names]
  BY DEF Init
<1>2. loaded \in Nat /\ loaded <= MaxTeams
  BY <1>1, BoundsAssumption
<1>3. teamName \in Seq(Names) /\ Len(teamName) = loaded /\ loaded \in 0..Len(teamName)
  BY <1>1, <1>2
<1>4. StoreInv
  BY StoreInvInit
<1>5. DOMAIN names \subseteq Names /\ (\A n \in DOMAIN names : names[n] \in Teams)
      /\ teams \subseteq Teams
  <2>1. \A t \in Teams : teamName[t] \in Names
    BY <1>3 DEF Teams
  <2> QED
    BY <1>4, <2>1 DEF StoreInv, NamesMatchTeams
<1>6. /\ pc \in [Procs -> PCs] /\ \A p \in Procs : pc[p] \notin Busy
  BY <1>4 DEF Init, Busy, PCs
<1>7. /\ pteam = [p \in Procs |-> 0] /\ plab = [p \in Procs |-> 0]
      /\ dpc = [d \in Deleters |-> "idle"] /\ dteam = [d \in Deleters |-> 0]
      /\ dlab = [d \in Deleters |-> 0] /\ offered = 0 /\ deletes = 0
      /\ queue = <<>> /\ mode \in Modes /\ returning = [l \in Labs |-> 0]
  BY DEF Init
<1>8. Hands
  BY <1>6, <1>7 DEF Hands, Busy, Holding
<1>9. /\ pteam \in [Procs -> Teams \cup {0}] /\ plab \in [Procs -> 0..offered]
      /\ dteam \in [Deleters -> Teams \cup {0}] /\ dlab \in [Deleters -> 0..offered]
      /\ dpc \in [Deleters -> {"idle", "restart", "find", "erase"}]
      /\ queue \in Seq(1..offered) /\ offered \in 0..LabCount /\ deletes \in 0..MaxDeletes
  BY <1>7, BoundsAssumption
<1>10. /\ assigned = {} /\ DOMAIN labs = {} /\ users = {} /\ DOMAIN rdp = {}
       /\ DOMAIN vpn = {} /\ todo = {} /\ swallowed = FALSE /\ panicked = FALSE
       /\ returning \in [Labs -> Nat] /\ requeues \in [1..MaxTeams -> Nat]
  BY DEF Init
<1> QED
  BY <1>2, <1>3, <1>5, <1>6, <1>7, <1>8, <1>9, <1>10 DEF TypeInv, TypeOK

(* The part of the types that the assigning goroutines' steps can break. *)
ProcTypes ==
    /\ pc \in [Procs -> PCs]
    /\ pteam \in [Procs -> Teams \cup {0}]
    /\ plab \in [Procs -> 0..offered]
    /\ todo \subseteq Teams
    /\ \A p \in Procs : pc[p] \in Busy => pteam[p] \in Teams
    /\ \A p \in Procs : pc[p] \in Holding => plab[p] \in 1..offered

(* A goroutine that returns keeps them, one that moves on keeps them *)
LEMMA ReturnTypes ==
    ASSUME TypeInv, NEW p \in Procs, Return(p), UNCHANGED <<teamName, offered>>
    PROVE  ProcTypes'
BY DEF TypeInv, TypeOK, Hands, Return, ProcTypes, Teams, Busy, Holding, PCs

(* with what it has in its hands, *)
LEMMA GotoTypes ==
    ASSUME TypeInv, NEW p \in Procs, NEW where \in PCs, Goto(p, where),
           pc[p] \in Busy, where \in Holding => pc[p] \in Holding,
           UNCHANGED <<teamName, offered>>
    PROVE  ProcTypes'
BY DEF TypeInv, TypeOK, Hands, Goto, ProcTypes, Teams, Busy, Holding, PCs

(* and so does one that gets a lab. *)
LEMMA TakeTypes ==
    ASSUME TypeInv, NEW p \in Procs, NEW t \in Teams, TakeLab(p, t), todo' \subseteq todo,
           UNCHANGED <<teamName, offered>>
    PROVE  ProcTypes' /\ queue' \in Seq(1..offered)
<1>1. queue \in Seq(1..offered) /\ offered \in Nat
  BY BoundsAssumption DEF TypeInv, TypeOK
<1>2. Head(queue) \in 1..offered /\ Tail(queue) \in Seq(1..offered)
  BY <1>1, ReceiveFacts DEF TakeLab
<1>3. Head(queue) \in 0..offered
  BY <1>1, <1>2
<1>4. FirstStep \in PCs
  BY DEF FirstStep, PCs
<1> QED
  BY <1>2, <1>3, <1>4
  DEF TypeInv, TypeOK, Hands, TakeLab, ProcTypes, Teams, Busy, Holding, PCs

(* A new team enlarges the set of teams. *)
LEMMA SignupTypes ==
    ASSUME TypeInv, NEW r \in Procs, NEW n \in Names, Signup(r, n)
    PROVE  TypeInv' /\ Teams \subseteq Teams'
           /\ Len(teamName) + 1 \in Teams' \ Teams
           /\ \A t \in Teams : teamName'[t] = teamName[t]
<1>1. /\ teamName' = Append(teamName, n) /\ Len(teamName) < MaxTeams
      /\ pc' = [pc EXCEPT ![r] = "save"]
      /\ pteam' = [pteam EXCEPT ![r] = Len(teamName) + 1]
      /\ UNCHANGED <<mode, loaded, names, teams, assignVars, hubVars, plab, todo, deleteVars, panicked>>
  BY DEF Signup
<1>2. /\ teamName' \in Seq(Names) /\ Len(teamName') = Len(teamName) + 1
      /\ Len(teamName) \in Nat
      /\ \A t \in Teams : teamName'[t] = teamName[t]
  BY <1>1, SendFacts DEF TypeInv, TypeOK, Teams
<1>3. Teams \subseteq Teams' /\ Len(teamName) + 1 \in Teams' \ Teams
      /\ Len(teamName') <= MaxTeams
  BY <1>1, <1>2, BoundsAssumption DEF Teams
<1>4. /\ pc' \in [Procs -> PCs] /\ pteam' \in [Procs -> Teams' \cup {0}]
  BY <1>1, <1>3 DEF TypeInv, TypeOK, PCs
<1>5. Hands'
  BY <1>1, <1>3 DEF TypeInv, TypeOK, Hands, Busy, Holding, hubVars, deleteVars
<1>6. TypeOK'
  BY <1>1, <1>2, <1>3, <1>4 DEF TypeInv, TypeOK, assignVars, hubVars, deleteVars, Labs
<1> QED
  BY <1>2, <1>3, <1>5, <1>6 DEF TypeInv

(* Every step of an assigning goroutine keeps the types. *)
LEMMA ProcTypesStep ==
    ASSUME TypeInv, NEW p \in Procs,
           (p \in Requests /\ Request(p)) \/ (p = Boot /\ Start) \/ AssignLab(p)
    PROVE  TypeInv'
<1>s. ASSUME ProcTypes', UNCHANGED <<mode, loaded, teamName, names, teams, assignVars, hubVars, deleteVars, panicked>>
      PROVE  TypeInv'
  BY <1>s DEF ProcTypes, TypeInv, TypeOK, Hands, Teams, assignVars, hubVars, deleteVars, Labs
<1>q. ASSUME ProcTypes', queue' \in Seq(1..offered),
             UNCHANGED <<storeVars, assignVars, offered, returning, deleteVars, panicked>>
      PROVE  TypeInv'
  BY <1>q DEF ProcTypes, TypeInv, TypeOK, Hands, Teams, storeVars, assignVars, deleteVars, Labs
<1>a. ASSUME ProcTypes', assigned' \subseteq Teams, DOMAIN labs' \subseteq Teams,
             \A t \in DOMAIN labs' : labs'[t] \in 1..offered, users' \subseteq Names,
             DOMAIN rdp' \subseteq Teams, DOMAIN vpn' \subseteq Teams, swallowed' \in BOOLEAN,
             UNCHANGED <<storeVars, hubVars, deleteVars, panicked>>
      PROVE  TypeInv'
  BY <1>a DEF ProcTypes, TypeInv, TypeOK, Hands, Teams, storeVars, hubVars, deleteVars, Labs
<1>t. /\ pc \in [Procs -> PCs] /\ (pc[p] \in Busy => pteam[p] \in Teams)
      /\ (pc[p] \in Holding => plab[p] \in 1..offered) /\ teams \subseteq Teams
      /\ todo \subseteq Teams /\ assigned \subseteq Teams /\ DOMAIN labs \subseteq Teams
      /\ (\A t \in DOMAIN labs : labs[t] \in 1..offered) /\ users \subseteq Names
      /\ DOMAIN rdp \subseteq Teams /\ DOMAIN vpn \subseteq Teams /\ swallowed \in BOOLEAN
      /\ \A t \in Teams : teamName[t] \in Names
  BY DEF TypeInv, TypeOK, Hands, Teams
<1>u. queue \in Seq(1..offered)
  BY DEF TypeInv, TypeOK
<1>1. ASSUME NEW n \in Names, Signup(p, n) PROVE TypeInv'
  BY <1>1, SignupTypes
<1>2. CASE SaveTeam(p)
  <2>1. pteam[p] \in Teams /\ pc[p] = "save"
    BY <1>2, <1>t DEF SaveTeam, Busy
  <2>2. UNCHANGED <<mode, loaded, teamName, assignVars, hubVars, deleteVars, panicked>>
    BY <1>2 DEF SaveTeam
  <2>3. ProcTypes'
    <3>1. Return(p) \/ Goto(p, "hook")
      BY <1>2 DEF SaveTeam
    <3> QED
      BY <2>1, <2>2, <3>1, ReturnTypes, GotoTypes DEF Busy, Holding, PCs, hubVars
  <2>4. CASE UNCHANGED <<names, teams>>
    BY <1>s, <2>2, <2>3, <2>4
  <2>5. CASE /\ names' = Put(names, teamName[pteam[p]], pteam[p])
             /\ teams' = teams \cup {pteam[p]}
    <3>1. /\ DOMAIN names' \subseteq Names /\ \A n \in DOMAIN names' : names'[n] \in Teams
          /\ teams' \subseteq Teams
      BY <1>t, <2>1, <2>5 DEF Put, TypeInv, TypeOK
    <3> QED
      BY <2>2, <2>3, <3>1
      DEF ProcTypes, TypeInv, TypeOK, Hands, Teams, assignVars, hubVars, deleteVars, Labs
  <2> QED
    BY <1>2, <2>4, <2>5 DEF SaveTeam
<1>3. ASSUME NEW t \in Teams, Connect(p, t) PROVE TypeInv'
  <2>1. ProcTypes'
    BY <1>3 DEF Connect, ProcTypes, TypeInv, TypeOK, Hands, Teams, Busy, Holding, PCs,
      storeVars, hubVars
  <2> QED
    BY <1>3, <1>s, <2>1 DEF Connect, storeVars
<1>4. CASE Reghook(p)
  <2>1. pteam[p] \in Teams
    BY <1>4, <1>t DEF Reghook, Busy
  <2>2. UNCHANGED <<storeVars, assignVars, offered, returning, deleteVars, panicked>>
    BY <1>4 DEF Reghook
  <2>3. ProcTypes' /\ queue' \in Seq(1..offered)
    BY <1>4, <1>u, <2>1, <2>2, TakeTypes, ReturnTypes DEF Reghook, storeVars
  <2> QED
    BY <1>q, <2>2, <2>3
<1>5. CASE BootTeams /\ p = Boot
  <2>1. ProcTypes'
    <3>1. CASE Return(p)
      BY <1>5, <3>1, ReturnTypes DEF BootTeams, storeVars, hubVars
    <3>2. CASE pc' = [pc EXCEPT ![p] = "boot"] /\ todo' = teams /\ UNCHANGED <<pteam, plab>>
      BY <1>5, <3>2 DEF BootTeams, ProcTypes, TypeInv, TypeOK, Hands, Teams, Busy, Holding,
        PCs, storeVars, hubVars
    <3> QED
      BY <1>5, <3>1, <3>2 DEF BootTeams
  <2> QED
    BY <1>5, <1>s, <2>1 DEF BootTeams, storeVars
<1>6. CASE BootNext /\ p = Boot
  <2>1. UNCHANGED <<storeVars, assignVars, offered, returning, deleteVars, panicked>>
    BY <1>6 DEF BootNext
  <2>2. CASE Return(p) /\ UNCHANGED queue
    BY <1>q, <1>u, <2>1, <2>2, ReturnTypes DEF storeVars
  <2>3. ASSUME NEW t \in todo, TakeLab(p, t), todo' = todo \ {t} PROVE TypeInv'
    <3>1. ProcTypes' /\ queue' \in Seq(1..offered)
      BY <1>t, <2>1, <2>3, TakeTypes DEF storeVars
    <3> QED
      BY <1>q, <2>1, <3>1
  <2> QED
    BY <1>6, <2>2, <2>3 DEF BootNext
<1>7. CASE CreateUser(p)
  <2>1. pc[p] = "user" /\ pteam[p] \in Teams
    BY <1>7, <1>t DEF CreateUser, Busy
  <2>2. UNCHANGED <<storeVars, assigned, labs, rdp, vpn, hubVars, deleteVars, panicked>>
    BY <1>7 DEF CreateUser
  <2>3. Return(p) \/ Goto(p, "rdp")
    BY <1>7 DEF CreateUser, GuacCall
  <2>4. ProcTypes'
    BY <2>1, <2>2, <2>3, ReturnTypes, GotoTypes DEF Busy, Holding, PCs, hubVars, storeVars
  <2>5. users' \subseteq Names /\ swallowed' \in BOOLEAN
    BY <1>7, <1>t, <2>1 DEF CreateUser, GuacCall
  <2> QED
    BY <1>a, <1>t, <2>2, <2>4, <2>5
<1>8. CASE CreateRDPConn(p)
  <2>1. pc[p] = "rdp" /\ pteam[p] \in Teams
    BY <1>8, <1>t DEF CreateRDPConn, Busy
  <2>2. UNCHANGED <<storeVars, assigned, labs, users, vpn, hubVars, deleteVars, panicked>>
    BY <1>8 DEF CreateRDPConn
  <2>3. Return(p) \/ Goto(p, "vpn") \/ Goto(p, "record")
    BY <1>8 DEF CreateRDPConn, GuacCall
  <2>4. ProcTypes'
    BY <2>1, <2>2, <2>3, ReturnTypes, GotoTypes DEF Busy, Holding, PCs, hubVars, storeVars
  <2>5. DOMAIN rdp' \subseteq Teams /\ swallowed' \in BOOLEAN
    BY <1>8, <1>t, <2>1 DEF CreateRDPConn, GuacCall, Put
  <2> QED
    BY <1>a, <1>t, <2>2, <2>4, <2>5
<1>9. CASE CreateVPNConn(p)
  <2>1. pc[p] = "vpn" /\ pteam[p] \in Teams
    BY <1>9, <1>t DEF CreateVPNConn, Busy
  <2>2. UNCHANGED <<storeVars, assigned, labs, users, rdp, swallowed, hubVars, deleteVars, panicked>>
    BY <1>9 DEF CreateVPNConn
  <2>3. ProcTypes'
    BY <1>9, <2>1, <2>2, ReturnTypes, GotoTypes
    DEF CreateVPNConn, Busy, Holding, PCs, hubVars, storeVars
  <2>4. DOMAIN vpn' \subseteq Teams
    BY <1>9, <1>t, <2>1 DEF CreateVPNConn, Put
  <2> QED
    BY <1>a, <1>t, <2>2, <2>3, <2>4
<1>10. CASE RecordLab(p)
  <2>1. pc[p] = "record" /\ pteam[p] \in Teams /\ plab[p] \in 1..offered
    BY <1>10, <1>t DEF RecordLab, Busy, Holding
  <2>2. UNCHANGED <<storeVars, assigned, users, rdp, vpn, swallowed, hubVars, deleteVars, panicked>>
    BY <1>10 DEF RecordLab
  <2>3. ProcTypes'
    BY <1>10, <2>1, <2>2, GotoTypes DEF RecordLab, Busy, Holding, PCs, hubVars, storeVars
  <2>4. DOMAIN labs' \subseteq Teams /\ \A t \in DOMAIN labs' : labs'[t] \in 1..offered
    BY <1>10, <1>t, <2>1 DEF RecordLab, Put
  <2> QED
    BY <1>a, <1>t, <2>2, <2>3, <2>4
<1>11. CASE CorrectedAssignedLab(p)
  <2>1. pc[p] = "flag" /\ pteam[p] \in Teams
    BY <1>11, <1>t DEF CorrectedAssignedLab, Busy
  <2>2. UNCHANGED <<storeVars, labs, users, rdp, vpn, swallowed, hubVars, deleteVars, panicked>>
    BY <1>11 DEF CorrectedAssignedLab
  <2>3. ProcTypes'
    BY <1>11, <2>2 DEF CorrectedAssignedLab, ProcTypes, TypeInv, TypeOK, Hands, Teams, Busy,
      Holding, PCs, storeVars, hubVars
  <2>4. assigned' \subseteq Teams
    BY <1>11, <1>t, <2>1 DEF CorrectedAssignedLab
  <2> QED
    BY <1>a, <1>t, <2>2, <2>3, <2>4
<1> QED
  BY <1>1, <1>2, <1>3, <1>4, <1>5, <1>6, <1>7, <1>8, <1>9, <1>10, <1>11
  DEF Request, Start, AssignLab

(* So does every step of a deletion, *)
LEMMA DeleteTypesStep ==
    ASSUME TypeInv, NEW d \in Deleters, Delete(d)
    PROVE  TypeInv'
<1> DEFINE Step == {"idle", "restart", "find", "erase"}
<1>t. /\ dpc \in [Deleters -> Step] /\ dteam \in [Deleters -> Teams \cup {0}]
      /\ dlab \in [Deleters -> 0..offered] /\ deletes \in 0..MaxDeletes
      /\ requeues \in [1..MaxTeams -> Nat] /\ returning \in [Labs -> Nat]
      /\ (dpc[d] # "idle" => dteam[d] \in Teams /\ dlab[d] \in 1..offered)
      /\ (\A t \in DOMAIN labs : t \in Teams /\ labs[t] \in 1..offered)
      /\ \A t \in Teams : t \in 1..MaxTeams
  BY BoundsAssumption DEF TypeInv, TypeOK, Hands, Teams
<1>o. offered \in Nat /\ \A l \in 1..offered : l \in Labs
  BY BoundsAssumption DEF TypeInv, TypeOK, Labs
<1>v. \A l \in Labs : returning[l] > 0 => l \in 1..offered
  BY DEF TypeInv, Hands
<1>s. ASSUME dpc' \in [Deleters -> Step], dteam' \in [Deleters -> Teams \cup {0}],
             dlab' \in [Deleters -> 0..offered], deletes' \in 0..MaxDeletes,
             requeues' \in [1..MaxTeams -> Nat], returning' \in [Labs -> Nat],
             \A e \in Deleters : dpc'[e] # "idle" => dteam'[e] \in Teams /\ dlab'[e] \in 1..offered,
             DOMAIN names' \subseteq DOMAIN names,
             \A n \in DOMAIN names' : names'[n] = names[n], teams' \subseteq teams,
             \A l \in Labs : returning'[l] > 0 => l \in 1..offered,
             panicked' \in BOOLEAN,
             UNCHANGED <<mode, loaded, teamName, assignVars, queue, offered, procVars>>
      PROVE  TypeInv'
  BY <1>s DEF TypeInv, TypeOK, Hands, Teams, Labs, assignVars, procVars
<1>r. ASSUME DeleteReturn(d)
      PROVE  /\ dpc' \in [Deleters -> Step] /\ dteam' \in [Deleters -> Teams \cup {0}]
             /\ dlab' \in [Deleters -> 0..offered]
             /\ \A e \in Deleters : dpc'[e] # "idle" => dteam'[e] \in Teams /\ dlab'[e] \in 1..offered
  BY <1>o, <1>r, <1>t DEF DeleteReturn, TypeInv, Hands
<1>m. ASSUME NEW s \in Step, dpc' = [dpc EXCEPT ![d] = s], UNCHANGED <<dteam, dlab>>,
             dpc[d] # "idle"
      PROVE  /\ dpc' \in [Deleters -> Step] /\ dteam' \in [Deleters -> Teams \cup {0}]
             /\ dlab' \in [Deleters -> 0..offered]
             /\ \A e \in Deleters : dpc'[e] # "idle" => dteam'[e] \in Teams /\ dlab'[e] \in 1..offered
  BY <1>m, <1>t DEF TypeInv, Hands
<1>p. panicked \in BOOLEAN
  BY DEF TypeInv, TypeOK
<1>1. ASSUME NEW t \in Teams, DeleteTeam(d, t) PROVE TypeInv'
  <2>1. labs[t] \in 1..offered /\ labs[t] \in 0..offered /\ deletes' \in 0..MaxDeletes
    BY <1>1, <1>o, <1>t, BoundsAssumption DEF DeleteTeam
  <2>2. /\ dpc' = [dpc EXCEPT ![d] = "restart"] /\ dteam' = [dteam EXCEPT ![d] = t]
        /\ dlab' = [dlab EXCEPT ![d] = labs[t]]
    BY <1>1 DEF DeleteTeam
  <2>3. /\ dpc' \in [Deleters -> Step] /\ dteam' \in [Deleters -> Teams \cup {0}]
        /\ dlab' \in [Deleters -> 0..offered]
    BY <1>t, <2>1, <2>2
  <2>4. \A e \in Deleters : dpc'[e] # "idle" => dteam'[e] \in Teams /\ dlab'[e] \in 1..offered
    BY <1>t, <2>1, <2>2 DEF TypeInv, Hands
  <2> QED
    BY <1>1, <1>p, <1>s, <1>t, <1>v, <2>1, <2>3, <2>4 DEF DeleteTeam, storeVars, hubVars
<1>2. CASE RestartLab(d)
  <2>1. UNCHANGED <<storeVars, assignVars, queue, offered, procVars, deletes, panicked>>
    BY <1>2 DEF RestartLab
  <2>2. CASE DeleteReturn(d) /\ UNCHANGED <<returning, requeues>>
    BY <1>p, <1>r, <1>s, <1>t, <1>v, <2>1, <2>2 DEF storeVars
  <2>3. CASE /\ returning' = [returning EXCEPT ![dlab[d]] = @ + 1]
             /\ requeues' = [requeues EXCEPT ![dteam[d]] = @ + 1]
             /\ dpc' = [dpc EXCEPT ![d] = "find"] /\ UNCHANGED <<dteam, dlab>>
    <3>1. dpc[d] # "idle" /\ returning' \in [Labs -> Nat] /\ requeues' \in [1..MaxTeams -> Nat]
      BY <1>2, <1>o, <1>t, <2>3 DEF RestartLab
    <3>2. \A l \in Labs : returning'[l] > 0 => l \in 1..offered
      BY <1>o, <1>t, <1>v, <2>3, <3>1
    <3> QED
      BY <1>m, <1>p, <1>s, <1>t, <1>v, <2>1, <2>3, <3>1, <3>2 DEF storeVars
  <2> QED
    BY <1>2, <2>2, <2>3 DEF RestartLab
<1>3. CASE FindTeam(d)
  <2>1. UNCHANGED <<storeVars, assignVars, hubVars, procVars, deletes, requeues, panicked>>
        /\ dpc[d] # "idle"
    BY <1>3 DEF FindTeam
  <2> QED
    BY <1>3, <1>m, <1>p, <1>r, <1>s, <1>t, <1>v, <2>1 DEF FindTeam, storeVars, hubVars
<1>4. CASE EraseTeam(d)
  <2>1. /\ DOMAIN names' \subseteq DOMAIN names /\ \A n \in DOMAIN names' : names'[n] = names[n]
        /\ teams' \subseteq teams
    BY <1>4 DEF EraseTeam, Without
  <2> QED
    BY <1>4, <1>p, <1>r, <1>s, <1>t, <1>v, <2>1 DEF EraseTeam, hubVars
<1>5. CASE EraseMissing(d)
  BY <1>5 DEF EraseMissing, Panic, TypeInv, TypeOK, Hands, Teams, Labs, storeVars, assignVars,
    hubVars, procVars, deleteVars
<1> QED
  BY <1>1, <1>2, <1>3, <1>4, <1>5 DEF Delete

(* and every step of the hub. *)
LEMMA HubTypesStep ==
    ASSUME TypeInv, OfferLab \/ MapRace \/ \E l \in Labs : Requeue(l)
    PROVE  TypeInv'
<1>1. CASE OfferLab
  <2>1. /\ offered < LabCount /\ offered' = offered + 1 /\ queue' = Append(queue, offered + 1)
        /\ UNCHANGED <<storeVars, assignVars, returning, procVars, deleteVars, panicked>>
    BY <1>1 DEF OfferLab
  <2>2. offered \in Nat /\ offered' \in 0..LabCount /\ offered + 1 \in 1..(offered + 1)
    BY <2>1, BoundsAssumption DEF TypeInv, TypeOK
  <2>3. queue \in Seq(1..(offered + 1))
    BY <2>2, SeqGrows DEF TypeInv, TypeOK
  <2>4. queue' \in Seq(1..offered')
    BY <2>1, <2>2, <2>3, SendFacts
  <2>5. 1..offered \subseteq 1..offered' /\ 0..offered \subseteq 0..offered'
    BY <2>1, <2>2
  <2>6. Hands'
    BY <2>1, <2>5 DEF TypeInv, Hands, Labs, Teams, storeVars, procVars, deleteVars
  <2>7. TypeOK'
    BY <2>1, <2>2, <2>4, <2>5 DEF TypeInv, TypeOK, Teams, Labs, storeVars, assignVars, procVars,
      deleteVars
  <2> QED
    BY <2>6, <2>7 DEF TypeInv
<1>2. CASE MapRace
  BY <1>2 DEF MapRace, Panic, TypeInv, TypeOK, Hands, Teams, Labs, storeVars, assignVars,
    hubVars, procVars, deleteVars
<1>3. ASSUME NEW l \in Labs, Requeue(l) PROVE TypeInv'
  <2>1. /\ returning' = [returning EXCEPT ![l] = @ - 1] /\ queue' = Append(queue, l)
        /\ UNCHANGED <<storeVars, assignVars, offered, procVars, deleteVars, panicked>>
        /\ returning[l] > 0 /\ l \in 1..offered
    BY <1>3 DEF Requeue, TypeInv, Hands
  <2>2. /\ returning' \in [Labs -> Nat]
        /\ \A k \in Labs : returning'[k] > 0 => k \in 1..offered
    BY <2>1 DEF TypeInv, TypeOK, Hands
  <2>3. queue' \in Seq(1..offered)
    BY <2>1, SendFacts DEF TypeInv, TypeOK
  <2> QED
    BY <2>1, <2>2, <2>3 DEF TypeInv, TypeOK, Hands, Teams, Labs, storeVars, assignVars, procVars,
      deleteVars
<1> QED
  BY <1>1, <1>2, <1>3

(* Every step keeps the types. *)
LEMMA TypeInvStep == TypeInv /\ [Next]_vars => TypeInv'
<1> SUFFICES ASSUME TypeInv, [Next]_vars PROVE TypeInv'
  OBVIOUS
<1>1. CASE \E r \in Requests : Request(r)
  BY <1>1, ProcTypesStep DEF Procs
<1>2. CASE Start
  BY <1>2, ProcTypesStep DEF Procs
<1>3. CASE \E p \in Procs : AssignLab(p)
  BY <1>3, ProcTypesStep
<1>4. CASE \E d \in Deleters : Delete(d)
  BY <1>4, DeleteTypesStep
<1>5. CASE MapRace \/ OfferLab \/ \E l \in Labs : Requeue(l)
  BY <1>5, HubTypesStep
<1>6. CASE UNCHANGED vars
  BY <1>6 DEF vars, TypeInv, TypeOK, Hands, Teams, Labs, storeVars, assignVars, hubVars,
    procVars, deleteVars
<1> QED
  BY <1>1, <1>2, <1>3, <1>4, <1>5, <1>6 DEF Next

(* Every goroutine that works for a team works for one that exists, and    *)
(* every lab in somebody's hands is one the hub has offered.               *)
THEOREM TypeCorrect == Spec => []TypeInv
BY TypeInvInit, TypeInvStep, PTL DEF Spec

(* The state stays within its types. *)
THEOREM TeamLabsTypes == Spec => []TypeOK
<1>1. TypeInv => TypeOK
  BY DEF TypeInv
<1> QED
  BY <1>1, TypeCorrect, PTL

-----------------------------------------------------------------------------
(* Connections. *)

(* Where a goroutine has made the Guacamole user of its team. *)
Past == {"rdp", "vpn", "record", "flag"}

(* Guacamole refuses the second user of a name, so while it is believed    *)
(* rightly only one AssignLab call of a team gets past "user": what that   *)
(* call has made leads to the lab in its hands, and what is recorded stays.*)
Conn ==
    /\ \A p \in Procs : pc[p] \in Past => teamName[pteam[p]] \in users
    /\ \A p, q \in Procs : pc[p] \in Past /\ pc[q] \in Past /\ pteam[p] = pteam[q] => p = q
    /\ \A p \in Procs : pc[p] \in {"vpn", "record", "flag"} =>
          pteam[p] \in DOMAIN rdp /\ rdp[pteam[p]] = plab[p]
    /\ \A p \in Procs : pc[p] \in {"record", "flag"} /\ mode = "VPNBrowser" =>
          pteam[p] \in DOMAIN vpn /\ vpn[pteam[p]] = plab[p]
    /\ \A p \in Procs : pc[p] = "flag" => pteam[p] \in DOMAIN labs
    /\ \A t \in DOMAIN labs :
         /\ teamName[t] \in users
         /\ t \in DOMAIN rdp /\ rdp[t] = labs[t]
         /\ mode = "VPNBrowser" => t \in DOMAIN vpn /\ vpn[t] = labs[t]
         /\ \A p \in Procs : pc[p] \in {"rdp", "vpn", "record"} => pteam[p] # t
    /\ assigned \subseteq DOMAIN labs

ConnInv == mode # "VPN" /\ ~swallowed => Conn

(* A step that moves no goroutine past "user". *)
LEMMA ConnQuiet ==
    ASSUME TypeInv, Conn, users \subseteq users', UNCHANGED <<mode, loaded, rdp, vpn, labs, assigned>>,
           \A t \in Teams : teamName'[t] = teamName[t],
           \A p \in Procs : pc'[p] \in Past =>
              pc'[p] = pc[p] /\ pteam'[p] = pteam[p] /\ plab'[p] = plab[p]
    PROVE  Conn'
<1>1. /\ \A p \in Procs : pc[p] \in Past => pteam[p] \in Teams
      /\ \A t \in DOMAIN labs : t \in Teams
  BY DEF TypeInv, TypeOK, Hands, Busy, Past
<1>2. {"rdp", "vpn", "record", "flag"} = Past
  BY DEF Past
<1>3. \A p \in Procs : pc'[p] \in Past => teamName'[pteam'[p]] \in users'
  BY <1>1 DEF Conn
<1>4. \A p, q \in Procs : pc'[p] \in Past /\ pc'[q] \in Past /\ pteam'[p] = pteam'[q] => p = q
  BY DEF Conn
<1> QED
  BY <1>1, <1>2, <1>3, <1>4 DEF Conn

(* A goroutine that returns, *)
LEMMA ReturnQuiet ==
    ASSUME TypeInv, NEW p \in Procs, Return(p)
    PROVE  \A q \in Procs : pc'[q] \in Past =>
              q # p /\ pc'[q] = pc[q] /\ pteam'[q] = pteam[q] /\ plab'[q] = plab[q]
BY DEF Return, TypeInv, TypeOK, Past

(* and one that goes on. *)
LEMMA GotoMoves ==
    ASSUME TypeInv, NEW p \in Procs, NEW where, Goto(p, where)
    PROVE  /\ pc'[p] = where /\ UNCHANGED <<pteam, plab>>
           /\ \A q \in Procs : q # p => pc'[q] = pc[q]
BY DEF Goto, TypeInv, TypeOK

(* AssignLab keeps the connections of a team and its lab together. *)
LEMMA ConnAssign ==
    ASSUME TypeInv, mode # "VPN", ~swallowed, ~swallowed', Conn,
           NEW p \in Procs, AssignLab(p)
    PROVE  Conn'
<1> DEFINE t == pteam[p]
<1>t. /\ \A q \in Procs : pc[q] \in Past => pteam[q] \in Teams
      /\ \A u \in DOMAIN labs : u \in Teams
  BY DEF TypeInv, TypeOK, Hands, Busy, Past
<1>m. UNCHANGED <<mode, loaded, teamName>>
  BY DEF AssignLab, CreateUser, CreateRDPConn, CreateVPNConn, RecordLab, CorrectedAssignedLab,
    storeVars
<1>1. CASE CreateUser(p)
  <2>1. UNCHANGED <<rdp, vpn, labs, assigned>>
    BY <1>1 DEF CreateUser
  <2>2. PICK done \in BOOLEAN, ok \in BOOLEAN :
           /\ done => teamName[t] \notin users
           /\ users' = IF done THEN users \cup {teamName[t]} ELSE users
           /\ GuacCall(p, done, ok, "rdp")
    BY <1>1 DEF CreateUser
  <2>3. CASE ~ok
    BY <1>m, <2>1, <2>2, <2>3, ReturnQuiet, ConnQuiet DEF GuacCall
  <2>4. CASE ok
    <3>1. done /\ Goto(p, "rdp")
      BY <2>2, <2>4 DEF GuacCall
    <3>2. teamName[t] \notin users /\ users' = users \cup {teamName[t]}
      BY <2>2, <3>1
    <3>3. /\ pc'[p] = "rdp" /\ UNCHANGED <<pteam, plab>>
          /\ \A q \in Procs : q # p => pc'[q] = pc[q]
      BY <3>1, GotoMoves
    <3>4. \A q \in Procs : pc[q] \in Past => pteam[q] # t
      BY <3>2 DEF Conn
    <3>5. t \notin DOMAIN labs
      BY <3>2 DEF Conn
    <3> QED
      BY <1>m, <2>1, <3>2, <3>3, <3>4, <3>5 DEF Conn, Past
  <2> QED
    BY <2>3, <2>4
<1>2. CASE CreateRDPConn(p)
  <2>1. UNCHANGED <<users, vpn, labs, assigned>> /\ pc[p] = "rdp"
    BY <1>2 DEF CreateRDPConn
  <2>2. PICK done \in BOOLEAN, ok \in BOOLEAN :
           /\ done => t \notin DOMAIN rdp
           /\ rdp' = IF done THEN Put(rdp, t, plab[p]) ELSE rdp
           /\ GuacCall(p, done, ok, IF mode = "VPNBrowser" THEN "vpn" ELSE "record")
    BY <1>2 DEF CreateRDPConn
  <2>3. CASE ~ok /\ ~done
    BY <1>m, <2>1, <2>2, <2>3, ReturnQuiet, ConnQuiet DEF GuacCall
  <2>4. t \notin DOMAIN labs /\ \A q \in Procs : q # p /\ pc[q] \in Past => pteam[q] # t
    BY <2>1 DEF Conn, Past
  <2>5. ASSUME done PROVE /\ DOMAIN rdp' = DOMAIN rdp \cup {t} /\ rdp'[t] = plab[p]
                          /\ \A x \in DOMAIN rdp : x # t => rdp'[x] = rdp[x]
    BY <2>2, <2>5 DEF Put
  <2>6. CASE ~ok /\ done
    <3>1. \A q \in Procs : pc'[q] \in Past =>
              q # p /\ pc'[q] = pc[q] /\ pteam'[q] = pteam[q] /\ plab'[q] = plab[q]
      BY <2>2, <2>6, ReturnQuiet DEF GuacCall
    <3> QED
      BY <1>m, <1>t, <2>1, <2>4, <2>5, <2>6, <3>1 DEF Conn, Past
  <2>7. CASE ok
    <3>1. done /\ Goto(p, IF mode = "VPNBrowser" THEN "vpn" ELSE "record")
      BY <2>2, <2>7 DEF GuacCall
    <3>2. /\ pc'[p] = (IF mode = "VPNBrowser" THEN "vpn" ELSE "record")
          /\ UNCHANGED <<pteam, plab>> /\ \A q \in Procs : q # p => pc'[q] = pc[q]
      BY <3>1, GotoMoves
    <3> QED
      BY <1>m, <2>1, <2>4, <2>5, <3>1, <3>2 DEF Conn, Past
  <2> QED
    BY <2>3, <2>6, <2>7
<1>3. CASE CreateVPNConn(p)
  <2>1. UNCHANGED <<users, rdp, labs, assigned>> /\ pc[p] = "vpn"
    BY <1>3 DEF CreateVPNConn
  <2>2. CASE Return(p) /\ UNCHANGED vpn
    BY <1>m, <2>1, <2>2, ReturnQuiet, ConnQuiet
  <2>3. CASE vpn' = Put(vpn, t, plab[p]) /\ Goto(p, "record")
    <3>1. /\ DOMAIN vpn' = DOMAIN vpn \cup {t} /\ vpn'[t] = plab[p]
          /\ \A x \in DOMAIN vpn : x # t => vpn'[x] = vpn[x]
      BY <2>3 DEF Put
    <3>2. /\ pc'[p] = "record" /\ UNCHANGED <<pteam, plab>>
          /\ \A q \in Procs : q # p => pc'[q] = pc[q]
      BY <2>3, GotoMoves
    <3>3. t \notin DOMAIN labs /\ \A q \in Procs : q # p /\ pc[q] \in Past => pteam[q] # t
      BY <2>1 DEF Conn, Past
    <3> QED
      BY <1>m, <2>1, <3>1, <3>2, <3>3 DEF Conn, Past
  <2> QED
    BY <1>3, <2>2, <2>3 DEF CreateVPNConn
<1>4. CASE RecordLab(p)
  <2>1. UNCHANGED <<users, rdp, vpn, assigned>> /\ pc[p] = "record"
    BY <1>4 DEF RecordLab
  <2>2. /\ DOMAIN labs' = DOMAIN labs \cup {t} /\ labs'[t] = plab[p]
        /\ \A x \in DOMAIN labs : x # t => labs'[x] = labs[x]
    BY <1>4 DEF RecordLab, Put
  <2>3. /\ pc'[p] = "flag" /\ UNCHANGED <<pteam, plab>>
        /\ \A q \in Procs : q # p => pc'[q] = pc[q]
    BY <1>4, GotoMoves DEF RecordLab
  <2>4. t \notin DOMAIN labs /\ \A q \in Procs : q # p /\ pc[q] \in Past => pteam[q] # t
    BY <2>1 DEF Conn, Past
  <2> QED
    BY <1>m, <2>1, <2>2, <2>3, <2>4 DEF Conn, Past
<1>5. CASE CorrectedAssignedLab(p)
  <2>1. UNCHANGED <<users, rdp, vpn, labs>> /\ pc[p] = "flag" /\ assigned' = assigned \cup {t}
    BY <1>5 DEF CorrectedAssignedLab
  <2>2. \A q \in Procs : pc'[q] \in Past =>
              q # p /\ pc'[q] = pc[q] /\ pteam'[q] = pteam[q] /\ plab'[q] = plab[q]
    BY <1>5 DEF CorrectedAssignedLab, TypeInv, TypeOK, Past
  <2> QED
    BY <1>m, <1>t, <2>1, <2>2 DEF Conn, Past
<1> QED
  BY <1>1, <1>2, <1>3, <1>4, <1>5 DEF AssignLab

(* Before the first request nothing is connected. *)
LEMMA ConnInvInit == Init => ConnInv
BY DEF Init, ConnInv, Conn, Past

(* Every step keeps ConnInv. *)
LEMMA ConnInvStep ==
    ASSUME TypeInv, ConnInv, [Next]_vars
    PROVE  ConnInv'
<1>a. mode' = mode
  BY DEF Next, Request, Signup, SaveTeam, Connect, Reghook, Start, BootTeams, BootNext,
    AssignLab, CreateUser, CreateRDPConn, CreateVPNConn, RecordLab, CorrectedAssignedLab,
    MapRace, Panic, Delete, DeleteTeam, RestartLab, FindTeam, EraseTeam, EraseMissing,
    OfferLab, Requeue, vars, storeVars
<1>b. ASSUME NEW p \in Procs, CreateUser(p) \/ CreateRDPConn(p), swallowed PROVE swallowed'
  BY <1>b DEF CreateUser, CreateRDPConn, GuacCall
<1>c. ASSUME \A p \in Procs : ~CreateUser(p) /\ ~CreateRDPConn(p)
      PROVE  swallowed' = swallowed
  BY <1>c DEF Next, Request, Signup, SaveTeam, Connect, Reghook, Start, BootTeams, BootNext,
    AssignLab, CreateVPNConn, RecordLab, CorrectedAssignedLab, MapRace, Panic, Delete,
    DeleteTeam, RestartLab, FindTeam, EraseTeam, EraseMissing, OfferLab, Requeue, vars,
    assignVars
<1>m. mode' = mode /\ (swallowed => swallowed')
  BY <1>a, <1>b, <1>c
<1> SUFFICES ASSUME mode # "VPN", ~swallowed, ~swallowed', Conn PROVE Conn'
  BY <1>m DEF ConnInv
<1>k. ASSUME NEW p \in Procs, Return(p), UNCHANGED <<mode, loaded, teamName, assignVars>> PROVE Conn'
  BY <1>k, ReturnQuiet, ConnQuiet DEF assignVars
<1>g. ASSUME NEW p \in Procs, NEW w, w \notin Past, pc' = [pc EXCEPT ![p] = w],
             \A q \in Procs : q # p => pteam'[q] = pteam[q] /\ plab'[q] = plab[q],
             UNCHANGED <<mode, loaded, assignVars>>, \A t \in Teams : teamName'[t] = teamName[t]
      PROVE  Conn'
  <2>1. \A q \in Procs : pc'[q] \in Past =>
              pc'[q] = pc[q] /\ pteam'[q] = pteam[q] /\ plab'[q] = plab[q]
    BY <1>g DEF TypeInv, TypeOK
  <2> QED
    BY <1>g, <2>1, ConnQuiet DEF assignVars
<1>e. ASSUME NEW p \in Procs, NEW t, TakeLab(p, t), UNCHANGED <<storeVars, assignVars>>
      PROVE  Conn'
  <2>1. pc' = [pc EXCEPT ![p] = "user"] /\ "user" \notin Past
    BY <1>e DEF TakeLab, FirstStep, Past
  <2>2. \A q \in Procs : q # p => pteam'[q] = pteam[q] /\ plab'[q] = plab[q]
    BY <1>e DEF TakeLab, TypeInv, TypeOK
  <2> QED
    BY <1>e, <1>g, <2>1, <2>2 DEF storeVars
<1>1. ASSUME NEW r \in Requests, Request(r) PROVE Conn'
  <2>0. r \in Procs
    BY DEF Procs
  <2>1. ASSUME NEW n \in Names, Signup(r, n) PROVE Conn'
    <3>1. \A t \in Teams : teamName'[t] = teamName[t]
      BY <2>0, <2>1, SignupTypes
    <3>2. /\ pc' = [pc EXCEPT ![r] = "save"] /\ "save" \notin Past
          /\ \A q \in Procs : q # r => pteam'[q] = pteam[q] /\ plab'[q] = plab[q]
      BY <2>1 DEF Signup, Past, TypeInv, TypeOK
    <3> QED
      BY <1>g, <2>0, <2>1, <3>1, <3>2 DEF Signup
  <2>2. CASE SaveTeam(r)
    <3>1. UNCHANGED <<mode, loaded, teamName, assignVars>> /\ (Return(r) \/ Goto(r, "hook"))
      BY <2>2 DEF SaveTeam
    <3>2. "hook" \notin Past
      BY DEF Past
    <3> QED
      BY <1>g, <1>k, <2>0, <3>1, <3>2 DEF Goto
  <2>3. ASSUME NEW t \in Teams, Connect(r, t) PROVE Conn'
    <3>1. /\ pc' = [pc EXCEPT ![r] = "hook"] /\ "hook" \notin Past
          /\ \A q \in Procs : q # r => pteam'[q] = pteam[q] /\ plab'[q] = plab[q]
      BY <2>3 DEF Connect, Past, TypeInv, TypeOK
    <3> QED
      BY <1>g, <2>0, <2>3, <3>1 DEF Connect, storeVars
  <2>4. CASE Reghook(r)
    BY <1>e, <1>k, <2>0, <2>4 DEF Reghook, storeVars
  <2> QED
    BY <1>1, <2>1, <2>2, <2>3, <2>4 DEF Request
<1>2. CASE Start
  <2>0. Boot \in Procs /\ UNCHANGED <<storeVars, assignVars>>
    BY <1>2 DEF Procs, Start, BootTeams, BootNext
  <2>1. CASE Return(Boot)
    BY <1>k, <2>0, <2>1 DEF storeVars
  <2>2. CASE BootTeams /\ ~Return(Boot)
    <3>1. pc' = [pc EXCEPT ![Boot] = "boot"] /\ "boot" \notin Past /\ UNCHANGED <<pteam, plab>>
      BY <2>2 DEF BootTeams, Past
    <3> QED
      BY <1>g, <2>0, <3>1 DEF storeVars
  <2>3. CASE BootNext /\ ~Return(Boot)
    BY <1>e, <2>0, <2>3 DEF BootNext
  <2> QED
    BY <1>2, <2>1, <2>2, <2>3 DEF Start
<1>3. ASSUME NEW p \in Procs, AssignLab(p) PROVE Conn'
  BY <1>3, ConnAssign
<1>4. CASE UNCHANGED <<mode, loaded, teamName, assignVars, pc, pteam, plab>>
  BY <1>4, ConnQuiet DEF assignVars
<1>5. ASSUME NEW d \in Deleters, Delete(d) PROVE Conn'
  <2>1. UNCHANGED <<mode, loaded, teamName, assignVars, pc, pteam, plab>>
    BY <1>5 DEF Delete, DeleteTeam, RestartLab, FindTeam, EraseTeam, EraseMissing, Panic,
      storeVars, procVars
  <2> QED
    BY <1>4, <2>1
<1>6. CASE MapRace \/ OfferLab \/ (\E l \in Labs : Requeue(l)) \/ UNCHANGED vars
  <2>1. UNCHANGED <<mode, loaded, teamName, assignVars, pc, pteam, plab>>
    BY <1>6 DEF MapRace, OfferLab, Requeue, Panic, vars, storeVars, procVars
  <2> QED
    BY <1>4, <2>1
<1> QED
  BY <1>1, <1>2, <1>3, <1>5, <1>6 DEF Next

(* While Guacamole's answers are true, the calls past CreateUser are one   *)
(* per team, and what they made leads to the labs in their hands.          *)
THEOREM ConnInvariant == Spec => []ConnInv
<1>1. TypeInv /\ ConnInv /\ [Next]_vars => ConnInv'
  BY ConnInvStep
<1> QED
  BY <1>1, ConnInvInit, TypeCorrect, PTL DEF Spec

(* The lab a team reaches is the lab the event acts on for it (event.go,   *)
(* AssignLab): two AssignLab calls for one team do not mix.                *)
THEOREM ConnectionsMatch == Spec => []ConnectionMatches
<1>1. ConnInv => ConnectionMatches
  BY DEF ConnInv, Conn, ConnectionMatches
<1> QED
  BY <1>1, ConnInvariant, PTL

(* A lab once recorded in ev.labs for a team is never replaced. *)
THEOREM RecordsKept == Spec => LabKept
<1>1. TypeInv /\ ConnInv /\ [Next]_vars =>
        [(mode # "VPN" /\ ~swallowed') =>
            \A t \in DOMAIN labs : t \in DOMAIN labs' /\ labs'[t] = labs[t]]_vars
  <2> SUFFICES ASSUME TypeInv, ConnInv, Next, mode # "VPN", ~swallowed', NEW t \in DOMAIN labs
               PROVE  t \in DOMAIN labs' /\ labs'[t] = labs[t]
    OBVIOUS
  <2>1. ASSUME NEW p \in Procs, RecordLab(p) PROVE t \in DOMAIN labs' /\ labs'[t] = labs[t]
    <3>1. pteam[p] # t
      BY <2>1 DEF RecordLab, ConnInv, Conn
    <3> QED
      BY <2>1, <3>1 DEF RecordLab, Put
  <2>2. CASE \A p \in Procs : ~RecordLab(p)
    <3>1. labs' = labs
      BY <2>2 DEF Next, Request, Signup, SaveTeam, Connect, Reghook, Start, BootTeams, BootNext,
        AssignLab, CreateUser, CreateRDPConn, CreateVPNConn, CorrectedAssignedLab,
        MapRace, Panic, Delete, DeleteTeam, RestartLab, FindTeam, EraseTeam, EraseMissing,
        OfferLab, Requeue, assignVars
    <3> QED
      BY <3>1
  <2> QED
    BY <2>1, <2>2
<1> QED
  BY <1>1, TypeCorrect, ConnInvariant, PTL DEF Spec, LabKept

-----------------------------------------------------------------------------
(* Ownership of labs. *)

(* A team that is signing up is known to nobody else, *)
SaveInv ==
    \A r \in Procs : pc[r] = "save" =>
        /\ pteam[r] \notin teams /\ pteam[r] \notin todo /\ pteam[r] \notin DOMAIN labs
        /\ requeues[pteam[r]] = 0
        /\ \A p \in Procs : p # r => pteam[p] # pteam[r]
        /\ \A d \in Deleters : dteam[d] # pteam[r]

(* so a team whose lab was given back is never stored again: it is gone,   *)
(* or its deletion is under way.                                           *)
DeletedInv ==
    \A t \in 1..MaxTeams : requeues[t] > 0 =>
        t \in Teams /\ (t \notin teams \/ Deleting(t))

OwnInv == SaveInv /\ DeletedInv

(* Before the first request nobody signs up and nothing was given back. *)
LEMMA OwnInvInit == Init => OwnInv
BY BoundsAssumption DEF Init, OwnInv, SaveInv, DeletedInv

(* A step that stores no team and gives no lab back. *)
LEMMA OwnQuiet ==
    ASSUME TypeInv, OwnInv, teams' \subseteq teams, todo' \subseteq teams \cup todo,
           UNCHANGED <<teamName, requeues>>,
           \A t \in DOMAIN labs' : t \in DOMAIN labs \/ \E p \in Procs : pc[p] # "save" /\ pteam[p] = t,
           \A p \in Procs : /\ pc'[p] = "save" => pc[p] = "save" /\ pteam'[p] = pteam[p]
                            /\ \/ pteam'[p] = pteam[p] \/ pteam'[p] \in teams \cup todo \cup {0},
           \A d \in Deleters : dteam'[d] = dteam[d] \/ dteam'[d] \in DOMAIN labs \cup {0},
           \A t \in teams' : Deleting(t) => Deleting(t)'
    PROVE  OwnInv'
<1>1. ASSUME NEW r \in Procs, pc'[r] = "save"
      PROVE  /\ pteam'[r] \notin teams' /\ pteam'[r] \notin todo' /\ pteam'[r] \notin DOMAIN labs'
             /\ requeues'[pteam'[r]] = 0
             /\ \A p \in Procs : p # r => pteam'[p] # pteam'[r]
             /\ \A d \in Deleters : dteam'[d] # pteam'[r]
  <2>1. pc[r] = "save" /\ pteam'[r] = pteam[r] /\ pteam[r] \in Teams /\ pteam[r] # 0
    BY <1>1 DEF TypeInv, Hands, Busy, Teams
  <2> QED
    BY <2>1 DEF OwnInv, SaveInv
<1>2. DeletedInv'
  BY DEF OwnInv, DeletedInv, Teams
<1> QED
  BY <1>1, <1>2 DEF OwnInv, SaveInv

(* Every step keeps OwnInv. *)
LEMMA OwnInvStep ==
    ASSUME TypeInv, OwnInv, [Next]_vars
    PROVE  OwnInv'
<1>t. /\ \A p \in Procs : pc[p] \in Busy => pteam[p] \in Teams /\ pteam[p] # 0
      /\ \A t \in Teams : t # 0 /\ t \in 1..MaxTeams
      /\ pc \in [Procs -> PCs] /\ pteam \in [Procs -> Teams \cup {0}]
  BY BoundsAssumption DEF TypeInv, TypeOK, Hands, Teams
<1>d. ASSUME UNCHANGED <<dpc, dteam>> PROVE \A t : Deleting(t)' <=> Deleting(t)
  BY <1>d DEF Deleting
<1>k. ASSUME NEW p \in Procs, Return(p), UNCHANGED <<teamName, teams, requeues, dpc, dteam, labs>>
      PROVE  OwnInv'
  <2>1. \A q \in Procs : /\ pc'[q] = "save" => pc[q] = "save" /\ pteam'[q] = pteam[q]
                         /\ pteam'[q] = pteam[q] \/ pteam'[q] = 0
    BY <1>k, <1>t DEF Return
  <2>2. todo' = todo
    BY <1>k DEF Return
  <2> QED
    BY <1>d, <1>k, <2>1, <2>2, OwnQuiet
<1>g. ASSUME NEW p \in Procs, NEW w, w # "save", pc[p] # "save", Goto(p, w),
             UNCHANGED <<teamName, teams, requeues, dpc, dteam>>,
             \A t \in DOMAIN labs' : t \in DOMAIN labs \/ t = pteam[p]
      PROVE  OwnInv'
  <2>1. todo' = todo /\ pteam' = pteam /\ \A q \in Procs : pc'[q] = "save" => pc[q] = "save"
    BY <1>g, <1>t DEF Goto
  <2>2. \A t \in DOMAIN labs' : t \in DOMAIN labs \/ \E q \in Procs : pc[q] # "save" /\ pteam[q] = t
    BY <1>g
  <2> QED
    BY <1>d, <1>g, <2>1, <2>2, OwnQuiet
<1>e. ASSUME NEW p \in Procs, NEW t, t \in teams \cup todo \/ t = pteam[p], TakeLab(p, t),
             todo' \subseteq todo, UNCHANGED <<storeVars, assignVars, deleteVars>>
      PROVE  OwnInv'
  <2>1. \A q \in Procs : /\ pc'[q] = "save" => pc[q] = "save" /\ pteam'[q] = pteam[q]
                         /\ pteam'[q] = pteam[q] \/ pteam'[q] \in teams \cup todo
    BY <1>e, <1>t DEF TakeLab, FirstStep
  <2> QED
    BY <1>d, <1>e, <2>1, OwnQuiet DEF storeVars, assignVars, deleteVars
<1>1. ASSUME NEW r \in Requests, Request(r) PROVE OwnInv'
  <2>0. r \in Procs
    BY DEF Procs
  <2>1. ASSUME NEW n \in Names, Signup(r, n) PROVE OwnInv'
    <3> DEFINE u == Len(teamName) + 1
    <3>1. Teams \subseteq Teams' /\ u \notin Teams /\ u \in Teams' /\ u # 0
      BY <2>0, <2>1, SignupTypes DEF TypeInv, TypeOK
    <3>2. /\ pc' = [pc EXCEPT ![r] = "save"] /\ pteam' = [pteam EXCEPT ![r] = u]
          /\ UNCHANGED <<teams, labs, todo, dpc, dteam, requeues>>
      BY <2>1 DEF Signup, assignVars, deleteVars
    <3>3. u \in 1..MaxTeams /\ requeues[u] = 0
      <4>1. u \in 1..MaxTeams
        BY <2>1, BoundsAssumption DEF Signup, TypeInv, TypeOK
      <4>2. requeues[u] \in Nat /\ ~(requeues[u] > 0)
        <5>1. requeues \in [1..MaxTeams -> Nat]
          BY DEF TypeInv, TypeOK
        <5>2. requeues[u] > 0 => u \in Teams
          BY <4>1 DEF OwnInv, DeletedInv
        <5> QED
          BY <3>1, <4>1, <5>1, <5>2
      <4> QED
        BY <4>1, <4>2
    <3>4. /\ teams \subseteq Teams /\ todo \subseteq Teams /\ DOMAIN labs \subseteq Teams
          /\ dteam \in [Deleters -> Teams \cup {0}]
      BY DEF TypeInv, TypeOK
    <3> HIDE DEF u
    <3>5. SaveInv'
      <4> SUFFICES ASSUME NEW q \in Procs, pc'[q] = "save"
                   PROVE  /\ pteam'[q] \notin teams' /\ pteam'[q] \notin todo'
                          /\ pteam'[q] \notin DOMAIN labs' /\ requeues'[pteam'[q]] = 0
                          /\ \A p \in Procs : p # q => pteam'[p] # pteam'[q]
                          /\ \A d \in Deleters : dteam'[d] # pteam'[q]
        BY DEF SaveInv
      <4>1. CASE q = r
        BY <1>t, <2>0, <3>1, <3>2, <3>3, <3>4, <4>1
      <4>2. CASE q # r
        <5>1. pc[q] = "save" /\ pteam'[q] = pteam[q] /\ pteam[q] \in Teams
          BY <1>t, <3>2, <4>2 DEF Busy
        <5> QED
          BY <1>t, <2>0, <3>1, <3>2, <4>2, <5>1 DEF OwnInv, SaveInv
      <4> QED
        BY <4>1, <4>2
    <3>6. DeletedInv'
      BY <1>d, <3>1, <3>2 DEF OwnInv, DeletedInv
    <3> QED
      BY <3>5, <3>6 DEF OwnInv
  <2>2. CASE SaveTeam(r)
    <3>1. /\ pc[r] = "save" /\ (Return(r) \/ Goto(r, "hook")) /\ pteam[r] \in Teams
          /\ UNCHANGED <<teamName, labs, dpc, dteam, requeues>>
          /\ teams' \subseteq teams \cup {pteam[r]}
      BY <1>t, <2>0, <2>2 DEF SaveTeam, assignVars, deleteVars, Busy
    <3>2. \A q \in Procs : pc'[q] = "save" => q # r /\ pc[q] = "save" /\ pteam'[q] = pteam[q]
      BY <1>t, <2>0, <3>1 DEF Return, Goto
    <3>3. todo' = todo /\ \A q \in Procs : pteam'[q] = pteam[q] \/ pteam'[q] = 0
      BY <1>t, <3>1 DEF Return, Goto
    <3>4. SaveInv'
      <4> SUFFICES ASSUME NEW q \in Procs, pc'[q] = "save"
                   PROVE  /\ pteam'[q] \notin teams' /\ pteam'[q] \notin todo'
                          /\ pteam'[q] \notin DOMAIN labs' /\ requeues'[pteam'[q]] = 0
                          /\ \A p \in Procs : p # q => pteam'[p] # pteam'[q]
                          /\ \A d \in Deleters : dteam'[d] # pteam'[q]
        BY DEF SaveInv
      <4>1. pc[q] = "save" /\ q # r /\ pteam'[q] = pteam[q] /\ pteam[q] # 0
        BY <1>t, <3>2 DEF Busy
      <4> QED
        BY <2>0, <3>1, <3>3, <4>1 DEF OwnInv, SaveInv
    <3>5. DeletedInv'
      BY <1>d, <2>0, <3>1 DEF OwnInv, DeletedInv, SaveInv, Teams
    <3> QED
      BY <3>4, <3>5 DEF OwnInv
  <2>3. ASSUME NEW t \in Teams, Connect(r, t) PROVE OwnInv'
    <3>1. \A q \in Procs : /\ pc'[q] = "save" => pc[q] = "save" /\ pteam'[q] = pteam[q]
                           /\ pteam'[q] = pteam[q] \/ pteam'[q] \in teams
      BY <1>t, <2>0, <2>3 DEF Connect
    <3> QED
      BY <1>d, <2>3, <3>1, OwnQuiet DEF Connect, storeVars, assignVars, deleteVars
  <2>4. CASE Reghook(r)
    BY <1>e, <1>k, <2>0, <2>4 DEF Reghook, storeVars, assignVars, deleteVars
  <2> QED
    BY <1>1, <2>1, <2>2, <2>3, <2>4 DEF Request
<1>2. CASE Start
  <2>0. Boot \in Procs /\ UNCHANGED <<storeVars, assignVars, deleteVars>>
    BY <1>2 DEF Procs, Start, BootTeams, BootNext
  <2>1. CASE Return(Boot)
    BY <1>k, <2>0, <2>1 DEF storeVars, assignVars, deleteVars
  <2>2. CASE BootTeams /\ ~Return(Boot)
    <3>1. /\ todo' = teams /\ pteam' = pteam
          /\ \A q \in Procs : pc'[q] = "save" => pc[q] = "save"
      BY <1>t, <2>0, <2>2 DEF BootTeams
    <3> QED
      BY <1>d, <2>0, <3>1, OwnQuiet DEF storeVars, assignVars, deleteVars
  <2>3. CASE BootNext /\ ~Return(Boot)
    <3>1. PICK t \in todo : TakeLab(Boot, t) /\ todo' = todo \ {t}
      BY <2>3 DEF BootNext
    <3> QED
      BY <1>e, <2>0, <3>1
  <2> QED
    BY <1>2, <2>1, <2>2, <2>3 DEF Start
<1>3. ASSUME NEW p \in Procs, AssignLab(p) PROVE OwnInv'
  <2>1. UNCHANGED <<storeVars, deleteVars>>
    BY <1>3 DEF AssignLab, CreateUser, CreateRDPConn, CreateVPNConn, RecordLab,
      CorrectedAssignedLab
  <2>2. CASE CreateUser(p)
    BY <1>g, <1>k, <2>1, <2>2 DEF CreateUser, GuacCall, storeVars, deleteVars
  <2>3. CASE CreateRDPConn(p)
    BY <1>g, <1>k, <2>1, <2>3 DEF CreateRDPConn, GuacCall, storeVars, deleteVars
  <2>4. CASE CreateVPNConn(p)
    BY <1>g, <1>k, <2>1, <2>4 DEF CreateVPNConn, storeVars, deleteVars
  <2>5. CASE RecordLab(p)
    BY <1>g, <2>1, <2>5 DEF RecordLab, Put, storeVars, deleteVars
  <2>6. CASE CorrectedAssignedLab(p)
    <3>1. \A q \in Procs : /\ pc'[q] = "save" => pc[q] = "save" /\ pteam'[q] = pteam[q]
                           /\ pteam'[q] = pteam[q] \/ pteam'[q] = 0
      BY <1>t, <2>6 DEF CorrectedAssignedLab
    <3> QED
      BY <1>d, <2>1, <2>6, <3>1, OwnQuiet DEF CorrectedAssignedLab, storeVars, deleteVars
  <2> QED
    BY <1>3, <2>2, <2>3, <2>4, <2>5, <2>6 DEF AssignLab
<1>4. ASSUME NEW d \in Deleters, Delete(d) PROVE OwnInv'
  <2>0. /\ UNCHANGED <<teamName, labs, pc, pteam, todo>> /\ teams' \subseteq teams
        /\ dpc \in [Deleters -> {"idle", "restart", "find", "erase"}]
        /\ dteam \in [Deleters -> Teams \cup {0}]
        /\ (dpc[d] # "idle" => dteam[d] \in Teams)
    BY <1>4 DEF Delete, DeleteTeam, RestartLab, FindTeam, EraseTeam, EraseMissing, Panic,
      storeVars, procVars, assignVars, TypeInv, TypeOK, Hands
  <2>r. ASSUME DeleteReturn(d), requeues' = requeues,
               dteam[d] \in teams' => dpc[d] \notin {"find", "erase"}
        PROVE  OwnInv'
    <3>1. \A e \in Deleters : dteam'[e] = dteam[e] \/ dteam'[e] = 0
      BY <2>r, <2>0 DEF DeleteReturn
    <3>2. \A t \in teams' : Deleting(t) => Deleting(t)'
      BY <2>r, <2>0 DEF DeleteReturn, Deleting
    <3> QED
      BY <2>0, <2>r, <3>1, <3>2, OwnQuiet
  <2>1. ASSUME NEW t \in Teams, DeleteTeam(d, t) PROVE OwnInv'
    <3>1. \A e \in Deleters : dteam'[e] = dteam[e] \/ dteam'[e] \in DOMAIN labs
      BY <2>0, <2>1 DEF DeleteTeam
    <3>2. \A u \in teams' : Deleting(u) => Deleting(u)'
      BY <2>0, <2>1 DEF DeleteTeam, Deleting
    <3> QED
      BY <2>0, <2>1, <3>1, <3>2, OwnQuiet DEF DeleteTeam
  <2>2. CASE RestartLab(d) /\ DeleteReturn(d) /\ requeues' = requeues
    BY <2>2, <2>r DEF RestartLab
  <2>3. CASE RestartLab(d) /\ ~(DeleteReturn(d) /\ requeues' = requeues)
    <3> DEFINE t == dteam[d]
    <3>1. /\ requeues' = [requeues EXCEPT ![t] = @ + 1] /\ dpc' = [dpc EXCEPT ![d] = "find"]
          /\ UNCHANGED <<dteam, teams>> /\ dpc[d] = "restart" /\ t \in Teams
      BY <2>0, <2>3 DEF RestartLab, storeVars
    <3>2. requeues \in [1..MaxTeams -> Nat] /\ t \in 1..MaxTeams
      BY <1>t, <3>1 DEF TypeInv, TypeOK
    <3>3. SaveInv'
      BY <2>0, <3>1, <3>2 DEF OwnInv, SaveInv
    <3>4. \A u : u = t \/ Deleting(u) => Deleting(u)'
      BY <2>0, <3>1 DEF Deleting
    <3>5. DeletedInv'
      BY <2>0, <3>1, <3>2, <3>4 DEF OwnInv, DeletedInv, Teams
    <3> QED
      BY <3>3, <3>5 DEF OwnInv
  <2>4. CASE FindTeam(d) /\ dteam[d] \in teams
    <3>1. UNCHANGED <<dteam, requeues>> /\ dpc' = [dpc EXCEPT ![d] = "erase"] /\ dpc[d] = "find"
      BY <2>4 DEF FindTeam
    <3>2. \A u \in teams' : Deleting(u) => Deleting(u)'
      BY <2>0, <3>1 DEF Deleting
    <3> QED
      BY <2>0, <3>1, <3>2, OwnQuiet
  <2>5. CASE FindTeam(d) /\ dteam[d] \notin teams
    BY <2>0, <2>5, <2>r DEF FindTeam
  <2>6. CASE EraseTeam(d)
    BY <2>6, <2>r DEF EraseTeam
  <2>7. CASE EraseMissing(d)
    BY <1>d, <2>0, <2>7, OwnQuiet DEF EraseMissing, Panic, deleteVars
  <2> QED
    BY <1>4, <2>1, <2>2, <2>3, <2>4, <2>5, <2>6, <2>7 DEF Delete
<1>5. CASE MapRace \/ OfferLab \/ (\E l \in Labs : Requeue(l)) \/ UNCHANGED vars
  <2>1. UNCHANGED <<storeVars, labs, procVars, deleteVars>>
    BY <1>5 DEF MapRace, OfferLab, Requeue, Panic, vars, assignVars
  <2> QED
    BY <1>d, <2>1, OwnQuiet DEF storeVars, procVars, deleteVars
<1> QED
  BY <1>1, <1>2, <1>3, <1>4, <1>5 DEF Next

(* The places a lab can be in: with a goroutine before it is recorded, or  *)
(* claimed by a team that has not given a lab back.                        *)
Carrying == {"user", "rdp", "vpn", "record"}

Hand(p, l) == pc[p] \in Carrying /\ plab[p] = l

Claim(t, l) ==
    /\ requeues[t] = 0
    /\ \/ t \in DOMAIN labs /\ labs[t] = l
       \/ \E d \in Deleters : dpc[d] = "restart" /\ dteam[d] = t /\ dlab[d] = l

Kinds == {"queue", "returning", "hand", "team"}

In(k, l) ==
    \/ k = "queue" /\ InChan(queue, l)
    \/ k = "returning" /\ returning[l] > 0
    \/ k = "hand" /\ \E p \in Procs : Hand(p, l)
    \/ k = "team" /\ \E t \in Teams : Claim(t, l)

(* A lab is in one place at most, *)
OnePlace == \A l \in Labs : \A j, k \in Kinds : In(j, l) /\ In(k, l) => j = k

(* and once there. *)
OneOwner ==
    /\ Once(queue)
    /\ \A l \in Labs : returning[l] <= 1
    /\ \A l \in Labs : \A p, q \in Procs : Hand(p, l) /\ Hand(q, l) => p = q
    /\ \A l \in Labs : \A t, u \in Teams : Claim(t, l) /\ Claim(u, l) => t = u

(* No team has given back two labs. *)
BackOnce == \A t \in Teams : requeues[t] <= 1

LabInv == BackOnce => OnePlace /\ OneOwner

(* A step that moves one lab to the place b. *)
LEMMA PlaceMove ==
    ASSUME OnePlace, NEW l0 \in Labs, NEW b \in Kinds,
           \A l \in Labs, k \in Kinds : (l # l0 \/ k # b) /\ In(k, l)' => In(k, l),
           \A k \in Kinds : k # b => ~In(k, l0)'
    PROVE  OnePlace'
BY DEF OnePlace, Labs

(* A step that moves none, but may drop some. *)
LEMMA LabQuiet ==
    ASSUME TypeInv, OnePlace, OneOwner, UNCHANGED <<queue, returning>>,
           \A p \in Procs, l \in Labs : Hand(p, l)' => Hand(p, l),
           \A t \in Teams', l \in Labs : Claim(t, l)' => t \in Teams /\ Claim(t, l)
    PROVE  OnePlace' /\ OneOwner'
<1>1. \A l \in Labs, k \in Kinds : In(k, l)' => In(k, l)
  BY DEF In
<1>2. OnePlace'
  BY <1>1 DEF OnePlace, Labs
<1> QED
  BY <1>2 DEF OneOwner, Labs

(* Labs are claimed alike when only other variables change. *)
LEMMA ClaimSame ==
    ASSUME UNCHANGED <<labs, dpc, dteam, dlab, requeues>>, NEW t, NEW l
    PROVE  Claim(t, l)' <=> Claim(t, l)
BY DEF Claim

(* A goroutine receives a lab from the queue. *)
LEMMA LabTaken ==
    ASSUME TypeInv, OnePlace, OneOwner, NEW p \in Procs, NEW t, TakeLab(p, t),
           pc[p] \notin Carrying, UNCHANGED <<storeVars, assignVars, returning, deleteVars>>
    PROVE  OnePlace' /\ OneOwner'
<1>1. queue \in Seq(1..offered) /\ queue # <<>> /\ offered <= LabCount /\ offered \in Nat
  BY BoundsAssumption DEF TypeInv, TypeOK, TakeLab
<1>2. PICK l0 : l0 = Head(queue)
  OBVIOUS
<1>3. l0 \in 1..offered /\ l0 \in Labs
  BY <1>1, <1>2, ReceiveFacts, BoundsAssumption DEF Labs
<1>4. /\ InChan(queue, l0) /\ ~InChan(queue', l0) /\ Once(queue')
      /\ \A l : InChan(queue', l) => InChan(queue, l)
  <2>1. queue' = Tail(queue)
    BY DEF TakeLab
  <2> QED
    BY <1>1, <1>2, <2>1, InTail DEF OneOwner
<1>5. \A q \in Procs, l \in Labs : Hand(q, l)' => Hand(q, l) \/ (q = p /\ l = l0)
  BY <1>2 DEF Hand, TakeLab, TypeInv, TypeOK
<1>6. \A u, l : Claim(u, l)' <=> Claim(u, l)
  BY ClaimSame DEF assignVars, deleteVars
<1>7. Teams' = Teams /\ returning' = returning
  BY DEF Teams, storeVars
<1>8. \A l \in Labs, k \in Kinds : (l # l0 \/ k # "hand") /\ In(k, l)' => In(k, l)
  BY <1>4, <1>5, <1>6, <1>7 DEF In
<1>9. In("queue", l0)
  BY <1>4 DEF In
<1>10. \A k \in Kinds : k # "queue" => ~In(k, l0)
  BY <1>3, <1>9 DEF OnePlace, Kinds
<1>11. \A k \in Kinds : k # "hand" => ~In(k, l0)'
  <2>1. ~In("queue", l0)'
    BY <1>4 DEF In
  <2> QED
    BY <1>3, <1>8, <1>10, <2>1
<1>12. OnePlace'
  BY <1>3, <1>8, <1>11, PlaceMove DEF Kinds
<1>13. \A q \in Procs : ~Hand(q, l0)
  BY <1>10 DEF In, Kinds
<1>14. \A l \in Labs : \A q, r \in Procs : Hand(q, l)' /\ Hand(r, l)' => q = r
  BY <1>5, <1>13 DEF OneOwner
<1> QED
  BY <1>4, <1>6, <1>7, <1>12, <1>14 DEF OneOwner, Labs

(* AssignLab records the lab for the team. *)
LEMMA LabRecorded ==
    ASSUME TypeInv, OnePlace, OneOwner, NEW p \in Procs, RecordLab(p)
    PROVE  OnePlace' /\ OneOwner'
<1>1. PICK l0, t0 : l0 = plab[p] /\ t0 = pteam[p]
  OBVIOUS
<1>2. t0 \in Teams /\ l0 \in 1..offered /\ l0 \in Labs /\ Hand(p, l0)
  BY <1>1, BoundsAssumption
  DEF RecordLab, TypeInv, TypeOK, Hands, Busy, Holding, Hand, Carrying, Labs
<1>3. /\ DOMAIN labs' = DOMAIN labs \cup {t0} /\ labs'[t0] = l0
      /\ \A x \in DOMAIN labs : x # t0 => labs'[x] = labs[x]
  BY <1>1 DEF RecordLab, Put
<1>4. UNCHANGED <<queue, returning, teamName, dpc, dteam, dlab, requeues, plab>>
  BY DEF RecordLab, Goto, hubVars, storeVars, deleteVars
<1>5. \A q \in Procs, l \in Labs : Hand(q, l)' => Hand(q, l) /\ q # p
  BY <1>4 DEF RecordLab, Goto, Hand, Carrying, TypeInv, TypeOK
<1>6. \A u \in Teams, l \in Labs : Claim(u, l)' => Claim(u, l) \/ (u = t0 /\ l = l0)
  BY <1>3, <1>4 DEF Claim
<1>7. Teams' = Teams
  BY <1>4 DEF Teams
<1>8. \A l \in Labs, k \in Kinds : (l # l0 \/ k # "team") /\ In(k, l)' => In(k, l)
  BY <1>4, <1>5, <1>6, <1>7 DEF In
<1>9. In("hand", l0)
  BY <1>2 DEF In
<1>10. \A k \in Kinds : k # "hand" => ~In(k, l0)
  BY <1>2, <1>9 DEF OnePlace, Kinds
<1>11. \A k \in Kinds : k # "team" => ~In(k, l0)'
  <2>1. ~In("hand", l0)'
    BY <1>2, <1>5 DEF In, OneOwner
  <2> QED
    BY <1>2, <1>8, <1>10, <2>1
<1>12. OnePlace'
  BY <1>2, <1>8, <1>11, PlaceMove DEF Kinds
<1>13. \A u \in Teams : ~Claim(u, l0)
  BY <1>10 DEF In, Kinds
<1>14. \A l \in Labs : \A t, u \in Teams : Claim(t, l)' /\ Claim(u, l)' => t = u
  BY <1>6, <1>13 DEF OneOwner
<1> QED
  BY <1>4, <1>5, <1>7, <1>12, <1>14 DEF OneOwner, Labs

(* DeleteTeam hands the lab it read back to the hub. *)
LEMMA LabGivenBack ==
    ASSUME TypeInv, OnePlace, OneOwner, NEW d \in Deleters, RestartLab(d),
           returning' # returning, BackOnce'
    PROVE  OnePlace' /\ OneOwner'
<1>1. PICK l0, t0 : l0 = dlab[d] /\ t0 = dteam[d]
  OBVIOUS
<1>2. /\ returning' = [returning EXCEPT ![l0] = @ + 1] /\ dpc[d] = "restart"
      /\ requeues' = [requeues EXCEPT ![t0] = @ + 1] /\ dpc' = [dpc EXCEPT ![d] = "find"]
      /\ UNCHANGED <<dteam, dlab, labs, pc, plab, queue, teamName>>
  BY <1>1 DEF RestartLab, assignVars, procVars, storeVars
<1>3. /\ t0 \in Teams /\ t0 \in 1..MaxTeams /\ l0 \in 1..offered /\ l0 \in Labs
      /\ requeues \in [1..MaxTeams -> Nat] /\ returning \in [Labs -> Nat]
      /\ dpc \in [Deleters -> {"idle", "restart", "find", "erase"}]
      /\ \A t \in Teams : t \in 1..MaxTeams
  <2>1. t0 \in Teams /\ l0 \in 1..offered
    BY <1>1, <1>2 DEF TypeInv, Hands
  <2>2. 1..offered \subseteq Labs /\ Teams \subseteq 1..MaxTeams
    BY BoundsAssumption DEF TypeInv, TypeOK, Teams, Labs
  <2> QED
    BY <2>1, <2>2 DEF TypeInv, TypeOK
<1>4. Teams' = Teams
  BY <1>2 DEF Teams
<1>5. requeues[t0] = 0 /\ requeues'[t0] = 1
  BY <1>2, <1>3, <1>4 DEF BackOnce
<1>6. \A q \in Procs, l \in Labs : Hand(q, l)' <=> Hand(q, l)
  BY <1>2 DEF Hand
<1>7. \A u \in Teams, l \in Labs : Claim(u, l)' => Claim(u, l) /\ u # t0
  BY <1>2, <1>3, <1>5 DEF Claim
<1>8. Claim(t0, l0)
  BY <1>1, <1>2, <1>5 DEF Claim
<1>9. \A l \in Labs : returning'[l] = IF l = l0 THEN returning[l0] + 1 ELSE returning[l]
  BY <1>2, <1>3
<1>10. \A l \in Labs, k \in Kinds : (l # l0 \/ k # "returning") /\ In(k, l)' => In(k, l)
  BY <1>2, <1>4, <1>6, <1>7, <1>9 DEF In
<1>11. In("team", l0)
  BY <1>3, <1>8 DEF In
<1>12. \A k \in Kinds : k # "team" => ~In(k, l0)
  BY <1>3, <1>11 DEF OnePlace, Kinds
<1>13. \A k \in Kinds : k # "returning" => ~In(k, l0)'
  <2>1. ~In("team", l0)'
    BY <1>3, <1>4, <1>7, <1>8 DEF In, OneOwner
  <2> QED
    BY <1>3, <1>10, <1>12, <2>1
<1>14. OnePlace'
  BY <1>3, <1>10, <1>13, PlaceMove DEF Kinds
<1>15. returning[l0] = 0
  BY <1>3, <1>12 DEF In, Kinds
<1>16. \A l \in Labs : returning'[l] <= 1
  BY <1>3, <1>9, <1>15 DEF OneOwner
<1> QED
  BY <1>2, <1>4, <1>6, <1>7, <1>14, <1>16 DEF OneOwner, Labs

(* The hub offers a lab, for the first time or again. *)
LEMMA LabOffered ==
    ASSUME TypeInv, OnePlace, OneOwner, OfferLab \/ \E l \in Labs : Requeue(l)
    PROVE  OnePlace' /\ OneOwner'
<1>1. PICK l0 \in Labs : (OfferLab /\ l0 = offered + 1) \/ Requeue(l0)
  BY BoundsAssumption DEF OfferLab, Labs, TypeInv, TypeOK
<1>2. /\ queue' = Append(queue, l0)
      /\ UNCHANGED <<labs, pc, plab, teamName, dpc, dteam, dlab, requeues>>
  BY <1>1 DEF OfferLab, Requeue, storeVars, assignVars, procVars, deleteVars
<1>3. /\ queue \in Seq(Labs) /\ returning \in [Labs -> Nat] /\ offered \in Nat
      /\ offered <= LabCount
  <2>1. queue \in Seq(1..offered) /\ 1..offered \subseteq Labs
    BY BoundsAssumption DEF TypeInv, TypeOK, Labs
  <2> QED
    BY <2>1, BoundsAssumption DEF TypeInv, TypeOK
<1>4. Teams' = Teams
  BY <1>2 DEF Teams
<1>5. \A q \in Procs, l \in Labs : Hand(q, l)' <=> Hand(q, l)
  BY <1>2 DEF Hand
<1>6. \A u, l : Claim(u, l)' <=> Claim(u, l)
  BY <1>2, ClaimSame
<1>7. \A l \in Labs : /\ returning'[l] > 0 => returning[l] > 0 /\ l # l0
                      /\ returning'[l] <= 1
  <2>1. CASE OfferLab /\ l0 = offered + 1
    <3>1. returning' = returning /\ ~(returning[l0] > 0)
      BY <1>1, <1>3, <2>1 DEF OfferLab, TypeInv, Hands
    <3> QED
      BY <3>1 DEF OneOwner
  <2>2. CASE Requeue(l0)
    BY <1>1, <1>3, <2>2 DEF Requeue, OneOwner
  <2> QED
    BY <1>1, <2>1, <2>2
<1>8. ~InChan(queue, l0) /\ (\A q \in Procs : ~Hand(q, l0)) /\ \A u \in Teams : ~Claim(u, l0)
  <2>1. CASE OfferLab /\ l0 = offered + 1
    <3>1. l0 \notin 1..offered
      BY <1>3, <2>1
    <3>2. ~InChan(queue, l0)
      BY <3>1 DEF TypeInv, TypeOK, InChan
    <3>3. \A q \in Procs : ~Hand(q, l0)
      BY <3>1 DEF TypeInv, Hands, Hand, Carrying, Holding
    <3>4. \A u \in Teams : ~Claim(u, l0)
      BY <3>1 DEF TypeInv, TypeOK, Hands, Claim
    <3> QED
      BY <3>2, <3>3, <3>4
  <2>2. CASE Requeue(l0)
    <3>1. In("returning", l0)
      BY <2>2 DEF Requeue, In
    <3>2. \A k \in Kinds : k # "returning" => ~In(k, l0)
      BY <3>1 DEF OnePlace, Kinds
    <3> QED
      BY <3>2 DEF In, Kinds
  <2> QED
    BY <1>1, <2>1, <2>2
<1>9. /\ Once(queue') /\ \A l : l # l0 => (InChan(queue', l) <=> InChan(queue, l))
  BY <1>2, <1>3, <1>8, InAppend DEF OneOwner
<1>10. \A l \in Labs, k \in Kinds : (l # l0 \/ k # "queue") /\ In(k, l)' => In(k, l)
  BY <1>4, <1>5, <1>6, <1>7, <1>9 DEF In
<1>11. \A k \in Kinds : k # "queue" => ~In(k, l0)'
  BY <1>4, <1>5, <1>6, <1>7, <1>8 DEF In, Kinds
<1>12. OnePlace'
  BY <1>10, <1>11, PlaceMove DEF Kinds
<1> QED
  BY <1>4, <1>5, <1>6, <1>7, <1>9, <1>12 DEF OneOwner, Labs

(* At the start no lab is anywhere. *)
LEMMA LabInvInit == Init => LabInv
<1> SUFFICES ASSUME Init PROVE OnePlace /\ OneOwner
  BY DEF LabInv
<1>1. /\ queue = <<>> /\ returning = [l \in Labs |-> 0] /\ DOMAIN labs = {}
      /\ dpc = [d \in Deleters |-> "idle"]
      /\ pc = [p \in Procs |-> IF p = Boot THEN "guac" ELSE "idle"]
  BY DEF Init
<1>2. /\ \A l : ~InChan(queue, l)
      /\ \A p \in Procs, l \in Labs : ~Hand(p, l)
      /\ \A t, l : ~Claim(t, l)
  BY <1>1 DEF InChan, Hand, Claim, Carrying
<1>3. Once(queue)
  BY <1>1 DEF Once
<1> QED
  BY <1>1, <1>2, <1>3 DEF OnePlace, OneOwner, In

(* Every step keeps LabInv. *)
LEMMA LabInvStep ==
    ASSUME TypeInv, LabInv, [Next]_vars
    PROVE  LabInv'
<1>b. BackOnce' => BackOnce
  <2> SUFFICES ASSUME BackOnce', NEW t \in Teams PROVE requeues[t] <= 1
    BY DEF BackOnce
  <2>1. Teams \subseteq Teams'
    <3>1. CASE \E r \in Requests, n \in Names : Signup(r, n)
      BY <3>1, SignupTypes DEF Procs
    <3>2. CASE ~\E r \in Requests, n \in Names : Signup(r, n)
      BY <3>2 DEF Next, Request, SaveTeam, Connect, Reghook, Start, BootTeams, BootNext,
        AssignLab, CreateUser, CreateRDPConn, CreateVPNConn, RecordLab, CorrectedAssignedLab,
        MapRace, Panic, Delete, DeleteTeam, RestartLab, FindTeam, EraseTeam, EraseMissing,
        OfferLab, Requeue, vars, storeVars, Teams
    <3> QED
      BY <3>1, <3>2
  <2>2. requeues \in [1..MaxTeams -> Nat] /\ t \in 1..MaxTeams
    BY BoundsAssumption DEF TypeInv, TypeOK, Teams
  <2>3. requeues'[t] <= 1
    BY <2>1 DEF BackOnce
  <2>4. CASE requeues' = requeues
    BY <2>3, <2>4
  <2>5. ASSUME NEW d \in Deleters, RestartLab(d) PROVE requeues[t] <= 1
    <3>1. CASE requeues' = [requeues EXCEPT ![dteam[d]] = @ + 1]
      <4>1. requeues'[t] = IF t = dteam[d] THEN requeues[t] + 1 ELSE requeues[t]
        BY <2>2, <3>1
      <4>2. requeues[t] \in Nat
        BY <2>2
      <4> QED
        BY <2>3, <4>1, <4>2
    <3> QED
      BY <2>4, <2>5, <3>1 DEF RestartLab
  <2>6. CASE \A d \in Deleters : ~RestartLab(d)
    <3>1. requeues' = requeues
      BY <2>6 DEF Next, Request, Signup, SaveTeam, Connect, Reghook, Start, BootTeams, BootNext,
        AssignLab, CreateUser, CreateRDPConn, CreateVPNConn, RecordLab, CorrectedAssignedLab,
        MapRace, Panic, Delete, DeleteTeam, FindTeam, EraseTeam, EraseMissing,
        OfferLab, Requeue, vars, deleteVars
    <3> QED
      BY <2>4, <3>1
  <2> QED
    BY <2>5, <2>6
<1> DEFINE Goal == OnePlace' /\ OneOwner'
<1> SUFFICES ASSUME BackOnce', OnePlace, OneOwner PROVE Goal
  BY <1>b DEF LabInv
<1> HIDE DEF Goal
<1>t. pc \in [Procs -> PCs] /\ plab \in [Procs -> 0..offered]
  BY DEF TypeInv, TypeOK
<1>q. ASSUME UNCHANGED <<queue, returning, labs, deleteVars, teamName>>,
             \A p \in Procs, l \in Labs : Hand(p, l)' => Hand(p, l)
      PROVE  Goal
  <2>1. \A t, l : Claim(t, l)' <=> Claim(t, l)
    BY <1>q, ClaimSame DEF deleteVars
  <2>2. Teams' = Teams
    BY <1>q DEF Teams
  <2> QED
    BY <1>q, <2>1, <2>2, LabQuiet DEF Goal
<1>k. ASSUME NEW p \in Procs, Return(p) PROVE \A q \in Procs, l \in Labs : Hand(q, l)' => Hand(q, l)
  BY <1>k, <1>t DEF Return, Hand, Carrying
<1>g. ASSUME NEW p \in Procs, NEW w, Goto(p, w), pc[p] \in Carrying \/ w \notin Carrying
      PROVE \A q \in Procs, l \in Labs : Hand(q, l)' => Hand(q, l)
  BY <1>g, <1>t DEF Goto, Hand
<1>e. {"save", "hook", "boot", "guac", "idle", "flag"} \cap Carrying = {}
      /\ {"user", "rdp", "vpn", "record"} \subseteq Carrying
  BY DEF Carrying
<1>1. ASSUME NEW r \in Requests, Request(r) PROVE Goal
  <2>0. r \in Procs
    BY DEF Procs
  <2>1. ASSUME NEW n \in Names, Signup(r, n) PROVE Goal
    <3>1. UNCHANGED <<queue, returning, labs, dpc, dteam, dlab, requeues>>
      BY <2>1 DEF Signup, assignVars, hubVars, deleteVars
    <3>2. \A t, l : Claim(t, l)' <=> Claim(t, l)
      BY <3>1, ClaimSame
    <3>3. \A t, l : Claim(t, l) => t \in Teams
      BY DEF Claim, TypeInv, TypeOK, Hands
    <3>4. \A q \in Procs, l \in Labs : Hand(q, l)' => Hand(q, l)
      BY <1>e, <1>t, <2>1 DEF Signup, Hand
    <3> QED
      BY <3>1, <3>2, <3>3, <3>4, LabQuiet DEF Goal
  <2>2. CASE SaveTeam(r)
    <3>1. UNCHANGED <<queue, returning, labs, deleteVars, teamName>>
          /\ (Return(r) \/ Goto(r, "hook"))
      BY <2>2 DEF SaveTeam, assignVars, hubVars
    <3> QED
      BY <1>e, <1>g, <1>k, <1>q, <2>0, <3>1
  <2>3. ASSUME NEW t \in Teams, Connect(r, t) PROVE Goal
    <3>1. \A q \in Procs, l \in Labs : Hand(q, l)' => Hand(q, l)
      BY <1>e, <1>t, <2>3 DEF Connect, Hand
    <3> QED
      BY <1>q, <2>3, <3>1 DEF Connect, storeVars, assignVars, hubVars
  <2>4. CASE Reghook(r)
    <3>1. pc[r] \notin Carrying /\ UNCHANGED <<storeVars, assignVars, returning, deleteVars>>
      BY <1>e, <2>4 DEF Reghook
    <3>2. CASE TakeLab(r, pteam[r])
      BY <2>0, <3>1, <3>2, LabTaken DEF Goal
    <3>3. CASE Return(r) /\ UNCHANGED queue
      BY <1>k, <1>q, <2>0, <3>1, <3>3 DEF storeVars, assignVars
    <3> QED
      BY <2>4, <3>2, <3>3 DEF Reghook
  <2> QED
    BY <1>1, <2>1, <2>2, <2>3, <2>4 DEF Request
<1>2. CASE Start
  <2>0. /\ Boot \in Procs /\ UNCHANGED <<storeVars, assignVars, returning, deleteVars>>
        /\ pc[Boot] \notin Carrying
    BY <1>2, <1>e DEF Procs, Start, BootTeams, BootNext, hubVars
  <2>1. CASE Return(Boot) /\ UNCHANGED queue
    BY <1>k, <1>q, <2>0, <2>1 DEF storeVars, assignVars
  <2>2. CASE BootTeams /\ ~Return(Boot)
    <3>1. \A q \in Procs, l \in Labs : Hand(q, l)' => Hand(q, l)
      BY <1>e, <1>t, <2>2 DEF BootTeams, Hand
    <3> QED
      BY <1>q, <2>0, <2>2, <3>1 DEF BootTeams, storeVars, assignVars, hubVars
  <2>3. ASSUME NEW t \in todo, TakeLab(Boot, t) PROVE Goal
    BY <2>0, <2>3, LabTaken DEF Goal
  <2> QED
    BY <1>2, <2>1, <2>2, <2>3 DEF Start, BootTeams, BootNext, hubVars
<1>3. ASSUME NEW p \in Procs, AssignLab(p) PROVE Goal
  <2>1. UNCHANGED <<storeVars, hubVars, deleteVars>>
    BY <1>3 DEF AssignLab, CreateUser, CreateRDPConn, CreateVPNConn, RecordLab,
      CorrectedAssignedLab
  <2>2. CASE RecordLab(p)
    BY <2>2, LabRecorded DEF Goal
  <2>3. CASE ~RecordLab(p)
    <3>1. labs' = labs
      BY <1>3, <2>3 DEF AssignLab, CreateUser, CreateRDPConn, CreateVPNConn, CorrectedAssignedLab
    <3>2. CASE CorrectedAssignedLab(p)
      <4>1. \A q \in Procs, l \in Labs : Hand(q, l)' => Hand(q, l)
        BY <1>e, <1>t, <3>2 DEF CorrectedAssignedLab, Hand
      <4> QED
        BY <1>q, <2>1, <3>1, <4>1 DEF storeVars, hubVars
    <3>3. CASE ~CorrectedAssignedLab(p)
      <4>1. pc[p] \in Carrying
        BY <1>3, <1>e, <2>3, <3>3 DEF AssignLab, CreateUser, CreateRDPConn, CreateVPNConn
      <4>2. Return(p) \/ Goto(p, "rdp") \/ Goto(p, "vpn") \/ Goto(p, "record")
        BY <1>3, <2>3, <3>3 DEF AssignLab, CreateUser, CreateRDPConn, CreateVPNConn, GuacCall
      <4> QED
        BY <1>g, <1>k, <1>q, <2>1, <3>1, <4>1, <4>2 DEF storeVars, hubVars
    <3> QED
      BY <3>2, <3>3
  <2> QED
    BY <2>2, <2>3
<1>4. ASSUME NEW d \in Deleters, Delete(d) PROVE Goal
  <2>0. /\ UNCHANGED <<teamName, labs, pc, plab, queue>> /\ Teams' = Teams
        /\ dpc \in [Deleters -> {"idle", "restart", "find", "erase"}]
        /\ dteam \in [Deleters -> Teams \cup {0}] /\ dlab \in [Deleters -> 0..offered]
    BY <1>4 DEF Delete, DeleteTeam, RestartLab, FindTeam, EraseTeam, EraseMissing, Panic,
      storeVars, procVars, assignVars, hubVars, TypeInv, TypeOK, Teams
  <2>h. \A q \in Procs, l \in Labs : Hand(q, l)' => Hand(q, l)
    BY <2>0 DEF Hand
  <2>c. ASSUME UNCHANGED <<returning, requeues>>,
               \A t \in Teams, l \in Labs : Claim(t, l)' => Claim(t, l)
        PROVE  Goal
    BY <2>0, <2>c, <2>h, LabQuiet DEF Goal
  <2>m. ASSUME UNCHANGED <<returning, requeues>>, NEW w, w # "restart",
               dpc' = [dpc EXCEPT ![d] = w],
               \A e \in Deleters : e # d => dteam'[e] = dteam[e] /\ dlab'[e] = dlab[e]
        PROVE  Goal
    <3>1. \A t \in Teams, l \in Labs : Claim(t, l)' => Claim(t, l)
      BY <2>0, <2>m DEF Claim
    <3> QED
      BY <2>c, <2>m, <3>1
  <2>r. ASSUME DeleteReturn(d), UNCHANGED <<returning, requeues>> PROVE Goal
    <3>1. \A e \in Deleters : e # d => dteam'[e] = dteam[e] /\ dlab'[e] = dlab[e]
      BY <2>0, <2>r DEF DeleteReturn
    <3> QED
      BY <2>m, <2>r, <3>1 DEF DeleteReturn
  <2>1. ASSUME NEW t \in Teams, DeleteTeam(d, t) PROVE Goal
    <3>1. /\ UNCHANGED <<returning, requeues>> /\ t \in DOMAIN labs
          /\ dpc' = [dpc EXCEPT ![d] = "restart"] /\ dteam' = [dteam EXCEPT ![d] = t]
          /\ dlab' = [dlab EXCEPT ![d] = labs[t]]
      BY <2>1 DEF DeleteTeam, hubVars
    <3>2. \A u \in Teams, l \in Labs : Claim(u, l)' => Claim(u, l)
      BY <2>0, <3>1 DEF Claim
    <3> QED
      BY <2>c, <3>1, <3>2
  <2>2. CASE RestartLab(d)
    <3>1. CASE DeleteReturn(d) /\ UNCHANGED <<returning, requeues>>
      BY <2>r, <3>1
    <3>2. CASE returning' # returning
      BY <2>2, <3>2, LabGivenBack DEF Goal
    <3>3. ASSUME returning' = [returning EXCEPT ![dlab[d]] = @ + 1] PROVE returning' # returning
      <4>1. returning \in [Labs -> Nat] /\ dlab[d] \in Labs
        BY <2>2, BoundsAssumption DEF RestartLab, TypeInv, TypeOK, Hands, Labs
      <4>2. returning'[dlab[d]] = returning[dlab[d]] + 1 /\ returning[dlab[d]] \in Nat
        BY <3>3, <4>1
      <4> QED
        BY <4>2
    <3> QED
      BY <2>2, <3>1, <3>2, <3>3 DEF RestartLab
  <2>3. CASE FindTeam(d)
    BY <2>3, <2>m, <2>r DEF FindTeam, hubVars
  <2>4. CASE EraseTeam(d)
    BY <2>4, <2>r DEF EraseTeam, hubVars
  <2>5. CASE EraseMissing(d)
    BY <1>q, <2>0, <2>5, <2>h DEF EraseMissing, Panic, hubVars
  <2> QED
    BY <1>4, <2>1, <2>2, <2>3, <2>4, <2>5 DEF Delete
<1>5. CASE OfferLab \/ \E l \in Labs : Requeue(l)
  BY <1>5, LabOffered DEF Goal
<1>6. CASE MapRace \/ UNCHANGED vars
  <2>1. UNCHANGED <<storeVars, assignVars, hubVars, procVars, deleteVars>>
    BY <1>6 DEF MapRace, Panic, vars
  <2>2. \A q \in Procs, l \in Labs : Hand(q, l)' => Hand(q, l)
    BY <2>1 DEF Hand, procVars
  <2> QED
    BY <1>q, <2>1, <2>2 DEF storeVars, assignVars, hubVars
<1> QED
  BY <1>1, <1>2, <1>3, <1>4, <1>5, <1>6 DEF Next

(* For any number of teams, requests, labs and deletions: while no team    *)
(* has given back two labs, a lab is with the hub, on its way back, in the *)
(* hands of one AssignLab call or with one team.                           *)
THEOREM LabInvariant == Spec => [](OwnInv /\ LabInv)
<1>1. TypeInv /\ OwnInv /\ [Next]_vars => OwnInv'
  BY OwnInvStep
<1>2. TypeInv /\ LabInv /\ [Next]_vars => LabInv'
  BY LabInvStep
<1> QED
  BY <1>1, <1>2, OwnInvInit, LabInvInit, TypeCorrect, PTL DEF Spec

(* No two stored teams work in the same lab, but for the two exceptions    *)
(* the code makes (event.go, AssignLab; daemon/team.go, DeleteTeam).       *)
THEOREM LabsExclusive == Spec => []ExclusiveLabs
<1>1. TypeInv /\ OwnInv /\ LabInv => ExclusiveLabs
  <2> SUFFICES ASSUME TypeInv, OwnInv, LabInv, BackOnce,
                      NEW t \in teams \cap DOMAIN labs, NEW u \in teams \cap DOMAIN labs,
                      t # u, labs[t] = labs[u], ~Deleting(t), ~Deleting(u)
               PROVE  FALSE
    BY DEF ExclusiveLabs, BackOnce
  <2>1. /\ t \in Teams /\ u \in Teams /\ t \in 1..MaxTeams /\ u \in 1..MaxTeams
        /\ requeues \in [1..MaxTeams -> Nat]
    BY BoundsAssumption DEF TypeInv, TypeOK, Teams
  <2>2. requeues[t] = 0 /\ requeues[u] = 0
    BY <2>1 DEF OwnInv, DeletedInv
  <2>3. labs[t] \in Labs
    BY BoundsAssumption DEF TypeInv, TypeOK, Labs
  <2>4. Claim(t, labs[t]) /\ Claim(u, labs[t])
    BY <2>2 DEF Claim
  <2> QED
    BY <2>1, <2>3, <2>4 DEF LabInv, OneOwner
<1> QED
  BY <1>1, TypeCorrect, LabInvariant, PTL

=============================================================================
