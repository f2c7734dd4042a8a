------------------------------ MODULE TeamLabs ------------------------------
(***************************************************************************)
(* How the teams of one event get their labs.  Four kinds of goroutines    *)
(* meet here without a common lock: sign-ups (amigo.go, handleSignupPOST), *)
(* requests of logged-in teams that have no lab yet (handleGuacConnection, *)
(* handleVPNStatus), the goroutine that hands labs to the teams stored in  *)
(* the database after a restart (event.go, Start, which startEvent runs    *)
(* with `go` while the event is already served), and the operator's        *)
(* DeleteTeam calls (daemon/team.go).                                      *)
(*                                                                         *)
(* Teams are numbered as NewTeam makes them; names may come back after a   *)
(* deletion.  The hub is reduced to the labs it offers on its queue (see   *)
(* Hub).  A call to Guacamole may be carried out or not and, independently *)
(* of it, be reported as done or failed: authAction retries three times    *)
(* and then ignores the status of the last answer, so nil proves nothing,  *)
(* and an answer may be lost after the work was done.                      *)
(***************************************************************************)
EXTENDS Integers, Sequences, FiniteSets

CONSTANTS
    Names,       \* team names
    Requests,    \* goroutines serving HTTP requests
    Boot,        \* the goroutine that runs event.Start
    Deleters,    \* goroutines serving the operator's DeleteTeam
    Modes,       \* the values OnlyVPN may have: NoVPN, VPN, VPNBrowser
    Capacity,    \* the capacity of the event
    LabCount,    \* bound: labs the hub offers
    Stored,      \* bound: teams found in the database
    MaxTeams,    \* bound: teams ever made
    MaxDeletes   \* bound: DeleteTeam calls that find a lab

ASSUME BootAssumption == Boot \notin Requests
ASSUME ModesAssumption == Modes \subseteq {"NoVPN", "VPN", "VPNBrowser"}
ASSUME BoundsAssumption == /\ Capacity \in Nat
                           /\ LabCount \in Nat
                           /\ Stored \in 0..MaxTeams
                           /\ MaxTeams \in Nat
                           /\ MaxDeletes \in Nat

Procs == Requests \cup {Boot}

VARIABLES
    mode,        \* OnlyVPN of the event
    loaded,      \* number of teams found in the database
    teamName,    \* the name of every team made so far
    names,       \* teamstore.names: name -> team
    teams,       \* the keys of teamstore.teams
    assigned,    \* the teams whose isLabAssigned is set
    labs,        \* ev.labs: team -> lab
    users,       \* the users Guacamole knows
    rdp,         \* team -> the lab its RDP connection leads to
    vpn,         \* team -> the lab its VPN configuration leads to
    queue,       \* the labs the hub offers
    offered,     \* number of labs the hub has offered first
    returning,   \* lab -> number of Update goroutines that carry it back
    pc,          \* where each goroutine that assigns labs is
    pteam,       \* the team it works for, 0 for none
    plab,        \* the lab in its hands, 0 for none
    todo,        \* the teams event.Start still has to serve
    dpc,         \* where each DeleteTeam call is
    dteam,       \* the team it deletes, 0 for none
    dlab,        \* the lab it found for the team, 0 for none
    deletes,     \* number of DeleteTeam calls that found a lab
    requeues,    \* team -> number of calls that handed its lab back
    swallowed,   \* Guacamole did not do what a nil error reported
    panicked     \* the daemon has died of a panic

storeVars == <<mode, loaded, teamName, names, teams>>
assignVars == <<assigned, labs, users, rdp, vpn, swallowed>>
hubVars == <<queue, offered, returning>>
procVars == <<pc, pteam, plab, todo>>
deleteVars == <<dpc, dteam, dlab, deletes, requeues>>
vars == <<storeVars, assignVars, hubVars, procVars, deleteVars, panicked>>

Teams == 1..Len(teamName)
Labs == 1..LabCount

Put(f, k, v) == [x \in DOMAIN f \cup {k} |-> IF x = k THEN v ELSE f[x]]
Without(f, k) == [x \in DOMAIN f \ {k} |-> f[x]]

(* NewEventStore fills the team store from the rows of the database; no    *)
(* team has a lab and the Guacamole containers are new.  Nothing makes the *)
(* rows' names distinct: teamstore.DeleteTeam erases the team in memory    *)
(* also when the database fails, so its name can be taken again and both   *)
(* rows be found after a restart.  The last row loaded keeps the name.     *)
Init ==
    /\ mode \in Modes
    /\ loaded \in 0..Stored
    /\ teamName \in [1..loaded -> Names]
    /\ teams = Teams
    /\ names \in [{teamName[t] : t \in Teams} -> Teams]
    /\ \A n \in DOMAIN names : teamName[names[n]] = n
    /\ assigned = {}
    /\ labs = [t \in {} |-> 0]
    /\ users = {}
    /\ rdp = [t \in {} |-> 0]
    /\ vpn = [t \in {} |-> 0]
    /\ queue = <<>>
    /\ offered = 0
    /\ returning = [l \in Labs |-> 0]
    /\ pc = [p \in Procs |-> IF p = Boot THEN "guac" ELSE "idle"]
    /\ pteam = [p \in Procs |-> 0]
    /\ plab = [p \in Procs |-> 0]
    /\ todo = {}
    /\ dpc = [d \in Deleters |-> "idle"]
    /\ dteam = [d \in Deleters |-> 0]
    /\ dlab = [d \in Deleters |-> 0]
    /\ deletes = 0
    /\ requeues = [t \in 1..MaxTeams |-> 0]
    /\ swallowed = FALSE
    /\ panicked = FALSE

Panic ==
    /\ panicked' = TRUE
    /\ UNCHANGED <<storeVars, assignVars, hubVars, procVars, deleteVars>>

(* The goroutine returns; what it had in its hands is garbage. *)
Return(p) ==
    /\ pc' = [pc EXCEPT ![p] = "idle"]
    /\ pteam' = [pteam EXCEPT ![p] = 0]
    /\ plab' = [plab EXCEPT ![p] = 0]
    /\ UNCHANGED todo

Goto(p, where) ==
    /\ pc' = [pc EXCEPT ![p] = where]
    /\ UNCHANGED <<pteam, plab, todo>>

-----------------------------------------------------------------------------
(* Sign-up and requests. *)

(* The capacity is compared with the number of saved teams, then the team  *)
(* is made.  It is saved later, under the lock of the team store.          *)
Signup(r, n) ==
    /\ pc[r] = "idle"
    /\ Cardinality(teams) # Capacity
    /\ Len(teamName) < MaxTeams
    /\ teamName' = Append(teamName, n)
    /\ pc' = [pc EXCEPT ![r] = "save"]
    /\ pteam' = [pteam EXCEPT ![r] = Len(teamName) + 1]
    /\ UNCHANGED <<mode, loaded, names, teams, assignVars, hubVars, plab, todo,
                   deleteVars, panicked>>

(* Mutation: the team is stored before it was given its id. *)
SaveTeamNoId(r) ==
    /\ pc[r] = "save"
    /\ teamName[pteam[r]] \notin DOMAIN names
    /\ names' = Put(names, teamName[pteam[r]], 0)
    /\ teams' = teams \cup {0}
    /\ Goto(r, "hook")
    /\ UNCHANGED <<mode, loaded, teamName, assignVars, hubVars, deleteVars, panicked>>

(* SaveTeam: the database is called last, and its error leaves the team in *)
(* memory.  The hook runs only if the team was stored and logged in.       *)
SaveTeam(r) ==
    /\ pc[r] = "save"
    /\ \/ /\ teamName[pteam[r]] \in DOMAIN names
          /\ Return(r)
          /\ UNCHANGED <<names, teams>>
       \/ /\ teamName[pteam[r]] \notin DOMAIN names
          /\ names' = Put(names, teamName[pteam[r]], pteam[r])
          /\ teams' = teams \cup {pteam[r]}
          /\ Return(r) \/ Goto(r, "hook")
    /\ UNCHANGED <<mode, loaded, teamName, assignVars, hubVars, deleteVars, panicked>>

(* A logged-in team opens its lab: the team is looked up and the flag read *)
(* once, before the hook is called.                                        *)
Connect(r, t) ==
    /\ pc[r] = "idle"
    /\ t \in teams
    /\ t \notin assigned
    /\ pc' = [pc EXCEPT ![r] = "hook"]
    /\ pteam' = [pteam EXCEPT ![r] = t]
    /\ UNCHANGED <<storeVars, assignVars, hubVars, plab, todo, deleteVars,
                   panicked>>

(* Mutation: VPNBrowser is treated as VPN. *)
FirstStepVPN == IF mode = "NoVPN" THEN "user" ELSE "vpn"

(* AssignLab: with NoVPN and VPNBrowser the Guacamole connection is made   *)
(* first.                                                                  *)
FirstStep == IF mode = "VPN" THEN "vpn" ELSE "user"

TakeLab(p, t) ==
    /\ queue # <<>>
    /\ queue' = Tail(queue)
    /\ pc' = [pc EXCEPT ![p] = FirstStep]
    /\ pteam' = [pteam EXCEPT ![p] = t]
    /\ plab' = [plab EXCEPT ![p] = Head(queue)]

(* reghook: a receive that does not wait. *)
Reghook(r) ==
    /\ pc[r] = "hook"
    /\ \/ TakeLab(r, pteam[r]) /\ UNCHANGED todo
       \/ queue = <<>> /\ Return(r) /\ UNCHANGED queue
    /\ UNCHANGED <<storeVars, assignVars, offered, returning, deleteVars,
                   panicked>>

(* Start: once Guacamole runs, the teams of that moment are listed; if it  *)
(* does not start, Start returns.                                          *)
BootTeams ==
    /\ pc[Boot] = "guac"
    /\ \/ /\ pc' = [pc EXCEPT ![Boot] = "boot"]
          /\ todo' = teams
          /\ UNCHANGED <<pteam, plab>>
       \/ Return(Boot)
    /\ UNCHANGED <<storeVars, assignVars, hubVars, deleteVars, panicked>>

(* Start: the next team waits for a lab, whether or not it has one. *)
BootNext ==
    /\ pc[Boot] = "boot"
    /\ \/ /\ todo = {}
          /\ Return(Boot)
          /\ UNCHANGED queue
       \/ \E t \in todo : TakeLab(Boot, t) /\ todo' = todo \ {t}
    /\ UNCHANGED <<storeVars, assignVars, offered, returning, deleteVars,
                   panicked>>

-----------------------------------------------------------------------------
(* AssignLab. *)

(* A Guacamole call of p: done says whether the server did it, ok whether  *)
(* authAction returned nil, after which p goes on at where.                *)
GuacCall(p, done, ok, where) ==
    /\ swallowed' = (swallowed \/ (ok /\ ~done))
    /\ IF ok THEN Goto(p, where) ELSE Return(p)

(* createGuacConn: a lab without RDP port, or no user. *)
CreateUser(p) ==
    /\ pc[p] = "user"
    /\ \E done, ok \in BOOLEAN :
         /\ done => teamName[pteam[p]] \notin users
         /\ users' = IF done THEN users \cup {teamName[pteam[p]]} ELSE users
         /\ GuacCall(p, done, ok, "rdp")
    /\ UNCHANGED <<storeVars, assigned, labs, rdp, vpn, hubVars, deleteVars,
                   panicked>>

(* createGuacConn: the RDP connection, whose name is made of the team's id *)
(* and which the server accepts once.                                      *)
CreateRDPConn(p) ==
    /\ pc[p] = "rdp"
    /\ \E done, ok \in BOOLEAN :
         /\ done => pteam[p] \notin DOMAIN rdp
         /\ rdp' = IF done THEN Put(rdp, pteam[p], plab[p]) ELSE rdp
         /\ GuacCall(p, done, ok,
                     IF mode = "VPNBrowser" THEN "vpn" ELSE "record")
    /\ UNCHANGED <<storeVars, assigned, labs, users, vpn, hubVars, deleteVars,
                   panicked>>

(* Mutation: an error of CreateVPNConn is only logged. *)
CreateVPNConnLogged(p) ==
    /\ pc[p] = "vpn"
    /\ Goto(p, "record")
    /\ UNCHANGED vpn \/ vpn' = Put(vpn, pteam[p], plab[p])
    /\ UNCHANGED <<storeVars, assigned, labs, users, rdp, swallowed, hubVars,
                   deleteVars, panicked>>

CreateVPNConn(p) ==
    /\ pc[p] = "vpn"
    /\ \/ Return(p) /\ UNCHANGED vpn
       \/ /\ vpn' = Put(vpn, pteam[p], plab[p])
          /\ Goto(p, "record")
    /\ UNCHANGED <<storeVars, assigned, labs, users, rdp, swallowed, hubVars,
                   deleteVars, panicked>>

(* ev.labs[t.ID()] = lab *)
RecordLab(p) ==
    /\ pc[p] = "record"
    /\ labs' = Put(labs, pteam[p], plab[p])
    /\ Goto(p, "flag")
    /\ UNCHANGED <<storeVars, assigned, users, rdp, vpn, swallowed, hubVars,
                   deleteVars, panicked>>

(* CorrectedAssignedLab; Start goes on with its next team. *)
CorrectedAssignedLab(p) ==
    /\ pc[p] = "flag"
    /\ assigned' = assigned \cup {pteam[p]}
    /\ pc' = [pc EXCEPT ![p] = IF p = Boot THEN "boot" ELSE "idle"]
    /\ pteam' = [pteam EXCEPT ![p] = 0]
    /\ plab' = [plab EXCEPT ![p] = 0]
    /\ UNCHANGED <<storeVars, labs, users, rdp, vpn, swallowed, hubVars, todo,
                   deleteVars, panicked>>

(* ev.labs and ev.ipRules are maps without a lock: the runtime ends the    *)
(* process when it sees two of their accesses overlap.                     *)
MapRace ==
    /\ \E p, q \in Procs : /\ p # q
                           /\ pc[p] = pc[q]
                           /\ pc[p] \in {"vpn", "record"}
    /\ Panic

-----------------------------------------------------------------------------
(* DeleteTeam and the hub. *)

DeleteReturn(d) ==
    /\ dpc' = [dpc EXCEPT ![d] = "idle"]
    /\ dteam' = [dteam EXCEPT ![d] = 0]
    /\ dlab' = [dlab EXCEPT ![d] = 0]

(* GetLabByTeam: entries of ev.labs are never removed, so a team that is   *)
(* gone is still found.                                                    *)
DeleteTeam(d, t) ==
    /\ dpc[d] = "idle"
    /\ t \in DOMAIN labs
    /\ deletes < MaxDeletes
    /\ deletes' = deletes + 1
    /\ dpc' = [dpc EXCEPT ![d] = "restart"]
    /\ dteam' = [dteam EXCEPT ![d] = t]
    /\ dlab' = [dlab EXCEPT ![d] = labs[t]]
    /\ UNCHANGED <<storeVars, assignVars, hubVars, procVars, requeues,
                   panicked>>

(* Mutation: the lab is handed back even if it did not restart. *)
RestartIgnored(d) ==
    /\ dpc[d] = "restart"
    /\ returning' = [returning EXCEPT ![dlab[d]] = @ + 1]
    /\ requeues' = [requeues EXCEPT ![dteam[d]] = @ + 1]
    /\ \/ DeleteReturn(d)
       \/ dpc' = [dpc EXCEPT ![d] = "find"] /\ UNCHANGED <<dteam, dlab>>
    /\ UNCHANGED <<storeVars, assignVars, queue, offered, procVars, deletes,
                   panicked>>

(* tLab.Restart; on success lh.Update carries the lab back in a goroutine  *)
(* of its own, before the team is deleted.                                 *)
RestartLab(d) ==
    /\ dpc[d] = "restart"
    /\ \/ /\ DeleteReturn(d)
          /\ UNCHANGED <<returning, requeues>>
       \/ /\ returning' = [returning EXCEPT ![dlab[d]] = @ + 1]
          /\ requeues' = [requeues EXCEPT ![dteam[d]] = @ + 1]
          /\ dpc' = [dpc EXCEPT ![d] = "find"]
          /\ UNCHANGED <<dteam, dlab>>
    /\ UNCHANGED <<storeVars, assignVars, queue, offered, procVars, deletes,
                   panicked>>

(* ev.DeleteTeam looks the team up under a read lock it then gives back. *)
FindTeam(d) ==
    /\ dpc[d] = "find"
    /\ IF dteam[d] \in teams
       THEN dpc' = [dpc EXCEPT ![d] = "erase"] /\ UNCHANGED <<dteam, dlab>>
       ELSE DeleteReturn(d)
    /\ UNCHANGED <<storeVars, assignVars, hubVars, procVars, deletes, requeues,
                   panicked>>

(* Mutation: the name stays reserved. *)
EraseTeamOnly(d) ==
    /\ dpc[d] = "erase"
    /\ dteam[d] \in teams
    /\ teams' = teams \ {dteam[d]}
    /\ DeleteReturn(d)
    /\ UNCHANGED <<mode, loaded, teamName, names, assignVars, hubVars, procVars,
                   deletes, requeues, panicked>>

(* teamstore.DeleteTeam; an error of the database changes nothing here. *)
EraseTeam(d) ==
    /\ dpc[d] = "erase"
    /\ dteam[d] \in teams
    /\ names' = Without(names, teamName[dteam[d]])
    /\ teams' = teams \ {dteam[d]}
    /\ DeleteReturn(d)
    /\ UNCHANGED <<mode, loaded, teamName, assignVars, hubVars, procVars, deletes,
                   requeues, panicked>>

(* teamstore.DeleteTeam asks a team that is no longer there for its name. *)
EraseMissing(d) ==
    /\ dpc[d] = "erase"
    /\ dteam[d] \notin teams
    /\ Panic

(* The hub offers a new lab, and offers a deallocated one again. *)
OfferLab ==
    /\ offered < LabCount
    /\ offered' = offered + 1
    /\ queue' = Append(queue, offered + 1)
    /\ UNCHANGED <<storeVars, assignVars, returning, procVars, deleteVars,
                   panicked>>

(* Mutation: the goroutine sends the lab again. *)
RequeueAgain(l) ==
    /\ returning[l] > 0
    /\ Len(queue) < LabCount
    /\ queue' = Append(queue, l)
    /\ UNCHANGED <<storeVars, assignVars, offered, returning, procVars,
                   deleteVars, panicked>>

Requeue(l) ==
    /\ returning[l] > 0
    /\ returning' = [returning EXCEPT ![l] = @ - 1]
    /\ queue' = Append(queue, l)
    /\ UNCHANGED <<storeVars, assignVars, offered, procVars, deleteVars,
                   panicked>>

-----------------------------------------------------------------------------
Request(r) ==
    \/ \E n \in Names : Signup(r, n)
    \/ SaveTeam(r)
    \/ \E t \in Teams : Connect(r, t)
    \/ Reghook(r)

Start == BootTeams \/ BootNext

AssignLab(p) ==
    \/ CreateUser(p)
    \/ CreateRDPConn(p)
    \/ CreateVPNConn(p)
    \/ RecordLab(p)
    \/ CorrectedAssignedLab(p)

Delete(d) ==
    \/ \E t \in Teams : DeleteTeam(d, t)
    \/ RestartLab(d)
    \/ FindTeam(d)
    \/ EraseTeam(d)
    \/ EraseMissing(d)

Next ==
    /\ ~panicked
    /\ \/ \E r \in Requests : Request(r)
       \/ Start
       \/ \E p \in Procs : AssignLab(p)
       \/ MapRace
       \/ \E d \in Deleters : Delete(d)
       \/ OfferLab
       \/ \E l \in Labs : Requeue(l)

Spec == Init /\ [][Next]_vars

-----------------------------------------------------------------------------
(* Properties. *)

PCs == {"guac", "boot", "idle", "save", "hook", "user", "rdp", "vpn",
        "record", "flag"}

(* The state stays within its types. *)
TypeOK ==
    /\ mode \in Modes
    /\ loaded \in 0..Len(teamName)
    /\ teamName \in Seq(Names)
    /\ Len(teamName) <= MaxTeams
    /\ DOMAIN names \subseteq Names
    /\ \A n \in DOMAIN names : names[n] \in Teams
    /\ teams \subseteq Teams
    /\ assigned \subseteq Teams
    /\ DOMAIN labs \subseteq Teams
    /\ \A t \in DOMAIN labs : labs[t] \in 1..offered
    /\ users \subseteq Names
    /\ DOMAIN rdp \subseteq Teams
    /\ DOMAIN vpn \subseteq Teams
    /\ queue \in Seq(1..offered)
    /\ offered \in 0..LabCount
    /\ returning \in [Labs -> Nat]
    /\ pc \in [Procs -> PCs]
    /\ pteam \in [Procs -> Teams \cup {0}]
    /\ plab \in [Procs -> 0..offered]
    /\ todo \subseteq Teams
    /\ dpc \in [Deleters -> {"idle", "restart", "find", "erase"}]
    /\ dteam \in [Deleters -> Teams \cup {0}]
    /\ dlab \in [Deleters -> 0..offered]
    /\ deletes \in 0..MaxDeletes
    /\ requeues \in [1..MaxTeams -> Nat]
    /\ swallowed \in BOOLEAN
    /\ panicked \in BOOLEAN

(* Two rows of the database had this name when the event was loaded. *)
Doubled(n) ==
    \E t, u \in 1..loaded : t # u /\ teamName[t] = n /\ teamName[u] = n

(* The two maps of the team store agree (store/team.go), whatever sign-ups *)
(* and deletions overlap and also when names come back: a name always      *)
(* leads to a stored team of that name, and every stored team is found by  *)
(* its name unless the database held that name twice.  In that case the    *)
(* team loaded first cannot be found, and deleting either of the two frees *)
(* the name although the other, or a later team of that name, is stored.   *)
NamesMatchTeams ==
    /\ \A n \in DOMAIN names : names[n] \in teams /\ teamName[names[n]] = n
    /\ \A t \in teams :
         ~Doubled(teamName[t]) =>
             teamName[t] \in DOMAIN names /\ names[teamName[t]] = t

Deleting(t) == \E d \in Deleters : dteam[d] = t /\ dpc[d] \in {"find", "erase"}

(* No two stored teams work in the same lab (event.go, AssignLab and       *)
(* daemon/team.go, DeleteTeam), with two exceptions the code makes: the    *)
(* lab is given back before its team is erased, so the team may meet the   *)
(* lab's next owner until its deletion ends; and a team whose lab has been *)
(* given back twice gives away a lab that is somebody else's by then.      *)
ExclusiveLabs ==
    (\A t \in Teams : requeues[t] <= 1) =>
        \A t, u \in teams \cap DOMAIN labs :
            (t # u /\ labs[t] = labs[u]) => (Deleting(t) \/ Deleting(u))

(* The lab a team reaches is the lab the event acts on for that team when  *)
(* it resets, suspends or deletes: two AssignLab calls for one team, from  *)
(* two requests or from a request and Start, do not mix.  It rests on      *)
(* Guacamole refusing the second user of a name, hence not for VPN-only    *)
(* events and only while authAction reports no refusal as success.         *)
ConnectionMatches ==
    (mode # "VPN" /\ ~swallowed) =>
        \A t \in assigned :
            /\ t \in DOMAIN labs
            /\ t \in DOMAIN rdp
            /\ rdp[t] = labs[t]
            /\ mode = "VPNBrowser" => t \in DOMAIN vpn /\ vpn[t] = labs[t]

(* Under the same conditions a lab once recorded for a team (event.go,     *)
(* ev.labs) is never replaced, so none is lost that way.                   *)
LabKept ==
    [][(mode # "VPN" /\ ~swallowed') =>
         \A t \in DOMAIN labs : t \in DOMAIN labs' /\ labs'[t] = labs[t]]_vars

(* "capacity reached for this event" (amigo.go, handleSignupPOST): an      *)
(* event never has more teams than its capacity.                           *)
TeamsWithinCapacity == Cardinality(teams) <= Capacity

=============================================================================
