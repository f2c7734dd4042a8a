------------------------------ MODULE LabPanel ------------------------------
(***************************************************************************)
(* The part of the page that is about the team's lab: the list of VPN      *)
(* configurations (VPNDropdown.vue) and the panel with the subnet of the   *)
(* lab and the button that resets its frontend (ResetFrontend.vue), with   *)
(* the handlers they call in amigo.go.                                     *)
(*                                                                         *)
(* One team and one page.  The first click on the list may be what gets    *)
(* the team its lab: handleVPNStatus calls AssignLab (event.go), whose     *)
(* writes other requests can see one by one (TeamLabs has the rest of it). *)
(* AssignLab is called from three more places: event.Start for the teams   *)
(* of the store, the sign-up of the team, both without a look at           *)
(* isLabAssigned, and handleGuacConnection, one request of which is under  *)
(* way at a time.                                                          *)
(* Labs are numbered in the order of the hub's queue.  A fetch is answered *)
(* late or never; an answer that is not one JSON document is like none.    *)
(***************************************************************************)
EXTENDS Integers, Sequences, FiniteSets

CONSTANTS
    Conns,      \* VPN configurations per team, 4 in the code
    MaxClicks,  \* bound: clicks under way at a time
    MaxHooks,   \* bound: calls of event.Start and the sign-up for the team
    LabCount    \* bound: labs the hub has

ASSUME BoundsAssumption == {Conns, MaxClicks, MaxHooks, LabCount} \subseteq Nat

Clicks == 1..MaxClicks
Guac == 0                       \* handleGuacConnection
Hooks == -MaxHooks..-1          \* event.Start, handleSignupPOST
Procs == -MaxHooks..MaxClicks
NoLab == 0
Labs == 1..LabCount
Modes == {0, 1, 2}              \* no VPN, VPN only, VPN and browser
Unknown == -1                   \* undefined in JavaScript

VARIABLES
    onlyVPN,      \* TeamStore.OnlyVPN
    \* the page
    dropDownList,
    isVpn,
    labSubnet,    \* the lab whose subnet is shown, NoLab for none assigned yet
    isDisabled,   \* of the reset button
    info,         \* the request of getLabSubnet
    reset,        \* the request of submit
    \* the server
    pc, plab,     \* of Procs: where they are, and the lab in their hands
    answer,       \* what the requests to /vpn/status answered
    used,         \* labs taken from the hub
    teamSubnet, vpnConf, teamLab,  \* the lab each of them belongs to
    isLabAssigned,
    files,        \* history: labs of the configurations downloaded
    overlap,      \* history: clicks overlapped since the list was cleared
    raced,        \* history: the team was assigned two labs at once
    replaced      \* history: event.Start or the sign-up gave the team a lab
                  \* when it had one

listVars == <<dropDownList, overlap>>
panelVars == <<isVpn, labSubnet, isDisabled, info, reset>>
assignVars == <<plab, used, teamSubnet, vpnConf, teamLab, isLabAssigned>>
vars == <<onlyVPN, dropDownList, isVpn, labSubnet, isDisabled, info, reset, pc,
          plab, answer, used, teamSubnet, vpnConf, teamLab, isLabAssigned, files,
          overlap, raced, replaced>>
history == <<raced, replaced>>

Init ==
    /\ onlyVPN \in Modes
    /\ dropDownList = <<>>
    /\ isVpn = 0 /\ labSubnet = NoLab
    /\ isDisabled = FALSE
    /\ info = "sent"                 \* created has called getLabSubnet
    /\ reset = "none"
    /\ pc = [p \in Procs |-> "none"] /\ plab = [p \in Procs |-> NoLab]
    /\ answer = [r \in Clicks |-> <<>>]
    /\ used = 0
    /\ teamSubnet = NoLab /\ vpnConf = NoLab /\ teamLab = NoLab
    /\ isLabAssigned = FALSE
    /\ files = {}
    /\ overlap = FALSE /\ raced = FALSE /\ replaced = FALSE

Goto(r, place) == pc' = [pc EXCEPT ![r] = place]

-----------------------------------------------------------------------------
(* The list of VPN configurations. *)

Pending == {r \in Clicks : pc[r] # "none"}

(* Mutation: the list is not cleared. *)
ClickAdds(r) ==
    /\ onlyVPN # 0
    /\ pc[r] = "none"
    /\ Goto(r, "sent")
    /\ overlap' = (Pending # {})
    /\ UNCHANGED <<onlyVPN, dropDownList, panelVars, answer, assignVars, files, history>>

(* createDropDown; the template has the list only in events with VPN. *)
CreateDropDown(r) ==
    /\ onlyVPN # 0
    /\ pc[r] = "none"
    /\ Goto(r, "sent")
    /\ dropDownList' = <<>>
    /\ overlap' = (Pending # {})
    /\ UNCHANGED <<onlyVPN, panelVars, answer, assignVars, files, history>>

(* What follows the await: the answer is pushed, one item after the other. *)
PushItems(r) ==
    /\ pc[r] = "answered"
    /\ Goto(r, "none")
    /\ dropDownList' = dropDownList \o answer[r]
    /\ answer' = [answer EXCEPT ![r] = <<>>]
    /\ UNCHANGED <<onlyVPN, panelVars, assignVars, files, overlap, history>>

(* The fetch or json() rejects, or the answer is an error, which has no    *)
(* length.                                                                 *)
PushNothing(r) ==
    /\ pc[r] = "failed"
    /\ Goto(r, "none")
    /\ UNCHANGED <<onlyVPN, listVars, panelVars, answer, assignVars, files, history>>

(* The connection breaks before the request arrives, or with the answer. *)
LoseClick(r) ==
    /\ pc[r] \in {"sent", "answered"}
    /\ Goto(r, "failed")
    /\ answer' = [answer EXCEPT ![r] = <<>>]
    /\ UNCHANGED <<onlyVPN, listVars, panelVars, assignVars, files, history>>

(* The menu has one entry per item. *)
ItemsShown == dropDownList # <<>>

(* downloadConf and handleVPNFiles: the file is the configuration the team *)
(* has now.                                                                *)
DownloadConf ==
    /\ ItemsShown
    /\ files' = files \cup {vpnConf}
    /\ UNCHANGED <<onlyVPN, listVars, panelVars, pc, answer, assignVars, history>>

-----------------------------------------------------------------------------
(* handleVPNStatus and the other callers of AssignLab. *)

Assigning == {"hook", "info", "conf", "flag"}

(* p begins to assign a lab. *)
BeginAssign(p) ==
    /\ Goto(p, "hook")
    /\ raced' = (raced \/ \E q \in Procs \ {p} : pc[q] \in Assigning)

(* Mutation: the hook is called for every request. *)
StatusAlwaysHook(r) ==
    /\ pc[r] = "sent"
    /\ BeginAssign(r)
    /\ UNCHANGED <<onlyVPN, listVars, panelVars, answer, assignVars, files, replaced>>

Status(r) ==
    /\ pc[r] = "sent"
    /\ IF isLabAssigned THEN Goto(r, "read") /\ UNCHANGED raced ELSE BeginAssign(r)
    /\ UNCHANGED <<onlyVPN, listVars, panelVars, answer, assignVars, files, replaced>>

(* event.Start comes to the team, or handleSignupPOST to its hook: once.   *)
CallHook(p) ==
    /\ pc[p] = "none"
    /\ BeginAssign(p)
    /\ UNCHANGED <<onlyVPN, listVars, panelVars, answer, assignVars, files, replaced>>

(* handleGuacConnection, which events with VPN only do not serve; there is *)
(* more to see only when it calls the hook.                                *)
GuacConnection ==
    /\ onlyVPN # 1
    /\ pc[Guac] = "none"
    /\ ~isLabAssigned
    /\ BeginAssign(Guac)
    /\ UNCHANGED <<onlyVPN, listVars, panelVars, answer, assignVars, files, replaced>>

(* Where p goes on when the lab is assigned, and when it is not. *)
Assigned(p) == IF p \in Clicks THEN "read" ELSE IF p = Guac THEN "none" ELSE "ended"
NotAssigned(p) == IF p \in Clicks THEN "failed" ELSE Assigned(p)

(* The hook takes a lab from the queue; event.Start waits for one. *)
TakeLab(r) ==
    /\ pc[r] = "hook"
    /\ used < LabCount
    /\ used' = used + 1
    /\ plab' = [plab EXCEPT ![r] = used + 1]
    /\ Goto(r, "info")
    /\ UNCHANGED <<onlyVPN, listVars, panelVars, answer, teamSubnet, vpnConf,
                   teamLab, isLabAssigned, files, history>>

(* It has none, or AssignLab fails before it has set anything: the click   *)
(* gets status 503 without a body.                                         *)
HookFails(r) ==
    /\ pc[r] \in {"hook", "info"}
    /\ Goto(r, NotAssigned(r))
    /\ plab' = [plab EXCEPT ![r] = NoLab]
    /\ UNCHANGED <<onlyVPN, listVars, panelVars, answer, used, teamSubnet, vpnConf,
                   teamLab, isLabAssigned, files, history>>

(* Events with VPN set the subnet and the configurations. *)
SetLabInfo(r) ==
    /\ onlyVPN # 0
    /\ pc[r] = "info"
    /\ teamSubnet' = plab[r]
    /\ replaced' = (replaced \/ (isLabAssigned /\ r \in Hooks))
    /\ Goto(r, "conf")
    /\ UNCHANGED <<onlyVPN, listVars, panelVars, answer, plab, used, vpnConf, teamLab,
                   isLabAssigned, files, raced>>

(* Mutation: CorrectedAssignedLab comes with SetVPNConn yet to come. *)
SetVPNConnLast(r) ==
    /\ pc[r] = "conf"
    /\ teamLab' = plab[r] /\ isLabAssigned' = TRUE
    /\ Goto(r, "flag")
    /\ UNCHANGED <<onlyVPN, listVars, panelVars, answer, plab, used, teamSubnet,
                   vpnConf, files, history>>

SetVPNConn(r) ==
    /\ pc[r] = "conf"
    /\ vpnConf' = plab[r]
    /\ Goto(r, "flag")
    /\ UNCHANGED <<onlyVPN, listVars, panelVars, answer, plab, used, teamSubnet,
                   teamLab, isLabAssigned, files, history>>

(* ev.labs and CorrectedAssignedLab *)
FinishAssign(r) ==
    /\ pc[r] = IF onlyVPN = 0 THEN "info" ELSE "flag"
    /\ teamLab' = plab[r] /\ isLabAssigned' = TRUE
    /\ plab' = [plab EXCEPT ![r] = NoLab]
    /\ Goto(r, Assigned(r))
    /\ UNCHANGED <<onlyVPN, listVars, panelVars, answer, used, teamSubnet, vpnConf,
                   files, history>>

(* Mutation: the configurations are numbered from one. *)
ReplyStatusFromOne(r) ==
    /\ pc[r] = "read"
    /\ IF vpnConf = NoLab
       THEN Goto(r, "failed") /\ UNCHANGED answer
       ELSE /\ Goto(r, "answered")
            /\ answer' = [answer EXCEPT ![r] = [i \in 1..Conns |-> i]]
    /\ UNCHANGED <<onlyVPN, listVars, panelVars, assignVars, files, history>>

(* One item per configuration.  Without any, the error is followed by a    *)
(* second document, null, which the page cannot parse.                     *)
ReplyStatus(r) ==
    /\ pc[r] = "read"
    /\ IF vpnConf = NoLab
       THEN Goto(r, "failed") /\ UNCHANGED answer
       ELSE /\ Goto(r, "answered")
            /\ answer' = [answer EXCEPT ![r] = [i \in 1..Conns |-> i - 1]]
    /\ UNCHANGED <<onlyVPN, listVars, panelVars, assignVars, files, history>>

(* The WireGuard server does not know the state of a peer. *)
StatusFails(r) ==
    /\ pc[r] = "read"
    /\ Goto(r, "failed")
    /\ UNCHANGED <<onlyVPN, listVars, panelVars, answer, assignVars, files, history>>

-----------------------------------------------------------------------------
(* The panel. *)

(* handleLabInfo and what getLabSubnet does with the answer. *)
GetLabSubnet ==
    /\ info = "sent"
    /\ info' = "done"
    /\ isVpn' = onlyVPN
    /\ labSubnet' = IF onlyVPN = 0 THEN NoLab ELSE teamSubnet
    /\ UNCHANGED <<onlyVPN, listVars, isDisabled, reset, pc, answer, assignVars,
                   files, history>>

(* The team is not recognised, and the page uses the error as an answer:   *)
(* neither field is defined.                                               *)
GetLabSubnetError ==
    /\ info = "sent" /\ onlyVPN # 0
    /\ info' = "done"
    /\ isVpn' = Unknown /\ labSubnet' = Unknown
    /\ UNCHANGED <<onlyVPN, listVars, isDisabled, reset, pc, answer, assignVars,
                   files, history>>

GetLabSubnetLost ==
    /\ info = "sent"
    /\ info' = "done"
    /\ UNCHANGED <<onlyVPN, listVars, isVpn, labSubnet, isDisabled, reset, pc, answer,
                   assignVars, files, history>>

(* The form is there unless the page knows that the event has VPN only. *)
FormShown == isVpn # 1

(* submit, up to the await. *)
SubmitReset ==
    /\ FormShown
    /\ ~isDisabled
    /\ isDisabled' = TRUE
    /\ reset' = "sent"
    /\ UNCHANGED <<onlyVPN, listVars, isVpn, labSubnet, info, pc, answer, assignVars,
                   files, history>>

(* handleResetFrontend: an error without a lab, and else ok or an error. *)
ResetFrontend ==
    /\ reset = "sent"
    /\ reset' \in IF teamLab = NoLab THEN {"error"} ELSE {"ok", "error"}
    /\ UNCHANGED <<onlyVPN, listVars, isVpn, labSubnet, isDisabled, info, pc, answer,
                   assignVars, files, history>>

(* Mutation: only a success enables the button. *)
ReadResetOk ==
    /\ reset \in {"ok", "error"}
    /\ reset' = "none"
    /\ isDisabled' = (reset = "error")
    /\ UNCHANGED <<onlyVPN, listVars, isVpn, labSubnet, info, pc, answer, assignVars,
                   files, history>>

(* What follows the await in submit. *)
ReadReset ==
    /\ reset \in {"ok", "error"}
    /\ reset' = "none"
    /\ isDisabled' = FALSE
    /\ UNCHANGED <<onlyVPN, listVars, isVpn, labSubnet, info, pc, answer, assignVars,
                   files, history>>

(* The fetch rejects, and the button stays disabled. *)
LoseReset ==
    /\ reset \in {"sent", "ok", "error"}
    /\ reset' = "lost"
    /\ UNCHANGED <<onlyVPN, listVars, isVpn, labSubnet, isDisabled, info, pc, answer,
                   assignVars, files, history>>

(* The user loads the page anew, when no click is under way. *)
LoadPage ==
    /\ Pending = {}
    /\ dropDownList' = <<>> /\ overlap' = FALSE
    /\ isVpn' = 0 /\ labSubnet' = NoLab /\ isDisabled' = FALSE
    /\ info' = "sent" /\ reset' = "none"
    /\ UNCHANGED <<onlyVPN, pc, answer, assignVars, files, history>>

-----------------------------------------------------------------------------

AssignLab(p) ==
    \/ TakeLab(p) \/ HookFails(p) \/ SetLabInfo(p) \/ SetVPNConn(p) \/ FinishAssign(p)

Serve(r) == Status(r) \/ AssignLab(r) \/ ReplyStatus(r) \/ StatusFails(r)

Page(r) == PushItems(r) \/ PushNothing(r)

Next ==
    \/ \E r \in Clicks : CreateDropDown(r) \/ LoseClick(r) \/ Serve(r) \/ Page(r)
    \/ \E p \in Hooks : CallHook(p) \/ AssignLab(p)
    \/ GuacConnection \/ AssignLab(Guac)
    \/ DownloadConf
    \/ GetLabSubnet \/ GetLabSubnetError \/ GetLabSubnetLost
    \/ SubmitReset \/ ResetFrontend \/ ReadReset \/ LoseReset
    \/ LoadPage

Spec == Init /\ [][Next]_vars

(* The server serves what arrives, and the page reads what is answered. *)
FairSpec ==
    /\ Spec
    /\ \A r \in Clicks : WF_vars(Serve(r)) /\ WF_vars(Page(r))
    /\ WF_vars(ResetFrontend) /\ WF_vars(ReadReset)

-----------------------------------------------------------------------------
(* Properties. *)

(* The type invariant. *)
TypeOK ==
    /\ onlyVPN \in Modes
    /\ dropDownList \in Seq(0..Conns - 1)
    /\ isVpn \in Modes \cup {Unknown}
    /\ labSubnet \in Labs \cup {NoLab, Unknown}
    /\ isDisabled \in BOOLEAN
    /\ info \in {"sent", "done"}
    /\ reset \in {"none", "sent", "ok", "error", "lost"}
    /\ pc \in [Procs -> Assigning \cup {"none", "sent", "read", "answered", "failed",
                                        "ended"}]
    /\ plab \in [Procs -> Labs \cup {NoLab}]
    /\ answer \in [Clicks -> Seq(0..Conns - 1)]
    /\ used \in 0..LabCount
    /\ {teamSubnet, vpnConf, teamLab} \subseteq Labs \cup {NoLab}
    /\ {isLabAssigned, overlap, raced, replaced} \subseteq BOOLEAN
    /\ files \subseteq Labs \cup {NoLab}

(* The list has every configuration once at most, as long as the button is *)
(* not clicked again before the last click is answered; the next click     *)
(* after that puts it right.                                               *)
ListedOnce ==
    ~overlap => \A i, j \in DOMAIN dropDownList :
                    i # j => dropDownList[i] # dropDownList[j]

(* The lab, the subnet and the configurations of a team with VPN belong    *)
(* together once nobody writes them, when no two assignments overlapped;   *)
(* and so do the subnet the panel shows and the files the user has         *)
(* downloaded, however many times the list was opened and the browser      *)
(* asked for, unless event.Start or the sign-up replaced the lab, as they  *)
(* do not look at isLabAssigned.                                           *)
OneLab ==
    isLabAssigned /\ ~raced =>
        /\ onlyVPN # 0 /\ (\A p \in Procs : pc[p] \notin {"conf", "flag"}) =>
               teamSubnet = teamLab /\ vpnConf = teamLab
        /\ ~replaced => /\ labSubnet \in {NoLab, Unknown, teamLab}
                        /\ files \subseteq {teamLab}

(* A request that finds the lab assigned finds the configurations as well: *)
(* AssignLab sets the flag last.                                           *)
ConfThere ==
    \A r \in Clicks : pc[r] = "read" => vpnConf # NoLab

(* The reset button comes back, unless the answer got lost. *)
ResetFreed ==
    isDisabled ~> (~isDisabled \/ reset = "lost")
=============================================================================
