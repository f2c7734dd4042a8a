--------------------------- MODULE LabPanelProofs ---------------------------
(***************************************************************************)
(* Proofs about the lab panel of the page, for any number of               *)
(* configurations, overlapping clicks, calls that assign unasked and labs. *)
(***************************************************************************)
EXTENDS LabPanel, SequenceTheorems, TLAPS

(* Whoever has a lab in hand holds one, the configurations are set before  *)
(* anything can make a request read them, and events without VPN have      *)
(* neither configurations nor clicks.                                      *)
ConfInv ==
    /\ \A r \in Procs : pc[r] \in {"info", "conf", "flag"} => plab[r] \in Labs
    /\ \A r \in Clicks : pc[r] # "none" => onlyVPN # 0
    /\ \A r \in Clicks : pc[r] = "read" => vpnConf # NoLab
    /\ \A r \in Procs : pc[r] \in {"conf", "flag"} => onlyVPN # 0
    /\ \A r \in Procs : pc[r] = "flag" => vpnConf # NoLab
    /\ isLabAssigned /\ onlyVPN # 0 => vpnConf # NoLab
    /\ onlyVPN = 0 => teamSubnet = NoLab /\ vpnConf = NoLab

(* The items of an answer differ, and there are some only between the      *)
(* answer and its push.                                                    *)
Distinct(s) == \A i, j \in DOMAIN s : i # j => s[i] # s[j]

AnswerInv ==
    \A r \in Clicks : /\ Distinct(answer[r])
                      /\ answer[r] # <<>> => pc[r] = "answered" /\ vpnConf # NoLab

(* Without overlap one click at most is under way, and the list is empty   *)
(* until it is answered.                                                   *)
ListInv ==
    /\ dropDownList # <<>> => vpnConf # NoLab
    /\ ~overlap => /\ \A q, r \in Pending : q = r
                   /\ Pending # {} => dropDownList = <<>>
                   /\ Distinct(dropDownList)

Writing == {"conf", "flag"}

(* Without a race one caller at most assigns; the ones that looked at      *)
(* isLabAssigned still find it false.  While it writes, what it has        *)
(* written is its own, and when nobody does all three belong together.     *)
RaceInv ==
    ~raced =>
        /\ \A q, r \in Procs : pc[q] \in Assigning /\ pc[r] \in Assigning => q = r
        /\ \A r \in Procs \ Hooks : pc[r] \in Assigning => ~isLabAssigned
        /\ \A r \in Procs : pc[r] \in Writing => teamSubnet = plab[r]
        /\ \A r \in Procs : pc[r] = "flag" => vpnConf = plab[r]
        /\ ~replaced /\ isLabAssigned => \A r \in Procs : pc[r] \notin Writing
        /\ isLabAssigned /\ onlyVPN # 0 /\ (\A r \in Procs : pc[r] \notin Writing) =>
              teamSubnet = teamLab /\ vpnConf = teamLab
        /\ ~isLabAssigned =>
              /\ teamSubnet # NoLab => \E r \in Procs : pc[r] \in Writing
              /\ vpnConf # NoLab => \E r \in Procs : pc[r] = "flag"

(* What the page shows and the user has was read from the team as it is,   *)
(* unless the lab was replaced.                                            *)
ShownInv ==
    ~raced /\ ~replaced =>
        /\ labSubnet \in {NoLab, Unknown, teamSubnet}
        /\ files \subseteq {vpnConf} \ {NoLab}

PanelInv == TypeOK /\ ConfInv /\ AnswerInv /\ ListInv /\ RaceInv /\ ShownInv

-----------------------------------------------------------------------------

(* The constants, one by one. *)
LEMMA Bounds == Conns \in Nat /\ MaxClicks \in Nat /\ MaxHooks \in Nat /\ LabCount \in Nat
BY BoundsAssumption

(* The three kinds of callers of AssignLab. *)
LEMMA ProcFacts ==
    /\ Clicks \subseteq Procs /\ Hooks \subseteq Procs /\ Guac \in Procs
    /\ Guac \notin Clicks /\ Guac \notin Hooks
    /\ \A r \in Clicks : r \notin Hooks
BY Bounds DEF Clicks, Hooks, Guac, Procs

(* The answer of ReplyStatus: one item per configuration. *)
LEMMA ItemsFacts ==
    /\ [i \in 1..Conns |-> i - 1] \in Seq(0..Conns - 1)
    /\ Distinct([i \in 1..Conns |-> i - 1])
    /\ Distinct(<<>>)
<1> DEFINE items == [i \in 1..Conns |-> i - 1]
<1>1. items \in [1..Conns -> 0..Conns - 1]
  BY Bounds
<1>2. items \in Seq(0..Conns - 1)
  BY <1>1, Bounds, SeqDef
<1> QED
  BY <1>2, Bounds DEF Distinct

(* The page starts empty, on a server without requests. *)
LEMMA PanelInvInit == Init => PanelInv
<1> SUFFICES ASSUME Init PROVE PanelInv
  OBVIOUS
<1> USE Bounds, ProcFacts DEF Init, Clicks
<1>1. TypeOK
  <2>1. dropDownList \in Seq(0..Conns - 1) /\ answer \in [Clicks -> Seq(0..Conns - 1)]
    BY EmptySeq
  <2>2. {isLabAssigned, overlap, raced, replaced} \subseteq BOOLEAN /\ isDisabled \in BOOLEAN
    OBVIOUS
  <2>3. {teamSubnet, vpnConf, teamLab} \subseteq Labs \cup {NoLab}
    OBVIOUS
  <2> QED
    BY <2>1, <2>2, <2>3 DEF TypeOK, Modes, Labs, NoLab, Assigning
<1>2. ConfInv /\ AnswerInv
  BY ItemsFacts DEF ConfInv, AnswerInv
<1>3. ListInv
  BY ItemsFacts DEF ListInv, Pending
<1>4. RaceInv /\ ShownInv
  BY DEF RaceInv, ShownInv, Assigning
<1> QED
  BY <1>1, <1>2, <1>3, <1>4 DEF PanelInv

(* Every step keeps the types. *)
LEMMA TypeStep ==
    ASSUME TypeOK, ConfInv, [Next]_vars
    PROVE  TypeOK'
<1> USE Bounds, ProcFacts DEF TypeOK, Modes, Labs, NoLab, Assigning, listVars, panelVars,
    assignVars, history, Goto, BeginAssign, Assigned, NotAssigned
<1>1. ASSUME NEW r \in Clicks, CreateDropDown(r) PROVE TypeOK'
  BY <1>1 DEF CreateDropDown
<1>2. ASSUME NEW r \in Clicks, LoseClick(r) PROVE TypeOK'
  BY <1>2 DEF LoseClick
<1>3. ASSUME NEW r \in Clicks, Status(r) PROVE TypeOK'
  BY <1>3 DEF Status
<1>4. ASSUME NEW r \in Procs, TakeLab(r) PROVE TypeOK'
  BY <1>4 DEF TakeLab
<1>5. ASSUME NEW r \in Procs, HookFails(r) PROVE TypeOK'
  BY <1>5 DEF HookFails
<1>6. ASSUME NEW r \in Procs, SetLabInfo(r) PROVE TypeOK'
  BY <1>6 DEF SetLabInfo, ConfInv
<1>7. ASSUME NEW r \in Procs, SetVPNConn(r) PROVE TypeOK'
  BY <1>7 DEF SetVPNConn
<1>8. ASSUME NEW r \in Procs, FinishAssign(r) PROVE TypeOK'
  BY <1>8 DEF FinishAssign
<1>9. ASSUME NEW r \in Clicks, ReplyStatus(r) PROVE TypeOK'
  BY <1>9, ItemsFacts DEF ReplyStatus
<1>10. ASSUME NEW r \in Clicks, StatusFails(r) PROVE TypeOK'
  BY <1>10 DEF StatusFails
<1>11. ASSUME NEW r \in Clicks, PushItems(r) PROVE TypeOK'
  <2>1. dropDownList \o answer[r] \in Seq(0..Conns - 1)
    BY ConcatProperties
  <2> QED
    BY <1>11, <2>1 DEF PushItems
<1>12. ASSUME NEW r \in Clicks, PushNothing(r) PROVE TypeOK'
  BY <1>12 DEF PushNothing
<1>13. CASE DownloadConf
  BY <1>13 DEF DownloadConf, ItemsShown
<1>14. CASE GetLabSubnet
  BY <1>14 DEF GetLabSubnet
<1>15. CASE GetLabSubnetError
  BY <1>15 DEF GetLabSubnetError
<1>16. CASE GetLabSubnetLost
  BY <1>16 DEF GetLabSubnetLost
<1>17. CASE SubmitReset
  BY <1>17 DEF SubmitReset, FormShown
<1>18. CASE ResetFrontend
  BY <1>18 DEF ResetFrontend
<1>19. CASE ReadReset
  BY <1>19 DEF ReadReset
<1>20. CASE LoseReset
  BY <1>20 DEF LoseReset
<1>21. CASE LoadPage
  <2>1. dropDownList' \in Seq(0..Conns - 1)
    BY <1>21, EmptySeq DEF LoadPage
  <2>2. overlap' \in BOOLEAN /\ isDisabled' \in BOOLEAN
    BY <1>21 DEF LoadPage
  <2> QED
    BY <1>21, <2>1, <2>2 DEF LoadPage
<1>22. CASE UNCHANGED vars
  BY <1>22 DEF vars, history
<1>23. ASSUME NEW r \in Hooks, CallHook(r) PROVE TypeOK'
  BY <1>23 DEF CallHook
<1>24. CASE GuacConnection
  BY <1>24 DEF GuacConnection
<1> QED
  BY <1>1, <1>2, <1>3, <1>4, <1>5, <1>6, <1>7, <1>8, <1>9, <1>10, <1>11, <1>12,
    <1>13, <1>14, <1>15, <1>16, <1>17, <1>18, <1>19, <1>20, <1>21, <1>22,
    <1>23, <1>24 DEF Next, Serve, AssignLab, Page

(* The configurations are written by requests that hold a lab, and never
   taken away. *)
LEMMA ConfStep ==
    ASSUME TypeOK, ConfInv, [Next]_vars
    PROVE  ConfInv'
<1> USE Bounds, ProcFacts DEF TypeOK, ConfInv, Labs, NoLab, Assigning, listVars, panelVars,
    assignVars, history, Goto, BeginAssign, Assigned, NotAssigned
<1>1. ASSUME NEW r \in Clicks, CreateDropDown(r) PROVE ConfInv'
  BY <1>1 DEF CreateDropDown
<1>2. ASSUME NEW r \in Clicks, LoseClick(r) PROVE ConfInv'
  BY <1>2 DEF LoseClick
<1>3. ASSUME NEW r \in Clicks, Status(r) PROVE ConfInv'
  BY <1>3 DEF Status
<1>4. ASSUME NEW r \in Procs, TakeLab(r) PROVE ConfInv'
  BY <1>4 DEF TakeLab
<1>5. ASSUME NEW r \in Procs, HookFails(r) PROVE ConfInv'
  BY <1>5 DEF HookFails
<1>6. ASSUME NEW r \in Procs, SetLabInfo(r) PROVE ConfInv'
  BY <1>6 DEF SetLabInfo
<1>7. ASSUME NEW r \in Procs, SetVPNConn(r) PROVE ConfInv'
  BY <1>7 DEF SetVPNConn
<1>8. ASSUME NEW r \in Procs, FinishAssign(r) PROVE ConfInv'
  BY <1>8 DEF FinishAssign
<1>9. ASSUME NEW r \in Clicks, ReplyStatus(r) PROVE ConfInv'
  BY <1>9 DEF ReplyStatus
<1>10. ASSUME NEW r \in Clicks, StatusFails(r) PROVE ConfInv'
  BY <1>10 DEF StatusFails
<1>11. ASSUME NEW r \in Clicks, PushItems(r) PROVE ConfInv'
  BY <1>11 DEF PushItems
<1>12. ASSUME NEW r \in Clicks, PushNothing(r) PROVE ConfInv'
  BY <1>12 DEF PushNothing
<1>13. CASE DownloadConf
  BY <1>13 DEF DownloadConf
<1>14. CASE GetLabSubnet
  BY <1>14 DEF GetLabSubnet
<1>15. CASE GetLabSubnetError
  BY <1>15 DEF GetLabSubnetError
<1>16. CASE GetLabSubnetLost
  BY <1>16 DEF GetLabSubnetLost
<1>17. CASE SubmitReset
  BY <1>17 DEF SubmitReset
<1>18. CASE ResetFrontend
  BY <1>18 DEF ResetFrontend
<1>19. CASE ReadReset
  BY <1>19 DEF ReadReset
<1>20. CASE LoseReset
  BY <1>20 DEF LoseReset
<1>21. CASE LoadPage
  BY <1>21 DEF LoadPage
<1>22. CASE UNCHANGED vars
  BY <1>22 DEF vars, history
<1>23. ASSUME NEW r \in Hooks, CallHook(r) PROVE ConfInv'
  BY <1>23 DEF CallHook
<1>24. CASE GuacConnection
  BY <1>24 DEF GuacConnection
<1> QED
  BY <1>1, <1>2, <1>3, <1>4, <1>5, <1>6, <1>7, <1>8, <1>9, <1>10, <1>11, <1>12,
    <1>13, <1>14, <1>15, <1>16, <1>17, <1>18, <1>19, <1>20, <1>21, <1>22,
    <1>23, <1>24 DEF Next, Serve, AssignLab, Page

(* Answers have distinct items. *)
LEMMA AnswerStep ==
    ASSUME TypeOK, ConfInv, AnswerInv, [Next]_vars
    PROVE  AnswerInv'
<1> USE Bounds, ProcFacts DEF TypeOK, AnswerInv, Labs, NoLab, listVars, panelVars,
    assignVars, history, Goto, BeginAssign, Assigned, NotAssigned
<1>1. ASSUME NEW r \in Clicks, CreateDropDown(r) PROVE AnswerInv'
  BY <1>1 DEF CreateDropDown
<1>2. ASSUME NEW r \in Clicks, LoseClick(r) PROVE AnswerInv'
  BY <1>2, ItemsFacts DEF LoseClick
<1>3. ASSUME NEW r \in Clicks, Status(r) PROVE AnswerInv'
  BY <1>3 DEF Status
<1>4. ASSUME NEW r \in Procs, TakeLab(r) PROVE AnswerInv'
  BY <1>4 DEF TakeLab
<1>5. ASSUME NEW r \in Procs, HookFails(r) PROVE AnswerInv'
  BY <1>5 DEF HookFails
<1>6. ASSUME NEW r \in Procs, SetLabInfo(r) PROVE AnswerInv'
  BY <1>6 DEF SetLabInfo
<1>7. ASSUME NEW r \in Procs, SetVPNConn(r) PROVE AnswerInv'
  BY <1>7 DEF SetVPNConn, ConfInv
<1>8. ASSUME NEW r \in Procs, FinishAssign(r) PROVE AnswerInv'
  BY <1>8 DEF FinishAssign
<1>9. ASSUME NEW r \in Clicks, ReplyStatus(r) PROVE AnswerInv'
  BY <1>9, ItemsFacts DEF ReplyStatus, ConfInv
<1>10. ASSUME NEW r \in Clicks, StatusFails(r) PROVE AnswerInv'
  BY <1>10 DEF StatusFails
<1>11. ASSUME NEW r \in Clicks, PushItems(r) PROVE AnswerInv'
  BY <1>11, ItemsFacts DEF PushItems
<1>12. ASSUME NEW r \in Clicks, PushNothing(r) PROVE AnswerInv'
  BY <1>12 DEF PushNothing
<1>13. CASE DownloadConf
  BY <1>13 DEF DownloadConf
<1>14. CASE GetLabSubnet
  BY <1>14 DEF GetLabSubnet
<1>15. CASE GetLabSubnetError
  BY <1>15 DEF GetLabSubnetError
<1>16. CASE GetLabSubnetLost
  BY <1>16 DEF GetLabSubnetLost
<1>17. CASE SubmitReset
  BY <1>17 DEF SubmitReset
<1>18. CASE ResetFrontend
  BY <1>18 DEF ResetFrontend
<1>19. CASE ReadReset
  BY <1>19 DEF ReadReset
<1>20. CASE LoseReset
  BY <1>20 DEF LoseReset
<1>21. CASE LoadPage
  BY <1>21 DEF LoadPage
<1>22. CASE UNCHANGED vars
  BY <1>22 DEF vars, history
<1>23. ASSUME NEW r \in Hooks, CallHook(r) PROVE AnswerInv'
  BY <1>23 DEF CallHook
<1>24. CASE GuacConnection
  BY <1>24 DEF GuacConnection
<1> QED
  BY <1>1, <1>2, <1>3, <1>4, <1>5, <1>6, <1>7, <1>8, <1>9, <1>10, <1>11, <1>12,
    <1>13, <1>14, <1>15, <1>16, <1>17, <1>18, <1>19, <1>20, <1>21, <1>22,
    <1>23, <1>24 DEF Next, Serve, AssignLab, Page

(* Without overlap a push meets the list that its own click has cleared. *)
LEMMA ListStep ==
    ASSUME TypeOK, ConfInv, AnswerInv, ListInv, [Next]_vars
    PROVE  ListInv'
<1> USE Bounds, ProcFacts DEF TypeOK, ListInv, Pending, Labs, NoLab, listVars, panelVars,
    assignVars, history, Goto, BeginAssign, Assigned, NotAssigned
<1>1. ASSUME NEW r \in Clicks, CreateDropDown(r) PROVE ListInv'
  BY <1>1, ItemsFacts DEF CreateDropDown
<1>2. ASSUME NEW r \in Clicks, LoseClick(r) PROVE ListInv'
  BY <1>2 DEF LoseClick
<1>3. ASSUME NEW r \in Clicks, Status(r) PROVE ListInv'
  BY <1>3 DEF Status
<1>4. ASSUME NEW r \in Procs, TakeLab(r) PROVE ListInv'
  BY <1>4 DEF TakeLab
<1>5. ASSUME NEW r \in Procs, HookFails(r) PROVE ListInv'
  BY <1>5 DEF HookFails
<1>6. ASSUME NEW r \in Procs, SetLabInfo(r) PROVE ListInv'
  BY <1>6 DEF SetLabInfo
<1>7. ASSUME NEW r \in Procs, SetVPNConn(r) PROVE ListInv'
  BY <1>7 DEF SetVPNConn, ConfInv
<1>8. ASSUME NEW r \in Procs, FinishAssign(r) PROVE ListInv'
  BY <1>8 DEF FinishAssign
<1>9. ASSUME NEW r \in Clicks, ReplyStatus(r) PROVE ListInv'
  BY <1>9 DEF ReplyStatus
<1>10. ASSUME NEW r \in Clicks, StatusFails(r) PROVE ListInv'
  BY <1>10 DEF StatusFails
<1>11. ASSUME NEW r \in Clicks, PushItems(r) PROVE ListInv'
  <2>1. dropDownList' # <<>> => vpnConf' # NoLab
    <3>1. CASE answer[r] = <<>>
      BY <1>11, <3>1, ConcatEmptySeq DEF PushItems
    <3> QED
      BY <1>11, <3>1 DEF PushItems, AnswerInv
  <2>2. ASSUME ~overlap' PROVE Pending' = {} /\ Distinct(dropDownList')
    <3>1. ~overlap /\ r \in Pending /\ dropDownList = <<>>
      BY <1>11, <2>2 DEF PushItems
    <3>2. dropDownList' = answer[r]
      BY <1>11, <3>1, ConcatEmptySeq DEF PushItems
    <3> QED
      BY <1>11, <2>2, <3>1, <3>2 DEF PushItems, AnswerInv
  <2> QED
    BY <2>1, <2>2
<1>12. ASSUME NEW r \in Clicks, PushNothing(r) PROVE ListInv'
  BY <1>12 DEF PushNothing
<1>13. CASE DownloadConf
  BY <1>13 DEF DownloadConf
<1>14. CASE GetLabSubnet
  BY <1>14 DEF GetLabSubnet
<1>15. CASE GetLabSubnetError
  BY <1>15 DEF GetLabSubnetError
<1>16. CASE GetLabSubnetLost
  BY <1>16 DEF GetLabSubnetLost
<1>17. CASE SubmitReset
  BY <1>17 DEF SubmitReset
<1>18. CASE ResetFrontend
  BY <1>18 DEF ResetFrontend
<1>19. CASE ReadReset
  BY <1>19 DEF ReadReset
<1>20. CASE LoseReset
  BY <1>20 DEF LoseReset
<1>21. CASE LoadPage
  BY <1>21, ItemsFacts DEF LoadPage
<1>22. CASE UNCHANGED vars
  BY <1>22 DEF vars, history
<1>23. ASSUME NEW r \in Hooks, CallHook(r) PROVE ListInv'
  BY <1>23 DEF CallHook
<1>24. CASE GuacConnection
  BY <1>24 DEF GuacConnection
<1> QED
  BY <1>1, <1>2, <1>3, <1>4, <1>5, <1>6, <1>7, <1>8, <1>9, <1>10, <1>11, <1>12,
    <1>13, <1>14, <1>15, <1>16, <1>17, <1>18, <1>19, <1>20, <1>21, <1>22,
    <1>23, <1>24 DEF Next, Serve, AssignLab, Page

(* The steps of the one request that is served, when no other is. *)
LEMMA RaceStep ==
    ASSUME TypeOK, ConfInv, RaceInv, [Next]_vars
    PROVE  RaceInv'
<1> USE Bounds, ProcFacts DEF TypeOK, ConfInv, RaceInv, Writing, Labs, NoLab, Assigning,
    listVars, panelVars, assignVars, history, Goto, BeginAssign, Assigned, NotAssigned
<1>1. ASSUME NEW r \in Clicks, CreateDropDown(r) PROVE RaceInv'
  BY <1>1 DEF CreateDropDown
<1>2. ASSUME NEW r \in Clicks, LoseClick(r) PROVE RaceInv'
  BY <1>2 DEF LoseClick
<1>3. ASSUME NEW r \in Clicks, Status(r) PROVE RaceInv'
  <2>1. CASE isLabAssigned
    BY <1>3, <2>1 DEF Status
  <2>2. ASSUME ~isLabAssigned, ~raced' PROVE RaceInv'
    <3>1. ~raced /\ pc' = [pc EXCEPT ![r] = "hook"]
      BY <1>3, <2>2 DEF Status
    <3>2. \A q \in Procs : q # r => pc[q] \notin Assigning /\ pc'[q] = pc[q]
      BY <1>3, <2>2 DEF Status
    <3>3. pc'[r] = "hook" /\ pc[r] = "sent"
      BY <1>3, <3>1 DEF Status
    <3>4. UNCHANGED <<onlyVPN, plab, teamSubnet, vpnConf, teamLab, isLabAssigned, replaced>>
      BY <1>3 DEF Status
    <3>5. teamSubnet = NoLab /\ vpnConf = NoLab
      BY <2>2, <3>1, <3>2, <3>3
    <3> QED
      BY <2>2, <3>2, <3>3, <3>4, <3>5
  <2> QED
    BY <2>1, <2>2 DEF RaceInv
<1>4. ASSUME NEW r \in Procs, TakeLab(r) PROVE RaceInv'
  BY <1>4 DEF TakeLab
<1>5. ASSUME NEW r \in Procs, HookFails(r) PROVE RaceInv'
  BY <1>5 DEF HookFails
<1>6. ASSUME NEW r \in Procs, SetLabInfo(r) PROVE RaceInv'
  BY <1>6 DEF SetLabInfo
<1>7. ASSUME NEW r \in Procs, SetVPNConn(r) PROVE RaceInv'
  BY <1>7 DEF SetVPNConn
<1>8. ASSUME NEW r \in Procs, FinishAssign(r) PROVE RaceInv'
  BY <1>8 DEF FinishAssign
<1>9. ASSUME NEW r \in Clicks, ReplyStatus(r) PROVE RaceInv'
  <2>1. PICK place \in {"failed", "answered"} : pc' = [pc EXCEPT ![r] = place]
    BY <1>9 DEF ReplyStatus
  <2>2. pc[r] = "read" /\ pc'[r] = place /\ \A q \in Procs : q # r => pc'[q] = pc[q]
    BY <1>9, <2>1 DEF ReplyStatus
  <2>3. UNCHANGED <<onlyVPN, plab, teamSubnet, vpnConf, teamLab, isLabAssigned, history>>
    BY <1>9 DEF ReplyStatus
  <2> QED
    BY <2>1, <2>2, <2>3
<1>10. ASSUME NEW r \in Clicks, StatusFails(r) PROVE RaceInv'
  BY <1>10 DEF StatusFails
<1>11. ASSUME NEW r \in Clicks, PushItems(r) PROVE RaceInv'
  BY <1>11 DEF PushItems
<1>12. ASSUME NEW r \in Clicks, PushNothing(r) PROVE RaceInv'
  BY <1>12 DEF PushNothing
<1>13. CASE DownloadConf
  BY <1>13 DEF DownloadConf
<1>14. CASE GetLabSubnet
  BY <1>14 DEF GetLabSubnet
<1>15. CASE GetLabSubnetError
  BY <1>15 DEF GetLabSubnetError
<1>16. CASE GetLabSubnetLost
  BY <1>16 DEF GetLabSubnetLost
<1>17. CASE SubmitReset
  BY <1>17 DEF SubmitReset
<1>18. CASE ResetFrontend
  BY <1>18 DEF ResetFrontend
<1>19. CASE ReadReset
  BY <1>19 DEF ReadReset
<1>20. CASE LoseReset
  BY <1>20 DEF LoseReset
<1>21. CASE LoadPage
  BY <1>21 DEF LoadPage
<1>22. CASE UNCHANGED vars
  BY <1>22 DEF vars, history
<1>23. ASSUME NEW r \in Hooks, CallHook(r) PROVE RaceInv'
  BY <1>23 DEF CallHook
<1>24. CASE GuacConnection
  BY <1>24 DEF GuacConnection
<1> QED
  BY <1>1, <1>2, <1>3, <1>4, <1>5, <1>6, <1>7, <1>8, <1>9, <1>10, <1>11, <1>12,
    <1>13, <1>14, <1>15, <1>16, <1>17, <1>18, <1>19, <1>20, <1>21, <1>22,
    <1>23, <1>24 DEF Next, Serve, AssignLab, Page

(* Subnet and configurations change only before the page has any of them. *)
LEMMA ShownStep ==
    ASSUME PanelInv, [Next]_vars
    PROVE  ShownInv'
<1> USE Bounds, ProcFacts DEF PanelInv, TypeOK, ConfInv, RaceInv, ShownInv, Writing, Labs,
    NoLab, Assigning, listVars, panelVars, assignVars, history, Goto, BeginAssign, Assigned, NotAssigned
<1>1. ASSUME NEW r \in Clicks, CreateDropDown(r) PROVE ShownInv'
  BY <1>1 DEF CreateDropDown
<1>2. ASSUME NEW r \in Clicks, LoseClick(r) PROVE ShownInv'
  BY <1>2 DEF LoseClick
<1>3. ASSUME NEW r \in Clicks, Status(r) PROVE ShownInv'
  BY <1>3 DEF Status
<1>4. ASSUME NEW r \in Procs, TakeLab(r) PROVE ShownInv'
  BY <1>4 DEF TakeLab
<1>5. ASSUME NEW r \in Procs, HookFails(r) PROVE ShownInv'
  BY <1>5 DEF HookFails
<1>6. ASSUME NEW r \in Procs, SetLabInfo(r) PROVE ShownInv'
  BY <1>6 DEF SetLabInfo
<1>7. ASSUME NEW r \in Procs, SetVPNConn(r) PROVE ShownInv'
  BY <1>7 DEF SetVPNConn
<1>8. ASSUME NEW r \in Procs, FinishAssign(r) PROVE ShownInv'
  BY <1>8 DEF FinishAssign
<1>9. ASSUME NEW r \in Clicks, ReplyStatus(r) PROVE ShownInv'
  BY <1>9 DEF ReplyStatus
<1>10. ASSUME NEW r \in Clicks, StatusFails(r) PROVE ShownInv'
  BY <1>10 DEF StatusFails
<1>11. ASSUME NEW r \in Clicks, PushItems(r) PROVE ShownInv'
  BY <1>11 DEF PushItems
<1>12. ASSUME NEW r \in Clicks, PushNothing(r) PROVE ShownInv'
  BY <1>12 DEF PushNothing
<1>13. CASE DownloadConf
  BY <1>13 DEF DownloadConf, ItemsShown, ListInv
<1>14. CASE GetLabSubnet
  BY <1>14 DEF GetLabSubnet
<1>15. CASE GetLabSubnetError
  BY <1>15 DEF GetLabSubnetError
<1>16. CASE GetLabSubnetLost
  BY <1>16 DEF GetLabSubnetLost
<1>17. CASE SubmitReset
  BY <1>17 DEF SubmitReset
<1>18. CASE ResetFrontend
  BY <1>18 DEF ResetFrontend
<1>19. CASE ReadReset
  BY <1>19 DEF ReadReset
<1>20. CASE LoseReset
  BY <1>20 DEF LoseReset
<1>21. CASE LoadPage
  BY <1>21 DEF LoadPage
<1>22. CASE UNCHANGED vars
  BY <1>22 DEF vars, history
<1>23. ASSUME NEW r \in Hooks, CallHook(r) PROVE ShownInv'
  BY <1>23 DEF CallHook
<1>24. CASE GuacConnection
  BY <1>24 DEF GuacConnection
<1> QED
  BY <1>1, <1>2, <1>3, <1>4, <1>5, <1>6, <1>7, <1>8, <1>9, <1>10, <1>11, <1>12,
    <1>13, <1>14, <1>15, <1>16, <1>17, <1>18, <1>19, <1>20, <1>21, <1>22,
    <1>23, <1>24 DEF Next, Serve, AssignLab, Page

(* The inductive invariant. *)
THEOREM PanelInvariant == Spec => []PanelInv
<1>1. PanelInv /\ [Next]_vars => PanelInv'
  BY TypeStep, ConfStep, AnswerStep, ListStep, RaceStep, ShownStep DEF PanelInv
<1> QED
  BY <1>1, PanelInvInit, PTL DEF Spec

(* handleVPNStatus, the page and AssignLab keep their variables in the     *)
(* ranges of TypeOK.                                                       *)
THEOREM PanelTypes == Spec => []TypeOK
<1>1. PanelInv => TypeOK
  BY DEF PanelInv
<1> QED
  BY <1>1, PanelInvariant, PTL

(* A request to /vpn/status that reads the configurations finds them.      *)
THEOREM ConfigurationsThere == Spec => []ConfThere
<1>1. PanelInv => ConfThere
  BY DEF PanelInv, ConfInv, ConfThere
<1> QED
  BY <1>1, PanelInvariant, PTL

(* When no two assignments overlapped, AssignLab leaves subnet,            *)
(* configurations and lab of the team together, and the subnet shown and   *)
(* the files downloaded with them unless event.Start or the sign-up        *)
(* replaced the lab.                                                       *)
THEOREM LabsBelongTogether == Spec => []OneLab
<1>1. PanelInv => OneLab
  BY DEF PanelInv, ConfInv, RaceInv, ShownInv, Writing, OneLab
<1> QED
  BY <1>1, PanelInvariant, PTL

(* createDropDown lists no configuration twice when clicks do not overlap. *)
THEOREM NoDuplicates == Spec => []ListedOnce
<1>1. PanelInv => ListedOnce
  BY DEF PanelInv, ListInv, ListedOnce, Distinct
<1> QED
  BY <1>1, PanelInvariant, PTL
=============================================================================
