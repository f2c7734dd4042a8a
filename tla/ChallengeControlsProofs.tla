---------------------- MODULE ChallengeControlsProofs ----------------------
(***************************************************************************)
(* Proofs about the challenge dialog and its handlers, for any number of   *)
(* pages, challenges, exercises and requests: the dialog shown has one     *)
(* request per button under way and disables that button for so long, and  *)
(* the list of disabled challenges says what the machines do, as long as   *)
(* operations on an exercise do not overlap.                               *)
(***************************************************************************)
EXTENDS ChallengeControls, FiniteSetTheorems, TLAPS

(* The requests there can be. *)
Reqs == [kind : Kinds, from : Sessions \cup {Anyone}, tag : Chals \cup Buttons,
         exercise : Exercises, pc : Places, result : {"none", "ok", "error"},
         got : {"pending", "done", "lost"}]

(* A request whose answer the page waits for is of the dialog shown and    *)
(* has disabled its button,                                                *)
PendingInv ==
    \A r \in Sent : req[r].got = "pending" =>
        /\ req[r].kind \in Buttons /\ req[r].from \in Sessions
        /\ req[r].exercise = dialog[req[r].from]
        /\ req[r].kind \in isDisabled[req[r].from]
        /\ req[r].kind \notin unanswered[req[r].from]

(* and is the only one of that button. *)
UniqueInv ==
    \A q, r \in Sent :
        /\ req[q].got = "pending" /\ req[r].got = "pending"
        /\ req[q].from = req[r].from /\ req[q].kind = req[r].kind
        => q = r

(* A flag belongs to a challenge. *)
FlagInv == \A r \in Sent : req[r].kind = "flag" => req[r].tag \in Chals

(* A button is disabled for one of two reasons. *)
WaitInv ==
    /\ \A s \in Sessions : unanswered[s] \subseteq isDisabled[s]
    /\ ~crashed => \A s \in Sessions : \A b \in isDisabled[s] :
         b \in unanswered[s] \/ \E r \in Sent : Waiting(s, r) /\ req[r].kind = b

ButtonInv == TypeOK /\ PendingInv /\ UniqueInv /\ FlagInv /\ WaitInv

(* What the list and the machines of p are like when an operation on it is *)
(* at w, or when none is under way.                                        *)
At(w, p) ==
    /\ w # "create" => p \notin lost
    /\ w \in {"idle", "stop"} => (p \in disabled <=> p \notin running)
    /\ w \in {"list", "relist"} => p \notin running
    /\ w = "start" => p \notin disabled /\ p \notin running
    /\ w = "halt" => p \in disabled
    /\ w = "see" => p \in running
    /\ w = "unlist" => p \in disabled /\ p \in running

(* Undisturbed operations come one at a time. *)
InTurn(p) ==
    /\ \A q, r \in Active(p) : q = r
    /\ Active(p) = {} => At("idle", p)
    /\ \A r \in Active(p) : At(req[r].pc, p)

MachineInv == ~crashed => \A p \in Exercises : p \notin disturbed => InTurn(p)

-----------------------------------------------------------------------------
(* Requests. *)

(* TypeOK in terms of Reqs. *)
LEMMA ReqTypes ==
    TypeOK <=> /\ secret \in BOOLEAN /\ dialog \in [Sessions -> Exercises]
               /\ isDisabled \in [Sessions -> SUBSET Buttons]
               /\ unanswered \in [Sessions -> SUBSET Buttons]
               /\ Sent \subseteq Ids
               /\ req \in [Sent -> Reqs]
               /\ solved \subseteq Chals /\ disabled \subseteq Exercises
               /\ running \subseteq Exercises /\ lost \subseteq Exercises
               /\ disturbed \subseteq Exercises /\ crashed \in BOOLEAN
BY DEF TypeOK, Reqs

(* What SetReq leaves. *)
LEMMA SetFacts ==
    ASSUME NEW f, SetReq(f)
    PROVE  /\ Sent' = {x \in DOMAIN f : ~Over(f[x])}
           /\ \A x \in Sent' : req'[x] = f[x]
           /\ req' \in [Sent' -> {f[x] : x \in Sent'}]
BY DEF SetReq, Sent

(* A handler that moves on, or answers and moves on. *)
LEMMA Moves ==
    ASSUME TypeOK, NEW r \in Sent, NEW w \in Places,
           \/ Goto(r, w)
           \/ \E res \in {"none", "ok", "error"} : Reply(r, w, res)
    PROVE  /\ req' \in [Sent' -> Reqs] /\ Sent' \subseteq Sent
           /\ \A x \in Sent' : x # r => req'[x] = req[x]
           /\ r \in Sent' => /\ req'[r].kind = req[r].kind /\ req'[r].from = req[r].from
                             /\ req'[r].tag = req[r].tag /\ req'[r].exercise = req[r].exercise
                             /\ req'[r].got = req[r].got /\ req'[r].pc = w
           /\ \A x \in Sent : x # r /\ req[x].pc \in Busy => x \in Sent'
           /\ w \in Busy => r \in Sent'
           /\ \A x \in Sent : req[x].got = "pending" => x \in Sent'
<1>1. req \in [Sent -> Reqs]
  BY ReqTypes
<1>2. req[r] \in Reqs
  BY <1>1
<1>3. PICK j \in Reqs : /\ j.kind = req[r].kind /\ j.from = req[r].from
                        /\ j.tag = req[r].tag /\ j.exercise = req[r].exercise /\ j.got = req[r].got
                        /\ j.pc = w
                        /\ SetReq([req EXCEPT ![r] = j])
  <2>1. CASE Goto(r, w)
    <3> DEFINE j == [req[r] EXCEPT !.pc = w]
    <3>1. j \in Reqs
      BY <1>2 DEF Reqs
    <3>2. [req EXCEPT ![r].pc = w] = [req EXCEPT ![r] = j]
      OBVIOUS
    <3>3. /\ j.kind = req[r].kind /\ j.from = req[r].from /\ j.tag = req[r].tag
          /\ j.exercise = req[r].exercise
          /\ j.got = req[r].got /\ j.pc = w
      BY <1>2 DEF Reqs
    <3>4. SetReq([req EXCEPT ![r] = j])
      BY <2>1, <3>2 DEF Goto
    <3> QED
      BY <3>1, <3>3, <3>4
  <2>2. ASSUME NEW res \in {"none", "ok", "error"}, Reply(r, w, res)
        PROVE  \E j \in Reqs : /\ j.kind = req[r].kind /\ j.from = req[r].from
                               /\ j.tag = req[r].tag /\ j.exercise = req[r].exercise
                               /\ j.got = req[r].got /\ j.pc = w
                               /\ SetReq([req EXCEPT ![r] = j])
    <3> DEFINE j == [req[r] EXCEPT !.pc = w, !.result = res]
    <3>1. j \in Reqs
      BY <1>2 DEF Reqs
    <3>2. [req EXCEPT ![r].pc = w, ![r].result = res] = [req EXCEPT ![r] = j]
      BY <1>1
    <3>3. /\ j.kind = req[r].kind /\ j.from = req[r].from /\ j.tag = req[r].tag
          /\ j.exercise = req[r].exercise
          /\ j.got = req[r].got /\ j.pc = w
      BY <1>2 DEF Reqs
    <3>4. SetReq([req EXCEPT ![r] = j])
      BY <2>2, <3>2 DEF Reply
    <3> QED
      BY <3>1, <3>3, <3>4
  <2> QED
    BY <2>1, <2>2
<1> DEFINE f == [req EXCEPT ![r] = j]
<1>4. /\ DOMAIN f = Sent /\ f[r] = j /\ (\A x \in Sent : x # r => f[x] = req[x])
      /\ \A x \in Sent : f[x] \in Reqs
  BY <1>1, <1>3 DEF Sent
<1>5. SetReq(f)
  BY <1>3
<1> HIDE DEF f
<1>6. /\ Sent' = {x \in Sent : ~Over(f[x])} /\ (\A x \in Sent' : req'[x] = f[x])
      /\ req' \in [Sent' -> {f[x] : x \in Sent'}]
  BY <1>4, <1>5, SetFacts
<1>7. \A x \in Sent : f[x].pc \in Busy \/ f[x].got = "pending" => ~Over(f[x])
  BY DEF Over, Busy
<1> QED
  BY <1>3, <1>4, <1>6, <1>7

-----------------------------------------------------------------------------
(* Buttons. *)

(* Before the first click nothing is under way. *)
LEMMA ButtonInvInit == Init => ButtonInv
<1> SUFFICES ASSUME Init PROVE ButtonInv
  OBVIOUS
<1>1. Sent = {} /\ req \in [Sent -> Reqs]
  BY DEF Init, Sent
<1>2. TypeOK
  BY <1>1, ReqTypes DEF Init
<1> QED
  BY <1>1, <1>2 DEF Init, ButtonInv, PendingInv, UniqueInv, FlagInv, WaitInv

(* A request is sent. *)
LEMMA FetchInv ==
    ASSUME ButtonInv, NEW j \in Reqs, Fetch(j), UNCHANGED <<teamVars, machineVars, disturbed, crashed>>,
           isDisabled' \in [Sessions -> SUBSET Buttons],
           UNCHANGED <<secret, dialog, unanswered>>,
           \A s \in Sessions : /\ isDisabled[s] \subseteq isDisabled'[s]
                               /\ \A b \in isDisabled'[s] \ isDisabled[s] :
                                    j.got = "pending" /\ j.from = s /\ j.kind = b,
           j.kind = "flag" => j.tag \in Chals,
           j.got = "pending" => /\ j.kind \in Buttons /\ j.from \in Sessions
                                /\ j.exercise = dialog[j.from]
                                /\ j.kind \in isDisabled'[j.from]
                                /\ j.kind \notin isDisabled[j.from]
    PROVE  ButtonInv'
<1>1. PICK r \in Ids \ Sent : req' = [x \in Sent \cup {r} |-> IF x = r THEN j ELSE req[x]]
  BY DEF Fetch
<1>2. /\ Sent' = Sent \cup {r} /\ req'[r] = j /\ \A x \in Sent : req'[x] = req[x]
  BY <1>1 DEF Sent
<1>3. req \in [Sent -> Reqs] /\ Sent \subseteq Ids
  BY ReqTypes DEF ButtonInv
<1>4. req' \in [Sent' -> Reqs] /\ Sent' \subseteq Ids
  BY <1>1, <1>2, <1>3
<1>5. TypeOK'
  BY <1>4 DEF ButtonInv, TypeOK, Reqs, teamVars, machineVars
<1>6. PendingInv'
  BY <1>2 DEF ButtonInv, PendingInv, WaitInv
<1>7. UniqueInv'
  BY <1>2 DEF ButtonInv, PendingInv, UniqueInv
<1>8. FlagInv'
  BY <1>2 DEF ButtonInv, FlagInv
<1>9. WaitInv'
  <2>1. \A s \in Sessions : unanswered'[s] \subseteq isDisabled'[s]
    BY DEF ButtonInv, WaitInv
  <2>2. ASSUME ~crashed', NEW s \in Sessions, NEW b \in isDisabled'[s]
        PROVE  b \in unanswered'[s] \/ \E x \in Sent' : Waiting(s, x)' /\ req'[x].kind = b
    <3>1. CASE b \in isDisabled[s]
      BY <1>2, <2>2, <3>1 DEF ButtonInv, WaitInv, Waiting
    <3>2. CASE b \notin isDisabled[s]
      BY <1>2, <2>2, <3>2 DEF Waiting
    <3> QED
      BY <3>1, <3>2
  <2> QED
    BY <2>1, <2>2 DEF WaitInv
<1> QED
  BY <1>5, <1>6, <1>7, <1>8, <1>9 DEF ButtonInv

(* A handler takes a step. *)
LEMMA ServeInv ==
    ASSUME ButtonInv, NEW r \in Sent, NEW w \in Places,
           \/ Goto(r, w)
           \/ \E res \in {"none", "ok", "error"} : Reply(r, w, res),
           UNCHANGED pageVars, solved' \subseteq Chals, disabled' \subseteq Exercises,
           running' \subseteq Exercises, lost' \subseteq Exercises, disturbed' \subseteq Exercises,
           crashed' = crashed
    PROVE  ButtonInv'
<1>1. /\ req' \in [Sent' -> Reqs] /\ Sent' \subseteq Sent
      /\ \A x \in Sent' : /\ req'[x].kind = req[x].kind /\ req'[x].from = req[x].from
                          /\ req'[x].tag = req[x].tag /\ req'[x].got = req[x].got
                          /\ req'[x].exercise = req[x].exercise
      /\ \A x \in Sent : req[x].got = "pending" => x \in Sent'
  BY Moves DEF ButtonInv
<1>2. TypeOK'
  BY <1>1 DEF ButtonInv, TypeOK, Reqs, pageVars
<1>3. WaitInv'
  BY <1>1 DEF ButtonInv, WaitInv, Waiting, pageVars
<1> QED
  BY <1>1, <1>2, <1>3 DEF ButtonInv, PendingInv, UniqueInv, FlagInv, pageVars

(* What a handler may change, and where it gets to. *)
LEMMA ServeFacts ==
    ASSUME ButtonInv, NEW r \in Sent, Serve(r)
    PROVE  /\ \E w \in Places : \/ Goto(r, w)
                                \/ \E res \in {"none", "ok", "error"} : Reply(r, w, res)
           /\ UNCHANGED <<pageVars, crashed>>
           /\ solved' \subseteq Chals /\ disabled' \subseteq Exercises
           /\ running' \subseteq Exercises /\ lost' \subseteq Exercises
           /\ disturbed' \subseteq Exercises
<1>1. Exercise(r) \in Exercises /\ (req[r].kind = "flag" => req[r].tag \in Chals)
  BY ReqTypes DEF ButtonInv, FlagInv, Exercise, Reqs
<1>2. /\ solved \subseteq Chals /\ disabled \subseteq Exercises /\ running \subseteq Exercises
      /\ lost \subseteq Exercises /\ disturbed \subseteq Exercises
  BY DEF ButtonInv, TypeOK
<1>3. {"sent", "check", "end", "stop", "list", "start", "halt", "relist", "create", "see",
       "unlist"} \subseteq Places
  BY DEF Places, Busy
<1>4. UNCHANGED <<pageVars, crashed>>
  BY DEF Serve, VerifyFlag, RefuseFlag, CheckChildren, StopSolved, StopSolvedFails, ListSolved,
    ManageChallenge, StartByTag, StartFails, StopByTag, StopFails, Relist, ResetClose,
    ResetCreate, ResetFails, SeeDisabled, Unlist
<1>5. \E w \in Places : \/ Goto(r, w)
                        \/ \E res \in {"none", "ok", "error"} : Reply(r, w, res)
  BY <1>3 DEF Serve, VerifyFlag, RefuseFlag, CheckChildren, StopSolved, StopSolvedFails,
    ListSolved, ManageChallenge, StartByTag, StartFails, StopByTag, StopFails, Relist,
    ResetClose, ResetCreate, ResetFails, SeeDisabled, Unlist
<1>6. solved' \subseteq Chals /\ disabled' \subseteq Exercises
  BY <1>1, <1>2 DEF Serve, VerifyFlag, RefuseFlag, CheckChildren, StopSolved, StopSolvedFails,
    ListSolved, ManageChallenge, StartByTag, StartFails, StopByTag, StopFails, Relist,
    ResetClose, ResetCreate, ResetFails, SeeDisabled, Unlist, Toggle, teamVars
<1>7. running' \subseteq Exercises /\ lost' \subseteq Exercises
  BY <1>1, <1>2 DEF Serve, VerifyFlag, RefuseFlag, CheckChildren, StopSolved, StopSolvedFails,
    ListSolved, ManageChallenge, StartByTag, StartFails, StopByTag, StopFails, Relist,
    ResetClose, ResetCreate, ResetFails, SeeDisabled, Unlist, machineVars
<1>8. disturbed' \subseteq Exercises
  BY <1>1, <1>2 DEF Serve, VerifyFlag, RefuseFlag, CheckChildren, StopSolved, StopSolvedFails,
    ListSolved, ManageChallenge, StartByTag, StartFails, StopByTag, StopFails, Relist,
    ResetClose, ResetCreate, ResetFails, SeeDisabled, Unlist, Begin, Disturb
<1> QED
  BY <1>4, <1>5, <1>6, <1>7, <1>8

(* Every step keeps ButtonInv. *)
LEMMA ButtonInvStep ==
    ASSUME ButtonInv, [Next]_vars
    PROVE  ButtonInv'
<1>t. /\ req \in [Sent -> Reqs] /\ Sent \subseteq Ids /\ dialog \in [Sessions -> Exercises]
      /\ isDisabled \in [Sessions -> SUBSET Buttons] /\ unanswered \in [Sessions -> SUBSET Buttons]
  BY ReqTypes DEF ButtonInv
<1>1. ASSUME NEW s \in Sessions, NEW p \in Exercises, NEW b \in Buttons, Submit(s, b, p)
      PROVE  ButtonInv'
  <2> DEFINE j == [kind |-> b, from |-> s, tag |-> b, exercise |-> p,
                   pc |-> "sent", result |-> "none", got |-> "pending"]
  <2>1. j \in Reqs /\ Fetch(j)
    BY <1>1 DEF Submit, Post, Reqs, Kinds, Places
  <2>2. b \notin isDisabled[s] /\ isDisabled' = [isDisabled EXCEPT ![s] = @ \cup {b}]
        /\ UNCHANGED <<secret, dialog, unanswered, teamVars, machineVars, disturbed, crashed>>
        /\ dialog[s] = p
    BY <1>1 DEF Submit
  <2>3. /\ isDisabled' \in [Sessions -> SUBSET Buttons] /\ b \in isDisabled'[s]
        /\ \A v \in Sessions : /\ isDisabled[v] \subseteq isDisabled'[v]
                              /\ \A x \in isDisabled'[v] \ isDisabled[v] : v = s /\ x = b
    BY <1>t, <2>2
  <2>4. j.kind = b /\ j.from = s /\ j.got = "pending" /\ j.exercise = p /\ b # "flag"
    BY DEF Buttons
  <2> HIDE DEF j
  <2> QED
    BY <2>1, <2>2, <2>3, <2>4, FetchInv
<1>2. ASSUME NEW c \in Chals, SubmitFlag(c) PROVE ButtonInv'
  <2> DEFINE j == [kind |-> "flag", from |-> Anyone, tag |-> c, exercise |-> ParentOf[c],
                   pc |-> "sent", result |-> "none", got |-> "done"]
  <2>1. j \in Reqs
    BY ParentAssumption DEF Reqs, Kinds, Places
  <2>2. Fetch(j) /\ UNCHANGED <<pageVars, teamVars, machineVars, disturbed, crashed>>
    BY <1>2 DEF SubmitFlag
  <2>3. j.tag \in Chals /\ j.got = "done"
    OBVIOUS
  <2> HIDE DEF j
  <2> QED
    BY <1>t, <2>1, <2>2, <2>3, FetchInv DEF pageVars
<1>3. ASSUME NEW s \in Sessions, NEW p \in Exercises, OpenModal(s, p) PROVE ButtonInv'
  <2> DEFINE f == [r \in Sent |-> IF Waiting(s, r)
                                  THEN [req[r] EXCEPT !.got = "lost", !.from = Anyone]
                                  ELSE req[r]]
  <2>1. /\ dialog' = [dialog EXCEPT ![s] = p]
        /\ isDisabled' = [isDisabled EXCEPT ![s] = {}]
        /\ unanswered' = [unanswered EXCEPT ![s] = {}]
        /\ SetReq(f) /\ UNCHANGED <<secret, teamVars, machineVars, disturbed, crashed>>
    BY <1>3 DEF OpenModal
  <2>2. \A r \in Sent : f[r] \in Reqs
    <3> SUFFICES ASSUME NEW r \in Sent PROVE f[r] \in Reqs
      OBVIOUS
    <3>1. req[r] \in Reqs
      BY <1>t
    <3>2. [req[r] EXCEPT !.got = "lost", !.from = Anyone] \in Reqs
      BY <3>1 DEF Reqs
    <3> QED
      BY <3>1, <3>2
  <2>3. \A r \in Sent : f[r].kind = req[r].kind /\ f[r].tag = req[r].tag
    BY <1>t DEF Reqs
  <2>4. /\ \A r \in Sent : f[r].got = "pending" => f[r] = req[r] /\ req[r].from # s
        /\ \A r \in Sent : req[r].got = "pending" /\ req[r].from # s => f[r] = req[r]
    BY <1>t DEF Reqs, Waiting
  <2>5. DOMAIN f = Sent
    OBVIOUS
  <2> HIDE DEF f
  <2>6. /\ Sent' = {x \in Sent : ~Over(f[x])} /\ Sent' \subseteq Sent /\ (\A x \in Sent' : req'[x] = f[x]) /\ req' \in [Sent' -> Reqs]
    BY <2>1, <2>2, <2>5, SetFacts
  <2>7. TypeOK'
    BY <1>t, <2>1, <2>6 DEF ButtonInv, TypeOK, Reqs, teamVars, machineVars
  <2>8. PendingInv'
    BY <1>t, <2>1, <2>4, <2>6 DEF ButtonInv, PendingInv
  <2>9. WaitInv'
    <3>1. \A v \in Sessions : unanswered'[v] \subseteq isDisabled'[v]
      BY <1>t, <2>1 DEF ButtonInv, WaitInv
    <3>2. ASSUME ~crashed', NEW v \in Sessions, NEW b \in isDisabled'[v]
          PROVE  b \in unanswered'[v] \/ \E x \in Sent' : Waiting(v, x)' /\ req'[x].kind = b
      <4>1. /\ v # s /\ b \in isDisabled[v] /\ unanswered'[v] = unanswered[v] /\ ~crashed
        BY <1>t, <2>1, <3>2
      <4>2. CASE b \in unanswered[v]
        BY <4>1, <4>2
      <4>3. ASSUME NEW x \in Sent, Waiting(v, x), req[x].kind = b
            PROVE  x \in Sent' /\ Waiting(v, x)' /\ req'[x].kind = b
        <5>1. f[x] = req[x] /\ req[x].got = "pending"
          BY <2>4, <4>1, <4>3 DEF Waiting
        <5>2. x \in Sent' /\ req'[x] = req[x]
          BY <2>6, <5>1 DEF Over
        <5> QED
          BY <4>3, <5>2 DEF Waiting
      <4> QED
        BY <4>1, <4>2, <4>3 DEF ButtonInv, WaitInv
    <3> QED
      BY <3>1, <3>2 DEF WaitInv
  <2> QED
    BY <2>3, <2>4, <2>6, <2>7, <2>8, <2>9 DEF ButtonInv, UniqueInv, FlagInv
<1>4. ASSUME NEW r \in Sent, ReadAnswer(r) PROVE ButtonInv'
  <2> DEFINE j == [req[r] EXCEPT !.got = "done"]
             f == [req EXCEPT ![r].got = "done"]
  <2>1. /\ isDisabled' = [isDisabled EXCEPT ![req[r].from] = @ \ {req[r].kind}]
        /\ SetReq(f) /\ UNCHANGED <<secret, dialog, unanswered, teamVars, machineVars, disturbed, crashed>>
        /\ req[r].got = "pending"
    BY <1>4 DEF ReadAnswer
  <2>2. j \in Reqs /\ j.kind = req[r].kind /\ j.tag = req[r].tag /\ j.got = "done"
    <3>1. req[r] \in Reqs
      BY <1>t
    <3> QED
      BY <3>1 DEF Reqs
  <2>3. DOMAIN f = Sent /\ f[r] = j /\ \A x \in Sent : x # r => f[x] = req[x]
    BY <1>t
  <2> HIDE DEF f, j
  <2>4. /\ Sent' = {x \in Sent : ~Over(f[x])} /\ Sent' \subseteq Sent
        /\ (\A x \in Sent' : req'[x] = f[x]) /\ req' \in [Sent' -> Reqs]
    BY <1>t, <2>1, <2>2, <2>3, SetFacts
  <2>k. \A x \in Sent : x # r /\ req[x].got = "pending" => x \in Sent' /\ req'[x] = req[x]
    BY <2>3, <2>4 DEF Over
  <2>5. isDisabled' \in [Sessions -> SUBSET Buttons]
    BY <1>t, <2>1
  <2>6. TypeOK'
    BY <2>1, <2>4, <2>5 DEF ButtonInv, TypeOK, Reqs, teamVars, machineVars
  <2>7. PendingInv'
    <3> SUFFICES ASSUME NEW x \in Sent', req'[x].got = "pending"
                 PROVE  /\ req'[x].kind \in Buttons /\ req'[x].from \in Sessions
                        /\ req'[x].exercise = dialog'[req'[x].from]
                        /\ req'[x].kind \in isDisabled'[req'[x].from]
                        /\ req'[x].kind \notin unanswered'[req'[x].from]
      BY DEF PendingInv
    <3>1. x \in Sent /\ x # r /\ req'[x] = req[x]
      BY <2>2, <2>3, <2>4
    <3>2. ~(req[x].from = req[r].from /\ req[x].kind = req[r].kind)
      BY <2>1, <3>1 DEF ButtonInv, UniqueInv
    <3>3. /\ req[x].kind \in Buttons /\ req[x].from \in Sessions /\ req[x].kind \in isDisabled[req[x].from]
          /\ req[x].exercise = dialog[req[x].from] /\ req[x].kind \notin unanswered[req[x].from]
      BY <3>1 DEF ButtonInv, PendingInv
    <3> QED
      BY <1>t, <2>1, <3>1, <3>2, <3>3
  <2>8. WaitInv'
    <3>1. /\ req[r].from \in Sessions /\ req[r].kind \notin unanswered[req[r].from]
      BY <2>1 DEF ButtonInv, PendingInv
    <3>2. \A v \in Sessions : unanswered'[v] \subseteq isDisabled'[v]
      BY <1>t, <2>1, <3>1 DEF ButtonInv, WaitInv
    <3>3. ASSUME ~crashed', NEW v \in Sessions, NEW b \in isDisabled'[v]
          PROVE  b \in unanswered'[v] \/ \E x \in Sent' : Waiting(v, x)' /\ req'[x].kind = b
      <4>1. /\ b \in isDisabled[v] /\ ~(v = req[r].from /\ b = req[r].kind) /\ ~crashed
            /\ unanswered' = unanswered
        BY <1>t, <2>1, <3>1, <3>3
      <4>2. ASSUME NEW x \in Sent, Waiting(v, x), req[x].kind = b
            PROVE  x \in Sent' /\ Waiting(v, x)' /\ req'[x].kind = b
        BY <2>k, <4>1, <4>2 DEF Waiting
      <4> QED
        BY <4>1, <4>2 DEF ButtonInv, WaitInv
    <3> QED
      BY <3>2, <3>3 DEF WaitInv
  <2> QED
    BY <2>2, <2>3, <2>4, <2>6, <2>7, <2>8 DEF ButtonInv, UniqueInv, FlagInv
<1>5. ASSUME NEW r \in Sent, LoseAnswer(r) PROVE ButtonInv'
  <2> DEFINE j == [req[r] EXCEPT !.got = "lost", !.from = Anyone,
                                 !.pc = IF @ = "sent" THEN "end" ELSE @]
             f == [req EXCEPT ![r].got = "lost", ![r].from = Anyone,
                              ![r].pc = IF @ = "sent" THEN "end" ELSE @]
  <2>1. /\ unanswered' = [unanswered EXCEPT ![req[r].from] = @ \cup {req[r].kind}]
        /\ SetReq(f) /\ UNCHANGED <<secret, dialog, isDisabled, teamVars, machineVars, disturbed, crashed>>
        /\ req[r].got = "pending"
    BY <1>5 DEF LoseAnswer
  <2>2. j \in Reqs /\ j.kind = req[r].kind /\ j.tag = req[r].tag /\ j.got = "lost"
    <3>1. req[r] \in Reqs
      BY <1>t
    <3> QED
      BY <3>1 DEF Reqs, Places
  <2>3. DOMAIN f = Sent /\ f[r] = j /\ \A x \in Sent : x # r => f[x] = req[x]
    BY <1>t
  <2> HIDE DEF f, j
  <2>4. /\ Sent' = {x \in Sent : ~Over(f[x])} /\ Sent' \subseteq Sent
        /\ (\A x \in Sent' : req'[x] = f[x]) /\ req' \in [Sent' -> Reqs]
    BY <1>t, <2>1, <2>2, <2>3, SetFacts
  <2>k. \A x \in Sent : x # r /\ req[x].got = "pending" => x \in Sent' /\ req'[x] = req[x]
    BY <2>3, <2>4 DEF Over
  <2>5. unanswered' \in [Sessions -> SUBSET Buttons]
    BY <1>t, <2>1 DEF ButtonInv, PendingInv
  <2>6. TypeOK'
    BY <2>1, <2>4, <2>5 DEF ButtonInv, TypeOK, Reqs, teamVars, machineVars
  <2>7. /\ req[r].from \in Sessions /\ req[r].kind \in isDisabled[req[r].from]
    BY <2>1 DEF ButtonInv, PendingInv
  <2>8. PendingInv'
    <3> SUFFICES ASSUME NEW x \in Sent', req'[x].got = "pending"
                 PROVE  /\ req'[x].kind \in Buttons /\ req'[x].from \in Sessions
                        /\ req'[x].exercise = dialog'[req'[x].from]
                        /\ req'[x].kind \in isDisabled'[req'[x].from]
                        /\ req'[x].kind \notin unanswered'[req'[x].from]
      BY DEF PendingInv
    <3>1. x \in Sent /\ x # r /\ req'[x] = req[x]
      BY <2>2, <2>3, <2>4
    <3>2. ~(req[x].from = req[r].from /\ req[x].kind = req[r].kind)
      BY <2>1, <3>1 DEF ButtonInv, UniqueInv
    <3>3. /\ req[x].kind \in Buttons /\ req[x].from \in Sessions /\ req[x].kind \in isDisabled[req[x].from]
          /\ req[x].exercise = dialog[req[x].from] /\ req[x].kind \notin unanswered[req[x].from]
      BY <3>1 DEF ButtonInv, PendingInv
    <3> QED
      BY <1>t, <2>1, <2>7, <3>1, <3>2, <3>3
  <2>9. WaitInv'
    <3>1. \A v \in Sessions : unanswered'[v] \subseteq isDisabled'[v]
      BY <1>t, <2>1, <2>7 DEF ButtonInv, WaitInv
    <3>2. ASSUME ~crashed', NEW v \in Sessions, NEW b \in isDisabled'[v]
          PROVE  b \in unanswered'[v] \/ \E x \in Sent' : Waiting(v, x)' /\ req'[x].kind = b
      <4>1. /\ b \in isDisabled[v] /\ ~crashed /\ unanswered[v] \subseteq unanswered'[v]
            /\ (v = req[r].from /\ b = req[r].kind => b \in unanswered'[v])
        BY <1>t, <2>1, <2>7, <3>2
      <4>2. ASSUME NEW x \in Sent, Waiting(v, x), req[x].kind = b, b \notin unanswered'[v]
            PROVE  x \in Sent' /\ Waiting(v, x)' /\ req'[x].kind = b
        BY <2>k, <4>1, <4>2 DEF Waiting
      <4> QED
        BY <4>1, <4>2 DEF ButtonInv, WaitInv
    <3> QED
      BY <3>1, <3>2 DEF WaitInv
  <2> QED
    BY <2>1, <2>2, <2>3, <2>4, <2>6, <2>8, <2>9 DEF ButtonInv, UniqueInv, FlagInv
<1>6. ASSUME NEW r \in Sent, Serve(r) PROVE ButtonInv'
  BY <1>6, ServeFacts, ServeInv
<1>7. CASE Crash
  <2>1. Sent' = {} /\ req' \in [Sent' -> Reqs]
    BY <1>7 DEF Crash, Sent
  <2>2. TypeOK'
    BY <1>7, <2>1 DEF Crash, ButtonInv, TypeOK, Reqs, pageVars, machineVars
  <2>3. WaitInv'
    BY <1>7 DEF Crash, ButtonInv, WaitInv, pageVars
  <2> QED
    BY <2>1, <2>2, <2>3 DEF ButtonInv, PendingInv, UniqueInv, FlagInv
<1>8. CASE UNCHANGED vars
  BY <1>8 DEF vars, ButtonInv, TypeOK, PendingInv, UniqueInv, FlagInv, WaitInv, Waiting, Sent
<1> QED
  BY <1>1, <1>2, <1>3, <1>4, <1>5, <1>6, <1>7, <1>8
  DEF Next, User, RunChallenge, ResetChallenge, RunAnswered, ResetAnswered, Die, VerifyFlagFatal,
    SeeDisabledRace, Buttons

(* Types and buttons, for every set of pages and any number of requests. *)
THEOREM ButtonInvariant == Spec => []ButtonInv
<1>1. ButtonInv /\ [Next]_vars => ButtonInv'
  BY ButtonInvStep
<1> QED
  BY <1>1, ButtonInvInit, PTL DEF Spec

(* The state of the dialog, of its requests and of the team stays within   *)
(* its types.                                                              *)
THEOREM ControlsTypes == Spec => []TypeOK
<1>1. ButtonInv => TypeOK
  BY DEF ButtonInv
<1> QED
  BY <1>1, ButtonInvariant, PTL

(* The dialog shown has at most one request per button under way and       *)
(* disables the button exactly for so long (RunChallenge.vue and           *)
(* ResetChallenge.vue, isDisabled), however many dialogs were closed       *)
(* before their requests were answered.                                    *)
THEOREM ButtonsOnce == Spec => []OnePerButton
<1>1. ButtonInv => OnePerButton
  <2> SUFFICES ASSUME ButtonInv, NEW s \in Sessions, NEW b \in Buttons,
                      NEW W, W = {r \in Sent : Waiting(s, r) /\ req[r].kind = b}
               PROVE  /\ Cardinality(W) <= 1
                      /\ \A r \in W : Exercise(r) = dialog[s]
                      /\ ~crashed => (b \in isDisabled[s] <=> b \in unanswered[s] \/ W # {})
    BY DEF OnePerButton
  <2>1. \A q, r \in W : q = r
    BY DEF ButtonInv, UniqueInv, Waiting
  <2>2. W = {} => Cardinality(W) = 0
    BY FS_EmptySet
  <2>3. ASSUME NEW r \in W PROVE Cardinality(W) = 1
    <3>1. W = {r}
      BY <2>1, <2>3
    <3> QED
      BY <3>1, FS_Singleton
  <2>4. Cardinality(W) <= 1
    BY <2>2, <2>3, FS_EmptySet
  <2>5. \A r \in W : Exercise(r) = dialog[s] /\ b \in isDisabled[s]
    BY DEF ButtonInv, PendingInv, Waiting, Exercise
  <2>6. unanswered[s] \subseteq isDisabled[s]
    BY DEF ButtonInv, WaitInv
  <2>7. ~crashed /\ b \in isDisabled[s] => b \in unanswered[s] \/ W # {}
    <3>1. ~crashed /\ b \in isDisabled[s] =>
            b \in unanswered[s] \/ \E r \in Sent : Waiting(s, r) /\ req[r].kind = b
      BY DEF ButtonInv, WaitInv
    <3> QED
      BY <3>1
  <2> QED
    BY <2>4, <2>5, <2>6, <2>7
<1> QED
  BY <1>1, ButtonInvariant, PTL

-----------------------------------------------------------------------------
(* The list and the machines. *)

(* A step that no operation on machines takes. *)
LEMMA QuietStep ==
    ASSUME MachineInv,
           UNCHANGED <<disabled, running, lost, disturbed, crashed>>,
           \A x \in Sent' : req'[x].pc \in Busy =>
               x \in Sent /\ req'[x].exercise = req[x].exercise /\ req'[x].pc = req[x].pc,
           \A x \in Sent : req[x].pc \in Busy =>
               x \in Sent' /\ req'[x].exercise = req[x].exercise /\ req'[x].pc = req[x].pc
    PROVE  MachineInv'
<1>1. \A p \in Exercises : /\ Active(p)' = Active(p)
                           /\ \A x \in Active(p) : req'[x].pc = req[x].pc
  BY DEF Active, Exercise
<1> SUFFICES ASSUME ~crashed, NEW p \in Exercises, p \notin disturbed
             PROVE  InTurn(p)'
  BY DEF MachineInv
<1>2. InTurn(p)
  BY DEF MachineInv
<1>3. \A w : At(w, p)' <=> At(w, p)
  BY DEF At
<1> QED
  BY <1>1, <1>2, <1>3 DEF InTurn

(* An operation on e begins, moves on or ends. *)
LEMMA TurnStep ==
    ASSUME TypeOK, MachineInv, ~crashed, NEW r \in Sent, NEW e \in Exercises,
           Exercise(r) = e, NEW w \in Places,
           \/ Goto(r, w)
           \/ \E res \in {"none", "ok", "error"} : Reply(r, w, res),
           disturbed \subseteq disturbed',
           \A p \in Exercises : p # e => /\ p \in disabled' <=> p \in disabled
                                         /\ p \in running' <=> p \in running
                                         /\ p \in lost' <=> p \in lost,
           e \notin disturbed' => /\ req[r].pc \in Busy \/ Active(e) = {}
                                  /\ w \in Busy => At(w, e)'
                                  /\ w \notin Busy => At("idle", e)'
    PROVE  MachineInv'
<1>1. /\ Sent' \subseteq Sent
      /\ \A x \in Sent' : x # r => req'[x] = req[x]
      /\ r \in Sent' => req'[r].exercise = e /\ req'[r].pc = w
      /\ \A x \in Sent : x # r /\ req[x].pc \in Busy => x \in Sent'
      /\ w \in Busy => r \in Sent'
  BY Moves DEF Exercise
<1> SUFFICES ASSUME ~crashed', NEW p \in Exercises, p \notin disturbed'
             PROVE  InTurn(p)'
  BY DEF MachineInv
<1>2. InTurn(p)
  BY DEF MachineInv
<1>3. CASE p # e
  <2>1. Active(p)' = Active(p) /\ \A x \in Active(p) : req'[x].pc = req[x].pc
    BY <1>1, <1>3 DEF Active, Exercise
  <2>2. \A v : At(v, p)' <=> At(v, p)
    BY <1>3 DEF At
  <2> QED
    BY <1>2, <2>1, <2>2 DEF InTurn
<1>4. CASE p = e
  <2>1. Active(e) \subseteq {r}
    BY <1>2, <1>4 DEF InTurn, Active
  <2>2. CASE w \in Busy
    <3>1. Active(e)' = {r} /\ req'[r].pc = w
      BY <1>1, <2>1, <2>2 DEF Active, Exercise
    <3>2. At(w, e)'
      BY <1>4, <2>2
    <3> QED
      BY <1>4, <3>1, <3>2 DEF InTurn
  <2>3. CASE w \notin Busy
    <3>1. Active(e)' = {}
      BY <1>1, <2>1, <2>3 DEF Active, Exercise
    <3>2. At("idle", e)'
      BY <1>4, <2>3
    <3> QED
      BY <1>4, <3>1, <3>2 DEF InTurn
  <2> QED
    BY <2>2, <2>3
<1> QED
  BY <1>3, <1>4

(* Handlers keep MachineInv. *)
LEMMA ServeMachines ==
    ASSUME ButtonInv, MachineInv, ~crashed, NEW r \in Sent, Serve(r)
    PROVE  MachineInv'
<1>1. PICK e \in Exercises : Exercise(r) = e
  BY ReqTypes DEF ButtonInv, Exercise, Reqs
<1>2. TypeOK
  BY DEF ButtonInv
<1>3. {"sent", "check", "end", "stop", "list", "start", "halt", "relist", "create", "see",
       "unlist"} \subseteq Places
  BY DEF Places, Busy
<1>4. e \notin disturbed => /\ req[r].pc \in Busy => At(req[r].pc, e)
                            /\ Active(e) = {} => At("idle", e)
  BY <1>1 DEF MachineInv, InTurn, Active
<1> DEFINE Moved(w) == \/ Goto(r, w)
                       \/ \E res \in {"none", "ok", "error"} : Reply(r, w, res)
<1>5. ASSUME req[r].pc \notin Busy, NEW w \in Places \ Busy, Moved(w),
             UNCHANGED <<disabled, running, lost, disturbed, crashed>>
      PROVE  MachineInv'
  <2>1. /\ Sent' \subseteq Sent
        /\ \A x \in Sent' : x # r => req'[x] = req[x]
        /\ r \in Sent' => req'[r].pc = w
        /\ \A x \in Sent : x # r /\ req[x].pc \in Busy => x \in Sent'
    BY <1>2, <1>5, Moves
  <2> QED
    BY <1>5, <2>1, QuietStep
<1>6. ASSUME NEW w \in Places, Moved(w), disturbed \subseteq disturbed',
             \A p \in Exercises : p # e => /\ p \in disabled' <=> p \in disabled
                                           /\ p \in running' <=> p \in running
                                           /\ p \in lost' <=> p \in lost,
             e \notin disturbed' => /\ req[r].pc \in Busy \/ Active(e) = {}
                                    /\ w \in Busy => At(w, e)'
                                    /\ w \notin Busy => At("idle", e)'
      PROVE  MachineInv'
  BY <1>1, <1>2, <1>6, TurnStep
<1>7. CASE VerifyFlag(r) \/ RefuseFlag(r)
  <2>1. req[r].pc \notin Busy /\ "check" \in Places \ Busy /\ "end" \in Places \ Busy
    BY <1>7 DEF VerifyFlag, RefuseFlag, Busy, Places
  <2>2. Moved("check") \/ Moved("end")
    BY <1>7 DEF VerifyFlag, RefuseFlag
  <2>3. UNCHANGED <<disabled, running, lost, disturbed, crashed>>
    BY <1>7 DEF VerifyFlag, RefuseFlag, teamVars, machineVars
  <2> HIDE DEF Moved
  <2> QED
    BY <1>5, <2>1, <2>2, <2>3
<1>8. CASE CheckChildren(r)
  <2>1. req[r].pc \notin Busy /\ UNCHANGED <<disabled, running, lost, crashed>>
    BY <1>8 DEF CheckChildren, Busy, teamVars, machineVars
  <2>2. CASE Goto(r, "end") /\ UNCHANGED disturbed
    <3>1. "end" \in Places \ Busy
      BY DEF Places, Busy
    <3> QED
      BY <1>5, <2>1, <2>2, <3>1
  <2>3. CASE Goto(r, "stop") /\ Begin(r)
    <3>1. disturbed \subseteq disturbed' /\ (e \notin disturbed' => e \notin disturbed /\ Active(e) = {})
      BY <1>1, <2>3 DEF Begin
    <3>2. e \notin disturbed' => At("stop", e)'
      BY <1>4, <2>1, <3>1 DEF At
    <3>3. "stop" \in Places /\ "stop" \in Busy /\ Moved("stop")
      BY <2>3 DEF Places, Busy
    <3> HIDE DEF Moved
    <3> QED
      BY <1>6, <2>1, <3>1, <3>2, <3>3
  <2> QED
    BY <1>8, <2>2, <2>3 DEF CheckChildren
<1>9. CASE StopSolved(r) \/ StopSolvedFails(r)
  <2>1. /\ req[r].pc = "stop" /\ Moved("list") /\ disturbed \subseteq disturbed'
        /\ UNCHANGED <<disabled, lost, crashed>>
    BY <1>9 DEF StopSolved, StopSolvedFails, Disturb, teamVars
  <2>2. e \notin disturbed' => e \notin disturbed /\ running' = running \ {e}
    BY <1>1, <1>9 DEF StopSolved, StopSolvedFails, Disturb
  <2>3. \A p \in Exercises : p # e => (p \in running' <=> p \in running)
    BY <1>1, <1>9 DEF StopSolved, StopSolvedFails
  <2>4. "list" \in Places /\ "list" \in Busy /\ "stop" \in Busy
    BY DEF Places, Busy
  <2>5. e \notin disturbed' => At("list", e)'
    BY <1>4, <2>1, <2>2, <2>4 DEF At
  <2> HIDE DEF Moved
  <2> QED
    BY <1>6, <2>1, <2>3, <2>4, <2>5
<1>10. CASE ListSolved(r) \/ Relist(r)
  <2>1. /\ req[r].pc \in {"list", "relist"} /\ Moved("end") /\ disabled' = disabled \cup {e}
        /\ UNCHANGED <<running, lost, disturbed, crashed>>
    BY <1>1, <1>10 DEF ListSolved, Relist, machineVars
  <2>2. "end" \in Places /\ "end" \notin Busy /\ "list" \in Busy /\ "relist" \in Busy
    BY DEF Places, Busy
  <2>3. e \notin disturbed' => At("idle", e)'
    BY <1>4, <2>1, <2>2 DEF At
  <2> HIDE DEF Moved
  <2> QED
    BY <1>6, <2>1, <2>2, <2>3
<1>11. CASE ManageChallenge(r)
  <2> DEFINE w == IF e \in disabled THEN "start" ELSE "halt"
  <2>1. /\ Moved(w) /\ UNCHANGED <<running, lost, crashed>>
        /\ disabled' = IF e \in disabled THEN disabled \ {e} ELSE disabled \cup {e}
    BY <1>1, <1>11 DEF ManageChallenge, Toggle, machineVars
  <2>2. disturbed \subseteq disturbed' /\ (e \notin disturbed' => e \notin disturbed /\ Active(e) = {})
    BY <1>1, <1>11 DEF ManageChallenge, Begin
  <2>3. w \in Places /\ w \in Busy
    BY DEF Places, Busy
  <2>4. e \notin disturbed' => (w = "start" => At("start", e)') /\ (w = "halt" => At("halt", e)')
    BY <1>4, <2>1, <2>2 DEF At
  <2>5. w = "start" \/ w = "halt"
    OBVIOUS
  <2> HIDE DEF Moved, w
  <2>6. PICK v \in Places : v = w
    BY <2>3
  <2>7. e \notin disturbed' => At(v, e)'
    BY <2>4, <2>5, <2>6
  <2>8. \A p \in Exercises : p # e => (p \in disabled' <=> p \in disabled)
    BY <2>1
  <2>9. Moved(v) /\ v \in Busy
    BY <2>1, <2>3, <2>6
  <2> QED
    BY <1>6, <2>1, <2>2, <2>7, <2>8, <2>9
<1>12. CASE StartByTag(r)
  <2>1. /\ req[r].pc = "start" /\ Moved("end") /\ running' = running \cup ({e} \ lost)
        /\ UNCHANGED <<disabled, lost, disturbed, crashed>>
    BY <1>1, <1>12 DEF StartByTag, teamVars
  <2>2. "end" \in Places /\ "end" \notin Busy /\ "start" \in Busy
    BY DEF Places, Busy
  <2>3. e \notin disturbed' => At("idle", e)'
    BY <1>4, <2>1, <2>2 DEF At
  <2> HIDE DEF Moved
  <2> QED
    BY <1>6, <2>1, <2>2, <2>3
<1>13. CASE StartFails(r)
  <2>1. /\ req[r].pc = "start" /\ Moved("relist")
        /\ UNCHANGED <<running, disabled, lost, disturbed, crashed>>
    BY <1>13 DEF StartFails, teamVars, machineVars
  <2>2. "relist" \in Places /\ "relist" \in Busy /\ "start" \in Busy
    BY DEF Places, Busy
  <2>3. e \notin disturbed' => At("relist", e)'
    BY <1>4, <2>1, <2>2 DEF At
  <2> HIDE DEF Moved
  <2> QED
    BY <1>6, <2>1, <2>2, <2>3
<1>14. CASE StopByTag(r)
  <2>1. /\ req[r].pc = "halt" /\ Moved("end") /\ running' = running \ {e}
        /\ UNCHANGED <<disabled, lost, disturbed, crashed>>
    BY <1>1, <1>14 DEF StopByTag, teamVars
  <2>2. "end" \in Places /\ "end" \notin Busy /\ "halt" \in Busy
    BY DEF Places, Busy
  <2>3. e \notin disturbed' => At("idle", e)'
    BY <1>4, <2>1, <2>2 DEF At
  <2> HIDE DEF Moved
  <2> QED
    BY <1>6, <2>1, <2>2, <2>3
<1>15. CASE StopFails(r)
  <2>1. /\ Moved("relist") /\ disturbed' = disturbed \cup {e}
        /\ UNCHANGED <<disabled, lost, crashed>>
        /\ \A p \in Exercises : p # e => (p \in running' <=> p \in running)
    BY <1>1, <1>15 DEF StopFails, Disturb, teamVars
  <2>2. "relist" \in Places
    BY DEF Places, Busy
  <2> HIDE DEF Moved
  <2> QED
    BY <1>6, <2>1, <2>2
<1>16. CASE ResetClose(r)
  <2>1. Moved("create") /\ running' = running \ {e} /\ lost' = lost \cup {e} /\ UNCHANGED <<disabled, crashed>>
    BY <1>1, <1>16 DEF ResetClose, teamVars
  <2>2. disturbed \subseteq disturbed' /\ (e \notin disturbed' => e \notin disturbed /\ Active(e) = {})
    BY <1>1, <1>16 DEF ResetClose, Begin
  <2>3. "create" \in Places /\ "create" \in Busy
    BY DEF Places, Busy
  <2>4. At("create", e)'
    BY DEF At
  <2> HIDE DEF Moved
  <2> QED
    BY <1>6, <2>1, <2>2, <2>3, <2>4
<1>17. CASE ResetCreate(r)
  <2>1. /\ req[r].pc = "create" /\ Moved("see") /\ running' = running \cup {e} /\ lost' = lost \ {e}
        /\ UNCHANGED <<disabled, disturbed, crashed>>
    BY <1>1, <1>17 DEF ResetCreate, teamVars
  <2>2. "see" \in Places /\ "see" \in Busy /\ "create" \in Busy
    BY DEF Places, Busy
  <2>3. At("see", e)'
    BY <2>1 DEF At
  <2> HIDE DEF Moved
  <2> QED
    BY <1>6, <2>1, <2>2, <2>3
<1>18. CASE ResetFails(r)
  <2>1. /\ Moved("end") /\ disturbed' = disturbed \cup {e}
        /\ UNCHANGED <<disabled, running, crashed>>
        /\ \A p \in Exercises : p # e => (p \in lost' <=> p \in lost)
    BY <1>1, <1>18 DEF ResetFails, Disturb, teamVars
  <2>2. "end" \in Places
    BY DEF Places, Busy
  <2> HIDE DEF Moved
  <2> QED
    BY <1>6, <2>1, <2>2
<1>19. CASE SeeDisabled(r)
  <2>1. /\ req[r].pc = "see" /\ UNCHANGED <<disabled, running, lost, disturbed, crashed>>
        /\ \/ e \in disabled /\ Moved("unlist")
           \/ e \notin disabled /\ Moved("end")
    BY <1>1, <1>19 DEF SeeDisabled, teamVars, machineVars
  <2>2. /\ "unlist" \in Places /\ "end" \in Places
        /\ "unlist" \in Busy /\ "see" \in Busy /\ "end" \notin Busy
    BY DEF Places, Busy
  <2>3. e \notin disturbed' => /\ e \in disabled => At("unlist", e)'
                               /\ e \notin disabled => At("idle", e)'
    BY <1>4, <2>1, <2>2 DEF At
  <2> HIDE DEF Moved
  <2> QED
    BY <1>6, <2>1, <2>2, <2>3
<1>20. CASE Unlist(r)
  <2>1. /\ req[r].pc = "unlist" /\ Moved("end") /\ UNCHANGED <<running, lost, disturbed, crashed>>
        /\ disabled' = IF e \in disabled THEN disabled \ {e} ELSE disabled \cup {e}
    BY <1>1, <1>20 DEF Unlist, Toggle, machineVars
  <2>2. "end" \in Places /\ "end" \notin Busy /\ "unlist" \in Busy
    BY DEF Places, Busy
  <2>3. e \notin disturbed' => At("idle", e)'
    BY <1>4, <2>1, <2>2 DEF At
  <2> HIDE DEF Moved
  <2> QED
    BY <1>6, <2>1, <2>2, <2>3
<1> QED
  BY <1>7, <1>8, <1>9, <1>10, <1>11, <1>12, <1>13, <1>14, <1>15, <1>16, <1>17, <1>18, <1>19, <1>20
  DEF Serve

(* Every step keeps MachineInv. *)
LEMMA MachineInvStep ==
    ASSUME ButtonInv, MachineInv, [Next]_vars
    PROVE  MachineInv'
<1>t. req \in [Sent -> Reqs]
  BY ReqTypes DEF ButtonInv
<1>1. ASSUME NEW j, j.pc = "sent", Fetch(j), UNCHANGED <<teamVars, machineVars, disturbed, crashed>>
      PROVE  MachineInv'
  <2>1. PICK r \in Ids \ Sent : req' = [x \in Sent \cup {r} |-> IF x = r THEN j ELSE req[x]]
    BY <1>1 DEF Fetch
  <2>2. Sent' = Sent \cup {r} /\ req'[r] = j /\ \A x \in Sent : req'[x] = req[x]
    BY <2>1 DEF Sent
  <2>3. "sent" \notin Busy
    BY DEF Busy
  <2> QED
    BY <1>1, <2>2, <2>3, QuietStep DEF teamVars, machineVars
<1>2. ASSUME NEW s \in Sessions, NEW p \in Exercises, NEW b \in Buttons, Submit(s, b, p)
      PROVE  MachineInv'
  <2> DEFINE j == [kind |-> b, from |-> s, tag |-> b, exercise |-> p,
                   pc |-> "sent", result |-> "none", got |-> "pending"]
  <2>1. Fetch(j) /\ j.pc = "sent" /\ UNCHANGED <<teamVars, machineVars, disturbed, crashed>>
    BY <1>2 DEF Submit, Post
  <2> HIDE DEF j
  <2> QED
    BY <1>1, <2>1
<1>3. ASSUME NEW c \in Chals, SubmitFlag(c) PROVE MachineInv'
  <2> DEFINE j == [kind |-> "flag", from |-> Anyone, tag |-> c, exercise |-> ParentOf[c],
                   pc |-> "sent", result |-> "none", got |-> "done"]
  <2>1. Fetch(j) /\ j.pc = "sent" /\ UNCHANGED <<teamVars, machineVars, disturbed, crashed>>
    BY <1>3 DEF SubmitFlag
  <2> HIDE DEF j
  <2> QED
    BY <1>1, <2>1
<1>4. ASSUME NEW f, SetReq(f), DOMAIN f = Sent,
             \A x \in Sent : /\ f[x].exercise = req[x].exercise
                             /\ f[x].pc = req[x].pc \/ (f[x].pc \notin Busy /\ req[x].pc \notin Busy),
             UNCHANGED <<teamVars, machineVars, disturbed, crashed>>
      PROVE  MachineInv'
  <2>1. /\ Sent' = {x \in Sent : ~Over(f[x])} /\ \A x \in Sent' : req'[x] = f[x]
    BY <1>4, SetFacts
  <2>2. \A x \in Sent : f[x].pc \in Busy => ~Over(f[x])
    BY DEF Over, Busy
  <2> QED
    BY <1>4, <2>1, <2>2, QuietStep DEF teamVars, machineVars
<1>5. ASSUME NEW s \in Sessions, NEW p \in Exercises, OpenModal(s, p) PROVE MachineInv'
  <2> DEFINE f == [r \in Sent |-> IF Waiting(s, r)
                                  THEN [req[r] EXCEPT !.got = "lost", !.from = Anyone]
                                  ELSE req[r]]
  <2>1. SetReq(f) /\ UNCHANGED <<teamVars, machineVars, disturbed, crashed>>
    BY <1>5 DEF OpenModal
  <2>2. DOMAIN f = Sent /\ \A x \in Sent : f[x].exercise = req[x].exercise /\ f[x].pc = req[x].pc
    BY <1>t DEF Reqs
  <2> HIDE DEF f
  <2> QED
    BY <1>4, <2>1, <2>2
<1>6. ASSUME NEW r \in Sent, ReadAnswer(r) PROVE MachineInv'
  <2> DEFINE f == [req EXCEPT ![r].got = "done"]
  <2>1. SetReq(f) /\ UNCHANGED <<teamVars, machineVars, disturbed, crashed>>
    BY <1>6 DEF ReadAnswer
  <2>2. DOMAIN f = Sent /\ \A x \in Sent : f[x].exercise = req[x].exercise /\ f[x].pc = req[x].pc
    BY <1>t DEF Reqs
  <2> HIDE DEF f
  <2> QED
    BY <1>4, <2>1, <2>2
<1>7. ASSUME NEW r \in Sent, LoseAnswer(r) PROVE MachineInv'
  <2> DEFINE f == [req EXCEPT ![r].got = "lost", ![r].from = Anyone,
                              ![r].pc = IF @ = "sent" THEN "end" ELSE @]
  <2>1. SetReq(f) /\ UNCHANGED <<teamVars, machineVars, disturbed, crashed>>
    BY <1>7 DEF LoseAnswer
  <2>2. DOMAIN f = Sent /\ \A x \in Sent : f[x].exercise = req[x].exercise
    BY <1>t DEF Reqs
  <2>3. \A x \in Sent : f[x].pc = req[x].pc \/ (f[x].pc = "end" /\ req[x].pc = "sent")
    BY <1>t DEF Reqs
  <2>4. "end" \notin Busy /\ "sent" \notin Busy
    BY DEF Busy
  <2> HIDE DEF f
  <2> QED
    BY <1>4, <2>1, <2>2, <2>3, <2>4
<1>8. CASE Crash
  BY <1>8 DEF Crash, MachineInv
<1>9. CASE UNCHANGED vars
  BY <1>9 DEF vars, MachineInv, InTurn, At, Active, Exercise, Sent
<1> QED
  BY <1>2, <1>3, <1>5, <1>6, <1>7, <1>8, <1>9, ServeMachines
  DEF Next, User, RunChallenge, ResetChallenge, RunAnswered, ResetAnswered, Die, VerifyFlagFatal,
    SeeDisabledRace, Buttons

(* As long as the daemon lives and the operations on an exercise came one  *)
(* after the other, its list entry and its machines are what the point     *)
(* says that the one operation under way has reached (amigo.go, the hooks  *)
(* of daemon/event.go).                                                    *)
THEOREM MachineInvariant == Spec => [](ButtonInv /\ MachineInv)
<1>1. Init => MachineInv
  <2> SUFFICES ASSUME Init, NEW p \in Exercises PROVE InTurn(p)
    BY DEF MachineInv
  <2>1. Active(p) = {}
    BY DEF Init, Active, Sent
  <2>2. At("idle", p)
    BY DEF Init, At
  <2> QED
    BY <2>1, <2>2 DEF InTurn
<1>2. ButtonInv /\ MachineInv /\ [Next]_vars => (ButtonInv /\ MachineInv)'
  BY ButtonInvStep, MachineInvStep
<1> QED
  BY <1>1, <1>2, ButtonInvInit, PTL DEF Spec

(* The list the page is painted from says what the machines do: start and  *)
(* stop by a button, the stop after the last flag, resets, failed starts   *)
(* and lost answers leave an exercise in the list exactly when it does not *)
(* run, unless operations on it overlapped or a machine disobeyed.         *)
THEOREM ListTells == Spec => []ListMatchesMachines
<1>1. MachineInv => ListMatchesMachines
  BY DEF MachineInv, InTurn, At, ListMatchesMachines
<1> QED
  BY <1>1, MachineInvariant, PTL

=============================================================================
