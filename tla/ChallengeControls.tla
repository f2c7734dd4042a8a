------------------------- MODULE ChallengeControls -------------------------
(***************************************************************************)
(* The controls of the challenge dialog (FlagChecker.vue, RunChallenge.vue,*)
(* ResetChallenge.vue inside ChallengeModal.vue) in the browsers of one    *)
(* team, and the handlers they call (amigo.go, the hooks of event.go, the  *)
(* list of disabled challenges in store/team.go).                          *)
(*                                                                         *)
(* Every fetch is a request with a program counter in the server and an    *)
(* answer that reaches the page later, or never; a request that is over on *)
(* both sides is forgotten, and so is where a flag came from: nothing on   *)
(* the page waits for its answer.  The machines are external: an exercise  *)
(* runs when all its machines do, and is lost when a reset destroyed them  *)
(* and did not create new ones.  The team has its lab: the dialog does not *)
(* open otherwise.  Which dialog is open is the choice of the user; a      *)
(* dialog that closes takes its buttons with it, and the next one starts   *)
(* with new ones.  What it displays is left out, and what the page does    *)
(* after a success is Reload of PageFeed.                                  *)
(***************************************************************************)
EXTENDS Integers, FiniteSets

CONSTANTS
    Sessions,    \* browser pages of the members of the team
    Chals,       \* tags of challenges, one flag each
    Exercises,   \* tags of their parents, one set of machines each
    ParentOf,    \* getParentChallengeTag
    MaxReqs,     \* bound: requests under way at a time
    MaxLost      \* bound: pages with a button whose answer got lost

ASSUME ParentAssumption == ParentOf \in [Chals -> Exercises]
ASSUME BoundsAssumption == MaxReqs \in Nat /\ MaxLost \in Nat

Buttons == {"run", "reset"}
Kinds == Buttons \cup {"flag"}
Anyone == "anyone"
Ids == 1..MaxReqs

VARIABLES
    secret,    \* recaptcha.secret is set; it never changes
    dialog,    \* the exercise of the last dialog shown, per session
    isDisabled,\* the buttons that wait for an answer, per session
    unanswered,\* the buttons whose answer got lost, per session
    req,       \* the requests under way, by number
    solved,    \* challenges with CompletedAt set
    disabled,  \* keys of disabledChallenges
    running,   \* exercises whose machines run
    lost,      \* exercises left without machines
    disturbed, \* history: operations overlapped, or a machine misbehaved
    crashed    \* the daemon has died

pageVars == <<secret, dialog, isDisabled, unanswered>>
teamVars == <<solved, disabled>>
machineVars == <<running, lost>>
vars == <<secret, dialog, isDisabled, unanswered, req, solved, disabled,
          running, lost, disturbed, crashed>>

Sent == DOMAIN req
Exercise(r) == req[r].exercise
Children(p) == {c \in Chals : ParentOf[c] = p}

(* The event may have exercises disabled from the start: they are created  *)
(* and not started.                                                        *)
Init ==
    /\ secret \in BOOLEAN
    /\ dialog \in [Sessions -> Exercises]
    /\ isDisabled = [s \in Sessions |-> {}]
    /\ unanswered = [s \in Sessions |-> {}]
    /\ req = [r \in {} |-> 0]
    /\ solved = {}
    /\ disabled \in SUBSET Exercises
    /\ running = Exercises \ disabled
    /\ lost = {}
    /\ disturbed = {}
    /\ crashed = FALSE

-----------------------------------------------------------------------------
(* The page. *)

Over(q) == q.pc = "end" /\ q.got # "pending"

(* req' is f without the requests that are over. *)
SetReq(f) == req' = [r \in {x \in DOMAIN f : ~Over(f[x])} |-> f[r]]

Fetch(request) ==
    \E r \in Ids \ Sent :
        /\ \A x \in Ids \ Sent : r <= x
        /\ req' = [x \in Sent \cup {r} |-> IF x = r THEN request ELSE req[x]]

(* Mutation: handleFlagVerify uses the tag for that of the exercise. *)
SubmitFlagNoParent(c) ==
    /\ Fetch([kind |-> "flag", from |-> Anyone, tag |-> c, exercise |-> c,
              pc |-> "sent", result |-> "none", got |-> "done"])
    /\ UNCHANGED <<pageVars, teamVars, machineVars, disturbed, crashed>>

(* submit of FlagChecker: nothing keeps the user from submitting again. *)
SubmitFlag(c) ==
    /\ Fetch([kind |-> "flag", from |-> Anyone, tag |-> c,
              exercise |-> ParentOf[c],
              pc |-> "sent", result |-> "none", got |-> "done"])
    /\ UNCHANGED <<pageVars, teamVars, machineVars, disturbed, crashed>>

(* POST of the tag of the dialog's challenge, of which the server uses the *)
(* exercise p.                                                             *)
Post(s, b, p) ==
    Fetch([kind |-> b, from |-> s, tag |-> b, exercise |-> p,
           pc |-> "sent", result |-> "none", got |-> "pending"])

(* Mutation: the button stays enabled. *)
SubmitTwice(s, b, p) ==
    /\ dialog[s] = p /\ b \notin isDisabled[s]
    /\ Post(s, b, p)
    /\ UNCHANGED <<pageVars, teamVars, machineVars, disturbed, crashed>>

Submit(s, b, p) ==
    /\ dialog[s] = p
    /\ b \notin isDisabled[s]
    /\ Post(s, b, p)
    /\ isDisabled' = [isDisabled EXCEPT ![s] = @ \cup {b}]
    /\ UNCHANGED <<secret, dialog, unanswered, teamVars, machineVars, disturbed, crashed>>

(* submit of RunChallenge, and of ResetChallenge, up to the await. *)
RunChallenge(s, p) == Submit(s, "run", p)
ResetChallenge(s, p) == Submit(s, "reset", p)

Waiting(s, r) == req[r].from = s /\ req[r].got = "pending"

(* Mutation: an error leaves the button disabled. *)
ReadAnswerKeepsButton(r) ==
    /\ req[r].got = "pending" /\ req[r].result # "none"
    /\ SetReq([req EXCEPT ![r].got = "done"])
    /\ isDisabled' = IF req[r].result = "ok"
                     THEN [isDisabled EXCEPT ![req[r].from] = @ \ {req[r].kind}]
                     ELSE isDisabled
    /\ UNCHANGED <<secret, dialog, unanswered, teamVars, machineVars, disturbed, crashed>>

(* The answer, ok or an error, is read. *)
ReadAnswer(r) ==
    /\ req[r].got = "pending" /\ req[r].result # "none"
    /\ SetReq([req EXCEPT ![r].got = "done"])
    /\ isDisabled' = [isDisabled EXCEPT ![req[r].from] = @ \ {req[r].kind}]
    /\ UNCHANGED <<secret, dialog, unanswered, teamVars, machineVars, disturbed, crashed>>

(* What follows the await in submit of RunChallenge, and of ResetChallenge.*)
RunAnswered(r) == req[r].kind = "run" /\ ReadAnswer(r)
ResetAnswered(r) == req[r].kind = "reset" /\ ReadAnswer(r)

(* The connection breaks: fetch rejects, nothing catches it, and the       *)
(* button stays as it is.  A request may be lost before it arrives.        *)
LoseAnswer(r) ==
    /\ req[r].got = "pending"
    /\ Cardinality({s \in Sessions : unanswered[s] # {}}) < MaxLost
    /\ SetReq([req EXCEPT ![r].got = "lost", ![r].from = Anyone,
                          ![r].pc = IF @ = "sent" THEN "end" ELSE @])
    /\ unanswered' = [unanswered EXCEPT
                        ![req[r].from] = @ \cup {req[r].kind}]
    /\ UNCHANGED <<secret, dialog, isDisabled, teamVars, machineVars, disturbed, crashed>>

(* The dialog closes, by the user or by a success timer, or the page is    *)
(* loaded anew: the buttons are destroyed with their state.  The requests  *)
(* go on, and an answer that comes later reaches nothing that is shown.    *)
(* openModal then shows the dialog of p with new buttons; in between there *)
(* is nothing to click, so the two are one step.                           *)
OpenModal(s, p) ==
    /\ dialog' = [dialog EXCEPT ![s] = p]
    /\ isDisabled' = [isDisabled EXCEPT ![s] = {}]
    /\ unanswered' = [unanswered EXCEPT ![s] = {}]
    /\ SetReq([r \in Sent |->
                 IF Waiting(s, r)
                 THEN [req[r] EXCEPT !.got = "lost", !.from = Anyone]
                 ELSE req[r]])
    /\ UNCHANGED <<secret, teamVars, machineVars, disturbed, crashed>>

-----------------------------------------------------------------------------
(* The server. *)

(* Operations on the machines or on the list that have begun. *)
Busy == {"stop", "list", "start", "halt", "relist", "create", "see", "unlist"}
Active(p) == {r \in Sent : Exercise(r) = p /\ req[r].pc \in Busy}

Goto(r, pc) == SetReq([req EXCEPT ![r].pc = pc])
Reply(r, pc, result) ==
    SetReq([req EXCEPT ![r].pc = pc, ![r].result = result])

(* An operation on the exercise of r begins. *)
Begin(r) ==
    disturbed' = IF Active(Exercise(r)) = {} THEN disturbed
                 ELSE disturbed \cup {Exercise(r)}

Disturb(r) == disturbed' = disturbed \cup {Exercise(r)}

(* The daemon dies, and its memory with it. *)
Crash ==
    /\ crashed' = TRUE
    /\ req' = [r \in {} |-> 0]
    /\ solved' = {} /\ disabled' = {} /\ disturbed' = {}
    /\ UNCHANGED <<pageVars, machineVars>>

(* handleFlagVerify up to its reply; VerifyFlag holds the team's lock.     *)
(* Without a recaptcha key no goroutine looks at the exercise afterwards.  *)
VerifyFlag(r) ==
    /\ req[r].kind = "flag" /\ req[r].pc = "sent"
    /\ req[r].tag \notin solved
    /\ solved' = solved \cup {req[r].tag}
    /\ Reply(r, IF secret THEN "check" ELSE "end", "ok")
    /\ UNCHANGED <<pageVars, disabled, machineVars, disturbed, crashed>>

(* The flag is not the challenge's, or the challenge is solved already. *)
RefuseFlag(r) ==
    /\ req[r].kind = "flag" /\ req[r].pc = "sent"
    /\ Reply(r, "end", "error")
    /\ UNCHANGED <<pageVars, teamVars, machineVars, disturbed, crashed>>

(* The database fails: VerifyFlag unlocks twice, which is fatal in Go. *)
VerifyFlagFatal(r) ==
    /\ req[r].kind = "flag" /\ req[r].pc = "sent"
    /\ req[r].tag \notin solved
    /\ Crash

(* The goroutine that handleFlagVerify leaves behind: with all children    *)
(* of the exercise solved it stops the exercise and disables it.           *)
CheckChildren(r) ==
    /\ req[r].pc = "check"
    /\ IF Children(Exercise(r)) \subseteq solved
       THEN Goto(r, "stop") /\ Begin(r)
       ELSE Goto(r, "end") /\ UNCHANGED disturbed
    /\ UNCHANGED <<pageVars, teamVars, machineVars, crashed>>

StopSolved(r) ==
    /\ req[r].pc = "stop"
    /\ Goto(r, "list")
    /\ running' = running \ {Exercise(r)}
    /\ UNCHANGED <<pageVars, teamVars, lost, disturbed, crashed>>

(* A machine does not stop, which is only logged; others may have. *)
StopSolvedFails(r) ==
    /\ req[r].pc = "stop"
    /\ Goto(r, "list")
    /\ running' \in {running, running \ {Exercise(r)}}
    /\ Disturb(r)
    /\ UNCHANGED <<pageVars, teamVars, lost, crashed>>

(* Mutation: AddDisabledChal is forgotten. *)
ListSolvedForgets(r) ==
    /\ req[r].pc = "list"
    /\ Goto(r, "end")
    /\ UNCHANGED <<pageVars, teamVars, machineVars, disturbed, crashed>>

(* AddDisabledChal *)
ListSolved(r) ==
    /\ req[r].pc = "list"
    /\ Goto(r, "end")
    /\ disabled' = disabled \cup {Exercise(r)}
    /\ UNCHANGED <<pageVars, solved, machineVars, disturbed, crashed>>

(* ManageDisabledChals moves the exercise into the list or out of it. *)
Toggle(p) ==
    disabled' = IF p \in disabled THEN disabled \ {p} ELSE disabled \cup {p}

(* handleStartStopChallenge *)
ManageChallenge(r) ==
    /\ req[r].kind = "run" /\ req[r].pc = "sent"
    /\ Begin(r)
    /\ Goto(r, IF Exercise(r) \in disabled THEN "start" ELSE "halt")
    /\ Toggle(Exercise(r))
    /\ UNCHANGED <<pageVars, solved, machineVars, crashed>>

(* StartByTag; it succeeds on an exercise that has no machines. *)
StartByTag(r) ==
    /\ req[r].pc = "start"
    /\ Reply(r, "end", "ok")
    /\ running' = running \cup ({Exercise(r)} \ lost)
    /\ UNCHANGED <<pageVars, teamVars, lost, disturbed, crashed>>

StartFails(r) ==
    /\ req[r].pc = "start"
    /\ Goto(r, "relist")
    /\ UNCHANGED <<pageVars, teamVars, machineVars, disturbed, crashed>>

StopByTag(r) ==
    /\ req[r].pc = "halt"
    /\ Reply(r, "end", "ok")
    /\ running' = running \ {Exercise(r)}
    /\ UNCHANGED <<pageVars, teamVars, lost, disturbed, crashed>>

StopFails(r) ==
    /\ req[r].pc = "halt"
    /\ Goto(r, "relist")
    /\ running' \in {running, running \ {Exercise(r)}}
    /\ Disturb(r)
    /\ UNCHANGED <<pageVars, teamVars, lost, crashed>>

(* The hook failed: AddDisabledChal, whichever way it was to go. *)
Relist(r) ==
    /\ req[r].pc = "relist"
    /\ Reply(r, "end", "error")
    /\ disabled' = disabled \cup {Exercise(r)}
    /\ UNCHANGED <<pageVars, solved, machineVars, disturbed, crashed>>

(* handleResetChallenge: exercise.Reset closes the machines, *)
ResetClose(r) ==
    /\ req[r].kind = "reset" /\ req[r].pc = "sent"
    /\ Begin(r)
    /\ Goto(r, "create")
    /\ running' = running \ {Exercise(r)}
    /\ lost' = lost \cup {Exercise(r)}
    /\ UNCHANGED <<pageVars, teamVars, crashed>>

(* creates new ones and starts them, *)
ResetCreate(r) ==
    /\ req[r].pc = "create"
    /\ Goto(r, "see")
    /\ running' = running \cup {Exercise(r)}
    /\ lost' = lost \ {Exercise(r)}
    /\ UNCHANGED <<pageVars, teamVars, disturbed, crashed>>

(* or fails in one or the other. *)
ResetFails(r) ==
    /\ req[r].pc = "create"
    /\ Reply(r, "end", "error")
    /\ lost' \in {lost, lost \ {Exercise(r)}}
    /\ Disturb(r)
    /\ UNCHANGED <<pageVars, teamVars, running, crashed>>

(* Mutation: a reset exercise stays in the list. *)
SeeNothing(r) ==
    /\ req[r].pc = "see"
    /\ Reply(r, "end", "ok")
    /\ UNCHANGED <<pageVars, teamVars, machineVars, disturbed, crashed>>

(* resetHook looks into the map without the lock, *)
SeeDisabled(r) ==
    /\ req[r].pc = "see"
    /\ IF Exercise(r) \in disabled THEN Goto(r, "unlist")
                                   ELSE Reply(r, "end", "ok")
    /\ UNCHANGED <<pageVars, teamVars, machineVars, disturbed, crashed>>

(* which is fatal when another goroutine writes it at that time, *)
SeeDisabledRace(r) ==
    /\ req[r].pc = "see"
    /\ \E q \in Sent : \/ req[q].pc \in {"list", "relist", "unlist"}
                       \/ req[q].kind = "run" /\ req[q].pc = "sent"
    /\ Crash

(* and then moves the exercise out of the list, or into it when another    *)
(* request has moved it out in between.                                    *)
Unlist(r) ==
    /\ req[r].pc = "unlist"
    /\ Reply(r, "end", "ok")
    /\ Toggle(Exercise(r))
    /\ UNCHANGED <<pageVars, solved, machineVars, disturbed, crashed>>

-----------------------------------------------------------------------------

User(s) ==
    \E p \in Exercises :
        RunChallenge(s, p) \/ ResetChallenge(s, p) \/ OpenModal(s, p)

Serve(r) ==
    \/ VerifyFlag(r) \/ RefuseFlag(r) \/ CheckChildren(r)
    \/ StopSolved(r) \/ StopSolvedFails(r) \/ ListSolved(r)
    \/ ManageChallenge(r) \/ StartByTag(r) \/ StartFails(r) \/ StopByTag(r)
    \/ StopFails(r) \/ Relist(r)
    \/ ResetClose(r) \/ ResetCreate(r) \/ ResetFails(r) \/ SeeDisabled(r)
    \/ Unlist(r)

Die(r) == VerifyFlagFatal(r) \/ SeeDisabledRace(r)

Next ==
    /\ ~crashed
    /\ \/ \E s \in Sessions : User(s)
       \/ \E c \in Chals : SubmitFlag(c)
       \/ \E r \in Sent : \/ RunAnswered(r) \/ ResetAnswered(r) \/ LoseAnswer(r)
                          \/ Serve(r) \/ Die(r)

Spec == Init /\ [][Next]_vars

(* The server's goroutines run on, and what it answers is read or lost.    *)
(* Nothing is asked of users.                                              *)
FairSpec ==
    /\ Spec
    /\ \A r \in Ids : WF_vars(~crashed /\ r \in Sent /\ Serve(r))
    /\ \A r \in Ids : WF_vars(~crashed /\ r \in Sent /\ ReadAnswer(r))

-----------------------------------------------------------------------------
(* Properties. *)

Places == Busy \cup {"sent", "check", "end"}

(* The type invariant. *)
TypeOK ==
    /\ secret \in BOOLEAN
    /\ dialog \in [Sessions -> Exercises]
    /\ isDisabled \in [Sessions -> SUBSET Buttons]
    /\ unanswered \in [Sessions -> SUBSET Buttons]
    /\ Sent \subseteq Ids
    /\ req \in [Sent -> [kind : Kinds, from : Sessions \cup {Anyone},
                         tag : Chals \cup Buttons, exercise : Exercises,
                         pc : Places,
                         result : {"none", "ok", "error"},
                         got : {"pending", "done", "lost"}]]
    /\ solved \subseteq Chals
    /\ disabled \subseteq Exercises
    /\ running \subseteq Exercises /\ lost \subseteq Exercises
    /\ disturbed \subseteq Exercises
    /\ crashed \in BOOLEAN

(* The list the page is painted from says what the machines do: as long as *)
(* the operations on an exercise came one after the other and its machines *)
(* stopped and came up when told to, it is in the list exactly when it     *)
(* does not run.  Covers start and stop by a button, the stop after the    *)
(* last flag, resets, failed starts and answers that never arrived.        *)
ListMatchesMachines ==
    \A p \in Exercises :
        ~crashed /\ Active(p) = {} /\ p \notin disturbed
            => (p \in disabled <=> p \notin running)

(* The dialog shown has at most one request per button under way, for its  *)
(* own exercise, and a button is disabled exactly while its request has    *)
(* not been answered: answers to buttons of dialogs closed since enable    *)
(* nothing.  By closing the dialog and opening it again one member does    *)
(* get a second request for the exercise under way.                        *)
OnePerButton ==
    \A s \in Sessions, b \in Buttons :
        LET waiting == {r \in Sent : Waiting(s, r) /\ req[r].kind = b}
        IN  /\ Cardinality(waiting) <= 1
            /\ \A r \in waiting : Exercise(r) = dialog[s]
            /\ ~crashed => (b \in isDisabled[s]
                               <=> b \in unanswered[s] \/ waiting # {})

(* A button that waits can be used again, unless the answer got lost. *)
ButtonFreed ==
    \A s \in Sessions, b \in Buttons :
        b \in isDisabled[s] ~>
            \/ b \notin isDisabled[s]
            \/ crashed
            \/ b \in unanswered[s]

(* When all flags of an exercise are found it gets disabled, also when two *)
(* members find the last two at the same time: each of their goroutines    *)
(* looks after its own flag is recorded, so one of them sees both.  There  *)
(* are no such goroutines, and no promise, without a recaptcha key.        *)
SolvedDisabled ==
    \A p \in Exercises :
        secret /\ <>(Children(p) \subseteq solved) =>
            <>(crashed \/ (Children(p) \subseteq solved /\ p \in disabled))
=============================================================================
