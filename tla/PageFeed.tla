------------------------------ MODULE PageFeed ------------------------------
(***************************************************************************)
(* How the pages (ChallegesPage.vue, Scoreboard.vue, TeamsPage.vue) get    *)
(* their data: every web socket receives one list of challenges and one    *)
(* scoreboard when it registers with the loop of RunFrontendData (util.go),*)
(* and nothing after that.  A page that wants newer data opens one more    *)
(* socket; a socket that closes is opened again after three seconds.       *)
(*                                                                         *)
(* One page in one window, of any of the three kinds: windows share nothing*)
(* but the loop.  What a message says is reduced to the version of the     *)
(* teams' data it was built from, and to the batches of challenges known   *)
(* to the loop.  The network is external: a connection breaks at any time, *)
(* and frames of different connections arrive in any order.                *)
(***************************************************************************)
EXTENDS Integers, Sequences, FiniteSets, FiniteSetsExt

CONSTANTS
    MaxVersion,   \* bound: changes of the teams' data
    MaxReloads,   \* bound: reloads of the challenges page
    MaxDrops,     \* bound: broken connections
    Updates       \* batches of challenges added while the event runs

Pages == {"challenges", "scoreboard", "teams"}

ASSUME BoundsAssumption == {MaxVersion, MaxReloads, MaxDrops} \subseteq Nat
ASSUME UpdatesAssumption == IsFiniteSet(Updates)

MaxSockets == 1 + MaxReloads + MaxDrops
Sockets == 1..MaxSockets
Nobody == 0

VARIABLES
    version,  \* of solves, disabled challenges and lab assignments
    known,    \* fd.challenges: the batches added to it
    offered,  \* batches whose UpdateChallenges goroutine waits, with the
              \* number of registrations that had begun at that time
    loop,     \* where RunFrontendData is, and with which client
    ws,       \* the page's end of each socket
    page,     \* which page it is
    srv,      \* handleConns: "none", "register" (waits for the loop), "served"
    send,     \* client.send
    frames,   \* frames on their way
    shown,    \* version the page shows, -1 before the first
    shownBy,  \* history: the socket it came from
    timers,   \* success timers of the dialog shown that run
    asked,    \* history: the version when the last of them fired
    reloads, drops,
    served,   \* history: registrations in their order, with the list sent
    newest    \* history: the latest registration the page has heard of

pageVars == <<shown, shownBy, newest>>
connVars == <<page, ws, timers, asked, reloads, drops>>
feedVars == <<known, offered, loop, srv, send, served>>
vars == <<version, known, offered, loop, page, ws, srv, send, frames, shown,
          shownBy, timers, asked, reloads, drops, served, newest>>

Idle == [at |-> "select", client |-> Nobody]
Unused == {i \in Sockets : ws[i] = "unused"}

(* main.js has mounted the page, and created has connected. *)
Init ==
    /\ version = 0
    /\ known = {}
    /\ offered = [b \in {} |-> 0]
    /\ loop = Idle
    /\ page \in Pages
    /\ ws = [i \in Sockets |-> IF i = 1 THEN "connecting" ELSE "unused"]
    /\ srv = [i \in Sockets |-> "none"]
    /\ send = [i \in Sockets |-> <<>>]
    /\ frames = [i \in Sockets |-> <<>>]
    /\ shown = -1
    /\ shownBy = Nobody
    /\ timers = 0
    /\ asked = 0
    /\ reloads = 0
    /\ drops = 0
    /\ served = <<>>
    /\ newest = 0

-----------------------------------------------------------------------------
(* The page. *)

(* connectToWS, with ws[i] changed as well when the timer of i has fired. *)
ConnectToWS(fired) ==
    \E i \in Unused :
        /\ \A j \in Unused : i <= j
        /\ ws' = [j \in Sockets |-> CASE j = i -> "connecting"
                                      [] j \in fired -> "gone"
                                      [] OTHER -> ws[j]]

(* A flag, a start, stop or reset was answered with ok: the dialog sets a  *)
(* timer of 800 or 1000 milliseconds.  An answer that comes after its      *)
(* dialog was closed sets one too, but what it emits has no listener left. *)
ChallengeComplete ==
    /\ page = "challenges"
    /\ reloads + timers < MaxReloads
    /\ timers' = timers + 1
    /\ UNCHANGED <<version, feedVars, frames, pageVars, page, ws, asked, reloads,
                   drops>>

(* challengeCompleteReload, runChallenge, resetChallenge: when the timer   *)
(* fires, one more socket is opened, and the others are left open.         *)
ChallengeCompleteReload ==
    /\ timers > 0
    /\ timers' = timers - 1
    /\ reloads' = reloads + 1
    /\ asked' = version
    /\ ConnectToWS({})
    /\ UNCHANGED <<version, feedVars, frames, pageVars, page, drops>>

(* The dialog is closed by its user, or by the timer of another success:   *)
(* the components in it are destroyed, and their timers emit to nobody.    *)
CloseDialog ==
    /\ timers > 0
    /\ timers' = 0
    /\ UNCHANGED <<version, feedVars, frames, pageVars, page, ws, asked, reloads,
                   drops>>

(* Mutation: onclose does not set the timer. *)
OnCloseNoTimer(i) ==
    /\ ws[i] \in {"connecting", "open"}
    /\ drops < MaxDrops
    /\ drops' = drops + 1
    /\ ws' = [ws EXCEPT ![i] = "gone"]
    /\ frames' = [frames EXCEPT ![i] = <<>>]
    /\ UNCHANGED <<version, feedVars, pageVars, page, timers, asked, reloads>>

(* Mutation: onclose only sets ws to null. *)
OnCloseNull(i) ==
    /\ ws[i] \in {"connecting", "open"}
    /\ drops < MaxDrops
    /\ drops' = drops + 1
    /\ ws' = [ws EXCEPT ![i] = "null"]
    /\ frames' = [frames EXCEPT ![i] = <<>>]
    /\ UNCHANGED <<version, feedVars, pageVars, page, timers, asked, reloads>>

(* The connection breaks or cannot be made: onclose sets the timer. *)
OnClose(i) ==
    /\ ws[i] \in {"connecting", "open"}
    /\ drops < MaxDrops
    /\ drops' = drops + 1
    /\ ws' = [ws EXCEPT ![i] = "timer"]
    /\ frames' = [frames EXCEPT ![i] = <<>>]
    /\ UNCHANGED <<version, feedVars, pageVars, page, timers, asked, reloads>>

(* The timer of onclose. *)
Reconnect(i) ==
    /\ ws[i] = "timer"
    /\ ConnectToWS({i})
    /\ UNCHANGED <<version, feedVars, frames, pageVars, page, timers, asked,
                   reloads, drops>>

(* The message of a frame that counts: the last of the wanted kind. *)
Wanted == IF page = "challenges" THEN "challenges" ELSE "scoreboard"
Parsed(frame) ==
    {k \in DOMAIN frame :
        /\ frame[k].msg = Wanted
        /\ \A l \in DOMAIN frame : l > k => frame[l].msg # Wanted}

(* When i registered: its position in served, 0 when it has not. *)
Turn(i) == IF \E k \in DOMAIN served : served[k].client = i
           THEN CHOOSE k \in DOMAIN served : served[k].client = i ELSE 0

(* receiveMsg: the last message of the wanted kind is shown, as it is.  In *)
(* ChallegesPage a frame with a scoreboard alone ends in a TypeError of    *)
(* sortChallenges, which changes nothing.                                  *)
ReceiveMsg(i) ==
    LET frame == Head(frames[i]) IN
    /\ ws[i] = "open" /\ frames[i] # <<>>
    /\ frames' = [frames EXCEPT ![i] = Tail(@)]
    /\ \/ Parsed(frame) = {} /\ UNCHANGED pageVars
       \/ \E k \in Parsed(frame) :
            /\ shown' = frame[k].version
            /\ shownBy' = i
            /\ newest' = Max({newest, Turn(i)})
    /\ UNCHANGED <<version, feedVars, connVars>>

-----------------------------------------------------------------------------
(* The server. *)

(* A flag, a start or stop, an assigned lab. *)
Change ==
    /\ version < MaxVersion
    /\ version' = version + 1
    /\ UNCHANGED <<feedVars, frames, pageVars, connVars>>

(* handleConns; the client then waits for the loop. *)
Upgrade(i) ==
    /\ ws[i] = "connecting"
    /\ ws' = [ws EXCEPT ![i] = "open"]
    /\ srv' = [srv EXCEPT ![i] = "register"]
    /\ UNCHANGED <<version, known, offered, loop, send, served, frames, pageVars,
                   page, timers, asked, reloads, drops>>

(* UpdateChallenges: a goroutine waits until the loop takes the batch. *)
UpdateChallenges(b) ==
    /\ b \notin known \cup DOMAIN offered
    /\ offered' = [x \in DOMAIN offered \cup {b} |->
                     IF x = b THEN Len(served) ELSE offered[x]]
    /\ UNCHANGED <<version, known, loop, srv, send, served, frames, pageVars,
                   connVars>>

(* Mutation: the list is built once, when the event starts. *)
RegisterFromCache(i) ==
    /\ loop = Idle /\ srv[i] = "register"
    /\ srv' = [srv EXCEPT ![i] = "served"]
    /\ send' = [send EXCEPT ![i] =
                  Append(@, [msg |-> "challenges", version |-> 0])]
    /\ served' = Append(served, [client |-> i, list |-> known])
    /\ loop' = [at |-> "teams", client |-> i]
    /\ UNCHANGED <<version, known, offered, frames, pageVars, connVars>>

(* Mutation: while challenges are added, the list of the start is sent. *)
RegisterWhileAdding(i) ==
    /\ loop = Idle /\ srv[i] = "register"
    /\ srv' = [srv EXCEPT ![i] = "served"]
    /\ send' = [send EXCEPT ![i] =
                  Append(@, [msg |-> "challenges",
                             version |-> IF DOMAIN offered = {} THEN version ELSE 0])]
    /\ served' = Append(served, [client |-> i, list |-> known])
    /\ loop' = [at |-> "teams", client |-> i]
    /\ UNCHANGED <<version, known, offered, frames, pageVars, connVars>>

(* The loop takes a client and sends it the challenges, *)
Register(i) ==
    /\ loop = Idle /\ srv[i] = "register"
    /\ srv' = [srv EXCEPT ![i] = "served"]
    /\ send' = [send EXCEPT ![i] =
                  Append(@, [msg |-> "challenges", version |-> version])]
    /\ served' = Append(served, [client |-> i, list |-> known])
    /\ loop' = [at |-> "teams", client |-> i]
    /\ UNCHANGED <<version, known, offered, frames, pageVars, connVars>>

(* the scoreboard, *)
SendTeams(i) ==
    /\ loop = [at |-> "teams", client |-> i]
    /\ send' = [send EXCEPT ![i] =
                  Append(@, [msg |-> "scoreboard", version |-> version])]
    /\ loop' = [loop EXCEPT !.at = "update"]
    /\ UNCHANGED <<version, known, offered, srv, served, frames, pageVars,
                   connVars>>

(* Mutation: the loop returns to its select right away. *)
TakeNoUpdate ==
    /\ loop.at = "update"
    /\ loop' = Idle
    /\ UNCHANGED <<version, known, offered, srv, send, served, frames, pageVars,
                   connVars>>

(* and then takes one batch that waits, if there is one. *)
TakeUpdate ==
    /\ loop.at = "update"
    /\ loop' = Idle
    /\ \/ /\ DOMAIN offered = {}
          /\ UNCHANGED <<known, offered>>
       \/ \E b \in DOMAIN offered :
            /\ known' = known \cup {b}
            /\ offered' = [x \in DOMAIN offered \ {b} |-> offered[x]]
    /\ UNCHANGED <<version, srv, send, served, frames, pageVars, connVars>>

(* writePump: what waits in the channel becomes one frame. *)
WritePump(i) ==
    /\ srv[i] = "served" /\ send[i] # <<>>
    /\ send' = [send EXCEPT ![i] = <<>>]
    /\ frames' = IF ws[i] = "open" THEN [frames EXCEPT ![i] = Append(@, send[i])]
                                   ELSE frames
    /\ UNCHANGED <<version, known, offered, loop, srv, served, pageVars, connVars>>

-----------------------------------------------------------------------------

Connect(i) == Upgrade(i) \/ Register(i) \/ SendTeams(i) \/ WritePump(i)
Browser(i) == ReceiveMsg(i) \/ Reconnect(i)

Next ==
    \/ ChallengeComplete \/ ChallengeCompleteReload \/ CloseDialog
    \/ \E i \in Sockets : Connect(i) \/ Browser(i) \/ OnClose(i)
    \/ Change
    \/ \E b \in Updates : UpdateChallenges(b)
    \/ TakeUpdate

Spec == Init /\ [][Next]_vars

(* The server's goroutines run, timers fire, and a connection that is not  *)
(* broken delivers.  Successes and changes are up to the users.            *)
FairSpec ==
    /\ Spec
    /\ WF_vars(TakeUpdate) /\ WF_vars(ChallengeCompleteReload)
    /\ \A i \in Sockets : /\ WF_vars(Upgrade(i)) /\ WF_vars(Register(i))
                          /\ WF_vars(SendTeams(i)) /\ WF_vars(WritePump(i))
                          /\ WF_vars(ReceiveMsg(i)) /\ WF_vars(Reconnect(i))

-----------------------------------------------------------------------------
(* Properties. *)

Messages == [msg : {"challenges", "scoreboard"}, version : 0..MaxVersion]

(* The type invariant. *)
TypeOK ==
    /\ version \in 0..MaxVersion
    /\ known \subseteq Updates
    /\ DOMAIN offered \subseteq Updates
    /\ \A b \in DOMAIN offered : offered[b] \in 0..MaxSockets
    /\ loop \in [at : {"select", "teams", "update"}, client : Sockets \cup {Nobody}]
    /\ ws \in [Sockets -> {"unused", "connecting", "open", "timer", "gone"}]
    /\ page \in Pages
    /\ srv \in [Sockets -> {"none", "register", "served"}]
    /\ send \in [Sockets -> Seq(Messages)]
    /\ frames \in [Sockets -> Seq(Seq(Messages))]
    /\ shown \in -1..MaxVersion /\ shownBy \in Sockets \cup {Nobody}
    /\ timers \in 0..MaxReloads /\ asked \in 0..MaxVersion
    /\ reloads \in 0..MaxReloads /\ drops \in 0..MaxDrops
    /\ served \in Seq([client : Sockets, list : SUBSET Updates])
    /\ newest \in 0..MaxSockets

(* A reload of the challenges page adds a connection that is kept for good:*)
(* at any time as many sockets are open or about to be opened again as the *)
(* page has asked for, however many of them broke in between.              *)
ConnectionPerReload ==
    Cardinality({i \in Sockets : ws[i] \in {"connecting", "open", "timer"}})
      = 1 + reloads

(* Challenges added to a running event are in the list of every connection *)
(* but the first ones after it, one for each batch: the loop takes a batch *)
(* only after a client has been sent the list without it.                  *)
UpdateAfterOneMore ==
    \A b \in DOMAIN offered :
        Len(served) <= offered[b] + Cardinality(Updates)

(* A page goes back to older data only when the connection that brought it *)
(* had registered before the one whose data it shows.                      *)
NoStepBack ==
    [][shown' < shown => Turn(shownBy') < Turn(shownBy)]_vars

(* What a member did in the dialog gets onto the page, if the dialog stays *)
(* open until the timer of the success fires: the page ends up with data   *)
(* no older than that, whatever connections broke, unless a frame of an    *)
(* older connection came last.  A dialog closed earlier reloads nothing.   *)
ReloadShown ==
    <>[](shown >= asked \/ Turn(shownBy) < newest)
=============================================================================
