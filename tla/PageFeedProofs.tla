-------------------------- MODULE PageFeedProofs --------------------------
(***************************************************************************)
(* Proofs about the feed of the pages, for any number of changes, reloads, *)
(* broken connections and batches of challenges: how many connections a    *)
(* page holds, how long a batch of challenges stays out of the lists, and  *)
(* when a page may go back to older data.                                  *)
(***************************************************************************)
EXTENDS PageFeed, FiniteSetTheorems, TLAPS

Registered == {i \in Sockets : srv[i] = "served"}

(* served lists the registered clients, each once; *)
ServedInv ==
    /\ Len(served) = Cardinality(Registered)
    /\ \A k \in DOMAIN served : served[k].client \in Registered
    /\ \A i \in Registered : \E k \in DOMAIN served : served[k].client = i
    /\ \A k, l \in DOMAIN served : served[k].client = served[l].client => k = l

(* the loop is busy with the last of them; *)
LoopInv ==
    loop.at # "select" =>
        /\ served # <<>>
        /\ loop.client = served[Len(served)].client

(* a client that has not registered has been sent nothing. *)
QueueInv ==
    \A i \in Sockets \ Registered :
        send[i] = <<>> /\ frames[i] = <<>> /\ shownBy # i

(* The server hears of a socket when it is open. *)
New == {"unused", "connecting"}
FreshInv == \A i \in Sockets : ws[i] \in New => srv[i] = "none"

FeedInv ==
    /\ TypeOK /\ reloads + timers <= MaxReloads
    /\ ServedInv /\ LoopInv /\ QueueInv /\ FreshInv

(* A batch that waits is not known yet, and since it was offered every     *)
(* registration but the one under way was followed by taking another.      *)
Lag == IF loop.at = "select" THEN 0 ELSE 1
UpdateInv ==
    \A b \in DOMAIN offered :
        /\ b \notin known
        /\ Len(served) <= offered[b] + Cardinality(known) + Lag

(* m is on its way to the page over the socket i. *)
Has(i, m) ==
    \/ \E k \in DOMAIN send[i] : send[i][k] = m
    \/ \E k \in DOMAIN frames[i] : \E l \in DOMAIN frames[i][k] : frames[i][k][l] = m

(* What is on its way or shown is not newer than the data; *)
AgeInv ==
    /\ shown <= version
    /\ shownBy = Nobody => shown = -1
    /\ \A i \in Sockets, m \in Messages : Has(i, m) => m.version <= version

(* messages of a kind are as old as the registrations they answer, *)
SortedInv ==
    \A i, j \in Sockets, m, n \in Messages :
        Has(i, m) /\ Has(j, n) /\ m.msg = n.msg /\ Turn(i) <= Turn(j)
            => m.version <= n.version

(* and so is what is shown; *)
ShownInv ==
    \A i, j \in Sockets, n \in Messages :
        shownBy = i /\ Has(j, n) /\ n.msg = Wanted /\ Turn(i) <= Turn(j)
            => shown <= n.version

(* a client that is about to get its scoreboard has had none. *)
TeamsInv ==
    \A i \in Sockets :
        loop = [at |-> "teams", client |-> i] =>
            /\ \A n \in Messages : Has(i, n) => n.msg # "scoreboard"
            /\ Wanted = "scoreboard" => shownBy # i

OrderInv == AgeInv /\ SortedInv /\ ShownInv /\ TeamsInv

-----------------------------------------------------------------------------
(* Sockets and registrations. *)

(* A set of sockets is finite, and not larger than there are sockets. *)
LEMMA SocketSets ==
    /\ MaxSockets \in Nat /\ Sockets \subseteq Nat /\ Nobody \notin Sockets
    /\ \A S \in SUBSET Sockets : /\ IsFiniteSet(S) /\ Cardinality(S) \in Nat
                                 /\ Cardinality(S) <= MaxSockets
<1>1. MaxSockets \in Nat /\ MaxSockets >= 1
  BY BoundsAssumption DEF MaxSockets
<1>2. IsFiniteSet(Sockets) /\ Cardinality(Sockets) = MaxSockets
  BY <1>1, FS_Interval DEF Sockets
<1>3. \A S \in SUBSET Sockets : IsFiniteSet(S) /\ Cardinality(S) <= MaxSockets
  BY <1>2, FS_Subset
<1> QED
  BY <1>1, <1>3, FS_CardinalityType DEF Sockets, Nobody

(* The turn of a client is its position in served. *)
LEMMA TurnFacts ==
    ASSUME FeedInv, NEW i
    PROVE  /\ Turn(i) \in 0..Len(served) /\ Turn(i) \in 0..MaxSockets
           /\ i \in Registered => /\ Turn(i) \in DOMAIN served
                                  /\ served[Turn(i)].client = i
           /\ i \notin Registered => Turn(i) = 0
           /\ \A k \in DOMAIN served : served[k].client = i => Turn(i) = k
<1>1. /\ served \in Seq([client : Sockets, list : SUBSET Updates])
      /\ DOMAIN served = 1..Len(served) /\ Len(served) \in Nat
  BY DEF FeedInv, TypeOK
<1>2. Len(served) <= MaxSockets /\ MaxSockets \in Nat
  BY SocketSets DEF FeedInv, ServedInv, Registered
<1>3. CASE \E k \in DOMAIN served : served[k].client = i
  <2>1. Turn(i) \in DOMAIN served /\ served[Turn(i)].client = i
    BY <1>3 DEF Turn
  <2>2. i \in Registered
    BY <2>1 DEF FeedInv, ServedInv
  <2>3. \A k \in DOMAIN served : served[k].client = i => Turn(i) = k
    BY <2>1 DEF FeedInv, ServedInv
  <2> QED
    BY <1>1, <1>2, <2>1, <2>2, <2>3
<1>4. CASE ~ \E k \in DOMAIN served : served[k].client = i
  <2>1. Turn(i) = 0
    BY <1>4 DEF Turn
  <2>2. i \notin Registered
    BY <1>4 DEF FeedInv, ServedInv
  <2> QED
    BY <1>1, <1>2, <1>4, <2>1, <2>2
<1> QED
  BY <1>3, <1>4

(* The larger of two turns. *)
LEMMA MaxFacts ==
    ASSUME NEW a \in Nat, NEW b \in Nat
    PROVE  Max({a, b}) \in {a, b}
<1>1. \E x \in {a, b} : \A y \in {a, b} : x >= y
  OBVIOUS
<1> QED
  BY <1>1 DEF Max

(* connectToWS opens the first unused socket. *)
LEMMA ConnectFacts ==
    ASSUME TypeOK, NEW fired \in SUBSET Sockets, ConnectToWS(fired),
           \A j \in fired : ws[j] = "timer"
    PROVE  /\ ws' \in [Sockets -> {"unused", "connecting", "open", "timer", "gone"}]
           /\ \E i \in Sockets : /\ ws[i] = "unused" /\ ws'[i] = "connecting"
                                 /\ \A j \in Sockets \ {i} :
                                      ws'[j] = IF j \in fired THEN "gone" ELSE ws[j]
<1>1. PICK i \in Unused : ws' = [j \in Sockets |-> CASE j = i -> "connecting"
                                                     [] j \in fired -> "gone"
                                                     [] OTHER -> ws[j]]
  BY DEF ConnectToWS
<1>2. i \in Sockets /\ ws[i] = "unused"
  BY DEF Unused
<1>3. ws'[i] = "connecting"
  BY <1>1, <1>2
<1>4. \A j \in Sockets \ {i} : ws'[j] = IF j \in fired THEN "gone" ELSE ws[j]
  BY <1>1
<1>5. ws' \in [Sockets -> {"unused", "connecting", "open", "timer", "gone"}]
  BY <1>1 DEF TypeOK
<1> QED
  BY <1>2, <1>3, <1>4, <1>5

-----------------------------------------------------------------------------
(* Types, and who was served. *)

(* The page connects and nobody is registered. *)
LEMMA FeedInvInit == Init => FeedInv
<1> SUFFICES ASSUME Init PROVE FeedInv
  OBVIOUS
<1>1. /\ MaxVersion \in Nat /\ MaxReloads \in Nat /\ MaxDrops \in Nat /\ MaxSockets \in Nat
      /\ 1 \in Sockets /\ Sockets \subseteq Nat
  BY BoundsAssumption DEF MaxSockets, Sockets
<1>2. Registered = {}
  BY DEF Init, Registered
<1>3. TypeOK
  <2>1. send \in [Sockets -> Seq(Messages)] /\ frames \in [Sockets -> Seq(Seq(Messages))]
    BY DEF Init
  <2>2. ws \in [Sockets -> {"unused", "connecting", "open", "timer", "gone"}]
    BY DEF Init
  <2>3. loop \in [at : {"select", "teams", "update"}, client : Sockets \cup {Nobody}]
    BY DEF Init, Idle
  <2> QED
    BY <1>1, <2>1, <2>2, <2>3 DEF Init, TypeOK
<1>4. ServedInv
  BY <1>2, FS_EmptySet DEF Init, ServedInv
<1>5. LoopInv
  BY DEF Init, LoopInv, Idle
<1>6. QueueInv
  BY DEF Init, QueueInv, Nobody, Sockets
<1>7. FreshInv
  BY DEF Init, FreshInv
<1> QED
  BY <1>1, <1>3, <1>4, <1>5, <1>6, <1>7 DEF FeedInv, Init

(* The page's own steps, which leave registrations and messages alone. *)
LEMMA PageStep ==
    ASSUME FeedInv,
           UNCHANGED <<feedVars, pageVars>>,
           version' \in 0..MaxVersion, version' >= version,
           ws' \in [Sockets -> {"unused", "connecting", "open", "timer", "gone"}],
           \A i \in Sockets : ws'[i] \in New => ws[i] \in New,
           page' = page, timers' \in 0..MaxReloads, asked' \in 0..MaxVersion,
           reloads' \in 0..MaxReloads, drops' \in 0..MaxDrops,
           reloads' + timers' <= MaxReloads,
           frames' \in [Sockets -> Seq(Seq(Messages))],
           \A i \in Sockets : frames'[i] = frames[i] \/ frames'[i] = <<>>
    PROVE  FeedInv'
<1>1. TypeOK'
  BY DEF FeedInv, TypeOK, feedVars, pageVars
<1>2. Registered' = Registered
  BY DEF Registered, feedVars
<1>3. ServedInv' /\ LoopInv'
  BY <1>2 DEF FeedInv, ServedInv, LoopInv, feedVars
<1>4. QueueInv'
  BY <1>2 DEF FeedInv, QueueInv, feedVars, pageVars
<1>5. FreshInv'
  BY DEF FeedInv, FreshInv, feedVars
<1> QED
  BY <1>1, <1>3, <1>4, <1>5 DEF FeedInv

(* What the page asks for, and what breaks. *)
LEMMA BrowserStep ==
    ASSUME FeedInv,
           \/ ChallengeComplete \/ ChallengeCompleteReload \/ CloseDialog \/ Change
           \/ \E i \in Sockets : OnClose(i) \/ Reconnect(i)
    PROVE  FeedInv'
<1>t. /\ MaxVersion \in Nat /\ MaxReloads \in Nat /\ MaxDrops \in Nat
      /\ version \in 0..MaxVersion /\ timers \in 0..MaxReloads /\ asked \in 0..MaxVersion
      /\ reloads \in 0..MaxReloads /\ drops \in 0..MaxDrops /\ reloads + timers <= MaxReloads
      /\ ws \in [Sockets -> {"unused", "connecting", "open", "timer", "gone"}]
      /\ frames \in [Sockets -> Seq(Seq(Messages))]
  BY BoundsAssumption DEF FeedInv, TypeOK
<1>1. CASE ChallengeComplete
  <2>1. /\ UNCHANGED <<feedVars, pageVars, version, frames, page, ws, asked, reloads, drops>>
        /\ timers' = timers + 1 /\ reloads + timers < MaxReloads
    BY <1>1 DEF ChallengeComplete
  <2>2. timers' \in 0..MaxReloads /\ reloads' + timers' <= MaxReloads
    BY <1>t, <2>1
  <2> QED
    BY <1>t, <2>1, <2>2, PageStep
<1>2. CASE ChallengeCompleteReload
  <2>1. /\ UNCHANGED <<feedVars, pageVars, version, frames, page, drops>> /\ asked' = version
        /\ timers' = timers - 1 /\ reloads' = reloads + 1 /\ timers > 0 /\ ConnectToWS({})
    BY <1>2 DEF ChallengeCompleteReload
  <2>2. timers' \in 0..MaxReloads /\ reloads' \in 0..MaxReloads /\ reloads' + timers' <= MaxReloads
    BY <1>t, <2>1
  <2>3. /\ ws' \in [Sockets -> {"unused", "connecting", "open", "timer", "gone"}]
        /\ \A j \in Sockets : ws'[j] \in New => ws[j] \in New
    BY <2>1, ConnectFacts DEF FeedInv, New
  <2> QED
    BY <1>t, <2>1, <2>2, <2>3, PageStep
<1>6. CASE CloseDialog
  <2>1. /\ UNCHANGED <<feedVars, pageVars, version, frames, page, ws, asked, reloads, drops>>
        /\ timers' = 0
    BY <1>6 DEF CloseDialog
  <2>2. timers' \in 0..MaxReloads /\ reloads' + timers' <= MaxReloads
    BY <1>t, <2>1
  <2> QED
    BY <1>t, <2>1, <2>2, PageStep
<1>3. CASE Change
  <2>1. /\ UNCHANGED <<feedVars, pageVars, frames, page, ws, timers, asked, reloads, drops>>
        /\ version' = version + 1 /\ version < MaxVersion
    BY <1>3 DEF Change, connVars
  <2>2. version' \in 0..MaxVersion /\ version' >= version
    BY <1>t, <2>1
  <2> QED
    BY <1>t, <2>1, <2>2, PageStep
<1>4. ASSUME NEW i \in Sockets, OnClose(i) PROVE FeedInv'
  <2>1. /\ UNCHANGED <<feedVars, pageVars, version, page, timers, asked, reloads>>
        /\ drops' = drops + 1 /\ drops < MaxDrops /\ ws[i] \in {"connecting", "open"}
        /\ ws' = [ws EXCEPT ![i] = "timer"] /\ frames' = [frames EXCEPT ![i] = <<>>]
    BY <1>4 DEF OnClose
  <2>2. drops' \in 0..MaxDrops
    BY <1>t, <2>1
  <2>3. /\ ws' \in [Sockets -> {"unused", "connecting", "open", "timer", "gone"}]
        /\ \A j \in Sockets : ws'[j] \in New => ws[j] \in New
    BY <1>t, <2>1 DEF New
  <2>4. /\ frames' \in [Sockets -> Seq(Seq(Messages))]
        /\ \A j \in Sockets : frames'[j] = frames[j] \/ frames'[j] = <<>>
    BY <1>t, <2>1
  <2> QED
    BY <1>t, <2>1, <2>2, <2>3, <2>4, PageStep
<1>5. ASSUME NEW i \in Sockets, Reconnect(i) PROVE FeedInv'
  <2>1. /\ UNCHANGED <<feedVars, pageVars, version, frames, page, timers, asked, reloads, drops>>
        /\ ws[i] = "timer" /\ ConnectToWS({i})
    BY <1>5 DEF Reconnect
  <2>2. /\ ws' \in [Sockets -> {"unused", "connecting", "open", "timer", "gone"}]
        /\ \A j \in Sockets : ws'[j] \in New => ws[j] \in New
    BY <2>1, ConnectFacts DEF FeedInv, New
  <2> QED
    BY <1>t, <2>1, <2>2, PageStep
<1> QED
  BY <1>1, <1>2, <1>3, <1>4, <1>5, <1>6

(* The loop registers i. *)
LEMMA RegisterFacts ==
    ASSUME FeedInv, NEW i \in Sockets, Register(i)
    PROVE  /\ i \notin Registered /\ Registered' = Registered \cup {i}
           /\ Len(served') = Len(served) + 1 /\ DOMAIN served' = 1..Len(served')
           /\ DOMAIN served = 1..Len(served) /\ Len(served) \in Nat
           /\ \A k \in DOMAIN served : served'[k] = served[k]
           /\ served'[Len(served')].client = i
           /\ served' \in Seq([client : Sockets, list : SUBSET Updates])
           /\ ServedInv'
<1> DEFINE S == [client : Sockets, list : SUBSET Updates]
           e == [client |-> i, list |-> known]
<1>1. /\ served \in Seq(S) /\ known \subseteq Updates
      /\ srv \in [Sockets -> {"none", "register", "served"}]
  BY DEF FeedInv, TypeOK
<1>2. e \in S /\ e.client = i
  BY <1>1
<1>3. /\ served' = Append(served, e) /\ srv' = [srv EXCEPT ![i] = "served"] /\ srv[i] = "register"
  BY DEF Register
<1> HIDE DEF S, e
<1>4. /\ served' \in Seq(S) /\ Len(served') = Len(served) + 1 /\ Len(served) \in Nat
      /\ DOMAIN served = 1..Len(served) /\ DOMAIN served' = 1..Len(served')
      /\ \A k \in 1..Len(served) : served'[k] = served[k]
      /\ served'[Len(served) + 1] = e
  BY <1>1, <1>2, <1>3
<1>5. i \notin Registered /\ Registered' = Registered \cup {i}
  BY <1>1, <1>3 DEF Registered
<1>6. Cardinality(Registered') = Cardinality(Registered) + 1
  BY <1>5, SocketSets, FS_AddElement DEF Registered
<1>7. \A k \in DOMAIN served' : k \in DOMAIN served \/ (k = Len(served) + 1 /\ served'[k].client = i)
  BY <1>2, <1>4
<1>8. Len(served) + 1 \in DOMAIN served' /\ DOMAIN served \subseteq DOMAIN served'
  BY <1>4
<1>9. Len(served') = Cardinality(Registered')
  BY <1>4, <1>6 DEF FeedInv, ServedInv
<1>10. \A k \in DOMAIN served' : served'[k].client \in Registered'
  BY <1>4, <1>5, <1>7 DEF FeedInv, ServedInv
<1>11. \A j \in Registered' : \E k \in DOMAIN served' : served'[k].client = j
  BY <1>2, <1>4, <1>5, <1>8 DEF FeedInv, ServedInv
<1>12. \A k, l \in DOMAIN served' : served'[k].client = served'[l].client => k = l
  BY <1>4, <1>5, <1>7 DEF FeedInv, ServedInv
<1>13. ServedInv'
  BY <1>9, <1>10, <1>11, <1>12 DEF ServedInv
<1> QED
  BY <1>2, <1>4, <1>5, <1>13 DEF S

(* Every step keeps FeedInv. *)
LEMMA FeedInvStep ==
    ASSUME FeedInv, [Next]_vars
    PROVE  FeedInv'
<1>t. /\ MaxVersion \in Nat /\ MaxSockets \in Nat /\ version \in 0..MaxVersion
      /\ loop \in [at : {"select", "teams", "update"}, client : Sockets \cup {Nobody}]
      /\ ws \in [Sockets -> {"unused", "connecting", "open", "timer", "gone"}]
      /\ srv \in [Sockets -> {"none", "register", "served"}]
      /\ send \in [Sockets -> Seq(Messages)] /\ frames \in [Sockets -> Seq(Seq(Messages))]
      /\ newest \in 0..MaxSockets
  BY BoundsAssumption, SocketSets DEF FeedInv, TypeOK
<1>1. ASSUME NEW i \in Sockets, Upgrade(i) PROVE FeedInv'
  <2>1. /\ ws[i] = "connecting" /\ ws' = [ws EXCEPT ![i] = "open"]
        /\ srv' = [srv EXCEPT ![i] = "register"]
        /\ UNCHANGED <<version, known, offered, loop, send, served, frames, pageVars, page, timers,
                       asked, reloads, drops>>
    BY <1>1 DEF Upgrade
  <2>2. srv[i] = "none"
    BY <2>1 DEF FeedInv, FreshInv, New
  <2>3. Registered' = Registered
    BY <1>t, <2>1, <2>2 DEF Registered
  <2>4. TypeOK'
    BY <1>t, <2>1 DEF FeedInv, TypeOK, pageVars
  <2>5. ServedInv' /\ LoopInv' /\ QueueInv'
    BY <2>1, <2>3 DEF FeedInv, ServedInv, LoopInv, QueueInv, pageVars
  <2>6. FreshInv'
    BY <1>t, <2>1 DEF FeedInv, FreshInv, New
  <2> QED
    BY <2>1, <2>4, <2>5, <2>6 DEF FeedInv
<1>2. ASSUME NEW i \in Sockets, Register(i) PROVE FeedInv'
  <2> DEFINE m == [msg |-> "challenges", version |-> version]
  <2>1. /\ srv' = [srv EXCEPT ![i] = "served"] /\ send' = [send EXCEPT ![i] = Append(@, m)]
        /\ loop' = [at |-> "teams", client |-> i] /\ srv[i] = "register"
        /\ UNCHANGED <<version, known, offered, frames, pageVars, page, ws, timers, asked, reloads, drops>>
    BY <1>2 DEF Register, connVars
  <2>2. m \in Messages
    BY <1>t DEF Messages
  <2> HIDE DEF m
  <2>3. send' \in [Sockets -> Seq(Messages)] /\ \A j \in Sockets : j # i => send'[j] = send[j]
    BY <1>t, <2>1, <2>2
  <2>4. /\ Registered' = Registered \cup {i} /\ ServedInv' /\ Len(served') = Len(served) + 1
        /\ served' \in Seq([client : Sockets, list : SUBSET Updates])
        /\ served'[Len(served')].client = i /\ Len(served) \in Nat
    BY <1>2, RegisterFacts
  <2>5. srv' \in [Sockets -> {"none", "register", "served"}] /\ \A j \in Sockets : j # i => srv'[j] = srv[j]
    BY <1>t, <2>1
  <2>6. loop' \in [at : {"select", "teams", "update"}, client : Sockets \cup {Nobody}]
    BY <2>1
  <2>7. TypeOK'
    BY <2>1, <2>3, <2>4, <2>5, <2>6 DEF FeedInv, TypeOK, pageVars
  <2>8. LoopInv'
    <3>1. served' # <<>>
      BY <2>4
    <3> QED
      BY <2>1, <2>4, <3>1 DEF LoopInv
  <2>9. QueueInv'
    BY <2>1, <2>3, <2>4 DEF FeedInv, QueueInv, pageVars
  <2>10. FreshInv'
    BY <2>1, <2>5 DEF FeedInv, FreshInv, New
  <2> QED
    BY <2>1, <2>4, <2>7, <2>8, <2>9, <2>10 DEF FeedInv
<1>3. ASSUME NEW i \in Sockets, SendTeams(i) PROVE FeedInv'
  <2> DEFINE m == [msg |-> "scoreboard", version |-> version]
  <2>1. /\ loop = [at |-> "teams", client |-> i] /\ send' = [send EXCEPT ![i] = Append(@, m)]
        /\ loop' = [loop EXCEPT !.at = "update"]
        /\ UNCHANGED <<version, known, offered, srv, served, frames, pageVars, page, ws, timers,
                       asked, reloads, drops>>
    BY <1>3 DEF SendTeams, connVars
  <2>2. m \in Messages
    BY <1>t DEF Messages
  <2> HIDE DEF m
  <2>3. send' \in [Sockets -> Seq(Messages)] /\ \A j \in Sockets : j # i => send'[j] = send[j]
    BY <1>t, <2>1, <2>2
  <2>4. Registered' = Registered
    BY <2>1 DEF Registered
  <2>5. /\ loop' \in [at : {"select", "teams", "update"}, client : Sockets \cup {Nobody}]
        /\ loop'.client = loop.client /\ loop.at # "select" /\ loop.client = i
    BY <1>t, <2>1
  <2>6. TypeOK'
    BY <2>1, <2>3, <2>5 DEF FeedInv, TypeOK, pageVars
  <2>7. i \in Registered
    <3>1. served # <<>> /\ i = served[Len(served)].client
      BY <2>5 DEF FeedInv, LoopInv
    <3>2. Len(served) \in DOMAIN served
      BY <3>1 DEF FeedInv, TypeOK
    <3> QED
      BY <3>1, <3>2 DEF FeedInv, ServedInv
  <2>8. ServedInv' /\ LoopInv' /\ FreshInv'
    BY <2>1, <2>4, <2>5 DEF FeedInv, ServedInv, LoopInv, FreshInv
  <2>9. QueueInv'
    BY <2>1, <2>3, <2>4, <2>7 DEF FeedInv, QueueInv, pageVars
  <2> QED
    BY <2>1, <2>6, <2>8, <2>9 DEF FeedInv
<1>4. ASSUME NEW i \in Sockets, WritePump(i) PROVE FeedInv'
  <2>1. /\ srv[i] = "served" /\ send' = [send EXCEPT ![i] = <<>>]
        /\ frames' = IF ws[i] = "open" THEN [frames EXCEPT ![i] = Append(@, send[i])] ELSE frames
        /\ UNCHANGED <<version, known, offered, loop, srv, served, pageVars, page, ws, timers, asked,
                       reloads, drops>>
    BY <1>4 DEF WritePump, connVars
  <2>2. /\ send' \in [Sockets -> Seq(Messages)] /\ frames' \in [Sockets -> Seq(Seq(Messages))]
        /\ \A j \in Sockets : j # i => send'[j] = send[j] /\ frames'[j] = frames[j]
    BY <1>t, <2>1
  <2>3. Registered' = Registered /\ i \in Registered
    BY <2>1 DEF Registered
  <2>4. TypeOK'
    BY <2>1, <2>2 DEF FeedInv, TypeOK, pageVars
  <2>5. ServedInv' /\ LoopInv' /\ FreshInv'
    BY <2>1, <2>3 DEF FeedInv, ServedInv, LoopInv, FreshInv
  <2>6. QueueInv'
    BY <2>1, <2>2, <2>3 DEF FeedInv, QueueInv, pageVars
  <2> QED
    BY <2>1, <2>4, <2>5, <2>6 DEF FeedInv
<1>5. ASSUME NEW i \in Sockets, ReceiveMsg(i) PROVE FeedInv'
  <2> DEFINE frame == Head(frames[i])
  <2>1. /\ frames[i] # <<>> /\ frames' = [frames EXCEPT ![i] = Tail(@)]
        /\ \/ UNCHANGED pageVars
           \/ \E k \in DOMAIN frame : /\ shown' = frame[k].version /\ shownBy' = i
                                      /\ newest' = Max({newest, Turn(i)})
        /\ UNCHANGED <<version, feedVars, connVars>>
    BY <1>5 DEF ReceiveMsg, Parsed
  <2>2. /\ frames[i] \in Seq(Seq(Messages)) /\ frame \in Seq(Messages)
        /\ frames' \in [Sockets -> Seq(Seq(Messages))]
        /\ \A j \in Sockets : j # i => frames'[j] = frames[j]
    BY <1>t, <2>1
  <2> HIDE DEF frame
  <2>3. ASSUME NEW k \in DOMAIN frame PROVE frame[k].version \in 0..MaxVersion
    <3>1. frame[k] \in Messages
      BY <2>2
    <3> QED
      BY <3>1 DEF Messages
  <2>4. Max({newest, Turn(i)}) \in 0..MaxSockets
    <3>1. Turn(i) \in 0..MaxSockets
      BY TurnFacts
    <3>2. Turn(i) \in Nat /\ newest \in Nat
      BY <1>t, <3>1
    <3> QED
      BY <1>t, <3>1, <3>2, MaxFacts
  <2>5. /\ shown' \in -1..MaxVersion /\ shownBy' \in Sockets \cup {Nobody}
        /\ newest' \in 0..MaxSockets
        /\ shownBy' = shownBy \/ shownBy' = i
    <3>1. CASE UNCHANGED pageVars
      BY <3>1 DEF FeedInv, TypeOK, pageVars
    <3>2. ASSUME NEW k \in DOMAIN frame, shown' = frame[k].version, shownBy' = i,
                 newest' = Max({newest, Turn(i)})
          PROVE  /\ shown' \in -1..MaxVersion /\ shownBy' \in Sockets \cup {Nobody}
                 /\ newest' \in 0..MaxSockets /\ shownBy' = i
      <4>1. shown' \in 0..MaxVersion
        BY <2>3, <3>2
      <4> QED
        BY <1>t, <2>4, <3>2, <4>1
    <3> QED
      BY <2>1, <3>1, <3>2 DEF pageVars
  <2>6. TypeOK'
    BY <2>1, <2>2, <2>5 DEF FeedInv, TypeOK, feedVars, connVars
  <2>7. Registered' = Registered /\ i \in Registered
    BY <2>1 DEF Registered, feedVars, FeedInv, QueueInv
  <2>8. ServedInv' /\ LoopInv' /\ FreshInv'
    BY <2>1, <2>7 DEF FeedInv, ServedInv, LoopInv, FreshInv, feedVars, connVars
  <2>9. QueueInv'
    BY <2>1, <2>2, <2>5, <2>7 DEF FeedInv, QueueInv, feedVars
  <2> QED
    BY <2>1, <2>6, <2>8, <2>9 DEF FeedInv, connVars
<1>6. ASSUME NEW b \in Updates, UpdateChallenges(b) PROVE FeedInv'
  <2>1. /\ offered' = [x \in DOMAIN offered \cup {b} |-> IF x = b THEN Len(served) ELSE offered[x]]
        /\ UNCHANGED <<version, known, loop, srv, send, served, frames, pageVars, page, ws, timers,
                       asked, reloads, drops>>
    BY <1>6 DEF UpdateChallenges, connVars
  <2>2. Len(served) \in 0..MaxSockets
    <3>1. Len(served) \in Nat
      BY DEF FeedInv, TypeOK
    <3> QED
      BY <1>t, <3>1, SocketSets DEF FeedInv, ServedInv, Registered
  <2>3. DOMAIN offered' \subseteq Updates /\ \A x \in DOMAIN offered' : offered'[x] \in 0..MaxSockets
    BY <2>1, <2>2 DEF FeedInv, TypeOK
  <2>4. TypeOK'
    BY <2>1, <2>3 DEF FeedInv, TypeOK, pageVars
  <2>5. Registered' = Registered
    BY <2>1 DEF Registered
  <2> QED
    BY <2>1, <2>4, <2>5 DEF FeedInv, ServedInv, LoopInv, QueueInv, FreshInv, pageVars
<1>7. CASE TakeUpdate
  <2>1. /\ loop' = Idle
        /\ UNCHANGED <<version, srv, send, served, frames, pageVars, page, ws, timers, asked, reloads, drops>>
    BY <1>7 DEF TakeUpdate, connVars
  <2>2. /\ known' \subseteq Updates /\ DOMAIN offered' \subseteq Updates
        /\ \A x \in DOMAIN offered' : offered'[x] \in 0..MaxSockets
    BY <1>7 DEF TakeUpdate, FeedInv, TypeOK
  <2>3. loop' \in [at : {"select", "teams", "update"}, client : Sockets \cup {Nobody}]
        /\ loop'.at = "select"
    BY <2>1 DEF Idle
  <2>4. TypeOK'
    BY <2>1, <2>2, <2>3 DEF FeedInv, TypeOK, pageVars
  <2>5. Registered' = Registered
    BY <2>1 DEF Registered
  <2> QED
    BY <2>1, <2>3, <2>4, <2>5 DEF FeedInv, ServedInv, LoopInv, QueueInv, FreshInv, pageVars
<1>8. CASE UNCHANGED vars
  <2>1. Registered' = Registered
    BY <1>8 DEF vars, Registered
  <2> QED
    BY <1>8, <2>1 DEF vars, FeedInv, TypeOK, ServedInv, LoopInv, QueueInv, FreshInv
<1> QED
  BY <1>1, <1>2, <1>3, <1>4, <1>5, <1>6, <1>7, <1>8, BrowserStep DEF Next, Connect, Browser

(* The state of the page, of its connections and of the loop stays within  *)
(* its types, and every connection is served once (handleConns, the loop of*)
(* RunFrontendData).                                                       *)
THEOREM FeedInvariant == Spec => []FeedInv
<1>1. FeedInv /\ [Next]_vars => FeedInv'
  BY FeedInvStep
<1> QED
  BY <1>1, FeedInvInit, PTL DEF Spec

(* The type invariant, from it. *)
THEOREM FeedTypes == Spec => []TypeOK
<1>1. FeedInv => TypeOK
  BY DEF FeedInv
<1> QED
  BY <1>1, FeedInvariant, PTL

-----------------------------------------------------------------------------
(* Connections. *)

(* The sockets that are open, or will be opened again. *)
Live == {i \in Sockets : ws[i] \in {"connecting", "open", "timer"}}

(* connectToWS adds one, in place of the one whose timer fired. *)
LEMMA ConnectLive ==
    ASSUME TypeOK, NEW fired \in SUBSET Sockets, ConnectToWS(fired),
           \A j \in fired : ws[j] = "timer"
    PROVE  \E i \in Sockets \ Live : Live' = (Live \ fired) \cup {i}
<1>1. PICK i \in Sockets : /\ ws[i] = "unused" /\ ws'[i] = "connecting"
                           /\ \A j \in Sockets \ {i} :
                                ws'[j] = IF j \in fired THEN "gone" ELSE ws[j]
  BY ConnectFacts
<1>2. i \notin Live
  BY <1>1 DEF Live
<1>3. \A j \in Sockets : j # i => (j \in Live' <=> j \in Live /\ j \notin fired)
  BY <1>1 DEF Live
<1>4. i \in Live'
  BY <1>1 DEF Live
<1> QED
  BY <1>2, <1>3, <1>4 DEF Live

(* Every step keeps the number of connections. *)
LEMMA LiveStep ==
    ASSUME FeedInv, ConnectionPerReload, [Next]_vars
    PROVE  ConnectionPerReload'
<1>t. /\ ws \in [Sockets -> {"unused", "connecting", "open", "timer", "gone"}]
      /\ reloads \in Nat /\ TypeOK
  BY BoundsAssumption DEF FeedInv, TypeOK
<1>a. /\ ConnectionPerReload <=> Cardinality(Live) = 1 + reloads
      /\ ConnectionPerReload' <=> Cardinality(Live') = 1 + reloads'
  BY DEF ConnectionPerReload, Live
<1>f. \A T \in SUBSET Sockets : IsFiniteSet(T)
  BY SocketSets
<1>1. CASE ChallengeCompleteReload
  <2>1. reloads' = reloads + 1 /\ ConnectToWS({})
    BY <1>1 DEF ChallengeCompleteReload
  <2>2. PICK i \in Sockets \ Live : Live' = Live \cup {i}
    BY <1>t, <2>1, ConnectLive
  <2>3. IsFiniteSet(Live)
    BY <1>f DEF Live
  <2>4. Cardinality(Live') = Cardinality(Live) + 1
    BY <2>2, <2>3, FS_AddElement
  <2> QED
    BY <1>t, <1>a, <2>1, <2>4
<1>2. ASSUME NEW i \in Sockets, Reconnect(i) PROVE ConnectionPerReload'
  <2>1. reloads' = reloads /\ ConnectToWS({i}) /\ ws[i] = "timer"
    BY <1>2 DEF Reconnect
  <2>2. PICK j \in Sockets \ Live : Live' = (Live \ {i}) \cup {j}
    BY <1>t, <2>1, ConnectLive
  <2>3. i \in Live /\ IsFiniteSet(Live) /\ IsFiniteSet(Live \ {i}) /\ Cardinality(Live) \in Nat
    BY <2>1, SocketSets DEF Live
  <2>4. Cardinality(Live \ {i}) = Cardinality(Live) - 1
    BY <2>3, FS_RemoveElement
  <2>5. Cardinality(Live') = Cardinality(Live \ {i}) + 1
    BY <2>2, <2>3, FS_AddElement
  <2> QED
    BY <1>t, <1>a, <2>1, <2>3, <2>4, <2>5
<1>3. CASE Live' = Live /\ reloads' = reloads
  BY <1>3, <1>a
<1>4. ASSUME NEW i \in Sockets, OnClose(i) \/ Upgrade(i) PROVE Live' = Live /\ reloads' = reloads
  <2>1. /\ ws[i] \in {"connecting", "open"} /\ reloads' = reloads
        /\ ws' = [ws EXCEPT ![i] = "timer"] \/ ws' = [ws EXCEPT ![i] = "open"]
    BY <1>4 DEF OnClose, Upgrade
  <2>2. \A j \in Sockets : ws'[j] \in {"connecting", "open", "timer"}
                              <=> ws[j] \in {"connecting", "open", "timer"}
    BY <1>t, <2>1
  <2> QED
    BY <2>1, <2>2 DEF Live
<1>5. CASE UNCHANGED <<ws, reloads>>
  BY <1>3, <1>5 DEF Live
<1>6. ASSUME NEW i \in Sockets, Register(i) \/ SendTeams(i) \/ WritePump(i) \/ ReceiveMsg(i)
      PROVE  UNCHANGED <<ws, reloads>>
  BY <1>6 DEF Register, SendTeams, WritePump, ReceiveMsg, connVars
<1>7. ASSUME \/ ChallengeComplete \/ CloseDialog \/ Change \/ TakeUpdate \/ UNCHANGED vars
             \/ \E b \in Updates : UpdateChallenges(b)
      PROVE  UNCHANGED <<ws, reloads>>
  BY <1>7 DEF ChallengeComplete, CloseDialog, Change, TakeUpdate, UpdateChallenges, connVars, vars
<1> QED
  BY <1>1, <1>2, <1>3, <1>4, <1>5, <1>6, <1>7 DEF Next, Connect, Browser

(* A page holds one connection more for each reload, for good, however many*)
(* of them broke and were opened again (connectToWS, onclose of            *)
(* ChallegesPage.vue).                                                     *)
THEOREM ConnectionsKept == Spec => []ConnectionPerReload
<1>1. Init => ConnectionPerReload
  <2> SUFFICES ASSUME Init PROVE ConnectionPerReload
    OBVIOUS
  <2>1. 1 \in Sockets
    BY BoundsAssumption DEF Sockets, MaxSockets
  <2>2. Live = {1} /\ reloads = 0
    BY <2>1 DEF Init, Live
  <2>3. Cardinality(Live) = 1
    BY <2>2, FS_Singleton
  <2> QED
    BY <2>2, <2>3 DEF ConnectionPerReload, Live
<1>2. FeedInv /\ ConnectionPerReload /\ [Next]_vars => ConnectionPerReload'
  BY LiveStep
<1> QED
  BY <1>1, <1>2, FeedInvariant, PTL DEF Spec

-----------------------------------------------------------------------------
(* Batches of challenges. *)

(* Every step keeps UpdateInv. *)
LEMMA UpdateStep ==
    ASSUME FeedInv, UpdateInv, [Next]_vars
    PROVE  UpdateInv'
<1>t. /\ \A b \in DOMAIN offered : offered[b] \in Nat
      /\ Len(served) \in Nat /\ Lag \in Nat
  BY DEF FeedInv, TypeOK, Lag
<1>k. IsFiniteSet(known) /\ Cardinality(known) \in Nat
  BY UpdatesAssumption, FS_Subset, FS_CardinalityType DEF FeedInv, TypeOK
<1>u. /\ UpdateInv <=> \A b \in DOMAIN offered :
                         b \notin known /\ Len(served) <= offered[b] + Cardinality(known) + Lag
      /\ UpdateInv' <=> \A b \in DOMAIN offered' :
                          b \notin known' /\ Len(served') <= offered'[b] + Cardinality(known') + Lag'
  BY DEF UpdateInv
<1>1. ASSUME NEW i \in Sockets, Register(i) PROVE UpdateInv'
  <2>1. UNCHANGED <<known, offered>> /\ loop = Idle /\ loop' = [at |-> "teams", client |-> i]
    BY <1>1 DEF Register
  <2>2. Lag = 0 /\ Lag' = 1
    BY <2>1 DEF Idle, Lag
  <2>3. Len(served') = Len(served) + 1
    BY <1>1, RegisterFacts
  <2>4. ASSUME NEW b \in DOMAIN offered'
        PROVE  b \notin known' /\ Len(served') <= offered'[b] + Cardinality(known') + Lag'
    <3>1. b \in DOMAIN offered /\ offered'[b] = offered[b] /\ known' = known
      BY <2>1
    <3>2. b \notin known /\ Len(served) <= offered[b] + Cardinality(known) + Lag /\ offered[b] \in Nat
      BY <1>t, <1>u, <3>1
    <3> QED
      BY <1>t, <1>k, <2>2, <2>3, <3>1, <3>2
  <2> QED
    BY <1>u, <2>4
<1>2. ASSUME NEW i \in Sockets, SendTeams(i) PROVE UpdateInv'
  <2>1. /\ UNCHANGED <<known, offered, served>> /\ loop = [at |-> "teams", client |-> i]
        /\ loop' = [loop EXCEPT !.at = "update"]
    BY <1>2 DEF SendTeams
  <2>2. Lag' = Lag
    BY <2>1 DEF Lag
  <2> QED
    BY <1>u, <2>1, <2>2
<1>3. ASSUME NEW b \in Updates, UpdateChallenges(b) PROVE UpdateInv'
  <2>1. /\ b \notin known /\ UNCHANGED <<known, served, loop>>
        /\ offered' = [x \in DOMAIN offered \cup {b} |-> IF x = b THEN Len(served) ELSE offered[x]]
    BY <1>3 DEF UpdateChallenges
  <2>2. Lag' = Lag
    BY <2>1 DEF Lag
  <2>3. offered'[b] = Len(served) /\ DOMAIN offered' = DOMAIN offered \cup {b}
        /\ \A x \in DOMAIN offered : x # b => offered'[x] = offered[x]
    BY <2>1
  <2>4. Len(served) <= Len(served) + Cardinality(known) + Lag
    BY <1>t, <1>k
  <2>5. ASSUME NEW x \in DOMAIN offered'
        PROVE  x \notin known' /\ Len(served') <= offered'[x] + Cardinality(known') + Lag'
    <3>1. CASE x = b
      BY <2>1, <2>2, <2>3, <2>4, <3>1
    <3>2. CASE x # b
      <4>1. x \in DOMAIN offered /\ offered'[x] = offered[x]
        BY <2>3, <3>2
      <4> QED
        BY <1>u, <2>1, <2>2, <4>1
    <3> QED
      BY <3>1, <3>2
  <2> QED
    BY <1>u, <2>5
<1>4. CASE TakeUpdate
  <2>1. /\ loop.at = "update" /\ loop' = Idle /\ UNCHANGED served
        /\ \/ DOMAIN offered = {} /\ UNCHANGED <<known, offered>>
           \/ \E b \in DOMAIN offered : /\ known' = known \cup {b}
                                        /\ offered' = [x \in DOMAIN offered \ {b} |-> offered[x]]
    BY <1>4 DEF TakeUpdate
  <2>2. Lag = 1 /\ Lag' = 0
    BY <2>1 DEF Lag, Idle
  <2>3. CASE DOMAIN offered = {} /\ UNCHANGED <<known, offered>>
    BY <1>u, <2>3
  <2>4. ASSUME NEW b \in DOMAIN offered, known' = known \cup {b},
               offered' = [x \in DOMAIN offered \ {b} |-> offered[x]]
        PROVE  UpdateInv'
    <3>1. b \notin known
      BY <1>u
    <3>2. Cardinality(known') = Cardinality(known) + 1
      BY <1>k, <2>4, <3>1, FS_AddElement
    <3>3. ASSUME NEW x \in DOMAIN offered'
          PROVE  x \notin known' /\ Len(served') <= offered'[x] + Cardinality(known') + Lag'
      <4>1. x \in DOMAIN offered /\ x # b /\ offered'[x] = offered[x]
        BY <2>4
      <4>2. x \notin known /\ Len(served) <= offered[x] + Cardinality(known) + Lag /\ offered[x] \in Nat
        BY <1>t, <1>u, <4>1
      <4> QED
        BY <1>t, <1>k, <2>1, <2>2, <2>4, <3>2, <4>1, <4>2
    <3> QED
      BY <1>u, <3>3
  <2> QED
    BY <2>1, <2>3, <2>4
<1>5. CASE UNCHANGED <<known, offered, loop, served>>
  BY <1>5 DEF UpdateInv, Lag
<1>6. ASSUME NEW i \in Sockets, \/ Upgrade(i) \/ WritePump(i) \/ ReceiveMsg(i) \/ Reconnect(i) \/ OnClose(i)
      PROVE  UNCHANGED <<known, offered, loop, served>>
  BY <1>6 DEF Upgrade, WritePump, ReceiveMsg, Reconnect, OnClose, feedVars
<1>7. ASSUME ChallengeComplete \/ ChallengeCompleteReload \/ CloseDialog \/ Change \/ UNCHANGED vars
      PROVE  UNCHANGED <<known, offered, loop, served>>
  BY <1>7 DEF ChallengeComplete, ChallengeCompleteReload, CloseDialog, Change, feedVars, vars
<1> QED
  BY <1>1, <1>2, <1>3, <1>4, <1>5, <1>6, <1>7 DEF Next, Connect, Browser

(* A batch of challenges added to a running event is in the list of every  *)
(* connection but the first few after it, one for each batch (the second   *)
(* select of RunFrontendData).                                             *)
THEOREM BatchesTaken == Spec => []UpdateAfterOneMore
<1>1. Init => UpdateInv
  BY DEF Init, UpdateInv
<1>2. FeedInv /\ UpdateInv /\ [Next]_vars => UpdateInv'
  BY UpdateStep
<1>3. FeedInv /\ UpdateInv => UpdateAfterOneMore
  <2> SUFFICES ASSUME FeedInv, UpdateInv, NEW b \in DOMAIN offered
               PROVE  Len(served) <= offered[b] + Cardinality(Updates)
    BY DEF UpdateAfterOneMore
  <2>1. /\ b \in Updates /\ known \subseteq Updates \ {b} /\ offered[b] \in Nat
        /\ Len(served) \in Nat
    BY DEF FeedInv, TypeOK, UpdateInv
  <2>2. /\ IsFiniteSet(Updates \ {b}) /\ Cardinality(Updates \ {b}) = Cardinality(Updates) - 1
        /\ Cardinality(Updates) \in Nat
    BY <2>1, UpdatesAssumption, FS_RemoveElement, FS_CardinalityType
  <2>3. Cardinality(known) <= Cardinality(Updates \ {b}) /\ Cardinality(known) \in Nat
    BY <2>1, <2>2, FS_Subset, FS_CardinalityType
  <2>4. Len(served) <= offered[b] + Cardinality(known) + Lag /\ Lag \in {0, 1}
    BY DEF UpdateInv, Lag
  <2> QED
    BY <2>1, <2>2, <2>3, <2>4
<1> QED
  BY <1>1, <1>2, <1>3, FeedInvariant, PTL DEF Spec

-----------------------------------------------------------------------------
(* The age of what is shown. *)

(* When i registers, the turns of the others stay. *)
LEMMA RegisterTurns ==
    ASSUME FeedInv, NEW i \in Sockets, Register(i)
    PROVE  /\ Turn(i)' = Len(served) + 1
           /\ \A j \in Sockets \ {i} : Turn(j)' = Turn(j)
<1>1. /\ i \notin Registered /\ Len(served') = Len(served) + 1 /\ Len(served) \in Nat
      /\ DOMAIN served' = 1..Len(served') /\ DOMAIN served = 1..Len(served)
      /\ \A k \in DOMAIN served : served'[k] = served[k]
      /\ served'[Len(served')].client = i /\ ServedInv'
  BY RegisterFacts
<1>2. \A k \in DOMAIN served' : k \in DOMAIN served \/ k = Len(served')
  BY <1>1
<1>3. DOMAIN served \subseteq DOMAIN served' /\ Len(served') \in DOMAIN served'
  BY <1>1
<1>4. \A k, l \in DOMAIN served' : served'[k].client = served'[l].client => k = l
  BY <1>1 DEF ServedInv
<1>5. \A j : (\E k \in DOMAIN served' : served'[k].client = j)
               => Turn(j)' \in DOMAIN served' /\ served'[Turn(j)'].client = j
  BY DEF Turn
<1>6. Turn(i)' = Len(served) + 1
  BY <1>1, <1>3, <1>4, <1>5
<1>7. ASSUME NEW j \in Sockets \ {i} PROVE Turn(j)' = Turn(j)
  <2>1. CASE j \in Registered
    <3>1. Turn(j) \in DOMAIN served /\ served[Turn(j)].client = j
      BY <2>1, TurnFacts
    <3>2. Turn(j) \in DOMAIN served' /\ served'[Turn(j)].client = j
      BY <1>1, <1>3, <3>1
    <3> QED
      BY <1>4, <1>5, <3>2
  <2>2. CASE j \notin Registered
    <3>1. \A k \in DOMAIN served : served[k].client # j
      BY <2>2 DEF FeedInv, ServedInv
    <3>2. \A k \in DOMAIN served' : served'[k].client # j
      BY <1>1, <1>2, <1>7, <3>1
    <3>3. Turn(j) = 0 /\ Turn(j)' = 0
      BY <3>1, <3>2 DEF Turn
    <3> QED
      BY <3>3
  <2> QED
    BY <2>1, <2>2
<1> QED
  BY <1>6, <1>7

(* Only a client that is registered has messages on their way. *)
LEMMA HasRegistered ==
    ASSUME FeedInv, NEW i \in Sockets, NEW m, Has(i, m)
    PROVE  i \in Registered
BY DEF FeedInv, QueueInv, Has

(* The loop sends m to i. *)
LEMMA HasSent ==
    ASSUME TypeOK, NEW i \in Sockets, NEW m \in Messages,
           send' = [send EXCEPT ![i] = Append(@, m)], frames' = frames
    PROVE  \A j \in Sockets, n \in Messages : Has(j, n)' => Has(j, n) \/ (j = i /\ n = m)
<1>1. send \in [Sockets -> Seq(Messages)]
  BY DEF TypeOK
<1>2. ASSUME NEW j \in Sockets, NEW n \in Messages, Has(j, n)'
      PROVE  Has(j, n) \/ (j = i /\ n = m)
  <2>1. CASE \E k \in DOMAIN frames'[j] : \E l \in DOMAIN frames'[j][k] : frames'[j][k][l] = n
    BY <2>1 DEF Has
  <2>2. ASSUME NEW k \in DOMAIN send'[j], send'[j][k] = n
        PROVE  Has(j, n) \/ (j = i /\ n = m)
    <3>1. CASE j # i
      <4>1. send'[j] = send[j]
        BY <1>1, <3>1
      <4> QED
        BY <2>2, <4>1 DEF Has
    <3>2. CASE j = i
      <4>1. send'[j] = Append(send[j], m) /\ send[j] \in Seq(Messages)
        BY <1>1, <3>2
      <4>2. (k \in DOMAIN send[j] /\ send[j][k] = n) \/ n = m
        BY <2>2, <4>1
      <4> QED
        BY <3>2, <4>2 DEF Has
    <3> QED
      BY <3>1, <3>2
  <2> QED
    BY <1>2, <2>1, <2>2 DEF Has
<1> QED
  BY <1>2

(* Frames that are sent, received or lost bring no new messages. *)
LEMMA HasKept ==
    ASSUME FeedInv, NEW i \in Sockets, WritePump(i) \/ OnClose(i) \/ ReceiveMsg(i)
    PROVE  \A j \in Sockets, n \in Messages : Has(j, n)' => Has(j, n)
<1>1. send \in [Sockets -> Seq(Messages)] /\ frames \in [Sockets -> Seq(Seq(Messages))]
  BY DEF FeedInv, TypeOK
<1> SUFFICES ASSUME NEW j \in Sockets, NEW n \in Messages, Has(j, n)'
             PROVE  Has(j, n)
  OBVIOUS
<1>2. CASE j # i
  <2>1. send'[j] = send[j] /\ frames'[j] = frames[j]
    BY <1>1, <1>2 DEF WritePump, OnClose, ReceiveMsg, feedVars
  <2> QED
    BY <2>1 DEF Has
<1>3. CASE j = i /\ WritePump(i)
  <2>1. send'[i] = <<>> /\ (frames'[i] = frames[i] \/ frames'[i] = Append(frames[i], send[i]))
    BY <1>1, <1>3 DEF WritePump
  <2>2. PICK k \in DOMAIN frames'[i] : \E l \in DOMAIN frames'[i][k] : frames'[i][k][l] = n
    BY <1>3, <2>1 DEF Has
  <2>3. \/ k \in DOMAIN frames[i] /\ frames'[i][k] = frames[i][k]
        \/ frames'[i][k] = send[i]
    <3>1. CASE frames'[i] = frames[i]
      BY <2>2, <3>1
    <3>2. CASE frames'[i] = Append(frames[i], send[i])
      <4>1. frames[i] \in Seq(Seq(Messages)) /\ send[i] \in Seq(Messages)
        BY <1>1
      <4>2. /\ Len(frames[i]) \in Nat /\ DOMAIN frames[i] = 1..Len(frames[i])
            /\ DOMAIN Append(frames[i], send[i]) = 1..(Len(frames[i]) + 1)
            /\ Append(frames[i], send[i])[Len(frames[i]) + 1] = send[i]
            /\ \A l \in 1..Len(frames[i]) : Append(frames[i], send[i])[l] = frames[i][l]
        BY <4>1
      <4>3. k \in 1..Len(frames[i]) \/ k = Len(frames[i]) + 1
        BY <2>2, <3>2, <4>2
      <4> QED
        BY <3>2, <4>2, <4>3
    <3> QED
      BY <2>1, <3>1, <3>2
  <2> QED
    BY <1>3, <2>2, <2>3 DEF Has
<1>4. CASE j = i /\ OnClose(i)
  <2>1. send'[i] = send[i] /\ frames'[i] = <<>>
    BY <1>1, <1>4 DEF OnClose, feedVars
  <2> QED
    BY <1>4, <2>1 DEF Has
<1>5. CASE j = i /\ ReceiveMsg(i)
  <2>1. send'[i] = send[i] /\ frames[i] # <<>> /\ frames'[i] = Tail(frames[i])
    BY <1>1, <1>5 DEF ReceiveMsg, feedVars
  <2>2. \A k \in DOMAIN Tail(frames[i]) : k + 1 \in DOMAIN frames[i] /\ Tail(frames[i])[k] = frames[i][k + 1]
    BY <1>1, <2>1
  <2> QED
    BY <1>5, <2>1, <2>2 DEF Has
<1> QED
  BY <1>2, <1>3, <1>4, <1>5

(* Steps that add no message and show none keep OrderInv. *)
LEMMA OrderKept ==
    ASSUME FeedInv, OrderInv,
           \A j \in Sockets, n \in Messages : Has(j, n)' => Has(j, n),
           served' = served, page' = page, shown' = shown, shownBy' = shownBy,
           version' \in Nat, version' >= version, loop' = loop \/ loop'.at # "teams"
    PROVE  OrderInv'
<1>1. \A j : Turn(j)' = Turn(j)
  BY DEF Turn
<1>2. Wanted' = Wanted
  BY DEF Wanted
<1>3. /\ version \in Nat /\ shown \in Int /\ \A m \in Messages : m.version \in Nat
  BY BoundsAssumption DEF FeedInv, TypeOK, Messages
<1>4. AgeInv'
  BY <1>3 DEF OrderInv, AgeInv
<1>5. SortedInv' /\ ShownInv'
  BY <1>1, <1>2 DEF OrderInv, SortedInv, ShownInv
<1>6. TeamsInv'
  BY <1>2 DEF OrderInv, TeamsInv
<1> QED
  BY <1>4, <1>5, <1>6 DEF OrderInv

(* The message that receiveMsg shows was on its way. *)
LEMMA ShownFacts ==
    ASSUME FeedInv, NEW i \in Sockets, ReceiveMsg(i)
    PROVE  \/ UNCHANGED pageVars
           \/ \E m \in Messages : /\ Has(i, m) /\ m.msg = Wanted
                                  /\ shown' = m.version /\ shownBy' = i
<1>1. frames \in [Sockets -> Seq(Seq(Messages))] /\ frames[i] # <<>>
  BY DEF FeedInv, TypeOK, ReceiveMsg
<1>2. PICK frame \in Seq(Messages) : frame = Head(frames[i])
  BY <1>1
<1>3. 1 \in DOMAIN frames[i] /\ frames[i][1] = frame
  BY <1>1, <1>2
<1>4. CASE UNCHANGED pageVars
  BY <1>4
<1>5. ASSUME NEW k \in Parsed(frame), shown' = frame[k].version, shownBy' = i
      PROVE  \E m \in Messages : /\ Has(i, m) /\ m.msg = Wanted
                                 /\ shown' = m.version /\ shownBy' = i
  <2>1. k \in DOMAIN frame /\ frame[k].msg = Wanted
    BY DEF Parsed
  <2>2. frame[k] \in Messages
    BY <2>1
  <2>3. Has(i, frame[k])
    BY <1>3, <2>1 DEF Has
  <2> QED
    BY <1>5, <2>1, <2>2, <2>3
<1> QED
  BY <1>2, <1>4, <1>5 DEF ReceiveMsg

(* Every step keeps OrderInv. *)
LEMMA OrderStep ==
    ASSUME FeedInv, OrderInv, [Next]_vars
    PROVE  OrderInv'
<1>t. /\ version \in 0..MaxVersion /\ MaxVersion \in Nat /\ version \in Nat /\ shown \in Int
      /\ \A m \in Messages : m.version \in Nat
      /\ Len(served) \in Nat /\ DOMAIN served = 1..Len(served)
  BY BoundsAssumption DEF FeedInv, TypeOK, Messages
<1>r. \A j \in Sockets : /\ Turn(j) \in Nat /\ Turn(j) <= Len(served)
                         /\ \A n \in Messages : Has(j, n) => /\ Turn(j) \in DOMAIN served
                                                             /\ served[Turn(j)].client = j
  BY <1>t, TurnFacts, HasRegistered
<1>1. ASSUME NEW i \in Sockets, Register(i) PROVE OrderInv'
  <2>1. PICK m \in Messages : m = [msg |-> "challenges", version |-> version]
    BY <1>t DEF Messages
  <2>2. /\ send' = [send EXCEPT ![i] = Append(@, m)] /\ loop' = [at |-> "teams", client |-> i]
        /\ UNCHANGED <<version, frames, shown, shownBy, page>>
    BY <1>1, <2>1 DEF Register, pageVars, connVars
  <2>3. m.version = version /\ m.msg = "challenges"
    BY <2>1
  <2>4. i \notin Registered
    BY <1>1, RegisterFacts
  <2>5. shownBy # i /\ \A n \in Messages : ~Has(i, n)
    BY <2>4, HasRegistered DEF FeedInv, QueueInv
  <2>6. \A j \in Sockets, n \in Messages : Has(j, n)' => (Has(j, n) /\ j # i) \/ (j = i /\ n = m)
    BY <2>2, <2>5, HasSent DEF FeedInv
  <2>7. Turn(i)' = Len(served) + 1 /\ \A j \in Sockets \ {i} : Turn(j)' = Turn(j)
    BY <1>1, RegisterTurns
  <2>8. \A j \in Sockets \ {i} : ~(Turn(i)' <= Turn(j)')
    BY <1>t, <1>r, <2>7
  <2>9. Wanted' = Wanted
    BY <2>2 DEF Wanted
  <2>10. AgeInv'
    BY <1>t, <2>2, <2>3, <2>6 DEF OrderInv, AgeInv
  <2>11. SortedInv'
    <3> SUFFICES ASSUME NEW a \in Sockets, NEW b \in Sockets, NEW x \in Messages, NEW y \in Messages,
                        Has(a, x)', Has(b, y)', x.msg = y.msg, Turn(a)' <= Turn(b)'
                 PROVE  x.version <= y.version
      BY DEF SortedInv
    <3>1. CASE b = i
      <4>1. y = m
        BY <2>6, <3>1
      <4>2. x.version <= version
        BY <1>t, <2>3, <2>6 DEF OrderInv, AgeInv
      <4> QED
        BY <2>3, <4>1, <4>2
    <3>2. CASE b # i
      <4>1. a # i
        BY <2>8, <3>2
      <4> QED
        BY <2>6, <2>7, <3>2, <4>1 DEF OrderInv, SortedInv
    <3> QED
      BY <3>1, <3>2
  <2>12. ShownInv'
    <3> SUFFICES ASSUME NEW a \in Sockets, NEW b \in Sockets, NEW y \in Messages,
                        shownBy' = a, Has(b, y)', y.msg = Wanted', Turn(a)' <= Turn(b)'
                 PROVE  shown' <= y.version
      BY DEF ShownInv
    <3>1. CASE b = i
      BY <2>2, <2>3, <2>6, <3>1 DEF OrderInv, AgeInv
    <3>2. CASE b # i
      BY <2>2, <2>5, <2>6, <2>7, <2>9, <3>2 DEF OrderInv, ShownInv
    <3> QED
      BY <3>1, <3>2
  <2>13. TeamsInv'
    <3> SUFFICES ASSUME NEW a \in Sockets, loop' = [at |-> "teams", client |-> a]
                 PROVE  /\ \A n \in Messages : Has(a, n)' => n.msg # "scoreboard"
                        /\ Wanted' = "scoreboard" => shownBy' # a
      BY DEF TeamsInv
    <3>1. a = i
      BY <2>2
    <3> QED
      BY <2>2, <2>3, <2>5, <2>6, <3>1
  <2> QED
    BY <2>10, <2>11, <2>12, <2>13 DEF OrderInv
<1>2. ASSUME NEW i \in Sockets, SendTeams(i) PROVE OrderInv'
  <2>1. PICK m \in Messages : m = [msg |-> "scoreboard", version |-> version]
    BY <1>t DEF Messages
  <2>2. /\ send' = [send EXCEPT ![i] = Append(@, m)] /\ loop = [at |-> "teams", client |-> i]
        /\ loop' = [loop EXCEPT !.at = "update"]
        /\ UNCHANGED <<version, served, frames, shown, shownBy, page>>
    BY <1>2, <2>1 DEF SendTeams, pageVars, connVars
  <2>3. m.version = version /\ m.msg = "scoreboard" /\ loop'.at = "update" /\ loop.at = "teams"
        /\ loop.client = i
    BY <2>1, <2>2
  <2>4. \A n \in Messages : Has(i, n) => n.msg # "scoreboard"
    BY <2>2 DEF OrderInv, TeamsInv
  <2>5. \A j \in Sockets, n \in Messages : Has(j, n)' => Has(j, n) \/ (j = i /\ n = m)
    BY <2>2, HasSent DEF FeedInv
  <2>6. Len(served) \in DOMAIN served /\ served[Len(served)].client = i
    BY <1>t, <2>3 DEF FeedInv, LoopInv, TypeOK
  <2>7. Turn(i) = Len(served)
    BY <2>6, TurnFacts
  <2>8. \A j : Turn(j)' = Turn(j)
    BY <2>2 DEF Turn
  <2>9. Wanted' = Wanted
    BY <2>2 DEF Wanted
  <2>10. AgeInv'
    BY <1>t, <2>2, <2>3, <2>5 DEF OrderInv, AgeInv
  <2>11. SortedInv'
    <3> SUFFICES ASSUME NEW a \in Sockets, NEW b \in Sockets, NEW x \in Messages, NEW y \in Messages,
                        Has(a, x)', Has(b, y)', x.msg = y.msg, Turn(a) <= Turn(b)
                 PROVE  x.version <= y.version
      BY <2>8 DEF SortedInv
    <3>1. x.version <= version
      BY <1>t, <2>3, <2>5 DEF OrderInv, AgeInv
    <3>2. CASE b = i /\ y = m
      BY <2>3, <3>1, <3>2
    <3>3. CASE Has(b, y)
      <4>1. CASE Has(a, x)
        BY <3>3, <4>1 DEF OrderInv, SortedInv
      <4>2. CASE a = i /\ x = m
        <5>1. Turn(b) = Len(served)
          BY <1>t, <1>r, <2>7, <4>2
        <5>2. b = i
          BY <1>r, <2>6, <3>3, <5>1
        <5> QED
          BY <2>3, <2>4, <3>3, <4>2, <5>2
      <4> QED
        BY <2>5, <4>1, <4>2
    <3> QED
      BY <2>5, <3>2, <3>3
  <2>12. ShownInv'
    <3> SUFFICES ASSUME NEW a \in Sockets, NEW b \in Sockets, NEW y \in Messages,
                        shownBy' = a, Has(b, y)', y.msg = Wanted, Turn(a) <= Turn(b)
                 PROVE  shown' <= y.version
      BY <2>8, <2>9 DEF ShownInv
    <3>1. CASE y = m
      BY <2>2, <2>3, <3>1 DEF OrderInv, AgeInv
    <3>2. CASE y # m
      BY <2>2, <2>5, <3>2 DEF OrderInv, ShownInv
    <3> QED
      BY <3>1, <3>2
  <2>13. TeamsInv'
    BY <2>3 DEF TeamsInv
  <2> QED
    BY <2>10, <2>11, <2>12, <2>13 DEF OrderInv
<1>3. ASSUME NEW i \in Sockets, ReceiveMsg(i) PROVE OrderInv'
  <2>1. /\ \A j \in Sockets, n \in Messages : Has(j, n)' => Has(j, n)
        /\ UNCHANGED <<version, served, page, loop>>
    BY <1>3, HasKept DEF ReceiveMsg, feedVars, connVars
  <2>2. CASE UNCHANGED pageVars
    BY <1>t, <2>1, <2>2, OrderKept DEF pageVars
  <2>3. ASSUME NEW m \in Messages, Has(i, m), m.msg = Wanted, shown' = m.version, shownBy' = i
        PROVE  OrderInv'
    <3>1. \A j : Turn(j)' = Turn(j)
      BY <2>1 DEF Turn
    <3>2. Wanted' = Wanted
      BY <2>1 DEF Wanted
    <3>3. AgeInv'
      <4>1. i # Nobody
        BY SocketSets
      <4> QED
        BY <2>1, <2>3, <4>1 DEF OrderInv, AgeInv
    <3>4. SortedInv'
      BY <2>1, <3>1 DEF OrderInv, SortedInv
    <3>5. ShownInv'
      BY <2>1, <2>3, <3>1, <3>2 DEF OrderInv, SortedInv, ShownInv
    <3>6. TeamsInv'
      BY <2>1, <2>3, <3>2 DEF OrderInv, TeamsInv
    <3> QED
      BY <3>3, <3>4, <3>5, <3>6 DEF OrderInv
  <2> QED
    BY <1>3, <2>2, <2>3, ShownFacts
<1>4. ASSUME NEW i \in Sockets, WritePump(i) \/ OnClose(i) PROVE OrderInv'
  <2>1. \A j \in Sockets, n \in Messages : Has(j, n)' => Has(j, n)
    BY <1>4, HasKept
  <2>2. UNCHANGED <<version, served, page, shown, shownBy, loop>>
    BY <1>4 DEF WritePump, OnClose, feedVars, pageVars, connVars
  <2> QED
    BY <1>t, <2>1, <2>2, OrderKept
<1>5. ASSUME UNCHANGED <<send, frames, served, page, shown, shownBy>>, version' \in Nat,
             version' >= version, loop' = loop \/ loop'.at # "teams"
      PROVE  OrderInv'
  <2>1. \A j \in Sockets, n \in Messages : Has(j, n)' => Has(j, n)
    BY <1>5 DEF Has
  <2> QED
    BY <1>5, <2>1, OrderKept
<1>6. CASE Change
  BY <1>t, <1>5, <1>6 DEF Change, feedVars, pageVars, connVars
<1>7. CASE TakeUpdate
  BY <1>t, <1>5, <1>7 DEF TakeUpdate, Idle, pageVars, connVars
<1>8. ASSUME UNCHANGED <<send, frames, served, page, shown, shownBy, version, loop>>
      PROVE  OrderInv'
  BY <1>t, <1>5, <1>8
<1>9. ASSUME NEW i \in Sockets, Upgrade(i) \/ Reconnect(i) PROVE OrderInv'
  BY <1>8, <1>9 DEF Upgrade, Reconnect, feedVars, pageVars
<1>10. ASSUME \/ ChallengeComplete \/ ChallengeCompleteReload \/ CloseDialog \/ UNCHANGED vars
              \/ \E b \in Updates : UpdateChallenges(b)
       PROVE  OrderInv'
  BY <1>8, <1>10
  DEF ChallengeComplete, ChallengeCompleteReload, CloseDialog, UpdateChallenges, feedVars, pageVars,
    connVars, vars
<1> QED
  BY <1>1, <1>2, <1>3, <1>4, <1>6, <1>7, <1>9, <1>10 DEF Next, Connect, Browser

(* Whatever is on its way to a page is as old as the registration it       *)
(* answers, and not older than what the page shows of an earlier one (the  *)
(* loop of RunFrontendData serves one client after the other).             *)
THEOREM OrderInvariant == Spec => [](FeedInv /\ OrderInv)
<1>1. Init => OrderInv
  <2> SUFFICES ASSUME Init PROVE OrderInv
    OBVIOUS
  <2>1. \A i \in Sockets, m \in Messages : ~Has(i, m)
    BY DEF Init, Has
  <2>2. Nobody \notin Sockets
    BY SocketSets
  <2>3. shownBy = Nobody /\ shown = -1 /\ version = 0 /\ loop.at = "select"
    BY DEF Init, Idle
  <2> QED
    BY <2>1, <2>2, <2>3 DEF OrderInv, AgeInv, SortedInv, ShownInv, TeamsInv
<1>2. FeedInv /\ OrderInv /\ [Next]_vars => OrderInv'
  BY OrderStep
<1> QED
  BY <1>1, <1>2, FeedInvariant, PTL DEF Spec

(* A page goes back to older data only when a frame of an earlier          *)
(* connection arrives after one of a later one (receiveMsg shows what it   *)
(* gets).                                                                  *)
THEOREM StepsBack == Spec => NoStepBack
<1>1. FeedInv /\ OrderInv /\ [Next]_vars
        => [shown' < shown => Turn(shownBy') < Turn(shownBy)]_vars
  <2> SUFFICES ASSUME FeedInv, OrderInv, [Next]_vars, shown' < shown
               PROVE  Turn(shownBy') < Turn(shownBy)
    OBVIOUS
  <2>t. shown \in Int /\ shownBy \in Sockets \cup {Nobody}
    BY BoundsAssumption DEF FeedInv, TypeOK
  <2>1. PICK i \in Sockets : ReceiveMsg(i)
    <3>1. shown' # shown
      BY <2>t
    <3> QED
      BY <3>1 DEF Next, Connect, Browser, ChallengeComplete, ChallengeCompleteReload, CloseDialog,
        Upgrade, Register,
        SendTeams, WritePump, Reconnect, OnClose, Change, UpdateChallenges, TakeUpdate, pageVars, vars
  <2>2. PICK m \in Messages : Has(i, m) /\ m.msg = Wanted /\ shown' = m.version /\ shownBy' = i
    BY <2>t, <2>1, ShownFacts DEF pageVars
  <2>3. m.version \in Nat
    BY BoundsAssumption DEF Messages
  <2>4. PICK s \in Sockets : shownBy = s
    BY <2>t, <2>2, <2>3 DEF OrderInv, AgeInv
  <2>5. ~(Turn(s) <= Turn(i))
    BY <2>t, <2>2, <2>3, <2>4 DEF OrderInv, ShownInv
  <2>6. Turn(s) \in Int /\ Turn(i) \in Int
    BY TurnFacts
  <2>7. Turn(i) < Turn(s)
    BY <2>5, <2>6
  <2> QED
    BY <2>2, <2>4, <2>7
<1>2. NoStepBack <=> [][shown' < shown => Turn(shownBy') < Turn(shownBy)]_vars
  BY DEF NoStepBack
<1> QED
  BY <1>1, <1>2, OrderInvariant, PTL DEF Spec

=============================================================================
