------------------------------ MODULE LabPool ------------------------------
(***************************************************************************)
(* What a hub promises its event, without goroutines or channels: a pool   *)
(* of at most Cap labs.  A lab is held by at most one team at a time, may  *)
(* be given back and granted again, and is destroyed only once the pool    *)
(* has been stopped.                                                       *)
(***************************************************************************)
EXTENDS Integers

CONSTANT Cap

VARIABLES
    created,   \* number of labs provisioned so far, numbered from 1
    held,      \* labs that a team holds
    closed,    \* labs that have been destroyed
    stopped    \* the pool has been told to shut down

poolVars == <<created, held, closed, stopped>>

Init ==
    /\ created = 0
    /\ held = {}
    /\ closed = {}
    /\ stopped = FALSE

Provision ==
    /\ created < Cap
    /\ created' = created + 1
    /\ UNCHANGED <<held, closed, stopped>>

Grant(l) ==
    /\ l \notin held
    /\ held' = held \cup {l}
    /\ UNCHANGED <<created, closed, stopped>>

GiveBack(l) ==
    /\ l \in held
    /\ held' = held \ {l}
    /\ UNCHANGED <<created, closed, stopped>>

Shutdown ==
    /\ ~stopped
    /\ stopped' = TRUE
    /\ UNCHANGED <<created, held, closed>>

Destroy(l) ==
    /\ stopped
    /\ l \notin closed
    /\ closed' = closed \cup {l}
    /\ UNCHANGED <<created, held, stopped>>

Next ==
    \/ Provision
    \/ \E l \in 1..created : Grant(l) \/ GiveBack(l) \/ Destroy(l)
    \/ Shutdown

Spec == Init /\ [][Next]_poolVars
=============================================================================
