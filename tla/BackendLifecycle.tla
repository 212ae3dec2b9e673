--------------------------- MODULE BackendLifecycle ---------------------------
(***************************************************************************)
(* What the relay's backend component promises, with the wire, the retries *)
(* and the clocks left out (spec 4.6).  The relay is running, draining or  *)
(* stopped.  While running, each accepted update may move the router clock *)
(* and install a roster of at most MAX_RELAYS relays.  A clean shutdown    *)
(* turns it to draining, where it only announces its shutdown to the       *)
(* backend and the roster and router clock stay as they were; from either  *)
(* phase it stops for good.  It sleeps the grace period on the way out     *)
(* only if the backend has been told that it is draining.                  *)
(***************************************************************************)
EXTENDS Naturals, FiniteSets

CONSTANTS MAX_RELAYS, Relays, Timestamps

VARIABLES
    phase,        \* "running", "draining" or "stopped"
    roster,       \* the relays the relay forwards to
    router_time,  \* the backend's clock as the relay last heard it
    announced,    \* the backend has been told the relay is draining
    grace         \* the relay slept the grace period before stopping

avars == <<phase, roster, router_time, announced, grace>>

\* The rosters an update may install.
Rosters == {R \in SUBSET Relays : Cardinality(R) <= MAX_RELAYS}

Init ==
    /\ phase = "running"
    /\ roster = {}
    /\ router_time \in Timestamps
    /\ announced = FALSE
    /\ grace = FALSE

\* An update while running: the router clock and the roster may change.
Update ==
    /\ phase = "running"
    /\ router_time' \in Timestamps
    /\ roster' \in Rosters
    /\ UNCHANGED <<phase, announced, grace>>

\* A clean shutdown begins.
Drain ==
    /\ phase = "running"
    /\ phase' = "draining"
    /\ UNCHANGED <<roster, router_time, announced, grace>>

\* The shutdown announcement reaches the backend.
Announce ==
    /\ phase = "draining"
    /\ announced' = TRUE
    /\ UNCHANGED <<phase, roster, router_time, grace>>

\* The relay stops without draining.
Stop ==
    /\ phase = "running"
    /\ phase' = "stopped"
    /\ UNCHANGED <<roster, router_time, announced, grace>>

\* The drain ends, with the grace sleep only after an announcement.
Exit ==
    /\ phase = "draining"
    /\ phase' = "stopped"
    /\ grace' \in BOOLEAN
    /\ grace' => announced
    /\ UNCHANGED <<roster, router_time, announced>>

Next == Update \/ Drain \/ Announce \/ Stop \/ Exit

Spec == Init /\ [][Next]_avars

=============================================================================
