------------------------ MODULE BackendRefinementProofs ------------------------
(***************************************************************************)
(* Proof that the backend loop of Backend.tla implements the abstract      *)
(* lifecycle of BackendLifecycle.tla under the refinement mapping of       *)
(* Backend (LifecyclePhase, and announced as the backend's draining       *)
(* state), for every value of the constants.                               *)
(***************************************************************************)
EXTENDS BackendProofs, FiniteSetTheorems

USE ConstantsAssumption

\* The invariant the mapping needs: the shutdown flag of update() is only
\* set inside the clean-shutdown loop and then stays set; the request in
\* flight carries it; the backend hears of a drain only from a shutdown
\* request, and an acknowledged shutdown update was delivered; the roster
\* holds at most MAX_RELAYS relays.
RInv ==
    /\ shutdown => bpc # "loop"
    /\ bpc \in {"send", "finish"} => req.shutting_down = shutdown
    /\ backend_state = "draining" => shutdown
    /\ bpc = "finish" /\ request_success /\ shutdown => backend_state = "draining"
    /\ shutdown_acked => backend_state = "draining"
    /\ Cardinality(roster) <= MAX_RELAYS

LEMMA InitRInv == Init => RInv
<1> SUFFICES ASSUME Init PROVE RInv
    OBVIOUS
<1>1. Cardinality(roster) = 0
    BY FS_EmptySet DEF Init
<1>2. QED
    BY <1>1 DEF Init, RInv

LEMMA RInvStep == TypeOK /\ RInv /\ [Next]_vars => RInv'
<1> SUFFICES ASSUME TypeOK, RInv, [Next]_vars PROVE RInv'
    OBVIOUS
<1>1. CASE UpdateLoopHead
    BY <1>1 DEF UpdateLoopHead, RInv, relay_vars, server_vars
<1>2. CASE SerializeRequest
    BY <1>2 DEF SerializeRequest, RInv, server_vars
<1>3. CASE SendRequest
    <2>1. PICK outcome \in {"acked", "reply_lost", "failed"}, d \in SendTimes :
              SendRequest!2!(outcome, d)
        BY <1>3 DEF SendRequest
    <2>2. backend_state' = "draining" => shutdown
        BY <1>3, <2>1 DEF SendRequest, RInv
    <2>3. bpc' = "finish" /\ request_success' /\ shutdown' => backend_state' = "draining"
        BY <1>3, <2>1 DEF SendRequest, RInv
    <2>4. QED
        BY <1>3, <2>2, <2>3 DEF SendRequest, RInv, relay_vars
<1>4. CASE FinishNormalUpdate
    <2>1. PICK r \in Responses : UpdateTail(r)
        BY <1>4 DEF FinishNormalUpdate
    <2>2. Cardinality(roster') <= MAX_RELAYS
        BY <2>1 DEF UpdateTail, RInv
    <2>3. QED
        BY <1>4, <2>2 DEF FinishNormalUpdate, RInv, server_vars
<1>5. CASE FinishShutdownUpdate
    <2>1. Cardinality(roster') <= MAX_RELAYS
        BY <1>5 DEF FinishShutdownUpdate, UpdateTail, RInv
    <2>2. shutdown_acked' => backend_state' = "draining"
        BY <1>5 DEF FinishShutdownUpdate, UpdateTail, RInv, server_vars
    <2>3. bpc' \in {"serialize", "done"}
        BY <1>5 DEF FinishShutdownUpdate, ShutdownOnResult
    <2>4. QED
        BY <1>5, <2>1, <2>2, <2>3 DEF FinishShutdownUpdate, RInv, server_vars
<1>6. CASE Environment
    <2>1. UNCHANGED <<bpc, shutdown, req, request_success, shutdown_acked,
                      roster, backend_state>>
        BY <1>6 DEF Environment, RecordTraffic, RouteRequest, StopSignal,
                    CleanShutdownSignal, loop_vars, relay_vars, server_vars
    <2>2. QED
        BY <2>1 DEF RInv
<1>7. CASE UNCHANGED vars
    BY <1>7 DEF vars, loop_vars, relay_vars, server_vars, RInv
<1>8. QED
    BY <1>1, <1>2, <1>3, <1>4, <1>5, <1>6, <1>7 DEF Next, BackendThread

-----------------------------------------------------------------------------
(* The refinement.                                                         *)

\* The abstract variables under the mapping.
LEMMA MappedInit == Init => Lifecycle!Init
<1> SUFFICES ASSUME Init PROVE Lifecycle!Init
    OBVIOUS
<1>1. LifecyclePhase = "running"
    BY DEF Init, LifecyclePhase
<1>2. QED
    BY <1>1 DEF Init, Lifecycle!Init

\* Every step of the backend loop and its environment is a step of the
\* lifecycle or leaves the lifecycle's variables as they were.
LEMMA MappedStep ==
    TypeOK /\ TypeOK' /\ RInv /\ GraceInv' /\ RInv' /\ [Next]_vars
        => [Lifecycle!Next]_Lifecycle!avars
<1> SUFFICES ASSUME TypeOK, TypeOK', RInv, GraceInv', RInv', [Next]_vars
             PROVE  [Lifecycle!Next]_Lifecycle!avars
    OBVIOUS
<1>1. CASE UpdateLoopHead
    \* From the loop head the relay keeps running, drains or stops.
    <2>1. ~shutdown /\ bpc = "loop" /\ LifecyclePhase = "running"
        BY <1>1 DEF UpdateLoopHead, RInv, LifecyclePhase
    <2>2. UNCHANGED <<roster, router_time, backend_state, grace>>
        BY <1>1 DEF UpdateLoopHead, relay_vars, server_vars
    <2>3. CASE bpc' = "serialize" /\ ~shutdown'
        BY <2>1, <2>2, <2>3 DEF LifecyclePhase, Lifecycle!avars
    <2>4. CASE bpc' = "serialize" /\ shutdown'
        BY <2>1, <2>2, <2>4 DEF LifecyclePhase, Lifecycle!Next, Lifecycle!Drain
    <2>5. CASE bpc' = "done"
        BY <2>1, <2>2, <2>5 DEF LifecyclePhase, Lifecycle!Next, Lifecycle!Stop
    <2>6. QED
        BY <1>1, <2>3, <2>4, <2>5 DEF UpdateLoopHead
<1>2. CASE SerializeRequest
    BY <1>2 DEF SerializeRequest, LifecyclePhase, Lifecycle!avars, server_vars
<1>3. CASE SendRequest
    \* A send moves the backend to draining only from a shutdown request.
    <2>1. UNCHANGED <<LifecyclePhase, roster, router_time, grace>>
        BY <1>3 DEF SendRequest, LifecyclePhase, relay_vars
    <2>2. CASE backend_state' = "draining" /\ backend_state # "draining"
        <3>1. shutdown /\ LifecyclePhase = "draining"
            BY <2>2, <1>3 DEF RInv, SendRequest, LifecyclePhase
        <3>2. QED
            BY <2>1, <2>2, <3>1 DEF Lifecycle!Next, Lifecycle!Announce
    <2>3. CASE ~(backend_state' = "draining" /\ backend_state # "draining")
        <3>1. (backend_state' = "draining") = (backend_state = "draining")
            BY <2>3, <1>3 DEF SendRequest, RInv
        <3>2. QED
            BY <2>1, <3>1 DEF Lifecycle!avars
    <2>4. QED
        BY <2>2, <2>3
<1>4. CASE FinishNormalUpdate
    \* The tail of a normal update is an abstract Update.
    <2>1. ~shutdown /\ bpc = "finish" /\ bpc' = "loop" /\ ~shutdown'
        BY <1>4 DEF FinishNormalUpdate
    <2>2. LifecyclePhase = "running" /\ LifecyclePhase' = "running"
        BY <2>1 DEF LifecyclePhase
    <2>3. router_time' \in Timestamps
        BY DEF TypeOK, DataTypeOK
    <2>4. roster' \in Lifecycle!Rosters
        <3>1. roster' \in SUBSET Relays
            BY DEF TypeOK, DataTypeOK
        <3>2. Cardinality(roster') <= MAX_RELAYS
            BY DEF RInv
        <3>3. QED
            BY <3>1, <3>2 DEF Lifecycle!Rosters, Lifecycle!Cardinality, Cardinality
    <2>5. UNCHANGED <<backend_state, grace>>
        BY <1>4 DEF FinishNormalUpdate, server_vars
    <2>6. QED
        BY <2>2, <2>3, <2>4, <2>5 DEF Lifecycle!Next, Lifecycle!Update, Lifecycle!Rosters
<1>5. CASE FinishShutdownUpdate
    \* A shutdown update changes neither roster nor router time; leaving
    \* the loop is the abstract Exit.
    <2>1. shutdown /\ bpc = "finish" /\ shutdown'
        BY <1>5 DEF FinishShutdownUpdate
    <2>2. UNCHANGED <<roster, router_time, backend_state>>
        BY <1>5 DEF FinishShutdownUpdate, UpdateTail, server_vars
    <2>3. CASE ShutdownOnResult!1
        <3>1. bpc' = "serialize" /\ UNCHANGED grace
            BY <2>3
        <3>2. QED
            BY <2>1, <2>2, <3>1 DEF LifecyclePhase, Lifecycle!avars
    <2>4. CASE ShutdownOnResult!2
        <3>1. bpc' = "done"
            BY <2>4
        <3>2. LifecyclePhase = "draining" /\ LifecyclePhase' = "stopped"
            BY <2>1, <3>1 DEF LifecyclePhase
        <3>3. grace' \in BOOLEAN
            BY DEF TypeOK, FlagsTypeOK
        <3>4. grace' => backend_state' = "draining"
            BY DEF GraceInv, RInv
        <3>5. QED
            BY <2>2, <3>2, <3>3, <3>4 DEF Lifecycle!Next, Lifecycle!Exit
    <2>5. QED
        BY <1>5, <2>3, <2>4 DEF FinishShutdownUpdate, ShutdownOnResult
<1>6. CASE Environment
    <2>1. UNCHANGED <<bpc, shutdown, roster, router_time, backend_state, grace>>
        BY <1>6 DEF Environment, RecordTraffic, RouteRequest, StopSignal,
                    CleanShutdownSignal, loop_vars, relay_vars, server_vars
    <2>2. QED
        BY <2>1 DEF LifecyclePhase, Lifecycle!avars
<1>7. CASE UNCHANGED vars
    BY <1>7 DEF vars, loop_vars, relay_vars, server_vars, LifecyclePhase,
                Lifecycle!avars
<1>8. QED
    BY <1>1, <1>2, <1>3, <1>4, <1>5, <1>6, <1>7 DEF Next, BackendThread

\* The backend loop implements the relay's lifecycle: every behaviour of
\* Backend, seen through LifecyclePhase and the backend's draining state,
\* is a behaviour of BackendLifecycle (BackendRefinesLifecycle).
THEOREM LifecycleRefinement == Spec => BackendRefinesLifecycle
<1>1. Init => TypeOK /\ RInv /\ GraceInv
    BY InitType, InitRInv DEF Init, GraceInv
<1>2. TypeOK /\ RInv /\ GraceInv /\ [Next]_vars => (TypeOK /\ RInv /\ GraceInv)'
    BY TypeCorrect, RInvStep, GraceStep, FlagsTypeStep, ThreadTypeStep,
       ClockTypeStep, DataTypeStep DEF TypeOK
<1>3. Spec => [](TypeOK /\ RInv /\ GraceInv)
    BY <1>1, <1>2, PTL DEF Spec
<1>4. QED
    BY <1>3, MappedInit, MappedStep, <1>2, PTL
    DEF Spec, BackendRefinesLifecycle, Lifecycle!Spec

=============================================================================
