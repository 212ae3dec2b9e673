---------------------------- MODULE BackendProofs ----------------------------
(***************************************************************************)
(* Proofs about the backend thread (Backend.tla) for every value of the    *)
(* constants that satisfies ConstantsAssumption.                           *)
(***************************************************************************)
EXTENDS Backend, TLAPS

USE ConstantsAssumption

-----------------------------------------------------------------------------
(* Type correctness.                                                       *)

\* Sat keeps a clock a natural number.
LEMMA SatNat == ASSUME NEW t \in Nat PROVE Sat(t) \in Nat
BY DEF Sat

\* Each step keeps the type of the shared flags.
LEMMA FlagsTypeStep ==
    FlagsTypeOK /\ ClockTypeOK /\ [Next]_vars => FlagsTypeOK'
<1> SUFFICES ASSUME FlagsTypeOK, ClockTypeOK, [Next]_vars PROVE FlagsTypeOK'
    OBVIOUS
<1>1. CASE UpdateLoopHead \/ SerializeRequest \/ SendRequest
    BY <1>1 DEF UpdateLoopHead, SerializeRequest, SendRequest, FlagsTypeOK
<1>2. CASE FinishNormalUpdate
    <2>1. PICK r \in Responses : UpdateTail(r)
        BY <1>2 DEF FinishNormalUpdate
    <2>2. first_update' \in BOOLEAN
        BY <2>1 DEF UpdateTail, FlagsTypeOK
    <2>3. QED
        BY <1>2, <2>2 DEF FinishNormalUpdate, LoopOnResult, FlagsTypeOK
<1>3. CASE FinishShutdownUpdate
    <2>1. first_update' \in BOOLEAN
        BY <1>3 DEF FinishShutdownUpdate, UpdateTail, FlagsTypeOK
    <2>2. grace' \in BOOLEAN
        <3>1. CASE ShutdownOnResult!1
            BY <3>1 DEF FlagsTypeOK
        <3>2. CASE ShutdownOnResult!2
            BY <3>2 DEF GraceSleep
        <3>3. QED
            BY <1>3, <3>1, <3>2 DEF FinishShutdownUpdate, ShutdownOnResult
    <2>3. QED
        BY <1>3, <2>1, <2>2 DEF FinishShutdownUpdate, FlagsTypeOK
<1>4. CASE Environment
    BY <1>4 DEF Environment, RecordTraffic, RouteRequest, StopSignal,
                CleanShutdownSignal, FlagsTypeOK, loop_vars
<1>5. CASE UNCHANGED vars
    BY <1>5 DEF vars, loop_vars, FlagsTypeOK
<1>6. QED
    BY <1>1, <1>2, <1>3, <1>4, <1>5 DEF Next, BackendThread

\* Each step keeps the type of the backend thread's control state.
LEMMA ThreadTypeStep ==
    FlagsTypeOK /\ ThreadTypeOK /\ [Next]_vars => ThreadTypeOK'
<1> SUFFICES ASSUME FlagsTypeOK, ThreadTypeOK, [Next]_vars PROVE ThreadTypeOK'
    OBVIOUS
<1>1. CASE UpdateLoopHead \/ SerializeRequest
    BY <1>1 DEF UpdateLoopHead, SerializeRequest, FlagsTypeOK, ThreadTypeOK,
                server_vars
<1>2. CASE SendRequest
    BY <1>2 DEF SendRequest, ThreadTypeOK
<1>3. CASE FinishNormalUpdate
    <2>1. PICK r \in Responses : UpdateTail(r)
        BY <1>3 DEF FinishNormalUpdate
    <2>2. result' \in {"Success", "Failure"} /\ rejected' \in BOOLEAN
        BY <2>1 DEF UpdateTail
    <2>3. QED
        BY <1>3, <2>2 DEF FinishNormalUpdate, ThreadTypeOK, server_vars
<1>4. CASE FinishShutdownUpdate
    <2>1. result' \in {"Success", "Failure"} /\ rejected' \in BOOLEAN
        BY <1>4 DEF FinishShutdownUpdate, UpdateTail
    <2>2. bpc' \in {"serialize", "done"}
        BY <1>4 DEF FinishShutdownUpdate, ShutdownOnResult
    <2>3. QED
        BY <1>4, <2>1, <2>2 DEF FinishShutdownUpdate, ThreadTypeOK, server_vars
<1>5. CASE Environment
    BY <1>5 DEF Environment, RecordTraffic, RouteRequest, StopSignal,
                CleanShutdownSignal, ThreadTypeOK, loop_vars, server_vars
<1>6. CASE UNCHANGED vars
    BY <1>6 DEF vars, loop_vars, server_vars, ThreadTypeOK
<1>7. QED
    BY <1>1, <1>2, <1>3, <1>4, <1>5, <1>6 DEF Next, BackendThread

\* Each step keeps the retry counter and the clocks natural numbers.
LEMMA ClockTypeStep == ClockTypeOK /\ [Next]_vars => ClockTypeOK'
<1> SUFFICES ASSUME ClockTypeOK, [Next]_vars PROVE ClockTypeOK'
    OBVIOUS
<1>1. CASE UpdateLoopHead \/ SerializeRequest
    BY <1>1 DEF UpdateLoopHead, SerializeRequest, ClockTypeOK
<1>2. CASE SendRequest
    <2>1. PICK outcome \in {"acked", "reply_lost", "failed"}, d \in SendTimes :
              SendRequest!2!(outcome, d)
        BY <1>2 DEF SendRequest
    <2>2. d \in Nat
        OBVIOUS
    <2>3. update_clock' \in Nat /\ shutdown_clock' \in Nat
        BY <2>1, <2>2, SatNat DEF Tick, ClockTypeOK
    <2>4. num_retries' \in 0..MAX_UPDATE_ATTEMPTS
        BY <2>1 DEF ShouldRetry, ClockTypeOK
    <2>5. QED
        BY <1>2, <2>3, <2>4 DEF SendRequest, ClockTypeOK
<1>3. CASE FinishNormalUpdate
    BY <1>3 DEF FinishNormalUpdate, ClockTypeOK
<1>4. CASE FinishShutdownUpdate
    BY <1>4, SatNat DEF FinishShutdownUpdate, ShutdownOnResult,
                        MeasureShutdownTime, ClockTypeOK
<1>5. CASE Environment
    BY <1>5 DEF Environment, RecordTraffic, RouteRequest, StopSignal,
                CleanShutdownSignal, ClockTypeOK, loop_vars
<1>6. CASE UNCHANGED vars
    BY <1>6 DEF vars, loop_vars, ClockTypeOK
<1>7. QED
    BY <1>1, <1>2, <1>3, <1>4, <1>5, <1>6 DEF Next, BackendThread

\* Each step keeps the type of the request, counters, roster and sessions.
LEMMA DataTypeStep ==
    ThreadTypeOK /\ DataTypeOK /\ [Next]_vars => DataTypeOK'
<1> SUFFICES ASSUME ThreadTypeOK, DataTypeOK, [Next]_vars PROVE DataTypeOK'
    OBVIOUS
<1>1. CASE UpdateLoopHead
    BY <1>1 DEF UpdateLoopHead, DataTypeOK, relay_vars, server_vars
<1>2. CASE SerializeRequest
    BY <1>2 DEF SerializeRequest, DataTypeOK, ThreadTypeOK, ZeroCounters,
                server_vars
<1>3. CASE SendRequest
    <2>1. PICK outcome \in {"acked", "reply_lost", "failed"}, d \in SendTimes :
              SendRequest!2!(outcome, d)
        BY <1>3 DEF SendRequest
    <2>2. AddCounters(backend_bytes, req.traffic) \in [Counters -> Nat]
        BY DEF AddCounters, DataTypeOK
    <2>3. backend_bytes' \in [Counters -> Nat]
        BY <2>1, <2>2 DEF DataTypeOK
    <2>4. QED
        BY <1>3, <2>3 DEF SendRequest, DataTypeOK, relay_vars
<1>4. CASE FinishNormalUpdate
    <2>1. PICK r \in Responses : UpdateTail(r)
        BY <1>4 DEF FinishNormalUpdate
    <2>2. r.timestamp \in Timestamps /\ r.relays \in SUBSET Relays
        BY DEF Responses
    <2>3. router_time' \in Timestamps /\ roster' \in SUBSET Relays
        BY <2>1, <2>2 DEF UpdateTail, DataTypeOK
    <2>4. ASSUME NEW now
          PROVE  purge(now) \in [SessionIds -> Timestamps \cup {NoSession}]
        BY DEF purge, DataTypeOK
    <2>5. sessions' \in [SessionIds -> Timestamps \cup {NoSession}]
        BY <1>4, <2>4 DEF FinishNormalUpdate, LoopOnResult, DataTypeOK
    <2>6. QED
        BY <1>4, <2>3, <2>5 DEF FinishNormalUpdate, DataTypeOK, server_vars
<1>5. CASE FinishShutdownUpdate
    <2>1. router_time' \in Timestamps /\ roster' \in SUBSET Relays
        BY <1>5 DEF FinishShutdownUpdate, UpdateTail, DataTypeOK
    <2>2. QED
        BY <1>5, <2>1 DEF FinishShutdownUpdate, DataTypeOK, server_vars
<1>6. CASE RecordTraffic
    BY <1>6 DEF RecordTraffic, DataTypeOK, loop_vars, server_vars
<1>7. CASE RouteRequest
    BY <1>7 DEF RouteRequest, DataTypeOK, loop_vars, server_vars
<1>8. CASE StopSignal \/ CleanShutdownSignal
    BY <1>8 DEF StopSignal, CleanShutdownSignal, DataTypeOK, relay_vars,
                server_vars
<1>9. CASE UNCHANGED vars
    BY <1>9 DEF vars, loop_vars, relay_vars, server_vars, DataTypeOK
<1>10. QED
    BY <1>1, <1>2, <1>3, <1>4, <1>5, <1>6, <1>7, <1>8, <1>9
    DEF Next, BackendThread, Environment

\* The initial state is well typed.
LEMMA InitType == Init => TypeOK
<1> SUFFICES ASSUME Init PROVE TypeOK
    OBVIOUS
<1>1. FlagsTypeOK
    BY DEF Init, FlagsTypeOK
<1>5. ThreadTypeOK
    BY DEF Init, ThreadTypeOK
<1>6. ClockTypeOK
    BY DEF Init, ClockTypeOK
<1>2. ZeroCounters \in [Counters -> Nat]
    BY DEF ZeroCounters
<1>3. DataTypeOK
    BY <1>2 DEF Init, DataTypeOK
<1>4. QED
    BY <1>1, <1>3, <1>5, <1>6 DEF TypeOK

\* TypeOK holds in every state of the backend thread and its environment.
THEOREM TypeCorrect == Spec => []TypeOK
<1>1. TypeOK /\ [Next]_vars => TypeOK'
    BY FlagsTypeStep, ThreadTypeStep, ClockTypeStep, DataTypeStep DEF TypeOK
<1>2. QED
    BY InitType, <1>1, PTL DEF Spec

-----------------------------------------------------------------------------
(* The grace sleep.                                                        *)

\* The inductive form of GraceOnlyAfterAck: the grace flag is only ever set
\* by the step that leaves the clean-shutdown loop, together with an
\* acknowledged update, and nothing runs on the backend thread afterwards.
GraceInv == grace => bpc = "done" /\ shutdown_acked

LEMMA GraceStep == TypeOK /\ GraceInv /\ [Next]_vars => GraceInv'
<1> SUFFICES ASSUME TypeOK, GraceInv, [Next]_vars PROVE GraceInv'
    OBVIOUS
<1>1. CASE FinishShutdownUpdate
    <2>1. ~grace
        BY <1>1 DEF FinishShutdownUpdate, GraceInv
    <2>2. CASE ShutdownOnResult!1
        \* Another round of the clean-shutdown loop leaves grace unset.
        BY <2>1, <2>2 DEF GraceInv
    <2>3. CASE ShutdownOnResult!2
        \* Leaving the loop with time to spare means the update succeeded.
        <3>1. grace' => time_since_last_update < CLEAN_SHUTDOWN_TIMEOUT_SECS
            BY <2>3 DEF GraceSleep
        <3>2. grace' => result' = "Success"
            BY <2>3, <3>1 DEF TypeOK, ClockTypeOK
        <3>3. shutdown_acked' = (result' = "Success") /\ bpc' = "done"
            BY <1>1, <2>3 DEF FinishShutdownUpdate
        <3>4. QED
            BY <3>2, <3>3 DEF GraceInv
    <2>4. QED
        BY <1>1, <2>2, <2>3 DEF FinishShutdownUpdate, ShutdownOnResult
<1>2. CASE UpdateLoopHead \/ SerializeRequest \/ SendRequest \/ FinishNormalUpdate
    \* None of these runs once the thread is done, nor touches grace.
    BY <1>2 DEF UpdateLoopHead, SerializeRequest, SendRequest,
                FinishNormalUpdate, GraceInv
<1>3. CASE Environment
    BY <1>3 DEF Environment, RecordTraffic, RouteRequest, StopSignal,
                CleanShutdownSignal, loop_vars, GraceInv
<1>4. CASE UNCHANGED vars
    BY <1>4 DEF vars, loop_vars, GraceInv
<1>5. QED
    BY <1>1, <1>2, <1>3, <1>4 DEF Next, BackendThread

\* The relay never sleeps the grace period after a clean shutdown whose
\* updates all failed: GraceOnlyAfterAck holds in every state.
THEOREM GraceOnlyAfterAckHolds == Spec => []GraceOnlyAfterAck
<1>1. Init => GraceInv
    BY DEF Init, GraceInv
<1>2. GraceInv => GraceOnlyAfterAck
    BY DEF GraceInv, GraceOnlyAfterAck
<1>3. QED
    BY <1>1, <1>2, TypeCorrect, GraceStep, PTL DEF Spec
=============================================================================
