------------------------------- MODULE Backend -------------------------------
(***************************************************************************)
(* The relay's backend thread (src/src/core/backend.cpp): Backend::         *)
(* update_loop and Backend::update, together with the parts of the relay  *)
(* that the loop touches.                                                  *)
(*                                                                         *)
(*  - the backend thread: serialises an UpdateRequest (draining the       *)
(*    ThroughputRecorder), POSTs it with retries, parses the              *)
(*    UpdateResponse, sets the router time, swaps the relay roster,       *)
(*    purges expired sessions; on shutdown it runs the clean-shutdown     *)
(*    loop and the 30 s grace sleep;                                       *)
(*  - the receive thread, only as far as the loop sees it: it adds bytes   *)
(*    to the recorder and installs sessions from route requests;          *)
(*  - the signal handler: clears should_loop, and for a clean shutdown     *)
(*    sets should_clean_shutdown;                                          *)
(*  - the backend server: it accumulates the byte deltas it receives and   *)
(*    tracks whether the relay announced its shutdown.                     *)
(*                                                                         *)
(* Time is kept as two relative clocks in whole seconds: update_clock, the *)
(* util::Clock `timeout` of one update, and shutdown_clock, the Clock      *)
(* `backend_timeout` of the clean-shutdown loop.                           *)
(***************************************************************************)
EXTENDS Naturals, FiniteSets

CONSTANTS
    MAX_UPDATE_ATTEMPTS,          \* retry bound of the send loop
    UPDATE_TIMEOUT_SECS,          \* per-update time budget (30 s in the code)
    CLEAN_SHUTDOWN_TIMEOUT_SECS,  \* clean-shutdown budget (60 s in the code)
    SendTimes,                    \* seconds one send_request call may take
    UPDATE_RESPONSE_VERSION,      \* the response version the relay accepts
    Versions,                     \* versions a backend response may carry
    MAX_RELAYS,                   \* largest roster the relay accepts
    Relays,                       \* relay ids the backend may list
    Timestamps,                   \* timestamps the backend may send
    Counters,                     \* the ThroughputRecorder's byte counters
    MaxCounted,                   \* bound on bytes counted per counter
    SessionIds,                   \* session ids of route requests
    NoSession,                    \* marks an absent session
    CLOCK_CAP                     \* clocks saturate here (above every budget)

ASSUME ConstantsAssumption ==
    /\ MAX_UPDATE_ATTEMPTS \in Nat \ {0}
    /\ UPDATE_TIMEOUT_SECS \in Nat
    /\ CLEAN_SHUTDOWN_TIMEOUT_SECS \in Nat \ {0}
    /\ SendTimes \subseteq Nat /\ SendTimes # {}
    /\ UPDATE_RESPONSE_VERSION \in Versions
    /\ MAX_RELAYS \in Nat
    /\ IsFiniteSet(Relays)
    /\ Timestamps \subseteq Nat /\ Timestamps # {}
    /\ MaxCounted \in Nat
    /\ NoSession \notin Nat
    /\ CLOCK_CAP \in Nat
    /\ CLOCK_CAP > UPDATE_TIMEOUT_SECS
    /\ CLOCK_CAP > CLEAN_SHUTDOWN_TIMEOUT_SECS

VARIABLES
    \* flags shared by all threads (volatile bools of the relay)
    should_loop, should_clean_shutdown,
    \* the backend thread
    bpc,              \* where the backend thread is
    shutdown,         \* the `shutdown` argument of the current update()
    success,          \* update_loop's result
    first_update,     \* update()'s function-static flag
    req,              \* the serialised request: byte deltas and flag
    num_retries, request_success, elapsed_seconds,  \* update()'s locals
    update_clock,     \* seconds since update()'s `timeout` clock started
    shutdown_clock,   \* seconds since update_loop's `backend_timeout` started
    time_since_last_update,  \* update_loop's local of the same name
    result,           \* result of the last update(): "None", "Success", "Failure"
    rejected,         \* the last update's response failed a check
    grace,            \* update_loop slept the 30 s grace period
    shutdown_acked,   \* the last clean-shutdown update() succeeded
    \* state of the relay the loop reads and writes
    recorder,         \* ThroughputRecorder byte counters
    counted,          \* bytes ever added to each counter
    roster,           \* RelayManager roster
    router_time,      \* RouterInfo timestamp
    sessions,         \* SessionMap: session id -> expire timestamp
    \* the backend server
    backend_bytes,    \* bytes it has been told of, per counter
    backend_state     \* "unknown", "active" or "draining"

loop_vars == <<should_loop, should_clean_shutdown, bpc, shutdown, success,
               first_update, req, num_retries, request_success,
               elapsed_seconds, update_clock, shutdown_clock,
               time_since_last_update, result, rejected, grace, shutdown_acked>>
relay_vars == <<recorder, counted, roster, router_time, sessions>>
server_vars == <<backend_bytes, backend_state>>
vars == <<loop_vars, relay_vars, server_vars>>

-----------------------------------------------------------------------------
(* Data.                                                                   *)

\* A backend response as UpdateResponse::from sees it: whether it parses,
\* its version, its timestamp and the relays it lists.
Responses == [parses : BOOLEAN, version : Versions,
              timestamp : Timestamps, relays : SUBSET Relays]

ZeroCounters == [c \in Counters |-> 0]

\* Byte deltas added counter by counter.
AddCounters(f, g) == [c \in Counters |-> f[c] + g[c]]

\* SessionMap::purge(now): drop every session whose expiry has passed.
purge(now) ==
    [s \in SessionIds |->
        IF sessions[s] # NoSession /\ now > sessions[s]
        THEN NoSession ELSE sessions[s]]

-----------------------------------------------------------------------------
Init ==
    /\ should_loop = TRUE
    /\ should_clean_shutdown = FALSE
    /\ bpc = "loop"
    /\ shutdown = FALSE
    /\ success = TRUE
    /\ first_update = TRUE
    /\ req = [traffic |-> ZeroCounters, shutting_down |-> FALSE]
    /\ num_retries = 0
    /\ request_success = FALSE
    /\ elapsed_seconds = 0
    /\ update_clock = 0
    /\ shutdown_clock = 0
    /\ time_since_last_update = 0
    /\ result = "None"
    /\ rejected = FALSE
    /\ grace = FALSE
    /\ shutdown_acked = FALSE
    /\ recorder = ZeroCounters
    /\ counted = ZeroCounters
    /\ roster = {}
    /\ router_time \in Timestamps
    /\ sessions = [s \in SessionIds |-> NoSession]
    /\ backend_bytes = ZeroCounters
    /\ backend_state = "unknown"

-----------------------------------------------------------------------------
(* The backend thread.                                                     *)

\* while (should_loop): enter update(recorder, false, should_loop), or
\* leave the loop, start backend_timeout and test should_clean_shutdown.
UpdateLoopHead ==
    /\ bpc = "loop"
    /\ \/ /\ should_loop
          /\ bpc' = "serialize"
          /\ shutdown' = FALSE
          /\ UNCHANGED <<shutdown_clock, time_since_last_update>>
       \/ /\ ~should_loop
          /\ bpc' = IF should_clean_shutdown THEN "serialize" ELSE "done"
          /\ shutdown' = should_clean_shutdown
          /\ shutdown_clock' = 0
          /\ time_since_last_update' = 0
    /\ UNCHANGED <<should_loop, should_clean_shutdown, success, first_update,
                   req, num_retries, request_success, elapsed_seconds,
                   update_clock, result, rejected, grace, shutdown_acked,
                   relay_vars, server_vars>>

\* update(): serialise the request. The traffic counters are moved out of
\* the recorder, which starts again from zero; then the `timeout` clock
\* starts and elapsed_seconds is read from it, once.
SerializeRequest ==
    /\ bpc = "serialize"
    /\ req' = [traffic |-> recorder, shutting_down |-> shutdown]
    /\ recorder' = ZeroCounters
    /\ update_clock' = 0
    /\ elapsed_seconds' = 0
    /\ num_retries' = 0
    /\ request_success' = FALSE
    /\ bpc' = "send"
    /\ UNCHANGED <<should_loop, should_clean_shutdown, shutdown, success,
                   first_update, shutdown_clock, time_since_last_update,
                   result, rejected, grace, shutdown_acked,
                   counted, roster, router_time, sessions, server_vars>>

\* A clock reading, saturated at CLOCK_CAP: every comparison the code
\* makes is with a budget below the cap, so it is unaffected.
Sat(t) == IF t > CLOCK_CAP THEN CLOCK_CAP ELSE t

\* Advance the clocks by d seconds; backend_timeout only runs in the
\* clean-shutdown phase.
Tick(d) ==
    /\ update_clock' = Sat(update_clock + d)
    /\ shutdown_clock' = IF shutdown THEN Sat(shutdown_clock + d)
                                      ELSE shutdown_clock

\* Mutant: the retry bound tested with <=.
ShouldRetryOffByOne(ok) ==
    /\ ~ok
    /\ should_loop
    /\ num_retries <= MAX_UPDATE_ATTEMPTS
    /\ elapsed_seconds < UPDATE_TIMEOUT_SECS

\* The send loop's condition after a send_request call that returned ok.
ShouldRetry(ok) ==
    /\ ~ok
    /\ should_loop
    /\ num_retries < MAX_UPDATE_ATTEMPTS
    /\ elapsed_seconds < UPDATE_TIMEOUT_SECS

\* One evaluation of the send loop's condition: a send_request call that
\* takes d seconds and is acknowledged, has its reply lost after the
\* backend processed it, or never reaches the backend. A failed call is
\* retried, after a 1 s sleep, while should_loop (should_retry) holds,
\* num_retries < MAX_UPDATE_ATTEMPTS and elapsed_seconds is under budget.
SendRequest ==
    /\ bpc = "send"
    /\ \E outcome \in {"acked", "reply_lost", "failed"}, d \in SendTimes :
        LET ok == outcome = "acked"
            delivered == outcome # "failed"
        IN
        /\ request_success' = ok
        /\ backend_bytes' = IF delivered
                            THEN AddCounters(backend_bytes, req.traffic)
                            ELSE backend_bytes
        /\ backend_state' = IF delivered
                            THEN IF req.shutting_down THEN "draining" ELSE "active"
                            ELSE backend_state
        /\ \/ /\ ShouldRetry(ok)
              /\ num_retries' = num_retries + 1
              /\ Tick(d + 1)
              /\ bpc' = "send"
           \/ /\ ~ShouldRetry(ok)
              /\ UNCHANGED num_retries
              /\ Tick(d)
              /\ bpc' = "finish"
    /\ UNCHANGED <<should_loop, should_clean_shutdown, shutdown, success,
                   first_update, req, elapsed_seconds, time_since_last_update,
                   result, rejected, grace, shutdown_acked, relay_vars>>

\* Mutant: the early return of a shutdown update is missing, so its
\* response is applied like a normal one.
UpdateTailNoShutdownReturn(r) ==
    LET failed == num_retries >= MAX_UPDATE_ATTEMPTS \/ ~request_success
        invalid == ~r.parses \/ r.version # UPDATE_RESPONSE_VERSION
    IN
    \/ /\ failed
       /\ result' = "Failure" /\ rejected' = FALSE
       /\ UNCHANGED <<router_time, roster, first_update>>
    \/ /\ ~failed /\ invalid
       /\ result' = "Failure" /\ rejected' = TRUE
       /\ UNCHANGED <<router_time, roster, first_update>>
    \/ /\ ~failed /\ ~invalid
       /\ router_time' = r.timestamp
       /\ \/ /\ Cardinality(r.relays) > MAX_RELAYS
             /\ result' = "Failure" /\ rejected' = TRUE
             /\ UNCHANGED <<roster, first_update>>
          \/ /\ Cardinality(r.relays) <= MAX_RELAYS
             /\ result' = "Failure" /\ rejected' = TRUE
             /\ UNCHANGED <<roster, first_update>>
          \/ /\ Cardinality(r.relays) <= MAX_RELAYS
             /\ result' = "Success" /\ rejected' = FALSE
             /\ roster' = r.relays
             /\ first_update' = FALSE

\* The tail of update() after the send loop, with response r: the retry
\* and transport checks, the early return when shutting down, then the
\* response checks. The router time is set before the relay count check.
\* UpdateTail(r) is the result; it sets result, rejected, router_time,
\* roster and first_update.
UpdateTail(r) ==
    LET failed == num_retries >= MAX_UPDATE_ATTEMPTS \/ ~request_success
        invalid == ~r.parses \/ r.version # UPDATE_RESPONSE_VERSION
    IN
    \/ /\ failed
       /\ result' = "Failure" /\ rejected' = FALSE
       /\ UNCHANGED <<router_time, roster, first_update>>
    \/ /\ ~failed /\ shutdown
       /\ result' = "Success" /\ rejected' = FALSE
       /\ UNCHANGED <<router_time, roster, first_update>>
    \/ /\ ~failed /\ ~shutdown /\ invalid
       /\ result' = "Failure" /\ rejected' = TRUE
       /\ UNCHANGED <<router_time, roster, first_update>>
    \/ /\ ~failed /\ ~shutdown /\ ~invalid
       /\ router_time' = r.timestamp
       /\ \/ /\ Cardinality(r.relays) > MAX_RELAYS
             /\ result' = "Failure" /\ rejected' = TRUE
             /\ UNCHANGED <<roster, first_update>>
          \/ /\ Cardinality(r.relays) <= MAX_RELAYS
             \* relay_manager.update (its code is not in this repository)
             \* refuses the roster: a free choice
             /\ result' = "Failure" /\ rejected' = TRUE
             /\ UNCHANGED <<roster, first_update>>
          \/ /\ Cardinality(r.relays) <= MAX_RELAYS
             /\ result' = "Success" /\ rejected' = FALSE
             /\ roster' = r.relays
             /\ first_update' = FALSE

\* update_loop's switch on the result of a normal update: a Failure
\* clears success and should_loop; anything else purges the sessions with
\* the router time and sleeps a second.
LoopOnResult ==
    \/ /\ result' = "Failure"
       /\ success' = FALSE /\ should_loop' = FALSE
       /\ UNCHANGED sessions
    \/ /\ result' # "Failure"
       /\ sessions' = purge(router_time')
       /\ UNCHANGED <<success, should_loop>>

FinishNormalUpdate ==
    /\ bpc = "finish"
    /\ ~shutdown
    /\ \E r \in Responses : UpdateTail(r)
    /\ LoopOnResult
    /\ bpc' = "loop"
    /\ UNCHANGED <<should_clean_shutdown, shutdown, req, num_retries,
                   request_success, elapsed_seconds, update_clock,
                   shutdown_clock, time_since_last_update, grace,
                   shutdown_acked, recorder, counted, server_vars>>

\* Mutant: the loop body forgets to read the clock.
MeasureShutdownTimeMissing == UNCHANGED time_since_last_update

\* time_since_last_update = backend_timeout.elapsed<Second>().
MeasureShutdownTime == time_since_last_update' = shutdown_clock

\* Mutant: the grace test with <=.
GraceSleepOffByOne == time_since_last_update <= CLEAN_SHUTDOWN_TIMEOUT_SECS

\* The grace test: if (time_since_last_update < 60.0).
GraceSleep == time_since_last_update < CLEAN_SHUTDOWN_TIMEOUT_SECS

\* The clean-shutdown loop's condition after update(recorder, true, ...):
\* while it failed and time_since_last_update is under budget, read the
\* clock into time_since_last_update, sleep a second and update again;
\* once it stops, sleep the grace period if time_since_last_update, read
\* before the last update, is under 60 s.
ShutdownOnResult ==
    \/ /\ result' # "Success"
       /\ time_since_last_update < CLEAN_SHUTDOWN_TIMEOUT_SECS
       /\ MeasureShutdownTime
       /\ shutdown_clock' = Sat(shutdown_clock + 1)
       /\ bpc' = "serialize"
       /\ UNCHANGED grace
    \/ /\ result' = "Success" \/ time_since_last_update >= CLEAN_SHUTDOWN_TIMEOUT_SECS
       /\ grace' = GraceSleep
       /\ bpc' = "done"
       /\ UNCHANGED <<time_since_last_update, shutdown_clock>>

FinishShutdownUpdate ==
    /\ bpc = "finish"
    /\ shutdown
    /\ \E r \in Responses : UpdateTail(r)
    /\ shutdown_acked' = (result' = "Success")
    /\ ShutdownOnResult
    /\ UNCHANGED <<should_loop, should_clean_shutdown, shutdown, success, req,
                   num_retries, request_success, elapsed_seconds,
                   update_clock, recorder, counted, sessions, server_vars>>

BackendThread ==
    \/ UpdateLoopHead
    \/ SerializeRequest
    \/ SendRequest
    \/ FinishNormalUpdate
    \/ FinishShutdownUpdate

-----------------------------------------------------------------------------
(* The receive thread and the signal handler, as the loop sees them.       *)

\* The router adds a packet's bytes to a ThroughputRecorder counter.
RecordTraffic ==
    /\ \E c \in Counters :
        /\ counted[c] < MaxCounted
        /\ recorder' = [recorder EXCEPT ![c] = @ + 1]
        /\ counted' = [counted EXCEPT ![c] = @ + 1]
    /\ UNCHANGED <<loop_vars, roster, router_time, sessions, server_vars>>

\* A route request whose token expires after the router time installs or
\* refreshes its session.
RouteRequest ==
    /\ \E s \in SessionIds, e \in Timestamps :
        /\ e > router_time
        /\ sessions' = [sessions EXCEPT ![s] = e]
    /\ UNCHANGED <<loop_vars, recorder, counted, roster, router_time,
                   server_vars>>

\* SIGINT: stop the loops.
StopSignal ==
    /\ should_loop
    /\ should_loop' = FALSE
    /\ UNCHANGED <<should_clean_shutdown, bpc, shutdown, success, first_update,
                   req, num_retries, request_success, elapsed_seconds,
                   update_clock, shutdown_clock, time_since_last_update,
                   result, rejected, grace, shutdown_acked,
                   relay_vars, server_vars>>

\* SIGTERM: stop the loops after draining.
CleanShutdownSignal ==
    /\ ~should_clean_shutdown
    /\ should_clean_shutdown' = TRUE
    /\ should_loop' = FALSE
    /\ UNCHANGED <<bpc, shutdown, success, first_update,
                   req, num_retries, request_success, elapsed_seconds,
                   update_clock, shutdown_clock, time_since_last_update,
                   result, rejected, grace, shutdown_acked,
                   relay_vars, server_vars>>

Environment ==
    \/ RecordTraffic
    \/ RouteRequest
    \/ StopSignal
    \/ CleanShutdownSignal

Next == BackendThread \/ Environment

\* The backend thread is scheduled fairly; the receive thread and the
\* signals need not happen.
Spec == Init /\ [][Next]_vars /\ WF_vars(BackendThread)

-----------------------------------------------------------------------------
(* Properties.                                                             *)

\* The type of the flags the threads share and of update_loop's outcome.
FlagsTypeOK ==
    /\ should_loop \in BOOLEAN
    /\ should_clean_shutdown \in BOOLEAN
    /\ success \in BOOLEAN
    /\ first_update \in BOOLEAN
    /\ grace \in BOOLEAN
    /\ shutdown_acked \in BOOLEAN

\* The type of the backend thread's control state and of the server's.
ThreadTypeOK ==
    /\ bpc \in {"loop", "serialize", "send", "finish", "done"}
    /\ shutdown \in BOOLEAN
    /\ request_success \in BOOLEAN
    /\ result \in {"None", "Success", "Failure"}
    /\ rejected \in BOOLEAN
    /\ backend_state \in {"unknown", "active", "draining"}

\* The type of the retry counter and the clocks.
ClockTypeOK ==
    /\ num_retries \in 0..MAX_UPDATE_ATTEMPTS
    /\ elapsed_seconds \in Nat
    /\ update_clock \in Nat
    /\ shutdown_clock \in Nat
    /\ time_since_last_update \in Nat

\* The type of the data: request, counters, roster and sessions.
DataTypeOK ==
    /\ req \in [traffic : [Counters -> Nat], shutting_down : BOOLEAN]
    /\ recorder \in [Counters -> Nat]
    /\ counted \in [Counters -> Nat]
    /\ roster \in SUBSET Relays
    /\ router_time \in Timestamps
    /\ sessions \in [SessionIds -> Timestamps \cup {NoSession}]
    /\ backend_bytes \in [Counters -> Nat]

\* Every variable holds a value of its type.
TypeOK == FlagsTypeOK /\ ThreadTypeOK /\ ClockTypeOK /\ DataTypeOK

\* The relay sleeps the 30 s grace period only when its last clean-shutdown
\* update was acknowledged: a drain that ran out of time exits at once
\* (update_loop lines 294-303).
GraceOnlyAfterAck ==
    bpc = "done" /\ grace => shutdown_acked

\* Once the loops are told to stop, by a signal or by a failed update,
\* the backend thread finishes: the retry loop and the clean-shutdown
\* loop are both bounded.
StopLeadsToDone ==
    ~should_loop ~> bpc = "done"

\* A relay whose clean-shutdown update was acknowledged sleeps the grace
\* period before exiting (spec 4.6: sleep 30 s if the final update
\* succeeded; update_loop lines 294-303).
GraceAfterAck ==
    bpc = "done" /\ shutdown_acked => grace

\* An update whose request the backend acknowledged, with a response that
\* passed every check, does not fail (spec 4.6: up to MAX_UPDATE_ATTEMPTS
\* attempts; a failure ends update_loop at line 278).
AcknowledgedUpdateNotFailed ==
    (result = "Failure" /\ request_success) => rejected

\* A retry of send_request starts only while the update is within its
\* UPDATE_TIMEOUT_SECS budget (spec 4.6; the guard at line 436).
RetryWithinBudget ==
    bpc = "send" => update_clock < UPDATE_TIMEOUT_SECS

\* The backend is never told of more bytes than the relay counted: each
\* byte drained from the recorder is reported once (spec 4.6: counters
\* are drained so that the next report accumulates fresh deltas).
BackendNeverOvercounts ==
    \A c \in Counters : backend_bytes[c] <= counted[c]

-----------------------------------------------------------------------------
(* Refinement of the abstract lifecycle.                                   *)

\* The phase of the relay as BackendLifecycle sees it: stopped once the
\* backend thread is done, draining once update_loop has entered the
\* clean-shutdown loop, running before.
LifecyclePhase ==
    IF bpc = "done" THEN "stopped" ELSE IF shutdown THEN "draining" ELSE "running"

Lifecycle == INSTANCE BackendLifecycle
    WITH phase <- LifecyclePhase, announced <- (backend_state = "draining")

\* The backend loop implements the lifecycle the relay promises: rosters of
\* at most MAX_RELAYS relays and router clock moves only from updates made
\* while running, none once the clean-shutdown loop began, no way back
\* from draining or stopped, and the grace sleep only after the backend
\* heard of the drain (update_loop and update, lines 268-303 and 459-489).
BackendRefinesLifecycle == Lifecycle!Spec

=============================================================================
