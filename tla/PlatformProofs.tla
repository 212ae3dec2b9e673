--------------------------- MODULE PlatformProofs ---------------------------
(***************************************************************************)
(* Proofs, for any sets of thread and socket create calls, of the          *)
(* invariants that the platform_ps5 and platform_windows runs check on     *)
(* two threads and one socket.  Each rests on a per-call invariant that    *)
(* ties the call's program counter to the state of the blocks and handles  *)
(* it owns.                                                                *)
(***************************************************************************)
EXTENDS MCPlatform, Naturals, SequenceTheorems, TLAPS

USE PlatformAssumption

\* What a joined thread still holds of its OS thread object.
JoinedHandle == IF PLATFORM = "ps5" THEN "released" ELSE "open"

\* One create call of next_platform_thread_create, from its allocations to
\* the destroy of its record: the shim is live exactly while the new thread
\* has not yet freed it, the record while the owner has not destroyed it.
ThreadState(t) ==
    \/ /\ cpc[t] = "start" /\ tpc[t] = "none"
       /\ thread_mem[t] = "none" /\ shim_mem[t] = "none" /\ handle[t] = "none"
    \/ /\ cpc[t] = "spawn" /\ tpc[t] = "none"
       /\ thread_mem[t] = "live" /\ shim_mem[t] = "live" /\ handle[t] = "none"
    \/ /\ cpc[t] = "failed" /\ tpc[t] = "none"
       /\ thread_mem[t] = "freed" /\ shim_mem[t] \in {"none", "freed"}
       /\ handle[t] = "none"
    \/ /\ cpc[t] = "created" /\ thread_mem[t] = "live" /\ handle[t] = "open"
       /\ \/ tpc[t] \in {"shim", "free"} /\ shim_mem[t] = "live"
          \/ tpc[t] \in {"run", "exited"} /\ shim_mem[t] = "freed"
    \/ /\ cpc[t] = "joined" /\ tpc[t] = "exited" /\ thread_mem[t] = "live"
       /\ shim_mem[t] = "freed" /\ handle[t] = JoinedHandle
    \/ /\ cpc[t] = "destroyed" /\ tpc[t] = "exited" /\ thread_mem[t] = "freed"
       /\ shim_mem[t] = "freed" /\ handle[t] = JoinedHandle

ThreadInv ==
    /\ cpc \in [Threads -> {"start", "spawn", "failed", "created", "joined", "destroyed"}]
    /\ tpc \in [Threads -> {"none", "shim", "free", "run", "exited"}]
    /\ thread_mem \in [Threads -> {"none", "live", "freed"}]
    /\ shim_mem \in [Threads -> {"none", "live", "freed"}]
    /\ handle \in [Threads -> {"none", "open", "released"}]
    /\ bad_read = FALSE
    /\ \A t \in Threads : ThreadState(t)

\* One create call of next_platform_socket_create and its destroy: the
\* record is live from the allocation to the destroy, the handle is open
\* from a successful socket call to the destroy, only a PS5 create reaches
\* socket_destroy with a failed handle, and only Windows makes QoS handles.
SocketState(s) ==
    /\ opts[s] \in S!Options
    /\ pc[s] = "alloc" => mem[s] = "none" /\ sock[s] = "none"
    /\ pc[s] = "open" => mem[s] = "live" /\ sock[s] = "none"
    /\ pc[s] \in {"setup", "ready"} => mem[s] = "live" /\ sock[s] = "open"
    /\ pc[s] = "destroy" =>
           /\ mem[s] = "live"
           /\ sock[s] = "open" \/ (sock[s] = "invalid" /\ PLATFORM = "ps5")
    /\ pc[s] = "null" => mem[s] = "freed" /\ sock[s] = "invalid" /\ PLATFORM = "windows"
    /\ pc[s] = "destroyed" => mem[s] = "freed" /\ sock[s] = "closed"
    /\ PLATFORM = "ps5" => qos[s] = 0
    /\ PLATFORM = "windows" => ~ebadf[s]

SocketInv ==
    /\ pc \in [Sockets -> {"alloc", "open", "setup", "ready", "destroy", "null", "destroyed"}]
    /\ step \in [Sockets -> Nat \ {0}]
    /\ mem \in [Sockets -> {"none", "live", "freed"}]
    /\ sock \in [Sockets -> {"none", "invalid", "open", "closed"}]
    /\ qos \in [Sockets -> Nat]
    /\ ebadf \in [Sockets -> BOOLEAN]
    /\ opts \in [Sockets -> S!Options]
    /\ \A s \in Sockets : SocketState(s)

-----------------------------------------------------------------------------
(* The thread invariant.                                                   *)

LEMMA ThreadInit == Init => ThreadInv
BY DEF Init, T!Init, ThreadInv, ThreadState

\* A step of one thread create call keeps ThreadInv.
LEMMA ThreadStepOne ==
    ASSUME ThreadInv, NEW t \in Threads,
           T!AllocRecords(t) \/ T!Spawn(t) \/ T!ShimRead(t) \/ T!ShimFree(t)
           \/ T!ThreadRun(t) \/ T!Join(t) \/ T!Destroy(t)
    PROVE  ThreadInv'
<1>1. CASE T!AllocRecords(t)
    BY <1>1 DEF T!AllocRecords, ThreadInv, ThreadState
<1>2. CASE T!Spawn(t)
    BY <1>2 DEF T!Spawn, T!Free, ThreadInv, ThreadState
<1>3. CASE T!ShimRead(t)
    \* The shim the new thread reads is still live.
    <2>1. shim_mem[t] = "live"
        BY <1>3 DEF T!ShimRead, ThreadInv, ThreadState
    <2>2. bad_read' = FALSE
        BY <1>3, <2>1 DEF T!ShimRead, ThreadInv
    <2>3. QED
        BY <1>3, <2>2 DEF T!ShimRead, ThreadInv, ThreadState
<1>4. CASE T!ShimFree(t)
    BY <1>4 DEF T!ShimFree, T!Free, ThreadInv, ThreadState
<1>5. CASE T!ThreadRun(t)
    BY <1>5 DEF T!ThreadRun, ThreadInv, ThreadState
<1>6. CASE T!Join(t)
    \* The record the join reads has not been destroyed.
    <2>1. thread_mem[t] = "live"
        BY <1>6 DEF T!Join, ThreadInv, ThreadState
    <2>2. bad_read' = FALSE
        BY <1>6, <2>1 DEF T!Join, ThreadInv
    <2>3. QED
        BY <1>6, <2>2 DEF T!Join, ThreadInv, ThreadState, JoinedHandle
<1>7. CASE T!Destroy(t)
    BY <1>7 DEF T!Destroy, T!Free, ThreadInv, ThreadState
<1>8. QED
    BY <1>1, <1>2, <1>3, <1>4, <1>5, <1>6, <1>7

LEMMA ThreadStep == ThreadInv /\ [Next]_vars => ThreadInv'
<1> SUFFICES ASSUME ThreadInv, [Next]_vars PROVE ThreadInv'
    OBVIOUS
<1>1. CASE ipc = "ok" /\ T!Next /\ UNCHANGED <<socket_vars, init_vars>>
    BY <1>1, ThreadStepOne DEF T!Next
<1>2. CASE ipc = "ok" /\ S!Next /\ UNCHANGED <<thread_vars, init_vars>>
    BY <1>2 DEF thread_vars, ThreadInv, ThreadState
<1>3. CASE I!Next /\ UNCHANGED <<thread_vars, socket_vars>>
    BY <1>3 DEF thread_vars, ThreadInv, ThreadState
<1>4. CASE UNCHANGED vars
    BY <1>4 DEF vars, thread_vars, ThreadInv, ThreadState
<1>5. QED
    BY <1>1, <1>2, <1>3, <1>4 DEF Next

-----------------------------------------------------------------------------
(* The socket invariant.                                                   *)

\* A PS5 create makes no QOSCreateHandle call: its set-up calls end with
\* the IP_TOS option, not with next_set_socket_codepoint.
\* The calls a PS5 create can make.
PS5Calls ==
    {"sndbuf", "rcvbuf", "bind", "getsockname", "nbio", "rcvtimeo", "dontfrag", "tos"}

LEMMA PS5NoQos ==
    ASSUME PLATFORM = "ps5", NEW o \in S!Options,
           NEW i \in 1..Len(S!SetupCalls(o))
    PROVE  S!SetupCalls(o)[i] # "qos"
<1> DEFINE A == <<"sndbuf", "rcvbuf", "bind">>
           G == IF o.port0 THEN <<"getsockname">> ELSE <<>>
           D == <<"dontfrag">>
           Q == IF o.tagging THEN <<"tos">> ELSE <<>>
<1>1. /\ A \in Seq(PS5Calls) /\ D \in Seq(PS5Calls)
      /\ <<"getsockname">> \in Seq(PS5Calls) /\ <<"tos">> \in Seq(PS5Calls)
      /\ <<"nbio">> \in Seq(PS5Calls) /\ <<"rcvtimeo">> \in Seq(PS5Calls)
    BY DEF PS5Calls
<1>2. G \in Seq(PS5Calls) /\ Q \in Seq(PS5Calls)
    BY <1>1, EmptySeq
<1>3. S!BlockingMode(o) \in Seq(PS5Calls)
    BY <1>1, EmptySeq DEF S!BlockingMode
<1>4. S!SetupCalls(o) = A \o G \o S!BlockingMode(o) \o D \o Q
    BY DEF S!SetupCalls
<1>5. S!SetupCalls(o) \in Seq(PS5Calls)
    BY <1>1, <1>2, <1>3, <1>4, ConcatProperties
<1>6. S!SetupCalls(o)[i] \in PS5Calls
    BY <1>5, ElementOfSeq
<1>7. QED
    BY <1>6 DEF PS5Calls

LEMMA SocketInit == Init => SocketInv
BY DEF Init, S!Init, SocketInv, SocketState

\* A step of one socket create or destroy keeps SocketInv.
LEMMA SocketStepOne ==
    ASSUME SocketInv, NEW s \in Sockets,
           S!Alloc(s) \/ S!OpenSocket(s) \/ S!Setup(s) \/ S!Close(s) \/ S!Destroy(s)
    PROVE  SocketInv'
<1>1. CASE S!Alloc(s)
    BY <1>1 DEF S!Alloc, S!Goto, SocketInv, SocketState
<1>2. CASE S!OpenSocket(s)
    BY <1>2 DEF S!OpenSocket, S!Goto, SocketInv, SocketState
<1>3. CASE S!Setup(s)
    <2>1. CASE step[s] > Len(S!SetupCalls(opts[s])) /\ S!Goto(s, "ready")
               /\ UNCHANGED <<opts, step, mem, sock, qos, ebadf>>
        BY <1>3, <2>1 DEF S!Setup, S!Goto, SocketInv, SocketState
    <2>2. CASE S!Checked(s)
        <3>1. pc[s] = "setup" /\ UNCHANGED <<opts, mem, sock, qos, ebadf>>
            BY <1>3, <2>2 DEF S!Setup, S!Checked
        <3>2. CASE step' = [step EXCEPT ![s] = @ + 1] /\ UNCHANGED pc
            BY <3>1, <3>2 DEF SocketInv, SocketState
        <3>3. CASE S!Goto(s, "destroy") /\ UNCHANGED step
            BY <3>1, <3>3 DEF S!Goto, SocketInv, SocketState
        <3>4. QED
            BY <2>2, <3>2, <3>3 DEF S!Checked
    <2>3. CASE S!QosTag(s) /\ step[s] <= Len(S!SetupCalls(opts[s]))
        \* Only a Windows create tags its socket with a QoS flow.
        <3>1. PLATFORM = "windows"
            BY <1>3, <2>3, PS5NoQos, PlatformAssumption
            DEF S!QosTag, S!Call, SocketInv, SocketState
        <3>2. pc[s] = "setup" /\ UNCHANGED <<opts, pc, mem, sock, ebadf>>
            /\ step' = [step EXCEPT ![s] = @ + 1]
            BY <1>3, <2>3 DEF S!Setup, S!QosTag
        <3>3. qos' \in [Sockets -> Nat]
            <4>1. CASE UNCHANGED qos
                BY <4>1 DEF SocketInv
            <4>2. CASE qos' = [qos EXCEPT ![s] = @ + 1]
                BY <4>2 DEF SocketInv
            <4>3. QED
                BY <2>3, <4>1, <4>2 DEF S!QosTag
        <3>4. step' \in [Sockets -> Nat \ {0}]
            BY <3>2 DEF SocketInv
        <3>5. \A u \in Sockets : SocketState(u)'
            BY <3>1, <3>2 DEF SocketInv, SocketState
        <3>6. QED
            BY <3>2, <3>3, <3>4, <3>5 DEF SocketInv
    <2>4. CASE S!Ignored(s)
        BY <1>3, <2>4 DEF S!Setup, S!Ignored, SocketInv, SocketState
    <2>5. QED
        BY <1>3, <2>1, <2>2, <2>3, <2>4 DEF S!Setup
<1>4. CASE S!Close(s)
    BY <1>4 DEF S!Close, S!Goto, SocketInv, SocketState
<1>5. CASE S!Destroy(s)
    \* On Windows the handle a destroy closes is open.
    <2>1. PLATFORM = "windows" => ebadf'[s] = FALSE
        BY <1>5 DEF S!Destroy, SocketInv, SocketState
    <2>2. QED
        BY <1>5, <2>1 DEF S!Destroy, S!Goto, SocketInv, SocketState
<1>6. QED
    BY <1>1, <1>2, <1>3, <1>4, <1>5

LEMMA SocketStep == SocketInv /\ [Next]_vars => SocketInv'
<1> SUFFICES ASSUME SocketInv, [Next]_vars PROVE SocketInv'
    OBVIOUS
<1>1. CASE ipc = "ok" /\ S!Next /\ UNCHANGED <<thread_vars, init_vars>>
    BY <1>1, SocketStepOne DEF S!Next
<1>2. CASE ipc = "ok" /\ T!Next /\ UNCHANGED <<socket_vars, init_vars>>
    BY <1>2 DEF socket_vars, SocketInv, SocketState
<1>3. CASE I!Next /\ UNCHANGED <<thread_vars, socket_vars>>
    BY <1>3 DEF socket_vars, SocketInv, SocketState
<1>4. CASE UNCHANGED vars
    BY <1>4 DEF vars, socket_vars, SocketInv, SocketState
<1>5. QED
    BY <1>1, <1>2, <1>3, <1>4 DEF Next

-----------------------------------------------------------------------------
(* The adapter buffer of get_connection_type.                              *)

\* At most one adapter buffer is live, and only between the query that
\* returned NO_ERROR and the scan that frees it.
BufferInv == live_buffers = IF ipc = "scan" THEN 1 ELSE 0

LEMMA BufferStep == BufferInv /\ [Next]_vars => BufferInv'
<1> SUFFICES ASSUME BufferInv, [Next]_vars PROVE BufferInv'
    OBVIOUS
<1>1. CASE I!Next /\ UNCHANGED <<thread_vars, socket_vars>>
    BY <1>1 DEF I!Next, I!InitStep, I!LoadRandomModule, I!SetRandomImplementation,
                I!CallOrFail, I!CreateNetPool, I!QueryDevice, I!StartWinsock,
                I!QueryAdapters, I!QueryAdaptersFails, I!ScanAdapters,
                I!AdapterAdded, BufferInv
<1>2. CASE ipc = "ok" /\ T!Next /\ UNCHANGED <<socket_vars, init_vars>>
    BY <1>2 DEF init_vars, BufferInv
<1>3. CASE ipc = "ok" /\ S!Next /\ UNCHANGED <<thread_vars, init_vars>>
    BY <1>3 DEF init_vars, BufferInv
<1>4. CASE UNCHANGED vars
    BY <1>4 DEF vars, init_vars, BufferInv
<1>5. QED
    BY <1>1, <1>2, <1>3, <1>4 DEF Next

\* On both platforms, get_connection_type frees the buffer it allocates in
\* every round of its retry loop, on the overflow, the error and the
\* success path, so none is left once next_platform_init has returned
\* (InitNoAdapterBufferLeak).
THEOREM AdapterBufferFreed == Spec => []InitNoAdapterBufferLeak
<1>1. Init => BufferInv
    BY DEF Init, I!Init, BufferInv
<1>2. BufferInv => InitNoAdapterBufferLeak
    BY DEF BufferInv, InitNoAdapterBufferLeak, I!NoAdapterBufferLeak, I!Done
<1>3. QED
    BY <1>1, <1>2, BufferStep, PTL DEF Spec

-----------------------------------------------------------------------------
(* The theorems.                                                           *)

LEMMA InvariantsHold == Spec => [](ThreadInv /\ SocketInv)
<1>1. Init => ThreadInv /\ SocketInv
    BY ThreadInit, SocketInit
<1>2. ThreadInv /\ SocketInv /\ [Next]_vars => (ThreadInv /\ SocketInv)'
    BY ThreadStep, SocketStep
<1>3. QED
    BY <1>1, <1>2, PTL DEF Spec

\* On both platforms, for any number of threads created side by side, no
\* thread or shim record is freed twice or read after it was freed: the
\* shim handed to thread_function_shim is read before the new thread frees
\* it, and the record outlives the join (ThreadMemorySafe).
THEOREM ThreadMemorySafety == Spec => []ThreadMemorySafe
<1>1. ThreadInv => ThreadMemorySafe
    BY DEF ThreadInv, ThreadState, ThreadMemorySafe, T!MemorySafe
<1>2. QED
    BY <1>1, InvariantsHold, PTL

\* On PS5, a thread create that failed, or a thread that was joined and
\* destroyed, holds no record, no shim and no OS thread object
\* (ThreadResourcesReleased).
THEOREM PS5ThreadsReleased ==
    ASSUME PLATFORM = "ps5" PROVE Spec => []ThreadResourcesReleased
<1>1. ThreadInv => ThreadResourcesReleased
    BY DEF ThreadInv, ThreadState, JoinedHandle, ThreadResourcesReleased,
           T!ResourcesReleased
<1>2. QED
    BY <1>1, InvariantsHold, PTL

\* On PS5, a socket create that returned NULL, or a socket that was
\* destroyed, holds no record, no open socket and no QoS handle
\* (SocketResourcesReleased).
THEOREM PS5SocketsReleased ==
    ASSUME PLATFORM = "ps5" PROVE Spec => []SocketResourcesReleased
<1>1. SocketInv => SocketResourcesReleased
    BY DEF SocketInv, SocketState, SocketResourcesReleased, S!ResourcesReleased
<1>2. QED
    BY <1>1, InvariantsHold, PTL

\* On Windows, next_platform_socket_destroy never closes a handle the OS
\* did not open (SocketCloseOnlyOpenHandles).
THEOREM WindowsCloseOnlyOpen ==
    ASSUME PLATFORM = "windows" PROVE Spec => []SocketCloseOnlyOpenHandles
<1>1. SocketInv => SocketCloseOnlyOpenHandles
    BY DEF SocketInv, SocketState, SocketCloseOnlyOpenHandles, S!CloseOnlyOpenHandles
<1>2. QED
    BY <1>1, InvariantsHold, PTL

-----------------------------------------------------------------------------
(* The refinement of ThreadService.                                        *)

\* A step that moves only thread t, from one phase to the next, is the
\* service's Advance.
LEMMA AdvanceMapped ==
    ASSUME NEW t \in Threads, NEW from, NEW to,
           \A u \in Threads \ {t} : T!ThreadPhase(u)' = T!ThreadPhase(u),
           T!ThreadPhase(t) = from, T!ThreadPhase(t)' = to
    PROVE  T!Service!Advance(t, from, to)
BY DEF T!Service!Advance

\* A step that moves no thread is a stutter of the service.
LEMMA StutterMapped ==
    ASSUME \A u \in Threads : T!ThreadPhase(u)' = T!ThreadPhase(u)
    PROVE  UNCHANGED T!Service!vars
BY DEF T!Service!vars

\* A step of create call t changes the phase of no other call.
LEMMA OthersKeepPhase ==
    ASSUME ThreadInv, NEW t \in Threads,
           \A u \in Threads \ {t} : cpc'[u] = cpc[u] /\ tpc'[u] = tpc[u]
    PROVE  \A u \in Threads \ {t} : T!ThreadPhase(u)' = T!ThreadPhase(u)
BY DEF T!ThreadPhase

LEMMA ThreadServiceStepOne ==
    ASSUME ThreadInv, NEW t \in Threads,
           T!AllocRecords(t) \/ T!Spawn(t) \/ T!ShimRead(t) \/ T!ShimFree(t)
           \/ T!ThreadRun(t) \/ T!Join(t) \/ T!Destroy(t)
    PROVE  [T!Service!Next]_T!Service!vars
<1> USE DEF ThreadInv
<1>1. \A u \in Threads \ {t} : T!ThreadPhase(u)' = T!ThreadPhase(u)
    <2>1. \A u \in Threads \ {t} : cpc'[u] = cpc[u] /\ tpc'[u] = tpc[u]
        BY DEF T!AllocRecords, T!Spawn, T!ShimRead, T!ShimFree, T!ThreadRun,
               T!Join, T!Destroy
    <2>2. QED
        BY <2>1, OthersKeepPhase
<1> DEFINE Moves(from, to) == T!ThreadPhase(t) = from /\ T!ThreadPhase(t)' = to
<1>2. ASSUME NEW from, NEW to, Moves(from, to),
             T!Service!Advance(t, from, to) => T!Service!Next
      PROVE  [T!Service!Next]_T!Service!vars
    BY <1>1, <1>2, AdvanceMapped
<1>3. ASSUME T!ThreadPhase(t)' = T!ThreadPhase(t) PROVE [T!Service!Next]_T!Service!vars
    BY <1>1, <1>3, StutterMapped
<1>4. CASE T!AllocRecords(t)
    \* A failed shim allocation returns NULL; otherwise the create goes on.
    <2>1. CASE cpc'[t] = "spawn"
        <3>1. T!ThreadPhase(t)' = T!ThreadPhase(t)
            BY <1>4, <2>1 DEF T!AllocRecords, T!ThreadPhase
        <3>2. QED
            BY <3>1, <1>3
    <2>2. CASE cpc'[t] = "failed"
        <3>1. Moves("idle", "null")
            BY <1>4, <2>2 DEF T!AllocRecords, T!ThreadPhase
        <3>2. QED
            BY <3>1, <1>2 DEF T!Service!Next, T!Service!Create
    <2>3. QED
        BY <1>4, <2>1, <2>2 DEF T!AllocRecords
<1>5. CASE T!Spawn(t)
    <2>1. CASE cpc'[t] = "created"
        <3>1. Moves("idle", "running")
            BY <1>5, <2>1 DEF T!Spawn, T!ThreadPhase, ThreadState
        <3>2. QED
            BY <3>1, <1>2 DEF T!Service!Next, T!Service!Create
    <2>2. CASE cpc'[t] = "failed"
        <3>1. Moves("idle", "null")
            BY <1>5, <2>2 DEF T!Spawn, T!ThreadPhase
        <3>2. QED
            BY <3>1, <1>2 DEF T!Service!Next, T!Service!Create
    <2>3. QED
        BY <1>5, <2>1, <2>2 DEF T!Spawn
<1>6. CASE T!ShimRead(t) \/ T!ShimFree(t)
    \* The shim steps happen inside the thread's run.
    <2>1. cpc[t] = "created" /\ tpc[t] \in {"shim", "free"}
        BY <1>6 DEF T!ShimRead, T!ShimFree, ThreadState
    <2>2. cpc'[t] = "created" /\ tpc'[t] \in {"free", "run"}
        BY <1>6, <2>1 DEF T!ShimRead, T!ShimFree
    <2>3. T!ThreadPhase(t)' = T!ThreadPhase(t)
        BY <2>1, <2>2 DEF T!ThreadPhase
    <2>4. QED
        BY <2>3, <1>3
<1>7. CASE T!ThreadRun(t)
    \* real_thread_function returns in a thread that create returned.
    <2>1. cpc[t] = "created" /\ tpc[t] = "run"
        BY <1>7 DEF T!ThreadRun, ThreadState
    <2>2. Moves("running", "returned")
        BY <1>7, <2>1 DEF T!ThreadRun, T!ThreadPhase
    <2>3. QED
        BY <2>2, <1>2 DEF T!Service!Next, T!Service!Return
<1>8. CASE T!Join(t)
    <2>1. Moves("returned", "joined")
        BY <1>8 DEF T!Join, T!ThreadPhase
    <2>2. QED
        BY <2>1, <1>2 DEF T!Service!Next, T!Service!Join
<1>9. CASE T!Destroy(t)
    <2>1. Moves("joined", "destroyed")
        BY <1>9 DEF T!Destroy, T!ThreadPhase
    <2>2. QED
        BY <2>1, <1>2 DEF T!Service!Next, T!Service!Destroy
<1>10. QED
    BY <1>4, <1>5, <1>6, <1>7, <1>8, <1>9

LEMMA ThreadServiceStep == ThreadInv /\ [Next]_vars => [T!Service!Next]_T!Service!vars
<1> SUFFICES ASSUME ThreadInv, [Next]_vars PROVE [T!Service!Next]_T!Service!vars
    OBVIOUS
<1>1. CASE ipc = "ok" /\ T!Next /\ UNCHANGED <<socket_vars, init_vars>>
    BY <1>1, ThreadServiceStepOne DEF T!Next
<1>2. CASE UNCHANGED thread_vars
    BY <1>2, StutterMapped DEF thread_vars, T!ThreadPhase
<1>3. QED
    BY <1>1, <1>2 DEF Next, vars

\* For any number of threads, on both platforms, the thread functions
\* behave as ThreadService promises: a create that returns NULL never runs
\* its function, the thread of one that does not runs it once, and
\* next_platform_thread_join returns only after real_thread_function has
\* returned, before the destroy (ThreadsRefineService).
THEOREM ThreadServiceRefinement == Spec => ThreadsRefineService
<1>1. Init => T!Service!Init
    BY DEF Init, T!Init, T!Service!Init, T!ThreadPhase
<1>2. Spec => []ThreadInv
    BY ThreadInit, ThreadStep, PTL DEF Spec
<1>3. QED
    BY <1>1, <1>2, ThreadServiceStep, PTL
       DEF Spec, ThreadsRefineService, T!RefinesService, T!Service!Spec

=============================================================================
