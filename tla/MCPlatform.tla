----------------------------- MODULE MCPlatform -----------------------------
(***************************************************************************)
(* The thread and socket lifecycles of one platform layer side by side:    *)
(* the SDK starts its threads and opens its sockets independently, so the  *)
(* composition is the interleaving of the two models.  Both come after    *)
(* next_platform_init has returned NEXT_OK (next_init, which is not part   *)
(* of the platform files, returns early when it fails).                    *)
(***************************************************************************)
EXTENDS Naturals

CONSTANTS PLATFORM, Threads, Sockets, INITIAL_SIZE, MAX_SIZE

ASSUME PlatformAssumption == PLATFORM \in {"ps5", "windows"}

ASSUME SizeAssumption == INITIAL_SIZE \in Nat \ {0} /\ MAX_SIZE \in Nat

VARIABLES cpc, tpc, thread_mem, shim_mem, handle, bad_read,
          opts, pc, step, mem, sock, qos, ebadf,
          ipc, buffer_size, need, wifi_up, live_buffers, connection_type

T == INSTANCE PlatformThread
S == INSTANCE PlatformSocket
I == INSTANCE PlatformInit

thread_vars == <<cpc, tpc, thread_mem, shim_mem, handle, bad_read>>
socket_vars == <<opts, pc, step, mem, sock, qos, ebadf>>
init_vars == <<ipc, buffer_size, need, wifi_up, live_buffers, connection_type>>
vars == <<thread_vars, socket_vars, init_vars>>

Init == T!Init /\ S!Init /\ I!Init

Next ==
    \/ I!Next /\ UNCHANGED <<thread_vars, socket_vars>>
    \/ ipc = "ok" /\ T!Next /\ UNCHANGED <<socket_vars, init_vars>>
    \/ ipc = "ok" /\ S!Next /\ UNCHANGED <<thread_vars, init_vars>>

Spec == Init /\ [][Next]_vars

\* The calling thread keeps running next_platform_init until it returns.
FairSpec == Spec /\ WF_vars(I!InitStep /\ UNCHANGED <<thread_vars, socket_vars>>)

\* No thread or shim record is freed twice or read after it was freed, in
\* any interleaving of creator and new thread (PlatformThread!MemorySafe).
ThreadMemorySafe == T!MemorySafe

\* The platform's threads behave as ThreadService promises: created, run,
\* joined and destroyed in that order (PlatformThread!RefinesService).
ThreadsRefineService == T!RefinesService

\* A failed or destroyed thread holds no record and no OS thread object
\* (PlatformThread!ResourcesReleased).
ThreadResourcesReleased == T!ResourcesReleased

\* A socket create that returned NULL, or a socket that was destroyed,
\* holds no record, no open socket and no QoS handle
\* (PlatformSocket!ResourcesReleased).
SocketResourcesReleased == S!ResourcesReleased

\* next_platform_socket_destroy closes only handles the OS opened
\* (PlatformSocket!CloseOnlyOpenHandles).
SocketCloseOnlyOpenHandles == S!CloseOnlyOpenHandles

\* get_connection_type leaves no adapter buffer allocated once
\* next_platform_init has returned (PlatformInit!NoAdapterBufferLeak).
InitNoAdapterBufferLeak == I!NoAdapterBufferLeak

\* next_platform_init returns, even when adapters appear while
\* get_connection_type is retrying (PlatformInit!InitReturns).
InitReturns == I!InitReturns

=============================================================================
