--------------------------- MODULE PlatformThread ---------------------------
(***************************************************************************)
(* Thread creation in the SDK's platform layers, next_platform_ps5.cpp and *)
(* next_platform_windows.cpp: next_platform_thread_create allocates the    *)
(* thread record and a shim record, starts the OS thread on                *)
(* thread_function_shim, which copies the shim's fields, frees it and runs *)
(* the real function; next_platform_thread_join waits for the thread and   *)
(* next_platform_thread_destroy frees the record.  The two files differ in *)
(* the OS calls only: scePthreadJoin reclaims a PS5 thread, while a        *)
(* Windows thread HANDLE stays open until CloseHandle.                     *)
(* The callers (the SDK client and server) join a thread before they       *)
(* destroy it; each element of Threads is one create call.                 *)
(***************************************************************************)
EXTENDS Naturals

CONSTANTS
    PLATFORM,   \* "ps5" or "windows"
    Threads     \* the thread create calls of the run


\* A heap block: never allocated, allocated, freed, or freed twice.
Free(m) == IF m = "live" THEN "freed" ELSE "corrupt"

VARIABLES
    cpc,        \* Threads -> where the creating and owning thread is
    tpc,        \* Threads -> where the new OS thread is
    thread_mem, \* Threads -> the next_platform_thread_t block
    shim_mem,   \* Threads -> the thread_shim_data_t block
    handle,     \* Threads -> the OS thread object: "none", "open", "released"
    bad_read    \* some thread read a shim block that was not live

vars == <<cpc, tpc, thread_mem, shim_mem, handle, bad_read>>

Init ==
    /\ cpc = [t \in Threads |-> "start"]
    /\ tpc = [t \in Threads |-> "none"]
    /\ thread_mem = [t \in Threads |-> "none"]
    /\ shim_mem = [t \in Threads |-> "none"]
    /\ handle = [t \in Threads |-> "none"]
    /\ bad_read = FALSE

\* A mutant of thread_create that does not free the thread record when
\* the shim allocation fails.
AllocRecordsNoCleanup(t) ==
    /\ cpc[t] = "start"
    /\ \/ /\ thread_mem' = [thread_mem EXCEPT ![t] = "live"]
          /\ shim_mem' = [shim_mem EXCEPT ![t] = "live"]
          /\ cpc' = [cpc EXCEPT ![t] = "spawn"]
       \/ /\ thread_mem' = [thread_mem EXCEPT ![t] = "live"]
          /\ cpc' = [cpc EXCEPT ![t] = "failed"]
          /\ UNCHANGED shim_mem
    /\ UNCHANGED <<tpc, handle, bad_read>>

\* next_malloc of the thread record (behind next_assert: the SDK's
\* allocator is taken not to fail) and of the shim, which may fail: then
\* the record is freed and NULL returned.
AllocRecords(t) ==
    /\ cpc[t] = "start"
    /\ \/ /\ thread_mem' = [thread_mem EXCEPT ![t] = "live"]
          /\ shim_mem' = [shim_mem EXCEPT ![t] = "live"]
          /\ cpc' = [cpc EXCEPT ![t] = "spawn"]
       \/ /\ thread_mem' = [thread_mem EXCEPT ![t] = "freed"]
          /\ cpc' = [cpc EXCEPT ![t] = "failed"]
          /\ UNCHANGED shim_mem
    /\ UNCHANGED <<tpc, handle, bad_read>>

\* A mutant of the spawn that also frees the shim once the thread started.
SpawnFreesShim(t) ==
    /\ cpc[t] = "spawn"
    /\ \/ /\ handle' = [handle EXCEPT ![t] = "open"]
          /\ tpc' = [tpc EXCEPT ![t] = "shim"]
          /\ cpc' = [cpc EXCEPT ![t] = "created"]
          /\ shim_mem' = [shim_mem EXCEPT ![t] = Free(@)]
          /\ UNCHANGED thread_mem
       \/ /\ thread_mem' = [thread_mem EXCEPT ![t] = Free(@)]
          /\ shim_mem' = [shim_mem EXCEPT ![t] = Free(@)]
          /\ cpc' = [cpc EXCEPT ![t] = "failed"]
          /\ UNCHANGED <<tpc, handle>>
    /\ UNCHANGED bad_read

\* scePthreadCreate / CreateThread on thread_function_shim: on failure both
\* records are freed and NULL returned; on success the new thread owns the
\* shim and the caller gets the record.
Spawn(t) ==
    /\ cpc[t] = "spawn"
    /\ \/ /\ handle' = [handle EXCEPT ![t] = "open"]
          /\ tpc' = [tpc EXCEPT ![t] = "shim"]
          /\ cpc' = [cpc EXCEPT ![t] = "created"]
          /\ UNCHANGED <<thread_mem, shim_mem>>
       \/ /\ thread_mem' = [thread_mem EXCEPT ![t] = Free(@)]
          /\ shim_mem' = [shim_mem EXCEPT ![t] = Free(@)]
          /\ cpc' = [cpc EXCEPT ![t] = "failed"]
          /\ UNCHANGED <<tpc, handle>>
    /\ UNCHANGED bad_read

\* thread_function_shim copies context, real_thread_data and
\* real_thread_function out of the shim ...
ShimRead(t) ==
    /\ tpc[t] = "shim"
    /\ bad_read' = (bad_read \/ shim_mem[t] # "live")
    /\ tpc' = [tpc EXCEPT ![t] = "free"]
    /\ UNCHANGED <<cpc, thread_mem, shim_mem, handle>>

\* ... frees it with next_free(context, data) ...
ShimFree(t) ==
    /\ tpc[t] = "free"
    /\ shim_mem' = [shim_mem EXCEPT ![t] = Free(@)]
    /\ tpc' = [tpc EXCEPT ![t] = "run"]
    /\ UNCHANGED <<cpc, thread_mem, handle, bad_read>>

\* ... and runs real_thread_function(real_thread_data) to its return.
ThreadRun(t) ==
    /\ tpc[t] = "run"
    /\ tpc' = [tpc EXCEPT ![t] = "exited"]
    /\ UNCHANGED <<cpc, thread_mem, shim_mem, handle, bad_read>>

\* A mutant of the join whose wait returns once the thread function is
\* running (a wait with a timeout).
JoinEarly(t) ==
    /\ cpc[t] = "created"
    /\ tpc[t] \in {"run", "exited"}
    /\ bad_read' = (bad_read \/ thread_mem[t] # "live")
    /\ handle' = IF PLATFORM = "ps5" THEN [handle EXCEPT ![t] = "released"] ELSE handle
    /\ cpc' = [cpc EXCEPT ![t] = "joined"]
    /\ UNCHANGED <<tpc, thread_mem, shim_mem>>

\* next_platform_thread_join: scePthreadJoin / WaitForSingleObject on
\* thread->handle return once the thread has exited; joining reclaims a PS5
\* thread, a Windows HANDLE stays open.
Join(t) ==
    /\ cpc[t] = "created"
    /\ tpc[t] = "exited"
    /\ bad_read' = (bad_read \/ thread_mem[t] # "live")
    /\ handle' = IF PLATFORM = "ps5" THEN [handle EXCEPT ![t] = "released"] ELSE handle
    /\ cpc' = [cpc EXCEPT ![t] = "joined"]
    /\ UNCHANGED <<tpc, thread_mem, shim_mem>>

\* next_platform_thread_destroy: next_free(thread->context, thread).
Destroy(t) ==
    /\ cpc[t] = "joined"
    /\ thread_mem' = [thread_mem EXCEPT ![t] = Free(@)]
    /\ cpc' = [cpc EXCEPT ![t] = "destroyed"]
    /\ UNCHANGED <<tpc, shim_mem, handle, bad_read>>

Next ==
    \E t \in Threads :
        \/ AllocRecords(t) \/ Spawn(t) \/ ShimRead(t) \/ ShimFree(t)
        \/ ThreadRun(t) \/ Join(t) \/ Destroy(t)

Spec == Init /\ [][Next]_vars

-----------------------------------------------------------------------------

\* The phase of create call t as ThreadService sees it: the new thread runs
\* its function from the start of the shim to the return of
\* real_thread_function.
ThreadPhase(t) ==
    CASE cpc[t] \in {"start", "spawn"}                 -> "idle"
      [] cpc[t] = "failed"                            -> "null"
      [] cpc[t] = "created" /\ tpc[t] # "exited"      -> "running"
      [] cpc[t] = "created" /\ tpc[t] = "exited"      -> "returned"
      [] cpc[t] = "joined"                            -> "joined"
      [] cpc[t] = "destroyed"                         -> "destroyed"

Service == INSTANCE ThreadService WITH phase <- [t \in Threads |-> ThreadPhase(t)]

\* The thread functions of next_platform_thread_create implement
\* ThreadService: a create that returns NULL never runs its function, and
\* next_platform_thread_join returns only after real_thread_function did.
RefinesService == Service!Spec

\* No block is freed twice and nothing reads a block after it was freed:
\* the shim is handed from creator to new thread, which reads it before it
\* frees it, and the record outlives the join.
MemorySafe ==
    /\ ~bad_read
    /\ \A t \in Threads : shim_mem[t] # "corrupt" /\ thread_mem[t] # "corrupt"

\* Once a create call failed, or its thread was joined and destroyed, the
\* thread holds no memory and no OS thread object.
ResourcesReleased ==
    \A t \in Threads :
        cpc[t] \in {"failed", "destroyed"} =>
            /\ thread_mem[t] # "live"
            /\ shim_mem[t] # "live"
            /\ handle[t] # "open"

=============================================================================
