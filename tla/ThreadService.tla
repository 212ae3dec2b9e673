---------------------------- MODULE ThreadService ----------------------------
(***************************************************************************)
(* What next_platform_thread_create, _join and _destroy promise the SDK,   *)
(* with the records, the shim hand-off and the OS thread object left out. *)
(* A create call either returns NULL, and its function never runs, or      *)
(* returns a thread that runs its function once; a join returns only after *)
(* that function has returned, and the thread is destroyed only after it   *)
(* was joined.                                                             *)
(***************************************************************************)
CONSTANT Threads

VARIABLE phase  \* Threads -> "idle", "null", "running", "returned",
                \*            "joined", "destroyed"

vars == <<phase>>

Init == phase = [t \in Threads |-> "idle"]

\* Move thread t from one phase to the next.
Advance(t, from, to) ==
    /\ phase[t] = from
    /\ phase' = [phase EXCEPT ![t] = to]

\* The create call returns NULL or a started thread.
Create(t) == Advance(t, "idle", "null") \/ Advance(t, "idle", "running")

\* The thread's function returns.
Return(t) == Advance(t, "running", "returned")

Join(t) == Advance(t, "returned", "joined")

Destroy(t) == Advance(t, "joined", "destroyed")

Next == \E t \in Threads : Create(t) \/ Return(t) \/ Join(t) \/ Destroy(t)

Spec == Init /\ [][Next]_vars

=============================================================================
