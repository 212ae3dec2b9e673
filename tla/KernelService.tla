---------------------------- MODULE KernelService ----------------------------
(***************************************************************************)
(* What the relay's kernel module promises the XDP programs that use it,  *)
(* with the transform, the self-test and the registration left out.  The  *)
(* service is loaded once, either comes up or fails for good, and goes     *)
(* away only with no program holding it and no kfunc call in progress.     *)
(* A sha256 call starts only from a loaded program and ends while the      *)
(* service is up.  Decryption is authenticated: a buffer is left holding  *)
(* a plaintext, and the call returns 1, only when the packet was sealed    *)
(* under the key of the call and holds a whole tag.                        *)
(***************************************************************************)
EXTENDS Integers

CONSTANTS CPUs, Keys, Forged, Msgs, MaxProgs

Packets == [sealed : Keys \cup {Forged}, body : Msgs, len : {"short", "full"}]
Buffers == [plain : BOOLEAN, pkt : Packets]

Authentic(p, k) == p.len = "full" /\ p.sealed = k

VARIABLES
    service,  \* "absent", "up" or "gone"
    users,    \* programs holding the service
    calls,    \* CPU -> a sha256 call is in progress
    data,     \* CPU -> the packet buffer of the last decrypt call
    ret       \* CPU -> what that call returned, or -1

svars == <<service, users, calls, data, ret>>

Init ==
    /\ service = "absent"
    /\ users = 0
    /\ calls = [c \in CPUs |-> FALSE]
    /\ data \in [CPUs -> Buffers]
    /\ ret = [c \in CPUs |-> -1]

\* Loading ends with the service up or gone.
Load ==
    /\ service = "absent"
    /\ service' \in {"up", "gone"}
    /\ UNCHANGED <<users, calls, data, ret>>

Attach ==
    /\ service = "up"
    /\ users < MaxProgs
    /\ users' = users + 1
    /\ UNCHANGED <<service, calls, data, ret>>

Detach ==
    /\ users > 0
    /\ users' = users - 1
    /\ UNCHANGED <<service, calls, data, ret>>

\* The service goes away with no user and no call in progress.
Unload ==
    /\ service = "up"
    /\ users = 0
    /\ \A c \in CPUs : ~calls[c]
    /\ service' = "gone"
    /\ UNCHANGED <<users, calls, data, ret>>

HashBegin(c) ==
    /\ users > 0 /\ ~calls[c]
    /\ calls' = [calls EXCEPT ![c] = TRUE]
    /\ UNCHANGED <<service, users, data, ret>>

HashEnd(c) ==
    /\ calls[c] /\ service = "up"
    /\ calls' = [calls EXCEPT ![c] = FALSE]
    /\ UNCHANGED <<service, users, data, ret>>

Decrypt(c, p, k) ==
    /\ users > 0 /\ ~calls[c]
    /\ data' = [data EXCEPT ![c] = [plain |-> Authentic(p, k), pkt |-> p]]
    /\ ret' = [ret EXCEPT ![c] = IF Authentic(p, k) THEN 1 ELSE 0]
    /\ UNCHANGED <<service, users, calls>>

Next ==
    \/ Load \/ Attach \/ Detach \/ Unload
    \/ \E c \in CPUs :
          \/ HashBegin(c) \/ HashEnd(c)
          \/ \E p \in Packets, k \in Keys : Decrypt(c, p, k)

Spec == Init /\ [][Next]_svars

=============================================================================
