--------------------------- MODULE PlatformSocket ---------------------------
(***************************************************************************)
(* Socket creation and destruction in the SDK's platform layers,          *)
(* next_platform_ps5.cpp and next_platform_windows.cpp.                    *)
(* next_platform_socket_create allocates the socket record, opens the OS   *)
(* socket and runs a platform-specific series of set-up calls.  A checked  *)
(* call that fails makes it clean up and return NULL; an unchecked one     *)
(* cannot.  next_platform_socket_destroy closes the handle when it is not  *)
(* 0 and frees the record.  A create call's options (address family, port  *)
(* 0, blocking mode, timeout, packet tagging) pick which calls run.        *)
(***************************************************************************)
EXTENDS Naturals, Sequences

CONSTANTS
    PLATFORM,   \* "ps5" or "windows"
    Sockets     \* the socket create calls of the run


\* The options of one create call.  PS5 sockets are IPv4 only (next_assert).
Options == [ipv6 : IF PLATFORM = "windows" THEN BOOLEAN ELSE {FALSE},
            port0 : BOOLEAN, nonblocking : BOOLEAN, timeout : BOOLEAN,
            tagging : BOOLEAN]

\* The set-up calls after the socket is opened, in the order the code makes
\* them.
BlockingMode(o) ==
    IF o.nonblocking THEN <<"nbio">> ELSE IF o.timeout THEN <<"rcvtimeo">> ELSE <<>>

SetupCalls(o) ==
    IF PLATFORM = "windows"
    THEN <<"connreset">> \o (IF o.ipv6 THEN <<"v6only">> ELSE <<>>)
           \o <<"sndbuf", "rcvbuf", "bind", "getsockname">> \o BlockingMode(o)
           \o <<"dontfrag">> \o (IF o.tagging THEN <<"qos">> ELSE <<>>)
    ELSE <<"sndbuf", "rcvbuf", "bind">>
           \o (IF o.port0 THEN <<"getsockname">> ELSE <<>>) \o BlockingMode(o)
           \o <<"dontfrag">> \o (IF o.tagging THEN <<"tos">> ELSE <<>>)

\* Calls whose result the code ignores.
Unchecked == {"connreset", "dontfrag", "tos", "qos"}

VARIABLES
    opts,   \* Sockets -> the options of the create call
    pc,     \* Sockets -> "alloc", "open", "setup", "ready", "destroy"
            \*            (inside socket_destroy), "null", "destroyed"
    step,   \* Sockets -> the set-up call the create is at
    mem,    \* Sockets -> the record: "none", "live", "freed"
    sock,   \* Sockets -> the handle: "none", "invalid" (an error value),
            \*            "open", "closed"
    qos,    \* Sockets -> QoS handles created for the socket and not closed
    ebadf   \* Sockets -> a close was made on a handle that was not open

vars == <<opts, pc, step, mem, sock, qos, ebadf>>

Init ==
    /\ opts \in [Sockets -> Options]
    /\ pc = [s \in Sockets |-> "alloc"]
    /\ step = [s \in Sockets |-> 1]
    /\ mem = [s \in Sockets |-> "none"]
    /\ sock = [s \in Sockets |-> "none"]
    /\ qos = [s \in Sockets |-> 0]
    /\ ebadf = [s \in Sockets |-> FALSE]

Goto(s, where) == pc' = [pc EXCEPT ![s] = where]

\* next_malloc of the record (behind next_assert: taken not to fail).
Alloc(s) ==
    /\ pc[s] = "alloc"
    /\ mem' = [mem EXCEPT ![s] = "live"]
    /\ Goto(s, "open")
    /\ UNCHANGED <<opts, step, sock, qos, ebadf>>

\* A mutant of the socket call that, on Windows too, cleans up a failed
\* socket with socket_destroy.
OpenSocketDestroyOnFailure(s) ==
    /\ pc[s] = "open"
    /\ \/ /\ sock' = [sock EXCEPT ![s] = "open"]
          /\ Goto(s, "setup")
       \/ /\ sock' = [sock EXCEPT ![s] = "invalid"]
          /\ Goto(s, "destroy")
    /\ UNCHANGED <<opts, step, mem, qos, ebadf>>

\* sceNetSocket / socket().  On failure PS5 calls socket_destroy with the
\* negative handle in the record; Windows frees the record and returns.
OpenSocket(s) ==
    /\ pc[s] = "open"
    /\ \/ /\ sock' = [sock EXCEPT ![s] = "open"]
          /\ Goto(s, "setup")
          /\ UNCHANGED mem
       \/ /\ PLATFORM = "ps5"
          /\ sock' = [sock EXCEPT ![s] = "invalid"]
          /\ Goto(s, "destroy")
          /\ UNCHANGED mem
       \/ /\ PLATFORM = "windows"
          /\ sock' = [sock EXCEPT ![s] = "invalid"]
          /\ mem' = [mem EXCEPT ![s] = "freed"]
          /\ Goto(s, "null")
    /\ UNCHANGED <<opts, step, qos, ebadf>>

\* The set-up call the create is at.
Call(s) == SetupCalls(opts[s])[step[s]]

\* A mutant of a checked call whose failure returns NULL without cleaning up.
CheckedNoCleanup(s) ==
    /\ Call(s) \notin Unchecked
    /\ \/ step' = [step EXCEPT ![s] = @ + 1] /\ UNCHANGED pc
       \/ Goto(s, "null") /\ UNCHANGED step
    /\ UNCHANGED <<opts, mem, sock, qos, ebadf>>

\* A set-up call that may fail: then socket_destroy and return NULL.
Checked(s) ==
    /\ Call(s) \notin Unchecked
    /\ \/ step' = [step EXCEPT ![s] = @ + 1] /\ UNCHANGED pc
       \/ Goto(s, "destroy") /\ UNCHANGED step
    /\ UNCHANGED <<opts, mem, sock, qos, ebadf>>

\* next_set_socket_codepoint: QOSCreateHandle, then QOSAddSocketToFlow; the
\* handle is never closed, whether the second call fails or not, and the
\* result is ignored.
QosTag(s) ==
    /\ Call(s) = "qos"
    /\ \/ UNCHANGED qos
       \/ qos' = [qos EXCEPT ![s] = @ + 1]
    /\ step' = [step EXCEPT ![s] = @ + 1]
    /\ UNCHANGED <<opts, pc, mem, sock, ebadf>>

\* A set-up call whose result is ignored.
Ignored(s) ==
    /\ Call(s) \in Unchecked \ {"qos"}
    /\ step' = [step EXCEPT ![s] = @ + 1]
    /\ UNCHANGED <<opts, pc, mem, sock, qos, ebadf>>

\* The next set-up call, or the return of the socket after the last one.
Setup(s) ==
    /\ pc[s] = "setup"
    /\ \/ /\ step[s] > Len(SetupCalls(opts[s]))
          /\ Goto(s, "ready")
          /\ UNCHANGED <<opts, step, mem, sock, qos, ebadf>>
       \/ /\ step[s] <= Len(SetupCalls(opts[s]))
          /\ Checked(s) \/ QosTag(s) \/ Ignored(s)

\* The owner of a socket that was returned destroys it.
Close(s) ==
    /\ pc[s] = "ready"
    /\ Goto(s, "destroy")
    /\ UNCHANGED <<opts, step, mem, sock, qos, ebadf>>

\* next_platform_socket_destroy: close the handle unless it is 0 (a handle
\* holding an error value is not 0), then free the record.  Reached from
\* a failed create (which then returns NULL) or from the owner.
Destroy(s) ==
    /\ pc[s] = "destroy"
    /\ ebadf' = [ebadf EXCEPT ![s] = @ \/ sock[s] # "open"]
    /\ sock' = [sock EXCEPT ![s] = "closed"]
    /\ mem' = [mem EXCEPT ![s] = "freed"]
    /\ Goto(s, "destroyed")
    /\ UNCHANGED <<opts, step, qos>>

Next ==
    \E s \in Sockets :
        Alloc(s) \/ OpenSocket(s) \/ Setup(s) \/ Close(s) \/ Destroy(s)

Spec == Init /\ [][Next]_vars

-----------------------------------------------------------------------------

\* Once a create call returned NULL, or its socket was destroyed, it holds
\* no memory, no open socket and no QoS handle.
ResourcesReleased ==
    \A s \in Sockets :
        pc[s] \in {"null", "destroyed"} =>
            mem[s] # "live" /\ sock[s] # "open" /\ qos[s] = 0

\* socket_destroy closes only handles that the OS opened.
CloseOnlyOpenHandles ==
    \A s \in Sockets : ~ebadf[s]

=============================================================================
