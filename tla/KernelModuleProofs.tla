------------------------- MODULE KernelModuleProofs -------------------------
(***************************************************************************)
(* Proofs, for any set of CPUs, keys and program bound, that every use of  *)
(* the sha256 transform of relay_module.c finds it live.                  *)
(***************************************************************************)
EXTENDS KernelModule, TLAPS

USE KernelAssumption

\* The strengthening: a loaded program pins a live module, a live module
\* has its transform, relay_init past the allocation has it too, and a CPU
\* inside bpf_relay_sha256 runs a loaded program.
KInv ==
    /\ TypeOK
    /\ progs > 0 => mstate = "live"
    /\ mstate = "live" => tfm = "live"
    /\ mstate = "init" /\ ipc \in {"selftest", "register"} => tfm = "live"
    /\ mstate = "absent" => ipc = "alloc"
    /\ \A c \in CPUs : busy[c] = "sha256" => progs > 0

LEMMA InitKInv == Init => KInv
<1> SUFFICES ASSUME Init PROVE KInv
    OBVIOUS
<1>1. busy \in [CPUs -> {"idle", "sha256"}]
    BY DEF Init
<1>2. ret \in [CPUs -> {-1, 0, 1}]
    BY DEF Init
<1>3. progs \in 0..MaxProgs
    BY DEF Init
<1>4. TypeOK
    BY <1>1, <1>2, <1>3 DEF Init, TypeOK
<1>5. \A c \in CPUs : busy[c] = "sha256" => progs > 0
    BY DEF Init
<1>6. QED
    BY <1>4, <1>5 DEF Init, KInv

LEMMA NextKInv == KInv /\ [Next]_vars => KInv'
<1> SUFFICES ASSUME KInv, [Next]_vars PROVE KInv'
    OBVIOUS
<1>1. CASE Insmod
    BY <1>1 DEF KInv, TypeOK, Insmod
<1>2. CASE InitAlloc
    BY <1>2 DEF KInv, TypeOK, InitAlloc, InitFails
<1>3. CASE InitSelfTest
    BY <1>3 DEF KInv, TypeOK, InitSelfTest, InitFails
<1>4. CASE InitRegister
    BY <1>4 DEF KInv, TypeOK, InitRegister, InitFails
<1>5. CASE LoadProg
    BY <1>5 DEF KInv, TypeOK, LoadProg
<1>6. CASE UnloadProg
    BY <1>6 DEF KInv, TypeOK, UnloadProg
<1>7. CASE Rmmod
    <2>1. tfm' \in {"none", "err", "live", "freed"}
        BY <1>7 DEF Rmmod
    <2>2. TypeOK'
        BY <1>7, <2>1 DEF KInv, TypeOK, Rmmod
    <2>3. \A c \in CPUs : busy'[c] = "sha256" => progs' > 0
        BY <1>7 DEF KInv, Rmmod
    <2>4. QED
        BY <1>7, <2>2, <2>3 DEF KInv, Rmmod
<1>8. ASSUME NEW c \in CPUs, Sha256Enter(c) PROVE KInv'
    BY <1>8 DEF KInv, TypeOK, Sha256Enter
<1>9. ASSUME NEW c \in CPUs, Sha256Digest(c) PROVE KInv'
    BY <1>9 DEF KInv, TypeOK, Sha256Digest
<1>10. ASSUME NEW c \in CPUs, NEW p \in Packets, NEW k \in Keys, Decrypt(c, p, k)
       PROVE KInv'
    <2>1. data' \in [CPUs -> Buffers]
        <3>1. [plain |-> TRUE, pkt |-> p] \in Buffers /\ [plain |-> FALSE, pkt |-> p] \in Buffers
            BY <1>10 DEF Buffers
        <3>2. QED
            BY <1>10, <3>1 DEF KInv, TypeOK, Decrypt
    <2>2. ret' \in [CPUs -> {-1, 0, 1}]
        BY <1>10 DEF KInv, TypeOK, Decrypt
    <2>3. QED
        BY <1>10, <2>1, <2>2 DEF KInv, TypeOK, Decrypt
<1>11. CASE UNCHANGED vars
    BY <1>11 DEF KInv, TypeOK, vars
<1>12. QED
    BY <1>1, <1>2, <1>3, <1>4, <1>5, <1>6, <1>7, <1>8, <1>9, <1>10, <1>11 DEF Next

\* Every reachable state of the kernel module model is well typed.
THEOREM KernelTypeCorrect == Spec => []TypeOK
<1>1. KInv => TypeOK
    BY DEF KInv
<1>2. QED
    BY <1>1, InitKInv, NextKInv, PTL DEF Spec

\* The self-test of relay_init and every bpf_relay_sha256 call find the
\* sha256 transform allocated and not freed, whatever the CPUs do and
\* whenever programs are loaded, unloaded or the module removed.
THEOREM TfmLiveWhenUsedHolds == Spec => []TfmLiveWhenUsed
<1>1. KInv => TfmLiveWhenUsed
    BY DEF KInv, TfmLiveWhenUsed
<1>2. QED
    BY <1>1, InitKInv, NextKInv, PTL DEF Spec

-----------------------------------------------------------------------------
(* The refinement of KernelService.                                        *)

\* Both modules describe packet buffers the same way.
LEMMA SameBuffers == Buffers = Service!Buffers /\ Packets = Service!Packets
BY DEF Buffers, Service!Buffers, Packets, Service!Packets

\* The CPUs inside bpf_relay_sha256, as the service sees them.
ServiceCalls == [c \in CPUs |-> busy[c] = "sha256"]

LEMMA ServiceInit == Init => Service!Init
<1> SUFFICES ASSUME Init PROVE Service!Init
    OBVIOUS
<1>1. ServicePhase = "absent"
    BY DEF Init, ServicePhase
<1>2. [c \in CPUs |-> busy[c] = "sha256"] = [c \in CPUs |-> FALSE]
    BY DEF Init
<1>3. data \in [CPUs -> Service!Buffers]
    BY SameBuffers DEF Init
<1>4. QED
    BY <1>1, <1>2, <1>3 DEF Init, Service!Init

\* Every step of the module, its loader and its programs is a step of the
\* service or leaves what the programs see unchanged.
LEMMA ServiceStep ==
    KInv /\ KInv' /\ [Next]_vars => [Service!Next]_Service!svars
<1> SUFFICES ASSUME KInv, KInv', [Next]_vars
             PROVE  [Service!Next]_Service!svars
    OBVIOUS
<1> USE DEF KInv, TypeOK
<1>1. CASE Insmod
    BY <1>1 DEF Insmod, ServicePhase, Service!svars
<1>2. CASE InitAlloc
    <2>1. CASE mstate' = "init"
        BY <1>2, <2>1 DEF InitAlloc, InitFails, ServicePhase, Service!svars
    <2>2. CASE mstate' = "gone"
        BY <1>2, <2>2 DEF InitAlloc, InitFails, ServicePhase, Service!Next, Service!Load
    <2>3. QED
        BY <1>2, <2>1, <2>2 DEF InitAlloc, InitFails
<1>3. CASE InitSelfTest
    <2>1. CASE mstate' = "init"
        BY <1>3, <2>1 DEF InitSelfTest, InitFails, ServicePhase, Service!svars
    <2>2. CASE mstate' = "gone"
        BY <1>3, <2>2 DEF InitSelfTest, InitFails, ServicePhase, Service!Next, Service!Load
    <2>3. QED
        BY <1>3, <2>1, <2>2 DEF InitSelfTest, InitFails
<1>4. CASE InitRegister
    \* relay_init returns: the service comes up or fails for good.
    <2>1. ServicePhase = "absent" /\ ServicePhase' \in {"up", "gone"}
        BY <1>4 DEF InitRegister, InitFails, ServicePhase
    <2>2. UNCHANGED <<progs, busy, data, ret>>
        BY <1>4 DEF InitRegister, InitFails
    <2>3. QED
        BY <2>1, <2>2 DEF Service!Next, Service!Load
<1>5. CASE LoadProg
    BY <1>5 DEF LoadProg, ServicePhase, Service!Next, Service!Attach
<1>6. CASE UnloadProg
    BY <1>6 DEF UnloadProg, ServicePhase, Service!Next, Service!Detach
<1>7. CASE Rmmod
    \* With no program loaded, no CPU is inside bpf_relay_sha256.
    <2>1. \A c \in CPUs : ~(busy[c] = "sha256")
        BY <1>7 DEF Rmmod
    <2>2. ServicePhase = "up" /\ ServicePhase' = "gone"
        BY <1>7 DEF Rmmod, ServicePhase
    <2>3. QED
        BY <1>7, <2>1, <2>2 DEF Rmmod, Service!Next, Service!Unload
<1>8. ASSUME NEW c \in CPUs, Sha256Enter(c)
      PROVE  [Service!Next]_Service!svars
    <2>1. [d \in CPUs |-> busy'[d] = "sha256"]
            = [[d \in CPUs |-> busy[d] = "sha256"] EXCEPT ![c] = TRUE]
        BY <1>8 DEF Sha256Enter
    <2>2. Service!HashBegin(c)
        BY <1>8, <2>1 DEF Sha256Enter, ServicePhase, Service!HashBegin
    <2>3. QED
        BY <2>2 DEF Service!Next
<1>9. ASSUME NEW c \in CPUs, Sha256Digest(c)
      PROVE  [Service!Next]_Service!svars
    \* A CPU inside bpf_relay_sha256 runs a program, which pins the module.
    <2>1. ServicePhase = "up"
        BY <1>9 DEF Sha256Digest, ServicePhase
    <2>2. [d \in CPUs |-> busy'[d] = "sha256"]
            = [[d \in CPUs |-> busy[d] = "sha256"] EXCEPT ![c] = FALSE]
        BY <1>9 DEF Sha256Digest
    <2>3. Service!HashEnd(c)
        BY <1>9, <2>1, <2>2 DEF Sha256Digest, ServicePhase, Service!HashEnd
    <2>4. QED
        BY <2>3 DEF Service!Next
<1>10. ASSUME NEW c \in CPUs, NEW p \in Packets, NEW k \in Keys, Decrypt(c, p, k)
       PROVE  [Service!Next]_Service!svars
    <2>1. TagMatches(p, k) = Service!Authentic(p, k)
        BY DEF TagMatches, Service!Authentic
    <2>2. UNCHANGED <<ServicePhase, progs, ServiceCalls>>
        BY <1>10 DEF Decrypt, ServicePhase, ServiceCalls
    <2>3. progs > 0 /\ ~ServiceCalls[c]
        BY <1>10 DEF Decrypt, ServiceCalls
    <2>4. /\ data' = [data EXCEPT ![c] = [plain |-> Service!Authentic(p, k), pkt |-> p]]
          /\ ret' = [ret EXCEPT ![c] = IF Service!Authentic(p, k) THEN 1 ELSE 0]
        <3>1. CASE TagMatches(p, k)
            <4>1. Service!Authentic(p, k) = TRUE
                BY <2>1, <3>1
            <4>2. QED
                BY <1>10, <3>1, <4>1 DEF Decrypt
        <3>2. CASE ~TagMatches(p, k)
            <4>1. Service!Authentic(p, k) = FALSE
                BY <2>1, <3>2
            <4>2. QED
                BY <1>10, <3>2, <4>1 DEF Decrypt
        <3>3. QED
            BY <3>1, <3>2
    <2>5. Service!Decrypt(c, p, k)
        BY <2>2, <2>3, <2>4 DEF Service!Decrypt, ServiceCalls
    <2>6. p \in Service!Packets
        BY SameBuffers
    <2>7. QED
        BY <2>5, <2>6 DEF Service!Next
<1>11. CASE UNCHANGED vars
    BY <1>11 DEF vars, ServicePhase, Service!svars
<1>12. QED
    BY <1>1, <1>2, <1>3, <1>4, <1>5, <1>6, <1>7, <1>8, <1>9, <1>10, <1>11 DEF Next

\* The module implements the service its XDP programs rely on: kfuncs only
\* after a successful relay_init, no rmmod under a running sha256 call, and
\* authenticated in-place decryption (KernelRefinesService).
THEOREM KernelServiceRefinement == Spec => KernelRefinesService
<1>1. Spec => []KInv
    BY InitKInv, NextKInv, PTL DEF Spec
<1>2. QED
    BY <1>1, ServiceInit, ServiceStep, PTL DEF Spec, KernelRefinesService, Service!Spec

=============================================================================
