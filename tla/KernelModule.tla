---------------------------- MODULE KernelModule ----------------------------
(***************************************************************************)
(* The relay's Linux kernel module, src/relay/module/relay_module.c:       *)
(* relay_init allocates the sha256 transform, runs a self-test and         *)
(* registers two kfuncs for XDP programs; XDP programs on several CPUs     *)
(* call bpf_relay_sha256 and bpf_relay_xchacha20poly1305_decrypt; rmmod    *)
(* runs relay_exit.  The kernel's side (the module loader, program         *)
(* loading, the module reference a program holds, RCU) is modelled as the  *)
(* kernel documents it.  Ciphers are abstract: a packet is sealed under    *)
(* a key or forged, and long enough to hold a tag or not.                  *)
(***************************************************************************)
EXTENDS Integers

CONSTANTS
    CPUs,       \* the CPUs XDP programs run on
    Keys,       \* keys a program passes in chacha20poly1305_crypto
    Forged,     \* what a packet not sealed under any key is sealed with
    Msgs,       \* plaintexts
    MaxProgs    \* most XDP programs loaded at once

ASSUME KernelAssumption ==
    /\ MaxProgs \in Nat \ {0}
    /\ Forged \notin Keys

\* What a CPU's packet buffer holds: a sealed box, or the plaintext the
\* in-place decryption left in it.  "short" is a src_len below
\* POLY1305_DIGEST_SIZE.
Packets == [sealed : Keys \cup {Forged}, body : Msgs, len : {"short", "full"}]
Buffers == [plain : BOOLEAN, pkt : Packets]

VARIABLES
    mstate,     \* the module: "absent", "init" (relay_init runs), "live", "gone"
    ipc,        \* where relay_init is: "alloc", "selftest", "register", "done"
    tfm,        \* the sha256 transform: "none", "err" (IS_ERR), "live", "freed"
    registered, \* the kfunc set is registered for XDP programs
    progs,      \* XDP programs loaded that use the kfuncs
    busy,       \* CPU -> the kfunc call in progress: "idle" or "sha256"
    data,       \* CPU -> the packet buffer the last decrypt call was given
    ret         \* CPU -> what the last decrypt call returned (0, 1), or -1

vars == <<mstate, ipc, tfm, registered, progs, busy, data, ret>>

Init ==
    /\ mstate = "absent"
    /\ ipc = "alloc"
    /\ tfm = "none"
    /\ registered = FALSE
    /\ progs = 0
    /\ busy = [c \in CPUs |-> "idle"]
    /\ data \in [CPUs -> Buffers]
    /\ ret = [c \in CPUs |-> -1]

\* insmod: the loader calls relay_init.
Insmod ==
    /\ mstate = "absent"
    /\ mstate' = "init"
    /\ UNCHANGED <<ipc, tfm, registered, progs, busy, data, ret>>

\* An error returned from relay_init: the loader drops the module without
\* calling relay_exit.
InitFails ==
    /\ mstate' = "gone"
    /\ UNCHANGED <<registered, progs, busy, data, ret>>

\* A mutant of the allocation that goes on to the self-test without the
\* IS_ERR check.
InitAllocUnchecked ==
    /\ mstate = "init" /\ ipc = "alloc"
    /\ tfm' \in {"live", "err"}
    /\ ipc' = "selftest"
    /\ UNCHANGED <<mstate, registered, progs, busy, data, ret>>

\* sha256 = crypto_alloc_shash("sha256", 0, 0); IS_ERR -> return PTR_ERR.
InitAlloc ==
    /\ mstate = "init" /\ ipc = "alloc"
    /\ \/ /\ tfm' = "live"
          /\ ipc' = "selftest"
          /\ UNCHANGED <<mstate, registered, progs, busy, data, ret>>
       \/ /\ tfm' = "err"
          /\ ipc' = "done"
          /\ InitFails

\* sha256_hash("test") compared with the known digest; -1 when it differs.
InitSelfTest ==
    /\ mstate = "init" /\ ipc = "selftest"
    /\ \/ /\ ipc' = "register"
          /\ UNCHANGED <<mstate, tfm, registered, progs, busy, data, ret>>
       \/ /\ ipc' = "done"
          /\ UNCHANGED tfm
          /\ InitFails

\* register_btf_kfunc_id_set(BPF_PROG_TYPE_XDP, ...); -1 when it fails.
InitRegister ==
    /\ mstate = "init" /\ ipc = "register"
    /\ ipc' = "done"
    /\ \/ /\ registered' = TRUE
          /\ mstate' = "live"
          /\ UNCHANGED <<tfm, progs, busy, data, ret>>
       \/ UNCHANGED tfm /\ InitFails

\* The verifier resolves the kfuncs only for a live module whose set is
\* registered, and the program takes a reference on the module.
LoadProg ==
    /\ mstate = "live" /\ registered
    /\ progs < MaxProgs
    /\ progs' = progs + 1
    /\ UNCHANGED <<mstate, ipc, tfm, registered, busy, data, ret>>

\* A mutant of the detach that drops the module reference without waiting
\* for the runs in progress.
UnloadProgNoWait ==
    /\ progs > 0
    /\ progs' = progs - 1
    /\ UNCHANGED <<mstate, ipc, tfm, registered, busy, data, ret>>

\* Detaching a program waits for the runs in progress (RCU) before its
\* module reference is dropped.
UnloadProg ==
    /\ progs > 0
    /\ progs = 1 => \A c \in CPUs : busy[c] = "idle"
    /\ progs' = progs - 1
    /\ UNCHANGED <<mstate, ipc, tfm, registered, busy, data, ret>>

\* rmmod succeeds only with no references; relay_exit frees the transform
\* unless it is an error pointer, and the loader drops the kfunc set.
Rmmod ==
    /\ mstate = "live" /\ progs = 0
    /\ tfm' = IF tfm = "err" THEN tfm ELSE "freed"
    /\ mstate' = "gone"
    /\ registered' = FALSE
    /\ UNCHANGED <<ipc, progs, busy, data, ret>>

\* bpf_relay_sha256 -> sha256_hash: the descriptor takes the global tfm.
Sha256Enter(c) ==
    /\ progs > 0 /\ busy[c] = "idle"
    /\ busy' = [busy EXCEPT ![c] = "sha256"]
    /\ UNCHANGED <<mstate, ipc, tfm, registered, progs, data, ret>>

\* crypto_shash_digest through that tfm, then return 0.
Sha256Digest(c) ==
    /\ busy[c] = "sha256"
    /\ busy' = [busy EXCEPT ![c] = "idle"]
    /\ UNCHANGED <<mstate, ipc, tfm, registered, progs, data, ret>>

\* The tag of __chacha20poly1305_decrypt matches: the packet holds at least
\* a tag and was sealed under the key of the call.
TagMatches(p, k) == p.len = "full" /\ p.sealed = k

\* A mutant of the decrypt that runs chacha20_crypt over the buffer before
\* it compares the tag (past the length check).
DecryptBeforeCheck(c, p, k) ==
    /\ progs > 0 /\ busy[c] = "idle"
    /\ data' = [data EXCEPT ![c] = [plain |-> p.len = "full", pkt |-> p]]
    /\ ret' = [ret EXCEPT ![c] = IF TagMatches(p, k) THEN 1 ELSE 0]
    /\ UNCHANGED <<mstate, ipc, tfm, registered, progs, busy>>

\* bpf_relay_xchacha20poly1305_decrypt on a packet p that arrived on CPU c,
\* with key k: the buffer is decrypted in place only when the tag matches,
\* and the kfunc returns (result == true).
Decrypt(c, p, k) ==
    /\ progs > 0 /\ busy[c] = "idle"
    /\ \/ /\ TagMatches(p, k)
          /\ data' = [data EXCEPT ![c] = [plain |-> TRUE, pkt |-> p]]
          /\ ret' = [ret EXCEPT ![c] = 1]
       \/ /\ ~TagMatches(p, k)
          /\ data' = [data EXCEPT ![c] = [plain |-> FALSE, pkt |-> p]]
          /\ ret' = [ret EXCEPT ![c] = 0]
    /\ UNCHANGED <<mstate, ipc, tfm, registered, progs, busy>>

Next ==
    \/ Insmod \/ InitAlloc \/ InitSelfTest \/ InitRegister
    \/ LoadProg \/ UnloadProg \/ Rmmod
    \/ \E c \in CPUs :
          \/ Sha256Enter(c) \/ Sha256Digest(c)
          \/ \E p \in Packets, k \in Keys : Decrypt(c, p, k)

Spec == Init /\ [][Next]_vars

-----------------------------------------------------------------------------

TypeOK ==
    /\ mstate \in {"absent", "init", "live", "gone"}
    /\ ipc \in {"alloc", "selftest", "register", "done"}
    /\ tfm \in {"none", "err", "live", "freed"}
    /\ registered \in BOOLEAN
    /\ progs \in 0..MaxProgs
    /\ busy \in [CPUs -> {"idle", "sha256"}]
    /\ data \in [CPUs -> Buffers]
    /\ ret \in [CPUs -> {-1, 0, 1}]

\* Every use of the sha256 transform, the self-test of relay_init and every
\* bpf_relay_sha256 call on any CPU, finds it allocated and not yet freed.
TfmLiveWhenUsed ==
    /\ mstate = "init" /\ ipc = "selftest" => tfm = "live"
    /\ \A c \in CPUs : busy[c] = "sha256" => tfm = "live" /\ mstate = "live"

\* The module as its programs see it: absent until relay_init has returned,
\* then up or gone.
ServicePhase ==
    CASE mstate \in {"absent", "init"} -> "absent"
      [] mstate = "live"                -> "up"
      [] mstate = "gone"                -> "gone"

Service == INSTANCE KernelService
    WITH service <- ServicePhase, users <- progs,
         calls <- [c \in CPUs |-> busy[c] = "sha256"]

\* relay_module.c, with the kernel's loader and RCU, implements the service
\* XDP programs rely on: the kfuncs appear only after a successful
\* relay_init, rmmod never runs while a bpf_relay_sha256 call is in progress
\* on any CPU, and a decrypt leaves a plaintext exactly when the tag matched
\* (KernelRefinesService).
KernelRefinesService == Service!Spec

\* A module that is gone holds no transform: every path out of relay_init
\* and relay_exit frees what relay_init allocated.
NoTransformLeak ==
    mstate = "gone" => tfm # "live"

=============================================================================
