# Formal models of the Network Next relay and SDK platform code

This directory holds TLA+ models of the code under `src/`, the TLC
configurations that model-check them on small instances, and TLAPS proofs of
their main invariants for every value of the constants.

## The system and its parts

| Part | Source | Role |
|---|---|---|
| Backend update loop | `src/src/core/backend.cpp` (`Backend::update_loop`, `Backend::update`) | The relay's backend thread. It repeatedly serialises an update request (draining the `ThroughputRecorder`), POSTs it to the backend with retries, checks the response, sets the router clock, swaps the relay roster and purges expired sessions. On shutdown it runs a clean-shutdown loop that announces the shutdown until the backend acknowledges it, then sleeps a grace period. |
| Update codec | `backend.cpp` lines 27-245 and 320-427 (`UpdateRequest::from`, `UpdateResponse::from/into/size`, the serialisation in `update()`) | Field-by-field encoding of the update request and response. |
| Relay kernel module | `src/relay/module/relay_module.c` | Linux module that gives XDP programs two kfuncs, SHA-256 and in-place XChaCha20-Poly1305 decryption. |
| PS5 platform layer | `src/sdk/source/next_platform_ps5.cpp` | Threads, mutexes, sockets, time, random bytes and platform init for the SDK. |
| Windows platform layer | `src/sdk/source/next_platform_windows.cpp` | The same interface on Windows, plus the QoS tagging of sockets and the adapter scan for the connection type. |
| Logger, legacy headers, libsodium helpers | `logger.hpp`, `relay_unix.h`, `relay_mac.h`, `next_autodetect.h`, `sodium_xmm6int_u1.h` | Output formatting, declarations, vectorised arithmetic: not modelled (see below). |

The backend loop interacts with the rest of the relay through shared state that
is not under `src/`: the receive thread adds bytes to the `ThroughputRecorder`
and installs sessions in the `SessionMap`; the signal handler clears
`should_loop` (SIGINT) or also sets `should_clean_shutdown` (SIGTERM); the
`RelayManager` holds the roster and `RouterInfo` the backend's clock. These
are modelled from the spec, as far as the loop sees them, and marked
`spec_modelled` in `PROJECT.json`.

## Modules

### `Backend.tla` - the backend thread and its environment

State (VARIABLES) and the code it stands for:

* `should_loop`, `should_clean_shutdown`: the volatile flags shared with the
  signal handler; `should_loop` is also `update()`'s `should_retry`.
* `bpc`: where the backend thread is: `"loop"` (the `while (should_loop)`
  test, or the test of `should_clean_shutdown` after it), `"serialize"`,
  `"send"` (one evaluation of the send loop's condition), `"finish"` (the
  tail of `update()` and the caller's switch on its result), `"done"`.
* `shutdown`, `req`, `num_retries`, `request_success`, `elapsed_seconds`:
  `update()`'s argument and locals; `req` keeps only the byte deltas and the
  shutdown flag of the serialised request.
* `update_clock`, `shutdown_clock`: the two `util::Clock`s (`timeout` in
  `update()`, `backend_timeout` in `update_loop()`) as whole seconds,
  saturated at `CLOCK_CAP`, a constant above every budget, so that the state
  space is finite while every comparison the code makes is unaffected.
* `time_since_last_update`, `success`, `first_update`, `grace`: the loop's
  locals, `update()`'s function-static flag, and whether the 30 s grace sleep
  was taken.
* `result`, `rejected`, `shutdown_acked`: observation variables: the last
  `UpdateResult`, whether a response check rejected it, and whether the last
  clean-shutdown update succeeded.
* `recorder`, `counted`, `roster`, `router_time`, `sessions`: the relay state
  the loop reads and writes.
* `backend_bytes`, `backend_state`: what the backend server has been told.

Actions: `UpdateLoopHead`, `SerializeRequest`, `SendRequest`,
`FinishNormalUpdate` (the tail of a normal `update()` with `LoopOnResult`),
`FinishShutdownUpdate` (the tail of a shutdown `update()` with
`ShutdownOnResult`); the environment's `RecordTraffic`, `RouteRequest`,
`StopSignal`, `CleanShutdownSignal`. A `send_request` call has three outcomes:
acknowledged, processed by the backend with the reply lost, or never
delivered; it takes a time from `SendTimes`. `UpdateTail` has one disjunct
per return of `update()` after the send loop; the call to
`relay_manager.update`, whose code is not in this repository, is a free
choice between accepting a roster that passed the count check and refusing
it (a `Failure` after the router clock was set).

### `BackendLifecycle.tla` - what the backend loop promises

The abstract specification of the relay's life as the backend component
sees it (spec 4.6): `phase` is running, draining or stopped; while running,
an update may install a roster of at most `MAX_RELAYS` relays and move the
router clock; a clean shutdown turns it to draining, where only the
announcement to the backend (`announced`) happens; it stops from either
phase for good, with the grace sleep (`grace`) only after an announcement.
`Backend` maps onto it with `LifecyclePhase` (`"stopped"` once `bpc` is
`"done"`, `"draining"` once `update()` runs with `shutdown` set, else
`"running"`), the roster and router clock themselves, and `announced` as
the backend server's state being `"draining"`; the property
`BackendRefinesLifecycle` is `Lifecycle!Spec` under that mapping.

### `MCBackend.tla` and its configurations

`MCBackend.cfg`: two update attempts, budgets of 4 s (update) and 4 s (clean
shutdown), sends of 1 or 2 s, two response versions, two relays with room for
one, three timestamps (so the backend clock can go back), one counter that may count one byte, one session id.
These bounds let every branch happen: a retry exhausting the budget and the
attempt count, a response with a wrong version or too many relays, a session
that expires, a clean-shutdown loop that runs out of time, and a signal in
each phase.

### `Encoding.tla` - the encoding library

The `encoding` library is not under `src/`; it is modelled from the spec
(little-endian integers, strings with a u32 length prefix). `LE(n, w)` is
the w bytes of n, least significant first, taken from `Shifts(n)`, the
successive quotients of n by 256; `FromLE` sums at most eight bytes back
in Horner form;
`CanRead`, `Bytes`, `CanReadString`, `StringAt` are the bounds checks and
reads the codec calls.

### `ResponseCodec.tla`, `RequestCodec.tla` - the update codec

Each parse is a state machine that runs `from()` one read at a time, as the
code does: `src` is the message that was encoded, `cut` how many of its bytes
the parser receives (every prefix, and for the response one stray byte more),
`index` the read position, `i` the loop index, `phase` the read `from()` is
at or its result, `out` the object being filled. Every read has its failure
disjunct (the early `return false`). In `ResponseCodec` the `relays` array
holds `MAX_RELAYS` entries and a write past it is modelled as lost
(`Store`): that is undefined behaviour in the code and the property
`WritesWithinArray` flags it. `Size` is `UpdateResponse::size()`, `Wire` is
`into()`. In `RequestCodec`, `Written` is the sequence of `write_*` calls of
`update()`, `RequestSize` its hand-written size sum and `Sent` the buffer
presized to that sum (a write past the end fails silently, unwritten bytes
stay zero). Floats and doubles are their bit patterns, addresses and tokens
small byte strings, and the 26 u64 totals `NUM_TOTALS` reads of one kind.

### `KernelModule.tla` - the relay's kernel module

`mstate` and `ipc` follow `relay_init` through allocation, self-test and
kfunc registration, each with its error return, and `relay_exit`; `tfm` is
the global sha256 transform; `progs` counts loaded XDP programs; `busy`,
`data` and `ret` are per CPU: a `bpf_relay_sha256` call in progress (split
into entering and digesting, so that rmmod can be tried in between), the
buffer of the last decrypt and its result. Loading and unloading programs
(`LoadProg`, `UnloadProg`) is the kernel's side, modelled as the kernel
documents it: a program pins the module, and the last unload waits for the
runs in progress. The AEAD is abstracted to whether the tag matches
(`TagMatches`): a packet is sealed under some key or forged, long enough to
hold a tag or not.

### `KernelService.tla` - what the kernel module promises its programs

The abstract specification leaves out the transform, the self-test and the
registration. It keeps what an XDP program relies on:

* the service is loaded once, and either comes up or fails for good;
* it goes away only with no program holding it and no kfunc call in
  progress;
* a sha256 call starts from a loaded program and ends while the service is up;
* decryption is authenticated: the buffer holds a plaintext, and the call
  returns 1, only for a whole packet sealed under the call's key.

`KernelModule` maps onto it by
`ServicePhase` (`absent`/`init` to `"absent"`, `live` to `"up"`, `gone` to
`"gone"`), `progs` to `users`, and a CPU in `"sha256"` to a call in
progress; `KernelRefinesService` is `Service!Spec` under that mapping.

### `PlatformThread.tla`, `PlatformSocket.tla`, `MCPlatform.tla` - the platform layers

`PlatformThread` follows each `next_platform_thread_create` call: the two
allocations, the OS spawn, the shim on the new thread (read, free, run) and
the owner's join and destroy (the SDK joins before it destroys). Memory
blocks are `"none"`, `"live"`, `"freed"` or `"corrupt"` (freed twice), and
`bad_read` records a read of a block that is not live. `PLATFORM` selects
the OS behaviour: `scePthreadJoin` reclaims a PS5 thread; a Windows HANDLE
stays open. `PlatformSocket` follows each `next_platform_socket_create`:
allocation, the socket call (PS5 cleans a failure up with `socket_destroy`,
Windows frees the record itself), then the platform's list of set-up calls
in code order (`SetupCalls`, chosen by the options of the call), each one
either checked (its failure runs `socket_destroy` and returns NULL) or
ignored, with the Windows QoS tagging creating a handle that is never
closed. `MCPlatform` runs both side by side (they are independent in the
code) for one platform, after `PlatformInit`.

`ThreadService.tla` is the abstract specification of the thread functions.
Each create call is `"idle"`, then `"null"` (create returned NULL) or
`"running"`, then `"returned"` (its function returned), `"joined"` and
`"destroyed"`. `PlatformThread!ThreadPhase` maps the creator's `cpc` and
the new thread's `tpc` onto it: the allocations and the shim steps are
internal, the spawn is the create, the return of `real_thread_function` is
`Return`. `ThreadsRefineService` in `MCPlatform` is the refinement property.

### `PlatformInit.tla` - `next_platform_init`

`ipc` follows `next_platform_init`. On PS5 that is `sceSysmoduleLoadModule`,
`randombytes_set_implementation` and `sceNetPoolCreate`, each able to return
`NEXT_ERROR`, then the netctl device query, which only refines
`connection_type`. On Windows it is `WSAStartup`, then `get_connection_type`.
`QueryAdapters` is one round of that function's do-while loop:
`next_malloc(buffer_size)`, then `GetAdaptersAddresses`.

* If the list fits, the loop is left with the buffer.
* On `ERROR_BUFFER_OVERFLOW` the size needed is written back to
  `buffer_size`, the buffer is freed and the loop goes round again.
* On `ERROR_NO_DATA` (no adapter) the buffer is freed and the type is
  unknown.
* Any other failure of the OS is `QueryAdaptersFails`.

`ScanAdapters` picks wired or wifi and frees the buffer. Sizes are abstract
units (`INITIAL_SIZE` stands for 15000 bytes). The OS's adapter list, and so
the size it needs (`need`), may grow between two rounds up to `MAX_SIZE`
(`AdapterAdded`): that is what makes the loop retry more than once.
`live_buffers` counts the buffers allocated and not freed.

In `MCPlatform`, threads and sockets are created only once `ipc = "ok"`.
`next_init`, which is not under `src/`, calls `next_platform_init` first and
returns when it fails.

## Runs

| Run | Checks | Result |
|---|---|---|
| `backend_core` | `TypeOK`, `GraceOnlyAfterAck`, `StopLeadsToDone` (liveness), `BackendRefinesLifecycle` (refinement) | pass, 80,802 distinct states |
| `backend_ack_then_failure` | `AcknowledgedUpdateNotFailed` | violated |
| `backend_retry_budget` | `RetryWithinBudget` | violated |
| `backend_grace_skipped` | `GraceAfterAck` | violated |
| `response_codec` | `TypeOK`, `DecodeAcceptsExactlyEncodings`, `SizeCountsConsumedBytes` | pass, 11,540 distinct states |
| `response_relays_overflow` | `WritesWithinArray` | violated |
| `request_codec` | `TypeOK`, `RequestRoundTrip` | pass, 30,656 distinct states |
| `kernel_tfm_lifetime` | `TfmLiveWhenUsed`, `KernelRefinesService` (refinement) | pass, 1,824 distinct states |
| `kernel_init_leak` | `NoTransformLeak` | violated |
| `platform_ps5` | `ThreadMemorySafe`, `ThreadResourcesReleased`, `SocketResourcesReleased`, `ThreadsRefineService` (refinement) | pass, 320,640 distinct states |
| `platform_windows` | `InitNoAdapterBufferLeak`, `InitReturns` (liveness), `SocketCloseOnlyOpenHandles` | pass, 698,048 distinct states |
| `platform_windows_thread_handle` | `ThreadResourcesReleased` | violated |

Bounds. The codec runs take every prefix of every encoding of a small set
of messages: up to three relays listed against an array of two (so the
overflow happens), one and two byte addresses, a malformed address text,
distinct non-zero values for the fields of different kinds (so that a
swapped or misplaced field is told apart) and totals of 0 and 300 (a value
that needs two bytes). The kernel run has two CPUs (a sha256 call on
one while the other tries rmmod), one key and one forged seal, and two
programs (the module reference outliving one unload). The platform runs have
two threads and one socket with every combination of options, which makes
every set-up call of both platforms fail in turn. Their init takes a first
buffer of one unit, against an adapter list of 0 to 2 units that may grow by
one during the loop. This covers every branch of the retry loop: no adapter,
a list that fits at once, one overflow, and an overflow followed by growth
and a second overflow.

What the violations show (details in `PROJECT.json`, "findings"):

* The send loop evaluates `send_request` before the retry bound, so after
  `MAX_UPDATE_ATTEMPTS` failures one more send is made; if it succeeds,
  `num_retries >= MAX_UPDATE_ATTEMPTS` (line 442) still reports Failure and
  the relay stops.
* `elapsed_seconds` is read once (line 432), so the `UPDATE_TIMEOUT_SECS`
  bound never ends a retry loop.
* When the update made on the round after the 60 s clean-shutdown budget ran
  out succeeds, the grace test reads the old `time_since_last_update` and the
  relay exits without the 30 s sleep.
* `UpdateResponse::from` writes `relays[i]` for every listed relay before
  `update()` rejects more than `MAX_RELAYS`: a write past the array.
* `relay_init` returns an error after the transform was allocated without
  freeing it, and `relay_exit` is not run for a failed init: a leak.
* A Windows thread HANDLE is never closed.

Further disagreements the modules show but no run checks (the project keeps
twelve runs): `Backend!BackendNeverOvercounts` fails because a retried
request carries the same byte deltas as one the backend processed but whose
reply was lost; `RequestCodec!RequestFullyConsumed` fails because
`request_size` counts four bytes (line 355) that nothing writes or reads;
`PlatformSocket!CloseOnlyOpenHandles` fails on PS5, where a failed
`sceNetSocket` leads `socket_destroy` to close the error code; and
`PlatformSocket!ResourcesReleased` fails on Windows for a tagged socket,
whose QoS handle is never closed.

## Fairness

`Spec` has weak fairness on the backend thread only. The thread runs an
ordinary loop and every step it takes (a send, a sleep, a parse) returns; the
receive thread and the signals need not happen at all, so they get no
fairness. `StopLeadsToDone` relies on that: once `should_loop` is false, the
retry loop and the clean-shutdown loop are bounded by their counters and
clocks.

`FairSpec` of `MCPlatform` has weak fairness on the steps of
`next_platform_init` only (`PlatformInit!InitStep`). The calling thread runs
straight-line code and a loop whose every round returns. OS failures
(`QueryAdaptersFails`) and new adapters (`AdapterAdded`) get no fairness:
the OS is not bound to fail, and adapters need not appear. `InitReturns`
therefore holds because the size written back ends the overflow rounds once
the list stops growing, and not because of a forced failure. The mutant that
drops the write-back makes the loop spin for ever.

## Proofs

`BackendProofs.tla` proves, for every value of the constants allowed by
`ConstantsAssumption`:

* `TypeCorrect`: `Spec => []TypeOK`. `TypeOK` is split into four parts
  (flags, thread control, clocks, data), each with a step lemma, so that each
  proof obligation stays small.
* `GraceOnlyAfterAckHolds`: `Spec => []GraceOnlyAfterAck`. The invariant is
  not inductive as stated (a state with `grace` set but `bpc` not yet
  `"done"` is not excluded), so it is strengthened to
  `GraceInv == grace => bpc = "done" /\ shutdown_acked`: grace is set only by
  the step that leaves the clean-shutdown loop, and nothing runs afterwards.
  The key step is the exit of the loop: the grace test passes only when
  `time_since_last_update` is under budget, and then the loop can only have
  been left because the update succeeded.

`KernelModuleProofs.tla` proves, for any CPUs, keys and program bound:

* `TfmLiveWhenUsedHolds`: `Spec => []TfmLiveWhenUsed`, and
  `KernelTypeCorrect`: `Spec => []TypeOK`. Both rest on the inductive
  invariant `KInv`: a loaded program means a live module, a live module has
  its transform, `relay_init` past the allocation has it, an absent module
  has not begun `relay_init`, and a CPU inside `bpf_relay_sha256` runs a
  loaded program. `TfmLiveWhenUsed` alone is not inductive: it says nothing
  about `progs`, and a state with a sha256 call in progress and no program
  loaded would let rmmod free the transform under it.
* `KernelServiceRefinement`: `Spec => KernelRefinesService`. `ServiceInit`
  maps the initial states; `ServiceStep` takes one case per action:
  * `Insmod` and the successful allocation and self-test are stutters;
  * every `InitFails` path and the successful registration are `Load`;
  * `LoadProg`, `UnloadProg` and `Rmmod` are `Attach`, `Detach` and `Unload`;
  * the kfuncs are `HashBegin`, `HashEnd` and `Decrypt`.

  `KInv` supplies the two facts the guards need. `Unload` needs no call in
  progress, which holds because a busy CPU implies a loaded program and
  rmmod requires none. `HashEnd` needs the service up, which holds because a
  loaded program implies a live module. The decrypt step is split on
  whether the tag matches, so that each prover sees one Boolean value of
  `Authentic`.

`BackendRefinementProofs.tla` proves `LifecycleRefinement`:
`Spec => BackendRefinesLifecycle`, i.e. the backend loop implements
`BackendLifecycle` under the mapping above, for every value of the
constants. `MappedInit` shows that the initial states map to the abstract
initial state. `MappedStep` shows that every step is an abstract step or a
stutter:

* the loop head is a stutter, `Drain` or `Stop`;
* a send that makes the backend draining is `Announce`;
* the tail of a normal update is `Update`;
* leaving the clean-shutdown loop is `Exit`;
* everything else is a stutter.

The step needs the invariant `RInv`, checked by TLC before it was proved:

* `shutdown` is never set at the loop head;
* the request in flight carries `shutdown`;
* the backend is told of a drain only by a shutdown request;
* a successful shutdown send has reached the backend;
* the roster fits `MAX_RELAYS`.

Together with `GraceInv` it gives the `grace => announced` guard of `Exit`.

`PlatformProofs.tla` proves, for any sets of thread and socket creates and
any sizes:

* `ThreadMemorySafety`: `Spec => []ThreadMemorySafe` on both platforms;
* `PS5ThreadsReleased`, `PS5SocketsReleased`: the two release properties on
  PS5;
* `WindowsCloseOnlyOpen`: `SocketCloseOnlyOpenHandles` on Windows;
* `AdapterBufferFreed`: `Spec => []InitNoAdapterBufferLeak`;
* `ThreadServiceRefinement`: `Spec => ThreadsRefineService`, the threads
  implement `ThreadService` on both platforms. `ThreadServiceStepOne`
  takes one case per thread action. `AdvanceMapped` turns a step that
  moves one create call from one phase to the next into the service's
  `Advance`. `OthersKeepPhase` shows that the other calls keep their phase.
  `ThreadState` shows that the shim steps and the return happen only in a
  created thread.

They rest on three invariants:

* `ThreadState(t)` lists, for each position of the creator, the position of
  the new thread and the state of both blocks and the handle. For instance,
  the shim is live exactly until the new thread frees it, and the record is
  live until destroy.
* `SocketState(s)` ties the create's position to the record and the handle.
  Only a PS5 create reaches `socket_destroy` with a failed handle, and only
  Windows makes QoS handles. The lemma `PS5NoQos` shows that a PS5 set-up
  list never contains the QoS call, using `ConcatProperties` and
  `ElementOfSeq` of `SequenceTheorems`.
* `BufferInv`: a buffer is live exactly while the scan is pending.

The stated properties alone are not inductive. For example, a freed shim is
safe only because the new thread is past its read, which they do not say.

`EncodingProofs.tla` proves, for every natural number:

* `FromLEOfLE`: `FromLE(LE(n, w)) = n` for w in {1, 4, 8} whenever n fits
  w bytes (`Fits(n, w)`), that is, `read_uint*` of what `write_uint*`
  wrote is the value. The argument is Horner's rule over the digits
  `Shifts(n)`: each digit is its low byte plus 256 times the next one,
  and the digit past the field is zero.
* the lemmas the request proof uses: `LE(n, w)` is a byte sequence of
  length w, and `FitsMono` (a number no larger than one that fits a field
  fits it too).

`RequestCodecProofs.tla` proves, for every value of the constants allowed by
`RequestAssumption` and every cut of the request:

* `RoundTrip`: `Spec => []RequestRoundTrip`. `UpdateRequest::from` accepts
  the whole request `update()` sends and reads back the report, and it
  rejects every request cut short of the bytes `update()` wrote;
* `TypeCorrect`: `Spec => []TypeOK`.

`RequestRoundTrip` says nothing about the state of a parse still in
progress, so it is not inductive. It is strengthened to `IInv`, which says:

* where `from()` reads next in each phase: the offsets `OffKey`, `OffCount`,
  `OffStats + 20 * i`, `OffTotals + 8 * i`, `OffCpu` and `OffMem`, which
  follow the field order of `update()`;
* which fields of `out` already equal the report (`HasVersion` through
  `HasMem`);
* that a failed parse was given fewer than `OffMem + 8` bytes.

TLC checked `IInv` as an invariant of the request run's instance (30,656
states) before it was proved. The proof has two halves:

* Layout. `WrittenLayout` places every field of `Written(src)` at its
  offset (`FieldAt`), with `StatAt` and `TotalAt` doing the same for record
  j of the two write loops. `BufFacts` shows that the first `cut` bytes the
  parser gets agree with `Written(src)` wherever it has bytes, because
  `request_size` is 4 more than what is written. `ReadField`, `ReadU4`,
  `ReadU8` and `ReadU1` turn a read of a placed field into its value, using
  `FromLEOfLE`.
* Steps. There is one lemma per read of `from()` (`VersionStep` to
  `MemStep`), each split into its failure disjunct and its success
  disjunct. A failure leaves the read short, so `cut` is below the field's
  end and thus below `OffMem + 8` (`FailStep`). A success reads the
  report's value and moves to the next offset.

`RequestSize` counts a trailing 4 bytes that nothing writes. That is why a
full request always parses, and why `cut = Len(Written(src))`, which is
below `request_size`, is the first cut that parses.

Only model-checked:

* the liveness properties `StopLeadsToDone` and `InitReturns`: TLAPS does
  not reason about fairness or ENABLED;
* the response codec's invariants `TypeOK`, `DecodeAcceptsExactlyEncodings`
  and `SizeCountsConsumedBytes`. `ResponseCodec` lays out its relay
  entries with `FlattenSeq` and sums `Size` with `FoldLeft`. These
  community folds are recursive functions over `SUBSET (DOMAIN s)` that
  choose the least or greatest index. What they compute for every input
  needs an induction theorem with an operator parameter, and the installed
  provers cannot instantiate one. The request codec avoids them: its write
  loops are `Records`, a plain function of the position, which the
  provers can unfold.

## Not modelled

* Logging, the logger and the wording of messages.
* In `Backend`, the byte layout of the request and response; that is the
  codec modules' subject.
* Platform mutexes (thin wrappers over the OS calls), sending, receiving and
  hostname resolution (pure I/O), time, and `next_platform_term`.
* `randombytes_buf`/`randombytes_uniform` of the PS5 layer. The SDK does
  not call them directly: they are reached through libsodium's
  `randombytes_uniform`. Their one hazard, the mask smeared only up to 8
  bits, needs a violation run of its own, and the run budget is spent on
  the violations above.
* The libsodium SIMD helpers and SHA-256/ChaCha arithmetic: pure data
  transformations at 32- and 64-bit word sizes.

## Plan

1. `RandomBytes`: PS5 `randombytes_buf` chunking and `randombytes_uniform`
   masking with 32-bit arithmetic (TLC only), given a run slot.
2. Platform mutexes and the SDK's use of them, when the code that locks them
   is brought under `src/`.
