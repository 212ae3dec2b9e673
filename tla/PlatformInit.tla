---------------------------- MODULE PlatformInit ----------------------------
(***************************************************************************)
(* next_platform_init of the SDK's platform layers.  On PS5 it loads the  *)
(* random sysmodule, installs the random implementation and creates the    *)
(* network pool, each failure returning NEXT_ERROR, then asks netctl for   *)
(* the device, which only refines connection_type.  On Windows it starts  *)
(* Winsock and runs get_connection_type: a loop that allocates a buffer of *)
(* buffer_size bytes for GetAdaptersAddresses and, when the call answers   *)
(* ERROR_BUFFER_OVERFLOW with the size it needs, frees it and tries again. *)
(* Sizes are in abstract units; the OS's adapter list, and so the size it  *)
(* needs, may grow between two calls, up to MAX_SIZE.                      *)
(***************************************************************************)
EXTENDS Naturals

CONSTANTS
    PLATFORM,       \* "ps5" or "windows"
    INITIAL_SIZE,   \* the first buffer_size (15000 bytes)
    MAX_SIZE        \* the largest adapter list the OS reports

VARIABLES
    ipc,              \* where next_platform_init is
    buffer_size,      \* get_connection_type's buffer_size
    need,             \* the size the OS's adapter list needs (0: no adapter)
    wifi_up,          \* the returned list holds a connected IEEE 802.11 adapter
    live_buffers,     \* adapter buffers allocated and not freed
    connection_type   \* the file's static connection_type

init_vars == <<ipc, buffer_size, need, wifi_up, live_buffers, connection_type>>

Done == {"ok", "error"}

Init ==
    /\ ipc = "start"
    /\ buffer_size = INITIAL_SIZE
    /\ need \in 0..MAX_SIZE
    /\ wifi_up = FALSE
    /\ live_buffers = 0
    /\ connection_type = "unknown"

\* A call that may fail with NEXT_ERROR, else goes on to the next one.
CallOrFail(from, to) ==
    /\ ipc = from
    /\ ipc' \in {to, "error"}
    /\ UNCHANGED <<buffer_size, need, wifi_up, live_buffers, connection_type>>

\* PS5: sceSysmoduleLoadModule, randombytes_set_implementation, then
\* sceNetPoolCreate; connection_type is set to UNKNOWN after the last.
LoadRandomModule == PLATFORM = "ps5" /\ CallOrFail("start", "random")
SetRandomImplementation == CallOrFail("random", "pool")
CreateNetPool ==
    /\ ipc = "pool"
    /\ \/ ipc' = "netctl" /\ connection_type' = "unknown"
       \/ ipc' = "error" /\ UNCHANGED connection_type
    /\ UNCHANGED <<buffer_size, need, wifi_up, live_buffers>>

\* sceNetCtlInit failing returns NEXT_OK with the type unknown; otherwise
\* sceNetCtlGetInfo(SCE_NET_CTL_INFO_DEVICE) gives wired, wireless, another
\* device or an error, and only the first two set connection_type.
QueryDevice ==
    /\ ipc = "netctl"
    /\ ipc' = "ok"
    /\ connection_type' \in {"unknown", "wired", "wifi"}
    /\ UNCHANGED <<buffer_size, need, wifi_up, live_buffers>>

\* Windows: WSAStartup, then into get_connection_type's loop.
StartWinsock == PLATFORM = "windows" /\ CallOrFail("start", "query")

\* A mutant of the overflow branch that does not free the buffer.
QueryAdaptersNoFree ==
    /\ ipc = "query"
    /\ \/ /\ 0 < need /\ need <= buffer_size
          /\ ipc' = "scan" /\ live_buffers' = live_buffers + 1
          /\ wifi_up' \in BOOLEAN
          /\ UNCHANGED <<buffer_size, connection_type>>
       \/ /\ need > buffer_size
          /\ buffer_size' = need /\ live_buffers' = live_buffers + 1
          /\ UNCHANGED <<ipc, wifi_up, connection_type>>
       \/ /\ need = 0
          /\ ipc' = "ok" /\ connection_type' = "unknown"
          /\ UNCHANGED <<buffer_size, wifi_up, live_buffers>>
    /\ UNCHANGED need

\* A mutant in which the size the OS reports is not written back, so the
\* loop retries with the same buffer_size.
QueryAdaptersStaleSize ==
    /\ ipc = "query"
    /\ \/ /\ 0 < need /\ need <= buffer_size
          /\ ipc' = "scan" /\ live_buffers' = live_buffers + 1
          /\ wifi_up' \in BOOLEAN
          /\ UNCHANGED <<buffer_size, connection_type>>
       \/ /\ need > buffer_size
          /\ UNCHANGED <<ipc, buffer_size, wifi_up, live_buffers, connection_type>>
       \/ /\ need = 0
          /\ ipc' = "ok" /\ connection_type' = "unknown"
          /\ UNCHANGED <<buffer_size, wifi_up, live_buffers>>
    /\ UNCHANGED need

\* One round of the do-while: next_malloc(buffer_size), then
\* GetAdaptersAddresses.  NO_ERROR (the list fits) leaves the loop with the
\* buffer; ERROR_BUFFER_OVERFLOW writes the size needed to buffer_size,
\* frees the buffer and continues; ERROR_NO_DATA, when there is no adapter,
\* frees it and returns UNKNOWN.
QueryAdapters ==
    /\ ipc = "query"
    /\ \/ /\ 0 < need /\ need <= buffer_size
          /\ ipc' = "scan" /\ live_buffers' = live_buffers + 1
          /\ wifi_up' \in BOOLEAN
          /\ UNCHANGED <<buffer_size, connection_type>>
       \/ /\ need > buffer_size
          /\ buffer_size' = need
          /\ UNCHANGED <<ipc, wifi_up, live_buffers, connection_type>>
       \/ /\ need = 0
          /\ ipc' = "ok" /\ connection_type' = "unknown"
          /\ UNCHANGED <<buffer_size, wifi_up, live_buffers>>
    /\ UNCHANGED need

\* Any other code, a failure of the OS, in some round of the loop: the
\* buffer is freed and get_connection_type returns UNKNOWN.  The OS is not
\* bound to fail, so no fairness is assumed for it.
QueryAdaptersFails ==
    /\ ipc = "query"
    /\ ipc' = "ok"
    /\ connection_type' = "unknown"
    /\ UNCHANGED <<buffer_size, need, wifi_up, live_buffers>>

\* After the loop: wired if there is a list, wifi if it holds a connected
\* 802.11 adapter; the buffer is freed and next_platform_init returns OK.
ScanAdapters ==
    /\ ipc = "scan"
    /\ connection_type' = IF wifi_up THEN "wifi" ELSE "wired"
    /\ live_buffers' = live_buffers - 1
    /\ ipc' = "ok"
    /\ UNCHANGED <<buffer_size, need, wifi_up>>

\* An adapter appears while the Windows loop runs (the list only grows
\* here: a shrinking list never makes the loop go round again).
AdapterAdded ==
    /\ ipc = "query"
    /\ need < MAX_SIZE
    /\ need' = need + 1
    /\ UNCHANGED <<ipc, buffer_size, wifi_up, live_buffers, connection_type>>

InitStep ==
    \/ LoadRandomModule \/ SetRandomImplementation \/ CreateNetPool
    \/ QueryDevice \/ StartWinsock \/ QueryAdapters \/ ScanAdapters

Next == InitStep \/ QueryAdaptersFails \/ AdapterAdded

Spec == Init /\ [][Next]_init_vars /\ WF_init_vars(InitStep)

-----------------------------------------------------------------------------

\* get_connection_type frees every buffer it allocates, on the overflow,
\* the error and the success path: none is left once init has returned.
NoAdapterBufferLeak == ipc \in Done => live_buffers = 0

\* next_platform_init returns, however often the adapter list grows while
\* get_connection_type queries it.
InitReturns == <>(ipc \in Done)

=============================================================================
