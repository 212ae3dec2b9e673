------------------------------ MODULE MCBackend ------------------------------
(* Backend instantiated for TLC: two retries, second-granular clocks scaled *)
(* down (a 4 s update budget, a 4 s clean-shutdown budget, sends of 1 or 2 *)
(* seconds), two relays against a roster limit of one, one session, and   *)
(* three timestamps, so that the backend's clock can move backwards.      *)
EXTENDS Backend

MCVersions == {1, 2}
MCTimestamps == {1, 2, 3}

=============================================================================
