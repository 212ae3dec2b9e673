--------------------------- MODULE MCKernelModule ---------------------------
(***************************************************************************)
(* KernelModule with two CPUs, two programs, one key and one message:     *)
(* enough for two kfunc calls in flight while programs come and go.       *)
(***************************************************************************)
EXTENDS KernelModule

=============================================================================
