-------------------------- MODULE MCResponseCodec --------------------------
(***************************************************************************)
(* ResponseCodec on a small instance: an array of two relays and replies   *)
(* of up to three, two addresses whose strings differ in length and one    *)
(* string that does not parse.                                             *)
(***************************************************************************)
EXTENDS ResponseCodec

CONSTANTS a1, a2

MCAddrText == [a \in {a1, a2} |-> IF a = a1 THEN <<49>> ELSE <<50, 51>>]

MCBadTexts == {<<120>>}

=============================================================================
