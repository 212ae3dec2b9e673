--------------------------- MODULE MCRequestCodec ---------------------------
(***************************************************************************)
(* RequestCodec on a small instance: ping stats for up to two relays, a   *)
(* two-byte key, three u64 totals (the code has twenty-six, all read the  *)
(* same way) and one address string, longer than the four spare bytes at *)
(* the end of the buffer.                                                  *)
(***************************************************************************)
EXTENDS RequestCodec

MCTexts == {<<49, 46, 50, 58, 51, 48>>}

MCTokens == {<<170, 187>>}

=============================================================================
