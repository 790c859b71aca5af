--------------------------- MODULE MCRelayDecode ---------------------------
(* RelayDecode with hashes and account ids of 2 bytes and signatures of 4: *)
(* MIN_RELAY_SIZE scales to 10 and every guard of the decoders still falls *)
(* inside the fields it protects.  Balance is a u128.                      *)
EXTENDS RelayDecode
=============================================================================
