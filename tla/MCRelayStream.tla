--------------------------- MODULE MCRelayStream ---------------------------
(* Small instances of RelayStream for TLC.                                 *)
EXTENDS RelayStream, TLC
=============================================================================
