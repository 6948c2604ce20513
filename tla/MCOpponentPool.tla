--------------------------- MODULE MCOpponentPool ---------------------------
(* Small instances of OpponentPool for TLC.                                *)
EXTENDS OpponentPool
=============================================================================
