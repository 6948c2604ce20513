--------------------------- MODULE MCActorLearner ---------------------------
(* Small instances of ActorLearner for TLC.                                *)
EXTENDS ActorLearner
=============================================================================
