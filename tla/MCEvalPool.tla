----------------------------- MODULE MCEvalPool -----------------------------
(* Small instances of EvalPool for TLC.                                    *)
EXTENDS EvalPool

(* One opponent is listed twice, with another in between.                  *)
MCSpecs == <<"greedy", "random", "greedy">>
=============================================================================
