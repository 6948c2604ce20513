----------------------------- MODULE MCDuelEnv -----------------------------
(* Small instances of DuelEnv for TLC.                                     *)
EXTENDS DuelEnv

CONSTANTS k1, k2

MCKeys == {k1, k2}

(* An action that may be declined, one that may not; a fixed number of     *)
(* picks, an open one, and a tribute worth two.                            *)
MCQuestions ==
  {[kind |-> "top", items |-> {k1, Pass}, min |-> 1, max |-> 1],
   [kind |-> "top", items |-> {k1}, min |-> 1, max |-> 1],
   [kind |-> "pick", items |-> {k1, k2}, min |-> 2, max |-> 2],
   [kind |-> "pick", items |-> {k1, k2}, min |-> 1, max |-> 2],
   [kind |-> "pick", items |-> {k1}, min |-> 1, max |-> 2]}
=============================================================================
