----------------------------- MODULE Evaluation -----------------------------
(***************************************************************************)
(* What evaluate() in rl/eval.py promises, whatever its workers argument:  *)
(* it returns, per opponent in the order given, the records of episodes    *)
(* 1 .. NumEpisodes in that order, each played in an environment built for *)
(* that opponent, as the sequential path (_run_sequential_match_set) does; *)
(* or it raises.                                                           *)
(***************************************************************************)
EXTENDS Integers, Sequences

CONSTANTS
  Specs,       (* opponent_specs: a sequence, which may name one twice     *)
  NumEpisodes  (* num_episodes                                             *)

VARIABLE outcome  (* of the call: its status, and what it returned         *)

Opponents == DOMAIN Specs
Episodes  == 1 .. NumEpisodes

(* An episode's record is a function of the opponent the environment was   *)
(* built for and of the episode's number: agent, opponent, decks and seat  *)
(* are seeded from it (_play_one_episode, EvalEnv.reset).                  *)
Record(spec, ep) == [env |-> spec, ep |-> ep]

Sequential == [i \in Opponents |-> [e \in Episodes |-> Record(Specs[i], e)]]

Running == [status |-> "running", results |-> <<>>]
Raised  == [status |-> "raised", results |-> <<>>]
Returned(results) == [status |-> "returned", results |-> results]

Init == outcome = Running

Return == outcome = Running /\ outcome' = Returned(Sequential)
Raise  == outcome = Running /\ outcome' = Raised

Next == Return \/ Raise

Safety == Init /\ [][Next]_outcome

(* evaluate() always comes back.                                           *)
Spec == Safety /\ <>(outcome # Running)
=============================================================================
