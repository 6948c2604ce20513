---------------------------- MODULE MCEventStream ----------------------------
EXTENDS EventStream

CONSTANTS c1, c2

MCOwner == [c \in Cards |-> IF c = c1 THEN 0 ELSE 1]

(* A duel from two decks, and a puzzle with a monster on each side.        *)
MCLayouts == {[c \in Cards |-> <<MCOwner[c], z, 0>>] : z \in {"deck", "mzone"}}

Says(kinds, cuts, max) ==
  [kinds |-> kinds \cup {"select_card", "win"}, cuts |-> cuts, max |-> max]

(* What belongs together, and every kind nothing depends on beside one     *)
(* that matters: too long, short by a byte, short by more than what        *)
(* another frame may make up for.                                          *)
MCRepertoires ==
  {Says({"draw", "move", "swap_grave_deck", "start"}, {}, 3),
   Says({"move", "swap", "shuffle_set_card", "set", "pos_change", "attack"}, {}, 2),
   Says({"draw", "move", "summoning"}, {1}, 2),
   Says({"attack", "hint", "new_turn", "spsummoning"}, {}, 3),
   Says({"flipsummoning", "new_turn", "lpupdate"}, {1}, 2),
   Says({"chaining", "chain_solving", "chain_solved", "chain_negated", "chain_disabled",
         "chain_end"}, {}, 4),
   Says({"chaining", "chain_solving", "chain_end"}, {1}, 3),
   Says({"damage", "recover", "lpupdate"}, {1}, 2),
   Says({"pay_lpcost", "new_turn", "new_phase"}, {1}, 3)}
  \cup {Says({k, "retry", "lpupdate", "unknown"}, {-1, 1, 6}, 2) : k \in Kinds \ Told}

MCMisread == {[kind |-> "select_card"], [kind |-> "damage", player |-> 0, amount |-> 1],
              [kind |-> "chain_end"]}
=============================================================================
