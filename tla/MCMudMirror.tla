----------------------------- MODULE MCMudMirror -----------------------------
EXTENDS MudMirror

CONSTANTS c1, c2, c3, c4, A, B, Q

(* Two of the bot's cards share a name; the name of another is a question. *)
MCNameOf == [c \in Cards |-> IF c = c2 THEN B ELSE IF c = c4 THEN Q ELSE A]
MCOwner  == [c \in Cards |-> IF c = c2 THEN 1 ELSE 0]

Lay(p1, p2, p3, p4) ==
  [c \in Cards |-> IF c = c1 THEN p1 ELSE IF c = c2 THEN p2 ELSE IF c = c3 THEN p3 ELSE p4]

MCLayouts ==
  {Lay(<<0, "d", 0>>, <<1, "d", 0>>, <<0, "x", 1>>, <<0, "d", 0>>),
   Lay(<<0, "h", 1>>, <<1, "h", 1>>, <<0, "d", 0>>, <<0, "h", 2>>),
   Lay(<<0, "m", 1>>, <<1, "m", 2>>, <<0, "x", 1>>, <<0, "d", 0>>),
   Lay(<<0, "g", 1>>, <<1, "g", 1>>, <<0, "d", 0>>, <<0, "g", 2>>)}

Says(kinds, hidden, max) == [kinds |-> kinds, hidden |-> hidden, max |-> max]

(* Every pair of kinds, and longer stories of those that depend on one     *)
(* another, over the turns up to our next.                                 *)
MCRepertoires ==
  {Says(DOMAIN Routes \cup {"swap", "flip_summon", "pos_change", "draw"}, TRUE, 2),
   Says({"destroy", "to_hand", "chaining", "to_graveyard", "turn"}, FALSE, 4),
   Says({"to_hand", "discard", "banished", "placed", "turn"}, FALSE, 4),
   Says({"summon", "to_extra_deck", "sp_summon", "turn"}, FALSE, 3),
   Says({"destroy", "to_deck", "sp_summon", "turn"}, FALSE, 3),
   Says({"set", "flip_summon", "pos_change", "zone_switch", "turn"}, TRUE, 3),
   Says({"control", "swap", "destroy", "tribute", "turn"}, FALSE, 3),
   Says({"draw", "to_deck", "xyz_attach", "xyz_detach", "turn"}, FALSE, 3),
   Says({"life", "phase", "remark", "turn", "draw"}, FALSE, 3)}
=============================================================================
