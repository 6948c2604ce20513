---------------------------- MODULE MCYgoBridge ----------------------------
(* Small instances of YgoBridge for TLC: every kind of prompt, and         *)
(* selections with every way to complete.                                  *)
EXTENDS YgoBridge

C(card) == [card |-> card, desc |-> 0]
E(card, desc) == [card |-> card, desc |-> desc]
I(card, o1, o2) == [card |-> card, o1 |-> o1, o2 |-> o2]

Deck == <<"d0", "d1", "d2", "d3", "d4", "d5", "d6", "d7">>

Pick(kind, items, min, max) == [kind |-> kind, items |-> items, min |-> min, max |-> max]
Sum(items, min, max, must, target, atLeast) ==
  [kind |-> "sum", items |-> items, min |-> min, max |-> max,
   must |-> must, target |-> target, atLeast |-> atLeast]

MCQuestions ==
  { (* Two commands of one index; one hidden by the loop filter. *)
    [kind |-> "idle", phases |-> {"to_bp", "to_ep"}, looping |-> {<<5, 0>>},
     lists |-> << <<C("h0")>>, <<>>, <<C("m0")>>, <<C("h0")>>, <<>>,
                  <<E("s0", 1), E("s0", 2)>> >>],
    [kind |-> "battle", phases |-> {"to_ep"}, looping |-> {},
     lists |-> << <<E("m0", 1)>>, <<C("m0"), C("m1")>> >>],
    [kind |-> "chain", cards |-> <<E("s0", 1), E("s1", 1)>>, forced |-> FALSE, looping |-> {}],
    [kind |-> "chain", cards |-> <<E("s0", 1), E("s0", 2)>>, forced |-> TRUE, looping |-> {}],
    [kind |-> "unselect", cards |-> <<C("m0"), C("m1")>>, finishable |-> TRUE],
    (* A chain whose pass MaxActions leaves no room for. *)
    [kind |-> "chain", cards |-> [n \in 1 .. 7 |-> E(Deck[n], n)], forced |-> FALSE,
     looping |-> {<<0, 2>>}],
    [kind |-> "confirm"],
    [kind |-> "option", values |-> <<7, 5>>],
    [kind |-> "number", values |-> <<3, 1>>],
    [kind |-> "position", positions |-> {1, 4, 8}],
    [kind |-> "place", zones |-> <<"m2", "m4", "om1">>],
    [kind |-> "announce", values |-> <<1, 2>>],
    [kind |-> "disfield", zones |-> <<"m2", "s1">>],
    [kind |-> "rps"],
    Pick("counter", <<I("m0", 0, 0), I("m1", 2, 0), I("m2", 3, 0)>>, 1, 2),
    Pick("sort", <<I("h0", 1, 0), I("h1", 1, 0)>>, 2, 2),
    Pick("race", <<I(NoCard, 2, 1), I(NoCard, 16, 4)>>, 1, 1),
    Pick("attrib", <<I(NoCard, 1, 0), I(NoCard, 4, 2), I(NoCard, 8, 3)>>, 2, 2),
    (* An open selection, and one that fills the prompt. *)
    Pick("card", <<I("h0", 1, 0), I("h1", 1, 0), I("m0", 1, 0)>>, 1, 2),
    Pick("card", [n \in 1 .. 8 |-> I(Deck[n], 1, 0)], 1, 2),
    (* One card is worth two. *)
    Pick("tribute", <<I("m0", 1, 0), I("m1", 2, 0), I("m2", 1, 0)>>, 2, 2),
    (* The first card fits no sum. *)
    Sum(<<I("m0", 5, 0), I("m1", 4, 0), I("m2", 4, 2), I("m3", 4, 0)>>, 1, 3, <<>>, 8, FALSE),
    Sum(<<I("m0", 7, 0), I("m1", 3, 0), I("m2", 2, 0), I("m3", 1, 0)>>, 1, 3,
        <<I("h0", 2, 0)>>, 5, FALSE),
    Sum(<<I("m0", 2, 0), I("m1", 3, 5), I("m2", 6, 0)>>, 1, 0, <<>>, 6, TRUE) }

S(at, zone, mine, open, code) ==
  [at |-> at, zone |-> zone, mine |-> mine, open |-> open, code |-> code]

(* An own card, one in the deck, an empty slot on each side, a face-up and *)
(* a set card, and one in hand.                                            *)
MCBoards ==
  { << S("m0", "mzone", TRUE, FALSE, 1), S("m1", "mzone", TRUE, FALSE, 0),
       S("deck", "deck", TRUE, FALSE, 5), S("oh0", "hand", FALSE, FALSE, 2), S("om0", "mzone", FALSE, TRUE, 3),
       S("om1", "mzone", FALSE, FALSE, 0), S("om2", "mzone", FALSE, FALSE, 4) >> }
=============================================================================
