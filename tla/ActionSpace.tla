---------------------------- MODULE ActionSpace ----------------------------
(***************************************************************************)
(* The ActionMapper (env/action_space.py) and the descriptors built from   *)
(* it (env/server/environment.py): what a parsed SELECT message offers     *)
(* after some picks, in order, and what the engine is told when a slot is  *)
(* chosen (env/response_builder.py).                                       *)
(*                                                                         *)
(* A message is a record: its kind, and the lists the kind has.  A card is *)
(* its place -- controller, location, sequence -- under one name; desc,    *)
(* masks, numbers and levels are integers.  Indices are the engine's and   *)
(* start at 0.                                                             *)
(***************************************************************************)
EXTENDS Integers, FiniteSets, SequencesExt

CONSTANT MaxActions  (* MAX_ACTIONS                                        *)

NoCard == "none"

Act(kind, cat, index, card, value) ==
  [kind |-> kind, cat |-> cat, index |-> index, card |-> card, value |-> value]

Commit(kind) == Act(kind, 1, 0, NoCard, 0)   (* finish_pick, pass          *)

(* [F(0), F(1), ...] for the n items of a list.                            *)
Numbered(n, F(_)) == [i \in 1 .. n |-> F(i - 1)]

(* The items of s at the positions in at, in the order of s.               *)
Kept(s, at) ==
  LET kept[n \in 0 .. Len(s)] ==
        IF n = 0 THEN <<>> ELSE IF n \in at THEN Append(kept[n - 1], s[n]) ELSE kept[n - 1]
  IN kept[Len(s)]

-----------------------------------------------------------------------------
(* Prompts one action answers.                                             *)

(* IDLECMD and BATTLECMD: list number c holds the commands of category c;  *)
(* the phases follow, in the order below, with the categories after them.  *)
IdleKinds == [c \in 1 .. 6 |-> IF c = 6 THEN "activate_effect" ELSE "card_command"]
BattleKinds == <<"activate_effect", "attack">>
Phases(k) == IF k = "idle" THEN <<"to_bp", "to_ep">> ELSE <<"to_m2", "to_ep">>

Commands(m, kinds) ==
  LET Of(c) == Numbered(Len(m.lists[c]), LAMBDA i :
                 Act(kinds[c], c - 1, i, m.lists[c][i + 1].card, m.lists[c][i + 1].desc))
      To(n) == Act(Phases(m.kind)[n], Len(kinds) + n - 1, 0, NoCard, 0)
  IN FlattenSeq([c \in 1 .. Len(kinds) |-> Of(c)])
     \o Kept([n \in 1 .. 2 |-> To(n)], {n \in 1 .. 2 : Phases(m.kind)[n] \in m.phases})

(* CHAIN and UNSELECT_CARD: the cards, and pass when it is allowed.        *)
Cards(m, kind, mayPass) ==
  Numbered(Len(m.cards), LAMBDA i : Act(kind, 0, i, m.cards[i + 1].card, m.cards[i + 1].desc))
  \o IF mayPass THEN <<Commit("pass")>> ELSE <<>>

(* EFFECTYN and YESNO; OPTION and ANNOUNCE_NUMBER; POSITION; PLACE.        *)
Confirms == <<Act("confirm", 0, 0, NoCard, 1), Act("confirm", 1, 0, NoCard, 0)>>
Values(m, kind) == Numbered(Len(m.values), LAMBDA i : Act(kind, 0, i, NoCard, m.values[i + 1]))
Masks == <<1, 2, 4, 8>>
Positions(m) == LET of == Kept(Masks, {n \in 1 .. 4 : Masks[n] \in m.positions})
                IN [n \in 1 .. Len(of) |-> Act("choose_position", 0, of[n], NoCard, of[n])]
Zones(m) == Numbered(Len(m.zones), LAMBDA i : Act("place_zone", 0, i, m.zones[i + 1], 0))

(* ROCK_PAPER_SCISSORS; SELECT_COUNTER, which takes what it can from one   *)
(* card; ANNOUNCE_CARD, which has no action for a general filter.          *)
Hands == [c \in 1 .. 3 |-> Act("choose_rps", 0, c, NoCard, c)]
Counters(m) ==
  LET all == Numbered(Len(m.items), LAMBDA i :
               Act("select_counter", 0, i, m.items[i + 1].card,
                   IF m.items[i + 1].o1 < m.max THEN m.items[i + 1].o1 ELSE m.max))
  IN Kept(all, {n \in 1 .. Len(all) : all[n].value > 0})

-----------------------------------------------------------------------------
(* Prompts answered by picks (_extract_multi_step_actions).  An item is    *)
(* [card, o1, o2]: the releases a tribute is worth, the one or two levels  *)
(* of a sum (o2 = 0: none), the mask and the bit of an attribute.          *)

Total(s) == FoldSeq(LAMBDA x, y : x + y, 0, s)
Mins(i) == IF i.o2 # 0 /\ i.o2 < i.o1 THEN i.o2 ELSE i.o1
Maxs(i) == IF i.o2 > i.o1 THEN i.o2 ELSE i.o1

(* _select_sum_exact: one level of each card, to the target exactly.       *)
SumExact(items, target) ==
  /\ items # <<>>
  /\ \E levels \in [1 .. Len(items) -> BOOLEAN] :
       LET level(n) == IF levels[n] THEN items[n].o2 ELSE items[n].o1
       IN /\ \A n \in 1 .. Len(items) : levels[n] => items[n].o2 > 0
          /\ Total([n \in 1 .. Len(items) |-> level(n)]) = target

(* _select_sum_atleast: the target can be reached, and no card is idle:    *)
(* without any one of them the smallest sum falls short.                   *)
SumAtLeast(items, target) ==
  /\ items # <<>>
  /\ Total([n \in 1 .. Len(items) |-> Maxs(items[n])]) >= target
  /\ \A n \in 1 .. Len(items) :
       Total([k \in 1 .. Len(items) |-> Mins(items[k])]) - Mins(items[n]) < target

(* ANNOUNCE_RACE and ANNOUNCE_ATTRIB; CARD, TRIBUTE, SUM and SORT_*.       *)
BitKinds  == {"race", "attrib"}
PickKinds == {"card", "tribute", "sum", "sort"} \cup BitKinds

At(m, picks) == [n \in 1 .. Len(picks) |-> m.items[picks[n] + 1]]

(* select_type 1 has no maximum, and a maximum of 0 is one.                *)
MaxOf(m) == IF m.kind # "sum" THEN m.max
            ELSE IF m.atLeast THEN Len(m.items)
            ELSE IF m.max = 0 THEN IF m.min > 1 THEN m.min ELSE 1 ELSE m.max

SumValid(m, picks) ==
  IF m.atLeast THEN SumAtLeast(m.must \o At(m, picks), m.target)
  ELSE SumExact(m.must \o At(m, picks), m.target)

Released(m, picks) == Total([n \in 1 .. Len(picks) |-> m.items[picks[n] + 1].o1])

Completes(m, picks) ==
  CASE m.kind = "card"    -> Len(picks) >= m.max
    [] m.kind = "tribute" -> Released(m, picks) >= m.min /\ Len(picks) >= m.max
    [] m.kind = "sum"     -> Len(picks) \in m.min .. MaxOf(m) /\ SumValid(m, picks)
    [] m.kind \in BitKinds -> Len(picks) >= m.max
    [] m.kind = "sort"    -> Len(picks) >= Len(m.items)

CanFinish(m, picks) ==
  CASE m.kind = "card"    -> m.min < m.max /\ Len(picks) >= m.min
    [] m.kind = "tribute" -> Released(m, picks) >= m.min
    [] m.kind = "sum"     -> m.min <= Len(picks) /\ Len(picks) < MaxOf(m) /\ SumValid(m, picks)
    [] OTHER              -> FALSE

(* Mutant: any pick will do.                                               *)
ReachableAlways(m, picks) == TRUE

(* Some completion contains these picks (_reachable, for a sum).           *)
Reachable(m, picks) ==
  \/ m.kind # "sum"
  \/ Completes(m, picks)
  \/ \E more \in SUBSET ((0 .. Len(m.items) - 1) \ ToSet(picks)) :
       more # {} /\ Completes(m, picks \o SetToSeq(more))

(* What is left to pick, up to MaxActions, and then finish_pick, which is  *)
(* not reached when the list is full.                                      *)
Picks(m, picks) ==
  LET kind    == IF m.kind \in BitKinds THEN "pick_bit" ELSE "pick_card"
      item(i) == m.items[i + 1]
      index(i) == IF m.kind \in BitKinds THEN item(i).o2 ELSE i
      all     == Numbered(Len(m.items), LAMBDA i :
                   Act(kind, 0, index(i), item(i).card, item(i).o1))
      open    == Kept(all, {n \in 1 .. Len(all) :
                              \E i \in {all[n].index} :
                                i \notin ToSet(picks) /\ Reachable(m, Append(picks, i))})
  IN IF Len(open) >= MaxActions THEN SubSeq(open, 1, MaxActions)
     ELSE open \o IF CanFinish(m, picks) THEN <<Commit("finish_pick")>> ELSE <<>>

-----------------------------------------------------------------------------
Extracted(m, picks) ==
  CASE m.kind = "idle"     -> Commands(m, IdleKinds)
    [] m.kind = "battle"   -> Commands(m, BattleKinds)
    [] m.kind = "chain"    -> Cards(m, "activate_effect", ~m.forced)
    [] m.kind = "unselect" -> Cards(m, "pick_card", m.finishable)
    [] m.kind = "confirm"  -> Confirms
    [] m.kind = "option"   -> Values(m, "choose_option")
    [] m.kind = "number"   -> Values(m, "announce_number")
    [] m.kind = "position" -> Positions(m)
    [] m.kind = "announce" -> Values(m, "announce_card")
    [] m.kind \in {"place", "disfield"} -> Zones(m)
    [] m.kind = "rps"      -> Hands
    [] m.kind = "counter"  -> Counters(m)
    [] OTHER               -> Picks(m, picks)

(* update, then _apply_loop_filter, which hides commands of a top prompt   *)
(* that loop; the descriptors have the same length and order.              *)
Offered(m, picks) ==
  LET all == Extracted(m, picks)
  IN IF m.kind \in {"idle", "battle", "chain"}
     THEN Kept(all, {n \in 1 .. Len(all) :
                       n <= MaxActions /\ <<all[n].cat, all[n].index>> \notin m.looping})
     ELSE SubSeq(all, 1, IF Len(all) > MaxActions THEN MaxActions ELSE Len(all))

(* The picks made once slot a is chosen; action_to_response has an answer  *)
(* unless they do not complete the prompt.                                 *)
PicksAfter(m, picks, a) ==
  IF m.kind \in PickKinds /\ a.kind # "finish_pick" THEN Append(picks, a.index) ELSE picks

Answers(m, picks, a) ==
  m.kind \in PickKinds /\ a.kind # "finish_pick" => Completes(m, PicksAfter(m, picks, a))
=============================================================================
