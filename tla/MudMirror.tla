------------------------------ MODULE MudMirror ------------------------------
(***************************************************************************)
(* What the bot knows of a duel on the text server: MUDGameState           *)
(* (mud/game_state.py), a mirror of both players' zones that is kept by    *)
(* reading what happens line by line (_scan_event, mud/text_parser.py) and *)
(* put right at the bot's own turn by asking for everything (_send_resync, *)
(* mud/protocol.py).                                                       *)
(*                                                                         *)
(* The server is external: cards on places, and one action per kind of     *)
(* line.  A line names a card and, most of the time, a spec: the place it  *)
(* leaves, "om1" for the opponent's first monster zone, "g2" for the       *)
(* second card of our graveyard.  A card has no identity in a line, so the *)
(* mirror goes by name and spec, with fallbacks, and these decide when it  *)
(* is exact.  Positions, which nothing here reads, are left out.           *)
(*                                                                         *)
(* Seat 0 is the bot.  A zone is the letter of its specs: h m s g r x,     *)
(* with d for the deck, whose spec the server spells without a number, and *)
(* o for a card under an XYZ monster.                                      *)
(***************************************************************************)
EXTENDS Integers, SequencesExt, FiniteSetsExt

CONSTANTS
  None,
  Cards,        (* the cards of the duel                                   *)
  NameOf,       (* their names: two cards may share one                    *)
  Questions,    (* the names that end in a question mark                   *)
  OwnerOf,      (* the seat whose piles a card goes to                     *)
  Columns,      (* the numbers of a player's zones of one kind             *)
  Layouts,      (* where the cards are when a behaviour starts             *)
  Repertoires,  (* the kinds of line of a behaviour, and how many it has   *)
  StartLP,
  MaxTurns      (* bound: turns that begin                                 *)

Seats == {0, 1}
Grounds == {"m", "s"}
Piles == {"h", "g", "r", "x"}
Listed == Grounds \cup Piles
Names == {NameOf[c] : c \in Cards}
Places == Seats \X (Listed \cup {"d", "o"}) \X (0 .. Cardinality(Cards) + Max(Columns))

ASSUME MudMirrorAssumption ==
  /\ IsFiniteSet(Cards) /\ None \notin Names /\ Questions \subseteq Names
  /\ Columns # {} /\ IsFiniteSet(Columns) /\ Columns \subseteq Nat \ {0}
  /\ OwnerOf \in [Cards -> Seats] /\ Layouts \subseteq [Cards -> Places]
  /\ StartLP \in Nat \ {0} /\ MaxTurns \in Nat

VARIABLES
  (* The server. *)
  at,       (* the place of each card                                      *)
  down,     (* the cards that lie face down                                *)
  slp,      (* life points                                                 *)
  turn,     (* whose turn                                                  *)
  (* The bot. *)
  m,        (* MUDGameState                                                *)
  pending,  (* _resync_pending                                             *)
  (* Bounds and history variables. *)
  may,      (* the repertoire of this behaviour                            *)
  said,     (* lines that count                                            *)
  doubt,    (* zones something ambiguous was said about since the last     *)
            (* answer that shows them                                      *)
  stirred,  (* piles whose numbers have shifted since then                 *)
  tabled,   (* cards of the opponent's side listed by a resync             *)
  quiet     (* cards on the field no line has put there                    *)

server == <<at, down, slp, turn>>
ghosts == <<doubt, stirred, tabled, quiet>>
vars == <<server, m, pending, may, said, ghosts>>

-----------------------------------------------------------------------------
(* Entries and specs.                                                      *)

NoSpec == <<FALSE, "", 0>>
SpecOf(p) == <<p[1] = 1, p[2], p[3]>>
Entry(name, spec) == [name |-> name, spec |-> spec]
NoEntry == Entry(None, NoSpec)

(* _norm_spec.                                                             *)
Norm(spec) == <<spec[2], spec[3]>>

IsField(spec) == spec[2] \in Grounds

(* Mutant: the count goes below zero.                                      *)
LessNegative(n) == n - 1

(* max(0, n - 1).                                                          *)
Less(n) == IF n > 0 THEN n - 1 ELSE 0

NewMirror ==
  [zone   |-> [z \in Seats \X Listed |-> <<>>],
   ohand  |-> 0,
   deck   |-> [s \in Seats |-> 0],
   marked |-> [n \in Names |-> 0],
   lp     |-> [s \in Seats |-> StartLP],
   turn   |-> 0, mine |-> FALSE, phase |-> None]

Put(g, s, z, entry) == [g EXCEPT !.zone[<<s, z>>] = Append(@, entry)]
DeckLess(g, s) == [g EXCEPT !.deck[s] = Less(@)]
Marked(g, name) == [g EXCEPT !.marked[name] = @ + 1]

(* The first entry that passes Test, as the position of its zone in order  *)
(* and its own, or <<>>; and that entry taken out.                         *)
FirstHit(g, order, Test(_)) ==
  LET hits == {h \in UNION {{j} \X (DOMAIN g.zone[order[j]]) : j \in DOMAIN order} :
                 Test(g.zone[order[h[1]]][h[2]])}
  IN  IF hits = {} THEN <<>>
      ELSE CHOOSE h \in hits :
             \A o \in hits : h[1] < o[1] \/ (h[1] = o[1] /\ h[2] <= o[2])

Take(g, order, Test(_)) ==
  LET hit == FirstHit(g, order, Test)
  IN  IF hit = <<>> THEN [g |-> g, found |-> FALSE, card |-> NoEntry]
      ELSE [g     |-> [g EXCEPT !.zone[order[hit[1]]] = RemoveAt(@, hit[2])],
            found |-> TRUE,
            card  |-> g.zone[order[hit[1]]][hit[2]]]

FieldOrder == << <<0, "m">>, <<0, "s">>, <<1, "m">>, <<1, "s">> >>

(* _remove_from_field: by the place, whichever side it is on, or by the    *)
(* name if one of the two has no place.                                    *)
FromField(g, spec, name) ==
  Take(g, FieldOrder, LAMBDA e :
    \/ spec # NoSpec /\ Norm(e.spec) = Norm(spec)
    \/ name # None /\ e.name = name /\ (e.spec = NoSpec \/ spec = NoSpec))

(* _remove_from_zone.                                                      *)
FromZones(g, zones, spec, name) ==
  Take(g, zones, LAMBDA e : e.spec = spec \/ (name # None /\ e.name = name))

(* _remove_from_nonfield.                                                  *)
FromPiles(g, s, spec, name) ==
  FromZones(g, << <<s, "g">>, <<s, "r">>, <<s, "x">> >>, spec, name)

(* _remove_from_hand: no entry of the hand is unnamed, so its fallback is  *)
(* left out.                                                               *)
FromHand(g, name) == Take(g, << <<0, "h">> >>, LAMBDA e : e.name = name)

(* A card of a seat leaves the hand.                                       *)
HandLess(g, s, name) ==
  IF s = 1 THEN [g EXCEPT !.ohand = Less(@)] ELSE FromHand(g, name).g

(* The entry found, else a new one; its place is forgotten or replaced.    *)
At(t, name, spec) == Entry(IF t.found THEN t.card.name ELSE name, spec)

-----------------------------------------------------------------------------
(* Events (text_parser.py): what the expression of a kind of line captures *)
(* of whose card it was, its name, the spec of its place before, and after.*)

Captures ==
  [summon        |-> {"player", "name"},
   sp_summon     |-> {"player", "name"},
   flip_summon   |-> {"player", "name", "spec"},
   set           |-> {"player", "name", "spec"},
   pos_change    |-> {"name", "spec"},
   chaining      |-> {"player", "name", "spec"},
   destroy       |-> {"name", "spec"},
   to_graveyard  |-> {"player", "name", "spec"},
   banished      |-> {"player", "name", "spec"},
   to_hand       |-> {"player", "name", "spec"},
   to_deck       |-> {"player", "name", "spec"},
   to_extra_deck |-> {"player", "name", "spec"},
   from_gy       |-> {"player", "name", "spec", "target"},
   from_banished |-> {"player", "name", "spec", "target"},
   tribute       |-> {"player", "name", "spec"},
   discard       |-> {"player", "name", "spec"},
   control       |-> {"player", "name", "spec", "target"},
   zone_switch   |-> {"player", "name", "spec", "target"},
   swap          |-> {"name", "target"},
   xyz_attach    |-> {"player", "name", "spec"},
   xyz_detach    |-> {"player", "name"}]

(* _scan_event; the line about a card the opponent sets does not name it.  *)
Parsed(kind, opp, name, spec, target) ==
  LET has(f) == f \in Captures[kind]
  IN  [kind   |-> kind,
       opp    |-> opp /\ has("player"),
       name   |-> IF has("name") /\ ~(kind = "set" /\ opp) THEN name ELSE None,
       spec   |-> IF has("spec") THEN spec ELSE NoSpec,
       target |-> IF has("target") THEN target ELSE NoSpec]

-----------------------------------------------------------------------------
(* The handlers of MUDGameState.                                           *)

Seat(e) == IF e.opp THEN 1 ELSE 0

OnSummon(g, e) ==
  Put(HandLess(g, Seat(e), e.name), Seat(e), "m", Entry(e.name, e.spec))

HasName(g, z, name) == \E i \in DOMAIN g.zone[z] : g.zone[z][i].name = name

OnSpSummon(g, e) ==
  LET s      == Seat(e)
      entry  == Entry(e.name, e.spec)
      buried == HasName(g, <<s, "g">>, e.name) \/ HasName(g, <<s, "r">>, e.name)
      hand   == FromHand(g, e.name)
      extra  == IF buried THEN [hand EXCEPT !.found = FALSE]
                ELSE FromZones(hand.g, << <<0, "x">> >>, NoSpec, e.name)
      mine   == IF hand.found \/ extra.found \/ buried THEN extra.g ELSE DeckLess(extra.g, 0)
      theirs == IF buried THEN g ELSE HandLess(g, 1, e.name)
  IN  IF Contains(g.zone[<<s, "m">>], entry) THEN g
      ELSE Put(IF s = 1 THEN theirs ELSE mine, s, "m", entry)

OnFlipSummon(g, e) ==
  LET z == <<Seat(e), "m">>
      i == SelectInSeq(g.zone[z], LAMBDA c : c.spec = e.spec)
  IN  IF i = 0 THEN Put(g, z[1], z[2], Entry(e.name, e.spec))
      ELSE [g EXCEPT !.zone[z][i].name = e.name]

OnSet(g, e) ==
  Put(HandLess(g, Seat(e), e.name), Seat(e), e.spec[2], Entry(e.name, e.spec))

OnPosChange(g, e) ==
  LET hit == FirstHit(g, FieldOrder, LAMBDA c : c.spec = e.spec)
  IN  IF hit = <<>> THEN g
      ELSE [g EXCEPT !.zone[FieldOrder[hit[1]]][hit[2]].name = e.name]

OnChaining(g, e) ==
  IF e.spec[2] = "h" THEN HandLess(g, IF e.spec[1] THEN 1 ELSE 0, e.name)
  ELSE IF e.opp /\ ~(e.spec[1] /\ IsField(e.spec)) THEN HandLess(g, 1, e.name)
  ELSE g

(* _on_tribute; and _on_destroy, whose events do not say whose card it was.*)
OnTribute(g, e) ==
  LET t == FromField(g, e.spec, e.name)
  IN  Marked(Put(t.g, Seat(e), "g", At(t, e.name, NoSpec)), e.name)

OnDestroy(g, e) == OnTribute(g, [e EXCEPT !.opp = e.opp \/ e.spec[1]])


OnDiscard(g, e) ==
  Marked(Put(HandLess(g, Seat(e), e.name), Seat(e), "g", Entry(e.name, NoSpec)), e.name)

(* _on_to_graveyard and _on_banished: a card that a DESTROY or a TRIBUTE   *)
(* has put into the graveyard is not put there again.                      *)
OnLeave(g, e, z) ==
  LET field == FromField(g, e.spec, e.name)
      t == IF field.found THEN field
           ELSE IF e.spec[2] = "h" /\ ~e.spec[1] THEN FromHand(g, e.name)
           ELSE IF e.spec[2] \in {"g", "r", "x"} THEN FromPiles(g, Seat(e), e.spec, e.name)
           ELSE [field EXCEPT !.g = IF e.spec[2] = "h" THEN HandLess(g, 1, e.name)
                                    ELSE IF IsField(e.spec) THEN g
                                    ELSE DeckLess(g, Seat(e))]
  IN  IF ~field.found /\ IsField(e.spec) /\ g.marked[e.name] > 0
      THEN [g EXCEPT !.marked[e.name] = @ - 1]
      ELSE Put(t.g, Seat(e), z, At(t, e.name, NoSpec))

(* A card that is on the field, else in a pile, is taken from there.       *)
Found(g, e) ==
  LET field == FromField(g, e.spec, e.name)
  IN  IF field.found THEN field ELSE FromPiles(g, Seat(e), e.spec, e.name)

OnToHand(g, e) ==
  LET t == Found(g, e)
      h == IF t.found \/ e.spec[2] \in Listed THEN t.g ELSE DeckLess(g, Seat(e))
  IN  IF e.opp THEN [h EXCEPT !.ohand = @ + 1] ELSE Put(h, 0, "h", Entry(e.name, e.spec))

OnToDeck(g, e) ==
  LET t == Found(g, e)
      h == IF t.found \/ e.spec[2] # "h" THEN t.g
           ELSE HandLess(t.g, IF e.spec[1] THEN 1 ELSE 0, e.name)
  IN  [h EXCEPT !.deck[Seat(e)] = @ + 1]

OnToExtraDeck(g, e) ==
  LET t == Found(g, e)
      old == IF t.found THEN t.card ELSE Entry(e.name, e.spec)
  IN  Put(t.g, Seat(e), "x", IF e.opp THEN Entry(None, e.spec) ELSE old)

(* _on_from_gy_to_field and _on_from_banished_to_field.                    *)
OnFromPile(g, e, z) ==
  Put(FromZones(g, << <<Seat(e), z>> >>, e.spec, e.name).g, Seat(e), e.target[2],
      Entry(e.name, e.target))

(* _on_control_change, _on_zone_switch and _on_swap: the seat the card is  *)
(* at afterwards.                                                          *)
OnRelocate(g, e, s) ==
  LET t == FromField(g, e.spec, e.name)
  IN  Put(t.g, s, e.target[2], At(t, e.name, e.target))

OnXyzAttach(g, e) ==
  LET h == FromField(g, e.spec, e.name).g
  IN  IF e.spec = NoSpec THEN HandLess(h, Seat(e), e.name) ELSE h

(* _on_damage, _on_recover and _on_pay_lp.                                 *)
OnLife(g, e) == [g EXCEPT !.lp[Seat(e)] = e.lp]

OnNewTurn(g, e) == [g EXCEPT !.turn = @ + 1, !.mine = ~e.opp]

OnDraw(g, e) ==
  LET h == DeckLess(g, Seat(e)) IN IF e.opp THEN [h EXCEPT !.ohand = @ + 1] ELSE h

(* update.                                                                 *)
Update(g, e) ==
  CASE e.kind = "summon"        -> OnSummon(g, e)
    [] e.kind = "sp_summon"     -> OnSpSummon(g, e)
    [] e.kind = "flip_summon"   -> OnFlipSummon(g, e)
    [] e.kind = "set"           -> OnSet(g, e)
    [] e.kind = "pos_change"    -> OnPosChange(g, e)
    [] e.kind = "chaining"      -> OnChaining(g, e)
    [] e.kind = "destroy"       -> OnDestroy(g, e)
    [] e.kind = "tribute"       -> OnTribute(g, e)
    [] e.kind = "discard"       -> OnDiscard(g, e)
    [] e.kind = "to_graveyard"  -> OnLeave(g, e, "g")
    [] e.kind = "banished"      -> OnLeave(g, e, "r")
    [] e.kind = "to_hand"       -> OnToHand(g, e)
    [] e.kind = "to_deck"       -> OnToDeck(g, e)
    [] e.kind = "to_extra_deck" -> OnToExtraDeck(g, e)
    [] e.kind = "from_gy"       -> OnFromPile(g, e, "g")
    [] e.kind = "from_banished" -> OnFromPile(g, e, "r")
    [] e.kind = "control"       -> OnRelocate(g, e, 1 - Seat(e))
    [] e.kind = "zone_switch"   -> OnRelocate(g, e, Seat(e))
    [] e.kind = "swap"          -> OnRelocate(g, e, IF e.target[1] THEN 1 ELSE 0)
    [] e.kind = "xyz_attach"    -> OnXyzAttach(g, e)
    [] e.kind = "draw"          -> OnDraw(g, e)
    [] e.kind = "life"          -> OnLife(g, e)
    [] e.kind = "turn"          -> OnNewTurn(g, e)
    [] e.kind = "phase"         -> [g EXCEPT !.phase = e.phase]
    [] e.kind = "draw_card"     -> Put(g, 0, "h", Entry(e.name, NoSpec))
    [] OTHER                    -> g

-----------------------------------------------------------------------------
(* The server.                                                             *)

(* The kinds of line that tell of a card that moves: where from, where to. *)
Routes ==
  [summon        |-> {"h"} \X {"m"},
   set           |-> {"h"} \X Grounds,
   chaining      |-> {"h"} \X {"s"},
   sp_summon     |-> {"h", "d", "x", "g", "r"} \X {"m"},
   placed        |-> {"g", "r"} \X {"s"},
   destroy       |-> {"m", "s", "h"} \X {"g"},
   tribute       |-> {"m"} \X {"g"},
   discard       |-> {"h"} \X {"g"},
   to_graveyard  |-> {"m", "s", "h", "d", "x", "r"} \X {"g"},
   banished      |-> {"m", "s", "h", "d", "x", "g"} \X {"r"},
   to_hand       |-> {"m", "s", "g", "r", "d"} \X {"h"},
   to_deck       |-> {"m", "s", "g", "r", "h"} \X {"d"},
   to_extra_deck |-> {"m", "g", "r"} \X {"x"},
   control       |-> {<<"m", "m">>},
   zone_switch   |-> {<<"m", "m">>, <<"s", "s">>},
   xyz_attach    |-> {"m", "h", "g"} \X {"o"},
   xyz_detach    |-> {<<"o", "g">>}]

In(s, z) == {c \in Cards : at[c][1] = s /\ at[c][2] = z}

(* Where a card of a line may arrive: a free zone of the field, or its     *)
(* owner's pile.                                                           *)
Arrivals(kind, c) ==
  LET s == IF kind = "control" THEN 1 - at[c][1] ELSE at[c][1]
      o == OwnerOf[c]
      zones == {r[2] : r \in {r \in Routes[kind] : r[1] = at[c][2]}}
  IN  {q \in {s} \X (zones \cap Grounds) \X Columns : \A d \in Cards : at[d] # q}
      \cup {<<o, z, Cardinality(In(o, z)) + 1>> : z \in zones \cap Piles}
      \cup {<<o, z, 0>> : z \in zones \cap {"d", "o"}}

(* A card goes from p to q: those after it in its pile move up.            *)
MovedTo(c, q) ==
  [d \in Cards |->
     IF d = c THEN q
     ELSE IF at[c][2] \in Piles /\ at[d][1] = at[c][1] /\ at[d][2] = at[c][2]
             /\ at[d][3] > at[c][3]
          THEN <<at[d][1], at[d][2], at[d][3] - 1>>
     ELSE at[d]]

(* What the server says of it.  again: a line about the graveyard follows  *)
(* the one about the reason.                                               *)
Lines(kind, c, q, again) ==
  LET p    == at[c]
      E(k) == Parsed(k, p[1] = 1, NameOf[c], SpecOf(IF k = "set" THEN q ELSE p), SpecOf(q))
      back == IF p[2] = "g" THEN <<E("from_gy")>>
              ELSE IF p[2] = "r" THEN <<E("from_banished")>> ELSE <<>>
  IN  CASE kind = "sp_summon" -> Append(back, E("sp_summon"))
        [] kind = "placed"    -> back
        [] OTHER -> <<E(kind)>> \o IF again THEN <<E("to_graveyard")>> ELSE <<>>

Follows == {"destroy", "tribute", "discard", "xyz_detach"}

-----------------------------------------------------------------------------
(* What may be ambiguous in a line.                                        *)

Zones == Seats \X (Listed \cup {"d"})

(* Cards the mirror may list under the same name.                          *)
Namesakes(c) ==
  {d \in Cards \ {c} : NameOf[d] = NameOf[c] /\ at[d][2] \in Listed
                      /\ <<at[d][1], at[d][2]>> # <<1, "h">>}

(* Cards on the other side of the field in the same column.                *)
Opposite(p) ==
  {d \in Cards : at[d][1] # p[1] /\ at[d][2] = p[2] /\ at[d][3] = p[3] /\ p[2] \in Grounds}

(* What is listed without a name: the opponent's face-down cards and extra *)
(* deck.                                                                   *)
IsBlank(c) == at[c][1] = 1 /\ (c \in down \/ at[c][2] = "x")
Shown(c) == IF IsBlank(c) THEN None ELSE NameOf[c]

(* Zones no line looks a card up in: the decks and the opponent's hand are *)
(* counts, and a card of an extra deck is looked for by a name of its own. *)
Aside == (Seats \X {"d", "x"}) \cup {<<1, "h">>}

(* The line may be about another card of the name, or what it is read with *)
(* is no longer right.                                                     *)
IsAmbiguous(c) == Namesakes(c) # {} \/ ~(doubt \subseteq Aside)

(* The zones that the mirror is wrong about after a line nobody can        *)
(* mistake, for how it handles it.                                         *)
Upset(kind, c, q, again) ==
  LET p    == at[c]
      from == <<p[1], p[2]>>
      to   == <<q[1], q[2]>>
      back == kind = "sp_summon" /\ p[2] \in {"g", "r"}
  IN  {z \in Zones :
       (* A card that comes back is put on the field by both its lines, and*)
       (* taken for one of the deck, or of the opponent's hand, too.       *)
       \/ back /\ z \in {to, IF p[1] = 1 THEN <<1, "h">> ELSE <<0, "d">>}
       (* What the opponent summons is taken for a card of the hand.       *)
       \/ kind = "sp_summon" /\ p[1] = 1 /\ p[2] # "h" /\ z \in {from, <<1, "h">>} /\ ~back
       (* An own extra deck that was returned to loses a card as well.     *)
       \/ kind = "sp_summon" /\ p[1] = 0 /\ <<0, "x">> \in stirred /\ z \in {<<0, "x">>, <<0, "d">>}
       (* A card destroyed in the hand stays listed there, and one told to *)
       (* go to the graveyard once more, from the hand, goes there twice;  *)
       (* a discard from the opponent's hand then counts twice.            *)
       \/ kind = "destroy" /\ p[2] = "h" /\ z = from
       \/ kind \in {"destroy", "discard"} /\ p[2] = "h" /\ again
           /\ z \in {to} \cup ({from} \cap {<<1, "h">>})
       (* A mark nothing has used up swallows the card.                    *)
       \/ kind \in {"to_graveyard", "banished"} /\ c \in quiet
           /\ m.marked[NameOf[c]] > 0 /\ z = to
       (* XYZ material is taken from the field only; a detach is not read, *)
       (* and the graveyard's line takes it from the deck.                 *)
       \/ kind = "xyz_attach" /\ p[2] # "m" /\ z = from
       \/ kind = "xyz_detach" /\ z = IF again THEN <<p[1], "d">> ELSE to
       (* A pile's specs are not renumbered.                               *)
       \/ from \in stirred /\ z \in {from, to}
       (* "om1" and "m1" are one place: the card on ours is taken first.   *)
       \/ Opposite(p) # {} /\ z \in {from, <<1 - p[1], p[2]>>, to}
       (* A card goes to the pile of who had it, not of who owns it.       *)
       \/ p[2] \in Grounds /\ q[2] \notin Grounds /\ p[1] # q[1]
           /\ z \in {to, <<p[1], q[2]>>}
       (* A card listed without a name keeps none, though the line names   *)
       (* it; and a card of ours keeps its name when it changes sides.     *)
       \/ IsBlank(c) /\ kind # "zone_switch" /\ q[2] \in Grounds \cup {"g", "r"} /\ z = to
       \/ kind = "control" /\ c \in down /\ z = to}

Doubted(ambiguous, upset) == IF ambiguous THEN Zones ELSE doubt \cup upset

-----------------------------------------------------------------------------
(* The conversation.                                                       *)

Heard(lines) == m' = FoldLeft(Update, m, lines)

May(kind) == kind \in may.kinds /\ said < may.max /\ said' = said + 1

Move(kind) ==
  /\ May(kind)
  /\ \E c \in Cards : \E q \in Arrivals(kind, c) :
       \E again \in IF kind \in Follows THEN BOOLEAN ELSE {FALSE} :
         LET p == at[c]
             last == p[3] = Cardinality(In(p[1], p[2]))
         IN  /\ kind = "sp_summon" => ~(p[2] \in {"g", "r"} /\ q[1] # OwnerOf[c])
             /\ Heard(Lines(kind, c, q, again))
             /\ at' = MovedTo(c, q)
             /\ down' = IF kind = "set" THEN down \cup {c}
                        ELSE IF kind \in {"control", "zone_switch"} THEN down
                        ELSE down \ {c}
             /\ doubt' = Doubted(IsAmbiguous(c), Upset(kind, c, q, again))
             /\ stirred' = stirred
                  \cup (IF p[2] \in {"g", "r", "x"} /\ ~last THEN {<<p[1], p[2]>>} ELSE {})
                  \cup (IF q[2] = "x" THEN {<<q[1], "x">>} ELSE {})
             /\ tabled' = tabled \ {c}
             /\ quiet' = IF kind = "chaining" THEN quiet \cup {c} ELSE quiet \ {c}
  /\ UNCHANGED <<slp, turn, pending, may>>

(* swap.py: two monsters change sides, a line for each.                    *)
Swap ==
  /\ May("swap")
  /\ \E c \in In(0, "m"), d \in In(1, "m") :
       /\ at' = [at EXCEPT ![c] = at[d], ![d] = at[c]]
       /\ Heard(<<Parsed("swap", FALSE, NameOf[c], SpecOf(at[c]), SpecOf(at[d])),
                 Parsed("swap", TRUE, NameOf[d], SpecOf(at[d]), SpecOf(at[c]))>>)
       /\ doubt' = Doubted(Namesakes(c) \cup Namesakes(d) # {} \/ ~(doubt \subseteq Aside),
                           IF {c, d} \cap down = {} THEN {} ELSE Seats \X {"m"})
       /\ tabled' = tabled \ {c, d}
  /\ UNCHANGED <<down, slp, turn, pending, may, stirred, quiet>>

(* A monster is turned up, or only its position changes.                   *)
Flip ==
  \E kind \in {"flip_summon", "pos_change"}, c \in In(0, "m") \cup In(1, "m") :
    /\ May(kind)
    /\ kind = "flip_summon" => c \in down
    /\ down' = down \ {c}
    /\ Heard(<<Parsed(kind, at[c][1] = 1, NameOf[c], SpecOf(at[c]), NoSpec)>>)
    /\ doubt' = Doubted(~(doubt \subseteq Aside),
                        IF c \in down \cap tabled \/ Opposite(at[c]) # {} THEN Seats \X {"m"}
                        ELSE {})
    /\ UNCHANGED <<at, slp, turn, pending, may, stirred, tabled, quiet>>

Draw ==
  /\ May("draw")
  /\ \E c \in Cards :
       LET s == at[c][1] IN
         /\ at[c][2] = "d"
         /\ at' = MovedTo(c, <<s, "h", Cardinality(In(s, "h")) + 1>>)
         /\ Heard(IF s = 1 THEN <<[kind |-> "draw", opp |-> TRUE]>>
                  ELSE <<[kind |-> "draw", opp |-> FALSE],
                         [kind |-> "draw_card", name |-> NameOf[c]]>>)
  /\ UNCHANGED <<down, slp, turn, pending, may, ghosts>>

(* An activation on the field, and what changes no zone.                   *)
Remark ==
  /\ May("remark")
  /\ \/ \E kind \in {"attack", "equip", "shuffle", "xyz_detach"}, opp \in BOOLEAN :
            Heard(<<[kind |-> kind, opp |-> opp]>>)
     \/ \E c \in {c \in Cards \ down : at[c][2] \in Grounds} :
            Heard(<<Parsed("chaining", at[c][1] = 1, NameOf[c], SpecOf(at[c]), NoSpec)>>)
  /\ UNCHANGED <<server, pending, may, ghosts>>

(* Damage, recovery and costs carry the new life points, a new phase its   *)
(* name.                                                                   *)
Life ==
  /\ May("life")
  /\ \E s \in Seats, n \in 0 .. StartLP :
       /\ n # slp[s] /\ slp' = [slp EXCEPT ![s] = n]
       /\ Heard(<<[kind |-> "life", opp |-> s = 1, lp |-> n]>>)
  /\ UNCHANGED <<at, down, turn, pending, may, ghosts>>

NewPhase ==
  /\ May("phase")
  /\ \E phase \in {"main", "battle"} : Heard(<<[kind |-> "phase", phase |-> phase]>>)
  /\ UNCHANGED <<server, pending, may, ghosts>>

NewTurn ==
  /\ "turn" \in may.kinds /\ m.turn < MaxTurns
  /\ turn' = 1 - turn
  /\ Heard(<<[kind |-> "turn", opp |-> turn' = 1]>>)
  /\ pending' = (pending \/ turn' = 0)
  /\ UNCHANGED <<at, down, slp, may, said, ghosts>>

-----------------------------------------------------------------------------
(* The resync.                                                             *)

(* A zone as the answers list it; the opponent's table has the same specs  *)
(* as ours.                                                                *)
ListOf(z) ==
  LET cards == SetToSortSeq(In(z[1], z[2]), LAMBDA c, d : at[c][3] < at[d][3])
  IN  [i \in DOMAIN cards |->
         Entry(Shown(cards[i]),
               <<z[1] = 1 /\ z[2] \notin Grounds, z[2], at[cards[i]][3]>>)]

(* score, h, tab, tab2, grave, grave2, removed, removed2, extra, extra2:   *)
(* the zones each answers for.                                             *)
Asked ==
  << {<<0, "d">>, <<1, "d">>, <<1, "h">>}, {<<0, "h">>},
     {<<0, "m">>, <<0, "s">>}, {<<1, "m">>, <<1, "s">>},
     {<<0, "g">>}, {<<1, "g">>}, {<<0, "r">>}, {<<1, "r">>}, {<<0, "x">>}, {<<1, "x">>} >>

(* resync_score overwrites what it counts, but for our own hand and the    *)
(* piles; resync_hand, resync_tab, and the rest what they list.            *)
Answered(g, zones) ==
  [g EXCEPT
     !.zone  = [z \in DOMAIN @ |-> IF z \in zones THEN ListOf(z) ELSE @[z]],
     !.ohand = Cardinality(In(1, "h")),
     !.deck  = [s \in Seats |-> Cardinality(In(s, "d"))],
     !.lp    = slp,
     !.mine  = turn = 0]

(* _send_resync: a card in hand whose name ends in a question mark is a    *)
(* prompt to the parser, which is acted on, and ends the resync.           *)
Resync ==
  LET cut   == \E c \in In(0, "h") : NameOf[c] \in Questions
      zones == UNION {Asked[k] : k \in IF cut THEN {1} ELSE DOMAIN Asked}
  IN  /\ pending /\ turn = 0
      /\ pending' = FALSE
      /\ m' = Answered(m, zones)
      /\ doubt' = doubt \ zones /\ stirred' = stirred \ zones
      /\ tabled' = IF cut THEN tabled ELSE In(1, "m") \cup In(1, "s")
      /\ quiet' = IF cut THEN quiet ELSE {}
      /\ UNCHANGED <<server, may, said>>

-----------------------------------------------------------------------------
(* A duel that begins, or a turn of ours after a complete resync.          *)
Init ==
  /\ may \in Repertoires
  /\ at \in Layouts
  /\ down \in SUBSET {c \in Cards : at[c][2] \in Grounds /\ may.hidden}
  /\ slp = [s \in Seats |-> StartLP]
  /\ said = 0 /\ pending = FALSE /\ stirred = {} /\ quiet = {}
  /\ IF \A c \in Cards : at[c][2] \in {"d", "x"}
     THEN turn = 1 /\ m = NewMirror /\ doubt = Seats \X {"d", "x"} /\ tabled = {}
     ELSE /\ turn = 0 /\ m = Answered(NewMirror, Zones) /\ doubt = {}
          /\ tabled = In(1, "m") \cup In(1, "s")

Next ==
  \/ \E kind \in DOMAIN Routes : Move(kind)
  \/ Swap \/ Flip \/ Draw \/ Remark \/ Life \/ NewPhase \/ NewTurn \/ Resync

Spec == Init /\ [][Next]_vars

-----------------------------------------------------------------------------
TypeOK ==
  /\ at \in [Cards -> Places] /\ down \subseteq Cards
  /\ slp \in [Seats -> 0 .. StartLP] /\ turn \in Seats
  /\ DOMAIN m.zone = Seats \X Listed
  /\ \A z \in DOMAIN m.zone : \A i \in DOMAIN m.zone[z] :
       m.zone[z][i].name \in Names \cup {None}
  /\ m.ohand \in Nat /\ m.deck \in [Seats -> Nat] /\ m.marked \in [Names -> Nat]
  /\ m.turn \in Nat /\ m.mine \in BOOLEAN /\ pending \in BOOLEAN
  /\ said \in 0 .. may.max
  /\ doubt \subseteq Zones /\ stirred \subseteq Zones
  /\ tabled \subseteq Cards /\ quiet \subseteq Cards

(* The mirror and the duel have the same cards in a zone.                  *)
Agrees(z) ==
  CASE z[2] = "d"      -> m.deck[z[1]] = Cardinality(In(z[1], "d"))
    [] z = <<1, "h">>  -> m.ohand = Cardinality(In(1, "h"))
    [] OTHER ->
         \A n \in Names \cup {None} :
           Cardinality({i \in DOMAIN m.zone[z] : m.zone[z][i].name = n})
             = Cardinality({c \in In(z[1], z[2]) \ quiet : Shown(c) = n})

(* The agent decides on the mirror.  Every zone in it has the cards of the *)
(* duel, whatever lines have been read and in whatever order, up to the    *)
(* next answer that shows the zone, except that                            *)
(*   - a line about one of two cards of a name leaves every zone open, and *)
(*     so does any line once a zone is wrong that cards are looked up in;  *)
(*   - a line that the mirror mishandles leaves the zones of Upset open: a *)
(*     revived card, a discard followed by its line about the graveyard,   *)
(*     and the others listed there, none of them ambiguous.                *)
(* A resync that answers for a zone repairs it, whatever went wrong before.*)
MirrorIsExact ==
  /\ \A z \in Zones \ doubt : Agrees(z)
  /\ m.lp = slp /\ m.mine = (turn = 0)
=============================================================================
