----------------------------- MODULE EventStream -----------------------------
(***************************************************************************)
(* What the program knows of a duel without asking the engine: GameState   *)
(* (env/game_state.py), updated message by message while                   *)
(* process_until_choice (env/duel.py) reads; the FieldTracker              *)
(* (env/event_logger.py), which names the cards of messages that carry only*)
(* places; and the EventHistoryBuffer (env/event_buffer.py) the            *)
(* observation shows.  The last two are fed once per chunk, after the      *)
(* GameState has seen all of it (_capture_frame).                          *)
(*                                                                         *)
(* The engine is external: cards on places, life points, a turn, a chain;  *)
(* an action of it says one message.  It runs in rounds (OCG_DuelProcess), *)
(* each of which leaves one buffer of frames (module Frames).  A behaviour *)
(* draws its messages from one repertoire, so that every pair of messages  *)
(* that matter to one another meets, without the product of them all.      *)
(*                                                                         *)
(* A place is a seat, a zone and, in a zone of the field, a sequence; the  *)
(* tracker's entries for the other zones are left out, as no lookup is     *)
(* made there.  Positions, which travel with the codes, are left out too.  *)
(***************************************************************************)
EXTENDS Frames, SequencesExt, FiniteSetsExt

CONSTANTS
  None,
  Cards,        (* the cards of the duel                                   *)
  FieldSeqs,    (* the sequences of a field zone                           *)
  Layouts,      (* what reset() may lay: functions from Cards to places    *)
  Owner,        (* the seat a card goes back to                            *)
  Repertoires,  (* the messages of a behaviour: their kinds, the bytes a   *)
                (* frame of theirs may lack (negative for more), and how   *)
                (* many of them a duel has, prompts apart                  *)
  StartLP,      (* starting life points                                    *)
  MaxHistory,   (* MAX_EVENT_HISTORY                                       *)
  MaxSkews,     (* bound: frames of a duel with a cut                      *)
  MaxAgain,     (* bound: messages of a duel but the first                 *)
  MaxDuels      (* bound: duels                                            *)

Seats == {0, 1}
Piles == {"deck", "hand", "grave", "overlay"}
Field == Seats \X {"mzone"} \X FieldSeqs
Places == Field \cup (Seats \X Piles \X {0})

(* The zones GameState counts: loc_to_counter.  Cards under another card   *)
(* are in none of them.                                                    *)
Counted == {"deck", "hand", "grave", "mzone"}

Summons == {"summoning", "spsummoning", "flipsummoning", "set"}

(* The messages something here depends on.                                 *)
Told == Summons \cup {"draw", "move", "swap", "shuffle_set_card", "swap_grave_deck",
                      "pos_change", "attack", "hint", "damage", "pay_lpcost", "recover",
                      "lpupdate", "new_turn", "new_phase", "chaining", "chain_solving",
                      "chain_solved", "chain_negated", "chain_disabled", "chain_end", "start"}

(* A parsed message, with what is used of it.                              *)
Message ==
  [kind : (Kinds \ Told) \cup {"swap", "shuffle_set_card", "swap_grave_deck", "chain_end"}]
  \cup [kind : {"draw", "new_turn"}, player : Seats]
  \cup [kind : {"new_phase"}, phase : {"main", "battle"}]
  \cup [kind : {"damage", "pay_lpcost", "recover"}, player : Seats, amount : Nat]
  \cup [kind : {"lpupdate"}, player : Seats, lp : Nat]
  \cup [kind : {"move"}, card : Cards, from : Places, to : Places]
  \cup [kind : Summons \cup {"pos_change", "attack"}, card : Cards, place : Field]
  \cup [kind : {"hint", "chaining"}, card : Cards]
  \cup [kind : {"chain_solving", "chain_solved", "chain_negated", "chain_disabled"}, link : Nat]
  \cup [kind : {"start"}, lp : Nat, deck : [Seats -> Nat]]

ASSUME EventStreamAssumption ==
  /\ IsFiniteSet(Cards) /\ None \notin Cards \cup {"blank", "wrong"} /\ FieldSeqs # {}
  /\ Layouts \subseteq [Cards -> Places]
  /\ \A l \in Layouts, c, d \in Cards : l[c] = l[d] /\ l[c] \in Field => c = d
  /\ Misread \subseteq Message
  /\ Owner \in [Cards -> Seats]
  /\ \A r \in Repertoires :
       r.kinds \subseteq Kinds /\ r.cuts \subseteq Int \ {0} /\ r.max \in Nat
  /\ StartLP \in Nat /\ MaxHistory \in Nat \ {0}
  /\ MaxSkews \in Nat /\ MaxAgain \in Nat /\ MaxDuels \in Nat

VARIABLES
  (* The engine. *)
  at,       (* the place of each card                                      *)
  elp,      (* life points                                                 *)
  eturn,    (* turn number, whose turn, phase                              *)
  echain,   (* the chain: status of each link                              *)
  buf,      (* frames of this round                                        *)
  (* The Duel. *)
  gs,       (* GameState                                                   *)
  chunk,    (* info_msgs                                                   *)
  pc,       (* "engine", at a "choice", or "over"                          *)
  (* The environment. *)
  tracker,  (* FieldTracker._field                                         *)
  history,  (* EventHistoryBuffer._buf                                     *)
  (* Bounds and history variables. *)
  may,      (* the repertoire of this behaviour                            *)
  said,     (* messages of this duel, prompts apart                        *)
  skews,    (* frames with a cut                                           *)
  duels,
  told,     (* the last MaxHistory events the engine told, with the card   *)
            (* meant, the turn it was, and whether the tracker could know  *)
  drift,    (* why the tracker may be wrong about a place: "blank", it has *)
            (* not heard of the card; "wrong", it names another one        *)
  swapped,  (* seats whose deck and grave have been swapped                *)
  hurt      (* parts of the mirror a lost or garbled frame has touched     *)

engine == <<at, elp, eturn, echain>>
mirror == <<gs, chunk, tracker, history>>
ghosts == <<told, drift, swapped>>
vars   == <<engine, buf, mirror, pc, may, said, skews, duels, ghosts, hurt>>

On(s, z)  == {c \in Cards : at[c][1] = s /\ at[c][2] = z}
Holder(p) == IF \E c \in Cards : at[c] = p THEN CHOOSE c \in Cards : at[c] = p ELSE None

ZeroCounts == [s \in Seats |-> [z \in Counted |-> 0]]
EmptyField == [p \in Field |-> None]

(* Mutant: nothing stops at zero.                                          *)
MonusNegative(a, b) == a - b

(* max(0, a - b)                                                           *)
Monus(a, b) == IF a > b THEN a - b ELSE 0

-----------------------------------------------------------------------------
(* GameState.                                                              *)

(* Mutant: the card is counted where it goes, not taken from where it was. *)
MovedNoDecrement(count, m) ==
  [s \in Seats |-> [z \in Counted |->
     count[s][z] + IF m.to[1] = s /\ m.to[2] = z THEN 1 ELSE 0]]

(* _update_zone_counts, one location after the other.                      *)
Moved(count, m) ==
  [s \in Seats |-> [z \in Counted |->
     (IF m.from[1] = s /\ m.from[2] = z THEN Monus(count[s][z], 1) ELSE count[s][z])
     + IF m.to[1] = s /\ m.to[2] = z THEN 1 ELSE 0]]

(* _set_link_status: negated and disabled are final, a link that is not    *)
(* there is ignored.                                                       *)
LinkSet(chain, n, status) ==
  IF n \in DOMAIN chain /\ chain[n] \notin {"negated", "disabled"}
  THEN [chain EXCEPT ![n] = status] ELSE chain

(* GameState.update.                                                       *)
Updated(g, m) ==
  CASE m.kind = "start" -> [g EXCEPT !.lp = [s \in Seats |-> m.lp],
                                     !.count = [ZeroCounts EXCEPT ![0]["deck"] = m.deck[0],
                                                                  ![1]["deck"] = m.deck[1]]]
    [] m.kind = "new_turn"  -> [g EXCEPT !.player = m.player, !.turn = @ + 1]
    [] m.kind = "new_phase" -> [g EXCEPT !.phase = m.phase]
    [] m.kind \in {"damage", "pay_lpcost"} -> [g EXCEPT !.lp[m.player] = Monus(@, m.amount)]
    [] m.kind = "recover"  -> [g EXCEPT !.lp[m.player] = @ + m.amount]
    [] m.kind = "lpupdate" -> [g EXCEPT !.lp[m.player] = m.lp]
    [] m.kind = "draw"     -> [g EXCEPT !.count[m.player]["hand"] = @ + 1,
                                        !.count[m.player]["deck"] = Monus(@, 1)]
    [] m.kind = "win"      -> [g EXCEPT !.finished = TRUE]
    [] m.kind = "chaining" -> [g EXCEPT !.chain = Append(@, "building")]
    [] m.kind = "chain_solving"  -> [g EXCEPT !.chain = LinkSet(@, m.link, "solving")]
    [] m.kind = "chain_solved"   -> [g EXCEPT !.chain = LinkSet(@, m.link, "solved")]
    [] m.kind = "chain_negated"  -> [g EXCEPT !.chain = LinkSet(@, m.link, "negated")]
    [] m.kind = "chain_disabled" -> [g EXCEPT !.chain = LinkSet(@, m.link, "disabled")]
    [] m.kind = "chain_end" -> [g EXCEPT !.chain = <<>>]
    [] m.kind = "move"      -> [g EXCEPT !.count = Moved(@, m)]
    [] OTHER -> g

(* What process_until_choice makes of one buffer: every message up to the  *)
(* first that ends the call updates the GameState, the ones before it join *)
(* info_msgs, the ones after it are dropped.                               *)
Ends(m) == m.kind \in {"win", "retry"} \cup Selects

Heard(msgs) ==
  IF \E i \in DOMAIN msgs : Ends(msgs[i])
  THEN SubSeq(msgs, 1, CHOOSE i \in DOMAIN msgs :
                         Ends(msgs[i]) /\ \A j \in 1 .. i - 1 : ~Ends(msgs[j]))
  ELSE msgs

-----------------------------------------------------------------------------
(* FieldTracker and EventHistoryBuffer.                                    *)

(* Mutant: the place a card has left keeps its name.                       *)
TrackedNoPop(t, m) ==
  CASE m.kind \in {"summoning", "spsummoning", "flipsummoning", "set"}
         -> [t EXCEPT ![m.place] = m.card]
    [] m.kind = "move" -> [p \in Field |-> IF p = m.to THEN m.card ELSE t[p]]
    [] OTHER -> t

(* FieldTracker.update: a POS_CHANGE names a card only where none is known.*)
Tracked(t, m) ==
  CASE m.kind \in {"summoning", "spsummoning", "flipsummoning", "set"}
         -> [t EXCEPT ![m.place] = m.card]
    [] m.kind = "move" -> [p \in Field |-> IF p = m.from THEN None
                                           ELSE IF p = m.to THEN m.card ELSE t[p]]
    [] m.kind = "pos_change" -> [t EXCEPT ![m.place] = IF @ = None THEN m.card ELSE @]
    [] OTHER -> t

Worthy(m) == m.kind \in Summons \cup {"chaining", "attack", "hint"}

(* Mutant: a full history refuses the newest event.                        *)
NewestRefuses(s) == IF Len(s) > MaxHistory THEN Front(s) ELSE s

(* deque(maxlen=MAX_EVENT_HISTORY)                                         *)
Newest(s) == IF Len(s) > MaxHistory THEN Tail(s) ELSE s

(* append_from_enriched: an event is stamped with the turn its chunk ended *)
(* in.                                                                     *)
Stamp(h, m, card, g) ==
  IF Worthy(m) THEN Newest(Append(h, [kind |-> m.kind, turn |-> g.turn, card |-> card])) ELSE h

(* _capture_frame: enrich_messages moves the tracker over the message      *)
(* before it names the attacker.                                           *)
Captured(t, h, msgs, g) ==
  FoldLeft(LAMBDA a, m :
             LET now == Tracked(a.tracker, m) IN
             [tracker |-> now,
              history |-> Stamp(a.history, m,
                                IF m.kind = "attack" THEN now[m.place]
                                ELSE IF Worthy(m) THEN m.card ELSE None, g)],
           [tracker |-> t, history |-> h], msgs)

-----------------------------------------------------------------------------
LpOf(s) == IF s = 0 THEN "lp0" ELSE "lp1"

(* What a frame touches of the mirror, and what it puts right.             *)
Touches(m) ==
  (CASE m.kind \in {"damage", "pay_lpcost", "recover", "lpupdate"} -> {LpOf(m.player)}
     [] m.kind = "start"     -> {"lp0", "lp1", "counts"}
     [] m.kind = "draw"      -> {"counts"}
     [] m.kind = "move"      -> {"counts", "field"}
     [] m.kind = "new_turn"  -> {"turn", "player"}
     [] m.kind = "new_phase" -> {"phase"}
     [] m.kind \in {"chaining", "chain_solving", "chain_solved", "chain_negated",
                    "chain_disabled", "chain_end"} -> {"chain"}
     [] m.kind \in Summons \cup {"pos_change"} -> {"field"}
     [] OTHER -> {})
  \cup {h \in {"history"} : Worthy(m)}

Mends(m) == CASE m.kind = "lpupdate"  -> {LpOf(m.player)}
              [] m.kind = "start"     -> {"lp0", "lp1"}
              [] m.kind = "new_turn"  -> {"player"}
              [] m.kind = "new_phase" -> {"phase"}
              [] m.kind = "chain_end" -> {"chain"}
              [] OTHER -> {}

Everything == {"lp0", "lp1", "counts", "field", "turn", "player", "phase",
               "chain", "history"}

(* A frame short at the end of its buffer costs what it touches; one short *)
(* before it, the whole mirror.                                            *)
HurtBy(b) ==
  IF \E i \in DOMAIN b : Overreads(b, i) THEN Everything
  ELSE FoldLeft(LAMBDA h, i : IF Raises(b, i) THEN h \cup Touches(b[i].msg)
                                              ELSE h \ Mends(b[i].msg),
                hurt, [i \in DOMAIN b |-> i])

-----------------------------------------------------------------------------
(* The engine says m, in a frame that may lack bytes or have some to spare.*)
Say(m) ==
  /\ pc = "engine" /\ m.kind \in may.kinds
  /\ said' = said + IF m.kind \in Selects THEN 0 ELSE 1
  /\ said' <= IF duels = 1 THEN may.max ELSE MaxAgain
  /\ ~\E i \in DOMAIN buf : Ends(buf[i].msg)
  /\ \E cut \in {0} \cup {c \in may.cuts : skews < MaxSkews /\ m.kind # "unknown"
                                         /\ c <= Parser(m.kind)} :
       /\ buf' = Append(buf, [msg |-> m, cut |-> cut])
       /\ skews' = skews + IF cut = 0 THEN 0 ELSE 1
  /\ told' = IF ~Worthy(m) THEN told
             ELSE LET s == Append(told, [kind |-> m.kind, turn |-> eturn.n,
                                         card |-> IF m.kind = "attack" THEN Holder(m.place)
                                                                       ELSE m.card,
                                         sure |-> m.kind # "attack" \/ drift[m.place] = None])
                  IN IF Len(s) > MaxHistory THEN Tail(s) ELSE s
  /\ UNCHANGED <<mirror, pc, may, duels, hurt>>

Draw == \E s \in Seats : \E c \in On(s, "deck") :
  /\ at' = [at EXCEPT ![c] = <<s, "hand", 0>>]
  /\ Say([kind |-> "draw", player |-> s])
  /\ UNCHANGED <<elp, eturn, echain, drift, swapped>>

(* Every change of place but a draw and the swaps below: a summon, a card  *)
(* sent or returned, one attached, control that changes.                   *)
Move == \E c \in Cards, p \in Places :
  /\ p # at[c] /\ IF p \in Field THEN Holder(p) = None ELSE p[1] = Owner[c]
  /\ at' = [at EXCEPT ![c] = p]
  /\ drift' = [q \in Field |-> IF q \in {p, at[c]} THEN None ELSE drift[q]]
  /\ Say([kind |-> "move", card |-> c, from |-> at[c], to |-> p])
  /\ UNCHANGED <<elp, eturn, echain, swapped>>

(* MSG_SWAP: two monsters change sides.  No handler looks at it.           *)
Swap == \E c, d \in Cards :
  /\ at[c] \in Field /\ at[d] \in Field /\ at[c][1] = 0 /\ at[d][1] = 1
  /\ at' = [at EXCEPT ![c] = at[d], ![d] = at[c]]
  /\ drift' = [q \in Field |-> IF q \in {at[c], at[d]} /\ drift[q] # "blank"
                               THEN "wrong" ELSE drift[q]]
  /\ Say([kind |-> "swap"])
  /\ UNCHANGED <<elp, eturn, echain, swapped>>

(* MSG_SHUFFLE_SET_CARD: a seat's face-down cards trade places.            *)
ShuffleSet == \E c, d \in Cards :
  /\ c # d /\ at[c] \in Field /\ at[d] \in Field /\ at[c][1] = at[d][1]
  /\ at' = [at EXCEPT ![c] = at[d], ![d] = at[c]]
  /\ drift' = [q \in Field |-> IF q \in {at[c], at[d]} /\ drift[q] # "blank"
                               THEN "wrong" ELSE drift[q]]
  /\ Say([kind |-> "shuffle_set_card"])
  /\ UNCHANGED <<elp, eturn, echain, swapped>>

(* MSG_SWAP_GRAVE_DECK, parsed as a message with nothing in it.            *)
SwapGraveDeck == \E s \in Seats :
  /\ at' = [c \in Cards |-> CASE at[c] = <<s, "deck", 0>>  -> <<s, "grave", 0>>
                              [] at[c] = <<s, "grave", 0>> -> <<s, "deck", 0>>
                              [] OTHER -> at[c]]
  /\ swapped' = swapped \cup {s}
  /\ Say([kind |-> "swap_grave_deck"])
  /\ UNCHANGED <<elp, eturn, echain, drift>>

(* Messages about the card on a place.                                     *)
Reveal == \E c \in Cards, k \in Summons \cup {"pos_change", "attack"} :
  /\ at[c] \in Field
  /\ drift' = [drift EXCEPT ![at[c]] =
                 IF k \in Summons \/ (k = "pos_change" /\ @ = "blank") THEN None ELSE @]
  /\ Say([kind |-> k, card |-> c, place |-> at[c]])
  /\ UNCHANGED <<engine, swapped>>

(* A card, a number or a type is declared.                                 *)
Declare == \E c \in Cards :
  /\ Say([kind |-> "hint", card |-> c])
  /\ UNCHANGED <<engine, drift, swapped>>

LifePoints == \E s \in Seats, n \in 1 .. StartLP :
  \/ /\ elp' = [elp EXCEPT ![s] = Monus(@, n)]
     /\ \E k \in {"damage", "pay_lpcost"} : Say([kind |-> k, player |-> s, amount |-> n])
     /\ UNCHANGED <<at, eturn, echain, drift, swapped>>
  \/ /\ elp[s] + n <= StartLP
     /\ elp' = [elp EXCEPT ![s] = @ + n]
     /\ Say([kind |-> "recover", player |-> s, amount |-> n])
     /\ UNCHANGED <<at, eturn, echain, drift, swapped>>
  \/ /\ elp' = [elp EXCEPT ![s] = n]
     /\ Say([kind |-> "lpupdate", player |-> s, lp |-> n])
     /\ UNCHANGED <<at, eturn, echain, drift, swapped>>

NewTurn ==
  /\ eturn' = [eturn EXCEPT !.n = @ + 1, !.player = 1 - @]
  /\ Say([kind |-> "new_turn", player |-> 1 - eturn.player])
  /\ UNCHANGED <<at, elp, echain, drift, swapped>>

NewPhase == \E ph \in {"main", "battle"} :
  /\ eturn' = [eturn EXCEPT !.phase = ph]
  /\ Say([kind |-> "new_phase", phase |-> ph])
  /\ UNCHANGED <<at, elp, echain, drift, swapped>>

(* A chain is built, each link may be negated or have its effect disabled  *)
(* at any time, and it resolves from the last link down.                   *)
Chaining == \E c \in Cards :
  /\ \A i \in DOMAIN echain : echain[i] \in {"building", "negated", "disabled"}
  /\ echain' = Append(echain, "building")
  /\ Say([kind |-> "chaining", card |-> c])
  /\ UNCHANGED <<at, elp, eturn, drift, swapped>>

(* The message each status is told with.                                   *)
ChainMessage ==
  [solving |-> "chain_solving", solved |-> "chain_solved",
   negated |-> "chain_negated", disabled |-> "chain_disabled"]

Resolve == \E i \in DOMAIN echain, k \in {"solving", "solved", "negated", "disabled"} :
  /\ k = "solving" => \A j \in i + 1 .. Len(echain) : echain[j] # "building"
  /\ k = "solved" => echain[i] # "building"
  /\ k \in {"negated", "disabled"} => echain[i] # "solved"
  /\ echain' = LinkSet(echain, i, k)
  /\ Say([kind |-> ChainMessage[k], link |-> i])
  /\ UNCHANGED <<at, elp, eturn, drift, swapped>>

ChainEnd ==
  /\ echain # <<>>
  /\ echain' = <<>>
  /\ Say([kind |-> "chain_end"])
  /\ UNCHANGED <<at, elp, eturn, drift, swapped>>

(* MSG_START, which a core may send first: the counts of a duel in which   *)
(* every card is still in its deck.                                        *)
Start ==
  /\ said = 0 /\ \A c \in Cards : at[c][2] = "deck"
  /\ Say([kind |-> "start", lp |-> StartLP,
          deck |-> [s \in Seats |-> Cardinality(On(s, "deck"))]])
  /\ UNCHANGED <<engine, drift, swapped>>

(* Everything else it may say: prompts, the end, a rejected response, and  *)
(* messages nothing here depends on.                                       *)
Remark == \E k \in may.kinds \ Told :
  /\ Say([kind |-> k])
  /\ UNCHANGED <<engine, drift, swapped>>

EngineSays == Draw \/ Move \/ Swap \/ ShuffleSet \/ SwapGraveDeck \/ Reveal \/ Declare
              \/ LifePoints \/ NewTurn \/ NewPhase \/ Chaining \/ Resolve \/ ChainEnd
              \/ Start \/ Remark

-----------------------------------------------------------------------------
(* One turn of the loop in process_until_choice, for a round that ends     *)
(* with the given status, and the _capture_frame its end brings.  The      *)
(* engine waits only after a prompt or a rejected response.                *)
Round(status) ==
  /\ pc = "engine"
  /\ status = "awaiting" <=> \E i \in DOMAIN buf : buf[i].msg.kind \in Selects \cup {"retry"}
  /\ status = "continue" => buf # <<>> /\ ~\E i \in DOMAIN buf : buf[i].msg.kind = "win"
  /\ \E msgs \in Decodings(buf) :
       LET heard  == Heard(msgs)
           stops  == heard # <<>> /\ Ends(heard[Len(heard)])
           infos  == chunk \o (IF stops THEN Front(heard) ELSE heard)
           g      == FoldLeft(Updated, gs, heard)
           after  == Captured(tracker, history, infos, g)
       IN IF ~stops /\ status = "continue"
          THEN /\ gs' = g /\ chunk' = infos
               /\ UNCHANGED <<pc, tracker, history>>
          ELSE /\ gs' = [g EXCEPT !.finished = @ \/ (~stops /\ status = "end")]
               /\ chunk' = <<>>
               /\ tracker' = after.tracker /\ history' = after.history
               /\ pc' = IF stops /\ heard[Len(heard)].kind \in Selects THEN "choice" ELSE "over"
  /\ buf' = <<>>
  /\ hurt' = HurtBy(buf)
  /\ UNCHANGED <<engine, may, said, skews, duels, ghosts>>

(* A response: the engine goes on.                                         *)
Respond ==
  /\ pc = "choice" /\ pc' = "engine"
  /\ UNCHANGED <<engine, buf, mirror, may, said, skews, duels, ghosts, hurt>>

(* reset(): FieldTracker.reset, EventHistoryBuffer.reset, GameState.reset  *)
(* in _init_duel, and _sync_zone_counts once the cards are laid.           *)
NewMirror(layout) ==
  /\ gs' = [lp |-> [s \in Seats |-> StartLP], turn |-> 0, player |-> 0, phase |-> "none",
            chain |-> <<>>, finished |-> FALSE,
            count |-> [s \in Seats |-> [z \in Counted |->
                         Cardinality({c \in Cards : layout[c][1] = s /\ layout[c][2] = z})]]]
  /\ chunk' = <<>> /\ history' = <<>>
  /\ tracker' = EmptyField

(* A puzzle lays cards on the field without a message.                     *)
Reset ==
  /\ pc \in {"choice", "over"} /\ duels < MaxDuels
  /\ \E layout \in Layouts :
       /\ NewMirror(layout)
       /\ at' = layout
       /\ drift' = [p \in Field |-> IF \E c \in Cards : layout[c] = p THEN "blank" ELSE None]
  /\ elp' = [s \in Seats |-> StartLP]
  /\ eturn' = [n |-> 0, player |-> 0, phase |-> "none"] /\ echain' = <<>>
  /\ buf' = <<>> /\ pc' = "engine"
  /\ said' = 0 /\ skews' = 0 /\ duels' = duels + 1
  /\ told' = <<>> /\ swapped' = {} /\ hurt' = {}
  /\ UNCHANGED may

Init ==
  /\ may \in Repertoires
  /\ at \in Layouts
  /\ elp = [s \in Seats |-> StartLP]
  /\ eturn = [n |-> 0, player |-> 0, phase |-> "none"] /\ echain = <<>> /\ buf = <<>>
  /\ gs = [lp |-> elp, turn |-> 0, player |-> 0, phase |-> "none", chain |-> <<>>,
           finished |-> FALSE,
           count |-> [s \in Seats |-> [z \in Counted |-> Cardinality(On(s, z))]]]
  /\ chunk = <<>> /\ pc = "engine" /\ tracker = EmptyField /\ history = <<>>
  /\ said = 0 /\ skews = 0 /\ duels = 1
  /\ drift = [p \in Field |-> IF Holder(p) = None THEN None ELSE "blank"]
  /\ told = <<>> /\ swapped = {} /\ hurt = {}

Next == EngineSays \/ (\E status \in {"continue", "awaiting", "end"} : Round(status))
        \/ Respond \/ Reset

Spec == Init /\ [][Next]_vars

-----------------------------------------------------------------------------
(* Every variable keeps to its type; in particular no count and no life    *)
(* total of the GameState goes below zero, whatever a frame says.          *)
TypeOK ==
  /\ at \in [Cards -> Places]
  /\ gs.lp \in [Seats -> Nat] /\ gs.count \in [Seats -> [Counted -> Nat]]
  /\ gs.turn \in Nat /\ gs.player \in Seats
  /\ gs.chain \in Seq({"building", "solving", "solved", "negated", "disabled"})
  /\ tracker \in [Field -> Cards \cup {None}]
  /\ Len(history) <= MaxHistory
  /\ pc \in {"engine", "choice", "over"}
  /\ drift \in [Field -> {None, "blank", "wrong"}] /\ hurt \subseteq Everything

(* At a choice the GameState is the engine's duel, except for what a lost  *)
(* or garbled frame has touched and no later message has put right: a      *)
(* frame that is short at the end of its buffer costs itself alone, a      *)
(* chain is right again once a chain has ended, life points after an       *)
(* LPUPDATE.  Of the zone counts, MSG_SWAP_GRAVE_DECK takes the deck and   *)
(* the grave of its seat with it, and no other count.                      *)
MirrorIsExact ==
  pc = "choice" =>
    /\ \A s \in Seats : LpOf(s) \notin hurt => gs.lp[s] = elp[s]
    /\ "turn" \notin hurt => gs.turn = eturn.n
    /\ "player" \notin hurt => gs.player = eturn.player
    /\ "phase" \notin hurt => gs.phase = eturn.phase
    /\ "chain" \notin hurt => gs.chain = echain
    /\ "counts" \notin hurt =>
         \A s \in Seats, z \in Counted :
           gs.count[s][z] = Cardinality(On(s, z)) \/ (s \in swapped /\ z \in {"deck", "grave"})

(* At a choice the FieldTracker's name for a place of the field is that of *)
(* the card there, and it has none for an empty place, unless MSG_SWAP or  *)
(* MSG_SHUFFLE_SET_CARD has moved the card since its last MSG_MOVE or      *)
(* summon; for a card a puzzle laid it has no name until one of these or a *)
(* MSG_POS_CHANGE, and then the right one.                                 *)
TrackerNamesTheCard ==
  pc = "choice" /\ "field" \notin hurt =>
    \A p \in Field :
      /\ drift[p] = None => tracker[p] = Holder(p)
      /\ drift[p] = "blank" => tracker[p] = None

(* At a choice the event history is the last events the engine told in     *)
(* this duel, in their order, over all chunks and none of an earlier duel; *)
(* an attacker is named rightly unless the tracker had drifted when it     *)
(* attacked; and an event is stamped with a turn no earlier than its own   *)
(* and no later than the present one.                                      *)
HistoryTellsTheDuel ==
  pc = "choice" /\ hurt \cap {"history", "field", "turn"} = {} =>
    /\ Len(history) = Len(told)
    /\ \A i \in DOMAIN told :
         /\ history[i].kind = told[i].kind
         /\ told[i].sure => history[i].card = told[i].card
         /\ told[i].turn <= history[i].turn /\ history[i].turn <= eturn.n
=============================================================================
