----------------------------- MODULE YgoBridge -----------------------------
(***************************************************************************)
(* YGOAgentOpponent (env/ygo_agent/opponent.py): the opponent's prompts    *)
(* are sent to an inference server as JSON (env/ygo_agent/bridge.py), one  *)
(* session per duel, and the server's answer is matched to a slot of the   *)
(* prompt.  The environment asks it while a prompt offers a choice and     *)
(* takes a sole action by itself.                                          *)
(*                                                                         *)
(* The server is external: a session has an index, counts the requests it  *)
(* has served, and refuses one that does not carry it.  What it may choose *)
(* is read off the request, as the bridge's matchers expect it.  A call is *)
(* served at once; its reply may be lost, and the server may forget its    *)
(* sessions.                                                               *)
(***************************************************************************)
EXTENDS ActionSpace

CONSTANTS
  None,      (* None                                                       *)
  Questions, (* the prompts the engine may ask                             *)
  Boards,    (* what the seat may see: a sequence of zone slots each       *)
  MaxDuels,  (* bound: duels                                               *)
  MaxCreated,(* bound: sessions the server creates                         *)
  MaxIndex   (* bound: requests a session serves                           *)

(* What the engine asks.  An idle or battle command is one of list number  *)
(* cat and the loop filter hides commands, never a phase or a pass, which  *)
(* have no code.  An announced race or attribute is no card.               *)
Command == [card : STRING, desc : Int]
Item    == [card : STRING, o1 : Nat, o2 : Nat]

Prompt ==
  [kind : {"idle"}, phases : SUBSET {"to_bp", "to_ep"}, looping : SUBSET ((0 .. 5) \X Nat),
   lists : [1 .. 6 -> Seq(Command)]]
  \cup [kind : {"battle"}, phases : SUBSET {"to_m2", "to_ep"}, looping : SUBSET ((0 .. 1) \X Nat),
        lists : [1 .. 2 -> Seq(Command)]]
  \cup [kind : {"chain"}, cards : Seq(Command), forced : BOOLEAN, looping : SUBSET ({0} \X Nat)]
  \cup [kind : {"unselect"}, cards : Seq(Command), finishable : BOOLEAN]
  \cup [kind : {"confirm", "rps"}]
  \cup [kind : {"option", "number", "announce"}, values : Seq(Int)]
  \cup [kind : {"position"}, positions : SUBSET {1, 2, 4, 8}]
  \cup [kind : {"place", "disfield"}, zones : Seq(STRING)]
  \cup [kind : {"card", "tribute", "sort", "counter"}, items : Seq(Item), min : Nat, max : Nat]
  \cup [kind : BitKinds, items : Seq([card : {NoCard}, o1 : Nat, o2 : Nat]), min : Nat, max : Nat]
  \cup [kind : {"sum"}, items : Seq(Item), min : Nat, max : Nat, must : Seq(Item),
        target : Nat, atLeast : BOOLEAN]

(* Its cards are different cards, its bits different bits, and it asks for *)
(* no more of them than there are.                                         *)
Answerable(m) ==
  /\ m.kind \in {"card", "tribute", "sum"} =>
       \A i, j \in 1 .. Len(m.items) :
         m.items[i].card # NoCard /\ (m.items[i].card = m.items[j].card => i = j)
  /\ m.kind \in BitKinds =>
       \A i, j \in 1 .. Len(m.items) : m.items[i].o2 = m.items[j].o2 => i = j
  /\ m.kind \in {"card", "tribute"} \cup BitKinds => m.max <= Len(m.items)
  /\ m.kind = "tribute" => m.min <= Total([n \in 1 .. Len(m.items) |-> m.items[n].o1])

ASSUME YgoBridgeAssumption ==
  /\ MaxActions \in Nat \ {0}
  /\ Questions \subseteq Prompt /\ \A m \in Questions : Answerable(m)
  /\ MaxDuels \in Nat /\ MaxCreated \in Nat /\ MaxIndex \in Nat
  /\ None \notin 1 .. MaxCreated /\ None \notin [index : Nat, chose : Nat]

VARIABLES
  (* The environment. *)
  duels,     (* duels started                                              *)
  msg,       (* the opponent's prompt                                      *)
  picks,     (* opp_sel                                                    *)
  (* YGOAgentOpponent. *)
  duel_id, index, prev,
  (* The server. *)
  created,   (* sessions created                                           *)
  sessions,  (* per session: its index, and the position of its last       *)
             (* choice among the options it listed, or None when dropped   *)
  (* What the properties watch. *)
  request,   (* the cards of the last request, and those of the board      *)
  last,      (* the last choice, as the server and as the engine read it   *)
  behind     (* the session moved on, or went, without the opponent        *)

bridge == <<duel_id, index, prev>>
server == <<created, sessions>>
vars   == <<duels, msg, picks, bridge, server, request, last, behind>>

Ids == 1 .. MaxCreated

(* _SERVER_UNSUPPORTED_MSGS.                                               *)
Unsupported == {"sort", "counter", "race", "announce", "disfield", "rps"}

-----------------------------------------------------------------------------
(* The request (build_predict_input).                                      *)

(* A command's response packs its index above its category.                *)
Pack(i, cat) == i * 65536 + cat

(* An option of the request: what it does, to which card, with which desc, *)
(* level or value, and the response that stands for it.                    *)
Opt(what, card, value, response) ==
  [what |-> what, card |-> card, value |-> value, response |-> response]

(* The descriptors a translator renders, by kind of prompt.                *)
Rendered(m, a) ==
  CASE m.kind \in {"idle", "battle"} -> a.kind \in {"card_command", "activate_effect", "attack"}
    [] m.kind = "chain"              -> a.kind = "activate_effect"
    [] m.kind = "unselect"           -> a.kind = "pick_card"
    [] m.kind \in PickKinds          -> a.kind \in {"pick_card", "pick_bit"}
    [] m.kind = "confirm"            -> FALSE
    [] OTHER                         -> TRUE

(* An announced attribute answers with its mask, a position with its bits, *)
(* a place with its ordinal in the list, anything else with its index.     *)
ResponseOf(m, a, ordinal) ==
  CASE m.kind \in {"idle", "battle"}     -> Pack(a.index, a.cat)
    [] m.kind \in {"attrib", "position"} -> a.value
    [] m.kind = "place"                  -> ordinal
    [] OTHER                             -> a.index

What(a) == IF a.kind = "card_command" THEN <<a.kind, a.cat>> ELSE <<a.kind, 0>>

Entries(m, acts) ==
  LET shown == Kept(acts, {n \in 1 .. Len(acts) : Rendered(m, acts[n])})
  IN Numbered(Len(shown), LAMBDA o :
       LET a == shown[o + 1] IN Opt(What(a), a.card, a.value, ResponseOf(m, a, o)))

(* Mutant: the engine's indices, not positions in the list.                *)
ReconstructUnmoved(m, s, acts) ==
  LET left  == {a.index : a \in {a \in ToSet(acts) : a.kind = "pick_card"}}
      order == Kept(Numbered(Len(m.items), LAMBDA i : i),
                    {n \in 1 .. Len(m.items) : n - 1 \in left \cup ToSet(s)})
  IN [cards |-> [n \in 1 .. Len(order) |->
        Opt(<<"pick_card", 0>>, m.items[order[n] + 1].card, m.items[order[n] + 1].o1, order[n])],
      selected |-> s]

(* _reconstruct_pick_list: the cards left and the cards picked, by         *)
(* ascending index, and where in that list the picked ones are.            *)
Reconstruct(m, s, acts) ==
  LET left  == {a.index : a \in {a \in ToSet(acts) : a.kind = "pick_card"}}
      order == Kept(Numbered(Len(m.items), LAMBDA i : i),
                    {n \in 1 .. Len(m.items) : n - 1 \in left \cup ToSet(s)})
  IN [cards |-> [n \in 1 .. Len(order) |->
        Opt(<<"pick_card", 0>>, m.items[order[n] + 1].card, m.items[order[n] + 1].o1, order[n])],
      selected |-> [k \in 1 .. Len(s) |-> (CHOOSE n \in 1 .. Len(order) : order[n] = s[k]) - 1]]

(* translate_action_msg.                                                   *)
Body(m, s, acts) ==
  [kind |-> m.kind,
   list |-> IF m.kind \in {"card", "tribute", "sum"} THEN Reconstruct(m, s, acts)
            ELSE [cards |-> Entries(m, acts), selected |-> <<>>],
   to   |-> {a.kind : a \in ToSet(acts)} \cap {"to_bp", "to_m2", "to_ep"},
   may  |-> CASE m.kind = "chain" -> ~m.forced
              [] m.kind = "unselect" -> m.finishable
              [] OTHER -> FALSE]

(* build_observation: the identity of a card neither the seat's own nor    *)
(* face-up nor public is withheld; an empty monster or spell slot is an    *)
(* entry too; of a deck only the count is there.                           *)
Hidden(c) == [c EXCEPT !.code = 0]
Observed(slots) ==
  LET cards == Kept(slots, {n \in 1 .. Len(slots) : slots[n].zone # "deck"})
  IN [n \in 1 .. Len(cards) |-> IF cards[n].mine \/ cards[n].open THEN cards[n] ELSE Hidden(cards[n])]

(* translate_cards: an entry without a code is dropped as a hole of a      *)
(* monster or spell zone, and kept elsewhere.                              *)
Translated(cards) ==
  Kept(cards, {n \in 1 .. Len(cards) :
                 ~(cards[n].code = 0 /\ cards[n].zone \in {"mzone", "szone"})})

(* A hidden card for each card of a deck.                                  *)
DeckCards(slots) ==
  LET deck == Kept(slots, {n \in 1 .. Len(slots) : slots[n].zone = "deck"})
  IN [n \in 1 .. Len(deck) |-> Hidden(deck[n])]

-----------------------------------------------------------------------------
(* The server's side.                                                      *)

SelectedCards(b) == {b.list.cards[p + 1].card : p \in ToSet(b.list.selected)}

(* It finishes a selection when the cards selected so far, as it finds     *)
(* them by position, satisfy the bounds of the prompt.                     *)
ServerFinishes(m, b) ==
  LET sel  == b.list.selected
      item(p) == CHOOSE i \in ToSet(m.items) : i.card = b.list.cards[p + 1].card
      items == [k \in 1 .. Len(sel) |-> item(sel[k])]
  IN CASE m.kind = "card" -> m.min < m.max /\ Len(sel) >= m.min
       [] m.kind = "tribute" -> Total([k \in 1 .. Len(sel) |-> items[k].o1]) >= m.min
       [] m.kind = "sum" -> /\ ~m.atLeast /\ Len(sel) >= m.min
                            /\ SumExact(m.must \o items, m.target)
       [] OTHER -> FALSE

ServerOptions(m, b) ==
  LET open == [n \in 1 .. Len(b.list.cards) |-> n]
      left == Kept(open, {n \in 1 .. Len(open) : n - 1 \notin ToSet(b.list.selected)})
      phase == [to_bp |-> 6, to_m2 |-> 2, to_ep |-> IF b.kind = "idle" THEN 7 ELSE 3]
  IN [k \in 1 .. Len(left) |-> b.list.cards[left[k]]]
     \o SetToSeq({Opt(<<t, 0>>, NoCard, 0, phase[t]) : t \in b.to})
     \o (IF b.kind = "confirm"
         THEN <<Opt(<<"confirm", 0>>, NoCard, 1, 1), Opt(<<"confirm", 0>>, NoCard, 0, 0)>>
         ELSE <<>>)
     \o (IF b.may THEN <<Opt(<<"pass", 0>>, NoCard, 0, -1)>> ELSE <<>>)
     \o (IF ServerFinishes(m, b) THEN <<Opt(<<"finish_pick", 0>>, NoCard, 0, -1)>> ELSE <<>>)

-----------------------------------------------------------------------------
(* The answer (match_response).                                            *)

(* The descriptor a response stands for; for a phase its bare category.    *)
Matches(m, a, r) ==
  CASE m.kind = "idle" /\ r \in {6, 7} -> a.kind = IF r = 6 THEN "to_bp" ELSE "to_ep"
    [] m.kind = "battle" /\ r \in {2, 3} -> a.kind = IF r = 2 THEN "to_m2" ELSE "to_ep"
    [] \/ m.kind = "idle" /\ r \notin {6, 7}
       \/ m.kind = "battle" /\ r \notin {2, 3} ->
         /\ a.kind \in {"card_command", "activate_effect", "attack"}
         /\ a.cat = r % 65536 /\ a.index = r \div 65536
    [] m.kind \in {"chain", "unselect"} /\ r = -1 -> a.kind = "pass"
    [] m.kind \in {"card", "tribute", "sum"} /\ r = -1 -> a.kind = "finish_pick"
    [] m.kind = "confirm" -> (a.value = 1) = (r = 1)
    [] m.kind \in {"attrib", "position"} -> a.value = r
    [] OTHER -> a.kind \notin {"pass", "finish_pick"} /\ a.index = r

(* The first that matches, or the first of all (_find).                    *)
Slot(m, acts, r) ==
  LET hit == {n \in 1 .. Len(acts) : Matches(m, acts[n], r)}
  IN IF hit = {} THEN 1 ELSE CHOOSE n \in hit : \A k \in hit : n <= k

(* What the engine makes of action a: the commands, cards and values its   *)
(* response refers to, in the prompt as it was asked.                      *)
Picked(m, s, a) == {m.items[i + 1].card : i \in ToSet(PicksAfter(m, s, a))}

EngineReads(m, s, a) ==
  CASE m.kind \in {"idle", "battle"} /\ a.kind \notin {"to_bp", "to_m2", "to_ep"} ->
         [what |-> What(a), cards |-> {m.lists[a.cat + 1][a.index + 1].card},
          value |-> m.lists[a.cat + 1][a.index + 1].desc]
    [] m.kind \in {"card", "tribute", "sum"} ->
         [what |-> What(a), cards |-> Picked(m, s, a),
          value |-> IF a.kind = "finish_pick" THEN 0 ELSE m.items[a.index + 1].o1]
    [] OTHER -> [what |-> What(a), cards |-> {a.card}, value |-> a.value]

ServerMeans(b, o) ==
  [what |-> o.what,
   cards |-> IF b.kind \in {"card", "tribute", "sum"}
             THEN SelectedCards(b) \cup ({o.card} \ {NoCard}) ELSE {o.card},
   value |-> o.value]

-----------------------------------------------------------------------------
(* Sessions.                                                               *)

Init ==
  /\ duels = 0 /\ msg = None /\ picks = <<>>
  /\ duel_id = None /\ index = 0 /\ prev = 0
  /\ created = 0 /\ sessions = [i \in Ids |-> None]
  /\ request = None /\ last = None /\ behind = FALSE

(* _delete_session, best effort, then _create_session.  The server may     *)
(* create a session whose reply is lost, or none at all.                   *)
NewSession(old, ok) ==
  \E gone \in BOOLEAN, made \in BOOLEAN :
    LET kept == [i \in Ids |-> IF gone /\ i = old THEN None ELSE sessions[i]]
    IN /\ ok => made
       /\ IF made
          THEN /\ created < MaxCreated
               /\ created' = created + 1
               /\ sessions' = [kept EXCEPT ![created + 1] = [index |-> 0, chose |-> 0]]
          ELSE created' = created /\ sessions' = kept

(* reseed: a reply that does not come raises out of the reset, and leaves  *)
(* index and prev as they were.                                            *)
Reseed ==
  /\ duels < MaxDuels /\ duels' = duels + 1
  /\ msg' = None /\ picks' = <<>> /\ request' = None /\ last' = None
  /\ \E ok \in BOOLEAN :
       /\ NewSession(duel_id, ok)
       /\ duel_id' = IF ok THEN created + 1 ELSE None
       /\ index' = IF ok THEN 0 ELSE index
       /\ prev' = IF ok THEN 0 ELSE prev
       /\ behind' = FALSE

(* Mutant: the previous action survives into the new session.              *)
ResetKeepsPrev ==
  \E ok \in BOOLEAN :
    /\ NewSession(duel_id, ok)
    /\ duel_id' = IF ok THEN created + 1 ELSE None
    /\ index' = 0 /\ prev' = prev

(* Mutant: -1 stands for no previous action.                               *)
ResetToNoAction ==
  \E ok \in BOOLEAN :
    /\ NewSession(duel_id, ok)
    /\ duel_id' = IF ok THEN created + 1 ELSE None
    /\ index' = 0 /\ prev' = -1

(* _reset_session.                                                         *)
ResetSession ==
  \E ok \in BOOLEAN :
    /\ NewSession(duel_id, ok)
    /\ duel_id' = IF ok THEN created + 1 ELSE None
    /\ index' = 0 /\ prev' = 0

(* The server drops its sessions.                                          *)
Forget ==
  /\ \E i \in Ids : sessions[i] # None
  /\ sessions' = [i \in Ids |-> None]
  /\ behind' = (duel_id # None)
  /\ UNCHANGED <<duels, msg, picks, bridge, created, request, last>>

-----------------------------------------------------------------------------
(* A duel.  A reset that failed has no duel; the session is gone with it.  *)

Ask ==
  /\ duels > 0 /\ msg = None
  /\ \E q \in Questions : Offered(q, <<>>) # <<>> /\ msg' = q
  /\ picks' = <<>> /\ request' = None /\ last' = None
  /\ UNCHANGED <<duels, bridge, server, behind>>

(* The environment takes slot a.                                           *)
Take(slot) ==
  \E a \in {slot} :
    IF Answers(msg, picks, a) THEN msg' = None /\ picks' = <<>>
    ELSE msg' = msg /\ picks' = PicksAfter(msg, picks, a)

(* A sole action is taken without asking.                                  *)
Collapse ==
  /\ msg # None /\ Len(Offered(msg, picks)) = 1
  /\ Take(Offered(msg, picks)[1])
  /\ request' = None /\ last' = None
  /\ UNCHANGED <<duels, bridge, server, behind>>

Choosing == msg # None /\ Len(Offered(msg, picks)) > 1

(* Slot 0 without the server: no session, or a prompt it does not know.    *)
AnswerLocally ==
  /\ Choosing /\ (duel_id = None \/ msg.kind \in Unsupported)
  /\ Take(Offered(msg, picks)[1])
  /\ request' = None /\ last' = None
  /\ UNCHANGED <<duels, bridge, server, behind>>

Posting == Choosing /\ duel_id # None /\ msg.kind \notin Unsupported

Sent == \E b \in Boards : request' = [board |-> b, cards |-> Translated(Observed(b)) \o DeckCards(b)]

InSync == sessions[duel_id] # None /\ sessions[duel_id].index = index

(* The server serves the request: it lists its options and chooses one.    *)
Serve(n) ==
  /\ InSync /\ sessions[duel_id].index < MaxIndex
  /\ sessions' = [sessions EXCEPT ![duel_id] = [index |-> @.index + 1, chose |-> n]]
  /\ UNCHANGED created

(* The reply: the index moves on, the most probable option is matched.     *)
Accept(m, s, acts, n) ==
  LET b == Body(m, s, acts)
      o == ServerOptions(m, b)[n]
  IN \E k \in {Slot(m, acts, o.response)} :
       /\ index' = index + 1 /\ prev' = n - 1
       /\ last' = [served |-> ServerMeans(b, o), read |-> EngineReads(m, s, acts[k]),
                   cut |-> /\ Len(Extracted(m, s)) >= MaxActions
                           /\ o.what[1] \notin {x.kind : x \in ToSet(acts)}]
       /\ Take(acts[k]) /\ UNCHANGED <<duel_id, behind>>

Predict ==
  /\ Posting /\ Sent
  /\ \E acts \in {Offered(msg, picks)} :
       \E n \in 1 .. Len(ServerOptions(msg, Body(msg, picks, acts))) :
         Serve(n - 1) /\ Accept(msg, picks, acts, n)
  /\ UNCHANGED duels

Slot0 == Take(Offered(msg, picks)[1]) /\ last' = None /\ UNCHANGED duels

(* An answer without predictions: the index moves on, the rest does not.   *)
PredictNothing ==
  /\ Posting /\ Sent /\ Serve(prev) /\ index' = index + 1
  /\ Slot0 /\ UNCHANGED <<duel_id, prev, behind>>

(* The request fails, before or after the server served it.                *)
Lost ==
  /\ \/ UNCHANGED <<server, behind>>
     \/ \E n \in 0 .. 1 : Serve(n) /\ behind' = TRUE
  /\ UNCHANGED bridge

(* A time-out is answered with slot 0.                                     *)
PredictLost == Posting /\ Sent /\ Lost /\ Slot0

(* A broken connection raises out of the step: the picks, which are locals *)
(* there, are lost, and the prompt stands.                                 *)
Unreachable ==
  /\ Posting /\ Sent /\ Lost /\ last' = None
  /\ picks' = <<>> /\ UNCHANGED <<duels, msg>>

(* HTTP 5xx, which an index that is not the session's gets, or an error in *)
(* the answer.                                                             *)
PredictFails == Posting /\ Sent /\ ResetSession /\ behind' = FALSE /\ Slot0

(* HTTP 4xx: the session is taken to be as it was.                         *)
PredictRefused == Posting /\ Sent /\ Slot0 /\ UNCHANGED <<bridge, server, behind>>

Next ==
  \/ Reseed \/ Forget \/ Ask \/ Collapse \/ AnswerLocally
  \/ Predict \/ PredictNothing \/ PredictLost \/ Unreachable \/ PredictFails \/ PredictRefused

Spec == Init /\ [][Next]_vars

-----------------------------------------------------------------------------
(* Properties.                                                             *)

TypeOK ==
  /\ duels \in 0 .. MaxDuels
  /\ msg \in Questions \cup {None} /\ picks \in Seq(Nat)
  /\ duel_id \in Ids \cup {None} /\ index \in 0 .. MaxIndex /\ prev \in 0 .. MaxActions
  /\ created \in 0 .. MaxCreated /\ behind \in BOOLEAN
  /\ \A i \in Ids : sessions[i] # None => sessions[i].index \in 0 .. MaxIndex

(* A selection never runs out of choices before it is complete: a pick     *)
(* that no completion contains is not offered (_extract_sum_actions's      *)
(* reachable, over several picks, forced ones among them).                 *)
NoDeadEnd == msg # None => Offered(msg, picks) # <<>>

(* What the engine is told is what the server chose: the same command, on  *)
(* the same card, after the same picks (build_predict_input and            *)
(* match_response against the engine's own reading of the response).  The  *)
(* exception is a selection finished, or a prompt passed, while MaxActions *)
(* cards filled the prompt: it has no finish_pick or pass left, though the *)
(* request still says that it may be finished, and a card is picked.       *)
PlaysWhatWasChosen ==
  last # None => \/ last.served = last.read
                 \/ last.cut /\ last.served.what \in {<<"finish_pick", 0>>, <<"pass", 0>>}

(* The opponent knows where its session is and what it chose there last.   *)
(* A reply lost, or sessions dropped, put it behind until the next request *)
(* that fails; that one ends the session, and a new one brings the two     *)
(* together again (select_action and _reset_session).  It may not be had:  *)
(* then there is none, and the rest of the duel is played at slot 0, as a  *)
(* duel is whose requests get 4xx, which end nothing.                      *)
InStep ==
  duel_id # None /\ ~behind =>
    /\ sessions[duel_id] # None
    /\ sessions[duel_id].index = index /\ sessions[duel_id].chose = prev

(* Every card of the field reaches the server, the identity withheld or    *)
(* not (env/models.py: a hidden card is a real card, its zone and seat are *)
(* known; translate_cards drops holes only).                               *)
HiddenCardsAreSent ==
  request # None =>
    \A c \in ToSet(request.board) :
      c.code # 0 => \E d \in ToSet(request.cards) : d.at = c.at
=============================================================================
