-------------------------------- MODULE Frames --------------------------------
(***************************************************************************)
(* The wire format of the engine's message buffer (env/message_parser.py): *)
(* frames of a 4-byte length, a type byte and a payload, concatenated.     *)
(* What the rest of the program depends on is where each parser stops      *)
(* reading: the length says where the next frame starts, the parser never  *)
(* looks at it, and a parser written for another core version stops        *)
(* somewhere else.  So a parser is the bytes it reads, and a frame is its   *)
(* message with the bytes it lacks of what the parser reads.               *)
(***************************************************************************)
EXTENDS Integers, FiniteSets, Sequences

CONSTANT Misread  (* messages that bytes read out of step may pass for     *)

(* BinaryReader: the widths of its reads.                                  *)
U8 == 1
U16 == 2
U32 == 4
U64 == 8
Loc == U8 + U8 + U32 + U32     (* read_card_loc                            *)
Place == U8 + U8 + U32         (* controller, location, sequence           *)
Short == U8 + U8 + U8          (* the same, with a sequence of one byte    *)

(* A list: its count, then an item of so many bytes.  One item per list    *)
(* stands for any number: the bytes read follow the count.                 *)
List(count, item) == count + item

(* The prompts: their last field is read like any other.                   *)
MenuFormat == [
  select_battlecmd |-> U8 + List(U32, U32 + Place + U64 + U8) + List(U32, U32 + Short + U8)
                       + U8 + U8,
  select_idlecmd   |-> U8 + List(U32, U32 + Place) + List(U32, U32 + Place)
                       + List(U32, U32 + Short) + List(U32, U32 + Place)
                       + List(U32, U32 + Place) + List(U32, U32 + Place + U64 + U8)
                       + U8 + U8 + U8]

AskFormat == [
  select_effectyn |-> U8 + U32 + Loc + U64,
  select_yesno    |-> U8 + U64,
  select_option   |-> U8 + List(U8, U64),
  select_card     |-> U8 + U8 + U32 + U32 + List(U32, U32 + Place + U32),
  select_chain    |-> U8 + U8 + U8 + U32 + U32 + List(U32, U32 + Loc + U64 + U8),
  select_place    |-> U8 + U8 + U32,
  select_position |-> U8 + U32 + U8,
  select_tribute  |-> U8 + U8 + U32 + U32 + List(U32, U32 + Place + U8)]

PickFormat == [
  select_sum           |-> U8 + U8 + U32 + U32 + U32 + List(U32, U32 + Loc + U32)
                           + List(U32, U32 + Loc + U32),
  select_unselect_card |-> U8 + U8 + U8 + U32 + U32 + List(U32, U32 + Place + U32)
                           + List(U32, U32 + Place + U32),
  sort_card            |-> U8 + List(U32, U32 + U8 + U32 + U32),
  announce_race        |-> U8 + U8 + U64,
  announce_attrib      |-> U8 + U8 + U32,
  announce_card        |-> U8 + List(U8, U64),
  announce_number      |-> U8 + List(U8, U64)]

LastFormat == [
  rock_paper_scissors |-> U8,
  select_counter      |-> U8 + U16 + U16 + List(U32, U32 + Short + U16),
  sort_chain          |-> U8 + List(U32, U32 + U8 + U32 + U32)]

(* The messages that tell what happened.                                   *)
FlowFormat == [
  new_turn |-> U8, new_phase |-> U16, win |-> U8 + U8,
  draw     |-> U8 + List(U32, U32),
  damage   |-> U8 + U32, recover |-> U8 + U32, lpupdate |-> U8 + U32, pay_lpcost |-> U8 + U32,
  move     |-> U32 + Loc + Loc + U32,
  pos_change |-> U32 + Short + U8 + U8,
  set      |-> U32 + Loc,
  swap     |-> U32 + Loc + U32 + Loc,
  summoning |-> U32 + Loc, spsummoning |-> U32 + Loc, flipsummoning |-> U32 + Loc]

PlayFormat == [
  chaining |-> U32 + Loc + Place + U64 + U32,
  chained  |-> U8, chain_solving |-> U8, chain_solved |-> U8,
  chain_negated |-> U8, chain_disabled |-> U8,
  attack   |-> Loc + Loc,
  battle   |-> Loc + U32 + U32 + U8 + Loc + U32 + U32 + U8,
  hint     |-> U8 + U8 + U64,
  start    |-> U8 + U32 + U32 + U16 + U16 + U16 + U16,
  card_selected |-> List(U32, Loc), become_target |-> List(U32, Loc),
  random_selected |-> U8 + List(U32, Loc),
  toss_coin |-> U8 + List(U8, U8), toss_dice |-> U8 + List(U8, U8),
  hand_res |-> U8 + U8]

TableFormat == [
  equip |-> Loc + Loc, field_disabled |-> U32, card_hint |-> Loc + U8 + U64,
  shuffle_deck |-> U8,
  shuffle_hand |-> U8 + List(U32, U32), shuffle_extra |-> U8 + List(U32, U32),
  shuffle_set_card |-> U8 + List(U8, Loc + Loc),
  confirm_decktop  |-> U8 + List(U32, U32 + Place),
  confirm_cards    |-> U8 + List(U32, U32 + Place),
  add_counter |-> U16 + Short + U16, remove_counter |-> U16 + Short + U16,
  card_target |-> Loc + Loc, cancel_target |-> Loc + Loc,
  deck_top |-> U8 + U32 + U32]

(* MSG_PARSERS: the parser of a kind by its format, _parse_noop (reads     *)
(* nothing, the payload is skipped), or none at all for an unknown kind.   *)
Silent == {"summoned", "spsummoned", "flipsummoned", "chain_end", "attack_disabled",
           "damage_step_start", "damage_step_end", "unequip", "missed_effect", "waiting",
           "retry", "update_data", "update_card", "refresh_deck", "swap_grave_deck",
           "reverse_deck", "be_chain_target", "create_relation", "release_relation",
           "match_kill", "custom_msg", "remove_cards", "tag_swap", "reload_field",
           "ai_name", "show_hint", "player_hint"}

Parser(k) ==
  IF k \in Silent THEN 0
  ELSE CASE k = "select_disfield"        -> AskFormat["select_place"]
         [] k = "confirm_extratop"       -> TableFormat["confirm_decktop"]
         [] k \in DOMAIN MenuFormat      -> MenuFormat[k]
         [] k \in DOMAIN AskFormat       -> AskFormat[k]
         [] k \in DOMAIN PickFormat      -> PickFormat[k]
         [] k \in DOMAIN LastFormat      -> LastFormat[k]
         [] k \in DOMAIN FlowFormat      -> FlowFormat[k]
         [] k \in DOMAIN PlayFormat      -> PlayFormat[k]
         [] k \in DOMAIN TableFormat     -> TableFormat[k]

Selects == DOMAIN MenuFormat \cup DOMAIN AskFormat \cup DOMAIN PickFormat
           \cup DOMAIN LastFormat \cup {"select_disfield"}

Kinds == Selects \cup Silent \cup DOMAIN FlowFormat \cup DOMAIN PlayFormat
         \cup DOMAIN TableFormat \cup {"confirm_extratop", "unknown"}

(* The kind a parsed message carries: two parsers stamp their own.         *)
Stamped(k) == CASE k = "select_disfield"  -> "select_place"
                [] k = "confirm_extratop" -> "confirm_decktop"
                [] OTHER                  -> k

Parsed(m) == [m EXCEPT !.kind = Stamped(@)]

-----------------------------------------------------------------------------
(* A frame [msg, cut]: the engine wrote cut bytes less than the parser     *)
(* reads (more, when cut is negative).                                     *)
Payload(f) == (IF f.msg.kind = "unknown" THEN 1 ELSE Parser(f.msg.kind)) - f.cut

IsShort(f) == f.msg.kind # "unknown" /\ f.cut > 0

(* The bytes after frame i in the buffer: each later frame is a length, a  *)
(* type byte and a payload.                                                *)
After(buf) ==
  LET bytes[i \in 0 .. Len(buf)] ==
        IF i = Len(buf) THEN 0 ELSE bytes[i + 1] + 4 + 1 + Payload(buf[i + 1])
  IN bytes

(* A read past the end of the buffer raises; a read past the end of the    *)
(* frame alone goes unnoticed until the parser has returned.               *)
Raises(buf, i) == IsShort(buf[i]) /\ buf[i].cut > After(buf)[i]
Overreads(buf, i) == IsShort(buf[i]) /\ ~Raises(buf, i)

(* parse_messages: the sequences of messages a buffer may decode to.  A    *)
(* frame that is too long is followed by a skip to its boundary, one that  *)
(* raises is dropped, an unknown one skipped.  After an overread nothing   *)
(* brings the reader back to a boundary: the message's own tail and        *)
(* whatever follows it in this buffer are garbage, here at most two        *)
(* messages.                                                               *)
Decodings(buf) ==
  LET from[i \in 1 .. Len(buf) + 1] ==
        IF i > Len(buf) THEN {<<>>}
        ELSE CASE buf[i].msg.kind = "unknown" -> from[i + 1]
               [] Raises(buf, i)              -> from[i + 1]
               [] Overreads(buf, i)           -> {<<m>> : m \in Misread}
                                                   \cup (Misread \X Misread)
               [] OTHER -> {<<Parsed(buf[i].msg)>> \o s : s \in from[i + 1]}
  IN from[1]
=============================================================================
