------------------------------ MODULE MudClient ------------------------------
(***************************************************************************)
(* The MUD bot (mud/): its protocol machine (protocol.py), the parser's    *)
(* modes (text_parser.py), the idle and battle conversations               *)
(* (cmd_handler.py) and the answers (agent.py, action_translator.py),      *)
(* against a text server that is known from what the bot expects of it.    *)
(* The bot is one coroutine: from one recv_line to the next is one step.   *)
(* A line or a command is [k, x, items]: its kind, a letter, card or name  *)
(* in it, and the items an answer picks.                                   *)
(***************************************************************************)
EXTENDS Integers, Sequences, FiniteSets, SequencesExt

CONSTANTS
  InfoCmds,   (* the commands of _send_resync, in order                    *)
  Specs,      (* cardspecs                                                 *)
  Multi,      (* of these, the cards with several effects to activate      *)
  Prompt,     (* the prompts without a handler: name -> what the parser    *)
              (* makes of it [type, n, min, free], and the picks that the  *)
              (* server accepts, wants                                     *)
  Questions,  (* info commands whose answer may have a line ending in "?"  *)
  MaxAsks,    (* bound: prompts in the duel                                *)
  MaxTies     (* bound: ties at rock, paper, scissors                      *)

(* What the bot sends besides: single letters, and nothing for no card.    *)
Reserved == {"", "?", "a", "b", "c", "e", "m", "z"}

(* Prompts whose answer the bot does not work out from what it is asked:   *)
(* the total of a sum and the name of a card are not read, counters are all*)
(* left where they are, and of several cards to check, or of several places*)
(* from the last ones on, too few are named.                               *)
Guessed(p) == \/ p.type \in {"sum", "counter", "name"}
              \/ p.type \in {"unselect", "place"} /\ p.min > 1

ASSUME MudClientAssumption ==
  /\ InfoCmds \in Seq(STRING) /\ Len(InfoCmds) > 0
  /\ Specs \subseteq STRING /\ IsFiniteSet(Specs) /\ Multi \subseteq Specs
  (* No command is taken for another.                                      *)
  /\ Specs \cap Reserved = {}
  /\ \A i \in DOMAIN InfoCmds : InfoCmds[i] \notin Specs \cup Reserved
  /\ DOMAIN Prompt \subseteq STRING
  /\ \A a \in DOMAIN Prompt :
       /\ Prompt[a] \in [type : STRING, n : Nat, min : Nat \ {0}, free : BOOLEAN,
                        wants : SUBSET SUBSET Nat]
       /\ Prompt[a].n >= Prompt[a].min
       /\ Prompt[a].type \in {"yesno", "sum"} => Prompt[a].min = 1
       (* Of the others the server says how many it wants.                 *)
       /\ Guessed(Prompt[a]) \/
            \A S \in SUBSET (1 .. Prompt[a].n) :
              Cardinality(S) = Prompt[a].min => S \in Prompt[a].wants
  /\ MaxAsks \in Nat /\ MaxTies \in Nat

L(k, x) == [k |-> k, x |-> x, items |-> {}]
Lines(k, S) == SetToSeq({L(k, x) : x \in S})
C(x) == L("command", x)

NoPrompt == [type |-> "none", opts |-> {}, name |-> ""]
NoMenu   == [p |-> "none", usable |-> {}, phases |-> {}, x |-> ""]
NoAction == <<"", "">>
Scanning == [mode |-> "scan", opts |-> {}, idle |-> FALSE]

VARIABLES
  (* MUDProtocol. *)
  state,      (* State                                                     *)
  profile,    (* config.profile                                            *)
  sentRoom,   (* _room_commands_sent                                       *)
  ready,      (* _guest_ready                                              *)
  pending,    (* _resync_pending                                           *)
  (* The coroutine: the loop it is in, and the locals of its handlers. *)
  pc,
  parser,     (* MUDTextParser: its mode, options and _idle_context        *)
  held,       (* the prompt being handled                                  *)
  outer,      (* the prompt that _handle_duel acts on after _send_resync   *)
  ix,         (* the resync command being answered                         *)
  offered,    (* the actions probed, then structured_actions               *)
  chosen,     (* the card action being executed                            *)
  letters,    (* submenu_letters                                           *)
  (* History: a line of a resync's answer was taken for a prompt.            *)
  strayed,
  (* The connection and the server. *)
  up, down,   (* commands and lines in flight                              *)
  srv,        (* the server's phase                                        *)
  ask,        (* what it waits for in the duel, with the menu it shows     *)
  asks, ties, decks, guestIn,
  rejected    (* it has refused a command                                  *)

lobby  == <<profile, sentRoom, ready>>
duel   == <<pending, pc, parser, held, outer, ix, offered, chosen, letters,
            strayed>>
server == <<srv, ask, asks, ties, decks, guestIn, rejected>>
vars   == <<state, lobby, duel, up, down, server>>

Init ==
  /\ state = "LOGIN_NICKNAME" /\ profile \in {"host", "guest"}
  /\ sentRoom = FALSE /\ ready = FALSE /\ pending = FALSE
  /\ pc = "run" /\ parser = Scanning /\ held = NoPrompt /\ outer = NoPrompt /\ ix = 1
  /\ offered = {} /\ chosen = NoAction /\ letters = {} /\ strayed = FALSE
  /\ up = <<>> /\ down = <<L("Nickname", "")>>
  /\ srv = "nickname" /\ ask = NoMenu /\ asks = 0 /\ ties = 0
  /\ decks = {} /\ guestIn = FALSE /\ rejected = FALSE

-----------------------------------------------------------------------------
(* The parser.                                                             *)

Terminal == [idle |-> "selectCard", battle |-> "selectOption", attack |-> "selectCard",
             activate |-> "enterText", submenu |-> "selectAction"]
Header == [idleHead |-> "idle", battleHead |-> "battle", attackHead |-> "attack",
           activateHead |-> "activate"]

(* DUELREADER_REPROMPTS; mutant: without the one of the battle menu.       *)
RepromptsIdle == {"selectCard", "enterText"}
Reprompts == {"selectCard", "selectOption", "enterText"}

Result(p, prompt) == [parser |-> p, prompt |-> prompt]

(* _accumulate: up to the terminal line; nothing else in it is looked at.  *)
Accumulate(p, l) ==
  IF l.k = Terminal[p.mode]
  THEN Result([p EXCEPT !.mode = "scan", !.opts = {}],
              [type |-> p.mode, opts |-> p.opts, name |-> ""])
  ELSE Result([p EXCEPT !.opts = IF \/ l.k = "letter" /\ ~(p.mode = "submenu" /\ l.x = "i")
                                    \/ l.k = "spec"
                                 THEN @ \cup {l.x} ELSE @],
              NoPrompt)

SubmenuLetters == {"s", "m", "c", "v", "va", "vb", "z"}

(* _scan: headers, single-line prompts, submenu letters, questions.        *)
Scan(p, l) ==
  CASE l.k \in DOMAIN Header ->
         Result([mode |-> Header[l.k], opts |-> {},
                 idle |-> l.k = "idleHead" \/ (p.idle /\ l.k # "battleHead")], NoPrompt)
    [] l.k = "letter" /\ p.idle /\ l.x \in SubmenuLetters ->
         Result([mode |-> "submenu", opts |-> {l.x}, idle |-> FALSE], NoPrompt)
    [] l.k = "selectAction" ->
         Result([p EXCEPT !.idle = FALSE], [NoPrompt EXCEPT !.type = "submenu"])
    [] l.k = "ask" -> Result(p, [NoPrompt EXCEPT !.type = "ask", !.name = l.x])
    [] l.k = "question" -> Result(p, [NoPrompt EXCEPT !.type = "question"])
    [] OTHER -> Result(p, NoPrompt)

Parse(l) == IF parser.mode = "scan" THEN Scan(parser, l) ELSE Accumulate(parser, l)

-----------------------------------------------------------------------------
(* Answers: what an agent may choose, and how it is translated.            *)

Decline == -3
Cancel  == -2
Finish  == -5

(* PassiveAgent, RandomAgent and map_model_action.                         *)
AgentChoices(p) ==
  LET index == 0 .. p.n - 1
  IN  CASE p.type = "yesno"    -> {0, Decline}
        [] p.type = "chain"    -> index \cup (IF p.free THEN {Cancel} ELSE {})
        [] p.type = "unselect" -> index \cup (IF p.free THEN {Finish} ELSE {})
        [] p.type = "name"     -> {Cancel}
        [] OTHER               -> index

Smaller(a, b) == IF a < b THEN a ELSE b

Meta(c) == [k |-> "meta", x |-> IF c = Decline THEN "n" ELSE IF c = Cancel THEN "c" ELSE "f",
            items |-> {}]
Pick(S) == [k |-> "pick", x |-> "", items |-> S]
PicksFrom(p, c) == Pick(c + 1 .. Smaller(c + p.min, p.n))

(* Mutant: the first of several picks is not clamped.                      *)
TranslateUnclamped(p, c) == IF c < 0 THEN Meta(c) ELSE PicksFrom(p, c)

(* translate: meta commands, zeros for counters, one card to check, else as*)
(* many items as the prompt wants, from the chosen one on; places are not  *)
(* clamped.                                                                *)
Translate(p, c) ==
  CASE c < 0 -> Meta(c)
    [] c >= 0 /\ p.type = "counter"  -> Pick({})
    [] c >= 0 /\ p.type = "unselect" -> Pick({c + 1})
    [] c >= 0 /\ p.type = "place"    -> PicksFrom(p, c)
    [] OTHER -> PicksFrom(p, Smaller(c, p.n - p.min))

(* What the server accepts.                                                *)
Accepts(p, cmd) ==
  \/ cmd.k = "pick" /\ cmd.items \in p.wants
  \/ cmd.k = "meta" /\ CASE p.type = "yesno" -> cmd.x = "n"
                         [] p.type \in {"chain", "name"} -> p.free /\ cmd.x = "c"
                         [] p.type = "unselect" -> p.free /\ cmd.x = "f"
                         [] OTHER -> FALSE

-----------------------------------------------------------------------------
(* Before the duel.                                                        *)

(* The line or command at the head of a pipe, if any.                      *)
First(q) == {q[i] : i \in DOMAIN q \cap {1}}

Read(l) == down # <<>> /\ l = Head(down) /\ down' = Tail(down)
Send(cmds) == up' = up \o cmds

(* What ends the bot, by state.                                            *)
Failures == [LOGIN_NICKNAME |-> {}, LOGIN_PASSWORD |-> {"NoAccount"},
             LOBBY |-> {"LoginFailed"}, ROOM_SETUP |-> {"RoomFailed"},
             PRE_DUEL_RPS |-> {}, PRE_DUEL_DECISION |-> {}]

RoomCommands == IF profile = "host"
                THEN <<C("banlist"), C("finish"), C("move"), C("deck")>>
                ELSE <<C("move"), C("deck")>>

Rps == [k |-> "pick", x |-> "rps", items |-> {1}]

(* _dispatch before the duel: each handler answers the lines it knows and  *)
(* lets the others pass.                                                   *)
Dispatch(l) ==
  /\ state \in DOMAIN Failures /\ Read(l)
  /\ UNCHANGED <<profile, duel, server>>
  /\ IF l.k \in Failures[state]
     THEN state' = "FINISHED" /\ UNCHANGED <<up, sentRoom, ready>>
     ELSE \/ /\ state = "LOGIN_NICKNAME"
             /\ IF l.k = "Nickname" THEN Send(<<C("nickname")>>) /\ state' = "LOGIN_PASSWORD"
                                    ELSE UNCHANGED <<up, state>>
             /\ UNCHANGED <<sentRoom, ready>>
          \/ /\ state = "LOGIN_PASSWORD"
             /\ IF l.k = "Password" THEN Send(<<C("password")>>) /\ state' = "LOBBY"
                                    ELSE UNCHANGED <<up, state>>
             /\ UNCHANGED <<sentRoom, ready>>
          \/ /\ state = "LOBBY"
             /\ Send(<<C(IF profile = "host" THEN "create" ELSE "join")>>)
             /\ state' = "ROOM_SETUP" /\ UNCHANGED <<sentRoom, ready>>
          \/ /\ state = "ROOM_SETUP"
             /\ LET start == profile = "host" /\ l.k = "DeckLoaded" /\ ~ready
                IN  /\ Send((IF sentRoom THEN <<>> ELSE RoomCommands)
                             \o (IF start THEN <<C("start")>> ELSE <<>>)
                             \o (IF l.k = "Rock" THEN <<Rps>> ELSE <<>>))
                    /\ ready' = (ready \/ start)
             /\ sentRoom' = TRUE
             /\ state' = IF l.k = "Rock" THEN "PRE_DUEL_RPS" ELSE state
          \/ /\ state \in {"PRE_DUEL_RPS", "PRE_DUEL_DECISION"}
             /\ CASE l.k = "Rock" /\ state = "PRE_DUEL_RPS" -> Send(<<Rps>>) /\ UNCHANGED state
                  [] l.k = "Yes" -> Send(<<C("first")>>) /\ state' = "PRE_DUEL_DECISION"
                  [] l.k = "DuelCreated" -> state' = "DUEL" /\ UNCHANGED up
                  [] OTHER -> UNCHANGED <<up, state>>
             /\ UNCHANGED <<sentRoom, ready>>

-----------------------------------------------------------------------------
(* The duel.                                                               *)

Deciding == {"answer", "decide", "resume", "info"}    (* loops that do not read *)
Reading  == {"run", "resync", "probe", "submenu", "probeAttack", "discardAttack",
             "probeActivate", "discardActivate", "execAttack", "execActivate"}

(* A duel-end line, wherever it is read.                                   *)
SeeEnd ==
  /\ state = "DUEL" /\ pc \in Reading
  /\ \E l \in First(down) : l.k = "end" /\ Read(l)
  /\ state' = "FINISHED"
  /\ UNCHANGED <<lobby, duel, up, server>>

(* A line that the loop `at` reads through the parser. Nothing prompts in a*)
(* resync: the server asks already, and waits.                             *)
Hear(at, l) ==
  /\ state = "DUEL" /\ pc = at /\ down # <<>> /\ Head(down).k # "end" /\ Read(l)
  /\ parser' = Parse(l).parser
  /\ strayed' = (strayed \/ (at = "resync" /\ Parse(l).prompt # NoPrompt))
  /\ UNCHANGED <<state, lobby, server>>

(* Mutant: a battle prompt with attacks is not probed for activations.     *)
ProbeNextNoActivate(opts) ==
  IF "a" \in opts THEN Send(<<C("a")>>) /\ pc' = "probeAttack" ELSE pc' = "decide" /\ UNCHANGED up

(* BattleCmdHandler probes the attacks, then the activations, then decides.*)
ProbeNext(opts) ==
  CASE "a" \in opts -> Send(<<C("a")>>) /\ pc' = "probeAttack"
    [] "a" \notin opts /\ "c" \in opts -> Send(<<C("c")>>) /\ pc' = "probeActivate"
    [] OTHER -> pc' = "decide" /\ UNCHANGED up

(* _act_on_prompt, up to its first await.                                  *)
Begin(p) ==
  /\ held' = p
  /\ CASE p.type = "idle"   -> Send(<<C("?")>>) /\ pc' = "probe"
       [] p.type = "battle" -> ProbeNext(p.opts)
       [] OTHER             -> pc' = "answer" /\ UNCHANGED up

(* _act_on_prompt returns, and forgets its locals: to the main loop, or,   *)
(* when the prompt was met in a resync, to the one that started the resync.*)
Return ==
  /\ pc' = IF outer = NoPrompt THEN "run" ELSE "resume"
  /\ held' = NoPrompt /\ offered' = {} /\ chosen' = NoAction /\ letters' = {}

(* _handle_duel: our turn asks for a resync, which the next idle or battle *)
(* prompt starts; any other prompt is answered.                            *)
HandleDuel(l) ==
  /\ Hear("run", l)
  /\ LET p == Parse(l).prompt
         turn == parser.mode = "scan" /\ l.k = "ourTurn"
     IN  IF p.type \in {"idle", "battle"} /\ pending
         THEN /\ pending' = FALSE /\ pc' = "info" /\ ix' = 1 /\ outer' = p
              /\ UNCHANGED <<up, held>>
         ELSE /\ pending' = (pending \/ turn)
              /\ IF p = NoPrompt THEN UNCHANGED <<up, pc, held>> ELSE Begin(p)
              /\ UNCHANGED <<ix, outer>>
  /\ UNCHANGED <<offered, chosen, letters>>

SendInfo ==
  /\ state = "DUEL" /\ pc = "info"
  /\ Send(<<C(InfoCmds[ix])>>) /\ pc' = "resync"
  /\ UNCHANGED <<state, lobby, pending, parser, held, outer, ix, offered, chosen, letters, strayed,
                 down, server>>

(* Mutants: the answer ends with its first line; one command too many.     *)
AnsweredAtOnce(l) == l.k = "info"
LastInfoLate      == ix > Len(InfoCmds)

Answered(l) == l.k \in Reprompts
LastInfo    == ix = Len(InfoCmds)

(* _send_resync: read up to the re-prompt; a prompt in between is acted on *)
(* and ends the resync.                                                    *)
Resync(l) ==
  /\ Hear("resync", l)
  /\ LET p == Parse(l).prompt
     IN  IF p # NoPrompt
         THEN Begin(p) /\ UNCHANGED ix
         ELSE /\ UNCHANGED <<up, held>>
              /\ CASE ~Answered(l)             -> UNCHANGED <<pc, ix>>
                   [] Answered(l) /\ LastInfo  -> pc' = "resume" /\ UNCHANGED ix
                   [] Answered(l) /\ ~LastInfo -> pc' = "info" /\ ix' = ix + 1
  /\ UNCHANGED <<pending, outer, offered, chosen, letters>>

Resume ==
  /\ state = "DUEL" /\ pc = "resume"
  /\ Begin(outer) /\ outer' = NoPrompt
  /\ UNCHANGED <<state, lobby, pending, parser, ix, offered, chosen, letters, strayed, down,
                 server>>

(* A prompt without a handler.                                             *)
YesNo == [type |-> "yesno", n |-> 1, min |-> 1, free |-> FALSE, wants |-> {{1}}]

Answer ==
  /\ state = "DUEL" /\ pc = "answer"
  /\ CASE held.type = "ask" ->
            \E c \in AgentChoices(Prompt[held.name]) : Send(<<Translate(Prompt[held.name], c)>>)
       [] held.type = "question" -> \E c \in AgentChoices(YesNo) : Send(<<Translate(YesNo, c)>>)
       [] OTHER -> \E o \in IF held.opts = {} THEN {"e"} ELSE held.opts : Send(<<C(o)>>)
  /\ Return
  /\ UNCHANGED <<state, lobby, pending, parser, outer, ix, strayed, down, server>>

(* IdleCmdHandler: "?" lists the usable cards, up to a re-prompt or menu.  *)
Probe(l) ==
  /\ Hear("probe", l)
  /\ IF l.k = "usable"
     THEN offered' = offered \cup {<<l.x, i>> : i \in l.items} /\ UNCHANGED pc
     ELSE /\ UNCHANGED offered
          /\ pc' = IF l.k \in Reprompts \/ Parse(l).prompt # NoPrompt THEN "decide" ELSE pc
  /\ UNCHANGED <<up, pending, held, outer, ix, chosen, letters>>

(* A list of the battle menu, read to its end, and back; then past the menu*)
(* that is shown again, without the parser.                                *)
ProbeMenu(at, letter, last, next) ==
  \E l \in First(down) :
    /\ Hear(at, l)
    /\ offered' = IF l.k = "spec" THEN offered \cup {<<letter, l.x>>} ELSE offered
    /\ IF l.k = last THEN Send(<<C("z")>>) /\ pc' = next ELSE UNCHANGED <<up, pc>>
    /\ UNCHANGED <<pending, held, outer, ix, chosen, letters>>

ProbeAttack   == ProbeMenu("probeAttack", "a", "selectCard", "discardAttack")
ProbeActivate == ProbeMenu("probeActivate", "c", "enterText", "discardActivate")

Discard(l) ==
  /\ state = "DUEL" /\ pc \in {"discardAttack", "discardActivate"}
  /\ Read(l) /\ l.k # "end"
  /\ IF l.k = "selectOption"
     THEN ProbeNext(held.opts \cap IF pc = "discardAttack" THEN {"c"} ELSE {})
     ELSE UNCHANGED <<up, pc>>
  /\ UNCHANGED <<state, lobby, pending, parser, held, outer, ix, offered, chosen, letters,
                 strayed, server>>

(* The agent chooses among the probed actions and the phases of the prompt,*)
(* or ends the phase.                                                      *)
Phases     == [idle |-> {"b", "e"}, battle |-> {"m", "e"}]
Structured == offered \cup {<<l, "">> : l \in held.opts \cap Phases[held.type]}

Decide ==
  /\ state = "DUEL" /\ pc = "decide"
  /\ \/ \E a \in {a \in Structured : a[2] = ""} \cup {<<"e", "">>} : Send(<<C(a[1])>>) /\ Return
     \/ \E a \in {a \in Structured : a[2] # ""} :
          /\ chosen' = a /\ UNCHANGED <<held, offered, letters>>
          /\ Send(<<C(IF held.type = "idle" THEN a[2] ELSE a[1])>>)
          /\ pc' = CASE held.type = "idle" -> "submenu"
                     [] held.type # "idle" /\ a[1] = "a" -> "execAttack"
                     [] OTHER -> "execActivate"
  /\ UNCHANGED <<state, lobby, pending, parser, outer, ix, strayed, down, server>>

(* The submenu letter to send: the one wanted, for several effects the     *)
(* first of them, else back.                                               *)
SubmenuLetter ==
  LET effects == letters \cap {"va", "vb"}
  IN  CASE chosen[1] \in letters -> chosen[1]
        [] chosen[1] \notin letters /\ chosen[1] = "v" /\ effects # {} ->
             IF "va" \in effects THEN "va" ELSE "vb"
        [] OTHER -> "z"

Submenu(l) ==
  /\ Hear("submenu", l)
  /\ IF l.k = "selectAction" THEN Send(<<C(SubmenuLetter)>>) /\ Return
     ELSE /\ letters' = IF l.k = "letter" THEN letters \cup {l.x} ELSE letters
          /\ UNCHANGED <<up, pc, held, offered, chosen>>
  /\ UNCHANGED <<pending, outer, ix>>

Execute(at, last) ==
  \E l \in First(down) :
    /\ Hear(at, l)
    /\ IF l.k = last THEN Send(<<C(chosen[2])>>) /\ Return
       ELSE UNCHANGED <<up, pc, held, offered, chosen, letters>>
    /\ UNCHANGED <<pending, outer, ix>>

ExecAttack   == Execute("execAttack", "selectCard")
ExecActivate == Execute("execActivate", "enterText")

ClientNext ==
  \/ SendInfo \/ Resume \/ Answer \/ Decide
  \/ SeeEnd \/ ProbeAttack \/ ProbeActivate \/ ExecAttack \/ ExecActivate
  \/ \E l \in First(down) :
       Dispatch(l) \/ HandleDuel(l) \/ Resync(l) \/ Probe(l) \/ Discard(l) \/ Submenu(l)

-----------------------------------------------------------------------------
(* The server, as the bot's code and tests show it.                        *)

client == <<state, lobby, duel>>
Say(lines) == down' = down \o lines
Take(cmd) == up # <<>> /\ cmd = Head(up) /\ up' = Tail(up)

(* Login, room, and who goes first.                                        *)
ServeLogin ==
  /\ \E cmd \in First(up) :
       /\ Take(cmd)
       /\ \/ srv = "nickname" /\ srv' = "password" /\ Say(<<L("Password", "")>>)
          \/ srv = "nickname" /\ srv' = "closed" /\ Say(<<L("NoAccount", "")>>)
          \/ srv = "password" /\ srv' = "lobby" /\ Say(<<L("Motd", "")>>)
          \/ srv = "password" /\ srv' = "closed" /\ Say(<<L("LoginFailed", "")>>)
          \/ srv = "lobby" /\ srv' = "room" /\ Say(<<L("Room", "")>>)
          \/ srv = "lobby" /\ cmd.x = "join" /\ srv' = "closed" /\ Say(<<L("RoomFailed", "")>>)
          \/ srv = "decide" /\ srv' = "duel" /\ Say(<<L("DuelCreated", "")>>)
  /\ UNCHANGED <<client, ask, asks, ties, decks, guestIn, rejected>>

(* The guest enters a host's room once it is set up, and loads its deck.   *)
ServeRoom ==
  /\ srv = "room" /\ UNCHANGED <<client, ask, asks, ties>>
  /\ \/ \E cmd \in First(up) :
          /\ Take(cmd)
          /\ \/ cmd.x \in {"banlist", "move", "finish"}
                /\ guestIn' = (guestIn \/ cmd.x = "finish")
                /\ UNCHANGED <<srv, decks, rejected, down>>
             \/ cmd.x = "deck" /\ decks' = decks \cup {"own"}
                /\ Say(<<L("DeckOk", "")>>) /\ UNCHANGED <<srv, guestIn, rejected>>
             \/ cmd.x = "deck" /\ srv' = "closed"
                /\ Say(<<L("RoomFailed", "")>>) /\ UNCHANGED <<decks, guestIn, rejected>>
             \/ /\ cmd.x = "start" /\ rejected' = (rejected \/ decks # {"own", "guest"})
                /\ srv' = "rps" /\ Say(<<L("Rock", "")>>) /\ UNCHANGED <<decks, guestIn>>
     \/ /\ guestIn /\ "guest" \notin decks /\ decks' = decks \cup {"guest"}
        /\ Say(<<L("DeckLoaded", "")>>) /\ UNCHANGED <<srv, guestIn, rejected, up>>
     \/ /\ profile = "guest" /\ "own" \in decks /\ srv' = "rps"
        /\ Say(<<L("Rock", "")>>) /\ UNCHANGED <<decks, guestIn, rejected, up>>

ServeRps ==
  /\ srv = "rps" /\ \E cmd \in First(up) : Take(cmd) /\ cmd = Rps
  /\ \/ ties < MaxTies /\ ties' = ties + 1 /\ Say(<<L("Rock", "")>>) /\ UNCHANGED srv
     \/ srv' = "decide" /\ ties' = 0 /\ Say(<<L("Yes", "")>>)
     \/ srv' = "duel" /\ ties' = 0 /\ Say(<<L("Wait", ""), L("DuelCreated", "")>>)
  /\ UNCHANGED <<client, ask, asks, decks, guestIn, rejected>>

Of(m, letter) == {u[2] : u \in {v \in m.usable : v[1] = letter}}
UsableLines == SetToSeq({[k |-> "usable", x |-> a, items |-> Of(ask, a)] : a \in {u[1] : u \in ask.usable}})

IdleLines(m) == <<L("idleHead", "")>> \o Lines("letter", m.phases) \o <<L("selectCard", "")>>
BattleLines(m) == <<L("battleHead", "")>> \o Lines("letter", m.phases \cup {u[1] : u \in m.usable})
                    \o <<L("selectOption", "")>>

(* The engine asks, at the start of a turn of ours or later.               *)
Engine ==
  /\ srv = "duel" /\ ask = NoMenu /\ asks < MaxAsks /\ asks' = asks + 1
  /\ \E turn \in BOOLEAN :
       LET said(lines) == Say((IF turn THEN <<L("ourTurn", "")>> ELSE <<>>) \o lines)
       IN  \/ \E u \in SUBSET ({"s", "v"} \X Specs), ph \in {{"e"}, {"b", "e"}} :
                /\ ask' = [p |-> "idle", usable |-> u, phases |-> ph, x |-> ""]
                /\ said(IdleLines(ask'))
           \/ \E u \in SUBSET ({"a", "c"} \X Specs), ph \in {{"e"}, {"m", "e"}} :
                /\ ask' = [p |-> "battle", usable |-> u, phases |-> ph, x |-> ""]
                /\ said(BattleLines(ask'))
           \/ \E a \in DOMAIN Prompt :
                /\ ask' = [NoMenu EXCEPT !.p = "ask", !.x = a]
                /\ said(<<IF Prompt[a].type = "yesno" THEN L("question", a) ELSE L("ask", a)>>)
  /\ UNCHANGED <<client, up, srv, ties, decks, guestIn, rejected>>

(* The duel ends, between prompts or in the middle of one.                 *)
End ==
  /\ srv = "duel" /\ srv' = "closed" /\ Say(<<L("end", "")>>)
  /\ UNCHANGED <<client, up, ask, asks, ties, decks, guestIn, rejected>>

Info(cmd) == cmd.k = "command" /\ \E i \in DOMAIN InfoCmds : InfoCmds[i] = cmd.x
(* Its answer: what is asked, and maybe a card whose name is a question.   *)
InfoLines(x) == {<<L("info", x)>>}
                  \cup (IF x \in Questions THEN {<<L("info", x), L("question", x)>>} ELSE {})

LettersOf(x) == (IF <<"s", x>> \in ask.usable THEN {"s"} ELSE {})
                  \cup (IF <<"v", x>> \notin ask.usable THEN {}
                        ELSE IF x \in Multi THEN {"va", "vb"} ELSE {"v"})

(* One command, by what the server waits for: accepted, with what it then  *)
(* waits for and says, or refused.                                         *)
To(m, lines) == ask' = m /\ Say(lines) /\ UNCHANGED rejected
Refuse(line) == rejected' = TRUE /\ Say(<<L(line, "")>>) /\ UNCHANGED ask

ServeIdle(cmd) ==
  CASE cmd = C("?") -> \/ To(ask, UsableLines \o <<L("selectCard", "")>>)
                       \/ To(ask, UsableLines \o IdleLines(ask))
    [] Info(cmd) -> \E lines \in InfoLines(cmd.x) : To(ask, lines \o <<L("selectCard", "")>>)
    [] cmd.k = "command" /\ cmd.x \in ask.phases -> To(NoMenu, <<>>)
    [] cmd.k = "command" /\ LettersOf(cmd.x) # {} ->
         To([ask EXCEPT !.p = "submenu", !.x = cmd.x],
            Lines("letter", LettersOf(cmd.x) \cup {"i", "z"}) \o <<L("selectAction", "")>>)
    [] OTHER -> Refuse("selectCard")

ServeSubmenu(cmd) ==
  CASE cmd.x \in LettersOf(ask.x) -> To(NoMenu, <<>>)
    [] cmd = C("z") -> To([ask EXCEPT !.p = "idle", !.x = ""], IdleLines(ask))
    [] OTHER -> Refuse("selectAction")

SubLines(a) == <<L(IF a = "a" THEN "attackHead" ELSE "activateHead", "")>>
                 \o Lines("spec", Of(ask, a))
                 \o <<L("letter", "z"), L(IF a = "a" THEN "selectCard" ELSE "enterText", "")>>

ServeBattle(cmd) ==
  CASE Info(cmd) -> \E lines \in InfoLines(cmd.x) : To(ask, lines \o <<L("selectOption", "")>>)
    [] cmd.x \in {u[1] : u \in ask.usable} ->
         To([ask EXCEPT !.p = "list", !.x = cmd.x], SubLines(cmd.x))
    [] cmd.k = "command" /\ cmd.x \in ask.phases -> To(NoMenu, <<>>)
    [] OTHER -> Refuse("selectOption")

ServeList(cmd) ==
  CASE cmd.k = "command" /\ cmd.x \in Of(ask, ask.x) -> To(NoMenu, <<>>)
    [] cmd = C("z") -> To([ask EXCEPT !.p = "battle", !.x = ""], BattleLines(ask))
    [] OTHER -> Refuse("selectCard")

ServeAsk(cmd) ==
  IF Accepts(Prompt[ask.x], cmd) THEN To(NoMenu, <<>>) ELSE Refuse("enterText")

ServeDuel ==
  /\ srv = "duel" /\ ask # NoMenu
  /\ \E cmd \in First(up) :
       /\ Take(cmd)
       /\ CASE ask.p = "idle"    -> ServeIdle(cmd)
            [] ask.p = "submenu" -> ServeSubmenu(cmd)
            [] ask.p = "battle"  -> ServeBattle(cmd)
            [] ask.p = "list"    -> ServeList(cmd)
            [] OTHER             -> ServeAsk(cmd)
  /\ UNCHANGED <<client, srv, asks, ties, decks, guestIn>>

ServerNext ==
  ServeLogin \/ ServeRoom \/ ServeRps \/ Engine \/ ServeDuel \/ End

Terminated == state = "FINISHED" /\ UNCHANGED vars

Next == ClientNext \/ (ServerNext /\ state # "FINISHED") \/ Terminated

Spec     == Init /\ [][Next]_vars
(* The coroutine runs when a line is there, and the server serves what it  *)
(* has asked for; it need not end a duel in the middle of a prompt.        *)
FairSpec ==
  Spec /\ WF_vars(ClientNext) /\ WF_vars(ServerNext /\ (ask = NoMenu \/ srv' = srv))

-----------------------------------------------------------------------------
(* Properties.                                                             *)

TypeOK ==
  /\ state \in DOMAIN Failures \cup {"DUEL", "FINISHED"}
  /\ pc \in Deciding \cup Reading
  /\ parser.mode \in {"scan"} \cup DOMAIN Terminal
  /\ ix \in DOMAIN InfoCmds
  /\ ask.p \in {"none", "idle", "submenu", "battle", "list", "ask"}
  /\ srv \in {"nickname", "password", "lobby", "room", "rps", "decide", "duel", "closed"}
  /\ {pending, sentRoom, ready, guestIn, rejected, strayed} \subseteq BOOLEAN

(* The server refuses no command that the bot can know to be right: no card*)
(* action that is gone, no start before both decks are in, no answer with  *)
(* too few picks or to a prompt that is over. What it may refuse is an     *)
(* answer that the bot has not worked out (Guessed); it is not repeated,   *)
(* and the bot waits. Once the bot has taken a line of a resync's answer   *)
(* for a question (strayed), its commands are anything.                    *)
NothingIsRefused ==
  rejected => strayed \/ (ask.p = "ask" /\ Guessed(Prompt[ask.x]))

(* The agent chooses among exactly the actions that the server would       *)
(* accept: the probe neither loses nor invents one. Past a stray it may,   *)
(* its answers then being those to other commands.                         *)
Menu == ask.usable \cup {<<l, "">> : l \in ask.phases}
OffersTheMenu == pc = "decide" /\ ~strayed => Structured = Menu

(* In the duel, nothing but the duel's end is unread when the bot sends: a *)
(* command is never answered by the rest of an earlier answer, up to a     *)
(* stray.                                                                  *)
InStep ==
  [][(state = "DUEL" /\ ~strayed' /\ Len(up') > Len(up)) =>
       \A i \in DOMAIN down' : down'[i].k = "end"]_vars

(* The bot sees every duel through: it leaves a duel that has ended, also  *)
(* in the middle of a conversation, and waits for no line that never comes,*)
(* unless the server refuses it: it does not answer a prompt again, and    *)
(* waits for the server to end the duel.                                   *)
SeenThrough == (srv = "duel") ~> (state = "FINISHED" \/ rejected)
=============================================================================
