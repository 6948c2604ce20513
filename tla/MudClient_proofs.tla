-------------------------- MODULE MudClient_proofs --------------------------
(***************************************************************************)
(* What MudClient's run checks for two cards, eleven prompts and three     *)
(* informational commands, for any cards, prompts and commands. Until the  *)
(* bot takes a line of a resync's answer for a question (strayed), the two *)
(* keep step: that is the inductive invariant.                             *)
(***************************************************************************)
EXTENDS MudClient, FunctionTheorems, FiniteSetTheorems, TLAPS

-----------------------------------------------------------------------------
(* What is said in a stream of lines.                                      *)

(* Nothing but the duel's end.                                             *)
Over(q) == \A i \in DOMAIN q : q[i].k = "end"

(* Lines of the kinds K, and nothing else.                                 *)
AllOf(q, K) == \A i \in DOMAIN q : q[i].k \in K

(* Lines of the kinds K up to one of the kind t, the last of an answer.    *)
Ends(q, K, t) ==
  \E n \in DOMAIN q : /\ q[n].k = t
                      /\ \A i \in DOMAIN q : i < n => q[i].k \in K
                      /\ \A i \in DOMAIN q : n < i => q[i].k = "end"

(* The letters, cards or usable actions in it.                             *)
Said(q, k) == {q[i].x : i \in {j \in DOMAIN q : q[j].k = k}}
Usable(q)  == UNION {{q[i].x} \X q[i].items : i \in {j \in DOMAIN q : q[j].k = "usable"}}

-----------------------------------------------------------------------------
(* The inductive invariant: what the server asks, and how.                 *)

Kinds   == {"Nickname", "Password", "NoAccount", "Motd", "LoginFailed", "Room", "RoomFailed",
            "DeckOk", "DeckLoaded", "Rock", "Yes", "Wait", "DuelCreated", "ourTurn", "idleHead",
            "battleHead", "attackHead", "activateHead", "letter", "spec", "usable", "selectCard",
            "selectOption", "enterText", "selectAction", "ask", "question", "info", "end"}
Letters == {"", "a", "b", "c", "e", "i", "m", "s", "v", "va", "vb", "z"}
Infos   == {InfoCmds[i] : i \in DOMAIN InfoCmds}
Names   == Letters \cup Specs \cup Infos \cup DOMAIN Prompt
Line    == [k : Kinds, x : Names, items : SUBSET Specs]

Idles   == {"idle", "submenu"}
Battles == {"battle", "list"}
Menus   == {"idle", "battle"}

Typed ==
  /\ down \in Seq(Line)
  /\ parser \in [mode : {"scan"} \cup DOMAIN Terminal, opts : SUBSET Names, idle : BOOLEAN]
  /\ ask \in [p : {"none", "ask"} \cup Idles \cup Battles,
              usable : SUBSET (Letters \X Specs), phases : SUBSET Letters, x : Names]

AskInv ==
  /\ ask.p = "none" <=> ask = NoMenu
  /\ ask.p \in Idles =>
       ask.usable \subseteq {"s", "v"} \X Specs /\ ask.phases \in {{"e"}, {"b", "e"}}
  /\ ask.p \in Battles =>
       ask.usable \subseteq {"a", "c"} \X Specs /\ ask.phases \in {{"e"}, {"m", "e"}}
  /\ ask.p = "ask" => ask.x \in DOMAIN Prompt
  /\ srv \notin {"duel", "closed"} => ask = NoMenu

(* The letters of a menu, and a prompt that is the menu the server shows.  *)
Opts(type) == ask.phases \cup (IF type = "idle" THEN {} ELSE {u[1] : u \in ask.usable})
Shows(p)   == p.type \in Menus /\ p.opts = Opts(p.type)
HeadOf     == [idle |-> "idleHead", battle |-> "battleHead"]

(* A menu or a prompt, from its first line on.                             *)
Opening(q) ==
  /\ q # <<>>
  /\ \/ /\ ask.p \in Menus /\ Head(q).k = HeadOf[ask.p]
        /\ Ends(Tail(q), {"letter"}, Terminal[ask.p])
        /\ Said(Tail(q), "letter") = Opts(ask.p)
     \/ /\ ask.p = "ask" /\ Over(Tail(q)) /\ Head(q).x = ask.x
        /\ Head(q).k = IF Prompt[ask.x].type = "yesno" THEN "question" ELSE "ask"

(* What the server says after it has refused an answer.                    *)
Refusals == {"enterText", "end"}

(* What the main loop reads: nothing, the rest of a menu, or a prompt; or a*)
(* refusal, after which it waits for ever.                                 *)
Following(q) ==
  \/ ask = NoMenu /\ parser.mode = "scan" /\ Over(q)
  \/ /\ ask.p \in Menus /\ parser.mode = ask.p
     /\ Ends(q, {"letter"}, Terminal[ask.p])
     /\ parser.opts \cup Said(q, "letter") = Opts(ask.p)
  \/ parser.mode = "scan" /\ Opening(q)
  \/ parser.mode = "scan" /\ q # <<>> /\ Head(q).k = "ourTurn" /\ Opening(Tail(q))
  \/ ask.p = "ask" /\ parser.mode = "scan" /\ AllOf(q, Refusals)

(* A command that answers what the server asks.                            *)
Final(cmd) ==
  \/ ask.p \in Menus /\ \E l \in ask.phases : cmd = C(l)
  \/ ask.p = "submenu" /\ \E l \in LettersOf(ask.x) : cmd = C(l)
  \/ ask.p = "list" /\ \E x \in Of(ask, ask.x) : cmd = C(x)
  \/ ask.p = "ask" /\ (Guessed(Prompt[ask.x]) \/ Accepts(Prompt[ask.x], cmd))

-----------------------------------------------------------------------------
(* The inductive invariant: before the duel.                               *)

(* One command or line on its way.                                         *)
Sent(x)  == up = <<C(x)>> /\ down = <<>>
Heard(k) == up = <<>> /\ down = <<L(k, "")>>

LoginCase ==
  /\ ~sentRoom /\ ~ready /\ ~guestIn /\ decks = {}
  /\ srv = "nickname" => \/ state = "LOGIN_NICKNAME" /\ Heard("Nickname")
                         \/ state = "LOGIN_PASSWORD" /\ Sent("nickname")
  /\ srv = "password" => \/ state = "LOGIN_PASSWORD" /\ Heard("Password")
                         \/ state = "LOBBY" /\ Sent("password")
  /\ srv = "lobby"    => \/ state = "LOBBY" /\ Heard("Motd")
                         \/ state = "ROOM_SETUP" /\ (Sent("create") \/ Sent("join"))

(* The room's commands that are still to come end with the deck, and the   *)
(* host's start comes after it.                                            *)
HostRoom  == {<<C("banlist"), C("finish"), C("move"), C("deck")>>,
              <<C("finish"), C("move"), C("deck")>>}
GuestRoom == {<<C("move"), C("deck")>>, <<C("deck")>>}
Start     == IF ready THEN <<C("start")>> ELSE <<>>

Loading == /\ AllOf(down, {"DeckOk", "DeckLoaded"})
           /\ Said(down, "DeckLoaded") # {} => "guest" \in decks
           /\ \/ "own" \in decks /\ up = Start
              \/ "own" \notin decks /\ profile = "host" /\ \E r \in HostRoom : up = r \o Start
              \/ "own" \notin decks /\ \E r \in GuestRoom : up = r \o Start

RoomCase ==
  /\ state = "ROOM_SETUP"
  /\ IF sentRoom THEN Loading ELSE Heard("Room") /\ ~ready /\ ~guestIn /\ decks = {}

RpsCase ==
  \/ /\ state = "ROOM_SETUP" /\ sentRoom /\ up = <<>> /\ (ready \/ profile = "guest")
     /\ Ends(down, {"DeckOk", "DeckLoaded"}, "Rock")
  \/ state = "PRE_DUEL_RPS" /\ up = <<Rps>> /\ down = <<>>
  \/ state = "PRE_DUEL_RPS" /\ Heard("Rock")

DecideCase == \/ state = "PRE_DUEL_RPS" /\ Heard("Yes")
              \/ state = "PRE_DUEL_DECISION" /\ Sent("first")

Created(q) == q # <<>> /\ Head(q).k = "DuelCreated" /\ Following(Tail(q))
CreatedCase ==
  /\ state \in {"PRE_DUEL_RPS", "PRE_DUEL_DECISION"} /\ up = <<>>
  /\ Created(down) \/ (down # <<>> /\ Head(down).k = "Wait" /\ Created(Tail(down)))

FailedCase == srv = "closed" /\ \A i \in DOMAIN down : down[i].k # "DuelCreated"

Scans == parser.mode = "scan"
Clear == held = NoPrompt /\ offered = {} /\ letters = {}

LobbyInv ==
  state \notin {"DUEL", "FINISHED"} =>
    /\ pc = "run" /\ outer = NoPrompt /\ Clear /\ Scans
    /\ profile \in {"host", "guest"} /\ state \in DOMAIN Failures
    /\ decks \subseteq {"own", "guest"}
    /\ srv # "closed" /\ ready => profile = "host" /\ "guest" \in decks
    /\ guestIn => profile = "host"
    /\ srv \in {"nickname", "password", "lobby"} => LoginCase
    /\ srv = "room"   => RoomCase
    /\ srv = "rps"    => RpsCase
    /\ srv = "decide" => DecideCase
    /\ srv \in {"duel", "closed"} => CreatedCase \/ FailedCase

-----------------------------------------------------------------------------
(* The inductive invariant: in the duel, loop by loop.                     *)

Quiet      == up = <<>> /\ Over(down)
Asked(x)   == up = <<C(x)>> /\ Over(down)
Told(K, t) == up = <<>> /\ Ends(down, K, t)

RunCase ==
  /\ outer = NoPrompt /\ Clear
  /\ \/ up = <<>> /\ Following(down)
     \/ Scans /\ Over(down) /\ up = <<Head(up)>> /\ Final(Head(up))

AnswerCase ==
  /\ outer = NoPrompt /\ offered = {} /\ letters = {} /\ Scans /\ Quiet
  /\ ask.p = "ask" /\ held.type \in {"ask", "question"}
  /\ held.type = "ask" => held.name = ask.x
  /\ held.type = "question" => Prompt[ask.x].type = "yesno"

(* The resync, between two commands and in the answer to one.              *)
InfoCase   == Shows(outer) /\ ask.p = outer.type /\ Clear /\ Scans /\ Quiet
ResyncCase ==
  /\ Shows(outer) /\ ask.p = outer.type /\ Clear /\ Scans
  /\ Asked(InfoCmds[ix]) \/ Told({"info", "question"}, IF ask.p = "idle" THEN "selectCard" ELSE "selectOption")

Handling(type) == Shows(held) /\ held.type = type /\ outer = NoPrompt /\ letters = {}

ProbeCase ==
  /\ Handling("idle") /\ ask.p = "idle"
  /\ \/ Asked("?") /\ offered = {} /\ Scans
     \/ /\ Told({"usable", "idleHead", "letter"}, "selectCard")
        /\ parser.mode \in {"scan", "idle"}
        /\ Said(down, "letter") \subseteq ask.phases
        /\ offered \cup Usable(down) = ask.usable

DecisionCase ==
  /\ Handling(held.type) /\ ask.p = held.type /\ Scans /\ Quiet
  /\ offered = ask.usable

SubmenuCase ==
  /\ held.type = "idle" /\ outer = NoPrompt /\ chosen \in ask.usable
  /\ \/ ask.p = "idle" /\ Asked(chosen[2]) /\ letters = {} /\ Scans
     \/ /\ ask.p = "submenu" /\ ask.x = chosen[2] /\ parser.mode \in {"scan", "submenu"}
        /\ Told({"letter"}, "selectAction")
        /\ letters \cup Said(down, "letter") = LettersOf(ask.x) \cup {"i", "z"}

(* A list of the battle menu: asked for, to come, or being read.           *)
ListMode(letter) == IF letter = "a" THEN "attack" ELSE "activate"
ListHead(letter) == IF letter = "a" THEN "attackHead" ELSE "activateHead"

ListAsked(letter) == ask.p = "battle" /\ letter \in Opts("battle") /\ Asked(letter) /\ Scans
ListTold(letter)  ==
  /\ ask.p = "list" /\ ask.x = letter /\ up = <<>>
  /\ \/ /\ Scans /\ down # <<>> /\ Head(down).k = ListHead(letter)
        /\ Ends(Tail(down), {"spec", "letter"}, Terminal[ListMode(letter)])
     \/ /\ parser.mode = ListMode(letter)
        /\ Ends(down, {"spec", "letter"}, Terminal[ListMode(letter)])

With(letter) == {u \in ask.usable : u[1] = letter}
Listed(letter) == {<<letter, x>> : x \in Said(down, "spec")}

ListCase(letter, before) ==
  /\ Handling("battle")
  /\ \/ ListAsked(letter) /\ offered = before
     \/ ListTold(letter) /\ offered \cup Listed(letter) = before \cup With(letter)

DiscardCase(letter, before) ==
  /\ Handling("battle") /\ Scans /\ offered = before \cup With(letter)
  /\ \/ ask.p = "list" /\ Asked("z")
     \/ ask.p = "battle" /\ Told({"battleHead", "letter"}, "selectOption")

ExecCase(letter) ==
  /\ held.type = "battle" /\ outer = NoPrompt
  /\ chosen \in ask.usable /\ chosen[1] = letter
  /\ ListAsked(letter) \/ ListTold(letter)

DuelInv ==
  state = "DUEL" =>
    /\ pc = "run" => RunCase
    /\ pc = "answer" => AnswerCase
    /\ pc \in {"info", "resume"} => InfoCase
    /\ pc = "resync" => ResyncCase
    /\ pc = "probe" => ProbeCase
    /\ pc = "decide" => DecisionCase
    /\ pc = "submenu" => SubmenuCase
    /\ pc = "probeAttack" => ListCase("a", {})
    /\ pc = "discardAttack" => DiscardCase("a", {})
    /\ pc = "probeActivate" => ListCase("c", With("a"))
    /\ pc = "discardActivate" => DiscardCase("c", With("a"))
    /\ pc = "execAttack" => ExecCase("a")
    /\ pc = "execActivate" => ExecCase("c")

(* A refused prompt is the last: the bot stands still.                     *)
Refused ==
  /\ state \in {"DUEL", "FINISHED"} /\ ask.p = "ask" /\ Guessed(Prompt[ask.x])
  /\ state = "DUEL" => pc = "run" /\ Scans /\ up = <<>> /\ AllOf(down, Refusals)

PhaseInv ==
  /\ state # "DUEL" => pc \in Reading
  /\ rejected => Refused
  /\ state = "DUEL" => srv \in {"duel", "closed"}
  /\ srv # "closed" => \A i \in DOMAIN down : down[i].k # "end"

Inv == TypeOK /\ Typed /\ AskInv /\ PhaseInv /\ LobbyInv /\ DuelInv

-----------------------------------------------------------------------------
(* Streams of lines.                                                       *)

(* Sequences, as the prover needs them.                                    *)
LEMMA ReadOf ==
  ASSUME NEW q \in Seq(Line), q # <<>>
  PROVE  /\ Len(q) \in Nat /\ Len(q) > 0 /\ DOMAIN q = 1 .. Len(q)
         /\ Head(q) = q[1] /\ Head(q) \in Line
         /\ Tail(q) \in Seq(Line) /\ DOMAIN Tail(q) = 1 .. Len(q) - 1
         /\ Len(Tail(q)) = Len(q) - 1
         /\ \A i \in 1 .. Len(q) - 1 : Tail(q)[i] = q[i + 1]
<1>1. /\ Len(q) \in Nat /\ Len(q) > 0 /\ DOMAIN q = 1 .. Len(q)
      /\ Head(q) = q[1] /\ Tail(q) \in Seq(Line) /\ Len(Tail(q)) = Len(q) - 1
      /\ \A i \in 1 .. Len(q) - 1 : Tail(q)[i] = q[i + 1]
  OBVIOUS
<1>2. DOMAIN Tail(q) = 1 .. Len(Tail(q))
  BY <1>1
<1>3. q[1] \in Line
  BY <1>1
<1> QED
  BY <1>1, <1>2, <1>3

(* Joined streams.                                                         *)
LEMMA JoinOf ==
  ASSUME NEW a \in Seq(Line), NEW b \in Seq(Line)
  PROVE  /\ a \o b \in Seq(Line) /\ Len(a \o b) = Len(a) + Len(b) /\ Len(a) \in Nat /\ Len(b) \in Nat
         /\ DOMAIN a = 1 .. Len(a) /\ DOMAIN b = 1 .. Len(b)
         /\ DOMAIN (a \o b) = 1 .. Len(a) + Len(b)
         /\ \A i \in 1 .. Len(a) : (a \o b)[i] = a[i]
         /\ \A i \in 1 .. Len(b) : (a \o b)[i + Len(a)] = b[i]
<1>1. /\ a \o b \in Seq(Line) /\ Len(a \o b) = Len(a) + Len(b)
      /\ Len(a) \in Nat /\ Len(b) \in Nat
      /\ DOMAIN a = 1 .. Len(a) /\ DOMAIN b = 1 .. Len(b)
      /\ \A i \in 1 .. Len(a) : (a \o b)[i] = a[i]
  OBVIOUS
<1>2. DOMAIN (a \o b) = 1 .. Len(a \o b)
  BY <1>1
<1>3. ASSUME NEW i \in 1 .. Len(b)
      PROVE  (a \o b)[i + Len(a)] = b[i]
  <2>1. i + Len(a) \in 1 .. Len(a) + Len(b) /\ i + Len(a) > Len(a) /\ i + Len(a) - Len(a) = i
    BY <1>1
  <2> QED
    BY <1>1, <2>1
<1> QED
  BY <1>1, <1>2, <1>3

(* What a joined stream says is what its parts say.                        *)
LEMMA SaidJoin ==
  ASSUME NEW a \in Seq(Line), NEW b \in Seq(Line)
  PROVE  /\ \A k : Said(a \o b, k) = Said(a, k) \cup Said(b, k)
         /\ Usable(a \o b) = Usable(a) \cup Usable(b)
<1>1. /\ Len(a) \in Nat /\ Len(b) \in Nat
      /\ DOMAIN a = 1 .. Len(a) /\ DOMAIN b = 1 .. Len(b)
      /\ DOMAIN (a \o b) = 1 .. Len(a) + Len(b)
      /\ \A i \in 1 .. Len(a) : (a \o b)[i] = a[i]
      /\ \A i \in 1 .. Len(b) : (a \o b)[i + Len(a)] = b[i]
  BY JoinOf
<1>2. ASSUME NEW i \in DOMAIN (a \o b)
      PROVE  \/ i \in DOMAIN a /\ (a \o b)[i] = a[i]
             \/ \E j \in DOMAIN b : (a \o b)[i] = b[j]
  <2>1. CASE i \in 1 .. Len(a)
    BY <1>1, <2>1
  <2>2. CASE i \notin 1 .. Len(a)
    <3>1. i - Len(a) \in 1 .. Len(b) /\ (i - Len(a)) + Len(a) = i
      BY <1>1, <2>2
    <3> QED
      BY <1>1, <3>1
  <2> QED
    BY <2>1, <2>2
<1>3. ASSUME NEW i \in DOMAIN a
      PROVE  i \in DOMAIN (a \o b) /\ (a \o b)[i] = a[i]
  BY <1>1
<1>4. ASSUME NEW j \in DOMAIN b
      PROVE  j + Len(a) \in DOMAIN (a \o b) /\ (a \o b)[j + Len(a)] = b[j]
  BY <1>1
<1>5. ASSUME NEW k
      PROVE  Said(a \o b, k) = Said(a, k) \cup Said(b, k)
  <2>1. Said(a \o b, k) \subseteq Said(a, k) \cup Said(b, k)
    BY <1>2 DEF Said
  <2>2. Said(a, k) \subseteq Said(a \o b, k)
    BY <1>3 DEF Said
  <2>3. Said(b, k) \subseteq Said(a \o b, k)
    BY <1>4 DEF Said
  <2> QED
    BY <2>1, <2>2, <2>3
<1>6. Usable(a \o b) \subseteq Usable(a) \cup Usable(b)
  BY <1>2 DEF Usable
<1>7. Usable(a) \subseteq Usable(a \o b)
  BY <1>3 DEF Usable
<1>8. Usable(b) \subseteq Usable(a \o b)
  BY <1>4 DEF Usable
<1> QED
  BY <1>5, <1>6, <1>7, <1>8

(* The kinds of line in a joined stream.                                   *)
LEMMA KindsJoin ==
  ASSUME NEW a \in Seq(Line), NEW b \in Seq(Line), NEW K, AllOf(a, K)
  PROVE  /\ AllOf(b, K) => AllOf(a \o b, K)
         /\ \A t : Ends(b, K, t) => Ends(a \o b, K, t)
<1>1. /\ Len(a) \in Nat /\ Len(b) \in Nat
      /\ DOMAIN a = 1 .. Len(a) /\ DOMAIN b = 1 .. Len(b)
      /\ DOMAIN (a \o b) = 1 .. Len(a) + Len(b)
      /\ \A i \in 1 .. Len(a) : (a \o b)[i] = a[i]
      /\ \A i \in 1 .. Len(b) : (a \o b)[i + Len(a)] = b[i]
  BY JoinOf
<1>2. ASSUME NEW i \in 1 .. Len(a) + Len(b), i \notin 1 .. Len(a)
      PROVE  i - Len(a) \in 1 .. Len(b) /\ (a \o b)[i] = b[i - Len(a)]
  <2>1. i - Len(a) \in 1 .. Len(b) /\ (i - Len(a)) + Len(a) = i
    BY <1>1, <1>2
  <2> QED
    BY <1>1, <2>1
<1>3. \A i \in 1 .. Len(a) : (a \o b)[i].k \in K
  BY <1>1 DEF AllOf
<1>4. ASSUME AllOf(b, K)
      PROVE  AllOf(a \o b, K)
  BY <1>1, <1>2, <1>3, <1>4 DEF AllOf
<1>5. ASSUME NEW t, Ends(b, K, t)
      PROVE  Ends(a \o b, K, t)
  <2>1. PICK n \in DOMAIN b : /\ b[n].k = t
                              /\ \A i \in DOMAIN b : i < n => b[i].k \in K
                              /\ \A i \in DOMAIN b : n < i => b[i].k = "end"
    BY <1>5 DEF Ends
  <2>2. n + Len(a) \in DOMAIN (a \o b) /\ (a \o b)[n + Len(a)].k = t
    BY <1>1, <2>1
  <2>3. ASSUME NEW i \in DOMAIN (a \o b), i < n + Len(a)
        PROVE  (a \o b)[i].k \in K
    <3>1. CASE i \in 1 .. Len(a)
      BY <1>3, <3>1
    <3>2. CASE i \notin 1 .. Len(a)
      <4>1. i - Len(a) \in DOMAIN b /\ (a \o b)[i] = b[i - Len(a)]
        BY <1>1, <1>2, <3>2
      <4>2. i - Len(a) < n
        BY <1>1, <2>1, <2>3
      <4> QED
        BY <2>1, <4>1, <4>2
    <3> QED
      BY <3>1, <3>2
  <2>4. ASSUME NEW i \in DOMAIN (a \o b), n + Len(a) < i
        PROVE  (a \o b)[i].k = "end"
    <3>1. i \notin 1 .. Len(a)
      BY <1>1, <2>1, <2>4
    <3>2. i - Len(a) \in DOMAIN b /\ (a \o b)[i] = b[i - Len(a)]
      BY <1>1, <1>2, <3>1
    <3>3. n < i - Len(a)
      BY <1>1, <2>1, <2>4
    <3> QED
      BY <2>1, <3>2, <3>3
  <2> QED
    BY <2>2, <2>3, <2>4 DEF Ends
<1> QED
  BY <1>4, <1>5

(* Reading the first line of an answer: it is the last one, or the rest is *)
(* still the end of an answer.                                             *)
LEMMA EndsRead ==
  ASSUME NEW q \in Seq(Line), NEW K, NEW t, Ends(q, K, t), t \notin K, "end" \notin K, t # "end"
  PROVE  /\ q # <<>> /\ Head(q).k \in K \cup {t} /\ Head(q).k # "end"
         /\ Head(q).k = t => Over(Tail(q))
         /\ Head(q).k \in K => Ends(Tail(q), K, t)
<1>1. PICK n \in DOMAIN q : /\ q[n].k = t
                            /\ \A i \in DOMAIN q : i < n => q[i].k \in K
                            /\ \A i \in DOMAIN q : n < i => q[i].k = "end"
  BY DEF Ends
<1>2. q # <<>>
  BY <1>1
<1>3. /\ Len(q) \in Nat /\ Len(q) > 0 /\ DOMAIN q = 1 .. Len(q)
      /\ Head(q) = q[1] /\ DOMAIN Tail(q) = 1 .. Len(q) - 1
      /\ \A i \in 1 .. Len(q) - 1 : Tail(q)[i] = q[i + 1]
  BY <1>2, ReadOf
<1>4. \A i \in DOMAIN Tail(q) : i + 1 \in DOMAIN q /\ Tail(q)[i] = q[i + 1]
  BY <1>3
<1>5. CASE n = 1
  <2>1. Head(q).k = t
    BY <1>1, <1>3, <1>5
  <2>2. ASSUME NEW i \in DOMAIN Tail(q) PROVE Tail(q)[i].k = "end"
    <3>1. n < i + 1
      BY <1>3, <1>5
    <3> QED
      BY <1>1, <1>4, <3>1
  <2> QED
    BY <1>2, <2>1, <2>2 DEF Over
<1>6. CASE n # 1
  <2>1. 1 \in DOMAIN q /\ 1 < n /\ n - 1 \in DOMAIN Tail(q) /\ (n - 1) + 1 = n
    BY <1>1, <1>3, <1>6
  <2>2. Head(q).k \in K
    BY <1>1, <1>3, <2>1
  <2>3. Tail(q)[n - 1].k = t
    BY <1>1, <1>4, <2>1
  <2>4. ASSUME NEW i \in DOMAIN Tail(q), i < n - 1 PROVE Tail(q)[i].k \in K
    <3>1. i + 1 < n
      BY <1>1, <1>3, <2>4
    <3> QED
      BY <1>1, <1>4, <3>1
  <2>5. ASSUME NEW i \in DOMAIN Tail(q), n - 1 < i PROVE Tail(q)[i].k = "end"
    <3>1. n < i + 1
      BY <1>1, <1>3, <2>5
    <3> QED
      BY <1>1, <1>4, <3>1
  <2>6. Ends(Tail(q), K, t)
    BY <2>1, <2>3, <2>4, <2>5 DEF Ends
  <2> QED
    BY <1>2, <2>2, <2>6
<1> QED
  BY <1>5, <1>6

(* What a stream says is what its first line and the rest say.             *)
LEMMA SaidRead ==
  ASSUME NEW q \in Seq(Line), q # <<>>
  PROVE  /\ \A k : Said(q, k) = Said(Tail(q), k)
                                  \cup (IF Head(q).k = k THEN {Head(q).x} ELSE {})
         /\ Usable(q) = Usable(Tail(q))
              \cup (IF Head(q).k = "usable" THEN {Head(q).x} \X Head(q).items ELSE {})
<1>1. /\ Len(q) \in Nat /\ Len(q) > 0 /\ DOMAIN q = 1 .. Len(q)
      /\ Head(q) = q[1] /\ DOMAIN Tail(q) = 1 .. Len(q) - 1
      /\ \A i \in 1 .. Len(q) - 1 : Tail(q)[i] = q[i + 1]
  BY ReadOf
<1>2. ASSUME NEW i \in DOMAIN q
      PROVE  q[i] = Head(q) \/ \E j \in DOMAIN Tail(q) : q[i] = Tail(q)[j]
  <2>1. CASE i = 1
    BY <1>1, <2>1
  <2>2. CASE i # 1
    <3>1. i - 1 \in 1 .. Len(q) - 1 /\ (i - 1) + 1 = i
      BY <1>1, <2>2
    <3> QED
      BY <1>1, <3>1
  <2> QED
    BY <2>1, <2>2
<1>3. ASSUME NEW j \in DOMAIN Tail(q)
      PROVE  j + 1 \in DOMAIN q /\ q[j + 1] = Tail(q)[j]
  BY <1>1
<1>4. 1 \in DOMAIN q /\ q[1] = Head(q)
  BY <1>1
<1>5. ASSUME NEW k
      PROVE  Said(q, k) = Said(Tail(q), k) \cup (IF Head(q).k = k THEN {Head(q).x} ELSE {})
  <2>1. Said(q, k) \subseteq Said(Tail(q), k) \cup (IF Head(q).k = k THEN {Head(q).x} ELSE {})
    BY <1>2 DEF Said
  <2>2. Said(Tail(q), k) \subseteq Said(q, k)
    BY <1>3 DEF Said
  <2>3. (IF Head(q).k = k THEN {Head(q).x} ELSE {}) \subseteq Said(q, k)
    BY <1>4 DEF Said
  <2> QED
    BY <2>1, <2>2, <2>3
<1>6. Usable(q) \subseteq Usable(Tail(q))
              \cup (IF Head(q).k = "usable" THEN {Head(q).x} \X Head(q).items ELSE {})
  BY <1>2 DEF Usable
<1>7. Usable(Tail(q)) \subseteq Usable(q)
  BY <1>3 DEF Usable
<1>8. (IF Head(q).k = "usable" THEN {Head(q).x} \X Head(q).items ELSE {}) \subseteq Usable(q)
  BY <1>4 DEF Usable
<1> QED
  BY <1>5, <1>6, <1>7, <1>8

(* The duel's end says nothing else.                                       *)
LEMMA OverOf ==
  ASSUME NEW q, Over(q)
  PROVE  /\ \A k : k # "end" => Said(q, k) = {}
         /\ Usable(q) = {}
BY DEF Over, Said, Usable

(* A single line.                                                          *)
LEMMA OneOf ==
  ASSUME NEW l \in Line
  PROVE  /\ <<l>> \in Seq(Line) /\ <<l>> # <<>> /\ Head(<<l>>) = l /\ Tail(<<l>>) = <<>>
         /\ \A K : Ends(<<l>>, K, l.k)
         /\ \A K : l.k \in K => AllOf(<<l>>, K)
         /\ l.k = "end" => Over(<<l>>)
         /\ \A k : Said(<<l>>, k) = IF l.k = k THEN {l.x} ELSE {}
         /\ Usable(<<l>>) = IF l.k = "usable" THEN {l.x} \X l.items ELSE {}
<1>1. /\ <<l>> \in Seq(Line) /\ <<l>> # <<>> /\ Head(<<l>>) = l /\ Tail(<<l>>) = <<>>
      /\ DOMAIN <<l>> = {1} /\ <<l>>[1] = l
  OBVIOUS
<1>2. /\ \A K : Ends(<<l>>, K, l.k)
      /\ \A K : l.k \in K => AllOf(<<l>>, K)
      /\ l.k = "end" => Over(<<l>>)
  <2>1. \A i \in {1} : ~(i < 1) /\ ~(1 < i)
    OBVIOUS
  <2> QED
    BY <1>1, <2>1 DEF Ends, AllOf, Over
<1> DEFINE q == <<l>>
<1>3. q # <<>> /\ q \in Seq(Line) /\ Head(q) = l /\ Tail(q) = <<>>
  BY <1>1
<1>4. /\ \A k : Said(<<>>, k) = {}
      /\ Usable(<<>>) = {}
  BY DEF Said, Usable
<1> HIDE DEF q
<1>5. /\ \A k : Said(q, k) = IF l.k = k THEN {l.x} ELSE {}
      /\ Usable(q) = IF l.k = "usable" THEN {l.x} \X l.items ELSE {}
  BY <1>3, <1>4, SaidRead
<1> USE DEF q
<1> QED
  BY <1>1, <1>2, <1>5

(* A line without items.                                                   *)
LEMMA LIsLine ==
  ASSUME NEW k \in Kinds, NEW x \in Names
  PROVE  L(k, x) \in Line /\ L(k, x).k = k /\ L(k, x).x = x /\ L(k, x).items = {}
BY DEF L, Line

(* The end of the duel may follow anything.                                *)
LEMMA EndFollows ==
  ASSUME NEW q \in Seq(Line)
  PROVE  LET e == q \o <<L("end", "")>>
         IN  /\ e \in Seq(Line)
             /\ Over(q) => Over(e)
             /\ \A K, t : Ends(q, K, t) => Ends(e, K, t)
             /\ \A K : "end" \in K /\ AllOf(q, K) => AllOf(e, K)
             /\ \A k : k # "end" => Said(e, k) = Said(q, k)
             /\ Usable(e) = Usable(q)
             /\ q # <<>> => e # <<>> /\ Head(e) = Head(q) /\ Tail(e) = Tail(q) \o <<L("end", "")>>
<1> DEFINE l == L("end", "")
           r == <<l>>
           e == q \o r
<1>1. l \in Line /\ l.k = "end"
  BY DEF L, Line, Kinds, Names, Letters
<1> HIDE DEF l
<1>2. r \in Seq(Line) /\ Len(r) = 1 /\ r[1] = l
  BY <1>1
<1>3. /\ \A k : k # "end" => Said(r, k) = {}
      /\ Usable(r) = {}
      /\ \A K : "end" \in K => AllOf(r, K)
  <2>1. Over(r)
    BY <1>1, OneOf
  <2>2. \A K : "end" \in K => AllOf(r, K)
    <3>1. \A M : l.k \in M => AllOf(r, M)
      BY <1>1, OneOf
    <3> QED
      BY <1>1, <3>1
  <2> HIDE DEF r
  <2> QED
    BY <2>1, <2>2, OverOf
<1> HIDE DEF r
<1>4. /\ e \in Seq(Line) /\ Len(q) \in Nat /\ DOMAIN q = 1 .. Len(q)
      /\ DOMAIN e = 1 .. Len(q) + 1
      /\ \A i \in 1 .. Len(q) : e[i] = q[i]
      /\ e[Len(q) + 1] = l
  <2>1. /\ \A i \in 1 .. Len(r) : e[i + Len(q)] = r[i]
        /\ e \in Seq(Line) /\ Len(q) \in Nat /\ DOMAIN q = 1 .. Len(q)
        /\ DOMAIN e = 1 .. Len(q) + Len(r)
        /\ \A i \in 1 .. Len(q) : e[i] = q[i]
    BY <1>2, JoinOf
  <2>2. 1 + Len(q) = Len(q) + 1 /\ 1 \in 1 .. Len(r)
    BY <1>2, <2>1
  <2> QED
    BY <1>2, <2>1, <2>2
<1>5. /\ \A k : k # "end" => Said(e, k) = Said(q, k)
      /\ Usable(e) = Usable(q)
  <2>1. /\ \A k : Said(e, k) = Said(q, k) \cup Said(r, k)
        /\ Usable(e) = Usable(q) \cup Usable(r)
    BY <1>2, SaidJoin
  <2> HIDE DEF e
  <2> QED
    BY <1>3, <2>1
<1>6. \A i \in DOMAIN e : (i \in DOMAIN q /\ e[i] = q[i]) \/ e[i] = l
  BY <1>4
<1>7. Over(q) => Over(e)
  BY <1>1, <1>6 DEF Over
<1>8. \A K : "end" \in K /\ AllOf(q, K) => AllOf(e, K)
  BY <1>1, <1>6 DEF AllOf
<1>9. ASSUME NEW K, NEW t, Ends(q, K, t)
      PROVE  Ends(e, K, t)
  <2>1. PICK n \in DOMAIN q : /\ q[n].k = t
                              /\ \A i \in DOMAIN q : i < n => q[i].k \in K
                              /\ \A i \in DOMAIN q : n < i => q[i].k = "end"
    BY <1>9 DEF Ends
  <2>2. n \in DOMAIN e /\ e[n].k = t
    BY <1>4, <2>1
  <2>3. \A i \in DOMAIN e : i < n => i \in DOMAIN q /\ e[i] = q[i]
    BY <1>4
  <2>4. \A i \in DOMAIN e : n < i => e[i].k = "end"
    BY <1>1, <1>6, <2>1
  <2> QED
    BY <2>1, <2>2, <2>3, <2>4 DEF Ends
<1>10. ASSUME q # <<>>
       PROVE  e # <<>> /\ Head(e) = Head(q) /\ Tail(e) = Tail(q) \o r
  BY <1>2, <1>4, <1>10
<1> QED
  BY <1>4, <1>5, <1>7, <1>8, <1>9, <1>10 DEF l, r

(* A set as a sequence.                                                    *)
LEMMA SetToSeqOf ==
  ASSUME NEW S, IsFiniteSet(S)
  PROVE  LET q == SetToSeq(S)
         IN  q \in Seq(S) /\ \A x \in S : \E i \in DOMAIN q : q[i] = x
<1> DEFINE n == Cardinality(S)
           q == SetToSeq(S)
<1>1. n \in Nat /\ ExistsBijection(1 .. n, S)
  BY FS_CardinalityType
<1>2. PICK f \in [1 .. n -> S] : IsInjective(f)
  BY <1>1 DEF ExistsBijection, Bijection, Injection
<1>3. q \in [1 .. n -> S] /\ IsInjective(q)
  BY <1>2 DEF SetToSeq
<1> HIDE DEF q
<1>4. q \in Injection(1 .. n, S)
  BY <1>3 DEF Injection
<1>5. IsFiniteSet(1 .. n) /\ Cardinality(1 .. n) = n
  <2>1. 1 \in Int /\ n \in Int
    BY <1>1
  <2>2. IsFiniteSet(1 .. n) /\ Cardinality(1 .. n) = IF 1 > n THEN 0 ELSE n - 1 + 1
    BY <2>1, FS_Interval
  <2> QED
    BY <1>1, <2>2
<1>6. q \in Surjection(1 .. n, S)
  BY <1>4, <1>5, FS_Injection
<1>7. \A x \in S : \E i \in 1 .. n : q[i] = x
  BY <1>6 DEF Surjection
<1>8. DOMAIN q = 1 .. n /\ q \in Seq(S)
  BY <1>1, <1>3
<1> QED
  BY <1>7, <1>8 DEF q

(* One line for each member of a set: a letter, a card.                    *)
LEMMA LinesOf ==
  ASSUME NEW k \in Kinds, NEW S, S \subseteq Names, IsFiniteSet(S)
  PROVE  /\ Lines(k, S) \in Seq(Line)
         /\ AllOf(Lines(k, S), {k})
         /\ \A j : Said(Lines(k, S), j) = IF j = k THEN S ELSE {}
         /\ k # "usable" => Usable(Lines(k, S)) = {}
<1> DEFINE T == {L(k, x) : x \in S}
           f == [x \in S |-> L(k, x)]
           q == SetToSeq(T)
<1>1. \A x \in S : L(k, x) \in Line /\ L(k, x).k = k /\ L(k, x).x = x
  BY LIsLine
<1>2. ExistsBijection(S, T)
  <2>1. f \in [S -> T] /\ \A x \in S : f[x] = L(k, x)
    OBVIOUS
  <2>2. \A x, y \in S : f[x] = f[y] => x = y
    BY <1>1, <2>1
  <2>3. \A t \in T : \E x \in S : f[x] = t
    BY <2>1
  <2> HIDE DEF f, T
  <2>4. f \in Bijection(S, T)
    BY <2>1, <2>2, <2>3 DEF Bijection, Injection, Surjection, IsInjective
  <2> QED
    BY <2>4 DEF ExistsBijection
<1>3. IsFiniteSet(T)
  BY <1>2, FS_Bijection
<1>4. T \subseteq Line
  BY <1>1
<1>5. \A t \in T : t.k = k /\ t.x \in S
  BY <1>1
<1>6. \A x \in S : \E t \in T : t.x = x
  BY <1>1
<1> HIDE DEF T
<1>7. q \in Seq(T) /\ \A x \in T : \E i \in DOMAIN q : q[i] = x
  BY <1>3, SetToSeqOf
<1> HIDE DEF q
<1>8. q \in Seq(Line) /\ \A i \in DOMAIN q : q[i] \in T
  BY <1>4, <1>7
<1>9. AllOf(q, {k})
  BY <1>5, <1>8 DEF AllOf
<1>10. \A j : j # k => Said(q, j) = {}
  BY <1>5, <1>8 DEF Said
<1>11. Said(q, k) = S
  BY <1>5, <1>6, <1>7, <1>8 DEF Said
<1>12. k # "usable" => Usable(q) = {}
  BY <1>5, <1>8 DEF Usable
<1>13. q = Lines(k, S)
  BY DEF Lines, q, T
<1> QED
  BY <1>8, <1>9, <1>10, <1>11, <1>12, <1>13

(* The answer to "?": what can be done, action by action.                  *)
LEMMA UsableLinesOf ==
  ASSUME ask.usable \subseteq {"s", "v"} \X Specs
  PROVE  /\ UsableLines \in Seq(Line)
         /\ AllOf(UsableLines, {"usable"})
         /\ \A j : j # "usable" => Said(UsableLines, j) = {}
         /\ Usable(UsableLines) = ask.usable
<1> DEFINE A == {u[1] : u \in ask.usable}
           g(a) == [k |-> "usable", x |-> a, items |-> Of(ask, a)]
           T == {g(a) : a \in A}
           q == SetToSeq(T)
<1>1. A \subseteq {"s", "v"} /\ \A a \in A : Of(ask, a) \subseteq Specs
  BY DEF Of
<1>2. \A a \in A : g(a) \in Line /\ g(a).k = "usable" /\ g(a).x = a /\ g(a).items = Of(ask, a)
  BY <1>1 DEF Line, Kinds, Names, Letters
<1>3. IsFiniteSet(T)
  <2>1. IsFiniteSet({"s", "v"})
    <3>1. IsFiniteSet({} \cup {"s"})
      BY FS_EmptySet, FS_AddElement
    <3>2. IsFiniteSet(({} \cup {"s"}) \cup {"v"})
      BY <3>1, FS_AddElement
    <3>3. ({} \cup {"s"}) \cup {"v"} = {"s", "v"}
      OBVIOUS
    <3> QED
      BY <3>2, <3>3
  <2>2. IsFiniteSet(A)
    BY <1>1, <2>1, FS_Subset
  <2> DEFINE f == [a \in A |-> g(a)]
  <2>3. f \in [A -> T] /\ \A t \in T : \E a \in A : f[a] = t
    OBVIOUS
  <2> HIDE DEF f, T, A
  <2>4. f \in Surjection(A, T)
    BY <2>3 DEF Surjection
  <2> QED
    BY <2>2, <2>4, FS_Surjection
<1>4. T \subseteq Line /\ \A t \in T : t.k = "usable" /\ t.x \in A /\ t.items = Of(ask, t.x)
  BY <1>2
<1>5. \A a \in A : \E t \in T : t.x = a
  BY <1>2
<1> HIDE DEF T
<1>6. q \in Seq(T) /\ \A x \in T : \E i \in DOMAIN q : q[i] = x
  BY <1>3, SetToSeqOf
<1>7. q = UsableLines
  BY DEF UsableLines, T
<1> HIDE DEF q
<1>8. q \in Seq(Line) /\ \A i \in DOMAIN q : q[i] \in T
  BY <1>4, <1>6
<1>9. AllOf(q, {"usable"}) /\ \A j : j # "usable" => Said(q, j) = {}
  BY <1>4, <1>8 DEF AllOf, Said
<1>10. Usable(q) = UNION {{t.x} \X t.items : t \in T}
  <2>1. Usable(q) = UNION {{q[i].x} \X q[i].items : i \in DOMAIN q}
    BY <1>4, <1>8 DEF Usable
  <2>2. \A t \in T : \E i \in DOMAIN q : q[i] = t
    BY <1>6
  <2> QED
    BY <1>8, <2>1, <2>2
<1>11. UNION {{t.x} \X t.items : t \in T} = ask.usable
  <2>1. ASSUME NEW u \in ask.usable
        PROVE  \E t \in T : u \in {t.x} \X t.items
    <3>1. u[1] \in A /\ u = <<u[1], u[2]>>
      OBVIOUS
    <3>2. PICK t \in T : t.x = u[1]
      BY <1>5, <3>1
    <3>3. u[2] \in t.items
      BY <1>4, <3>2 DEF Of
    <3> QED
      BY <3>1, <3>2, <3>3
  <2>2. ASSUME NEW t \in T, NEW u \in {t.x} \X t.items
        PROVE  u \in ask.usable
    <3>1. u[1] = t.x /\ u[2] \in Of(ask, t.x) /\ u = <<u[1], u[2]>>
      BY <1>4
    <3>2. PICK v \in ask.usable : v[1] = t.x /\ v[2] = u[2]
      BY <3>1 DEF Of
    <3>3. v = <<v[1], v[2]>>
      OBVIOUS
    <3> QED
      BY <3>1, <3>2, <3>3
  <2> QED
    BY <2>1, <2>2
<1> QED
  BY <1>7, <1>8, <1>9, <1>10, <1>11

-----------------------------------------------------------------------------
(* What the server says.                                                   *)

(* There are finitely many letters.                                        *)
LEMMA LettersFinite == ASSUME NEW S \in SUBSET Letters PROVE IsFiniteSet(S)
<1>1. \A A, x : IsFiniteSet(A) => IsFiniteSet(A \cup {x})
  BY FS_AddElement
<1>2. IsFiniteSet({} \cup {""} \cup {"a"} \cup {"b"} \cup {"c"} \cup {"e"} \cup {"i"})
  BY <1>1, FS_EmptySet
<1>3. IsFiniteSet({} \cup {"m"} \cup {"s"} \cup {"v"} \cup {"va"} \cup {"vb"} \cup {"z"})
  BY <1>1, FS_EmptySet
<1>4. Letters = ({} \cup {""} \cup {"a"} \cup {"b"} \cup {"c"} \cup {"e"} \cup {"i"})
           \cup ({} \cup {"m"} \cup {"s"} \cup {"v"} \cup {"va"} \cup {"vb"} \cup {"z"})
  BY DEF Letters
<1>5. IsFiniteSet(Letters)
  BY <1>2, <1>3, <1>4, FS_Union
<1> QED
  BY <1>5, FS_Subset

(* A line of a kind k without a card or a letter.                          *)
LEMMA MarkOf ==
  ASSUME NEW k \in Kinds
  PROVE  /\ L(k, "") \in Line /\ L(k, "").k = k /\ L(k, "").x = ""
         /\ <<L(k, "")>> \in Seq(Line)
BY LIsLine, OneOf DEF Names, Letters

(* Lines, and the one that ends them.                                      *)
LEMMA Closed ==
  ASSUME NEW a \in Seq(Line), NEW K, AllOf(a, K), NEW t \in Kinds, t # "usable"
  PROVE  LET q == a \o <<L(t, "")>>
         IN  /\ q \in Seq(Line) /\ q # <<>>
             /\ Ends(q, K, t)
             /\ \A k : k # t => Said(q, k) = Said(a, k)
             /\ Usable(q) = Usable(a)
<1> DEFINE l == L(t, "")
           r == <<l>>
           q == a \o r
<1>1. l \in Line /\ l.k = t
  BY MarkOf
<1> HIDE DEF l
<1>2. /\ r \in Seq(Line) /\ r # <<>> /\ Ends(r, K, t)
      /\ \A k : k # t => Said(r, k) = {}
      /\ Usable(r) = {}
  BY <1>1, OneOf
<1> HIDE DEF r
<1>3. q \in Seq(Line) /\ q # <<>>
  BY <1>2
<1>4. Ends(q, K, t)
  BY <1>2, KindsJoin
<1>5. /\ \A k : Said(q, k) = Said(a, k) \cup Said(r, k)
      /\ Usable(q) = Usable(a) \cup Usable(r)
  BY <1>2, SaidJoin
<1> HIDE DEF q
<1>6. /\ \A k : k # t => Said(q, k) = Said(a, k)
      /\ Usable(q) = Usable(a)
  BY <1>2, <1>5
<1> USE DEF q, r, l
<1> QED
  BY <1>3, <1>4, <1>6

(* A line put before others.                                               *)
LEMMA Headed ==
  ASSUME NEW k \in Kinds, k # "usable", NEW b \in Seq(Line)
  PROVE  LET q == <<L(k, "")>> \o b
         IN  /\ q \in Seq(Line) /\ q # <<>> /\ Head(q) = L(k, "") /\ Tail(q) = b
             /\ \A j : j # k => Said(q, j) = Said(b, j)
             /\ Usable(q) = Usable(b)
             /\ \A K, t : k \in K /\ Ends(b, K, t) => Ends(q, K, t)
<1> DEFINE l == L(k, "")
           r == <<l>>
           q == r \o b
<1>1. l \in Line /\ l.k = k
  BY MarkOf
<1> HIDE DEF l
<1>2. r \in Seq(Line) /\ Len(r) = 1 /\ r[1] = l /\ r # <<>>
  BY <1>1
<1>3. /\ \A j : j # k => Said(r, j) = {}
      /\ Usable(r) = {}
      /\ \A K : k \in K => AllOf(r, K)
  BY <1>1, OneOf
<1>4. q \in Seq(Line) /\ q # <<>> /\ Head(q) = l /\ Tail(q) = b
  BY <1>1
<1> HIDE DEF r
<1>5. /\ \A j : Said(q, j) = Said(r, j) \cup Said(b, j)
      /\ Usable(q) = Usable(r) \cup Usable(b)
  BY <1>2, SaidJoin
<1>6. \A K, t : k \in K /\ Ends(b, K, t) => Ends(q, K, t)
  BY <1>2, <1>3, KindsJoin
<1> HIDE DEF q
<1>7. /\ \A j : j # k => Said(q, j) = Said(b, j)
      /\ Usable(q) = Usable(b)
  BY <1>3, <1>5
<1> USE DEF q, r, l
<1> QED
  BY <1>4, <1>6, <1>7

(* A subset of the kinds will do too.                                      *)
LEMMA Wider ==
  ASSUME NEW q, NEW K, NEW M, K \subseteq M
  PROVE  /\ AllOf(q, K) => AllOf(q, M)
         /\ \A t : Ends(q, K, t) => Ends(q, M, t)
BY DEF AllOf, Ends

(* A menu is its header, its letters and its terminal line.                *)
LEMMA MenuSaid ==
  ASSUME NEW head \in Kinds, head \notin {"usable", "letter"}, NEW S \in SUBSET Letters,
         NEW t \in Kinds, t \notin {"usable", "letter"}
  PROVE  LET q == <<L(head, "")>> \o Lines("letter", S) \o <<L(t, "")>>
         IN  /\ q \in Seq(Line) /\ q # <<>> /\ Head(q).k = head /\ Tail(q) \in Seq(Line)
             /\ Ends(Tail(q), {"letter"}, t)
             /\ Said(Tail(q), "letter") = S /\ Said(q, "letter") = S
             /\ Usable(q) = {}
             /\ \A K : {head, "letter"} \subseteq K => Ends(q, K, t)
<1> DEFINE a == Lines("letter", S)
           b == a \o <<L(t, "")>>
           q == <<L(head, "")>> \o b
<1>1. /\ a \in Seq(Line) /\ AllOf(a, {"letter"}) /\ Said(a, "letter") = S /\ Usable(a) = {}
  <2>1. IsFiniteSet(S) /\ S \subseteq Names /\ "letter" \in Kinds
    BY LettersFinite DEF Names, Kinds
  <2> QED
    BY <2>1, LinesOf
<1>2. /\ b \in Seq(Line) /\ Ends(b, {"letter"}, t) /\ Said(b, "letter") = S /\ Usable(b) = {}
  <2> HIDE DEF a
  <2>1. /\ b \in Seq(Line) /\ Ends(b, {"letter"}, t)
        /\ Said(b, "letter") = Said(a, "letter") /\ Usable(b) = Usable(a)
    BY <1>1, Closed
  <2> QED
    BY <1>1, <2>1
<1>3. q = <<L(head, "")>> \o Lines("letter", S) \o <<L(t, "")>>
  <2>1. <<L(head, "")>> \in Seq(Line) /\ <<L(t, "")>> \in Seq(Line)
    BY MarkOf
  <2> HIDE DEF a
  <2>2. \A u, v, w \in Seq(Line) : u \o (v \o w) = (u \o v) \o w
    OBVIOUS
  <2>3. q = (<<L(head, "")>> \o a) \o <<L(t, "")>>
    BY <1>1, <2>1, <2>2, ZenonT(40)
  <2> QED
    BY <2>3 DEF a
<1> HIDE DEF b
<1>4. /\ q \in Seq(Line) /\ q # <<>> /\ Head(q) = L(head, "") /\ Tail(q) = b
      /\ Said(q, "letter") = Said(b, "letter") /\ Usable(q) = Usable(b)
      /\ \A K : head \in K /\ Ends(b, K, t) => Ends(q, K, t)
  BY <1>2, Headed
<1>5. \A K : "letter" \in K => Ends(b, K, t)
  <2>1. \A K : "letter" \in K => {"letter"} \subseteq K
    OBVIOUS
  <2> QED
    BY <1>2, <2>1, Wider
<1>6. Head(q).k = head
  BY <1>4, MarkOf
<1> HIDE DEF q
<1> QED
  BY <1>2, <1>3, <1>4, <1>5, <1>6

(* The idle menu.                                                          *)
LEMMA IdleLinesOf ==
  ASSUME NEW m, m.phases \subseteq Letters
  PROVE  /\ IdleLines(m) \in Seq(Line) /\ IdleLines(m) # <<>>
         /\ Head(IdleLines(m)).k = "idleHead" /\ Tail(IdleLines(m)) \in Seq(Line)
         /\ Ends(Tail(IdleLines(m)), {"letter"}, "selectCard")
         /\ Said(Tail(IdleLines(m)), "letter") = m.phases
         /\ Said(IdleLines(m), "letter") = m.phases
         /\ Usable(IdleLines(m)) = {}
         /\ Ends(IdleLines(m), {"usable", "idleHead", "letter"}, "selectCard")
<1>1. "idleHead" \in Kinds /\ "selectCard" \in Kinds /\ m.phases \in SUBSET Letters
  BY DEF Kinds
<1>2. {"idleHead", "letter"} \subseteq {"usable", "idleHead", "letter"}
  OBVIOUS
<1> DEFINE q == <<L("idleHead", "")>> \o Lines("letter", m.phases) \o <<L("selectCard", "")>>
<1>3. /\ q \in Seq(Line) /\ q # <<>> /\ Head(q).k = "idleHead" /\ Tail(q) \in Seq(Line)
      /\ Ends(Tail(q), {"letter"}, "selectCard")
      /\ Said(Tail(q), "letter") = m.phases /\ Said(q, "letter") = m.phases
      /\ Usable(q) = {}
      /\ \A K : {"idleHead", "letter"} \subseteq K => Ends(q, K, "selectCard")
  BY <1>1, MenuSaid
<1>4. q = IdleLines(m)
  BY DEF IdleLines
<1> HIDE DEF q
<1> QED
  BY <1>2, <1>3, <1>4

(* The battle menu.                                                        *)
LEMMA BattleLinesOf ==
  ASSUME NEW m, m.phases \subseteq Letters, m.usable \subseteq {"a", "c"} \X Specs
  PROVE  LET S == m.phases \cup {u[1] : u \in m.usable}
         IN  /\ BattleLines(m) \in Seq(Line) /\ BattleLines(m) # <<>>
             /\ Head(BattleLines(m)).k = "battleHead" /\ Tail(BattleLines(m)) \in Seq(Line)
             /\ Ends(Tail(BattleLines(m)), {"letter"}, "selectOption")
             /\ Said(Tail(BattleLines(m)), "letter") = S
             /\ Ends(BattleLines(m), {"battleHead", "letter"}, "selectOption")
<1>1. "battleHead" \in Kinds /\ "selectOption" \in Kinds
  BY DEF Kinds
<1>2. m.phases \cup {u[1] : u \in m.usable} \in SUBSET Letters
  <2>1. {u[1] : u \in m.usable} \subseteq {"a", "c"}
    OBVIOUS
  <2> QED
    BY <2>1 DEF Letters
<1> DEFINE S == m.phases \cup {u[1] : u \in m.usable}
           q == <<L("battleHead", "")>> \o Lines("letter", S) \o <<L("selectOption", "")>>
<1>3. S \in SUBSET Letters
  BY <1>2
<1> HIDE DEF S
<1>4. /\ q \in Seq(Line) /\ q # <<>> /\ Head(q).k = "battleHead" /\ Tail(q) \in Seq(Line)
      /\ Ends(Tail(q), {"letter"}, "selectOption")
      /\ Said(Tail(q), "letter") = S
      /\ Ends(q, {"battleHead", "letter"}, "selectOption")
  BY <1>1, <1>3, MenuSaid, ZenonT(40)
<1>5. q = BattleLines(m)
  BY DEF BattleLines, S
<1> HIDE DEF q
<1> QED
  BY <1>4, <1>5 DEF S

(* What is answered to "?", with the menu shown again or not.              *)
LEMMA ProbedOf ==
  ASSUME ask.usable \subseteq {"s", "v"} \X Specs, ask.phases \subseteq Letters,
         NEW q \in {UsableLines \o <<L("selectCard", "")>>, UsableLines \o IdleLines(ask)}
  PROVE  /\ q \in Seq(Line)
         /\ Ends(q, {"usable", "idleHead", "letter"}, "selectCard")
         /\ Said(q, "letter") \subseteq ask.phases
         /\ Usable(q) = ask.usable
<1> DEFINE K == {"usable", "idleHead", "letter"}
           a == UsableLines
<1>1. /\ a \in Seq(Line) /\ AllOf(a, K)
      /\ Said(a, "letter") = {} /\ Usable(a) = ask.usable
  <2>1. {"usable"} \subseteq K
    OBVIOUS
  <2> QED
    BY <2>1, UsableLinesOf, Wider
<1>2. "selectCard" \in Kinds
  BY DEF Kinds
<1> HIDE DEF a, K
<1>3. CASE q = a \o <<L("selectCard", "")>>
  BY <1>1, <1>2, <1>3, Closed DEF K
<1>4. CASE q = a \o IdleLines(ask)
  <2> DEFINE b == IdleLines(ask)
  <2>1. b \in Seq(Line) /\ Ends(b, K, "selectCard") /\ Said(b, "letter") = ask.phases /\ Usable(b) = {}
    BY IdleLinesOf DEF K
  <2> HIDE DEF b
  <2>2. a \o b \in Seq(Line)
    BY <1>1, <2>1, JoinOf
  <2>3. Ends(a \o b, K, "selectCard")
    BY <1>1, <2>1, KindsJoin
  <2>4. /\ \A k : Said(a \o b, k) = Said(a, k) \cup Said(b, k)
        /\ Usable(a \o b) = Usable(a) \cup Usable(b)
    BY <1>1, <2>1, SaidJoin
  <2>5. Said(a \o b, "letter") = ask.phases /\ Usable(a \o b) = ask.usable
    BY <1>1, <2>1, <2>4
  <2>6. q = a \o b
    BY <1>4 DEF b
  <2> QED
    BY <2>2, <2>3, <2>5, <2>6 DEF K
<1> QED
  BY <1>3, <1>4 DEF a

(* Two lines are one and one.                                              *)
LEMMA TwoOf == ASSUME NEW u \in Line, NEW v \in Line PROVE <<u, v>> = <<u>> \o <<v>>
<1> DEFINE a == <<u>>
           b == <<v>>
           q == a \o b
           p == <<u, v>>
<1>1. p \in Seq(Line) /\ Len(p) = 2 /\ p[1] = u /\ p[2] = v
  OBVIOUS
<1>2. a \in Seq(Line) /\ Len(a) = 1 /\ a[1] = u /\ b \in Seq(Line) /\ Len(b) = 1 /\ b[1] = v
  OBVIOUS
<1> HIDE DEF a, b, p
<1>3. q \in Seq(Line) /\ Len(q) = 2 /\ q[1] = u /\ q[2] = v
  <2>1. /\ q \in Seq(Line) /\ DOMAIN q = 1 .. Len(a) + Len(b)
        /\ \A i \in 1 .. Len(a) : q[i] = a[i]
        /\ \A i \in 1 .. Len(b) : q[i + Len(a)] = b[i]
    BY <1>2, JoinOf
  <2>2. 1 \in 1 .. Len(a) /\ 1 \in 1 .. Len(b) /\ 1 + Len(a) = 2
    BY <1>2
  <2>3. q[1] = u /\ q[2] = v
    BY <1>2, <2>1, <2>2
  <2>4. Len(q) = Len(a) + Len(b)
    BY <1>2, JoinOf
  <2> QED
    BY <1>2, <2>1, <2>3, <2>4
<1> HIDE DEF q
<1>4. \A i \in 1 .. 2 : p[i] = q[i]
  <2>1. \A i \in 1 .. 2 : i = 1 \/ i = 2
    OBVIOUS
  <2> QED
    BY <1>1, <1>3, <2>1
<1>5. p = q
  BY <1>1, <1>3, <1>4
<1> QED
  BY <1>5 DEF p, q, a, b

(* The answer to an informational command.                                 *)
LEMMA InfoLinesOf ==
  ASSUME NEW x \in Infos, NEW lines \in InfoLines(x), NEW t \in {"selectCard", "selectOption"}
  PROVE  /\ lines \o <<L(t, "")>> \in Seq(Line)
         /\ lines \in Seq(Line) /\ AllOf(lines, {"info", "question"})
         /\ Ends(lines \o <<L(t, "")>>, {"info", "question"}, t)
<1> DEFINE l == L("info", x)
           m == L("question", x)
           K == {"info", "question"}
           a == <<l>>
           b == <<m>>
<1>1. l \in Line /\ l.k \in K /\ m \in Line /\ m.k \in K
  <2>1. "info" \in Kinds /\ "question" \in Kinds /\ x \in Names
    BY DEF Kinds, Names
  <2> QED
    BY <2>1, LIsLine
<1>2. lines = a \/ lines = a \o b
  <2>1. lines \in {<<l>>, <<l, m>>}
    BY DEF InfoLines
  <2> HIDE DEF l, m
  <2>2. <<l, m>> = <<l>> \o <<m>>
    BY <1>1, TwoOf
  <2> QED
    BY <2>1, <2>2
<1> HIDE DEF l, m, K
<1>3. a \in Seq(Line) /\ AllOf(a, K) /\ b \in Seq(Line) /\ AllOf(b, K)
  BY <1>1, OneOf
<1> HIDE DEF a, b
<1>5. a \o b \in Seq(Line) /\ AllOf(a \o b, K)
  BY <1>3, KindsJoin
<1>6. lines \in Seq(Line) /\ AllOf(lines, K)
  BY <1>2, <1>3, <1>5
<1>7. t \in Kinds /\ t # "usable"
  BY DEF Kinds
<1> QED
  BY <1>6, <1>7, Closed DEF K

(* A submenu: the letters of the card, and two more.                       *)
LEMMA SubmenuLinesOf ==
  ASSUME NEW S \in SUBSET Letters
  PROVE  LET q == Lines("letter", S) \o <<L("selectAction", "")>>
         IN  q \in Seq(Line) /\ Ends(q, {"letter"}, "selectAction") /\ Said(q, "letter") = S
<1>1. /\ Lines("letter", S) \in Seq(Line) /\ AllOf(Lines("letter", S), {"letter"})
      /\ Said(Lines("letter", S), "letter") = S
  <2>1. IsFiniteSet(S) /\ S \subseteq Names /\ "letter" \in Kinds
    BY LettersFinite DEF Names, Kinds
  <2> QED
    BY <2>1, LinesOf
<1>2. "selectAction" \in Kinds
  BY DEF Kinds
<1> QED
  BY <1>1, <1>2, Closed

(* A list of the battle menu.                                              *)
LEMMA SubLinesOf ==
  ASSUME NEW a \in {"a", "c"}, ask.usable \subseteq {"a", "c"} \X Specs
  PROVE  /\ SubLines(a) \in Seq(Line) /\ SubLines(a) # <<>>
         /\ Head(SubLines(a)).k = ListHead(a) /\ Tail(SubLines(a)) \in Seq(Line)
         /\ Ends(Tail(SubLines(a)), {"spec", "letter"}, Terminal[ListMode(a)])
         /\ Said(SubLines(a), "spec") = Of(ask, a)
<1> DEFINE head == IF a = "a" THEN "attackHead" ELSE "activateHead"
           t == IF a = "a" THEN "selectCard" ELSE "enterText"
           b == Lines("spec", Of(ask, a))
           z == <<L("letter", "z")>>
           r == z \o <<L(t, "")>>
           c == b \o r
           q == <<L(head, "")>> \o c
<1>1. head = ListHead(a) /\ t = Terminal[ListMode(a)] /\ head \in Kinds /\ t \in Kinds
      /\ head \notin {"usable", "spec"} /\ t \notin {"usable", "spec"}
  BY DEF ListHead, ListMode, Terminal, Kinds
<1>2. SubLines(a) = <<L(head, "")>> \o b \o <<L("letter", "z"), L(t, "")>>
  BY DEF SubLines
<1> HIDE DEF head, t
<1>3. /\ b \in Seq(Line) /\ AllOf(b, {"spec", "letter"}) /\ Said(b, "spec") = Of(ask, a)
  <2>1. Of(ask, a) \subseteq Specs
    BY DEF Of
  <2>2. IsFiniteSet(Of(ask, a)) /\ Of(ask, a) \subseteq Names /\ "spec" \in Kinds
    BY <2>1, MudClientAssumption, FS_Subset DEF Names, Kinds
  <2>3. /\ b \in Seq(Line) /\ AllOf(b, {"spec"}) /\ Said(b, "spec") = Of(ask, a)
    BY <2>2, LinesOf
  <2>4. {"spec"} \subseteq {"spec", "letter"}
    OBVIOUS
  <2> QED
    BY <2>3, <2>4, Wider
<1>4. /\ z \in Seq(Line) /\ AllOf(z, {"spec", "letter"}) /\ Said(z, "spec") = {}
  <2> DEFINE l == L("letter", "z")
  <2>1. "letter" \in Kinds /\ "z" \in Names
    BY DEF Kinds, Names, Letters
  <2>2. l \in Line /\ l.k = "letter"
    BY <2>1, LIsLine
  <2> HIDE DEF l
  <2>3. <<l>> \in Seq(Line) /\ AllOf(<<l>>, {"spec", "letter"})
    <3> DEFINE K == {"spec", "letter"}
    <3>1. l.k \in K
      BY <2>2
    <3> HIDE DEF K
    <3>2. <<l>> \in Seq(Line) /\ AllOf(<<l>>, K)
      BY <2>2, <3>1, OneOf
    <3> QED
      BY <3>2 DEF K
  <2>4. Said(<<l>>, "spec") = IF l.k = "spec" THEN {l.x} ELSE {}
    BY <2>2, OneOf
  <2>5. Said(<<l>>, "spec") = {}
    BY <2>2, <2>4
  <2> QED
    BY <2>3, <2>5 DEF l
<1>5. /\ r \in Seq(Line) /\ Ends(r, {"spec", "letter"}, t) /\ Said(r, "spec") = {}
  <2> HIDE DEF z
  <2>1. r \in Seq(Line) /\ Ends(r, {"spec", "letter"}, t) /\ Said(r, "spec") = Said(z, "spec")
    BY <1>1, <1>4, Closed
  <2> QED
    BY <1>4, <2>1
<1>6. /\ c \in Seq(Line) /\ Ends(c, {"spec", "letter"}, t) /\ Said(c, "spec") = Of(ask, a)
  <2> HIDE DEF r, b
  <2>1. c \in Seq(Line)
    BY <1>3, <1>5
  <2>2. Ends(c, {"spec", "letter"}, t)
    BY <1>3, <1>5, KindsJoin
  <2>3. Said(c, "spec") = Said(b, "spec") \cup Said(r, "spec")
    BY <1>3, <1>5, SaidJoin
  <2> QED
    BY <1>3, <1>5, <2>1, <2>2, <2>3
<1>7. SubLines(a) = q
  <2>1. <<L(head, "")>> \in Seq(Line) /\ <<L(t, "")>> \in Seq(Line)
    BY <1>1, MarkOf
  <2>2. L("letter", "z") \in Line /\ L(t, "") \in Line
    <3>1. "letter" \in Kinds /\ "z" \in Names /\ "" \in Names
      BY DEF Kinds, Names, Letters
    <3> QED
      BY <1>1, <3>1, LIsLine
  <2>3. <<L("letter", "z"), L(t, "")>> = r
    BY <2>2, TwoOf
  <2> HIDE DEF b, r
  <2>4. \A u, v, w \in Seq(Line) : u \o (v \o w) = (u \o v) \o w
    OBVIOUS
  <2>5. q = (<<L(head, "")>> \o b) \o r
    BY <1>3, <1>5, <2>1, <2>4, ZenonT(40)
  <2> HIDE DEF c
  <2>6. SubLines(a) = (<<L(head, "")>> \o b) \o r
    BY <1>2, <2>3
  <2> HIDE DEF q
  <2> QED
    BY <2>5, <2>6
<1> HIDE DEF c
<1>8. /\ q \in Seq(Line) /\ q # <<>> /\ Head(q) = L(head, "") /\ Tail(q) = c
      /\ Said(q, "spec") = Said(c, "spec")
  <2>1. q \in Seq(Line) /\ q # <<>> /\ Head(q) = L(head, "") /\ Tail(q) = c
    BY <1>1, <1>6, Headed
  <2>2. Said(q, "spec") = Said(c, "spec")
    BY <1>1, <1>6, Headed, ZenonT(40)
  <2> QED
    BY <2>1, <2>2
<1>9. Head(q).k = head
  BY <1>1, <1>8, MarkOf
<1> HIDE DEF q
<1> QED
  BY <1>1, <1>6, <1>7, <1>8, <1>9

-----------------------------------------------------------------------------
(* What the parser makes of a line.                                        *)

Parsers == [mode : {"scan"} \cup DOMAIN Terminal, opts : SUBSET Names, idle : BOOLEAN]

(* The modes of the parser that collect lines.                             *)
LEMMA Modes == DOMAIN Terminal = {"idle", "battle", "attack", "activate", "submenu"}
BY DEF Terminal

(* What the parser returns.                                                *)
LEMMA ResultOf == ASSUME NEW p, NEW q PROVE Result(p, q).parser = p /\ Result(p, q).prompt = q
BY DEF Result

(* Looking for a prompt.                                                   *)
LEMMA ScanOf ==
  ASSUME parser \in Parsers, Scans, NEW l \in Line
  PROVE  /\ Parse(l).parser \in Parsers
         /\ l.k \in {"usable", "selectCard", "selectOption", "enterText", "info", "spec", "ourTurn"} =>
              Parse(l).parser = parser /\ Parse(l).prompt = NoPrompt
         /\ l.k \in DOMAIN Header =>
              /\ Parse(l).parser.mode = Header[l.k] /\ Parse(l).parser.opts = {}
              /\ Parse(l).prompt = NoPrompt
         /\ l.k = "letter" =>
              /\ Parse(l).prompt = NoPrompt
              /\ \/ Parse(l).parser.mode = "scan"
                 \/ l.x \in SubmenuLetters /\ Parse(l).parser.mode = "submenu"
         /\ l.k \in {"ask", "question"} =>
              /\ Parse(l).parser = parser /\ Parse(l).prompt # NoPrompt
              /\ Parse(l).prompt.type = l.k
         /\ l.k = "ask" => Parse(l).prompt.name = l.x
         /\ l.k = "selectAction" => Parse(l).parser.mode = "scan"
<1>0. Parse(l) = Scan(parser, l)
  BY DEF Scans, Parse
<1>1. /\ l.k \in Kinds /\ l.x \in Names
      /\ parser.mode = "scan" /\ parser.opts \in SUBSET Names /\ parser.idle \in BOOLEAN
  BY DEF Scans, Parsers, Line
<1>2. /\ DOMAIN Header = {"idleHead", "battleHead", "attackHead", "activateHead"}
      /\ \A k \in DOMAIN Header : Header[k] \in {"idle", "battle", "attack", "activate"}
  BY DEF Header
<1>3. CASE l.k \in DOMAIN Header
  <2> DEFINE i == l.k = "idleHead" \/ (parser.idle /\ l.k # "battleHead")
  <2>1. Parse(l) = Result([mode |-> Header[l.k], opts |-> {}, idle |-> i], NoPrompt)
    BY <1>0, <1>2, <1>3 DEF Scan
  <2>2. i \in BOOLEAN
    OBVIOUS
  <2> HIDE DEF i
  <2>3. [mode |-> Header[l.k], opts |-> {}, idle |-> i] \in Parsers
    BY <1>2, <1>3, <2>2, Modes DEF Parsers
  <2>4. /\ Parse(l).parser = [mode |-> Header[l.k], opts |-> {}, idle |-> i]
        /\ Parse(l).prompt = NoPrompt
    BY <2>1 DEF Result
  <2> QED
    BY <1>2, <1>3, <2>3, <2>4
<1>9. l.k \in {"letter", "selectAction", "ask", "question"} => l.k \notin DOMAIN Header
  BY <1>2
<1>4. CASE l.k = "letter"
  <2>0. l.k \notin {"usable", "selectCard", "selectOption", "enterText", "info", "spec", "ourTurn"}
        /\ l.k \notin {"ask", "question"} /\ l.k # "ask" /\ l.k # "selectAction"
    BY <1>4
  <2>1. CASE parser.idle /\ l.x \in SubmenuLetters
    <3>1. Parse(l) = Result([mode |-> "submenu", opts |-> {l.x}, idle |-> FALSE], NoPrompt)
      BY <1>0, <1>9, <1>4, <2>1 DEF Scan
    <3>2. [mode |-> "submenu", opts |-> {l.x}, idle |-> FALSE] \in Parsers
      BY <1>1, Modes DEF Parsers
    <3>3. /\ Parse(l).parser = [mode |-> "submenu", opts |-> {l.x}, idle |-> FALSE]
          /\ Parse(l).prompt = NoPrompt
      BY <3>1, ResultOf
    <3> QED
      BY <1>9, <1>4, <2>0, <2>1, <3>2, <3>3
  <2>2. CASE ~(parser.idle /\ l.x \in SubmenuLetters)
    <3>1. Parse(l) = Result(parser, NoPrompt)
      BY <1>0, <1>9, <1>4, <2>2 DEF Scan
    <3>2. Parse(l).parser = parser /\ Parse(l).prompt = NoPrompt
      BY <3>1, ResultOf
    <3>3. Parse(l).parser \in Parsers /\ Parse(l).parser.mode = "scan"
      BY <1>1, <3>2
    <3>4. l.k \notin DOMAIN Header /\ Parse(l).prompt = NoPrompt
      BY <1>9, <1>4, <3>2
    <3> QED
      BY <1>4, <2>0, <3>3, <3>4
  <2> QED
    BY <2>1, <2>2
<1>5. CASE l.k = "selectAction"
  <2>0. l.k \notin {"usable", "selectCard", "selectOption", "enterText", "info", "spec", "ourTurn"}
        /\ l.k \notin {"ask", "question"} /\ l.k # "ask" /\ l.k # "letter"
    BY <1>5
  <2>1. Parse(l) = Result([parser EXCEPT !.idle = FALSE], [NoPrompt EXCEPT !.type = "submenu"])
    BY <1>0, <1>9, <1>5 DEF Scan
  <2>2. [parser EXCEPT !.idle = FALSE] \in Parsers /\ [parser EXCEPT !.idle = FALSE].mode = "scan"
    BY <1>1 DEF Parsers
  <2>3. Parse(l).parser = [parser EXCEPT !.idle = FALSE]
    BY <2>1, ResultOf
  <2> QED
    BY <1>9, <1>5, <2>0, <2>2, <2>3
<1>6. CASE l.k = "ask"
  <2>0. l.k \notin {"usable", "selectCard", "selectOption", "enterText", "info", "spec", "ourTurn"}
        /\ l.k # "letter" /\ l.k # "selectAction"
    BY <1>6
  <2>1. Parse(l) = Result(parser, [NoPrompt EXCEPT !.type = "ask", !.name = l.x])
    BY <1>0, <1>9, <1>6 DEF Scan
  <2>2. /\ [NoPrompt EXCEPT !.type = "ask", !.name = l.x].type = "ask"
        /\ [NoPrompt EXCEPT !.type = "ask", !.name = l.x].name = l.x
        /\ NoPrompt.type = "none"
    BY DEF NoPrompt
  <2>3. /\ Parse(l).parser = parser
        /\ Parse(l).prompt = [NoPrompt EXCEPT !.type = "ask", !.name = l.x]
    BY <2>1, ResultOf
  <2>4. Parse(l).prompt.type = "ask" /\ Parse(l).prompt.name = l.x /\ Parse(l).prompt # NoPrompt
    BY <2>2, <2>3
  <2> QED
    BY <1>9, <1>6, <2>0, <2>3, <2>4
<1>7. CASE l.k = "question"
  <2>0. l.k \notin {"usable", "selectCard", "selectOption", "enterText", "info", "spec", "ourTurn"}
        /\ l.k # "letter" /\ l.k # "ask" /\ l.k # "selectAction"
    BY <1>7
  <2>1. Parse(l) = Result(parser, [NoPrompt EXCEPT !.type = "question"])
    BY <1>0, <1>9, <1>7 DEF Scan
  <2>2. /\ [NoPrompt EXCEPT !.type = "question"].type = "question"
        /\ NoPrompt.type = "none"
    BY DEF NoPrompt
  <2>3. /\ Parse(l).parser = parser
        /\ Parse(l).prompt = [NoPrompt EXCEPT !.type = "question"]
    BY <2>1, ResultOf
  <2>4. Parse(l).prompt.type = "question" /\ Parse(l).prompt # NoPrompt
    BY <2>2, <2>3
  <2> QED
    BY <1>9, <1>7, <2>0, <2>3, <2>4
<1>8. CASE l.k \notin DOMAIN Header \cup {"letter", "selectAction", "ask", "question"}
  <2>1. Parse(l) = Result(parser, NoPrompt)
    BY <1>0, <1>8 DEF Scan
  <2> QED
    BY <1>8, <2>1 DEF Result
<1> QED
  BY <1>3, <1>4, <1>5, <1>6, <1>7, <1>8

(* Collecting the lines of a menu.                                         *)
LEMMA AccumulateOf ==
  ASSUME parser \in Parsers, ~Scans, NEW l \in Line
  PROVE  /\ Parse(l).parser \in Parsers
         /\ l.k = Terminal[parser.mode] =>
              /\ Parse(l).parser.mode = "scan"
              /\ Parse(l).prompt = [type |-> parser.mode, opts |-> parser.opts, name |-> ""]
         /\ l.k # Terminal[parser.mode] =>
              Parse(l).parser.mode = parser.mode /\ Parse(l).prompt = NoPrompt
         /\ parser.mode \in Menus /\ l.k = "letter" =>
              Parse(l).parser.opts = parser.opts \cup {l.x}
<1>0. Parse(l) = Accumulate(parser, l)
  BY DEF Scans, Parse
<1>1. /\ l.k \in Kinds /\ l.x \in Names
      /\ parser.mode \in DOMAIN Terminal /\ parser.opts \in SUBSET Names /\ parser.idle \in BOOLEAN
      /\ parser = [mode |-> parser.mode, opts |-> parser.opts, idle |-> parser.idle]
  BY DEF Scans, Parsers, Line
<1>2. CASE l.k = Terminal[parser.mode]
  <2> DEFINE e == [parser EXCEPT !.mode = "scan", !.opts = {}]
             q == [type |-> parser.mode, opts |-> parser.opts, name |-> ""]
  <2>1. Parse(l) = Result(e, q)
    BY <1>0, <1>2 DEF Accumulate
  <2>2. [parser EXCEPT !.mode = "scan", !.opts = {}] = [mode |-> "scan", opts |-> {}, idle |-> parser.idle]
    <3> DEFINE m == parser.mode
               o == parser.opts
               i == parser.idle
               r == [mode |-> m, opts |-> o, idle |-> i]
    <3>1. parser = r
      BY <1>1
    <3> HIDE DEF m, o, i
    <3>2. [r EXCEPT !.mode = "scan"] = [mode |-> "scan", opts |-> o, idle |-> i]
      OBVIOUS
    <3>3. [[mode |-> "scan", opts |-> o, idle |-> i] EXCEPT !.opts = {}]
            = [mode |-> "scan", opts |-> {}, idle |-> i]
      OBVIOUS
    <3> HIDE DEF r
    <3>4. [r EXCEPT !.mode = "scan", !.opts = {}] = [[r EXCEPT !.mode = "scan"] EXCEPT !.opts = {}]
      OBVIOUS
    <3> QED
      BY <3>1, <3>2, <3>3, <3>4 DEF i
  <2>3. [mode |-> "scan", opts |-> {}, idle |-> parser.idle] \in Parsers
    BY <1>1 DEF Parsers
  <2>4. parser.mode \in Menus => l.k # "letter"
    BY <1>2 DEF Menus, Terminal
  <2>5. /\ Parse(l).parser = [mode |-> "scan", opts |-> {}, idle |-> parser.idle]
        /\ Parse(l).prompt = [type |-> parser.mode, opts |-> parser.opts, name |-> ""]
    <3>1. Parse(l).parser = e /\ Parse(l).prompt = q
      <4> HIDE DEF e, q
      <4> QED
        BY <2>1, ResultOf
    <3> QED
      BY <2>2, <3>1
  <2>6. [mode |-> "scan", opts |-> {}, idle |-> parser.idle].mode = "scan"
    OBVIOUS
  <2> QED
    BY <1>2, <2>3, <2>4, <2>5, <2>6
<1>3. CASE l.k # Terminal[parser.mode]
  <2> DEFINE o == IF \/ l.k = "letter" /\ ~(parser.mode = "submenu" /\ l.x = "i")
                     \/ l.k = "spec"
                  THEN parser.opts \cup {l.x} ELSE parser.opts
  <2>1. Parse(l) = Result([parser EXCEPT !.opts = o], NoPrompt)
    BY <1>0, <1>3 DEF Accumulate
  <2>2. o \in SUBSET Names
    BY <1>1
  <2>3. parser.mode \in Menus /\ l.k = "letter" => o = parser.opts \cup {l.x}
    BY DEF Menus
  <2> HIDE DEF o
  <2>4. [parser EXCEPT !.opts = o] = [mode |-> parser.mode, opts |-> o, idle |-> parser.idle]
    BY <1>1
  <2>5. [mode |-> parser.mode, opts |-> o, idle |-> parser.idle] \in Parsers
    BY <1>1, <2>2 DEF Parsers
  <2>6. /\ Parse(l).parser = [mode |-> parser.mode, opts |-> o, idle |-> parser.idle]
        /\ Parse(l).prompt = NoPrompt
    BY <2>1, <2>4, ResultOf
  <2>7. Parse(l).parser.mode = parser.mode /\ Parse(l).parser.opts = o
    BY <2>6
  <2> QED
    BY <1>3, <2>3, <2>5, <2>6, <2>7
<1> QED
  BY <1>2, <1>3

-----------------------------------------------------------------------------
(* In the duel, the bot's side.                                            *)

(* What a step of the bot leaves of the invariant.                         *)
LEMMA BotKept ==
  ASSUME Inv, state = "DUEL", state' = "DUEL", UNCHANGED <<lobby, server>>,
         down' = down \/ (down # <<>> /\ down' = Tail(down)),
         parser' \in Parsers, pc' \in Deciding \cup Reading,
         ix' \in DOMAIN InfoCmds, pending' \in BOOLEAN,
         strayed' \in BOOLEAN, pc = "run" /\ rejected => pc' = "run" /\ Scans' /\ up' = up
  PROVE  TypeOK' /\ Typed' /\ AskInv' /\ PhaseInv' /\ LobbyInv'
<1>1. down' \in Seq(Line) /\ (\A i \in DOMAIN down' : \E j \in DOMAIN down : down'[i] = down[j])
  <2>1. down \in Seq(Line)
    BY DEF Inv, Typed
  <2>2. CASE down' = down
    BY <2>1, <2>2
  <2>3. CASE down # <<>> /\ down' = Tail(down)
    BY <2>1, <2>3, ReadOf
  <2> QED
    BY <2>2, <2>3
<1>2. Typed'
  BY <1>1 DEF Inv, Typed, Parsers, server
<1>3. TypeOK'
  <2>1. parser'.mode \in {"scan"} \cup DOMAIN Terminal
    BY DEF Parsers
  <2> QED
    BY <2>1 DEF Inv, TypeOK, lobby, server
<1>4. AskInv'
  BY DEF Inv, AskInv, server
<1>5. PhaseInv'
  <2>1. srv' # "closed" => \A i \in DOMAIN down' : down'[i].k # "end"
    BY <1>1 DEF Inv, PhaseInv, server
  <2>2. rejected' => Refused'
    <3> SUFFICES ASSUME rejected PROVE Refused'
      BY DEF server
    <3>1. Refused
      BY DEF Inv, PhaseInv
    <3>2. AllOf(down', Refusals)
      BY <1>1, <3>1 DEF Refused, AllOf
    <3> QED
      BY <3>1, <3>2 DEF Refused, server
  <2> QED
    BY <2>1, <2>2 DEF Inv, PhaseInv, server
<1>6. LobbyInv'
  BY DEF LobbyInv
<1> QED
  BY <1>2, <1>3, <1>4, <1>5, <1>6

(* What is sent on an idle connection.                                     *)
LEMMA SendOne ==
  ASSUME up = <<>>, NEW c, Send(<<c>>)
  PROVE  up' = <<c>> /\ up' # <<>> /\ Head(up') = c
<1>1. up' = <<>> \o <<c>>
  BY DEF Send
<1>2. <<>> \in Seq({c}) /\ <<c>> \in Seq({c})
  OBVIOUS
<1> QED
  BY <1>1, <1>2

(* ... the command x.                                                      *)
LEMMA AskOne ==
  ASSUME up = <<>>, NEW x, Send(<<C(x)>>), Over(down')
  PROVE  Asked(x)' /\ up' # <<>>
<1>1. up' = <<C(x)>> /\ up' # <<>>
  BY SendOne
<1> QED
  BY <1>1 DEF Asked, C, L

(* The letters of a battle menu.                                           *)
LEMMA BattleLetters ==
  ASSUME AskInv, ask.p \in Battles
  PROVE  /\ "a" \in Opts("battle") <=> With("a") # {}
         /\ "c" \in Opts("battle") <=> With("c") # {}
         /\ ask.usable = With("a") \cup With("c")
         /\ Opts("battle") \cap {"m", "e"} = ask.phases
<1>1. /\ ask.usable \subseteq {"a", "c"} \X Specs
      /\ ask.phases \in {{"e"}, {"m", "e"}}
  BY DEF AskInv
<1>2. \A u \in ask.usable : u[1] \in {"a", "c"}
  BY <1>1
<1>3. Opts("battle") = ask.phases \cup {u[1] : u \in ask.usable}
  BY DEF Opts
<1>4. "a" \notin ask.phases /\ "c" \notin ask.phases /\ ask.phases \subseteq {"m", "e"}
  BY <1>1
<1>5. "a" \in Opts("battle") <=> With("a") # {}
  BY <1>3, <1>4 DEF With
<1>6. "c" \in Opts("battle") <=> With("c") # {}
  BY <1>3, <1>4 DEF With
<1>7. ask.usable = With("a") \cup With("c")
  BY <1>2 DEF With
<1>8. {u[1] : u \in ask.usable} \cap {"m", "e"} = {}
  BY <1>2
<1>9. Opts("battle") \cap {"m", "e"} = ask.phases
  BY <1>3, <1>4, <1>8
<1> QED
  BY <1>5, <1>6, <1>7, <1>9

(* The next list to probe, or the decision.                                *)
Probing ==
  /\ pc \in {"probeAttack", "probeActivate", "decide"}
  /\ pc = "probeAttack" => ListCase("a", {})
  /\ pc = "probeActivate" => ListCase("c", With("a"))
  /\ pc = "decide" => DecisionCase

(* The next list that the menu has is asked for, else the bot decides.     *)
LEMMA ProbeNextOf ==
  ASSUME AskInv, ask.p = "battle", NEW o, ProbeNext(o), up = <<>>,
         UNCHANGED ask, Over(down'), parser'.mode = "scan", Handling("battle")',
         \/ o = Opts("battle") /\ offered' = {}
         \/ o = Opts("battle") \cap {"c"} /\ offered' = With("a")
         \/ o = {} /\ offered' = ask.usable
  PROVE  Probing'
<1>1. /\ "a" \in Opts("battle") <=> With("a") # {}
      /\ "c" \in Opts("battle") <=> With("c") # {}
      /\ ask.usable = With("a") \cup With("c")
  BY BattleLetters DEF Battles
<1>2. /\ Opts("battle")' = Opts("battle") /\ With("a")' = With("a") /\ With("c")' = With("c")
      /\ ask'.usable = ask.usable /\ ask'.p = "battle"
  BY DEF Opts, With
<1>3. CASE "a" \in o
  <2>1. o = Opts("battle") /\ offered' = {}
    BY <1>3
  <2>2. Send(<<C("a")>>) /\ pc' = "probeAttack"
    BY <1>3 DEF ProbeNext
  <2>3. Asked("a")'
    BY <2>2, AskOne
  <2>4. ListAsked("a")'
    BY <1>2, <1>3, <2>1, <2>3 DEF ListAsked, Scans
  <2>5. ListCase("a", {})'
    BY <2>1, <2>4 DEF ListCase
  <2> QED
    BY <2>2, <2>5 DEF Probing
<1>4. CASE "a" \notin o /\ "c" \in o
  <2>1. "c" \in Opts("battle") /\ offered' = With("a")
    BY <1>1, <1>4
  <2>2. Send(<<C("c")>>) /\ pc' = "probeActivate"
    BY <1>4 DEF ProbeNext
  <2>3. Asked("c")'
    BY <2>2, AskOne
  <2>4. ListAsked("c")'
    BY <1>2, <2>1, <2>3 DEF ListAsked, Scans
  <2>5. ListCase("c", With("a"))'
    BY <1>2, <2>1, <2>4 DEF ListCase
  <2> QED
    BY <2>2, <2>5 DEF Probing
<1>5. CASE "a" \notin o /\ "c" \notin o
  <2>1. offered' = ask.usable
    BY <1>1, <1>5
  <2>2. pc' = "decide" /\ up' = <<>>
    BY <1>5 DEF ProbeNext
  <2>3. Handling(held.type)' /\ held'.type = "battle"
    BY DEF Handling, Shows
  <2>4. DecisionCase'
    <3>1. Scans' /\ Quiet'
      BY <2>2 DEF Scans, Quiet
    <3> QED
      BY <1>2, <2>1, <2>3, <3>1 DEF DecisionCase
  <2> QED
    BY <2>2, <2>4 DEF Probing
<1> QED
  BY <1>3, <1>4, <1>5

(* That is all the invariant asks of a bot that probes.                    *)
LEMMA ProbingDuel == Probing' /\ state' = "DUEL" => DuelInv'
BY DEF Probing, DuelInv

(* The bot sets out on the menu that is shown.                             *)
LEMMA BeginMenu ==
  ASSUME AskInv, NEW p, Shows(p), ask.p = p.type, Begin(p), up = <<>>, state' = "DUEL",
         UNCHANGED ask, Over(down'), parser'.mode = "scan",
         offered' = {}, letters' = {}, outer' = NoPrompt
  PROVE  DuelInv'
<1>1. held' = p /\ p.type \in Menus
  BY DEF Begin, Shows
<1>2. Handling(p.type)'
  <2>1. p.opts = Opts(p.type)
    BY DEF Shows
  <2>2. Opts(p.type)' = Opts(p.type)
    BY DEF Opts
  <2> QED
    BY <1>1, <2>1, <2>2 DEF Handling, Shows
<1>3. CASE p.type = "idle"
  <2>1. Send(<<C("?")>>) /\ pc' = "probe"
    BY <1>3 DEF Begin
  <2>2. Asked("?")'
    BY <2>1, AskOne
  <2>3. ProbeCase'
    BY <1>2, <1>3, <2>2 DEF ProbeCase, Scans
  <2> QED
    BY <2>1, <2>3 DEF DuelInv
<1>4. CASE p.type = "battle"
  <2>1. ProbeNext(p.opts)
    BY <1>4 DEF Begin
  <2>2. p.opts = Opts("battle")
    BY <1>4 DEF Shows
  <2>3. Handling("battle")'
    BY <1>2, <1>4
  <2>4. Probing'
    BY <1>4, <2>1, <2>2, <2>3, ProbeNextOf
  <2> QED
    BY <2>4, ProbingDuel
<1> QED
  BY <1>1, <1>3, <1>4 DEF Menus

(* An answer that the server waits for, and back to the main loop.         *)
LEMMA ReturnOf ==
  ASSUME Return, outer' = NoPrompt, outer = NoPrompt, UNCHANGED ask,
         parser'.mode = "scan", Over(down'), up = <<>>, NEW c, Send(<<c>>), Final(c),
         state' = "DUEL"
  PROVE  DuelInv'
<1>1. up' = <<c>> /\ Head(up') = c
  BY SendOne
<1>2. pc' = "run" /\ Clear'
  BY DEF Return, Clear
<1>3. Final(Head(up))'
  BY <1>1 DEF Final, LettersOf, Of
<1>4. RunCase'
  BY <1>1, <1>2, <1>3 DEF RunCase, Scans
<1> QED
  BY <1>2, <1>4 DEF DuelInv

-----------------------------------------------------------------------------
(* In the duel, what the bot does without reading.                         *)

(* An informational command of the resync.                                 *)
LEMMA SendInfoStep == ASSUME Inv, SendInfo PROVE Inv'
<1>1. /\ state = "DUEL" /\ state' = "DUEL" /\ pc = "info" /\ pc' = "resync"
      /\ UNCHANGED <<lobby, pending, parser, held, outer, ix, offered, letters, strayed, down, server>>
      /\ Send(<<C(InfoCmds[ix])>>)
  BY DEF SendInfo
<1>2. InfoCase
  BY <1>1 DEF Inv, DuelInv
<1>3. TypeOK' /\ Typed' /\ AskInv' /\ PhaseInv' /\ LobbyInv'
  <2>1. /\ parser' \in Parsers /\ ix' \in DOMAIN InfoCmds /\ pending' \in BOOLEAN /\ down' = down
        /\ strayed' \in BOOLEAN
    BY <1>1 DEF Inv, Typed, TypeOK, Parsers
  <2> QED
    BY <1>1, <2>1, BotKept DEF Reading
<1>4. ResyncCase'
  <2>1. up = <<>> /\ Over(down')
    BY <1>1, <1>2 DEF InfoCase, Quiet
  <2>2. up' = <<C(InfoCmds[ix])>>
    BY <1>1, <2>1, SendOne
  <2>3. Asked(InfoCmds[ix])'
    BY <1>1, <2>1, <2>2 DEF Asked, C, L
  <2> QED
    BY <1>1, <1>2, <2>3 DEF ResyncCase, InfoCase, Shows, Opts, Clear, Scans, server
<1> QED
  BY <1>1, <1>3, <1>4 DEF Inv, DuelInv

(* The resync is over.                                                     *)
LEMMA ResumeStep == ASSUME Inv, Resume PROVE Inv'
<1>1. /\ state = "DUEL" /\ state' = "DUEL" /\ pc = "resume" /\ Begin(outer) /\ outer' = NoPrompt
      /\ UNCHANGED <<lobby, pending, parser, ix, offered, letters, strayed, down, server>>
  BY DEF Resume
<1>2. InfoCase
  BY <1>1 DEF Inv, DuelInv
<1>3. DuelInv'
  <2>1. /\ AskInv /\ Shows(outer) /\ ask.p = outer.type /\ up = <<>> /\ Over(down')
        /\ UNCHANGED ask /\ parser'.mode = "scan" /\ offered' = {} /\ letters' = {}
    BY <1>1, <1>2 DEF Inv, InfoCase, Quiet, Clear, Scans, server
  <2> QED
    BY <1>1, <2>1, BeginMenu
<1>4. pc' \in Deciding \cup Reading
  BY <1>1 DEF Begin, ProbeNext, Deciding, Reading
<1>5. TypeOK' /\ Typed' /\ AskInv' /\ PhaseInv' /\ LobbyInv'
  <2>1. /\ parser' \in Parsers /\ ix' \in DOMAIN InfoCmds /\ pending' \in BOOLEAN /\ down' = down
        /\ strayed' \in BOOLEAN
    BY <1>1 DEF Inv, Typed, TypeOK, Parsers
  <2> QED
    BY <1>1, <1>4, <2>1, BotKept
<1> QED
  BY <1>3, <1>5 DEF Inv

(* What the agent chooses is accepted, whatever the prompt.                *)
LEMMA Picks ==
  ASSUME NEW s \in Nat, NEW n \in Nat
  PROVE  Cardinality(s + 1 .. s + n) = n
<1>1. Cardinality(s + 1 .. s + n) = IF s + 1 > s + n THEN 0 ELSE s + n - (s + 1) + 1
  BY FS_Interval
<1> QED
  BY <1>1

(* An answer is one that the prompt accepts.                               *)
LEMMA AnswerAccepted ==
  ASSUME NEW p, p.n \in Nat, p.min \in Nat \ {0}, p.free \in BOOLEAN, p.n >= p.min,
         p.type = "yesno" => p.min = 1, ~Guessed(p),
         \A S \in SUBSET (1 .. p.n) : Cardinality(S) = p.min => S \in p.wants,
         NEW c \in AgentChoices(p)
  PROVE  Accepts(p, Translate(p, c))
<1>1. p.n \in Nat /\ p.min \in Nat /\ p.min > 0 /\ p.free \in BOOLEAN
  OBVIOUS
<1>2. /\ p.type \notin {"sum", "counter", "name"}
      /\ p.type \in {"unselect", "place"} => p.min = 1
  BY <1>1 DEF Guessed
<1>3. CASE c \in 0 .. p.n - 1
  <2> DEFINE s == IF p.type \in {"place", "unselect"} THEN c ELSE Smaller(c, p.n - p.min)
             cmd == Translate(p, c)
  <2>1. s \in Nat /\ s + p.min <= p.n
    BY <1>1, <1>2, <1>3 DEF Smaller
  <2>2. Smaller(s + p.min, p.n) = s + p.min
    BY <1>1, <2>1 DEF Smaller
  <2>3. cmd = Pick(s + 1 .. s + p.min)
    <3>1. ~(c < 0) /\ c >= 0
      BY <1>1, <1>3
    <3>2. CASE p.type = "unselect"
      <4>1. cmd = Pick({c + 1}) /\ s = c
        BY <1>2, <3>1, <3>2 DEF Translate
      <4>2. {c + 1} = c + 1 .. c + p.min
        BY <1>2, <1>3, <3>2
      <4> QED
        BY <4>1, <4>2
    <3>3. CASE p.type = "place"
      <4>1. cmd = PicksFrom(p, c) /\ s = c
        BY <1>2, <3>1, <3>3 DEF Translate
      <4> QED
        BY <2>2, <4>1 DEF PicksFrom
    <3>4. CASE p.type \notin {"unselect", "place"}
      <4>1. cmd = PicksFrom(p, Smaller(c, p.n - p.min)) /\ s = Smaller(c, p.n - p.min)
        BY <1>2, <3>1, <3>4 DEF Translate
      <4> QED
        BY <2>2, <4>1 DEF PicksFrom
    <3> QED
      BY <3>2, <3>3, <3>4
  <2> HIDE DEF s, cmd
  <2>4. cmd.k = "pick" /\ cmd.items = s + 1 .. s + p.min
    BY <2>3 DEF Pick
  <2>5. cmd.items \in SUBSET (1 .. p.n) /\ Cardinality(cmd.items) = p.min
    BY <1>1, <2>1, <2>4, Picks
  <2>6. cmd.items \in p.wants
    BY <2>5
  <2> QED
    BY <2>4, <2>6 DEF Accepts, cmd
<1>4. CASE c \notin 0 .. p.n - 1
  <2>0. p.type = "yesno" => 0 \in 0 .. p.n - 1
    BY <1>1
  <2>1. \/ p.type = "yesno" /\ c = Decline
        \/ p.type = "chain" /\ p.free /\ c = Cancel
        \/ p.type = "unselect" /\ p.free /\ c = Finish
    BY <1>2, <1>4, <2>0 DEF AgentChoices
  <2> DEFINE cmd == Translate(p, c)
  <2>2. cmd = Meta(c)
    <3>1. c < 0 /\ ~(c >= 0)
      BY <2>1 DEF Decline, Cancel, Finish
    <3> QED
      BY <3>1 DEF Translate
  <2>3. cmd.k = "meta" /\ cmd.x = IF c = Decline THEN "n" ELSE IF c = Cancel THEN "c" ELSE "f"
    BY <2>2 DEF Meta
  <2> HIDE DEF cmd
  <2>4. Decline # Cancel /\ Decline # Finish /\ Cancel # Finish
    BY DEF Decline, Cancel, Finish
  <2>5. CASE p.type = "yesno" /\ c = Decline
    <3>1. cmd.x = "n"
      BY <2>3, <2>5
    <3> QED
      BY <2>3, <2>5, <3>1 DEF Accepts, cmd
  <2>6. CASE p.type = "chain" /\ p.free /\ c = Cancel
    <3>1. cmd.x = "c"
      BY <2>3, <2>4, <2>6
    <3> QED
      BY <2>3, <2>6, <3>1 DEF Accepts, cmd
  <2>7. CASE p.type = "unselect" /\ p.free /\ c = Finish
    <3>1. cmd.x = "f"
      BY <2>3, <2>4, <2>7
    <3> QED
      BY <2>3, <2>7, <3>1 DEF Accepts, cmd
  <2> QED
    BY <2>1, <2>5, <2>6, <2>7
<1> QED
  BY <1>3, <1>4

(* The answer to a prompt without a handler.                               *)
LEMMA AnswerStep == ASSUME Inv, Answer PROVE Inv'
<1>1. /\ state = "DUEL" /\ state' = "DUEL" /\ pc = "answer" /\ Return
      /\ UNCHANGED <<lobby, pending, parser, outer, ix, strayed, down, server>>
  BY DEF Answer
<1>2. AnswerCase
  BY <1>1 DEF Inv, DuelInv
<1>3. /\ outer = NoPrompt /\ outer' = NoPrompt /\ UNCHANGED ask /\ parser'.mode = "scan"
      /\ Over(down') /\ up = <<>> /\ ask.p = "ask" /\ ask.x \in DOMAIN Prompt
  BY <1>1, <1>2 DEF AnswerCase, Quiet, Scans, server, Inv, AskInv
<1>4. PICK c : Send(<<c>>) /\ (Guessed(Prompt[ask.x]) \/ Accepts(Prompt[ask.x], c))
  <2> DEFINE p == Prompt[ask.x]
  <2>0. /\ p.n \in Nat /\ p.min \in Nat \ {0} /\ p.free \in BOOLEAN
        /\ p.n >= p.min /\ (p.type = "yesno" => p.min = 1)
        /\ Guessed(p) \/ \A S \in SUBSET (1 .. p.n) : Cardinality(S) = p.min => S \in p.wants
    BY <1>3, MudClientAssumption
  <2> HIDE DEF p
  <2>1. CASE held.type = "ask"
    <3>1. \E c \in AgentChoices(p) : Send(<<Translate(p, c)>>)
      BY <1>2, <2>1 DEF Answer, AnswerCase, p
    <3>2. PICK c \in AgentChoices(p) : Send(<<Translate(p, c)>>)
      BY <3>1
    <3>3. Guessed(p) \/ Accepts(p, Translate(p, c))
      BY <2>0, AnswerAccepted
    <3> QED
      BY <3>2, <3>3 DEF p
  <2>2. CASE held.type = "question"
    <3>1. p.type = "yesno" /\ p.min = 1
      BY <1>2, <2>0, <2>2 DEF AnswerCase, p
    <3>2. PICK c \in AgentChoices(YesNo) : Send(<<Translate(YesNo, c)>>)
      BY <2>2 DEF Answer
    <3>3. c \in {0, Decline}
      BY <3>2 DEF AgentChoices, YesNo
    <3>4. CASE c = Decline
      <4>1. c < 0 /\ ~(c >= 0) /\ Translate(YesNo, c) = Meta(c)
        BY <3>4 DEF Translate, Decline
      <4>2. Meta(c).k = "meta" /\ Meta(c).x = "n"
        BY <3>4 DEF Meta
      <4>3. Accepts(p, Translate(YesNo, c))
        BY <3>1, <4>1, <4>2 DEF Accepts
      <4> QED
        BY <3>2, <4>3 DEF p
    <3>5. CASE c = 0
      <4>1. Translate(YesNo, c) = PicksFrom(YesNo, Smaller(0, 0))
        BY <3>5 DEF Translate, YesNo
      <4>2. PicksFrom(YesNo, Smaller(0, 0)) = Pick(1 .. 1)
        BY DEF PicksFrom, YesNo, Smaller
      <4>3. Pick(1 .. 1).k = "pick" /\ Pick(1 .. 1).items = 1 .. 1
        BY DEF Pick
      <4>4. 1 .. 1 \in SUBSET (1 .. p.n) /\ Cardinality(1 .. 1) = 1
        <5>1. Cardinality(0 + 1 .. 0 + 1) = 1
          BY Picks
        <5> QED
          BY <2>0, <3>1, <5>1
      <4>5. Guessed(p) \/ 1 .. 1 \in p.wants
        BY <2>0, <3>1, <4>4
      <4>6. Guessed(p) \/ Accepts(p, Translate(YesNo, c))
        BY <4>1, <4>2, <4>3, <4>5 DEF Accepts
      <4> QED
        BY <3>2, <4>6 DEF p
    <3> QED
      BY <3>3, <3>4, <3>5
  <2> QED
    BY <1>2, <2>1, <2>2 DEF AnswerCase
<1>5. DuelInv'
  <2>1. Final(c)
    BY <1>3, <1>4 DEF Final
  <2> QED
    BY <1>1, <1>3, <1>4, <2>1, ReturnOf
<1>6. TypeOK' /\ Typed' /\ AskInv' /\ PhaseInv' /\ LobbyInv'
  <2>1. /\ parser' \in Parsers /\ ix' \in DOMAIN InfoCmds /\ pending' \in BOOLEAN /\ down' = down
        /\ strayed' \in BOOLEAN
    BY <1>1 DEF Inv, Typed, TypeOK, Parsers
  <2>2. pc' = "run"
    BY <1>1, <1>3 DEF Return
  <2> QED
    BY <1>1, <2>1, <2>2, BotKept DEF Reading
<1> QED
  BY <1>5, <1>6 DEF Inv

(* The actions the agent chooses among.                                    *)
LEMMA OffersMenu ==
  ASSUME Inv, DecisionCase
  PROVE  /\ Structured = Menu
         /\ held.type \in Menus /\ ask.p = held.type
         /\ ask.phases \in {{"e"}, {"b", "e"}, {"m", "e"}}
         /\ \A u \in ask.usable : u[2] # "" /\ u[2] \in Specs
<1>1. /\ held.type \in Menus /\ held.opts = Opts(held.type) /\ ask.p = held.type
      /\ offered = ask.usable
  BY DEF DecisionCase, Handling, Shows
<1>2. ask.phases \in {{"e"}, {"b", "e"}, {"m", "e"}}
  BY <1>1 DEF Inv, AskInv, Menus, Idles, Battles
<1>3. \A u \in ask.usable : u[2] # "" /\ u[2] \in Specs
  <2>1. \A u \in ask.usable : u[2] \in Specs
    BY <1>1 DEF Inv, AskInv, Menus, Idles, Battles
  <2>2. "" \notin Specs
    BY MudClientAssumption DEF Reserved
  <2> QED
    BY <2>1, <2>2
<1>4. held.opts \cap Phases[held.type] = ask.phases
  <2>1. CASE held.type = "idle"
    <3>1. ask.phases \in {{"e"}, {"b", "e"}}
      BY <1>1, <2>1 DEF Inv, AskInv, Idles
    <3>2. held.opts = ask.phases /\ Phases[held.type] = {"b", "e"}
      BY <1>1, <2>1 DEF Opts, Phases
    <3> QED
      BY <3>1, <3>2
  <2>2. CASE held.type = "battle"
    <3>1. Opts("battle") \cap {"m", "e"} = ask.phases
      BY <1>1, <2>2, BattleLetters DEF Inv, Battles
    <3>2. Phases[held.type] = {"m", "e"}
      BY <2>2 DEF Phases
    <3> QED
      BY <1>1, <2>2, <3>1, <3>2
  <2> QED
    BY <1>1, <2>1, <2>2 DEF Menus
<1>5. Structured = Menu
  BY <1>1, <1>4 DEF Structured, Menu
<1> QED
  BY <1>1, <1>2, <1>3, <1>5

(* The bot chooses a phase or a card.                                      *)
LEMMA DecideStep == ASSUME Inv, Decide PROVE Inv'
<1>1. /\ state = "DUEL" /\ state' = "DUEL" /\ pc = "decide"
      /\ UNCHANGED <<lobby, pending, parser, outer, ix, strayed, down, server>>
  BY DEF Decide
<1>2. DecisionCase
  BY <1>1 DEF Inv, DuelInv
<1>3. /\ outer = NoPrompt /\ outer' = NoPrompt /\ UNCHANGED ask /\ parser'.mode = "scan"
      /\ Over(down') /\ up = <<>> /\ letters = {} /\ ask.p = held.type
  BY <1>1, <1>2 DEF DecisionCase, Handling, Quiet, Scans, server
<1>4. /\ Structured = ask.usable \cup {<<l, "">> : l \in ask.phases}
      /\ held.type \in Menus
      /\ ask.phases \in {{"e"}, {"b", "e"}, {"m", "e"}}
      /\ \A u \in ask.usable : u[2] # "" /\ u[2] \in Specs
  BY <1>2, OffersMenu DEF Menu
<1> SUFFICES DuelInv' /\ pc' \in Deciding \cup Reading
  <2>1. /\ parser' \in Parsers /\ ix' \in DOMAIN InfoCmds /\ pending' \in BOOLEAN /\ down' = down
        /\ strayed' \in BOOLEAN
    BY <1>1 DEF Inv, Typed, TypeOK, Parsers
  <2> QED
    BY <1>1, <2>1, BotKept DEF Inv
<1>5. CASE \E a \in {a \in Structured : a[2] = ""} \cup {<<"e", "">>} : Send(<<C(a[1])>>) /\ Return
  <2>1. PICK a \in {a \in Structured : a[2] = ""} \cup {<<"e", "">>} : Send(<<C(a[1])>>) /\ Return
    BY <1>5
  <2>2. a[1] \in ask.phases
    <3>1. "e" \in ask.phases
      BY <1>4
    <3>2. CASE a = <<"e", "">>
      BY <3>1, <3>2
    <3>3. CASE a \in Structured /\ a[2] = ""
      <4>1. a \in {<<l, "">> : l \in ask.phases}
        BY <1>4, <3>3
      <4>2. PICK x \in ask.phases : a = <<x, "">>
        BY <4>1
      <4> QED
        BY <4>2
    <3> QED
      BY <2>1, <3>2, <3>3
  <2>3. Final(C(a[1]))
    BY <1>3, <1>4, <2>2 DEF Final
  <2>4. DuelInv'
    BY <1>1, <1>3, <2>1, <2>3, ReturnOf
  <2>5. pc' = "run"
    BY <1>3, <2>1 DEF Return
  <2> QED
    BY <2>4, <2>5 DEF Reading
<1>6. CASE \E a \in {a \in Structured : a[2] # ""} :
             /\ chosen' = a /\ UNCHANGED <<held, offered, letters>>
             /\ Send(<<C(IF held.type = "idle" THEN a[2] ELSE a[1])>>)
             /\ pc' = CASE held.type = "idle" -> "submenu"
                        [] held.type # "idle" /\ a[1] = "a" -> "execAttack"
                        [] OTHER -> "execActivate"
  <2>1. PICK a \in {a \in Structured : a[2] # ""} :
             /\ chosen' = a /\ UNCHANGED <<held, offered, letters>>
             /\ Send(<<C(IF held.type = "idle" THEN a[2] ELSE a[1])>>)
             /\ pc' = CASE held.type = "idle" -> "submenu"
                        [] held.type # "idle" /\ a[1] = "a" -> "execAttack"
                        [] OTHER -> "execActivate"
    BY <1>6
  <2>2. a \in ask.usable
    <3>1. \A x : <<x, "">>[2] = ""
      OBVIOUS
    <3>2. a[2] # "" /\ a \in Structured
      OBVIOUS
    <3>3. a \notin {<<l, "">> : l \in ask.phases}
      BY <3>1, <3>2
    <3> QED
      BY <1>4, <3>2, <3>3
  <2>3. CASE held.type = "idle"
    <3>1. pc' = "submenu" /\ Send(<<C(a[2])>>)
      BY <2>1, <2>3
    <3>2. up' = <<C(a[2])>>
      BY <1>3, <3>1, SendOne
    <3>3. Asked(chosen[2])'
      BY <1>3, <2>1, <3>2 DEF Asked, C, L
    <3>4. SubmenuCase'
      BY <1>3, <2>1, <2>2, <2>3, <3>3 DEF SubmenuCase, Scans
    <3> QED
      BY <3>1, <3>4 DEF DuelInv, Reading
  <2>4. CASE held.type # "idle"
    <3>1. held.type = "battle" /\ ask.p = "battle"
      BY <1>3, <1>4, <2>4 DEF Menus
    <3>2. a[1] \in {"a", "c"} /\ a[1] \in Opts("battle")
      BY <2>2, <3>1 DEF Inv, AskInv, Battles, Opts
    <3>3. Opts("battle")' = Opts("battle")
      BY <1>3 DEF Opts
    <3>4. up' = <<C(a[1])>>
      BY <1>3, <2>1, <2>4, SendOne
    <3>5. CASE a[1] = "a"
      <4>1. pc' = "execAttack"
        BY <2>1, <2>4, <3>5
      <4>2. ListAsked("a")'
        BY <1>3, <3>1, <3>2, <3>3, <3>4, <3>5 DEF ListAsked, Asked, Scans, C, L
      <4>3. ExecCase("a")'
        BY <1>3, <2>1, <2>2, <3>1, <3>5, <4>2 DEF ExecCase
      <4> QED
        BY <4>1, <4>3 DEF DuelInv, Reading
    <3>6. CASE a[1] = "c"
      <4>1. pc' = "execActivate"
        BY <2>1, <2>4, <3>6
      <4>2. ListAsked("c")'
        BY <1>3, <3>1, <3>2, <3>3, <3>4, <3>6 DEF ListAsked, Asked, Scans, C, L
      <4>3. ExecCase("c")'
        BY <1>3, <2>1, <2>2, <3>1, <3>6, <4>2 DEF ExecCase
      <4> QED
        BY <4>1, <4>3 DEF DuelInv, Reading
    <3> QED
      BY <3>2, <3>5, <3>6
  <2> QED
    BY <2>3, <2>4
<1> QED
  BY <1>5, <1>6 DEF Decide

-----------------------------------------------------------------------------
(* In the duel, what the bot reads.                                        *)

(* The bot reads the end of the duel.                                      *)
LEMMA SeeEndStep == ASSUME Inv, SeeEnd PROVE Inv'
<1>1. /\ state = "DUEL" /\ pc \in Reading /\ state' = "FINISHED"
      /\ down # <<>> /\ down' = Tail(down)
      /\ UNCHANGED <<lobby, duel, up, server>>
  BY DEF SeeEnd, Read
<1>2. down \in Seq(Line)
  BY DEF Inv, Typed
<1>3. down' \in Seq(Line) /\ (\A i \in DOMAIN down' : \E j \in DOMAIN down : down'[i] = down[j])
  BY <1>1, <1>2, ReadOf
<1>4. Typed' /\ AskInv'
  BY <1>1, <1>3 DEF Inv, Typed, AskInv, duel, server
<1>5. TypeOK'
  BY <1>1 DEF Inv, TypeOK, lobby, duel, server
<1>6. PhaseInv'
  BY <1>1, <1>3 DEF Inv, PhaseInv, Refused, duel, server
<1> QED
  BY <1>1, <1>4, <1>5, <1>6 DEF Inv, LobbyInv, DuelInv

(* A line of the duel that is not its end.                                 *)
LEMMA Heard1 ==
  ASSUME Inv, down # <<>>, Head(down).k # "end", down' = Tail(down)
  PROVE  /\ down \in Seq(Line) /\ Head(down) \in Line /\ Tail(down) \in Seq(Line) /\ ~Over(down)
         /\ \A K, t : Ends(down, K, t) /\ t \notin K /\ "end" \notin K /\ t # "end" =>
              /\ Head(down).k \in K \cup {t}
              /\ Head(down).k = t => Over(down')
              /\ Head(down).k \in K => Ends(down', K, t)
         /\ \A k : Said(down, k) = Said(down', k)
                                     \cup (IF Head(down).k = k THEN {Head(down).x} ELSE {})
         /\ Usable(down) = Usable(down')
              \cup (IF Head(down).k = "usable" THEN {Head(down).x} \X Head(down).items ELSE {})
<1>1. down \in Seq(Line)
  BY DEF Inv, Typed
<1>2. /\ DOMAIN down = 1 .. Len(down) /\ Len(down) \in Nat /\ Len(down) > 0
      /\ Head(down) = down[1] /\ Head(down) \in Line /\ Tail(down) \in Seq(Line)
  BY <1>1, ReadOf
<1>3. ~Over(down)
  <2>1. 1 \in DOMAIN down
    BY <1>2
  <2> QED
    BY <1>2, <2>1 DEF Over
<1>4. ASSUME NEW K, NEW t, Ends(down, K, t), t \notin K, "end" \notin K, t # "end"
      PROVE  /\ Head(down).k \in K \cup {t}
             /\ Head(down).k = t => Over(down')
             /\ Head(down).k \in K => Ends(down', K, t)
  BY <1>1, <1>4, EndsRead
<1>5. /\ \A k : Said(down, k) = Said(down', k)
                                     \cup (IF Head(down).k = k THEN {Head(down).x} ELSE {})
      /\ Usable(down) = Usable(down')
              \cup (IF Head(down).k = "usable" THEN {Head(down).x} \X Head(down).items ELSE {})
  BY <1>1, SaidRead
<1> QED
  BY <1>1, <1>2, <1>3, <1>4, <1>5

(* A step that hears a line.                                               *)
LEMMA HearOf ==
  ASSUME Inv, NEW at, NEW l, Hear(at, l)
  PROVE  /\ state = "DUEL" /\ state' = "DUEL" /\ pc = at
         /\ l = Head(down) /\ l \in Line /\ down # <<>> /\ Head(down).k # "end" /\ down' = Tail(down)
         /\ parser \in Parsers /\ parser' = Parse(l).parser /\ parser' \in Parsers
         /\ UNCHANGED <<state, lobby, server>> /\ UNCHANGED ask
<1>1. /\ state = "DUEL" /\ state' = "DUEL" /\ pc = at
      /\ l = Head(down) /\ down # <<>> /\ Head(down).k # "end" /\ down' = Tail(down)
      /\ parser' = Parse(l).parser /\ UNCHANGED <<state, lobby, server>>
  BY DEF Hear, Read
<1>2. parser \in Parsers
  BY DEF Inv, Typed, Parsers
<1>3. l \in Line
  BY <1>1, Heard1
<1>4. parser' \in Parsers
  BY <1>1, <1>2, <1>3, ScanOf, AccumulateOf
<1> QED
  BY <1>1, <1>2, <1>3, <1>4 DEF server

(* A line of a list of the battle menu.                                    *)
LEMMA ListRead ==
  ASSUME Inv, NEW letter \in {"a", "c"}, NEW at, NEW l, Hear(at, l),
         ListAsked(letter) \/ ListTold(letter)
  PROVE  /\ ask.p = "list" /\ ask.x = letter /\ up = <<>>
         /\ l.k = Terminal[ListMode(letter)] =>
              parser'.mode = "scan" /\ Over(down')
         /\ l.k # Terminal[ListMode(letter)] /\ up' = up => ListTold(letter)'
<1> DEFINE m == ListMode(letter)
           t == Terminal[m]
           K == {"spec", "letter"}
<1>1. /\ l = Head(down) /\ l \in Line /\ down # <<>> /\ Head(down).k # "end" /\ down' = Tail(down)
      /\ parser \in Parsers /\ parser' = Parse(l).parser /\ UNCHANGED ask
  BY HearOf
<1>2. /\ ~Over(down)
      /\ \A K1, t1 : Ends(down, K1, t1) /\ t1 \notin K1 /\ "end" \notin K1 /\ t1 # "end" =>
              /\ Head(down).k \in K1 \cup {t1}
              /\ Head(down).k = t1 => Over(down')
              /\ Head(down).k \in K1 => Ends(down', K1, t1)
  BY <1>1, Heard1
<1>3. ListTold(letter)
  BY <1>2 DEF ListAsked, Asked
<1>4. /\ m \in DOMAIN Terminal /\ m # "scan" /\ t \in {"selectCard", "enterText"}
      /\ ListHead(letter) \in DOMAIN Header /\ Header[ListHead(letter)] = m
      /\ ListHead(letter) \notin {"selectCard", "enterText"}
  BY DEF ListMode, ListHead, Terminal, Header
<1>5. t \notin K /\ "end" \notin K /\ t # "end"
  BY <1>4
<1> HIDE DEF m, t, K
<1>6. CASE Scans /\ Head(down).k = ListHead(letter) /\ Ends(Tail(down), K, t)
  <2>1. parser'.mode = m
    BY <1>1, <1>4, <1>6, ScanOf
  <2>2. up' = up => ListTold(letter)'
    BY <1>1, <1>3, <1>6, <2>1 DEF ListTold, m, t, K
  <2> QED
    BY <1>1, <1>3, <1>4, <1>6, <2>2 DEF ListTold, t, m
<1>7. CASE parser.mode = m /\ Ends(down, K, t)
  <2>0. ~Scans /\ Terminal[parser.mode] = t
    BY <1>4, <1>7 DEF Scans, t
  <2>1. /\ l.k \in K \cup {t}
        /\ l.k = t => Over(down')
        /\ l.k \in K => Ends(down', K, t)
    BY <1>1, <1>2, <1>5, <1>7
  <2>2. /\ l.k = t => parser'.mode = "scan"
        /\ l.k # t => parser'.mode = m
    BY <1>1, <1>7, <2>0, AccumulateOf
  <2>3. l.k # t /\ up' = up => ListTold(letter)'
    BY <1>1, <1>3, <2>1, <2>2 DEF ListTold, m, t, K
  <2> QED
    BY <1>3, <2>1, <2>2, <2>3 DEF ListTold, t, m
<1> QED
  BY <1>3, <1>6, <1>7 DEF ListTold, m, t, K

(* A step of the bot that reads: what remains to show.                     *)
LEMMA HearKept ==
  ASSUME Inv, NEW at, NEW l, Hear(at, l), pc' \in Deciding \cup Reading,
         ix' \in DOMAIN InfoCmds, pending' \in BOOLEAN, DuelInv',
         at = "run" /\ rejected => pc' = "run" /\ Scans' /\ up' = up
  PROVE  Inv'
<1>1. /\ state = "DUEL" /\ state' = "DUEL" /\ UNCHANGED <<lobby, server>> /\ pc = at
      /\ down # <<>> /\ down' = Tail(down) /\ parser' \in Parsers
  BY HearOf
<1>2. strayed' \in BOOLEAN
  BY DEF Hear, Inv, TypeOK
<1>3. TypeOK' /\ Typed' /\ AskInv' /\ PhaseInv' /\ LobbyInv'
  BY <1>1, <1>2, BotKept
<1> QED
  BY <1>3 DEF Inv

(* Reading a list adds its cards.                                          *)
LEMMA ListOffered ==
  ASSUME NEW letter, NEW l \in Line, offered' = offered \cup (IF l.k = "spec" THEN {<<letter, l.x>>} ELSE {}),
         Said(down, "spec") = Said(down', "spec") \cup (IF l.k = "spec" THEN {l.x} ELSE {})
  PROVE  offered' \cup Listed(letter)' = offered \cup Listed(letter)
BY DEF Listed

(* A list of the battle menu is read.                                      *)
LEMMA ProbeMenuStep ==
  ASSUME Inv, NEW letter \in {"a", "c"}, NEW at, NEW next,
         ProbeMenu(at, letter, Terminal[ListMode(letter)], next),
         \/ letter = "a" /\ at = "probeAttack" /\ next = "discardAttack"
         \/ letter = "c" /\ at = "probeActivate" /\ next = "discardActivate"
  PROVE  Inv'
<1> DEFINE last == Terminal[ListMode(letter)]
           before == IF letter = "a" THEN {} ELSE With("a")
<1>1. PICK l \in First(down) :
        /\ Hear(at, l)
        /\ offered' = IF l.k = "spec" THEN offered \cup {<<letter, l.x>>} ELSE offered
        /\ IF l.k = last THEN Send(<<C("z")>>) /\ pc' = next ELSE UNCHANGED <<up, pc>>
        /\ UNCHANGED <<pending, held, outer, ix, chosen, letters>>
  BY DEF ProbeMenu
<1> HIDE DEF last
<1>2. /\ state = "DUEL" /\ state' = "DUEL" /\ pc = at /\ UNCHANGED ask
      /\ l = Head(down) /\ l \in Line /\ down # <<>> /\ Head(down).k # "end" /\ down' = Tail(down)
  BY <1>1, HearOf
<1>3. ListCase(letter, before)
  BY <1>2 DEF Inv, DuelInv
<1>4. /\ ask.p = "list" /\ ask.x = letter /\ up = <<>>
      /\ l.k = last => parser'.mode = "scan" /\ Over(down')
      /\ l.k # last /\ up' = up => ListTold(letter)'
  BY <1>1, <1>3, ListRead DEF ListCase, last
<1>5. Handling("battle")' /\ before' = before /\ With(letter)' = With(letter)
  BY <1>1, <1>2, <1>3 DEF ListCase, Handling, Shows, Opts, With
<1>6. offered' \cup Listed(letter)' = before \cup With(letter)
  <2>1. offered \cup Listed(letter) = before \cup With(letter)
    BY <1>3, <1>4 DEF ListCase, ListAsked
  <2>2. Said(down, "spec") = Said(down', "spec") \cup (IF l.k = "spec" THEN {l.x} ELSE {})
    BY <1>2, Heard1
  <2>3. offered' = offered \cup (IF l.k = "spec" THEN {<<letter, l.x>>} ELSE {})
    BY <1>1
  <2>4. offered' \cup Listed(letter)' = offered \cup Listed(letter)
    BY <1>2, <2>2, <2>3, ListOffered
  <2> QED
    BY <2>1, <2>4
<1> HIDE DEF before
<1>7. CASE l.k = last
  <2>1. Send(<<C("z")>>) /\ pc' = next /\ parser'.mode = "scan" /\ Over(down')
    BY <1>1, <1>4, <1>7
  <2>2. Asked("z")'
    BY <1>4, <2>1, AskOne
  <2>3. offered' = before \cup With(letter)
    <3>1. Said(down', "spec") = {}
      BY <2>1, OverOf
    <3>2. Listed(letter)' = {}
      BY <3>1 DEF Listed
    <3> QED
      BY <1>6, <3>2
  <2>4. DiscardCase(letter, before)'
    BY <1>2, <1>4, <1>5, <2>1, <2>2, <2>3 DEF DiscardCase, Scans
  <2>5. DuelInv'
    BY <1>2, <2>1, <2>4 DEF DuelInv, before
  <2>6. pc' \in Reading
    BY <2>1 DEF Reading
  <2>7. ix' \in DOMAIN InfoCmds /\ pending' \in BOOLEAN
    BY <1>1 DEF Inv, TypeOK
  <2> QED
    BY <1>1, <2>5, <2>6, <2>7, HearKept
<1>8. CASE l.k # last
  <2>1. up' = up /\ pc' = pc /\ ListTold(letter)'
    BY <1>1, <1>4, <1>8
  <2>2. ListCase(letter, before)'
    BY <1>5, <1>6, <2>1 DEF ListCase
  <2>5. DuelInv'
    BY <1>2, <2>1, <2>2 DEF DuelInv, before
  <2>6. pc' \in Reading
    BY <1>2, <2>1 DEF Reading
  <2>7. ix' \in DOMAIN InfoCmds /\ pending' \in BOOLEAN
    BY <1>1 DEF Inv, TypeOK
  <2> QED
    BY <1>1, <2>5, <2>6, <2>7, HearKept
<1> QED
  BY <1>7, <1>8

(* The chosen card is named when the list has been read.                   *)
LEMMA ExecuteStep ==
  ASSUME Inv, NEW letter \in {"a", "c"}, NEW at, Execute(at, Terminal[ListMode(letter)]),
         \/ letter = "a" /\ at = "execAttack"
         \/ letter = "c" /\ at = "execActivate"
  PROVE  Inv'
<1> DEFINE last == Terminal[ListMode(letter)]
<1>1. PICK l \in First(down) :
        /\ Hear(at, l)
        /\ IF l.k = last THEN Send(<<C(chosen[2])>>) /\ Return
           ELSE UNCHANGED <<up, pc, held, offered, chosen, letters>>
        /\ UNCHANGED <<pending, outer, ix>>
  BY DEF Execute
<1> HIDE DEF last
<1>2. /\ state = "DUEL" /\ state' = "DUEL" /\ pc = at /\ UNCHANGED ask
      /\ l = Head(down) /\ l \in Line /\ down # <<>> /\ Head(down).k # "end" /\ down' = Tail(down)
  BY <1>1, HearOf
<1>3. ExecCase(letter)
  BY <1>2 DEF Inv, DuelInv
<1>4. /\ ask.p = "list" /\ ask.x = letter /\ up = <<>>
      /\ l.k = last => parser'.mode = "scan" /\ Over(down')
      /\ l.k # last /\ up' = up => ListTold(letter)'
  BY <1>1, <1>3, ListRead DEF ExecCase, last
<1>5. ix' \in DOMAIN InfoCmds /\ pending' \in BOOLEAN
  BY <1>1 DEF Inv, TypeOK
<1>6. CASE l.k = last
  <2>1. Send(<<C(chosen[2])>>) /\ Return /\ parser'.mode = "scan" /\ Over(down')
    BY <1>1, <1>4, <1>6
  <2>2. chosen[2] \in Of(ask, ask.x)
    BY <1>3, <1>4 DEF ExecCase, Of
  <2>3. Final(C(chosen[2]))
    BY <1>4, <2>2 DEF Final
  <2>4. outer = NoPrompt /\ outer' = NoPrompt
    BY <1>1, <1>3 DEF ExecCase
  <2>5. DuelInv'
    BY <1>2, <1>4, <2>1, <2>3, <2>4, ReturnOf
  <2>6. pc' \in Reading
    BY <2>1, <2>4 DEF Return, Reading
  <2> QED
    BY <1>1, <1>5, <2>5, <2>6, HearKept
<1>7. CASE l.k # last
  <2>1. up' = up /\ pc' = pc /\ ListTold(letter)' /\ UNCHANGED <<held, chosen, outer>>
    BY <1>1, <1>4, <1>7
  <2>2. ExecCase(letter)'
    BY <1>2, <1>3, <2>1 DEF ExecCase
  <2>5. DuelInv'
    BY <1>2, <2>1, <2>2 DEF DuelInv
  <2>6. pc' \in Reading
    BY <1>2, <2>1 DEF Reading
  <2> QED
    BY <1>1, <1>5, <2>5, <2>6, HearKept
<1> QED
  BY <1>6, <1>7

(* The menu that is shown again is passed over.                            *)
LEMMA DiscardStep == ASSUME Inv, NEW l, Discard(l) PROVE Inv'
<1>1. /\ state = "DUEL" /\ state' = "DUEL" /\ pc \in {"discardAttack", "discardActivate"}
      /\ down # <<>> /\ l = Head(down) /\ Head(down).k # "end" /\ down' = Tail(down)
      /\ UNCHANGED <<lobby, pending, parser, held, outer, ix, offered, letters, strayed, server>>
      /\ UNCHANGED ask
      /\ IF l.k = "selectOption"
         THEN ProbeNext(held.opts \cap IF pc = "discardAttack" THEN {"c"} ELSE {})
         ELSE UNCHANGED <<up, pc>>
  BY DEF Discard, Read, server
<1> DEFINE letter == IF pc = "discardAttack" THEN "a" ELSE "c"
           before == IF pc = "discardAttack" THEN {} ELSE With("a")
           K == {"battleHead", "letter"}
<1>2. DiscardCase(letter, before)
  BY <1>1 DEF Inv, DuelInv
<1>3. /\ ~Over(down)
      /\ \A K1, t1 : Ends(down, K1, t1) /\ t1 \notin K1 /\ "end" \notin K1 /\ t1 # "end" =>
              /\ Head(down).k \in K1 \cup {t1}
              /\ Head(down).k = t1 => Over(down')
              /\ Head(down).k \in K1 => Ends(down', K1, t1)
  BY <1>1, Heard1
<1> HIDE DEF letter, before
<1>4. /\ ask.p = "battle" /\ up = <<>> /\ Ends(down, K, "selectOption")
      /\ parser.mode = "scan" /\ Handling("battle") /\ offered = before \cup With(letter)
  BY <1>2, <1>3 DEF DiscardCase, Asked, Told, Scans
<1>5. /\ l.k \in K \cup {"selectOption"}
      /\ l.k = "selectOption" => Over(down')
      /\ l.k \in K => Ends(down', K, "selectOption")
  BY <1>1, <1>3, <1>4
<1>6. Handling("battle")' /\ parser'.mode = "scan"
  BY <1>1, <1>4 DEF Handling, Shows, Opts
<1>7. SUFFICES DuelInv' /\ pc' \in Deciding \cup Reading
  <2>1. /\ parser' \in Parsers /\ ix' \in DOMAIN InfoCmds /\ pending' \in BOOLEAN
        /\ strayed' \in BOOLEAN
    BY <1>1 DEF Inv, Typed, TypeOK, Parsers
  <2> QED
    BY <1>1, <2>1, BotKept DEF Inv
<1>8. CASE l.k = "selectOption"
  <2>1. Over(down') /\ AskInv /\ ask.p \in Battles
    BY <1>4, <1>5, <1>8 DEF Inv, Battles
  <2>2. held.opts = Opts("battle") /\ ask.usable = With("a") \cup With("c")
    BY <1>4, <2>1, BattleLetters DEF Handling, Shows
  <2>3. CASE pc = "discardAttack"
    <3>1. ProbeNext(Opts("battle") \cap {"c"})
      BY <1>1, <1>8, <2>2, <2>3
    <3>2. offered' = With("a")
      BY <1>1, <1>4, <2>3 DEF before, letter
    <3>3. Probing'
      BY <1>1, <1>4, <1>6, <2>1, <3>1, <3>2, ProbeNextOf
    <3> QED
      BY <1>1, <3>3, ProbingDuel DEF Probing, Reading, Deciding
  <2>4. CASE pc = "discardActivate"
    <3>1. ProbeNext({})
      <4>1. held.opts \cap {} = {}
        OBVIOUS
      <4> QED
        BY <1>1, <1>8, <2>4, <4>1
    <3>2. offered' = ask.usable
      BY <1>1, <1>4, <2>2, <2>4 DEF before, letter
    <3>3. Probing'
      BY <1>1, <1>4, <1>6, <2>1, <3>1, <3>2, ProbeNextOf
    <3> QED
      BY <1>1, <3>3, ProbingDuel DEF Probing, Reading, Deciding
  <2> QED
    BY <1>1, <2>3, <2>4
<1>9. CASE l.k # "selectOption"
  <2>1. up' = <<>> /\ pc' = pc /\ Ends(down', K, "selectOption")
    BY <1>1, <1>4, <1>5, <1>9
  <2>2. before' = before /\ With(letter)' = With(letter)
    BY <1>1, <2>1 DEF With, before, letter
  <2>3. DiscardCase(letter, before)'
    BY <1>1, <1>4, <1>6, <2>1, <2>2 DEF DiscardCase, Told, Scans, With
  <2>4. DuelInv'
    BY <1>1, <2>1, <2>3 DEF DuelInv, letter, before
  <2> QED
    BY <1>1, <2>1, <2>4 DEF Reading
<1> QED
  BY <1>8, <1>9

(* The answer to "?" is read.                                              *)
LEMMA ProbeStep == ASSUME Inv, NEW l, Probe(l) PROVE Inv'
<1>1. /\ Hear("probe", l)
      /\ IF l.k = "usable"
         THEN offered' = offered \cup {<<l.x, i>> : i \in l.items} /\ UNCHANGED pc
         ELSE /\ UNCHANGED offered
              /\ pc' = IF l.k \in Reprompts \/ Parse(l).prompt # NoPrompt THEN "decide" ELSE pc
      /\ UNCHANGED <<up, pending, held, outer, ix, letters>>
  BY DEF Probe
<1>2. /\ state = "DUEL" /\ state' = "DUEL" /\ pc = "probe"
      /\ l = Head(down) /\ l \in Line /\ down # <<>> /\ Head(down).k # "end" /\ down' = Tail(down)
      /\ parser \in Parsers /\ parser' = Parse(l).parser /\ UNCHANGED ask
  BY <1>1, HearOf
<1> DEFINE K == {"usable", "idleHead", "letter"}
<1>3. /\ ~Over(down)
      /\ \A K1, t1 : Ends(down, K1, t1) /\ t1 \notin K1 /\ "end" \notin K1 /\ t1 # "end" =>
              /\ Head(down).k \in K1 \cup {t1}
              /\ Head(down).k = t1 => Over(down')
              /\ Head(down).k \in K1 => Ends(down', K1, t1)
      /\ \A k : Said(down, k) = Said(down', k)
                                     \cup (IF Head(down).k = k THEN {Head(down).x} ELSE {})
      /\ Usable(down) = Usable(down')
              \cup (IF Head(down).k = "usable" THEN {Head(down).x} \X Head(down).items ELSE {})
  BY <1>2, Heard1
<1>4. /\ Handling("idle") /\ ask.p = "idle" /\ up = <<>> /\ Ends(down, K, "selectCard")
      /\ parser.mode \in {"scan", "idle"} /\ Said(down, "letter") \subseteq ask.phases
      /\ offered \cup Usable(down) = ask.usable
  BY <1>2, <1>3 DEF Inv, DuelInv, ProbeCase, Asked, Told
<1>5. /\ l.k \in K \cup {"selectCard"}
      /\ l.k = "selectCard" => Over(down')
      /\ l.k \in K => Ends(down', K, "selectCard")
  BY <1>2, <1>3, <1>4
<1>6. /\ Handling("idle")' /\ ix' \in DOMAIN InfoCmds /\ pending' \in BOOLEAN
  BY <1>1, <1>2, <1>4 DEF Handling, Shows, Opts, Inv, TypeOK
<1>7. SUFFICES DuelInv' /\ pc' \in Deciding \cup Reading
  BY <1>1, <1>6, HearKept
<1>8. parser.mode = "idle" => ~Scans /\ Terminal[parser.mode] = "selectCard"
  BY DEF Scans, Terminal
<1>9. CASE l.k = "selectCard"
  <2>1. pc' = "decide" /\ offered' = offered
    BY <1>1, <1>9 DEF Reprompts
  <2>2. parser'.mode = "scan"
    <3>1. CASE parser.mode = "scan"
      <4>1. Parse(l).parser = parser
        BY <1>2, <1>9, <3>1, ScanOf DEF Scans
      <4> QED
        BY <1>2, <3>1, <4>1
    <3>2. CASE parser.mode = "idle"
      BY <1>2, <1>8, <1>9, <3>2, AccumulateOf
    <3> QED
      BY <1>4, <3>1, <3>2
  <2>3. Over(down')
    BY <1>5, <1>9
  <2>4. Usable(down) = {}
    <3>1. Usable(down') = {}
      BY <2>3, OverOf
    <3> QED
      BY <1>2, <1>3, <1>9, <3>1
  <2>5. offered' = ask.usable
    BY <1>4, <2>1, <2>4
  <2>6. Handling(held.type)' /\ held'.type = "idle"
    BY <1>6 DEF Handling, Shows
  <2>7. DecisionCase'
    BY <1>1, <1>2, <1>4, <2>2, <2>3, <2>5, <2>6 DEF DecisionCase, Scans, Quiet
  <2> QED
    BY <1>2, <2>1, <2>7 DEF DuelInv, Deciding
<1>10. CASE l.k \in K
  <2>1. Ends(down', K, "selectCard") /\ l.k \notin Reprompts /\ l.k # "selectCard"
    BY <1>5, <1>10 DEF Reprompts
  <2>2. Parse(l).prompt = NoPrompt /\ parser'.mode \in {"scan", "idle"}
    <3>1. CASE parser.mode = "idle"
      BY <1>2, <1>8, <2>1, <3>1, AccumulateOf
    <3>2. CASE parser.mode = "scan" /\ l.k = "usable"
      <4>1. Parse(l).parser = parser /\ Parse(l).prompt = NoPrompt
        BY <1>2, <3>2, ScanOf DEF Scans
      <4> QED
        BY <1>2, <3>2, <4>1
    <3>3. CASE parser.mode = "scan" /\ l.k = "idleHead"
      <4>1. l.k \in DOMAIN Header /\ Header[l.k] = "idle"
        BY <3>3 DEF Header
      <4> QED
        BY <1>2, <3>3, <4>1, ScanOf DEF Scans
    <3>4. CASE parser.mode = "scan" /\ l.k = "letter"
      <4>1. l.x \in ask.phases
        BY <1>2, <1>3, <1>4, <3>4
      <4>2. ask.phases \in {{"e"}, {"b", "e"}}
        BY <1>4 DEF Inv, AskInv, Idles
      <4>3. l.x \notin SubmenuLetters
        BY <4>1, <4>2 DEF SubmenuLetters
      <4> QED
        BY <1>2, <3>4, <4>3, ScanOf DEF Scans
    <3> QED
      BY <1>4, <1>10, <3>1, <3>2, <3>3, <3>4
  <2>3. pc' = "probe" /\ up' = <<>>
    BY <1>1, <1>2, <1>4, <2>1, <2>2
  <2>4. Said(down', "letter") \subseteq ask.phases
    BY <1>3, <1>4
  <2>5. offered' \cup Usable(down') = ask.usable
    <3>1. CASE l.k = "usable"
      <4>1. {l.x} \X l.items = {<<l.x, i>> : i \in l.items}
        OBVIOUS
      <4> QED
        BY <1>1, <1>2, <1>3, <1>4, <3>1, <4>1
    <3>2. CASE l.k # "usable"
      BY <1>1, <1>2, <1>3, <1>4, <3>2
    <3> QED
      BY <3>1, <3>2
  <2>6. ProbeCase'
    BY <1>2, <1>4, <1>6, <2>1, <2>2, <2>3, <2>4, <2>5 DEF ProbeCase, Told
  <2> QED
    BY <1>2, <2>3, <2>6 DEF DuelInv, Reading
<1> QED
  BY <1>5, <1>9, <1>10

(* The letter wanted is one that the submenu of the card has.              *)
LEMMA LetterOffered ==
  ASSUME Inv, ask.p = "submenu", chosen \in ask.usable, ask.x = chosen[2],
         letters = LettersOf(ask.x) \cup {"i", "z"}
  PROVE  SubmenuLetter \in LettersOf(ask.x)
<1>1. ask.usable \subseteq {"s", "v"} \X Specs
  BY DEF Inv, AskInv, Idles
<1>2. chosen = <<chosen[1], ask.x>> /\ chosen[1] \in {"s", "v"}
  BY <1>1
<1>3. CASE chosen[1] = "s"
  <2>1. <<"s", ask.x>> \in ask.usable
    BY <1>2, <1>3
  <2>2. "s" \in LettersOf(ask.x)
    BY <2>1 DEF LettersOf
  <2>3. SubmenuLetter = "s"
    BY <1>3, <2>2 DEF SubmenuLetter
  <2> QED
    BY <2>2, <2>3
<1>4. CASE chosen[1] = "v"
  <2>1. <<"v", ask.x>> \in ask.usable
    BY <1>2, <1>4
  <2>2. CASE ask.x \in Multi
    <3>1. "va" \in LettersOf(ask.x) /\ "v" \notin LettersOf(ask.x)
      BY <2>1, <2>2 DEF LettersOf
    <3>2. "v" \notin letters /\ "va" \in letters \cap {"va", "vb"}
      BY <3>1
    <3>3. SubmenuLetter = "va"
      BY <1>4, <3>2 DEF SubmenuLetter
    <3> QED
      BY <3>1, <3>3
  <2>3. CASE ask.x \notin Multi
    <3>1. "v" \in LettersOf(ask.x)
      BY <2>1, <2>3 DEF LettersOf
    <3>2. SubmenuLetter = "v"
      BY <1>4, <3>1 DEF SubmenuLetter
    <3> QED
      BY <3>1, <3>2
  <2> QED
    BY <2>2, <2>3
<1> QED
  BY <1>2, <1>3, <1>4

(* The submenu of the chosen card is read.                                 *)
LEMMA SubmenuStep == ASSUME Inv, NEW l, Submenu(l) PROVE Inv'
<1>1. /\ Hear("submenu", l)
      /\ IF l.k = "selectAction" THEN Send(<<C(SubmenuLetter)>>) /\ Return
         ELSE /\ letters' = IF l.k = "letter" THEN letters \cup {l.x} ELSE letters
              /\ UNCHANGED <<up, pc, held, offered, chosen>>
      /\ UNCHANGED <<pending, outer, ix>>
  BY DEF Submenu
<1>2. /\ state = "DUEL" /\ state' = "DUEL" /\ pc = "submenu"
      /\ l = Head(down) /\ l \in Line /\ down # <<>> /\ Head(down).k # "end" /\ down' = Tail(down)
      /\ parser \in Parsers /\ parser' = Parse(l).parser /\ UNCHANGED ask
  BY <1>1, HearOf
<1>3. /\ ~Over(down)
      /\ \A K1, t1 : Ends(down, K1, t1) /\ t1 \notin K1 /\ "end" \notin K1 /\ t1 # "end" =>
              /\ Head(down).k \in K1 \cup {t1}
              /\ Head(down).k = t1 => Over(down')
              /\ Head(down).k \in K1 => Ends(down', K1, t1)
      /\ \A k : Said(down, k) = Said(down', k)
                                     \cup (IF Head(down).k = k THEN {Head(down).x} ELSE {})
  BY <1>2, Heard1
<1>4. /\ held.type = "idle" /\ outer = NoPrompt /\ chosen \in ask.usable
      /\ ask.p = "submenu" /\ ask.x = chosen[2] /\ parser.mode \in {"scan", "submenu"}
      /\ up = <<>> /\ Ends(down, {"letter"}, "selectAction")
      /\ letters \cup Said(down, "letter") = LettersOf(ask.x) \cup {"i", "z"}
  BY <1>2, <1>3 DEF Inv, DuelInv, SubmenuCase, Asked, Told
<1>5. /\ l.k \in {"letter", "selectAction"}
      /\ l.k = "selectAction" => Over(down')
      /\ l.k = "letter" => Ends(down', {"letter"}, "selectAction")
  BY <1>2, <1>3, <1>4
<1>6. ix' \in DOMAIN InfoCmds /\ pending' \in BOOLEAN /\ outer' = NoPrompt
  BY <1>1, <1>4 DEF Inv, TypeOK
<1>7. SUFFICES DuelInv' /\ pc' \in Deciding \cup Reading
  BY <1>1, <1>6, HearKept
<1>8. parser.mode = "submenu" => ~Scans /\ Terminal[parser.mode] = "selectAction"
  BY DEF Scans, Terminal
<1>9. CASE l.k = "selectAction"
  <2>1. Send(<<C(SubmenuLetter)>>) /\ Return /\ Over(down')
    BY <1>1, <1>5, <1>9
  <2>2. parser'.mode = "scan"
    <3>1. CASE parser.mode = "scan"
      BY <1>2, <1>9, <3>1, ScanOf DEF Scans
    <3>2. CASE parser.mode = "submenu"
      BY <1>2, <1>8, <1>9, <3>2, AccumulateOf
    <3> QED
      BY <1>4, <3>1, <3>2
  <2>3. letters = LettersOf(ask.x) \cup {"i", "z"}
    <3>1. Said(down', "letter") = {}
      BY <2>1, OverOf
    <3> QED
      BY <1>2, <1>3, <1>4, <1>9, <3>1
  <2>4. SubmenuLetter \in LettersOf(ask.x)
    BY <1>4, <2>3, LetterOffered
  <2>5. Final(C(SubmenuLetter))
    BY <1>4, <2>4 DEF Final
  <2>6. DuelInv'
    BY <1>2, <1>4, <1>6, <2>1, <2>2, <2>5, ReturnOf
  <2> QED
    BY <1>4, <2>1, <2>6 DEF Return, Reading
<1>10. CASE l.k = "letter"
  <2>1. /\ letters' = letters \cup {l.x} /\ UNCHANGED <<up, pc, held, chosen>>
        /\ Ends(down', {"letter"}, "selectAction")
    BY <1>1, <1>5, <1>10
  <2>2. parser'.mode \in {"scan", "submenu"}
    <3>1. CASE parser.mode = "scan"
      BY <1>2, <1>10, <3>1, ScanOf DEF Scans
    <3>2. CASE parser.mode = "submenu"
      BY <1>2, <1>8, <1>10, <3>2, AccumulateOf
    <3> QED
      BY <1>4, <3>1, <3>2
  <2>3. letters' \cup Said(down', "letter") = LettersOf(ask.x) \cup {"i", "z"}
    BY <1>2, <1>3, <1>4, <1>10, <2>1
  <2>4. LettersOf(ask.x)' = LettersOf(ask.x)
    BY <1>2 DEF LettersOf
  <2>5. SubmenuCase'
    BY <1>2, <1>4, <1>6, <2>1, <2>2, <2>3, <2>4 DEF SubmenuCase, Told
  <2> QED
    BY <1>2, <2>1, <2>5 DEF DuelInv, Reading
<1> QED
  BY <1>5, <1>9, <1>10

(* The answer to an informational command is read.                         *)
LEMMA ResyncStep == ASSUME Inv, NEW l, Resync(l) PROVE Inv' \/ strayed'
<1>1. /\ Hear("resync", l)
      /\ LET p == Parse(l).prompt
         IN  IF p # NoPrompt
             THEN Begin(p) /\ UNCHANGED ix
             ELSE /\ UNCHANGED <<up, held>>
                  /\ CASE ~Answered(l)             -> UNCHANGED <<pc, ix>>
                       [] Answered(l) /\ LastInfo  -> pc' = "resume" /\ UNCHANGED ix
                       [] Answered(l) /\ ~LastInfo -> pc' = "info" /\ ix' = ix + 1
      /\ UNCHANGED <<pending, outer, offered, chosen, letters>>
  BY DEF Resync
<1>2. /\ state = "DUEL" /\ state' = "DUEL" /\ pc = "resync"
      /\ l = Head(down) /\ l \in Line /\ down # <<>> /\ Head(down).k # "end" /\ down' = Tail(down)
      /\ parser \in Parsers /\ parser' = Parse(l).parser /\ UNCHANGED ask
  BY <1>1, HearOf
<1> DEFINE t == IF ask.p = "idle" THEN "selectCard" ELSE "selectOption"
           K == {"info", "question"}
<1>3. /\ ~Over(down)
      /\ \A K1, t1 : Ends(down, K1, t1) /\ t1 \notin K1 /\ "end" \notin K1 /\ t1 # "end" =>
              /\ Head(down).k \in K1 \cup {t1}
              /\ Head(down).k = t1 => Over(down')
              /\ Head(down).k \in K1 => Ends(down', K1, t1)
  BY <1>2, Heard1
<1>4. /\ Shows(outer) /\ ask.p = outer.type /\ Clear /\ Scans /\ up = <<>>
      /\ Ends(down, K, t)
  BY <1>2, <1>3 DEF Inv, DuelInv, ResyncCase, Asked, Told
<1>5. /\ t \in {"selectCard", "selectOption"} /\ t' = t
      /\ l.k \in K \cup {t}
      /\ l.k = t => Over(down')
      /\ l.k \in K => Ends(down', K, t)
  BY <1>2, <1>3, <1>4
<1> HIDE DEF t
<1>5a. CASE l.k = "question"
  <2>1. Parse(l).prompt # NoPrompt
    BY <1>2, <1>4, <1>5a, ScanOf
  <2>2. strayed'
    BY <1>1, <2>1 DEF Hear
  <2> QED
    BY <2>2
<1>5b. SUFFICES ASSUME l.k # "question" PROVE Inv'
  BY <1>5a
<1>5c. l.k \in {"info", t}
  BY <1>5, <1>5b
<1>6. Parse(l).parser = parser /\ Parse(l).prompt = NoPrompt
  BY <1>2, <1>4, <1>5, <1>5c, ScanOf
<1>7. /\ UNCHANGED <<up, held>> /\ Scans' /\ Clear' /\ Shows(outer)' /\ ask'.p = outer'.type
      /\ CASE ~Answered(l)             -> UNCHANGED <<pc, ix>>
           [] Answered(l) /\ LastInfo  -> pc' = "resume" /\ UNCHANGED ix
           [] Answered(l) /\ ~LastInfo -> pc' = "info" /\ ix' = ix + 1
  <2>1. UNCHANGED <<up, held, outer, offered, letters, parser, ask>>
    BY <1>1, <1>2, <1>6
  <2> QED
    BY <1>1, <1>4, <1>6, <2>1 DEF Scans, Clear, Shows, Opts
<1>8. pending' \in BOOLEAN /\ ix \in DOMAIN InfoCmds
  BY <1>1 DEF Inv, TypeOK
<1>9. SUFFICES DuelInv' /\ pc' \in Deciding \cup Reading /\ ix' \in DOMAIN InfoCmds
  BY <1>1, <1>8, HearKept
<1>10. CASE l.k = t
  <2>1. Answered(l) /\ Over(down') /\ up' = <<>>
    BY <1>4, <1>5, <1>7, <1>10 DEF Answered, Reprompts
  <2>2. InfoCase'
    BY <1>7, <2>1 DEF InfoCase, Quiet
  <2>3. CASE LastInfo
    <3>1. pc' = "resume" /\ ix' = ix
      BY <1>7, <2>1, <2>3
    <3> QED
      BY <1>2, <1>8, <2>2, <3>1 DEF DuelInv, Deciding
  <2>4. CASE ~LastInfo
    <3>1. pc' = "info" /\ ix' = ix + 1
      BY <1>7, <2>1, <2>4
    <3>2. ix + 1 \in DOMAIN InfoCmds
      <4>1. ix # Len(InfoCmds)
        BY <2>4 DEF LastInfo
      <4>2. InfoCmds \in Seq(STRING)
        BY MudClientAssumption
      <4> QED
        BY <1>8, <4>1, <4>2
    <3> QED
      BY <1>2, <2>2, <3>1, <3>2 DEF DuelInv, Deciding
  <2> QED
    BY <2>3, <2>4
<1>11. CASE l.k = "info"
  <2>1. ~Answered(l) /\ Ends(down', K, t) /\ up' = <<>>
    BY <1>4, <1>5, <1>7, <1>11 DEF Answered, Reprompts
  <2>2. pc' = "resync" /\ ix' = ix
    BY <1>2, <1>7, <2>1
  <2>3. ResyncCase'
    BY <1>2, <1>7, <2>1 DEF ResyncCase, Told, t, K
  <2> QED
    BY <1>2, <1>8, <2>2, <2>3 DEF DuelInv, Reading
<1> QED
  BY <1>5c, <1>10, <1>11

(* What the main loop makes of the next line: no prompt yet, the menu that *)
(* is shown, or a prompt of another kind.                                  *)
LEMMA FollowingRead ==
  ASSUME Inv, NEW l, Hear("run", l), Following(down)
  PROVE  \/ Parse(l).prompt = NoPrompt /\ Following(down)'
         \/ /\ Shows(Parse(l).prompt) /\ ask.p = Parse(l).prompt.type
            /\ parser'.mode = "scan" /\ Over(down')
         \/ /\ Parse(l).prompt.type \in {"ask", "question"} /\ Parse(l).prompt # NoPrompt
            /\ ask.p = "ask" /\ parser'.mode = "scan" /\ Over(down')
            /\ Parse(l).prompt.type = "ask" => Parse(l).prompt.name = ask.x
            /\ Parse(l).prompt.type = "question" => Prompt[ask.x].type = "yesno"
<1>1. /\ l = Head(down) /\ l \in Line /\ down # <<>> /\ Head(down).k # "end" /\ down' = Tail(down)
      /\ parser \in Parsers /\ parser' = Parse(l).parser /\ UNCHANGED ask
  BY HearOf
<1>2. /\ ~Over(down)
      /\ \A K1, t1 : Ends(down, K1, t1) /\ t1 \notin K1 /\ "end" \notin K1 /\ t1 # "end" =>
              /\ Head(down).k \in K1 \cup {t1}
              /\ Head(down).k = t1 => Over(down')
              /\ Head(down).k \in K1 => Ends(down', K1, t1)
      /\ \A k : Said(down, k) = Said(down', k)
                                     \cup (IF Head(down).k = k THEN {Head(down).x} ELSE {})
  BY <1>1, Heard1
<1>3. ask.p \in Menus => /\ ask.p \in DOMAIN Terminal /\ ask.p # "scan"
                         /\ Terminal[ask.p] \in {"selectCard", "selectOption"}
                         /\ HeadOf[ask.p] \in DOMAIN Header /\ Header[HeadOf[ask.p]] = ask.p
  BY DEF Menus, Terminal, HeadOf, Header
<1>4. \A type : Opts(type)' = Opts(type)
  BY <1>1 DEF Opts
<1>5. CASE /\ ask.p \in Menus /\ parser.mode = ask.p
           /\ Ends(down, {"letter"}, Terminal[ask.p])
           /\ parser.opts \cup Said(down, "letter") = Opts(ask.p)
  <2>1. /\ l.k \in {"letter", Terminal[ask.p]}
        /\ l.k = Terminal[ask.p] => Over(down')
        /\ l.k = "letter" => Ends(down', {"letter"}, Terminal[ask.p])
    BY <1>1, <1>2, <1>3, <1>5
  <2>2. ~Scans
    BY <1>3, <1>5 DEF Scans
  <2>3. CASE l.k = "letter"
    <3>1. l.k # Terminal[parser.mode]
      BY <1>3, <1>5, <2>3
    <3>2. /\ parser'.mode = ask.p /\ Parse(l).prompt = NoPrompt
          /\ parser'.opts = parser.opts \cup {l.x}
      BY <1>1, <1>5, <2>2, <2>3, <3>1, AccumulateOf
    <3>3. parser'.opts \cup Said(down', "letter") = Opts(ask.p)
      BY <1>1, <1>2, <1>5, <2>3, <3>2
    <3>4. Following(down)'
      BY <1>1, <1>4, <1>5, <2>1, <2>3, <3>2, <3>3 DEF Following
    <3> QED
      BY <3>2, <3>4
  <2>4. CASE l.k = Terminal[ask.p]
    <3>1. l.k = Terminal[parser.mode]
      BY <1>5, <2>4
    <3>2. /\ parser'.mode = "scan"
          /\ Parse(l).prompt = [type |-> parser.mode, opts |-> parser.opts, name |-> ""]
      BY <1>1, <2>2, <3>1, AccumulateOf
    <3>3. Over(down')
      BY <2>1, <2>4
    <3>4. Said(down, "letter") = {}
      <4>1. Said(down', "letter") = {}
        BY <3>3, OverOf
      <4>2. l.k # "letter"
        BY <1>3, <1>5, <2>4
      <4> QED
        BY <1>1, <1>2, <4>1, <4>2
    <3>5. Parse(l).prompt.type = ask.p /\ Parse(l).prompt.opts = Opts(ask.p)
      <4>1. parser.opts = Opts(ask.p)
        BY <1>5, <3>4
      <4>2. Parse(l).prompt.type = parser.mode /\ Parse(l).prompt.opts = parser.opts
        <5> DEFINE m == parser.mode
                   o == parser.opts
                   q == Parse(l).prompt
        <5>1. q = [type |-> m, opts |-> o, name |-> ""]
          BY <3>2
        <5> HIDE DEF m, o, q
        <5>2. q.type = m /\ q.opts = o
          BY <5>1
        <5> QED
          BY <5>2 DEF m, o, q
      <4> QED
        BY <1>5, <4>1, <4>2
    <3>6. Shows(Parse(l).prompt)
      BY <1>5, <3>5 DEF Shows
    <3> QED
      BY <3>2, <3>3, <3>5, <3>6
  <2> QED
    BY <2>1, <2>3, <2>4
<1>6. CASE Scans /\ Opening(down) /\ ask.p \in Menus
  <2>1. /\ Head(down).k = HeadOf[ask.p] /\ Ends(down', {"letter"}, Terminal[ask.p])
        /\ Said(down', "letter") = Opts(ask.p)
    BY <1>1, <1>6 DEF Opening, Menus
  <2>2. /\ parser'.mode = ask.p /\ parser'.opts = {} /\ Parse(l).prompt = NoPrompt
    BY <1>1, <1>3, <1>6, <2>1, ScanOf
  <2>3. parser'.opts \cup Said(down', "letter") = Opts(ask.p)
    BY <2>1, <2>2
  <2>4. Following(down)'
    BY <1>1, <1>4, <1>6, <2>1, <2>2, <2>3 DEF Following
  <2> QED
    BY <2>2, <2>4
<1>7. CASE Scans /\ Opening(down) /\ ask.p = "ask"
  <2>1. /\ Over(down') /\ l.x = ask.x
        /\ l.k = IF Prompt[ask.x].type = "yesno" THEN "question" ELSE "ask"
    BY <1>1, <1>7 DEF Opening, Menus
  <2>2. /\ Parse(l).parser = parser /\ Parse(l).prompt # NoPrompt /\ Parse(l).prompt.type = l.k
        /\ l.k = "ask" => Parse(l).prompt.name = l.x
    <3>1. l.k \in {"ask", "question"}
      BY <2>1
    <3> QED
      BY <1>1, <1>7, <3>1, ScanOf
  <2>3. parser'.mode = "scan"
    BY <1>1, <1>7, <2>2 DEF Scans
  <2>4. l.k = "question" => Prompt[ask.x].type = "yesno"
    BY <2>1
  <2>5. Parse(l).prompt.type \in {"ask", "question"}
    BY <2>1, <2>2
  <2> QED
    BY <1>7, <2>1, <2>2, <2>3, <2>4, <2>5
<1>8. CASE Scans /\ down # <<>> /\ Head(down).k = "ourTurn" /\ Opening(Tail(down))
  <2>1. Parse(l).parser = parser /\ Parse(l).prompt = NoPrompt
    BY <1>1, <1>8, ScanOf
  <2>2. Opening(down)'
    BY <1>1, <1>4, <1>8 DEF Opening
  <2>3. parser'.mode = "scan"
    BY <1>1, <1>8, <2>1 DEF Scans
  <2>4. Following(down)'
    BY <2>2, <2>3 DEF Following
  <2> QED
    BY <2>1, <2>4
<1>9. CASE ask.p = "ask" /\ Scans /\ AllOf(down, Refusals)
  <2>1. DOMAIN down = 1 .. Len(down) /\ Len(down) \in Nat /\ Len(down) > 0 /\ Head(down) = down[1]
        /\ DOMAIN Tail(down) = 1 .. Len(down) - 1
        /\ \A i \in 1 .. Len(down) - 1 : Tail(down)[i] = down[i + 1]
    <3>1. down \in Seq(Line)
      BY DEF Inv, Typed
    <3> QED
      BY <1>1, <3>1, ReadOf
  <2>2. l.k = "enterText"
    <3>1. 1 \in DOMAIN down
      BY <2>1
    <3> QED
      BY <1>1, <1>9, <2>1, <3>1 DEF AllOf, Refusals
  <2>3. AllOf(down', Refusals)
    <3>1. \A i \in 1 .. Len(down) - 1 : i + 1 \in DOMAIN down
      BY <2>1
    <3> QED
      BY <1>1, <1>9, <2>1, <3>1 DEF AllOf
  <2>4. Parse(l).parser = parser /\ Parse(l).prompt = NoPrompt
    BY <1>1, <1>9, <2>2, ScanOf
  <2>5. Following(down)'
    BY <1>1, <1>9, <2>3, <2>4 DEF Following, Scans
  <2> QED
    BY <2>4, <2>5
<1>10. Opening(down) => ask.p \in Menus \/ ask.p = "ask"
  BY DEF Opening
<1> QED
  BY <1>2, <1>5, <1>6, <1>7, <1>8, <1>9, <1>10 DEF Following, Scans

(* The main loop reads a line.                                             *)
LEMMA HandleDuelStep == ASSUME Inv, NEW l, HandleDuel(l) PROVE Inv'
<1> DEFINE p == Parse(l).prompt
           turn == parser.mode = "scan" /\ l.k = "ourTurn"
<1>1. /\ Hear("run", l)
      /\ IF p.type \in {"idle", "battle"} /\ pending
         THEN /\ pending' = FALSE /\ pc' = "info" /\ ix' = 1 /\ outer' = p
              /\ UNCHANGED <<up, held>>
         ELSE /\ pending' = (pending \/ turn)
              /\ IF p = NoPrompt THEN UNCHANGED <<up, pc, held>> ELSE Begin(p)
              /\ UNCHANGED <<ix, outer>>
      /\ UNCHANGED <<offered, chosen, letters>>
  BY DEF HandleDuel
<1>2. /\ state = "DUEL" /\ state' = "DUEL" /\ pc = "run" /\ UNCHANGED ask
      /\ l = Head(down) /\ down # <<>> /\ Head(down).k # "end" /\ down' = Tail(down)
  BY <1>1, HearOf
<1>3. outer = NoPrompt /\ Clear /\ up = <<>> /\ Following(down)
  <2>1. ~Over(down)
    BY <1>2, Heard1
  <2> QED
    BY <1>2, <2>1 DEF Inv, DuelInv, RunCase
<1>4. offered' = {} /\ letters' = {}
  BY <1>1, <1>3 DEF Clear
<1>5. /\ pending' \in BOOLEAN /\ ix' \in DOMAIN InfoCmds
  <2>1. 1 \in DOMAIN InfoCmds
    BY MudClientAssumption
  <2>2. pending \in BOOLEAN /\ ix \in DOMAIN InfoCmds
    BY DEF Inv, TypeOK
  <2>3. turn \in BOOLEAN
    OBVIOUS
  <2> HIDE DEF turn
  <2> QED
    BY <1>1, <2>1, <2>2, <2>3
<1> HIDE DEF p
<1>5r. rejected => pc' = "run" /\ Scans' /\ up' = up
  <2> SUFFICES ASSUME rejected PROVE pc' = "run" /\ Scans' /\ up' = up
    OBVIOUS
  <2>1. Refused
    BY DEF Inv, PhaseInv
  <2>2. /\ DOMAIN down = 1 .. Len(down) /\ Len(down) \in Nat /\ Len(down) > 0
        /\ Head(down) = down[1]
    <3>1. down \in Seq(Line)
      BY DEF Inv, Typed
    <3> QED
      BY <1>2, <3>1, ReadOf
  <2>3. l.k = "enterText"
    <3>1. 1 \in DOMAIN down
      BY <2>2
    <3> QED
      BY <1>2, <2>1, <2>2, <3>1 DEF Refused, AllOf, Refusals
  <2>4. p = NoPrompt /\ parser' = parser
    <3>1. parser \in Parsers /\ Scans /\ l \in Line /\ parser' = Parse(l).parser
      BY <1>1, <1>2, <2>1, HearOf DEF Refused
    <3> QED
      BY <2>3, <3>1, ScanOf DEF p
  <2>5. p.type \notin {"idle", "battle"}
    BY <2>4 DEF NoPrompt
  <2>6. UNCHANGED <<up, pc>>
    BY <1>1, <2>4, <2>5
  <2> QED
    BY <1>2, <2>1, <2>4, <2>6 DEF Refused, Scans
<1>6. SUFFICES DuelInv' /\ pc' \in Deciding \cup Reading
  BY <1>1, <1>5, <1>5r, HearKept
<1>7. CASE p = NoPrompt /\ Following(down)'
  <2>1. p.type \notin {"idle", "battle"}
    BY <1>7 DEF NoPrompt
  <2>2. UNCHANGED <<up, pc, held, outer>>
    BY <1>1, <1>7, <2>1
  <2>3. RunCase'
    BY <1>3, <1>4, <1>7, <2>2 DEF RunCase, Clear
  <2> QED
    BY <1>2, <2>2, <2>3 DEF DuelInv, Reading
<1>8. CASE Shows(p) /\ ask.p = p.type /\ parser'.mode = "scan" /\ Over(down')
  <2>1. p.type \in {"idle", "battle"} /\ p # NoPrompt
    <3>1. p.type \in {"idle", "battle"}
      BY <1>8 DEF Shows, Menus
    <3>2. NoPrompt.type = "none"
      BY DEF NoPrompt
    <3> QED
      BY <3>1, <3>2
  <2>2. CASE pending
    <3>1. pc' = "info" /\ outer' = p /\ UNCHANGED <<up, held>>
      BY <1>1, <2>1, <2>2
    <3>2. Shows(outer)'
      BY <1>2, <1>8, <3>1 DEF Shows, Opts
    <3>3. InfoCase'
      BY <1>2, <1>3, <1>4, <1>8, <3>1, <3>2 DEF InfoCase, Clear, Scans, Quiet
    <3> QED
      BY <1>2, <3>1, <3>3 DEF DuelInv, Deciding
  <2>3. CASE ~pending
    <3>1. Begin(p) /\ outer' = NoPrompt
      BY <1>1, <1>3, <2>1, <2>3
    <3>2. DuelInv'
      BY <1>2, <1>3, <1>4, <1>8, <3>1, BeginMenu DEF Inv
    <3> QED
      BY <3>1, <3>2 DEF Begin, ProbeNext, Deciding, Reading
  <2> QED
    BY <1>5, <2>2, <2>3 DEF Inv, TypeOK
<1>9. CASE /\ p.type \in {"ask", "question"} /\ p # NoPrompt
           /\ ask.p = "ask" /\ parser'.mode = "scan" /\ Over(down')
           /\ p.type = "ask" => p.name = ask.x
           /\ p.type = "question" => Prompt[ask.x].type = "yesno"
  <2>1. p.type \notin {"idle", "battle"}
    BY <1>9
  <2>2. Begin(p) /\ outer' = outer
    BY <1>1, <1>9, <2>1
  <2>3. held' = p /\ pc' = "answer" /\ up' = up
    BY <2>1, <2>2 DEF Begin
  <2>4. AnswerCase'
    BY <1>2, <1>3, <1>4, <1>9, <2>2, <2>3 DEF AnswerCase, Scans, Quiet
  <2> QED
    BY <1>2, <2>3, <2>4 DEF DuelInv, Deciding
<1> QED
  BY <1>1, <1>3, <1>7, <1>8, <1>9, FollowingRead DEF p

-----------------------------------------------------------------------------
(* In the duel, what the server does.                                      *)

(* A bot that has sent a command has read everything, and sent only this.  *)
LEMMA Waiting ==
  ASSUME Inv, state = "DUEL"
  PROVE  /\ up = <<>> \/ up = <<Head(up)>>
         /\ up # <<>> => Over(down)
<1>1. \A x : Asked(x) => up = <<Head(up)>> /\ Over(down)
  BY DEF Asked
<1>2. \A K, t : Told(K, t) => up = <<>>
  BY DEF Told
<1>3. Quiet => up = <<>>
  BY DEF Quiet
<1>4. \A x : ListAsked(x) => up = <<Head(up)>> /\ Over(down)
  BY <1>1 DEF ListAsked
<1>5. \A x : ListTold(x) => up = <<>>
  BY DEF ListTold
<1>6. pc \in Deciding \cup Reading
  BY DEF Inv, TypeOK
<1>7. CASE pc \in Deciding
  BY <1>3, <1>7 DEF Inv, DuelInv, Deciding, AnswerCase, InfoCase, DecisionCase
<1>8. CASE pc = "run"
  BY <1>8 DEF Inv, DuelInv, RunCase
<1>9. CASE pc = "resync"
  BY <1>1, <1>2, <1>9 DEF Inv, DuelInv, ResyncCase
<1>10. CASE pc = "probe"
  BY <1>1, <1>2, <1>10 DEF Inv, DuelInv, ProbeCase
<1>11. CASE pc = "submenu"
  BY <1>1, <1>2, <1>11 DEF Inv, DuelInv, SubmenuCase
<1>12. CASE pc \in {"probeAttack", "probeActivate"}
  BY <1>4, <1>5, <1>12 DEF Inv, DuelInv, ListCase
<1>13. CASE pc \in {"discardAttack", "discardActivate"}
  BY <1>1, <1>2, <1>13 DEF Inv, DuelInv, DiscardCase
<1>14. CASE pc \in {"execAttack", "execActivate"}
  BY <1>4, <1>5, <1>14 DEF Inv, DuelInv, ExecCase
<1> QED
  BY <1>6, <1>7, <1>8, <1>9, <1>10, <1>11, <1>12, <1>13, <1>14 DEF Reading

(* Before the end of the duel, a bot that has read everything has nothing  *)
(* to read.                                                                *)
LEMMA Drained == ASSUME Inv, srv # "closed", Over(down) PROVE down = <<>>
<1>1. down \in Seq(Line) /\ \A i \in DOMAIN down : down[i].k # "end"
  BY DEF Inv, Typed, PhaseInv
<1>2. CASE down # <<>>
  <2>1. 1 \in DOMAIN down
    BY <1>1, <1>2, ReadOf
  <2> QED
    BY <1>1, <2>1 DEF Over
<1> QED
  BY <1>2

(* What is said to a bot that has read everything.                         *)
LEMMA SayOf == ASSUME down = <<>>, NEW q \in Seq(Line), Say(q) PROVE down' = q
<1>1. down' = <<>> \o q
  BY DEF Say
<1> QED
  BY <1>1

(* The answer to the only command in flight.                               *)
LEMMA ServeOf ==
  ASSUME Inv, ServeDuel, state # "FINISHED"
  PROVE  /\ state = "DUEL" /\ srv = "duel" /\ UNCHANGED <<client, srv, asks, ties, decks, guestIn>>
         /\ down = <<>> /\ up = <<Head(up)>> /\ up # <<>> /\ up' = <<>> /\ ask # NoMenu
         /\ CASE ask.p = "idle"    -> ServeIdle(Head(up))
              [] ask.p = "submenu" -> ServeSubmenu(Head(up))
              [] ask.p = "battle"  -> ServeBattle(Head(up))
              [] ask.p = "list"    -> ServeList(Head(up))
              [] OTHER             -> ServeAsk(Head(up))
<1>1. /\ srv = "duel" /\ ask # NoMenu /\ UNCHANGED <<client, srv, asks, ties, decks, guestIn>>
      /\ up # <<>> /\ up' = Tail(up)
      /\ CASE ask.p = "idle"    -> ServeIdle(Head(up))
              [] ask.p = "submenu" -> ServeSubmenu(Head(up))
              [] ask.p = "battle"  -> ServeBattle(Head(up))
              [] ask.p = "list"    -> ServeList(Head(up))
              [] OTHER             -> ServeAsk(Head(up))
  BY DEF ServeDuel, Take
<1>2. state = "DUEL"
  <2>1. CASE state # "DUEL"
    BY <1>1, <2>1 DEF Inv, LobbyInv, CreatedCase, FailedCase
  <2> QED
    BY <2>1
<1>3. up = <<Head(up)>> /\ Over(down)
  BY <1>1, <1>2, Waiting
<1>4. down = <<>>
  BY <1>1, <1>3, Drained
<1>5. up' = <<>>
  <2>1. \A c : Tail(<<c>>) = <<>>
    OBVIOUS
  <2> QED
    BY <1>1, <1>3, <2>1
<1> QED
  BY <1>1, <1>2, <1>3, <1>4, <1>5

(* No line of a stream is the end of the duel.                             *)
Ongoing(q) == \A i \in DOMAIN q : q[i].k # "end"

(* ... of the streams that the server says.                                *)
LEMMA OngoingOf ==
  /\ \A q, K : AllOf(q, K) /\ "end" \notin K => Ongoing(q)
  /\ \A a, b \in Seq(Line) : Ongoing(a) /\ Ongoing(b) => Ongoing(a \o b)
  /\ \A l \in Line : l.k # "end" => Ongoing(<<l>>)
  /\ \A k \in Kinds : k # "end" => Ongoing(<<L(k, "")>>)
  /\ Ongoing(<<>>)
<1>1. ASSUME NEW q, NEW K, AllOf(q, K), "end" \notin K PROVE Ongoing(q)
  BY <1>1 DEF AllOf, Ongoing
<1>2. ASSUME NEW a \in Seq(Line), NEW b \in Seq(Line), Ongoing(a), Ongoing(b)
      PROVE  Ongoing(a \o b)
  <2> DEFINE K == {k \in Kinds : k # "end"}
  <2>1. /\ \A i \in DOMAIN a : a[i] \in Line
        /\ \A i \in DOMAIN b : b[i] \in Line
    OBVIOUS
  <2>2. AllOf(a, K) /\ AllOf(b, K)
    BY <1>2, <2>1 DEF AllOf, Ongoing, Line
  <2>3. "end" \notin K
    OBVIOUS
  <2> HIDE DEF K
  <2>4. AllOf(a \o b, K)
    BY <2>2, KindsJoin
  <2> QED
    BY <1>1, <2>3, <2>4
<1>3. ASSUME NEW l \in Line, l.k # "end" PROVE Ongoing(<<l>>)
  <2>1. AllOf(<<l>>, {l.k})
    BY OneOf
  <2> QED
    BY <1>1, <1>3, <2>1
<1>4. ASSUME NEW k \in Kinds, k # "end" PROVE Ongoing(<<L(k, "")>>)
  BY <1>3, <1>4, MarkOf
<1>5. Ongoing(<<>>)
  BY DEF Ongoing
<1> QED
  BY <1>1, <1>2, <1>3, <1>4, <1>5

(* ... of a menu.                                                          *)
LEMMA MenuOngoing ==
  ASSUME NEW S \in SUBSET Letters, NEW h \in Kinds \ {"end"}, NEW t \in Kinds \ {"end"}
  PROVE  Ongoing(<<L(h, "")>> \o Lines("letter", S) \o <<L(t, "")>>)
<1> DEFINE a == <<L(h, "")>>
           b == Lines("letter", S)
           c == <<L(t, "")>>
<1>1. a \in Seq(Line) /\ Ongoing(a) /\ c \in Seq(Line) /\ Ongoing(c)
  BY MarkOf, OngoingOf
<1>2. b \in Seq(Line) /\ Ongoing(b)
  <2>1. IsFiniteSet(S) /\ S \subseteq Names /\ "letter" \in Kinds
    BY LettersFinite DEF Names, Kinds
  <2>2. b \in Seq(Line) /\ AllOf(b, {"letter"})
    BY <2>1, LinesOf
  <2>3. "end" \notin {"letter"}
    OBVIOUS
  <2> HIDE DEF b
  <2> QED
    BY <2>2, <2>3, OngoingOf
<1> HIDE DEF a, b, c
<1>3. a \o b \in Seq(Line) /\ Ongoing(a \o b)
  BY <1>1, <1>2, JoinOf, OngoingOf
<1>4. Ongoing((a \o b) \o c)
  BY <1>1, <1>3, OngoingOf
<1> QED
  BY <1>4 DEF a, b, c

(* ... of the idle menu.                                                   *)
LEMMA IdleOngoing == ASSUME NEW m, m.phases \subseteq Letters PROVE Ongoing(IdleLines(m))
<1>1. "idleHead" \in Kinds \ {"end"} /\ "selectCard" \in Kinds \ {"end"}
  BY DEF Kinds
<1> QED
  BY <1>1, MenuOngoing DEF IdleLines

(* ... of the battle menu.                                                 *)
LEMMA BattleOngoing ==
  ASSUME NEW m, m.phases \subseteq Letters, m.usable \subseteq {"a", "c"} \X Specs
  PROVE  Ongoing(BattleLines(m))
<1>1. "battleHead" \in Kinds \ {"end"} /\ "selectOption" \in Kinds \ {"end"}
  BY DEF Kinds
<1>2. m.phases \cup {u[1] : u \in m.usable} \in SUBSET Letters
  <2>1. {u[1] : u \in m.usable} \subseteq {"a", "c"}
    OBVIOUS
  <2> QED
    BY <2>1 DEF Letters
<1> QED
  BY <1>1, <1>2, MenuOngoing DEF BattleLines

(* What remains to show of a step that answers a command.                  *)
LEMMA ServeKept ==
  ASSUME Inv, state = "DUEL", UNCHANGED <<client, srv, asks, ties, decks, guestIn>>,
         down' \in Seq(Line), Ongoing(down'), AskInv', DuelInv',
         ask' \in [p : {"none", "ask"} \cup Idles \cup Battles,
                   usable : SUBSET (Letters \X Specs), phases : SUBSET Letters, x : Names],
         up # <<>>, UNCHANGED rejected \/ (rejected' = TRUE /\ Refused')
  PROVE  Inv'
<1>1. Typed'
  BY DEF Inv, Typed, client, duel
<1>2. rejected' \in BOOLEAN
  BY DEF Inv, TypeOK
<1>3. ask'.p \in {"none", "idle", "submenu", "battle", "list", "ask"}
  BY DEF Idles, Battles
<1>4. TypeOK'
  BY <1>2, <1>3 DEF Inv, TypeOK, client, lobby, duel
<1>5. PhaseInv'
  <2>1. ~rejected
    BY DEF Inv, PhaseInv, Refused
  <2> QED
    BY <2>1 DEF Inv, PhaseInv, Ongoing, client, duel
<1>6. LobbyInv'
  BY DEF LobbyInv, client
<1> QED
  BY <1>1, <1>4, <1>5, <1>6 DEF Inv

(* What the server waits for next.                                         *)
LEMMA NothingAsked ==
  NoMenu \in [p : {"none", "ask"} \cup Idles \cup Battles,
              usable : SUBSET (Letters \X Specs), phases : SUBSET Letters, x : Names]
BY DEF NoMenu, Names, Letters

(* The menu that is shown, with another name and argument.                 *)
LEMMA AskMoved ==
  ASSUME Inv, NEW q \in Idles \cup Battles, NEW y \in Names
  PROVE  LET m == [ask EXCEPT !.p = q, !.x = y]
         IN  /\ m \in [p : {"none", "ask"} \cup Idles \cup Battles,
                       usable : SUBSET (Letters \X Specs), phases : SUBSET Letters, x : Names]
             /\ m.p = q /\ m.x = y /\ m.usable = ask.usable /\ m.phases = ask.phases
<1> DEFINE p == ask.p
           u == ask.usable
           f == ask.phases
           x == ask.x
           r == [p |-> p, usable |-> u, phases |-> f, x |-> x]
<1>1. ask = r /\ u \in SUBSET (Letters \X Specs) /\ f \in SUBSET Letters
  BY DEF Inv, Typed
<1> HIDE DEF p, u, f, x
<1>2. [r EXCEPT !.p = q, !.x = y] = [[r EXCEPT !.p = q] EXCEPT !.x = y]
  OBVIOUS
<1>3. [r EXCEPT !.p = q] = [p |-> q, usable |-> u, phases |-> f, x |-> x]
  OBVIOUS
<1>4. [[p |-> q, usable |-> u, phases |-> f, x |-> x] EXCEPT !.x = y]
        = [p |-> q, usable |-> u, phases |-> f, x |-> y]
  OBVIOUS
<1> HIDE DEF r
<1> DEFINE m == [ask EXCEPT !.p = q, !.x = y]
<1>5. m = [p |-> q, usable |-> u, phases |-> f, x |-> y]
  BY <1>1, <1>2, <1>3, <1>4
<1> HIDE DEF m
<1>6. m.p = q /\ m.x = y /\ m.usable = u /\ m.phases = f
  BY <1>5
<1>7. m \in [p : {"none", "ask"} \cup Idles \cup Battles,
             usable : SUBSET (Letters \X Specs), phases : SUBSET Letters, x : Names]
  BY <1>1, <1>5
<1> QED
  BY <1>6, <1>7 DEF m, u, f

(* A card, a letter and an informational command are different commands.   *)
LEMMA CommandOf ==
  /\ \A x : C(x).k = "command" /\ C(x).x = x
  /\ \A x, y : C(x) = C(y) => x = y
  /\ \A x : Info(C(x)) <=> x \in Infos
  /\ Infos \cap Specs = {} /\ Infos \cap Reserved = {} /\ Specs \cap Reserved = {}
<1>1. \A x : C(x).k = "command" /\ C(x).x = x
  BY DEF C, L
<1>2. \A x, y : C(x) = C(y) => x = y
  BY <1>1
<1>3. \A x : Info(C(x)) <=> x \in Infos
  BY <1>1 DEF Info, Infos
<1>4. Infos \cap Specs = {} /\ Infos \cap Reserved = {} /\ Specs \cap Reserved = {}
  BY MudClientAssumption DEF Infos
<1> QED
  BY <1>1, <1>2, <1>3, <1>4

(* The menu of the server, by what it waits for.                           *)
LEMMA AskOf ==
  ASSUME Inv
  PROVE  /\ ask.p \in Idles => /\ ask.usable \subseteq {"s", "v"} \X Specs
                               /\ ask.phases \in {{"e"}, {"b", "e"}}
         /\ ask.p \in Battles => /\ ask.usable \subseteq {"a", "c"} \X Specs
                                 /\ ask.phases \in {{"e"}, {"m", "e"}}
         /\ ask.phases \subseteq Letters
         /\ ask.phases \subseteq Names
         /\ \A u \in ask.usable : u[1] \in Letters /\ u[2] \in Specs /\ u = <<u[1], u[2]>>
<1>1. ask.usable \subseteq Letters \X Specs /\ ask.phases \subseteq Letters
  BY DEF Inv, Typed
<1>2. \A u \in ask.usable : u[1] \in Letters /\ u[2] \in Specs /\ u = <<u[1], u[2]>>
  BY <1>1
<1> QED
  BY <1>1, <1>2 DEF Inv, AskInv, Names

(* The answer that a prompt waits for closes it.                           *)
LEMMA AcceptedStep ==
  ASSUME Inv, ServeDuel, state # "FINISHED", pc = "run",
         To(NoMenu, <<>>)
  PROVE  Inv'
<1>1. /\ state = "DUEL" /\ srv = "duel" /\ UNCHANGED <<client, srv, asks, ties, decks, guestIn>>
      /\ down = <<>> /\ up' = <<>> /\ up # <<>>
  BY ServeOf
<1>2. ask' = NoMenu /\ UNCHANGED rejected /\ down' = <<>>
  <2>1. <<>> \in Seq(Line)
    OBVIOUS
  <2> QED
    BY <1>1, <2>1, SayOf DEF To
<1>3. outer = NoPrompt /\ Clear /\ Scans
  BY <1>1 DEF Inv, DuelInv, RunCase
<1>4. AskInv'
  BY <1>1, <1>2 DEF AskInv, NoMenu, Idles, Battles
<1>5. Over(down')
  BY <1>2 DEF Over
<1>6. RunCase'
  BY <1>1, <1>2, <1>3, <1>5 DEF RunCase, Following, Clear, Scans, client, duel
<1>7. DuelInv'
  BY <1>1, <1>6 DEF DuelInv, client, duel
<1>8. down' \in Seq(Line) /\ Ongoing(down')
  <2>1. <<>> \in Seq(Line)
    OBVIOUS
  <2> QED
    BY <1>2, <2>1, OngoingOf
<1> QED
  BY <1>1, <1>2, <1>4, <1>7, <1>8, NothingAsked, ServeKept

(* The server takes an answer of the main loop.                            *)
LEMMA ServeRunStep == ASSUME Inv, ServeDuel, state # "FINISHED", pc = "run" PROVE Inv'
<1> DEFINE cmd == Head(up)
<1>1. /\ state = "DUEL" /\ srv = "duel" /\ UNCHANGED <<client, srv, asks, ties, decks, guestIn>>
      /\ down = <<>> /\ up = <<cmd>> /\ up # <<>> /\ up' = <<>> /\ ask # NoMenu
      /\ CASE ask.p = "idle"    -> ServeIdle(cmd)
              [] ask.p = "submenu" -> ServeSubmenu(cmd)
              [] ask.p = "battle"  -> ServeBattle(cmd)
              [] ask.p = "list"    -> ServeList(cmd)
              [] OTHER             -> ServeAsk(cmd)
  BY ServeOf
<1>2. Scans /\ outer = NoPrompt /\ Clear /\ Final(cmd)
  BY <1>1 DEF Inv, DuelInv, RunCase
<1> HIDE DEF cmd
<1>3. CASE ask.p \in Menus /\ \E l \in ask.phases : cmd = C(l)
  <2>1. PICK l \in ask.phases : cmd = C(l)
    BY <1>3
  <2>2. l \in {"b", "m", "e"} /\ l \in Reserved
    BY <1>3, AskOf DEF Menus, Idles, Battles, Reserved
  <2>3. ~Info(cmd) /\ cmd.k = "command" /\ cmd.x = l /\ cmd # C("?")
    <3>1. l # "?"
      BY <2>2
    <3> QED
      BY <2>1, <2>2, <3>1, CommandOf
  <2>4. CASE ask.p = "idle"
    <3>1. LettersOf(cmd.x) = {}
      <4>1. l \notin Specs
        BY <2>2, CommandOf
      <4>2. <<"s", l>> \notin ask.usable /\ <<"v", l>> \notin ask.usable
        BY <2>4, <4>1, AskOf DEF Idles
      <4> QED
        BY <2>3, <4>2 DEF LettersOf
    <3>2. ServeIdle(cmd)
      BY <1>1, <2>4
    <3>3. To(NoMenu, <<>>)
      BY <2>1, <2>3, <3>1, <3>2 DEF ServeIdle
    <3> QED
      BY <3>3, AcceptedStep
  <2>5. CASE ask.p = "battle"
    <3>1. \A u \in ask.usable : u[1] \in {"a", "c"}
      BY <2>5, AskOf DEF Battles
    <3>2. cmd.x \notin {u[1] : u \in ask.usable}
      BY <2>2, <2>3, <3>1
    <3> QED
      BY <1>1, <2>1, <2>3, <2>5, <3>2, AcceptedStep DEF ServeBattle
  <2> QED
    BY <1>3, <2>4, <2>5 DEF Menus
<1>4. CASE ask.p = "submenu" /\ \E l \in LettersOf(ask.x) : cmd = C(l)
  <2>1. cmd.x \in LettersOf(ask.x)
    BY <1>4, CommandOf
  <2> QED
    <3>1. cmd # C("z")
      <4>1. LettersOf(ask.x) \subseteq {"s", "v", "va", "vb"}
        BY DEF LettersOf
      <4>2. cmd.x # "z"
        BY <2>1, <4>1
      <4> QED
        BY <4>2, CommandOf
    <3>2. ServeSubmenu(cmd)
      BY <1>1, <1>4
    <3>3. To(NoMenu, <<>>)
      BY <2>1, <3>1, <3>2 DEF ServeSubmenu
    <3> QED
      BY <3>3, AcceptedStep
<1>5. CASE ask.p = "list" /\ \E x \in Of(ask, ask.x) : cmd = C(x)
  <2>1. cmd.k = "command" /\ cmd.x \in Of(ask, ask.x)
    BY <1>5, CommandOf
  <2> QED
    <3>1. cmd # C("z")
      <4>1. Of(ask, ask.x) \subseteq Specs
        BY <1>5, AskOf DEF Of
      <4>2. "z" \notin Specs
        BY CommandOf DEF Reserved
      <4> QED
        BY <2>1, <4>1, <4>2, CommandOf
    <3>2. ServeList(cmd)
      BY <1>1, <1>5
    <3>3. To(NoMenu, <<>>)
      BY <2>1, <3>1, <3>2 DEF ServeList
    <3> QED
      BY <3>3, AcceptedStep
<1>6. CASE ask.p = "ask" /\ (Guessed(Prompt[ask.x]) \/ Accepts(Prompt[ask.x], cmd))
  <2>1. ServeAsk(cmd)
    BY <1>1, <1>6
  <2>2. CASE Accepts(Prompt[ask.x], cmd)
    BY <1>1, <2>1, <2>2, AcceptedStep DEF ServeAsk
  <2>3. CASE ~Accepts(Prompt[ask.x], cmd)
    <3>1. /\ rejected' = TRUE /\ Say(<<L("enterText", "")>>) /\ ask' = ask /\ Guessed(Prompt[ask.x])
      BY <1>6, <2>1, <2>3 DEF ServeAsk, Refuse
    <3>2. "enterText" \in Kinds /\ "enterText" # "end"
      BY DEF Kinds
    <3>3. down' = <<L("enterText", "")>>
      BY <1>1, <3>1, <3>2, MarkOf, SayOf
    <3>4. /\ down' \in Seq(Line) /\ Ongoing(down')
      BY <3>2, <3>3, MarkOf, OngoingOf
    <3>5. AllOf(down', Refusals)
      <4>1. L("enterText", "").k \in Refusals /\ L("enterText", "") \in Line
        BY <3>2, MarkOf DEF Refusals
      <4> DEFINE K == Refusals
                 l == L("enterText", "")
      <4>2. l.k \in K /\ l \in Line
        BY <4>1
      <4> HIDE DEF K, l
      <4>3. AllOf(<<l>>, K)
        BY <4>2, OneOf
      <4> QED
        BY <3>3, <4>3 DEF K, l
    <3>6. AskInv' /\ DuelInv'
      <4>1. AskInv'
        BY <1>1, <3>1 DEF Inv, AskInv
      <4>2. RunCase'
        BY <1>1, <1>2, <1>6, <3>1, <3>5 DEF RunCase, Following, Clear, Scans, client, duel
      <4> QED
        BY <1>1, <4>1, <4>2 DEF DuelInv, client, duel
    <3>7. ask' \in [p : {"none", "ask"} \cup Idles \cup Battles,
                    usable : SUBSET (Letters \X Specs), phases : SUBSET Letters, x : Names]
      BY <3>1 DEF Inv, Typed
    <3>8. Refused'
      <4>1. UNCHANGED <<state, pc, parser>>
        BY <1>1 DEF client, duel
      <4>2. Scans' /\ state' \in {"DUEL", "FINISHED"} /\ pc' = "run"
        BY <1>1, <1>2, <4>1 DEF Scans
      <4>3. ask'.p = "ask" /\ Guessed(Prompt[ask'.x])
        BY <1>6, <3>1
      <4> QED
        BY <1>1, <3>5, <4>2, <4>3 DEF Refused
    <3> QED
      BY <1>1, <3>1, <3>4, <3>6, <3>7, <3>8, ServeKept
  <2> QED
    BY <2>2, <2>3
<1> QED
  BY <1>2, <1>3, <1>4, <1>5, <1>6 DEF Final

(* The server takes an informational command.                              *)
LEMMA ServeResyncStep ==
  ASSUME Inv, ServeDuel, state # "FINISHED", pc = "resync" PROVE Inv'
<1> DEFINE cmd == Head(up)
           t == IF ask.p = "idle" THEN "selectCard" ELSE "selectOption"
<1>1. /\ state = "DUEL" /\ UNCHANGED <<client, srv, asks, ties, decks, guestIn>>
      /\ down = <<>> /\ up = <<cmd>> /\ up # <<>> /\ up' = <<>>
      /\ CASE ask.p = "idle"    -> ServeIdle(cmd)
              [] ask.p = "submenu" -> ServeSubmenu(cmd)
              [] ask.p = "battle"  -> ServeBattle(cmd)
              [] ask.p = "list"    -> ServeList(cmd)
              [] OTHER             -> ServeAsk(cmd)
  BY ServeOf
<1>2. /\ Shows(outer) /\ ask.p = outer.type /\ Clear /\ Scans /\ Asked(InfoCmds[ix])
  BY <1>1 DEF Inv, DuelInv, ResyncCase, Told
<1>3. ask.p \in {"idle", "battle"}
  BY <1>2 DEF Shows, Menus
<1>4. cmd = C(InfoCmds[ix]) /\ InfoCmds[ix] \in Infos
  <2>1. up = <<C(InfoCmds[ix])>>
    BY <1>2 DEF Asked
  <2>2. ix \in DOMAIN InfoCmds
    BY DEF Inv, TypeOK
  <2> QED
    BY <1>1, <2>1, <2>2 DEF Infos
<1>5. Info(cmd) /\ cmd.k = "command" /\ cmd.x = InfoCmds[ix] /\ cmd.x \notin Specs /\ cmd.x \notin Reserved
  BY <1>4, CommandOf
<1> HIDE DEF cmd, t
<1>6. \E lines \in InfoLines(InfoCmds[ix]) : To(ask, lines \o <<L(t, "")>>)
  <2>1. CASE ask.p = "idle"
    <3>1. ServeIdle(cmd)
      BY <1>1, <2>1
    <3>2. cmd # C("?")
      <4>1. cmd.x # "?"
        BY <1>5 DEF Reserved
      <4> QED
        BY <4>1, CommandOf
    <3>3. cmd.x \notin ask.phases
      BY <1>5, <2>1, AskOf DEF Reserved, Idles
    <3>4. LettersOf(cmd.x) = {}
      <4>1. <<"s", cmd.x>> \notin ask.usable /\ <<"v", cmd.x>> \notin ask.usable
        BY <1>5, <2>1, AskOf DEF Idles
      <4> QED
        BY <4>1 DEF LettersOf
    <3>5. \E lines \in InfoLines(cmd.x) : To(ask, lines \o <<L("selectCard", "")>>)
      BY <1>5, <3>1, <3>2, <3>3, <3>4 DEF ServeIdle
    <3> QED
      BY <1>5, <2>1, <3>5 DEF t
  <2>2. CASE ask.p = "battle"
    <3>1. ServeBattle(cmd)
      BY <1>1, <2>2
    <3>2. cmd.x \notin ask.phases
      BY <1>5, <2>2, AskOf DEF Reserved, Battles
    <3>3. cmd.x \notin {u[1] : u \in ask.usable}
      <4>1. \A u \in ask.usable : u[1] \in {"a", "c"}
        BY <2>2, AskOf DEF Battles
      <4> QED
        BY <1>5, <4>1 DEF Reserved
    <3>4. \E lines \in InfoLines(cmd.x) : To(ask, lines \o <<L("selectOption", "")>>)
      BY <1>5, <3>1, <3>2, <3>3 DEF ServeBattle
    <3> QED
      BY <1>5, <2>2, <3>4 DEF t
  <2> QED
    BY <1>3, <2>1, <2>2
<1>13. PICK lines \in InfoLines(InfoCmds[ix]) : To(ask, lines \o <<L(t, "")>>)
  BY <1>6
<1> DEFINE q == lines \o <<L(t, "")>>
<1>7. q \in Seq(Line) /\ Ends(q, {"info", "question"}, t) /\ Ongoing(q)
  <2>1. t \in {"selectCard", "selectOption"}
    BY DEF t
  <2>2. q \in Seq(Line) /\ Ends(q, {"info", "question"}, t)
    BY <1>4, <2>1, InfoLinesOf
  <2>3. Ongoing(q)
    <3> DEFINE a == lines
               r == <<L(t, "")>>
    <3>1. a \in Seq(Line) /\ AllOf(a, {"info", "question"})
      BY <1>4, <2>1, InfoLinesOf
    <3>2. Ongoing(a)
      BY <3>1, OngoingOf
    <3>3. t \in Kinds /\ t # "end"
      BY <2>1 DEF Kinds
    <3>4. r \in Seq(Line) /\ Ongoing(r)
      BY <3>3, MarkOf, OngoingOf
    <3> HIDE DEF a, r
    <3>5. Ongoing(a \o r)
      BY <3>1, <3>2, <3>4, OngoingOf
    <3> QED
      BY <3>5 DEF a, r
  <2> QED
    BY <2>2, <2>3
<1> HIDE DEF q
<1>8. ask' = ask /\ UNCHANGED rejected /\ down' = q
  BY <1>1, <1>13, <1>7, SayOf DEF To, q
<1>9. /\ Ends(down', {"info", "question"}, t) /\ t' = t
  BY <1>7, <1>8 DEF t
<1>10. ResyncCase'
  BY <1>1, <1>2, <1>8, <1>9 DEF ResyncCase, Told, Shows, Opts, Clear, Scans, client, duel, t
<1>11. AskInv' /\ DuelInv'
  BY <1>1, <1>8, <1>10 DEF Inv, AskInv, DuelInv, client, duel
<1>12. ask' \in [p : {"none", "ask"} \cup Idles \cup Battles,
                 usable : SUBSET (Letters \X Specs), phases : SUBSET Letters, x : Names]
  BY <1>8 DEF Inv, Typed
<1> QED
  BY <1>1, <1>7, <1>8, <1>11, <1>12, ServeKept

(* The server takes "?".                                                   *)
LEMMA ServeProbeStep == ASSUME Inv, ServeDuel, state # "FINISHED", pc = "probe" PROVE Inv'
<1> DEFINE cmd == Head(up)
           K == {"usable", "idleHead", "letter"}
<1>1. /\ state = "DUEL" /\ UNCHANGED <<client, srv, asks, ties, decks, guestIn>>
      /\ down = <<>> /\ up = <<cmd>> /\ up # <<>> /\ up' = <<>>
      /\ CASE ask.p = "idle"    -> ServeIdle(cmd)
              [] ask.p = "submenu" -> ServeSubmenu(cmd)
              [] ask.p = "battle"  -> ServeBattle(cmd)
              [] ask.p = "list"    -> ServeList(cmd)
              [] OTHER             -> ServeAsk(cmd)
  BY ServeOf
<1>2. Handling("idle") /\ ask.p = "idle" /\ Asked("?") /\ offered = {} /\ Scans
  BY <1>1 DEF Inv, DuelInv, ProbeCase, Told
<1>3. cmd = C("?")
  BY <1>1, <1>2 DEF Asked
<1> HIDE DEF cmd
<1>4. ask.usable \subseteq {"s", "v"} \X Specs /\ ask.phases \in {{"e"}, {"b", "e"}}
      /\ ask.phases \subseteq Letters
  BY <1>2, AskOf DEF Idles
<1>5. \E q \in {UsableLines \o <<L("selectCard", "")>>, UsableLines \o IdleLines(ask)} : To(ask, q)
  <2>1. ServeIdle(cmd)
    BY <1>1, <1>2
  <2>2. cmd.x = "?" /\ ~Info(cmd) /\ cmd.x \notin ask.phases /\ cmd.x \notin Specs
    <3>1. "?" \in Reserved
      BY DEF Reserved
    <3> QED
      BY <1>3, <1>4, <3>1, CommandOf
  <2>3. LettersOf(cmd.x) = {}
    BY <1>4, <2>2 DEF LettersOf
  <2> QED
    BY <1>3, <2>1, <2>2, <2>3 DEF ServeIdle
<1>6. PICK q \in {UsableLines \o <<L("selectCard", "")>>, UsableLines \o IdleLines(ask)} : To(ask, q)
  BY <1>5
<1>7. /\ q \in Seq(Line) /\ Ends(q, K, "selectCard")
      /\ Said(q, "letter") \subseteq ask.phases /\ Usable(q) = ask.usable
  BY <1>4, ProbedOf
<1>8. Ongoing(q)
  <2> DEFINE a == UsableLines
             b == <<L("selectCard", "")>>
             c == IdleLines(ask)
  <2>1. a \in Seq(Line) /\ Ongoing(a)
    <3>1. a \in Seq(Line) /\ AllOf(a, {"usable"})
      BY <1>4, UsableLinesOf
    <3>2. "end" \notin {"usable"}
      OBVIOUS
    <3> HIDE DEF a
    <3> QED
      BY <3>1, <3>2, OngoingOf
  <2>2. b \in Seq(Line) /\ Ongoing(b)
    <3>1. "selectCard" \in Kinds /\ "selectCard" # "end"
      BY DEF Kinds
    <3> QED
      BY <3>1, MarkOf, OngoingOf
  <2>3. c \in Seq(Line) /\ Ongoing(c)
    BY <1>4, IdleLinesOf, IdleOngoing
  <2> HIDE DEF a, b, c
  <2>4. Ongoing(a \o b) /\ Ongoing(a \o c)
    BY <2>1, <2>2, <2>3, OngoingOf
  <2>5. q = a \o b \/ q = a \o c
    BY <1>6 DEF a, b, c
  <2> QED
    BY <2>4, <2>5
<1>9. ask' = ask /\ UNCHANGED rejected /\ down' = q
  BY <1>1, <1>6, <1>7, SayOf DEF To
<1> HIDE DEF K
<1>10. Handling("idle")' /\ UNCHANGED <<offered, parser>>
  BY <1>1, <1>2, <1>9 DEF Handling, Shows, Opts, client, duel
<1>11. ProbeCase'
  <2>1. Told(K, "selectCard")'
    BY <1>1, <1>7, <1>9 DEF Told
  <2>2. offered' \cup Usable(down') = ask'.usable /\ Said(down', "letter") \subseteq ask'.phases
    BY <1>2, <1>7, <1>9, <1>10
  <2>3. parser'.mode \in {"scan", "idle"}
    BY <1>2, <1>10 DEF Scans
  <2> QED
    BY <1>2, <1>9, <1>10, <2>1, <2>2, <2>3 DEF ProbeCase, K
<1>12. AskInv' /\ DuelInv'
  BY <1>1, <1>9, <1>11 DEF Inv, AskInv, DuelInv, client, duel
<1>13. ask' \in [p : {"none", "ask"} \cup Idles \cup Battles,
                 usable : SUBSET (Letters \X Specs), phases : SUBSET Letters, x : Names]
  BY <1>9 DEF Inv, Typed
<1> QED
  BY <1>1, <1>7, <1>8, <1>9, <1>12, <1>13, ServeKept

(* The server takes the card that was chosen.                              *)
LEMMA ServeSubmenuStep == ASSUME Inv, ServeDuel, state # "FINISHED", pc = "submenu" PROVE Inv'
<1> DEFINE cmd == Head(up)
           x == chosen[2]
           S == LettersOf(x) \cup {"i", "z"}
           q == Lines("letter", S) \o <<L("selectAction", "")>>
           m == [ask EXCEPT !.p = "submenu", !.x = x]
<1>1. /\ state = "DUEL" /\ UNCHANGED <<client, srv, asks, ties, decks, guestIn>>
      /\ down = <<>> /\ up = <<cmd>> /\ up # <<>> /\ up' = <<>>
      /\ CASE ask.p = "idle"    -> ServeIdle(cmd)
              [] ask.p = "submenu" -> ServeSubmenu(cmd)
              [] ask.p = "battle"  -> ServeBattle(cmd)
              [] ask.p = "list"    -> ServeList(cmd)
              [] OTHER             -> ServeAsk(cmd)
  BY ServeOf
<1>2. /\ held.type = "idle" /\ outer = NoPrompt /\ chosen \in ask.usable
      /\ ask.p = "idle" /\ Asked(x) /\ letters = {} /\ Scans
  BY <1>1 DEF Inv, DuelInv, SubmenuCase, Told
<1>3. cmd = C(x)
  BY <1>1, <1>2 DEF Asked
<1>4. /\ ask.usable \subseteq {"s", "v"} \X Specs /\ ask.phases \in {{"e"}, {"b", "e"}}
      /\ x \in Specs /\ chosen = <<chosen[1], x>> /\ chosen[1] \in {"s", "v"}
  BY <1>2, AskOf DEF Idles
<1> HIDE DEF cmd, x
<1>5. cmd.k = "command" /\ cmd.x = x /\ ~Info(cmd) /\ x \notin Reserved
  BY <1>3, <1>4, CommandOf
<1>6. LettersOf(x) # {} /\ LettersOf(x) \subseteq Letters
  BY <1>2, <1>4 DEF LettersOf, Letters
<1>7. To(m, q)
  <2>1. ServeIdle(cmd)
    BY <1>1, <1>2
  <2>2. cmd # C("?")
    <3>1. x # "?"
      BY <1>5 DEF Reserved
    <3> QED
      BY <1>5, <3>1, CommandOf
  <2>3. cmd.x \notin ask.phases
    BY <1>4, <1>5 DEF Reserved
  <2> QED
    BY <1>5, <1>6, <2>1, <2>2, <2>3 DEF ServeIdle
<1>8. S \in SUBSET Letters
  BY <1>6 DEF Letters
<1> HIDE DEF S
<1>9. /\ q \in Seq(Line) /\ Ends(q, {"letter"}, "selectAction") /\ Said(q, "letter") = S
  BY <1>8, SubmenuLinesOf
<1>10. Ongoing(q)
  <2> DEFINE a == Lines("letter", S)
             b == <<L("selectAction", "")>>
  <2>1. a \in Seq(Line) /\ Ongoing(a)
    <3>1. IsFiniteSet(S) /\ S \subseteq Names /\ "letter" \in Kinds
      BY <1>8, LettersFinite DEF Names, Kinds
    <3>2. a \in Seq(Line) /\ AllOf(a, {"letter"})
      BY <3>1, LinesOf
    <3>3. "end" \notin {"letter"}
      OBVIOUS
    <3> HIDE DEF a
    <3> QED
      BY <3>2, <3>3, OngoingOf
  <2>2. b \in Seq(Line) /\ Ongoing(b)
    <3>1. "selectAction" \in Kinds /\ "selectAction" # "end"
      BY DEF Kinds
    <3> QED
      BY <3>1, MarkOf, OngoingOf
  <2> HIDE DEF a, b
  <2>3. Ongoing(a \o b)
    BY <2>1, <2>2, OngoingOf
  <2> QED
    BY <2>3 DEF a, b
<1>11. /\ m.p = "submenu" /\ m.x = x /\ m.usable = ask.usable /\ m.phases = ask.phases
       /\ m \in [p : {"none", "ask"} \cup Idles \cup Battles,
                 usable : SUBSET (Letters \X Specs), phases : SUBSET Letters, x : Names]
  <2>1. "submenu" \in Idles \cup Battles /\ x \in Names
    BY <1>4 DEF Idles, Names
  <2> QED
    BY <2>1, AskMoved
<1> HIDE DEF q, m
<1>12. ask' = m /\ UNCHANGED rejected /\ down' = q
  BY <1>1, <1>7, <1>9, SayOf DEF To
<1>13. /\ ask'.p = "submenu" /\ ask'.x = x /\ ask'.usable = ask.usable /\ ask'.phases = ask.phases
       /\ UNCHANGED <<chosen, letters, parser, held, outer>> /\ x' = x
  BY <1>1, <1>11, <1>12 DEF client, duel, x
<1>14. LettersOf(x)' = LettersOf(x)
  BY <1>13 DEF LettersOf
<1>15. SubmenuCase'
  <2>1. Told({"letter"}, "selectAction")'
    BY <1>1, <1>9, <1>12 DEF Told
  <2>2. letters' \cup Said(down', "letter") = LettersOf(ask.x)' \cup {"i", "z"}
    <3>1. LettersOf(ask.x)' = LettersOf(x)
      BY <1>13 DEF LettersOf
    <3> QED
      BY <1>2, <1>9, <1>12, <1>13, <3>1 DEF S
  <2>3. parser'.mode \in {"scan", "submenu"}
    BY <1>2, <1>13 DEF Scans
  <2> QED
    BY <1>2, <1>13, <2>1, <2>2, <2>3 DEF SubmenuCase, x
<1>16. AskInv'
  <2>0. NoMenu.p = "none"
    BY DEF NoMenu
  <2>1. ask'.p # "none" /\ ask' # NoMenu
    BY <1>13, <2>0
  <2>2. srv \in {"duel", "closed"} /\ srv' = srv
    BY <1>1 DEF Inv, PhaseInv
  <2> QED
    BY <1>4, <1>13, <2>1, <2>2 DEF AskInv, Idles, Battles
<1>17. DuelInv'
  BY <1>1, <1>15 DEF DuelInv, client, duel
<1>18. down' \in Seq(Line) /\ Ongoing(down')
  BY <1>9, <1>10, <1>12
<1>19. ask' \in [p : {"none", "ask"} \cup Idles \cup Battles,
                 usable : SUBSET (Letters \X Specs), phases : SUBSET Letters, x : Names]
  BY <1>11, <1>12
<1> QED
  BY <1>1, <1>12, <1>16, <1>17, <1>18, <1>19, ServeKept

(* A list of the battle menu does not end the duel.                        *)
LEMMA SubOngoing ==
  ASSUME NEW a \in {"a", "c"}, ask.usable \subseteq {"a", "c"} \X Specs
  PROVE  Ongoing(SubLines(a))
<1> DEFINE h == <<L(IF a = "a" THEN "attackHead" ELSE "activateHead", "")>>
           t == IF a = "a" THEN "selectCard" ELSE "enterText"
           b == Lines("spec", Of(ask, a))
           z == <<L("letter", "z")>>
           e == <<L(t, "")>>
           ze == <<L("letter", "z"), L(t, "")>>
<1>1. h \in Seq(Line) /\ Ongoing(h)
  <2>1. "attackHead" \in Kinds /\ "activateHead" \in Kinds
    BY DEF Kinds
  <2> QED
    BY <2>1, MarkOf, OngoingOf
<1>2. b \in Seq(Line) /\ Ongoing(b)
  <2>1. Of(ask, a) \subseteq Specs
    BY DEF Of
  <2>2. IsFiniteSet(Of(ask, a)) /\ Of(ask, a) \subseteq Names /\ "spec" \in Kinds
    BY <2>1, MudClientAssumption, FS_Subset DEF Names, Kinds
  <2>3. b \in Seq(Line) /\ AllOf(b, {"spec"})
    BY <2>2, LinesOf
  <2>4. "end" \notin {"spec"}
    OBVIOUS
  <2> HIDE DEF b
  <2> QED
    BY <2>3, <2>4, OngoingOf
<1>3. L("letter", "z") \in Line /\ L("letter", "z").k = "letter"
  <2>1. "letter" \in Kinds /\ "z" \in Names
    BY DEF Kinds, Names, Letters
  <2> QED
    BY <2>1, LIsLine
<1>4. z \in Seq(Line) /\ Ongoing(z)
  <2> DEFINE l == L("letter", "z")
  <2>1. l \in Line /\ l.k # "end"
    BY <1>3
  <2> HIDE DEF l
  <2>2. <<l>> \in Seq(Line) /\ Ongoing(<<l>>)
    BY <2>1, OneOf, OngoingOf
  <2> QED
    BY <2>2 DEF l
<1>5. t \in Kinds /\ t # "end"
  BY DEF Kinds
<1> HIDE DEF t
<1>6. e \in Seq(Line) /\ Ongoing(e) /\ L(t, "") \in Line
  BY <1>5, MarkOf, OngoingOf
<1>7. ze = z \o e
  BY <1>3, <1>6, TwoOf
<1> HIDE DEF h, b, z, e
<1>8. ze \in Seq(Line) /\ Ongoing(ze)
  BY <1>4, <1>6, <1>7, JoinOf, OngoingOf
<1>9. h \o b \in Seq(Line) /\ Ongoing(h \o b)
  BY <1>1, <1>2, JoinOf, OngoingOf
<1> HIDE DEF ze
<1>10. Ongoing((h \o b) \o ze)
  BY <1>8, <1>9, OngoingOf
<1> QED
  BY <1>10 DEF SubLines, h, b, ze, t

(* A list of the battle menu, when it is asked for.                        *)
LEMMA ListServed ==
  ASSUME Inv, ServeDuel, state # "FINISHED", NEW letter \in {"a", "c"},
         ListAsked(letter) \/ ListTold(letter)
  PROVE  /\ ListAsked(letter) /\ ListTold(letter)'
         /\ Listed(letter)' = With(letter)
         /\ ask'.usable = ask.usable /\ ask'.phases = ask.phases
         /\ down' \in Seq(Line) /\ Ongoing(down') /\ AskInv' /\ UNCHANGED rejected
         /\ ask' \in [p : {"none", "ask"} \cup Idles \cup Battles,
                      usable : SUBSET (Letters \X Specs), phases : SUBSET Letters, x : Names]
<1> DEFINE cmd == Head(up)
           q == SubLines(letter)
           m == [ask EXCEPT !.p = "list", !.x = letter]
<1>1. /\ state = "DUEL" /\ UNCHANGED <<client, srv, asks, ties, decks, guestIn>>
      /\ down = <<>> /\ up = <<cmd>> /\ up # <<>> /\ up' = <<>>
      /\ CASE ask.p = "idle"    -> ServeIdle(cmd)
              [] ask.p = "submenu" -> ServeSubmenu(cmd)
              [] ask.p = "battle"  -> ServeBattle(cmd)
              [] ask.p = "list"    -> ServeList(cmd)
              [] OTHER             -> ServeAsk(cmd)
  BY ServeOf
<1>2. ListAsked(letter) /\ ask.p = "battle" /\ letter \in Opts("battle") /\ Scans
  BY <1>1 DEF ListTold, ListAsked
<1>3. cmd = C(letter)
  BY <1>1, <1>2 DEF ListAsked, Asked
<1> HIDE DEF cmd
<1>4. /\ ask.usable \subseteq {"a", "c"} \X Specs /\ ask.phases \in {{"e"}, {"m", "e"}}
  BY <1>2, AskOf DEF Battles
<1>5. letter \in {u[1] : u \in ask.usable} /\ letter \notin ask.phases
  <2>1. letter \notin ask.phases
    BY <1>4
  <2> QED
    BY <1>2, <2>1 DEF Opts
<1>6. cmd.x = letter /\ ~Info(cmd)
  <2>1. letter \in Reserved
    BY DEF Reserved
  <2> QED
    BY <1>3, <2>1, CommandOf
<1>7. To(m, q)
  <2>1. ServeBattle(cmd)
    BY <1>1, <1>2
  <2> QED
    BY <1>5, <1>6, <2>1 DEF ServeBattle
<1>8. /\ q \in Seq(Line) /\ q # <<>> /\ Head(q).k = ListHead(letter)
      /\ Ends(Tail(q), {"spec", "letter"}, Terminal[ListMode(letter)])
      /\ Said(q, "spec") = Of(ask, letter)
  BY <1>4, SubLinesOf
<1>9. Ongoing(q)
  BY <1>4, SubOngoing
<1>10. /\ m.p = "list" /\ m.x = letter /\ m.usable = ask.usable /\ m.phases = ask.phases
       /\ m \in [p : {"none", "ask"} \cup Idles \cup Battles,
                 usable : SUBSET (Letters \X Specs), phases : SUBSET Letters, x : Names]
  <2>1. "list" \in Idles \cup Battles /\ letter \in Names
    BY DEF Battles, Names, Letters
  <2> QED
    BY <2>1, AskMoved
<1> HIDE DEF q, m
<1>11. ask' = m /\ UNCHANGED rejected /\ down' = q
  BY <1>1, <1>7, <1>8, SayOf DEF To
<1>12. ask'.p = "list" /\ ask'.x = letter /\ ask'.usable = ask.usable /\ ask'.phases = ask.phases
  BY <1>10, <1>11
<1>13. ListTold(letter)'
  BY <1>1, <1>2, <1>8, <1>11, <1>12 DEF ListTold, Scans, client, duel
<1>14. Listed(letter)' = With(letter)
  <2>1. Listed(letter)' = {<<letter, x>> : x \in Of(ask, letter)}
    BY <1>8, <1>11 DEF Listed
  <2>2. \A u \in ask.usable : u = <<u[1], u[2]>>
    BY AskOf
  <2>3. {<<letter, x>> : x \in Of(ask, letter)} \subseteq With(letter)
    BY <2>2 DEF With, Of
  <2>4. With(letter) \subseteq {<<letter, x>> : x \in Of(ask, letter)}
    BY <2>2 DEF With, Of
  <2> QED
    BY <2>1, <2>3, <2>4
<1>15. AskInv'
  <2>0. NoMenu.p = "none"
    BY DEF NoMenu
  <2>1. ask'.p # "none" /\ ask' # NoMenu
    BY <1>12, <2>0
  <2>2. srv \in {"duel", "closed"} /\ srv' = srv
    BY <1>1 DEF Inv, PhaseInv
  <2> QED
    BY <1>4, <1>12, <2>1, <2>2 DEF AskInv, Idles, Battles
<1> QED
  BY <1>2, <1>8, <1>9, <1>10, <1>11, <1>12, <1>13, <1>14, <1>15

(* The server takes the letter of a list that is probed.                   *)
LEMMA ServeListStep ==
  ASSUME Inv, ServeDuel, state # "FINISHED", pc \in {"probeAttack", "probeActivate"}
  PROVE  Inv'
<1>0. PICK letter \in {"a", "c"} : letter = "a" <=> pc = "probeAttack"
  OBVIOUS
<1> DEFINE before == IF letter = "a" THEN {} ELSE With("a")
<1>1. state = "DUEL" /\ UNCHANGED <<client, srv, asks, ties, decks, guestIn>> /\ up # <<>>
  BY ServeOf
<1>2. ListCase(letter, before)
  BY <1>0, <1>1 DEF Inv, DuelInv
<1> HIDE DEF before
<1>3. /\ ListAsked(letter) /\ ListTold(letter)' /\ Listed(letter)' = With(letter)
      /\ ask'.usable = ask.usable /\ ask'.phases = ask.phases
      /\ down' \in Seq(Line) /\ Ongoing(down') /\ AskInv' /\ UNCHANGED rejected
      /\ ask' \in [p : {"none", "ask"} \cup Idles \cup Battles,
                   usable : SUBSET (Letters \X Specs), phases : SUBSET Letters, x : Names]
  <2>1. ListAsked(letter) \/ ListTold(letter)
    BY <1>2 DEF ListCase
  <2> QED
    BY <2>1, ListServed
<1>4. /\ Handling("battle")' /\ offered' = offered /\ before' = before
      /\ With(letter)' = With(letter) /\ pc' = pc /\ state' = "DUEL"
  BY <1>1, <1>2, <1>3 DEF ListCase, Handling, Shows, Opts, With, client, duel, before
<1>5. offered = before
  BY <1>1, <1>2, <1>3 DEF ListCase, ListTold
<1>6. ListCase(letter, before)'
  BY <1>3, <1>4, <1>5 DEF ListCase
<1>7. DuelInv'
  BY <1>0, <1>4, <1>6 DEF DuelInv, before
<1> QED
  BY <1>1, <1>3, <1>7, ServeKept

(* The server takes the letter of a list to choose from.                   *)
LEMMA ServeExecStep ==
  ASSUME Inv, ServeDuel, state # "FINISHED", pc \in {"execAttack", "execActivate"}
  PROVE  Inv'
<1>0. PICK letter \in {"a", "c"} : letter = "a" <=> pc = "execAttack"
  OBVIOUS
<1>1. state = "DUEL" /\ UNCHANGED <<client, srv, asks, ties, decks, guestIn>> /\ up # <<>>
  BY ServeOf
<1>2. ExecCase(letter)
  BY <1>0, <1>1 DEF Inv, DuelInv
<1>3. /\ ListTold(letter)' /\ ask'.usable = ask.usable
      /\ down' \in Seq(Line) /\ Ongoing(down') /\ AskInv' /\ UNCHANGED rejected
      /\ ask' \in [p : {"none", "ask"} \cup Idles \cup Battles,
                   usable : SUBSET (Letters \X Specs), phases : SUBSET Letters, x : Names]
  <2>1. ListAsked(letter) \/ ListTold(letter)
    BY <1>2 DEF ExecCase
  <2> QED
    BY <2>1, ListServed
<1>4. ExecCase(letter)' /\ pc' = pc /\ state' = "DUEL"
  BY <1>1, <1>2, <1>3 DEF ExecCase, client, duel
<1>5. DuelInv'
  BY <1>0, <1>4 DEF DuelInv
<1> QED
  BY <1>1, <1>3, <1>5, ServeKept

(* The server takes the way back from a list.                              *)
LEMMA ServeDiscardStep ==
  ASSUME Inv, ServeDuel, state # "FINISHED", pc \in {"discardAttack", "discardActivate"}
  PROVE  Inv'
<1> DEFINE letter == IF pc = "discardAttack" THEN "a" ELSE "c"
           before == IF pc = "discardAttack" THEN {} ELSE With("a")
           cmd == Head(up)
           q == BattleLines(ask)
           m == [ask EXCEPT !.p = "battle", !.x = ""]
           K == {"battleHead", "letter"}
<1>1. /\ state = "DUEL" /\ UNCHANGED <<client, srv, asks, ties, decks, guestIn>>
      /\ down = <<>> /\ up = <<cmd>> /\ up # <<>> /\ up' = <<>>
      /\ CASE ask.p = "idle"    -> ServeIdle(cmd)
              [] ask.p = "submenu" -> ServeSubmenu(cmd)
              [] ask.p = "battle"  -> ServeBattle(cmd)
              [] ask.p = "list"    -> ServeList(cmd)
              [] OTHER             -> ServeAsk(cmd)
  BY ServeOf
<1>2. DiscardCase(letter, before)
  BY <1>1 DEF Inv, DuelInv
<1> HIDE DEF letter, before
<1>3. /\ Handling("battle") /\ Scans /\ offered = before \cup With(letter)
      /\ ask.p = "list" /\ Asked("z")
  BY <1>1, <1>2 DEF DiscardCase, Told
<1>4. cmd = C("z")
  BY <1>1, <1>3 DEF Asked
<1> HIDE DEF cmd
<1>5. /\ ask.usable \subseteq {"a", "c"} \X Specs /\ ask.phases \in {{"e"}, {"m", "e"}}
      /\ ask.phases \subseteq Letters
  BY <1>3, AskOf DEF Battles
<1>6. To(m, q)
  <2>1. ServeList(cmd)
    BY <1>1, <1>3
  <2>2. cmd.x \notin Of(ask, ask.x)
    <3>1. Of(ask, ask.x) \subseteq Specs
      BY <1>5 DEF Of
    <3>2. "z" \notin Specs
      BY CommandOf DEF Reserved
    <3> QED
      BY <1>4, <3>1, <3>2, CommandOf
  <2> QED
    BY <1>4, <2>1, <2>2 DEF ServeList
<1>7. q \in Seq(Line) /\ Ends(q, K, "selectOption") /\ Ongoing(q)
  BY <1>5, BattleLinesOf, BattleOngoing
<1>8. /\ m.p = "battle" /\ m.usable = ask.usable /\ m.phases = ask.phases
      /\ m \in [p : {"none", "ask"} \cup Idles \cup Battles,
                usable : SUBSET (Letters \X Specs), phases : SUBSET Letters, x : Names]
  <2>1. "battle" \in Idles \cup Battles /\ "" \in Names
    BY DEF Battles, Names, Letters
  <2> QED
    BY <2>1, AskMoved
<1> HIDE DEF q, m, K
<1>9. ask' = m /\ UNCHANGED rejected /\ down' = q
  BY <1>1, <1>6, <1>7, SayOf DEF To
<1>10. ask'.p = "battle" /\ ask'.usable = ask.usable /\ ask'.phases = ask.phases
  BY <1>8, <1>9
<1>11. /\ Handling("battle")' /\ Scans' /\ offered' = before' \cup With(letter)'
  BY <1>1, <1>3, <1>10 DEF Handling, Shows, Opts, With, Scans, client, duel, before, letter
<1>12. DiscardCase(letter, before)'
  <2>1. Told(K, "selectOption")'
    BY <1>1, <1>7, <1>9 DEF Told
  <2> QED
    BY <1>10, <1>11, <2>1 DEF DiscardCase, K
<1>13. DuelInv'
  BY <1>1, <1>12 DEF DuelInv, letter, before, client, duel
<1>14. AskInv'
  <2>0. NoMenu.p = "none"
    BY DEF NoMenu
  <2>1. ask'.p # "none" /\ ask' # NoMenu
    BY <1>10, <2>0
  <2>2. srv \in {"duel", "closed"} /\ srv' = srv
    BY <1>1 DEF Inv, PhaseInv
  <2> QED
    BY <1>5, <1>10, <2>1, <2>2 DEF AskInv, Idles, Battles
<1>15. /\ down' \in Seq(Line) /\ Ongoing(down')
       /\ ask' \in [p : {"none", "ask"} \cup Idles \cup Battles,
                    usable : SUBSET (Letters \X Specs), phases : SUBSET Letters, x : Names]
  BY <1>7, <1>8, <1>9
<1> QED
  BY <1>1, <1>9, <1>13, <1>14, <1>15, ServeKept

(* Whatever the server takes in the duel.                                  *)
LEMMA ServeDuelStep ==
  ASSUME Inv, ServeDuel, state # "FINISHED" PROVE Inv'
<1>1. state = "DUEL" /\ up # <<>>
  BY ServeOf
<1>2. pc \in Reading
  <2>1. pc \in Deciding \cup Reading
    BY DEF Inv, TypeOK
  <2>2. CASE pc \in Deciding
    BY <1>1, <2>2 DEF Inv, DuelInv, Deciding, AnswerCase, InfoCase, DecisionCase, Quiet
  <2> QED
    BY <2>1, <2>2
<1> QED
  BY <1>2, ServeRunStep, ServeResyncStep, ServeProbeStep, ServeSubmenuStep, ServeListStep,
     ServeExecStep, ServeDiscardStep DEF Reading

-----------------------------------------------------------------------------
(* The engine asks, and the duel ends.                                     *)

(* What is to be read stays so while the question and the parser do.       *)
LEMMA FollowingKept ==
  ASSUME UNCHANGED <<ask, parser>>, NEW q, Following(q) PROVE Following(q)'
BY DEF Following, Opening, Opts

(* The stream at hand, under another name.                                 *)
LEMMA FollowingNamed ==
  ASSUME NEW q, Following(q)'
  PROVE  /\ \A r : r = q => Following(r)'
         /\ down' = q => Following(down)'
<1>1. ASSUME NEW r, r = q PROVE Following(r)'
  BY <1>1 DEF Following, Opening
<1>2. ASSUME down' = q PROVE Following(down)'
  BY <1>2, ZenonT(40) DEF Following, Opening
<1> QED
  BY <1>1, <1>2

(* The same of the start of the duel.                                      *)
LEMMA CreatedNamed ==
  ASSUME NEW q, Created(q)'
  PROVE  /\ down' = q => Created(down)'
         /\ Tail(down') = q => Created(Tail(down))'
<1>1. q # <<>> /\ Head(q).k = "DuelCreated" /\ Following(Tail(q))'
  BY DEF Created
<1>2. ASSUME down' = q PROVE Created(down)'
  <2>1. Following(Tail(down))'
    BY <1>1, <1>2, ZenonT(40) DEF Following, Opening
  <2> QED
    BY <1>1, <1>2, <2>1 DEF Created
<1>3. ASSUME Tail(down') = q PROVE Created(Tail(down))'
  <2>1. PICK t : t = Tail(q)
    OBVIOUS
  <2>2. Following(t)' /\ Tail(Tail(down')) = t
    BY <1>1, <1>3, <2>1, FollowingNamed
  <2>3. Following(Tail(Tail(down)))'
    BY <2>2, ZenonT(40) DEF Following, Opening
  <2> QED
    BY <1>1, <1>3, <2>3 DEF Created
<1> QED
  BY <1>2, <1>3

(* A menu with another name and argument.                                  *)
LEMMA MenuMoved ==
  ASSUME NEW p, NEW u, NEW f, NEW x, NEW q, NEW y
  PROVE  [[p |-> p, usable |-> u, phases |-> f, x |-> x] EXCEPT !.p = q, !.x = y]
           = [p |-> q, usable |-> u, phases |-> f, x |-> y]
<1> DEFINE r == [p |-> p, usable |-> u, phases |-> f, x |-> x]
<1>1. [r EXCEPT !.p = q, !.x = y] = [[r EXCEPT !.p = q] EXCEPT !.x = y]
  OBVIOUS
<1>2. [r EXCEPT !.p = q] = [p |-> q, usable |-> u, phases |-> f, x |-> x]
  OBVIOUS
<1>3. [[p |-> q, usable |-> u, phases |-> f, x |-> x] EXCEPT !.x = y]
        = [p |-> q, usable |-> u, phases |-> f, x |-> y]
  OBVIOUS
<1> HIDE DEF r
<1>4. [r EXCEPT !.p = q, !.x = y] = [p |-> q, usable |-> u, phases |-> f, x |-> y]
  BY <1>1, <1>2, <1>3
<1> QED
  BY <1>4 DEF r

(* A prompt at the start of a turn of ours, or later.                      *)
LEMMA TurnOf ==
  ASSUME NEW turn \in BOOLEAN, NEW s \in Seq(Line), s # <<>>, Ongoing(s)
  PROVE  LET q == (IF turn THEN <<L("ourTurn", "")>> ELSE <<>>) \o s
         IN  /\ q \in Seq(Line) /\ q # <<>> /\ Ongoing(q)
             /\ q = s \/ (Head(q).k = "ourTurn" /\ Tail(q) = s)
<1>1. CASE turn
  <2> DEFINE q == <<L("ourTurn", "")>> \o s
  <2>1. "ourTurn" \in Kinds /\ "ourTurn" # "usable" /\ "ourTurn" # "end"
    BY DEF Kinds
  <2>2. <<L("ourTurn", "")>> \in Seq(Line) /\ Ongoing(<<L("ourTurn", "")>>) /\ L("ourTurn", "").k = "ourTurn"
    BY <2>1, MarkOf, OngoingOf
  <2>3. q \in Seq(Line) /\ q # <<>> /\ Head(q) = L("ourTurn", "") /\ Tail(q) = s
    BY <2>1, Headed
  <2>4. Ongoing(q)
    BY <2>2, OngoingOf
  <2> QED
    BY <1>1, <2>2, <2>3, <2>4
<1>2. CASE ~turn
  <2>1. <<>> \o s = s
    OBVIOUS
  <2> QED
    BY <1>2, <2>1
<1> QED
  BY <1>1, <1>2

(* What the engine says is a prompt that the main loop understands.        *)
LEMMA EngineSays ==
  ASSUME Inv, Engine
  PROVE  /\ ask' \in [p : {"none", "ask"} \cup Idles \cup Battles,
                      usable : SUBSET (Letters \X Specs), phases : SUBSET Letters, x : Names]
         /\ AskInv'
         /\ \E q \in Seq(Line) : Say(q) /\ Ongoing(q) /\ (parser'.mode = "scan" => Following(q)')
<1> DEFINE T == [p : {"none", "ask"} \cup Idles \cup Battles,
                 usable : SUBSET (Letters \X Specs), phases : SUBSET Letters, x : Names]
<1>1. PICK turn \in BOOLEAN :
        \/ \E u \in SUBSET ({"s", "v"} \X Specs), ph \in {{"e"}, {"b", "e"}} :
             /\ ask' = [p |-> "idle", usable |-> u, phases |-> ph, x |-> ""]
             /\ Say((IF turn THEN <<L("ourTurn", "")>> ELSE <<>>) \o IdleLines(ask'))
        \/ \E u \in SUBSET ({"a", "c"} \X Specs), ph \in {{"e"}, {"m", "e"}} :
             /\ ask' = [p |-> "battle", usable |-> u, phases |-> ph, x |-> ""]
             /\ Say((IF turn THEN <<L("ourTurn", "")>> ELSE <<>>) \o BattleLines(ask'))
        \/ \E a \in DOMAIN Prompt :
             /\ ask' = [NoMenu EXCEPT !.p = "ask", !.x = a]
             /\ Say((IF turn THEN <<L("ourTurn", "")>> ELSE <<>>)
                     \o <<IF Prompt[a].type = "yesno" THEN L("question", a) ELSE L("ask", a)>>)
  BY DEF Engine
<1>2. SUFFICES \E s \in Seq(Line) : /\ s # <<>> /\ Ongoing(s) /\ Opening(s)' /\ ask' \in T /\ AskInv'
                                    /\ Say((IF turn THEN <<L("ourTurn", "")>> ELSE <<>>) \o s)
  <2>1. PICK s \in Seq(Line) : /\ s # <<>> /\ Ongoing(s) /\ Opening(s)' /\ ask' \in T /\ AskInv'
                               /\ Say((IF turn THEN <<L("ourTurn", "")>> ELSE <<>>) \o s)
    BY <1>2
  <2> DEFINE q == (IF turn THEN <<L("ourTurn", "")>> ELSE <<>>) \o s
  <2>2. /\ q \in Seq(Line) /\ q # <<>> /\ Ongoing(q)
        /\ q = s \/ (Head(q).k = "ourTurn" /\ Tail(q) = s)
    BY <2>1, TurnOf
  <2>3. Say(q)
    BY <2>1
  <2> HIDE DEF q
  <2>4. parser'.mode = "scan" => Following(q)'
    BY <2>1, <2>2 DEF Following
  <2> QED
    BY <2>1, <2>2, <2>3, <2>4
<1>3. NoMenu.p = "none" /\ srv' = "duel"
  BY DEF NoMenu, Engine
<1>4. CASE \E u \in SUBSET ({"s", "v"} \X Specs), ph \in {{"e"}, {"b", "e"}} :
             /\ ask' = [p |-> "idle", usable |-> u, phases |-> ph, x |-> ""]
             /\ Say((IF turn THEN <<L("ourTurn", "")>> ELSE <<>>) \o IdleLines(ask'))
  <2>1. PICK u \in SUBSET ({"s", "v"} \X Specs), ph \in {{"e"}, {"b", "e"}} :
             /\ ask' = [p |-> "idle", usable |-> u, phases |-> ph, x |-> ""]
             /\ Say((IF turn THEN <<L("ourTurn", "")>> ELSE <<>>) \o IdleLines(ask'))
    BY <1>4
  <2>0. PICK s : s = IdleLines(ask')
    OBVIOUS
  <2>2. ask'.p = "idle" /\ ask'.usable = u /\ ask'.phases = ph /\ ask'.x = ""
    BY <2>1
  <2>3. ph \subseteq Letters /\ u \subseteq Letters \X Specs /\ "" \in Names
    BY DEF Letters, Names
  <2>4. /\ s \in Seq(Line) /\ s # <<>>
        /\ Head(s).k = "idleHead" /\ Ends(Tail(s), {"letter"}, "selectCard")
        /\ Said(Tail(s), "letter") = ph /\ Ongoing(s)
    BY <2>0, <2>2, <2>3, IdleLinesOf, IdleOngoing
  <2>5. Opening(s)'
    <3>1. HeadOf["idle"] = "idleHead" /\ Terminal["idle"] = "selectCard"
      BY DEF HeadOf, Terminal
    <3>2. Opts(ask.p)' = ph
      BY <2>2 DEF Opts
    <3>3. /\ ask'.p \in Menus /\ Head(s).k = HeadOf[ask'.p]
          /\ Ends(Tail(s), {"letter"}, Terminal[ask'.p])
          /\ Said(Tail(s), "letter") = Opts(ask.p)'
      BY <2>2, <2>4, <3>1, <3>2 DEF Menus
    <3> QED
      BY <2>4, <3>3 DEF Opening
  <2>6. ask' \in T
    <3>1. [p |-> "idle", usable |-> u, phases |-> ph, x |-> ""] \in T
      BY <2>3 DEF Idles
    <3> QED
      BY <2>1, <3>1
  <2>7. AskInv'
    <3>1. ask' # NoMenu
      BY <1>3, <2>2
    <3> QED
      BY <1>3, <2>2, <3>1 DEF AskInv, Idles, Battles
  <2> QED
    BY <2>0, <2>1, <2>4, <2>5, <2>6, <2>7
<1>5. CASE \E u \in SUBSET ({"a", "c"} \X Specs), ph \in {{"e"}, {"m", "e"}} :
             /\ ask' = [p |-> "battle", usable |-> u, phases |-> ph, x |-> ""]
             /\ Say((IF turn THEN <<L("ourTurn", "")>> ELSE <<>>) \o BattleLines(ask'))
  <2>1. PICK u \in SUBSET ({"a", "c"} \X Specs), ph \in {{"e"}, {"m", "e"}} :
             /\ ask' = [p |-> "battle", usable |-> u, phases |-> ph, x |-> ""]
             /\ Say((IF turn THEN <<L("ourTurn", "")>> ELSE <<>>) \o BattleLines(ask'))
    BY <1>5
  <2>0. PICK s : s = BattleLines(ask')
    OBVIOUS
  <2>2. ask'.p = "battle" /\ ask'.usable = u /\ ask'.phases = ph /\ ask'.x = ""
    BY <2>1
  <2>3. ph \subseteq Letters /\ u \subseteq Letters \X Specs /\ "" \in Names
    BY DEF Letters, Names
  <2>4. /\ s \in Seq(Line) /\ s # <<>>
        /\ Head(s).k = "battleHead" /\ Ends(Tail(s), {"letter"}, "selectOption")
        /\ Said(Tail(s), "letter") = ask'.phases \cup {v[1] : v \in ask'.usable} /\ Ongoing(s)
    <3>1. ask'.phases \subseteq Letters /\ ask'.usable \subseteq {"a", "c"} \X Specs
      BY <2>2, <2>3
    <3> QED
      BY <2>0, <3>1, BattleLinesOf, BattleOngoing
  <2>5. Opening(s)'
    <3>1. HeadOf["battle"] = "battleHead" /\ Terminal["battle"] = "selectOption"
      BY DEF HeadOf, Terminal
    <3>2. Opts(ask.p)' = ask'.phases \cup {v[1] : v \in ask'.usable}
      BY <2>2 DEF Opts
    <3>3. /\ ask'.p \in Menus /\ Head(s).k = HeadOf[ask'.p]
          /\ Ends(Tail(s), {"letter"}, Terminal[ask'.p])
          /\ Said(Tail(s), "letter") = Opts(ask.p)'
      BY <2>2, <2>4, <3>1, <3>2 DEF Menus
    <3> QED
      BY <2>4, <3>3 DEF Opening
  <2>6. ask' \in T
    <3>1. [p |-> "battle", usable |-> u, phases |-> ph, x |-> ""] \in T
      BY <2>3 DEF Battles
    <3> QED
      BY <2>1, <3>1
  <2>7. AskInv'
    <3>1. ask' # NoMenu
      BY <1>3, <2>2
    <3> QED
      BY <1>3, <2>2, <3>1 DEF AskInv, Idles, Battles
  <2> QED
    BY <2>0, <2>1, <2>4, <2>5, <2>6, <2>7
<1>6. CASE \E a \in DOMAIN Prompt :
             /\ ask' = [NoMenu EXCEPT !.p = "ask", !.x = a]
             /\ Say((IF turn THEN <<L("ourTurn", "")>> ELSE <<>>)
                     \o <<IF Prompt[a].type = "yesno" THEN L("question", a) ELSE L("ask", a)>>)
  <2>1. PICK a \in DOMAIN Prompt :
             /\ ask' = [NoMenu EXCEPT !.p = "ask", !.x = a]
             /\ Say((IF turn THEN <<L("ourTurn", "")>> ELSE <<>>)
                     \o <<IF Prompt[a].type = "yesno" THEN L("question", a) ELSE L("ask", a)>>)
    BY <1>6
  <2> DEFINE k == IF Prompt[a].type = "yesno" THEN "question" ELSE "ask"
             l == L(k, a)
             s == <<l>>
  <2>2. ask' = [p |-> "ask", usable |-> {}, phases |-> {}, x |-> a]
    BY <2>1, MenuMoved DEF NoMenu
  <2>3. ask'.p = "ask" /\ ask'.x = a /\ ask'.usable = {} /\ ask'.phases = {}
    BY <2>2
  <2>4. /\ l \in Line /\ l.k = k /\ l.x = a /\ k # "end"
    <3>1. k \in Kinds /\ a \in Names
      BY DEF Kinds, Names
    <3> HIDE DEF k
    <3>2. l \in Line /\ l.k = k /\ l.x = a
      BY <3>1, LIsLine
    <3> QED
      BY <3>2 DEF k
  <2>5. s = <<IF Prompt[a].type = "yesno" THEN L("question", a) ELSE L("ask", a)>>
    OBVIOUS
  <2> HIDE DEF l
  <2>6. /\ s \in Seq(Line) /\ s # <<>> /\ Head(s) = l /\ Tail(s) = <<>> /\ Ongoing(s)
    BY <2>4, OneOf, OngoingOf
  <2> HIDE DEF s
  <2>7. Opening(s)'
    <3>1. Over(Tail(s))
      BY <2>6 DEF Over
    <3> QED
      BY <2>3, <2>4, <2>6, <3>1 DEF Opening
  <2>8. ask' \in T
    <3>1. [p |-> "ask", usable |-> {}, phases |-> {}, x |-> a] \in T
      <4>1. a \in Names
        BY DEF Names
      <4> QED
        BY <4>1
    <3> QED
      BY <2>2, <3>1
  <2>9. AskInv'
    <3>1. ask' # NoMenu
      BY <1>3, <2>3
    <3> QED
      BY <1>3, <2>3, <3>1 DEF AskInv, Idles, Battles
  <2> QED
    BY <2>1, <2>5, <2>6, <2>7, <2>8, <2>9
<1> QED
  BY <1>1, <1>4, <1>5, <1>6
(* The bot reads the first of two streams first.                           *)
LEMMA JoinRead ==
  ASSUME NEW a \in Seq(Line), a # <<>>, NEW b \in Seq(Line)
  PROVE  /\ a \o b \in Seq(Line) /\ a \o b # <<>>
         /\ Head(a \o b) = Head(a) /\ Tail(a \o b) = Tail(a) \o b
OBVIOUS

(* Neither of two streams ends the duel.                                   *)
LEMMA OngoingJoin ==
  ASSUME NEW a \in Seq(Line), Ongoing(a), NEW b \in Seq(Line), Ongoing(b)
  PROVE  a \o b \in Seq(Line) /\ Ongoing(a \o b)
BY JoinOf, OngoingOf

(* While nothing is asked, the bot in the main loop has read everything.   *)
LEMMA FollowingNothing ==
  ASSUME Inv, ask = NoMenu, NEW q, Following(q)
  PROVE  parser.mode = "scan" /\ Over(q)
<1>1. NoMenu.p = "none"
  BY DEF NoMenu
<1>2. ask.p \notin Menus /\ ask.p # "ask"
  BY <1>1 DEF Menus
<1> QED
  BY <1>2 DEF Following, Opening

(* No conversation goes on while nothing is asked.                         *)
LEMMA NothingRuns ==
  ASSUME Inv, state = "DUEL", ask = NoMenu
  PROVE  pc = "run"
<1>1. NoMenu.p = "none"
  BY DEF NoMenu
<1>2. ask.p \notin Menus /\ ask.p \notin {"ask", "submenu", "list", "idle", "battle"}
  BY <1>1 DEF Menus
<1>3. \A p : ~(Shows(p) /\ ask.p = p.type)
  BY <1>2 DEF Shows
<1>4. \A x : ~ListAsked(x) /\ ~ListTold(x)
  BY <1>2 DEF ListAsked, ListTold
<1>5. pc \in Deciding \cup Reading
  BY DEF Inv, TypeOK
<1>6. pc # "answer"
  BY <1>2 DEF Inv, DuelInv, AnswerCase
<1>7. pc \notin {"info", "resume", "resync"}
  BY <1>3 DEF Inv, DuelInv, InfoCase, ResyncCase
<1>8. pc # "probe"
  BY <1>2 DEF Inv, DuelInv, ProbeCase
<1>9. pc # "decide"
  BY <1>3 DEF Inv, DuelInv, DecisionCase, Handling
<1>10. pc # "submenu"
  BY <1>2 DEF Inv, DuelInv, SubmenuCase
<1>11. pc \notin {"probeAttack", "probeActivate"}
  BY <1>4 DEF Inv, DuelInv, ListCase
<1>12. pc \notin {"discardAttack", "discardActivate"}
  BY <1>2 DEF Inv, DuelInv, DiscardCase
<1>13. pc \notin {"execAttack", "execActivate"}
  BY <1>4 DEF Inv, DuelInv, ExecCase
<1> QED
  BY <1>5, <1>6, <1>7, <1>8, <1>9, <1>10, <1>11, <1>12, <1>13 DEF Deciding, Reading

(* The engine asks a bot that has read, or is about to enter, the duel.    *)
LEMMA EngineStep == ASSUME Inv, Engine, state # "FINISHED" PROVE Inv'
<1> DEFINE T == [p : {"none", "ask"} \cup Idles \cup Battles,
                 usable : SUBSET (Letters \X Specs), phases : SUBSET Letters, x : Names]
<1>1. /\ srv = "duel" /\ ask = NoMenu
      /\ UNCHANGED <<client, up, srv, ties, decks, guestIn, rejected>>
  BY DEF Engine
<1>2. PICK q \in Seq(Line) : Say(q) /\ Ongoing(q) /\ (parser'.mode = "scan" => Following(q)')
  BY EngineSays
<1>3. ask' \in T /\ AskInv'
  BY EngineSays
<1>4. UNCHANGED <<state, lobby, duel>>
  BY <1>1 DEF client
<1>5. down \in Seq(Line) /\ Ongoing(down)
  BY <1>1 DEF Inv, Typed, PhaseInv, Ongoing
<1>6. down' = down \o q /\ down' \in Seq(Line) /\ Ongoing(down')
  <2>1. down' = down \o q
    BY <1>2 DEF Say
  <2>2. down \o q \in Seq(Line) /\ Ongoing(down \o q)
    BY <1>2, <1>5, OngoingJoin
  <2> QED
    BY <2>1, <2>2
<1>7. Typed'
  BY <1>3, <1>4, <1>6 DEF Inv, Typed, duel
<1>8. TypeOK'
  <2>1. ask'.p \in {"none", "idle", "submenu", "battle", "list", "ask"}
    BY <1>3 DEF Idles, Battles
  <2> QED
    BY <1>1, <1>4, <2>1 DEF Inv, TypeOK, lobby, duel
<1>9. PhaseInv'
  <2>1. ~rejected
    BY <1>1 DEF Inv, PhaseInv, Refused, NoMenu
  <2> QED
    BY <1>1, <1>4, <1>6, <2>1 DEF Inv, PhaseInv, Ongoing, duel
<1>10. DuelInv'
  <2>1. CASE state = "DUEL"
    <3>1. pc = "run" /\ RunCase
      BY <1>1, <2>1, NothingRuns DEF Inv, DuelInv
    <3>2. up = <<>> /\ Following(down)
      <4>1. NoMenu.p = "none"
        BY DEF NoMenu
      <4>2. ask.p \notin Menus /\ ask.p \notin {"ask", "submenu", "list"}
        BY <1>1, <4>1 DEF Menus
      <4>3. \A c : ~Final(c)
        BY <4>2 DEF Final
      <4> QED
        BY <3>1, <4>3 DEF RunCase
    <3>3. parser.mode = "scan" /\ Over(down)
      BY <1>1, <3>2, FollowingNothing
    <3>4. down = <<>>
      BY <1>1, <3>3, Drained
    <3>5. down' = q
      BY <1>2, <3>4, SayOf
    <3>6. Following(down)'
      BY <1>2, <1>4, <3>3, <3>5, FollowingNamed DEF duel
    <3>7. RunCase'
      BY <1>1, <1>4, <3>1, <3>2, <3>6 DEF RunCase, Clear, duel
    <3> QED
      BY <1>4, <2>1, <3>1, <3>7 DEF DuelInv, duel
  <2>2. CASE state # "DUEL"
    BY <1>4, <2>2 DEF DuelInv
  <2> QED
    BY <2>1, <2>2
<1>11. LobbyInv'
  <2>1. CASE state \in {"DUEL", "FINISHED"}
    BY <1>4, <2>1 DEF LobbyInv
  <2>2. CASE state \notin {"DUEL", "FINISHED"}
    <3>1. /\ pc = "run" /\ outer = NoPrompt /\ Clear /\ Scans
          /\ profile \in {"host", "guest"} /\ state \in DOMAIN Failures
          /\ decks \subseteq {"own", "guest"}
          /\ srv # "closed" /\ ready => profile = "host" /\ "guest" \in decks
          /\ guestIn => profile = "host"
          /\ CreatedCase
      BY <1>1, <2>2 DEF Inv, LobbyInv, FailedCase
    <3>2. \A r \in Seq(Line) : Created(r) /\ Ongoing(r) => Created(r \o q)'
      <4> SUFFICES ASSUME NEW r \in Seq(Line), Created(r), Ongoing(r) PROVE Created(r \o q)'
        OBVIOUS
      <4>1. r # <<>> /\ Head(r).k = "DuelCreated" /\ Over(Tail(r))
        BY <1>1, FollowingNothing DEF Created
      <4>2. Tail(r) \in Seq(Line)
        BY <4>1, ReadOf
      <4>3. Tail(r) = <<>>
        <5>1. CASE Tail(r) # <<>>
          <6>1. 1 \in DOMAIN Tail(r) /\ 2 \in DOMAIN r /\ Tail(r)[1] = r[2]
            BY <4>1, <4>2, <5>1, ReadOf
          <6> QED
            BY <4>1, <6>1 DEF Over, Ongoing
        <5> QED
          BY <5>1
      <4>4. Tail(r) \o q = q
        <5>1. <<>> \o q = q
          OBVIOUS
        <5> QED
          BY <4>3, <5>1
      <4>5. r \o q # <<>> /\ Head(r \o q) = Head(r) /\ Tail(r \o q) = q
        BY <1>2, <4>1, <4>4, JoinRead
      <4>6. parser'.mode = "scan"
        BY <1>4, <3>1 DEF Scans, duel
      <4>7. Following(q)'
        BY <1>2, <4>6
      <4>8. Following(Tail(r \o q))'
        BY <4>5, <4>7, FollowingNamed
      <4> QED
        BY <4>1, <4>5, <4>8 DEF Created
    <3>3. CreatedCase'
      <4>1. /\ state' \in {"PRE_DUEL_RPS", "PRE_DUEL_DECISION"} /\ up' = <<>>
            /\ down # <<>>
        BY <1>1, <1>4, <3>1 DEF CreatedCase, Created
      <4>2. CASE Created(down)
        <5>1. PICK r \in Seq(Line) : r = down
          BY <1>5
        <5>2. Created(r \o q)' /\ down' = r \o q
          BY <1>5, <1>6, <3>2, <4>2, <5>1
        <5>3. Created(down)'
          BY <5>2, CreatedNamed
        <5> QED
          BY <4>1, <5>3 DEF CreatedCase
      <4>3. CASE Head(down).k = "Wait" /\ Created(Tail(down))
        <5>1. PICK r \in Seq(Line) : r = Tail(down)
          BY <1>5, <4>1, ReadOf
        <5>2. Ongoing(r)
          BY <1>5, <4>1, <5>1, ReadOf DEF Ongoing
        <5>3. /\ down' # <<>> /\ Head(down') = Head(down) /\ Tail(down') = r \o q
          BY <1>2, <1>5, <1>6, <4>1, <5>1, JoinRead
        <5>4. Created(r \o q)'
          BY <3>2, <4>3, <5>1, <5>2
        <5>5. Created(Tail(down))'
          BY <5>3, <5>4, CreatedNamed
        <5> QED
          BY <4>1, <4>3, <5>3, <5>5 DEF CreatedCase
      <4> QED
        BY <3>1, <4>2, <4>3 DEF CreatedCase
    <3> QED
      BY <1>1, <1>4, <3>1, <3>3 DEF LobbyInv, Clear, Scans, lobby, duel
  <2> QED
    BY <2>1, <2>2
<1> QED
  BY <1>3, <1>7, <1>8, <1>9, <1>10, <1>11 DEF Inv

(* Whatever is still to be read, the end of the duel may follow it.        *)
LEMMA EndFollowing ==
  ASSUME NEW q \in Seq(Line), Following(q)
  PROVE  Following(q \o <<L("end", "")>>)
<1> DEFINE e == q \o <<L("end", "")>>
<1>1. /\ e \in Seq(Line)
      /\ Over(q) => Over(e)
      /\ \A K, t : Ends(q, K, t) => Ends(e, K, t)
      /\ \A K : "end" \in K /\ AllOf(q, K) => AllOf(e, K)
      /\ \A k : k # "end" => Said(e, k) = Said(q, k)
      /\ q # <<>> => e # <<>> /\ Head(e) = Head(q) /\ Tail(e) = Tail(q) \o <<L("end", "")>>
  BY EndFollows
<1>2. \A r \in Seq(Line) : Opening(r) => Opening(r \o <<L("end", "")>>)
  <2> SUFFICES ASSUME NEW r \in Seq(Line), Opening(r) PROVE Opening(r \o <<L("end", "")>>)
    OBVIOUS
  <2> DEFINE f == r \o <<L("end", "")>>
             g == Tail(r) \o <<L("end", "")>>
  <2>1. r # <<>> /\ Tail(r) \in Seq(Line)
    BY ReadOf DEF Opening
  <2>2. f # <<>> /\ Head(f) = Head(r) /\ Tail(f) = g
    BY <2>1, EndFollows
  <2>3. /\ Over(Tail(r)) => Over(g)
        /\ \A K, t : Ends(Tail(r), K, t) => Ends(g, K, t)
        /\ Said(g, "letter") = Said(Tail(r), "letter")
    BY <2>1, EndFollows
  <2> HIDE DEF f, g
  <2>4. Opening(f)
    BY <2>2, <2>3 DEF Opening
  <2> QED
    BY <2>4 DEF f
<1>3. q # <<>> => Tail(q) \in Seq(Line)
  BY ReadOf
<1>0. SUFFICES Following(e)
  BY DEF e
<1>9. (parser.mode = "scan" /\ Opening(q)) => Opening(e)
  BY <1>2 DEF e
<1> HIDE DEF e
<1>4. CASE ask = NoMenu /\ parser.mode = "scan" /\ Over(q)
  BY <1>1, <1>4 DEF Following
<1>5. CASE /\ ask.p \in Menus /\ parser.mode = ask.p
           /\ Ends(q, {"letter"}, Terminal[ask.p])
           /\ parser.opts \cup Said(q, "letter") = Opts(ask.p)
  <2>1. Said(e, "letter") = Said(q, "letter")
    BY <1>1
  <2>2. Ends(e, {"letter"}, Terminal[ask.p])
    BY <1>1, <1>5
  <2> QED
    BY <1>5, <2>1, <2>2 DEF Following
<1>6. CASE parser.mode = "scan" /\ Opening(q)
  BY <1>6, <1>9 DEF Following
<1>7. CASE parser.mode = "scan" /\ q # <<>> /\ Head(q).k = "ourTurn" /\ Opening(Tail(q))
  <2>1. Opening(Tail(e))
    BY <1>1, <1>2, <1>3, <1>7
  <2> QED
    BY <1>1, <1>7, <2>1 DEF Following
<1>8. CASE ask.p = "ask" /\ parser.mode = "scan" /\ AllOf(q, Refusals)
  <2>1. AllOf(e, Refusals)
    BY <1>1, <1>8 DEF Refusals
  <2> QED
    BY <1>8, <2>1 DEF Following
<1> QED
  BY <1>4, <1>5, <1>6, <1>7, <1>8 DEF Following

(* What the bot reads in the duel may be followed by its end.              *)
LEMMA EndDuel ==
  ASSUME Inv, state = "DUEL", NEW e \in Seq(Line), down' = e, e = down \o <<L("end", "")>>,
         UNCHANGED <<client, up, ask>>
  PROVE  DuelInv'
<1>1. /\ Over(down) => Over(e)
      /\ \A K, t : Ends(down, K, t) => Ends(e, K, t)
      /\ \A k : k # "end" => Said(e, k) = Said(down, k)
      /\ Usable(e) = Usable(down)
      /\ down # <<>> => e # <<>> /\ Head(e) = Head(down) /\ Tail(e) = Tail(down) \o <<L("end", "")>>
  BY EndFollows DEF Inv, Typed
<1>2. /\ Said(e, "letter") = Said(down, "letter")
      /\ Said(e, "spec") = Said(down, "spec")
  BY <1>1
<1>3. UNCHANGED <<state, duel, up, ask>>
  BY DEF client
<1>4. UNCHANGED <<pc, parser, held, outer, ix, offered, chosen, letters>>
  BY <1>3 DEF duel
<1>5. Quiet => Quiet'
  BY <1>1, <1>3 DEF Quiet
<1>6. \A x : Asked(x) => Asked(x)'
  BY <1>1, <1>3 DEF Asked
<1>7. \A K, t : Told(K, t) => Told(K, t)'
  BY <1>1, <1>3 DEF Told
<1>8. \A type : Handling(type) => Handling(type)'
  BY <1>3, <1>4 DEF Handling, Shows, Opts
<1>9. Scans' <=> Scans
  BY <1>4 DEF Scans
<1>10. Clear' <=> Clear
  BY <1>4 DEF Clear
<1>11. \A x : With(x)' = With(x)
  BY <1>3 DEF With
<1>12. \A p : Shows(p)' <=> Shows(p)
  BY <1>3 DEF Shows, Opts
<1>13. \A x : ListAsked(x) => ListAsked(x)'
  BY <1>3, <1>6, <1>9 DEF ListAsked, Opts
<1>14. \A x : ListTold(x) => ListTold(x)'
  <2> SUFFICES ASSUME NEW x, ListTold(x) PROVE ListTold(x)'
    OBVIOUS
  <2>1. CASE /\ Scans /\ down # <<>> /\ Head(down).k = ListHead(x)
             /\ Ends(Tail(down), {"spec", "letter"}, Terminal[ListMode(x)])
    <3>1. Tail(down) \in Seq(Line)
      BY <2>1, ReadOf DEF Inv, Typed
    <3>2. Ends(Tail(e), {"spec", "letter"}, Terminal[ListMode(x)])
      <4>1. PICK r \in Seq(Line) : r = Tail(down)
        BY <3>1
      <4>2. \A K, t : Ends(r, K, t) => Ends(r \o <<L("end", "")>>, K, t)
        BY EndFollows
      <4>3. Tail(e) = r \o <<L("end", "")>>
        BY <1>1, <2>1, <4>1
      <4> QED
        BY <2>1, <4>1, <4>2, <4>3
    <3> QED
      BY <1>1, <1>3, <1>9, <2>1, <3>2 DEF ListTold
  <2>2. CASE /\ parser.mode = ListMode(x)
             /\ Ends(down, {"spec", "letter"}, Terminal[ListMode(x)])
    BY <1>1, <1>3, <1>4, <2>2 DEF ListTold
  <2> QED
    BY <2>1, <2>2 DEF ListTold
<1>15. \A x : Listed(x)' = Listed(x)
  BY <1>2 DEF Listed
<1>16. pc = "run" => RunCase'
  <2> SUFFICES ASSUME RunCase PROVE RunCase'
    BY DEF Inv, DuelInv
  <2>1. CASE up = <<>> /\ Following(down)
    <3>1. PICK q \in Seq(Line) : q = down
      BY DEF Inv, Typed
    <3>2. Following(q \o <<L("end", "")>>)
      BY <2>1, <3>1, EndFollowing
    <3>3. Following(e)
      BY <3>1, <3>2
    <3>4. Following(e)'
      BY <1>3, <1>4, <3>3, FollowingKept
    <3>5. Following(down)'
      BY <3>4, FollowingNamed
    <3> QED
      BY <1>3, <1>4, <1>10, <2>1, <3>5 DEF RunCase
  <2>2. CASE Scans /\ Over(down) /\ up = <<Head(up)>> /\ Final(Head(up))
    <3>1. Final(Head(up))'
      BY <1>3, <2>2 DEF Final, LettersOf
    <3> QED
      BY <1>1, <1>3, <1>4, <1>9, <1>10, <2>2, <3>1 DEF RunCase
  <2> QED
    BY <2>1, <2>2 DEF RunCase
<1>17. pc = "answer" => AnswerCase'
  BY <1>3, <1>4, <1>5, <1>9 DEF Inv, DuelInv, AnswerCase
<1>18. pc \in {"info", "resume"} => InfoCase'
  BY <1>3, <1>4, <1>5, <1>9, <1>10, <1>12 DEF Inv, DuelInv, InfoCase, Shows, Opts
<1>19. pc = "resync" => ResyncCase'
  BY <1>3, <1>4, <1>6, <1>7, <1>9, <1>10 DEF Inv, DuelInv, ResyncCase, Shows, Opts
<1>20. pc = "probe" => ProbeCase'
  BY <1>1, <1>2, <1>3, <1>4, <1>6, <1>7, <1>8, <1>9 DEF Inv, DuelInv, ProbeCase
<1>21. pc = "decide" => DecisionCase'
  BY <1>3, <1>4, <1>5, <1>8, <1>9 DEF Inv, DuelInv, DecisionCase
<1>22. pc = "submenu" => SubmenuCase'
  BY <1>2, <1>3, <1>4, <1>6, <1>7, <1>9 DEF Inv, DuelInv, SubmenuCase, LettersOf
<1>23. \A x, before : ListCase(x, before) => ListCase(x, before)'
  BY <1>4, <1>8, <1>11, <1>13, <1>14, <1>15 DEF ListCase
<1>24. \A x, before : DiscardCase(x, before) => DiscardCase(x, before)'
  BY <1>3, <1>4, <1>6, <1>7, <1>8, <1>9, <1>11 DEF DiscardCase
<1>25. \A x : ExecCase(x) => ExecCase(x)'
  BY <1>3, <1>4, <1>13, <1>14 DEF ExecCase
<1>26. /\ pc = "probeAttack" => ListCase("a", {})'
       /\ pc = "discardAttack" => DiscardCase("a", {})'
       /\ pc = "execAttack" => ExecCase("a")'
       /\ pc = "execActivate" => ExecCase("c")'
  BY <1>23, <1>24, <1>25 DEF Inv, DuelInv
<1>27. /\ pc = "probeActivate" => ListCase("c", With("a"))'
       /\ pc = "discardActivate" => DiscardCase("c", With("a"))'
  <2>1. PICK before : before = With("a")
    OBVIOUS
  <2>2. With("a")' = before
    BY <1>11, <2>1
  <2>3. pc = "probeActivate" => ListCase("c", With("a"))'
    <3>1. pc = "probeActivate" => ListCase("c", before)'
      BY <1>23, <2>1 DEF Inv, DuelInv
    <3> QED
      BY <2>2, <3>1 DEF ListCase
  <2>4. pc = "discardActivate" => DiscardCase("c", With("a"))'
    <3>1. pc = "discardActivate" => DiscardCase("c", before)'
      BY <1>24, <2>1 DEF Inv, DuelInv
    <3> QED
      BY <2>2, <3>1 DEF DiscardCase
  <2> QED
    BY <2>3, <2>4
<1> QED
  BY <1>4, <1>16, <1>17, <1>18, <1>19, <1>20, <1>21, <1>22, <1>26, <1>27 DEF DuelInv

(* The duel may end at any point.                                          *)
LEMMA EndStep == ASSUME Inv, End, state # "FINISHED" PROVE Inv'
<1>1. /\ srv = "duel" /\ srv' = "closed" /\ down' = down \o <<L("end", "")>>
      /\ UNCHANGED <<client, up, ask, asks, ties, decks, guestIn, rejected>>
  BY DEF End, Say
<1>2. down \in Seq(Line)
  BY DEF Inv, Typed
<1>3. PICK e : e = down \o <<L("end", "")>>
  OBVIOUS
<1>4. e \in Seq(Line) /\ down' = e
  BY <1>1, <1>2, <1>3, EndFollows
<1>5. UNCHANGED <<state, lobby, duel, ask>>
  BY <1>1 DEF client
<1>6. Typed'
  BY <1>4, <1>5 DEF Inv, Typed, duel
<1>7. TypeOK'
  BY <1>1, <1>5 DEF Inv, TypeOK, lobby, duel
<1>8. PhaseInv'
  <2>1. rejected => Refused'
    <3> SUFFICES ASSUME rejected PROVE Refused'
      OBVIOUS
    <3>1. Refused
      BY DEF Inv, PhaseInv
    <3>2. CASE state = "DUEL"
      <4>1. AllOf(down', Refusals)
        BY <1>1, <1>2, <3>1, <3>2, EndFollows DEF Refused, Refusals
      <4> QED
        BY <1>1, <1>5, <3>1, <4>1 DEF Refused, Scans, duel
    <3>3. CASE state # "DUEL"
      BY <1>1, <1>5, <3>1, <3>3 DEF Refused
    <3> QED
      BY <3>2, <3>3
  <2> QED
    BY <1>1, <1>5, <2>1 DEF Inv, PhaseInv, duel
<1>9. AskInv'
  BY <1>1, <1>5 DEF Inv, AskInv
<1>10. DuelInv'
  <2>1. CASE state = "DUEL"
    BY <1>1, <1>3, <1>4, <2>1, EndDuel
  <2>2. CASE state # "DUEL"
    BY <1>5, <2>2 DEF DuelInv
  <2> QED
    BY <2>1, <2>2
<1>11. LobbyInv'
  <2>1. CASE state \in {"DUEL", "FINISHED"}
    BY <1>5, <2>1 DEF LobbyInv
  <2>2. CASE state \notin {"DUEL", "FINISHED"}
    <3>1. /\ pc = "run" /\ outer = NoPrompt /\ Clear /\ Scans
          /\ profile \in {"host", "guest"} /\ state \in DOMAIN Failures
          /\ decks \subseteq {"own", "guest"}
          /\ guestIn => profile = "host"
          /\ CreatedCase
      BY <1>1, <2>2 DEF Inv, LobbyInv, FailedCase
    <3>2. \A r \in Seq(Line) : Created(r) => Created(r \o <<L("end", "")>>)'
      <4> SUFFICES ASSUME NEW r \in Seq(Line), Created(r)
                   PROVE  Created(r \o <<L("end", "")>>)'
        OBVIOUS
      <4>1. r # <<>> /\ Head(r).k = "DuelCreated" /\ Following(Tail(r))
        BY DEF Created
      <4>2. PICK q \in Seq(Line) : q = Tail(r)
        BY <4>1, ReadOf
      <4>3. PICK f : f = r \o <<L("end", "")>>
        OBVIOUS
      <4>4. f # <<>> /\ Head(f) = Head(r) /\ Tail(f) = q \o <<L("end", "")>>
        BY <4>1, <4>2, <4>3, EndFollows
      <4>5. PICK g : g = q \o <<L("end", "")>>
        OBVIOUS
      <4>6. Following(g)
        BY <4>1, <4>2, <4>5, EndFollowing
      <4>7. Following(g)'
        BY <1>5, <4>6, FollowingKept DEF duel
      <4>8. Created(f)'
        BY <4>1, <4>4, <4>5, <4>7 DEF Created
      <4> QED
        BY <4>3, <4>8 DEF Created
    <3>3. CreatedCase'
      <4>1. /\ state' \in {"PRE_DUEL_RPS", "PRE_DUEL_DECISION"} /\ up' = <<>>
            /\ down # <<>>
        BY <1>1, <1>5, <3>1 DEF CreatedCase, Created
      <4>2. CASE Created(down)
        <5>1. PICK r \in Seq(Line) : r = down
          BY <1>2
        <5>2. Created(r \o <<L("end", "")>>)' /\ down' = r \o <<L("end", "")>>
          BY <1>1, <3>2, <4>2, <5>1
        <5>3. Created(down)'
          BY <5>2, CreatedNamed
        <5> QED
          BY <4>1, <5>3 DEF CreatedCase
      <4>3. CASE Head(down).k = "Wait" /\ Created(Tail(down))
        <5>1. PICK r \in Seq(Line) : r = Tail(down)
          BY <1>2, <4>1, ReadOf
        <5>2. down' # <<>> /\ Head(down') = Head(down) /\ Tail(down') = r \o <<L("end", "")>>
          BY <1>1, <1>2, <4>1, <5>1, EndFollows
        <5>3. Created(r \o <<L("end", "")>>)'
          BY <3>2, <4>3, <5>1
        <5>4. Created(Tail(down))'
          BY <5>2, <5>3, CreatedNamed
        <5> QED
          BY <4>1, <4>3, <5>2, <5>4 DEF CreatedCase
      <4> QED
        BY <3>1, <4>2, <4>3 DEF CreatedCase
    <3> QED
      BY <1>1, <1>5, <3>1, <3>3 DEF LobbyInv, Clear, Scans, lobby, duel
  <2> QED
    BY <2>1, <2>2
<1> QED
  BY <1>6, <1>7, <1>8, <1>9, <1>10, <1>11 DEF Inv

-----------------------------------------------------------------------------
(* Before the duel.                                                        *)

(* What remains to show of a step of the server.                           *)
LEMMA LobbyServed ==
  ASSUME Inv, state \notin {"DUEL", "FINISHED"}, srv \notin {"duel", "closed"},
         UNCHANGED <<client, ask, rejected>>,
         srv' \in {"nickname", "password", "lobby", "room", "rps", "decide", "duel", "closed"},
         down' \in Seq(Line), Ongoing(down'), guestIn' \in BOOLEAN,
         decks' \subseteq {"own", "guest"}, decks \subseteq decks',
         guestIn' => profile = "host",
         srv' \in {"nickname", "password", "lobby"} => LoginCase',
         srv' = "room" => RoomCase', srv' = "rps" => RpsCase', srv' = "decide" => DecideCase',
         srv' \in {"duel", "closed"} => CreatedCase' \/ FailedCase'
  PROVE  Inv'
<1>1. UNCHANGED <<state, lobby, duel, ask>>
  BY DEF client
<1>2. Typed'
  BY <1>1 DEF Inv, Typed, duel
<1>3. TypeOK'
  BY <1>1 DEF Inv, TypeOK, lobby, duel
<1>4. AskInv'
  BY <1>1 DEF Inv, AskInv
<1>5. PhaseInv'
  <2>1. ~rejected
    BY DEF Inv, PhaseInv, Refused
  <2> QED
    BY <1>1, <2>1 DEF Inv, PhaseInv, Ongoing, duel
<1>6. LobbyInv'
  <2>1. /\ pc = "run" /\ outer = NoPrompt /\ Clear /\ Scans
        /\ profile \in {"host", "guest"} /\ state \in DOMAIN Failures
        /\ srv # "closed" /\ ready => profile = "host" /\ "guest" \in decks
    BY DEF Inv, LobbyInv
  <2>2. ready' => profile' = "host" /\ "guest" \in decks'
    BY <1>1, <2>1 DEF lobby
  <2> QED
    BY <1>1, <2>1, <2>2 DEF LobbyInv, Clear, Scans, lobby, duel
<1>7. DuelInv'
  BY <1>1 DEF DuelInv
<1> QED
  BY <1>2, <1>3, <1>4, <1>5, <1>6, <1>7 DEF Inv

(* What a step of the bot before the duel leaves alone.                    *)
LEMMA LobbyKept ==
  ASSUME Inv, NEW l, Dispatch(l), state' \in DOMAIN Failures \cup {"DUEL", "FINISHED"},
         sentRoom' \in BOOLEAN, ready' \in BOOLEAN,
         state' = "DUEL" => srv \in {"duel", "closed"}
  PROVE  /\ TypeOK' /\ Typed' /\ AskInv' /\ PhaseInv'
         /\ state \in DOMAIN Failures /\ down # <<>> /\ l = Head(down) /\ down' = Tail(down)
         /\ down' \in Seq(Line)
         /\ pc' = "run" /\ outer' = NoPrompt /\ Clear' /\ Scans' /\ parser' = parser
         /\ UNCHANGED <<profile, srv, ask, decks, guestIn>>
         /\ \A i \in DOMAIN down' : \E j \in DOMAIN down : down'[i] = down[j]
<1>1. /\ state \in DOMAIN Failures /\ down # <<>> /\ l = Head(down) /\ down' = Tail(down)
      /\ UNCHANGED <<profile, duel, server>>
  BY DEF Dispatch, Read
<1>2. /\ down' \in Seq(Line)
      /\ \A i \in DOMAIN down' : \E j \in DOMAIN down : down'[i] = down[j]
  <2>1. /\ down \in Seq(Line) /\ Len(down) \in Nat /\ DOMAIN down = 1 .. Len(down)
        /\ DOMAIN Tail(down) = 1 .. Len(down) - 1 /\ Tail(down) \in Seq(Line)
        /\ \A i \in 1 .. Len(down) - 1 : Tail(down)[i] = down[i + 1]
    BY <1>1, ReadOf DEF Inv, Typed
  <2>2. \A i \in DOMAIN Tail(down) : i + 1 \in DOMAIN down /\ Tail(down)[i] = down[i + 1]
    BY <2>1
  <2> QED
    BY <1>1, <2>1, <2>2
<1>3. state \notin {"DUEL", "FINISHED"}
  BY <1>1 DEF Failures
<1>4. pc = "run" /\ outer = NoPrompt /\ Clear /\ Scans
  BY <1>3 DEF Inv, LobbyInv
<1>5. Typed'
  BY <1>1, <1>2 DEF Inv, Typed, duel, server
<1>6. TypeOK'
  BY <1>1 DEF Inv, TypeOK, lobby, duel, server
<1>7. AskInv'
  BY <1>1 DEF Inv, AskInv, server
<1>8. PhaseInv'
  <2>1. pc' \in Reading
    BY <1>1, <1>4 DEF duel, Reading
  <2>2. srv # "closed" => \A i \in DOMAIN down' : down'[i].k # "end"
    BY <1>2 DEF Inv, PhaseInv
  <2>3. ~rejected
    BY <1>3 DEF Inv, PhaseInv, Refused
  <2> QED
    BY <1>1, <2>1, <2>2, <2>3 DEF Inv, PhaseInv, server
<1>9. /\ pc' = "run" /\ outer' = NoPrompt /\ Clear' /\ Scans' /\ parser' = parser
      /\ UNCHANGED <<srv, ask, decks, guestIn>>
  BY <1>1, <1>4 DEF Clear, Scans, duel, server
<1> QED
  BY <1>1, <1>2, <1>5, <1>6, <1>7, <1>8, <1>9

(* What remains to show of a step of the bot that stays there.             *)
LEMMA LobbyRead ==
  ASSUME Inv, NEW l, Dispatch(l), state' \in DOMAIN Failures,
         sentRoom' \in BOOLEAN, ready' \in BOOLEAN,
         (srv # "closed" /\ ready') => (profile = "host" /\ "guest" \in decks),
         srv \in {"nickname", "password", "lobby"} => LoginCase',
         srv = "room" => RoomCase', srv = "rps" => RpsCase', srv = "decide" => DecideCase',
         srv \in {"duel", "closed"} => CreatedCase' \/ FailedCase'
  PROVE  Inv'
<1>1. state' # "DUEL" /\ state' \in DOMAIN Failures \cup {"DUEL", "FINISHED"}
  BY DEF Failures
<1>2. /\ TypeOK' /\ Typed' /\ AskInv' /\ PhaseInv'
      /\ pc' = "run" /\ outer' = NoPrompt /\ Clear' /\ Scans'
      /\ state \in DOMAIN Failures
      /\ UNCHANGED <<profile, srv, ask, decks, guestIn>>
  BY <1>1, LobbyKept
<1>3. state \notin {"DUEL", "FINISHED"}
  BY <1>2 DEF Failures
<1>4. /\ profile \in {"host", "guest"}
      /\ decks \subseteq {"own", "guest"}
      /\ guestIn => profile = "host"
  BY <1>3 DEF Inv, LobbyInv
<1>5. LobbyInv'
  BY <1>2, <1>4 DEF LobbyInv
<1>6. DuelInv'
  BY <1>1 DEF DuelInv
<1> QED
  BY <1>2, <1>5, <1>6 DEF Inv

(* The states before the duel.                                             *)
LEMMA States ==
  /\ DOMAIN Failures = {"LOGIN_NICKNAME", "LOGIN_PASSWORD", "LOBBY", "ROOM_SETUP",
                        "PRE_DUEL_RPS", "PRE_DUEL_DECISION"}
  /\ Failures["LOGIN_NICKNAME"] = {} /\ Failures["LOGIN_PASSWORD"] = {"NoAccount"}
  /\ Failures["LOBBY"] = {"LoginFailed"} /\ Failures["ROOM_SETUP"] = {"RoomFailed"}
  /\ Failures["PRE_DUEL_RPS"] = {} /\ Failures["PRE_DUEL_DECISION"] = {}
BY DEF Failures

(* The answer to the line at hand, state by state.                         *)
LEMMA DispatchOf ==
  ASSUME NEW l, Dispatch(l), l.k \notin Failures[state]
  PROVE  /\ state = "LOGIN_NICKNAME" =>
              /\ IF l.k = "Nickname" THEN Send(<<C("nickname")>>) /\ state' = "LOGIN_PASSWORD"
                                     ELSE UNCHANGED <<up, state>>
              /\ UNCHANGED <<sentRoom, ready>>
         /\ state = "LOGIN_PASSWORD" =>
              /\ IF l.k = "Password" THEN Send(<<C("password")>>) /\ state' = "LOBBY"
                                     ELSE UNCHANGED <<up, state>>
              /\ UNCHANGED <<sentRoom, ready>>
         /\ state = "LOBBY" =>
              /\ Send(<<C(IF profile = "host" THEN "create" ELSE "join")>>)
              /\ state' = "ROOM_SETUP" /\ UNCHANGED <<sentRoom, ready>>
         /\ state = "ROOM_SETUP" =>
              LET start == profile = "host" /\ l.k = "DeckLoaded" /\ ~ready
              IN  /\ Send((IF sentRoom THEN <<>> ELSE RoomCommands)
                           \o (IF start THEN <<C("start")>> ELSE <<>>)
                           \o (IF l.k = "Rock" THEN <<Rps>> ELSE <<>>))
                  /\ ready' = (ready \/ start) /\ sentRoom' = TRUE
                  /\ state' = IF l.k = "Rock" THEN "PRE_DUEL_RPS" ELSE state
         /\ state \in {"PRE_DUEL_RPS", "PRE_DUEL_DECISION"} =>
              /\ l.k = "Rock" /\ state = "PRE_DUEL_RPS" => Send(<<Rps>>) /\ UNCHANGED state
              /\ l.k = "Yes" => Send(<<C("first")>>) /\ state' = "PRE_DUEL_DECISION"
              /\ l.k = "DuelCreated" => state' = "DUEL" /\ UNCHANGED up
              /\ l.k \notin {"Rock", "Yes", "DuelCreated"} => UNCHANGED <<up, state>>
              /\ UNCHANGED <<sentRoom, ready>>
              /\ l.k = "Rock" /\ state # "PRE_DUEL_RPS" => UNCHANGED <<up, state>>
<1>1. CASE state = "LOGIN_NICKNAME"
  BY <1>1 DEF Dispatch
<1>2. CASE state = "LOGIN_PASSWORD"
  BY <1>2 DEF Dispatch
<1>3. CASE state = "LOBBY"
  BY <1>3 DEF Dispatch
<1>4. CASE state = "ROOM_SETUP"
  BY <1>4 DEF Dispatch
<1>5. CASE state \in {"PRE_DUEL_RPS", "PRE_DUEL_DECISION"}
  <2>1. /\ CASE l.k = "Rock" /\ state = "PRE_DUEL_RPS" -> Send(<<Rps>>) /\ UNCHANGED state
             [] l.k = "Yes" -> Send(<<C("first")>>) /\ state' = "PRE_DUEL_DECISION"
             [] l.k = "DuelCreated" -> state' = "DUEL" /\ UNCHANGED up
             [] OTHER -> UNCHANGED <<up, state>>
        /\ UNCHANGED <<sentRoom, ready>>
    BY <1>5 DEF Dispatch
  <2>2. CASE l.k = "Rock" /\ state = "PRE_DUEL_RPS"
    <3>1. l.k # "Yes" /\ l.k # "DuelCreated"
      BY <2>2
    <3> QED
      BY <1>5, <2>1, <2>2, <3>1
  <2>3. CASE l.k = "Yes"
    <3>1. l.k # "Rock" /\ l.k # "DuelCreated"
      BY <2>3
    <3> QED
      BY <1>5, <2>1, <2>3, <3>1
  <2>4. CASE l.k = "DuelCreated"
    <3>1. l.k # "Rock" /\ l.k # "Yes"
      BY <2>4
    <3> QED
      BY <1>5, <2>1, <2>4, <3>1
  <2>5. CASE ~(l.k = "Rock" /\ state = "PRE_DUEL_RPS") /\ l.k # "Yes" /\ l.k # "DuelCreated"
    BY <1>5, <2>1, <2>5
  <2> QED
    BY <2>2, <2>3, <2>4, <2>5
<1>6. state \in DOMAIN Failures
  BY DEF Dispatch
<1> QED
  BY <1>1, <1>2, <1>3, <1>4, <1>5, <1>6, States

(* One line is all there is.                                               *)
LEMMA HeardOf ==
  ASSUME NEW k, Heard(k)
  PROVE  up = <<>> /\ down # <<>> /\ Head(down).k = k /\ Tail(down) = <<>>
<1> DEFINE l == L(k, "")
<1>1. up = <<>> /\ down = <<l>>
  BY DEF Heard
<1>2. l.k = k
  BY DEF L
<1> HIDE DEF l
<1>3. down # <<>> /\ Head(down) = l /\ Tail(down) = <<>>
  BY <1>1
<1> QED
  BY <1>1, <1>2, <1>3

(* The bot logs in and enters the room.                                    *)
LEMMA LoginRead ==
  ASSUME Inv, NEW l, Dispatch(l), srv \in {"nickname", "password", "lobby"}
  PROVE  Inv'
<1>1. /\ state \in DOMAIN Failures /\ down # <<>> /\ l = Head(down) /\ down' = Tail(down)
      /\ UNCHANGED <<srv, decks, guestIn>>
  BY DEF Dispatch, Read, server
<1>2. /\ state \notin {"DUEL", "FINISHED"} /\ LoginCase
  BY <1>1, States DEF Inv, LobbyInv
<1>3. \A x : ~Sent(x)
  BY <1>1 DEF Sent
<1>5. ~sentRoom /\ ~ready /\ ~guestIn /\ decks = {} /\ {sentRoom, ready} \subseteq BOOLEAN
  BY <1>2 DEF LoginCase, Inv, TypeOK
<1>4. SUFFICES /\ state' \in DOMAIN Failures /\ UNCHANGED <<sentRoom, ready>>
               /\ LoginCase'
  BY <1>5, LobbyRead
<1>6. CASE srv = "nickname"
  <2>1. state = "LOGIN_NICKNAME" /\ Heard("Nickname")
    BY <1>2, <1>3, <1>6 DEF LoginCase
  <2>2. up = <<>> /\ l.k = "Nickname" /\ down' = <<>>
    BY <1>1, <2>1, HeardOf
  <2>3. Send(<<C("nickname")>>) /\ state' = "LOGIN_PASSWORD" /\ UNCHANGED <<sentRoom, ready>>
    BY <2>1, <2>2, DispatchOf, States
  <2>4. Sent("nickname")'
    BY <2>2, <2>3, SendOne DEF Sent
  <2> QED
    BY <1>1, <1>5, <1>6, <2>3, <2>4, States DEF LoginCase
<1>7. CASE srv = "password"
  <2>1. state = "LOGIN_PASSWORD" /\ Heard("Password")
    BY <1>2, <1>3, <1>7 DEF LoginCase
  <2>2. up = <<>> /\ l.k = "Password" /\ down' = <<>>
    BY <1>1, <2>1, HeardOf
  <2>3. Send(<<C("password")>>) /\ state' = "LOBBY" /\ UNCHANGED <<sentRoom, ready>>
    <3>1. l.k \notin Failures[state]
      BY <2>1, <2>2, States
    <3> QED
      BY <2>1, <2>2, <3>1, DispatchOf
  <2>4. Sent("password")'
    BY <2>2, <2>3, SendOne DEF Sent
  <2> QED
    BY <1>1, <1>5, <1>7, <2>3, <2>4, States DEF LoginCase
<1>8. CASE srv = "lobby"
  <2>1. state = "LOBBY" /\ Heard("Motd")
    BY <1>2, <1>3, <1>8 DEF LoginCase
  <2>2. up = <<>> /\ l.k = "Motd" /\ down' = <<>>
    BY <1>1, <2>1, HeardOf
  <2>3. /\ Send(<<C(IF profile = "host" THEN "create" ELSE "join")>>)
        /\ state' = "ROOM_SETUP" /\ UNCHANGED <<sentRoom, ready>>
    <3>1. l.k \notin Failures[state]
      BY <2>1, <2>2, States
    <3> QED
      BY <2>1, <3>1, DispatchOf
  <2>4. Sent("create")' \/ Sent("join")'
    <3>1. up' = <<C(IF profile = "host" THEN "create" ELSE "join")>>
      BY <2>2, <2>3, SendOne
    <3> QED
      BY <2>2, <3>1 DEF Sent
  <2> QED
    BY <1>1, <1>5, <1>8, <2>3, <2>4, States DEF LoginCase
<1> QED
  BY <1>6, <1>7, <1>8

(* Commands on their way.                                                  *)
Room     == {C("banlist"), C("finish"), C("move"), C("deck"), C("start"), C("nickname"),
             C("password"), C("create"), C("join"), C("first"), Rps}

(* Sequences of commands, as the prover needs them.                        *)
LEMMA CommandsJoin ==
  /\ \A a, b \in Seq(Room) : a \o b \in Seq(Room)
  /\ \A a \in Seq(Room) : a \o <<>> = a /\ <<>> \o a = a
  /\ \A a, b \in Seq(Room) : a # <<>> =>
       a \o b # <<>> /\ Head(a \o b) = Head(a) /\ Tail(a \o b) = Tail(a) \o b
  /\ \A a, b, c \in Seq(Room) : (a \o b) \o c = a \o (b \o c)
OBVIOUS

(* The room's commands are commands.                                       *)
LEMMA RoomCommandsOf ==
  /\ HostRoom \subseteq Seq(Room) /\ GuestRoom \subseteq Seq(Room)
  /\ <<C("start")>> \in Seq(Room) /\ <<Rps>> \in Seq(Room) /\ <<>> \in Seq(Room)
  /\ Start \in Seq(Room)
<1>1. \A a, b, c, d \in Room : /\ <<a, b, c, d>> \in Seq(Room) /\ <<b, c, d>> \in Seq(Room)
                               /\ <<c, d>> \in Seq(Room) /\ <<d>> \in Seq(Room) /\ <<>> \in Seq(Room)
  OBVIOUS
<1>2. {C("banlist"), C("finish"), C("move"), C("deck"), C("start"), Rps} \subseteq Room
  BY DEF Room
<1> QED
  BY <1>1, <1>2 DEF HostRoom, GuestRoom, Start

(* The bot sets up the room, and the host starts when the guest has loaded *)
(* its deck.                                                               *)
LEMMA RoomRead ==
  ASSUME Inv, NEW l, Dispatch(l), srv = "room"
  PROVE  Inv'
<1> DEFINE start == profile = "host" /\ l.k = "DeckLoaded" /\ ~ready
<1>1. /\ state \in DOMAIN Failures /\ down # <<>> /\ l = Head(down) /\ down' = Tail(down)
      /\ UNCHANGED <<srv, decks, guestIn, profile>>
  BY DEF Dispatch, Read, server
<1>2. /\ state \notin {"DUEL", "FINISHED"} /\ RoomCase /\ state = "ROOM_SETUP"
      /\ ready => profile = "host" /\ "guest" \in decks
      /\ profile \in {"host", "guest"} /\ {sentRoom, ready} \subseteq BOOLEAN
  BY <1>1, States DEF Inv, LobbyInv, RoomCase, TypeOK
<1>3. /\ l.k \notin {"RoomFailed", "Rock"}
      /\ down \in Seq(Line) /\ down' \in Seq(Line)
      /\ \A k : Said(down', k) \subseteq Said(down, k)
      /\ l.k = "DeckLoaded" => sentRoom /\ Said(down, "DeckLoaded") # {}
      /\ sentRoom => AllOf(down', {"DeckOk", "DeckLoaded"})
      /\ ~sentRoom => l.k = "Room" /\ down' = <<>> /\ up = <<>>
  <2>1. down \in Seq(Line) /\ down' \in Seq(Line)
    BY <1>1, ReadOf DEF Inv, Typed
  <2>2. /\ \A k : Said(down, k) = Said(down', k) \cup (IF l.k = k THEN {l.x} ELSE {})
    BY <1>1, <2>1, SaidRead
  <2>3. CASE sentRoom
    <3>1. AllOf(down, {"DeckOk", "DeckLoaded"})
      BY <1>2, <2>3 DEF RoomCase, Loading
    <3>2. /\ 1 \in DOMAIN down /\ l = down[1]
          /\ \A i \in DOMAIN down' : i + 1 \in DOMAIN down /\ down'[i] = down[i + 1]
      BY <1>1, <2>1, ReadOf
    <3>3. l.k \in {"DeckOk", "DeckLoaded"} /\ AllOf(down', {"DeckOk", "DeckLoaded"})
      BY <3>1, <3>2 DEF AllOf
    <3> QED
      BY <2>1, <2>2, <2>3, <3>3
  <2>4. CASE ~sentRoom
    <3>1. Heard("Room")
      BY <1>2, <2>4 DEF RoomCase
    <3>2. l.k = "Room" /\ down' = <<>> /\ up = <<>>
      BY <1>1, <3>1, HeardOf
    <3> QED
      BY <2>1, <2>2, <2>4, <3>2
  <2> QED
    BY <2>3, <2>4, <1>2
<1>4. /\ Send((IF sentRoom THEN <<>> ELSE RoomCommands)
                \o (IF start THEN <<C("start")>> ELSE <<>>) \o (IF l.k = "Rock" THEN <<Rps>> ELSE <<>>))
      /\ ready' = (ready \/ start) /\ sentRoom' = TRUE /\ state' = "ROOM_SETUP"
  BY <1>2, <1>3, DispatchOf, States
<1>5. start => "guest" \in decks /\ sentRoom /\ profile = "host"
  BY <1>2, <1>3 DEF RoomCase, Loading
<1>6. SUFFICES Loading'
  <2>1. RoomCase'
    BY <1>4, <1>6 DEF RoomCase
  <2>2. ready' => profile = "host" /\ "guest" \in decks
    BY <1>2, <1>4, <1>5
  <2>3. ready' \in BOOLEAN /\ sentRoom' \in BOOLEAN
    BY <1>2, <1>4
  <2> QED
    BY <1>4, <2>1, <2>2, <2>3, LobbyRead, States
<1>7. PICK s : s = IF start THEN <<C("start")>> ELSE <<>>
  OBVIOUS
<1>8. s \in Seq(Room) /\ Start \in Seq(Room) /\ <<>> \in Seq(Room)
  BY <1>7, RoomCommandsOf
<1>9. CASE sentRoom
  <2>1. up' = up \o (<<>> \o s \o <<>>)
    BY <1>3, <1>4, <1>7, <1>9 DEF Send
  <2>2. <<>> \o s \o <<>> = s
    BY <1>8, CommandsJoin
  <2>3. Loading
    BY <1>2, <1>9 DEF RoomCase
  <2>4. Start' = Start \o s
    <3>1. CASE start
      <4>1. Start = <<>> /\ Start' = <<C("start")>> /\ s = <<C("start")>>
        BY <1>4, <1>7, <3>1 DEF Start
      <4> QED
        BY <1>8, <4>1, CommandsJoin
    <3>2. CASE ~start
      <4>1. Start' = Start /\ s = <<>>
        BY <1>2, <1>4, <1>7, <3>2 DEF Start
      <4> QED
        BY <1>8, <4>1, CommandsJoin
    <3> QED
      BY <3>1, <3>2
  <2>5. \A r \in HostRoom \cup GuestRoom : up = r \o Start => up' = r \o Start'
    <3> SUFFICES ASSUME NEW r \in HostRoom \cup GuestRoom, up = r \o Start PROVE up' = r \o Start'
      OBVIOUS
    <3>1. r \in Seq(Room)
      BY RoomCommandsOf
    <3>2. (r \o Start) \o s = r \o (Start \o s)
      BY <1>8, <3>1, CommandsJoin, SMTT(30)
    <3>3. up' = up \o s
      BY <2>1, <2>2
    <3>4. up' = (r \o Start) \o s
      BY <3>3
    <3> QED
      BY <2>4, <3>2, <3>4
  <2>6. up = Start => up' = Start'
    BY <2>1, <2>2, <2>4
  <2>7. Said(down', "DeckLoaded") # {} => "guest" \in decks'
    BY <1>1, <1>3, <2>3 DEF Loading
  <2> QED
    BY <1>1, <1>3, <1>9, <2>3, <2>5, <2>6, <2>7 DEF Loading, HostRoom, GuestRoom
<1>10. CASE ~sentRoom
  <2>1. ~start /\ ~ready /\ decks = {} /\ s = <<>>
    BY <1>2, <1>5, <1>7, <1>10 DEF RoomCase
  <2>2. up' = up \o (RoomCommands \o <<>> \o <<>>)
    BY <1>3, <1>4, <1>7, <1>10, <2>1 DEF Send
  <2>3. RoomCommands \in Seq(Room) /\ (RoomCommands \in IF profile = "host" THEN HostRoom ELSE GuestRoom)
    BY RoomCommandsOf DEF RoomCommands, HostRoom, GuestRoom
  <2>4. up' = RoomCommands
    BY <1>3, <1>8, <1>10, <2>2, <2>3, CommandsJoin
  <2>5. Start' = <<>>
    BY <1>4, <2>1 DEF Start
  <2>6. up' = RoomCommands \o Start'
    BY <2>3, <2>4, <2>5, CommandsJoin
  <2>7. AllOf(down', {"DeckOk", "DeckLoaded"}) /\ Said(down', "DeckLoaded") = {}
    BY <1>3, <1>10 DEF AllOf, Said
  <2>8. "own" \notin decks'
    BY <1>1, <2>1
  <2>9. HostRoom' = HostRoom /\ GuestRoom' = GuestRoom
    BY DEF HostRoom, GuestRoom
  <2>10. CASE profile = "host"
    BY <1>1, <2>3, <2>6, <2>7, <2>8, <2>9, <2>10 DEF Loading
  <2>11. CASE profile # "host"
    BY <1>1, <2>3, <2>6, <2>7, <2>8, <2>9, <2>11 DEF Loading
  <2> QED
    BY <2>10, <2>11
<1> QED
  BY <1>2, <1>9, <1>10

(* The tie-breaking game.                                                  *)
LEMMA RpsRead ==
  ASSUME Inv, NEW l, Dispatch(l), srv \in {"rps", "decide"}
  PROVE  Inv'
<1>1. /\ state \in DOMAIN Failures /\ down # <<>> /\ l = Head(down) /\ down' = Tail(down)
      /\ UNCHANGED <<srv, decks, guestIn, profile>>
  BY DEF Dispatch, Read, server
<1>2. /\ state \notin {"DUEL", "FINISHED"}
      /\ srv = "rps" => RpsCase
      /\ srv = "decide" => DecideCase
      /\ ready => profile = "host" /\ "guest" \in decks
      /\ profile \in {"host", "guest"} /\ {sentRoom, ready} \subseteq BOOLEAN
      /\ down \in Seq(Line) /\ Ongoing(down)
  BY <1>1, States DEF Inv, LobbyInv, TypeOK, Typed, PhaseInv, Ongoing
<1>3. CASE srv = "rps" /\ state = "ROOM_SETUP"
  <2>1. /\ sentRoom /\ up = <<>> /\ (ready \/ profile = "guest")
        /\ Ends(down, {"DeckOk", "DeckLoaded"}, "Rock")
    BY <1>2, <1>3 DEF RpsCase
  <2>2. /\ l.k \in {"DeckOk", "DeckLoaded", "Rock"}
        /\ l.k = "Rock" => Over(down')
        /\ l.k # "Rock" => Ends(down', {"DeckOk", "DeckLoaded"}, "Rock")
    BY <1>1, <1>2, <2>1, EndsRead
  <2>3. l.k \notin Failures[state]
    BY <1>3, <2>2, States
  <2>4. ~(profile = "host" /\ l.k = "DeckLoaded" /\ ~ready)
    BY <2>1
  <2>5. /\ Send(<<>> \o <<>> \o (IF l.k = "Rock" THEN <<Rps>> ELSE <<>>))
        /\ ready' = ready /\ sentRoom' = TRUE
        /\ state' = IF l.k = "Rock" THEN "PRE_DUEL_RPS" ELSE state
    BY <1>2, <1>3, <2>1, <2>3, <2>4, DispatchOf
  <2>6. up' = IF l.k = "Rock" THEN <<Rps>> ELSE <<>>
    <3>1. <<>> \o <<>> = <<>>
      OBVIOUS
    <3>2. \A q \in Seq(Room) : <<>> \o q = q
      BY CommandsJoin
    <3>3. <<Rps>> \in Seq(Room) /\ <<>> \in Seq(Room)
      BY RoomCommandsOf
    <3> QED
      BY <2>1, <2>5, <3>1, <3>2, <3>3 DEF Send
  <2>7. RpsCase'
    <3>1. CASE l.k = "Rock"
      <4>1. down' = <<>>
        <5>1. CASE down' # <<>>
          <6>1. 1 \in DOMAIN down' /\ 2 \in DOMAIN down /\ down'[1] = down[2]
            BY <1>1, <1>2, <5>1, ReadOf
          <6> QED
            BY <1>2, <2>2, <3>1, <6>1 DEF Over, Ongoing
        <5> QED
          BY <5>1
      <4> QED
        BY <2>5, <2>6, <3>1, <4>1 DEF RpsCase
    <3>2. CASE l.k # "Rock"
      BY <1>1, <1>3, <2>1, <2>2, <2>5, <2>6, <3>2 DEF RpsCase
    <3> QED
      BY <3>1, <3>2
  <2>8. state' \in DOMAIN Failures
    BY <1>1, <2>5, States
  <2> QED
    BY <1>2, <1>3, <2>5, <2>7, <2>8, LobbyRead
<1>4. CASE srv = "rps" /\ state # "ROOM_SETUP"
  <2>1. state = "PRE_DUEL_RPS" /\ Heard("Rock")
    BY <1>1, <1>2, <1>4 DEF RpsCase
  <2>2. up = <<>> /\ l.k = "Rock" /\ down' = <<>>
    BY <1>1, <2>1, HeardOf
  <2>3. Send(<<Rps>>) /\ UNCHANGED state /\ UNCHANGED <<sentRoom, ready>>
    BY <2>1, <2>2, DispatchOf, States
  <2>4. RpsCase'
    BY <2>1, <2>2, <2>3, SendOne DEF RpsCase
  <2> QED
    BY <1>1, <1>2, <1>4, <2>3, <2>4, LobbyRead
<1>5. CASE srv = "decide"
  <2>1. state = "PRE_DUEL_RPS" /\ Heard("Yes")
    BY <1>1, <1>2, <1>5 DEF DecideCase, Sent
  <2>2. up = <<>> /\ l.k = "Yes" /\ down' = <<>>
    BY <1>1, <2>1, HeardOf
  <2>3. /\ Send(<<C("first")>>) /\ state' = "PRE_DUEL_DECISION" /\ UNCHANGED <<sentRoom, ready>>
    BY <2>1, <2>2, DispatchOf, States
  <2>4. DecideCase'
    BY <2>2, <2>3, SendOne DEF DecideCase, Sent
  <2> QED
    BY <1>1, <1>2, <1>5, <2>3, <2>4, LobbyRead, States
<1> QED
  BY <1>3, <1>4, <1>5

(* The duel begins, or the bot has been turned away.                       *)
LEMMA DispatchStep == ASSUME Inv, NEW l, Dispatch(l) PROVE Inv'
<1>1. /\ state \in DOMAIN Failures /\ down # <<>> /\ l = Head(down) /\ down' = Tail(down)
      /\ UNCHANGED <<srv, decks, guestIn, profile>>
  BY DEF Dispatch, Read, server
<1>2. /\ state \notin {"DUEL", "FINISHED"}
      /\ srv \in {"duel", "closed"} => CreatedCase \/ FailedCase
      /\ srv # "closed" /\ ready => profile = "host" /\ "guest" \in decks
      /\ {sentRoom, ready} \subseteq BOOLEAN
      /\ srv \in {"nickname", "password", "lobby", "room", "rps", "decide", "duel", "closed"}
  BY <1>1, States DEF Inv, LobbyInv, TypeOK
<1>3. CASE l.k \in Failures[state]
  <2>1. state' = "FINISHED" /\ UNCHANGED <<sentRoom, ready>>
    BY <1>3 DEF Dispatch
  <2>2. TypeOK' /\ Typed' /\ AskInv' /\ PhaseInv'
    BY <1>2, <2>1, LobbyKept
  <2> QED
    BY <2>1, <2>2 DEF Inv, LobbyInv, DuelInv
<1>4. CASE srv \in {"nickname", "password", "lobby"}
  BY <1>4, LoginRead
<1>5. CASE srv = "room"
  BY <1>5, RoomRead
<1>6. CASE srv \in {"rps", "decide"}
  BY <1>6, RpsRead
<1>7. CASE srv \in {"duel", "closed"} /\ CreatedCase /\ l.k \notin Failures[state]
  <2>1. state \in {"PRE_DUEL_RPS", "PRE_DUEL_DECISION"} /\ up = <<>>
    BY <1>7 DEF CreatedCase
  <2>2. CASE Created(down)
    <3>1. l.k = "DuelCreated" /\ Following(Tail(down))
      BY <1>1, <2>2 DEF Created
    <3>2. state' = "DUEL" /\ UNCHANGED <<up, sentRoom, ready>>
      BY <1>7, <2>1, <3>1, DispatchOf
    <3>3. /\ TypeOK' /\ Typed' /\ AskInv' /\ PhaseInv'
          /\ pc' = "run" /\ outer' = NoPrompt /\ Clear' /\ parser' = parser /\ UNCHANGED ask
      BY <1>2, <1>7, <3>2, LobbyKept
    <3>4. PICK q : q = Tail(down)
      OBVIOUS
    <3>5. Following(q)'
      BY <3>1, <3>3, <3>4, FollowingKept
    <3>6. Following(down)'
      BY <1>1, <3>4, <3>5, FollowingNamed
    <3>7. RunCase'
      BY <2>1, <3>2, <3>3, <3>6 DEF RunCase
    <3> QED
      BY <3>2, <3>3, <3>7 DEF Inv, LobbyInv, DuelInv
  <2>3. CASE Head(down).k = "Wait" /\ Created(Tail(down))
    <3>1. UNCHANGED <<up, state, sentRoom, ready>>
      BY <1>1, <1>7, <2>1, <2>3, DispatchOf
    <3>2. UNCHANGED <<ask, parser>>
      BY <1>1, <1>2, <3>1, LobbyKept
    <3>3. PICK r : r = Tail(down)
      OBVIOUS
    <3>4. PICK q : q = Tail(r)
      OBVIOUS
    <3>5. Following(q)'
      BY <2>3, <3>2, <3>3, <3>4, FollowingKept DEF Created
    <3>6. Created(r)'
      BY <2>3, <3>3, <3>4, <3>5, FollowingNamed DEF Created
    <3>7. Created(down)'
      BY <1>1, <3>3, <3>6, CreatedNamed
    <3>8. CreatedCase'
      BY <2>1, <3>1, <3>7 DEF CreatedCase
    <3> QED
      BY <1>1, <1>2, <1>7, <3>1, <3>8, LobbyRead
  <2> QED
    BY <1>7, <2>2, <2>3 DEF CreatedCase
<1>8. CASE srv = "closed" /\ FailedCase /\ l.k \notin Failures[state]
  <2>1. down \in Seq(Line) /\ 1 \in DOMAIN down /\ l = down[1]
    BY <1>1, ReadOf DEF Inv, Typed
  <2>2. l.k # "DuelCreated"
    BY <1>8, <2>1 DEF FailedCase
  <2>3. state' \in DOMAIN Failures /\ sentRoom' \in BOOLEAN /\ ready' \in BOOLEAN
    BY <1>1, <1>2, <1>8, <2>2, DispatchOf, States
  <2>4. state' # "DUEL"
    BY <2>3, States
  <2>5. \A i \in DOMAIN down' : \E j \in DOMAIN down : down'[i] = down[j]
    BY <2>3, <2>4, LobbyKept
  <2>6. FailedCase'
    BY <1>1, <1>8, <2>5 DEF FailedCase
  <2> QED
    BY <1>8, <2>3, <2>6, LobbyRead
<1> QED
  BY <1>2, <1>3, <1>4, <1>5, <1>6, <1>7, <1>8 DEF FailedCase

(* The command that the server takes.                                      *)
LEMMA SentOf ==
  ASSUME NEW x, Sent(x)
  PROVE  up # <<>> /\ Head(up) = C(x) /\ C(x).x = x /\ Tail(up) = <<>> /\ down = <<>>
<1> DEFINE c == C(x)
<1>1. c.x = x
  BY DEF C, L
<1>2. up = <<c>> /\ down = <<>>
  BY DEF Sent
<1> HIDE DEF c
<1>3. up # <<>> /\ Head(up) = c /\ Tail(up) = <<>>
  BY <1>2
<1> QED
  BY <1>1, <1>2, <1>3 DEF c

(* What the server says of a new phase.                                    *)
LEMMA SaidOne ==
  ASSUME down = <<>>, NEW k \in Kinds \ {"end"}, Say(<<L(k, "")>>)
  PROVE  /\ down' = <<L(k, "")>> /\ down' \in Seq(Line) /\ Ongoing(down')
         /\ \A j \in {"DuelCreated"} : k # j => \A i \in DOMAIN down' : down'[i].k # j
<1> DEFINE l == L(k, "")
           q == <<l>>
<1>1. l \in Line /\ l.k = k
  BY MarkOf
<1>2. q \in Seq(Line) /\ Ongoing(q)
  BY MarkOf, OngoingOf
<1>3. down' = q
  BY <1>2, SayOf
<1> HIDE DEF l
<1>4. AllOf(q, {k})
  BY <1>1, OneOf
<1> HIDE DEF q
<1>5. \A i \in DOMAIN q : q[i].k = k
  BY <1>4 DEF AllOf
<1> QED
  BY <1>2, <1>3, <1>5 DEF q, l

(* The server lets the bot in, or turns it away.                           *)
LEMMA ServeLoginStep == ASSUME Inv, ServeLogin, state # "FINISHED" PROVE Inv'
<1>1. /\ up # <<>> /\ up' = Tail(up)
      /\ UNCHANGED <<client, ask, asks, ties, decks, guestIn, rejected>>
      /\ \/ srv = "nickname" /\ srv' = "password" /\ Say(<<L("Password", "")>>)
         \/ srv = "nickname" /\ srv' = "closed" /\ Say(<<L("NoAccount", "")>>)
         \/ srv = "password" /\ srv' = "lobby" /\ Say(<<L("Motd", "")>>)
         \/ srv = "password" /\ srv' = "closed" /\ Say(<<L("LoginFailed", "")>>)
         \/ srv = "lobby" /\ srv' = "room" /\ Say(<<L("Room", "")>>)
         \/ srv = "lobby" /\ srv' = "closed" /\ Say(<<L("RoomFailed", "")>>)
         \/ srv = "decide" /\ srv' = "duel" /\ Say(<<L("DuelCreated", "")>>)
  BY DEF ServeLogin, Take
<1>2. srv \in {"nickname", "password", "lobby", "decide"}
  BY <1>1
<1>3. state \notin {"DUEL", "FINISHED"}
  BY <1>2 DEF Inv, PhaseInv
<1>4. UNCHANGED <<state, lobby, duel>>
  BY <1>1 DEF client
<1>5. /\ srv \in {"nickname", "password", "lobby"} => LoginCase
      /\ srv = "decide" => DecideCase
      /\ guestIn \in BOOLEAN /\ decks \subseteq {"own", "guest"} /\ (guestIn => profile = "host")
      /\ ask = NoMenu /\ Scans
  BY <1>2, <1>3 DEF Inv, LobbyInv, TypeOK, AskInv
<1>6. \A k : ~Heard(k)
  BY <1>1 DEF Heard
<1>7. \E x : Sent(x)
  BY <1>2, <1>5, <1>6 DEF LoginCase, DecideCase
<1>8. down = <<>> /\ up' = <<>>
  BY <1>1, <1>7, SentOf
<1>9. \A k \in Kinds \ {"end"} : Say(<<L(k, "")>>) =>
        /\ down' = <<L(k, "")>> /\ down' \in Seq(Line) /\ Ongoing(down')
        /\ k # "DuelCreated" => \A i \in DOMAIN down' : down'[i].k # "DuelCreated"
        /\ Heard(k)'
  <2> SUFFICES ASSUME NEW k \in Kinds \ {"end"}, Say(<<L(k, "")>>)
      PROVE  /\ down' = <<L(k, "")>> /\ down' \in Seq(Line) /\ Ongoing(down')
             /\ k # "DuelCreated" => \A i \in DOMAIN down' : down'[i].k # "DuelCreated"
             /\ Heard(k)'
    OBVIOUS
  <2>1. /\ down' = <<L(k, "")>> /\ down' \in Seq(Line) /\ Ongoing(down')
        /\ \A j \in {"DuelCreated"} : k # j => \A i \in DOMAIN down' : down'[i].k # j
    BY <1>8, SaidOne
  <2> QED
    BY <1>8, <2>1 DEF Heard
<1>10. /\ {"Password", "NoAccount", "Motd", "LoginFailed", "Room", "RoomFailed", "DuelCreated"}
            \subseteq Kinds \ {"end"}
  BY DEF Kinds
<1>11. CASE srv = "nickname" /\ srv' = "password" /\ Say(<<L("Password", "")>>)
  <2>1. Heard("Password")' /\ down' \in Seq(Line) /\ Ongoing(down')
    BY <1>9, <1>10, <1>11
  <2>2. state = "LOGIN_PASSWORD"
    BY <1>5, <1>6, <1>11 DEF LoginCase
  <2>3. LoginCase'
    BY <1>1, <1>4, <1>5, <1>11, <2>1, <2>2 DEF LoginCase, lobby
  <2> QED
    BY <1>1, <1>3, <1>5, <1>11, <2>1, <2>3, LobbyServed
<1>12. CASE srv' = "closed" /\ \E k \in {"NoAccount", "LoginFailed", "RoomFailed"} : Say(<<L(k, "")>>)
  <2>1. /\ down' \in Seq(Line) /\ Ongoing(down')
        /\ \A i \in DOMAIN down' : down'[i].k # "DuelCreated"
    BY <1>9, <1>10, <1>12
  <2>2. FailedCase'
    BY <1>12, <2>1 DEF FailedCase
  <2> QED
    BY <1>1, <1>2, <1>3, <1>5, <1>12, <2>1, <2>2, LobbyServed
<1>13. CASE srv = "password" /\ srv' = "lobby" /\ Say(<<L("Motd", "")>>)
  <2>1. Heard("Motd")' /\ down' \in Seq(Line) /\ Ongoing(down')
    BY <1>9, <1>10, <1>13
  <2>2. state = "LOBBY"
    BY <1>5, <1>6, <1>13 DEF LoginCase
  <2>3. LoginCase'
    BY <1>1, <1>4, <1>5, <1>13, <2>1, <2>2 DEF LoginCase, lobby
  <2> QED
    BY <1>1, <1>3, <1>5, <1>13, <2>1, <2>3, LobbyServed
<1>14. CASE srv = "lobby" /\ srv' = "room" /\ Say(<<L("Room", "")>>)
  <2>1. Heard("Room")' /\ down' \in Seq(Line) /\ Ongoing(down')
    BY <1>9, <1>10, <1>14
  <2>2. state = "ROOM_SETUP" /\ ~sentRoom /\ ~ready /\ ~guestIn /\ decks = {}
    BY <1>5, <1>6, <1>14 DEF LoginCase
  <2>3. RoomCase'
    BY <1>1, <1>4, <2>1, <2>2 DEF RoomCase, lobby
  <2> QED
    BY <1>1, <1>3, <1>5, <1>14, <2>1, <2>3, LobbyServed
<1>15. CASE srv = "decide" /\ srv' = "duel" /\ Say(<<L("DuelCreated", "")>>)
  <2>1. down' = <<L("DuelCreated", "")>> /\ down' \in Seq(Line) /\ Ongoing(down') /\ Heard("DuelCreated")'
    BY <1>9, <1>10, <1>15
  <2>2. state = "PRE_DUEL_DECISION"
    BY <1>5, <1>6, <1>15 DEF DecideCase
  <2>3. Created(down)'
    <3>1. down' # <<>> /\ Head(down').k = "DuelCreated" /\ Tail(down') = <<>>
      BY <2>1, MarkOf, OneOf, <1>10
    <3>2. parser'.mode = "scan" /\ ask' = NoMenu
      BY <1>1, <1>4, <1>5 DEF Scans, duel
    <3>3. Over(Tail(down'))
      BY <3>1 DEF Over
    <3>4. Following(Tail(down))'
      BY <3>2, <3>3 DEF Following, Over
    <3> QED
      BY <3>1, <3>4 DEF Created
  <2>4. CreatedCase'
    BY <1>4, <1>8, <2>2, <2>3 DEF CreatedCase
  <2> QED
    BY <1>1, <1>3, <1>5, <1>15, <2>1, <2>4, LobbyServed
<1> QED
  BY <1>1, <1>11, <1>12, <1>13, <1>14, <1>15

(* Ties, and who goes first.                                               *)
LEMMA ServeRpsStep == ASSUME Inv, ServeRps, state # "FINISHED" PROVE Inv'
<1>1. /\ srv = "rps" /\ up # <<>> /\ up' = Tail(up)
      /\ UNCHANGED <<client, ask, asks, decks, guestIn, rejected>>
      /\ \/ Say(<<L("Rock", "")>>) /\ UNCHANGED srv
         \/ srv' = "decide" /\ Say(<<L("Yes", "")>>)
         \/ srv' = "duel" /\ Say(<<L("Wait", ""), L("DuelCreated", "")>>)
  BY DEF ServeRps, Take
<1>2. state \notin {"DUEL", "FINISHED"}
  BY <1>1 DEF Inv, PhaseInv
<1>3. UNCHANGED <<state, lobby, duel>>
  BY <1>1 DEF client
<1>4. /\ RpsCase
      /\ guestIn \in BOOLEAN /\ decks \subseteq {"own", "guest"} /\ (guestIn => profile = "host")
      /\ ask = NoMenu /\ Scans
  BY <1>1, <1>2 DEF Inv, LobbyInv, TypeOK, AskInv
<1>5. state = "PRE_DUEL_RPS" /\ up' = <<>> /\ down = <<>>
  <2>1. state = "PRE_DUEL_RPS" /\ up = <<Rps>> /\ down = <<>>
    BY <1>1, <1>4 DEF RpsCase, Heard
  <2>2. \A c : Tail(<<c>>) = <<>>
    OBVIOUS
  <2> QED
    BY <1>1, <2>1, <2>2
<1>6. "Rock" \in Kinds /\ "Yes" \in Kinds /\ "Wait" \in Kinds /\ "DuelCreated" \in Kinds
  BY DEF Kinds
<1>7. CASE Say(<<L("Rock", "")>>) /\ UNCHANGED srv
  <2>1. down' = <<L("Rock", "")>> /\ down' \in Seq(Line) /\ Ongoing(down')
    BY <1>5, <1>6, <1>7, SaidOne
  <2>2. RpsCase'
    BY <1>3, <1>5, <2>1 DEF RpsCase, Heard
  <2> QED
    BY <1>1, <1>2, <1>4, <1>7, <2>1, <2>2, LobbyServed
<1>8. CASE srv' = "decide" /\ Say(<<L("Yes", "")>>)
  <2>1. down' = <<L("Yes", "")>> /\ down' \in Seq(Line) /\ Ongoing(down')
    BY <1>5, <1>6, <1>8, SaidOne
  <2>2. DecideCase'
    BY <1>3, <1>5, <2>1 DEF DecideCase, Heard
  <2> QED
    BY <1>1, <1>2, <1>4, <1>8, <2>1, <2>2, LobbyServed
<1>9. CASE srv' = "duel" /\ Say(<<L("Wait", ""), L("DuelCreated", "")>>)
  <2>1. /\ L("Wait", "") \in Line /\ L("Wait", "").k = "Wait"
        /\ L("DuelCreated", "") \in Line /\ L("DuelCreated", "").k = "DuelCreated"
        /\ <<L("DuelCreated", "")>> \in Seq(Line)
    BY <1>6, MarkOf
  <2>2. PICK w : w = L("Wait", "")
    OBVIOUS
  <2>3. PICK d : d = L("DuelCreated", "")
    OBVIOUS
  <2> DEFINE q == <<d>>
             p == <<w>> \o q
  <2>4. q \in Seq(Line) /\ q # <<>> /\ Head(q) = d /\ Tail(q) = <<>>
    <3>1. d \in Line
      BY <2>1, <2>3
    <3> QED
      BY <3>1, OneOf
  <2>5. p \in Seq(Line) /\ Ongoing(p)
    <3>1. /\ <<w>> \in Seq(Line) /\ Ongoing(<<w>>) /\ Ongoing(<<d>>) /\ <<d>> \in Seq(Line)
      <4>1. w \in Line /\ d \in Line /\ w.k # "end" /\ d.k # "end"
        BY <2>1, <2>2, <2>3
      <4> QED
        BY <4>1, OneOf, OngoingOf
    <3> QED
      BY <3>1, OngoingJoin
  <2>6. p # <<>> /\ Head(p) = w /\ Tail(p) = q
    <3>1. "Wait" # "usable"
      OBVIOUS
    <3> HIDE DEF q
    <3> QED
      BY <1>6, <2>2, <2>4, <3>1, Headed
  <2>7. p = <<w, d>>
    BY <2>1, <2>2, <2>3, TwoOf
  <2>8. down' = p
    <3>1. Say(p)
      BY <1>9, <2>2, <2>3, <2>7
    <3> HIDE DEF p
    <3> QED
      BY <1>5, <2>5, <3>1, SayOf
  <2> HIDE DEF p, q
  <2>9. parser'.mode = "scan" /\ ask' = NoMenu
    BY <1>1, <1>3, <1>4 DEF Scans, duel
  <2>10. Created(q)'
    <3>1. Over(Tail(q))
      BY <2>4 DEF Over
    <3>2. Following(Tail(q))'
      BY <2>9, <3>1 DEF Following
    <3> QED
      BY <2>1, <2>3, <2>4, <3>2 DEF Created
  <2>11. Created(Tail(down))'
    BY <2>6, <2>8, <2>10, CreatedNamed
  <2>12. CreatedCase'
    BY <1>3, <1>5, <2>1, <2>2, <2>6, <2>8, <2>11 DEF CreatedCase
  <2>13. down' \in Seq(Line) /\ Ongoing(down')
    BY <2>5, <2>8
  <2> QED
    BY <1>1, <1>2, <1>4, <1>9, <2>12, <2>13, LobbyServed
<1> QED
  BY <1>1, <1>7, <1>8, <1>9

(* What the server takes of the room's commands.                           *)
LEMMA RoomTaken ==
  ASSUME NEW r \in HostRoom \cup GuestRoom, up = r \o Start, up' = Tail(up)
  PROVE  /\ up # <<>>
         /\ \/ r = <<C("banlist"), C("finish"), C("move"), C("deck")>> /\ Head(up) = C("banlist")
                 /\ up' = <<C("finish"), C("move"), C("deck")>> \o Start
            \/ r = <<C("finish"), C("move"), C("deck")>> /\ Head(up) = C("finish")
                 /\ up' = <<C("move"), C("deck")>> \o Start
            \/ r = <<C("move"), C("deck")>> /\ Head(up) = C("move")
                 /\ up' = <<C("deck")>> \o Start
            \/ r = <<C("deck")>> /\ Head(up) = C("deck") /\ up' = Start
<1>1. \A a, b, c, d \in Room :
        /\ <<a, b, c, d>> # <<>> /\ Head(<<a, b, c, d>>) = a /\ Tail(<<a, b, c, d>>) = <<b, c, d>>
        /\ <<a, b, c>> # <<>> /\ Head(<<a, b, c>>) = a /\ Tail(<<a, b, c>>) = <<b, c>>
        /\ <<a, b>> # <<>> /\ Head(<<a, b>>) = a /\ Tail(<<a, b>>) = <<b>>
        /\ <<a>> # <<>> /\ Head(<<a>>) = a /\ Tail(<<a>>) = <<>>
  OBVIOUS
<1>2. {C("banlist"), C("finish"), C("move"), C("deck")} \subseteq Room
  BY DEF Room
<1>3. r \in Seq(Room) /\ Start \in Seq(Room) /\ <<>> \o Start = Start
  BY RoomCommandsOf, CommandsJoin
<1>4. r # <<>> =>
        r \o Start # <<>> /\ Head(r \o Start) = Head(r) /\ Tail(r \o Start) = Tail(r) \o Start
  BY <1>3, CommandsJoin
<1>5. CASE r = <<C("banlist"), C("finish"), C("move"), C("deck")>>
  <2>1. r # <<>> /\ Head(r) = C("banlist") /\ Tail(r) = <<C("finish"), C("move"), C("deck")>>
    BY <1>1, <1>2, <1>5
  <2> QED
    BY <1>4, <1>5, <2>1
<1>6. CASE r = <<C("finish"), C("move"), C("deck")>>
  <2>1. r # <<>> /\ Head(r) = C("finish") /\ Tail(r) = <<C("move"), C("deck")>>
    BY <1>1, <1>2, <1>6
  <2> QED
    BY <1>4, <1>6, <2>1
<1>7. CASE r = <<C("move"), C("deck")>>
  <2>1. r # <<>> /\ Head(r) = C("move") /\ Tail(r) = <<C("deck")>>
    BY <1>1, <1>2, <1>7
  <2> QED
    BY <1>4, <1>7, <2>1
<1>8. CASE r = <<C("deck")>>
  <2>1. r # <<>> /\ Head(r) = C("deck") /\ Tail(r) = <<>>
    BY <1>1, <1>2, <1>8
  <2> QED
    BY <1>3, <1>4, <1>8, <2>1
<1> QED
  BY <1>5, <1>6, <1>7, <1>8 DEF HostRoom, GuestRoom

(* One more line in the room.                                              *)
LEMMA RoomSaid ==
  ASSUME down \in Seq(Line), Ongoing(down), AllOf(down, {"DeckOk", "DeckLoaded"}),
         NEW k \in {"DeckOk", "DeckLoaded", "RoomFailed", "Rock"}, Say(<<L(k, "")>>)
  PROVE  /\ down' \in Seq(Line) /\ Ongoing(down')
         /\ k \in {"DeckOk", "DeckLoaded"} => AllOf(down', {"DeckOk", "DeckLoaded"})
         /\ k = "DeckOk" => Said(down', "DeckLoaded") = Said(down, "DeckLoaded")
         /\ k = "Rock" => Ends(down', {"DeckOk", "DeckLoaded"}, "Rock")
         /\ \A i \in DOMAIN down' : down'[i].k # "DuelCreated"
<1> DEFINE l == L(k, "")
           q == <<l>>
           K == {"DeckOk", "DeckLoaded"}
<1>1. k \in Kinds /\ k # "usable" /\ k # "end"
  BY DEF Kinds
<1>2. l \in Line /\ l.k = k
  BY <1>1, MarkOf
<1>3. down' = down \o q
  BY DEF Say
<1> HIDE DEF l
<1>4. /\ q \in Seq(Line) /\ Ongoing(q)
      /\ \A M : k \in M => AllOf(q, M)
      /\ \A j : Said(q, j) = IF k = j THEN {l.x} ELSE {}
      /\ k = "Rock" => Ends(q, K, "Rock")
  <2>1. q \in Seq(Line) /\ Ongoing(q)
    BY <1>1, <1>2, OneOf, OngoingOf
  <2>2. \A M : k \in M => AllOf(q, M)
    BY <1>2, OneOf
  <2>3. \A j : Said(q, j) = IF k = j THEN {l.x} ELSE {}
    BY <1>2, OneOf
  <2>4. \A M : Ends(q, M, k)
    BY <1>2, OneOf
  <2> QED
    BY <2>1, <2>2, <2>3, <2>4
<1> HIDE DEF q
<1>5. down' \in Seq(Line) /\ Ongoing(down')
  BY <1>3, <1>4, OngoingJoin
<1>6. AllOf(q, K) => AllOf(down', K)
  BY <1>3, <1>4, KindsJoin
<1>7. \A j : Said(down', j) = Said(down, j) \cup Said(q, j)
  <2>1. \A j : Said(down \o q, j) = Said(down, j) \cup Said(q, j)
    BY <1>4, SaidJoin
  <2> QED
    BY <1>3, <2>1
<1>8. Ends(q, K, "Rock") => Ends(down', K, "Rock")
  BY <1>3, <1>4, KindsJoin
<1>9. \A i \in DOMAIN down' : down'[i].k # "DuelCreated"
  <2> DEFINE M == {"DeckOk", "DeckLoaded", "RoomFailed", "Rock"}
  <2>1. AllOf(down, M) /\ AllOf(q, M)
    BY <1>4 DEF AllOf
  <2> HIDE DEF M
  <2>2. AllOf(down', M)
    BY <1>3, <1>4, <2>1, KindsJoin
  <2> QED
    BY <2>2 DEF AllOf, M
<1> QED
  BY <1>4, <1>5, <1>6, <1>7, <1>8, <1>9

(* The room.                                                               *)
LEMMA ServeRoomStep == ASSUME Inv, ServeRoom, state # "FINISHED" PROVE Inv'
<1>1. srv = "room" /\ UNCHANGED <<client, ask, asks, ties>>
  BY DEF ServeRoom
<1>2. state \notin {"DUEL", "FINISHED"}
  BY <1>1 DEF Inv, PhaseInv
<1>3. UNCHANGED <<state, lobby, duel>>
  BY <1>1 DEF client
<1>4. /\ RoomCase /\ state = "ROOM_SETUP" /\ profile \in {"host", "guest"}
      /\ guestIn \in BOOLEAN /\ decks \subseteq {"own", "guest"} /\ (guestIn => profile = "host")
      /\ ready => profile = "host" /\ "guest" \in decks
      /\ down \in Seq(Line) /\ Ongoing(down)
  BY <1>1, <1>2 DEF Inv, LobbyInv, TypeOK, Typed, PhaseInv, Ongoing, RoomCase
<1>5. UNCHANGED <<profile, sentRoom, ready>> /\ Start' = Start
  BY <1>3 DEF lobby, Start
<1>6. HostRoom' = HostRoom /\ GuestRoom' = GuestRoom
  BY DEF HostRoom, GuestRoom
<1>7. \A x : C(x).x = x
  BY DEF C, L
<1>8. SUFFICES ASSUME sentRoom, Loading PROVE Inv'
  <2>1. CASE ~sentRoom
    <3>1. up = <<>> /\ ~guestIn /\ decks = {}
      BY <1>4, <2>1 DEF RoomCase, Heard
    <3> QED
      BY <3>1 DEF ServeRoom, Take
  <2> QED
    BY <1>4, <1>8, <2>1 DEF RoomCase
<1>9. /\ AllOf(down, {"DeckOk", "DeckLoaded"})
      /\ Said(down, "DeckLoaded") # {} => "guest" \in decks
  BY <1>8 DEF Loading
<1>10. CASE /\ up # <<>> /\ up' = Tail(up)
            /\ \/ /\ Head(up).x \in {"banlist", "move", "finish"}
                  /\ guestIn' = (guestIn \/ Head(up).x = "finish")
                  /\ UNCHANGED <<srv, decks, rejected, down>>
               \/ /\ Head(up).x = "deck" /\ decks' = decks \cup {"own"}
                  /\ Say(<<L("DeckOk", "")>>) /\ UNCHANGED <<srv, guestIn, rejected>>
               \/ /\ Head(up).x = "deck" /\ srv' = "closed"
                  /\ Say(<<L("RoomFailed", "")>>) /\ UNCHANGED <<decks, guestIn, rejected>>
               \/ /\ Head(up).x = "start" /\ rejected' = (rejected \/ decks # {"own", "guest"})
                  /\ srv' = "rps" /\ Say(<<L("Rock", "")>>) /\ UNCHANGED <<decks, guestIn>>
  <2>2. CASE "own" \in decks /\ up = Start
    <3>1. ready /\ Head(up) = C("start") /\ up' = <<>>
      <4>1. \A c : Head(<<c>>) = c /\ Tail(<<c>>) = <<>>
        OBVIOUS
      <4> QED
        BY <1>10, <2>2, <4>1 DEF Start
    <3>2. Head(up).x = "start"
      BY <1>7, <3>1
    <3>3. decks = {"own", "guest"}
      BY <1>4, <2>2, <3>1
    <3>4. UNCHANGED <<decks, guestIn>> /\ rejected' = rejected /\ srv' = "rps" /\ Say(<<L("Rock", "")>>)
      BY <1>10, <3>2, <3>3 DEF Inv, TypeOK
    <3>5. down' \in Seq(Line) /\ Ongoing(down') /\ Ends(down', {"DeckOk", "DeckLoaded"}, "Rock")
      BY <1>4, <1>9, <3>4, RoomSaid
    <3>6. RpsCase'
      BY <1>3, <1>4, <1>5, <1>8, <3>1, <3>5 DEF RpsCase
    <3> QED
      BY <1>1, <1>2, <1>4, <3>4, <3>5, <3>6, LobbyServed
  <2>3. CASE /\ "own" \notin decks
             /\ \/ profile = "host" /\ \E r \in HostRoom : up = r \o Start
                \/ \E r \in GuestRoom : up = r \o Start
    <3>1. PICK r \in HostRoom \cup GuestRoom : up = r \o Start /\ (r \in HostRoom => profile = "host")
      <4>1. CASE profile = "host" /\ \E r \in HostRoom : up = r \o Start
        BY <4>1
      <4>2. CASE \E r \in GuestRoom : up = r \o Start
        <5>1. \A r \in GuestRoom : r \notin HostRoom
          <6>1. \A a, b, c, d : <<a, b, c, d>> # <<c, d>> /\ <<a, b, c, d>> # <<d>>
                                /\ <<b, c, d>> # <<c, d>> /\ <<b, c, d>> # <<d>>
            OBVIOUS
          <6> QED
            BY <6>1 DEF GuestRoom, HostRoom
        <5> QED
          BY <4>2, <5>1
      <4> QED
        BY <2>3, <4>1, <4>2
    <3>2. \/ Head(up) = C("banlist") /\ profile = "host"
               /\ up' = <<C("finish"), C("move"), C("deck")>> \o Start
          \/ Head(up) = C("finish") /\ profile = "host"
               /\ up' = <<C("move"), C("deck")>> \o Start
          \/ Head(up) = C("move") /\ up' = <<C("deck")>> \o Start
          \/ Head(up) = C("deck") /\ up' = Start
      BY <1>10, <3>1, RoomTaken DEF HostRoom
    <3>3. CASE /\ Head(up).x \in {"banlist", "move", "finish"}
               /\ guestIn' = (guestIn \/ Head(up).x = "finish")
               /\ UNCHANGED <<srv, decks, rejected, down>>
      <4>1. \/ profile = "host" /\ \E s \in HostRoom : up' = s \o Start
            \/ \E s \in GuestRoom : up' = s \o Start
        <5>1. Head(up) # C("deck")
          BY <1>7, <3>3
        <5>2. /\ <<C("finish"), C("move"), C("deck")>> \in HostRoom
              /\ <<C("move"), C("deck")>> \in GuestRoom /\ <<C("deck")>> \in GuestRoom
          BY DEF HostRoom, GuestRoom
        <5> QED
          BY <3>2, <5>1, <5>2
      <4>2. guestIn' => profile = "host"
        BY <1>4, <1>7, <3>2, <3>3
      <4>3. Loading'
        BY <1>5, <1>6, <1>9, <2>3, <3>3, <4>1 DEF Loading
      <4>4. RoomCase'
        BY <1>3, <1>4, <1>5, <1>8, <4>3 DEF RoomCase
      <4>5. guestIn' \in BOOLEAN
        BY <1>4, <3>3
      <4> QED
        BY <1>1, <1>2, <1>4, <3>3, <4>2, <4>4, <4>5, LobbyServed
    <3>4. CASE /\ Head(up).x = "deck" /\ decks' = decks \cup {"own"}
               /\ Say(<<L("DeckOk", "")>>) /\ UNCHANGED <<srv, guestIn, rejected>>
      <4>1. up' = Start
        <5>1. Head(up) \notin {C("banlist"), C("finish"), C("move")}
          <6>1. C("banlist").x # "deck" /\ C("finish").x # "deck" /\ C("move").x # "deck"
            BY <1>7
          <6> QED
            BY <3>4, <6>1
        <5> QED
          BY <3>2, <5>1
      <4>2. /\ down' \in Seq(Line) /\ Ongoing(down') /\ AllOf(down', {"DeckOk", "DeckLoaded"})
            /\ Said(down', "DeckLoaded") = Said(down, "DeckLoaded")
        BY <1>4, <1>9, <3>4, RoomSaid
      <4>3. Loading'
        BY <1>5, <1>9, <3>4, <4>1, <4>2 DEF Loading
      <4>4. RoomCase'
        BY <1>3, <1>4, <1>5, <1>8, <4>3 DEF RoomCase
      <4>5. decks' \subseteq {"own", "guest"} /\ decks \subseteq decks'
        BY <1>4, <3>4
      <4> QED
        BY <1>1, <1>2, <1>4, <3>4, <4>2, <4>4, <4>5, LobbyServed
    <3>5. CASE /\ Head(up).x = "deck" /\ srv' = "closed"
               /\ Say(<<L("RoomFailed", "")>>) /\ UNCHANGED <<decks, guestIn, rejected>>
      <4>1. down' \in Seq(Line) /\ Ongoing(down') /\ \A i \in DOMAIN down' : down'[i].k # "DuelCreated"
        BY <1>4, <1>9, <3>5, RoomSaid
      <4>2. FailedCase'
        BY <3>5, <4>1 DEF FailedCase
      <4> QED
        BY <1>1, <1>2, <1>4, <3>5, <4>1, <4>2, LobbyServed
    <3>6. Head(up).x # "start"
      BY <1>7, <3>2
    <3> QED
      BY <1>10, <3>3, <3>4, <3>5, <3>6
  <2> QED
    BY <1>8, <2>2, <2>3 DEF Loading
<1>11. CASE /\ guestIn /\ "guest" \notin decks /\ decks' = decks \cup {"guest"}
            /\ Say(<<L("DeckLoaded", "")>>) /\ UNCHANGED <<srv, guestIn, rejected, up>>
  <2>1. /\ down' \in Seq(Line) /\ Ongoing(down') /\ AllOf(down', {"DeckOk", "DeckLoaded"})
    BY <1>4, <1>9, <1>11, RoomSaid
  <2>2. "own" \in decks' <=> "own" \in decks
    BY <1>11
  <2>3. Loading'
    BY <1>5, <1>6, <1>8, <1>11, <2>1, <2>2 DEF Loading
  <2>4. RoomCase'
    BY <1>3, <1>4, <1>5, <1>8, <2>3 DEF RoomCase
  <2>5. decks' \subseteq {"own", "guest"} /\ decks \subseteq decks'
    BY <1>4, <1>11
  <2> QED
    BY <1>1, <1>2, <1>4, <1>11, <2>1, <2>4, <2>5, LobbyServed
<1>12. CASE /\ profile = "guest" /\ "own" \in decks /\ srv' = "rps"
            /\ Say(<<L("Rock", "")>>) /\ UNCHANGED <<decks, guestIn, rejected, up>>
  <2>1. down' \in Seq(Line) /\ Ongoing(down') /\ Ends(down', {"DeckOk", "DeckLoaded"}, "Rock")
    BY <1>4, <1>9, <1>12, RoomSaid
  <2>2. up = <<>>
    BY <1>4, <1>8, <1>12 DEF Loading, Start
  <2>3. RpsCase'
    BY <1>3, <1>4, <1>5, <1>8, <1>12, <2>1, <2>2 DEF RpsCase
  <2> QED
    BY <1>1, <1>2, <1>4, <1>12, <2>1, <2>3, LobbyServed
<1> QED
  BY <1>10, <1>11, <1>12 DEF ServeRoom, Take

-----------------------------------------------------------------------------
(* The invariant.                                                          *)

(* At first the server asks for the nickname.                              *)
LEMMA InvInit == Init => Inv
<1> SUFFICES ASSUME Init PROVE Inv
  OBVIOUS
<1>1. /\ parser = [mode |-> "scan", opts |-> {}, idle |-> FALSE] /\ parser.mode = "scan"
      /\ parser \in [mode : {"scan"} \cup DOMAIN Terminal, opts : SUBSET Names, idle : BOOLEAN]
  BY DEF Init, Scanning
<1>2. /\ L("Nickname", "") \in Line /\ L("Nickname", "").k = "Nickname"
      /\ down = <<L("Nickname", "")>> /\ down \in Seq(Line) /\ Ongoing(down)
  <2>1. "Nickname" \in Kinds /\ "Nickname" # "end"
    BY DEF Kinds
  <2>2. down = <<L("Nickname", "")>>
    BY DEF Init
  <2>3. <<L("Nickname", "")>> \in Seq(Line) /\ Ongoing(<<L("Nickname", "")>>)
    BY <2>1, MarkOf, OngoingOf
  <2> QED
    BY <2>1, <2>2, <2>3, MarkOf
<1>3. NoMenu.p = "none" /\ ask = NoMenu
  BY DEF Init, NoMenu
<1>4. ask \in [p : {"none", "ask"} \cup Idles \cup Battles,
               usable : SUBSET (Letters \X Specs), phases : SUBSET Letters, x : Names]
  BY <1>3, NothingAsked
<1>5. Typed
  BY <1>1, <1>2, <1>4 DEF Typed
<1>6. AskInv
  BY <1>3 DEF AskInv, Idles, Battles
<1>7. TypeOK
  <2>1. ix \in DOMAIN InfoCmds
    <3>1. 1 \in DOMAIN InfoCmds
      BY MudClientAssumption
    <3> QED
      BY <3>1 DEF Init
  <2> QED
    BY <1>1, <1>3, <2>1, States DEF Init, TypeOK, Reading
<1>8. PhaseInv
  BY <1>2 DEF Init, PhaseInv, Reading, Ongoing
<1>9. LobbyInv
  BY <1>1, States DEF Init, LobbyInv, LoginCase, Heard, Clear, Scans
<1>10. DuelInv
  BY DEF Init, DuelInv
<1> QED
  BY <1>5, <1>6, <1>7, <1>8, <1>9, <1>10 DEF Inv

(* Nothing happens.                                                        *)
LEMMA InvStutters == ASSUME Inv, UNCHANGED vars PROVE Inv'
<1>1. UNCHANGED <<state, up, down, profile, sentRoom, ready, srv, ask, asks, ties, decks, guestIn,
                  rejected>>
  BY DEF vars, lobby, server
<1>2. UNCHANGED <<pending, pc, parser, held, outer, ix, offered, chosen, letters, strayed>>
  BY DEF vars, duel
<1>3. TypeOK' /\ Typed' /\ AskInv' /\ PhaseInv'
  BY <1>1, <1>2 DEF Inv, TypeOK, Typed, AskInv, PhaseInv, Refused, Scans
<1>4. \A q : Following(q)' <=> Following(q)
  BY <1>1, <1>2 DEF Following, Opening, Opts
<1>5. Following(down)' <=> Following(down)
  BY <1>1, <1>2 DEF Following, Opening, Opts
<1>6. LobbyInv'
  <2>1. CreatedCase => CreatedCase'
    BY <1>1, <1>2 DEF CreatedCase, Created, Following, Opening, Opts
  <2>2. /\ LoginCase => LoginCase'
        /\ RoomCase => RoomCase'
        /\ RpsCase => RpsCase'
        /\ DecideCase => DecideCase'
        /\ FailedCase => FailedCase'
    BY <1>1, <1>2 DEF LoginCase, RoomCase, RpsCase, DecideCase, FailedCase, Heard, Sent, Loading,
                      Start, HostRoom, GuestRoom
  <2> QED
    BY <1>1, <1>2, <2>1, <2>2 DEF Inv, LobbyInv, Clear, Scans
<1>7. DuelInv'
  <2>1. \A p : Shows(p)' <=> Shows(p)
    BY <1>1 DEF Shows, Opts
  <2>2. \A type : Handling(type)' <=> Handling(type)
    BY <1>1, <1>2 DEF Handling, Shows, Opts
  <2>3. /\ Quiet' <=> Quiet
        /\ Scans' <=> Scans
        /\ Clear' <=> Clear
        /\ \A x : Asked(x)' <=> Asked(x)
        /\ \A K, t : Told(K, t)' <=> Told(K, t)
    BY <1>1, <1>2 DEF Quiet, Scans, Clear, Asked, Told
  <2>4. \A x : ListAsked(x)' <=> ListAsked(x)
    BY <1>1, <1>2 DEF ListAsked, Opts, Asked, Scans
  <2>5. \A x : ListTold(x)' <=> ListTold(x)
    BY <1>1, <1>2 DEF ListTold, Scans
  <2>6. \A c : Final(c)' <=> Final(c)
    BY <1>1 DEF Final, LettersOf
  <2>7. RunCase => RunCase'
    BY <1>1, <1>2, <1>5, <2>3 DEF RunCase, Final, LettersOf
  <2>8. AnswerCase => AnswerCase'
    BY <1>1, <1>2, <2>3 DEF AnswerCase
  <2>9. InfoCase => InfoCase'
    BY <1>1, <1>2, <2>3 DEF InfoCase, Shows, Opts
  <2>10. ResyncCase => ResyncCase'
    BY <1>1, <1>2, <2>3 DEF ResyncCase, Shows, Opts, Asked
  <2>11. ProbeCase => ProbeCase'
    BY <1>1, <1>2, <2>2, <2>3 DEF ProbeCase
  <2>12. DecisionCase => DecisionCase'
    BY <1>1, <1>2, <2>3 DEF DecisionCase, Handling, Shows, Opts
  <2>13. SubmenuCase => SubmenuCase'
    BY <1>1, <1>2, <2>3 DEF SubmenuCase, LettersOf, Asked
  <2>14. /\ ListCase("a", {}) => ListCase("a", {})'
         /\ ListCase("c", With("a")) => ListCase("c", With("a"))'
    BY <1>1, <1>2, <2>2, <2>4, <2>5 DEF ListCase, Listed, With
  <2>15. /\ DiscardCase("a", {}) => DiscardCase("a", {})'
         /\ DiscardCase("c", With("a")) => DiscardCase("c", With("a"))'
    BY <1>1, <1>2, <2>2, <2>3 DEF DiscardCase, With
  <2>16. \A x : ExecCase(x) => ExecCase(x)'
    BY <1>1, <1>2, <2>4, <2>5 DEF ExecCase
  <2> QED
    BY <1>1, <1>2, <2>7, <2>8, <2>9, <2>10, <2>11, <2>12, <2>13, <2>14, <2>15, <2>16
       DEF Inv, DuelInv
<1> QED
  BY <1>3, <1>6, <1>7 DEF Inv

(* Every step of the bot keeps the invariant, or goes astray.              *)
LEMMA BotStep == ASSUME Inv, ClientNext PROVE Inv' \/ strayed'
<1>1. Terminal[ListMode("a")] = "selectCard" /\ Terminal[ListMode("c")] = "enterText"
  BY DEF Terminal, ListMode
<1>2. CASE SendInfo
  BY <1>2, SendInfoStep
<1>3. CASE Resume
  BY <1>3, ResumeStep
<1>4. CASE Answer
  BY <1>4, AnswerStep
<1>5. CASE Decide
  BY <1>5, DecideStep
<1>6. CASE SeeEnd
  BY <1>6, SeeEndStep
<1>7. CASE ProbeAttack
  <2>1. ProbeMenu("probeAttack", "a", Terminal[ListMode("a")], "discardAttack")
    BY <1>1, <1>7 DEF ProbeAttack
  <2> QED
    BY <2>1, ProbeMenuStep
<1>8. CASE ProbeActivate
  <2>1. ProbeMenu("probeActivate", "c", Terminal[ListMode("c")], "discardActivate")
    BY <1>1, <1>8 DEF ProbeActivate
  <2> QED
    BY <2>1, ProbeMenuStep
<1>9. CASE ExecAttack
  <2>1. Execute("execAttack", Terminal[ListMode("a")])
    BY <1>1, <1>9 DEF ExecAttack
  <2> QED
    BY <2>1, ExecuteStep
<1>10. CASE ExecActivate
  <2>1. Execute("execActivate", Terminal[ListMode("c")])
    BY <1>1, <1>10 DEF ExecActivate
  <2> QED
    BY <2>1, ExecuteStep
<1>11. CASE \E l \in First(down) :
              Dispatch(l) \/ HandleDuel(l) \/ Resync(l) \/ Probe(l) \/ Discard(l) \/ Submenu(l)
  BY <1>11, DispatchStep, HandleDuelStep, ResyncStep, ProbeStep, DiscardStep, SubmenuStep
<1> QED
  BY <1>2, <1>3, <1>4, <1>5, <1>6, <1>7, <1>8, <1>9, <1>10, <1>11 DEF ClientNext

(* So does every step of the server, and the end.                          *)
LEMMA InvStep == Inv /\ [Next]_vars => Inv' \/ strayed'
<1> SUFFICES ASSUME Inv, [Next]_vars PROVE Inv' \/ strayed'
  OBVIOUS
<1>1. CASE ClientNext
  BY <1>1, BotStep
<1>2. CASE ServerNext /\ state # "FINISHED"
  <2>1. CASE ServeLogin
    BY <1>2, <2>1, ServeLoginStep
  <2>2. CASE ServeRoom
    BY <1>2, <2>2, ServeRoomStep
  <2>3. CASE ServeRps
    BY <1>2, <2>3, ServeRpsStep
  <2>4. CASE Engine
    BY <1>2, <2>4, EngineStep
  <2>5. CASE ServeDuel
    BY <1>2, <2>5, ServeDuelStep
  <2>6. CASE End
    BY <1>2, <2>6, EndStep
  <2> QED
    BY <1>2, <2>1, <2>2, <2>3, <2>4, <2>5, <2>6 DEF ServerNext
<1>3. CASE UNCHANGED vars
  BY <1>3, InvStutters
<1> QED
  BY <1>1, <1>2, <1>3 DEF Next, Terminated

(* Only the end of the duel takes the bot out of it, and it says nothing.  *)
LEMMA Leaves == ASSUME Inv, state = "DUEL", [Next]_vars PROVE state' = "DUEL" \/ up' = up
<1>1. CASE SendInfo \/ Resume \/ Answer \/ Decide
  BY <1>1 DEF SendInfo, Resume, Answer, Decide
<1>2. CASE SeeEnd
  BY <1>2 DEF SeeEnd
<1>3. \A at, l : Hear(at, l) => state' = "DUEL"
  BY DEF Hear
<1>4. CASE ProbeAttack \/ ProbeActivate
  BY <1>3, <1>4 DEF ProbeAttack, ProbeActivate, ProbeMenu
<1>5. CASE ExecAttack \/ ExecActivate
  BY <1>3, <1>5 DEF ExecAttack, ExecActivate, Execute
<1>6. ASSUME NEW l \in First(down), Dispatch(l) PROVE FALSE
  <2>1. state \in DOMAIN Failures
    BY <1>6 DEF Dispatch
  <2> QED
    BY <2>1, States
<1>7. ASSUME NEW l \in First(down), Discard(l) PROVE state' = "DUEL"
  BY <1>7 DEF Discard
<1>8. ASSUME NEW l \in First(down), HandleDuel(l) \/ Resync(l) \/ Probe(l) \/ Submenu(l)
      PROVE  state' = "DUEL"
  BY <1>3, <1>8 DEF HandleDuel, Resync, Probe, Submenu
<1>9. CASE ClientNext
  BY <1>1, <1>2, <1>4, <1>5, <1>6, <1>7, <1>8, <1>9 DEF ClientNext
<1>10. CASE ServerNext
  BY <1>10 DEF ServerNext, ServeLogin, ServeRoom, ServeRps, Engine, ServeDuel, End, client
<1>11. CASE UNCHANGED vars
  BY <1>11 DEF vars
<1> QED
  BY <1>9, <1>10, <1>11 DEF Next, Terminated

(* What a bot that has just sent a command has not read.                   *)
LEMMA Unread ==
  ASSUME Inv, state = "DUEL"
  PROVE  /\ Len(up) \in {0, 1}
         /\ Len(up) = 1 => \A i \in DOMAIN down : down[i].k = "end"
<1>1. /\ up = <<>> \/ up = <<Head(up)>>
      /\ up # <<>> => Over(down)
  BY Waiting
<1>2. /\ Len(<<>>) = 0
      /\ \A c : Len(<<c>>) = 1
  OBVIOUS
<1>3. Len(up) \in {0, 1}
  BY <1>1, <1>2
<1>4. Len(up) = 1 => up # <<>>
  BY <1>2
<1> QED
  BY <1>1, <1>3, <1>4 DEF Over

-----------------------------------------------------------------------------
(* The properties.                                                         *)

(* A bot that has gone astray stays so.                                    *)
LEMMA StaysAstray == strayed /\ [Next]_vars => strayed'
<1> SUFFICES ASSUME strayed, [Next]_vars PROVE strayed'
  OBVIOUS
<1>1. CASE SendInfo \/ Resume \/ Answer \/ Decide
  BY <1>1 DEF SendInfo, Resume, Answer, Decide
<1>2. CASE SeeEnd
  BY <1>2 DEF SeeEnd, duel
<1>3. \A at, l : Hear(at, l) => strayed'
  BY DEF Hear
<1>4. CASE ProbeAttack \/ ProbeActivate
  BY <1>3, <1>4 DEF ProbeAttack, ProbeActivate, ProbeMenu
<1>5. CASE ExecAttack \/ ExecActivate
  BY <1>3, <1>5 DEF ExecAttack, ExecActivate, Execute
<1>6. ASSUME NEW l, Dispatch(l) PROVE strayed'
  BY <1>6 DEF Dispatch, duel
<1>7. ASSUME NEW l, Discard(l) PROVE strayed'
  BY <1>7 DEF Discard
<1>8. ASSUME NEW l, HandleDuel(l) \/ Resync(l) \/ Probe(l) \/ Submenu(l) PROVE strayed'
  BY <1>3, <1>8 DEF HandleDuel, Resync, Probe, Submenu
<1>9. CASE ClientNext
  BY <1>1, <1>2, <1>4, <1>5, <1>6, <1>7, <1>8, <1>9 DEF ClientNext
<1>10. CASE ServerNext
  BY <1>10 DEF ServerNext, ServeLogin, ServeRoom, ServeRps, Engine, ServeDuel, End, client, duel
<1>11. CASE UNCHANGED vars
  BY <1>11 DEF vars, duel
<1> QED
  BY <1>9, <1>10, <1>11 DEF Next, Terminated

(* The invariant holds of every run (run() of MUDProtocol) until it goes   *)
(* astray, if it does.                                                     *)
LEMMA InvCorrect == Spec => [](Inv \/ strayed)
<1>1. (Inv \/ strayed) /\ [Next]_vars => (Inv \/ strayed)'
  BY InvStep, StaysAstray
<1> QED
  BY <1>1, InvInit, PTL DEF Spec

(* Every step of the bot keeps the types, wherever it has gone.            *)
LEMMA ModeOf ==
  ASSUME TypeOK, NEW l
  PROVE  Parse(l).parser.mode \in {"scan"} \cup DOMAIN Terminal
<1> USE DEF TypeOK
<1>1. Parse(l).parser.mode = "scan" \/ Parse(l).parser.mode = parser.mode
        \/ Parse(l).parser.mode \in DOMAIN Terminal
  BY DEF Parse, Scan, Accumulate, Result, Header, Terminal
<1> QED
  BY <1>1

LEMMA HeardType ==
  ASSUME TypeOK, NEW at, NEW l, Hear(at, l), pc' \in Deciding \cup Reading,
         ix' \in DOMAIN InfoCmds, pending' \in BOOLEAN
  PROVE  TypeOK'
<1>1. /\ UNCHANGED <<state, lobby, server>> /\ strayed' \in BOOLEAN
      /\ parser'.mode \in {"scan"} \cup DOMAIN Terminal
  BY ModeOf DEF Hear, TypeOK
<1> QED
  BY <1>1 DEF TypeOK, lobby, server

LEMMA BotTypes == ASSUME TypeOK, ClientNext PROVE TypeOK'
<1> USE DEF TypeOK, Deciding, Reading
<1>1. \A p : Begin(p) => pc' \in Deciding \cup Reading
  BY DEF Begin, ProbeNext
<1>2. Return => pc' \in Deciding \cup Reading
  BY DEF Return
<1>3. \A opts : ProbeNext(opts) => pc' \in Deciding \cup Reading
  BY DEF ProbeNext
<1>4. CASE SendInfo
  BY <1>4 DEF SendInfo, lobby, server
<1>5. CASE Resume
  BY <1>1, <1>5 DEF Resume, lobby, server
<1>6. CASE Answer
  BY <1>2, <1>6 DEF Answer, lobby, server
<1>7. CASE Decide
  BY <1>2, <1>7 DEF Decide, lobby, server
<1>8. CASE SeeEnd
  BY <1>8 DEF SeeEnd, lobby, duel, server
<1>9. CASE ProbeAttack \/ ProbeActivate
  <2>1. PICK at, l : Hear(at, l) /\ pc' \in Deciding \cup Reading /\ UNCHANGED <<pending, ix>>
    BY <1>9 DEF ProbeAttack, ProbeActivate, ProbeMenu
  <2> QED
    BY <2>1, HeardType
<1>10. CASE ExecAttack \/ ExecActivate
  <2>1. PICK at, l : Hear(at, l) /\ pc' \in Deciding \cup Reading /\ UNCHANGED <<pending, ix>>
    BY <1>2, <1>10 DEF ExecAttack, ExecActivate, Execute
  <2> QED
    BY <2>1, HeardType
<1>11. ASSUME NEW l, Dispatch(l) PROVE TypeOK'
  <2>1. /\ UNCHANGED <<profile, duel, server>>
        /\ state' \in DOMAIN Failures \cup {"DUEL", "FINISHED"}
    BY <1>11, States DEF Dispatch
  <2>2. sentRoom' \in BOOLEAN /\ ready' \in BOOLEAN
    BY <1>11 DEF Dispatch
  <2> QED
    BY <2>1, <2>2 DEF lobby, duel, server
<1>12. ASSUME NEW l, HandleDuel(l) PROVE TypeOK'
  <2> DEFINE p == Parse(l).prompt
             turn == parser.mode = "scan" /\ l.k = "ourTurn"
  <2>1. /\ Hear("run", l)
        /\ IF p.type \in {"idle", "battle"} /\ pending
           THEN pending' = FALSE /\ pc' = "info" /\ ix' = 1
           ELSE /\ pending' = (pending \/ turn)
                /\ IF p = NoPrompt THEN UNCHANGED <<up, pc, held>> ELSE Begin(p)
                /\ UNCHANGED ix
    BY <1>12 DEF HandleDuel
  <2>2. turn \in BOOLEAN
    OBVIOUS
  <2> HIDE DEF p, turn
  <2>3. 1 \in DOMAIN InfoCmds
    BY MudClientAssumption
  <2>4. pc' \in Deciding \cup Reading /\ ix' \in DOMAIN InfoCmds /\ pending' \in BOOLEAN
    BY <1>1, <2>1, <2>2, <2>3
  <2> QED
    BY <2>1, <2>4, HeardType
<1>13. ASSUME NEW l, Resync(l) PROVE TypeOK'
  <2>1. /\ Hear("resync", l) /\ UNCHANGED pending
        /\ IF Parse(l).prompt # NoPrompt THEN Begin(Parse(l).prompt) /\ UNCHANGED ix
           ELSE CASE ~Answered(l)             -> UNCHANGED <<pc, ix>>
                  [] Answered(l) /\ LastInfo  -> pc' = "resume" /\ UNCHANGED ix
                  [] Answered(l) /\ ~LastInfo -> pc' = "info" /\ ix' = ix + 1
    BY <1>13 DEF Resync
  <2>2. ~LastInfo => ix + 1 \in DOMAIN InfoCmds
    <3>1. InfoCmds \in Seq(STRING) /\ ix \in DOMAIN InfoCmds
      BY MudClientAssumption
    <3> QED
      BY <3>1 DEF LastInfo
  <2>3. pc' \in Deciding \cup Reading /\ ix' \in DOMAIN InfoCmds
    BY <1>1, <2>1, <2>2
  <2> QED
    BY <2>1, <2>3, HeardType
<1>14. ASSUME NEW l, Probe(l) \/ Submenu(l) PROVE TypeOK'
  <2>1. PICK at : Hear(at, l) /\ pc' \in Deciding \cup Reading /\ UNCHANGED <<pending, ix>>
    BY <1>2, <1>14 DEF Probe, Submenu
  <2> QED
    BY <2>1, HeardType
<1>15. ASSUME NEW l, Discard(l) PROVE TypeOK'
  BY <1>3, <1>15 DEF Discard, lobby, server
<1> QED
  BY <1>4, <1>5, <1>6, <1>7, <1>8, <1>9, <1>10, <1>11, <1>12, <1>13, <1>14, <1>15 DEF ClientNext

(* So does every step of the server.                                       *)
LEMMA ServerTypes == ASSUME TypeOK, ServerNext PROVE TypeOK'
<1> USE DEF TypeOK, client
<1>1. CASE ServeLogin
  BY <1>1 DEF ServeLogin, lobby, duel
<1>2. CASE ServeRoom
  BY <1>2 DEF ServeRoom, lobby, duel
<1>3. CASE ServeRps
  BY <1>3 DEF ServeRps, lobby, duel
<1>4. CASE Engine
  <2>1. \/ \E u, ph : ask' = [p |-> "idle", usable |-> u, phases |-> ph, x |-> ""]
        \/ \E u, ph : ask' = [p |-> "battle", usable |-> u, phases |-> ph, x |-> ""]
        \/ \E a : ask' = [NoMenu EXCEPT !.p = "ask", !.x = a]
    BY <1>4 DEF Engine
  <2>2. ask'.p \in {"idle", "battle", "ask"}
    <3>1. CASE \E u, ph : ask' = [p |-> "idle", usable |-> u, phases |-> ph, x |-> ""]
      <4>1. PICK u, ph : ask' = [p |-> "idle", usable |-> u, phases |-> ph, x |-> ""]
        BY <3>1
      <4>2. ask'.p = "idle"
        BY ONLY <4>1
      <4> QED
        BY <4>2
    <3>2. CASE \E u, ph : ask' = [p |-> "battle", usable |-> u, phases |-> ph, x |-> ""]
      <4>1. PICK u, ph : ask' = [p |-> "battle", usable |-> u, phases |-> ph, x |-> ""]
        BY <3>2
      <4>2. ask'.p = "battle"
        BY ONLY <4>1
      <4> QED
        BY <4>2
    <3>3. CASE \E a : ask' = [NoMenu EXCEPT !.p = "ask", !.x = a]
      <4>1. PICK a : ask' = [NoMenu EXCEPT !.p = "ask", !.x = a]
        BY <3>3
      <4> QED
        BY <4>1 DEF NoMenu
    <3> QED
      BY <2>1, <3>1, <3>2, <3>3
  <2> QED
    BY <1>4, <2>2 DEF Engine, lobby, duel
<1>5. CASE ServeDuel
  <2> DEFINE P == {"none", "idle", "submenu", "battle", "list", "ask"}
             Goes == ask'.p \in P /\ rejected' \in BOOLEAN
  <2>1. /\ \A q : To(NoMenu, q) => Goes
        /\ \A q : To(ask, q) => Goes
        /\ \A q, x : To([ask EXCEPT !.p = "submenu", !.x = x], q) => Goes
        /\ \A q, x : To([ask EXCEPT !.p = "idle", !.x = x], q) => Goes
        /\ \A q, x : To([ask EXCEPT !.p = "list", !.x = x], q) => Goes
        /\ \A q, x : To([ask EXCEPT !.p = "battle", !.x = x], q) => Goes
        /\ \A line : Refuse(line) => Goes
    <3>1. \A m, q : To(m, q) => ask' = m /\ rejected' \in BOOLEAN
      BY DEF To
    <3>2. NoMenu.p \in P /\ ask.p \in P
      BY DEF NoMenu
    <3>3. \A x : /\ [ask EXCEPT !.p = "submenu", !.x = x].p \in P
                /\ [ask EXCEPT !.p = "idle", !.x = x].p \in P
                /\ [ask EXCEPT !.p = "list", !.x = x].p \in P
                /\ [ask EXCEPT !.p = "battle", !.x = x].p \in P
      OBVIOUS
    <3>4. \A line : Refuse(line) => ask' = ask /\ rejected' \in BOOLEAN
      BY DEF Refuse
    <3> HIDE DEF P
    <3> QED
      BY <3>1, <3>2, <3>3, <3>4
  <2> HIDE DEF Goes
  <2>2. \A cmd : ServeIdle(cmd) => Goes
    BY <2>1 DEF ServeIdle
  <2>3. \A cmd : ServeSubmenu(cmd) => Goes
    BY <2>1 DEF ServeSubmenu
  <2>4. \A cmd : ServeBattle(cmd) => Goes
    BY <2>1 DEF ServeBattle
  <2>5. \A cmd : ServeList(cmd) => Goes
    BY <2>1 DEF ServeList
  <2>6. \A cmd : ServeAsk(cmd) => Goes
    BY <2>1 DEF ServeAsk
  <2>7. Goes
    BY <1>5, <2>2, <2>3, <2>4, <2>5, <2>6 DEF ServeDuel
  <2> QED
    BY <1>5, <2>7 DEF ServeDuel, lobby, duel, Goes
<1>6. CASE End
  BY <1>6 DEF End, lobby, duel
<1> QED
  BY <1>1, <1>2, <1>3, <1>4, <1>5, <1>6 DEF ServerNext

(* The bot's state, its loops, its parser's modes and its position in the  *)
(* resync are the ones the code knows, also past a stray (State of         *)
(* protocol.py, ParserMode of text_parser.py).                             *)
THEOREM TypeCorrect == Spec => []TypeOK
<1>1. Init => TypeOK
  BY InvInit DEF Inv
<1>2. TypeOK /\ [Next]_vars => TypeOK'
  <2> SUFFICES ASSUME TypeOK, [Next]_vars PROVE TypeOK'
    OBVIOUS
  <2>1. CASE UNCHANGED vars
    BY <2>1 DEF vars, lobby, duel, server, TypeOK
  <2> QED
    BY <2>1, BotTypes, ServerTypes DEF Next, Terminated
<1> QED
  BY <1>1, <1>2, PTL DEF Spec

(* The server refuses no command of the bot but an answer it guessed, which*)
(* it does not repeat, whatever cards, prompts and commands there are: no  *)
(* card action that is gone, no answer with too few picks or to an earlier *)
(* prompt, no start before both decks are in; up to a stray (cmd_handler.py,*)
(* action_translator.py, _handle_room of protocol.py).                     *)
THEOREM NothingIsEverRefused == Spec => []NothingIsRefused
<1>1. Inv \/ strayed => NothingIsRefused
  BY DEF Inv, PhaseInv, Refused, NothingIsRefused
<1> QED
  BY <1>1, InvCorrect, PTL

(* The agent is offered the actions the server would accept, neither more  *)
(* nor fewer, whatever cards, effects and prompts there are, up to a stray *)
(* (_probe of IdleCmdHandler and BattleCmdHandler).                        *)
THEOREM AlwaysOffersTheMenu == Spec => []OffersTheMenu
<1>1. Inv \/ strayed => OffersTheMenu
  <2> SUFFICES ASSUME Inv, pc = "decide" PROVE Structured = Menu
    BY DEF OffersTheMenu
  <2>1. state = "DUEL"
    BY DEF Inv, PhaseInv, Reading
  <2>2. DecisionCase
    BY <2>1 DEF Inv, DuelInv
  <2> QED
    BY <2>2, OffersMenu
<1> QED
  BY <1>1, InvCorrect, PTL

(* In the duel the bot sends a command only when it has read all that has  *)
(* been said, but for the end of the duel, up to a stray (recv_line and    *)
(* send of protocol.py, in the order the handlers call them).              *)
THEOREM AlwaysInStep == Spec => InStep
<1> DEFINE V == Inv \/ strayed
           W == state = "DUEL" /\ ~strayed =>
                  /\ Len(up) \in {0, 1}
                  /\ Len(up) = 1 => \A i \in DOMAIN down : down[i].k = "end"
<1>1. V => W
  BY Unread
<1>2. V /\ [Next]_vars /\ W /\ W' =>
        [(state = "DUEL" /\ ~strayed' /\ Len(up') > Len(up)) =>
           \A i \in DOMAIN down' : down'[i].k = "end"]_vars
  <2> SUFFICES ASSUME V, [Next]_vars, W, W', state = "DUEL", ~strayed', Len(up') > Len(up)
               PROVE  \A i \in DOMAIN down' : down'[i].k = "end"
    OBVIOUS
  <2>0. ~strayed /\ Inv
    BY StaysAstray
  <2>1. Len(up) \in {0, 1}
    BY <2>0
  <2>2. up' # up
    BY <2>1
  <2>3. state' = "DUEL"
    BY <2>0, <2>2, Leaves
  <2>4. Len(up') = 1
    BY <2>1, <2>3
  <2> QED
    BY <2>3, <2>4
<1>3. Spec => []V
  BY InvCorrect
<1> HIDE DEF V, W
<1> QED
  BY <1>1, <1>2, <1>3, PTL DEF Spec, InStep
=============================================================================
