-------------------------- MODULE EventStream_proofs --------------------------
(***************************************************************************)
(* Proofs about EventStream: every variable keeps to its type, and at a    *)
(* choice the GameState, the FieldTracker and the event history tell the   *)
(* duel, for every deck, every layout, every repertoire of messages, every *)
(* byte a frame may lack and every length of a duel.                       *)
(*                                                                         *)
(* What the program knows changes only when a buffer is read, what is true *)
(* with every message, so what is true at a choice is not inductive.  Inv  *)
(* says it of the moment between: were the buffer decoded now, in any of   *)
(* the ways it may be, the GameState its messages lead to would be exact,  *)
(* and the capture right, but for what its frames have hurt.  One message  *)
(* more is then one step more of three folds and one recursion (Updated,   *)
(* Captured, HurtBy, Decodings), and the first half of the module shows    *)
(* what these are of a sequence that is one longer: a fold is a run over   *)
(* the indices (FoldRuns), two runs of the same steps agree (RunsAgree),   *)
(* by the well-foundedness of < on the naturals (NatLeast).                *)
(***************************************************************************)
EXTENDS EventStream, FiniteSetTheorems, WellFoundedInduction, TLAPS

-----------------------------------------------------------------------------
(* Types.                                                                  *)

Statuses == {"building", "solving", "solved", "negated", "disabled"}
PhaseOf  == {"none", "main", "battle"}

GS == [lp : [Seats -> Nat], turn : Nat, player : Seats, phase : PhaseOf, chain : Seq(Statuses),
       finished : BOOLEAN, count : [Seats -> [Counted -> Nat]]]

Names == Cards \cup {None}
Event == [kind : Summons \cup {"chaining", "attack", "hint"}, turn : Nat, card : Names]
Past  == {h \in Seq(Event) : Len(h) <= MaxHistory}

(* What a capture goes through: the tracker and the history.               *)
Record == [tracker : [Field -> Names], history : Past]

-----------------------------------------------------------------------------
(* Induction, from the library's theorem that < is well founded on Nat.    *)

(* A set of natural numbers has a least element.                           *)
LEMMA NatLeast ==
  ASSUME NEW T \in SUBSET Nat, T # {}
  PROVE  \E x \in T : \A y \in T : x <= y
<1> DEFINE R == {ss \in Nat \X Nat : ss[1] < ss[2]}
<1>1. IsWellFoundedOn(R, Nat)
  <2>1. R = OpToRel(<, Nat)
    BY Zenon DEF OpToRel
  <2> QED
    BY <2>1, NatLessThanWellFounded
<1>2. PICK x \in T : \A y \in T : ~ (<<y, x>> \in R)
  <2> HIDE DEF R
  <2> QED
    BY <1>1, WFMin
<1>3. \A y \in T : ~ (y < x)
  BY <1>2
<1> QED
  BY <1>3

(* A set that has 0 and every successor has every natural number.          *)
LEMMA NatSet ==
  ASSUME NEW S, 0 \in S, \A n \in Nat : n \in S => n + 1 \in S
  PROVE  Nat \subseteq S
<1> DEFINE T == {n \in Nat : n \notin S}
<1> SUFFICES ASSUME T # {} PROVE FALSE
  OBVIOUS
<1>1. PICK x \in T : \A y \in T : x <= y
  <2>1. T \in SUBSET Nat
    OBVIOUS
  <2> HIDE DEF T
  <2> QED
    BY <2>1, NatLeast
<1>2. x \in Nat /\ x # 0 /\ x - 1 \in Nat /\ x - 1 + 1 = x
  OBVIOUS
<1>3. x - 1 \in S
  BY <1>1, <1>2
<1> QED
  BY <1>1, <1>2, <1>3

(* A set of numbers up to n has a largest element.                         *)
LEMMA MaxIn ==
  ASSUME NEW n \in Nat, NEW t \in SUBSET (1 .. n), t # {}
  PROVE  Max(t) \in t /\ \A y \in t : Max(t) >= y
<1> DEFINE T == {x \in 1 .. n : \A y \in t : x >= y}
<1>1. PICK x \in T : \A y \in T : x <= y
  <2>1. T \in SUBSET Nat
    OBVIOUS
  <2>2. n \in 1 .. n /\ \A y \in t : n >= y
    <3>1. PICK y \in t : TRUE
      OBVIOUS
    <3>2. y \in 1 .. n
      OBVIOUS
    <3> QED
      BY <3>2
  <2>3. n \in T
    BY <2>2
  <2> HIDE DEF T
  <2> QED
    BY <2>1, <2>3, NatLeast
<1>2. x \in 1 .. n /\ \A y \in t : x >= y
  OBVIOUS
<1>3. x \in t
  <2> SUFFICES ASSUME x \notin t PROVE FALSE
    OBVIOUS
  <2>1. \A y \in t : y \in 1 .. n /\ y # x /\ x >= y
    BY <1>2
  <2>2. \A y \in t : x - 1 >= y /\ x - 1 \in 1 .. n
    <3> HIDE DEF T
    <3> QED
      BY <1>2, <2>1
  <2>3. x - 1 \in 1 .. n
    BY <2>2
  <2>4. x - 1 \in T
    BY <2>2, <2>3
  <2>5. x <= x - 1
    BY <1>1, <2>4
  <2> QED
    BY <1>2, <2>5
<1> QED
  BY <1>2, <1>3 DEF Max

(* The largest element of a set of numbers below n.                        *)
LEMMA MaxTop ==
  ASSUME NEW k \in Nat, NEW s \in SUBSET (1 .. k + 1), k + 1 \in s
  PROVE  Max(s) = k + 1
<1>1. \A y \in s : k + 1 >= y
  OBVIOUS
<1>2. \A x \in s : (\A y \in s : x >= y) => x = k + 1
  OBVIOUS
<1> QED
  BY <1>1, <1>2 DEF Max

(* A function on the subsets of 1 .. n may be defined by what its largest  *)
(* element adds to what the rest gives: what MapThenFoldSet does.          *)
Folded(it, n, base, step) ==
  \A s \in SUBSET (1 .. n) :
    it[s] = IF s = {} THEN base ELSE step[Max(s)][it[s \ {Max(s)}]]

(* The iterate a fold is defined by exists, over the subsets of its        *)
(* indices.                                                                *)
LEMMA FoldExists ==
  ASSUME NEW n \in Nat, NEW A, NEW base \in A, NEW step \in [1 .. n -> [A -> A]]
  PROVE  \E it \in [SUBSET (1 .. n) -> A] : Folded(it, n, base, step)
<1> DEFINE Ok(k) == \E it \in [SUBSET (1 .. k) -> A] : Folded(it, k, base, step)
           S == {k \in Nat : k <= n => Ok(k)}
<1>1. 0 \in S
  <2> DEFINE it == [s \in SUBSET (1 .. 0) |-> base]
  <2>1. 1 .. 0 = {}
    OBVIOUS
  <2>2. it \in [SUBSET (1 .. 0) -> A]
    OBVIOUS
  <2>3. Folded(it, 0, base, step)
    <3> SUFFICES ASSUME NEW s \in SUBSET (1 .. 0)
                 PROVE it[s] = IF s = {} THEN base ELSE step[Max(s)][it[s \ {Max(s)}]]
      BY DEF Folded
    <3>1. s = {} /\ it[s] = base
      BY <2>1
    <3> QED
      BY <3>1
  <2> QED
    BY <2>2, <2>3
<1>2. ASSUME NEW k \in Nat, k \in S PROVE k + 1 \in S
  <2> HIDE DEF Ok
  <2> SUFFICES ASSUME k + 1 <= n PROVE Ok(k + 1)
    OBVIOUS
  <2>0. Ok(k)
    BY <1>2
  <2> USE DEF Ok
  <2>1. PICK it \in [SUBSET (1 .. k) -> A] : Folded(it, k, base, step)
    BY <2>0
  <2> DEFINE next == [s \in SUBSET (1 .. k + 1) |->
                        IF k + 1 \in s THEN step[k + 1][it[s \ {k + 1}]] ELSE it[s]]
  <2>2. step[k + 1] \in [A -> A]
    OBVIOUS
  <2>3. \A s \in SUBSET (1 .. k + 1) :
          /\ s \ {k + 1} \in SUBSET (1 .. k)
          /\ k + 1 \notin s => s \in SUBSET (1 .. k)
    OBVIOUS
  <2>4. next \in [SUBSET (1 .. k + 1) -> A]
    <3> SUFFICES ASSUME NEW s \in SUBSET (1 .. k + 1)
                 PROVE  (IF k + 1 \in s THEN step[k + 1][it[s \ {k + 1}]] ELSE it[s]) \in A
      OBVIOUS
    <3>1. CASE k + 1 \in s
      <4>1. it[s \ {k + 1}] \in A
        BY <2>3
      <4> QED
        BY <2>2, <3>1, <4>1
    <3>2. CASE k + 1 \notin s
      BY <2>3, <3>2
    <3> QED
      BY <3>1, <3>2
  <2>5. Folded(next, k + 1, base, step)
    <3> SUFFICES ASSUME NEW s \in SUBSET (1 .. k + 1)
                 PROVE next[s] = IF s = {} THEN base ELSE step[Max(s)][next[s \ {Max(s)}]]
      BY DEF Folded
    <3>1. \A t \in SUBSET (1 .. k) : t \in SUBSET (1 .. k + 1) /\ next[t] = it[t]
      OBVIOUS
    <3>2. CASE k + 1 \in s
      <4>1. Max(s) = k + 1
        BY <3>2, MaxTop
      <4>2. next[s] = step[k + 1][it[s \ {k + 1}]]
        BY <3>2
      <4>3. next[s \ {k + 1}] = it[s \ {k + 1}]
        BY <2>3, <3>1
      <4> QED
        BY <3>2, <4>1, <4>2, <4>3
    <3>3. CASE k + 1 \notin s
      <4>1. s \in SUBSET (1 .. k)
        BY <2>3, <3>3
      <4>2. it[s] = IF s = {} THEN base ELSE step[Max(s)][it[s \ {Max(s)}]]
        BY <2>1, <4>1 DEF Folded
      <4>3. next[s] = it[s] /\ next[s \ {Max(s)}] = it[s \ {Max(s)}]
        BY <3>1, <4>1
      <4> QED
        BY <4>2, <4>3
    <3> QED
      BY <3>2, <3>3
  <2> HIDE DEF next
  <2> QED
    BY <2>4, <2>5
<1> HIDE DEF Ok
<1>3. Nat \subseteq S
  BY <1>1, <1>2, NatSet
<1>4. Ok(n)
  BY <1>3
<1> QED
  BY <1>4 DEF Ok

-----------------------------------------------------------------------------
(* Messages.                                                               *)

(* A message has the fields of its kind.                                   *)
LEMMA MessageFields ==
  ASSUME NEW m \in Message
  PROVE  /\ m.kind \in {"draw", "new_turn"} => m.player \in Seats
         /\ m.kind = "new_phase" => m.phase \in {"main", "battle"}
         /\ m.kind \in {"damage", "pay_lpcost", "recover"} => m.player \in Seats /\ m.amount \in Nat
         /\ m.kind = "lpupdate" => m.player \in Seats /\ m.lp \in Nat
         /\ m.kind = "move" => m.card \in Cards /\ m.from \in Places /\ m.to \in Places
         /\ m.kind \in Summons \cup {"pos_change", "attack"} => m.card \in Cards /\ m.place \in Field
         /\ m.kind \in {"hint", "chaining"} => m.card \in Cards
         /\ m.kind \in {"chain_solving", "chain_solved", "chain_negated", "chain_disabled"} =>
              m.link \in Nat
         /\ m.kind = "start" => m.lp \in Nat /\ m.deck \in [Seats -> Nat]
BY DEF Message, Told, Summons

(* A selection, the end and a refusal tell nothing of the duel.            *)
LEMMA EndsPlain ==
  ASSUME NEW m, Ends(m)
  PROVE  m.kind \notin Told
BY DEF Ends, Selects, Told, Summons, MenuFormat, AskFormat, PickFormat, LastFormat

(* Two kinds are stamped with another when they are parsed, and neither    *)
(* they nor the others lose anything.                                      *)
LEMMA ParsedOf ==
  ASSUME NEW m \in Message
  PROVE  /\ Parsed(m) \in Message
         /\ m.kind \in Told => Parsed(m) = m
         /\ m.kind \notin Told => Parsed(m).kind \notin Told
         /\ Ends(Parsed(m)) <=> Ends(m)
<1>1. {"select_place", "confirm_decktop"} \subseteq Kinds \ Told
  BY DEF Kinds, Selects, Told, Summons, MenuFormat, AskFormat, PickFormat, LastFormat,
         FlowFormat, PlayFormat, TableFormat
<1>2. {"select_disfield", "confirm_extratop"} \cap Told = {}
  BY DEF Told, Summons
<1>3. CASE m.kind \in {"select_disfield", "confirm_extratop"}
  <2>1. m \in [kind : {"select_disfield", "confirm_extratop"}]
    BY <1>2, <1>3 DEF Message, Told, Summons
  <2>2. Parsed(m) = [kind |-> Stamped(m.kind)]
    BY <2>1 DEF Parsed
  <2>3. Parsed(m).kind = IF m.kind = "select_disfield" THEN "select_place" ELSE "confirm_decktop"
    BY <1>3, <2>2 DEF Stamped
  <2>4. Parsed(m) \in Message
    BY <1>1, <2>2, <2>3 DEF Message
  <2>5. Ends(Parsed(m)) <=> Ends(m)
    BY <1>3, <2>3 DEF Ends, Selects, MenuFormat, AskFormat, PickFormat, LastFormat
  <2> QED
    BY <1>1, <1>2, <1>3, <2>3, <2>4, <2>5
<1>4. CASE m.kind \notin {"select_disfield", "confirm_extratop"}
  <2>1. Stamped(m.kind) = m.kind
    BY <1>4 DEF Stamped
  <2>2. Parsed(m) = m
    BY <2>1 DEF Parsed, Message
  <2> QED
    BY <2>2
<1> QED
  BY <1>3, <1>4

(* What a message does to the parts of a GameState.                        *)
LEMMA UpdatedType ==
  ASSUME NEW g \in GS, NEW m \in Message
  PROVE  Updated(g, m) \in GS
<1> DEFINE u == Updated(g, m)
<1>0. StartLP \in Nat
  BY EventStreamAssumption
<1>1. CASE m.kind = "start"
  <2>1. m.lp \in Nat /\ m.deck \in [Seats -> Nat]
    BY <1>1, MessageFields
  <2>2. u = [g EXCEPT !.lp = [s \in Seats |-> m.lp],
                      !.count = [ZeroCounts EXCEPT ![0]["deck"] = m.deck[0],
                                                   ![1]["deck"] = m.deck[1]]]
    BY <1>1 DEF Updated
  <2>3. [ZeroCounts EXCEPT ![0]["deck"] = m.deck[0], ![1]["deck"] = m.deck[1]]
          \in [Seats -> [Counted -> Nat]]
    BY <2>1 DEF ZeroCounts, Seats, Counted
  <2>4. [s \in Seats |-> m.lp] \in [Seats -> Nat]
    BY <2>1
  <2> QED
    BY <2>2, <2>3, <2>4 DEF GS
<1>2. CASE m.kind \in {"damage", "pay_lpcost", "recover", "lpupdate"}
  <2>1. m.player \in Seats
    BY <1>2, MessageFields
  <2>2. PICK v \in Nat : u = [g EXCEPT !.lp[m.player] = v]
    <3>1. g.lp[m.player] \in Nat
      BY <2>1 DEF GS
    <3>2. CASE m.kind \in {"damage", "pay_lpcost"}
      <4>1. Monus(g.lp[m.player], m.amount) \in Nat
        BY <3>1, <3>2, MessageFields DEF Monus
      <4>2. u = [g EXCEPT !.lp[m.player] = Monus(g.lp[m.player], m.amount)]
        BY <3>2 DEF Updated
      <4> QED
        BY <4>1, <4>2
    <3>3. CASE m.kind = "recover"
      <4>1. g.lp[m.player] + m.amount \in Nat
        BY <3>1, <3>3, MessageFields
      <4>2. u = [g EXCEPT !.lp[m.player] = g.lp[m.player] + m.amount]
        BY <3>3 DEF Updated
      <4> QED
        BY <4>1, <4>2
    <3>4. CASE m.kind = "lpupdate"
      BY <3>4, MessageFields DEF Updated
    <3> QED
      BY <1>2, <3>2, <3>3, <3>4
  <2> HIDE DEF u
  <2>3. u \in GS
    BY <2>1, <2>2 DEF GS
  <2> QED
    BY <2>3 DEF u
<1>3. CASE m.kind = "draw"
  <2>1. m.player \in Seats /\ {"hand", "deck"} \subseteq Counted
    BY <1>3, MessageFields DEF Counted
  <2>2. u = [g EXCEPT !.count = [g.count EXCEPT
               ![m.player] = [g.count[m.player] EXCEPT
                                !["hand"] = g.count[m.player]["hand"] + 1,
                                !["deck"] = Monus(g.count[m.player]["deck"], 1)]]]
    BY <1>3, <2>1 DEF Updated, GS
  <2>3. g.count[m.player] \in [Counted -> Nat]
    BY <2>1 DEF GS
  <2>4. [g.count[m.player] EXCEPT
           !["hand"] = g.count[m.player]["hand"] + 1,
           !["deck"] = Monus(g.count[m.player]["deck"], 1)] \in [Counted -> Nat]
    BY <2>1, <2>3 DEF Monus
  <2> HIDE DEF u
  <2>5. u \in GS
    BY <2>1, <2>2, <2>4 DEF GS
  <2> QED
    BY <2>5 DEF u
<1>4. CASE m.kind = "move"
  <2>1. Moved(g.count, m) \in [Seats -> [Counted -> Nat]]
    BY DEF Moved, Monus, GS
  <2> QED
    BY <1>4, <2>1 DEF Updated, GS
<1>5. CASE m.kind \in {"new_turn", "new_phase", "win", "chain_end", "chaining"}
  <2>1. CASE m.kind = "new_turn"
    <3>1. u = [g EXCEPT !.player = m.player, !.turn = g.turn + 1] /\ m.player \in Seats
      BY <2>1, MessageFields DEF Updated
    <3>2. g.turn + 1 \in Nat
      BY DEF GS
    <3>3. [g EXCEPT !.player = m.player, !.turn = g.turn + 1] \in GS
      BY <3>1, <3>2 DEF GS
    <3> QED
      BY <3>1, <3>3
  <2>2. CASE m.kind = "new_phase"
    <3>1. u = [g EXCEPT !.phase = m.phase] /\ m.phase \in PhaseOf
      BY <2>2, MessageFields DEF Updated, PhaseOf
    <3> QED
      BY <3>1 DEF GS
  <2>3. CASE m.kind = "win"
    <3>1. u = [g EXCEPT !.finished = TRUE]
      BY <2>3 DEF Updated
    <3>2. [g EXCEPT !.finished = TRUE] \in GS
      BY Zenon DEF GS
    <3> QED
      BY <3>1, <3>2
  <2>4. CASE m.kind = "chain_end"
    <3>1. u = [g EXCEPT !.chain = <<>>] /\ <<>> \in Seq(Statuses)
      BY <2>4 DEF Updated
    <3> QED
      BY <3>1 DEF GS
  <2>5. CASE m.kind = "chaining"
    <3>1. u = [g EXCEPT !.chain = Append(g.chain, "building")]
      BY <2>5 DEF Updated
    <3>2. Append(g.chain, "building") \in Seq(Statuses)
      BY DEF GS, Statuses
    <3> QED
      BY <3>1, <3>2 DEF GS
  <2> QED
    BY <1>5, <2>1, <2>2, <2>3, <2>4, <2>5
<1>7. CASE m.kind \in {"chain_solving", "chain_solved", "chain_negated", "chain_disabled"}
  <2>1. \A c \in Seq(Statuses), n \in Nat, st \in Statuses : LinkSet(c, n, st) \in Seq(Statuses)
    BY DEF LinkSet
  <2> QED
    BY <1>7, <2>1, MessageFields DEF Updated, GS, Statuses
<1>8. CASE m.kind \notin {"start", "damage", "pay_lpcost", "recover", "lpupdate", "draw", "move",
                          "new_turn", "new_phase", "win", "chain_end", "chaining",
                          "chain_solving", "chain_solved", "chain_negated", "chain_disabled"}
  BY <1>8 DEF Updated
<1> QED
  BY <1>1, <1>2, <1>3, <1>4, <1>5, <1>7, <1>8

(* What a message makes of the life points of a seat.                      *)
LEMMA UpdatedLp ==
  ASSUME NEW g \in GS, NEW m \in Message, NEW s \in Seats
  PROVE  Updated(g, m).lp[s] =
           CASE m.kind = "start" -> m.lp
             [] m.kind \in {"damage", "pay_lpcost"} /\ m.player = s -> Monus(g.lp[s], m.amount)
             [] m.kind = "recover" /\ m.player = s -> g.lp[s] + m.amount
             [] m.kind = "lpupdate" /\ m.player = s -> m.lp
             [] OTHER -> g.lp[s]
BY MessageFields DEF Updated, GS

(* What a message makes of the clock and the chain of the GameState.       *)
LEMMA UpdatedRest ==
  ASSUME NEW g \in GS, NEW m \in Message
  PROVE  /\ Updated(g, m).turn = IF m.kind = "new_turn" THEN g.turn + 1 ELSE g.turn
         /\ Updated(g, m).player = IF m.kind = "new_turn" THEN m.player ELSE g.player
         /\ Updated(g, m).phase = IF m.kind = "new_phase" THEN m.phase ELSE g.phase
         /\ Updated(g, m).chain =
              CASE m.kind = "chaining"       -> Append(g.chain, "building")
                [] m.kind = "chain_solving"  -> LinkSet(g.chain, m.link, "solving")
                [] m.kind = "chain_solved"   -> LinkSet(g.chain, m.link, "solved")
                [] m.kind = "chain_negated"  -> LinkSet(g.chain, m.link, "negated")
                [] m.kind = "chain_disabled" -> LinkSet(g.chain, m.link, "disabled")
                [] m.kind = "chain_end"      -> <<>>
                [] OTHER                     -> g.chain
BY DEF Updated, GS

(* What a message makes of a zone count.                                   *)
LEMMA UpdatedCount ==
  ASSUME NEW g \in GS, NEW m \in Message, NEW s \in Seats, NEW z \in Counted
  PROVE  Updated(g, m).count[s][z] =
           CASE m.kind = "start" -> IF z = "deck" THEN m.deck[s] ELSE 0
             [] m.kind = "draw" /\ m.player = s /\ z = "hand" -> g.count[s][z] + 1
             [] m.kind = "draw" /\ m.player = s /\ z = "deck" -> Monus(g.count[s][z], 1)
             [] m.kind = "move" -> Moved(g.count, m)[s][z]
             [] OTHER -> g.count[s][z]
<1>1. CASE m.kind = "start"
  BY <1>1, MessageFields DEF Updated, GS, ZeroCounts, Seats, Counted
<1>2. CASE m.kind = "draw"
  BY <1>2, MessageFields DEF Updated, GS, Counted
<1>3. CASE m.kind \notin {"start", "draw"}
  BY <1>3 DEF Updated, GS
<1> QED
  BY <1>1, <1>2, <1>3

-----------------------------------------------------------------------------
(* Folds, as runs of their steps.                                          *)

(* A run of n steps from base; and what a fold over 1 .. n chooses.        *)
Runs(h, n, base, step) ==
  h[0] = base /\ \A k \in 1 .. n : h[k] = step[k][h[k - 1]]

Chosen(c, n, A, base, step) ==
  /\ c[{}] = base
  /\ \A t \in SUBSET (1 .. n) :
       t # {} /\ c[t \ {Max(t)}] \in A => c[t] = step[Max(t)][c[t \ {Max(t)}]]

(* What a fold chooses runs through its steps one after the other.         *)
LEMMA FoldRuns ==
  ASSUME NEW n \in Nat, NEW A, NEW base \in A, NEW step \in [1 .. n -> [A -> A]], NEW c,
         Chosen(c, n, A, base, step)
  PROVE  \E h \in [0 .. n -> A] : Runs(h, n, base, step) /\ h[n] = c[1 .. n]
<1> USE DEF Chosen
<1> DEFINE Good == {k \in Nat : k <= n => c[1 .. k] \in A}
           h == [k \in 0 .. n |-> c[1 .. k]]
<1>1. \A k \in 1 .. n : c[1 .. k - 1] \in A => c[1 .. k] = step[k][c[1 .. k - 1]]
  <2> SUFFICES ASSUME NEW k \in 1 .. n, c[1 .. k - 1] \in A
               PROVE  c[1 .. k] = step[k][c[1 .. k - 1]]
    OBVIOUS
  <2>1. k \in Nat /\ k - 1 \in Nat /\ (k - 1) + 1 = k /\ k \in 1 .. k
    OBVIOUS
  <2>2. 1 .. k \in SUBSET (1 .. n) /\ 1 .. k # {}
    <3>1. \A i \in 1 .. k : i \in 1 .. n
      BY <2>1
    <3> QED
      BY <2>1, <3>1
  <2>3. Max(1 .. k) = k
    BY <2>1, MaxTop
  <2>4. (1 .. k) \ {k} = 1 .. k - 1
    BY <2>1
  <2> QED
    BY <2>2, <2>3, <2>4
<1>2. 0 \in Good
  <2>1. 1 .. 0 = {}
    OBVIOUS
  <2> QED
    BY <2>1
<1>3. ASSUME NEW k \in Nat, k \in Good PROVE k + 1 \in Good
  <2> SUFFICES ASSUME k + 1 <= n PROVE c[1 .. k + 1] \in A
    OBVIOUS
  <2>1. k + 1 \in 1 .. n /\ (k + 1) - 1 = k /\ c[1 .. k] \in A
    BY <1>3
  <2>2. c[1 .. k + 1] = step[k + 1][c[1 .. k]]
    BY <1>1, <2>1
  <2>3. step[k + 1] \in [A -> A]
    BY <2>1
  <2> QED
    BY <2>1, <2>2, <2>3
<1>4. Nat \subseteq Good
  <2> HIDE DEF Good
  <2> QED
    BY <1>2, <1>3, NatSet
<1>5. \A k \in 0 .. n : k \in Nat /\ k <= n
  OBVIOUS
<1>6. h \in [0 .. n -> A]
  BY <1>4, <1>5
<1>7. h[0] = base
  <2>1. 1 .. 0 = {} /\ 0 \in 0 .. n
    OBVIOUS
  <2> QED
    BY <2>1
<1>8. ASSUME NEW k \in 1 .. n PROVE h[k] = step[k][h[k - 1]]
  <2>1. k \in 0 .. n /\ k - 1 \in 0 .. n
    OBVIOUS
  <2>2. h[k] = c[1 .. k] /\ h[k - 1] = c[1 .. k - 1]
    BY <2>1
  <2>3. h[k - 1] \in A
    BY <1>6, <2>1
  <2> QED
    BY <1>1, <2>2, <2>3
<1>9. h[n] = c[1 .. n]
  OBVIOUS
<1> HIDE DEF h
<1> QED
  BY <1>6, <1>7, <1>8, <1>9 DEF Runs

(* The same, by a name.                                                    *)
RunTo(h, n, A, base, step, v) ==
  h \in [0 .. n -> A] /\ Runs(h, n, base, step) /\ h[n] = v

(* FoldRuns, with what is run named.                                       *)
LEMMA FoldRunsTo ==
  \A n, A, base, step, c :
    Chosen(c, n, A, base, step) /\ n \in Nat /\ base \in A /\ step \in [1 .. n -> [A -> A]]
      => \E h : RunTo(h, n, A, base, step, c[1 .. n])
<1> SUFFICES ASSUME NEW n, NEW A, NEW base, NEW step, NEW c, Chosen(c, n, A, base, step),
                    n \in Nat, base \in A, step \in [1 .. n -> [A -> A]]
             PROVE  \E h : RunTo(h, n, A, base, step, c[1 .. n])
  OBVIOUS
<1>1. PICK h \in [0 .. n -> A] : Runs(h, n, base, step) /\ h[n] = c[1 .. n]
  BY FoldRuns
<1> QED
  BY <1>1 DEF RunTo

(* Two runs of the same steps from the same start are the same.            *)
LEMMA RunsAgree ==
  ASSUME NEW n \in Nat, NEW base, NEW step, NEW h, NEW k,
         Runs(h, n, base, step), Runs(k, n, base, step)
  PROVE  h[n] = k[n]
<1> USE DEF Runs
<1> DEFINE Same == {i \in Nat : i <= n => h[i] = k[i]}
<1>1. 0 \in Same
  OBVIOUS
<1>2. ASSUME NEW i \in Nat, i \in Same PROVE i + 1 \in Same
  <2> SUFFICES ASSUME i + 1 <= n PROVE h[i + 1] = k[i + 1]
    OBVIOUS
  <2>1. i + 1 \in 1 .. n /\ (i + 1) - 1 = i /\ h[i] = k[i]
    BY <1>2
  <2> QED
    BY <2>1
<1>3. Nat \subseteq Same
  <2> HIDE DEF Same
  <2> QED
    BY <1>1, <1>2, NatSet
<1> QED
  BY <1>3

(* An element appended is one more step.                                   *)
LEMMA RunsAppend ==
  ASSUME NEW n \in Nat, NEW base, NEW step, NEW h, NEW k,
         Runs(h, n, base, step), Runs(k, n + 1, base, step)
  PROVE  k[n + 1] = step[n + 1][h[n]]
<1>1. \A i \in 1 .. n : i \in 1 .. n + 1
  OBVIOUS
<1>2. Runs(k, n, base, step)
  BY <1>1 DEF Runs
<1>3. h[n] = k[n]
  BY <1>2, RunsAgree
<1>4. n + 1 \in 1 .. n + 1 /\ (n + 1) - 1 = n
  OBVIOUS
<1> QED
  BY <1>3, <1>4 DEF Runs

-----------------------------------------------------------------------------
(* The GameState's fold.                                                   *)

(* It goes from state to state, one message after the other.               *)
LEMMA UpdatedRuns ==
  ASSUME NEW g \in GS, NEW s \in Seq(Message)
  PROVE  \E h \in [0 .. Len(s) -> GS] :
           /\ h[0] = g
           /\ \A i \in 1 .. Len(s) : h[i] = Updated(h[i - 1], s[i])
           /\ FoldLeft(Updated, g, s) = h[Len(s)]
<1> DEFINE n == Len(s)
           step == [i \in 1 .. n |-> [a \in GS |-> Updated(a, s[i])]]
           Body(it) == [t \in SUBSET DOMAIN s |->
                          IF t = {} THEN g ELSE Updated(it[t \ {Max(t)}], s[Max(t)])]
           c == CHOOSE it : it = Body(it)
<1>0. n \in Nat /\ DOMAIN s = 1 .. n /\ \A i \in 1 .. n : s[i] \in Message
  OBVIOUS
<1>1. FoldLeft(Updated, g, s) = c[DOMAIN s]
  BY Zenon DEF FoldLeft, MapThenFoldSet
<1>2. step \in [1 .. n -> [GS -> GS]]
  BY <1>0, UpdatedType
<1> HIDE DEF n
<1>3. PICK it \in [SUBSET (1 .. n) -> GS] : Folded(it, n, g, step)
  <2> HIDE DEF step
  <2> QED
    BY <1>0, <1>2, FoldExists
<1>4. \A t \in SUBSET (1 .. n) : t # {} => Max(t) \in 1 .. n /\ t \ {Max(t)} \in SUBSET (1 .. n)
  BY <1>0, MaxIn
<1>5. it = Body(it)
  <2>1. \A t \in SUBSET (1 .. n) :
          it[t] = IF t = {} THEN g ELSE Updated(it[t \ {Max(t)}], s[Max(t)])
    BY <1>3, <1>4 DEF Folded
  <2> QED
    BY <1>0, <2>1
<1>6. c = Body(c)
  <2> HIDE DEF Body
  <2> QED
    BY <1>5
<1>7. Chosen(c, n, GS, g, step)
  <2> HIDE DEF c
  <2>1. \A t \in SUBSET (1 .. n) :
          c[t] = IF t = {} THEN g ELSE Updated(c[t \ {Max(t)}], s[Max(t)])
    BY <1>0, <1>6
  <2> QED
    BY <1>4, <2>1 DEF Chosen
<1> HIDE DEF c
<1>11. PICK h : RunTo(h, n, GS, g, step, c[1 .. n])
  <2> HIDE DEF step
  <2>1. n \in Nat /\ g \in GS /\ step \in [1 .. n -> [GS -> GS]]
    BY <1>0, <1>2
  <2> QED
    BY <2>1, <1>7, FoldRunsTo
<1>8. h \in [0 .. n -> GS] /\ Runs(h, n, g, step) /\ h[n] = c[1 .. n]
  BY <1>11 DEF RunTo
<1>9. \A k \in 1 .. n : h[k] = Updated(h[k - 1], s[k])
  <2> SUFFICES ASSUME NEW k \in 1 .. n PROVE h[k] = Updated(h[k - 1], s[k])
    OBVIOUS
  <2>1. k - 1 \in 0 .. n
    BY <1>0
  <2>2. h[k - 1] \in GS
    BY <1>8, <2>1
  <2> QED
    BY <1>8, <2>2 DEF Runs
<1>10. FoldLeft(Updated, g, s) = h[n]
  BY <1>0, <1>1, <1>8
<1> QED
  BY <1>8, <1>9, <1>10 DEF n, Runs

(* The GameState a sequence of messages leads to is one.                   *)
LEMMA UpdatedFold ==
  ASSUME NEW g \in GS
  PROVE  /\ FoldLeft(Updated, g, <<>>) = g
         /\ \A s \in Seq(Message) : FoldLeft(Updated, g, s) \in GS
<1>1. FoldLeft(Updated, g, <<>>) = g
  <2> DEFINE e == <<>>
  <2>1. e \in Seq(Message) /\ Len(e) = 0
    OBVIOUS
  <2> HIDE DEF e
  <2>2. PICK h \in [0 .. Len(e) -> GS] : h[0] = g /\ FoldLeft(Updated, g, e) = h[Len(e)]
    BY <2>1, UpdatedRuns
  <2>3. FoldLeft(Updated, g, e) = g
    BY <2>1, <2>2
  <2> QED
    BY <2>3 DEF e
<1>2. ASSUME NEW s \in Seq(Message) PROVE FoldLeft(Updated, g, s) \in GS
  <2>1. Len(s) \in Nat /\ Len(s) \in 0 .. Len(s)
    OBVIOUS
  <2>2. PICK h \in [0 .. Len(s) -> GS] : FoldLeft(Updated, g, s) = h[Len(s)]
    BY UpdatedRuns
  <2> QED
    BY <2>1, <2>2
<1> QED
  BY <1>1, <1>2

(* The GameState after one message more.                                   *)
LEMMA UpdatedAppend ==
  ASSUME NEW g \in GS, NEW s \in Seq(Message), NEW m \in Message
  PROVE  FoldLeft(Updated, g, Append(s, m)) = Updated(FoldLeft(Updated, g, s), m)
<1> DEFINE n == Len(s)
           r == Append(s, m)
           step == [i \in 1 .. n + 1 |-> [a \in GS |-> Updated(a, r[i])]]
<1>0. n \in Nat /\ n + 1 \in Nat /\ r \in Seq(Message) /\ Len(r) = n + 1
      /\ r[n + 1] = m /\ \A i \in 1 .. n : r[i] = s[i]
  OBVIOUS
<1>1. PICK h \in [0 .. n -> GS] : /\ h[0] = g
                                  /\ \A i \in 1 .. n : h[i] = Updated(h[i - 1], s[i])
                                  /\ FoldLeft(Updated, g, s) = h[n]
  BY UpdatedRuns
<1>2. PICK k \in [0 .. n + 1 -> GS] : /\ k[0] = g
                                      /\ \A i \in 1 .. n + 1 : k[i] = Updated(k[i - 1], r[i])
                                      /\ FoldLeft(Updated, g, r) = k[n + 1]
  <2> HIDE DEF r
  <2>1. \E k \in [0 .. Len(r) -> GS] : /\ k[0] = g
                                       /\ \A i \in 1 .. Len(r) : k[i] = Updated(k[i - 1], r[i])
                                       /\ FoldLeft(Updated, g, r) = k[Len(r)]
    BY <1>0, UpdatedRuns
  <2> QED
    BY <1>0, <2>1
<1> HIDE DEF n, r
<1>3. Runs(h, n, g, step)
  <2> SUFFICES ASSUME NEW i \in 1 .. n PROVE h[i] = step[i][h[i - 1]]
    BY <1>1 DEF Runs
  <2>1. i - 1 \in 0 .. n /\ i \in 1 .. n + 1
    BY <1>0
  <2>2. h[i - 1] \in GS
    BY <2>1
  <2> QED
    BY <1>0, <1>1, <2>1, <2>2
<1>4. Runs(k, n + 1, g, step)
  <2> SUFFICES ASSUME NEW i \in 1 .. n + 1 PROVE k[i] = step[i][k[i - 1]]
    BY <1>2 DEF Runs
  <2>1. i - 1 \in 0 .. n + 1
    BY <1>0
  <2>2. k[i - 1] \in GS
    BY <2>1
  <2> QED
    BY <1>2, <2>2
<1>5. k[n + 1] = step[n + 1][h[n]]
  <2> HIDE DEF step
  <2> QED
    BY <1>0, <1>3, <1>4, RunsAppend
<1>6. h[n] \in GS /\ n + 1 \in 1 .. n + 1
  BY <1>0
<1>7. k[n + 1] = Updated(h[n], m)
  BY <1>0, <1>5, <1>6
<1> QED
  BY <1>1, <1>2, <1>7 DEF r
-----------------------------------------------------------------------------
(* The capture's fold.                                                     *)

(* What _capture_frame does with one message, in a GameState g.            *)
Caught(a, m, g) ==
  LET now == Tracked(a.tracker, m) IN
  [tracker |-> now,
   history |-> Stamp(a.history, m, IF m.kind = "attack" THEN now[m.place]
                                   ELSE IF Worthy(m) THEN m.card ELSE None, g)]

(* The tracker keeps to names of cards.                                    *)
LEMMA TrackedType ==
  ASSUME NEW t \in [Field -> Names], NEW m \in Message
  PROVE  Tracked(t, m) \in [Field -> Names]
<1>1. CASE m.kind \in Summons
  <2>1. m.card \in Names /\ m.place \in Field
    BY <1>1, MessageFields DEF Names
  <2>2. Tracked(t, m) = [t EXCEPT ![m.place] = m.card]
    BY <1>1 DEF Tracked, Summons
  <2> QED
    BY <2>1, <2>2
<1>2. CASE m.kind = "move"
  <2>1. m.card \in Names
    BY <1>2, MessageFields DEF Names
  <2>2. Tracked(t, m) = [p \in Field |-> IF p = m.from THEN None
                                         ELSE IF p = m.to THEN m.card ELSE t[p]]
    BY <1>2 DEF Tracked
  <2> QED
    BY <2>1, <2>2 DEF Names
<1>3. CASE m.kind = "pos_change"
  <2>1. m.card \in Names /\ m.place \in Field
    BY <1>3, MessageFields DEF Names
  <2>2. Tracked(t, m) = [t EXCEPT ![m.place] = IF t[m.place] = None THEN m.card ELSE t[m.place]]
    BY <1>3 DEF Tracked
  <2> QED
    BY <2>1, <2>2
<1>4. CASE m.kind \notin Summons \cup {"move", "pos_change"}
  BY <1>4 DEF Tracked, Summons
<1> QED
  BY <1>1, <1>2, <1>3, <1>4

(* A history that is added to keeps to its length.                         *)
LEMMA NewestType ==
  ASSUME NEW h \in Past, NEW e \in Event
  PROVE  /\ Newest(Append(h, e)) \in Past
         /\ Newest(Append(h, e)) = IF Len(h) < MaxHistory THEN Append(h, e) ELSE Tail(Append(h, e))
<1>1. MaxHistory \in Nat \ {0}
  BY EventStreamAssumption
<1>2. h \in Seq(Event) /\ Len(h) \in Nat /\ Len(h) <= MaxHistory
  BY DEF Past
<1>3. Append(h, e) \in Seq(Event) /\ Len(Append(h, e)) = Len(h) + 1
  BY <1>2
<1>4. CASE Len(h) < MaxHistory
  BY <1>1, <1>2, <1>3, <1>4 DEF Newest, Past
<1>5. CASE Len(h) = MaxHistory
  <2> DEFINE q == Append(h, e)
  <2>0. q \in Seq(Event) /\ Len(q) = MaxHistory + 1
    BY <1>3, <1>5
  <2> HIDE DEF q
  <2>1. q # <<>> /\ q \in Seq(Event) /\ Len(q) = MaxHistory + 1
    BY <1>1, <2>0
  <2>2. Tail(q) \in Seq(Event) /\ Len(Tail(q)) = MaxHistory
    BY <1>1, <2>1
  <2>3. Newest(q) = Tail(q)
    BY <1>1, <2>1 DEF Newest
  <2>4. Tail(q) \in Past
    BY <1>1, <2>2 DEF Past
  <2> QED
    BY <1>5, <2>3, <2>4 DEF q
<1> QED
  BY <1>1, <1>2, <1>4, <1>5

(* What a capture writes down.                                             *)
LEMMA CaughtType ==
  ASSUME NEW a \in Record, NEW m \in Message, NEW g, g.turn \in Nat
  PROVE  /\ Caught(a, m, g) \in Record
         /\ Caught(a, m, g).tracker = Tracked(a.tracker, m)
         /\ ~Worthy(m) => Caught(a, m, g).history = a.history
         /\ Worthy(m) =>
              LET e == [kind |-> m.kind, turn |-> g.turn,
                        card |-> IF m.kind = "attack" THEN Tracked(a.tracker, m)[m.place] ELSE m.card]
              IN e \in Event /\ Caught(a, m, g).history = Newest(Append(a.history, e))
<1> DEFINE now == Tracked(a.tracker, m)
           e == [kind |-> m.kind, turn |-> g.turn,
                 card |-> IF m.kind = "attack" THEN now[m.place] ELSE m.card]
<1>1. a.tracker \in [Field -> Names] /\ a.history \in Past
  BY DEF Record
<1>2. now \in [Field -> Names]
  BY <1>1, TrackedType
<1>3. Caught(a, m, g).tracker = now
  BY DEF Caught
<1>4. CASE ~Worthy(m)
  <2>1. Caught(a, m, g).history = a.history
    BY <1>4 DEF Caught, Stamp
  <2>2. Caught(a, m, g) = [tracker |-> now, history |-> a.history]
    BY <1>4 DEF Caught, Stamp
  <2> QED
    BY <1>1, <1>2, <1>3, <1>4, <2>1, <2>2 DEF Record
<1>5. CASE Worthy(m)
  <2>1. m.kind \in Summons \cup {"chaining", "attack", "hint"}
    BY <1>5 DEF Worthy
  <2>2. e.card \in Names
    BY <1>2, <1>5, MessageFields DEF Worthy, Names
  <2>3. e \in Event
    BY <2>1, <2>2 DEF Event
  <2>4. Caught(a, m, g) = [tracker |-> now, history |-> Newest(Append(a.history, e))]
    <3>1. CASE m.kind = "attack"
      BY <1>5, <3>1 DEF Caught, Stamp
    <3>2. CASE m.kind # "attack"
      BY <1>5, <3>2 DEF Caught, Stamp
    <3> QED
      BY <3>1, <3>2
  <2> HIDE DEF e, now
  <2>5. Newest(Append(a.history, e)) \in Past
    BY <1>1, <2>3, NewestType
  <2>6. Caught(a, m, g) \in Record
    BY <1>2, <2>4, <2>5 DEF Record
  <2> QED
    BY <1>3, <1>5, <2>3, <2>4, <2>6 DEF e, now
<1> QED
  BY <1>4, <1>5

(* A capture goes from record to record, one message after the other.      *)
LEMMA CapturedRuns ==
  ASSUME NEW r \in Record, NEW s \in Seq(Message), NEW g, g.turn \in Nat
  PROVE  \E h \in [0 .. Len(s) -> Record] :
           /\ h[0] = r
           /\ \A i \in 1 .. Len(s) : h[i] = Caught(h[i - 1], s[i], g)
           /\ Captured(r.tracker, r.history, s, g) = h[Len(s)]
<1> DEFINE n == Len(s)
           base == r
           dom == DOMAIN s
           step == [i \in 1 .. n |-> [a \in Record |-> Caught(a, s[i], g)]]
           Body(it) == [t \in SUBSET dom |->
                          IF t = {} THEN base ELSE Caught(it[t \ {Max(t)}], s[Max(t)], g)]
           c == CHOOSE it : it = Body(it)
<1>0. n \in Nat /\ dom = 1 .. n /\ \A i \in 1 .. n : s[i] \in Message
  OBVIOUS
<1>1. Captured(r.tracker, r.history, s, g) = c[dom]
  <2>1. [tracker |-> r.tracker, history |-> r.history] = r
    BY DEF Record
  <2> QED
    BY <2>1, Zenon DEF Captured, FoldLeft, MapThenFoldSet, Caught
<1>2. base \in Record /\ step \in [1 .. n -> [Record -> Record]]
  BY <1>0, CaughtType
<1> HIDE DEF n, base
<1>3. PICK it \in [SUBSET (1 .. n) -> Record] : Folded(it, n, base, step)
  <2> HIDE DEF step
  <2> QED
    BY <1>0, <1>2, FoldExists
<1>4. \A t \in SUBSET (1 .. n) : t # {} => Max(t) \in 1 .. n /\ t \ {Max(t)} \in SUBSET (1 .. n)
  BY <1>0, MaxIn
<1>5. it = Body(it)
  <2>1. \A t \in SUBSET (1 .. n) :
          it[t] = IF t = {} THEN base ELSE Caught(it[t \ {Max(t)}], s[Max(t)], g)
    BY <1>0, <1>3, <1>4 DEF Folded
  <2> QED
    BY <1>0, <2>1
<1>6. c = Body(c)
  <2> HIDE DEF Body
  <2> QED
    BY <1>5
<1>7. Chosen(c, n, Record, base, step)
  <2> HIDE DEF c
  <2>1. \A t \in SUBSET (1 .. n) :
          c[t] = IF t = {} THEN base ELSE Caught(c[t \ {Max(t)}], s[Max(t)], g)
    BY <1>0, <1>6
  <2> QED
    BY <1>0, <1>4, <2>1 DEF Chosen
<1> HIDE DEF c
<1>11. PICK h : RunTo(h, n, Record, base, step, c[1 .. n])
  <2> HIDE DEF step, dom
  <2>1. n \in Nat /\ base \in Record /\ step \in [1 .. n -> [Record -> Record]]
    BY <1>0, <1>2
  <2> QED
    BY <2>1, <1>7, FoldRunsTo
<1>8. h \in [0 .. n -> Record] /\ Runs(h, n, base, step) /\ h[n] = c[1 .. n]
  BY <1>11 DEF RunTo
<1>9. \A k \in 1 .. n : h[k] = Caught(h[k - 1], s[k], g)
  <2> SUFFICES ASSUME NEW k \in 1 .. n PROVE h[k] = Caught(h[k - 1], s[k], g)
    OBVIOUS
  <2>1. k - 1 \in 0 .. n
    BY <1>0
  <2>2. h[k - 1] \in Record
    BY <1>8, <2>1
  <2> QED
    BY <1>8, <2>2 DEF Runs
<1>10. Captured(r.tracker, r.history, s, g) = h[n]
  BY <1>0, <1>1, <1>8
<1> QED
  BY <1>8, <1>9, <1>10 DEF n, base, Runs

(* The same, by a name.                                                    *)
Catches(h, r, s, g) ==
  /\ h \in [0 .. Len(s) -> Record] /\ h[0] = r
  /\ \A i \in 1 .. Len(s) : h[i] = Caught(h[i - 1], s[i], g)
  /\ Captured(r.tracker, r.history, s, g) = h[Len(s)]

(* CapturedRuns, with what is run named.                                   *)
LEMMA CapturedSteps ==
  \A g : \A r \in Record, s \in Seq(Message) : g.turn \in Nat => \E h : Catches(h, r, s, g)
<1> SUFFICES ASSUME NEW r \in Record, NEW s \in Seq(Message), NEW g, g.turn \in Nat
             PROVE  \E h : Catches(h, r, s, g)
  OBVIOUS
<1>1. PICK h \in [0 .. Len(s) -> Record] :
         /\ h[0] = r
         /\ \A i \in 1 .. Len(s) : h[i] = Caught(h[i - 1], s[i], g)
         /\ Captured(r.tracker, r.history, s, g) = h[Len(s)]
  BY CapturedRuns
<1> QED
  BY <1>1 DEF Catches

(* Nothing captured changes nothing, and records stay records.             *)
LEMMA CapturedFold ==
  ASSUME NEW r \in Record, NEW g, g.turn \in Nat
  PROVE  /\ Captured(r.tracker, r.history, <<>>, g) = r
         /\ \A s \in Seq(Message) : Captured(r.tracker, r.history, s, g) \in Record
<1>1. Captured(r.tracker, r.history, <<>>, g) = r
  <2> DEFINE e == <<>>
  <2>1. e \in Seq(Message) /\ Len(e) = 0
    OBVIOUS
  <2> HIDE DEF e
  <2>2. PICK h : Catches(h, r, e, g)
    BY <2>1, CapturedSteps
  <2>3. Captured(r.tracker, r.history, e, g) = r
    BY <2>1, <2>2 DEF Catches
  <2> QED
    BY <2>3 DEF e
<1>2. ASSUME NEW s \in Seq(Message) PROVE Captured(r.tracker, r.history, s, g) \in Record
  <2>1. Len(s) \in Nat /\ Len(s) \in 0 .. Len(s)
    OBVIOUS
  <2>2. PICK h : Catches(h, r, s, g)
    BY CapturedSteps
  <2> QED
    BY <2>1, <2>2 DEF Catches
<1> QED
  BY <1>1, <1>2

(* A message more is one step more.                                        *)
LEMMA CapturedAppend ==
  ASSUME NEW r \in Record, NEW s \in Seq(Message), NEW m \in Message, NEW g, g.turn \in Nat
  PROVE  Captured(r.tracker, r.history, Append(s, m), g)
           = Caught(Captured(r.tracker, r.history, s, g), m, g)
<1> DEFINE n == Len(s)
           q == Append(s, m)
           step == [i \in 1 .. n + 1 |-> [a \in Record |-> Caught(a, q[i], g)]]
<1>0. n \in Nat /\ n + 1 \in Nat /\ q \in Seq(Message) /\ Len(q) = n + 1
      /\ q[n + 1] = m /\ \A i \in 1 .. n : q[i] = s[i]
  OBVIOUS
<1>1. PICK h : Catches(h, r, s, g)
  BY CapturedSteps
<1>2. PICK k : Catches(k, r, q, g)
  <2> HIDE DEF q
  <2> QED
    BY <1>0, CapturedSteps
<1>a. /\ h \in [0 .. n -> Record] /\ h[0] = r
      /\ \A i \in 1 .. n : h[i] = Caught(h[i - 1], s[i], g)
  BY <1>1 DEF Catches
<1>b. /\ k \in [0 .. n + 1 -> Record] /\ k[0] = r
      /\ \A i \in 1 .. n + 1 : k[i] = Caught(k[i - 1], q[i], g)
      /\ Captured(r.tracker, r.history, q, g) = k[n + 1]
  <2> HIDE DEF q
  <2> QED
    BY <1>0, <1>2 DEF Catches
<1>c. Captured(r.tracker, r.history, s, g) = h[n]
  BY <1>1 DEF Catches
<1> HIDE DEF n, q
<1>3. Runs(h, n, r, step)
  <2> SUFFICES ASSUME NEW i \in 1 .. n PROVE h[i] = step[i][h[i - 1]]
    BY <1>a DEF Runs
  <2>1. i - 1 \in 0 .. n /\ i \in 1 .. n + 1
    BY <1>0
  <2>2. h[i - 1] \in Record
    BY <1>a, <2>1
  <2> QED
    BY <1>0, <1>a, <2>1, <2>2
<1>4. Runs(k, n + 1, r, step)
  <2> SUFFICES ASSUME NEW i \in 1 .. n + 1 PROVE k[i] = step[i][k[i - 1]]
    BY <1>b DEF Runs
  <2>1. i - 1 \in 0 .. n + 1
    BY <1>0
  <2>2. k[i - 1] \in Record
    BY <1>b, <2>1
  <2> QED
    BY <1>b, <2>2
<1>5. k[n + 1] = step[n + 1][h[n]]
  <2> HIDE DEF step
  <2> QED
    BY <1>0, <1>3, <1>4, RunsAppend
<1>6. h[n] \in Record /\ n + 1 \in 1 .. n + 1
  BY <1>0, <1>a
<1>7. k[n + 1] = Caught(h[n], m, g)
  BY <1>0, <1>5, <1>6
<1> QED
  BY <1>b, <1>c, <1>7 DEF q

-----------------------------------------------------------------------------
(* Frames.                                                                 *)

(* What the engine says, in as many bytes as it has.                       *)
Frame == {f \in [msg : Message, cut : Int] : /\ Payload(f) \in Nat
                                             /\ f.msg.kind = "unknown" => f.cut = 0}

(* What HurtBy does with frame i, and its fold from what was hurt before.  *)
Hurts == SUBSET Everything
HurtOf(b, h, i) == IF Raises(b, i) THEN h \cup Touches(b[i].msg) ELSE h \ Mends(b[i].msg)
HurtFold(h0, b) == FoldLeft(LAMBDA h, i : HurtOf(b, h, i), h0, [i \in DOMAIN b |-> i])
HurtFrom(h0, b) == IF \E i \in DOMAIN b : Overreads(b, i) THEN Everything ELSE HurtFold(h0, b)

(* HurtBy is HurtFrom what has been hurt so far.                           *)
LEMMA HurtByFrom == \A b : HurtBy(b) = HurtFrom(hurt, b)
BY DEF HurtBy, HurtFrom, HurtFold, HurtOf

(* What a frame touches and mends are parts of the mirror, and the field,  *)
(* the history and the turn are never mended.                              *)
LEMMA TouchesType ==
  ASSUME NEW m \in Message
  PROVE  Touches(m) \subseteq Everything /\ Mends(m) \subseteq Everything
         /\ Mends(m) \cap {"field", "history", "turn", "counts"} = {}
BY DEF Touches, Mends, Everything, LpOf, Summons

(* A frame hurts parts of the mirror.                                      *)
LEMMA HurtType ==
  ASSUME NEW b, NEW i, b[i] \in Frame, NEW h \in Hurts
  PROVE  HurtOf(b, h, i) \in Hurts
<1>1. b[i].msg \in Message
  BY DEF Frame
<1> QED
  BY <1>1, TouchesType DEF HurtOf, Hurts

(* HurtBy goes one frame after the other.                                  *)
LEMMA HurtRuns ==
  ASSUME NEW h0 \in Hurts, NEW b \in Seq(Frame)
  PROVE  \E h \in [0 .. Len(b) -> Hurts] :
           /\ h[0] = h0
           /\ \A i \in 1 .. Len(b) : h[i] = HurtOf(b, h[i - 1], i)
           /\ HurtFold(h0, b) = h[Len(b)]
<1> DEFINE q == [i \in DOMAIN b |-> i]
           n == Len(b)
           base == h0
           dom == DOMAIN q
           step == [i \in 1 .. n |-> [a \in Hurts |-> HurtOf(b, a, i)]]
           Body(it) == [t \in SUBSET dom |->
                          IF t = {} THEN base ELSE HurtOf(b, it[t \ {Max(t)}], q[Max(t)])]
           c == CHOOSE it : it = Body(it)
<1>0. n \in Nat /\ dom = 1 .. n /\ \A i \in 1 .. n : q[i] = i /\ b[i] \in Frame
  OBVIOUS
<1>1. HurtFold(h0, b) = c[dom]
  BY Zenon DEF HurtFold, FoldLeft, MapThenFoldSet
<1>2. base \in Hurts /\ step \in [1 .. n -> [Hurts -> Hurts]]
  BY <1>0, HurtType
<1> HIDE DEF n, base, q
<1>3. PICK it \in [SUBSET (1 .. n) -> Hurts] : Folded(it, n, base, step)
  <2> HIDE DEF step
  <2> QED
    BY <1>0, <1>2, FoldExists
<1>4. \A t \in SUBSET (1 .. n) : t # {} => Max(t) \in 1 .. n /\ t \ {Max(t)} \in SUBSET (1 .. n)
  BY <1>0, MaxIn
<1>5. it = Body(it)
  <2>1. \A t \in SUBSET (1 .. n) :
          it[t] = IF t = {} THEN base ELSE HurtOf(b, it[t \ {Max(t)}], q[Max(t)])
    BY <1>0, <1>3, <1>4 DEF Folded
  <2> QED
    BY <1>0, <2>1
<1>6. c = Body(c)
  <2> HIDE DEF Body
  <2> QED
    BY <1>5
<1>7. Chosen(c, n, Hurts, base, step)
  <2> HIDE DEF c
  <2>1. \A t \in SUBSET (1 .. n) :
          c[t] = IF t = {} THEN base ELSE HurtOf(b, c[t \ {Max(t)}], q[Max(t)])
    BY <1>0, <1>6
  <2> QED
    BY <1>0, <1>4, <2>1 DEF Chosen
<1> HIDE DEF c
<1>11. PICK h : RunTo(h, n, Hurts, base, step, c[1 .. n])
  <2> HIDE DEF step, dom
  <2>1. n \in Nat /\ base \in Hurts /\ step \in [1 .. n -> [Hurts -> Hurts]]
    BY <1>0, <1>2
  <2> QED
    BY <2>1, <1>7, FoldRunsTo
<1>8. h \in [0 .. n -> Hurts] /\ Runs(h, n, base, step) /\ h[n] = c[1 .. n]
  BY <1>11 DEF RunTo
<1>9. \A k \in 1 .. n : h[k] = HurtOf(b, h[k - 1], k)
  <2> SUFFICES ASSUME NEW k \in 1 .. n PROVE h[k] = HurtOf(b, h[k - 1], k)
    OBVIOUS
  <2>1. k - 1 \in 0 .. n
    BY <1>0
  <2>2. h[k - 1] \in Hurts
    BY <1>8, <2>1
  <2> QED
    BY <1>8, <2>2 DEF Runs
<1>10. HurtFold(h0, b) = h[n]
  BY <1>0, <1>1, <1>8
<1> QED
  BY <1>8, <1>9, <1>10 DEF n, base, Runs

(* Nothing is hurt by no frames.                                           *)
LEMMA HurtEmpty ==
  ASSUME NEW h0 \in Hurts
  PROVE  HurtFrom(h0, <<>>) = h0
<1> DEFINE e == <<>>
<1>1. e \in Seq(Frame) /\ Len(e) = 0 /\ DOMAIN e = {}
  OBVIOUS
<1> HIDE DEF e
<1>2. PICK h \in [0 .. Len(e) -> Hurts] :
        /\ h[0] = h0
        /\ \A i \in 1 .. Len(e) : h[i] = HurtOf(e, h[i - 1], i)
        /\ HurtFold(h0, e) = h[Len(e)]
  BY <1>1, HurtRuns
<1>3. HurtFrom(h0, e) = h0
  BY <1>1, <1>2 DEF HurtFrom
<1> QED
  BY <1>3 DEF e

(* So does a buffer of them.                                               *)
LEMMA HurtTyped ==
  ASSUME NEW h0 \in Hurts, NEW b \in Seq(Frame)
  PROVE  HurtFold(h0, b) \in Hurts /\ HurtFrom(h0, b) \in Hurts
<1>1. PICK h \in [0 .. Len(b) -> Hurts] :
        /\ h[0] = h0
        /\ \A i \in 1 .. Len(b) : h[i] = HurtOf(b, h[i - 1], i)
        /\ HurtFold(h0, b) = h[Len(b)]
  BY HurtRuns
<1>2. Len(b) \in 0 .. Len(b)
  OBVIOUS
<1>3. HurtFold(h0, b) \in Hurts
  BY <1>1, <1>2
<1> QED
  BY <1>3 DEF HurtFrom, Hurts

(* A frame more, which changes nothing about the others, is one step more. *)
LEMMA HurtAppend ==
  ASSUME NEW h0 \in Hurts, NEW b \in Seq(Frame), NEW f \in Frame,
         \A i \in DOMAIN b : Raises(Append(b, f), i) <=> Raises(b, i)
  PROVE  HurtFold(h0, Append(b, f)) = HurtOf(Append(b, f), HurtFold(h0, b), Len(b) + 1)
<1> DEFINE n == Len(b)
           q == Append(b, f)
           step == [i \in 1 .. n + 1 |-> [a \in Hurts |-> HurtOf(q, a, i)]]
<1>0. n \in Nat /\ n + 1 \in Nat /\ q \in Seq(Frame) /\ Len(q) = n + 1 /\ DOMAIN b = 1 .. n
      /\ q[n + 1] = f /\ \A i \in 1 .. n : q[i] = b[i]
  OBVIOUS
<1>1. PICK h \in [0 .. n -> Hurts] : /\ h[0] = h0
                                     /\ \A i \in 1 .. n : h[i] = HurtOf(b, h[i - 1], i)
                                     /\ HurtFold(h0, b) = h[n]
  BY HurtRuns
<1>2. PICK k \in [0 .. n + 1 -> Hurts] : /\ k[0] = h0
                                         /\ \A i \in 1 .. n + 1 : k[i] = HurtOf(q, k[i - 1], i)
                                         /\ HurtFold(h0, q) = k[n + 1]
  <2> HIDE DEF q
  <2>1. \E k \in [0 .. Len(q) -> Hurts] : /\ k[0] = h0
                                          /\ \A i \in 1 .. Len(q) : k[i] = HurtOf(q, k[i - 1], i)
                                          /\ HurtFold(h0, q) = k[Len(q)]
    BY <1>0, HurtRuns
  <2> QED
    BY <1>0, <2>1
<1>b. \A i \in 1 .. n, a \in Hurts : HurtOf(q, a, i) = HurtOf(b, a, i)
  BY <1>0 DEF HurtOf
<1> HIDE DEF n, q
<1>3. Runs(h, n, h0, step)
  <2> SUFFICES ASSUME NEW i \in 1 .. n PROVE h[i] = step[i][h[i - 1]]
    BY <1>1 DEF Runs
  <2>1. i - 1 \in 0 .. n /\ i \in 1 .. n + 1
    BY <1>0
  <2>2. h[i - 1] \in Hurts
    BY <2>1
  <2> QED
    BY <1>b, <1>1, <2>1, <2>2
<1>4. Runs(k, n + 1, h0, step)
  <2> SUFFICES ASSUME NEW i \in 1 .. n + 1 PROVE k[i] = step[i][k[i - 1]]
    BY <1>2 DEF Runs
  <2>1. i - 1 \in 0 .. n + 1
    BY <1>0
  <2>2. k[i - 1] \in Hurts
    BY <2>1
  <2> QED
    BY <1>2, <2>2
<1>5. k[n + 1] = step[n + 1][h[n]]
  <2> HIDE DEF step
  <2> QED
    BY <1>0, <1>3, <1>4, RunsAppend
<1>6. h[n] \in Hurts /\ n + 1 \in 1 .. n + 1
  BY <1>0
<1>7. k[n + 1] = HurtOf(q, h[n], n + 1)
  BY <1>0, <1>5, <1>6
<1> QED
  BY <1>1, <1>2, <1>7 DEF q, n

-----------------------------------------------------------------------------
(* Functions defined from the end.                                         *)

(* Every function defined by its last value and a step back exists.        *)
Backs(h, n, A, base, step) ==
  /\ h \in [0 .. n -> A] /\ h[n] = base
  /\ \A i \in 0 .. n - 1 : h[i] = step[i + 1][h[i + 1]]

(* A recursion from the last index to the first has a value at each.       *)
LEMMA BacksExist ==
  ASSUME NEW n \in Nat, NEW A, NEW base \in A, NEW step \in [1 .. n -> [A -> A]]
  PROVE  \E h : Backs(h, n, A, base, step)
<1> DEFINE Ok(k) == \E h \in [n - k .. n -> A] :
                       /\ h[n] = base
                       /\ \A i \in n - k .. n - 1 : h[i] = step[i + 1][h[i + 1]]
           S == {k \in Nat : k <= n => Ok(k)}
<1>1. 0 \in S
  <2> DEFINE h == [i \in n - 0 .. n |-> base]
  <2>1. h \in [n - 0 .. n -> A] /\ h[n] = base /\ n - 0 .. n - 1 = {}
    OBVIOUS
  <2> HIDE DEF h
  <2>2. Ok(0)
    BY <2>1
  <2> QED
    BY <2>2
<1>2. ASSUME NEW k \in Nat, k \in S PROVE k + 1 \in S
  <2> HIDE DEF Ok
  <2> SUFFICES ASSUME k + 1 <= n PROVE Ok(k + 1)
    OBVIOUS
  <2>0. Ok(k)
    BY <1>2
  <2> USE DEF Ok
  <2>1. PICK h \in [n - k .. n -> A] : /\ h[n] = base
                                       /\ \A i \in n - k .. n - 1 : h[i] = step[i + 1][h[i + 1]]
    BY <2>0
  <2> DEFINE m == n - (k + 1)
             next == [i \in m .. n |-> IF i = m THEN step[m + 1][h[m + 1]] ELSE h[i]]
  <2>2. m \in Nat /\ m + 1 = n - k /\ m + 1 \in 1 .. n /\ m + 1 \in n - k .. n /\ m # n /\ m < n
    OBVIOUS
  <2>3. \A i \in m .. n : i # m => i \in n - k .. n
    BY <2>2
  <2>4. step[m + 1] \in [A -> A] /\ h[m + 1] \in A
    BY <2>2
  <2>5. step[m + 1][h[m + 1]] \in A
    BY <2>4
  <2> HIDE DEF m
  <2>6. next \in [m .. n -> A]
    BY <2>3, <2>5
  <2>7. next[n] = base
    BY <2>1, <2>2
  <2>8. \A i \in m .. n - 1 : next[i] = step[i + 1][next[i + 1]]
    <3> SUFFICES ASSUME NEW i \in m .. n - 1 PROVE next[i] = step[i + 1][next[i + 1]]
      OBVIOUS
    <3>1. i \in m .. n /\ i + 1 \in m .. n /\ i + 1 # m
      BY <2>2
    <3>2. next[i + 1] = h[i + 1]
      BY <3>1
    <3>3. CASE i = m
      BY <3>1, <3>2, <3>3
    <3>4. CASE i # m
      <4>1. i \in n - k .. n - 1
        BY <2>2, <3>4
      <4> QED
        BY <2>1, <3>1, <3>2, <3>4, <4>1
    <3> QED
      BY <3>3, <3>4
  <2> HIDE DEF next
  <2> QED
    BY <2>6, <2>7, <2>8 DEF m
<1> HIDE DEF Ok
<1>3. Nat \subseteq S
  BY <1>1, <1>2, NatSet
<1>4. Ok(n)
  BY <1>3
<1>5. n - n = 0
  OBVIOUS
<1> QED
  BY <1>4, <1>5 DEF Ok, Backs

(* What holds at the end and, if after i, also at i, holds everywhere.     *)
LEMMA BackSet ==
  ASSUME NEW n \in Nat, NEW S, n \in S,
         \A i \in 0 .. n - 1 : i + 1 \in S => i \in S
  PROVE  0 .. n \subseteq S
<1> DEFINE T == {k \in Nat : k <= n => n - k \in S}
<1>1. 0 \in T
  OBVIOUS
<1>2. ASSUME NEW k \in Nat, k \in T PROVE k + 1 \in T
  <2> SUFFICES ASSUME k + 1 <= n PROVE n - (k + 1) \in S
    OBVIOUS
  <2>1. n - k \in S /\ n - (k + 1) \in 0 .. n - 1 /\ (n - (k + 1)) + 1 = n - k
    BY <1>2
  <2> QED
    BY <2>1
<1>3. Nat \subseteq T
  <2> HIDE DEF T
  <2> QED
    BY <1>1, <1>2, NatSet
<1>4. ASSUME NEW i \in 0 .. n PROVE i \in S
  <2>1. n - i \in Nat /\ n - i <= n /\ n - (n - i) = i
    OBVIOUS
  <2>2. n - i \in T
    BY <1>3, <2>1
  <2> QED
    BY <2>1, <2>2
<1> QED
  BY <1>4

-----------------------------------------------------------------------------
(* The bytes of a buffer.                                                  *)

(* A parser reads some number of bytes.                                    *)
LEMMA ParserType ==
  ASSUME NEW k \in Kinds, k # "unknown"
  PROVE  Parser(k) \in Nat
<1>1. \A j \in DOMAIN MenuFormat : MenuFormat[j] \in Nat
  BY DEF MenuFormat, List, U8, U16, U32, U64, Loc, Place, Short
<1>2. \A j \in DOMAIN AskFormat : AskFormat[j] \in Nat
  BY DEF AskFormat, List, U8, U16, U32, U64, Loc, Place, Short
<1>3. \A j \in DOMAIN PickFormat : PickFormat[j] \in Nat
  BY DEF PickFormat, List, U8, U16, U32, U64, Loc, Place, Short
<1>4. \A j \in DOMAIN LastFormat : LastFormat[j] \in Nat
  BY DEF LastFormat, List, U8, U16, U32, U64, Loc, Place, Short
<1>5. \A j \in DOMAIN FlowFormat : FlowFormat[j] \in Nat
  BY DEF FlowFormat, List, U8, U16, U32, U64, Loc, Place, Short
<1>6. \A j \in DOMAIN PlayFormat : PlayFormat[j] \in Nat
  BY DEF PlayFormat, List, U8, U16, U32, U64, Loc, Place, Short
<1>7. \A j \in DOMAIN TableFormat : TableFormat[j] \in Nat
  BY DEF TableFormat, List, U8, U16, U32, U64, Loc, Place, Short
<1>8. "select_place" \in DOMAIN AskFormat /\ "confirm_decktop" \in DOMAIN TableFormat
  BY DEF AskFormat, TableFormat
<1>9. k \in Silent \cup {"select_disfield", "confirm_extratop"} \cup DOMAIN MenuFormat
            \cup DOMAIN AskFormat \cup DOMAIN PickFormat \cup DOMAIN LastFormat
            \cup DOMAIN FlowFormat \cup DOMAIN PlayFormat \cup DOMAIN TableFormat
  BY DEF Kinds, Selects
<1> QED
  BY <1>1, <1>2, <1>3, <1>4, <1>5, <1>6, <1>7, <1>8, <1>9 DEF Parser

(* The bytes after each frame.                                             *)
LEMMA AfterOf ==
  ASSUME NEW b \in Seq(Frame)
  PROVE  /\ After(b)[Len(b)] = 0
         /\ \A i \in 0 .. Len(b) - 1 : After(b)[i] = After(b)[i + 1] + 4 + 1 + Payload(b[i + 1])
         /\ \A i \in 0 .. Len(b) : After(b)[i] \in Nat
<1> DEFINE n == Len(b)
           step == [i \in 1 .. n |-> [a \in Nat |-> a + 4 + 1 + Payload(b[i])]]
           Body(it) == [i \in 0 .. n |->
                          IF i = n THEN 0 ELSE it[i + 1] + 4 + 1 + Payload(b[i + 1])]
<1>0. n \in Nat /\ \A i \in 1 .. n : b[i] \in Frame
  OBVIOUS
<1>1. After(b) = CHOOSE it : it = Body(it)
  BY Zenon DEF After
<1> HIDE DEF n
<1>2. step \in [1 .. n -> [Nat -> Nat]]
  BY <1>0 DEF Frame
<1>a. PICK h : Backs(h, n, Nat, 0, step)
  <2> HIDE DEF step
  <2>1. n \in Nat /\ 0 \in Nat
    BY <1>0
  <2> QED
    BY <1>2, <2>1, BacksExist
<1>3. h \in [0 .. n -> Nat] /\ h[n] = 0 /\ \A i \in 0 .. n - 1 : h[i] = step[i + 1][h[i + 1]]
  BY <1>a DEF Backs
<1>4. \A i \in 0 .. n : i # n => i \in 0 .. n - 1 /\ i + 1 \in 0 .. n /\ i + 1 \in 1 .. n
  BY <1>0
<1>5. h = Body(h)
  BY <1>3, <1>4
<1>6. After(b) = Body(After(b))
  <2> HIDE DEF Body
  <2> QED
    BY <1>1, <1>5
<1> DEFINE a == After(b)
           S == {i \in 0 .. n : a[i] \in Nat}
<1>7. a[n] = 0 /\ \A i \in 0 .. n - 1 : a[i] = a[i + 1] + 4 + 1 + Payload(b[i + 1])
  <2> HIDE DEF a
  <2>1. n \in 0 .. n /\ \A i \in 0 .. n - 1 : i \in 0 .. n /\ i # n
    BY <1>0
  <2>2. a = Body(a)
    BY <1>6 DEF a
  <2> QED
    BY <2>1, <2>2
<1>8. 0 .. n \subseteq S
  <2> HIDE DEF a
  <2>1. n \in S
    BY <1>0, <1>7
  <2>2. ASSUME NEW i \in 0 .. n - 1, i + 1 \in S PROVE i \in S
    <3>1. i + 1 \in 1 .. n /\ i \in 0 .. n
      BY <1>0
    <3>2. Payload(b[i + 1]) \in Nat
      BY <1>0, <3>1 DEF Frame
    <3> QED
      BY <1>7, <2>2, <3>1, <3>2
  <2> HIDE DEF S
  <2> QED
    BY <1>0, <2>1, <2>2, BackSet
<1> QED
  BY <1>7, <1>8 DEF n

(* A frame may be short of the parser's bytes, and then it raises exactly  *)
(* when the buffer ends first.                                             *)
LEMMA LastRaises ==
  ASSUME NEW b \in Seq(Frame), NEW i \in DOMAIN b, i = Len(b)
  PROVE  (Raises(b, i) <=> IsShort(b[i])) /\ ~Overreads(b, i)
<1>1. After(b)[i] = 0
  BY AfterOf
<1> QED
  BY <1>1 DEF Raises, Overreads, IsShort, Frame

(* A frame more at the end puts an end to a parser's luck: one that raised *)
(* and does not any more overreads.  If none does, all is as it was.       *)
LEMMA MoreFrames ==
  ASSUME NEW b \in Seq(Frame), NEW f \in Frame,
         ~ \E i \in DOMAIN Append(b, f) : Overreads(Append(b, f), i)
  PROVE  /\ ~ \E i \in DOMAIN b : Overreads(b, i)
         /\ \A i \in DOMAIN b : Raises(Append(b, f), i) <=> Raises(b, i)
<1> DEFINE n == Len(b)
           q == Append(b, f)
<1>0. n \in Nat /\ q \in Seq(Frame) /\ Len(q) = n + 1 /\ DOMAIN b = 1 .. n /\ DOMAIN q = 1 .. n + 1
      /\ q[n + 1] = f /\ \A i \in 1 .. n : q[i] = b[i] /\ q[i] \in Frame
  OBVIOUS
<1>1. Payload(f) \in Nat
  BY DEF Frame
<1> HIDE DEF n, q
<1>2. /\ After(q)[n + 1] = 0
      /\ \A i \in 0 .. n : After(q)[i] = After(q)[i + 1] + 4 + 1 + Payload(q[i + 1])
      /\ \A i \in 0 .. n + 1 : After(q)[i] \in Nat
  <2>1. (n + 1) - 1 = n
    BY <1>0
  <2> QED
    BY <1>0, <2>1, AfterOf
<1>3. /\ After(b)[n] = 0
      /\ \A i \in 0 .. n - 1 : After(b)[i] = After(b)[i + 1] + 4 + 1 + Payload(b[i + 1])
      /\ \A i \in 0 .. n : After(b)[i] \in Nat
  BY AfterOf DEF n
<1> DEFINE S == {i \in 0 .. n : After(b)[i] <= After(q)[i]}
<1>4. 0 .. n \subseteq S
  <2>1. n \in S
    <3>1. n \in 0 .. n /\ n \in 0 .. n + 1
      BY <1>0
    <3> QED
      BY <1>2, <1>3, <3>1
  <2>2. ASSUME NEW i \in 0 .. n - 1, i + 1 \in S PROVE i \in S
    <3>1. i + 1 \in 1 .. n /\ i \in 0 .. n /\ i + 1 \in 0 .. n + 1 /\ i \in 0 .. n + 1
      BY <1>0
    <3>2. Payload(b[i + 1]) \in Nat /\ q[i + 1] = b[i + 1]
      BY <1>0, <3>1 DEF Frame
    <3>3. /\ After(b)[i] = After(b)[i + 1] + 4 + 1 + Payload(b[i + 1])
          /\ After(q)[i] = After(q)[i + 1] + 4 + 1 + Payload(b[i + 1])
      BY <1>2, <1>3, <3>1, <3>2
    <3> QED
      BY <1>2, <1>3, <2>2, <3>1, <3>2, <3>3
  <2> HIDE DEF S
  <2> QED
    BY <1>0, <2>1, <2>2, BackSet
<1>5. ASSUME NEW i \in 1 .. n PROVE Raises(q, i) => Raises(b, i)
  <2>1. i \in 0 .. n /\ i \in 0 .. n + 1
    BY <1>0
  <2>2. After(b)[i] \in Nat /\ After(q)[i] \in Nat /\ After(b)[i] <= After(q)[i]
    BY <1>2, <1>3, <1>4, <2>1
  <2>3. q[i] = b[i] /\ b[i].cut \in Int
    BY <1>0 DEF Frame
  <2> QED
    BY <2>2, <2>3 DEF Raises
<1>6. ASSUME NEW i \in 1 .. n PROVE IsShort(b[i]) => Raises(q, i)
  <2>1. i \in DOMAIN q /\ q[i] = b[i]
    BY <1>0
  <2>2. ~Overreads(q, i)
    BY <2>1 DEF q
  <2> QED
    BY <2>1, <2>2 DEF Overreads
<1> QED
  BY <1>0, <1>5, <1>6 DEF Raises, Overreads, q

-----------------------------------------------------------------------------
(* What a buffer decodes to.                                               *)

Misreadings == {<<m>> : m \in Misread} \cup (Misread \X Misread)

(* One frame of parse_messages, before what the rest decodes to.           *)
DecodeOne(b, i, rest) ==
  CASE b[i].msg.kind = "unknown" -> rest
    [] Raises(b, i)              -> rest
    [] Overreads(b, i)           -> Misreadings
    [] OTHER -> {<<Parsed(b[i].msg)>> \o s : s \in rest}

(* What is misread are messages.                                           *)
LEMMA MisreadingsType == Misreadings \subseteq Seq(Message)
<1>1. Misread \subseteq Message
  BY EventStreamAssumption
<1>2. \A m \in Misread : <<m>> \in Seq(Message)
  BY <1>1
<1>3. \A p \in Misread \X Misread : p \in Seq(Message)
  <2> SUFFICES ASSUME NEW p \in Misread \X Misread PROVE p \in Seq(Message)
    OBVIOUS
  <2>1. p[1] \in Message /\ p[2] \in Message /\ p = <<p[1], p[2]>>
    BY <1>1
  <2>2. <<p[1], p[2]>> \in Seq(Message)
    BY <2>1
  <2> QED
    BY <2>1, <2>2
<1> QED
  BY <1>2, <1>3 DEF Misreadings

(* Which of its cases a frame is.                                          *)
LEMMA DecodeCases ==
  ASSUME NEW b, NEW i, NEW rest
  PROVE  /\ b[i].msg.kind = "unknown" \/ Raises(b, i) => DecodeOne(b, i, rest) = rest
         /\ Overreads(b, i) => DecodeOne(b, i, rest) = Misreadings
         /\ b[i].msg.kind # "unknown" /\ ~Raises(b, i) /\ ~Overreads(b, i) =>
              DecodeOne(b, i, rest) = {<<Parsed(b[i].msg)>> \o s : s \in rest}
<1>1. CASE b[i].msg.kind = "unknown"
  <2>1. ~Raises(b, i) /\ ~Overreads(b, i)
    BY <1>1 DEF Raises, Overreads, IsShort
  <2> QED
    BY <1>1, <2>1 DEF DecodeOne
<1>2. CASE b[i].msg.kind # "unknown" /\ Raises(b, i)
  <2>1. ~Overreads(b, i)
    BY <1>2 DEF Overreads
  <2> QED
    BY <1>2, <2>1 DEF DecodeOne
<1>3. CASE b[i].msg.kind # "unknown" /\ Overreads(b, i)
  <2>1. ~Raises(b, i)
    BY <1>3 DEF Overreads
  <2> QED
    BY <1>3, <2>1 DEF DecodeOne
<1>4. CASE b[i].msg.kind # "unknown" /\ ~Raises(b, i) /\ ~Overreads(b, i)
  BY <1>4 DEF DecodeOne
<1> QED
  BY <1>1, <1>2, <1>3, <1>4

Prefixed(m, rest) == {<<m>> \o s : s \in rest}

(* A frame that is skipped or raises adds nothing.                         *)
LEMMA DecodeSkip ==
  \A b, i, rest : b[i].msg.kind = "unknown" \/ Raises(b, i) => DecodeOne(b, i, rest) = rest
BY DecodeCases

(* Any other frame adds its message.                                       *)
LEMMA DecodeKeep ==
  \A b, i, rest : b[i].msg.kind # "unknown" /\ ~Raises(b, i) /\ ~Overreads(b, i)
                    => DecodeOne(b, i, rest) = Prefixed(Parsed(b[i].msg), rest)
BY DecodeCases DEF Prefixed

(* A frame keeps what is decoded after it messages.                        *)
LEMMA DecodeType ==
  ASSUME NEW b, NEW i, b[i] \in Frame, NEW rest \in SUBSET Seq(Message)
  PROVE  DecodeOne(b, i, rest) \in SUBSET Seq(Message)
<1>1. Parsed(b[i].msg) \in Message
  BY ParsedOf DEF Frame
<1>2. \A s \in rest : <<Parsed(b[i].msg)>> \o s \in Seq(Message)
  <2> SUFFICES ASSUME NEW s \in rest PROVE <<Parsed(b[i].msg)>> \o s \in Seq(Message)
    OBVIOUS
  <2>1. s \in Seq(Message) /\ <<Parsed(b[i].msg)>> \in Seq(Message)
    BY <1>1
  <2> QED
    BY <2>1
<1>3. {<<Parsed(b[i].msg)>> \o s : s \in rest} \in SUBSET Seq(Message)
  BY <1>2
<1> QED
  BY <1>3, DecodeCases, MisreadingsType

(* from is what is decoded from each frame on.                             *)
Decodes(from, b) ==
  /\ from \in [1 .. Len(b) + 1 -> SUBSET Seq(Message)]
  /\ from[Len(b) + 1] = {<<>>}
  /\ \A i \in 1 .. Len(b) : from[i] = DecodeOne(b, i, from[i + 1])

(* Decodings is where the recursion over the frames, last to first, ends.  *)
LEMMA DecodingsFrom ==
  ASSUME NEW b \in Seq(Frame)
  PROVE  \E from : Decodes(from, b) /\ Decodings(b) = from[1]
<1> DEFINE n == Len(b)
           A == SUBSET Seq(Message)
           step == [i \in 1 .. n |-> [a \in A |-> DecodeOne(b, i, a)]]
           Body(it) == [i \in 1 .. n + 1 |-> IF i > n THEN {<<>>} ELSE DecodeOne(b, i, it[i + 1])]
           c == CHOOSE it : it = Body(it)
<1>0. n \in Nat /\ \A i \in 1 .. n : b[i] \in Frame
  OBVIOUS
<1>1. Decodings(b) = c[1]
  BY Zenon DEF Decodings, DecodeOne, Misreadings
<1> HIDE DEF n
<1>2. step \in [1 .. n -> [A -> A]]
  BY <1>0, DecodeType
<1>3. {<<>>} \in A
  OBVIOUS
<1>4. PICK h : Backs(h, n, A, {<<>>}, step)
  <2> HIDE DEF step, A
  <2> QED
    BY <1>0, <1>2, <1>3, BacksExist
<1>5. h \in [0 .. n -> A] /\ h[n] = {<<>>} /\ \A i \in 0 .. n - 1 : h[i] = step[i + 1][h[i + 1]]
  BY <1>4 DEF Backs
<1> DEFINE g == [i \in 1 .. n + 1 |-> h[i - 1]]
<1>6. g = Body(g)
  <2> SUFFICES ASSUME NEW i \in 1 .. n + 1
               PROVE  h[i - 1] = IF i > n THEN {<<>>} ELSE DecodeOne(b, i, g[i + 1])
    OBVIOUS
  <2>1. CASE i > n
    <3>1. i - 1 = n
      BY <1>0, <2>1
    <3> QED
      BY <1>5, <2>1, <3>1
  <2>2. CASE i <= n
    <3>1. /\ i - 1 \in 0 .. n - 1 /\ (i - 1) + 1 = i /\ i \in 0 .. n /\ i \in 1 .. n
          /\ i + 1 \in 1 .. n + 1 /\ (i + 1) - 1 = i /\ ~(i > n)
      BY <1>0, <2>2
    <3>2. h[i] \in A /\ g[i + 1] = h[i]
      BY <1>5, <3>1
    <3>3. h[i - 1] = step[i][h[i]]
      BY <1>5, <3>1
    <3>4. h[i - 1] = DecodeOne(b, i, h[i])
      BY <3>1, <3>2, <3>3
    <3> QED
      BY <3>1, <3>2, <3>4
  <2> QED
    BY <1>0, <2>1, <2>2
<1>7. c = Body(c)
  <2> HIDE DEF Body, g
  <2> QED
    BY <1>6
<1> HIDE DEF c
<1>8. /\ c[n + 1] = {<<>>}
      /\ \A i \in 1 .. n : c[i] = DecodeOne(b, i, c[i + 1])
      /\ DOMAIN c = 1 .. n + 1 /\ c = [i \in 1 .. n + 1 |-> c[i]]
  <2>1. n + 1 \in 1 .. n + 1 /\ n + 1 > n /\ \A i \in 1 .. n : i \in 1 .. n + 1 /\ ~(i > n)
    BY <1>0
  <2> QED
    BY <1>7, <2>1
<1> DEFINE S == {i \in 0 .. n : c[i + 1] \in A}
<1>9. 0 .. n \subseteq S
  <2>1. n \in S
    <3> HIDE DEF A
    <3>1. n \in 0 .. n /\ c[n + 1] \in A
      BY <1>0, <1>3, <1>8
    <3> QED
      BY <3>1
  <2>2. ASSUME NEW i \in 0 .. n - 1, i + 1 \in S PROVE i \in S
    <3>1. i + 1 \in 1 .. n /\ i \in 0 .. n
      BY <1>0
    <3>2. c[i + 1] = DecodeOne(b, i + 1, c[(i + 1) + 1]) /\ c[(i + 1) + 1] \in A
      BY <1>8, <2>2, <3>1
    <3> QED
      BY <1>0, <3>1, <3>2, DecodeType
  <2> HIDE DEF S
  <2> QED
    BY <1>0, <2>1, <2>2, BackSet
<1>10. \A i \in 1 .. n + 1 : c[i] \in A
  <2> SUFFICES ASSUME NEW i \in 1 .. n + 1 PROVE c[i] \in A
    OBVIOUS
  <2>1. i - 1 \in 0 .. n /\ (i - 1) + 1 = i
    BY <1>0
  <2> QED
    BY <1>9, <2>1
<1>11. Decodes(c, b)
  BY <1>8, <1>10 DEF Decodes, n
<1> QED
  BY <1>1, <1>11

(* What a buffer decodes to are messages.                                  *)
LEMMA DecodingsType ==
  ASSUME NEW b \in Seq(Frame)
  PROVE  Decodings(b) \subseteq Seq(Message)
<1>1. PICK from : Decodes(from, b) /\ Decodings(b) = from[1]
  BY DecodingsFrom
<1>2. 1 \in 1 .. Len(b) + 1
  OBVIOUS
<1> QED
  BY <1>1, <1>2 DEF Decodes

(* An empty buffer decodes to no message, and in no other way.             *)
LEMMA DecodingsEmpty == Decodings(<<>>) = {<<>>}
<1> DEFINE e == <<>>
<1>1. e \in Seq(Frame) /\ Len(e) = 0
  OBVIOUS
<1> HIDE DEF e
<1>2. PICK from : Decodes(from, e) /\ Decodings(e) = from[1]
  BY <1>1, DecodingsFrom
<1>3. Decodings(e) = {<<>>}
  BY <1>1, <1>2 DEF Decodes
<1> QED
  BY <1>3 DEF e

(* A frame that tells nothing: its kind is unknown, or the read of it ends *)
(* in an error.                                                            *)
Lost(f)  == f.msg.kind = "unknown" \/ IsShort(f)
Clean(b) == ~ \E i \in DOMAIN b : Overreads(b, i)

(* As long as no read leaves its frame, a frame more is a message more.    *)
LEMMA DecodingsAppend ==
  ASSUME NEW b \in Seq(Frame), NEW f \in Frame, Clean(Append(b, f))
  PROVE  \A s \in Decodings(Append(b, f)) :
           \E t \in Decodings(b) : s = IF Lost(f) THEN t ELSE Append(t, Parsed(f.msg))
<1> DEFINE n == Len(b)
           q == Append(b, f)
           More(s, t) == s = IF Lost(f) THEN t ELSE Append(t, Parsed(f.msg))
<1>0. n \in Nat /\ q \in Seq(Frame) /\ Len(q) = n + 1 /\ DOMAIN b = 1 .. n /\ DOMAIN q = 1 .. n + 1
      /\ q[n + 1] = f /\ \A i \in 1 .. n : q[i] = b[i] /\ q[i] \in Frame
  OBVIOUS
<1>1. \A i \in 1 .. n : (Raises(q, i) <=> Raises(b, i)) /\ ~Overreads(q, i) /\ ~Overreads(b, i)
  <2>1. /\ ~ \E i \in DOMAIN b : Overreads(b, i)
        /\ \A i \in DOMAIN b : Raises(q, i) <=> Raises(b, i)
    BY MoreFrames DEF Clean
  <2>2. \A i \in 1 .. n : i \in DOMAIN q
    BY <1>0
  <2> QED
    BY <1>0, <2>1, <2>2 DEF Clean
<1> HIDE DEF q, n
<1>2. PICK old : Decodes(old, b) /\ Decodings(b) = old[1]
  BY DecodingsFrom
<1>3. PICK from : Decodes(from, q) /\ Decodings(q) = from[1]
  BY <1>0, DecodingsFrom
<1>4. /\ \A i \in 1 .. n + 1 : old[i] \in SUBSET Seq(Message)
      /\ old[n + 1] = {<<>>}
      /\ \A i \in 1 .. n : old[i] = DecodeOne(b, i, old[i + 1])
  BY <1>2 DEF Decodes, n
<1>5. /\ from[(n + 1) + 1] = {<<>>}
      /\ \A i \in 1 .. n + 1 : from[i] = DecodeOne(q, i, from[i + 1])
  BY <1>0, <1>3 DEF Decodes
<1>6. Parsed(f.msg) \in Message
  BY ParsedOf DEF Frame
<1> DEFINE S == {i \in 0 .. n : \A s \in from[i + 1] : \E t \in old[i + 1] : More(s, t)}
<1>7. n \in S
  <2>0. n \in 0 .. n /\ n + 1 \in DOMAIN q /\ n + 1 = Len(q) /\ n + 1 \in 1 .. n + 1
    BY <1>0
  <2>1. (Raises(q, n + 1) <=> IsShort(f)) /\ ~Overreads(q, n + 1)
    BY <1>0, <2>0, LastRaises
  <2>2. from[n + 1] = DecodeOne(q, n + 1, {<<>>})
    BY <1>5, <2>0
  <2>3. CASE Lost(f)
    <3>1. from[n + 1] = {<<>>}
      BY <1>0, <2>1, <2>2, <2>3, DecodeSkip DEF Lost
    <3> QED
      BY <1>4, <2>0, <2>3, <3>1
  <2>4. CASE ~Lost(f)
    <3>1. from[n + 1] = Prefixed(Parsed(f.msg), {<<>>})
      BY <1>0, <2>1, <2>2, <2>4, DecodeKeep DEF Lost
    <3>2. <<Parsed(f.msg)>> \o <<>> = Append(<<>>, Parsed(f.msg))
      BY <1>6
    <3> QED
      BY <1>4, <2>0, <2>4, <3>1, <3>2 DEF Prefixed
  <2> QED
    BY <2>3, <2>4
<1>8. ASSUME NEW i \in 0 .. n - 1, i + 1 \in S PROVE i \in S
  <2> DEFINE j == i + 1
  <2>0. j \in 1 .. n /\ j \in 1 .. n + 1 /\ j + 1 \in 1 .. n + 1 /\ i \in 0 .. n
    BY <1>0
  <2>1. from[j] = DecodeOne(q, j, from[j + 1]) /\ old[j] = DecodeOne(b, j, old[j + 1])
    BY <1>4, <1>5, <2>0
  <2>2. \A s \in from[j + 1] : \E t \in old[j + 1] : More(s, t)
    BY <1>8
  <2>3. q[j] = b[j] /\ (Raises(q, j) <=> Raises(b, j)) /\ ~Overreads(q, j) /\ ~Overreads(b, j)
    BY <1>0, <1>1, <2>0
  <2> HIDE DEF j
  <2>4. CASE b[j].msg.kind = "unknown" \/ Raises(b, j)
    <3>1. from[j] = from[j + 1] /\ old[j] = old[j + 1]
      BY <2>1, <2>3, <2>4, DecodeSkip
    <3>2. \A s \in from[j] : \E t \in old[j] : More(s, t)
      BY <2>2, <3>1
    <3> QED
      BY <2>0, <3>2 DEF j
  <2>5. CASE b[j].msg.kind # "unknown" /\ ~Raises(b, j)
    <3> DEFINE p == <<Parsed(b[j].msg)>>
    <3>0. p \in Seq(Message)
      <4>1. Parsed(b[j].msg) \in Message
        BY <2>0, ParsedOf DEF Frame, n
      <4> QED
        BY <4>1
    <3>1. from[j] = {p \o s : s \in from[j + 1]} /\ old[j] = {p \o s : s \in old[j + 1]}
      <4>1. old[j] = Prefixed(Parsed(b[j].msg), old[j + 1])
        BY <2>1, <2>3, <2>5, DecodeKeep
      <4>2. q[j].msg.kind # "unknown" /\ ~Raises(q, j) /\ ~Overreads(q, j)
        BY <2>3, <2>5
      <4>3. from[j] = Prefixed(Parsed(b[j].msg), from[j + 1])
        BY <2>1, <2>3, <4>2, DecodeKeep
      <4> QED
        BY <4>1, <4>3 DEF Prefixed
    <3> HIDE DEF p
    <3>2. ASSUME NEW s \in from[j] PROVE \E t \in old[j] : More(s, t)
      <4>1. PICK r \in from[j + 1] : s = p \o r
        BY <3>1
      <4>2. PICK t \in old[j + 1] : More(r, t)
        BY <2>2
      <4>3. t \in Seq(Message)
        BY <1>4, <2>0
      <4>4. p \o t \in old[j]
        BY <3>1
      <4>5. p \o Append(t, Parsed(f.msg)) = Append(p \o t, Parsed(f.msg))
        BY <1>6, <3>0, <4>3
      <4>6. More(s, p \o t)
        BY <4>1, <4>2, <4>5
      <4> QED
        BY <4>4, <4>6
    <3> QED
      BY <2>0, <3>2 DEF j
  <2> QED
    BY <2>4, <2>5
<1>9. 0 .. n \subseteq S
  <2> HIDE DEF S
  <2> QED
    BY <1>0, <1>7, <1>8, BackSet
<1>10. 0 \in S
  BY <1>0, <1>9
<1>11. \A s \in from[1] : \E t \in old[1] : More(s, t)
  BY <1>10
<1> QED
  BY <1>2, <1>3, <1>11 DEF q

(* What one frame more costs, or puts right.                               *)
LEMMA HurtMore ==
  ASSUME NEW h0 \in Hurts, NEW b \in Seq(Frame), NEW f \in Frame, Clean(Append(b, f))
  PROVE  /\ Clean(b)
         /\ HurtFrom(h0, Append(b, f)) =
              IF IsShort(f) THEN HurtFrom(h0, b) \cup Touches(f.msg)
                            ELSE HurtFrom(h0, b) \ Mends(f.msg)
<1> DEFINE n == Len(b)
           q == Append(b, f)
<1>0. n \in Nat /\ q \in Seq(Frame) /\ Len(q) = n + 1 /\ n + 1 \in DOMAIN q /\ q[n + 1] = f
  OBVIOUS
<1>1. /\ ~ \E i \in DOMAIN b : Overreads(b, i)
      /\ \A i \in DOMAIN b : Raises(q, i) <=> Raises(b, i)
  BY MoreFrames DEF Clean
<1>2. HurtFold(h0, q) = HurtOf(q, HurtFold(h0, b), n + 1)
  BY <1>1, HurtAppend
<1>3. HurtFrom(h0, b) = HurtFold(h0, b) /\ HurtFrom(h0, q) = HurtFold(h0, q)
  BY <1>1 DEF HurtFrom, Clean
<1> HIDE DEF q, n
<1>4. Raises(q, n + 1) <=> IsShort(f)
  BY <1>0, LastRaises
<1> QED
  BY <1>0, <1>1, <1>2, <1>3, <1>4 DEF HurtOf, Clean, q

-----------------------------------------------------------------------------
(* What is heard of the messages of a buffer.                              *)

(* At most the last of s ends the call.                                    *)
EndsLast(s) == \A i \in DOMAIN s : i < Len(s) => ~Ends(s[i])

(* What is heard of messages are messages.                                 *)
LEMMA HeardType ==
  ASSUME NEW s \in Seq(Message)
  PROVE  Heard(s) \in Seq(Message)
<1>1. CASE \E i \in DOMAIN s : Ends(s[i])
  <2> DEFINE First(i) == i \in DOMAIN s /\ Ends(s[i]) /\ \A j \in 1 .. i - 1 : ~Ends(s[j])
             T == {i \in DOMAIN s : Ends(s[i])}
             c == CHOOSE i \in DOMAIN s : Ends(s[i]) /\ \A j \in 1 .. i - 1 : ~Ends(s[j])
  <2>1. PICK x \in T : \A y \in T : x <= y
    <3>1. T \in SUBSET Nat /\ T # {}
      BY <1>1
    <3> HIDE DEF T
    <3> QED
      BY <3>1, NatLeast
  <2>2. \A j \in 1 .. x - 1 : ~Ends(s[j])
    BY <2>1
  <2>3. c \in DOMAIN s
    BY <2>2
  <2>4. Heard(s) = SubSeq(s, 1, c)
    BY <1>1 DEF Heard
  <2> HIDE DEF c
  <2>5. c \in 1 .. Len(s)
    BY <2>3
  <2>6. \A k \in 1 .. c : k \in 1 .. Len(s)
    BY <2>5
  <2>7. SubSeq(s, 1, c) \in Seq(Message)
    BY <2>5, <2>6
  <2> QED
    BY <2>4, <2>7
<1>2. CASE ~ \E i \in DOMAIN s : Ends(s[i])
  BY <1>2 DEF Heard
<1> QED
  BY <1>1, <1>2

(* Messages of which only the last may end a call are all heard.           *)
LEMMA HeardAll ==
  ASSUME NEW s \in Seq(Message), EndsLast(s)
  PROVE  Heard(s) = s
<1>1. CASE \E i \in DOMAIN s : Ends(s[i])
  <2> DEFINE c == CHOOSE i \in DOMAIN s : Ends(s[i]) /\ \A j \in 1 .. i - 1 : ~Ends(s[j])
  <2>1. PICK i \in DOMAIN s : Ends(s[i])
    BY <1>1
  <2>2. i = Len(s) /\ DOMAIN s = 1 .. Len(s) /\ Len(s) \in Nat
    BY <2>1 DEF EndsLast
  <2>3. \A j \in 1 .. i - 1 : ~Ends(s[j])
    BY <2>2 DEF EndsLast
  <2>4. c \in DOMAIN s /\ Ends(s[c])
    BY <2>1, <2>3
  <2>5. c = Len(s)
    BY <2>2, <2>4 DEF EndsLast
  <2>6. Heard(s) = SubSeq(s, 1, Len(s))
    BY <1>1, <2>5 DEF Heard
  <2>7. SubSeq(s, 1, Len(s)) = s
    OBVIOUS
  <2> QED
    BY <2>6, <2>7
<1>2. CASE ~ \E i \in DOMAIN s : Ends(s[i])
  BY <1>2 DEF Heard
<1> QED
  BY <1>1, <1>2

-----------------------------------------------------------------------------
(* The invariant.                                                          *)

(* A told event, and what told keeps.                                      *)
Tale == [kind : Summons \cup {"chaining", "attack", "hint"}, turn : Nat, card : Names,
         sure : BOOLEAN]

Types ==
  /\ at \in [Cards -> Places] /\ elp \in [Seats -> Nat]
  /\ eturn \in [n : Nat, player : Seats, phase : PhaseOf] /\ echain \in Seq(Statuses)
  /\ buf \in Seq(Frame) /\ gs \in GS /\ chunk \in Seq(Message)
  /\ pc \in {"engine", "choice", "over"}
  /\ tracker \in [Field -> Names] /\ history \in Past
  /\ may \in Repertoires /\ said \in Nat
  /\ told \in Seq(Tale) /\ Len(told) <= MaxHistory
  /\ drift \in [Field -> {None, "blank", "wrong"}]
  /\ swapped \in SUBSET Seats /\ hurt \in Hurts

(* The messages of a buffer read in step end where its frames do.          *)
Hears(b) ==
  Clean(b) => \A s \in Decodings(b) :
                /\ EndsLast(s)
                /\ (\A i \in DOMAIN b : ~Ends(b[i].msg)) => \A i \in DOMAIN s : ~Ends(s[i])

(* A place of the field holds one card; life points move with a message    *)
(* said; a buffer fills while the engine runs, and ends with what ends a   *)
(* call.                                                                   *)
Placed(f) == \A c, d \in Cards : f[c] = f[d] /\ f[c] \in Field => c = d
Rules ==
  /\ Placed(at)
  /\ said = 0 => elp = [s \in Seats |-> StartLP]
  /\ pc # "engine" => buf = <<>>
  /\ pc = "choice" => chunk = <<>>
  /\ Hears(buf)

(* MirrorIsExact, of any GameState and any loss, in its parts.             *)
LpExact(g, H) == \A s \in Seats : LpOf(s) \notin H => g.lp[s] = elp[s]
ClockExact(g, H) ==
  /\ "turn" \notin H => g.turn = eturn.n
  /\ "player" \notin H => g.player = eturn.player
  /\ "phase" \notin H => g.phase = eturn.phase
ChainExact(g, H) == "chain" \notin H => g.chain = echain
CountExact(g, H) ==
  "counts" \notin H =>
    \A s \in Seats, z \in Counted :
      g.count[s][z] = Cardinality(On(s, z)) \/ (s \in swapped /\ z \in {"deck", "grave"})
Exact(g, H) == LpExact(g, H) /\ ClockExact(g, H) /\ ChainExact(g, H) /\ CountExact(g, H)

(* The GameState after the messages of s.                                  *)
GsFold(g, s) == FoldLeft(Updated, g, s)

(* Were the buffer read now, the GameState would be the duel but for what  *)
(* its frames and those before them have hurt.                             *)
MirrorInv ==
  pc # "over" =>
    \A s \in Decodings(buf), g \in GS, H \in Hurts :
      g = GsFold(gs, s) /\ H = HurtFrom(hurt, buf) => Exact(g, H)

(* TrackerNamesTheCard and HistoryTellsTheDuel, of any tracker and history.*)
NamesCards(t, H) ==
  "field" \notin H => \A p \in Field : /\ drift[p] = None => t[p] = Holder(p)
                                       /\ drift[p] = "blank" => t[p] = None
Match(x, y, n) ==
  x.kind = y.kind /\ (y.sure => x.card = y.card) /\ y.turn <= x.turn /\ x.turn <= n
Tells(h, n, H) ==
  H \cap {"history", "field", "turn"} = {} =>
    /\ Len(h) = Len(told)
    /\ \A i \in DOMAIN told : Match(h[i], told[i], n)

(* Were the buffer read and captured now, in whatever turn the GameState   *)
(* has it, tracker and history would be right.                             *)
RightOf(r, n, H) == NamesCards(r.tracker, H) /\ (eturn.n <= n => Tells(r.history, n, H))
TellInv ==
  pc # "over" =>
    \A s \in Decodings(buf), g \in GS, H \in Hurts, r \in Record :
      r = Captured(tracker, history, chunk \o s, g) /\ H = HurtFrom(hurt, buf)
        => RightOf(r, g.turn, H)

Inv == Types /\ Rules /\ MirrorInv /\ TellInv

-----------------------------------------------------------------------------
(* What a message said does to the buffer.                                 *)

(* A message said is one frame more.                                       *)
LEMMA SayFrame ==
  ASSUME Types, NEW m \in Message, Say(m)
  PROVE  \E f \in Frame : f.msg = m /\ buf' = Append(buf, f)
<1>0. may.kinds \subseteq Kinds /\ may.cuts \subseteq Int
  BY EventStreamAssumption DEF Types
<1>1. PICK cut \in {0} \cup {c \in may.cuts : skews < MaxSkews /\ m.kind # "unknown"
                                            /\ c <= Parser(m.kind)} :
        buf' = Append(buf, [msg |-> m, cut |-> cut])
  BY DEF Say
<1>2. m.kind \in Kinds
  BY <1>0 DEF Say
<1>3. cut \in Int /\ (m.kind = "unknown" => cut = 0)
      /\ (m.kind # "unknown" => Parser(m.kind) \in Nat /\ cut <= Parser(m.kind))
  BY <1>0, <1>2, ParserType
<1> DEFINE f == [msg |-> m, cut |-> cut]
<1>4. f \in Frame
  BY <1>3 DEF Frame, Payload
<1> QED
  BY <1>1, <1>4

(* What one frame more is heard as, and what it costs.                     *)
LEMMA SayHeard ==
  ASSUME Types, NEW m \in Message, Say(m)
  PROVE  /\ buf' \in Seq(Frame)
         /\ \/ ~Clean(buf') /\ HurtFrom(hurt', buf') = Everything
            \/ /\ Clean(buf') /\ Clean(buf)
               /\ \A s \in Decodings(buf') : \E t \in Decodings(buf) :
                    \/ s = t /\ HurtFrom(hurt', buf') = HurtFrom(hurt, buf) \cup Touches(m)
                    \/ /\ s = t /\ m.kind = "unknown"
                       /\ HurtFrom(hurt', buf') = HurtFrom(hurt, buf) \ Mends(m)
                    \/ /\ s = Append(t, Parsed(m))
                       /\ HurtFrom(hurt', buf') = HurtFrom(hurt, buf) \ Mends(m)
<1>1. PICK f \in Frame : f.msg = m /\ buf' = Append(buf, f)
  BY SayFrame
<1>2. hurt' = hurt /\ hurt \in Hurts /\ buf \in Seq(Frame)
  BY DEF Say, Types
<1>3. buf' \in Seq(Frame)
  BY <1>1, <1>2
<1>4. CASE ~Clean(buf')
  <2>1. HurtFrom(hurt', buf') = Everything
    BY <1>4 DEF HurtFrom, Clean
  <2> QED
    BY <1>3, <1>4, <2>1
<1>5. CASE Clean(buf')
  <2>1. /\ Clean(buf)
        /\ HurtFrom(hurt, Append(buf, f)) =
             IF IsShort(f) THEN HurtFrom(hurt, buf) \cup Touches(f.msg)
                           ELSE HurtFrom(hurt, buf) \ Mends(f.msg)
    BY <1>1, <1>2, <1>5, HurtMore
  <2>2. \A s \in Decodings(Append(buf, f)) :
          \E t \in Decodings(buf) : s = IF Lost(f) THEN t ELSE Append(t, Parsed(f.msg))
    BY <1>1, <1>2, <1>5, DecodingsAppend
  <2>3. HurtFrom(hurt', buf') = IF IsShort(f) THEN HurtFrom(hurt, buf) \cup Touches(m)
                                              ELSE HurtFrom(hurt, buf) \ Mends(m)
    BY <1>1, <1>2, <2>1
  <2>4. \A s \in Decodings(buf') :
          \E t \in Decodings(buf) : s = IF Lost(f) THEN t ELSE Append(t, Parsed(m))
    BY <1>1, <2>2
  <2>5. Lost(f) <=> m.kind = "unknown" \/ IsShort(f)
    BY <1>1 DEF Lost
  <2> QED
    BY <1>3, <1>5, <2>1, <2>3, <2>4, <2>5
<1> QED
  BY <1>4, <1>5

(* What ends a call is said last, and so decoded last.                     *)
LEMMA SayHears ==
  ASSUME Types, Rules, NEW m \in Message, Say(m)
  PROVE  Hears(buf')
<1> SUFFICES ASSUME Clean(buf'), NEW s \in Decodings(buf')
             PROVE  /\ EndsLast(s)
                    /\ (\A i \in DOMAIN buf' : ~Ends(buf'[i].msg)) => \A i \in DOMAIN s : ~Ends(s[i])
  BY DEF Hears
<1>1. PICK f \in Frame : f.msg = m /\ buf' = Append(buf, f)
  BY SayFrame
<1>2. PICK t \in Decodings(buf) : Clean(buf) /\ (s = t \/ s = Append(t, Parsed(m)))
  BY SayHeard
<1>3. buf \in Seq(Frame) /\ \A i \in DOMAIN buf : ~Ends(buf[i].msg)
  BY DEF Say, Types
<1>4. \A i \in DOMAIN t : ~Ends(t[i])
  BY <1>2, <1>3 DEF Rules, Hears
<1>5. t \in Seq(Message)
  BY <1>3, DecodingsType
<1>6. CASE s = t
  BY <1>4, <1>6 DEF EndsLast
<1>7. CASE s = Append(t, Parsed(m))
  <2>1. Len(s) = Len(t) + 1 /\ DOMAIN s = 1 .. Len(t) + 1 /\ DOMAIN t = 1 .. Len(t)
        /\ Len(t) \in Nat /\ s[Len(t) + 1] = Parsed(m) /\ \A i \in 1 .. Len(t) : s[i] = t[i]
    BY <1>5, <1>7
  <2>2. \A i \in DOMAIN s : i < Len(s) => i \in 1 .. Len(t)
    BY <2>1
  <2>3. EndsLast(s)
    BY <1>4, <2>1, <2>2 DEF EndsLast
  <2>4. ASSUME \A i \in DOMAIN buf' : ~Ends(buf'[i].msg) PROVE \A i \in DOMAIN s : ~Ends(s[i])
    <3>1. Len(buf) + 1 \in DOMAIN buf' /\ buf'[Len(buf) + 1] = f
      BY <1>1, <1>3
    <3>2. ~Ends(m)
      BY <1>1, <2>4, <3>1
    <3>3. ~Ends(Parsed(m))
      BY <3>2, ParsedOf
    <3>4. \A i \in DOMAIN s : i \in 1 .. Len(t) \/ i = Len(t) + 1
      BY <2>1
    <3> QED
      BY <1>4, <2>1, <3>3, <3>4
  <2> QED
    BY <2>3, <2>4
<1> QED
  BY <1>2, <1>6, <1>7

(* The holder of a place is a card or none, and the card that is there.    *)
LEMMA HolderOf ==
  ASSUME Types, Rules, NEW p
  PROVE  /\ Holder(p) \in Names
         /\ \A c \in Cards : at[c] = p /\ p \in Field => Holder(p) = c
         /\ Holder(p) = None <=> \A c \in Cards : at[c] # p
<1>0. None \notin Cards
  BY EventStreamAssumption
<1>1. CASE \E c \in Cards : at[c] = p
  <2>1. Holder(p) \in Cards /\ at[Holder(p)] = p
    BY <1>1 DEF Holder
  <2> QED
    BY <1>0, <1>1, <2>1 DEF Rules, Placed, Names
<1>2. CASE ~ \E c \in Cards : at[c] = p
  BY <1>2 DEF Holder, Names
<1> QED
  BY <1>1, <1>2

(* What is told with a message.                                            *)
LEMMA SayTold ==
  ASSUME Types, Rules, NEW m \in Message, Say(m)
  PROVE  /\ told' \in Seq(Tale) /\ Len(told') <= MaxHistory
         /\ ~Worthy(m) => told' = told
         /\ Worthy(m) =>
              \E e \in Tale :
                /\ e.kind = m.kind /\ e.turn = eturn.n
                /\ m.kind # "attack" => e.card = m.card
                /\ m.kind = "attack" => e.card = Holder(m.place) /\ (e.sure => drift[m.place] = None)
                /\ told' = IF Len(told) < MaxHistory THEN Append(told, e) ELSE Tail(Append(told, e))
<1>0. MaxHistory \in Nat \ {0} /\ told \in Seq(Tale) /\ Len(told) <= MaxHistory
  BY EventStreamAssumption DEF Types
<1>1. CASE ~Worthy(m)
  BY <1>0, <1>1 DEF Say
<1>2. CASE Worthy(m)
  <2> DEFINE e == [kind |-> m.kind, turn |-> eturn.n,
                   card |-> IF m.kind = "attack" THEN Holder(m.place) ELSE m.card,
                   sure |-> m.kind # "attack" \/ drift[m.place] = None]
             q == Append(told, e)
  <2>1. m.kind \in Summons \cup {"chaining", "attack", "hint"}
    BY <1>2 DEF Worthy
  <2>2. m.kind # "attack" => m.card \in Names
    BY <2>1, MessageFields DEF Names
  <2>3. Holder(m.place) \in Names /\ eturn.n \in Nat
    BY HolderOf DEF Types
  <2>4. e \in Tale
    <3>1. (m.kind # "attack" \/ drift[m.place] = None) \in BOOLEAN
      OBVIOUS
    <3>2. (IF m.kind = "attack" THEN Holder(m.place) ELSE m.card) \in Names
      BY <2>2, <2>3
    <3> QED
      BY Zenon, <2>1, <2>3, <3>1, <3>2 DEF Tale
  <2>5. told' = IF Len(q) > MaxHistory THEN Tail(q) ELSE q
    BY <1>2 DEF Say
  <2>6. /\ e.kind = m.kind /\ e.turn = eturn.n
        /\ m.kind # "attack" => e.card = m.card
        /\ m.kind = "attack" => e.card = Holder(m.place) /\ (e.sure => drift[m.place] = None)
    OBVIOUS
  <2> HIDE DEF e
  <2>7. q \in Seq(Tale) /\ Len(q) = Len(told) + 1 /\ q # <<>>
    BY <1>0, <2>4
  <2>8. told' = IF Len(told) < MaxHistory THEN q ELSE Tail(q)
    BY <1>0, <2>5, <2>7
  <2>9. told' \in Seq(Tale) /\ Len(told') <= MaxHistory
    <3> HIDE DEF q
    <3>1. Tail(q) \in Seq(Tale) /\ Len(Tail(q)) = Len(told)
      BY <1>0, <2>7
    <3> QED
      BY <1>0, <2>7, <2>8, <3>1
  <2> QED
    BY <1>2, <2>4, <2>6, <2>8, <2>9
<1> QED
  BY <1>1, <1>2

(* The rest of what a message said leaves.                                 *)
LEMMA SayTypes ==
  ASSUME Types, Rules, NEW m \in Message, Say(m),
         at' \in [Cards -> Places], elp' \in [Seats -> Nat],
         eturn' \in [n : Nat, player : Seats, phase : PhaseOf], echain' \in Seq(Statuses),
         drift' \in [Field -> {None, "blank", "wrong"}], swapped' \in SUBSET Seats
  PROVE  Types'
<1>1. gs' = gs /\ chunk' = chunk /\ tracker' = tracker /\ history' = history /\ pc' = pc
      /\ may' = may /\ hurt' = hurt
  BY DEF Say, mirror
<1>2. said' \in Nat
  BY DEF Say, Types
<1>3. told' \in Seq(Tale) /\ Len(told') <= MaxHistory
  BY SayTold
<1>4. buf' \in Seq(Frame)
  BY SayHeard
<1> QED
  BY <1>1, <1>2, <1>3, <1>4 DEF Types

(* A message said keeps the rules, as long as cards keep to their places.  *)
LEMMA SayRules ==
  ASSUME Types, Rules, NEW m \in Message, Say(m),
         Placed(at'),
         elp' = elp \/ m.kind \notin Selects
  PROVE  Rules'
<1>1. pc = "engine" /\ pc' = pc /\ said' = said + IF m.kind \in Selects THEN 0 ELSE 1
  BY DEF Say
<1>2. said' = 0 => elp' = elp /\ said = 0
  BY <1>1 DEF Types
<1>3. Hears(buf)'
  BY SayHears
<1> QED
  BY <1>1, <1>2, <1>3 DEF Rules

(* What has to be known of an action that says m, for the mirror to follow.*)
Follows(m) ==
  \A g \in GS, H \in Hurts :
    Exact(g, H) => /\ Exact(g, H \cup Touches(m))'
                   /\ m.kind = "unknown" => Exact(g, H \ Mends(m))'
                   /\ Exact(Updated(g, Parsed(m)), H \ Mends(m))'

(* A message said, read or not, keeps the mirror exact.                    *)
LEMMA SayMirror ==
  ASSUME Types, Rules, MirrorInv, NEW m \in Message, Say(m), Follows(m)
  PROVE  MirrorInv'
<1>1. pc = "engine" /\ gs' = gs /\ gs \in GS /\ hurt' = hurt /\ hurt \in Hurts /\ buf \in Seq(Frame)
  BY DEF Say, Types, mirror
<1>2. HurtFrom(hurt, buf) \in Hurts
  BY <1>1, HurtTyped
<1> SUFFICES ASSUME NEW s \in Decodings(buf'), NEW e \in GS, NEW L \in Hurts,
                    e = GsFold(gs', s), L = HurtFrom(hurt', buf')
             PROVE  Exact(e, L)'
  BY DEF MirrorInv
<1>3. CASE L = Everything
  BY <1>3 DEF Exact, LpExact, ClockExact, ChainExact, CountExact, Everything, LpOf
<1>4. CASE L # Everything
  <2>1. PICK t \in Decodings(buf) :
             \/ s = t /\ L = HurtFrom(hurt, buf) \cup Touches(m)
             \/ s = t /\ m.kind = "unknown" /\ L = HurtFrom(hurt, buf) \ Mends(m)
             \/ s = Append(t, Parsed(m)) /\ L = HurtFrom(hurt, buf) \ Mends(m)
    BY <1>4, SayHeard
  <2>2. t \in Seq(Message)
    BY <1>1, DecodingsType
  <2>3. Parsed(m) \in Message
    BY ParsedOf
  <2>4. PICK g \in GS : g = GsFold(gs, t)
    BY <1>1, <2>2, UpdatedFold DEF GsFold
  <2>5. PICK H \in Hurts : H = HurtFrom(hurt, buf)
    BY <1>2
  <2>6. GsFold(gs, Append(t, Parsed(m))) = Updated(g, Parsed(m))
    BY <1>1, <2>2, <2>3, <2>4, UpdatedAppend DEF GsFold
  <2>7. Exact(g, H)
    BY <1>1, <2>4, <2>5 DEF MirrorInv
  <2>8. /\ Exact(g, H \cup Touches(m))'
        /\ m.kind = "unknown" => Exact(g, H \ Mends(m))'
        /\ Exact(Updated(g, Parsed(m)), H \ Mends(m))'
    BY <2>7 DEF Follows
  <2>9. \/ e = g /\ L = H \cup Touches(m)
        \/ e = g /\ m.kind = "unknown" /\ L = H \ Mends(m)
        \/ e = Updated(g, Parsed(m)) /\ L = H \ Mends(m)
    BY <1>1, <2>1, <2>4, <2>5, <2>6
  <2> QED
    BY <2>8, <2>9
<1> QED
  BY <1>3, <1>4

-----------------------------------------------------------------------------
(* Messages that leave a part of the mirror alone.                         *)

LpKinds    == {"start", "damage", "pay_lpcost", "recover", "lpupdate"}
ClockKinds == {"new_turn", "new_phase"}
ChainKinds == {"chaining", "chain_solving", "chain_solved", "chain_negated", "chain_disabled",
               "chain_end"}
CountKinds == {"start", "draw", "move"}
TrackKinds == Summons \cup {"move", "pos_change"}

(* A message is heard as one of the same kinds.                            *)
LEMMA HeardAs ==
  ASSUME NEW m \in Message
  PROVE  /\ Parsed(m) \in Message
         /\ m.kind \in LpKinds \cup ClockKinds \cup ChainKinds \cup CountKinds \cup TrackKinds => Parsed(m) = m
         /\ \A K \in {LpKinds, ClockKinds, ChainKinds, CountKinds, TrackKinds} :
              m.kind \notin K => Parsed(m).kind \notin K
<1>1. LpKinds \cup ClockKinds \cup ChainKinds \cup CountKinds \cup TrackKinds \subseteq Told
  BY DEF LpKinds, ClockKinds, ChainKinds, CountKinds, TrackKinds, Told
<1>2. CASE m.kind \in Told
  BY <1>1, <1>2, ParsedOf
<1>3. CASE m.kind \notin Told
  <2>1. Parsed(m) \in Message /\ Parsed(m).kind \notin Told
    BY <1>3, ParsedOf
  <2> QED
    BY <1>1, <1>3, <2>1
<1> QED
  BY <1>2, <1>3

(* A message that is none of life points leaves them exact.                *)
LEMMA KeepLp ==
  ASSUME NEW m \in Message, m.kind \notin LpKinds, elp' = elp, NEW g \in GS, NEW H, LpExact(g, H)
  PROVE  /\ LpExact(g, H \cup Touches(m))' /\ LpExact(g, H \ Mends(m))'
         /\ LpExact(Updated(g, Parsed(m)), H \ Mends(m))'
<1>1. Parsed(m) \in Message /\ Parsed(m).kind \notin LpKinds
  BY HeardAs
<1>2. \A s \in Seats : LpOf(s) \notin Mends(m)
  BY DEF Mends, LpKinds, LpOf
<1>3. \A s \in Seats : Updated(g, Parsed(m)).lp[s] = g.lp[s]
  BY <1>1, UpdatedLp DEF LpKinds
<1> QED
  BY <1>2, <1>3 DEF LpExact

(* A message that is none of the clock leaves it exact.                    *)
LEMMA KeepClock ==
  ASSUME NEW m \in Message, m.kind \notin ClockKinds, eturn' = eturn, NEW g \in GS, NEW H,
         ClockExact(g, H)
  PROVE  /\ ClockExact(g, H \cup Touches(m))' /\ ClockExact(g, H \ Mends(m))'
         /\ ClockExact(Updated(g, Parsed(m)), H \ Mends(m))'
<1>1. Parsed(m) \in Message /\ Parsed(m).kind \notin ClockKinds
  BY HeardAs
<1>2. {"turn", "player", "phase"} \cap Mends(m) = {}
  BY DEF Mends, ClockKinds, LpOf
<1>3. /\ Updated(g, Parsed(m)).turn = g.turn /\ Updated(g, Parsed(m)).player = g.player
      /\ Updated(g, Parsed(m)).phase = g.phase
  BY <1>1, UpdatedRest DEF ClockKinds
<1> QED
  BY <1>2, <1>3 DEF ClockExact

(* A message that is none of the chain leaves it exact.                    *)
LEMMA KeepChain ==
  ASSUME NEW m \in Message, m.kind \notin ChainKinds, echain' = echain, NEW g \in GS, NEW H,
         ChainExact(g, H)
  PROVE  /\ ChainExact(g, H \cup Touches(m))' /\ ChainExact(g, H \ Mends(m))'
         /\ ChainExact(Updated(g, Parsed(m)), H \ Mends(m))'
<1>1. Parsed(m) \in Message /\ Parsed(m).kind \notin ChainKinds
  BY HeardAs
<1>2. "chain" \notin Mends(m)
  BY DEF Mends, ChainKinds, LpOf
<1>3. Updated(g, Parsed(m)).chain = g.chain
  BY <1>1, UpdatedRest DEF ChainKinds
<1> QED
  BY <1>2, <1>3 DEF ChainExact

(* A message that is none of the zones leaves the counts exact, as long as *)
(* the zones keep theirs.                                                  *)
LEMMA KeepCount ==
  ASSUME NEW m \in Message, m.kind \notin CountKinds, swapped' = swapped, NEW g \in GS, NEW H,
         CountExact(g, H), \A s \in Seats, z \in Counted : Cardinality(On(s, z)') = Cardinality(On(s, z))
  PROVE  /\ CountExact(g, H \cup Touches(m))' /\ CountExact(g, H \ Mends(m))'
         /\ CountExact(Updated(g, Parsed(m)), H \ Mends(m))'
<1>1. Parsed(m) \in Message /\ Parsed(m).kind \notin CountKinds
  BY HeardAs
<1>2. "counts" \notin Mends(m)
  BY TouchesType
<1>3. \A s \in Seats, z \in Counted : Updated(g, Parsed(m)).count[s][z] = g.count[s][z]
  BY <1>1, UpdatedCount DEF CountKinds
<1> QED
  BY <1>2, <1>3 DEF CountExact

(* All but one part alone.                                                 *)
LEMMA KeepAt ==
  ASSUME NEW m \in Message, m.kind \notin CountKinds, swapped' = swapped, at' = at, NEW g \in GS, NEW H,
         CountExact(g, H)
  PROVE  /\ CountExact(g, H \cup Touches(m))' /\ CountExact(g, H \ Mends(m))'
         /\ CountExact(Updated(g, Parsed(m)), H \ Mends(m))'
<1>1. \A s \in Seats, z \in Counted : On(s, z)' = On(s, z)
  BY DEF On
<1> QED
  BY <1>1, KeepCount

(* The mirror follows a message no part of the duel moves with.            *)
LEMMA FollowsIdle ==
  ASSUME NEW m \in Message, m.kind \notin LpKinds \cup ClockKinds \cup ChainKinds \cup CountKinds,
         elp' = elp, eturn' = eturn, echain' = echain, at' = at, swapped' = swapped
  PROVE  Follows(m)
BY KeepLp, KeepClock, KeepChain, KeepAt DEF Follows, Exact

-----------------------------------------------------------------------------
(* Life points, turns and chains.                                          *)

(* The mirror follows the life points.                                     *)
LEMMA FollowsLp ==
  ASSUME NEW m \in Message, m.kind \in {"damage", "pay_lpcost", "recover", "lpupdate"},
         elp \in [Seats -> Nat],
         elp' = [elp EXCEPT ![m.player] =
                   CASE m.kind \in {"damage", "pay_lpcost"} -> Monus(elp[m.player], m.amount)
                     [] m.kind = "recover"  -> elp[m.player] + m.amount
                     [] m.kind = "lpupdate" -> m.lp],
         eturn' = eturn, echain' = echain, at' = at, swapped' = swapped
  PROVE  Follows(m)
<1> SUFFICES ASSUME NEW g \in GS, NEW H \in Hurts, Exact(g, H)
             PROVE  /\ LpExact(g, H \cup Touches(m))'
                    /\ LpExact(Updated(g, Parsed(m)), H \ Mends(m))'
  <2>1. m.kind \notin ClockKinds \cup ChainKinds \cup CountKinds /\ m.kind # "unknown"
    BY DEF ClockKinds, ChainKinds, CountKinds
  <2> QED
    BY <2>1, KeepClock, KeepChain, KeepAt DEF Follows, Exact
<1>1. Parsed(m) = m /\ m.player \in Seats
  BY HeardAs, MessageFields DEF LpKinds
<1>2. Touches(m) = {LpOf(m.player)}
  BY DEF Touches, Worthy, Summons
<1>3. \A s \in Seats : s # m.player => LpOf(s) # LpOf(m.player)
  BY <1>1 DEF LpOf, Seats
<1>4. \A s \in Seats : s # m.player => elp'[s] = elp[s]
  OBVIOUS
<1>5. \A s \in Seats : s # m.player => Updated(g, m).lp[s] = g.lp[s]
  BY UpdatedLp
<1>6. LpExact(g, H \cup Touches(m))'
  BY <1>2, <1>4 DEF Exact, LpExact
<1>7. \A s \in Seats : s # m.player => (LpOf(s) \notin H \ Mends(m) => LpOf(s) \notin H)
  BY <1>1, <1>3 DEF Mends
<1>8. LpOf(m.player) \notin H \ Mends(m) => Updated(g, m).lp[m.player] = elp'[m.player]
  <2>1. CASE m.kind = "lpupdate"
    <3>1. Updated(g, m).lp[m.player] = m.lp
      BY <1>1, <2>1, UpdatedLp
    <3> QED
      BY <1>1, <2>1, <3>1
  <2>2. CASE m.kind # "lpupdate"
    <3>1. Mends(m) = {}
      BY <2>2 DEF Mends
    <3>2. LpOf(m.player) \notin H => g.lp[m.player] = elp[m.player]
      BY <1>1 DEF Exact, LpExact
    <3>3. CASE m.kind \in {"damage", "pay_lpcost"}
      <4>1. Updated(g, m).lp[m.player] = Monus(g.lp[m.player], m.amount)
        BY <1>1, <3>3, UpdatedLp
      <4>2. elp'[m.player] = Monus(elp[m.player], m.amount)
        BY <1>1, <3>3
      <4> QED
        BY <3>1, <3>2, <4>1, <4>2
    <3>4. CASE m.kind = "recover"
      <4>1. Updated(g, m).lp[m.player] = g.lp[m.player] + m.amount
        BY <1>1, <3>4, UpdatedLp
      <4>2. elp'[m.player] = elp[m.player] + m.amount
        BY <1>1, <3>4
      <4> QED
        BY <3>1, <3>2, <4>1, <4>2
    <3> QED
      BY <2>2, <3>3, <3>4
  <2> QED
    BY <2>1, <2>2
<1>9. LpExact(Updated(g, Parsed(m)), H \ Mends(m))'
  BY <1>1, <1>4, <1>5, <1>7, <1>8 DEF Exact, LpExact
<1> QED
  BY <1>6, <1>9

(* The mirror follows the clock.                                           *)
LEMMA FollowsClock ==
  ASSUME NEW m \in Message, m.kind \in {"new_turn", "new_phase"},
         eturn \in [n : Nat, player : Seats, phase : PhaseOf],
         m.kind = "new_turn" => eturn' = [eturn EXCEPT !.n = eturn.n + 1, !.player = m.player],
         m.kind = "new_phase" => eturn' = [eturn EXCEPT !.phase = m.phase],
         elp' = elp, echain' = echain, at' = at, swapped' = swapped
  PROVE  Follows(m)
<1> SUFFICES ASSUME NEW g \in GS, NEW H \in Hurts, Exact(g, H)
             PROVE  /\ ClockExact(g, H \cup Touches(m))'
                    /\ ClockExact(Updated(g, Parsed(m)), H \ Mends(m))'
  <2>1. m.kind \notin LpKinds \cup ChainKinds \cup CountKinds /\ m.kind # "unknown"
    BY DEF LpKinds, ChainKinds, CountKinds
  <2> QED
    BY <2>1, KeepLp, KeepChain, KeepAt DEF Follows, Exact
<1>1. Parsed(m) = m
  BY HeardAs DEF ClockKinds
<1>2. CASE m.kind = "new_turn"
  <2>1. eturn'.n = eturn.n + 1 /\ eturn'.player = m.player /\ eturn'.phase = eturn.phase
    BY <1>2
  <2>2. /\ Updated(g, m).turn = g.turn + 1 /\ Updated(g, m).player = m.player
        /\ Updated(g, m).phase = g.phase
    BY <1>2, UpdatedRest
  <2>3. Touches(m) = {"turn", "player"} /\ Mends(m) = {"player"}
    BY <1>2 DEF Touches, Mends, Worthy, Summons
  <2> QED
    BY <1>1, <2>1, <2>2, <2>3 DEF Exact, ClockExact
<1>3. CASE m.kind = "new_phase"
  <2>1. eturn'.n = eturn.n /\ eturn'.player = eturn.player /\ eturn'.phase = m.phase
    BY <1>3
  <2>2. /\ Updated(g, m).turn = g.turn /\ Updated(g, m).player = g.player
        /\ Updated(g, m).phase = m.phase
    BY <1>3, UpdatedRest
  <2>3. Touches(m) = {"phase"} /\ Mends(m) = {"phase"}
    BY <1>3 DEF Touches, Mends, Worthy, Summons
  <2> QED
    BY <1>1, <2>1, <2>2, <2>3 DEF Exact, ClockExact
<1> QED
  BY <1>2, <1>3

(* The mirror follows the chain.                                           *)
LEMMA FollowsChain ==
  ASSUME NEW m \in Message, m.kind \in ChainKinds,
         echain' = CASE m.kind = "chaining"       -> Append(echain, "building")
                     [] m.kind = "chain_solving"  -> LinkSet(echain, m.link, "solving")
                     [] m.kind = "chain_solved"   -> LinkSet(echain, m.link, "solved")
                     [] m.kind = "chain_negated"  -> LinkSet(echain, m.link, "negated")
                     [] m.kind = "chain_disabled" -> LinkSet(echain, m.link, "disabled")
                     [] m.kind = "chain_end"      -> <<>>,
         elp' = elp, eturn' = eturn, at' = at, swapped' = swapped
  PROVE  Follows(m)
<1> SUFFICES ASSUME NEW g \in GS, NEW H \in Hurts, Exact(g, H)
             PROVE  /\ ChainExact(g, H \cup Touches(m))'
                    /\ ChainExact(Updated(g, Parsed(m)), H \ Mends(m))'
  <2>1. m.kind \notin LpKinds \cup ClockKinds \cup CountKinds /\ m.kind # "unknown"
    BY DEF LpKinds, ClockKinds, CountKinds, ChainKinds
  <2> QED
    BY <2>1, KeepLp, KeepClock, KeepAt DEF Follows, Exact
<1>1. Parsed(m) = m
  BY HeardAs
<1>2. "chain" \in Touches(m)
  BY DEF Touches, ChainKinds, Summons
<1>3. "chain" \in Mends(m) <=> m.kind = "chain_end"
  BY DEF Mends, ChainKinds
<1>4. g.chain = echain => Updated(g, m).chain = echain'
  BY UpdatedRest DEF ChainKinds
<1>5. m.kind = "chain_end" => Updated(g, m).chain = echain'
  BY UpdatedRest
<1> QED
  BY <1>1, <1>2, <1>3, <1>4, <1>5 DEF Exact, ChainExact

-----------------------------------------------------------------------------
(* Counts.                                                                 *)

(* A zone holds finitely many cards.                                       *)
LEMMA OnFinite ==
  \A s, z : IsFiniteSet(On(s, z)) /\ Cardinality(On(s, z)) \in Nat
<1> SUFFICES ASSUME NEW s, NEW z PROVE IsFiniteSet(On(s, z)) /\ Cardinality(On(s, z)) \in Nat
  OBVIOUS
<1>1. IsFiniteSet(Cards)
  BY EventStreamAssumption
<1>2. On(s, z) \subseteq Cards
  BY DEF On
<1>3. IsFiniteSet(On(s, z))
  BY <1>1, <1>2, FS_Subset
<1> QED
  BY <1>3, FS_CardinalityType

(* One card more or less.                                                  *)
LEMMA OneMore ==
  ASSUME NEW S, NEW T, IsFiniteSet(S), NEW c, c \notin S, T = S \cup {c}
  PROVE  Cardinality(T) = Cardinality(S) + 1 /\ Cardinality(S) \in Nat
BY FS_AddElement, FS_CardinalityType

(* A card less is one less.                                                *)
LEMMA OneLess ==
  ASSUME NEW S, NEW T, IsFiniteSet(S), NEW c, c \in S, T = S \ {c}
  PROVE  /\ Cardinality(T) = Cardinality(S) - 1 /\ Cardinality(S) \in Nat /\ Cardinality(S) > 0
         /\ IsFiniteSet(T)
<1>1. IsFiniteSet(T)
  BY FS_RemoveElement
<1>2. S = T \cup {c} /\ c \notin T
  OBVIOUS
<1> QED
  BY <1>1, <1>2, OneMore

(* A card that moves is one less where it was and one more where it goes.  *)
MovedTo(c, p, s, z) ==
  (IF at[c][1] = s /\ at[c][2] = z THEN Monus(Cardinality(On(s, z)), 1)
                                   ELSE Cardinality(On(s, z)))
  + IF p[1] = s /\ p[2] = z THEN 1 ELSE 0

(* What one card that moves does to the number of cards of a zone.         *)
LEMMA MoveOne ==
  ASSUME Types, NEW c \in Cards, NEW p \in Places, at' = [at EXCEPT ![c] = p]
  PROVE  \A s, z : Cardinality(On(s, z)') = MovedTo(c, p, s, z)
<1> SUFFICES ASSUME NEW s, NEW z
             PROVE  Cardinality(On(s, z)') =
                      (IF at[c][1] = s /\ at[c][2] = z THEN Monus(Cardinality(On(s, z)), 1)
                                                       ELSE Cardinality(On(s, z)))
                      + IF p[1] = s /\ p[2] = z THEN 1 ELSE 0
  BY DEF MovedTo
<1> DEFINE S == On(s, z)
           T == S \ {c}
           U == On(s, z)'
<1>0. IsFiniteSet(S) /\ Cardinality(S) \in Nat
  BY OnFinite
<1>1. c \in S <=> at[c][1] = s /\ at[c][2] = z
  BY DEF On
<1>2. \A d \in Cards : d # c => at'[d] = at[d]
  BY DEF Types
<1>3. at'[c] = p
  BY DEF Types
<1>4. U = IF p[1] = s /\ p[2] = z THEN T \cup {c} ELSE T
  BY <1>2, <1>3 DEF On
<1> HIDE DEF S, U
<1>5. IsFiniteSet(T) /\ Cardinality(T) \in Nat
      /\ Cardinality(T) = IF c \in S THEN Monus(Cardinality(S), 1) ELSE Cardinality(S)
  <2>1. CASE c \in S
    BY <1>0, <2>1, OneLess DEF Monus
  <2>2. CASE c \notin S
    <3>1. T = S
      BY <2>2
    <3> QED
      BY <1>0, <2>2, <3>1
  <2> QED
    BY <2>1, <2>2
<1>6. c \notin T
  OBVIOUS
<1> HIDE DEF T
<1>7. CASE p[1] = s /\ p[2] = z
  <2>1. Cardinality(U) = Cardinality(T) + 1
    BY <1>4, <1>5, <1>6, <1>7, OneMore
  <2> QED
    BY <1>1, <1>5, <1>7, <2>1 DEF S, U
<1>8. CASE ~(p[1] = s /\ p[2] = z)
  BY <1>1, <1>4, <1>5, <1>8 DEF S, U
<1> QED
  BY <1>7, <1>8

(* The mirror follows a draw.                                              *)
LEMMA FollowsDraw ==
  ASSUME Types, NEW s \in Seats, NEW c \in On(s, "deck"), at' = [at EXCEPT ![c] = <<s, "hand", 0>>],
         elp' = elp, eturn' = eturn, echain' = echain, swapped' = swapped,
         NEW m \in Message, m = [kind |-> "draw", player |-> s]
  PROVE  Follows(m)
<1> SUFFICES ASSUME NEW g \in GS, NEW H \in Hurts, Exact(g, H)
             PROVE  /\ CountExact(g, H \cup Touches(m))'
                    /\ CountExact(Updated(g, Parsed(m)), H \ Mends(m))'
  <2>1. m.kind \notin LpKinds \cup ClockKinds \cup ChainKinds /\ m.kind # "unknown"
    BY DEF LpKinds, ClockKinds, ChainKinds
  <2> QED
    BY <2>1, KeepLp, KeepClock, KeepChain DEF Follows, Exact
<1>1. Parsed(m) = m
  BY HeardAs DEF CountKinds
<1>2. "counts" \in Touches(m) /\ Mends(m) = {}
  BY DEF Touches, Mends, Summons
<1>3. c \in Cards /\ at[c][1] = s /\ at[c][2] = "deck"
  BY DEF On
<1>4. ASSUME NEW r \in Seats, NEW z \in Counted,
             g.count[r][z] = Cardinality(On(r, z))
      PROVE  Updated(g, m).count[r][z] = Cardinality(On(r, z)')
  <2>1. Cardinality(On(r, z)') =
           (IF s = r /\ "deck" = z THEN Monus(Cardinality(On(r, z)), 1) ELSE Cardinality(On(r, z)))
           + IF s = r /\ "hand" = z THEN 1 ELSE 0
    <3>1. <<s, "hand", 0>> \in Places
      BY DEF Places, Piles
    <3>2. Cardinality(On(r, z)') = MovedTo(c, <<s, "hand", 0>>, r, z)
      BY <1>3, <3>1, MoveOne
    <3> QED
      BY <1>3, <3>2 DEF MovedTo
  <2>2. Updated(g, m).count[r][z] =
           CASE m.player = r /\ z = "hand" -> g.count[r][z] + 1
             [] m.player = r /\ z = "deck" -> Monus(g.count[r][z], 1)
             [] OTHER -> g.count[r][z]
    BY UpdatedCount
  <2>3. Cardinality(On(r, z)) \in Nat
    BY OnFinite
  <2>4. Monus(Cardinality(On(r, z)), 1) \in Nat
    BY <2>3 DEF Monus
  <2> QED
    BY <1>4, <2>1, <2>2, <2>3, <2>4
<1>5. ASSUME NEW r \in Seats, NEW z \in Counted, r \in swapped, z \in {"deck", "grave"}
      PROVE  r \in swapped'
  BY <1>5
<1> QED
  BY <1>1, <1>2, <1>4, <1>5 DEF Exact, CountExact

(* The mirror follows a move, from and to any zone.                        *)
LEMMA FollowsMove ==
  ASSUME Types, NEW c \in Cards, NEW p \in Places, at' = [at EXCEPT ![c] = p],
         elp' = elp, eturn' = eturn, echain' = echain, swapped' = swapped,
         NEW m \in Message, m = [kind |-> "move", card |-> c, from |-> at[c], to |-> p]
  PROVE  Follows(m)
<1> SUFFICES ASSUME NEW g \in GS, NEW H \in Hurts, Exact(g, H)
             PROVE  /\ CountExact(g, H \cup Touches(m))'
                    /\ CountExact(Updated(g, Parsed(m)), H \ Mends(m))'
  <2>1. m.kind \notin LpKinds \cup ClockKinds \cup ChainKinds /\ m.kind # "unknown"
    BY DEF LpKinds, ClockKinds, ChainKinds
  <2> QED
    BY <2>1, KeepLp, KeepClock, KeepChain DEF Follows, Exact
<1>1. Parsed(m) = m
  BY HeardAs DEF CountKinds
<1>2. "counts" \in Touches(m) /\ Mends(m) = {}
  BY DEF Touches, Mends, Summons
<1>4. ASSUME NEW r \in Seats, NEW z \in Counted,
             g.count[r][z] = Cardinality(On(r, z))
      PROVE  Updated(g, m).count[r][z] = Cardinality(On(r, z)')
  <2>1. Cardinality(On(r, z)') =
           (IF at[c][1] = r /\ at[c][2] = z THEN Monus(Cardinality(On(r, z)), 1)
                                            ELSE Cardinality(On(r, z)))
           + IF p[1] = r /\ p[2] = z THEN 1 ELSE 0
    <3>1. Cardinality(On(r, z)') = MovedTo(c, p, r, z)
      BY MoveOne
    <3> QED
      BY <3>1 DEF MovedTo
  <2>2. Updated(g, m).count[r][z] = Moved(g.count, m)[r][z]
    BY UpdatedCount
  <2>3. Moved(g.count, m)[r][z] =
          (IF m.from[1] = r /\ m.from[2] = z THEN Monus(g.count[r][z], 1) ELSE g.count[r][z])
          + IF m.to[1] = r /\ m.to[2] = z THEN 1 ELSE 0
    BY DEF Moved
  <2> QED
    BY <1>4, <2>1, <2>2, <2>3
<1> QED
  BY <1>1, <1>2, <1>4 DEF Exact, CountExact

(* Two cards of the field that trade places leave every count.             *)
LEMMA FollowsTrade ==
  ASSUME Types, NEW c \in Cards, NEW d \in Cards, at[c] \in Field, at[d] \in Field, c # d,
         at[c] # at[d],
         at' = [at EXCEPT ![c] = at[d], ![d] = at[c]],
         elp' = elp, eturn' = eturn, echain' = echain, swapped' = swapped,
         NEW m \in Message, m.kind \notin LpKinds \cup ClockKinds \cup ChainKinds \cup CountKinds
  PROVE  Follows(m)
<1>0. at[c][2] = "mzone" /\ at[d][2] = "mzone" /\ at'[c] = at[d] /\ at'[d] = at[c]
      /\ \A e \in Cards : e # c /\ e # d => at'[e] = at[e]
  BY DEF Field, Types
<1>1. ASSUME NEW s, NEW z, NEW a \in {c, d}, NEW b \in {c, d}, a # b,
             a \in On(s, z), b \notin On(s, z)
      PROVE  Cardinality(On(s, z)') = Cardinality(On(s, z))
  <2> DEFINE S == On(s, z)
             T == S \ {a}
             U == On(s, z)'
  <2>1. at[a][1] = s /\ at[a][2] = z
    BY <1>1 DEF On
  <2>2. at'[a] = at[b] /\ at'[b] = at[a]
    <3>1. CASE a = c
      <4>1. b = d
        BY <1>1, <3>1
      <4> QED
        BY <1>0, <3>1, <4>1
    <3>2. CASE a = d
      <4>1. b = c
        BY <1>1, <3>2
      <4> QED
        BY <1>0, <3>2, <4>1
    <3> QED
      BY <3>1, <3>2
  <2>3. b \in U /\ a \notin U
    BY <1>1, <2>1, <2>2 DEF On
  <2>4. \A e \in Cards : e # a /\ e # b => (e \in U <=> e \in S)
    BY <1>0, <1>1 DEF On
  <2>5. S \subseteq Cards /\ U \subseteq Cards
    BY DEF On
  <2>6. IsFiniteSet(S) /\ a \in S /\ b \notin S
    BY <1>1, OnFinite
  <2> HIDE DEF S, U
  <2>7. U = T \cup {b} /\ b \notin T
    BY <2>3, <2>4, <2>5, <2>6
  <2>8. Cardinality(T) = Cardinality(S) - 1 /\ IsFiniteSet(T) /\ Cardinality(S) \in Nat
    BY <2>6, OneLess
  <2> HIDE DEF T
  <2>9. Cardinality(U) = Cardinality(T) + 1
    BY <2>7, <2>8, OneMore
  <2>10. Cardinality(U) = Cardinality(S)
    BY <2>8, <2>9
  <2> QED
    BY <2>10 DEF S, U
<1>2. ASSUME NEW s, NEW z, c \in On(s, z) <=> d \in On(s, z)
      PROVE  Cardinality(On(s, z)') = Cardinality(On(s, z))
  <2>1. \A e \in Cards : e \in On(s, z)' <=> e \in On(s, z)
    BY <1>0, <1>2 DEF On
  <2>2. On(s, z)' = On(s, z)
    BY <2>1 DEF On
  <2> QED
    BY <2>2
<1>3. ASSUME NEW s \in Seats, NEW z \in Counted PROVE Cardinality(On(s, z)') = Cardinality(On(s, z))
  <2>1. CASE c \in On(s, z) /\ d \notin On(s, z)
    BY <1>1, <2>1
  <2>2. CASE d \in On(s, z) /\ c \notin On(s, z)
    BY <1>1, <2>2
  <2> QED
    BY <1>2, <2>1, <2>2
<1> QED
  BY <1>3, KeepLp, KeepClock, KeepChain, KeepCount DEF Follows, Exact

(* A swap of deck and grave costs the mirror these two counts, and no      *)
(* other.                                                                  *)
LEMMA FollowsSwapGraveDeck ==
  ASSUME Types, NEW s \in Seats,
         at' = [c \in Cards |-> CASE at[c] = <<s, "deck", 0>>  -> <<s, "grave", 0>>
                                  [] at[c] = <<s, "grave", 0>> -> <<s, "deck", 0>>
                                  [] OTHER -> at[c]],
         swapped' = swapped \cup {s},
         elp' = elp, eturn' = eturn, echain' = echain,
         NEW m \in Message, m.kind \notin LpKinds \cup ClockKinds \cup ChainKinds \cup CountKinds
  PROVE  Follows(m)
<1> SUFFICES ASSUME NEW g \in GS, NEW H \in Hurts, Exact(g, H)
             PROVE  /\ CountExact(g, H \cup Touches(m))' /\ CountExact(g, H \ Mends(m))'
                    /\ CountExact(Updated(g, Parsed(m)), H \ Mends(m))'
  BY KeepLp, KeepClock, KeepChain DEF Follows, Exact
<1>1. ASSUME NEW r \in Seats, NEW z \in Counted, ~(r = s /\ z \in {"deck", "grave"})
      PROVE  On(r, z)' = On(r, z)
  <2>1. ASSUME NEW c \in Cards PROVE c \in On(r, z)' <=> c \in On(r, z)
    <3>1. CASE at[c] = <<s, "deck", 0>>
      <4>1. at'[c] = <<s, "grave", 0>>
        BY <3>1
      <4> QED
        BY <1>1, <3>1, <4>1 DEF On
    <3>2. CASE at[c] = <<s, "grave", 0>>
      <4>1. at'[c] = <<s, "deck", 0>>
        BY <3>2
      <4> QED
        BY <1>1, <3>2, <4>1 DEF On
    <3>3. CASE at[c] # <<s, "deck", 0>> /\ at[c] # <<s, "grave", 0>>
      <4>1. at'[c] = at[c]
        BY <3>3
      <4> QED
        BY <4>1 DEF On
    <3> QED
      BY <3>1, <3>2, <3>3
  <2> QED
    BY <2>1 DEF On
<1>2. Parsed(m) \in Message /\ Parsed(m).kind \notin CountKinds
  BY HeardAs
<1>3. "counts" \notin Mends(m)
  BY TouchesType
<1>4. \A r \in Seats, z \in Counted : Updated(g, Parsed(m)).count[r][z] = g.count[r][z]
  BY <1>2, UpdatedCount DEF CountKinds
<1>5. \A r \in Seats, z \in Counted :
        ~(r = s /\ z \in {"deck", "grave"}) => Cardinality(On(r, z)') = Cardinality(On(r, z))
  BY <1>1
<1>6. "counts" \notin H =>
        \A r \in Seats, z \in Counted :
          g.count[r][z] = Cardinality(On(r, z)') \/ (r \in swapped' /\ z \in {"deck", "grave"})
  BY <1>5 DEF Exact, CountExact
<1> QED
  BY <1>3, <1>4, <1>6 DEF CountExact

(* MSG_START says what the GameState has been reset to.                    *)
LEMMA FollowsStart ==
  ASSUME Types, Rules, said = 0, \A c \in Cards : at[c][2] = "deck",
         elp' = elp, eturn' = eturn, echain' = echain, at' = at, swapped' = swapped,
         NEW m \in Message,
         m = [kind |-> "start", lp |-> StartLP,
              deck |-> [s \in Seats |-> Cardinality(On(s, "deck"))]]
  PROVE  Follows(m)
<1> SUFFICES ASSUME NEW g \in GS, NEW H \in Hurts, Exact(g, H)
             PROVE  /\ LpExact(g, H \cup Touches(m))'
                    /\ LpExact(Updated(g, Parsed(m)), H \ Mends(m))'
                    /\ CountExact(g, H \cup Touches(m))'
                    /\ CountExact(Updated(g, Parsed(m)), H \ Mends(m))'
  <2>1. m.kind \notin ClockKinds \cup ChainKinds /\ m.kind # "unknown"
    BY DEF ClockKinds, ChainKinds
  <2> QED
    BY <2>1, KeepClock, KeepChain DEF Follows, Exact
<1>0. m.kind = "start" /\ m.lp = StartLP /\ \A s \in Seats : m.deck[s] = Cardinality(On(s, "deck"))
  OBVIOUS
<1>1. Parsed(m) = m
  BY <1>0, HeardAs DEF CountKinds
<1>2. {"counts", "lp0", "lp1"} \subseteq Touches(m)
  BY <1>0 DEF Touches, Summons
<1>3. \A s \in Seats : Updated(g, m).lp[s] = elp[s]
  <2>1. \A s \in Seats : Updated(g, m).lp[s] = StartLP
    BY <1>0, UpdatedLp
  <2>2. \A s \in Seats : elp[s] = StartLP
    BY DEF Rules
  <2> QED
    BY <2>1, <2>2
<1>4. ASSUME NEW s \in Seats, NEW z \in Counted
      PROVE  Updated(g, m).count[s][z] = Cardinality(On(s, z))
  <2>1. Updated(g, m).count[s][z] = IF z = "deck" THEN m.deck[s] ELSE 0
    BY <1>0, UpdatedCount
  <2>2. z # "deck" => On(s, z) = {}
    BY DEF On
  <2> QED
    BY <1>0, <2>1, <2>2, FS_EmptySet
<1>5. \A s \in Seats, z \in Counted : On(s, z)' = On(s, z)
  BY DEF On
<1>6. LpExact(g, H \cup Touches(m))' /\ LpExact(Updated(g, Parsed(m)), H \ Mends(m))'
  BY <1>1, <1>2, <1>3 DEF LpExact, LpOf, Seats
<1>7. CountExact(g, H \cup Touches(m))' /\ CountExact(Updated(g, Parsed(m)), H \ Mends(m))'
  BY <1>1, <1>2, <1>4, <1>5 DEF CountExact
<1> QED
  BY <1>6, <1>7

-----------------------------------------------------------------------------
(* The tracker.                                                            *)

(* Holder, of any layout that puts one card on a place of the field.       *)
HolderIn(f, p) == IF \E c \in Cards : f[c] = p THEN CHOOSE c \in Cards : f[c] = p ELSE None

(* The holder of a place of the field is the one card there, if any.       *)
LEMMA HolderInOf ==
  ASSUME NEW f, Placed(f), NEW p \in Field
  PROVE  /\ \A c \in Cards : f[c] = p => HolderIn(f, p) = c
         /\ (\A c \in Cards : f[c] # p) => HolderIn(f, p) = None
BY DEF HolderIn, Placed

(* Two layouts with the same cards on a place have the same holder of it.  *)
LEMMA HolderSame ==
  ASSUME NEW f, Placed(f), NEW h, Placed(h), NEW p \in Field,
         \A c \in Cards : f[c] = p <=> h[c] = p
  PROVE  HolderIn(f, p) = HolderIn(h, p)
<1>1. CASE \E c \in Cards : f[c] = p
  BY <1>1, HolderInOf
<1>2. CASE ~ \E c \in Cards : f[c] = p
  BY <1>2, HolderInOf
<1> QED
  BY <1>1, <1>2

(* Holder is HolderIn the layout of the moment.                            *)
LEMMA HolderAt ==
  \A p : Holder(p) = HolderIn(at, p) /\ Holder(p)' = HolderIn(at', p)
BY DEF Holder, HolderIn

(* The holder of a place stays if the cards on it do.                      *)
LEMMA HolderStays ==
  ASSUME Placed(at), Placed(at')
  PROVE  \A p \in Field : (\A c \in Cards : at'[c] = p <=> at[c] = p)
                           => HolderIn(at', p) = HolderIn(at, p)
<1> SUFFICES ASSUME NEW p \in Field, \A c \in Cards : at'[c] = p <=> at[c] = p
             PROVE  HolderIn(at', p) = HolderIn(at, p)
  OBVIOUS
<1>1. PICK f : f = at'
  OBVIOUS
<1>2. PICK h : h = at
  OBVIOUS
<1>3. Placed(f) /\ Placed(h) /\ \A c \in Cards : f[c] = p <=> h[c] = p
  BY <1>1, <1>2
<1>4. HolderIn(f, p) = HolderIn(h, p)
  BY <1>3, HolderSame
<1> QED
  BY <1>1, <1>2, <1>4

(* What has to be known of an action that says m, for the tracker to       *)
(* follow.                                                                 *)
NamesFollow(m) ==
  \A t \in [Field -> Names], H \in Hurts :
    NamesCards(t, H) => /\ NamesCards(t, H \cup Touches(m))'
                        /\ m.kind = "unknown" => NamesCards(t, H \ Mends(m))'
                        /\ NamesCards(Tracked(t, Parsed(m)), H \ Mends(m))'

(* A message no lookup depends on, of an action that moves nothing on the  *)
(* field.                                                                  *)
LEMMA NamesIdle ==
  ASSUME NEW m \in Message, m.kind \notin TrackKinds, Placed(at), Placed(at'),
         \A p \in Field : drift'[p] = drift[p] /\ (\A c \in Cards : at'[c] = p <=> at[c] = p)
  PROVE  NamesFollow(m)
<1> SUFFICES ASSUME NEW t \in [Field -> Names], NEW H \in Hurts, NamesCards(t, H)
             PROVE  /\ NamesCards(t, H \cup Touches(m))' /\ NamesCards(t, H \ Mends(m))'
                    /\ NamesCards(Tracked(t, Parsed(m)), H \ Mends(m))'
  BY DEF NamesFollow
<1>1. Parsed(m) \in Message /\ Parsed(m).kind \notin TrackKinds
  BY HeardAs
<1>2. Tracked(t, Parsed(m)) = t
  BY <1>1 DEF Tracked, TrackKinds, Summons
<1>3. "field" \notin Mends(m)
  BY TouchesType
<1>4. \A p \in Field : Holder(p)' = Holder(p)
  BY HolderSame, HolderAt
<1> QED
  BY <1>2, <1>3, <1>4 DEF NamesCards

(* The tracker follows a move.                                             *)
LEMMA NamesMove ==
  ASSUME Types, NEW c \in Cards, NEW p \in Places, p # at[c], at' = [at EXCEPT ![c] = p],
         p \in Field => Holder(p) = None,
         drift' = [q \in Field |-> IF q \in {p, at[c]} THEN None ELSE drift[q]],
         Placed(at), Placed(at'),
         NEW m \in Message, m = [kind |-> "move", card |-> c, from |-> at[c], to |-> p]
  PROVE  NamesFollow(m)
<1> SUFFICES ASSUME NEW t \in [Field -> Names], NEW H \in Hurts, NamesCards(t, H)
             PROVE  /\ NamesCards(t, H \cup Touches(m))'
                    /\ NamesCards(Tracked(t, Parsed(m)), H \ Mends(m))'
  BY DEF NamesFollow
<1>0. m.kind = "move" /\ m.card = c /\ m.from = at[c] /\ m.to = p
  OBVIOUS
<1>1. Parsed(m) = m
  BY <1>0, HeardAs DEF TrackKinds
<1>2. "field" \in Touches(m) /\ "field" \notin Mends(m)
  BY <1>0, TouchesType DEF Touches, Summons
<1>3. at'[c] = p /\ \A d \in Cards : d # c => at'[d] = at[d]
  BY DEF Types
<1> DEFINE u == Tracked(t, m)
<1>4. \A q \in Field : u[q] = IF q = at[c] THEN None ELSE IF q = p THEN c ELSE t[q]
  <2>1. u = [q \in Field |-> IF q = m.from THEN None ELSE IF q = m.to THEN m.card ELSE t[q]]
    BY <1>0 DEF Tracked, Summons
  <2> QED
    BY <1>0, <2>1
<1>a. None \notin {"blank", "wrong"}
  BY EventStreamAssumption
<1>5. ASSUME NEW q \in Field, "field" \notin H
      PROVE  (drift'[q] = None => u[q] = Holder(q)') /\ (drift'[q] = "blank" => u[q] = None)
  <2>1. CASE q = at[c]
    <3>1. \A d \in Cards : at'[d] # q
      BY <1>3, <2>1 DEF Placed
    <3>2. HolderIn(at', q) = None
      BY <3>1, HolderInOf
    <3> QED
      BY <1>4, <2>1, <3>2, HolderAt
  <2>2. CASE q = p
    <3>1. HolderIn(at', q) = c
      BY <1>3, <2>2, HolderInOf
    <3>2. drift'[q] = None /\ u[q] = c
      BY <1>4, <2>2
    <3> QED
      BY <1>a, <3>1, <3>2, HolderAt
  <2>3. CASE q # at[c] /\ q # p
    <3>1. \A d \in Cards : at'[d] = q <=> at[d] = q
      BY <1>3, <2>3
    <3>2. HolderIn(at', q) = HolderIn(at, q)
      BY <3>1, HolderStays
    <3>3. drift'[q] = drift[q] /\ u[q] = t[q]
      BY <1>4, <2>3
    <3> QED
      BY <1>5, <3>2, <3>3, HolderAt DEF NamesCards
  <2> QED
    BY <2>1, <2>2, <2>3
<1> HIDE DEF u
<1>6. NamesCards(u, H \ Mends(m))'
  BY <1>2, <1>5 DEF NamesCards
<1> QED
  BY <1>1, <1>2, <1>6 DEF NamesCards, u

(* The tracker does not follow two cards that trade places: it drifts, or  *)
(* it has not heard of them.                                               *)
LEMMA NamesTrade ==
  ASSUME Types, NEW c \in Cards, NEW d \in Cards, at[c] \in Field, at[d] \in Field, c # d,
         at' = [at EXCEPT ![c] = at[d], ![d] = at[c]],
         drift' = [q \in Field |-> IF q \in {at[c], at[d]} /\ drift[q] # "blank"
                                   THEN "wrong" ELSE drift[q]],
         Placed(at), Placed(at'),
         NEW m \in Message, m.kind \notin TrackKinds
  PROVE  NamesFollow(m)
<1> SUFFICES ASSUME NEW t \in [Field -> Names], NEW H \in Hurts, NamesCards(t, H)
             PROVE  /\ NamesCards(t, H \cup Touches(m))' /\ NamesCards(t, H \ Mends(m))'
                    /\ NamesCards(Tracked(t, Parsed(m)), H \ Mends(m))'
  BY DEF NamesFollow
<1>1. Parsed(m) \in Message /\ Parsed(m).kind \notin TrackKinds
  BY HeardAs
<1>2. Tracked(t, Parsed(m)) = t
  BY <1>1 DEF Tracked, TrackKinds, Summons
<1>3. "field" \notin Mends(m)
  BY TouchesType
<1>4. None \notin {"blank", "wrong"}
  BY EventStreamAssumption
<1>5. ASSUME NEW q \in Field, "field" \notin H
      PROVE  (drift'[q] = None => t[q] = Holder(q)') /\ (drift'[q] = "blank" => t[q] = None)
  <2>1. CASE q \in {at[c], at[d]}
    <3>1. drift'[q] # None /\ (drift'[q] = "blank" => drift[q] = "blank")
      BY <1>4, <2>1
    <3> QED
      BY <1>5, <3>1 DEF NamesCards
  <2>2. CASE q \notin {at[c], at[d]}
    <3>1. \A e \in Cards : at'[e] = q <=> at[e] = q
      BY <2>2 DEF Types
    <3>2. HolderIn(at', q) = HolderIn(at, q)
      BY <3>1, HolderStays
    <3>3. drift'[q] = drift[q]
      BY <2>2
    <3> QED
      BY <1>5, <3>2, <3>3, HolderAt DEF NamesCards
  <2> QED
    BY <2>1, <2>2
<1> QED
  BY <1>2, <1>3, <1>5 DEF NamesCards

(* The tracker learns the card a message names.                            *)
LEMMA NamesReveal ==
  ASSUME Types, NEW c \in Cards, at[c] \in Field, at' = at, Placed(at),
         NEW m \in Message, m.kind \in Summons \cup {"pos_change", "attack"},
         m.card = c, m.place = at[c],
         drift' = [drift EXCEPT ![at[c]] =
                     IF m.kind \in Summons \/ (m.kind = "pos_change" /\ drift[at[c]] = "blank")
                     THEN None ELSE drift[at[c]]]
  PROVE  NamesFollow(m)
<1>1. CASE m.kind = "attack"
  <2>1. m.kind \notin TrackKinds
    BY <1>1 DEF TrackKinds, Summons
  <2>2. \A p \in Field : drift'[p] = drift[p]
    BY <1>1 DEF Types, Summons
  <2> QED
    BY <2>1, <2>2, NamesIdle
<1>2. CASE m.kind \in TrackKinds
  <2> SUFFICES ASSUME NEW t \in [Field -> Names], NEW H \in Hurts, NamesCards(t, H)
               PROVE  /\ NamesCards(t, H \cup Touches(m))'
                      /\ NamesCards(Tracked(t, Parsed(m)), H \ Mends(m))'
    BY DEF NamesFollow, Summons
  <2>1. Parsed(m) = m
    BY <1>2, HeardAs
  <2>2. "field" \in Touches(m) /\ "field" \notin Mends(m)
    BY <1>2, TouchesType DEF Touches, TrackKinds, Summons
  <2>3. Holder(at[c]) = c /\ c # None
    BY HolderInOf, HolderAt, EventStreamAssumption
  <2>4. \A q \in Field : Holder(q)' = Holder(q)
    BY HolderAt
  <2> DEFINE u == Tracked(t, m)
  <2>5. \A q \in Field : q # at[c] => u[q] = t[q] /\ drift'[q] = drift[q]
    BY DEF Tracked, Summons, Types
  <2>6. drift'[at[c]] = IF m.kind \in Summons \/ (m.kind = "pos_change" /\ drift[at[c]] = "blank")
                        THEN None ELSE drift[at[c]]
    BY DEF Types
  <2>a. None \notin {"blank", "wrong"}
    BY EventStreamAssumption
  <2>7. ASSUME "field" \notin H
        PROVE  /\ drift'[at[c]] = None => u[at[c]] = Holder(at[c])
               /\ drift'[at[c]] = "blank" => u[at[c]] = None
    <3>1. CASE m.kind \in Summons
      <4>1. u[at[c]] = c
        BY <3>1 DEF Tracked, Summons
      <4> QED
        BY <2>3, <2>6, <2>a, <3>1, <4>1
    <3>2. CASE m.kind = "pos_change"
      <4>1. u[at[c]] = IF t[at[c]] = None THEN c ELSE t[at[c]]
        BY <3>2 DEF Tracked, Summons
      <4>2. /\ drift[at[c]] = None => t[at[c]] = c
            /\ drift[at[c]] = "blank" => t[at[c]] = None
        BY <2>3, <2>7 DEF NamesCards
      <4>3. m.kind \notin Summons
        BY <3>2 DEF Summons
      <4>4. CASE drift[at[c]] = None
        BY <2>3, <2>6, <2>a, <3>2, <4>1, <4>2, <4>4
      <4>5. CASE drift[at[c]] = "blank"
        BY <2>3, <2>6, <2>a, <3>2, <4>1, <4>2, <4>5
      <4>6. CASE drift[at[c]] \notin {None, "blank"}
        BY <2>6, <3>2, <4>3, <4>6
      <4> QED
        BY <4>4, <4>5, <4>6
    <3> QED
      BY <1>2, <3>1, <3>2 DEF TrackKinds
  <2> HIDE DEF u
  <2>8. ASSUME NEW q \in Field, "field" \notin H
        PROVE  (drift'[q] = None => u[q] = Holder(q)') /\ (drift'[q] = "blank" => u[q] = None)
    BY <2>4, <2>5, <2>7, <2>8 DEF NamesCards
  <2>9. NamesCards(u, H \ Mends(m))'
    BY <2>2, <2>8 DEF NamesCards
  <2> QED
    BY <2>1, <2>2, <2>9 DEF NamesCards, u
<1> QED
  BY <1>1, <1>2 DEF TrackKinds

-----------------------------------------------------------------------------
(* The event history.                                                      *)

(* A history h that tells k.                                               *)
Abreast(h, k, n) == Len(h) = Len(k) /\ \A i \in DOMAIN k : Match(h[i], k[i], n)
Kept(h, x) == Newest(Append(h, x))
Shifted(k, y) == IF Len(k) < MaxHistory THEN Append(k, y) ELSE Tail(Append(k, y))

(* An event told and its entry, each the newest of its sequence.           *)
LEMMA TellsMore ==
  \A n \in Nat, h \in Past, k \in Seq(Tale), x \in Event, y \in Tale :
    Abreast(h, k, n) /\ Match(x, y, n) => Abreast(Kept(h, x), Shifted(k, y), n)
<1> SUFFICES ASSUME NEW h \in Past, NEW k \in Seq(Tale), NEW n \in Nat, NEW x \in Event, NEW y \in Tale,
                    Abreast(h, k, n), Match(x, y, n),
                    NEW l, l = Shifted(k, y), NEW j, j = Newest(Append(h, x))
             PROVE  Len(j) = Len(l) /\ \A i \in DOMAIN l : Match(j[i], l[i], n)
  BY DEF Abreast, Kept
<1>a. Len(h) = Len(k) /\ \A i \in DOMAIN k : Match(h[i], k[i], n)
  BY DEF Abreast
<1>0. h \in Seq(Event)
  BY DEF Past
<1>1. j = IF Len(h) < MaxHistory THEN Append(h, x) ELSE Tail(Append(h, x))
  BY NewestType
<1> DEFINE p == Append(h, x)
           q == Append(k, y)
<1>2. /\ Len(k) \in Nat /\ p \in Seq(Event) /\ q \in Seq(Tale) /\ DOMAIN k = 1 .. Len(k)
      /\ Len(p) = Len(k) + 1 /\ Len(q) = Len(k) + 1
      /\ \A i \in 1 .. Len(k) : p[i] = h[i] /\ q[i] = k[i]
      /\ p[Len(k) + 1] = x /\ q[Len(k) + 1] = y
  BY <1>0, <1>a
<1>3. \A i \in 1 .. Len(k) + 1 : Match(p[i], q[i], n)
  <2>1. \A i \in 1 .. Len(k) + 1 : i \in 1 .. Len(k) \/ i = Len(k) + 1
    BY <1>2
  <2> HIDE DEF p, q
  <2> QED
    BY <1>2, <1>a, <2>1
<1> HIDE DEF p, q
<1>4. CASE Len(k) < MaxHistory
  <2>1. j = p /\ l = q
    BY <1>1, <1>4, <1>a DEF p, q, Shifted
  <2> QED
    BY <1>2, <1>3, <2>1
<1>5. CASE ~(Len(k) < MaxHistory)
  <2>1. j = Tail(p) /\ l = Tail(q)
    BY <1>1, <1>5, <1>a DEF p, q, Shifted
  <2>2. /\ Len(Tail(p)) = Len(k) /\ Len(Tail(q)) = Len(k) /\ DOMAIN Tail(q) = 1 .. Len(k)
        /\ \A i \in 1 .. Len(k) : Tail(p)[i] = p[i + 1] /\ Tail(q)[i] = q[i + 1]
    BY <1>2
  <2>3. \A i \in 1 .. Len(k) : i + 1 \in 1 .. Len(k) + 1
    BY <1>2
  <2> QED
    BY <1>3, <2>1, <2>2, <2>3
<1> QED
  BY <1>4, <1>5

(* What a message adds to the history, when it is read.                    *)
LEMMA TellsNext ==
  ASSUME Types, Rules, NEW m \in Message, Say(m), Worthy(m),
         NEW q \in Record, NEW g \in GS, eturn.n <= g.turn, NEW H \in Hurts,
         NamesCards(q.tracker, H), "field" \notin H, Tells(q.history, g.turn, H)
  PROVE  Tells(Caught(q, m, g).history, g.turn, H)'
<1>0. q.history \in Past /\ g.turn \in Nat /\ eturn.n \in Nat /\ q.tracker \in [Field -> Names]
      /\ told \in Seq(Tale)
  BY DEF Record, GS, Types
<1> SUFFICES ASSUME H \cap {"history", "field", "turn"} = {}
             PROVE  /\ Len(Caught(q, m, g).history) = Len(told')
                    /\ \A i \in DOMAIN told' : Match(Caught(q, m, g).history[i], told'[i], g.turn)
  BY DEF Tells
<1>1. Len(q.history) = Len(told) /\ \A i \in DOMAIN told : Match(q.history[i], told[i], g.turn)
  BY DEF Tells
<1>2. PICK y \in Tale :
        /\ y.kind = m.kind /\ y.turn = eturn.n
        /\ m.kind # "attack" => y.card = m.card
        /\ m.kind = "attack" => y.card = Holder(m.place) /\ (y.sure => drift[m.place] = None)
        /\ told' = IF Len(told) < MaxHistory THEN Append(told, y) ELSE Tail(Append(told, y))
  BY SayTold
<1> DEFINE x == [kind |-> m.kind, turn |-> g.turn,
                 card |-> IF m.kind = "attack" THEN Tracked(q.tracker, m)[m.place] ELSE m.card]
<1>3. x \in Event /\ Caught(q, m, g).history = Newest(Append(q.history, x))
  BY <1>0, CaughtType
<1>4. x.kind = m.kind /\ x.turn = g.turn
      /\ x.card = IF m.kind = "attack" THEN Tracked(q.tracker, m)[m.place] ELSE m.card
  OBVIOUS
<1> HIDE DEF x
<1>5. y.sure => x.card = y.card
  <2>1. CASE m.kind # "attack"
    BY <1>2, <1>4, <2>1
  <2>2. CASE m.kind = "attack"
    <3>1. Tracked(q.tracker, m) = q.tracker
      BY <2>2 DEF Tracked
    <3>2. m.place \in Field
      BY <2>2, MessageFields
    <3>3. drift[m.place] = None => q.tracker[m.place] = Holder(m.place)
      BY <3>2 DEF NamesCards
    <3> QED
      BY <1>2, <1>4, <2>2, <3>1, <3>3
  <2> QED
    BY <2>1, <2>2
<1>6. Match(x, y, g.turn)
  BY <1>0, <1>2, <1>4, <1>5 DEF Match
<1>7. PICK h \in Past : h = q.history
  BY <1>0
<1>8. PICK k \in Seq(Tale) : k = told
  BY <1>0
<1>9. Abreast(h, k, g.turn)
  BY <1>1, <1>7, <1>8 DEF Abreast
<1>10. Abreast(Kept(h, x), Shifted(k, y), g.turn)
  <2>1. PICK z \in Event : z = x
    BY <1>3
  <2>2. PICK n \in Nat : n = g.turn
    BY <1>0
  <2>3. Match(z, y, n) /\ Abreast(h, k, n)
    BY <1>6, <1>9, <2>1, <2>2
  <2>4. Abreast(Kept(h, z), Shifted(k, y), n)
    BY <2>3, TellsMore
  <2> QED
    BY <2>1, <2>2, <2>4
<1>11. Caught(q, m, g).history = Kept(h, x) /\ told' = Shifted(k, y)
  BY <1>2, <1>3, <1>7, <1>8 DEF Shifted, Kept
<1>12. Abreast(Caught(q, m, g).history, told', g.turn)
  BY <1>10, <1>11
<1> QED
  BY <1>12 DEF Abreast

(* A loss that leaves the history whole leaves it so as long as nothing is *)
(* told.                                                                   *)
LEMMA TellsStay ==
  ASSUME NEW h, NEW n, NEW H, NEW L, told' = told, Tells(h, n, H),
         H \cap {"history", "field", "turn"} \subseteq L
  PROVE  Tells(h, n, L)'
BY DEF Tells

(* A message said, read or not, keeps the tracker and the history right.   *)
LEMMA SayTell ==
  ASSUME Types, Rules, TellInv, NEW m \in Message, Say(m), NamesFollow(m),
         eturn'.n \in Nat, eturn.n <= eturn'.n
  PROVE  TellInv'
<1>1. pc = "engine" /\ gs' = gs /\ chunk' = chunk /\ tracker' = tracker /\ history' = history
      /\ hurt' = hurt /\ hurt \in Hurts /\ buf \in Seq(Frame) /\ chunk \in Seq(Message)
      /\ tracker \in [Field -> Names] /\ history \in Past /\ eturn.n \in Nat
  BY DEF Say, Types, mirror
<1>2. HurtFrom(hurt, buf) \in Hurts
  BY <1>1, HurtTyped
<1>3. [tracker |-> tracker, history |-> history] \in Record
  BY <1>1 DEF Record
<1> SUFFICES ASSUME NEW s \in Decodings(buf'), NEW g \in GS, NEW L \in Hurts, NEW r \in Record,
                    r = Captured(tracker', history', chunk' \o s, g), L = HurtFrom(hurt', buf')
             PROVE  RightOf(r, g.turn, L)'
  BY DEF TellInv
<1>4. CASE L = Everything
  BY <1>4 DEF RightOf, NamesCards, Tells, Everything
<1>5. CASE L # Everything
  <2>1. PICK t \in Decodings(buf) :
             \/ s = t /\ L = HurtFrom(hurt, buf) \cup Touches(m)
             \/ s = t /\ m.kind = "unknown" /\ L = HurtFrom(hurt, buf) \ Mends(m)
             \/ s = Append(t, Parsed(m)) /\ L = HurtFrom(hurt, buf) \ Mends(m)
    BY <1>5, SayHeard
  <2>2. t \in Seq(Message)
    BY <1>1, DecodingsType
  <2>3. Parsed(m) \in Message
    BY ParsedOf
  <2>4. PICK H \in Hurts : H = HurtFrom(hurt, buf)
    BY <1>2
  <2>5. g.turn \in Nat
    BY DEF GS
  <2>6. chunk \o t \in Seq(Message) /\ chunk \o Append(t, Parsed(m)) = Append(chunk \o t, Parsed(m))
    BY <1>1, <2>2, <2>3
  <2> DEFINE b == [tracker |-> tracker, history |-> history]
  <2>7. b \in Record /\ b.tracker = tracker /\ b.history = history
    BY <1>3
  <2> HIDE DEF b
  <2>8. PICK q \in Record : q = Captured(tracker, history, chunk \o t, g)
    BY <2>5, <2>6, <2>7, CapturedFold
  <2>9. Captured(tracker, history, chunk \o Append(t, Parsed(m)), g) = Caught(q, Parsed(m), g)
    <3>1. PICK c \in Seq(Message) : c = chunk \o t
      BY <2>6
    <3>2. PICK p \in Message : p = Parsed(m)
      BY <2>3
    <3>3. Captured(b.tracker, b.history, Append(c, p), g)
          = Caught(Captured(b.tracker, b.history, c, g), p, g)
      BY <2>5, <2>7, CapturedAppend
    <3> QED
      BY <2>6, <2>7, <2>8, <3>1, <3>2, <3>3
  <2>c. /\ Caught(q, Parsed(m), g).tracker = Tracked(q.tracker, Parsed(m))
        /\ ~Worthy(Parsed(m)) => Caught(q, Parsed(m), g).history = q.history
    <3>1. PICK p \in Message : p = Parsed(m)
      BY <2>3
    <3>2. /\ Caught(q, p, g).tracker = Tracked(q.tracker, p)
          /\ ~Worthy(p) => Caught(q, p, g).history = q.history
      BY <2>5, CaughtType
    <3> QED
      BY <3>1, <3>2
  <2>10. RightOf(q, g.turn, H)
    BY <1>1, <2>4, <2>8 DEF TellInv
  <2>11. q.tracker \in [Field -> Names] /\ NamesCards(q.tracker, H)
         /\ (eturn.n <= g.turn => Tells(q.history, g.turn, H))
    BY <2>10 DEF RightOf, Record
  <2>12. /\ NamesCards(q.tracker, H \cup Touches(m))'
         /\ m.kind = "unknown" => NamesCards(q.tracker, H \ Mends(m))'
         /\ NamesCards(Tracked(q.tracker, Parsed(m)), H \ Mends(m))'
    BY <2>11 DEF NamesFollow
  <2>13. Mends(m) \cap {"field", "history", "turn"} = {}
    BY TouchesType
  <2>14. ~Worthy(m) => told' = told
    BY SayTold
  <2>15. eturn'.n <= g.turn => eturn.n <= g.turn
    BY <1>1, <2>5
  <2>16. CASE s = t /\ L = H \cup Touches(m)
    <3>1. r = q
      BY <1>1, <2>8, <2>16
    <3>2. NamesCards(r.tracker, L)'
      BY <2>12, <2>16, <3>1
    <3>3. ASSUME eturn'.n <= g.turn PROVE Tells(r.history, g.turn, L)'
      <4>1. CASE Worthy(m)
        <5>1. "history" \in L
          BY <2>16, <4>1 DEF Touches
        <5> QED
          BY <5>1 DEF Tells
      <4>2. CASE ~Worthy(m)
        BY <2>11, <2>14, <2>15, <2>16, <3>1, <3>3, <4>2, TellsStay
      <4> QED
        BY <4>1, <4>2
    <3> QED
      BY <3>2, <3>3 DEF RightOf
  <2>17. CASE s = t /\ m.kind = "unknown" /\ L = H \ Mends(m)
    <3>1. r = q
      BY <1>1, <2>8, <2>17
    <3>2. NamesCards(r.tracker, L)'
      BY <2>12, <2>17, <3>1
    <3>3. ~Worthy(m)
      BY <2>17 DEF Worthy, Summons
    <3>4. ASSUME eturn'.n <= g.turn PROVE Tells(r.history, g.turn, L)'
      BY <2>11, <2>13, <2>14, <2>15, <2>17, <3>1, <3>3, <3>4, TellsStay
    <3> QED
      BY <3>2, <3>4 DEF RightOf
  <2>18. CASE s = Append(t, Parsed(m)) /\ L = H \ Mends(m)
    <3>1. r = Caught(q, Parsed(m), g)
      BY <1>1, <2>9, <2>18
    <3>2. r.tracker = Tracked(q.tracker, Parsed(m))
      BY <2>c, <3>1
    <3>3. NamesCards(r.tracker, L)'
      BY <2>12, <2>18, <3>2
    <3>4. ASSUME eturn'.n <= g.turn PROVE Tells(r.history, g.turn, L)'
      <4>1. CASE Worthy(m)
        <5>1. Parsed(m) = m
          BY <4>1, ParsedOf DEF Worthy, Told
        <5>2. CASE "field" \in L
          BY <5>2 DEF Tells
        <5>3. CASE "field" \notin L
          <6>1. "field" \notin H /\ L \in Hurts
            BY <2>13, <2>18, <5>3
          <6>2. Tells(Caught(q, m, g).history, g.turn, H)'
            BY <2>11, <2>15, <3>4, <4>1, <6>1, TellsNext
          <6>3. H \cap {"history", "field", "turn"} \subseteq L
            BY <2>13, <2>18
          <6> QED
            BY <3>1, <5>1, <6>2, <6>3 DEF Tells
        <5> QED
          BY <5>2, <5>3
      <4>2. CASE ~Worthy(m)
        <5>1. ~Worthy(Parsed(m))
          <6>1. Worthy(Parsed(m)) => Parsed(m).kind \in Told
            BY DEF Worthy, Told
          <6> QED
            BY <4>2, <6>1, ParsedOf
        <5>2. r.history = q.history
          BY <2>c, <3>1, <5>1
        <5> QED
          BY <2>11, <2>13, <2>14, <2>15, <2>18, <3>4, <4>2, <5>2, TellsStay
      <4> QED
        BY <4>1, <4>2
    <3> QED
      BY <3>3, <3>4 DEF RightOf
  <2> QED
    BY <2>1, <2>4, <2>16, <2>17, <2>18
<1> QED
  BY <1>4, <1>5

-----------------------------------------------------------------------------
(* The messages of the engine, one by one.                                 *)

(* All that has to be shown of an action that says m.                      *)
LEMMA SayInv ==
  ASSUME Inv, NEW m \in Message, Say(m),
         at' \in [Cards -> Places], elp' \in [Seats -> Nat],
         eturn' \in [n : Nat, player : Seats, phase : PhaseOf], echain' \in Seq(Statuses),
         drift' \in [Field -> {None, "blank", "wrong"}], swapped' \in SUBSET Seats,
         Placed(at'), elp' = elp \/ m.kind \notin Selects, eturn.n <= eturn'.n,
         Follows(m), NamesFollow(m)
  PROVE  Inv'
<1>1. Types /\ Rules /\ MirrorInv /\ TellInv
  BY DEF Inv
<1>2. Types'
  BY <1>1, SayTypes
<1>3. Rules'
  BY <1>1, SayRules
<1>4. MirrorInv'
  BY <1>1, SayMirror
<1>5. eturn'.n \in Nat
  OBVIOUS
<1>6. TellInv'
  BY <1>1, <1>5, SayTell
<1> QED
  BY <1>2, <1>3, <1>4, <1>6 DEF Inv

(* A message that is no news of the cards on the field.                    *)
LEMMA SayStill ==
  ASSUME Inv, NEW m \in Message, Say(m), m.kind \notin TrackKinds, at' = at, drift' = drift,
         elp' \in [Seats -> Nat], eturn' \in [n : Nat, player : Seats, phase : PhaseOf],
         echain' \in Seq(Statuses), swapped' \in SUBSET Seats,
         elp' = elp \/ m.kind \notin Selects, eturn.n <= eturn'.n, Follows(m)
  PROVE  Inv'
<1>1. Types /\ Rules
  BY DEF Inv
<1>2. Placed(at) /\ Placed(at') /\ at' \in [Cards -> Places]
      /\ drift' \in [Field -> {None, "blank", "wrong"}]
  BY <1>1 DEF Types, Rules
<1>3. NamesFollow(m)
  BY <1>2, NamesIdle
<1> QED
  BY <1>2, <1>3, SayInv

(* Draw.                                                                   *)
LEMMA DrawKeeps == ASSUME Inv, Draw PROVE Inv'
<1>0. Types /\ Rules
  BY DEF Inv
<1>a. PICK s \in Seats : \E c \in On(s, "deck") :
        /\ at' = [at EXCEPT ![c] = <<s, "hand", 0>>]
        /\ Say([kind |-> "draw", player |-> s])
        /\ UNCHANGED <<elp, eturn, echain, drift, swapped>>
  BY DEF Draw
<1>1. PICK c \in On(s, "deck") :
        /\ at' = [at EXCEPT ![c] = <<s, "hand", 0>>]
        /\ Say([kind |-> "draw", player |-> s])
        /\ UNCHANGED <<elp, eturn, echain, drift, swapped>>
  BY <1>a
<1> DEFINE p == <<s, "hand", 0>>
<1>2. PICK m \in Message : m = [kind |-> "draw", player |-> s]
  BY DEF Message
<1>3. c \in Cards /\ at[c][2] = "deck" /\ p \in Places /\ p \notin Field /\ at[c] \notin Field
  BY <1>0 DEF On, Places, Field, Piles
<1>4. at \in [Cards -> Places] /\ Placed(at) /\ eturn.n \in Nat
  BY <1>0 DEF Types, Rules
<1> HIDE DEF p
<1>5. at' = [at EXCEPT ![c] = p] /\ at' \in [Cards -> Places]
  BY <1>1, <1>3, <1>4 DEF p
<1>6. \A q \in Field, d \in Cards : at'[d] = q <=> at[d] = q
  BY <1>3, <1>4, <1>5
<1>7. Placed(at')
  BY <1>3, <1>4, <1>5 DEF Placed
<1>8. Follows(m)
  BY <1>0, <1>1, <1>2, FollowsDraw
<1>9. m.kind \notin TrackKinds
  BY <1>2 DEF TrackKinds, Summons
<1>10. NamesFollow(m)
  BY <1>1, <1>4, <1>6, <1>7, <1>9, NamesIdle
<1>s. Say(m)
  BY <1>1, <1>2
<1>t. elp' \in [Seats -> Nat] /\ eturn' \in [n : Nat, player : Seats, phase : PhaseOf]
      /\ echain' \in Seq(Statuses) /\ swapped' \in SUBSET Seats /\ elp' = elp
      /\ eturn.n <= eturn'.n /\ drift' \in [Field -> {None, "blank", "wrong"}]
  BY <1>0, <1>1, <1>2, <1>4, <1>5, <1>7, <1>8, <1>10 DEF Types
<1> QED
  BY <1>0, <1>1, <1>2, <1>4, <1>5, <1>7, <1>8, <1>10, <1>s, <1>t, SayInv

(* Move.                                                                   *)
LEMMA MoveKeeps == ASSUME Inv, Move PROVE Inv'
<1>0. Types /\ Rules
  BY DEF Inv
<1>1. PICK c \in Cards, p \in Places :
        /\ p # at[c] /\ IF p \in Field THEN Holder(p) = None ELSE p[1] = Owner[c]
        /\ at' = [at EXCEPT ![c] = p]
        /\ drift' = [q \in Field |-> IF q \in {p, at[c]} THEN None ELSE drift[q]]
        /\ Say([kind |-> "move", card |-> c, from |-> at[c], to |-> p])
        /\ UNCHANGED <<elp, eturn, echain, swapped>>
  BY DEF Move
<1>2. at \in [Cards -> Places] /\ Placed(at) /\ eturn.n \in Nat
      /\ drift \in [Field -> {None, "blank", "wrong"}]
  BY <1>0 DEF Types, Rules
<1>3. PICK m \in Message : m = [kind |-> "move", card |-> c, from |-> at[c], to |-> p]
  BY <1>2 DEF Message
<1>4. at' \in [Cards -> Places] /\ drift' \in [Field -> {None, "blank", "wrong"}]
  BY <1>1, <1>2
<1>5. p \in Field => \A d \in Cards : at[d] # p
  BY <1>0, <1>1, HolderOf
<1>6. Placed(at')
  BY <1>1, <1>2, <1>5 DEF Placed
<1>7. Follows(m)
  BY <1>0, <1>1, <1>3, FollowsMove
<1>8. p \in Field => Holder(p) = None
  BY <1>1
<1>9. NamesFollow(m)
  BY <1>0, <1>1, <1>2, <1>3, <1>6, <1>8, NamesMove
<1>10. m.kind \notin Selects
  BY <1>3 DEF Selects, MenuFormat, AskFormat, PickFormat, LastFormat
<1>s. Say(m)
  BY <1>1, <1>3
<1>t. elp' \in [Seats -> Nat] /\ eturn' \in [n : Nat, player : Seats, phase : PhaseOf]
      /\ echain' \in Seq(Statuses) /\ swapped' \in SUBSET Seats /\ elp' = elp
      /\ eturn.n <= eturn'.n /\ drift' \in [Field -> {None, "blank", "wrong"}]
  BY <1>0, <1>1, <1>2, <1>3, <1>4, <1>6, <1>7, <1>9 DEF Types
<1> QED
  BY <1>0, <1>1, <1>2, <1>3, <1>4, <1>6, <1>7, <1>9, <1>s, <1>t, SayInv

(* Two cards that trade places on the field, which no handler looks at.    *)
LEMMA TradeKeeps ==
  ASSUME Inv, NEW c \in Cards, NEW d \in Cards, c # d, at[c] \in Field, at[d] \in Field,
         at' = [at EXCEPT ![c] = at[d], ![d] = at[c]],
         drift' = [q \in Field |-> IF q \in {at[c], at[d]} /\ drift[q] # "blank"
                                   THEN "wrong" ELSE drift[q]],
         NEW k \in {"swap", "shuffle_set_card"}, Say([kind |-> k]),
         UNCHANGED <<elp, eturn, echain, swapped>>
  PROVE  Inv'
<1>0. Types /\ Rules
  BY DEF Inv
<1>2. at \in [Cards -> Places] /\ Placed(at) /\ eturn.n \in Nat
      /\ drift \in [Field -> {None, "blank", "wrong"}]
  BY <1>0 DEF Types, Rules
<1>3. PICK m \in Message : m = [kind |-> k]
  BY DEF Message
<1>4. at' \in [Cards -> Places] /\ drift' \in [Field -> {None, "blank", "wrong"}]
  BY <1>2
<1>5. at[c] # at[d]
  BY <1>2 DEF Placed
<1>6. Placed(at')
  <2>1. at'[c] = at[d] /\ at'[d] = at[c] /\ \A e \in Cards : e # c /\ e # d => at'[e] = at[e]
    BY <1>2
  <2> QED
    BY <1>2, <1>5, <2>1 DEF Placed
<1>7. m.kind \notin LpKinds \cup ClockKinds \cup ChainKinds \cup CountKinds
      /\ m.kind \notin TrackKinds
  BY <1>3 DEF LpKinds, ClockKinds, ChainKinds, CountKinds, TrackKinds, Summons
<1>8. Follows(m)
  BY <1>0, <1>5, <1>7, FollowsTrade
<1>9. NamesFollow(m)
  BY <1>0, <1>2, <1>6, <1>7, NamesTrade
<1>s. Say(m)
  BY <1>3
<1>t. elp' \in [Seats -> Nat] /\ eturn' \in [n : Nat, player : Seats, phase : PhaseOf]
      /\ echain' \in Seq(Statuses) /\ swapped' \in SUBSET Seats /\ elp' = elp
      /\ eturn.n <= eturn'.n /\ drift' \in [Field -> {None, "blank", "wrong"}]
  BY <1>0, <1>2, <1>3, <1>4, <1>6, <1>8, <1>9 DEF Types
<1> QED
  BY <1>0, <1>2, <1>3, <1>4, <1>6, <1>8, <1>9, <1>s, <1>t, SayInv

(* Swap.                                                                   *)
LEMMA SwapKeeps == ASSUME Inv, Swap PROVE Inv'
<1>1. PICK c \in Cards, d \in Cards :
        /\ at[c] \in Field /\ at[d] \in Field /\ at[c][1] = 0 /\ at[d][1] = 1
        /\ at' = [at EXCEPT ![c] = at[d], ![d] = at[c]]
        /\ drift' = [q \in Field |-> IF q \in {at[c], at[d]} /\ drift[q] # "blank"
                                     THEN "wrong" ELSE drift[q]]
        /\ Say([kind |-> "swap"])
        /\ UNCHANGED <<elp, eturn, echain, swapped>>
  BY DEF Swap
<1>2. c # d
  BY <1>1
<1> QED
  BY <1>1, <1>2, TradeKeeps

(* ShuffleSet.                                                             *)
LEMMA ShuffleSetKeeps == ASSUME Inv, ShuffleSet PROVE Inv'
<1>1. PICK c \in Cards, d \in Cards :
        /\ c # d /\ at[c] \in Field /\ at[d] \in Field /\ at[c][1] = at[d][1]
        /\ at' = [at EXCEPT ![c] = at[d], ![d] = at[c]]
        /\ drift' = [q \in Field |-> IF q \in {at[c], at[d]} /\ drift[q] # "blank"
                                     THEN "wrong" ELSE drift[q]]
        /\ Say([kind |-> "shuffle_set_card"])
        /\ UNCHANGED <<elp, eturn, echain, swapped>>
  BY DEF ShuffleSet
<1> QED
  BY <1>1, TradeKeeps

(* SwapGraveDeck: no card comes to the field or leaves it.                 *)
LEMMA SwapGraveDeckKeeps == ASSUME Inv, SwapGraveDeck PROVE Inv'
<1>0. Types /\ Rules
  BY DEF Inv
<1>1. PICK s \in Seats :
        /\ at' = [c \in Cards |-> CASE at[c] = <<s, "deck", 0>>  -> <<s, "grave", 0>>
                                    [] at[c] = <<s, "grave", 0>> -> <<s, "deck", 0>>
                                    [] OTHER -> at[c]]
        /\ swapped' = swapped \cup {s}
        /\ Say([kind |-> "swap_grave_deck"])
        /\ UNCHANGED <<elp, eturn, echain, drift>>
  BY DEF SwapGraveDeck
<1>2. at \in [Cards -> Places] /\ Placed(at) /\ eturn.n \in Nat
      /\ drift \in [Field -> {None, "blank", "wrong"}]
  BY <1>0 DEF Types, Rules
<1>3. PICK m \in Message : m = [kind |-> "swap_grave_deck"]
  BY DEF Message
<1>4. \A z : <<s, z, 0>> \in Field => z = "mzone"
  BY DEF Field
<1>5. <<s, "deck", 0>> \in Places \ Field /\ <<s, "grave", 0>> \in Places \ Field
      /\ <<s, "deck", 0>> # <<s, "grave", 0>>
  BY <1>4 DEF Places, Piles
<1>6. \A c \in Cards : /\ at'[c] \in Places
                       /\ \/ at'[c] = at[c]
                          \/ at'[c] \notin Field /\ at[c] \notin Field
  BY <1>1, <1>2, <1>5
<1>7. at' \in [Cards -> Places]
  BY <1>1, <1>6
<1>8. Placed(at') /\ \A q \in Field, c \in Cards : at'[c] = q <=> at[c] = q
  BY <1>2, <1>6 DEF Placed
<1>9. m.kind \notin LpKinds \cup ClockKinds \cup ChainKinds \cup CountKinds
      /\ m.kind \notin TrackKinds
  BY <1>3 DEF LpKinds, ClockKinds, ChainKinds, CountKinds, TrackKinds, Summons
<1>10. Follows(m)
  BY <1>0, <1>1, <1>9, FollowsSwapGraveDeck
<1>11. NamesFollow(m)
  BY <1>1, <1>2, <1>8, <1>9, NamesIdle
<1>12. swapped' \in SUBSET Seats
  BY <1>0, <1>1 DEF Types
<1>s. Say(m)
  BY <1>1, <1>3
<1>t. elp' \in [Seats -> Nat] /\ eturn' \in [n : Nat, player : Seats, phase : PhaseOf]
      /\ echain' \in Seq(Statuses) /\ swapped' \in SUBSET Seats /\ elp' = elp
      /\ eturn.n <= eturn'.n /\ drift' \in [Field -> {None, "blank", "wrong"}]
  BY <1>0, <1>1, <1>2, <1>3, <1>7, <1>8, <1>10, <1>11, <1>12 DEF Types
<1> QED
  BY <1>0, <1>1, <1>2, <1>3, <1>7, <1>8, <1>10, <1>11, <1>12, <1>s, <1>t, SayInv

(* Reveal.                                                                 *)
LEMMA RevealKeeps == ASSUME Inv, Reveal PROVE Inv'
<1>0. Types /\ Rules
  BY DEF Inv
<1>1. PICK c \in Cards, k \in Summons \cup {"pos_change", "attack"} :
        /\ at[c] \in Field
        /\ drift' = [drift EXCEPT ![at[c]] =
                       IF k \in Summons \/ (k = "pos_change" /\ drift[at[c]] = "blank")
                       THEN None ELSE drift[at[c]]]
        /\ Say([kind |-> k, card |-> c, place |-> at[c]])
        /\ UNCHANGED <<engine, swapped>>
  BY DEF Reveal
<1>2. at \in [Cards -> Places] /\ Placed(at) /\ eturn.n \in Nat
      /\ drift \in [Field -> {None, "blank", "wrong"}]
  BY <1>0 DEF Types, Rules
<1>3. PICK m \in Message : m = [kind |-> k, card |-> c, place |-> at[c]]
  BY <1>1 DEF Message
<1>4. m.kind = k /\ m.card = c /\ m.place = at[c]
  BY <1>3
<1>5. at' = at /\ elp' = elp /\ eturn' = eturn /\ echain' = echain /\ swapped' = swapped
  BY <1>1 DEF engine
<1>6. drift' \in [Field -> {None, "blank", "wrong"}]
  BY <1>1, <1>2
<1>7. m.kind \notin LpKinds \cup ClockKinds \cup ChainKinds \cup CountKinds
  BY <1>4 DEF LpKinds, ClockKinds, ChainKinds, CountKinds, Summons
<1>8. Follows(m)
  BY <1>5, <1>7, FollowsIdle
<1>9. NamesFollow(m)
  BY <1>0, <1>1, <1>2, <1>4, <1>5, NamesReveal
<1>s. Say(m)
  BY <1>1, <1>3
<1>t. elp' \in [Seats -> Nat] /\ eturn' \in [n : Nat, player : Seats, phase : PhaseOf]
      /\ echain' \in Seq(Statuses) /\ swapped' \in SUBSET Seats /\ elp' = elp
      /\ eturn.n <= eturn'.n /\ drift' \in [Field -> {None, "blank", "wrong"}]
  BY <1>0, <1>1, <1>2, <1>3, <1>5, <1>6, <1>8, <1>9 DEF Types
<1> QED
  BY <1>0, <1>1, <1>2, <1>3, <1>5, <1>6, <1>8, <1>9, <1>s, <1>t, SayInv

(* A message nothing follows.                                              *)
LEMMA SayIdle ==
  ASSUME Inv, NEW m \in Message, Say(m),
         m.kind \notin LpKinds \cup ClockKinds \cup ChainKinds \cup CountKinds \cup TrackKinds,
         UNCHANGED <<engine, drift, swapped>>
  PROVE  Inv'
<1>1. Types
  BY DEF Inv
<1>2. at' = at /\ elp' = elp /\ eturn' = eturn /\ echain' = echain /\ swapped' = swapped
      /\ drift' = drift
  BY DEF engine
<1>3. Follows(m)
  BY <1>2, FollowsIdle
<1>4. elp' \in [Seats -> Nat] /\ eturn' \in [n : Nat, player : Seats, phase : PhaseOf]
      /\ echain' \in Seq(Statuses) /\ swapped' \in SUBSET Seats /\ eturn.n <= eturn'.n
  BY <1>1, <1>2 DEF Types
<1> QED
  BY <1>2, <1>3, <1>4, SayStill

(* Declare.                                                                *)
LEMMA DeclareKeeps == ASSUME Inv, Declare PROVE Inv'
<1>1. PICK c \in Cards : Say([kind |-> "hint", card |-> c]) /\ UNCHANGED <<engine, drift, swapped>>
  BY DEF Declare
<1>2. PICK m \in Message : m = [kind |-> "hint", card |-> c]
  BY DEF Message
<1>3. m.kind \notin LpKinds \cup ClockKinds \cup ChainKinds \cup CountKinds \cup TrackKinds
  BY <1>2 DEF LpKinds, ClockKinds, ChainKinds, CountKinds, TrackKinds, Summons
<1> QED
  BY <1>1, <1>2, <1>3, SayIdle

(* Remark.                                                                 *)
LEMMA RemarkKeeps == ASSUME Inv, Remark PROVE Inv'
<1>1. PICK k \in may.kinds \ Told : Say([kind |-> k]) /\ UNCHANGED <<engine, drift, swapped>>
  BY DEF Remark
<1>2. k \in Kinds
  BY EventStreamAssumption DEF Inv, Types
<1>3. PICK m \in Message : m = [kind |-> k]
  BY <1>1, <1>2 DEF Message
<1>4. m.kind \notin LpKinds \cup ClockKinds \cup ChainKinds \cup CountKinds \cup TrackKinds
  BY <1>1, <1>3 DEF LpKinds, ClockKinds, ChainKinds, CountKinds, TrackKinds, Told
<1> QED
  BY <1>1, <1>3, <1>4, SayIdle

(* Life points move in the engine as a message says.                       *)
LEMMA SayLp ==
  ASSUME Inv, NEW m \in Message, Say(m), m.kind \in {"damage", "pay_lpcost", "recover", "lpupdate"},
         elp' = [elp EXCEPT ![m.player] =
                   CASE m.kind \in {"damage", "pay_lpcost"} -> Monus(elp[m.player], m.amount)
                     [] m.kind = "recover"  -> elp[m.player] + m.amount
                     [] m.kind = "lpupdate" -> m.lp],
         UNCHANGED <<at, eturn, echain, drift, swapped>>
  PROVE  Inv'
<1>1. Types
  BY DEF Inv
<1>2. elp \in [Seats -> Nat] /\ m.player \in Seats
      /\ (m.kind # "lpupdate" => m.amount \in Nat) /\ (m.kind = "lpupdate" => m.lp \in Nat)
  BY <1>1, MessageFields DEF Types
<1>3. elp' \in [Seats -> Nat]
  BY <1>2 DEF Monus
<1>4. m.kind \notin TrackKinds /\ m.kind \notin Selects
  BY DEF TrackKinds, Summons, Selects, MenuFormat, AskFormat, PickFormat, LastFormat
<1>5. Follows(m)
  BY <1>2, FollowsLp
<1>6. eturn' \in [n : Nat, player : Seats, phase : PhaseOf]
      /\ echain' \in Seq(Statuses) /\ swapped' \in SUBSET Seats /\ eturn.n <= eturn'.n
  BY <1>1 DEF Types
<1> QED
  BY <1>3, <1>4, <1>5, <1>6, SayStill

(* LifePoints, by each of its messages.                                    *)
LEMMA LifePointsKeeps == ASSUME Inv, LifePoints PROVE Inv'
<1>0. elp \in [Seats -> Nat] /\ StartLP \in Nat
  BY EventStreamAssumption DEF Inv, Types
<1>1. PICK s \in Seats, n \in 1 .. StartLP :
        \/ /\ elp' = [elp EXCEPT ![s] = Monus(elp[s], n)]
           /\ \E k \in {"damage", "pay_lpcost"} : Say([kind |-> k, player |-> s, amount |-> n])
           /\ UNCHANGED <<at, eturn, echain, drift, swapped>>
        \/ /\ elp[s] + n <= StartLP
           /\ elp' = [elp EXCEPT ![s] = elp[s] + n]
           /\ Say([kind |-> "recover", player |-> s, amount |-> n])
           /\ UNCHANGED <<at, eturn, echain, drift, swapped>>
        \/ /\ elp' = [elp EXCEPT ![s] = n]
           /\ Say([kind |-> "lpupdate", player |-> s, lp |-> n])
           /\ UNCHANGED <<at, eturn, echain, drift, swapped>>
  BY DEF LifePoints
<1>2. n \in Nat
  BY <1>0
<1>3. CASE /\ elp' = [elp EXCEPT ![s] = Monus(elp[s], n)]
           /\ \E k \in {"damage", "pay_lpcost"} : Say([kind |-> k, player |-> s, amount |-> n])
           /\ UNCHANGED <<at, eturn, echain, drift, swapped>>
  <2>1. PICK k \in {"damage", "pay_lpcost"} : Say([kind |-> k, player |-> s, amount |-> n])
    BY <1>3
  <2>2. PICK m \in Message : m = [kind |-> k, player |-> s, amount |-> n]
    BY <1>2 DEF Message
  <2>3. m.kind \in {"damage", "pay_lpcost"} /\ m.player = s /\ m.amount = n
    BY <2>2
  <2>4. elp' = [elp EXCEPT ![m.player] =
                   CASE m.kind \in {"damage", "pay_lpcost"} -> Monus(elp[m.player], m.amount)
                     [] m.kind = "recover"  -> elp[m.player] + m.amount
                     [] m.kind = "lpupdate" -> m.lp]
    BY <1>3, <2>3
  <2>5. Say(m)
    BY <2>1, <2>2
  <2> QED
    BY <1>3, <2>3, <2>4, <2>5, SayLp
<1>4. CASE /\ elp[s] + n <= StartLP
           /\ elp' = [elp EXCEPT ![s] = elp[s] + n]
           /\ Say([kind |-> "recover", player |-> s, amount |-> n])
           /\ UNCHANGED <<at, eturn, echain, drift, swapped>>
  <2>2. PICK m \in Message : m = [kind |-> "recover", player |-> s, amount |-> n]
    BY <1>2 DEF Message
  <2>3. m.kind = "recover" /\ m.player = s /\ m.amount = n
    BY <2>2
  <2>4. elp' = [elp EXCEPT ![m.player] =
                   CASE m.kind \in {"damage", "pay_lpcost"} -> Monus(elp[m.player], m.amount)
                     [] m.kind = "recover"  -> elp[m.player] + m.amount
                     [] m.kind = "lpupdate" -> m.lp]
    BY <1>4, <2>3
  <2>5. Say(m)
    BY <1>4, <2>2
  <2> QED
    BY <1>4, <2>3, <2>4, <2>5, SayLp
<1>5. CASE /\ elp' = [elp EXCEPT ![s] = n]
           /\ Say([kind |-> "lpupdate", player |-> s, lp |-> n])
           /\ UNCHANGED <<at, eturn, echain, drift, swapped>>
  <2>2. PICK m \in Message : m = [kind |-> "lpupdate", player |-> s, lp |-> n]
    BY <1>2 DEF Message
  <2>3. m.kind = "lpupdate" /\ m.player = s /\ m.lp = n
    BY <2>2
  <2>4. elp' = [elp EXCEPT ![m.player] =
                   CASE m.kind \in {"damage", "pay_lpcost"} -> Monus(elp[m.player], m.amount)
                     [] m.kind = "recover"  -> elp[m.player] + m.amount
                     [] m.kind = "lpupdate" -> m.lp]
    BY <1>5, <2>3
  <2>5. Say(m)
    BY <1>5, <2>2
  <2> QED
    BY <1>5, <2>3, <2>4, <2>5, SayLp
<1> QED
  BY <1>1, <1>3, <1>4, <1>5

(* The clock moves in the engine as a message says.                        *)
LEMMA SayClock ==
  ASSUME Inv, NEW m \in Message, Say(m), m.kind \in {"new_turn", "new_phase"},
         m.kind = "new_turn" => eturn' = [eturn EXCEPT !.n = eturn.n + 1, !.player = m.player],
         m.kind = "new_phase" => eturn' = [eturn EXCEPT !.phase = m.phase],
         UNCHANGED <<at, elp, echain, drift, swapped>>
  PROVE  Inv'
<1>1. Types
  BY DEF Inv
<1>2. eturn \in [n : Nat, player : Seats, phase : PhaseOf]
      /\ (m.kind = "new_turn" => m.player \in Seats)
      /\ (m.kind = "new_phase" => m.phase \in PhaseOf)
  BY <1>1, MessageFields DEF Types, PhaseOf
<1>3. eturn' \in [n : Nat, player : Seats, phase : PhaseOf] /\ eturn.n <= eturn'.n
  <2>1. CASE m.kind = "new_turn"
    <3>1. eturn' = [n |-> eturn.n + 1, player |-> m.player, phase |-> eturn.phase]
      BY <1>2, <2>1
    <3>2. eturn.n \in Nat /\ eturn.n <= eturn.n + 1 /\ eturn.phase \in PhaseOf
      BY <1>2
    <3> QED
      BY <1>2, <2>1, <3>1, <3>2
  <2>2. CASE m.kind = "new_phase"
    <3>1. eturn' = [n |-> eturn.n, player |-> eturn.player, phase |-> m.phase]
      BY <1>2, <2>2
    <3>2. eturn.n \in Nat /\ eturn.n <= eturn.n /\ eturn.player \in Seats
      BY <1>2
    <3> QED
      BY <1>2, <2>2, <3>1, <3>2
  <2> QED
    BY <2>1, <2>2
<1>4. m.kind \notin TrackKinds
  BY DEF TrackKinds, Summons
<1>5. Follows(m)
  BY <1>2, FollowsClock
<1>6. elp' \in [Seats -> Nat] /\ echain' \in Seq(Statuses) /\ swapped' \in SUBSET Seats
  BY <1>1 DEF Types
<1> QED
  BY <1>3, <1>4, <1>5, <1>6, SayStill

(* NewTurn.                                                                *)
LEMMA NewTurnKeeps == ASSUME Inv, NewTurn PROVE Inv'
<1>1. eturn \in [n : Nat, player : Seats, phase : PhaseOf]
  BY DEF Inv, Types
<1>2. 1 - eturn.player \in Seats
  BY <1>1 DEF Seats
<1>3. PICK m \in Message : m = [kind |-> "new_turn", player |-> 1 - eturn.player]
  BY <1>2 DEF Message
<1>4. m.kind = "new_turn" /\ m.player = 1 - eturn.player
  BY <1>3
<1>5. Say(m) /\ UNCHANGED <<at, elp, echain, drift, swapped>>
      /\ eturn' = [eturn EXCEPT !.n = eturn.n + 1, !.player = m.player]
  BY <1>1, <1>3, <1>4 DEF NewTurn
<1> QED
  BY <1>4, <1>5, SayClock

(* NewPhase.                                                               *)
LEMMA NewPhaseKeeps == ASSUME Inv, NewPhase PROVE Inv'
<1>1. PICK ph \in {"main", "battle"} :
        /\ eturn' = [eturn EXCEPT !.phase = ph]
        /\ Say([kind |-> "new_phase", phase |-> ph])
        /\ UNCHANGED <<at, elp, echain, drift, swapped>>
  BY DEF NewPhase
<1>2. PICK m \in Message : m = [kind |-> "new_phase", phase |-> ph]
  BY DEF Message
<1>3. m.kind = "new_phase" /\ m.phase = ph
  BY <1>2
<1>4. Say(m)
  BY <1>1, <1>2
<1> QED
  BY <1>1, <1>3, <1>4, SayClock

(* A chain moves in the engine as a message says.                          *)
LEMMA SayChain ==
  ASSUME Inv, NEW m \in Message, Say(m), m.kind \in ChainKinds,
         echain' = CASE m.kind = "chaining"       -> Append(echain, "building")
                     [] m.kind = "chain_solving"  -> LinkSet(echain, m.link, "solving")
                     [] m.kind = "chain_solved"   -> LinkSet(echain, m.link, "solved")
                     [] m.kind = "chain_negated"  -> LinkSet(echain, m.link, "negated")
                     [] m.kind = "chain_disabled" -> LinkSet(echain, m.link, "disabled")
                     [] m.kind = "chain_end"      -> <<>>,
         UNCHANGED <<at, elp, eturn, drift, swapped>>
  PROVE  Inv'
<1>1. Types
  BY DEF Inv
<1>2. echain \in Seq(Statuses)
  BY <1>1 DEF Types
<1>3. \A l : \A k \in Statuses : LinkSet(echain, l, k) \in Seq(Statuses)
  BY <1>2 DEF LinkSet
<1>4. Append(echain, "building") \in Seq(Statuses) /\ <<>> \in Seq(Statuses)
  BY <1>2 DEF Statuses
<1>5. echain' \in Seq(Statuses)
  BY <1>3, <1>4 DEF ChainKinds, Statuses
<1>6. m.kind \notin TrackKinds
  BY DEF TrackKinds, Summons, ChainKinds
<1>7. Follows(m)
  BY FollowsChain
<1>8. elp' \in [Seats -> Nat] /\ eturn' \in [n : Nat, player : Seats, phase : PhaseOf]
      /\ swapped' \in SUBSET Seats /\ eturn.n <= eturn'.n
  BY <1>1 DEF Types
<1> QED
  BY <1>5, <1>6, <1>7, <1>8, SayStill

(* Chaining.                                                               *)
LEMMA ChainingKeeps == ASSUME Inv, Chaining PROVE Inv'
<1>1. PICK c \in Cards :
        /\ echain' = Append(echain, "building")
        /\ Say([kind |-> "chaining", card |-> c])
        /\ UNCHANGED <<at, elp, eturn, drift, swapped>>
  BY DEF Chaining
<1>2. PICK m \in Message : m = [kind |-> "chaining", card |-> c]
  BY DEF Message
<1>3. m.kind = "chaining"
  BY <1>2
<1>4. Say(m)
  BY <1>1, <1>2
<1> QED
  BY <1>1, <1>3, <1>4, SayChain DEF ChainKinds

(* Resolve.                                                                *)
LEMMA ResolveKeeps == ASSUME Inv, Resolve PROVE Inv'
<1>1. PICK i \in DOMAIN echain, k \in {"solving", "solved", "negated", "disabled"} :
        /\ echain' = LinkSet(echain, i, k)
        /\ Say([kind |-> ChainMessage[k], link |-> i])
        /\ UNCHANGED <<at, elp, eturn, drift, swapped>>
  BY DEF Resolve
<1>2. i \in Nat
  BY DEF Inv, Types
<1>3. ChainMessage[k] \in {"chain_solving", "chain_solved", "chain_negated", "chain_disabled"}
      /\ (k = "solving" <=> ChainMessage[k] = "chain_solving")
      /\ (k = "solved" <=> ChainMessage[k] = "chain_solved")
      /\ (k = "negated" <=> ChainMessage[k] = "chain_negated")
      /\ (k = "disabled" <=> ChainMessage[k] = "chain_disabled")
  BY DEF ChainMessage
<1>4. PICK m \in Message : m = [kind |-> ChainMessage[k], link |-> i]
  BY <1>2, <1>3 DEF Message
<1>5. m.kind = ChainMessage[k] /\ m.link = i
  BY <1>4
<1>6. Say(m)
  BY <1>1, <1>4
<1>7. echain' = CASE m.kind = "chaining"       -> Append(echain, "building")
                  [] m.kind = "chain_solving"  -> LinkSet(echain, m.link, "solving")
                  [] m.kind = "chain_solved"   -> LinkSet(echain, m.link, "solved")
                  [] m.kind = "chain_negated"  -> LinkSet(echain, m.link, "negated")
                  [] m.kind = "chain_disabled" -> LinkSet(echain, m.link, "disabled")
                  [] m.kind = "chain_end"      -> <<>>
  BY <1>1, <1>3, <1>5
<1> QED
  BY <1>1, <1>3, <1>5, <1>6, <1>7, SayChain DEF ChainKinds

(* ChainEnd.                                                               *)
LEMMA ChainEndKeeps == ASSUME Inv, ChainEnd PROVE Inv'
<1>1. PICK m \in Message : m = [kind |-> "chain_end"]
  BY DEF Message
<1>2. m.kind = "chain_end"
  BY <1>1
<1>3. Say(m) /\ echain' = <<>> /\ UNCHANGED <<at, elp, eturn, drift, swapped>>
  BY <1>1 DEF ChainEnd
<1> QED
  BY <1>2, <1>3, SayChain DEF ChainKinds

(* Start.                                                                  *)
LEMMA StartKeeps == ASSUME Inv, Start PROVE Inv'
<1>0. Types /\ Rules /\ StartLP \in Nat
  BY EventStreamAssumption DEF Inv
<1>1. [s \in Seats |-> Cardinality(On(s, "deck"))] \in [Seats -> Nat]
  BY OnFinite
<1>2. PICK m \in Message :
        m = [kind |-> "start", lp |-> StartLP,
             deck |-> [s \in Seats |-> Cardinality(On(s, "deck"))]]
  BY <1>0, <1>1 DEF Message
<1>3. m.kind = "start"
  BY <1>2
<1>4. Say(m) /\ said = 0 /\ (\A c \in Cards : at[c][2] = "deck")
      /\ UNCHANGED <<engine, drift, swapped>>
  BY <1>2 DEF Start
<1>5. at' = at /\ elp' = elp /\ eturn' = eturn /\ echain' = echain /\ swapped' = swapped
      /\ drift' = drift
  BY <1>4 DEF engine
<1>6. Follows(m)
  BY <1>0, <1>2, <1>4, <1>5, FollowsStart
<1>7. elp' \in [Seats -> Nat] /\ eturn' \in [n : Nat, player : Seats, phase : PhaseOf]
      /\ echain' \in Seq(Statuses) /\ swapped' \in SUBSET Seats /\ eturn.n <= eturn'.n
  BY <1>0, <1>5 DEF Types
<1>8. m.kind \notin TrackKinds
  BY <1>3 DEF TrackKinds, Summons
<1> QED
  BY <1>4, <1>5, <1>6, <1>7, <1>8, SayStill

(* Whatever the engine says, the mirror would be right if it were read.    *)
LEMMA EngineKeeps == ASSUME Inv, EngineSays PROVE Inv'
BY DrawKeeps, MoveKeeps, SwapKeeps, ShuffleSetKeeps, SwapGraveDeckKeeps, RevealKeeps, DeclareKeeps,
   LifePointsKeeps, NewTurnKeeps, NewPhaseKeeps, ChainingKeeps, ResolveKeeps, ChainEndKeeps,
   StartKeeps, RemarkKeeps DEF EngineSays

-----------------------------------------------------------------------------
(* The end of a round.                                                     *)

(* Nothing is heard after the frames of a buffer that is read cleanly.     *)
LEMMA CleanHeard ==
  ASSUME Types, Rules, Clean(buf), NEW s \in Decodings(buf)
  PROVE  Heard(s) = s
<1>1. buf \in Seq(Frame) /\ EndsLast(s)
  BY DEF Types, Rules, Hears
<1>2. s \in Seq(Message)
  BY <1>1, DecodingsType
<1> QED
  BY <1>1, <1>2, HeardAll

(* What ends a call is no news for tracker and history.                    *)
LEMMA CaughtEnd ==
  ASSUME NEW a \in Record, NEW m \in Message, Ends(m), NEW g \in GS
  PROVE  Caught(a, m, g).tracker = a.tracker /\ Caught(a, m, g).history = a.history
<1>1. g.turn \in Nat /\ m.kind \notin Told
  BY EndsPlain DEF GS
<1>2. ~Worthy(m) /\ Tracked(a.tracker, m) = a.tracker
  BY <1>1 DEF Worthy, Tracked, Told, Summons
<1> QED
  BY <1>1, <1>2, CaughtType

(* The messages of a call but the last.                                    *)
LEMMA FrontLast ==
  ASSUME NEW c \in Seq(Message), NEW s \in Seq(Message), s # <<>>
  PROVE  /\ Front(s) \in Seq(Message) /\ c \o Front(s) \in Seq(Message)
         /\ s[Len(s)] \in Message /\ c \o s = Append(c \o Front(s), s[Len(s)])
<1> DEFINE n == Len(s)
<1>1. n \in Nat /\ n > 0 /\ s[n] \in Message
  OBVIOUS
<1>2. PICK f : f = Front(s)
  OBVIOUS
<1>3. f \in Seq(Message) /\ Len(f) = n - 1 /\ \A i \in 1 .. n - 1 : f[i] = s[i]
  <2>1. PICK k \in Nat : k = n - 1
    BY <1>1
  <2>2. \A i \in 1 .. k : i \in 1 .. Len(s) /\ s[i] \in Message
    BY <2>1
  <2>3. f = SubSeq(s, 1, k)
    BY <1>2, <2>1 DEF Front
  <2>4. f \in Seq(Message) /\ Len(f) = k /\ \A i \in 1 .. k : f[i] = s[i]
    BY <2>2, <2>3
  <2> QED
    BY <2>1, <2>4
<1>4. PICK e \in Message : e = s[n]
  BY <1>1
<1>5. s = Append(f, e)
  <2>1. Append(f, e) \in Seq(Message) /\ Len(Append(f, e)) = n
    BY <1>1, <1>3
  <2>2. \A i \in 1 .. n : Append(f, e)[i] = s[i]
    <3>1. \A i \in 1 .. n : i \in 1 .. n - 1 \/ i = n
      BY <1>1
    <3> QED
      BY <1>1, <1>3, <1>4, <3>1
  <2> QED
    BY <1>1, <2>1, <2>2
<1>6. c \o Append(f, e) = Append(c \o f, e) /\ c \o f \in Seq(Message)
  BY <1>3
<1>7. c \o s = Append(c \o f, e)
  BY <1>5, <1>6
<1> HIDE DEF n
<1>8. c \o s = Append(c \o f, s[n])
  BY <1>4, <1>7
<1> QED
  BY <1>1, <1>2, <1>3, <1>6, <1>8 DEF n

(* A round as its proof reads it.                                          *)
Ended(g, b) == [g EXCEPT !.finished = b]
RoundTo(s, h, i, g, r) ==
  /\ h = Heard(s) /\ g = FoldLeft(Updated, gs, h)
  /\ r = Captured(tracker, history, i, g)
  /\ \/ /\ ~(h # <<>> /\ Ends(h[Len(h)]))
        /\ i = chunk \o h
        /\ \/ /\ gs' = g /\ chunk' = i
              /\ UNCHANGED <<pc, tracker, history>>
           \/ /\ \E b \in BOOLEAN : gs' = Ended(g, b)
              /\ chunk' = <<>> /\ tracker' = r.tracker /\ history' = r.history
              /\ pc' = "over"
     \/ /\ h # <<>> /\ Ends(h[Len(h)])
        /\ i = chunk \o Front(h)
        /\ \E b \in BOOLEAN : gs' = Ended(g, b)
        /\ chunk' = <<>> /\ tracker' = r.tracker /\ history' = r.history
        /\ pc' \in {"choice", "over"}

(* A round is one of RoundTo.                                              *)
LEMMA RoundCases ==
  ASSUME NEW status, Round(status)
  PROVE  /\ pc = "engine" /\ buf' = <<>> /\ hurt' = HurtBy(buf)
         /\ UNCHANGED <<engine, may, said, skews, duels, ghosts>>
         /\ \E s \in Decodings(buf) : \E h, i, g, r : RoundTo(s, h, i, g, r)
<1>1. pc = "engine" /\ buf' = <<>> /\ hurt' = HurtBy(buf)
      /\ UNCHANGED <<engine, may, said, skews, duels, ghosts>>
  BY DEF Round
<1> DEFINE heard(s) == Heard(s)
           stops(s) == heard(s) # <<>> /\ Ends(heard(s)[Len(heard(s))])
           infos(s) == chunk \o (IF stops(s) THEN Front(heard(s)) ELSE heard(s))
           g(s)     == FoldLeft(Updated, gs, heard(s))
           after(s) == Captured(tracker, history, infos(s), g(s))
<1>2. PICK s \in Decodings(buf) :
        IF ~stops(s) /\ status = "continue"
        THEN /\ gs' = g(s) /\ chunk' = infos(s)
             /\ UNCHANGED <<pc, tracker, history>>
        ELSE /\ \E b \in BOOLEAN : gs' = Ended(g(s), b)
             /\ chunk' = <<>>
             /\ tracker' = after(s).tracker /\ history' = after(s).history
             /\ pc' = IF stops(s) /\ heard(s)[Len(heard(s))].kind \in Selects THEN "choice" ELSE "over"
  BY DEF Round, Ended
<1>3. PICK h : h = heard(s)
  OBVIOUS
<1>4. stops(s) <=> h # <<>> /\ Ends(h[Len(h)])
  BY <1>3
<1>5. infos(s) = IF stops(s) THEN chunk \o Front(h) ELSE chunk \o h
  BY <1>3
<1>6. PICK e : e = g(s)
  OBVIOUS
<1>7. e = FoldLeft(Updated, gs, h)
  BY <1>3, <1>6
<1>8. PICK i : i = infos(s)
  OBVIOUS
<1>9. PICK r : r = after(s)
  OBVIOUS
<1>10. r = Captured(tracker, history, i, e)
  BY <1>6, <1>8, <1>9
<1> HIDE DEF stops, infos, g, after
<1>11. h = Heard(s)
  BY <1>3
<1>12. CASE stops(s)
  <2>2. RoundTo(s, h, i, e, r)
    BY <1>2, <1>4, <1>5, <1>6, <1>7, <1>8, <1>9, <1>10, <1>11, <1>12 DEF RoundTo
  <2> QED
    BY <1>1, <2>2
<1>13. CASE ~stops(s)
  <2>1. RoundTo(s, h, i, e, r)
    BY <1>2, <1>4, <1>5, <1>6, <1>7, <1>8, <1>9, <1>10, <1>11, <1>13 DEF RoundTo
  <2> QED
    BY <1>1, <2>1
<1> QED
  BY <1>12, <1>13

(* What is said of a GameState does not depend on whether it is over, and  *)
(* a round leaves the engine as it is.                                     *)
LEMMA ExactKept ==
  ASSUME UNCHANGED <<engine, ghosts>>, NEW g \in GS, NEW b \in BOOLEAN, NEW H, Exact(g, H)
  PROVE  Exact(g, H)' /\ Exact(Ended(g, b), H)'
<1>1. at' = at /\ elp' = elp /\ eturn' = eturn /\ echain' = echain /\ swapped' = swapped
  BY DEF engine, ghosts
<1>2. \A s \in Seats, z \in Counted : On(s, z)' = On(s, z)
  BY <1>1 DEF On
<1>3. /\ Ended(g, b).lp = g.lp /\ Ended(g, b).turn = g.turn /\ Ended(g, b).player = g.player
      /\ Ended(g, b).phase = g.phase /\ Ended(g, b).chain = g.chain /\ Ended(g, b).count = g.count
  BY DEF Ended, GS
<1>4. PICK e : e = Ended(g, b)
  OBVIOUS
<1>5. ASSUME NEW f, f.lp = g.lp, f.turn = g.turn, f.player = g.player, f.phase = g.phase,
             f.chain = g.chain, f.count = g.count
      PROVE  Exact(f, H)'
  <2>1. LpExact(f, H)' /\ ClockExact(f, H)' /\ ChainExact(f, H)'
    BY <1>1, <1>5 DEF Exact, LpExact, ClockExact, ChainExact
  <2>2. CountExact(f, H)'
    BY <1>1, <1>2, <1>5 DEF Exact, CountExact
  <2> QED
    BY <2>1, <2>2 DEF Exact
<1>6. Exact(g, H)' /\ Exact(e, H)'
  BY <1>3, <1>4, <1>5
<1> QED
  BY <1>4, <1>6

(* What is right of a tracker and a history stays right while the engine   *)
(* waits.                                                                  *)
LEMMA RightKept ==
  ASSUME UNCHANGED <<engine, ghosts>>, NEW r, NEW n, NEW H, RightOf(r, n, H)
  PROVE  RightOf(r, n, H)'
<1>1. at' = at /\ eturn' = eturn /\ told' = told /\ drift' = drift
  BY DEF engine, ghosts
<1>2. \A p : Holder(p)' = Holder(p)
  BY <1>1 DEF Holder
<1>3. NamesCards(r.tracker, H)'
  BY <1>1, <1>2 DEF RightOf, NamesCards
<1>4. eturn'.n <= n => Tells(r.history, n, H)'
  BY <1>1 DEF RightOf, Tells
<1> QED
  BY <1>3, <1>4 DEF RightOf

(* A GameState that is over is one.                                        *)
LEMMA EndedType ==
  ASSUME NEW g \in GS, NEW b \in BOOLEAN
  PROVE  Ended(g, b) \in GS
BY Zenon DEF Ended, GS

(* The parts of a round are of their types.                                *)
LEMMA RoundTypes ==
  ASSUME Types, NEW s \in Decodings(buf), NEW h, NEW i, NEW g, NEW r, RoundTo(s, h, i, g, r)
  PROVE  /\ s \in Seq(Message) /\ h \in Seq(Message) /\ i \in Seq(Message) /\ g \in GS
         /\ r \in Record
<1>1. buf \in Seq(Frame) /\ gs \in GS /\ chunk \in Seq(Message)
      /\ tracker \in [Field -> Names] /\ history \in Past
  BY DEF Types
<1>2. s \in Seq(Message)
  BY <1>1, DecodingsType
<1>3. h = Heard(s) /\ g = FoldLeft(Updated, gs, h) /\ r = Captured(tracker, history, i, g)
      /\ (i = chunk \o h \/ (h # <<>> /\ i = chunk \o Front(h)))
  BY DEF RoundTo
<1>4. h \in Seq(Message)
  BY <1>2, <1>3, HeardType
<1>5. g \in GS
  BY <1>1, <1>3, <1>4, UpdatedFold
<1>6. i \in Seq(Message)
  <2>1. chunk \o h \in Seq(Message)
    BY <1>1, <1>4
  <2>2. h # <<>> => chunk \o Front(h) \in Seq(Message)
    BY <1>1, <1>4, FrontLast
  <2> QED
    BY <1>3, <2>1, <2>2
<1> DEFINE b == [tracker |-> tracker, history |-> history]
<1>7. b \in Record /\ b.tracker = tracker /\ b.history = history
  BY <1>1 DEF Record
<1> HIDE DEF b
<1>8. g.turn \in Nat
  BY <1>5 DEF GS
<1>9. r \in Record
  <2>1. Captured(b.tracker, b.history, i, g) \in Record
    BY <1>6, <1>7, <1>8, CapturedFold
  <2> QED
    BY <1>3, <1>7, <2>1
<1> QED
  BY <1>2, <1>4, <1>5, <1>6, <1>9

(* An empty buffer holds nothing that ends a call.                         *)
LEMMA EmptyHears == Hears(<<>>)
<1>1. Decodings(<<>>) = {<<>>}
  BY DecodingsEmpty
<1>2. PICK e : e = <<>>
  OBVIOUS
<1>3. DOMAIN e = {}
  BY <1>2
<1>4. EndsLast(e) /\ \A i \in DOMAIN e : ~Ends(e[i])
  BY <1>3 DEF EndsLast
<1> QED
  BY <1>1, <1>2, <1>4 DEF Hears

(* A round keeps the types and the rules.                                  *)
LEMMA RoundTyped ==
  ASSUME Inv, NEW status, Round(status)
  PROVE  Types' /\ Rules'
<1>0. Types /\ Rules
  BY DEF Inv
<1>1. pc = "engine" /\ buf' = <<>> /\ hurt' = HurtBy(buf)
      /\ UNCHANGED <<engine, may, said, skews, duels, ghosts>>
  BY RoundCases
<1>2. PICK s \in Decodings(buf) : \E h, i, g, r : RoundTo(s, h, i, g, r)
  BY RoundCases
<1>3. PICK h, i, g, r : RoundTo(s, h, i, g, r)
  BY <1>2
<1>4. i \in Seq(Message) /\ g \in GS /\ r \in Record
  BY <1>0, <1>3, RoundTypes
<1>5. hurt' \in Hurts
  <2>1. hurt \in Hurts /\ buf \in Seq(Frame)
    BY <1>0 DEF Types
  <2> QED
    BY <1>1, <2>1, HurtByFrom, HurtTyped
<1>6. gs' \in GS
  BY <1>3, <1>4, EndedType DEF RoundTo
<1>7. r.tracker \in [Field -> Names] /\ r.history \in Past
  BY <1>4 DEF Record
<1>8. tracker' \in [Field -> Names] /\ history' \in Past
  BY <1>0, <1>3, <1>7 DEF RoundTo, Types
<1>9. chunk' \in Seq(Message) /\ pc' \in {"engine", "choice", "over"}
  <2>1. <<>> \in Seq(Message)
    OBVIOUS
  <2>2. chunk' = i \/ chunk' = <<>>
    BY <1>3 DEF RoundTo
  <2>3. pc' \in {"engine", "choice", "over"}
    BY <1>1, <1>3 DEF RoundTo
  <2> QED
    BY <1>4, <2>1, <2>2, <2>3
<1>10. Types'
  BY <1>0, <1>1, <1>5, <1>6, <1>8, <1>9 DEF Types, engine, ghosts
<1>11. pc' = "choice" => chunk' = <<>>
  BY <1>1, <1>3 DEF RoundTo
<1>12. Hears(buf)'
  BY <1>1, EmptyHears
<1>13. Placed(at)' /\ (said' = 0 => elp' = [q \in Seats |-> StartLP])
  BY <1>0, <1>1 DEF Rules, engine
<1> QED
  BY <1>1, <1>10, <1>11, <1>12, <1>13 DEF Rules

(* After a round the GameState is what the buffer made of it.              *)
LEMMA RoundMirror ==
  ASSUME Inv, NEW status, Round(status)
  PROVE  MirrorInv'
<1>0. Types /\ Rules /\ MirrorInv
  BY DEF Inv
<1>1. pc = "engine" /\ buf' = <<>> /\ hurt' = HurtBy(buf)
      /\ UNCHANGED <<engine, may, said, skews, duels, ghosts>>
  BY RoundCases
<1>2. PICK s \in Decodings(buf) : \E h, i, g, r : RoundTo(s, h, i, g, r)
  BY RoundCases
<1>3. PICK h, i, g, r : RoundTo(s, h, i, g, r)
  BY <1>2
<1>4. s \in Seq(Message) /\ g \in GS
  BY <1>0, <1>3, RoundTypes
<1>5. PICK H \in Hurts : H = HurtFrom(hurt, buf)
  <2>1. hurt \in Hurts /\ buf \in Seq(Frame)
    BY <1>0 DEF Types
  <2> QED
    BY <2>1, HurtTyped
<1>6. hurt' = H
  BY <1>1, <1>5, HurtByFrom
<1>7. Decodings(buf)' = {<<>>}
  BY <1>1, DecodingsEmpty
<1> SUFFICES ASSUME NEW t \in Decodings(buf'), NEW e \in GS, NEW L \in Hurts,
                    e = GsFold(gs', t), L = HurtFrom(hurt', buf')
             PROVE  Exact(e, L)'
  BY DEF MirrorInv
<1>8. L = H
  BY <1>1, <1>6, HurtEmpty
<1>9. CASE ~Clean(buf)
  <2>1. L = Everything
    BY <1>5, <1>8, <1>9 DEF HurtFrom, Clean
  <2> QED
    BY <2>1 DEF Exact, LpExact, ClockExact, ChainExact, CountExact, Everything, LpOf
<1>10. CASE Clean(buf)
  <2>1. h = s
    BY <1>0, <1>3, <1>10, CleanHeard DEF RoundTo
  <2>2. g = GsFold(gs, s)
    BY <1>3, <2>1 DEF RoundTo, GsFold
  <2>3. Exact(g, H)
    BY <1>0, <1>1, <1>4, <1>5, <2>2 DEF MirrorInv
  <2>4. gs' = g \/ \E b \in BOOLEAN : gs' = Ended(g, b)
    BY <1>3 DEF RoundTo
  <2>5. gs' \in GS
    BY <1>4, <2>4, EndedType
  <2>6. e = gs'
    <3>1. PICK f \in GS : f = gs'
      BY <2>5
    <3>2. FoldLeft(Updated, f, <<>>) = f
      BY UpdatedFold
    <3>3. t = <<>>
      BY <1>7
    <3> QED
      BY <3>1, <3>2, <3>3 DEF GsFold
  <2>7. \A b \in BOOLEAN : Exact(g, H)' /\ Exact(Ended(g, b), H)'
    BY <1>1, <1>4, <2>3, ExactKept
  <2>8. Exact(e, H)'
    <3>1. CASE gs' = g
      <4>1. e = g
        BY <2>6, <3>1
      <4> QED
        BY <2>7, <4>1
    <3>2. CASE \E b \in BOOLEAN : gs' = Ended(g, b)
      <4>1. PICK b \in BOOLEAN : gs' = Ended(g, b)
        BY <3>2
      <4>2. e = Ended(g, b)
        BY <2>6, <4>1
      <4> QED
        BY <2>7, <4>2
    <3> QED
      BY <2>4, <3>1, <3>2
  <2> QED
    BY <1>8, <2>8
<1> QED
  BY <1>9, <1>10

(* A history right in the turn the duel is in is right in a later one.     *)
LEMMA TellsLater ==
  ASSUME NEW h \in Past, told \in Seq(Tale), NEW n \in Nat, NEW k \in Nat, n <= k, NEW H,
         Tells(h, n, H)
  PROVE  Tells(h, k, H)
<1> SUFFICES ASSUME H \cap {"history", "field", "turn"} = {}
             PROVE  Len(h) = Len(told) /\ \A i \in DOMAIN told : Match(h[i], told[i], k)
  BY DEF Tells
<1>1. Len(h) = Len(told) /\ \A i \in DOMAIN told : Match(h[i], told[i], n)
  BY DEF Tells
<1>2. h \in Seq(Event)
  BY DEF Past
<1>3. ASSUME NEW i \in DOMAIN told PROVE Match(h[i], told[i], k)
  <2>1. i \in DOMAIN h
    BY <1>1, <1>2
  <2>2. h[i] \in Event
    BY <1>2, <2>1
  <2>3. h[i].turn \in Nat
    BY <2>2 DEF Event
  <2>4. Match(h[i], told[i], n)
    BY <1>1
  <2> QED
    BY <2>3, <2>4 DEF Match
<1> QED
  BY <1>1, <1>3

(* What a call that ends in a message captures is right.                   *)
LEMMA EndCaptured ==
  ASSUME Types, Rules, MirrorInv, TellInv, pc = "engine", Clean(buf), NEW s \in Decodings(buf),
         s # <<>>, Ends(s[Len(s)]), NEW g \in GS, g = GsFold(gs, s),
         NEW r, r = Captured(tracker, history, chunk \o Front(s), g),
         NEW H \in Hurts, H = HurtFrom(hurt, buf), NEW n \in Nat
  PROVE  RightOf(r, n, H)
<1>1. buf \in Seq(Frame) /\ chunk \in Seq(Message) /\ tracker \in [Field -> Names]
      /\ history \in Past /\ told \in Seq(Tale) /\ eturn.n \in Nat
  BY DEF Types
<1>2. s \in Seq(Message)
  BY <1>1, DecodingsType
<1>3. PICK i \in Seq(Message) : i = chunk \o Front(s)
  BY <1>1, <1>2, FrontLast
<1>4. PICK m \in Message : m = s[Len(s)] /\ chunk \o s = Append(i, m)
  BY <1>1, <1>2, <1>3, FrontLast
<1>5. g.turn \in Nat
  BY DEF GS
<1> DEFINE b == [tracker |-> tracker, history |-> history]
<1>6. b \in Record /\ b.tracker = tracker /\ b.history = history
  BY <1>1 DEF Record
<1> HIDE DEF b
<1>7. r = Captured(b.tracker, b.history, i, g)
  BY <1>3, <1>6
<1>8. r \in Record
  BY <1>5, <1>6, <1>7, CapturedFold
<1>9. PICK q : q = Caught(r, m, g)
  OBVIOUS
<1>10. q = Captured(tracker, history, chunk \o s, g)
  <2>1. Captured(b.tracker, b.history, Append(i, m), g)
        = Caught(Captured(b.tracker, b.history, i, g), m, g)
    BY <1>5, <1>6, CapturedAppend
  <2> QED
    BY <1>4, <1>6, <1>7, <1>9, <2>1
<1>11. q \in Record
  BY <1>5, <1>8, <1>9, CaughtType
<1>12. q.tracker = r.tracker /\ q.history = r.history
  BY <1>4, <1>8, <1>9, CaughtEnd
<1>13. RightOf(q, g.turn, H)
  BY <1>10, <1>11 DEF TellInv
<1>14. Exact(g, H)
  BY DEF MirrorInv
<1>15. NamesCards(r.tracker, H)
  BY <1>12, <1>13 DEF RightOf
<1>16. ASSUME eturn.n <= n PROVE Tells(r.history, n, H)
  <2>1. CASE "turn" \in H
    BY <2>1 DEF Tells
  <2>2. CASE "turn" \notin H
    <3>1. g.turn = eturn.n
      BY <1>14, <2>2 DEF Exact, ClockExact
    <3>2. Tells(r.history, eturn.n, H)
      BY <1>1, <1>12, <1>13, <3>1 DEF RightOf
    <3>3. r.history \in Past
      BY <1>8 DEF Record
    <3> QED
      BY <1>1, <1>16, <3>2, <3>3, TellsLater
  <2> QED
    BY <2>1, <2>2
<1> QED
  BY <1>15, <1>16 DEF RightOf

(* After a round tracker and history are what the call captured, or wait   *)
(* for the rest of its messages.                                           *)
LEMMA RoundTell ==
  ASSUME Inv, NEW status, Round(status)
  PROVE  TellInv'
<1>0. Types /\ Rules /\ MirrorInv /\ TellInv
  BY DEF Inv
<1>1. pc = "engine" /\ buf' = <<>> /\ hurt' = HurtBy(buf)
      /\ UNCHANGED <<engine, may, said, skews, duels, ghosts>>
  BY RoundCases
<1>2. PICK s \in Decodings(buf) : \E h, i, g, r : RoundTo(s, h, i, g, r)
  BY RoundCases
<1>3. PICK h, i, g, r : RoundTo(s, h, i, g, r)
  BY <1>2
<1>4. s \in Seq(Message) /\ g \in GS /\ i \in Seq(Message) /\ r \in Record
  BY <1>0, <1>3, RoundTypes
<1>5. PICK H \in Hurts : H = HurtFrom(hurt, buf)
  <2>1. hurt \in Hurts /\ buf \in Seq(Frame)
    BY <1>0 DEF Types
  <2> QED
    BY <2>1, HurtTyped
<1>6. hurt' = H
  BY <1>1, <1>5, HurtByFrom
<1>7. Decodings(buf)' = {<<>>}
  BY <1>1, DecodingsEmpty
<1> SUFFICES ASSUME pc' # "over", NEW t \in Decodings(buf'), NEW e \in GS, NEW L \in Hurts,
                    NEW q \in Record,
                    q = Captured(tracker', history', chunk' \o t, e), L = HurtFrom(hurt', buf')
             PROVE  RightOf(q, e.turn, L)'
  BY DEF TellInv
<1>8. L = H /\ e.turn \in Nat
  BY <1>1, <1>6, HurtEmpty DEF GS
<1>9. CASE ~Clean(buf)
  <2>1. L = Everything
    BY <1>5, <1>8, <1>9 DEF HurtFrom, Clean
  <2> QED
    BY <2>1 DEF RightOf, NamesCards, Tells, Everything
<1>10. CASE Clean(buf)
  <2>1. h = s
    BY <1>0, <1>3, <1>10, CleanHeard DEF RoundTo
  <2>2. g = GsFold(gs, s)
    BY <1>3, <2>1 DEF RoundTo, GsFold
  <2>3. RightOf(q, e.turn, L)
    <3>1. CASE i = chunk \o h /\ chunk' = i /\ UNCHANGED <<pc, tracker, history>>
      <4>1. i \o <<>> = i
        BY <1>4
      <4>2. chunk' \o t = chunk \o s
        BY <1>7, <2>1, <3>1, <4>1
      <4>3. q = Captured(tracker, history, chunk \o s, e)
        BY <3>1, <4>2
      <4> QED
        BY <1>0, <1>1, <1>5, <1>8, <4>3 DEF TellInv
    <3>2. CASE /\ h # <<>> /\ Ends(h[Len(h)]) /\ i = chunk \o Front(h)
               /\ chunk' = <<>> /\ tracker' = r.tracker /\ history' = r.history
      <4>1. r = Captured(tracker, history, chunk \o Front(s), g)
        BY <1>3, <2>1, <3>2 DEF RoundTo
      <4>2. <<>> \o <<>> = <<>>
        OBVIOUS
      <4>3. q = Captured(r.tracker, r.history, <<>>, e)
        BY <1>7, <3>2, <4>2
      <4>4. q = r
        BY <1>4, <1>8, <4>3, CapturedFold
      <4>5. RightOf(r, e.turn, H)
        BY <1>0, <1>1, <1>4, <1>5, <1>8, <1>10, <2>1, <2>2, <3>2, <4>1, EndCaptured
      <4> QED
        BY <1>8, <4>4, <4>5
    <3> QED
      BY <1>3, <3>1, <3>2 DEF RoundTo
  <2> QED
    BY <1>1, <2>3, RightKept
<1> QED
  BY <1>9, <1>10

(* Round.                                                                  *)
LEMMA RoundKeeps == ASSUME Inv, NEW status, Round(status) PROVE Inv'
BY RoundTyped, RoundMirror, RoundTell DEF Inv

-----------------------------------------------------------------------------
(* The steps that move nothing, and the start of a duel.                   *)

(* A step that changes at most that the engine runs again changes nothing  *)
(* of the invariant.                                                       *)
LEMMA SameInv ==
  ASSUME Inv, UNCHANGED <<engine, buf, mirror, may, said, skews, duels, ghosts, hurt>>,
         pc' = pc \/ (pc = "choice" /\ pc' = "engine")
  PROVE  Inv'
<1>0. Types /\ Rules /\ MirrorInv /\ TellInv
  BY DEF Inv
<1>1. /\ at' = at /\ elp' = elp /\ eturn' = eturn /\ echain' = echain /\ buf' = buf
      /\ gs' = gs /\ chunk' = chunk /\ tracker' = tracker /\ history' = history /\ may' = may
      /\ said' = said /\ told' = told /\ drift' = drift /\ swapped' = swapped /\ hurt' = hurt
  BY DEF engine, mirror, ghosts
<1>2. UNCHANGED <<engine, ghosts>>
  OBVIOUS
<1>3. Types'
  BY <1>0, <1>1 DEF Types
<1>4. Rules'
  BY <1>0, <1>1 DEF Rules
<1>5. MirrorInv'
  <2> SUFFICES ASSUME pc' # "over", NEW s \in Decodings(buf'), NEW g \in GS, NEW H \in Hurts,
                      g = GsFold(gs', s), H = HurtFrom(hurt', buf')
               PROVE  Exact(g, H)'
    BY DEF MirrorInv
  <2>1. Exact(g, H)
    BY <1>0, <1>1 DEF MirrorInv
  <2>2. TRUE \in BOOLEAN
    OBVIOUS
  <2> QED
    BY <1>2, <2>1, <2>2, ExactKept
<1>6. TellInv'
  <2> SUFFICES ASSUME pc' # "over", NEW s \in Decodings(buf'), NEW g \in GS, NEW H \in Hurts,
                      NEW r \in Record,
                      r = Captured(tracker', history', chunk' \o s, g), H = HurtFrom(hurt', buf')
               PROVE  RightOf(r, g.turn, H)'
    BY DEF TellInv
  <2>1. RightOf(r, g.turn, H)
    BY <1>0, <1>1 DEF TellInv
  <2> QED
    BY <1>2, <2>1, RightKept
<1> QED
  BY <1>3, <1>4, <1>5, <1>6 DEF Inv

(* Respond.                                                                *)
LEMMA RespondKeeps == ASSUME Inv, Respond PROVE Inv'
BY SameInv DEF Respond

(* Stuttering.                                                             *)
LEMMA StutterKeeps == ASSUME Inv, UNCHANGED vars PROVE Inv'
BY SameInv DEF vars

(* A duel whose cards are laid and of which nothing is told.               *)
Fresh ==
  /\ at \in Layouts /\ elp = [s \in Seats |-> StartLP]
  /\ eturn = [n |-> 0, player |-> 0, phase |-> "none"] /\ echain = <<>> /\ buf = <<>>
  /\ gs = [lp |-> [s \in Seats |-> StartLP], turn |-> 0, player |-> 0, phase |-> "none",
           chain |-> <<>>, finished |-> FALSE,
           count |-> [s \in Seats |-> [z \in Counted |-> Cardinality(On(s, z))]]]
  /\ chunk = <<>> /\ pc = "engine" /\ tracker = EmptyField /\ history = <<>>
  /\ may \in Repertoires /\ said = 0 /\ told = <<>> /\ swapped = {} /\ hurt = {}
  /\ drift = [p \in Field |-> IF \E c \in Cards : at[c] = p THEN "blank" ELSE None]

(* A fresh duel is of its types.                                           *)
LEMMA FreshTypes == Fresh => Types /\ Rules
<1> SUFFICES ASSUME Fresh PROVE Types /\ Rules
  OBVIOUS
<1>0. StartLP \in Nat /\ MaxHistory \in Nat \ {0} /\ Layouts \subseteq [Cards -> Places]
      /\ (\A l \in Layouts, c, d \in Cards : l[c] = l[d] /\ l[c] \in Field => c = d)
  BY EventStreamAssumption
<1>1. at \in [Cards -> Places] /\ Placed(at)
  BY <1>0 DEF Fresh, Placed
<1>2. elp \in [Seats -> Nat] /\ eturn \in [n : Nat, player : Seats, phase : PhaseOf]
  BY <1>0 DEF Fresh, Seats, PhaseOf
<1>3. echain \in Seq(Statuses) /\ buf \in Seq(Frame) /\ chunk \in Seq(Message)
      /\ told \in Seq(Tale) /\ Len(told) = 0 /\ history \in Seq(Event) /\ Len(history) = 0
  BY DEF Fresh
<1>4. Len(told) <= MaxHistory /\ history \in Past
  BY <1>0, <1>3 DEF Past
<1>5. gs \in GS
  <2>1. [s \in Seats |-> [z \in Counted |-> Cardinality(On(s, z))]] \in [Seats -> [Counted -> Nat]]
    BY OnFinite
  <2>2. [s \in Seats |-> StartLP] \in [Seats -> Nat] /\ 0 \in Nat /\ 0 \in Seats
        /\ "none" \in PhaseOf /\ <<>> \in Seq(Statuses) /\ FALSE \in BOOLEAN
    BY <1>0 DEF Seats, PhaseOf
  <2> QED
    BY Zenon, <2>1, <2>2 DEF Fresh, GS
<1>6. tracker \in [Field -> Names]
  BY DEF Fresh, EmptyField, Names
<1>7. drift \in [Field -> {None, "blank", "wrong"}]
  BY DEF Fresh
<1>8. pc \in {"engine", "choice", "over"} /\ may \in Repertoires /\ said \in Nat
      /\ swapped \in SUBSET Seats /\ hurt \in Hurts
  BY DEF Fresh, Hurts
<1>9. Types
  BY <1>1, <1>2, <1>3, <1>4, <1>5, <1>6, <1>7, <1>8 DEF Types
<1>10. Rules
  BY <1>1, EmptyHears DEF Rules, Fresh
<1> QED
  BY <1>9, <1>10

(* The GameState of a fresh duel is the duel.                              *)
LEMMA FreshMirror == Fresh => MirrorInv
<1> SUFFICES ASSUME Fresh, NEW t \in Decodings(buf), NEW g \in GS, NEW H \in Hurts,
                    g = GsFold(gs, t), H = HurtFrom(hurt, buf)
             PROVE  Exact(g, H)
  BY DEF MirrorInv
<1>0. gs \in GS
  BY FreshTypes DEF Types
<1>1. t = <<>>
  BY DecodingsEmpty DEF Fresh
<1>2. g = gs
  BY <1>0, <1>1, UpdatedFold DEF GsFold
<1>3. LpExact(gs, H) /\ ClockExact(gs, H) /\ ChainExact(gs, H) /\ CountExact(gs, H)
  BY DEF Fresh, LpExact, ClockExact, ChainExact, CountExact
<1> QED
  BY <1>2, <1>3 DEF Exact

(* The tracker of a fresh duel knows nothing, and its history tells        *)
(* nothing.                                                                *)
LEMMA FreshTell == Fresh => TellInv
<1> SUFFICES ASSUME Fresh, NEW t \in Decodings(buf), NEW g \in GS, NEW H \in Hurts, NEW r \in Record,
                    r = Captured(tracker, history, chunk \o t, g), H = HurtFrom(hurt, buf)
             PROVE  RightOf(r, g.turn, H)
  BY DEF TellInv
<1>0. tracker \in [Field -> Names] /\ history \in Past
  BY FreshTypes DEF Types
<1>1. t = <<>> /\ chunk = <<>>
  BY DecodingsEmpty DEF Fresh
<1>2. chunk \o t = <<>>
  BY <1>1
<1> DEFINE b == [tracker |-> tracker, history |-> history]
<1>3. b \in Record /\ b.tracker = tracker /\ b.history = history
  BY <1>0 DEF Record
<1>4. g.turn \in Nat
  BY DEF GS
<1> HIDE DEF b
<1>5. r = b
  BY <1>2, <1>3, <1>4, CapturedFold
<1>6. NamesCards(tracker, H)
  <2> SUFFICES ASSUME NEW p \in Field
               PROVE  /\ drift[p] = None => tracker[p] = Holder(p)
                      /\ drift[p] = "blank" => tracker[p] = None
    BY DEF NamesCards
  <2>1. tracker[p] = None /\ None # "blank"
    BY EventStreamAssumption DEF Fresh, EmptyField
  <2>2. drift[p] = IF \E c \in Cards : at[c] = p THEN "blank" ELSE None
    BY DEF Fresh
  <2> QED
    BY <2>1, <2>2 DEF Holder
<1>7. Tells(history, g.turn, H)
  <2>1. history = <<>> /\ told = <<>>
    BY DEF Fresh
  <2>2. Len(history) = Len(told) /\ \A i \in DOMAIN told : Match(history[i], told[i], g.turn)
    BY <2>1
  <2> QED
    BY <2>2 DEF Tells
<1> QED
  BY <1>3, <1>5, <1>6, <1>7 DEF RightOf

(* A fresh duel satisfies the invariant.                                   *)
LEMMA FreshInv == Fresh => Inv
BY FreshTypes, FreshMirror, FreshTell DEF Inv

(* A behaviour starts with a fresh duel.                                   *)
LEMMA InitFresh == Init => Fresh
<1> SUFFICES ASSUME Init PROVE Fresh
  OBVIOUS
<1>1. \A p : Holder(p) = None <=> ~ \E c \in Cards : at[c] = p
  <2>1. None \notin Cards
    BY EventStreamAssumption
  <2> QED
    BY <2>1 DEF Holder
<1>2. drift = [p \in Field |-> IF \E c \in Cards : at[c] = p THEN "blank" ELSE None]
  BY <1>1 DEF Init
<1>3. gs = [lp |-> [s \in Seats |-> StartLP], turn |-> 0, player |-> 0, phase |-> "none",
            chain |-> <<>>, finished |-> FALSE,
            count |-> [s \in Seats |-> [z \in Counted |-> Cardinality(On(s, z))]]]
  BY DEF Init
<1> QED
  BY <1>2, <1>3 DEF Init, Fresh

(* reset() brings one.                                                     *)
LEMMA ResetFresh == ASSUME Inv, Reset PROVE Fresh'
<1>1. PICK layout \in Layouts :
        /\ NewMirror(layout)
        /\ at' = layout
        /\ drift' = [p \in Field |-> IF \E c \in Cards : layout[c] = p THEN "blank" ELSE None]
  BY DEF Reset
<1>2. drift' = [p \in Field |-> IF \E c \in Cards : at'[c] = p THEN "blank" ELSE None]
  BY <1>1
<1>3. gs' = [lp |-> [s \in Seats |-> StartLP], turn |-> 0, player |-> 0, phase |-> "none",
             chain |-> <<>>, finished |-> FALSE,
             count |-> [s \in Seats |-> [z \in Counted |-> Cardinality(On(s, z)')]]]
  BY <1>1 DEF NewMirror, On
<1>4. may' \in Repertoires
  BY DEF Reset, Inv, Types
<1>5. chunk' = <<>> /\ history' = <<>> /\ tracker' = EmptyField
  BY <1>1 DEF NewMirror
<1> QED
  BY <1>1, <1>2, <1>3, <1>4, <1>5 DEF Fresh, Reset, EmptyField

-----------------------------------------------------------------------------
(* At every moment, were the frames of the buffer read now, the GameState, *)
(* the tracker and the history would be right but for what a lost or       *)
(* garbled frame has touched.  This is the inductive invariant of the      *)
(* module; what is heard at a choice follows from it.                      *)
THEOREM StreamInvariant == Spec => []Inv
<1>1. Init => Inv
  BY InitFresh, FreshInv
<1>2. Inv /\ [Next]_vars => Inv'
  <2> SUFFICES ASSUME Inv, [Next]_vars PROVE Inv'
    OBVIOUS
  <2>1. ASSUME EngineSays PROVE Inv'
    BY <2>1, EngineKeeps
  <2>2. ASSUME NEW status \in {"continue", "awaiting", "end"}, Round(status) PROVE Inv'
    BY <2>2, RoundKeeps
  <2>3. ASSUME Respond PROVE Inv'
    BY <2>3, RespondKeeps
  <2>4. ASSUME Reset PROVE Inv'
    <3>1. Fresh'
      BY <2>4, ResetFresh
    <3>2. Fresh' => Inv'
      BY FreshInv, PTL
    <3> QED
      BY <3>1, <3>2
  <2>5. ASSUME UNCHANGED vars PROVE Inv'
    BY <2>5, StutterKeeps
  <2> QED
    BY <2>1, <2>2, <2>3, <2>4, <2>5 DEF Next
<1> QED
  BY <1>1, <1>2, PTL DEF Spec

(* Every variable keeps to its type: no count and no life total of the     *)
(* GameState goes below zero, no history is too long, whatever a frame     *)
(* that could not be read says.                                            *)
THEOREM StreamTypeCorrect == Spec => []TypeOK
<1>1. Inv => TypeOK
  BY DEF Inv, Types, TypeOK, GS, Past, Names, Hurts, Statuses
<1> QED
  BY <1>1, StreamInvariant, PTL

(* At a choice the buffer has been read and captured.                      *)
LEMMA AtChoice ==
  ASSUME Inv, pc = "choice"
  PROVE  /\ <<>> \in Decodings(buf) /\ hurt = HurtFrom(hurt, buf) /\ hurt \in Hurts
         /\ gs \in GS /\ tracker \in [Field -> Names] /\ history \in Past /\ eturn.n \in Nat
         /\ chunk = <<>> /\ gs = GsFold(gs, <<>>)
<1>1. Types /\ buf = <<>> /\ chunk = <<>>
  BY DEF Inv, Rules
<1>2. hurt \in Hurts /\ gs \in GS /\ tracker \in [Field -> Names] /\ history \in Past
      /\ eturn.n \in Nat
  BY <1>1 DEF Types
<1>3. Decodings(buf) = {<<>>}
  BY <1>1, DecodingsEmpty
<1>4. hurt = HurtFrom(hurt, buf)
  BY <1>1, <1>2, HurtEmpty
<1>5. gs = GsFold(gs, <<>>)
  BY <1>2, UpdatedFold DEF GsFold
<1> QED
  BY <1>1, <1>2, <1>3, <1>4, <1>5

(* At a choice the GameState is the engine's duel but for what is hurt.    *)
THEOREM MirrorExact == Spec => []MirrorIsExact
<1>1. Inv => MirrorIsExact
  <2> SUFFICES ASSUME Inv, pc = "choice" PROVE Exact(gs, hurt)
    BY DEF MirrorIsExact, Exact, LpExact, ClockExact, ChainExact, CountExact
  <2>1. Exact(gs, hurt)
    BY AtChoice DEF Inv, MirrorInv
  <2> QED
    BY <2>1
<1> QED
  BY <1>1, StreamInvariant, PTL

(* What is captured at a choice, in the engine's turn, is right.           *)
LEMMA ChoiceRight ==
  ASSUME Inv, pc = "choice"
  PROVE  NamesCards(tracker, hurt) /\ Tells(history, eturn.n, hurt)
<1>1. /\ <<>> \in Decodings(buf) /\ hurt = HurtFrom(hurt, buf) /\ hurt \in Hurts
      /\ gs \in GS /\ tracker \in [Field -> Names] /\ history \in Past /\ eturn.n \in Nat
      /\ chunk = <<>>
  BY AtChoice
<1> DEFINE g == [lp |-> gs.lp, turn |-> eturn.n, player |-> gs.player, phase |-> gs.phase,
                 chain |-> gs.chain, finished |-> gs.finished, count |-> gs.count]
           b == [tracker |-> tracker, history |-> history]
<1>2. g \in GS /\ g.turn = eturn.n
  BY Zenon, <1>1 DEF GS
<1>3. b \in Record /\ b.tracker = tracker /\ b.history = history
  BY <1>1 DEF Record
<1> HIDE DEF g, b
<1>4. chunk \o <<>> = <<>>
  BY <1>1
<1>5. b = Captured(tracker, history, chunk \o <<>>, g)
  BY <1>1, <1>2, <1>3, <1>4, CapturedFold
<1>6. RightOf(b, g.turn, hurt)
  BY <1>1, <1>2, <1>3, <1>5 DEF Inv, TellInv
<1>7. eturn.n <= g.turn
  BY <1>1, <1>2
<1> QED
  BY <1>2, <1>3, <1>6, <1>7 DEF RightOf

(* At a choice the tracker names the card of every place of the field that *)
(* it can have heard of, and no other.                                     *)
THEOREM TrackerNames == Spec => []TrackerNamesTheCard
<1>1. Inv => TrackerNamesTheCard
  BY ChoiceRight DEF TrackerNamesTheCard, NamesCards
<1> QED
  BY <1>1, StreamInvariant, PTL

(* At a choice the history is the last events the engine told, in order.   *)
THEOREM HistoryTells == Spec => []HistoryTellsTheDuel
<1>1. Inv => HistoryTellsTheDuel
  BY ChoiceRight DEF HistoryTellsTheDuel, Tells, Match
<1> QED
  BY <1>1, StreamInvariant, PTL
=============================================================================
