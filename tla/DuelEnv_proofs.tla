--------------------------- MODULE DuelEnv_proofs ---------------------------
(***************************************************************************)
(* What DuelEnv's run checks on five kinds of questions about two cards,   *)
(* for every set of questions, number of picks, caps and loop filters.     *)
(***************************************************************************)
EXTENDS DuelEnv, FiniteSetTheorems, FunctionTheorems, SequenceTheorems, TLAPS

-----------------------------------------------------------------------------
(* The inductive invariant.                                                *)

(* The prompts the engine can give.                                        *)
Asked == {Prompt(q, s) : q \in Questions, s \in Seats}

(* Picks that do not yet answer a prompt and can still be completed.       *)
Partial(p, s) ==
  /\ IsInjective(s) /\ ToSet(s) \subseteq p.items /\ Len(s) < p.max
  /\ p.kind = "top" => s = <<>>

(* The engine waits on a prompt of its own; a response it has been given   *)
(* answers that prompt.  While a call is served the duel is on.            *)
EngineInv ==
  /\ due # None => due \in Asked
  /\ reply # None => due # None /\ Legal(reply, due)
  /\ pc # "idle" => duel = "open" /\ ~over
  /\ pc \in {"auto", "force", "opp"} => due # None /\ reply = None
  /\ pc = "auto" => collapse /\ obs = "prompt"

(* The agent has a prompt, on show or being collapsed.                     *)
Choosing == pc \in {"auto", "force"} \/ OnShow

ChoiceInv ==
  Choosing =>
    /\ duel = "open" /\ ~over /\ reply = None
    /\ due # None /\ due.seat = agent
    /\ mapper.to = due /\ mapper.picks = sel
    /\ pc # "force" => cur = Msg(due, sel)
    /\ Partial(due, sel)
    /\ mapper.acts # {} /\ mapper.acts \subseteq Shown(due, sel)
    /\ OnShow /\ collapse => Cardinality(mapper.acts) > 1
    /\ steps < MaxSteps + Len(sel) + failed

(* The opponent has one.                                                   *)
OpponentInv ==
  pc = "opp" => Partial(due, osel) /\ oppSteps < MaxSteps + Len(osel)

CapInv ==
  /\ steps < MaxSteps + MaxPick + failed /\ oppSteps < MaxSteps + MaxPick
  /\ timedOut => AtCap /\ ~over /\ obs # "prompt" /\ pc = "idle"

Inv == EngineInv /\ ChoiceInv /\ OpponentInv /\ CapInv

-----------------------------------------------------------------------------
(* Prompts and picks.                                                      *)

(* A prompt of the engine has something to pick, and enough of it.         *)
LEMMA AskedOf ==
  ASSUME NEW p \in Asked
  PROVE  /\ p \in Prompts /\ p # None
         /\ p.kind \in {"top", "pick"} /\ IsFiniteSet(p.items) /\ p.items # {}
         /\ p.items \subseteq Keys \cup {Pass}
         /\ p.kind = "pick" => p.items \subseteq Keys
         /\ p.min \in Nat /\ p.max \in Nat /\ MaxPick \in Nat
         /\ 1 <= p.min /\ p.min <= p.max /\ p.max <= MaxPick
         /\ p.min <= Cardinality(p.items)
<1>1. PICK q \in Questions, s \in Seats : p = Prompt(q, s)
  BY DEF Asked
<1>2. /\ q.kind \in {"top", "pick"} /\ q.items # {} /\ IsFiniteSet(q.items)
      /\ q.items \subseteq IF q.kind = "top" THEN Keys \cup {Pass} ELSE Keys
      /\ q.min \in 1 .. MaxPick /\ q.max \in q.min .. MaxPick
      /\ q.min <= Cardinality(q.items) /\ MaxPick \in Nat
  BY DuelEnvAssumption
<1>3. /\ p.seat = s /\ p.kind = q.kind /\ p.items = q.items /\ p.min = q.min /\ p.max = q.max
      /\ p = [seat |-> s, kind |-> q.kind, items |-> q.items, min |-> q.min, max |-> q.max]
  BY <1>1 DEF Prompt
<1>4. p \in Prompts
  BY <1>2, <1>3 DEF Prompts
<1> QED
  BY <1>2, <1>3, <1>4, DuelEnvAssumption

(* A sequence has no more members than its length.                         *)
LEMMA ToSetSize ==
  ASSUME NEW S, NEW s \in Seq(S)
  PROVE  /\ IsFiniteSet(ToSet(s)) /\ Cardinality(ToSet(s)) <= Len(s)
         /\ Cardinality(ToSet(s)) \in Nat /\ Len(s) \in Nat
<1>1. Len(s) \in Nat /\ DOMAIN s = 1 .. Len(s)
  OBVIOUS
<1> DEFINE f == [i \in 1 .. Len(s) |-> s[i]]
<1>2. ToSet(s) = {f[i] : i \in 1 .. Len(s)}
  BY <1>1 DEF ToSet
<1>3. f \in Surjection(1 .. Len(s), ToSet(s))
  BY <1>2, Fun_IsSurj
<1>4. IsFiniteSet(1 .. Len(s)) /\ Cardinality(1 .. Len(s)) = Len(s)
  <2>1. Cardinality(1 .. Len(s)) = IF 1 > Len(s) THEN 0 ELSE Len(s) - 1 + 1
    BY <1>1, FS_Interval
  <2> QED
    BY <1>1, <2>1, FS_Interval
<1> HIDE DEF f
<1>5. IsFiniteSet(ToSet(s)) /\ Cardinality(ToSet(s)) <= Len(s)
  BY <1>3, <1>4, FS_Surjection
<1> QED
  BY <1>1, <1>5, FS_CardinalityType

(* A prompt that is not answered yet leaves an option, and each of its     *)
(* options is an item not picked yet or finish_pick, when that is allowed. *)
LEMMA ShownOf ==
  ASSUME NEW p \in Asked, NEW s \in Seq(Keys), Partial(p, s)
  PROVE  /\ Shown(p, s) # {} /\ IsFiniteSet(Shown(p, s)) /\ Shown(p, s) \subseteq Options
         /\ \A o \in Shown(p, s) :
              \/ o = Finish /\ p.kind = "pick" /\ p.min <= Len(s)
              \/ o # Finish /\ o \in p.items /\ o \notin ToSet(s)
<1>0. /\ Finish \notin Keys /\ Finish # Pass
      /\ Len(s) \in Nat
  BY DuelEnvAssumption DEF Finish, Pass
<1>1. CASE p.kind = "top"
  <2>1. s = <<>> /\ Shown(p, s) = p.items
    BY <1>1 DEF Partial, Shown
  <2>2. ToSet(s) = {}
    BY <2>1 DEF ToSet
  <2> QED
    BY <1>0, <2>1, <2>2, AskedOf DEF Options
<1>2. CASE p.kind # "top"
  <2> DEFINE F == {o \in {Finish} : p.min < p.max /\ Len(s) >= p.min}
             I == p.items \ ToSet(s)
  <2>1. p.kind = "pick" /\ Shown(p, s) = I \cup F
    BY <1>2, AskedOf DEF Shown
  <2>2. p.items \subseteq Keys
    BY <2>1, AskedOf
  <2>3. I \cup F # {}
    <3>1. CASE Len(s) < p.min
      <4>1. Cardinality(ToSet(s)) < Cardinality(p.items)
        <5>1. Cardinality(p.items) \in Nat
          BY AskedOf, FS_CardinalityType
        <5> QED
          BY <1>0, <3>1, <5>1, AskedOf, ToSetSize
      <4>2. p.items # ToSet(s)
        BY <4>1, <1>0, ToSetSize
      <4>3. ToSet(s) \subseteq p.items
        BY DEF Partial
      <4> QED
        BY <4>2, <4>3
    <3>2. CASE ~(Len(s) < p.min)
      <4>1. p.min < p.max /\ Len(s) >= p.min
        BY <1>0, <3>2, AskedOf DEF Partial
      <4> QED
        BY <4>1
    <3> QED
      BY <3>1, <3>2
  <2>4. IsFiniteSet(I \cup F)
    <3>1. I \in SUBSET p.items /\ F \in SUBSET {Finish}
      OBVIOUS
    <3>2. IsFiniteSet(p.items) /\ IsFiniteSet({Finish})
      BY AskedOf, FS_Singleton
    <3>3. IsFiniteSet(I) /\ IsFiniteSet(F)
      BY <3>1, <3>2, FS_Subset
    <3> HIDE DEF I, F
    <3> QED
      BY <3>3, FS_Union
  <2> QED
    BY <1>0, <2>1, <2>2, <2>3, <2>4 DEF Options
<1> QED
  BY <1>1, <1>2

(* An option that completes the picks makes a legal response of them.      *)
LEMMA AnswerLegal ==
  ASSUME NEW p \in Asked, NEW s \in Seq(Keys), Partial(p, s),
         NEW o \in Shown(p, s), Completes(p, s, o)
  PROVE  /\ Legal(Msg(p, Picked(s, o)), p)
         /\ Msg(p, Picked(s, o)) \in Messages
<1>0. /\ p.kind \in {"top", "pick"} /\ p.min \in Nat /\ p.max \in Nat /\ p.min <= p.max
      /\ p.items \subseteq Keys \cup {Pass} /\ p \in Prompts
      /\ Len(s) \in Nat /\ Len(s) < p.max
  BY AskedOf DEF Partial
<1>1. CASE o = Finish
  <2>1. p.kind = "pick" /\ p.min <= Len(s) /\ Picked(s, o) = s
    BY <1>1, ShownOf DEF Picked
  <2>2. IsInjective(s) /\ ToSet(s) \subseteq p.items
    BY DEF Partial
  <2>3. s \in Seq(Keys \cup {Pass})
    BY SeqDef
  <2> QED
    BY <1>0, <2>1, <2>2, <2>3 DEF Legal, Msg, Messages
<1>2. CASE o # Finish
  <2>1. o \in p.items /\ o \notin ToSet(s) /\ Picked(s, o) = Append(s, o)
    BY <1>2, ShownOf DEF Picked
  <2>2. s \in Seq(Keys \cup {Pass}) /\ o \in Keys \cup {Pass}
    BY <1>0, <2>1
  <2>3. /\ Append(s, o) \in Seq(Keys \cup {Pass}) /\ Len(Append(s, o)) = Len(s) + 1
        /\ Append(s, o)[Len(s) + 1] = o
        /\ \A i \in 1 .. Len(s) : Append(s, o)[i] = s[i]
        /\ DOMAIN Append(s, o) = 1 .. Len(s) + 1
    BY <2>2
  <2>4. CASE p.kind = "top"
    <3>1. s = <<>> /\ Len(s) = 0
      BY <2>4 DEF Partial
    <3> QED
      BY <1>0, <2>1, <2>3, <2>4, <3>1 DEF Legal, Msg, Messages
  <2>5. CASE p.kind = "pick"
    <3>1. Len(s) + 1 = p.max
      BY <1>0, <1>2, <2>5 DEF Completes
    <3>2. IsInjective(Append(s, o)) /\ ToSet(Append(s, o)) \subseteq p.items
      BY <1>0, <2>1, <2>3 DEF Partial, IsInjective, ToSet
    <3> QED
      BY <1>0, <2>1, <2>3, <2>5, <3>1, <3>2 DEF Legal, Msg, Messages
  <2> QED
    BY <1>0, <2>4, <2>5
<1> QED
  BY <1>1, <1>2

(* Any other option is one more pick.                                      *)
LEMMA PickPartial ==
  ASSUME NEW p \in Asked, NEW s \in Seq(Keys), Partial(p, s),
         NEW o \in Shown(p, s), ~Completes(p, s, o)
  PROVE  /\ Partial(p, Append(s, o)) /\ Append(s, o) \in Seq(Keys)
         /\ Len(Append(s, o)) = Len(s) + 1 /\ Append(s, o) # <<>>
<1>0. p.kind = "pick" /\ o # Finish /\ Len(s) + 1 < p.max /\ Len(s) \in Nat
  BY AskedOf DEF Completes
<1>1. o \in p.items /\ o \notin ToSet(s) /\ o \in Keys
  BY <1>0, ShownOf, AskedOf
<1>2. /\ Append(s, o) \in Seq(Keys) /\ Len(Append(s, o)) = Len(s) + 1
      /\ Append(s, o)[Len(s) + 1] = o
      /\ \A i \in 1 .. Len(s) : Append(s, o)[i] = s[i]
      /\ DOMAIN Append(s, o) = 1 .. Len(s) + 1
  BY <1>1
<1>3. IsInjective(Append(s, o)) /\ ToSet(Append(s, o)) \subseteq p.items
  BY <1>0, <1>1, <1>2 DEF Partial, IsInjective, ToSet
<1> QED
  BY <1>0, <1>2, <1>3 DEF Partial

(* No picks are the beginning of any answer.                               *)
LEMMA NoPicks ==
  ASSUME NEW p \in Asked
  PROVE  Partial(p, <<>>) /\ <<>> \in Seq(Keys) /\ Len(<<>>) = 0
BY AskedOf DEF Partial, IsInjective, ToSet

-----------------------------------------------------------------------------
(* Type correctness and the invariant, together: what a pick is depends on *)
(* the prompt it is one of.                                                *)

(* The filter keeps its types.                                             *)
LEMMA FilterType ==
  ASSUME TypeOK, \/ \E k \in Options : Record(k)
                 \/ FilterReset \/ UNCHANGED filter
  PROVE  /\ seen' \in [Keys -> 0 .. SamplingStart] /\ hist' \in [Keys -> Seq(Boards)]
         /\ looping' \in SUBSET Keys
<1>0. /\ seen \in [Keys -> 0 .. SamplingStart] /\ hist \in [Keys -> Seq(Boards)]
      /\ looping \in SUBSET Keys /\ board \in Boards
      /\ SamplingStart \in Nat /\ FpHistoryMax \in Nat \ {0}
  BY DuelEnvAssumption DEF TypeOK
<1>1. ASSUME NEW k \in Options, Record(k)
      PROVE  /\ seen' \in [Keys -> 0 .. SamplingStart] /\ hist' \in [Keys -> Seq(Boards)]
             /\ looping' \in SUBSET Keys
  <2>1. CASE k \notin Keys
    BY <1>0, <1>1, <2>1 DEF Record, filter
  <2>2. CASE k \in Keys
    <3>1. seen' = [seen EXCEPT ![k] = IF @ < SamplingStart THEN @ + 1 ELSE @]
      BY <1>1, <2>2 DEF Record
    <3>2. seen' \in [Keys -> 0 .. SamplingStart]
      <4>1. seen[k] \in 0 .. SamplingStart
        BY <1>0, <2>2
      <4>2. (IF seen[k] < SamplingStart THEN seen[k] + 1 ELSE seen[k]) \in 0 .. SamplingStart
        BY <1>0, <4>1
      <4> QED
        BY <1>0, <2>2, <3>1, <4>2
    <3>3. CASE seen[k] + 1 < SamplingStart
      BY <1>0, <1>1, <2>2, <3>2, <3>3 DEF Record
    <3>4. CASE ~(seen[k] + 1 < SamplingStart)
      <4> DEFINE h == IF Len(hist[k]) < FpHistoryMax THEN Append(hist[k], board)
                                                     ELSE Append(Tail(hist[k]), board)
      <4>1. /\ looping' \in {looping \cup {k}, looping \ {k}}
            /\ hist' = [hist EXCEPT ![k] = h]
        BY <1>1, <2>2, <3>4 DEF Record
      <4>2. hist[k] \in Seq(Boards)
        BY <1>0, <2>2
      <4>3. ~(Len(hist[k]) < FpHistoryMax) => hist[k] # <<>>
        BY <1>0, <4>2
      <4>4. h \in Seq(Boards)
        BY <1>0, <4>2, <4>3
      <4> HIDE DEF h
      <4>5. hist' \in [Keys -> Seq(Boards)]
        BY <1>0, <4>1, <4>4
      <4> QED
        BY <1>0, <2>2, <3>2, <4>1, <4>5
    <3> QED
      BY <3>3, <3>4
  <2> QED
    BY <2>1, <2>2
<1>2. CASE FilterReset
  BY <1>0, <1>2 DEF FilterReset
<1>3. CASE UNCHANGED filter
  BY <1>0, <1>3 DEF filter
<1> QED
  BY <1>1, <1>2, <1>3

(* How a call returns keeps the types of its caller.                       *)
LEMMA ReturnType ==
  ASSUME TypeOK
  PROVE  /\ \A o \in {"prompt", "terminal", "raised"} : Return(o) =>
              /\ pc' = "idle" /\ obs' = o /\ call' \in {"none", "reset", "resetRec"}
              /\ armed' \in BOOLEAN
         /\ \A w \in {"idle", "auto", "loop", "force", "opp"} : Go(w) =>
              /\ pc' = w /\ obs' = obs /\ call' = call /\ armed' = armed
BY DEF TypeOK, Return, Go

(* The types and the invariant hold before the first reset.                *)
LEMMA EnvInit == Init => TypeOK /\ Inv
<1> SUFFICES ASSUME Init PROVE TypeOK /\ Inv
  OBVIOUS
<1>0. /\ <<>> \in Seq(Keys) /\ <<>> \in Seq(Boards) /\ 0 \in 0 .. SamplingStart
      /\ 0 \in 0 .. MaxFailed
  BY DuelEnvAssumption
<1>1. TypeOK
  BY <1>0, DuelEnvAssumption DEF Init, TypeOK, Seats
<1>2. Inv
  BY DuelEnvAssumption
  DEF Init, Inv, EngineInv, ChoiceInv, OpponentInv, CapInv, Choosing, OnShow
<1> QED
  BY <1>1, <1>2

(* reset(), and step() after the end of the duel.                          *)
LEMMA ResetStep ==
  ASSUME TypeOK, Inv,
         \/ \E s \in Seats, c \in {"reset", "resetRec"} : Reset(s, c)
         \/ \E s \in Seats : ResetRejected(s)
         \/ StepEnded
  PROVE  TypeOK' /\ Inv'
<1>0. /\ MaxSteps \in Nat \ {0} /\ MaxPick \in Nat \ {0}
      /\ MaxFailed \in Nat /\ 0 \in 0 .. MaxFailed
  BY DuelEnvAssumption
<1> USE DEF Inv, EngineInv, ChoiceInv, OpponentInv, CapInv, Choosing, OnShow
<1>1. ASSUME NEW s \in Seats, NEW c \in {"reset", "resetRec"}, Reset(s, c)
      PROVE  TypeOK' /\ Inv'
  <2>1. FilterReset
    BY <1>1 DEF Reset, Cleared
  <2>2. TypeOK'
    BY <1>0, <1>1, <2>1, FilterType DEF Reset, Cleared, TypeOK, opp
  <2>3. Inv'
    BY <1>0, <1>1 DEF Reset, Cleared
  <2> QED
    BY <2>2, <2>3
<1>2. ASSUME NEW s \in Seats, ResetRejected(s) PROVE TypeOK' /\ Inv'
  <2>1. FilterReset
    BY <1>2 DEF ResetRejected, Cleared
  <2>a. /\ seen' \in [Keys -> 0 .. SamplingStart] /\ hist' \in [Keys -> Seq(Boards)]
        /\ looping' \in SUBSET Keys
    BY <2>1, FilterType
  <2>b. /\ agent' = s /\ steps' = 0 /\ oppSteps' = 0 /\ timedOut' = FALSE
        /\ duel' \in {"none", "void"} /\ (over' = over \/ over' = FALSE)
        /\ due' = None /\ reply' = None /\ obs' = "raised"
        /\ UNCHANGED <<collapse, cur, mapper, sel, osel, ofirst, board, pc, call, armed>>
    BY <1>2 DEF ResetRejected, Cleared, opp
  <2>c. /\ collapse \in BOOLEAN /\ cur \in Messages \cup {None}
        /\ mapper \in [to : Prompts \cup {None}, picks : Seq(Keys), acts : SUBSET Options]
        /\ sel \in Seq(Keys) /\ osel \in Seq(Keys) /\ ofirst \in Options \cup {None}
        /\ board \in Boards /\ pc \in {"idle", "auto", "loop", "force", "opp"}
        /\ call \in {"none", "reset", "resetRec"} /\ armed \in BOOLEAN /\ over \in BOOLEAN
    BY DEF TypeOK
  <2>d. /\ collapse' \in BOOLEAN /\ cur' \in Messages \cup {None}
        /\ mapper' \in [to : Prompts \cup {None}, picks : Seq(Keys), acts : SUBSET Options]
        /\ sel' \in Seq(Keys) /\ osel' \in Seq(Keys) /\ ofirst' \in Options \cup {None}
        /\ board' \in Boards /\ pc' \in {"idle", "auto", "loop", "force", "opp"}
        /\ call' \in {"none", "reset", "resetRec"} /\ armed' \in BOOLEAN
    BY <2>b, <2>c
  <2>e. /\ duel' \in {"none", "open", "void"} /\ over' \in BOOLEAN /\ agent' \in Seats
        /\ steps' \in Nat /\ oppSteps' \in Nat /\ timedOut' \in BOOLEAN
        /\ due' \in Prompts \cup {None} /\ reply' \in Messages \cup {None}
        /\ obs' \in {None, "prompt", "terminal", "raised"}
    BY <2>b, <2>c
  <2>f. failed' \in 0 .. MaxFailed
    BY <1>0, <1>2 DEF ResetRejected, Cleared
  <2>2. TypeOK'
    BY <2>a, <2>d, <2>e, <2>f DEF TypeOK
  <2>3. Inv'
    BY <1>0, <1>2 DEF ResetRejected, Cleared
  <2> QED
    BY <2>2, <2>3
<1>3. CASE StepEnded
  <2>1. /\ pc' = "idle" /\ obs' = "terminal" /\ call' \in {"none", "reset", "resetRec"}
        /\ armed' \in BOOLEAN /\ cur' = None /\ sel' = <<>>
    BY <1>3, ReturnType DEF StepEnded, Terminal
  <2>a. /\ seen' \in [Keys -> 0 .. SamplingStart] /\ hist' \in [Keys -> Seq(Boards)]
        /\ looping' \in SUBSET Keys
    BY <1>3, FilterType DEF StepEnded
  <2>2. TypeOK'
    BY <1>0, <1>3, <2>1, <2>a DEF StepEnded, TypeOK, opp, engine
  <2>3. Inv'
    BY <1>3, <2>1 DEF StepEnded, engine, AtCap
  <2> QED
    BY <2>2, <2>3
<1> QED
  BY <1>1, <1>2, <1>3

(* The prompt the agent has is one of the engine's, and what it is shown   *)
(* are options of it.                                                      *)
LEMMA ChoosingOf ==
  ASSUME TypeOK, Inv, Choosing
  PROVE  /\ duel = "open" /\ ~over /\ reply = None
         /\ due \in Asked /\ due.seat = agent /\ mapper.to = due /\ mapper.picks = sel
         /\ pc # "force" => cur = Msg(due, sel)
         /\ sel \in Seq(Keys) /\ Partial(due, sel)
         /\ mapper.acts # {} /\ mapper.acts \subseteq Shown(due, sel)
         /\ mapper.acts \subseteq Options
         /\ steps < MaxSteps + Len(sel) + failed /\ Len(sel) \in Nat /\ Len(sel) < MaxPick
         /\ MaxSteps \in Nat /\ MaxPick \in Nat /\ steps \in Nat /\ failed \in Nat
<1>1. /\ duel = "open" /\ ~over /\ reply = None
      /\ due \in Asked /\ due.seat = agent /\ mapper.to = due /\ mapper.picks = sel
      /\ pc # "force" => cur = Msg(due, sel)
      /\ Partial(due, sel)
      /\ mapper.acts # {} /\ mapper.acts \subseteq Shown(due, sel)
      /\ steps < MaxSteps + Len(sel) + failed
  BY DEF Inv, ChoiceInv, EngineInv
<1>2. sel \in Seq(Keys) /\ mapper.acts \subseteq Options /\ steps \in Nat
  BY DEF TypeOK
<1>3. MaxSteps \in Nat /\ MaxPick \in Nat /\ failed \in Nat
  BY DuelEnvAssumption DEF TypeOK
<1>4. Len(sel) \in Nat /\ Len(sel) < MaxPick
  BY <1>1, <1>2, AskedOf DEF Partial
<1> QED
  BY <1>1, <1>2, <1>3, <1>4

(* The agent's picks are complete: the response is sent.                   *)
LEMMA SendStep ==
  ASSUME TypeOK, Inv, Choosing, NEW o \in mapper.acts, Completes(mapper.to, sel, o),
         Send(mapper.to, sel, o), sel' = <<>>,
         steps' = steps \/ steps' = steps + 1,
         \/ \E k \in Options : Record(k)
         \/ UNCHANGED filter,
         UNCHANGED <<collapse, duel, over, agent, cur, mapper, oppSteps, timedOut, opp,
                     due, board, failed>>
  PROVE  TypeOK' /\ Inv'
<1>0. due \in Asked /\ mapper.to = due /\ sel \in Seq(Keys) /\ Partial(due, sel)
      /\ o \in Shown(due, sel) /\ o \in Options
  BY ChoosingOf
<1>1. reply' = Msg(due, Picked(sel, o)) /\ pc' = "loop" /\ UNCHANGED <<call, obs, armed>>
  BY <1>0 DEF Send, Go
<1>2. Legal(reply', due') /\ reply' \in Messages /\ due' # None
  BY <1>0, <1>1, AnswerLegal, AskedOf
<1>3. seen' \in [Keys -> 0 .. SamplingStart] /\ hist' \in [Keys -> Seq(Boards)]
      /\ looping' \in SUBSET Keys
  BY FilterType
<1>4. TypeOK'
  BY <1>1, <1>2, <1>3 DEF TypeOK, opp
<1>5. EngineInv'
  BY <1>0, <1>1, <1>2, ChoosingOf DEF EngineInv
<1>6. ChoiceInv' /\ OpponentInv'
  BY <1>1 DEF ChoiceInv, OpponentInv, Choosing, OnShow
<1>7. CapInv'
  <2>1. ~timedOut
    BY DEF Inv, CapInv, Choosing, OnShow
  <2>2. steps' < MaxSteps + MaxPick + failed'
    BY ChoosingOf
  <2> QED
    BY <2>1, <2>2 DEF Inv, CapInv
<1> QED
  BY <1>4, <1>5, <1>6, <1>7 DEF Inv

(* They are not: one more pick, and the prompt narrows.                    *)
LEMMA PickStep ==
  ASSUME TypeOK, Inv, Choosing, NEW o \in mapper.acts, ~Completes(mapper.to, sel, o),
         Accumulate(o),
         \/ pc = "force" /\ cur' = cur
         \/ pc # "force" /\ cur' = Msg(cur.to, sel'),
         \/ pc = "idle" /\ steps' = steps + 1 /\ Go(IF collapse THEN "auto" ELSE "idle")
         \/ pc # "idle" /\ steps' = steps /\ UNCHANGED caller,
         \/ \E k \in Options : Record(k)
         \/ UNCHANGED filter,
         UNCHANGED <<collapse, duel, over, agent, oppSteps, timedOut, opp, due, board, reply,
                     failed>>
  PROVE  TypeOK' /\ Inv'
<1>0. due \in Asked /\ mapper.to = due /\ sel \in Seq(Keys) /\ Partial(due, sel)
      /\ o \in Shown(due, sel) /\ o \in Options
  BY ChoosingOf
<1>1. sel' = Append(sel, o) /\ mapper' = [to |-> due, picks |-> sel', acts |-> Shown(due, sel')]
  BY <1>0 DEF Accumulate, Map
<1>2. /\ Partial(due, sel') /\ sel' \in Seq(Keys) /\ Len(sel') = Len(sel) + 1
  BY <1>0, <1>1, PickPartial
<1>3. seen' \in [Keys -> 0 .. SamplingStart] /\ hist' \in [Keys -> Seq(Boards)]
      /\ looping' \in SUBSET Keys
  BY FilterType
<1>4. Shown(due, sel') # {} /\ Shown(due, sel') \subseteq Options /\ due \in Prompts
  BY <1>0, <1>2, ShownOf, AskedOf
<1>5. /\ pc \in {"idle", "auto", "force"} /\ UNCHANGED <<call, obs, armed>>
      /\ pc = "force" => pc' = "force" /\ cur' = cur
      /\ pc = "auto" => pc' = "auto"
      /\ pc = "idle" => pc' = IF collapse THEN "auto" ELSE "idle"
      /\ pc # "force" => obs = "prompt" /\ cur' = Msg(due, sel')
  <2>1. pc # "force" => cur = Msg(due, sel)
    BY ChoosingOf
  <2>2. pc # "force" => obs = "prompt"
    BY DEF Choosing, OnShow, Inv, EngineInv
  <2> QED
    BY <2>1, <2>2 DEF Choosing, OnShow, Go, caller, Msg
<1>6. /\ steps' \in Nat /\ steps' < MaxSteps + Len(sel') + failed'
      /\ steps' < MaxSteps + MaxPick + failed'
  <2>1. steps' = steps \/ steps' = steps + 1
    OBVIOUS
  <2>2. Len(sel') <= MaxPick
    BY <1>2, ChoosingOf
  <2> QED
    BY <1>2, <2>1, <2>2, ChoosingOf
<1>7. TypeOK'
  <2>1. cur' \in Messages \cup {None}
    <3>1. sel' \in Seq(Keys \cup {Pass})
      BY <1>2
    <3> QED
      BY <1>4, <1>5, <3>1 DEF Msg, Messages, TypeOK
  <2>2. mapper' \in [to : Prompts \cup {None}, picks : Seq(Keys), acts : SUBSET Options]
    BY <1>1, <1>2, <1>4
  <2> QED
    BY <1>2, <1>3, <1>5, <1>6, <2>1, <2>2 DEF TypeOK, opp
<1>8. EngineInv'
  BY <1>0, <1>5, ChoosingOf, AskedOf DEF Inv, EngineInv
<1>9. ChoiceInv'
  BY <1>0, <1>1, <1>2, <1>4, <1>5, <1>6, ChoosingOf, AskedOf DEF ChoiceInv, Choosing, OnShow
<1>10. OpponentInv'
  BY <1>5 DEF OpponentInv
<1>11. CapInv'
  <2>1. ~timedOut
    BY DEF Inv, CapInv, Choosing, OnShow
  <2> QED
    BY <1>6, <2>1 DEF Inv, CapInv
<1> QED
  BY <1>7, <1>8, <1>9, <1>10, <1>11 DEF Inv

(* step() on a prompt, and the picks collapse_forced adds.                 *)
LEMMA ChoiceStep ==
  ASSUME TypeOK, Inv, \/ \E o \in mapper.acts : Step(o)
                      \/ StepInvalid \/ AutoPick \/ ForcedPick
  PROVE  TypeOK' /\ Inv'
<1>0. mapper.acts \subseteq Options
  BY DEF TypeOK
<1>1. ASSUME NEW o \in mapper.acts, Step(o) PROVE TypeOK' /\ Inv'
  <2>1. /\ Choosing /\ pc = "idle" /\ o \in Options /\ Record(o) /\ steps' = steps + 1
        /\ UNCHANGED <<collapse, duel, over, agent, oppSteps, timedOut, opp, due, board, failed>>
    BY <1>0, <1>1 DEF Step, Choosing, OnShow
  <2>2. CASE Completes(mapper.to, sel, o)
    <3>1. Send(mapper.to, sel, o) /\ sel' = <<>> /\ UNCHANGED <<cur, mapper>>
      BY <1>1, <2>2 DEF Step
    <3> QED
      BY <2>1, <2>2, <3>1, SendStep
  <2>3. CASE ~Completes(mapper.to, sel, o)
    <3>1. /\ Accumulate(o) /\ cur' = Msg(cur.to, sel')
          /\ Go(IF collapse THEN "auto" ELSE "idle") /\ UNCHANGED reply
      BY <1>1, <2>3 DEF Step
    <3> QED
      BY <2>1, <2>3, <3>1, PickStep
  <2> QED
    BY <2>2, <2>3
<1>2. CASE StepInvalid
  <2>1. /\ Choosing /\ pc = "idle" /\ steps' = steps + 1
        /\ UNCHANGED <<collapse, duel, over, agent, cur, mapper, oppSteps, timedOut, filter,
                       opp, due, board>>
    BY <1>2 DEF StepInvalid, Choosing, OnShow
  <2>2. PICK o \in mapper.acts :
          IF Completes(mapper.to, sel, o)
          THEN Send(mapper.to, sel, o) /\ sel' = <<>> /\ UNCHANGED failed
          ELSE failed < MaxFailed /\ failed' = failed + 1 /\ UNCHANGED <<reply, sel, caller>>
    BY <1>2 DEF StepInvalid
  <2>3. CASE Completes(mapper.to, sel, o)
    BY <2>1, <2>2, <2>3, SendStep
  <2>4. CASE ~Completes(mapper.to, sel, o)
    <3>1. /\ UNCHANGED <<reply, sel, pc, call, obs, armed>>
          /\ failed' = failed + 1 /\ failed' \in 0 .. MaxFailed
      BY <2>2, <2>4, DuelEnvAssumption DEF caller, TypeOK
    <3>2. /\ steps \in Nat /\ MaxSteps \in Nat /\ MaxPick \in Nat /\ Len(sel) \in Nat
          /\ failed \in Nat
      BY <2>1, ChoosingOf
    <3>3. TypeOK'
      BY <2>1, <3>1, <3>2 DEF TypeOK, filter, opp
    <3>4. ~timedOut
      BY <2>1 DEF Inv, CapInv, Choosing, OnShow
    <3>5. Inv'
      BY <2>1, <3>1, <3>2, <3>4
      DEF Inv, EngineInv, ChoiceInv, OpponentInv, CapInv, Choosing, OnShow
    <3> QED
      BY <3>3, <3>5
  <2> QED
    BY <2>3, <2>4
<1>3. CASE AutoPick
  <2> DEFINE o == Sole(mapper.acts)
  <2>1. /\ Choosing /\ pc = "auto" /\ collapse /\ obs = "prompt"
        /\ UNCHANGED <<collapse, duel, over, agent, steps, oppSteps, timedOut, filter, opp,
                       due, board, failed>>
    BY <1>3 DEF AutoPick, Choosing, Inv, EngineInv
  <2>2. o \in mapper.acts
    BY <2>1, ChoosingOf DEF Sole
  <2>3. CASE Cardinality(mapper.acts) # 1
    <3>1. pc' = "idle" /\ UNCHANGED <<call, obs, armed, cur, mapper, sel, reply>>
      BY <1>3, <2>3 DEF AutoPick, Go
    <3>2. TypeOK'
      BY <2>1, <3>1 DEF TypeOK, filter, opp
    <3>3. Cardinality(mapper.acts) > 1
      <4>1. IsFiniteSet(Shown(due, sel)) /\ mapper.acts \in SUBSET Shown(due, sel)
        BY <2>1, ChoosingOf, ShownOf
      <4>2. IsFiniteSet(mapper.acts)
        BY <4>1, FS_Subset
      <4>3. Cardinality(mapper.acts) \in Nat /\ Cardinality(mapper.acts) # 0
        BY <2>2, <4>2, FS_CardinalityType, FS_EmptySet
      <4> QED
        BY <2>3, <4>3
    <3>4. ~timedOut
      BY <2>1 DEF Inv, CapInv
    <3>5. Inv'
      BY <2>1, <3>1, <3>3, <3>4
      DEF Inv, EngineInv, ChoiceInv, OpponentInv, CapInv, Choosing, OnShow
    <3> QED
      BY <3>2, <3>5
  <2>4. CASE Cardinality(mapper.acts) = 1 /\ Completes(mapper.to, sel, o)
    <3>1. Send(mapper.to, sel, o) /\ sel' = <<>> /\ UNCHANGED <<cur, mapper>>
      BY <1>3, <2>4 DEF AutoPick
    <3> HIDE DEF o
    <3> QED
      BY <2>1, <2>2, <2>4, <3>1, SendStep
  <2>5. CASE Cardinality(mapper.acts) = 1 /\ ~Completes(mapper.to, sel, o)
    <3>1. Accumulate(o) /\ cur' = Msg(cur.to, sel') /\ UNCHANGED <<reply, caller>>
      BY <1>3, <2>5 DEF AutoPick
    <3> HIDE DEF o
    <3> QED
      BY <2>1, <2>2, <2>5, <3>1, PickStep
  <2> QED
    BY <2>3, <2>4, <2>5
<1>4. CASE ForcedPick
  <2> DEFINE o == Sole(mapper.acts)
  <2>1. /\ Choosing /\ pc = "force"
        /\ UNCHANGED <<collapse, duel, over, agent, cur, steps, oppSteps, timedOut, filter,
                       opp, due, board, failed>>
    BY <1>4 DEF ForcedPick, Choosing
  <2>2. o \in mapper.acts
    BY <2>1, ChoosingOf DEF Sole
  <2>3. CASE Completes(mapper.to, sel, o)
    <3>1. Send(mapper.to, sel, o) /\ sel' = <<>> /\ UNCHANGED mapper
      BY <1>4, <2>3 DEF ForcedPick
    <3> HIDE DEF o
    <3> QED
      BY <2>1, <2>2, <2>3, <3>1, SendStep
  <2>4. CASE ~Completes(mapper.to, sel, o)
    <3>1. Accumulate(o) /\ UNCHANGED <<reply, caller>>
      BY <1>4, <2>4 DEF ForcedPick
    <3> HIDE DEF o
    <3> QED
      BY <2>1, <2>2, <2>4, <3>1, PickStep
  <2> QED
    BY <2>3, <2>4
<1> QED
  BY <1>1, <1>2, <1>3, <1>4

(* The cap, the end of the duel and a refusing engine end the call.        *)
LEMMA EndStep ==
  ASSUME TypeOK, Inv, Timeout \/ DuelEnds \/ EngineStops
  PROVE  TypeOK' /\ Inv'
<1>0. MaxSteps \in Nat /\ MaxPick \in Nat \ {0} /\ <<>> \in Seq(Keys)
  BY DuelEnvAssumption
<1>1. /\ pc = "loop" /\ Terminal /\ duel = "open" /\ ~over /\ ~timedOut
      /\ UNCHANGED <<collapse, duel, agent, mapper, steps, oppSteps, opp, failed>>
  BY DEF Timeout, DuelEnds, EngineStops, Engine, Inv, EngineInv, CapInv
<1>2. /\ pc' = "idle" /\ obs' = "terminal" /\ call' \in {"none", "reset", "resetRec"}
      /\ armed' \in BOOLEAN /\ cur' = None /\ sel' = <<>>
  BY <1>1, ReturnType DEF Terminal
<1>3. seen' \in [Keys -> 0 .. SamplingStart] /\ hist' \in [Keys -> Seq(Boards)]
      /\ looping' \in SUBSET Keys
  BY FilterType DEF Timeout, DuelEnds, EngineStops, TurnMayPass
<1>4. /\ over' \in BOOLEAN /\ timedOut' \in BOOLEAN
      /\ timedOut' => AtCap /\ ~over'
      /\ (due' = due /\ reply' = reply) \/ (due' = None /\ reply' = None)
      /\ board' = board
  <2>1. timedOut \in BOOLEAN /\ over \in BOOLEAN
    BY DEF TypeOK
  <2>2. CASE Timeout
    BY <1>1, <2>1, <2>2 DEF Timeout, engine
  <2>3. CASE DuelEnds
    BY <1>1, <2>1, <2>3 DEF DuelEnds
  <2>4. CASE EngineStops
    BY <1>1, <2>1, <2>4 DEF EngineStops, engine
  <2> QED
    BY <2>2, <2>3, <2>4
<1>5. TypeOK'
  BY <1>0, <1>1, <1>2, <1>3, <1>4 DEF TypeOK, opp
<1>6. Inv'
  BY <1>0, <1>1, <1>2, <1>4
  DEF Inv, EngineInv, ChoiceInv, OpponentInv, CapInv, Choosing, OnShow, AtCap
<1> QED
  BY <1>5, <1>6

(* The engine asks the agent.                                              *)
LEMMA AskAgentStep ==
  ASSUME TypeOK, Inv, NEW q \in Questions, AskAgent(q)
  PROVE  TypeOK' /\ Inv'
<1> DEFINE p == Prompt(q, agent)
<1>0. /\ agent \in Seats /\ p \in Asked /\ p.seat = agent /\ p \in Prompts /\ p # None
      /\ MaxSteps \in Nat /\ MaxPick \in Nat \ {0} /\ steps \in Nat /\ oppSteps \in Nat
      /\ MaxFailed \in Nat /\ failed \in 0 .. MaxFailed /\ 0 \in 0 .. MaxFailed
  <2>1. agent \in Seats /\ p \in Asked /\ p.seat = agent
    BY DEF TypeOK, Asked, Prompt
  <2> QED
    BY <2>1, AskedOf, DuelEnvAssumption DEF TypeOK
<1>1. /\ pc = "loop" /\ ~AtCap /\ duel = "open" /\ ~over /\ ~timedOut
      /\ due' = p /\ reply' = None /\ board' \in Boards
      /\ cur' = Msg(p, <<>>) /\ sel' = <<>>
      /\ mapper' = [to |-> p, picks |-> <<>>, acts |-> Filtered(p, looping')]
      /\ failed' = 0
      /\ UNCHANGED <<collapse, duel, over, agent, steps, oppSteps, timedOut, opp>>
  BY DEF AskAgent, Asks, Engine, Inv, EngineInv, CapInv
<1> HIDE DEF p
<1>2. seen' \in [Keys -> 0 .. SamplingStart] /\ hist' \in [Keys -> Seq(Boards)]
      /\ looping' \in SUBSET Keys
  BY FilterType DEF AskAgent, Asks, TurnMayPass
<1>3. Partial(p, <<>>) /\ <<>> \in Seq(Keys) /\ Len(<<>>) = 0
  BY <1>0, NoPicks
<1>4. mapper'.acts \subseteq Shown(p, <<>>) /\ mapper'.acts \subseteq Options
      /\ IsFiniteSet(mapper'.acts)
  <2>1. mapper'.acts \in SUBSET Shown(p, <<>>)
    BY <1>1 DEF Filtered, Shown
  <2> QED
    BY <1>0, <1>3, <2>1, ShownOf, FS_Subset
<1>5. /\ call' \in {"none", "reset", "resetRec"} /\ armed' \in BOOLEAN
      /\ obs' \in {None, "prompt", "terminal", "raised"}
      /\ \/ pc' = "idle" /\ obs' = "raised"
         \/ pc' = "force" /\ mapper'.acts # {}
         \/ /\ pc' = "idle" /\ obs' = "prompt" /\ mapper'.acts # {}
            /\ ~(collapse /\ Cardinality(mapper'.acts) = 1)
  BY ReturnType DEF AskAgent, TypeOK
<1>6. TypeOK'
  <2>1. cur' \in Messages
    <3>1. <<>> \in Seq(Keys \cup {Pass})
      OBVIOUS
    <3> QED
      BY <1>0, <1>1, <3>1 DEF Msg, Messages
  <2>2. mapper' \in [to : Prompts \cup {None}, picks : Seq(Keys), acts : SUBSET Options]
    BY <1>0, <1>1, <1>3, <1>4
  <2>3. pc' \in {"idle", "auto", "loop", "force", "opp"}
    BY <1>5
  <2> QED
    BY <1>0, <1>1, <1>2, <1>3, <1>5, <2>1, <2>2, <2>3 DEF TypeOK, opp
<1>7. EngineInv'
  BY <1>0, <1>1, <1>5 DEF EngineInv
<1>8. ChoiceInv'
  <2>1. pc' = "idle" /\ obs' = "prompt" /\ collapse => Cardinality(mapper'.acts) > 1
    <3> SUFFICES ASSUME pc' = "idle", obs' = "prompt", collapse
                 PROVE  Cardinality(mapper'.acts) > 1
      OBVIOUS
    <3>1. Cardinality(mapper'.acts) \in Nat /\ Cardinality(mapper'.acts) # 0
      BY <1>4, <1>5, FS_CardinalityType, FS_EmptySet
    <3> QED
      BY <1>5, <3>1
  <2>2. steps' < MaxSteps + Len(sel') + failed'
    BY <1>0, <1>1, <1>3 DEF AtCap
  <2>3. mapper'.to = p /\ mapper'.picks = <<>>
    BY <1>1
  <2> QED
    BY <1>0, <1>1, <1>3, <1>4, <1>5, <2>1, <2>2, <2>3 DEF ChoiceInv, Choosing, OnShow
<1>9. OpponentInv' /\ CapInv'
  BY <1>0, <1>1, <1>5 DEF Inv, OpponentInv, CapInv, AtCap
<1> QED
  BY <1>6, <1>7, <1>8, <1>9 DEF Inv

(* The engine asks the opponent.                                           *)
LEMMA AskOpponentStep ==
  ASSUME TypeOK, Inv, NEW q \in Questions, AskOpponent(q)
  PROVE  TypeOK' /\ Inv'
<1> DEFINE p == Prompt(q, 1 - agent)
<1>0. /\ p \in Asked /\ p \in Prompts /\ p # None
      /\ MaxSteps \in Nat /\ MaxPick \in Nat \ {0} /\ steps \in Nat /\ oppSteps \in Nat
      /\ MaxFailed \in Nat /\ failed \in 0 .. MaxFailed /\ 0 \in 0 .. MaxFailed
  <2>1. 1 - agent \in Seats
    BY DEF TypeOK, Seats
  <2>2. p \in Asked
    BY <2>1 DEF Asked
  <2> QED
    BY <2>2, AskedOf, DuelEnvAssumption DEF TypeOK
<1>1. /\ pc = "loop" /\ ~AtCap /\ duel = "open" /\ ~over /\ ~timedOut
      /\ due' = p /\ reply' = None /\ board' \in Boards
      /\ UNCHANGED <<collapse, duel, over, agent, mapper, steps, oppSteps, timedOut, failed>>
  BY DEF AskOpponent, Asks, Engine, Inv, EngineInv, CapInv
<1>2. seen' \in [Keys -> 0 .. SamplingStart] /\ hist' \in [Keys -> Seq(Boards)]
      /\ looping' \in SUBSET Keys
  BY FilterType DEF AskOpponent, Asks, TurnMayPass
<1>3. Partial(p, <<>>) /\ <<>> \in Seq(Keys) /\ Len(<<>>) = 0
  BY <1>0, NoPicks
<1>4. \/ /\ Terminal /\ UNCHANGED opp
      \/ Go("opp") /\ osel' = <<>> /\ ofirst' = None /\ UNCHANGED <<cur, sel>>
  BY DEF AskOpponent
<1> HIDE DEF p
<1>5. /\ call' \in {"none", "reset", "resetRec"} /\ armed' \in BOOLEAN
      /\ obs' \in {None, "prompt", "terminal", "raised"}
      /\ \/ pc' = "idle" /\ obs' = "terminal" /\ cur' = None /\ sel' = <<>> /\ UNCHANGED opp
         \/ pc' = "opp" /\ osel' = <<>> /\ ofirst' = None /\ UNCHANGED <<cur, sel>>
  BY <1>4, ReturnType DEF Terminal, TypeOK
<1>6. TypeOK'
  BY <1>0, <1>1, <1>2, <1>3, <1>5 DEF TypeOK, opp
<1>7. EngineInv'
  BY <1>0, <1>1, <1>5 DEF EngineInv
<1>8. ChoiceInv'
  BY <1>5 DEF ChoiceInv, Choosing, OnShow
<1>9. OpponentInv' /\ CapInv'
  BY <1>0, <1>1, <1>3, <1>5 DEF Inv, OpponentInv, CapInv, AtCap
<1> QED
  BY <1>6, <1>7, <1>8, <1>9 DEF Inv

(* The opponent picks, or answers.                                         *)
LEMMA OpponentStep ==
  ASSUME TypeOK, Inv, NEW o \in Keys \cup {Pass, Finish}, OpponentPicks(o)
  PROVE  TypeOK' /\ Inv'
<1>0. /\ due \in Asked /\ due \in Prompts /\ due # None /\ reply = None
      /\ osel \in Seq(Keys) /\ Partial(due, osel) /\ Len(osel) \in Nat /\ Len(osel) < MaxPick
      /\ pc = "opp" /\ duel = "open" /\ ~over /\ ~timedOut
      /\ oppSteps < MaxSteps + Len(osel)
      /\ MaxSteps \in Nat /\ MaxPick \in Nat \ {0} /\ steps \in Nat /\ oppSteps \in Nat
      /\ MaxFailed \in Nat /\ failed \in 0 .. MaxFailed /\ 0 \in 0 .. MaxFailed
  <2>1. /\ due \in Asked /\ reply = None /\ osel \in Seq(Keys) /\ Partial(due, osel)
        /\ pc = "opp" /\ duel = "open" /\ ~over /\ ~timedOut
        /\ oppSteps < MaxSteps + Len(osel)
    BY DEF OpponentPicks, Inv, EngineInv, OpponentInv, CapInv, TypeOK
  <2>2. Len(osel) \in Nat /\ Len(osel) < MaxPick
    BY <2>1, AskedOf DEF Partial
  <2> QED
    BY <2>1, <2>2, AskedOf, DuelEnvAssumption DEF TypeOK
<1>1. /\ oppSteps' = oppSteps \/ oppSteps' = oppSteps + 1
      /\ UNCHANGED <<collapse, duel, over, agent, cur, mapper, sel, steps, timedOut, due,
                     board, failed>>
  BY DEF OpponentPicks
<1>2. o \in Shown(due, osel) /\ o \in Options
  <2>1. osel = <<>> => Filtered(due, looping) \subseteq Shown(due, osel)
    BY DEF Filtered, Shown
  <2> QED
    BY <2>1 DEF OpponentPicks, OpponentActs, Options
<1> DEFINE first == IF ofirst = None THEN o ELSE ofirst
<1>3. first \in Options
  BY <1>2 DEF TypeOK
<1>4. oppSteps' \in Nat /\ oppSteps' < MaxSteps + Len(osel) + 1
  BY <1>0, <1>1
<1>5. CASE Completes(due, osel, o)
  <2>1. /\ Record(first) /\ Send(due, osel, o) /\ osel' = <<>> /\ ofirst' = None
    BY <1>5 DEF OpponentPicks
  <2>2. reply' = Msg(due, Picked(osel, o)) /\ pc' = "loop" /\ UNCHANGED <<call, obs, armed>>
    BY <2>1 DEF Send, Go
  <2>3. Legal(reply', due') /\ reply' \in Messages
    BY <1>0, <1>1, <1>2, <1>5, <2>2, AnswerLegal
  <2> HIDE DEF first
  <2>4. seen' \in [Keys -> 0 .. SamplingStart] /\ hist' \in [Keys -> Seq(Boards)]
        /\ looping' \in SUBSET Keys
    BY <1>3, <2>1, FilterType
  <2>5. TypeOK'
    BY <1>1, <1>4, <2>1, <2>2, <2>3, <2>4 DEF TypeOK
  <2>6. Inv'
    BY <1>0, <1>1, <1>4, <2>2, <2>3
    DEF Inv, EngineInv, ChoiceInv, OpponentInv, CapInv, Choosing, OnShow
  <2> QED
    BY <2>5, <2>6
<1>6. CASE ~Completes(due, osel, o)
  <2>1. /\ osel' = Append(osel, o) /\ ofirst' = first
        /\ UNCHANGED <<seen, hist, looping, reply, pc, call, obs, armed>>
    BY <1>6 DEF OpponentPicks, filter, caller
  <2>2. Partial(due, osel') /\ osel' \in Seq(Keys) /\ Len(osel') = Len(osel) + 1
    BY <1>0, <1>2, <1>6, <2>1, PickPartial
  <2> HIDE DEF first
  <2>3. TypeOK'
    BY <1>1, <1>3, <1>4, <2>1, <2>2 DEF TypeOK
  <2>4. Inv'
    BY <1>0, <1>1, <1>4, <2>1, <2>2
    DEF Inv, EngineInv, ChoiceInv, OpponentInv, CapInv, Choosing, OnShow
  <2> QED
    BY <2>3, <2>4
<1> QED
  BY <1>5, <1>6

(* Every step keeps both.                                                  *)
LEMMA EnvStep == TypeOK /\ Inv /\ [Next]_vars => TypeOK' /\ Inv'
<1> SUFFICES ASSUME TypeOK, Inv, [Next]_vars PROVE TypeOK' /\ Inv'
  OBVIOUS
<1>1. CASE Calls
  BY <1>1, ResetStep, ChoiceStep DEF Calls
<1>2. CASE Serve
  BY <1>2, ChoiceStep, EndStep, AskAgentStep, AskOpponentStep, OpponentStep DEF Serve
<1>3. CASE UNCHANGED vars
  BY <1>3
  DEF vars, env, filter, opp, engine, caller, TypeOK, Inv, EngineInv, ChoiceInv,
      OpponentInv, CapInv, Choosing, OnShow, AtCap
<1> QED
  BY <1>1, <1>2, <1>3 DEF Next

-----------------------------------------------------------------------------
(* The theorems.                                                           *)

(* Every variable has its type.                                            *)
THEOREM TypeCorrect == Spec => []TypeOK
<1> QED
  BY EnvInit, EnvStep, PTL DEF Spec

(* The inductive invariant holds: whose turn it is, what each of the       *)
(* engine, mapper and environment holds of the prompt, and the counters.   *)
THEOREM InvCorrect == Spec => []Inv
<1> QED
  BY EnvInit, EnvStep, PTL DEF Spec

(* What the caller is shown is what the engine asks (step and reset of     *)
(* YuGiOhEnvironment): the prompt is the agent's and still waits for an    *)
(* answer, the mapper and _card_sel agree on the picks made so far, and    *)
(* there is something to do, under collapse_forced a real choice.          *)
THEOREM PromptIsAlwaysLive == Spec => []PromptIsLive
<1>1. Inv => PromptIsLive
  BY DEF Inv, ChoiceInv, Choosing, OnShow, PromptIsLive
<1> QED
  BY <1>1, InvCorrect, PTL

(* No response the environment sends is refused: whoever picked, whatever  *)
(* was filtered, collapsed or replaced by a fallback, it answers the       *)
(* prompt the engine waits on (ActionMapper, _process_to_agent_choice).    *)
THEOREM RepliesAreAlwaysLegal == Spec => []RepliesAreLegal
<1>1. Inv => RepliesAreLegal
  BY DEF Inv, EngineInv, RepliesAreLegal
<1> QED
  BY <1>1, InvCorrect, PTL

(* Neither side ever makes more than max_steps choices, but for the        *)
(* selection in progress when the cap is reached, whose picks and, for the *)
(* agent, failed calls are counted, however many they are; and an episode  *)
(* the cap ended is not also one the duel ended (_timed_out).              *)
THEOREM CapAlwaysHolds == Spec => []CapHolds
<1>1. Inv => CapHolds
  BY DEF Inv, CapInv, CapHolds
<1> QED
  BY <1>1, InvCorrect, PTL
=============================================================================
