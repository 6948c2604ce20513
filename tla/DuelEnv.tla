------------------------------- MODULE DuelEnv -------------------------------
(***************************************************************************)
(* YuGiOhEnvironment (env/server/environment.py): one duel, the agent's    *)
(* seat played by the caller of step(), the other by the configured        *)
(* Opponent, and between them the engine, of which all that is known is    *)
(* what process_until_choice (env/duel.py) can hand back.  The             *)
(* ActionLoopFilter (env/action_loop_filter.py) hides actions from both    *)
(* seats; the HTTP handlers (env/server/web_api.py) keep one flag beside   *)
(* the environment.  TrainingEnv sets collapse_forced, the web UI does not.*)
(*                                                                         *)
(* A prompt is what the properties tell apart of it: whose it is, the      *)
(* actions or cards it offers, and how many picks complete it.  An action  *)
(* of a "top" prompt (IDLECMD, BATTLECMD, CHAIN) answers by itself; a      *)
(* "pick" prompt (a CARD, TRIBUTE, SORT, ANNOUNCE) is answered by the      *)
(* picks accumulated over several steps.  An action or a card is its       *)
(* action_key in the loop filter, which both kinds of prompt share; the    *)
(* state fingerprint is the board.  A call is served to its end before the *)
(* next one starts.                                                        *)
(***************************************************************************)
EXTENDS Integers, FiniteSets, SequencesExt

CONSTANTS
  None,           (* None                                                  *)
  Keys,           (* action keys with a card code                          *)
  Boards,         (* game-state fingerprints                               *)
  Questions,      (* what the engine may ask, whoever it asks              *)
  MaxPick,        (* bound: the largest max of a question                  *)
  MaxSteps,       (* config max_steps, here > 0: the cap is on             *)
  MaxFailed,      (* bound: calls of step() that fail on one prompt        *)
  Collapses,      (* the values config collapse_forced may take here       *)
  SamplingStart,  (* SAMPLING_START                                        *)
  FpHistoryMax    (* _FP_HISTORY_MAX                                       *)

Pass   == "pass"    (* the code-0 action of a top prompt: decline, phase   *)
Finish == "finish"  (* finish_pick                                         *)

Seats == {0, 1}

Prompts == [seat : Seats, kind : {"top", "pick"}, items : SUBSET (Keys \cup {Pass}),
            min : Nat, max : Nat]

ASSUME DuelEnvAssumption ==
  /\ Pass \notin Keys /\ Finish \notin Keys
  /\ Boards # {}
  /\ None \notin Prompts /\ None # "prompt"
  (* Never more picks than there are items to make them from; max may      *)
  (* exceed that (a tribute worth two).                                    *)
  /\ \A q \in Questions :
       /\ q.kind \in {"top", "pick"} /\ q.items # {} /\ IsFiniteSet(q.items)
       /\ q.items \subseteq IF q.kind = "top" THEN Keys \cup {Pass} ELSE Keys
       /\ q.min \in 1 .. MaxPick /\ q.max \in q.min .. MaxPick
       /\ q.min <= Cardinality(q.items)
  /\ MaxPick \in Nat \ {0} /\ MaxSteps \in Nat \ {0} /\ MaxFailed \in Nat
  /\ Collapses \subseteq BOOLEAN
  /\ SamplingStart \in Nat \ {0} /\ FpHistoryMax \in Nat \ {0}

VARIABLES
  collapse,  (* _collapse_forced                                           *)
  (* The environment. *)
  duel,      (* _duel: "none", "open", or "void", a Duel with no handle    *)
  over,      (* _duel.is_finished                                          *)
  agent,     (* _agent_player                                              *)
  cur,       (* _current_msg, with its _selected                           *)
  mapper,    (* _mapper: message, _selected, actions offered               *)
  sel,       (* _card_sel                                                  *)
  steps,     (* _step_count                                                *)
  oppSteps,  (* _opp_step_count                                            *)
  timedOut,  (* _timed_out                                                 *)
  (* The loop filter. *)
  seen,      (* _seen, counted up to SamplingStart                         *)
  hist,      (* _fp_history                                                *)
  looping,   (* _looping_keys                                              *)
  (* Locals of _process_to_agent_choice. *)
  osel,      (* opp_sel                                                    *)
  ofirst,    (* opp_selected_action                                        *)
  (* The engine. *)
  due,       (* the prompt it waits on                                     *)
  reply,     (* the response it has been given                             *)
  board,     (* the fingerprint of its state                               *)
  (* The call being served, and what its callers keep. *)
  pc,        (* "idle" between calls, else where the call is               *)
  call,      (* a reset: "reset", "resetRec" (recommend: true)             *)
  obs,       (* what the last call returned                                *)
  armed,     (* app.state.recommend_enabled                                *)
  failed     (* history: calls that failed on the agent's latest prompt    *)

env    == <<duel, over, agent, cur, mapper, sel, steps, oppSteps, timedOut>>
filter == <<seen, hist, looping>>
opp    == <<osel, ofirst>>
engine == <<due, reply, board>>
caller == <<pc, call, obs, armed>>
vars   == <<collapse, env, filter, opp, engine, caller, failed>>

Msg(p, s) == [to |-> p, picks |-> s]

(* The options a prompt leaves after picks s (_extract_multi_step_actions):*)
(* the items not yet picked, and finish_pick once the minimum is reached.  *)
Shown(p, s) ==
  IF p.kind = "top" THEN p.items
  ELSE (p.items \ ToSet(s)) \cup {o \in {Finish} : p.min < p.max /\ Len(s) >= p.min}

(* Mutant: one pick too many.                                              *)
CompletesLate(p, s, o) == p.kind = "top" \/ o = Finish \/ Len(s) + 1 > p.max

(* The mapper has a response for o; otherwise o is one more pick.          *)
Completes(p, s, o) == p.kind = "top" \/ o = Finish \/ Len(s) + 1 >= p.max

(* Mutant: finish_pick is sent as a pick.                                  *)
PickedFinish(s, o) == Append(s, o)

(* The picks an option answers with.                                       *)
Picked(s, o) == IF o = Finish THEN s ELSE Append(s, o)

Map(p, s) == [to |-> p, picks |-> s, acts |-> Shown(p, s)]

(* _apply_loop_filter: only top prompts, and never a code-0 action.        *)
Filtered(p, L) == IF p.kind = "top" THEN p.items \ L ELSE Shown(p, <<>>)

Sole(S) == CHOOSE o \in S : TRUE

(* Mutant: min() instead of max().                                         *)
AtCapBoth == steps >= MaxSteps /\ oppSteps >= MaxSteps

AtCap == steps >= MaxSteps \/ oppSteps >= MaxSteps

Init ==
  /\ collapse \in Collapses
  /\ duel = "none" /\ over = FALSE /\ agent = 0
  /\ cur = None /\ mapper = [to |-> None, picks |-> <<>>, acts |-> {}] /\ sel = <<>>
  /\ steps = 0 /\ oppSteps = 0 /\ timedOut = FALSE
  /\ seen = [k \in Keys |-> 0] /\ hist = [k \in Keys |-> <<>>] /\ looping = {}
  /\ osel = <<>> /\ ofirst = None
  /\ due = None /\ reply = None /\ board \in Boards
  /\ pc = "idle" /\ call = "none" /\ obs = None /\ armed = FALSE
  /\ failed = 0

-----------------------------------------------------------------------------
(* The loop filter.                                                        *)

(* record_selection: from the SamplingStart-th selection of a key on, a    *)
(* board seen at an earlier one marks the key as looping, a new one clears *)
(* the mark.                                                               *)
Record(k) ==
  IF k \notin Keys THEN UNCHANGED filter
  ELSE /\ seen' = [seen EXCEPT ![k] = IF @ < SamplingStart THEN @ + 1 ELSE @]
       /\ IF seen[k] + 1 < SamplingStart
          THEN UNCHANGED <<hist, looping>>
          ELSE /\ looping' = IF Contains(hist[k], board) THEN looping \cup {k}
                                                         ELSE looping \ {k}
               /\ hist' = [hist EXCEPT ![k] =
                             IF Len(@) < FpHistoryMax THEN Append(@, board)
                                                      ELSE Append(Tail(@), board)]

FilterReset ==
  /\ seen' = [k \in Keys |-> 0] /\ hist' = [k \in Keys |-> <<>>] /\ looping' = {}

-----------------------------------------------------------------------------
(* How a call returns.  reset_duel arms the recommender, or disarms it,    *)
(* once the reset has succeeded.                                           *)
Return(o) ==
  /\ pc' = "idle" /\ call' = "none" /\ obs' = o
  /\ armed' = IF o = "raised" THEN armed
              ELSE CASE call = "resetRec" -> TRUE [] call = "reset" -> FALSE
                     [] OTHER -> armed

Terminal == cur' = None /\ sel' = <<>> /\ Return("terminal")

Go(where) == pc' = where /\ UNCHANGED <<call, obs, armed>>

(* send_response, and back to the top of _process_to_agent_choice.         *)
Send(p, s, o) ==
  /\ reply' = Msg(p, Picked(s, o))
  /\ Go("loop")

-----------------------------------------------------------------------------
(* reset() and step().                                                     *)

(* What reset() clears before it can fail.                                 *)
Cleared(s) ==
  /\ agent' = s /\ steps' = 0 /\ oppSteps' = 0 /\ timedOut' = FALSE /\ failed' = 0
  /\ FilterReset

Reset(s, c) ==
  /\ pc = "idle" /\ (c = "resetRec" => ~collapse)
  /\ Cleared(s)
  /\ duel' = "open" /\ over' = FALSE
  /\ due' = None /\ reply' = None /\ board' \in Boards
  /\ pc' = "loop" /\ call' = c /\ obs' = None
  /\ UNCHANGED <<collapse, cur, mapper, sel, opp, armed>>

(* An invalid deck or puzzle: the previous duel is destroyed by then.  A   *)
(* bad deck leaves the old Duel object, a bad puzzle a new one.            *)
ResetRejected(s) ==
  /\ pc = "idle"
  /\ Cleared(s)
  /\ \/ duel' = (IF duel = "none" THEN "none" ELSE "void") /\ UNCHANGED over
     \/ duel' = "void" /\ over' = FALSE
  /\ due' = None /\ reply' = None /\ obs' = "raised"
  /\ UNCHANGED <<collapse, cur, mapper, sel, opp, board, pc, call, armed>>

(* step() before the first reset and after the end of the duel.            *)
StepEnded ==
  /\ pc = "idle" /\ (duel = "none" \/ over)
  /\ Terminal
  /\ UNCHANGED <<collapse, duel, over, agent, mapper, steps, oppSteps, timedOut,
                 filter, opp, engine, failed>>

(* Mutant: the mapper keeps offering the card just picked.                 *)
AccumulateSameMapper(o) ==
  /\ sel' = Append(sel, o)
  /\ mapper' = [mapper EXCEPT !.picks = sel']

(* One more pick: narrow the prompt shown.                                 *)
Accumulate(o) ==
  /\ sel' = Append(sel, o)
  /\ mapper' = Map(mapper.to, sel')

(* Mutant: _current_msg is not updated along with the mapper.              *)
StepStaleMsg(o) ==
  /\ pc = "idle" /\ obs = "prompt" /\ o \in mapper.acts
  /\ steps' = steps + 1
  /\ Record(o)
  /\ IF Completes(mapper.to, sel, o)
     THEN Send(mapper.to, sel, o) /\ sel' = <<>> /\ UNCHANGED <<cur, mapper>>
     ELSE /\ Accumulate(o) /\ UNCHANGED cur
          /\ Go(IF collapse THEN "auto" ELSE "idle") /\ UNCHANGED reply
  /\ UNCHANGED <<collapse, duel, over, agent, oppSteps, timedOut, opp, due, board, failed>>

(* step() with a legal action, on a prompt: record it, then either answer  *)
(* the engine or narrow the prompt.                                        *)
Step(o) ==
  /\ pc = "idle" /\ obs = "prompt" /\ o \in mapper.acts
  /\ steps' = steps + 1
  /\ Record(o)
  /\ IF Completes(mapper.to, sel, o)
     THEN Send(mapper.to, sel, o) /\ sel' = <<>> /\ UNCHANGED <<cur, mapper>>
     ELSE /\ Accumulate(o) /\ cur' = Msg(cur.to, sel')
          /\ Go(IF collapse THEN "auto" ELSE "idle") /\ UNCHANGED reply
  /\ UNCHANGED <<collapse, duel, over, agent, oppSteps, timedOut, opp, due, board, failed>>

(* step() with an index out of range: the first action is used instead,    *)
(* unless that is a pick, for which get_action_index raises once more: the *)
(* call has been counted by then, below the cap or past it.                *)
StepInvalid ==
  /\ pc = "idle" /\ obs = "prompt"
  /\ steps' = steps + 1
  /\ \E o \in mapper.acts :
       IF Completes(mapper.to, sel, o)
       THEN Send(mapper.to, sel, o) /\ sel' = <<>> /\ UNCHANGED failed
       ELSE failed < MaxFailed /\ failed' = failed + 1 /\ UNCHANGED <<reply, sel, caller>>
  /\ UNCHANGED <<collapse, duel, over, agent, cur, mapper, oppSteps, timedOut, filter,
                 opp, due, board>>

(* collapse_forced after a pick: go on while a single option is left.      *)
AutoPick ==
  /\ pc = "auto"
  /\ LET o == Sole(mapper.acts)
     IN  IF Cardinality(mapper.acts) # 1
         THEN Go("idle") /\ UNCHANGED <<cur, mapper, sel, reply>>
         ELSE IF Completes(mapper.to, sel, o)
              THEN Send(mapper.to, sel, o) /\ sel' = <<>> /\ UNCHANGED <<cur, mapper>>
              ELSE Accumulate(o) /\ cur' = Msg(cur.to, sel') /\ UNCHANGED <<reply, caller>>
  /\ UNCHANGED <<collapse, duel, over, agent, steps, oppSteps, timedOut, filter, opp,
                 due, board, failed>>

-----------------------------------------------------------------------------
(* _process_to_agent_choice.                                               *)

(* The cap is tested before the engine runs on.                            *)
Timeout ==
  /\ pc = "loop" /\ AtCap
  /\ timedOut' = TRUE
  /\ Terminal
  /\ UNCHANGED <<collapse, duel, over, agent, mapper, steps, oppSteps, filter, opp,
                 engine, failed>>

(* What the engine does with the response it was given.                    *)
Legal(r, p) ==
  /\ r.to = p
  /\ IF p.kind = "top" THEN Len(r.picks) = 1 /\ r.picks[1] \in p.items
     ELSE /\ IsInjective(r.picks) /\ ToSet(r.picks) \subseteq p.items
          /\ Len(r.picks) \in p.min .. p.max
Accepts == due = None \/ (reply # None /\ Legal(reply, due))

Engine == pc = "loop" /\ ~AtCap

(* MSG_NEW_TURN, on the way to what the engine hands back, resets the      *)
(* filter.                                                                 *)
TurnMayPass == FilterReset \/ UNCHANGED filter

(* MSG_WIN or STATUS_END; who has won is left out.                         *)
DuelEnds ==
  /\ Engine /\ Accepts
  /\ over' = TRUE
  /\ Terminal /\ TurnMayPass
  /\ due' = None /\ reply' = None
  /\ UNCHANGED <<collapse, duel, agent, mapper, steps, oppSteps, timedOut, opp, board,
                 failed>>

(* MSG_RETRY, which an illegal response gets, or AWAITING with no prompt   *)
(* the parser knows: terminal for the caller, though the duel is not over. *)
EngineStops ==
  /\ Engine
  /\ Terminal /\ TurnMayPass
  /\ UNCHANGED <<collapse, duel, over, agent, mapper, steps, oppSteps, timedOut, opp, engine,
                 failed>>

Prompt(q, seat) == [seat |-> seat, kind |-> q.kind, items |-> q.items,
                    min |-> q.min, max |-> q.max]

(* The engine's next prompt.                                               *)
Asks(p) ==
  /\ Engine /\ Accepts
  /\ due' = p /\ reply' = None /\ board' \in Boards
  /\ TurnMayPass

(* A prompt of the agent's: shown, collapsed when it leaves one option, or *)
(* RuntimeError when the filter has left none.                             *)
AskAgent(q) == LET p == Prompt(q, agent) IN
  /\ Asks(p)
  /\ cur' = Msg(p, <<>>) /\ sel' = <<>>
  /\ mapper' = [to |-> p, picks |-> <<>>, acts |-> Filtered(p, looping')]
  /\ failed' = 0
  /\ IF mapper'.acts = {} THEN Return("raised")
     ELSE IF collapse /\ Cardinality(mapper'.acts) = 1 THEN Go("force")
     ELSE Return("prompt")
  /\ UNCHANGED <<collapse, duel, over, agent, steps, oppSteps, timedOut, opp>>

(* collapse_forced on a fresh prompt: answer it, pick by pick, while it    *)
(* leaves one option.  Picking never adds options, so it always gets       *)
(* answered and _current_msg, which keeps the whole prompt, is not read.   *)
ForcedPick ==
  /\ pc = "force" /\ Cardinality(mapper.acts) = 1
  /\ LET o == Sole(mapper.acts)
     IN  IF Completes(mapper.to, sel, o)
         THEN Send(mapper.to, sel, o) /\ sel' = <<>> /\ UNCHANGED mapper
         ELSE Accumulate(o) /\ UNCHANGED <<reply, caller>>
  /\ UNCHANGED <<collapse, duel, over, agent, cur, steps, oppSteps, timedOut, filter,
                 opp, due, board, failed>>

(* A prompt of the opponent's; one the filter has emptied ends the call.   *)
AskOpponent(q) == LET p == Prompt(q, 1 - agent) IN
  /\ Asks(p)
  /\ IF Filtered(p, looping') = {}
     THEN Terminal /\ UNCHANGED opp
     ELSE Go("opp") /\ osel' = <<>> /\ ofirst' = None /\ UNCHANGED <<cur, sel>>
  /\ UNCHANGED <<collapse, duel, over, agent, mapper, steps, oppSteps, timedOut, failed>>

OpponentActs == IF osel = <<>> THEN Filtered(due, looping) ELSE Shown(due, osel)

(* The opponent's action or pick: a step of its own when there is a choice.*)
(* The first one is recorded, at the board it answers from.                *)
OpponentPicks(o) ==
  /\ pc = "opp" /\ o \in OpponentActs
  /\ oppSteps' = IF Cardinality(OpponentActs) > 1 THEN oppSteps + 1 ELSE oppSteps
  /\ LET first == IF ofirst = None THEN o ELSE ofirst IN
     IF Completes(due, osel, o)
     THEN Record(first) /\ Send(due, osel, o) /\ osel' = <<>> /\ ofirst' = None
     ELSE osel' = Append(osel, o) /\ ofirst' = first /\ UNCHANGED <<filter, reply, caller>>
  /\ UNCHANGED <<collapse, duel, over, agent, cur, mapper, sel, steps, timedOut, due,
                 board, failed>>

-----------------------------------------------------------------------------
Calls ==
  \/ \E s \in Seats, c \in {"reset", "resetRec"} : Reset(s, c)
  \/ \E s \in Seats : ResetRejected(s)
  \/ StepEnded
  \/ \E o \in mapper.acts : Step(o)
  \/ StepInvalid

Serve ==
  \/ AutoPick \/ Timeout \/ DuelEnds \/ EngineStops \/ ForcedPick
  \/ \E q \in Questions : AskAgent(q) \/ AskOpponent(q)
  \/ \E o \in Keys \cup {Pass, Finish} : OpponentPicks(o)

Next == Calls \/ Serve

Spec == Init /\ [][Next]_vars

(* A caller shown a prompt answers it, and the call goes on (rollouts and  *)
(* matches step until done); nobody is obliged to reset.                   *)
FairSpec == Spec /\ WF_vars(AutoPick \/ \E o \in mapper.acts : Step(o))

(* A call, once made, runs on until it returns.                            *)
ServeSpec == Spec /\ WF_vars(Serve)

-----------------------------------------------------------------------------
(* Properties.                                                             *)

Messages == [to : Prompts, picks : Seq(Keys \cup {Pass})]
Options  == Keys \cup {Pass, Finish}

TypeOK ==
  /\ collapse \in BOOLEAN
  /\ duel \in {"none", "open", "void"} /\ over \in BOOLEAN
  /\ agent \in Seats
  /\ cur \in Messages \cup {None}
  /\ mapper \in [to : Prompts \cup {None}, picks : Seq(Keys), acts : SUBSET Options]
  /\ sel \in Seq(Keys) /\ osel \in Seq(Keys) /\ ofirst \in Options \cup {None}
  /\ steps \in Nat /\ oppSteps \in Nat /\ timedOut \in BOOLEAN
  /\ seen \in [Keys -> 0 .. SamplingStart] /\ hist \in [Keys -> Seq(Boards)]
  /\ looping \in SUBSET Keys
  /\ due \in Prompts \cup {None} /\ reply \in Messages \cup {None} /\ board \in Boards
  /\ pc \in {"idle", "auto", "loop", "force", "opp"}
  /\ call \in {"none", "reset", "resetRec"}
  /\ obs \in {None, "prompt", "terminal", "raised"} /\ armed \in BOOLEAN
  /\ failed \in 0 .. MaxFailed

OnShow == pc = "idle" /\ obs = "prompt"

(* What the caller is shown is what the engine asks: whenever step() or    *)
(* reset() returns a prompt, the duel is open and running, the engine      *)
(* waits on that prompt and it is the agent's, current_msg, the mapper and *)
(* _card_sel agree on the picks made so far, and there is something to do: *)
(* under collapse_forced a real choice.                                    *)
PromptIsLive ==
  OnShow =>
    /\ duel = "open" /\ ~over /\ reply = None
    /\ due # None /\ due.seat = agent
    /\ cur = Msg(due, sel) /\ mapper.to = due /\ mapper.picks = sel
    /\ mapper.acts # {} /\ mapper.acts \subseteq Shown(due, sel)
    /\ collapse => Cardinality(mapper.acts) > 1

(* No response the environment sends is refused: whoever picked, whatever  *)
(* was filtered, collapsed or replaced by a fallback, it answers the       *)
(* prompt the engine waits on, with no card twice and as many as it wants. *)
RepliesAreLegal == reply # None => Legal(reply, due)

(* The per-player cap: neither side ever makes more than max_steps choices,*)
(* but for the selection in progress when it is reached, whose picks and,  *)
(* for the agent, whose failed calls are all counted (step counts a call   *)
(* before it can fail); and an episode the cap ended is not also one the   *)
(* duel ended: it is a draw.                                               *)
CapHolds ==
  /\ steps < MaxSteps + MaxPick + failed /\ oppSteps < MaxSteps + MaxPick
  /\ timedOut => AtCap /\ ~over /\ obs # "prompt"

Selecting == obs = "prompt" /\ pc \in {"idle", "auto"} /\ sel # <<>>

(* A multi-step selection ends: no sequence of legal picks is a dead end   *)
(* or goes round in circles.                                               *)
SelectionEnds == Selecting ~> ~Selecting

(* "Force-terminates a non-terminating duel": false.  The cap counts       *)
(* choices; prompts with one answer, collapsed or the opponent's, come     *)
(* back for ever without one.                                              *)
NonTerminatingDuelIsStopped == (pc = "loop") ~> (pc = "idle")
=============================================================================
