# A TLA+ project for yugioh-agent

yugioh-agent trains and runs agents for the Yu-Gi-Oh! card game on top of the
ygopro-core engine. This directory holds a formal model of the parts of it
whose correctness depends on the order in which things happen: what the model
says, what TLC checks on small instances and what TLAPS proves for all of them.

    tlc -workers 2 -config ActorLearner.cfg MCActorLearner.tla
    tlapm ActorLearner_proofs.tla         (and the other ..._proofs)

## 1. The system

| Part | Source | State it keeps | Operations | Talks to |
|---|---|---|---|---|
| Actor-learner training | `rl/actor_learner.py`, `rl/shared_weights.py`, `rl/ppo.py` | weights and a version in shared memory, a pipe per worker or one queue, a policy and a hidden state per worker | publish, refresh, collect, roll out, shut down | worker processes, by memory, pipe or queue |
| Self-play pool | `rl/opponent_pool.py`, `rl/env_wrapper.py`, `rl/ppo.py` (checkpoints) | a ring of snapshots, ratings and counts in shared memory; checkpoint files and the `latest` link; a cache per worker | save, add, attach, sample, report, resume | trainer and workers by memory, two runs by files |
| Duel environment | `env/server/environment.py`, `env/duel.py`, `env/action_space.py`, `env/action_loop_filter.py` | the duel, the prompt and the picks made so far, counters, the loop filter's memory | reset, step, run to the agent's next choice | the engine (ctypes), an opponent, its caller |
| HTTP API | `env/server/web_api.py`, `env/server/serving_env.py` | one environment and the display and recommend flags | reset, step, state | browser or Python client |
| Evaluation | `rl/eval.py` | a task list, one outstanding task per worker | evaluate | worker processes by pipe |
| MUD bot | `mud/` | a protocol state, a mirror of the zones | log in, join, answer prompts, read events, resync | a text server |
| Event stream | `env/message_parser.py`, `env/game_state.py`, `env/event_logger.py`, `env/event_buffer.py` | counts and life points, the names of the cards on the field, a bounded history | decode, update, enrich, stamp | the engine's buffer, the environment, the observation |
| Observations and networks | `env/observation.py`, `rl/features.py`, `rl/network.py` | none | encode, infer | |
| Opponents | `env/opponent.py`, `env/ygo_agent/` | an RNG, a hidden state, or a session: its id, the number of its next request, its last choice | select_action, reseed | an inference server (HTTP) |
| Leaderboard and commands | `leaderboard/`, `cli/` | result files | compare, sweep, rank | |
| Web client | `web/client/` | the prompt on screen, an epoch, a count of requests under way, timers, a replay | reset, submit, autoplay, auto-pass, replay, restart | HTTP API |
| Engine | `third_party/ygopro-core` (submodule) | the duel itself | process, respond | |

What is hard in it: processes that share tensors without a lock and tell each
other by a version counter; queues and pipes between processes any of which may
die or hang; crashes between two steps of a save; a selection that takes
several calls and is kept in three places; a filter that changes what may be
chosen; conversations with a server over an interleaved text stream; mirrors of a
duel kept from what is said of it; a remote agent whose answers may be lost; a
browser whose timers, clicks and replies cross.
`PROJECT.json` lists each hazard at its line with the properties that watch it.

## 2. The modules

`ActorLearner`, `OpponentPool`, `DuelEnv`, `EvalPool`, `MudClient`, `EventStream`,
`MudMirror`, `YgoBridge` and `WebClient` are specifications, `Evaluation` the
abstract one that `EvalPool` implements, `Frames` and `ActionSpace` the operators
of `EventStream` and `YgoBridge`; `MC...` are the instances TLC checks,
`..._proofs` the theorems. `DuelEnv` is the hub: `EventStream` is what it hears
from the engine, `YgoBridge` the opponent's seat, `WebClient` its caller.

### ActorLearner

One trainer, `NumEnvs` workers, in the mode `mode` (`config.vec_env_type`). The
value of a tensor is the number of the publish that wrote it, so a policy is
torn exactly when its tensors differ. Everything that one process can see of
another in the middle of an operation is a step of its own: `publish` writes one
tensor per step (`PublishTensor`) and bumps the version last (`PublishBump`);
`refresh_into` reads the version, copies a tensor per step, reads the version
again and accepts or retries (`RefreshBegin`, `RefreshCopy`, `RefreshAccept`,
`RefreshRetry`); the boot copy of `_init_worker` looks at no version
(`BootCopy`, `BootLabel`). A whole rollout is one step (`Roll`): nothing another
process can see happens within it. The two `collect_rollouts`, their errors
(`Raise`), the `finally` of `train` (`Close`) and `_reap_workers` (`Reap`) are
the trainer's.

What it shows. A refreshed policy may be torn (run `torn_read`: a version that is
bumped only after the writes cannot show a reader that a write is in progress),
but never by more than one publish (`TearIsAdjacent`); the lag filter therefore
bounds the age of what the learner sees (`BatchIsFresh`), except for the first
rollouts of a worker: a publish between the boot copy and the first read of the
version gives old weights a new label, and the refresh that would put it right is
skipped as a no-op (`actor_learner.py` 143-145).
In sync mode the go/rollout barrier makes the unlocked copy safe
(`SyncReadersExcluded`, `SyncBatchIsExact`).

### OpponentPool

The trainer's saves (`SaveOpen`, `SaveClose`, `Unlink`, `Link`, then
`add_snapshot`: `PublishTensor`, `PublishBump`, `InheritRating`, `ZeroGames`,
`CountAdd`), a crash at any point of them, and the resume from the files
(`Resume`, `Recent`); workers that sample (`SampleBegin`, `Look`, the refresh,
`Pick`) and report (`Report`, `Settle`, `Credit`) meanwhile. A rating is
represented by the snapshot whose strength it estimates and a count by the
snapshots it counts, which is what makes misplaced results visible.

What it shows. No worker is handed an empty slot (`OpponentExists`); a torn copy
keeps an old version on its label and is refreshed at the next sample
(`CopiesAreExact`, which holds because `sample` remembers the version it read
*before* `refresh_into`, not the one `refresh_into` returns); the ring is what
its definition says, after crashes too (`RingIsNewest`), unless a resume found a
checkpoint newer than the one it resumed from: `_save_checkpoint` writes the file
in place and moves the link afterwards, so a crash in between leaves one, torn
(and `from_resume` raises on it) or whole (and its snapshot is in the pool before
its update is made again). A game that straddles a slot's replacement is counted
for, and moves the rating of, the next occupant: no property says otherwise.

### DuelEnv

One environment, its caller, the opponent's seat and an engine of which only
this is known: it runs on when its prompt is answered legally, and then asks
anything of anybody, ends, or gives up. `Reset`, `ResetRejected`, `Step`,
`StepInvalid`, `StepEnded` are the calls; `Timeout`, `DuelEnds`, `EngineStops`,
`AskAgent`, `AskOpponent` the branches of `_process_to_agent_choice`; `ForcedPick` and
`AutoPick` its two collapse loops, a pick per step, and `OpponentPicks` the
opponent's. A card is its key in the loop filter, the filter's fingerprint is a
board, and the engine changes the board whenever it runs.

What it shows. What the caller is shown is what the engine waits for
(`PromptIsLive`); nothing it sends is refused (`RepliesAreLegal`), with the loop
filter hiding options, prompts collapsing and invalid indices replaced by a
fallback; the cap on choices (`CapHolds`) is exceeded by the picks of the selection
in progress at most and, for the agent, by its calls that failed meanwhile: `step`
counts a call before it looks at the index, and the cap is tested only once the
selection is over, so a caller that keeps sending invalid indices raises the count
without end (`failed` counts them); selections end (`SelectionEnds`). The cap does not stop a duel
that never offers a choice (`unstopped`), and a rejected reset leaves the
recommender armed by the reset before it, which the comment in `reset_duel`
(`web_api.py` 224-225) denies.

### EvalPool and Evaluation

`Evaluation` says what `evaluate()` promises whatever its `workers` argument: the
records of every opponent in the order given, its episodes in order, or an
exception. A record is the opponent its environment was built for and the number
of its episode: everything else in it is drawn from these two (agent, decks, seat
and duel are seeded per episode). `EvalPool` is the parallel path: the driver's
loops (`Give`, `Wait`, `Receive`, `WaitExpires` and `Blame`, `Close`, `Reap`),
pipes, and workers with their cached environment (`Make`, `Take`, `Play`,
`WorkerRaises`), which may crash or hang. A join that takes longer than its five
seconds is a step of `Reap` that comes before the worker's exit.

What it shows. Every task handed out is outstanding at one worker or answered
once (`TasksAreAccountedFor`), the pool raises only when something failed and
blames what did (`ErrorsAreHonest`), and it refines `Evaluation`
(`ImplementsEvaluation`, which reads the pool's state as an outcome through
`Outcome`: running until the driver is done, then the exception or the records),
the same opponent listed twice included: sorting by
episode hides the spread of the tasks, and `current_spec` keeps a worker from
playing one opponent's task in another's environment.

### MudClient

The bot is one coroutine that reads lines and sends commands; a step of the model
goes from one `recv_line` to the next, and `pc` names the loop whose `recv_line`
it is. The states before the duel are `Dispatch`; `HandleDuel` is
`_handle_duel`; `SendInfo` and `Resync` the resync, which runs inside the handling
of a prompt (`outer`) that is resumed after it (`Resume`); `Probe`, `ProbeAttack`,
`ProbeActivate`, `Discard`, `Decide`, `Submenu`, `ExecAttack`, `ExecActivate` the
idle and battle handlers; `Answer` the other prompts, with the agent's choice and
its translation; `SeeEnd` a duel's end, wherever it is read. The parser
(`Scan`, `Accumulate`) is part of each step that feeds it, and not of `Discard`,
which does not. A line is its kind and what is picked from it. The server is what
the bot's code and tests say of it: it answers commands one at a time, shows a
menu again after an informational command or "z", refuses what it does not wait
for, and may end the duel at any time. Its lines are one frame each.

What it shows. The login, the room and `start`, probed actions, submenus of cards
with several effects, and the answers of the agents are never refused
(`NothingIsRefused`), with one exception. For some prompts the bot does not work its
answer out (`Guessed`): it names as many cards as a sum needs at least, whatever the
total; it sends a zero for each counter and a `c` for a card's name; of several cards
to check it names one; and of several places it takes those from the chosen one on,
without going back at the end of the list. What the server accepts of these is
`wants`, and a guess outside of it is refused. A refusal is one terminal line, which
is no prompt to the parser, so the bot does not answer again and sits until the
server ends the duel: `SeenThrough`, that no loop waits for a line that does not come,
has that exception too. The agent chooses among exactly the server's menu
(`OffersTheMenu`). When the bot sends in the duel, everything it was sent has been
read (`InStep`), which is what makes reading up to one re-prompt line right.

A card in the hand whose name ends in a question mark (`Questions`) is a stray: the
parser takes its line in the answer to `hand` for a yes/no prompt, the bot answers it,
and what it sends and reads from then on is out of step. `strayed` remembers it;
`NothingIsRefused`, `OffersTheMenu` and `InStep` speak of the time before.

### EventStream and Frames

What the program knows of a duel without asking the engine. `Frames` is the wire
format: a parser is the number of bytes it reads, message by message, and a frame
may be longer or shorter than its parser expects, as it is when the core's
version is not the one the parser was written for; `Decodings` is then what
`parse_messages` makes of the rest of the buffer. In `EventStream` the engine moves
cards and says so (`Say` and the actions above it), a round of messages is decoded
(`Round`), updates the `GameState` message by message and, at the end of a chunk,
the `FieldTracker` and the `EventHistoryBuffer` (`Heard`, `Captured`); a reset
follows (`Reset`).

What it shows. At a choice the counts, life points, turn and chain are those of
the duel (`MirrorIsExact`) unless a frame that bears on them was lost or garbled,
and except for a deck and graveyard that were swapped, which no message counts;
the tracker's names are right (`TrackerNamesTheCard`) except after `MSG_SWAP` and
`MSG_SHUFFLE_SET_CARD`, which it ignores, and for cards a puzzle laid; the history
is the last events of this duel, in order and over all chunks
(`HistoryTellsTheDuel`), stamped with a turn between their own and the present
one: a chunk's events all get the turn in which the chunk ended.

### MudMirror

`MUDGameState`: one operator per handler (`OnSummon`, `OnLeave`, ...), the marks of
a discard (`m.marked`), and the resync in its four answers (`Answered`, `Resync`),
which a hand card with a question mark cuts short. The text server moves cards and
says one line each (`Move`, with `Routes` for the ways a card can go); a line names
a card and a spec, never the card itself.

What it shows. Every zone of the mirror holds the cards of the duel
(`MirrorIsExact`) but for those in `doubt`, and a resync repairs what it answers for.
Two things put a zone there. A line can be ambiguous to a reader that goes by name
and place (`IsAmbiguous`): about one of two cards of a name, or read while a zone that
cards are looked up in is wrong already; then every zone is open. And a line that
nobody could mistake can be mishandled by the code; then the zones of `Upset` are
open, and no others. Its cases, each found by TLC (the property fails without it) and
none of them documented:

* a card that comes back from the graveyard or from banishment is put on the field by
  both its lines: the second handler looks for an entry with the same spec, and the
  parser gives none (`game_state.py` 231; the comment there and `TestFromGYDedup` say
  the duplicate is skipped); and it is taken out of the deck, or of the opponent's
  hand, as well;
* a card the opponent summons from elsewhere than the hand is taken for one of the
  hand, and an own extra deck that was returned to is left wrong by a summon from it;
* a card destroyed in the hand stays listed; one discarded or destroyed there whose
  graveyard line follows goes to the graveyard twice (the handler marks it against
  that, 116-118, but a line with a spec of the hand does not look at the marks), and a
  discard of the opponent's is counted twice;
* marks that were never used survive the resync and swallow a later card;
* XYZ material is taken from the field only, and a detach is not read;
* the specs of a pile are not renumbered when a card leaves it;
* "m1" and "om1" name the same place after a resync of the opponent's table;
* a card leaves for the pile of who held it, not of who owns it;
* the opponent's set card has no name in the list, and keeps none when a line tells
  it; a set card of ours keeps its name when it changes sides.

### ActionSpace and YgoBridge

`ActionSpace` is what a prompt of any kind offers after the picks so far
(`Offered`), when a pick completes it (`Completes`, `CanFinish`), which picks of a
sum can still lead to one (`Reachable`) and what is answered. `YgoBridge` puts the
opponent of `env/ygo_agent` on top: sessions (`NewSession`, `Reseed`,
`ResetSession`), the request (`Body`, `Entries`, `Reconstruct`, `Translated`), the
reply and its matching (`Accept`, `Slot`), and every way a request can end
(`Predict`, `PredictNothing`, `PredictLost`, `Unreachable`, `PredictFails`,
`PredictRefused`). The inference server is external: what it may choose is read
off the request, the way the bridge's matchers expect it.

What it shows. A selection never runs out of choices (`NoDeadEnd`); what the
engine is told is what the server chose, over three systems of positions
(`PlaysWhatWasChosen`), unless `MAX_ACTIONS` cards fill the prompt and finishing, or
passing, has no slot left while the request still offers it (the list is cut after the
cards, and the server is told that the prompt may be finished); and the session and the opponent agree on where they are
(`InStep`), except from a lost reply, or lost sessions, to the next request that fails
or the next duel: the failure ends the session and a new one starts level. If no new
session can be had, the rest of the duel is played at slot 0. A 4xx heals nothing
either: a duel that gets one goes on at slot 0. Cards the other player has set are left out
of the request (`hidden_cards`).

### WebClient

The hook `useAIEngine` with its replay machine, per page (`hook[m]`); the page
(`Mount`, `Unmount`, `Restart`) and its buttons (`Click`, `Toggle`); timers (`Tick`,
`DwellOver`, `AutoPass`); replies and failures (`Receive`, `Fail`); and the two
endpoints (`ServeReset`, `ServeStep`), which carry requests out in any order, also
after the client has given them up. An action index is the number of the prompt it
was chosen for. A hook whose page is gone runs on, as its callbacks do.

What it shows. An index is carried out on the prompt it was chosen for
(`StepsMeetTheirPrompt`), and the page always comes to a state where the user has
something to do (`NeverStalls`). Both except the time from a request that overlaps
another, or comes from a page that is gone, to the next reset that is alone
(`alone`), and there the code does fail, which TLC shows when the exception is
taken away:

* a restart does not wait for an outstanding step: the server may carry the step
  out on the new duel, and the client drops the answer;
* when the restart's reply comes before the step's, the gate is still closed: an
  auto-pass is swallowed and the page stays at NO ACTIONS, an autoplay submit is
  swallowed too (the comment at `useAIEngine.ts` 444 rules that out);
* the failure of a superseded request puts the error page over the new duel;
* the zero-delay timer of an auto-pass is not cancelled on teardown, unlike the
  two things the comment at 455 names: the hook of a page that is gone may post a
  step, take its answer for its own (its epoch was read after the teardown), and
  under autoplay go on with the next.

## 3. The runs

| Run | Module, cfg | Expected | Question |
|---|---|---|---|
| `actor_learner` | MCActorLearner, ActorLearner.cfg | pass | both training modes under faults |
| `torn_read` | MCActorLearner, TornRead.cfg | violation | is an accepted refresh one publish? |
| `opponent_pool` | MCOpponentPool, OpponentPool.cfg | pass | ring, cache and files under crashes |
| `duel_env` | MCDuelEnv, DuelEnv.cfg | pass | the environment between caller and engine |
| `unstopped` | MCDuelEnv, Unstopped.cfg | violation | is a non-terminating duel stopped? |
| `eval_pool` | MCEvalPool, EvalPool.cfg | pass | does the pool implement the sequential evaluation? |
| `mud_client` | MCMudClient, MudClient.cfg | pass | is the text conversation kept in step, from login to the duel's end? |
| `event_stream` | MCEventStream, EventStream.cfg | pass | does the program know the duel from its messages? |
| `mud_mirror` | MCMudMirror, MudMirror.cfg | pass | does the bot know the duel from its lines? |
| `ygo_bridge` | MCYgoBridge, YgoBridge.cfg | pass | does the remote opponent play what its server chose? |
| `hidden_cards` | MCYgoBridge, HiddenCards.cfg | violation | does the request hold every card of the field? |
| `web_client` | MCWebClient, WebClient.cfg | pass | is what a page plays what it showed, and does it go on? |

**Bounds.** `ActorLearner.cfg`: two workers (one can lag or die while the other
goes on, and with two faults both die), two tensors (the least that can be torn),
three updates (a reader can miss a whole publish and meet the next), two
refresh attempts (`MaxRetries`; 16 in the code), a queue of one (`MaxQueue`: puts
wait, which delays a worker as a slow one would be), lag 0 (the strictest
filter). `OpponentPool.cfg`: a ring of two with a save every second update of
seven, so that the ring goes round twice and the final, unaligned checkpoint
differs from the aligned ones, and two crashes, one of them after a resume; one
worker, as workers do not write each other's state. `MCDuelEnv`: five questions (an action
that may be declined and one that may not; a fixed number of picks, an open one,
a tribute worth two), two cards, two boards, a cap of two, the filter's constants
at their least values (`SamplingStart` 2 and a history of one; 4 and more in the
code), one failed call (`MaxFailed`; the theorems are for any number), both settings
of `collapse_forced`. `EvalPool.cfg`: three opponents, the
first and last the same, three episodes of each on two workers, so that one
worker can fall behind by a whole opponent; two faults, so that a death can meet
a timeout. `MudClient.cfg`: two prompts in the duel, so that
the parser's context and the pending resync carry over from one to the other, two
cards of which one has several effects, three informational commands for the ten
(a first, a middle and a last one; the middle one may answer with a question), eleven
prompts without a handler, among them one of each kind the bot guesses at, one tie,
host and guest. `EventStream.cfg`: two
cards on two places each side and two duels; a behaviour draws its messages from
one repertoire of `MCEventStream`, so that messages that bear on one another meet
without the product of them all, with one frame cut or padded per duel.
`MudMirror.cfg`: four cards, two of one name, two columns, two turns, repertoires
as above. `YgoBridge.cfg`: every kind of prompt, selections that an opening pick
or an item worth two completes, sums with a dead end, a selection and a chain
that fill `MaxActions` (7; 32 in the code), two duels, two sessions of two requests.
`WebClient.cfg`: a page that restarts once and a page after it, replies with and
without events, and every answer from the third prompt on the end of a duel: one
duel of three prompts, which lets a step of one prompt meet the next, or two that
cross.

**Fairness.** `FairSpec` of ActorLearner: the trainer, and each worker, keeps
running (they are operating-system processes), while crashes, hangs, late replies
and NaN updates are never obliged to happen. A timeout is obliged only where the
code's own timeout makes it certain, that is when nobody is left to answer.
`FairSpec` of DuelEnv: a caller that is shown a prompt answers it (rollouts,
matches and the MUD loop step until done). `ServeSpec` assumes only that a call
which has been made runs on. `FairSpec` of EvalPool is as ActorLearner's. That of
MudClient: the bot's event loop runs it when a line is there, and the server
answers commands and goes on with the duel; it is never obliged to end a duel in
the middle of a prompt. WebClient: timers fire, and a request is answered or
breaks; the client sets no limit on its fetches, so this is asked of the network,
and nothing is asked of the user. The other modules state safety only.

## 4. The proofs

Eight modules have theorems, each for every value of the constants its `ASSUME`
admits. `TLC` evaluates these assumptions on the instances; they are types and
signs of the parameters, that `None` is not one of the things it stands beside, and
in `MudClient` that no command is taken for another (cards and informational
commands differ from each other and from the single letters) and that a prompt which is
not guessed at accepts any choice of as many items as it asks for. `EventStream` assumes a
little more, which the proof needs and the code gives: a layout puts at most one card
on a place of the field (the engine addresses a card there by its sequence), and what a
garbled frame is read as is a message with the fields its parser sets (`Message`). `YgoBridge`
assumes the same of its prompts, that what can be selected differs, and that a prompt
asks for no more than there is to select.
Each invariant is proved as one lemma per step (or group of steps that touch the
same state), on top of `TypeOK` and of the invariants before it, and the theorem
combines them by `PTL`.

**ActorLearner_proofs**, from `ActorLearnerAssumption`:

* `TypeCorrect`;
* `WriterInv`: while the trainer writes, the tensors before `at` hold
  `version + 1` and the others `version`; otherwise all hold `version`. With
  `ReaderInv` (what a worker has copied since `v_before` is at least `v_before`,
  and at most one more if the version has not moved) this gives
  `TearsAreAdjacent`;
* `RolloutInv`: what is true of a worker's policy when it sends stays true of the
  rollout on the queue, which gives `BatchesAreFresh` at the filter;
* `HiddenInv`, for `HiddenStatesMatch`;
* `BarrierInv`: for each point of the trainer's cycle, what is on every pipe,
  where every worker may be and which weights it holds. It is the reason the sync
  mode needs no lock: `SyncReadersAreExcluded`, `SyncBatchesAreExact`;
* `HonestInv`, for `ErrorsAreHonestAlways`: workers that are gone stay gone
  between the count and the exception.

**OpponentPool_proofs**, from `OpponentPoolAssumption`. Pool sizes, intervals and
numbers of updates are arbitrary, so the walk of `total_adds % pool_size` around the
ring is proved, not enumerated (`ModNext`, `ModSmall`, `RankOf`).

* `LatestIsAlwaysComplete`, by `LinkInv`: the link moves only to a file that is
  complete, and the file being written is newer than the link;
* `OpponentAlwaysExists`, by `SharedInv` (a slot below the occupied count was
  published, all of its tensors, before the count said so) and `CacheInv` (at each
  point of attach and sample, which slots of the worker's cache are filled, and
  that `occ` is at most the shared count);
* `CopiesAreAlwaysExact`, by `ExactInv`: a cache whose label is the slot's version
  holds the slot's tensors. It is inductive only together with what holds in the
  middle of a refresh, of the part that has been copied, and of the slot that is
  being published;
* `RingIsAlwaysNewest`, by `DiskInv` (which files there are, between two crashes)
  and `RingOk`: read from the slot to be replaced next, the ring is in the order of
  age and has no gap. `RingResumed` shows that `from_resume` builds such a ring
  from the files of any run, `RingBegin` and `RingEnd` that an add keeps it while
  the oldest slot is being replaced.

**DuelEnv_proofs**, from `DuelEnvAssumption`: `PromptIsAlwaysLive`,
`RepliesAreAlwaysLegal` and `CapAlwaysHolds`. The invariant (`EngineInv`,
`ChoiceInv`, `OpponentInv`, `CapInv`) relates the three places a selection is kept
in: the engine's prompt, the mapper's picks and the environment's message; they
agree between calls and in both collapse loops, and the picks can still be
completed. `ShownOf` (a prompt that is not answered yet has an option, and which)
and `AnswerLegal` (the picks that end a selection answer the prompt) are the lemmas
about its operators.

**WebClient_proofs**, from `ClientAssumption`: `StepsAlwaysMeetTheirPrompt`. `CallInv`
and `HookInv` say that two requests under way of one page have different epochs and
that leaving a page is its last epoch; they hold of requests that overlap too. `AloneInv` is about a request that is alone: a page that waits for
it has no timer and no replay left that could send, and whatever a page without a
request is about to send is for the server's prompt.

**EvalPool_proofs**, from `EvalPoolAssumption`: `TasksAreAlwaysAccountedFor`,
`ErrorsAreAlwaysHonest`, and `ReturnsWhatSequentialDoes`: `Spec => Evaluate!Safety`,
the refinement without its eventuality. The invariant follows a task from the
command pipe to the worker, the reply pipe and the results, and says in whose
environment it is played (`PcInv`, `PipeInv`, `TaskInv`, `EnvInv`); at the end every
number below `NumTasks` has one result, there are as many of each opponent as it has
episodes (`SizeOf`), and the sort puts episode `e` in place `e` (`RankOf`): the
records are `Sequential` (`ResultsAreSequential`). Before, every step is a stutter.

**YgoBridge_proofs**, from `YgoBridgeAssumption`, for any prompts, boards and server.
The assumption says of a prompt that it has the fields the parser sets (`Prompt`), that
the cards of a selection are different cards and the bits of an announcement different
bits, and that it asks for no more than there is (`Answerable`). Which sums it can make
is not assumed: a prompt that offers nothing at all is never asked (`Ask`), and that is
all the proof needs of a sum.

* `AlwaysInStep`: apart from the shape of the sessions (`SessionInv`), `InStep` is
  inductive as it stands;
* `NeverDeadEnd`: `PromptInv` says that the picks so far do not complete the prompt and
  are part of something that does (`Live`). For a sum that something is what
  `_reachable` found, in the order it found it; the next pick takes one item of it out
  of turn, so what is needed is that a sum is the same in any order
  (`SumsExist`, `TotalPermuted`, `SumExactShuffled`, `SumAtLeastShuffled`), whence one
  more pick of it is still reachable (`ReachNext`). A tribute short of its releases has
  a card left that is worth one (`SomethingLeft`), and taking what is offered keeps the
  prompt live (`TakeLive`);
* `PlaysChosen`: each action of a prompt has a shape that its kind determines (`Shape`,
  `ExtractedShapes`, `OfferedShapes`), an option of the server is one entry, phase,
  answer or pick of the request (`OptionOf`), and whatever matches the response to it
  reads the same to the engine (`EntryReads`, `PhaseReads`, `PickReads`, `FinishReads`).
  For a selection the cards the server already has are the picks, through the
  reconstructed list (`RebuiltAre`), and the one exception is the descriptor that was
  cut off (`PassCut`, `FinishCut`);
* `TypeCorrect`: a request has at most `MaxActions + 1` options (`OptionCount`), as every
  entry comes from an action of its own.

The induction over positions, subsets and sums is on a set of naturals, as in
`EventStream_proofs`.

**MudClient_proofs**, from `MudClientAssumption`, for any cards, effects, prompts,
counts and informational commands: `TypeCorrect`, `NothingIsEverRefused`,
`AlwaysOffersTheMenu` and `AlwaysInStep`. The last three are not inductive. What
they rest on (`Inv`) is, for each loop of the bot, what is in the two
streams: at most one command on the way up, and, once the server has taken it, on
the way down a suffix of one answer, lines of the kinds the command asks for and
then the one line the loop stops at (`Ends`). For a probe, what has been picked
together with what is still to be read is the menu, which gives `OffersTheMenu`
when the loop has stopped (`OffersMenu`). `LobbyInv` says it of login, room and rps,
`DuelInv` of each `pc` of the duel, `Following` of the main loop, and `InfoCase` and
`ResyncCase` of a resync with the prompt it was started by. The end of a duel may
come after any line, so every case has it at the end of the stream. After a refusal,
the prompt is one that is guessed at and the bot is in its main loop with nothing to
answer (`Refused`). Of a resync whose answer holds a question nothing is claimed once
the bot has read it: what is proved of every state is `Inv \/ strayed`. `TypeCorrect`
is inductive as it stands and holds past a stray.

**EventStream_proofs**, from `EventStreamAssumption`: `StreamTypeCorrect`, `MirrorExact`,
`TrackerNames` and `HistoryTells`, for any cards, layouts, repertoires and bytes a frame
may have too many or too few. What is true at a choice is not inductive: between two
choices the engine has said what the program has not read. The invariant
(`StreamInvariant`) is about what the program *would* know: were the buffer decoded now,
in any of the ways its frames may be, the GameState its messages lead to would be exact
(`MirrorInv`), and tracker and history right after the capture of the chunk so far and
these messages (`TellInv`), but for what the frames have hurt (`HurtFrom`). A step
of the engine adds one frame to that; a round moves a prefix from the future to the past
and leaves the whole as it was; a choice is where the future is empty. The first half of
the module is what this needs of folds: `FoldLeft` is a run over the indices
(`FoldRuns`, `RunsAgree`), so that a fold over a sequence one longer, or over two
sequences joined, is known (`UpdatedRuns`, `DecodingsAppend`). The induction is a
set of naturals closed under successor (`NatSet`), from the library's theorem that
< is well founded on the naturals (`WFMin`), which takes no operator as a parameter.

Only model-checked, and why:

* liveness, which the prover cannot reach: `TrainingEnds`, `SelectionEnds`,
  `NeverStalls`, `SeenThrough`, and the eventuality in `ImplementsEvaluation`;
* `MudMirror`: what it knows depends on which lines were ambiguous or mishandled
  (`IsAmbiguous`, `Upset`), a case distinction over names, specs and places that is as
  long as the module itself.

## 5. Not modelled, and what is left

Not modelled: the arrays an observation is encoded in, networks and gradient
steps, Elo numbers, rewards: numeric. Bytes of responses, descriptions, boards as
shown, logging, argument parsing: formatting. The engine, the inference server,
the text server, the browser and the network are external, as the code uses them.
`leaderboard/` and the sweeps of `cli/` are batch tools that write result files one
after the other; their only hazards are two tools on one file and a crash between
two writes. `SubprocVecEnv` is lock-step request and reply. Two requests that run
inside the environment at the same time (`web_api.py` has no lock) would need every
line of the environment as a step; `WebClient` has them in any order, each whole.

Simplified: a resume starts from `latest` (`train.py --resume` takes any checkpoint,
and going on from an older one may write over the file that `latest` names); a page is
left only from its board; what a sum reaches does not depend on the order of cards with
a zero level, as it may in `_select_sum_exact`; and after a rejected reset the caller
resets again (a `step` would ask an engine that is destroyed).

What is left to prove: the mirror of `MudMirror`, along the lines of `EventStream`.
