---------------------------- MODULE OpponentPool ----------------------------
(***************************************************************************)
(* The self-play pool of rl/opponent_pool.py: a ring of PoolSize snapshots *)
(* of the agent in shared memory, filled by the trainer each time it saves *)
(* a checkpoint (_save_checkpoint in rl/ppo.py) and rebuilt from the       *)
(* checkpoint files after a crash (from_resume); NumWorkers workers that   *)
(* sample an opponent at the start of an episode and report the result at  *)
(* its end (TrainingEnv in rl/env_wrapper.py).                             *)
(*                                                                         *)
(* A snapshot is the number of the update that saved it, Scripted is the   *)
(* initial opponent.  A tensor's value is the snapshot it belongs to; Blank*)
(* is what nobody has written.  A rating is represented by the occupant    *)
(* whose strength it estimates, a game count by the opponents it counts:   *)
(* Elo numbers are left out.                                               *)
(***************************************************************************)
EXTENDS Integers, FiniteSets, Sequences

CONSTANTS
  NumWorkers,    (* config.num_envs                                        *)
  PoolSize,      (* config.self_play_pool_size                             *)
  NTensors,      (* tensors per snapshot                                   *)
  NumUpdates,    (* num_updates of train()                                 *)
  SaveInterval,  (* config.save_interval                                   *)
  MaxRetries,    (* _MAX_REFRESH_RETRIES                                   *)
  MaxCrashes     (* bound: trainer crashes                                 *)

ASSUME OpponentPoolAssumption ==
  /\ NumWorkers \in Nat \ {0} /\ PoolSize \in Nat \ {0} /\ NTensors \in Nat \ {0}
  /\ NumUpdates \in Nat \ {0} /\ SaveInterval \in Nat \ {0}
  /\ MaxRetries \in Nat \ {0} /\ MaxCrashes \in Nat

Workers == 1 .. NumWorkers
Slots   == 0 .. PoolSize - 1
Tensors == 1 .. NTensors
Updates == 1 .. NumUpdates
Scripted == 0
Blank    == -1
Values   == {Blank, Scripted} \cup Updates
Whole(v) == [t \in Tensors |-> v]

VARIABLES
  (* The trainer. *)
  tpc,      (* where it is                                                 *)
  update,   (* updates completed                                           *)
  at,       (* the tensor publish copies next                              *)
  clean,    (* the last resume saw no checkpoint newer than its own        *)
  crashes,  (* crashes so far                                              *)
  (* The run directory. *)
  files,    (* per update: its checkpoint file is "none", "torn" or "ok"   *)
  latest,   (* what checkpoint_latest.pt points at, 0 when there is none   *)
  (* Shared memory: SharedPoolState. *)
  adds,     (* total_adds                                                  *)
  tensor,   (* slots[s]._tensors                                           *)
  version,  (* slots[s]._version                                           *)
  rating,   (* _ratings[s]: the occupant it estimates                      *)
  games,    (* _n_games[s]: the opponents it counts                        *)
  (* The workers. *)
  wpc,      (* where each is                                               *)
  occ,      (* occupied, read by sample()                                  *)
  slot,     (* the slot sample()'s loop looks at, then the slot it picked  *)
  seen,     (* slot_version                                                *)
  before,   (* v_before of refresh_into                                    *)
  wat,      (* the tensor refresh_into copies next                         *)
  tries,    (* refresh attempts used                                       *)
  cache,    (* _pool: the weights of each local opponent                   *)
  local,    (* _local_versions                                             *)
  held      (* the slot's rating as report_result read it                  *)

trainer == <<tpc, update, at, clean, crashes>>
disk    == <<files, latest>>
shm     == <<adds, tensor, version, rating, games>>
worker  == <<wpc, occ, slot, seen, before, wat, tries, cache, local, held>>
vars    == <<trainer, disk, shm, worker>>

TrainerPC == {"train", "save", "unlink", "link", "publish", "bump", "rate", "zero",
              "count", "done", "crashed", "failed"}
WorkerPC  == {"attach", "sample", "look", "begin", "copy", "end", "pick", "play", "settle",
              "credit", "dead"}

Aligned(n)  == n % SaveInterval = 0
(* Mutant: one slot too many counts as occupied.                           *)
OccupiedOneMore == IF adds < PoolSize THEN adds + 1 ELSE PoolSize
Occupied    == IF adds < PoolSize THEN adds ELSE PoolSize
Target      == adds % PoolSize                  (* add_snapshot's slot     *)
AfterSave   == IF update = NumUpdates THEN "done" ELSE "train"

(* Processes start over: _pool, _local_versions and the rest are local.    *)
FreshWorkers(pc) ==
  /\ wpc' = [w \in Workers |-> pc]
  /\ occ' = [w \in Workers |-> 0] /\ slot' = [w \in Workers |-> 0]
  /\ seen' = [w \in Workers |-> 0] /\ before' = [w \in Workers |-> 0]
  /\ wat' = [w \in Workers |-> 1] /\ tries' = [w \in Workers |-> 0]
  /\ cache' = [w \in Workers |-> [s \in Slots |-> Whole(Blank)]]
  /\ local' = [w \in Workers |-> [s \in Slots |-> 0]]
  /\ held' = [w \in Workers |-> Scripted]

(* create_trainer: empty slots, slot 0 the scripted opponent.              *)
Init ==
  /\ tpc = "train" /\ update = 0 /\ at = 1 /\ clean = TRUE /\ crashes = 0
  /\ files = [n \in Updates |-> "none"] /\ latest = 0
  /\ adds = 1
  /\ tensor = [s \in Slots |-> Whole(Blank)]
  /\ version = [s \in Slots |-> 0]
  /\ rating = [s \in Slots |-> Scripted] /\ games = [s \in Slots |-> {}]
  /\ wpc = [w \in Workers |-> "attach"]
  /\ occ = [w \in Workers |-> 0] /\ slot = [w \in Workers |-> 0]
  /\ seen = [w \in Workers |-> 0] /\ before = [w \in Workers |-> 0]
  /\ wat = [w \in Workers |-> 1] /\ tries = [w \in Workers |-> 0]
  /\ cache = [w \in Workers |-> [s \in Slots |-> Whole(Blank)]]
  /\ local = [w \in Workers |-> [s \in Slots |-> 0]]
  /\ held = [w \in Workers |-> Scripted]

-----------------------------------------------------------------------------
(* The trainer.                                                            *)

(* One update of train(); every save_interval of them, and after the last, *)
(* a checkpoint.                                                           *)
Update ==
  /\ tpc = "train" /\ update < NumUpdates
  /\ update' = update + 1
  /\ tpc' = IF Aligned(update + 1) \/ update + 1 = NumUpdates THEN "save" ELSE "train"
  /\ UNCHANGED <<at, clean, crashes, disk, shm, worker>>

(* Mutant: latest points at the file before it is written.                 *)
SaveOpenLinked ==
  /\ tpc = "save" /\ files[update] # "torn"
  /\ files' = [files EXCEPT ![update] = "torn"] /\ latest' = update
  /\ UNCHANGED <<trainer, shm, worker>>

(* torch.save opens (and so empties) the file, then fills it.              *)
SaveOpen ==
  /\ tpc = "save" /\ files[update] # "torn"
  /\ files' = [files EXCEPT ![update] = "torn"]
  /\ UNCHANGED <<trainer, latest, shm, worker>>

SaveClose ==
  /\ tpc = "save" /\ files[update] = "torn"
  /\ files' = [files EXCEPT ![update] = "ok"]
  /\ tpc' = "unlink"
  /\ UNCHANGED <<update, at, clean, crashes, latest, shm, worker>>

(* latest.unlink(missing_ok=True), then latest.symlink_to(path.name).      *)
Unlink ==
  /\ tpc = "unlink"
  /\ latest' = 0 /\ tpc' = "link"
  /\ UNCHANGED <<update, at, clean, crashes, files, shm, worker>>

Link ==
  /\ tpc = "link"
  /\ latest' = update /\ tpc' = "publish"
  /\ UNCHANGED <<update, at, clean, crashes, files, shm, worker>>

(* Mutant: the copy runs one tensor too far.                               *)
PublishTensorTooFar ==
  /\ tpc = "publish"
  /\ tensor' = [tensor EXCEPT ![Target][at] = update]
  /\ IF at <= NTensors THEN at' = at + 1 /\ tpc' = tpc ELSE at' = 1 /\ tpc' = "bump"
  /\ UNCHANGED <<update, clean, crashes, disk, adds, version, rating, games, worker>>

(* add_snapshot: publish one tensor into the next ring slot.               *)
PublishTensor ==
  /\ tpc = "publish"
  /\ tensor' = [tensor EXCEPT ![Target][at] = update]
  /\ IF at < NTensors THEN at' = at + 1 /\ tpc' = tpc ELSE at' = 1 /\ tpc' = "bump"
  /\ UNCHANGED <<update, clean, crashes, disk, adds, version, rating, games, worker>>

PublishBump ==
  /\ tpc = "bump"
  /\ version' = [version EXCEPT ![Target] = @ + 1]
  /\ tpc' = "rate"
  /\ UNCHANGED <<update, at, clean, crashes, disk, adds, tensor, rating, games, worker>>

(* add_snapshot: the slot inherits the agent's rating ...                  *)
InheritRating ==
  /\ tpc = "rate"
  /\ rating' = [rating EXCEPT ![Target] = update]
  /\ tpc' = "zero"
  /\ UNCHANGED <<update, at, clean, crashes, disk, adds, tensor, version, games, worker>>

(* ... its game count starts again ...                                     *)
ZeroGames ==
  /\ tpc = "zero"
  /\ games' = [games EXCEPT ![Target] = {}]
  /\ tpc' = "count"
  /\ UNCHANGED <<update, at, clean, crashes, disk, adds, tensor, version, rating, worker>>

(* ... and only then does total_adds grow.                                 *)
CountAdd ==
  /\ tpc = "count"
  /\ adds' = adds + 1
  /\ tpc' = AfterSave
  /\ UNCHANGED <<update, at, clean, crashes, disk, tensor, version, rating, games, worker>>

(* The trainer process dies: shared memory and the daemonic workers go.    *)
Crash ==
  /\ tpc \notin {"done", "crashed", "failed"} /\ crashes < MaxCrashes
  /\ tpc' = "crashed" /\ crashes' = crashes + 1
  /\ FreshWorkers("dead")
  /\ UNCHANGED <<update, at, clean, disk, shm>>

OnDisk == {n \in Updates : files[n] # "none"}

(* The k largest of a set of numbers, or all of them.                      *)
Newest(S, k) == {n \in S : Cardinality({m \in S : m > n}) < k}

(* sorted(S).                                                              *)
InOrder(S) ==
  [i \in 1 .. Cardinality(S) |-> CHOOSE n \in S : Cardinality({m \in S : m <= n}) = i]

(* Mutant: the oldest checkpoints instead of the newest.                   *)
RecentOldest ==
  LET all == {n \in OnDisk : Aligned(n)}
  IN  InOrder({n \in all : Cardinality({m \in all : m < n}) < PoolSize})

(* from_resume: the newest PoolSize aligned checkpoints, oldest first,     *)
(* after the scripted opponent unless they fill the ring by themselves.    *)
Recent == InOrder(Newest({n \in OnDisk : Aligned(n)}, PoolSize))

(* --resume checkpoint_latest.pt, or any complete checkpoint when the link *)
(* is gone.  from_resume loads every recent file: a torn one raises.       *)
Resume ==
  /\ tpc = "crashed"
  /\ \E u \in IF latest # 0 THEN {latest} ELSE {n \in OnDisk : files[n] = "ok"} :
       LET r     == Recent
           first == IF Len(r) >= PoolSize THEN 0 ELSE 1
           At(s) == IF s - first + 1 \in DOMAIN r THEN r[s - first + 1] ELSE Blank
       IN  IF \E i \in DOMAIN r : files[r[i]] = "torn"
           THEN /\ tpc' = "failed"
                /\ UNCHANGED <<update, at, clean, shm, worker>>
           ELSE /\ tpc' = IF u = NumUpdates THEN "done" ELSE "train"
                /\ update' = u /\ at' = 1
                /\ clean' = (clean /\ \A n \in OnDisk : n <= u)
                /\ adds' = first + Len(r)
                /\ tensor' = [s \in Slots |-> Whole(At(s))]
                /\ version' = [s \in Slots |-> IF At(s) = Blank THEN 0 ELSE 1]
                /\ rating' = [s \in Slots |-> IF At(s) = Blank THEN Scripted ELSE At(s)]
                /\ games' = [s \in Slots |-> {}]
                /\ FreshWorkers(IF u = NumUpdates THEN "dead" ELSE "attach")
  /\ UNCHANGED <<crashes, disk>>

(* Nothing to resume from: a new run, in a new directory.                  *)
StartOver ==
  /\ tpc = "crashed" /\ latest = 0 /\ \A n \in OnDisk : files[n] = "torn"
  /\ tpc' = "train" /\ update' = 0 /\ at' = 1 /\ clean' = TRUE
  /\ files' = [n \in Updates |-> "none"] /\ adds' = 1
  /\ tensor' = [s \in Slots |-> Whole(Blank)] /\ version' = [s \in Slots |-> 0]
  /\ rating' = [s \in Slots |-> Scripted] /\ games' = [s \in Slots |-> {}]
  /\ FreshWorkers("attach")
  /\ UNCHANGED <<crashes, latest>>

TrainerNext ==
  \/ Update \/ SaveOpen \/ SaveClose \/ Unlink \/ Link
  \/ PublishTensor \/ PublishBump \/ InheritRating \/ ZeroGames \/ CountAdd
  \/ Crash \/ Resume \/ StartOver

-----------------------------------------------------------------------------
(* The workers.  They run until the trainer closes the vec env.            *)

Running(w, pc) == wpc[w] = pc /\ tpc \notin {"done", "crashed", "failed"}

(* attach_worker: slot 0 is scripted as long as nothing was published in it*)
Attach(w) ==
  /\ Running(w, "attach")
  /\ cache' = IF adds >= 1 /\ version[0] = 0
              THEN [cache EXCEPT ![w][0] = Whole(Scripted)] ELSE cache
  /\ wpc' = [wpc EXCEPT ![w] = "sample"]
  /\ UNCHANGED <<trainer, disk, shm, occ, slot, seen, before, wat, tries, local, held>>

(* reset() calls sample(): read occupied_count, start the refresh loop.    *)
SampleBegin(w) ==
  /\ Running(w, "sample") /\ Occupied > 0
  /\ occ' = [occ EXCEPT ![w] = Occupied] /\ slot' = [slot EXCEPT ![w] = 0]
  /\ wpc' = [wpc EXCEPT ![w] = "look"]
  /\ UNCHANGED <<trainer, disk, shm, seen, before, wat, tries, cache, local, held>>

(* The loop moves to the next occupied slot, or is over.                   *)
Advance(w) ==
  IF slot[w] + 1 < occ[w]
  THEN slot' = [slot EXCEPT ![w] = @ + 1] /\ wpc' = [wpc EXCEPT ![w] = "look"]
  ELSE slot' = slot /\ wpc' = [wpc EXCEPT ![w] = "pick"]

(* slot_version is read; a slot that is not newer is skipped.              *)
Look(w) ==
  /\ Running(w, "look")
  /\ LET v == version[slot[w]]
     IN  IF v <= local[w][slot[w]]
         THEN Advance(w) /\ UNCHANGED seen
         ELSE seen' = [seen EXCEPT ![w] = v] /\ wpc' = [wpc EXCEPT ![w] = "begin"]
              /\ UNCHANGED slot
  /\ UNCHANGED <<trainer, disk, shm, occ, before, wat, tries, cache, local, held>>

RefreshBegin(w) ==
  /\ Running(w, "begin")
  /\ before' = [before EXCEPT ![w] = version[slot[w]]]
  /\ wpc' = [wpc EXCEPT ![w] = "copy"]
  /\ UNCHANGED <<trainer, disk, shm, occ, slot, seen, wat, tries, cache, local, held>>

RefreshCopy(w) ==
  /\ Running(w, "copy")
  /\ cache' = [cache EXCEPT ![w][slot[w]][wat[w]] = tensor[slot[w]][wat[w]]]
  /\ IF wat[w] < NTensors
     THEN wat' = [wat EXCEPT ![w] = @ + 1] /\ UNCHANGED wpc
     ELSE wat' = [wat EXCEPT ![w] = 1] /\ wpc' = [wpc EXCEPT ![w] = "end"]
  /\ UNCHANGED <<trainer, disk, shm, occ, slot, seen, before, tries, local, held>>

(* Mutant: no second look at the version, and the label is read late.      *)
RefreshAcceptUnchecked(w) ==
  /\ Running(w, "end")
  /\ local' = [local EXCEPT ![w][slot[w]] = version[slot[w]]]
  /\ tries' = [tries EXCEPT ![w] = 0]
  /\ Advance(w)
  /\ UNCHANGED <<trainer, disk, shm, occ, seen, before, wat, cache, held>>

(* refresh_into returns; the version remembered is the one read before it. *)
RefreshAccept(w) ==
  /\ Running(w, "end") /\ version[slot[w]] = before[w]
  /\ local' = [local EXCEPT ![w][slot[w]] = seen[w]]
  /\ tries' = [tries EXCEPT ![w] = 0]
  /\ Advance(w)
  /\ UNCHANGED <<trainer, disk, shm, occ, seen, before, wat, cache, held>>

(* refresh_into tries again, or raises StaleReadError: the worker dies.    *)
RefreshRetry(w) ==
  /\ Running(w, "end") /\ version[slot[w]] # before[w]
  /\ IF tries[w] + 1 < MaxRetries
     THEN tries' = [tries EXCEPT ![w] = @ + 1] /\ wpc' = [wpc EXCEPT ![w] = "begin"]
     ELSE wpc' = [wpc EXCEPT ![w] = "dead"] /\ UNCHANGED tries
  /\ UNCHANGED <<trainer, disk, shm, occ, slot, seen, before, wat, cache, local, held>>

(* _pick_slot: uniform or PFSP, any slot below occupied.                   *)
Pick(w) ==
  /\ Running(w, "pick")
  /\ \E s \in 0 .. occ[w] - 1 : slot' = [slot EXCEPT ![w] = s]
  /\ wpc' = [wpc EXCEPT ![w] = "play"]
  /\ UNCHANGED <<trainer, disk, shm, occ, seen, before, wat, tries, cache, local, held>>

(* The episode ends; report_result reads the slot's rating ...             *)
Report(w) ==
  /\ Running(w, "play")
  /\ held' = [held EXCEPT ![w] = rating[slot[w]]]
  /\ wpc' = [wpc EXCEPT ![w] = "settle"]
  /\ UNCHANGED <<trainer, disk, shm, occ, slot, seen, before, wat, tries, cache, local>>

(* ... writes it back, moved by the result ...                             *)
Settle(w) ==
  /\ Running(w, "settle")
  /\ rating' = [rating EXCEPT ![slot[w]] = held[w]]
  /\ wpc' = [wpc EXCEPT ![w] = "credit"]
  /\ UNCHANGED <<trainer, disk, adds, tensor, version, games, occ, slot, seen, before, wat,
                 tries, cache, local, held>>

(* ... and counts the game; the caller resets for the next episode.        *)
Credit(w) ==
  /\ Running(w, "credit")
  /\ games' = [games EXCEPT ![slot[w]] = @ \cup {cache[w][slot[w]][t] : t \in Tensors}]
  /\ wpc' = [wpc EXCEPT ![w] = "sample"]
  /\ UNCHANGED <<trainer, disk, adds, tensor, version, rating, occ, slot, seen, before, wat,
                 tries, cache, local, held>>

WorkerNext(w) ==
  \/ Attach(w) \/ SampleBegin(w) \/ Look(w)
  \/ RefreshBegin(w) \/ RefreshCopy(w) \/ RefreshAccept(w) \/ RefreshRetry(w)
  \/ Pick(w) \/ Report(w) \/ Settle(w) \/ Credit(w)

Terminated == tpc \in {"done", "failed"} /\ UNCHANGED vars

Next == TrainerNext \/ (\E w \in Workers : WorkerNext(w)) \/ Terminated

Spec == Init /\ [][Next]_vars

-----------------------------------------------------------------------------
(* Properties.                                                             *)

TypeOK ==
  /\ tpc \in TrainerPC /\ update \in 0 .. NumUpdates /\ at \in Tensors
  /\ clean \in BOOLEAN /\ crashes \in Nat
  /\ files \in [Updates -> {"none", "torn", "ok"}] /\ latest \in 0 .. NumUpdates
  /\ adds \in Nat
  /\ tensor \in [Slots -> [Tensors -> Values]] /\ version \in [Slots -> Nat]
  /\ rating \in [Slots -> Values] /\ games \in [Slots -> SUBSET Values]
  /\ wpc \in [Workers -> WorkerPC]
  /\ occ \in [Workers -> 0 .. PoolSize] /\ slot \in [Workers -> Slots]
  /\ seen \in [Workers -> Nat] /\ before \in [Workers -> Nat]
  /\ wat \in [Workers -> Tensors] /\ tries \in [Workers -> Nat]
  /\ cache \in [Workers -> [Slots -> [Tensors -> Values]]]
  /\ local \in [Workers -> [Slots -> Nat]]
  /\ held \in [Workers -> Values]

(* sample() never hands out a hole: whatever slot a worker picks below the *)
(* occupied count it read, it holds an opponent whose every tensor was     *)
(* published, while the trainer adds snapshots.                            *)
OpponentExists ==
  \A w \in Workers : wpc[w] = "play" =>
    \A t \in Tensors : cache[w][slot[w]][t] # Blank

Writing(s)    == tpc \in {"publish", "bump"} /\ Target = s
Refreshing(w) == wpc[w] \in {"begin", "copy", "end"}

(* A torn opponent heals: a worker that believes its copy of a slot current*)
(* has exactly the slot's snapshot as soon as the trainer is not writing   *)
(* it, for a copy torn by a publish has an old version on its label.       *)
CopiesAreExact ==
  \A w \in Workers, s \in Slots :
    (/\ local[w][s] = version[s] /\ version[s] > 0 /\ ~Writing(s)
     /\ ~(Refreshing(w) /\ slot[w] = s) /\ wpc[w] # "dead") => cache[w][s] = tensor[s]

(* The pool a run that never crashed would have after this many updates.   *)
Added == {Scripted} \cup {n \in Updates : n <= update /\ Aligned(n)}
Occupant(s) == IF version[s] = 0 THEN Scripted ELSE tensor[s][1]
Ring == {Occupant(s) : s \in 0 .. Occupied - 1}
Continuous == Ring = Newest(Added, PoolSize) /\ Occupied = Cardinality(Ring)

(* Between saves the ring holds the newest PoolSize opponents, each once,  *)
(* also after crashes and resumes, as long as no resume found a checkpoint *)
(* newer than the one it resumed from.                                     *)
RingIsNewest == (tpc = "train" /\ clean) => Continuous

(* checkpoint_latest.pt never points at a half-written file.               *)
LatestIsComplete == latest # 0 => files[latest] = "ok"
=============================================================================
