---------------------------- MODULE ActorLearner ----------------------------
(***************************************************************************)
(* The actor-learner half of training: one trainer process, NumEnvs worker *)
(* processes, the agent weights in shared memory between them              *)
(* (rl/shared_weights.py), and the way rollouts travel back                *)
(* (rl/actor_learner.py, driven by PPOTrainer.train in rl/ppo.py).         *)
(*                                                                         *)
(*   "sync"   the trainer sends "go" to every worker over a pipe and       *)
(*            blocks for one rollout of each (ActorLearnerVecEnv);         *)
(*   "async"  workers run all the time and put rollouts on a queue; the    *)
(*            trainer drains it and drops what is too old                  *)
(*            (AsyncActorLearnerVecEnv).                                   *)
(*                                                                         *)
(* A tensor's value is the number of the publish that wrote it: that is    *)
(* all the properties tell apart.  Copying a state_dict is one step per    *)
(* tensor, in dict order, in the writer and in the readers: the processes  *)
(* share the tensors with no lock.                                         *)
(***************************************************************************)
EXTENDS Integers, Sequences

CONSTANTS
  NumEnvs,     (* config.num_envs: how many worker processes               *)
  NTensors,    (* how many tensors the state_dict has                      *)
  NumUpdates,  (* num_updates of train(); bounds version                   *)
  MaxLag,      (* config.max_version_lag                                   *)
  MaxRetries,  (* _MAX_REFRESH_RETRIES                                     *)
  Modes,       (* the values config.vec_env_type may take here             *)
  MaxQueue,    (* bound: no put is scheduled on a queue this long          *)
  MaxFaults    (* bound: crashes, hangs, late replies and NaN updates      *)

ASSUME ActorLearnerAssumption ==
  /\ NumEnvs \in Nat \ {0}
  /\ NTensors \in Nat \ {0}
  /\ NumUpdates \in Nat \ {0}
  /\ MaxLag \in Nat
  /\ MaxRetries \in Nat \ {0}
  /\ Modes \subseteq {"sync", "async"}
  /\ MaxQueue \in Nat \ {0}
  /\ MaxFaults \in Nat

Workers == 1 .. NumEnvs
Tensors == 1 .. NTensors

VARIABLES
  mode,      (* config.vec_env_type                                        *)
  tensor,    (* shared memory: SharedPolicyWeights._tensors                *)
  version,   (* shared memory: SharedPolicyWeights._version                *)
  tpc,       (* where the trainer is                                       *)
  at,        (* the tensor or the worker the trainer's loop has reached    *)
  gen,       (* the number of the trainer's own weights                    *)
  update,    (* updates completed                                          *)
  batch,     (* the rollouts collect_rollouts has accepted so far          *)
  err,       (* the exception that ended training, or "none"               *)
  shutdown,  (* the shutdown event (async)                                 *)
  queue,     (* the rollout queue (async)                                  *)
  cmds,      (* per worker: commands on its pipe, unread (sync)            *)
  reply,     (* per worker: rollouts on its pipe, unread (sync)            *)
  wpc,       (* where each worker is                                       *)
  pol,       (* per worker: the tensors of its local policy                *)
  label,     (* per worker: the version it believes its policy has         *)
  source,    (* per worker: what filled pol, "boot" or "refresh"           *)
  before,    (* per worker: v_before of the refresh in progress            *)
  wat,       (* per worker: the next tensor to copy                        *)
  tries,     (* per worker: attempts this refresh has used                 *)
  hx,        (* per worker: the version its hidden state was built from    *)
  faults     (* faults so far                                              *)

shm     == <<tensor, version>>
trainer == <<tpc, at, gen, update, batch, err>>
ipc     == <<shutdown, queue, cmds, reply>>
worker  == <<wpc, pol, label, source, before, wat, tries, hx>>
vars    == <<mode, shm, trainer, ipc, worker, faults>>

Gone      == {"exited", "dead"}
Alive(w)  == wpc[w] \notin Gone
Errors    == {"none", "WorkerDiedError", "WorkerTimeoutError", "EOFError",
              "BrokenPipeError", "NonFiniteWeightsError"}
TrainerPC == {"send", "poll", "polled", "get", "empty", "learn", "publish",
              "bump", "close", "reap", "closed"}
WorkerPC  == {"boot", "label", "loop", "recv", "begin", "copy", "end", "roll",
              "hung"} \cup Gone

(* What a worker sends: the policy it rolled out with, the version it is    *)
(* tagged with, and where that policy came from.                           *)
Rollouts == [label : Nat, pol : [Tensors -> Nat], source : {"boot", "refresh"}]
Rollout(w) == [label |-> label[w], pol |-> pol[w], source |-> source[w]]

CollectPC == IF mode = "sync" THEN "send" ELSE "get"

(* The trainer publishes its initial weights, then spawns the workers.     *)
Init ==
  /\ mode \in Modes
  /\ tensor = [t \in Tensors |-> 1] /\ version = 1 /\ gen = 1
  /\ tpc = CollectPC /\ at = 1
  /\ update = 0 /\ batch = <<>> /\ err = "none"
  /\ shutdown = FALSE /\ queue = <<>>
  /\ cmds = [w \in Workers |-> <<>>] /\ reply = [w \in Workers |-> <<>>]
  /\ wpc = [w \in Workers |-> "boot"]
  /\ pol = [w \in Workers |-> [t \in Tensors |-> 0]]
  /\ label = [w \in Workers |-> 0]
  /\ source = [w \in Workers |-> "boot"]
  /\ before = [w \in Workers |-> 0]
  /\ wat = [w \in Workers |-> 1]
  /\ tries = [w \in Workers |-> 0]
  /\ hx = [w \in Workers |-> 0]
  /\ faults = 0

Fault == faults < MaxFaults /\ faults' = faults + 1

-----------------------------------------------------------------------------
(* The trainer.                                                            *)

(* Every exception reaches train()'s finally, which closes the vec env.    *)
Raise(e) == err' = e /\ tpc' = "close" /\ at' = 1 /\ UNCHANGED <<gen, update, batch>>

(* Sync: remote.send(("go", version)) to each worker in turn; a pipe whose *)
(* other end is gone raises BrokenPipeError.                               *)
SendGo ==
  /\ tpc = "send"
  /\ \/ /\ Alive(at)
        /\ cmds' = [cmds EXCEPT ![at] = Append(@, "go")]
        /\ IF at < NumEnvs THEN at' = at + 1 /\ tpc' = tpc ELSE at' = 1 /\ tpc' = "poll"
        /\ UNCHANGED <<gen, update, batch, err>>
     \/ /\ ~Alive(at)
        /\ Raise("BrokenPipeError") /\ UNCHANGED cmds
  /\ UNCHANGED <<mode, shm, shutdown, queue, reply, worker, faults>>

(* Mutant: learn from the first rollout that arrives.                      *)
TakeReplyOnlyOnce ==
  /\ tpc = "poll" /\ reply[at] # <<>>
  /\ reply' = [reply EXCEPT ![at] = Tail(@)]
  /\ batch' = Append(batch, Head(reply[at]))
  /\ at' = 1 /\ tpc' = "learn"
  /\ UNCHANGED <<mode, shm, gen, update, err, shutdown, queue, cmds, worker, faults>>

(* Sync: remote.poll(timeout) is true when a rollout waits and also when   *)
(* the worker's end is closed; recv() then raises EOFError.                *)
TakeReply ==
  /\ tpc = "poll"
  /\ \/ /\ reply[at] # <<>>
        /\ reply' = [reply EXCEPT ![at] = Tail(@)]
        /\ batch' = Append(batch, Head(reply[at]))
        /\ IF at < NumEnvs THEN at' = at + 1 /\ tpc' = tpc ELSE at' = 1 /\ tpc' = "learn"
        /\ UNCHANGED <<gen, update, err>>
     \/ /\ reply[at] = <<>> /\ ~Alive(at)
        /\ Raise("EOFError") /\ UNCHANGED reply
  /\ UNCHANGED <<mode, shm, shutdown, queue, cmds, worker, faults>>

(* Sync: poll() gave up on a live worker: hung, or (a fault) merely late.  *)
PollExpires ==
  /\ tpc = "poll" /\ reply[at] = <<>> /\ Alive(at)
  /\ IF wpc[at] = "hung" THEN faults' = faults ELSE Fault
  /\ tpc' = "polled"
  /\ UNCHANGED <<mode, shm, at, gen, update, batch, err, ipc, worker>>

(* Sync: is_alive() after poll() returned False.                           *)
BlameWorker ==
  /\ tpc = "polled"
  /\ Raise(IF Alive(at) THEN "WorkerTimeoutError" ELSE "WorkerDiedError")
  /\ UNCHANGED <<mode, shm, ipc, worker, faults>>

(* Mutant: the lag test is off by one.                                     *)
GetRolloutOneLater ==
  /\ tpc = "get" /\ queue # <<>>
  /\ queue' = Tail(queue)
  /\ LET r == Head(queue)
     IN  IF version - r.label <= MaxLag + 1
         THEN /\ batch' = Append(batch, r)
              /\ tpc' = IF Len(batch') < NumEnvs THEN "get" ELSE "learn"
         ELSE UNCHANGED <<batch, tpc>>
  /\ UNCHANGED <<mode, shm, at, gen, update, err, shutdown, cmds, reply, worker, faults>>

(* Async: take one rollout; keep it when its lag is within max_version_lag.*)
GetRollout ==
  /\ tpc = "get" /\ queue # <<>>
  /\ queue' = Tail(queue)
  /\ LET r == Head(queue)
     IN  IF version - r.label <= MaxLag
         THEN /\ batch' = Append(batch, r)
              /\ tpc' = IF Len(batch') < NumEnvs THEN "get" ELSE "learn"
         ELSE UNCHANGED <<batch, tpc>>
  /\ UNCHANGED <<mode, shm, at, gen, update, err, shutdown, cmds, reply, worker, faults>>

(* Async: queue.get timed out, which it does for certain when nobody is    *)
(* left to put, and otherwise because the workers are late (a fault).      *)
GetExpires ==
  /\ tpc = "get" /\ queue = <<>>
  /\ IF \A w \in Workers : wpc[w] \in Gone \cup {"hung"} THEN faults' = faults ELSE Fault
  /\ tpc' = "empty"
  /\ UNCHANGED <<mode, shm, at, gen, update, batch, err, ipc, worker>>

(* Mutant: the two errors are swapped.                                     *)
BlameWorkersSwapped ==
  /\ tpc = "empty"
  /\ Raise(IF \E w \in Workers : Alive(w) THEN "WorkerDiedError" ELSE "WorkerTimeoutError")
  /\ UNCHANGED <<mode, shm, ipc, worker, faults>>

(* Async: count the workers still alive after queue.Empty.                 *)
BlameWorkers ==
  /\ tpc = "empty"
  /\ Raise(IF \A w \in Workers : ~Alive(w) THEN "WorkerDiedError" ELSE "WorkerTimeoutError")
  /\ UNCHANGED <<mode, shm, ipc, worker, faults>>

(* Ingest, advantages and the gradient steps: new weights, not yet shared. *)
Learn ==
  /\ tpc = "learn"
  /\ gen' = gen + 1 /\ batch' = <<>>
  /\ tpc' = "publish" /\ at' = 1
  /\ UNCHANGED <<mode, shm, update, err, ipc, worker, faults>>

(* The update made a weight NaN or infinite: publish raises before it      *)
(* touches shared memory.                                                  *)
PublishRefused ==
  /\ tpc = "publish" /\ at = 1 /\ Fault
  /\ Raise("NonFiniteWeightsError")
  /\ UNCHANGED <<mode, shm, ipc, worker>>

(* dst.copy_(src) for one tensor.                                          *)
PublishTensor ==
  /\ tpc = "publish"
  /\ tensor' = [tensor EXCEPT ![at] = gen]
  /\ IF at < NTensors THEN at' = at + 1 /\ tpc' = tpc ELSE at' = 1 /\ tpc' = "bump"
  /\ UNCHANGED <<mode, version, gen, update, batch, err, ipc, worker, faults>>

(* self._version[0] += 1, after the last tensor; then the next update.     *)
PublishBump ==
  /\ tpc = "bump"
  /\ version' = version + 1
  /\ update' = update + 1
  /\ tpc' = IF update + 1 = NumUpdates THEN "close" ELSE CollectPC
  /\ UNCHANGED <<mode, tensor, at, gen, batch, err, ipc, worker, faults>>

(* close(): raise the shutdown event, or send "shutdown" down every pipe   *)
(* (a closed pipe is tolerated).                                           *)
Close ==
  /\ tpc = "close"
  /\ tpc' = "reap" /\ at' = 1
  /\ IF mode = "async" THEN shutdown' = TRUE /\ UNCHANGED cmds
                       ELSE cmds' = [w \in Workers |-> Append(cmds[w], "shutdown")]
                            /\ UNCHANGED shutdown
  /\ UNCHANGED <<mode, shm, gen, update, batch, err, queue, reply, worker, faults>>

(* _reap_workers: join(timeout=5), then terminate() whoever is still there.*)
Reap ==
  /\ tpc = "reap"
  /\ wpc' = [wpc EXCEPT ![at] = IF @ = "exited" THEN @ ELSE "dead"]
  /\ IF at < NumEnvs THEN at' = at + 1 /\ tpc' = tpc ELSE at' = at /\ tpc' = "closed"
  /\ UNCHANGED <<mode, shm, gen, update, batch, err, ipc, pol, label, source, before,
                 wat, tries, hx, faults>>

TrainerNext ==
  \/ SendGo \/ TakeReply \/ PollExpires \/ BlameWorker
  \/ GetRollout \/ GetExpires \/ BlameWorkers
  \/ Learn \/ PublishRefused \/ PublishTensor \/ PublishBump
  \/ Close \/ Reap

-----------------------------------------------------------------------------
(* The workers.                                                            *)

(* Mutant: the copy runs one tensor too far.                               *)
BootCopyTooFar(w) ==
  /\ wpc[w] = "boot"
  /\ pol' = [pol EXCEPT ![w][wat[w]] = tensor[wat[w]]]
  /\ IF wat[w] <= NTensors
     THEN wat' = [wat EXCEPT ![w] = @ + 1] /\ UNCHANGED wpc
     ELSE /\ wat' = [wat EXCEPT ![w] = 1]
          /\ wpc' = [wpc EXCEPT ![w] = IF mode = "sync" THEN "recv" ELSE "label"]
  /\ UNCHANGED <<mode, shm, trainer, ipc, label, source, before, tries, hx, faults>>

(* _init_worker: from_state_dict copies the shared tensors one by one, with *)
(* no look at the version.  The first env.reset() follows the last copy.   *)
BootCopy(w) ==
  /\ wpc[w] = "boot"
  /\ pol' = [pol EXCEPT ![w][wat[w]] = tensor[wat[w]]]
  /\ IF wat[w] < NTensors
     THEN wat' = [wat EXCEPT ![w] = @ + 1] /\ UNCHANGED wpc
     ELSE /\ wat' = [wat EXCEPT ![w] = 1]
          /\ wpc' = [wpc EXCEPT ![w] = IF mode = "sync" THEN "recv" ELSE "label"]
  /\ UNCHANGED <<mode, shm, trainer, ipc, label, source, before, tries, hx, faults>>

(* Async: current_version = weights.version, read after the boot copy.     *)
BootLabel(w) ==
  /\ wpc[w] = "label"
  /\ label' = [label EXCEPT ![w] = version]
  /\ hx' = [hx EXCEPT ![w] = version]
  /\ wpc' = [wpc EXCEPT ![w] = "loop"]
  /\ UNCHANGED <<mode, shm, trainer, ipc, pol, source, before, wat, tries, faults>>

(* Mutant: the version is never looked at again.                           *)
BoundaryNoRefresh(w) ==
  /\ wpc[w] = "loop"
  /\ wpc' = [wpc EXCEPT ![w] = IF shutdown THEN "exited" ELSE "roll"]
  /\ UNCHANGED <<mode, shm, trainer, ipc, pol, label, source, before, wat, tries, hx, faults>>

(* Async: the rollout boundary; refresh only when the version has moved.   *)
Boundary(w) ==
  /\ wpc[w] = "loop"
  /\ wpc' = [wpc EXCEPT ![w] = IF shutdown THEN "exited"
                              ELSE IF version # label[w] THEN "begin" ELSE "roll"]
  /\ UNCHANGED <<mode, shm, trainer, ipc, pol, label, source, before, wat, tries, hx, faults>>

(* Mutant: "go" starts the rollout without the refresh.                    *)
RecvNoRefresh(w) ==
  /\ wpc[w] = "recv" /\ cmds[w] # <<>>
  /\ cmds' = [cmds EXCEPT ![w] = Tail(@)]
  /\ wpc' = [wpc EXCEPT ![w] = IF Head(cmds[w]) = "go" THEN "roll" ELSE "exited"]
  /\ UNCHANGED <<mode, shm, trainer, shutdown, queue, reply, pol, label, source, before,
                 wat, tries, hx, faults>>

(* Sync: block in remote.recv() for "go" or "shutdown".                    *)
Recv(w) ==
  /\ wpc[w] = "recv" /\ cmds[w] # <<>>
  /\ cmds' = [cmds EXCEPT ![w] = Tail(@)]
  /\ wpc' = [wpc EXCEPT ![w] = IF Head(cmds[w]) = "go" THEN "begin" ELSE "exited"]
  /\ UNCHANGED <<mode, shm, trainer, shutdown, queue, reply, pol, label, source, before,
                 wat, tries, hx, faults>>

(* refresh_into: v_before.                                                 *)
RefreshBegin(w) ==
  /\ wpc[w] = "begin"
  /\ before' = [before EXCEPT ![w] = version]
  /\ wpc' = [wpc EXCEPT ![w] = "copy"]
  /\ UNCHANGED <<mode, shm, trainer, ipc, pol, label, source, wat, tries, hx, faults>>

(* refresh_into: sd[name].copy_(src) for one tensor, into the live policy. *)
RefreshCopy(w) ==
  /\ wpc[w] = "copy"
  /\ pol' = [pol EXCEPT ![w][wat[w]] = tensor[wat[w]]]
  /\ IF wat[w] < NTensors
     THEN wat' = [wat EXCEPT ![w] = @ + 1] /\ UNCHANGED wpc
     ELSE wat' = [wat EXCEPT ![w] = 1] /\ wpc' = [wpc EXCEPT ![w] = "end"]
  /\ UNCHANGED <<mode, shm, trainer, ipc, label, source, before, tries, hx, faults>>

(* Mutant: the version is not read again after the copy.                   *)
RefreshAcceptUnchecked(w) ==
  /\ wpc[w] = "end"
  /\ label' = [label EXCEPT ![w] = before[w]]
  /\ source' = [source EXCEPT ![w] = "refresh"]
  /\ hx' = [hx EXCEPT ![w] = before[w]]
  /\ before' = [before EXCEPT ![w] = 0] /\ tries' = [tries EXCEPT ![w] = 0]
  /\ wpc' = [wpc EXCEPT ![w] = "roll"]
  /\ UNCHANGED <<mode, shm, trainer, ipc, pol, wat, faults>>

(* Mutant: the hidden state outlives the refresh.                          *)
RefreshAcceptKeepHx(w) ==
  /\ wpc[w] = "end" /\ version = before[w]
  /\ label' = [label EXCEPT ![w] = version]
  /\ source' = [source EXCEPT ![w] = "refresh"]
  /\ before' = [before EXCEPT ![w] = 0] /\ tries' = [tries EXCEPT ![w] = 0]
  /\ wpc' = [wpc EXCEPT ![w] = "roll"]
  /\ UNCHANGED <<mode, shm, trainer, ipc, pol, wat, hx, faults>>

(* refresh_into: v_after equals v_before, so the copy is accepted; both    *)
(* loops then reset the hidden state.                                      *)
RefreshAccept(w) ==
  /\ wpc[w] = "end" /\ version = before[w]
  /\ label' = [label EXCEPT ![w] = version]
  /\ source' = [source EXCEPT ![w] = "refresh"]
  /\ hx' = [hx EXCEPT ![w] = version]
  /\ before' = [before EXCEPT ![w] = 0] /\ tries' = [tries EXCEPT ![w] = 0]
  /\ wpc' = [wpc EXCEPT ![w] = "roll"]
  /\ UNCHANGED <<mode, shm, trainer, ipc, pol, wat, faults>>

(* refresh_into: the version moved; copy again, or StaleReadError, which   *)
(* ends the worker, once _MAX_REFRESH_RETRIES attempts are spent.          *)
RefreshRetry(w) ==
  /\ wpc[w] = "end" /\ version # before[w]
  /\ IF tries[w] + 1 < MaxRetries
     THEN /\ tries' = [tries EXCEPT ![w] = @ + 1]
          /\ wpc' = [wpc EXCEPT ![w] = "begin"]
     ELSE wpc' = [wpc EXCEPT ![w] = "dead"] /\ UNCHANGED tries
  /\ UNCHANGED <<mode, shm, trainer, ipc, pol, label, source, before, wat, hx, faults>>

(* T policy and env steps with one policy, then the packed rollout is put  *)
(* on the queue or sent; async carries the hidden state into the next one. *)
Roll(w) ==
  /\ wpc[w] = "roll"
  /\ IF mode = "async"
     THEN /\ Len(queue) < MaxQueue
          /\ queue' = Append(queue, Rollout(w))
          /\ wpc' = [wpc EXCEPT ![w] = "loop"]
          /\ UNCHANGED reply
     ELSE /\ reply' = [reply EXCEPT ![w] = Append(@, Rollout(w))]
          /\ wpc' = [wpc EXCEPT ![w] = "recv"]
          /\ UNCHANGED queue
  /\ UNCHANGED <<mode, shm, trainer, shutdown, cmds, pol, label, source, before, wat, tries,
                 hx, faults>>

(* Async: shutdown_check() fired between two steps; the rollout is dropped.*)
RollAbandon(w) ==
  /\ wpc[w] = "roll" /\ mode = "async" /\ shutdown
  /\ wpc' = [wpc EXCEPT ![w] = "exited"]
  /\ UNCHANGED <<mode, shm, trainer, ipc, pol, label, source, before, wat, tries, hx, faults>>

(* An exception in the env or the policy, or a killed process.             *)
Crash(w) ==
  /\ Alive(w) /\ Fault
  /\ wpc' = [wpc EXCEPT ![w] = "dead"]
  /\ UNCHANGED <<mode, shm, trainer, ipc, pol, label, source, before, wat, tries, hx>>

(* An env step that never returns.                                         *)
Hang(w) ==
  /\ wpc[w] = "roll" /\ Fault
  /\ wpc' = [wpc EXCEPT ![w] = "hung"]
  /\ UNCHANGED <<mode, shm, trainer, ipc, pol, label, source, before, wat, tries, hx>>

WorkerNext(w) ==
  \/ BootCopy(w) \/ BootLabel(w) \/ Boundary(w) \/ Recv(w)
  \/ RefreshBegin(w) \/ RefreshCopy(w) \/ RefreshAccept(w) \/ RefreshRetry(w)
  \/ Roll(w) \/ RollAbandon(w)

Terminated == tpc = "closed" /\ UNCHANGED vars

Next ==
  \/ TrainerNext
  \/ \E w \in Workers : WorkerNext(w) \/ Crash(w) \/ Hang(w)
  \/ Terminated

(* The trainer and every live worker keep running; nothing obliges a fault.*)
Fairness ==
  /\ WF_vars(TrainerNext /\ UNCHANGED faults)
  /\ \A w \in Workers : WF_vars(WorkerNext(w))

Spec     == Init /\ [][Next]_vars
FairSpec == Spec /\ Fairness

-----------------------------------------------------------------------------
(* Properties.                                                             *)

TrainerTypes ==
  /\ mode \in {"sync", "async"}
  /\ tensor \in [Tensors -> Nat] /\ version \in Nat /\ gen \in Nat
  /\ tpc \in TrainerPC
  /\ IF tpc = "publish" THEN at \in Tensors ELSE at \in Workers
  /\ update \in Nat /\ err \in Errors /\ shutdown \in BOOLEAN /\ faults \in Nat

MessageTypes ==
  /\ batch \in Seq(Rollouts) /\ queue \in Seq(Rollouts)
  /\ cmds \in [Workers -> Seq({"go", "shutdown"})]
  /\ reply \in [Workers -> Seq(Rollouts)]

WorkerTypes ==
  /\ wpc \in [Workers -> WorkerPC]
  /\ pol \in [Workers -> [Tensors -> Nat]]
  /\ label \in [Workers -> Nat] /\ before \in [Workers -> Nat]
  /\ source \in [Workers -> {"boot", "refresh"}]
  /\ wat \in [Workers -> Tensors] /\ tries \in [Workers -> Nat]
  /\ hx \in [Workers -> Nat]

TypeOK == TrainerTypes /\ MessageTypes /\ WorkerTypes

Installed(w) == wpc[w] = "roll" /\ source[w] = "refresh"

(* A torn read mixes two neighbours only: a policy refresh_into accepted   *)
(* with label v holds, tensor by tensor, publish v or the one after it;    *)
(* the two version reads rule out everything older and everything newer.   *)
TearIsAdjacent ==
  \A w \in Workers : Installed(w) =>
    \A t \in Tensors : pol[w][t] \in {label[w], label[w] + 1}

(* The lag filter means something: when the trainer learns from a batch, a *)
(* rollout of a refreshed policy was played by weights no more than        *)
(* max_version_lag publishes old in every tensor, although rollouts wait   *)
(* in the queue, and a worker may refresh, while the trainer publishes.    *)
BatchIsFresh ==
  (mode = "async" /\ tpc = "learn") =>
    \A i \in DOMAIN batch : batch[i].source = "refresh" =>
      \A t \in Tensors : batch[i].pol[t] >= version - MaxLag

(* The go/rollout barrier makes the unlocked copy safe: a sync batch holds *)
(* one rollout per worker, each played by exactly the weights of the       *)
(* current version.                                                        *)
SyncBatchIsExact ==
  (mode = "sync" /\ tpc = "learn") =>
    /\ Len(batch) = NumEnvs
    /\ \A i \in DOMAIN batch :
         batch[i].label = version /\ \A t \in Tensors : batch[i].pol[t] = version

(* In sync mode nobody reads shared memory while the trainer writes it.    *)
SyncReadersExcluded ==
  (mode = "sync" /\ tpc \in {"publish", "bump"}) =>
    \A w \in Workers : wpc[w] \notin {"boot", "begin", "copy", "end"}

(* The hidden state a rollout starts from was built by the same weights:   *)
(* an hx never survives a refresh, in either worker loop.                  *)
HiddenStateMatchesWeights ==
  \A w \in Workers : wpc[w] = "roll" => hx[w] = label[w]

(* collect_rollouts says all async workers died only when none is alive,   *)
(* and training that ran into no error has made every update.              *)
ErrorsAreHonest ==
  /\ (mode = "async" /\ err = "WorkerDiedError") => \A w \in Workers : ~Alive(w)
  /\ (err = "none" /\ tpc \in {"close", "reap", "closed"}) => update = NumUpdates

(* Training ends, in both modes and whatever dies or hangs: the trainer    *)
(* reaches the end of close() with no worker left, and without a fault it  *)
(* has made every update (discarding stale rollouts never starves it).     *)
TrainingEnds ==
  <>(/\ tpc = "closed"
     /\ \A w \in Workers : ~Alive(w)
     /\ faults = 0 => update = NumUpdates)

(* "workers seeing the new version are guaranteed complete tensors": false.*)
(* A worker that copies while the trainer writes can read the same version *)
(* twice and hold a mix of two publishes under it.                         *)
RefreshIsConsistent ==
  \A w \in Workers : Installed(w) => \A t \in Tensors : pol[w][t] = label[w]
=============================================================================
