------------------------------ MODULE EvalPool ------------------------------
(***************************************************************************)
(* The parallel path of evaluate() (rl/eval.py): _run_eval_pool hands the  *)
(* tasks, one episode of one opponent each, to worker processes over pipes,*)
(* one outstanding task per worker, and sorts what comes back;             *)
(* _eval_worker plays them, with one environment cached by opponent.       *)
(***************************************************************************)
EXTENDS Integers, Sequences, FiniteSets

CONSTANTS
  Specs,       (* opponent_specs                                           *)
  NumEpisodes, (* num_episodes                                             *)
  NumWorkers,  (* the workers argument of evaluate()                       *)
  MaxFaults    (* bound: exceptions, deaths, hangs and late replies        *)

ASSUME EvalPoolAssumption ==
  /\ Specs \in Seq(STRING) /\ Specs # <<>>
  /\ NumEpisodes \in Nat \ {0}
  /\ NumWorkers \in Nat \ {0} /\ MaxFaults \in Nat

Opponents == DOMAIN Specs
Episodes  == 1 .. NumEpisodes
NumTasks  == Len(Specs) * NumEpisodes
Ids       == 1 .. NumTasks

(* _build_tasks: opponent by opponent.                                     *)
OppOf(n) == ((n - 1) \div NumEpisodes) + 1
Task(n)  == [opp |-> OppOf(n), spec |-> Specs[OppOf(n)],
             ep |-> n - (OppOf(n) - 1) * NumEpisodes]

K       == IF NumWorkers < NumTasks THEN NumWorkers ELSE NumTasks
Workers == 1 .. K
NoTask  == 0

VARIABLES
  (* The pool driver. *)
  pc,           (* where it is                                             *)
  at,           (* the worker its first loop has reached                   *)
  next,         (* the task task_iter yields next                          *)
  outstanding,  (* per worker: its task, or NoTask                         *)
  ready,        (* ready_conns not yet received from                       *)
  partials,     (* partial results, as they arrived                        *)
  err,          (* the exception raised, with the opponent it names        *)
  (* The pipes. *)
  cmds,         (* per worker: commands not yet read                       *)
  replies,      (* per worker: replies not yet read                        *)
  (* The workers. *)
  wpc,          (* where each is                                           *)
  task,         (* the task it was given last                              *)
  cached,       (* current_spec: what its environment was built for        *)
  faults        (* faults so far                                           *)

driver == <<pc, at, next, outstanding, ready, partials, err>>
worker == <<wpc, task, cached>>
vars   == <<driver, cmds, replies, worker, faults>>

Gone     == {"exited", "dead"}
Alive(w) == wpc[w] \notin Gone
Busy     == {w \in Workers : outstanding[w] # NoTask}

NoError == [kind |-> "none", opp |-> "", by |-> NoTask]
Shutdown == NoTask                       (* a command that is not a task   *)
Partial(n, env) == [kind |-> "partial", task |-> n, env |-> env]
Error(n) == [kind |-> "error", task |-> n, env |-> ""]

Init ==
  /\ pc = "give" /\ at = 1 /\ next = 1
  /\ outstanding = [w \in Workers |-> NoTask]
  /\ ready = {} /\ partials = <<>> /\ err = NoError
  /\ cmds = [w \in Workers |-> <<>>] /\ replies = [w \in Workers |-> <<>>]
  /\ wpc = [w \in Workers |-> "make"]
  /\ task = [w \in Workers |-> NoTask] /\ cached = [w \in Workers |-> ""]
  /\ faults = 0

Fault == faults < MaxFaults /\ faults' = faults + 1

-----------------------------------------------------------------------------
(* The driver.                                                             *)

Raise(kind, opp, by) == err' = [kind |-> kind, opp |-> opp, by |-> by] /\ pc' = "close"

(* Mutant: the task sent is not recorded as outstanding.                   *)
SendTaskUnrecorded(w, where) ==
  IF Alive(w)
  THEN /\ cmds' = [cmds EXCEPT ![w] = Append(@, next)]
       /\ next' = next + 1 /\ pc' = where /\ UNCHANGED <<outstanding, err>>
  ELSE /\ Raise("WorkerDiedError", "", NoTask)
       /\ next' = next + 1 /\ UNCHANGED <<cmds, outstanding>>

(* _send_task: a pipe whose other end is gone is a dead worker.            *)
SendTask(w, where) ==
  IF Alive(w)
  THEN /\ cmds' = [cmds EXCEPT ![w] = Append(@, next)]
       /\ outstanding' = [outstanding EXCEPT ![w] = next]
       /\ next' = next + 1
       /\ pc' = where /\ UNCHANGED err
  ELSE /\ Raise("WorkerDiedError", "", NoTask)
       /\ next' = next + 1
       /\ UNCHANGED <<cmds, outstanding>>

(* One task for each worker; there are at least as many tasks.             *)
Give ==
  /\ pc = "give"
  /\ SendTask(at, IF at < K THEN "give" ELSE "wait")
  /\ at' = IF at < K THEN at + 1 ELSE at
  /\ UNCHANGED <<ready, partials, replies, worker, faults>>

Readable(w) == replies[w] # <<>> \/ ~Alive(w)

(* connection.wait: every busy pipe that has a reply or is closed.         *)
Wait ==
  /\ pc = "wait" /\ Busy # {}
  /\ ready' = {w \in Busy : Readable(w)} /\ ready' # {}
  /\ pc' = "recv"
  /\ UNCHANGED <<at, next, outstanding, partials, err, cmds, replies, worker, faults>>

(* connection.wait timed out: everybody hangs, or (a fault) is late.       *)
WaitExpires ==
  /\ pc = "wait" /\ Busy # {} /\ \A w \in Busy : ~Readable(w)
  /\ IF \A w \in Busy : wpc[w] = "hung" THEN UNCHANGED faults ELSE Fault
  /\ pc' = "silent"
  /\ UNCHANGED <<at, next, outstanding, ready, partials, err, cmds, replies, worker>>

(* After a timeout: is anybody dead?                                       *)
Blame ==
  /\ pc = "silent"
  /\ Raise(IF \E w \in Busy : ~Alive(w) THEN "WorkerDiedError" ELSE "WorkerTimeoutError",
           "", NoTask)
  /\ UNCHANGED <<at, next, outstanding, ready, partials, cmds, replies, worker, faults>>

(* Mutants: the opponent of the task sent last is blamed; task_iter is     *)
(* read one past its end.                                                  *)
BlamedNewest(w)  == Task(next - 1).spec
HasTaskOffByOne  == next <= NumTasks + 1

Blamed(w) == Task(outstanding[w]).spec
HasTask   == next <= NumTasks

(* One ready pipe: a closed one, an error, or a partial result, for which  *)
(* the worker gets the next task.                                          *)
Receive(w) ==
  /\ pc = "recv" /\ w \in ready
  /\ ready' = ready \ {w}
  /\ IF replies[w] = <<>>
     THEN /\ Raise("WorkerDiedError", "", NoTask)
          /\ UNCHANGED <<next, outstanding, partials, cmds, replies>>
     ELSE LET r     == Head(replies[w])
              where == IF ready' = {} THEN "wait" ELSE "recv"
          IN  /\ replies' = [replies EXCEPT ![w] = Tail(@)]
              /\ IF r.kind = "error"
                 THEN /\ Raise("EvalWorkerError", Blamed(w), r.task)
                      /\ UNCHANGED <<next, outstanding, partials, cmds>>
                 ELSE /\ partials' = Append(partials, r)
                      /\ IF HasTask
                         THEN SendTask(w, where)
                         ELSE /\ outstanding' = [outstanding EXCEPT ![w] = NoTask]
                              /\ pc' = where /\ UNCHANGED <<next, cmds, err>>
  /\ UNCHANGED <<at, worker, faults>>

(* The loop is over.                                                       *)
Finish ==
  /\ pc = "wait" /\ Busy = {}
  /\ pc' = "close"
  /\ UNCHANGED <<at, next, outstanding, ready, partials, err, cmds, replies, worker, faults>>

(* finally: shutdown down every pipe, join, terminate who is still there.  *)
Close ==
  /\ pc = "close"
  /\ cmds' = [w \in Workers |-> Append(cmds[w], Shutdown)]
  /\ pc' = "reap" /\ at' = 1
  /\ UNCHANGED <<next, outstanding, ready, partials, err, replies, worker, faults>>

Reap ==
  /\ pc = "reap"
  /\ wpc' = [wpc EXCEPT ![at] = IF @ = "exited" THEN @ ELSE "dead"]
  /\ IF at < K THEN at' = at + 1 /\ UNCHANGED pc ELSE at' = at /\ pc' = "done"
  /\ UNCHANGED <<next, outstanding, ready, partials, err, cmds, replies, task, cached,
                 faults>>

DriverNext ==
  \/ Give \/ Wait \/ WaitExpires \/ Blame \/ Finish \/ Close \/ Reap
  \/ \E w \in Workers : Receive(w)

-----------------------------------------------------------------------------
(* A worker.                                                               *)

(* make_eval_agent.                                                        *)
Make(w) ==
  /\ wpc[w] = "make"
  /\ wpc' = [wpc EXCEPT ![w] = "idle"]
  /\ UNCHANGED <<driver, cmds, replies, task, cached, faults>>

(* Mutant: the environment of the previous task is kept.                   *)
TakeKeepEnv(w) ==
  /\ wpc[w] = "idle" /\ cmds[w] # <<>>
  /\ LET n == Head(cmds[w])
     IN  /\ cmds' = [cmds EXCEPT ![w] = Tail(@)]
         /\ IF n = Shutdown
            THEN wpc' = [wpc EXCEPT ![w] = "exited"] /\ UNCHANGED <<task, cached>>
            ELSE /\ wpc' = [wpc EXCEPT ![w] = "play"]
                 /\ task' = [task EXCEPT ![w] = n]
                 /\ cached' = [cached EXCEPT ![w] = IF @ = "" THEN Task(n).spec ELSE @]
  /\ UNCHANGED <<driver, replies, faults>>

(* A task: rebuild the environment when the opponent changes.              *)
Take(w) ==
  /\ wpc[w] = "idle" /\ cmds[w] # <<>>
  /\ LET n == Head(cmds[w])
     IN  /\ cmds' = [cmds EXCEPT ![w] = Tail(@)]
         /\ IF n = Shutdown
            THEN wpc' = [wpc EXCEPT ![w] = "exited"] /\ UNCHANGED <<task, cached>>
            ELSE /\ wpc' = [wpc EXCEPT ![w] = "play"]
                 /\ task' = [task EXCEPT ![w] = n]
                 /\ cached' = [cached EXCEPT ![w] = Task(n).spec]
  /\ UNCHANGED <<driver, replies, faults>>

(* The episode, and its partial result.                                    *)
Play(w) ==
  /\ wpc[w] = "play"
  /\ replies' = [replies EXCEPT ![w] = Append(@, Partial(task[w], cached[w]))]
  /\ wpc' = [wpc EXCEPT ![w] = "idle"]
  /\ UNCHANGED <<driver, cmds, task, cached, faults>>

(* An exception, of the agent's construction or of a task: the traceback   *)
(* is sent and the worker returns.                                         *)
WorkerRaises(w) ==
  /\ wpc[w] \in {"make", "play"} /\ Fault
  /\ replies' = [replies EXCEPT ![w] = Append(@, Error(task[w]))]
  /\ wpc' = [wpc EXCEPT ![w] = "exited"]
  /\ UNCHANGED <<driver, cmds, task, cached>>

Crash(w) ==
  /\ Alive(w) /\ Fault
  /\ wpc' = [wpc EXCEPT ![w] = "dead"]
  /\ UNCHANGED <<driver, cmds, replies, task, cached>>

Hang(w) ==
  /\ wpc[w] \in {"make", "play"} /\ Fault
  /\ wpc' = [wpc EXCEPT ![w] = "hung"]
  /\ UNCHANGED <<driver, cmds, replies, task, cached>>

WorkerNext(w) == Make(w) \/ Take(w) \/ Play(w)

Terminated == pc = "done" /\ UNCHANGED vars

Next ==
  \/ DriverNext
  \/ \E w \in Workers : WorkerNext(w) \/ WorkerRaises(w) \/ Crash(w) \/ Hang(w)
  \/ Terminated

(* The driver and every live worker keep running.                          *)
Fairness ==
  /\ WF_vars(DriverNext /\ UNCHANGED faults)
  /\ \A w \in Workers : WF_vars(WorkerNext(w))

Spec     == Init /\ [][Next]_vars
FairSpec == Spec /\ Fairness

-----------------------------------------------------------------------------
(* What is returned.                                                       *)

Of(i) == {j \in DOMAIN partials : Task(partials[j].task).opp = i}

(* Mutant: in the order of arrival.                                        *)
BeforeInArrival(j, k) == j < k

(* sorted(..., key=episode_idx), which is stable.                          *)
Before(j, k) ==
  LET e == Task(partials[j].task).ep  f == Task(partials[k].task).ep
  IN  e < f \/ (e = f /\ j < k)

(* _aggregate_partials.                                                    *)
Results ==
  [i \in Opponents |->
    [r \in 1 .. Cardinality(Of(i)) |->
      LET j == CHOOSE k \in Of(i) : Cardinality({l \in Of(i) : Before(l, k)}) = r - 1
      IN  [env |-> partials[j].env, ep |-> Task(partials[j].task).ep]]]

-----------------------------------------------------------------------------
(* Properties.                                                             *)

Names   == {""} \cup {Specs[i] : i \in Opponents}
Tasks   == Ids \cup {NoTask}
Replies == [kind : {"partial", "error"}, task : Tasks, env : Names]
Errors  == [kind : {"none", "WorkerDiedError", "WorkerTimeoutError", "EvalWorkerError"},
            opp : Names, by : Tasks]
Phases  == {"give", "wait", "recv", "silent", "close", "reap", "done"}
States  == {"make", "idle", "play", "hung"} \cup Gone

TypeOK ==
  /\ pc \in Phases /\ at \in Workers /\ next \in 1 .. NumTasks + 1
  /\ outstanding \in [Workers -> Tasks] /\ ready \in SUBSET Workers
  /\ partials \in Seq(Replies) /\ err \in Errors
  /\ cmds \in [Workers -> Seq(Tasks)] /\ replies \in [Workers -> Seq(Replies)]
  /\ wpc \in [Workers -> States] /\ task \in [Workers -> Tasks]
  /\ cached \in [Workers -> Names] /\ faults \in Nat

Accounted(n) ==
  Cardinality({w \in Workers : outstanding[w] = n})
    + Cardinality({j \in DOMAIN partials : partials[j].task = n})

(* No episode is lost or played twice for the result: while the loop runs, *)
(* a task that was handed out is outstanding at exactly one worker or has  *)
(* exactly one result, and no other task has any.                          *)
TasksAreAccountedFor ==
  pc \in {"give", "wait", "recv"} =>
    \A n \in Ids : Accounted(n) = IF n < next THEN 1 ELSE 0

(* No spurious failure and no wrong blame: the pool raises only after a    *)
(* fault, WorkerDiedError only when a worker is gone, and an exception     *)
(* raised while playing names the opponent that was being played.          *)
ErrorsAreHonest ==
  /\ err # NoError => faults > 0
  /\ err.kind = "WorkerDiedError" => \E w \in Workers : ~Alive(w)
  /\ (err.kind = "EvalWorkerError" /\ err.by # NoTask) => err.opp = Task(err.by).spec

(* What the call has come to.                                              *)
Outcome ==
  IF pc # "done" THEN [status |-> "running", results |-> <<>>]
  ELSE IF err # NoError THEN [status |-> "raised", results |-> <<>>]
  ELSE [status |-> "returned", results |-> Results]

(* The pool implements the sequential evaluation: when it returns, however *)
(* the tasks were spread and in whatever order the replies came, it returns*)
(* what the sequential path does; and it always returns or raises.         *)
Evaluate == INSTANCE Evaluation WITH outcome <- Outcome
ImplementsEvaluation == Evaluate!Spec
=============================================================================
